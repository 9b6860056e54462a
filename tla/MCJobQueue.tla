----------------------------- MODULE MCJobQueue -----------------------------
(* Instances of the job queue for TLC.                                     *)
EXTENDS JobQueueRefinement, TLC

ClientSymmetry == Permutations(Client)
=============================================================================
