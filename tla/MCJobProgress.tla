--------------------------- MODULE MCJobProgress ----------------------------
(* Instances of the progress of a job for TLC.                             *)
EXTENDS JobProgress
=============================================================================
