-------------------------- MODULE MCPurlResolution --------------------------
(* Instances of the resolution table for TLC: a URL that redirects to a    *)
(* repository, that repository, and a URL with none.                       *)
EXTENDS PurlResolution, TLC

CONSTANTS old, home, dead

MCFinal == (old :> home) @@ (home :> home) @@ (dead :> dead)

TaskKeySymmetry == Permutations(Task) \cup Permutations(Key)
=============================================================================
