------------------------ MODULE JobQueueRefinement --------------------------
(* The job queue implements JobLifecycle as long as no statement fails.    *)
EXTENDS JobQueue

(* How far the execution of j has come, read off its row and its task.     *)
Turn(j) ==
    IF j \in gone             THEN "over"
    ELSE IF status[j] = "none" THEN "unborn"
    ELSE IF ~startedAt[j]      THEN "waiting"
    ELSE IF pc[j] \in Working THEN "working" ELSE "over"

Lifecycle == INSTANCE JobLifecycle WITH turn <- [j \in Job |-> Turn(j)]

(* Every behaviour of the queue is one of the lifecycle: a job is started  *)
(* once, finished once, and follows the documented statuses unless someone *)
(* asked to cancel it (layers.md, `Job status lifecycle').                 *)
LifecycleSpec == Lifecycle!Spec
=============================================================================
