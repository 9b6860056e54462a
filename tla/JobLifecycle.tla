---------------------------- MODULE JobLifecycle ----------------------------
(***************************************************************************)
(* What the job queue promises of a row of the jobs table, job by job:     *)
(*   - a job is started at most once and its outcome is recorded at most   *)
(*     once, and only by the task that was started for it;                 *)
(*   - a job nobody asks to cancel goes queued, running, then completed or *)
(*     failed, where a restart of the server also fails it;                *)
(*   - `cancelled' appears only with a request to cancel, and only such a  *)
(*     request lets the start or the outcome overwrite it;                 *)
(*   - a deleted row never returns.                                        *)
(***************************************************************************)
CONSTANT Job

VARIABLES
    status,     \* jobs.status, "none" where there is no row
    cancelReq,  \* jobs.cancel_requested
    turn        \* how far the one execution of a job has come

vars == <<status, cancelReq, turn>>

Init ==
    /\ status = [j \in Job |-> "none"]
    /\ cancelReq = [j \in Job |-> FALSE]
    /\ turn = [j \in Job |-> "unborn"]

Move(j, s, t) ==
    /\ status' = [status EXCEPT ![j] = s]
    /\ turn' = [turn EXCEPT ![j] = t]

(* The status the row has before s, or `cancelled' written in between.     *)
Was(j, s) == status[j] = s \/ (cancelReq[j] /\ status[j] = "cancelled")

Submit(j) == turn[j] = "unborn" /\ Move(j, "queued", "waiting") /\ UNCHANGED cancelReq

Start(j) ==
    turn[j] = "waiting" /\ Was(j, "queued") /\ Move(j, "running", "working") /\ UNCHANGED cancelReq

Finish(j) ==
    /\ turn[j] = "working" /\ Was(j, "running")
    /\ \E s \in {"completed", "failed"} : Move(j, s, "over")
    /\ UNCHANGED cancelReq

(* The execution ends without an outcome: cancelled, or the server ended.  *)
Quit(j) == turn[j] = "working" /\ Move(j, status[j], "over") /\ UNCHANGED cancelReq

Recover(j) ==
    turn[j] = "over" /\ status[j] = "running" /\ Move(j, "failed", "over") /\ UNCHANGED cancelReq

Cancel(j) ==
    /\ status[j] # "none" /\ Move(j, "cancelled", turn[j])
    /\ cancelReq' = [cancelReq EXCEPT ![j] = TRUE]

Delete(j) ==
    /\ status[j] # "none" /\ Move(j, "none", "over")
    /\ cancelReq' = [cancelReq EXCEPT ![j] = FALSE]

Next ==
    \E j \in Job :
        \/ Submit(j) \/ Start(j) \/ Finish(j) \/ Quit(j) \/ Recover(j)
        \/ Cancel(j) \/ Delete(j)

Spec == Init /\ [][Next]_vars
=============================================================================
