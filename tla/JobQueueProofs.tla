--------------------------- MODULE JobQueueProofs ---------------------------
(***************************************************************************)
(* What is proved of the job queue.                                        *)
(*   I.   The safety properties of JobQueue hold for any number of jobs,   *)
(*        clients, failing statements, restarts and shutdowns.             *)
(*   II.  As long as no statement of the database fails it implements      *)
(*        JobLifecycle and forgets no job, over any crashes, shutdowns and *)
(*        restarts.                                                        *)
(*   III. In one life of the process, while no statement fails, a          *)
(*        completed job has its result: the row and the directory agree    *)
(*        although the handlers, the task and the cleanup write them in    *)
(*        separate steps.                                                  *)
(***************************************************************************)
EXTENDS JobQueueRefinement, FiniteSetTheorems, SequenceTheorems, TLAPS

-----------------------------------------------------------------------------
(* The inductive invariant.  Its core is the life of a job id: handed out, *)
(* inserted, enqueued once, taken once, over.                              *)

Inserted(j) == status[j] # "none" \/ j \in gone

NotStarted(j) == status[j] \in {"queued", "cancelled", "none"} /\ ~startedAt[j]

(* Ids and rows: nothing exists under an id that was not handed out, and   *)
(* nothing is left under one whose row was deleted.                        *)
RowInv ==
    \A j \in Job :
        /\ Inserted(j) \/ dir[j] # "absent" => j <= created
        /\ startedAt[j] => status[j] \notin {"none", "queued"}
        /\ j \in gone => status[j] = "none" /\ dir[j] = "absent"

(* Requests are served only while the server is up, and are about a job    *)
(* that has a row or had one; a new id is known to its creator only.       *)
ClientInv ==
    \A c \in Client :
        /\ on[c] <= created
        /\ at[c] # "idle" => server = "up" /\ on[c] \in Job
        /\ at[c] = "insert" => ~Inserted(on[c]) /\ \A d \in Client : on[d] = on[c] => d = c
        /\ at[c] \notin {"idle", "insert"} => Inserted(on[c])
        /\ at[c] = "enqueue" =>
              /\ NotStarted(on[c]) /\ pc[on[c]] = "none" /\ ~Waiting(on[c])
              /\ \A d \in Client : at[d] = "enqueue" /\ on[d] = on[c] => d = c
        /\ at[c] = "cancelTask" => status[on[c]] # "queued"
        /\ at[c] = "deleteRow" => dir[on[c]] = "absent"

QueueInv ==
    /\ \A j \in Job : Waiting(j) => Inserted(j) /\ pc[j] = "none" /\ NotStarted(j)
    /\ \A a, b \in 1..Len(queue) : queue[a] = queue[b] => a = b
    /\ server \in {"down", "starting"} => queue = <<>> /\ worker = NoJob

(* The worker and its task: the only job with a task is the one awaited.   *)
TaskInv ==
    /\ \A j \in Job :
        /\ pc[j] # "none" => worker = j /\ Inserted(j)
        /\ pc[j] \in {"get1", "setRunning"} => NotStarted(j)
        /\ j \in kill => pc[j] \in Live
    /\ worker # NoJob => pc[worker] # "none"
    /\ running \subseteq {worker}
    /\ server = "up" /\ worker # NoJob => worker \in running
    /\ server = "drained" /\ worker # NoJob => pc[worker] = "get1" /\ worker \notin kill

AnsweredInv ==
    \A j \in answered : Inserted(j) /\ status[j] # "queued" /\ (pc[j] \in Working => j \in kill)

SweepInv ==
    /\ \A j \in sweep : Inserted(j)
    /\ sweeping # NoJob => Inserted(sweeping) /\ dir[sweeping] = "absent"

IInv == TypeOK /\ RowInv /\ ClientInv /\ QueueInv /\ TaskInv /\ AnsweredInv /\ SweepInv

USE DEF Job, NoJob

-----------------------------------------------------------------------------
(* What a statement may leave in the table.                                *)
TableOK ==
    /\ status \in [Job -> Status] /\ gone \in SUBSET Job
    /\ cancelReq \in [Job -> BOOLEAN] /\ startedAt \in [Job -> BOOLEAN]

(* A statement keeps the types of the table.                               *)
LEMMA StatementTypes ==
    ASSUME TypeOK, NEW j \in Job,
           \/ InsertRow(j) \/ SetRunningRow(j) \/ RequestCancelRow(j) \/ DeleteRow(j)
           \/ \E s \in Status : SetStatus(j, s)
           \/ NoStatement
    PROVE  TableOK'
<1>1. CASE InsertRow(j)         BY <1>1 DEF TypeOK, TableOK, InsertRow, Status
<1>2. CASE SetRunningRow(j)     BY <1>2 DEF TypeOK, TableOK, SetRunningRow, UpdateStatus, Exists, Status
<1>3. CASE RequestCancelRow(j)
    BY <1>3 DEF TypeOK, TableOK, RequestCancelRow, UpdateStatus, Exists, Status, Terminal
<1>4. CASE DeleteRow(j)         BY <1>4 DEF TypeOK, TableOK, DeleteRow, Status
<1>5. CASE \E s \in Status : SetStatus(j, s)
    BY <1>5 DEF TypeOK, TableOK, SetStatus, UpdateStatus
<1>6. CASE NoStatement          BY <1>6 DEF TypeOK, TableOK, NoStatement, tableVars
<1> QED BY <1>1, <1>2, <1>3, <1>4, <1>5, <1>6

-----------------------------------------------------------------------------
(* Initially, and when nothing happens.                                    *)

(* The empty system, before the first start.                               *)
LEMMA InitInv == Init => IInv
BY JobQueueAssumption DEF Init, IInv, TypeOK, RowInv, ClientInv, QueueInv, TaskInv, AnsweredInv, SweepInv,
   Inserted, NotStarted, Waiting, Status, Terminal, ClientAwait, Live, Working, Over

(* A step that changes nothing keeps the invariant.                        *)
LEMMA StutterInv == IInv /\ UNCHANGED vars => IInv'
BY DEF vars, tableVars, workerVars, taskVars, clientVars, sweepVars, boundVars,
   IInv, TypeOK, RowInv, ClientInv, QueueInv, TaskInv, AnsweredInv, SweepInv,
   Inserted, NotStarted, Waiting

-----------------------------------------------------------------------------
(* The request handlers.  Most of their steps leave everything but the     *)
(* handler's own state alone.                                              *)
Elsewhere == UNCHANGED <<created, workerVars, pc, sweepVars, server>>

Counters == faults' \in Nat /\ starts' \in Nat /\ stops' \in Nat

(* create_job hands out the next id: nothing is known under it yet.        *)
LEMMA CreateJobInv ==
    ASSUME IInv, NEW c \in Client, CreateJob(c)
    PROVE  IInv'
<1> DEFINE n == created + 1
<1>1. /\ server = "up" /\ n \in Job /\ created' = n /\ dir' = [dir EXCEPT ![n] = "input"]
      /\ at' = [at EXCEPT ![c] = "insert"] /\ on' = [on EXCEPT ![c] = n]
      /\ UNCHANGED <<status, cancelReq, startedAt, gone, queue, worker, running, pc, kill, sweep, sweeping,
                     server, faults, starts, stops, answered>>
    BY JobQueueAssumption DEF CreateJob, NoStatement, IInv, TypeOK,
       tableVars, workerVars, taskVars, sweepVars, boundVars
<1>2. ~Inserted(n) /\ n # NoJob /\ \A d \in Client : on[d] # n
    BY <1>1 DEF IInv, TypeOK, RowInv, ClientInv
<1>3. TypeOK'
    BY <1>1 DEF IInv, TypeOK, ClientAwait
<1>4. RowInv' /\ SweepInv'
    BY <1>1, <1>2 DEF IInv, TypeOK, RowInv, SweepInv, Inserted
<1>5. ClientInv'
    BY <1>1, <1>2 DEF IInv, TypeOK, ClientInv, Inserted, NotStarted, Waiting
<1>6. QueueInv' /\ TaskInv' /\ AnsweredInv'
    BY <1>1 DEF IInv, QueueInv, TaskInv, AnsweredInv, Inserted, NotStarted, Waiting
<1> QED BY <1>3, <1>4, <1>5, <1>6 DEF IInv

(* A cancel or delete request for a job that has a row.                    *)
LEMMA RequestInv ==
    ASSUME IInv, NEW c \in Client, NEW j \in Job, NEW p \in {"cancelGet", "deleteGet"}, Request(c, j, p)
    PROVE  IInv'
<1>1. /\ server = "up" /\ Inserted(j)
      /\ at' = [at EXCEPT ![c] = p] /\ on' = [on EXCEPT ![c] = j]
      /\ UNCHANGED <<status, cancelReq, startedAt, gone, dir, created, queue, worker, running, pc, kill,
                     sweep, sweeping, server, faults, starts, stops, answered>>
    BY DEF Request, Exists, Inserted, NoStatement, tableVars, workerVars, taskVars, sweepVars, boundVars
<1>2. TypeOK'
    BY <1>1 DEF IInv, TypeOK, ClientAwait
<1>3. \A d \in Client : at[d] = "insert" => on[d] # j
    BY <1>1 DEF IInv, ClientInv
<1>4. ClientInv'
    BY <1>1, <1>3 DEF IInv, TypeOK, RowInv, ClientInv, Inserted, NotStarted, Waiting
<1>5. RowInv' /\ QueueInv' /\ TaskInv' /\ AnsweredInv' /\ SweepInv'
    BY <1>1 DEF IInv, RowInv, QueueInv, TaskInv, AnsweredInv, SweepInv, Inserted, NotStarted, Waiting
<1> QED BY <1>2, <1>4, <1>5 DEF IInv

(* A read, or an end: nothing but the handler's own await changes.         *)
LEMMA SuspendInv ==
    ASSUME IInv, NEW c \in Client, NEW p \in {"idle", "cancelSet", "deleteFiles"}, Suspend(c, p),
           p # "idle" => at[c] \notin {"idle", "insert"},
           NoStatement, Elsewhere, Counters, UNCHANGED <<dir, kill, answered>>
    PROVE  IInv'
<1>1. UNCHANGED <<status, cancelReq, startedAt, gone, dir, created, queue, worker, running, pc, kill,
                  sweep, sweeping, server, answered>>
    BY DEF NoStatement, Elsewhere, tableVars, workerVars, sweepVars
<1>2. at' = [at EXCEPT ![c] = p] /\ on' = [on EXCEPT ![c] = IF p = "idle" THEN NoJob ELSE @]
    BY DEF Suspend
<1>3. TypeOK'
    BY <1>1, <1>2 DEF Counters, IInv, TypeOK, ClientAwait
<1>4. ClientInv'
    BY <1>1, <1>2 DEF IInv, TypeOK, ClientInv, Inserted, NotStarted, Waiting
<1>5. RowInv' /\ QueueInv' /\ TaskInv' /\ AnsweredInv' /\ SweepInv'
    BY <1>1 DEF IInv, RowInv, QueueInv, TaskInv, AnsweredInv, SweepInv, Inserted, NotStarted, Waiting
<1> QED BY <1>3, <1>4, <1>5 DEF IInv

(* The reads of cancel_job and delete_job.                                 *)
LEMMA ClientReadInv ==
    ASSUME IInv, NEW c \in Client, CancelGet(c) \/ DeleteGet(c)
    PROVE  IInv'
<1>1. NoStatement /\ Elsewhere /\ UNCHANGED <<dir, kill, answered>>
    BY DEF CancelGet, DeleteGet, Elsewhere, workerVars, taskVars, sweepVars
<1>2. Counters
    BY DEF CancelGet, DeleteGet, Counters, boundVars, IInv, TypeOK
<1>3. PICK p \in {"idle", "cancelSet", "deleteFiles"} : Suspend(c, p)
    BY DEF CancelGet, DeleteGet
<1>4. at[c] \notin {"idle", "insert"}
    BY DEF CancelGet, DeleteGet
<1> QED BY <1>1, <1>2, <1>3, <1>4, SuspendInv

(* The three statements; the handler then goes on or, on an error, ends.   *)
LEMMA InsertInv ==
    ASSUME IInv, NEW c \in Client, NEW p \in {"enqueue", "idle"},
           at[c] = "insert", InsertRow(on[c]), Suspend(c, p),
           Elsewhere, Counters, UNCHANGED <<dir, kill, answered>>
    PROVE  IInv'
<1> DEFINE j == on[c]
<1>1. /\ j \in Job /\ ~Inserted(j)
      /\ \A d \in Client : on[d] = j => d = c
    BY DEF IInv, ClientInv
<1>2. /\ status' = [status EXCEPT ![j] = "queued"]
      /\ at' = [at EXCEPT ![c] = p] /\ on' = [on EXCEPT ![c] = IF p = "idle" THEN NoJob ELSE @]
      /\ UNCHANGED <<cancelReq, startedAt, gone, dir, created, queue, worker, running, pc, kill,
                     sweep, sweeping, server, answered>>
    BY DEF InsertRow, Suspend, Elsewhere, workerVars, sweepVars
<1>3. ~Waiting(j) /\ pc[j] = "none" /\ ~startedAt[j] /\ j <= created
    BY <1>1 DEF IInv, RowInv, QueueInv, TaskInv, ClientInv, Inserted
<1> HIDE DEF j
<1>4. TypeOK'
  <2>1. TableOK'
    BY StatementTypes, <1>1 DEF IInv, j
  <2> QED BY <1>2, <2>1 DEF Counters, IInv, TypeOK, TableOK, ClientAwait
<1>5. RowInv' /\ SweepInv'
    BY <1>1, <1>2, <1>3 DEF IInv, TypeOK, RowInv, SweepInv, Inserted
<1>6. ClientInv'
    BY <1>1, <1>2, <1>3 DEF IInv, TypeOK, ClientInv, Inserted, NotStarted, Waiting, j
<1>7. QueueInv' /\ TaskInv' /\ AnsweredInv'
    BY <1>1, <1>2, <1>3 DEF IInv, TypeOK, QueueInv, TaskInv, AnsweredInv, Inserted, NotStarted, Waiting
<1> QED BY <1>4, <1>5, <1>6, <1>7 DEF IInv

(* request_cancel; a row that is gone stays gone.                          *)
LEMMA CancelSetInv ==
    ASSUME IInv, NEW c \in Client, NEW p \in {"cancelTask", "idle"},
           at[c] = "cancelSet", RequestCancelRow(on[c]), Suspend(c, p),
           Elsewhere, Counters, UNCHANGED <<dir, kill, answered>>
    PROVE  IInv'
<1> DEFINE j == on[c]
<1>1. j \in Job /\ Inserted(j)
    BY DEF IInv, ClientInv
<1>2. /\ status' = [status EXCEPT ![j] = IF status[j] # "none" THEN "cancelled" ELSE @]
      /\ at' = [at EXCEPT ![c] = p] /\ on' = [on EXCEPT ![c] = IF p = "idle" THEN NoJob ELSE @]
      /\ UNCHANGED <<startedAt, gone, dir, created, queue, worker, running, pc, kill,
                     sweep, sweeping, server, answered>>
    BY DEF RequestCancelRow, UpdateStatus, Exists, Suspend, Elsewhere, workerVars, sweepVars
<1>3. /\ \A k \in Job : Inserted(k)' <=> Inserted(k)
      /\ \A k \in Job : NotStarted(k) => NotStarted(k)'
      /\ \A k \in Job : status'[k] = "queued" => status[k] = "queued" /\ k # j
    BY <1>1, <1>2 DEF IInv, TypeOK, Inserted, NotStarted
<1> HIDE DEF j
<1>4. TypeOK'
  <2>1. TableOK'
    BY StatementTypes, <1>1 DEF IInv, j
  <2> QED BY <1>2, <2>1 DEF Counters, IInv, TypeOK, TableOK, ClientAwait
<1>5. RowInv' /\ SweepInv'
    BY <1>1, <1>2, <1>3 DEF IInv, TypeOK, RowInv, SweepInv, Inserted
<1>6. ClientInv'
    BY <1>1, <1>2, <1>3 DEF IInv, TypeOK, ClientInv, Waiting, j
<1>7. QueueInv' /\ TaskInv' /\ AnsweredInv'
    BY <1>1, <1>2, <1>3 DEF IInv, TypeOK, QueueInv, TaskInv, AnsweredInv, Waiting
<1> QED BY <1>4, <1>5, <1>6, <1>7 DEF IInv

(* repo.delete in delete_job, after the directory was removed.             *)
LEMMA DeleteRowInv ==
    ASSUME IInv, NEW c \in Client,
           at[c] = "deleteRow", DeleteRow(on[c]), Suspend(c, "idle"),
           Elsewhere, Counters, UNCHANGED <<dir, kill, answered>>
    PROVE  IInv'
<1> DEFINE j == on[c]
<1>1. j \in Job /\ Inserted(j) /\ dir[j] = "absent"
    BY DEF IInv, ClientInv
<1>2. /\ status' = [status EXCEPT ![j] = "none"] /\ startedAt' = [startedAt EXCEPT ![j] = FALSE]
      /\ gone' = gone \cup {j}
      /\ at' = [at EXCEPT ![c] = "idle"] /\ on' = [on EXCEPT ![c] = NoJob]
      /\ UNCHANGED <<dir, created, queue, worker, running, pc, kill, sweep, sweeping, server, answered>>
    BY DEF DeleteRow, Suspend, Elsewhere, workerVars, sweepVars
<1>3. /\ \A k \in Job : Inserted(k)' <=> Inserted(k)
      /\ \A k \in Job : NotStarted(k) => NotStarted(k)'
      /\ \A k \in Job : status'[k] # status[k] => status'[k] = "none"
    BY <1>1, <1>2 DEF IInv, TypeOK, Inserted, NotStarted
<1> HIDE DEF j
<1>4. TypeOK'
  <2>1. TableOK'
    BY StatementTypes, <1>1 DEF IInv, j
  <2> QED BY <1>2, <2>1 DEF Counters, IInv, TypeOK, TableOK, ClientAwait
<1>5. RowInv' /\ SweepInv'
    BY <1>1, <1>2, <1>3 DEF IInv, TypeOK, RowInv, SweepInv
<1>6. ClientInv'
    BY <1>1, <1>2, <1>3 DEF IInv, TypeOK, ClientInv, Waiting
<1>7. QueueInv' /\ TaskInv' /\ AnsweredInv'
    BY <1>1, <1>2, <1>3 DEF IInv, TypeOK, QueueInv, TaskInv, AnsweredInv, Waiting
<1> QED BY <1>4, <1>5, <1>6, <1>7 DEF IInv

(* A statement is answered and the handler goes on.                        *)
LEMMA ClientCommitInv ==
    ASSUME IInv, NEW c \in Client, ClientCommit(c)
    PROVE  IInv'
<1>1. Elsewhere /\ Counters /\ UNCHANGED <<dir, kill, answered>>
    BY DEF ClientCommit, Elsewhere, Counters, workerVars, taskVars, sweepVars, boundVars, IInv, TypeOK
<1>2. CASE at[c] = "insert"    /\ InsertRow(on[c])
    BY <1>1, <1>2, InsertInv DEF ClientCommit, AfterStatement
<1>3. CASE at[c] = "cancelSet" /\ RequestCancelRow(on[c])
    BY <1>1, <1>3, CancelSetInv DEF ClientCommit, AfterStatement
<1>4. CASE at[c] = "deleteRow" /\ DeleteRow(on[c])
    BY <1>1, <1>4, DeleteRowInv DEF ClientCommit, AfterStatement
<1> QED BY <1>2, <1>3, <1>4 DEF ClientCommit, ClientStatement

(* A statement raises, executed or not, and the handler ends.              *)
LEMMA ClientDbErrorInv ==
    ASSUME IInv, NEW c \in Client, ClientDbError(c)
    PROVE  IInv'
<1>1. Elsewhere /\ Counters /\ UNCHANGED <<dir, kill, answered>>
    BY DEF ClientDbError, Elsewhere, Counters, workerVars, taskVars, sweepVars, IInv, TypeOK
<1>2. CASE at[c] = "insert"    /\ InsertRow(on[c])
    BY <1>1, <1>2, InsertInv DEF ClientDbError
<1>3. CASE at[c] = "cancelSet" /\ RequestCancelRow(on[c])
    BY <1>1, <1>3, CancelSetInv DEF ClientDbError
<1>4. CASE at[c] = "deleteRow" /\ DeleteRow(on[c])
    BY <1>1, <1>4, DeleteRowInv DEF ClientDbError
<1>5. CASE NoStatement
    BY <1>1, <1>5, SuspendInv DEF ClientDbError
<1> QED BY <1>2, <1>3, <1>4, <1>5 DEF ClientDbError, ClientStatement

(* queue.put: the id enters the queue for the only time.                   *)
LEMMA EnqueueInv ==
    ASSUME IInv, NEW c \in Client, Enqueue(c)
    PROVE  IInv'
<1> DEFINE j == on[c]
<1>1. /\ j \in Job /\ Inserted(j) /\ NotStarted(j) /\ pc[j] = "none" /\ ~Waiting(j)
      /\ \A d \in Client : at[d] = "enqueue" /\ on[d] = j => d = c
      /\ server = "up"
    BY DEF Enqueue, IInv, ClientInv
<1>2. /\ queue' = Append(queue, j)
      /\ at' = [at EXCEPT ![c] = "idle"] /\ on' = [on EXCEPT ![c] = NoJob]
      /\ UNCHANGED <<status, cancelReq, startedAt, gone, dir, created, worker, running, pc, kill,
                     sweep, sweeping, server, faults, starts, stops, answered>>
    BY DEF Enqueue, Suspend, NoStatement, tableVars, taskVars, sweepVars, boundVars
<1> HIDE DEF j
<1>3. TypeOK'
    BY <1>1, <1>2 DEF IInv, TypeOK, ClientAwait
<1>4. /\ \A k \in Job : Waiting(k)' => Waiting(k) \/ k = j
      /\ \A a, b \in 1..Len(queue') : queue'[a] = queue'[b] => a = b
    BY <1>1, <1>2 DEF IInv, TypeOK, QueueInv, Waiting
<1>5. ClientInv'
    BY <1>1, <1>2, <1>4 DEF IInv, TypeOK, ClientInv, Inserted, NotStarted
<1>6. QueueInv'
    BY <1>1, <1>2, <1>4 DEF IInv, QueueInv, Inserted, NotStarted
<1>7. RowInv' /\ TaskInv' /\ AnsweredInv' /\ SweepInv'
    BY <1>2 DEF IInv, RowInv, TaskInv, AnsweredInv, SweepInv, Inserted, NotStarted
<1> QED BY <1>3, <1>5, <1>6, <1>7 DEF IInv

(* task.cancel(): the job is not queued any more, so a task that is past   *)
(* its first read is the registered one.                                   *)
LEMMA CancelTaskInv ==
    ASSUME IInv, NEW c \in Client, CancelTask(c)
    PROVE  IInv'
<1> DEFINE j == on[c]
<1>1. j \in Job /\ Inserted(j) /\ status[j] # "queued" /\ server = "up"
    BY DEF CancelTask, IInv, ClientInv
<1>2. /\ kill' = kill \cup {k \in running : k = j /\ pc[k] \in Live}
      /\ answered' = answered \cup {j}
      /\ at' = [at EXCEPT ![c] = "idle"] /\ on' = [on EXCEPT ![c] = NoJob]
      /\ UNCHANGED <<status, cancelReq, startedAt, gone, dir, created, queue, worker, running, pc,
                     sweep, sweeping, server, faults, starts, stops>>
    BY DEF CancelTask, Suspend, NoStatement, tableVars, workerVars, sweepVars, boundVars
<1>3. pc[j] \in Live => j \in running
    BY <1>1 DEF IInv, TypeOK, TaskInv, Live, Working
<1> HIDE DEF j
<1>4. TypeOK'
  <2>1. kill' \in SUBSET Job
    BY <1>2 DEF IInv, TypeOK
  <2> QED BY <1>1, <1>2, <2>1 DEF IInv, TypeOK, ClientAwait
<1>5. ClientInv'
    BY <1>2 DEF IInv, TypeOK, ClientInv, Inserted, NotStarted, Waiting
<1>6. TaskInv' /\ AnsweredInv'
    BY <1>1, <1>2, <1>3 DEF IInv, TaskInv, AnsweredInv, Inserted, NotStarted, Live
<1>7. RowInv' /\ QueueInv' /\ SweepInv'
    BY <1>2 DEF IInv, RowInv, QueueInv, SweepInv, Inserted, NotStarted, Waiting
<1> QED BY <1>4, <1>5, <1>6, <1>7 DEF IInv

(* delete_dir in delete_job.                                               *)
LEMMA DeleteFilesInv ==
    ASSUME IInv, NEW c \in Client, DeleteFiles(c)
    PROVE  IInv'
<1>1. on[c] \in Job /\ Inserted(on[c]) /\ server = "up"
    BY DEF DeleteFiles, IInv, ClientInv
<1>2. /\ dir' = [dir EXCEPT ![on[c]] = "absent"] /\ at' = [at EXCEPT ![c] = "deleteRow"]
      /\ UNCHANGED <<status, cancelReq, startedAt, gone, created, queue, worker, running, pc, kill, on,
                     sweep, sweeping, server, faults, starts, stops, answered>>
    BY DEF DeleteFiles, RemoveDir, Suspend, NoStatement, IInv, TypeOK,
           tableVars, workerVars, taskVars, sweepVars, boundVars
<1>3. TypeOK'
    BY <1>1, <1>2 DEF IInv, TypeOK, ClientAwait
<1>4. RowInv' /\ SweepInv'
    BY <1>1, <1>2 DEF IInv, TypeOK, RowInv, SweepInv, Inserted
<1>5. ClientInv'
    BY <1>1, <1>2 DEF IInv, TypeOK, ClientInv, Inserted, NotStarted, Waiting
<1>6. QueueInv' /\ TaskInv' /\ AnsweredInv'
    BY <1>2 DEF IInv, QueueInv, TaskInv, AnsweredInv, Inserted, NotStarted, Waiting
<1> QED BY <1>3, <1>4, <1>5, <1>6 DEF IInv

-----------------------------------------------------------------------------
(* The worker.                                                             *)

(* The head and the tail of a sequence.                                    *)
LEMMA HeadAndTail ==
    ASSUME NEW S, NEW q \in Seq(S), q # <<>>
    PROVE  /\ Len(q) \in Nat \ {0} /\ Head(q) = q[1] /\ Head(q) \in S
           /\ Tail(q) \in Seq(S) /\ Len(Tail(q)) = Len(q) - 1
           /\ \A i \in 1..Len(q) - 1 : Tail(q)[i] = q[i + 1]
OBVIOUS

(* Taking the head of the queue: the others wait on, and it does not.      *)
LEMMA TakeHead ==
    ASSUME IInv, queue # <<>>, queue' = Tail(queue)
    PROVE  /\ Head(queue) \in Job /\ Waiting(Head(queue))
           /\ queue' \in Seq(Job)
           /\ \A j \in Job : Waiting(j)' => Waiting(j) /\ j # Head(queue)
           /\ \A a, b \in 1..Len(queue') : queue'[a] = queue'[b] => a = b
<1>1. queue \in Seq(Job) /\ \A a, b \in 1..Len(queue) : queue[a] = queue[b] => a = b
    BY DEF IInv, TypeOK, QueueInv
<1>2. /\ Len(queue) \in Nat \ {0} /\ Head(queue) = queue[1] /\ Head(queue) \in Job
      /\ queue' \in Seq(Job) /\ Len(queue') = Len(queue) - 1
      /\ \A i \in 1..Len(queue) - 1 : queue'[i] = queue[i + 1]
    BY <1>1, HeadAndTail
<1>3. Waiting(Head(queue))
    BY <1>2 DEF Waiting
<1>4. ASSUME NEW j \in Job, Waiting(j)'
      PROVE  Waiting(j) /\ j # Head(queue)
  <2>1. PICK i \in 1..Len(queue') : queue'[i] = j
    BY <1>4 DEF Waiting
  <2>2. i + 1 \in 1..Len(queue) /\ queue[i + 1] = j /\ i + 1 # 1 /\ 1 \in 1..Len(queue)
    BY <1>2, <2>1
  <2> QED BY <1>1, <1>2, <2>2 DEF Waiting
<1>5. ASSUME NEW a \in 1..Len(queue'), NEW b \in 1..Len(queue'), queue'[a] = queue'[b]
      PROVE  a = b
  <2>1. a + 1 \in 1..Len(queue) /\ b + 1 \in 1..Len(queue) /\ queue[a + 1] = queue[b + 1]
    BY <1>2, <1>5
  <2>2. a + 1 = b + 1
    BY <1>1, <2>1
  <2> QED BY <1>2, <2>2
<1> QED BY <1>2, <1>3, <1>4, <1>5

(* The worker starts a task for the head of the queue, or waits.           *)
LEMMA WorkerTakeInv ==
    ASSUME IInv, WorkerTake
    PROVE  IInv'
<1> DEFINE h == Head(queue)
<1>1. /\ worker = NoJob /\ queue # <<>> /\ queue' = Tail(queue) /\ server \notin {"down", "starting"}
      /\ worker' = h /\ pc' = [pc EXCEPT ![h] = "get1"] /\ running' = running \cup {h}
      /\ UNCHANGED <<status, cancelReq, startedAt, gone, dir, created, kill, at, on, sweep, sweeping,
                     server, faults, starts, stops, answered>>
    BY DEF WorkerTake, TakeNext, Up, NoStatement, tableVars, clientVars, sweepVars, boundVars
<1>2. /\ h \in Job /\ Waiting(h) /\ queue' \in Seq(Job)
      /\ \A j \in Job : Waiting(j)' => Waiting(j) /\ j # h
      /\ \A a, b \in 1..Len(queue') : queue'[a] = queue'[b] => a = b
    BY <1>1, TakeHead
<1>3. Inserted(h) /\ NotStarted(h) /\ h \notin kill /\ running = {}
  <2>1. Inserted(h) /\ NotStarted(h) /\ pc[h] = "none"
    BY <1>2 DEF IInv, QueueInv
  <2>2. running = {}
    BY <1>1 DEF IInv, TypeOK, TaskInv
  <2> QED BY <1>2, <2>1, <2>2 DEF IInv, TaskInv, Live, Working
<1> HIDE DEF h
<1>4. TypeOK'
    BY <1>1, <1>2 DEF IInv, TypeOK, Live
<1>5. RowInv' /\ SweepInv'
    BY <1>1 DEF IInv, RowInv, SweepInv, Inserted
<1>6. ClientInv'
    BY <1>1, <1>2 DEF IInv, TypeOK, ClientInv, Inserted, NotStarted
<1>7. QueueInv'
    BY <1>1, <1>2 DEF IInv, TypeOK, QueueInv, Inserted, NotStarted
<1>8. TaskInv'
    BY <1>1, <1>2, <1>3 DEF IInv, TypeOK, TaskInv, Inserted, NotStarted
<1>9. AnsweredInv'
    BY <1>1, <1>2 DEF IInv, TypeOK, AnsweredInv, Inserted, Working
<1> QED BY <1>4, <1>5, <1>6, <1>7, <1>8, <1>9 DEF IInv

(* _run_worker after its await: the task is dropped and the next begins.   *)
LEMMA WorkerReapInv ==
    ASSUME IInv, WorkerReap
    PROVE  IInv'
<1> DEFINE h == Head(queue)
           idle == [pc EXCEPT ![worker] = "none"]
<1>1. /\ worker \in Job /\ pc[worker] \in Over /\ worker \notin kill /\ ~Waiting(worker)
      /\ running \ {worker} = {} /\ server \notin {"down", "starting", "drained"}
    BY DEF WorkerReap, IInv, TypeOK, QueueInv, TaskInv, Over, Live, Working
<1>2. /\ UNCHANGED <<status, cancelReq, startedAt, gone, created, kill, at, on, sweep, sweeping,
                     faults, starts, stops, answered>>
      /\ (dir' = dir) \/ (dir' = [dir EXCEPT ![worker] = "absent"])
      /\ (server' = server) \/ (server = "draining" /\ server' = "drained")
    BY DEF WorkerReap, NoStatement, tableVars, clientVars, sweepVars, boundVars
<1>3. idle \in [Job -> {"none"} \cup Live \cup Over] /\ \A j \in Job : idle[j] = "none"
    BY <1>1 DEF IInv, TypeOK, TaskInv
<1>4. /\ \A j \in Job : dir[j] = "absent" => dir'[j] = "absent"
      /\ server = "up" => server' = "up"
    BY <1>2 DEF IInv, TypeOK
<1>5. RowInv' /\ SweepInv'
    BY <1>1, <1>2 DEF IInv, TypeOK, RowInv, SweepInv, Inserted
<1>6. CASE queue = <<>>
  <2>1. worker' = NoJob /\ pc' = idle /\ running' = {} /\ queue' = queue
    BY <1>1, <1>6 DEF WorkerReap, TakeNext
  <2> HIDE DEF idle
  <2>2. TypeOK'
    BY <1>1, <1>2, <1>3, <2>1 DEF IInv, TypeOK
  <2>3. ClientInv'
    BY <1>2, <1>3, <1>4, <2>1 DEF IInv, ClientInv, Inserted, NotStarted, Waiting
  <2>4. QueueInv' /\ AnsweredInv'
    BY <1>1, <1>2, <1>3, <2>1
    DEF IInv, TypeOK, QueueInv, AnsweredInv, Inserted, NotStarted, Waiting, Working
  <2>5. TaskInv'
    BY <1>1, <1>2, <1>3, <2>1 DEF IInv, TypeOK, TaskInv, Live, Working
  <2> QED BY <1>5, <2>2, <2>3, <2>4, <2>5 DEF IInv
<1>7. CASE queue # <<>>
  <2>1. worker' = h /\ pc' = [idle EXCEPT ![h] = "get1"] /\ running' = {h} /\ queue' = Tail(queue)
    BY <1>1, <1>7 DEF WorkerReap, TakeNext
  <2>2. /\ h \in Job /\ Waiting(h) /\ queue' \in Seq(Job)
        /\ \A j \in Job : Waiting(j)' => Waiting(j) /\ j # h
        /\ \A a, b \in 1..Len(queue') : queue'[a] = queue'[b] => a = b
    BY <1>7, <2>1, TakeHead
  <2>3. Inserted(h) /\ NotStarted(h) /\ pc[h] = "none" /\ h \notin kill
    BY <2>2 DEF IInv, TypeOK, QueueInv, TaskInv, Live, Working
  <2> HIDE DEF h, idle
  <2>4. pc' \in [Job -> {"none"} \cup Live \cup Over]
        /\ \A j \in Job : pc'[j] = IF j = h THEN "get1" ELSE "none"
    BY <1>3, <2>1, <2>2 DEF Live
  <2>5. TypeOK'
    BY <1>1, <1>2, <2>1, <2>2, <2>4 DEF IInv, TypeOK
  <2>6. ClientInv'
    BY <1>2, <1>4, <2>2, <2>3, <2>4 DEF IInv, ClientInv, Inserted, NotStarted
  <2>7. QueueInv'
    BY <1>1, <1>2, <2>2, <2>4 DEF IInv, TypeOK, QueueInv, Inserted, NotStarted
  <2>8. TaskInv'
    BY <1>1, <1>2, <2>1, <2>2, <2>3, <2>4, <2>5 DEF IInv, TypeOK, TaskInv, Inserted, NotStarted, Live, Working
  <2>9. AnsweredInv'
    BY <1>1, <1>2, <2>4 DEF IInv, TypeOK, AnsweredInv, Inserted, Working
  <2> QED BY <1>5, <2>5, <2>6, <2>7, <2>8, <2>9 DEF IInv
<1> QED BY <1>6, <1>7

-----------------------------------------------------------------------------
(* The task.  Each of its steps, an error included, is a move of one job   *)
(* from one await to the next: the facts about it the invariant needs.     *)
RowMove(j) ==
    \/ NoStatement
    \/ /\ pc[j] # "get1"
       /\ \/ SetRunningRow(j)
          \/ \E s \in {"running", "completed", "failed", "cancelled"} : SetStatus(j, s)

DirMove(j) ==
    \/ UNCHANGED dir
    \/ RemoveDir(j)
    \/ dir[j] # "absent" /\ dir' = [dir EXCEPT ![j] = "result"]

PcMove(j, p) ==
    /\ pc[j] \in Live /\ p \in Live \cup Over /\ p # "get1"
    /\ pc' = [pc EXCEPT ![j] = p]
    /\ p \in Over => kill' = kill \ {j}
    /\ p \in Live => kill' = kill
    /\ p = "setRunning" => NoStatement /\ NotStarted(j)
    /\ p \in Working => pc[j] \in Working \/ status[j] = "queued"

TaskMove(j, p) ==
    /\ RowMove(j) /\ DirMove(j) /\ PcMove(j, p) /\ server # "drained"
    /\ UNCHANGED <<created, workerVars, clientVars, sweepVars, server, answered>>
    /\ faults' \in Nat /\ starts' \in Nat /\ stops' \in Nat

(* A move of the task keeps the invariant.                                 *)
LEMMA TaskMoveInv ==
    ASSUME IInv, NEW j \in Job, NEW p, TaskMove(j, p)
    PROVE  IInv'
<1>1. /\ UNCHANGED <<created, queue, worker, running, at, on, sweep, sweeping, server, answered>>
      /\ worker = j /\ ~Waiting(j) /\ server # "drained" /\ Inserted(j)
    BY DEF TaskMove, PcMove, workerVars, clientVars, sweepVars, IInv, TypeOK, QueueInv, TaskInv, Live, Working
<1>2. /\ gone' = gone
      /\ \A k \in Job : k # j => status'[k] = status[k] /\ startedAt'[k] = startedAt[k]
      /\ status'[j] # status[j] => status[j] # "none" /\ status'[j] \notin {"none", "queued"}
      /\ status[j] # "none" => status'[j] # "none"
      /\ startedAt'[j] => status'[j] \notin {"none", "queued"}
    BY DEF TaskMove, RowMove, NoStatement, SetRunningRow, SetStatus, UpdateStatus, Exists, tableVars,
           IInv, TypeOK, RowInv
<1>3. \A k \in Job : Inserted(k)' <=> Inserted(k)
    BY <1>2 DEF Inserted
<1>4. /\ dir' \in [Job -> {"absent", "input", "result"}]
      /\ \A k \in Job : dir[k] = "absent" => dir'[k] = "absent"
    BY DEF TaskMove, DirMove, RemoveDir, IInv, TypeOK
<1>5. TypeOK'
  <2>1. TableOK'
    BY StatementTypes DEF TaskMove, RowMove, IInv, Status, Terminal
  <2>2. pc' \in [Job -> {"none"} \cup Live \cup Over] /\ kill' \in SUBSET Job
    BY DEF TaskMove, PcMove, IInv, TypeOK
  <2> QED BY <1>1, <1>4, <2>1, <2>2 DEF TaskMove, TableOK, IInv, TypeOK
<1>6. RowInv'
    BY <1>1, <1>2, <1>3, <1>4 DEF IInv, RowInv, Inserted
<1>7. SweepInv'
    BY <1>1, <1>3, <1>4 DEF IInv, TypeOK, SweepInv
<1>8. ClientInv'
  <2>1. ASSUME NEW c \in Client, at[c] = "enqueue" PROVE on[c] \in Job /\ on[c] # j
    BY <1>1, <2>1 DEF TaskMove, PcMove, IInv, ClientInv, Live, Working
  <2>2. \A k \in Job : k # j => pc'[k] = pc[k] /\ (NotStarted(k)' <=> NotStarted(k))
    BY <1>2 DEF TaskMove, PcMove, IInv, TypeOK, NotStarted
  <2> QED BY <1>1, <1>2, <1>3, <1>4, <2>1, <2>2 DEF IInv, ClientInv, Waiting
<1>9. QueueInv'
  <2>1. \A k \in Job : k # j => pc'[k] = pc[k] /\ (NotStarted(k)' <=> NotStarted(k))
    BY <1>2 DEF TaskMove, PcMove, IInv, TypeOK, NotStarted
  <2> QED BY <1>1, <1>3, <2>1 DEF IInv, QueueInv, Waiting
<1>10. TaskInv'
  <2>1. p \in Live \cup Over
    BY DEF TaskMove, PcMove
  <2>2. pc' = [pc EXCEPT ![j] = p] /\ pc'[j] = p /\ p # "none" /\ p # "get1"
    BY <2>1 DEF TaskMove, PcMove, IInv, TypeOK, Live, Working, Over
  <2>3. p = "setRunning" => NotStarted(j)'
    BY DEF TaskMove, PcMove, NoStatement, NotStarted, tableVars
  <2>4. \A k \in kill' : k \in kill /\ (k = j => p \in Live)
    BY <2>1 DEF TaskMove, PcMove, Live, Working, Over
  <2> QED BY <1>1, <1>3, <2>2, <2>3, <2>4 DEF IInv, TypeOK, TaskInv
<1>11. AnsweredInv'
  <2> SUFFICES ASSUME NEW k \in answered
               PROVE  Inserted(k)' /\ status'[k] # "queued" /\ (pc'[k] \in Working => k \in kill')
    BY <1>1 DEF AnsweredInv
  <2>1. k \in Job /\ Inserted(k) /\ status[k] # "queued" /\ (pc[k] \in Working => k \in kill)
    BY DEF IInv, TypeOK, AnsweredInv
  <2>2. status'[k] # "queued"
    BY <1>2, <2>1
  <2>3. CASE k = j
    BY <1>3, <2>1, <2>2, <2>3 DEF TaskMove, PcMove, IInv, TypeOK, Live, Working, Over
  <2>4. CASE k # j
    BY <1>3, <2>1, <2>2, <2>4 DEF TaskMove, PcMove, IInv, TypeOK
  <2> QED BY <2>3, <2>4
<1> QED BY <1>5, <1>6, <1>7, <1>8, <1>9, <1>10, <1>11 DEF IInv

(* A statement of the task raises.                                         *)
LEMMA TaskDbErrorInv ==
    ASSUME IInv, NEW j \in Job, TaskDbError(j)
    PROVE  IInv'
<1> DEFINE p == IF pc[j] \in {"get3", "setCompleted"} THEN "setFailed" ELSE "done"
<1>1. RowMove(j)
    BY DEF TaskDbError, TaskStatement, RowMove
<1>2. PcMove(j, p)
    BY DEF TaskDbError, PcMove, Goto, Live, Working, Over
<1>3. TaskMove(j, p)
    BY <1>1, <1>2 DEF TaskDbError, TaskMove, DirMove, Answers, IInv, TypeOK
<1> QED BY <1>3, TaskMoveInv

(* A step of _process_job.                                                 *)
LEMMA ProcessJobInv ==
    ASSUME IInv, NEW j \in Job, ProcessJob(j)
    PROVE  IInv'
<1>1. /\ UNCHANGED <<created, workerVars, clientVars, sweepVars, server, answered>>
      /\ faults' \in Nat /\ starts' \in Nat /\ stops' \in Nat
    BY DEF ProcessJob, boundVars, IInv, TypeOK
<1>2. (pc[j] \in Live \ {"get1"} \/ j \in kill) => server # "drained"
    BY DEF IInv, TypeOK, TaskInv, Live, Working
<1>3. ASSUME NEW p, RowMove(j), DirMove(j), PcMove(j, p), server # "drained"
      PROVE  IInv'
    BY <1>1, <1>3, TaskMoveInv DEF TaskMove
<1>4. CASE Get1(j)
  <2> DEFINE p == CASE ~Exists(j)              -> "done"
                    [] status[j] = "cancelled" -> "discard"
                    [] cancelReq[j]            -> "setCancelled"
                    [] OTHER                   -> "setRunning"
  <2>1. NotStarted(j)
    BY <1>4 DEF Get1, Resumes, IInv, TaskInv
  <2>2. PcMove(j, p)
    BY <1>4, <2>1 DEF Get1, Resumes, PcMove, Goto, Exists, NotStarted, Live, Working, Over
  <2>3. RowMove(j) /\ DirMove(j) /\ server # "drained"
    BY <1>4 DEF Get1, Answers, RowMove, DirMove
  <2> QED BY <1>3, <2>2, <2>3
<1>5. CASE Get2(j)
  <2> DEFINE p == CASE ~Exists(j)   -> "setFailed"
                    [] cancelReq[j] -> "setCancelled"
                    [] OTHER        -> "read"
  <2>1. PcMove(j, p)
    BY <1>5 DEF Get2, Resumes, PcMove, Goto, Live, Working, Over
  <2>2. RowMove(j) /\ DirMove(j) /\ server # "drained"
    BY <1>2, <1>5 DEF Get2, Resumes, RowMove, DirMove, Live, Working
  <2> QED BY <1>3, <2>1, <2>2
<1>6. CASE Pipeline(j)
  <2>1. PICK p \in {"get3", "setFailed"} : Goto(j, p)
    BY <1>6 DEF Pipeline
  <2>2. PcMove(j, p)
    BY <1>6, <2>1 DEF Pipeline, Resumes, PcMove, Goto, Live, Working, Over
  <2>3. RowMove(j) /\ DirMove(j) /\ server # "drained"
    BY <1>2, <1>6 DEF Pipeline, Resumes, RowMove, DirMove, Live, Working
  <2> QED BY <1>3, <2>2, <2>3
<1>7. CASE Discard(j)
  <2> DEFINE p == "done"
  <2>1. PcMove(j, p)
    BY <1>7 DEF Discard, Resumes, PcMove, Goto, IInv, TaskInv, Live, Working, Over
  <2>2. RowMove(j) /\ DirMove(j) /\ server # "drained"
    BY <1>2, <1>7 DEF Discard, Resumes, RowMove, DirMove, Live, Working
  <2> QED BY <1>3, <2>1, <2>2
<1>8. CASE SetRunning(j)
  <2> DEFINE p == "get2"
  <2>1. PcMove(j, p)
    BY <1>8 DEF SetRunning, Resumes, PcMove, Goto, IInv, TaskInv, Live, Working, Over
  <2>2. RowMove(j) /\ DirMove(j) /\ server # "drained"
    BY <1>2, <1>8 DEF SetRunning, Resumes, RowMove, DirMove, Live, Working
  <2> QED BY <1>3, <2>1, <2>2
<1>9. CASE SetCancelled(j)
  <2> DEFINE p == "discard"
  <2>1. PcMove(j, p)
    BY <1>9 DEF SetCancelled, Resumes, PcMove, Goto, IInv, TaskInv, Live, Working, Over
  <2>2. RowMove(j) /\ DirMove(j) /\ server # "drained"
    BY <1>2, <1>9 DEF SetCancelled, Resumes, RowMove, DirMove, Live, Working
  <2> QED BY <1>3, <2>1, <2>2
<1>10. CASE ReadInput(j)
  <2> DEFINE p == IF dir[j] = "absent" THEN "setFailed" ELSE "pipeline"
  <2>1. PcMove(j, p)
    BY <1>10 DEF ReadInput, Resumes, PcMove, Goto, IInv, TaskInv, Live, Working, Over
  <2>2. RowMove(j) /\ DirMove(j) /\ server # "drained"
    BY <1>2, <1>10 DEF ReadInput, Resumes, RowMove, DirMove, Live, Working
  <2> QED BY <1>3, <2>1, <2>2
<1>11. CASE Get3(j)
  <2> DEFINE p == IF Exists(j) /\ (status[j] = "cancelled" \/ cancelReq[j]) THEN "done" ELSE "write"
  <2>1. PcMove(j, p)
    BY <1>11 DEF Get3, Resumes, PcMove, Goto, IInv, TaskInv, Live, Working, Over
  <2>2. RowMove(j) /\ DirMove(j) /\ server # "drained"
    BY <1>2, <1>11 DEF Get3, Resumes, RowMove, DirMove, Live, Working
  <2> QED BY <1>3, <2>1, <2>2
<1>12. CASE WriteResult(j)
  <2> DEFINE p == IF dir[j] = "absent" THEN "setFailed" ELSE "setCompleted"
  <2>1. PcMove(j, p)
    BY <1>12 DEF WriteResult, Resumes, PcMove, Goto, IInv, TaskInv, Live, Working, Over
  <2>2. RowMove(j) /\ DirMove(j) /\ server # "drained"
    BY <1>2, <1>12 DEF WriteResult, Resumes, RowMove, DirMove, Live, Working
  <2> QED BY <1>3, <2>1, <2>2
<1>13. CASE SetCompleted(j)
  <2> DEFINE p == "return"
  <2>1. PcMove(j, p)
    BY <1>13 DEF SetCompleted, Resumes, PcMove, Goto, IInv, TaskInv, Live, Working, Over
  <2>2. RowMove(j) /\ DirMove(j) /\ server # "drained"
    BY <1>2, <1>13 DEF SetCompleted, Resumes, RowMove, DirMove, Live, Working
  <2> QED BY <1>3, <2>1, <2>2
<1>14. CASE SetFailed(j)
  <2> DEFINE p == "return"
  <2>1. PcMove(j, p)
    BY <1>14 DEF SetFailed, Resumes, PcMove, Goto, IInv, TaskInv, Live, Working, Over
  <2>2. RowMove(j) /\ DirMove(j) /\ server # "drained"
    BY <1>2, <1>14 DEF SetFailed, Resumes, RowMove, DirMove, Live, Working
  <2> QED BY <1>3, <2>1, <2>2
<1>15. CASE Return(j)
  <2> DEFINE p == "done"
  <2>1. PcMove(j, p)
    BY <1>15 DEF Return, Resumes, PcMove, Goto, IInv, TaskInv, Live, Working, Over
  <2>2. RowMove(j) /\ DirMove(j) /\ server # "drained"
    BY <1>2, <1>15 DEF Return, Resumes, RowMove, DirMove, Live, Working
  <2> QED BY <1>3, <2>1, <2>2
<1>16. CASE Cancelled(j)
  <2> DEFINE p == "cancelled"
  <2>1. PcMove(j, p)
    BY <1>16 DEF Cancelled, Resumes, PcMove, Goto, IInv, TaskInv, Live, Working, Over
  <2>2. RowMove(j) /\ DirMove(j) /\ server # "drained"
    BY <1>2, <1>16 DEF Cancelled, Resumes, RowMove, DirMove, Live, Working
  <2> QED BY <1>3, <2>1, <2>2
<1> QED BY <1>4, <1>5, <1>6, <1>7, <1>8, <1>9, <1>10, <1>11, <1>12, <1>13, <1>14, <1>15, <1>16 DEF ProcessJob

-----------------------------------------------------------------------------
(* The cleanup.                                                            *)

(* get_expired lists jobs that are over.                                   *)
LEMMA SweepStartInv ==
    ASSUME IInv, SweepStart
    PROVE  IInv'
<1>1. /\ sweep' \in SUBSET {j \in Job : status[j] \in Terminal}
      /\ UNCHANGED <<status, cancelReq, startedAt, gone, dir, created, queue, worker, running, pc, kill, at, on,
                     sweeping, server, faults, starts, stops, answered>>
    BY DEF SweepStart, NoStatement, tableVars, workerVars, taskVars, clientVars, boundVars
<1>2. TypeOK' /\ SweepInv'
    BY <1>1 DEF IInv, TypeOK, SweepInv, Inserted, Terminal
<1>3. RowInv' /\ ClientInv' /\ QueueInv' /\ TaskInv' /\ AnsweredInv'
    BY <1>1 DEF IInv, RowInv, ClientInv, QueueInv, TaskInv, AnsweredInv, Inserted, NotStarted, Waiting
<1> QED BY <1>2, <1>3 DEF IInv

(* delete_dir in _run_cleanup.                                             *)
LEMMA SweepFilesInv ==
    ASSUME IInv, NEW j \in Job, SweepFiles(j)
    PROVE  IInv'
<1>1. /\ j \in sweep /\ sweeping' = j /\ dir' = [dir EXCEPT ![j] = "absent"]
      /\ UNCHANGED <<status, cancelReq, startedAt, gone, created, queue, worker, running, pc, kill, at, on,
                     sweep, server, faults, starts, stops, answered>>
    BY DEF SweepFiles, RemoveDir, NoStatement, tableVars, workerVars, taskVars, clientVars, boundVars
<1>2. TypeOK' /\ RowInv' /\ SweepInv'
    BY <1>1 DEF IInv, TypeOK, RowInv, SweepInv, Inserted
<1>3. ClientInv' /\ QueueInv' /\ TaskInv' /\ AnsweredInv'
    BY <1>1 DEF IInv, TypeOK, ClientInv, QueueInv, TaskInv, AnsweredInv, Inserted, NotStarted, Waiting
<1> QED BY <1>2, <1>3 DEF IInv

(* The row is deleted or, on an error, perhaps not.                        *)
LEMMA SweepRowInv ==
    ASSUME IInv, SweepRow \/ SweepDbError
    PROVE  IInv'
<1>1. /\ sweeping \in Job /\ Inserted(sweeping) /\ dir[sweeping] = "absent"
      /\ DeleteRow(sweeping) \/ NoStatement
      /\ sweep' \in SUBSET sweep /\ sweeping' = NoJob
      /\ UNCHANGED <<dir, created, queue, worker, running, pc, kill, at, on, server, answered>>
      /\ faults' \in Nat /\ starts' \in Nat /\ stops' \in Nat
    BY DEF SweepRow, SweepDbError, IInv, TypeOK, SweepInv, workerVars, taskVars, clientVars, boundVars
<1>2. TypeOK'
  <2>1. TableOK'
    BY <1>1, StatementTypes DEF IInv
  <2> QED BY <1>1, <2>1 DEF IInv, TypeOK, TableOK
<1>3. /\ \A j \in Job : Inserted(j)' <=> Inserted(j)
      /\ \A j \in Job : NotStarted(j) => NotStarted(j)'
      /\ \A j \in Job : status'[j] # status[j] => status'[j] = "none"
    BY <1>1 DEF DeleteRow, NoStatement, IInv, TypeOK, Inserted, NotStarted, tableVars
<1>4. RowInv' /\ SweepInv'
    BY <1>1, <1>3 DEF DeleteRow, NoStatement, IInv, TypeOK, RowInv, SweepInv, Inserted, tableVars
<1>5. ClientInv'
    BY <1>1, <1>3 DEF IInv, TypeOK, ClientInv, Waiting
<1>6. QueueInv'
    BY <1>1, <1>3 DEF IInv, TypeOK, QueueInv, Waiting
<1>7. TaskInv'
    BY <1>1, <1>3 DEF IInv, TypeOK, TaskInv
<1>8. AnsweredInv'
    BY <1>1, <1>3 DEF IInv, TypeOK, AnsweredInv
<1> QED BY <1>2, <1>4, <1>5, <1>6, <1>7, <1>8 DEF IInv

-----------------------------------------------------------------------------
(* The process.                                                            *)

(* The process ends: only the table and the files remain.                  *)
LEMMA ExitInv ==
    ASSUME IInv, Exit, faults' \in Nat, starts' \in Nat, stops' \in Nat
    PROVE  IInv'
<1>1. /\ server' = "down" /\ queue' = <<>> /\ worker' = NoJob /\ running' = {}
      /\ pc' = [j \in Job |-> "none"] /\ kill' = {}
      /\ at' = [c \in Client |-> "idle"] /\ on' = [c \in Client |-> NoJob]
      /\ sweep' = {} /\ sweeping' = NoJob
      /\ UNCHANGED <<status, cancelReq, startedAt, gone, dir, created, answered>>
    BY DEF Exit, NoStatement, tableVars
<1>2. TypeOK'
  <2>1. queue' \in Seq(Job)
    BY <1>1
  <2>2. pc' \in [Job -> {"none"} \cup Live \cup Over]
    BY <1>1
  <2>3. at' \in [Client -> ClientAwait] /\ on' \in [Client -> Job \cup {NoJob}]
    BY <1>1 DEF ClientAwait
  <2> QED BY <1>1, <2>1, <2>2, <2>3 DEF IInv, TypeOK
<1>3. RowInv' /\ SweepInv'
    BY <1>1 DEF IInv, RowInv, SweepInv, Inserted
<1>4. ClientInv'
    BY <1>1 DEF IInv, TypeOK, ClientInv
<1>5. QueueInv' /\ TaskInv'
    BY <1>1 DEF QueueInv, TaskInv, Waiting
<1>6. AnsweredInv'
    BY <1>1 DEF IInv, TypeOK, AnsweredInv, Inserted, Working
<1> QED BY <1>2, <1>3, <1>4, <1>5, <1>6 DEF IInv

(* The process dies.                                                       *)
LEMMA CrashInv ==
    ASSUME IInv, Crash
    PROVE  IInv'
BY ExitInv DEF Crash, boundVars, IInv, TypeOK

(* A new process starts.                                                   *)
LEMMA StartInv ==
    ASSUME IInv, Start
    PROVE  IInv'
<1>1. /\ server = "down" /\ server' = "starting" /\ starts' \in Nat
      /\ UNCHANGED <<status, cancelReq, startedAt, gone, dir, created, queue, worker, running, pc, kill, at, on,
                     sweep, sweeping, faults, stops, answered>>
    BY DEF Start, IInv, TypeOK, NoStatement, tableVars, workerVars, taskVars, clientVars, sweepVars
<1>2. TypeOK'
    BY <1>1 DEF IInv, TypeOK
<1>3. RowInv' /\ ClientInv' /\ QueueInv' /\ TaskInv' /\ AnsweredInv' /\ SweepInv'
    BY <1>1
    DEF IInv, RowInv, ClientInv, QueueInv, TaskInv, AnsweredInv, SweepInv, Inserted, NotStarted, Waiting
<1> QED BY <1>2, <1>3 DEF IInv

(* A job found running is failed by start().                               *)
LEMMA RecoverStuckInv ==
    ASSUME IInv, NEW j \in Job, RecoverStuck(j)
    PROVE  IInv'
<1>1. /\ server = "starting" /\ status[j] = "running" /\ status' = [status EXCEPT ![j] = "failed"]
      /\ UNCHANGED <<cancelReq, startedAt, gone, dir, created, queue, worker, running, pc, kill, at, on,
                     sweep, sweeping, server, faults, starts, stops, answered>>
    BY DEF RecoverStuck, SetStatus, UpdateStatus, Exists, IInv, TypeOK,
           workerVars, taskVars, clientVars, sweepVars, boundVars
<1>2. /\ \A k \in Job : Inserted(k)' <=> Inserted(k)
      /\ \A k \in Job : NotStarted(k) => NotStarted(k)'
      /\ \A k \in Job : status'[k] = "queued" => status[k] = "queued"
    BY <1>1 DEF IInv, TypeOK, Inserted, NotStarted
<1>3. TypeOK' /\ RowInv'
    BY <1>1, <1>2 DEF IInv, TypeOK, RowInv, Inserted, Status, Terminal
<1>4. ClientInv' /\ SweepInv'
    BY <1>1, <1>2 DEF IInv, TypeOK, ClientInv, SweepInv, Waiting
<1>5. QueueInv' /\ TaskInv' /\ AnsweredInv'
    BY <1>1, <1>2 DEF IInv, TypeOK, QueueInv, TaskInv, AnsweredInv, Waiting
<1> QED BY <1>3, <1>4, <1>5 DEF IInv

(* The queue that start() builds holds each queued job once.               *)
LEMMA RecoverQueuedInv ==
    ASSUME IInv, RecoverQueued
    PROVE  IInv'
<1> DEFINE n == Cardinality(Queued)
<1>1. /\ queue = <<>> /\ worker = NoJob /\ server = "starting" /\ server' = "up"
      /\ UNCHANGED <<status, cancelReq, startedAt, gone, dir, created, worker, running, pc, kill, at, on,
                     sweep, sweeping, faults, starts, stops, answered>>
    BY DEF RecoverQueued, NoStatement, tableVars, taskVars, clientVars, sweepVars, boundVars, IInv, QueueInv
<1>2. n \in Nat
  <2>1. IsFiniteSet(Job)
    BY FS_Interval, JobQueueAssumption
  <2>2. Queued \subseteq Job
    BY DEF Queued
  <2> QED BY <2>1, <2>2, FS_Subset, FS_CardinalityType
<1>3. queue' \in [1..n -> Queued] /\ \A a, b \in 1..n : a < b => queue'[a] < queue'[b]
    BY DEF RecoverQueued
<1> HIDE DEF n
<1>4. /\ queue' \in Seq(Job) /\ Len(queue') = n
      /\ \A j \in Job : Waiting(j)' => status[j] = "queued"
  <2>1. queue' \in [1..n -> Job] /\ \A i \in 1..n : status[queue'[i]] = "queued"
    BY <1>3 DEF Queued
  <2>2. queue' \in Seq(Job)
    BY <1>2, <2>1, SeqDef
  <2>3. Len(queue') = n
    BY <1>2, <2>1, <2>2
  <2> QED BY <2>1, <2>2, <2>3 DEF Waiting
<1>5. \A a, b \in 1..Len(queue') : queue'[a] = queue'[b] => a = b
  <2> SUFFICES ASSUME NEW a \in 1..n, NEW b \in 1..n, a < b
               PROVE  queue'[a] # queue'[b]
    BY <1>2, <1>4
  <2>1. queue'[a] \in Job /\ queue'[b] \in Job /\ queue'[a] < queue'[b]
    BY <1>3 DEF Queued
  <2> QED BY <2>1
<1>6. \A j \in Job : pc[j] = "none"
    BY <1>1 DEF IInv, TypeOK, TaskInv
<1>7. TypeOK' /\ RowInv' /\ SweepInv'
    BY <1>1, <1>4 DEF IInv, TypeOK, RowInv, SweepInv, Inserted
<1>8. ClientInv'
    BY <1>1 DEF IInv, ClientInv, Inserted
<1>9. QueueInv'
    BY <1>1, <1>4, <1>5, <1>6 DEF IInv, RowInv, QueueInv, Inserted, NotStarted
<1>10. TaskInv' /\ AnsweredInv'
    BY <1>1 DEF IInv, TaskInv, AnsweredInv, Inserted, NotStarted
<1> QED BY <1>7, <1>8, <1>9, <1>10 DEF IInv

(* stop() cancels the registered tasks, or ends the process at once.       *)
LEMMA StopBeginInv ==
    ASSUME IInv, StopBegin
    PROVE  IInv'
<1>1. CASE Exit
    BY <1>1, ExitInv DEF StopBegin, IInv, TypeOK
<1>2. CASE running # {}
  <2>1. /\ server = "up" /\ \A c \in Client : at[c] = "idle"
        /\ UNCHANGED <<faults, starts>> /\ stops' = stops + 1
    BY DEF StopBegin
  <2>2. /\ server' = "draining" /\ kill' = kill \cup {j \in running : pc[j] \in Live}
        /\ UNCHANGED <<status, cancelReq, startedAt, gone, dir, created, queue, worker, running, pc, at, on,
                       sweep, sweeping, answered>>
    BY <1>2, Zenon DEF StopBegin, NoStatement, tableVars, workerVars, clientVars, sweepVars
  <2>3. TypeOK'
    <3>1. kill' \in SUBSET Job
      BY <2>2 DEF IInv, TypeOK
    <3> QED BY <2>1, <2>2, <3>1 DEF IInv, TypeOK
  <2>4. ClientInv'
    BY <2>1, <2>2 DEF IInv, TypeOK, ClientInv
  <2>5. RowInv' /\ QueueInv' /\ TaskInv' /\ AnsweredInv' /\ SweepInv'
    BY <2>1, <2>2
    DEF IInv, TypeOK, RowInv, QueueInv, TaskInv, AnsweredInv, SweepInv, Inserted, NotStarted, Waiting
  <2> QED BY <2>3, <2>4, <2>5 DEF IInv
<1> QED BY <1>1, <1>2 DEF StopBegin

(* stop() goes on; the worker may have taken one more job meanwhile.       *)
LEMMA StopGatheredInv ==
    ASSUME IInv, StopGathered
    PROVE  IInv'
<1>1. CASE Exit
    BY <1>1, ExitInv DEF StopGathered, boundVars, IInv, TypeOK
<1>2. CASE worker # NoJob
  <2>1. /\ server = "drained" /\ server' = "stopping" /\ running' = {} /\ kill' = kill \cup {worker}
        /\ UNCHANGED <<status, cancelReq, startedAt, gone, dir, created, queue, worker, pc, at, on,
                       sweep, sweeping, faults, starts, stops, answered>>
    BY <1>2 DEF StopGathered, NoStatement, tableVars, clientVars, sweepVars, boundVars
  <2>2. worker \in Job /\ pc[worker] = "get1"
    BY <1>2, <2>1 DEF IInv, TypeOK, TaskInv
  <2>3. TypeOK' /\ ClientInv'
    BY <2>1, <2>2 DEF IInv, TypeOK, ClientInv
  <2>4. RowInv' /\ QueueInv' /\ AnsweredInv' /\ SweepInv'
    BY <2>1 DEF IInv, RowInv, QueueInv, AnsweredInv, SweepInv, Inserted, NotStarted, Waiting
  <2>5. TaskInv'
    BY <2>1, <2>2 DEF IInv, TypeOK, TaskInv, Inserted, NotStarted, Live
  <2> QED BY <2>3, <2>4, <2>5 DEF IInv
<1> QED BY <1>1, <1>2 DEF StopGathered

-----------------------------------------------------------------------------
(* Every step preserves the invariant.                                     *)
LEMMA NextInv ==
    ASSUME IInv, Next
    PROVE  IInv'
<1>1. ASSUME NEW c \in Client, CreateJob(c) \/ ClientStep(c) \/ ClientDbError(c)
      PROVE  IInv'
    BY <1>1, CreateJobInv, ClientReadInv, ClientCommitInv, EnqueueInv, CancelTaskInv, DeleteFilesInv,
       ClientDbErrorInv DEF ClientStep
<1>2. ASSUME NEW c \in Client, NEW j \in Job, NEW p \in {"cancelGet", "deleteGet"}, Request(c, j, p)
      PROVE  IInv'
    BY <1>2, RequestInv
<1>3. CASE WorkerStep
    BY <1>3, WorkerTakeInv, WorkerReapInv DEF WorkerStep
<1>4. ASSUME NEW j \in Job, ProcessJob(j) \/ TaskDbError(j)
      PROVE  IInv'
    BY <1>4, ProcessJobInv, TaskDbErrorInv
<1>5. CASE SweepStart \/ SweepRow \/ SweepDbError
    BY <1>5, SweepStartInv, SweepRowInv
<1>6. ASSUME NEW j \in Job, SweepFiles(j) \/ RecoverStuck(j)
      PROVE  IInv'
    BY <1>6, SweepFilesInv, RecoverStuckInv
<1>7. CASE Start \/ RecoverQueued \/ StopBegin \/ StopGathered \/ Crash
    BY <1>7, StartInv, RecoverQueuedInv, StopBeginInv, StopGatheredInv, CrashInv
<1> QED BY <1>1, <1>2, <1>3, <1>4, <1>5, <1>6, <1>7 DEF Next

(* The invariant holds in every state the queue can reach.                 *)
THEOREM InvariantHolds == Spec => []IInv
<1>1. IInv /\ [Next]_vars => IInv'
    BY NextInv, StutterInv
<1> QED BY <1>1, InitInv, PTL DEF Spec

-----------------------------------------------------------------------------
(* What follows, for every number of jobs, clients, failing statements,    *)
(* restarts and shutdowns.                                                 *)

(* Every variable keeps its type through all interleavings of the handlers,*)
(* the worker, the cleanup and the restarts.                               *)
THEOREM TypeCorrect == Spec => []TypeOK
<1>1. IInv => TypeOK
    BY DEF IInv
<1> QED BY <1>1, InvariantHolds, PTL

(* _run_worker awaits the only task there is, and while requests are       *)
(* served it is registered in _running_tasks, where cancel_job finds it.   *)
THEOREM OneTask == Spec => []OneTaskAtATime
<1>1. IInv => OneTaskAtATime
    BY DEF IInv, TypeOK, TaskInv, OneTaskAtATime
<1> QED BY <1>1, InvariantHolds, PTL

(* A deleted job leaves no row and no directory behind, although the task  *)
(* that processes it may go on: write_result does not make the directory   *)
(* again, and UPDATE does not make the row again.                          *)
THEOREM DeletedStaysDeleted == Spec => []NoFilesAfterDelete
<1>1. IInv => NoFilesAfterDelete
    BY DEF IInv, TypeOK, RowInv, NoFilesAfterDelete
<1> QED BY <1>1, InvariantHolds, PTL

(* After the 200 answer to POST /cancel the task of the job, if it has one *)
(* that is past its first read, has a cancellation pending.                *)
THEOREM CancelIsEffective == Spec => []CancelStopsWork
<1>1. IInv => CancelStopsWork
    BY DEF IInv, AnsweredInv, CancelStopsWork
<1> QED BY <1>1, InvariantHolds, PTL

(* A job that waits in the queue, or is taken and not yet running, has     *)
(* never been running: no crash, shutdown or recovery runs a job twice.    *)
THEOREM NeverStartedTwice == Spec => []StartedAtMostOnce
<1>1. IInv => StartedAtMostOnce
    BY DEF IInv, QueueInv, TaskInv, NotStarted, StartedAtMostOnce
<1> QED BY <1>1, InvariantHolds, PTL

-----------------------------------------------------------------------------
(* II.  Without failing statements: the lifecycle.                         *)

HIDE DEF Job, NoJob

-----------------------------------------------------------------------------
(* The inductive invariant, on top of IInv.                                *)

(* A queued job waits, or is about to, or is just taken.                   *)
Pending(j) == Waiting(j) \/ \E c \in Client : at[c] = "enqueue" /\ on[c] = j
KeptInv(j) == server = "up" /\ status[j] = "queued" => Pending(j) \/ pc[j] \in {"get1", "setRunning"}

(* What `cancelled' and cancel_requested say of each other.                *)
RequestedInv(j) ==
    /\ cancelReq[j] => status[j] \notin {"none", "queued"}
    /\ status[j] = "cancelled" => cancelReq[j]
    /\ pc[j] = "setCancelled" => cancelReq[j] \/ status[j] = "none"

(* A task past its start works on a row that was started.                  *)
Executing == Working \ {"setRunning"}
ExecutionInv(j) ==
    /\ status[j] = "running" => startedAt[j]
    /\ pc[j] \in Executing =>
          status[j] = "none" \/ (startedAt[j] /\ status[j] \in {"running", "cancelled"})

JobInv(j) == KeptInv(j) /\ RequestedInv(j) /\ ExecutionInv(j)

CleanInv ==
    /\ server = "up" => kill \subseteq answered
    /\ \A j \in Job : JobInv(j)

-----------------------------------------------------------------------------
(* Steps of one job in the abstract specification.                         *)

Same(j) == status'[j] = status[j] /\ cancelReq'[j] = cancelReq[j] /\ Turn(j)' = Turn(j)

Becomes(j, s, r, t) == status'[j] = s /\ cancelReq'[j] = r /\ Turn(j)' = t

WasOrCancelled(j, s) == status[j] = s \/ (cancelReq[j] /\ status[j] = "cancelled")

Advances(j) ==
    \/ Same(j)
    \/ Turn(j) = "unborn" /\ Becomes(j, "queued", cancelReq[j], "waiting")
    \/ Turn(j) = "waiting" /\ WasOrCancelled(j, "queued") /\ Becomes(j, "running", cancelReq[j], "working")
    \/ /\ Turn(j) = "working" /\ WasOrCancelled(j, "running")
       /\ \E s \in {"completed", "failed"} : Becomes(j, s, cancelReq[j], "over")
    \/ Turn(j) = "working" /\ Becomes(j, status[j], cancelReq[j], "over")
    \/ Turn(j) = "over" /\ status[j] = "running" /\ Becomes(j, "failed", cancelReq[j], "over")
    \/ status[j] # "none" /\ Becomes(j, "cancelled", TRUE, Turn(j))
    \/ status[j] # "none" /\ Becomes(j, "none", FALSE, "over")

LifecycleStep == [Lifecycle!Next]_Lifecycle!vars

(* One job advances, the others stay as they are: a step of the lifecycle. *)
LEMMA OneAdvances ==
    ASSUME TypeOK, TypeOK', NEW j \in Job, Advances(j), \A k \in Job : k # j => Same(k)
    PROVE  LifecycleStep
<1> DEFINE turn == [k \in Job |-> Turn(k)]
<1>1. /\ status \in [Job -> Status] /\ status' \in [Job -> Status]
      /\ cancelReq \in [Job -> BOOLEAN] /\ cancelReq' \in [Job -> BOOLEAN]
    BY DEF TypeOK
<1>2. ASSUME NEW s, NEW r, NEW t, Becomes(j, s, r, t)
      PROVE  /\ status' = [status EXCEPT ![j] = s]
             /\ cancelReq' = [cancelReq EXCEPT ![j] = r]
             /\ turn' = [turn EXCEPT ![j] = t]
    BY <1>1, <1>2 DEF Becomes, Same
<1>a. ASSUME cancelReq'[j] = cancelReq[j]
      PROVE  cancelReq' = cancelReq
  <2>1. \A k \in Job : cancelReq'[k] = cancelReq[k]
    BY <1>a DEF Same
  <2> QED BY <1>1, <2>1
<1>3. CASE Same(j)
  <2>1. \A k \in Job : Same(k)
    BY <1>3
  <2>2. status' = status
    BY <1>1, <2>1 DEF Same
  <2>3. turn' = turn
    BY <2>1 DEF Same
  <2> QED BY <1>3, <1>a, <2>2, <2>3 DEF Same, LifecycleStep, Lifecycle!vars
<1>4. CASE Turn(j) = "unborn" /\ Becomes(j, "queued", cancelReq[j], "waiting")
  <2>1. Lifecycle!Submit(j)
    BY <1>a, <1>2, <1>4 DEF Becomes, Lifecycle!Submit, Lifecycle!Move
  <2> QED BY <2>1 DEF LifecycleStep, Lifecycle!Next
<1>5. CASE Turn(j) = "waiting" /\ WasOrCancelled(j, "queued") /\ Becomes(j, "running", cancelReq[j], "working")
  <2>1. Lifecycle!Start(j)
    BY <1>a, <1>2, <1>5 DEF Becomes, WasOrCancelled, Lifecycle!Start, Lifecycle!Move, Lifecycle!Was
  <2> QED BY <2>1 DEF LifecycleStep, Lifecycle!Next
<1>6. CASE /\ Turn(j) = "working" /\ WasOrCancelled(j, "running")
           /\ \E s \in {"completed", "failed"} : Becomes(j, s, cancelReq[j], "over")
  <2>1. Lifecycle!Finish(j)
    BY <1>a, <1>2, <1>6 DEF Becomes, WasOrCancelled, Lifecycle!Finish, Lifecycle!Move, Lifecycle!Was
  <2> QED BY <2>1 DEF LifecycleStep, Lifecycle!Next
<1>7. CASE Turn(j) = "working" /\ Becomes(j, status[j], cancelReq[j], "over")
  <2>1. Lifecycle!Quit(j)
    BY <1>a, <1>2, <1>7 DEF Becomes, Lifecycle!Quit, Lifecycle!Move
  <2> QED BY <2>1 DEF LifecycleStep, Lifecycle!Next
<1>8. CASE Turn(j) = "over" /\ status[j] = "running" /\ Becomes(j, "failed", cancelReq[j], "over")
  <2>1. Lifecycle!Recover(j)
    BY <1>a, <1>2, <1>8 DEF Becomes, Lifecycle!Recover, Lifecycle!Move
  <2> QED BY <2>1 DEF LifecycleStep, Lifecycle!Next
<1>9. CASE status[j] # "none" /\ Becomes(j, "cancelled", TRUE, Turn(j))
  <2>1. Lifecycle!Cancel(j)
    BY <1>1, <1>2, <1>9 DEF Lifecycle!Cancel, Lifecycle!Move
  <2> QED BY <2>1 DEF LifecycleStep, Lifecycle!Next
<1>10. CASE status[j] # "none" /\ Becomes(j, "none", FALSE, "over")
  <2>1. Lifecycle!Delete(j)
    BY <1>1, <1>2, <1>10 DEF Lifecycle!Delete, Lifecycle!Move
  <2> QED BY <2>1 DEF LifecycleStep, Lifecycle!Next
<1> QED BY <1>3, <1>4, <1>5, <1>6, <1>7, <1>8, <1>9, <1>10 DEF Advances

(* A step that leaves the rows alone, and every task at work at work.      *)
LEMMA RowsRest ==
    ASSUME IInv, IInv', UNCHANGED <<status, cancelReq, startedAt, gone>>,
           \A k \in Job : pc'[k] \in Working <=> pc[k] \in Working
    PROVE  /\ \A k \in Job : Same(k)
           /\ LifecycleStep
<1>1. \A k \in Job : Same(k)
    BY DEF Same, Turn
<1>2. status' = status /\ cancelReq' = cancelReq /\ [k \in Job |-> Turn(k)]' = [k \in Job |-> Turn(k)]
    BY <1>1 DEF Same
<1> QED BY <1>1, <1>2 DEF LifecycleStep, Lifecycle!vars

-----------------------------------------------------------------------------
(* Steps that concern one job, or none.                                    *)

Rest(k) ==
    /\ status'[k] = status[k] /\ cancelReq'[k] = cancelReq[k] /\ startedAt'[k] = startedAt[k]
    /\ k \in gone' <=> k \in gone
    /\ pc'[k] = pc[k] /\ (Pending(k) => Pending(k)')

(* Cancellations are those that clients asked for, while requests are served. *)
KillsAnswered == server' = "up" => server = "up" /\ kill' \subseteq answered'

(* A job that rests keeps what the invariant says of it.                   *)
LEMMA RestInv ==
    ASSUME NEW k \in Job, JobInv(k), Rest(k), server' = "up" => server = "up"
    PROVE  JobInv(k)' /\ Same(k)
<1>1. KeptInv(k)'
    BY DEF JobInv, KeptInv, Rest
<1>2. RequestedInv(k)' /\ ExecutionInv(k)'
    BY DEF JobInv, RequestedInv, ExecutionInv, Rest
<1>3. Same(k)
    BY DEF Rest, Same, Turn
<1> QED BY <1>1, <1>2, <1>3 DEF JobInv

(* One job moves on, the others rest.                                      *)
LEMMA OneJobMoves ==
    ASSUME IInv, IInv', CleanInv, KillsAnswered,
           NEW j \in Job, JobInv(j)', Advances(j), \A k \in Job : k # j => Rest(k)
    PROVE  CleanInv' /\ LifecycleStep
<1>1. \A k \in Job : k # j => JobInv(k)' /\ Same(k)
    BY RestInv DEF CleanInv, KillsAnswered
<1>2. CleanInv'
    BY <1>1 DEF CleanInv, KillsAnswered
<1> QED BY <1>1, <1>2, OneAdvances DEF IInv

(* All jobs rest.                                                          *)
LEMMA AllRest ==
    ASSUME IInv, IInv', CleanInv, KillsAnswered, UNCHANGED <<status, cancelReq, startedAt, gone, pc, queue>>,
           \A c \in Client : at[c] = "enqueue" => at'[c] = "enqueue" /\ on'[c] = on[c]
    PROVE  CleanInv' /\ LifecycleStep
<1>1. \A k \in Job : Rest(k)
    BY DEF Rest, Pending, Waiting
<1>2. CleanInv'
    BY <1>1, RestInv DEF CleanInv, KillsAnswered
<1>3. LifecycleStep
    BY RowsRest
<1> QED BY <1>2, <1>3

(* What is known of an id in each state of the row.                        *)
LEMMA TurnOf ==
    ASSUME IInv, NEW j \in Job
    PROVE  /\ j \in gone => Turn(j) = "over"
           /\ ~Inserted(j) => Turn(j) = "unborn"
           /\ status[j] # "none" /\ ~startedAt[j] => Turn(j) = "waiting"
           /\ status[j] # "none" /\ startedAt[j] /\ pc[j] \in Working => Turn(j) = "working"
           /\ status[j] # "none" /\ startedAt[j] /\ pc[j] \notin Working => Turn(j) = "over"
BY DEF IInv, RowInv, Turn, Inserted

-----------------------------------------------------------------------------
(* The request handlers.                                                   *)

(* Steps of the handlers that leave rows, tasks and the queue alone.       *)
LEMMA HandlerRests ==
    ASSUME IInv, IInv', CleanInv, NEW c \in Client,
           \/ CreateJob(c) \/ CancelGet(c) \/ DeleteGet(c) \/ DeleteFiles(c) \/ CancelTask(c)
           \/ \E j \in Job, p \in {"cancelGet", "deleteGet"} : Request(c, j, p)
    PROVE  CleanInv' /\ LifecycleStep
<1>1. /\ UNCHANGED <<status, cancelReq, startedAt, gone, pc, queue, server>>
      /\ \A d \in Client : d # c => at'[d] = at[d] /\ on'[d] = on[d]
      /\ at[c] # "enqueue"
    BY DEF CreateJob, CancelGet, DeleteGet, DeleteFiles, CancelTask, Request, Suspend, NoStatement, tableVars,
       workerVars, taskVars, IInv, TypeOK
<1>2. KillsAnswered
    BY DEF CreateJob, CancelGet, DeleteGet, DeleteFiles, CancelTask, Request, taskVars, KillsAnswered, CleanInv
<1> QED BY <1>1, <1>2, AllRest

(* The row of a new job is inserted.                                       *)
LEMMA InsertClean ==
    ASSUME IInv, IInv', CleanInv, NEW c \in Client, at[c] = "insert", ClientCommit(c)
    PROVE  CleanInv' /\ LifecycleStep
<1>0. PICK j \in Job : on[c] = j
    BY DEF IInv, ClientInv
<1>1. /\ ~Inserted(j)
      /\ status' = [status EXCEPT ![j] = "queued"]
      /\ at' = [at EXCEPT ![c] = "enqueue"] /\ on' = [on EXCEPT ![c] = j]
      /\ UNCHANGED <<cancelReq, startedAt, gone, pc, kill, queue, server, answered>>
    BY <1>0 DEF ClientCommit, ClientStatement, AfterStatement, InsertRow, Suspend, workerVars, taskVars,
       IInv, ClientInv
<1>2. ~startedAt[j] /\ status[j] = "none" /\ j \notin gone /\ pc[j] = "none" /\ ~cancelReq[j]
    BY <1>1 DEF Inserted, IInv, TypeOK, RowInv, TaskInv, CleanInv, JobInv, RequestedInv
<1>3. status'[j] = "queued" /\ at'[c] = "enqueue" /\ on'[c] = j
    BY <1>1 DEF IInv, TypeOK
<1>4. JobInv(j)'
    BY <1>1, <1>2, <1>3 DEF JobInv, KeptInv, Pending, RequestedInv, ExecutionInv, Executing, Working
<1>5. Advances(j)
    BY <1>1, <1>2, <1>3 DEF Advances, Becomes, Turn
<1>6. \A k \in Job : k # j => Rest(k)
    BY <1>1 DEF Rest, Pending, Waiting, IInv, TypeOK
<1>7. KillsAnswered
    BY <1>1 DEF KillsAnswered, CleanInv
<1> QED BY <1>4, <1>5, <1>6, <1>7, OneJobMoves

(* request_cancel.                                                         *)
LEMMA CancelSetClean ==
    ASSUME IInv, IInv', CleanInv, NEW c \in Client, at[c] = "cancelSet", ClientCommit(c)
    PROVE  CleanInv' /\ LifecycleStep
<1>0. PICK j \in Job : on[c] = j
    BY DEF IInv, ClientInv
<1>1. /\ Inserted(j)
      /\ status' = [status EXCEPT ![j] = IF status[j] # "none" THEN "cancelled" ELSE @]
      /\ cancelReq' = [cancelReq EXCEPT ![j] = status[j] # "none"]
      /\ at' = [at EXCEPT ![c] = "cancelTask"] /\ on' = [on EXCEPT ![c] = j]
      /\ UNCHANGED <<startedAt, gone, pc, kill, queue, server, answered>>
    BY <1>0 DEF ClientCommit, ClientStatement, AfterStatement, RequestCancelRow, UpdateStatus, Exists, Suspend,
       workerVars, taskVars, IInv, ClientInv
<1>2. JobInv(j)
    BY <1>1 DEF CleanInv
<1>3. /\ cancelReq'[j] <=> status[j] # "none"
      /\ status[j] # "none" => status'[j] = "cancelled"
      /\ status[j] = "none" => status'[j] = "none"
    BY <1>1 DEF IInv, TypeOK
<1>4. JobInv(j)'
    BY <1>1, <1>2, <1>3 DEF JobInv, KeptInv, RequestedInv, ExecutionInv
<1>5. Advances(j)
  <2>1. CASE status[j] = "none"
    <3>1. j \in gone /\ ~cancelReq[j] /\ ~cancelReq'[j]
      BY <1>1, <1>2, <1>3, <2>1 DEF Inserted, JobInv, RequestedInv
    <3>2. Turn(j) = "over" /\ Turn(j)' = "over"
      BY <1>1, <3>1 DEF Turn
    <3>3. cancelReq'[j] = cancelReq[j]
      BY <3>1 DEF IInv, TypeOK
    <3> QED BY <1>3, <2>1, <3>2, <3>3 DEF Advances, Same
  <2>2. CASE status[j] # "none"
    <3>1. Turn(j)' = Turn(j)
      BY <1>1, <1>3, <2>2 DEF Turn
    <3>2. cancelReq'[j] = TRUE
      BY <1>3, <2>2 DEF IInv, TypeOK
    <3> QED BY <1>3, <2>2, <3>1, <3>2 DEF Advances, Becomes
  <2> QED BY <2>1, <2>2
<1>6. \A k \in Job : k # j => Rest(k)
    BY <1>1 DEF Rest, Pending, Waiting, IInv, TypeOK
<1>7. KillsAnswered
    BY <1>1 DEF KillsAnswered, CleanInv
<1> QED BY <1>4, <1>5, <1>6, <1>7, OneJobMoves

(* A row is deleted, by a request or by the cleanup; or it was gone.       *)
LEMMA DeleteClean ==
    ASSUME IInv, IInv', CleanInv, KillsAnswered, NEW j \in Job, Inserted(j), DeleteRow(j),
           UNCHANGED <<pc, queue>>,
           \A c \in Client : at[c] = "enqueue" => at'[c] = "enqueue" /\ on'[c] = on[c]
    PROVE  CleanInv' /\ LifecycleStep
<1>1. /\ status'[j] = "none" /\ cancelReq'[j] = FALSE /\ j \in gone'
      /\ \A k \in Job : k # j => /\ status'[k] = status[k] /\ cancelReq'[k] = cancelReq[k]
                                /\ startedAt'[k] = startedAt[k] /\ (k \in gone' <=> k \in gone)
    BY DEF DeleteRow, IInv, TypeOK
<1>2. JobInv(j)'
    BY <1>1 DEF JobInv, KeptInv, RequestedInv, ExecutionInv
<1>3. Turn(j)' = "over"
    BY <1>1 DEF Turn
<1>4. Advances(j)
  <2>1. CASE status[j] = "none"
    <3>1. j \in gone /\ ~cancelReq[j]
      BY <2>1 DEF Inserted, CleanInv, JobInv, RequestedInv
    <3>2. Turn(j) = "over" /\ cancelReq[j] = FALSE
      BY <3>1 DEF Turn, IInv, TypeOK
    <3> QED BY <1>1, <1>3, <2>1, <3>2 DEF Advances, Same
  <2>2. CASE status[j] # "none"
    BY <1>1, <1>3, <2>2 DEF Advances, Becomes
  <2> QED BY <2>1, <2>2
<1>5. \A k \in Job : k # j => Rest(k)
    BY <1>1 DEF Rest, Pending, Waiting
<1> QED BY <1>2, <1>4, <1>5, OneJobMoves

(* queue.put: a job that was about to wait does.                           *)
LEMMA EnqueueClean ==
    ASSUME IInv, IInv', CleanInv, NEW c \in Client, Enqueue(c)
    PROVE  CleanInv' /\ LifecycleStep
<1>0. PICK j \in Job : on[c] = j
    BY DEF Enqueue, IInv, ClientInv
<1>1. /\ queue' = Append(queue, j) /\ queue \in Seq(Job)
      /\ UNCHANGED <<status, cancelReq, startedAt, gone, pc, kill, server, answered>>
      /\ \A d \in Client : d # c => at'[d] = at[d] /\ on'[d] = on[d]
    BY <1>0 DEF Enqueue, Suspend, NoStatement, tableVars, taskVars, IInv, TypeOK
<1>2. Waiting(j)' /\ \A k \in Job : Waiting(k) => Waiting(k)'
  <2>1. Len(queue) \in Nat /\ Len(queue') = Len(queue) + 1 /\ queue'[Len(queue) + 1] = j
    BY <1>1
  <2>2. \A i \in 1..Len(queue) : i \in 1..Len(queue') /\ queue'[i] = queue[i]
    BY <1>1
  <2> QED BY <2>1, <2>2 DEF Waiting
<1>3. JobInv(j)
    BY DEF CleanInv
<1>4. JobInv(j)'
    BY <1>1, <1>2, <1>3 DEF JobInv, KeptInv, Pending, RequestedInv, ExecutionInv
<1>5. Advances(j)
    BY <1>1 DEF Advances, Same, Turn
<1>6. \A k \in Job : k # j => Rest(k)
    BY <1>0, <1>1, <1>2 DEF Rest, Pending
<1>7. KillsAnswered
    BY <1>1 DEF KillsAnswered, CleanInv
<1> QED BY <1>4, <1>5, <1>6, <1>7, OneJobMoves

(* Without failing statements these are all the steps of a handler.        *)
LEMMA HandlerClean ==
    ASSUME IInv, IInv', CleanInv, NEW c \in Client, CreateJob(c) \/ ClientStep(c)
    PROVE  CleanInv' /\ LifecycleStep
<1>1. CASE CreateJob(c) \/ CancelGet(c) \/ DeleteGet(c) \/ DeleteFiles(c) \/ CancelTask(c)
    BY <1>1, HandlerRests
<1>2. CASE Enqueue(c)
    BY <1>2, EnqueueClean
<1>3. CASE ClientCommit(c)
  <2>1. CASE at[c] = "insert"
    BY <1>3, <2>1, InsertClean
  <2>2. CASE at[c] = "cancelSet"
    BY <1>3, <2>2, CancelSetClean
  <2>3. CASE at[c] = "deleteRow" /\ DeleteRow(on[c])
    <3>1. on[c] \in Job /\ Inserted(on[c])
      BY <2>3 DEF IInv, ClientInv
    <3>2. /\ UNCHANGED <<pc, queue, kill, server, answered>>
          /\ \A d \in Client : d # c => at'[d] = at[d] /\ on'[d] = on[d]
      BY <1>3 DEF ClientCommit, Suspend, workerVars, taskVars, IInv, TypeOK
    <3>3. KillsAnswered
      BY <3>2 DEF KillsAnswered, CleanInv
    <3> QED BY <2>3, <3>1, <3>2, <3>3, DeleteClean
  <2> QED BY <1>3, <2>1, <2>2, <2>3 DEF ClientCommit, ClientStatement
<1> QED BY <1>1, <1>2, <1>3 DEF ClientStep

-----------------------------------------------------------------------------
(* The worker.                                                             *)

(* What waits stays in the queue, but for the head that is taken.          *)
LEMMA OthersWait ==
    ASSUME IInv, queue # <<>>, queue' = Tail(queue)
    PROVE  \A k \in Job : Waiting(k) => Waiting(k)' \/ k = Head(queue)
<1>1. /\ Len(queue) \in Nat \ {0} /\ Head(queue) = queue[1] /\ Len(queue') = Len(queue) - 1
      /\ \A i \in 1..Len(queue) - 1 : queue'[i] = queue[i + 1]
    BY HeadAndTail DEF IInv, TypeOK
<1> SUFFICES ASSUME NEW k \in Job, NEW i \in 1..Len(queue), queue[i] = k, i # 1
             PROVE  Waiting(k)'
    BY <1>1 DEF Waiting
<1>2. i - 1 \in 1..Len(queue') /\ queue'[i - 1] = queue[i]
    BY <1>1
<1> QED BY <1>2 DEF Waiting

(* The task of a job when the worker turns to the next: begun, dropped, or left. *)
WorkerMove(k) ==
    \/ pc'[k] = pc[k]
    \/ pc[k] = "none" /\ pc'[k] = "get1"
    \/ pc[k] \in Over /\ pc'[k] = "none"

(* The worker turns to the head of the queue, if there is one.             *)
LEMMA WorkerMoves ==
    ASSUME IInv, WorkerStep
    PROVE  \A k \in Job : WorkerMove(k) /\ (Waiting(k) => Waiting(k)' \/ pc'[k] = "get1")
<1> DEFINE h == Head(queue)
<1>1. CASE WorkerTake
  <2>1. queue # <<>> /\ queue' = Tail(queue) /\ pc' = [pc EXCEPT ![h] = "get1"]
    BY <1>1 DEF WorkerTake, TakeNext
  <2>2. h \in Job /\ pc[h] = "none"
    BY <2>1, TakeHead DEF IInv, QueueInv
  <2>3. (\A k \in Job : k # h => pc'[k] = pc[k]) /\ pc'[h] = "get1"
    BY <2>1, <2>2 DEF IInv, TypeOK
  <2>4. \A k \in Job : WorkerMove(k)
    BY <2>2, <2>3 DEF WorkerMove
  <2>5. \A k \in Job : Waiting(k) => Waiting(k)' \/ k = h
    BY <2>1, OthersWait
  <2> QED BY <2>3, <2>4, <2>5
<1>2. CASE WorkerReap /\ queue = <<>>
  <2>1. worker \in Job /\ pc[worker] \in Over /\ pc' = [pc EXCEPT ![worker] = "none"] /\ queue' = queue
    BY <1>2 DEF WorkerReap, TakeNext, IInv, TypeOK
  <2>2. (\A k \in Job : k # worker => pc'[k] = pc[k]) /\ pc'[worker] = "none"
    BY <2>1 DEF IInv, TypeOK
  <2>3. \A k \in Job : WorkerMove(k)
    BY <2>1, <2>2 DEF WorkerMove
  <2>4. \A k \in Job : Waiting(k) => Waiting(k)'
    BY <2>1 DEF Waiting
  <2> QED BY <2>3, <2>4
<1>3. CASE WorkerReap /\ queue # <<>>
  <2>1. /\ worker \in Job /\ pc[worker] \in Over /\ queue # <<>>
        /\ pc' = [[pc EXCEPT ![worker] = "none"] EXCEPT ![h] = "get1"] /\ queue' = Tail(queue)
    BY <1>3 DEF WorkerReap, TakeNext, IInv, TypeOK
  <2>2. h \in Job /\ pc[h] = "none" /\ h # worker
    BY <2>1, TakeHead DEF IInv, QueueInv, Over
  <2>3. /\ \A k \in Job : k # worker /\ k # h => pc'[k] = pc[k]
        /\ pc'[worker] = "none" /\ pc'[h] = "get1"
    BY <2>1, <2>2 DEF IInv, TypeOK
  <2>4. \A k \in Job : WorkerMove(k)
    BY <2>1, <2>2, <2>3 DEF WorkerMove
  <2>5. \A k \in Job : Waiting(k) => Waiting(k)' \/ k = h
    BY <2>1, OthersWait
  <2> QED BY <2>3, <2>4, <2>5
<1> QED BY <1>1, <1>2, <1>3 DEF WorkerStep

(* The worker takes a job, waits, or drops one that is over: no row and    *)
(* no execution changes.                                                   *)
LEMMA WorkerClean ==
    ASSUME IInv, IInv', CleanInv, WorkerStep
    PROVE  CleanInv' /\ LifecycleStep
<1>1. /\ UNCHANGED <<status, cancelReq, startedAt, gone, kill, at, on, answered>>
      /\ server' = "up" => server = "up"
    BY DEF WorkerStep, WorkerTake, WorkerReap, NoStatement, tableVars, clientVars
<1>2. \A k \in Job : WorkerMove(k) /\ (Pending(k) => Pending(k)' \/ pc'[k] = "get1")
    BY <1>1, WorkerMoves DEF Pending
<1>3. ASSUME NEW k \in Job
      PROVE  JobInv(k)' /\ (pc'[k] \in Working <=> pc[k] \in Working)
  <2>1. JobInv(k) /\ WorkerMove(k)
    BY <1>2 DEF CleanInv
  <2>2. KeptInv(k)'
    BY <1>1, <1>2, <2>1 DEF JobInv, KeptInv, WorkerMove, Over
  <2>3. RequestedInv(k)' /\ ExecutionInv(k)' /\ (pc'[k] \in Working <=> pc[k] \in Working)
    BY <1>1, <2>1 DEF JobInv, RequestedInv, ExecutionInv, Executing, WorkerMove, Working, Over
  <2> QED BY <2>2, <2>3 DEF JobInv
<1>4. CleanInv'
    BY <1>1, <1>3 DEF CleanInv
<1> QED BY <1>1, <1>3, <1>4, RowsRest

-----------------------------------------------------------------------------
(* The task.                                                               *)

(* A step of a task concerns its own job.                                  *)
LEMMA TaskFrame ==
    ASSUME IInv, CleanInv, NEW j \in Job, ProcessJob(j)
    PROVE  /\ \A k \in Job : k # j => Rest(k)
           /\ KillsAnswered
           /\ pc[j] # "none" /\ Inserted(j) /\ JobInv(j) /\ gone' = gone
           /\ server' = server /\ (Pending(j)' <=> Pending(j))
<1>1. UNCHANGED <<queue, at, on, server, answered>>
    BY DEF ProcessJob, workerVars, clientVars
<1>2. /\ pc[j] # "none" /\ gone' = gone
      /\ \A k \in Job : k # j => /\ status'[k] = status[k] /\ cancelReq'[k] = cancelReq[k]
                                /\ startedAt'[k] = startedAt[k]
    BY DEF ProcessJob, Get1, Discard, SetRunning, SetCancelled, Get2, ReadInput, Pipeline, Get3, WriteResult,
       SetCompleted, SetFailed, Return, Cancelled, Resumes, NoStatement, SetRunningRow, SetStatus, UpdateStatus,
       tableVars, IInv, TypeOK, TaskInv, Live, Working
<1>3. kill' \subseteq kill /\ \A k \in Job : k # j => pc'[k] = pc[k]
    BY DEF ProcessJob, Get1, Discard, SetRunning, SetCancelled, Get2, ReadInput, Pipeline, Get3, WriteResult,
       SetCompleted, SetFailed, Return, Cancelled, Goto, IInv, TypeOK
<1>4. \A k \in Job : Pending(k)' <=> Pending(k)
    BY <1>1 DEF Pending, Waiting
<1>5. KillsAnswered
    BY <1>1, <1>3 DEF KillsAnswered, CleanInv
<1>6. Inserted(j) /\ JobInv(j)
    BY <1>2 DEF IInv, TaskInv, CleanInv
<1> QED BY <1>1, <1>2, <1>3, <1>4, <1>5, <1>6 DEF Rest

(* A task goes to its next await and leaves the row as it is.              *)
LEMMA TaskWalks ==
    ASSUME IInv, IInv', CleanInv, NEW j \in Job, ProcessJob(j), JobInv(j)', NoStatement,
           pc'[j] \in Working => pc[j] \in Working \/ ~startedAt[j]
    PROVE  CleanInv' /\ LifecycleStep
<1>1. UNCHANGED <<status, cancelReq, startedAt, gone>>
    BY DEF NoStatement, tableVars
<1>2. Inserted(j)
    BY TaskFrame
<1>3. Advances(j)
  <2>1. CASE status[j] # "none" /\ startedAt[j] /\ pc[j] \in Working /\ pc'[j] \notin Working
    BY <1>1, <2>1 DEF Advances, Becomes, Turn, IInv, RowInv
  <2>2. CASE ~(status[j] # "none" /\ startedAt[j] /\ pc[j] \in Working /\ pc'[j] \notin Working)
    <3>1. Turn(j)' = Turn(j)
      BY <1>1, <1>2, <2>2 DEF Turn, Inserted
    <3> QED BY <1>1, <3>1 DEF Advances, Same
  <2> QED BY <2>1, <2>2
<1> QED BY <1>3, TaskFrame, OneJobMoves

(* A task whose row is gone changes none.                                  *)
LEMMA TaskOfNoRow ==
    ASSUME IInv, IInv', CleanInv, NEW j \in Job, ProcessJob(j),
           status[j] = "none", status'[j] = "none", cancelReq'[j] = cancelReq[j], ~startedAt'[j],
           pc'[j] # "setCancelled" \/ pc[j] = "setCancelled"
    PROVE  CleanInv' /\ LifecycleStep
<1>1. j \in gone /\ gone' = gone /\ JobInv(j)
    BY TaskFrame DEF Inserted
<1>2. Advances(j)
    BY <1>1 DEF Advances, Same, Turn
<1>3. JobInv(j)'
    BY <1>1 DEF JobInv, KeptInv, RequestedInv, ExecutionInv
<1> QED BY <1>2, <1>3, TaskFrame, OneJobMoves

(* The reads of a task, its files and the pipeline.                        *)
LEMMA TaskReadsClean ==
    ASSUME IInv, IInv', CleanInv, NEW j \in Job, ProcessJob(j),
           \/ Get1(j) \/ Discard(j) \/ Get2(j) \/ ReadInput(j) \/ Pipeline(j) \/ Get3(j) \/ WriteResult(j)
           \/ Return(j) \/ Cancelled(j)
    PROVE  CleanInv' /\ LifecycleStep
<1>1. NoStatement /\ UNCHANGED <<status, cancelReq, startedAt, gone>>
    BY DEF Get1, Discard, Get2, ReadInput, Pipeline, Get3, WriteResult, Return, Cancelled, NoStatement, tableVars
<1>2. /\ JobInv(j) /\ server' = server /\ (Pending(j)' <=> Pending(j))
      /\ server = "up" /\ j \in kill => status[j] # "queued"
    BY TaskFrame DEF CleanInv, IInv, AnsweredInv
<1>3. CASE Get1(j)
  <2>1. NotStarted(j) /\ pc'[j] \in {"done", "discard", "setCancelled", "setRunning"}
    BY <1>3 DEF Get1, Resumes, Goto, IInv, TypeOK, TaskInv
  <2>2. /\ pc'[j] = "setCancelled" => cancelReq[j]
        /\ status[j] = "queued" /\ ~cancelReq[j] => pc'[j] = "setRunning"
    BY <1>3 DEF Get1, Resumes, Goto, Exists, IInv, TypeOK
  <2>3. JobInv(j)'
    BY <1>1, <1>2, <2>1, <2>2 DEF JobInv, KeptInv, RequestedInv, ExecutionInv, Executing, Working
  <2> QED BY <1>1, <2>1, <2>3, TaskWalks DEF NotStarted
<1>4. CASE Cancelled(j)
  <2>1. pc'[j] = "cancelled" /\ j \in kill
    BY <1>4 DEF Cancelled, IInv, TypeOK
  <2>2. JobInv(j)'
    BY <1>1, <1>2, <2>1 DEF JobInv, KeptInv, RequestedInv, ExecutionInv, Executing, Working
  <2> QED BY <1>1, <2>1, <2>2, TaskWalks DEF Working
<1>5. CASE Discard(j) \/ Get2(j) \/ ReadInput(j) \/ Pipeline(j) \/ Get3(j) \/ WriteResult(j) \/ Return(j)
  <2>1. /\ pc[j] \notin {"get1", "setRunning"}
        /\ pc'[j] \in Working => pc[j] \in Executing /\ pc'[j] \in Executing
        /\ pc'[j] = "setCancelled" => cancelReq[j]
    BY <1>5 DEF Discard, Get2, ReadInput, Pipeline, Get3, WriteResult, Return, Resumes, Goto, IInv, TypeOK,
       Executing, Working
  <2>2. JobInv(j)'
    BY <1>1, <1>2, <2>1 DEF JobInv, KeptInv, RequestedInv, ExecutionInv, Executing
  <2> QED BY <1>1, <2>1, <2>2, TaskWalks DEF Executing
<1> QED BY <1>3, <1>4, <1>5

(* The task writes the row: running, cancelled, completed or failed.       *)
LEMMA SetRunningClean ==
    ASSUME IInv, IInv', CleanInv, NEW j \in Job, ProcessJob(j), SetRunning(j)
    PROVE  CleanInv' /\ LifecycleStep
<1>1. /\ pc[j] = "setRunning" /\ pc'[j] = "get2" /\ NotStarted(j)
      /\ status'[j] = (IF status[j] # "none" THEN "running" ELSE "none")
      /\ startedAt'[j] = (status[j] # "none") /\ cancelReq'[j] = cancelReq[j]
    BY DEF SetRunning, SetRunningRow, UpdateStatus, Exists, Goto, IInv, TypeOK, TaskInv
<1>2. CASE status[j] = "none"
    BY <1>1, <1>2, TaskOfNoRow
<1>3. CASE status[j] # "none"
  <2>1. /\ JobInv(j) /\ gone' = gone /\ j \notin gone
        /\ status[j] \in {"queued", "cancelled"} /\ ~startedAt[j] /\ startedAt'[j] /\ status'[j] = "running"
    BY <1>1, <1>3, TaskFrame DEF NotStarted, IInv, RowInv
  <2>2. JobInv(j)'
    BY <1>1, <2>1 DEF JobInv, KeptInv, RequestedInv, ExecutionInv
  <2>3. Turn(j) = "waiting" /\ Turn(j)' = "working"
    BY <1>1, <1>3, <2>1 DEF Turn, Working
  <2>4. Advances(j)
    BY <1>1, <2>1, <2>3 DEF Advances, Becomes, WasOrCancelled, JobInv, RequestedInv
  <2> QED BY <2>2, <2>4, TaskFrame, OneJobMoves
<1> QED BY <1>2, <1>3

(* The task finds the request to cancel: the row says it already, or again.*)
LEMMA SetCancelledClean ==
    ASSUME IInv, IInv', CleanInv, NEW j \in Job, ProcessJob(j), SetCancelled(j)
    PROVE  CleanInv' /\ LifecycleStep
<1>1. /\ pc[j] = "setCancelled" /\ pc'[j] = "discard"
      /\ status'[j] = (IF status[j] # "none" THEN "cancelled" ELSE "none")
      /\ startedAt' = startedAt /\ cancelReq' = cancelReq
    BY DEF SetCancelled, SetStatus, UpdateStatus, Exists, Goto, IInv, TypeOK
<1>2. JobInv(j) /\ gone' = gone /\ (startedAt[j] => status[j] # "none")
    BY TaskFrame DEF IInv, RowInv
<1>3. CASE status[j] = "none"
    BY <1>1, <1>2, <1>3, TaskOfNoRow
<1>4. CASE status[j] # "none"
  <2>1. cancelReq[j] = TRUE /\ status'[j] = "cancelled"
    BY <1>1, <1>2, <1>4 DEF JobInv, RequestedInv, IInv, TypeOK
  <2>2. JobInv(j)'
    BY <1>1, <2>1 DEF JobInv, KeptInv, RequestedInv, ExecutionInv, Executing, Working
  <2>3. Turn(j)' = Turn(j)
    BY <1>1, <1>2, <1>4, <2>1 DEF Turn, Working
  <2>4. Advances(j)
    BY <1>1, <1>4, <2>1, <2>3 DEF Advances, Becomes
  <2> QED BY <2>2, <2>4, TaskFrame, OneJobMoves
<1> QED BY <1>3, <1>4

(* The outcome is written for the row that this execution started.         *)
LEMMA OutcomeClean ==
    ASSUME IInv, IInv', CleanInv, NEW j \in Job, ProcessJob(j), SetCompleted(j) \/ SetFailed(j)
    PROVE  CleanInv' /\ LifecycleStep
<1>1. /\ pc[j] \in Executing /\ pc[j] \in Working /\ pc'[j] = "return"
      /\ status[j] = "none" => status'[j] = "none"
      /\ status[j] # "none" => status'[j] \in {"completed", "failed"}
      /\ startedAt' = startedAt /\ cancelReq' = cancelReq
    BY DEF SetCompleted, SetFailed, SetStatus, UpdateStatus, Exists, Goto, Executing, Working, IInv, TypeOK
<1>2. JobInv(j) /\ gone' = gone /\ (startedAt[j] => status[j] # "none") /\ (j \in gone => status[j] = "none")
    BY TaskFrame DEF IInv, RowInv
<1>3. CASE status[j] = "none"
    BY <1>1, <1>2, <1>3, TaskOfNoRow
<1>4. CASE status[j] # "none"
  <2>1. startedAt[j] /\ WasOrCancelled(j, "running")
    BY <1>1, <1>2, <1>4 DEF JobInv, RequestedInv, ExecutionInv, WasOrCancelled
  <2>2. JobInv(j)'
    BY <1>1, <1>2, <1>4 DEF JobInv, KeptInv, RequestedInv, ExecutionInv, Executing, Working
  <2>3. Turn(j) = "working" /\ Turn(j)' = "over"
    BY <1>1, <1>2, <1>4, <2>1 DEF Turn, Working
  <2>4. Advances(j)
    BY <1>1, <1>4, <2>1, <2>3 DEF Advances, Becomes
  <2> QED BY <2>2, <2>4, TaskFrame, OneJobMoves
<1> QED BY <1>3, <1>4

(* Every step of the task.                                                 *)
LEMMA TaskClean ==
    ASSUME IInv, IInv', CleanInv, NEW j \in Job, ProcessJob(j)
    PROVE  CleanInv' /\ LifecycleStep
BY TaskReadsClean, SetRunningClean, SetCancelledClean, OutcomeClean DEF ProcessJob

-----------------------------------------------------------------------------
(* The cleanup.                                                            *)
LEMMA SweepClean ==
    ASSUME IInv, IInv', CleanInv, SweepStart \/ SweepRow \/ \E j \in Job : SweepFiles(j)
    PROVE  CleanInv' /\ LifecycleStep
<1>1. UNCHANGED <<pc, queue, kill, at, on, server, answered>>
    BY DEF SweepStart, SweepFiles, SweepRow, workerVars, taskVars, clientVars
<1>2. KillsAnswered
    BY <1>1 DEF KillsAnswered, CleanInv
<1>3. CASE SweepStart \/ \E j \in Job : SweepFiles(j)
  <2>1. UNCHANGED <<status, cancelReq, startedAt, gone>>
    BY <1>3 DEF SweepStart, SweepFiles, NoStatement, tableVars
  <2> QED BY <1>1, <1>2, <2>1, AllRest
<1>4. CASE SweepRow
  <2>1. sweeping \in Job /\ Inserted(sweeping) /\ DeleteRow(sweeping)
    BY <1>4 DEF SweepRow, IInv, TypeOK, SweepInv
  <2> QED BY <1>1, <1>2, <2>1, DeleteClean
<1> QED BY <1>3, <1>4

-----------------------------------------------------------------------------
(* The process.                                                            *)

(* With the process ends the execution of the job in progress.             *)
LEMMA ExitClean ==
    ASSUME IInv, IInv', CleanInv, Exit
    PROVE  CleanInv' /\ LifecycleStep
<1>1. /\ UNCHANGED <<status, cancelReq, startedAt, gone>> /\ server' = "down"
      /\ \A k \in Job : pc'[k] = "none"
    BY DEF Exit, NoStatement, tableVars
<1>2. CleanInv'
    BY <1>1 DEF CleanInv, JobInv, KeptInv, RequestedInv, ExecutionInv, Executing, Working
<1>3. ASSUME NEW k \in Job, pc[k] \notin Working
      PROVE  Same(k)
    BY <1>1, <1>3 DEF Same, Turn, Working
<1>4. CASE \A k \in Job : pc[k] \notin Working
  <2>1. \A k \in Job : pc'[k] \in Working <=> pc[k] \in Working
    BY <1>1, <1>4 DEF Working
  <2> QED BY <1>1, <1>2, <2>1, RowsRest
<1>5. ASSUME NEW w \in Job, pc[w] \in Working
      PROVE  LifecycleStep
  <2>1. worker = w /\ Inserted(w)
    BY <1>5 DEF IInv, TaskInv, Working
  <2>2. \A k \in Job : k # w => Same(k)
    BY <1>3, <2>1 DEF IInv, TaskInv, Working
  <2>3. Advances(w)
    <3>1. CASE status[w] # "none" /\ startedAt[w]
      BY <1>1, <1>5, <3>1 DEF Advances, Becomes, Turn, Working, IInv, RowInv
    <3>2. CASE ~(status[w] # "none" /\ startedAt[w])
      BY <1>1, <2>1, <3>2 DEF Advances, Same, Turn, Inserted
    <3> QED BY <3>1, <3>2
  <2> QED BY <2>2, <2>3, OneAdvances DEF IInv
<1> QED BY <1>2, <1>4, <1>5

(* start() begins, stop() cancels the tasks: no job is concerned yet.      *)
LEMMA StartStopClean ==
    ASSUME IInv, IInv', CleanInv, Crash \/ Start \/ StopBegin \/ StopGathered
    PROVE  CleanInv' /\ LifecycleStep
<1>1. CASE Exit
    BY <1>1, ExitClean
<1>2. CASE ~Exit
  <2>1. UNCHANGED <<status, cancelReq, startedAt, gone, pc, queue, at, on>> /\ server' # "up"
    BY <1>2 DEF Crash, Start, StopBegin, StopGathered, NoStatement, tableVars, workerVars, taskVars, clientVars
  <2>2. KillsAnswered
    BY <2>1 DEF KillsAnswered
  <2> QED BY <2>1, <2>2, AllRest
<1> QED BY <1>1, <1>2

(* While start() recovers there is no task.                                *)
LEMMA NoTaskAtStart ==
    ASSUME IInv, server = "starting"
    PROVE  (\A k \in Job : pc[k] = "none") /\ kill = {} /\ queue = <<>>
<1>1. worker = NoJob /\ queue = <<>>
    BY DEF IInv, QueueInv
<1>2. \A k \in Job : pc[k] = "none"
    BY <1>1 DEF IInv, TypeOK, TaskInv, Job, NoJob
<1>3. \A k \in kill : k \in Job /\ pc[k] # "none"
    BY DEF IInv, TypeOK, TaskInv, Live, Working
<1> QED BY <1>1, <1>2, <1>3

(* fail_running_jobs.                                                      *)
LEMMA RecoverStuckClean ==
    ASSUME IInv, IInv', CleanInv, NEW j \in Job, RecoverStuck(j)
    PROVE  CleanInv' /\ LifecycleStep
<1>1. /\ server = "starting" /\ status[j] = "running" /\ status' = [status EXCEPT ![j] = "failed"]
      /\ UNCHANGED <<cancelReq, startedAt, gone, pc, kill, queue, at, on, server, answered>>
    BY DEF RecoverStuck, SetStatus, UpdateStatus, Exists, IInv, TypeOK, workerVars, taskVars, clientVars
<1>2. pc[j] = "none" /\ JobInv(j) /\ j \notin gone /\ status'[j] = "failed"
    BY <1>1, NoTaskAtStart DEF CleanInv, IInv, TypeOK, RowInv
<1>3. JobInv(j)'
    BY <1>1, <1>2 DEF JobInv, KeptInv, RequestedInv, ExecutionInv, Executing, Working
<1>4. Turn(j) = "over" /\ Turn(j)' = "over"
    BY <1>1, <1>2 DEF Turn, JobInv, ExecutionInv, Working
<1>5. Advances(j)
    BY <1>1, <1>2, <1>4 DEF Advances, Becomes
<1>6. \A k \in Job : k # j => Rest(k)
    BY <1>1 DEF Rest, Pending, Waiting, IInv, TypeOK
<1>7. KillsAnswered
    BY <1>1 DEF KillsAnswered
<1> QED BY <1>3, <1>5, <1>6, <1>7, OneJobMoves

(* get_queued_jobs: a list of all queued jobs without repetition has each. *)
LEMMA RecoverQueuedClean ==
    ASSUME IInv, IInv', CleanInv, RecoverQueued
    PROVE  CleanInv' /\ LifecycleStep
<1> DEFINE n == Cardinality(Queued)
<1>1. /\ server = "starting"
      /\ UNCHANGED <<status, cancelReq, startedAt, gone, pc, kill, at, on, answered>>
    BY DEF RecoverQueued, NoStatement, tableVars, taskVars, clientVars
<1>2. IsFiniteSet(Queued) /\ n \in Nat
  <2>1. IsFiniteSet(Job)
    BY FS_Interval, JobQueueAssumption DEF Job
  <2>2. Queued \subseteq Job
    BY DEF Queued
  <2> QED BY <2>1, <2>2, FS_Subset, FS_CardinalityType
<1>3. PICK q \in [1..n -> Queued] :
          (\A a, b \in 1..n : a < b => q[a] < q[b]) /\ queue' = q
    BY DEF RecoverQueued
<1> HIDE DEF n
<1>4. \A a, b \in 1..n : q[a] = q[b] => a = b
  <2> SUFFICES ASSUME NEW a \in 1..n, NEW b \in 1..n, a < b
               PROVE  q[a] # q[b]
    BY <1>2
  <2>1. q[a] \in Int /\ q[b] \in Int /\ q[a] < q[b]
    BY <1>3 DEF Queued, Job
  <2> QED BY <2>1
<1>5. q \in Injection(1..n, Queued)
    BY <1>4 DEF Injection, IsInjective
<1>6. Cardinality(1..n) = n
    BY <1>2, FS_Interval
<1>7. q \in Surjection(1..n, Queued)
    BY <1>2, <1>5, <1>6, FS_Injection DEF n
<1>8. Len(queue') = n
  <2>1. q \in Seq(Queued)
    BY <1>2, SeqDef
  <2> QED BY <1>2, <1>3, <2>1
<1>9. \A k \in Job : status[k] = "queued" => Waiting(k)'
    BY <1>3, <1>7, <1>8 DEF Surjection, Queued, Waiting
<1>10. ASSUME NEW k \in Job
       PROVE  JobInv(k)'
  <2>1. JobInv(k)
    BY DEF CleanInv
  <2> QED BY <1>1, <1>9, <2>1 DEF JobInv, KeptInv, Pending, RequestedInv, ExecutionInv
<1>11. CleanInv'
    BY <1>1, <1>10, NoTaskAtStart DEF CleanInv
<1> QED BY <1>1, <1>11, RowsRest

-----------------------------------------------------------------------------
(* Every step, when no statement fails.                                    *)
LEMMA CleanNext ==
    ASSUME DbFaults = 0, IInv, IInv', CleanInv, [Next]_vars
    PROVE  CleanInv' /\ LifecycleStep
<1>1. ASSUME NEW c \in Client, CreateJob(c) \/ ClientStep(c)
      PROVE  CleanInv' /\ LifecycleStep
    BY <1>1, HandlerClean
<1>2. ASSUME NEW c \in Client, NEW j \in Job, NEW p \in {"cancelGet", "deleteGet"}, Request(c, j, p)
      PROVE  CleanInv' /\ LifecycleStep
    BY <1>2, HandlerRests
<1>3. CASE WorkerStep
    BY <1>3, WorkerClean
<1>4. ASSUME NEW j \in Job, ProcessJob(j) \/ RecoverStuck(j)
      PROVE  CleanInv' /\ LifecycleStep
    BY <1>4, TaskClean, RecoverStuckClean
<1>5. CASE SweepStart \/ SweepRow \/ \E j \in Job : SweepFiles(j)
    BY <1>5, SweepClean
<1>6. CASE Start \/ RecoverQueued \/ StopBegin \/ StopGathered \/ Crash
    BY <1>6, StartStopClean, RecoverQueuedClean
<1>7. CASE UNCHANGED vars
  <2>1. UNCHANGED <<status, cancelReq, startedAt, gone, pc, queue, kill, at, on, server, answered>>
    BY <1>7 DEF vars, tableVars, workerVars, taskVars, clientVars
  <2>2. KillsAnswered
    BY <2>1 DEF KillsAnswered, CleanInv
  <2> QED BY <2>1, <2>2, AllRest
<1>8. ~(faults < DbFaults)
    BY DEF IInv, TypeOK
<1>9. (\A c \in Client : ~ClientDbError(c)) /\ (\A j \in Job : ~TaskDbError(j)) /\ ~SweepDbError
    BY <1>8 DEF ClientDbError, TaskDbError, SweepDbError
<1> QED BY <1>1, <1>2, <1>3, <1>4, <1>5, <1>6, <1>7, <1>9 DEF Next

(* The table is empty, and every execution unborn.                         *)
LEMMA CleanInit == Init => CleanInv /\ Lifecycle!Init
<1> SUFFICES ASSUME Init PROVE CleanInv /\ Lifecycle!Init
    OBVIOUS
<1>1. CleanInv
    BY DEF Init, CleanInv, JobInv, KeptInv, RequestedInv, ExecutionInv, Executing, Working
<1>2. \A j \in Job : Turn(j) = "unborn"
    BY DEF Init, Turn
<1> QED BY <1>1, <1>2 DEF Init, Lifecycle!Init

-----------------------------------------------------------------------------
(* What follows, for every number of jobs, clients, restarts and shutdowns.*)

(* The queue keeps the promises of JobLifecycle: a job is started once,    *)
(* its outcome is recorded once and by the task started for it, a restart  *)
(* fails what it finds running, and only a request to cancel lets a status *)
(* overwrite `cancelled'.                                                  *)
THEOREM FollowsLifecycle ==
    ASSUME DbFaults = 0
    PROVE  Spec => LifecycleSpec
<1>1. IInv /\ IInv' /\ CleanInv /\ [Next]_vars => CleanInv' /\ [Lifecycle!Next]_Lifecycle!vars
    BY CleanNext DEF LifecycleStep
<1> QED BY <1>1, CleanInit, InvariantHolds, PTL DEF Spec, LifecycleSpec, Lifecycle!Spec

(* As long as requests are served, an accepted job is in the queue, about  *)
(* to enter it or taken: not lost by another client's cancel or delete, by *)
(* the cleanup, or by the restart that rebuilds the queue from the table.  *)
THEOREM NoneForgotten ==
    ASSUME DbFaults = 0
    PROVE  Spec => []NoJobForgotten
<1>1. IInv /\ IInv' /\ CleanInv /\ [Next]_vars => CleanInv'
    BY CleanNext
<1>2. CleanInv => NoJobForgotten
    BY DEF CleanInv, JobInv, KeptInv, Pending, NoJobForgotten
<1> QED BY <1>1, <1>2, CleanInit, InvariantHolds, PTL DEF Spec

-----------------------------------------------------------------------------
(* III.  In one life of the process: results.                              *)

OneLife == DbFaults = 0 /\ MaxStops = 0 /\ MaxStarts <= 1

-----------------------------------------------------------------------------
(* The inductive invariant, on top of IInv and CleanInv.                   *)

(* A job whose outcome does not matter any more: cancelled or deleted ...  *)
Revoked(j) == cancelReq[j] \/ status[j] = "none"
(* ... or about to be.                                                     *)
Excused(j) == Revoked(j) \/ BeingDeleted(j)

(* Only a revoked job is cancelled, and its files are dropped then.        *)
FileInv(j) ==
    /\ status[j] = "completed" \/ pc[j] = "setCompleted" => dir[j] = "result" \/ Excused(j)
    /\ j \in kill \/ pc[j] = "cancelled" => Revoked(j)
    /\ pc[j] = "discard" => status[j] \in {"cancelled", "none"}

ServedOnce == server = "down" \/ (server \in {"starting", "up"} /\ starts >= 1)

FilesInv ==
    /\ ServedOnce
    /\ \A j \in Job : FileInv(j)
    /\ \A c \in Client : at[c] = "cancelTask" => Revoked(on[c])

Inv == IInv /\ CleanInv /\ FilesInv

-----------------------------------------------------------------------------
(* Steps that concern one job.                                             *)

FileRest(k) ==
    /\ status'[k] = status[k] /\ cancelReq'[k] = cancelReq[k] /\ dir'[k] = dir[k] /\ pc'[k] = pc[k]
    /\ k \in kill' => k \in kill
    /\ BeingDeleted(k) => BeingDeleted(k)'

(* The requests to cancel go on, or one is for a job that is revoked now.  *)
CancelsGoOn ==
    \A c \in Client : at'[c] = "cancelTask" =>
        on'[c] = on[c] /\ (at[c] = "cancelTask" \/ Revoked(on[c])')

(* A revoked job stays revoked, so the requests to cancel can go on.       *)
LEMMA FilesKept ==
    ASSUME Inv, CancelsGoOn, ServedOnce',
           \A k \in Job : FileInv(k)' /\ (Revoked(k) /\ Inserted(k) => Revoked(k)')
    PROVE  FilesInv'
<1>1. ASSUME NEW c \in Client, at'[c] = "cancelTask"
      PROVE  Revoked(on[c])'
  <2>1. CASE at[c] = "cancelTask"
    <3>1. PICK k \in Job : on[c] = k
      BY <2>1 DEF Inv, IInv, ClientInv
    <3>2. Inserted(k) /\ Revoked(k) /\ on'[c] = k
      BY <1>1, <2>1, <3>1 DEF Inv, IInv, ClientInv, FilesInv, CancelsGoOn
    <3> QED BY <3>2 DEF Revoked
  <2>2. CASE at[c] # "cancelTask"
    BY <1>1, <2>2 DEF CancelsGoOn
  <2> QED BY <2>1, <2>2
<1> QED BY <1>1 DEF FilesInv

(* A job that rests keeps what the invariant says of its files.            *)
LEMMA FileRests ==
    ASSUME Inv, NEW k \in Job, FileRest(k)
    PROVE  FileInv(k)' /\ (Revoked(k) => Revoked(k)')
<1>1. FileInv(k)
    BY DEF Inv, FilesInv
<1> QED BY <1>1 DEF FileInv, FileRest, Excused, Revoked

(* What is written concerns j.                                             *)
LEMMA FilesOf ==
    ASSUME Inv, NEW j \in Job, FileInv(j)', Revoked(j) /\ Inserted(j) => Revoked(j)',
           \A k \in Job : k # j => FileRest(k), CancelsGoOn, ServedOnce'
    PROVE  FilesInv'
BY FileRests, FilesKept

(* No job is written about.                                                *)
LEMMA FilesStay ==
    ASSUME Inv, \A k \in Job : FileRest(k), CancelsGoOn, ServedOnce'
    PROVE  FilesInv'
BY FileRests, FilesKept

(* A job without a row has nothing to keep.                                *)
LEMMA NoRowFiles ==
    ASSUME NEW j \in Job, status'[j] = "none"
    PROVE  FileInv(j)' /\ Revoked(j)'
BY DEF FileInv, Excused, Revoked

-----------------------------------------------------------------------------
(* The request handlers.                                                   *)

(* A step of one handler, from one await to the next.                      *)
LEMMA HandlerFrame ==
    ASSUME Inv, NEW c \in Client, CreateJob(c) \/ ClientStep(c)
    PROVE  /\ UNCHANGED <<pc, sweeping>> /\ ServedOnce'
           /\ \A d \in Client : d # c => at'[d] = at[d] /\ on'[d] = on[d]
           /\ \A k \in Job : BeingDeleted(k) => BeingDeleted(k)' \/ (on[c] = k /\ at[c] = "deleteRow")
<1>1. UNCHANGED <<pc, sweeping, server, starts>>
    BY DEF CreateJob, ClientStep, CancelGet, DeleteGet, ClientCommit, Enqueue, CancelTask, DeleteFiles,
       taskVars, sweepVars, boundVars
<1>2. \A d \in Client : d # c => at'[d] = at[d] /\ on'[d] = on[d]
    BY DEF CreateJob, ClientStep, CancelGet, DeleteGet, ClientCommit, Enqueue, CancelTask, DeleteFiles,
       Suspend, Inv, IInv, TypeOK
<1>3. ServedOnce'
    BY <1>1 DEF Inv, FilesInv, ServedOnce
<1> QED BY <1>1, <1>2, <1>3 DEF BeingDeleted

(* The reads, queue.put, and a new directory nobody knows of.              *)
LEMMA HandlerReadsFiles ==
    ASSUME Inv, NEW c \in Client, CancelGet(c) \/ DeleteGet(c) \/ Enqueue(c)
    PROVE  FilesInv'
<1>1. UNCHANGED <<status, cancelReq, dir, kill>> /\ at[c] # "deleteRow" /\ at'[c] # "cancelTask"
    BY DEF CancelGet, DeleteGet, Enqueue, Suspend, NoStatement, tableVars, taskVars, Inv, IInv, TypeOK
<1>2. (\A k \in Job : FileRest(k)) /\ CancelsGoOn /\ ServedOnce'
    BY <1>1, HandlerFrame DEF ClientStep, FileRest, CancelsGoOn
<1> QED BY <1>2, FilesStay

(* A request arrives.                                                      *)
LEMMA RequestFiles ==
    ASSUME Inv, NEW c \in Client, NEW j \in Job, NEW p \in {"cancelGet", "deleteGet"}, Request(c, j, p)
    PROVE  FilesInv'
<1>1. /\ UNCHANGED <<status, cancelReq, dir, pc, kill, sweeping, server, starts>>
      /\ at[c] = "idle" /\ at'[c] \notin {"cancelTask", "deleteRow"}
      /\ \A d \in Client : d # c => at'[d] = at[d] /\ on'[d] = on[d]
    BY DEF Request, NoStatement, tableVars, taskVars, sweepVars, boundVars, Inv, IInv, TypeOK
<1>2. (\A k \in Job : FileRest(k)) /\ CancelsGoOn /\ ServedOnce'
    BY <1>1 DEF FileRest, BeingDeleted, CancelsGoOn, Inv, FilesInv, ServedOnce
<1> QED BY <1>2, FilesStay

(* create_job makes the directory of an id that has no row.                *)
LEMMA CreateJobFiles ==
    ASSUME Inv, NEW c \in Client, CreateJob(c)
    PROVE  FilesInv'
<1>0. PICK n \in Job : n = created + 1
    BY JobQueueAssumption DEF CreateJob, Inv, IInv, TypeOK, Job
<1>1. /\ UNCHANGED <<status, cancelReq, kill>> /\ dir' = [dir EXCEPT ![n] = "input"]
      /\ at[c] = "idle" /\ at'[c] = "insert"
    BY <1>0 DEF CreateJob, NoStatement, tableVars, taskVars, Inv, IInv, TypeOK
<1>2. status[n] = "none"
    BY <1>0 DEF Inv, IInv, TypeOK, RowInv, Inserted
<1>3. \A k \in Job : k # n => FileRest(k)
    BY <1>1, HandlerFrame DEF FileRest, Inv, IInv, TypeOK
<1>4. CancelsGoOn /\ ServedOnce'
    BY <1>1, HandlerFrame DEF CancelsGoOn
<1>5. FileInv(n)' /\ Revoked(n)'
    BY <1>1, <1>2, NoRowFiles
<1> QED BY <1>1, <1>3, <1>4, <1>5, FilesOf

(* _delete_files: the row follows.                                         *)
LEMMA DeleteFilesFiles ==
    ASSUME Inv, NEW c \in Client, DeleteFiles(c)
    PROVE  FilesInv'
<1>0. PICK j \in Job : on[c] = j
    BY DEF DeleteFiles, Inv, IInv, ClientInv
<1>1. /\ UNCHANGED <<status, cancelReq, kill>> /\ dir' = [dir EXCEPT ![j] = "absent"]
      /\ at[c] = "deleteFiles" /\ at'[c] = "deleteRow" /\ on'[c] = j
    BY <1>0 DEF DeleteFiles, RemoveDir, Suspend, NoStatement, tableVars, taskVars, Inv, IInv, TypeOK
<1>2. FileInv(j) /\ FileInv(j)'
  <2>1. FileInv(j) /\ pc' = pc
    BY HandlerFrame DEF Inv, FilesInv, ClientStep
  <2>2. BeingDeleted(j)'
    BY <1>1 DEF BeingDeleted
  <2> QED BY <1>1, <2>1, <2>2 DEF FileInv, Excused, Revoked
<1>3. \A k \in Job : k # j => FileRest(k)
    BY <1>1, HandlerFrame DEF ClientStep, FileRest, Inv, IInv, TypeOK
<1>4. CancelsGoOn /\ ServedOnce'
    BY <1>1, HandlerFrame DEF ClientStep, CancelsGoOn
<1> QED BY <1>1, <1>2, <1>3, <1>4, FilesOf DEF Revoked

(* The task that is cancelled is that of a job revoked before.             *)
LEMMA CancelTaskFiles ==
    ASSUME Inv, NEW c \in Client, CancelTask(c)
    PROVE  FilesInv'
<1>0. PICK j \in Job : on[c] = j
    BY DEF CancelTask, Inv, IInv, ClientInv
<1>1. /\ UNCHANGED <<status, cancelReq, dir>> /\ kill' \subseteq kill \cup {j}
      /\ at[c] = "cancelTask" /\ at'[c] = "idle" /\ Revoked(j) /\ FileInv(j)
    BY <1>0 DEF CancelTask, Suspend, NoStatement, tableVars, Inv, IInv, TypeOK, FilesInv
<1>2. FileInv(j)' /\ Revoked(j)'
    BY <1>1, HandlerFrame DEF ClientStep, FileInv, Excused, Revoked
<1>3. \A k \in Job : k # j => FileRest(k)
    BY <1>1, HandlerFrame DEF ClientStep, FileRest
<1>4. CancelsGoOn /\ ServedOnce'
    BY <1>1, HandlerFrame DEF ClientStep, CancelsGoOn
<1> QED BY <1>2, <1>3, <1>4, FilesOf

(* The row is inserted, marked or deleted.                                 *)
LEMMA CommitFiles ==
    ASSUME Inv, NEW c \in Client, ClientCommit(c)
    PROVE  FilesInv'
<1>0. PICK j \in Job : on[c] = j
    BY DEF ClientCommit, ClientStatement, Inv, IInv, ClientInv
<1>1. UNCHANGED <<dir, pc, kill, sweeping>> /\ ServedOnce'
    BY HandlerFrame DEF ClientCommit, taskVars, sweepVars, ClientStep
<1>2. \A k \in Job : k # j => status'[k] = status[k] /\ cancelReq'[k] = cancelReq[k]
    BY <1>0 DEF ClientCommit, ClientStatement, InsertRow, RequestCancelRow, UpdateStatus, DeleteRow, Inv, IInv, TypeOK
<1>3. \A k \in Job : k # j => FileRest(k)
    BY <1>0, <1>1, <1>2, HandlerFrame DEF ClientStep, FileRest
<1>4. CASE at[c] = "insert" /\ InsertRow(j)
  <2>1. status'[j] = "queued" /\ pc[j] = "none" /\ j \notin kill /\ ~Inserted(j) /\ at'[c] = "enqueue"
    BY <1>0, <1>4 DEF ClientCommit, AfterStatement, Suspend, InsertRow, Inv, IInv, TypeOK,
       ClientInv, TaskInv, Live, Working
  <2>2. FileInv(j)'
    BY <1>1, <2>1 DEF FileInv
  <2>3. CancelsGoOn
    BY <2>1, HandlerFrame DEF ClientStep, CancelsGoOn
  <2> QED BY <1>1, <1>3, <2>1, <2>2, <2>3, FilesOf
<1>5. CASE at[c] = "cancelSet" /\ RequestCancelRow(j)
  <2>1. /\ status'[j] \in {"cancelled", "none"} /\ Revoked(j)'
        /\ at'[c] = "cancelTask" /\ on'[c] = j
    BY <1>0, <1>5 DEF ClientCommit, AfterStatement, Suspend, RequestCancelRow, UpdateStatus, Exists, Revoked,
       Inv, IInv, TypeOK
  <2>2. FileInv(j)'
    BY <2>1 DEF FileInv, Excused
  <2>3. CancelsGoOn
    BY <1>0, <2>1, HandlerFrame DEF ClientStep, CancelsGoOn, Revoked
  <2> QED BY <1>1, <1>3, <2>1, <2>2, <2>3, FilesOf
<1>6. CASE at[c] = "deleteRow" /\ DeleteRow(j)
  <2>1. status'[j] = "none" /\ at'[c] = "idle"
    BY <1>0, <1>6 DEF ClientCommit, AfterStatement, Suspend, DeleteRow, Inv, IInv, TypeOK
  <2>2. FileInv(j)' /\ Revoked(j)'
    BY <2>1, NoRowFiles
  <2>3. CancelsGoOn
    BY <2>1, HandlerFrame DEF ClientStep, CancelsGoOn
  <2> QED BY <1>1, <1>3, <2>2, <2>3, FilesOf
<1> QED BY <1>0, <1>4, <1>5, <1>6 DEF ClientCommit, ClientStatement

-----------------------------------------------------------------------------
(* The worker: it drops the directory of a job that was cancelled.         *)
LEMMA WorkerFiles ==
    ASSUME Inv, WorkerStep
    PROVE  FilesInv'
<1>1. /\ UNCHANGED <<status, cancelReq, kill, at, on, sweeping, starts>>
      /\ server' = server \/ server = "draining"
    BY DEF WorkerStep, WorkerTake, WorkerReap, NoStatement, tableVars, clientVars, sweepVars, boundVars
<1>2. CancelsGoOn /\ ServedOnce' /\ \A k \in Job : BeingDeleted(k)' <=> BeingDeleted(k)
    BY <1>1 DEF CancelsGoOn, Inv, FilesInv, ServedOnce, BeingDeleted
<1>3. \A k \in Job : dir'[k] = dir[k] \/ pc[k] = "cancelled"
    BY DEF WorkerStep, WorkerTake, WorkerReap, Inv, IInv, TypeOK
<1>4. ASSUME NEW k \in Job
      PROVE  FileInv(k)' /\ (Revoked(k) => Revoked(k)')
  <2>1. FileInv(k) /\ WorkerMove(k)
    BY WorkerMoves DEF Inv, FilesInv
  <2> QED BY <1>1, <1>2, <1>3, <2>1 DEF FileInv, Excused, Revoked, WorkerMove, Over
<1> QED BY <1>2, <1>4, FilesKept

-----------------------------------------------------------------------------
(* The task.                                                               *)
LEMMA TaskFilesFrame ==
    ASSUME Inv, NEW j \in Job, ProcessJob(j)
    PROVE  /\ \A k \in Job : k # j => FileRest(k)
           /\ CancelsGoOn /\ ServedOnce' /\ FileInv(j) /\ (BeingDeleted(j)' <=> BeingDeleted(j))
           /\ cancelReq'[j] = cancelReq[j] /\ (status[j] = "none" => status'[j] = "none")
           /\ kill' \subseteq kill
<1>1. UNCHANGED <<at, on, sweeping, server, starts>>
    BY DEF ProcessJob, clientVars, sweepVars, boundVars
<1>2. /\ \A k \in Job : BeingDeleted(k)' <=> BeingDeleted(k)
      /\ CancelsGoOn /\ ServedOnce' /\ FileInv(j)
    BY <1>1 DEF BeingDeleted, CancelsGoOn, Inv, FilesInv, ServedOnce
<1>3. /\ \A k \in Job : k # j => status'[k] = status[k] /\ cancelReq'[k] = cancelReq[k]
      /\ cancelReq'[j] = cancelReq[j] /\ (status[j] = "none" => status'[j] = "none")
    BY DEF ProcessJob, Get1, Discard, SetRunning, SetCancelled, Get2, ReadInput, Pipeline, Get3, WriteResult,
       SetCompleted, SetFailed, Return, Cancelled, NoStatement, SetRunningRow, SetStatus, UpdateStatus, Exists,
       tableVars, Inv, IInv, TypeOK
<1>4. kill' \subseteq kill /\ \A k \in Job : k # j => pc'[k] = pc[k] /\ dir'[k] = dir[k]
    BY DEF ProcessJob, Get1, Discard, SetRunning, SetCancelled, Get2, ReadInput, Pipeline, Get3, WriteResult,
       SetCompleted, SetFailed, Return, Cancelled, Goto, RemoveDir, Inv, IInv, TypeOK
<1> QED BY <1>2, <1>3, <1>4 DEF FileRest

(* The row is `completed' only after write_result found the directory, and *)
(* the directory is dropped only when the job is revoked.                  *)
LEMMA TaskFiles ==
    ASSUME Inv, NEW j \in Job, ProcessJob(j)
    PROVE  FilesInv'
<1>1. /\ FileInv(j) /\ (BeingDeleted(j)' <=> BeingDeleted(j)) /\ kill' \subseteq kill
      /\ cancelReq'[j] = cancelReq[j] /\ (status[j] = "none" => status'[j] = "none")
      /\ status[j] = "cancelled" => cancelReq[j]
    BY TaskFilesFrame DEF Inv, CleanInv, JobInv, RequestedInv
<1>2. Revoked(j) => Revoked(j)'
    BY <1>1 DEF Revoked
<1>3. CASE WriteResult(j)
  <2>1. /\ UNCHANGED <<status>> /\ pc'[j] # "cancelled" /\ pc'[j] # "discard" /\ status[j] \in Status
        /\ pc'[j] = "setCompleted" => dir'[j] = "result"
        /\ dir'[j] = dir[j] \/ dir'[j] = "result"
    BY <1>3 DEF WriteResult, Goto, NoStatement, tableVars, Inv, IInv, TypeOK
  <2> QED BY <1>1, <1>2, <2>1, TaskFilesFrame, FilesOf DEF FileInv, Excused, Revoked
<1>4. CASE Discard(j)
  <2>1. UNCHANGED <<status>> /\ pc[j] = "discard" /\ pc'[j] = "done"
    BY <1>4 DEF Discard, Resumes, Goto, NoStatement, tableVars, Inv, IInv, TypeOK
  <2>2. FileInv(j)'
    BY <1>1, <1>2, <2>1 DEF FileInv, Revoked
  <2> QED BY <1>2, <2>2, TaskFilesFrame, FilesOf
<1>5. CASE SetCompleted(j)
  <2>1. dir' = dir /\ pc[j] = "setCompleted" /\ pc'[j] = "return"
    BY <1>5 DEF SetCompleted, Goto, Inv, IInv, TypeOK
  <2>2. FileInv(j)'
    BY <1>1, <1>2, <2>1 DEF FileInv, Excused, Revoked
  <2> QED BY <1>2, <2>2, TaskFilesFrame, FilesOf
<1>6. CASE SetRunning(j) \/ SetFailed(j) \/ SetCancelled(j)
  <2>1. /\ dir' = dir /\ pc'[j] \in {"get2", "return", "discard"}
        /\ status'[j] # "completed" /\ (pc'[j] = "discard" => status'[j] \in {"cancelled", "none"})
    BY <1>6 DEF SetRunning, SetFailed, SetCancelled, SetRunningRow, SetStatus, UpdateStatus, Exists, Goto,
       Inv, IInv, TypeOK
  <2>2. FileInv(j)'
    BY <1>1, <1>2, <2>1 DEF FileInv
  <2> QED BY <1>2, <2>2, TaskFilesFrame, FilesOf
<1>7. CASE Get1(j) \/ Get2(j) \/ ReadInput(j) \/ Pipeline(j) \/ Get3(j) \/ Return(j) \/ Cancelled(j)
  <2>1. /\ UNCHANGED <<status, dir>> /\ pc'[j] # "setCompleted"
        /\ pc'[j] = "cancelled" => j \in kill
        /\ pc'[j] = "discard" => status[j] \in {"cancelled", "none"}
    BY <1>7 DEF Get1, Get2, ReadInput, Pipeline, Get3, Return, Cancelled, Exists, Goto, NoStatement, tableVars,
       Inv, IInv, TypeOK
  <2>2. FileInv(j)'
    BY <1>1, <1>2, <2>1 DEF FileInv, Excused, Revoked
  <2> QED BY <1>2, <2>2, TaskFilesFrame, FilesOf
<1> QED BY <1>3, <1>4, <1>5, <1>6, <1>7 DEF ProcessJob

-----------------------------------------------------------------------------
(* The cleanup: the row follows the directory.                             *)
LEMMA SweepFilesFiles ==
    ASSUME Inv, SweepStart \/ SweepRow \/ \E j \in Job : SweepFiles(j)
    PROVE  FilesInv'
<1>1. UNCHANGED <<pc, kill, at, on, server, starts>>
    BY DEF SweepStart, SweepFiles, SweepRow, taskVars, clientVars, boundVars
<1>2. CancelsGoOn /\ ServedOnce'
    BY <1>1 DEF CancelsGoOn, Inv, FilesInv, ServedOnce
<1>3. CASE SweepStart
  <2>1. UNCHANGED <<status, cancelReq, dir, sweeping>>
    BY <1>3 DEF SweepStart, NoStatement, tableVars
  <2> QED BY <1>1, <1>2, <2>1, FilesStay DEF FileRest, BeingDeleted
<1>4. ASSUME NEW j \in Job, SweepFiles(j)
      PROVE  FilesInv'
  <2>1. /\ UNCHANGED <<status, cancelReq>> /\ sweeping = NoJob /\ sweeping' = j
        /\ \A k \in Job : k # j => dir'[k] = dir[k]
    BY <1>4 DEF SweepFiles, RemoveDir, NoStatement, tableVars, Inv, IInv, TypeOK
  <2>2. \A k \in Job : k # j => FileRest(k)
    BY <1>1, <2>1 DEF FileRest, BeingDeleted, Job, NoJob
  <2>3. FileInv(j)
    BY DEF Inv, FilesInv
  <2>4. FileInv(j)' /\ (Revoked(j) => Revoked(j)')
    BY <1>1, <2>1, <2>3 DEF FileInv, Excused, Revoked, BeingDeleted
  <2> QED BY <1>2, <2>2, <2>4, FilesOf
<1>5. CASE SweepRow
  <2>1. PICK j \in Job : sweeping = j
    BY <1>5 DEF SweepRow, Inv, IInv, TypeOK
  <2>2. /\ status'[j] = "none" /\ dir' = dir
        /\ \A k \in Job : k # j => status'[k] = status[k] /\ cancelReq'[k] = cancelReq[k]
    BY <1>5, <2>1 DEF SweepRow, DeleteRow, Inv, IInv, TypeOK
  <2>3. \A k \in Job : k # j => FileRest(k)
    BY <1>1, <2>1, <2>2 DEF FileRest, BeingDeleted
  <2>4. FileInv(j)' /\ Revoked(j)'
    BY <2>2, NoRowFiles
  <2> QED BY <1>2, <2>3, <2>4, FilesOf
<1> QED BY <1>3, <1>4, <1>5

-----------------------------------------------------------------------------
(* The one start of the process.                                           *)
LEMMA StartFiles ==
    ASSUME Inv, Start \/ RecoverQueued
    PROVE  FilesInv'
<1>1. UNCHANGED <<status, cancelReq, dir, pc, kill, at, on, sweeping>>
    BY DEF Start, RecoverQueued, NoStatement, tableVars, taskVars, clientVars, sweepVars
<1>2. ServedOnce'
    BY DEF Start, RecoverQueued, boundVars, Inv, IInv, TypeOK, FilesInv, ServedOnce
<1> QED BY <1>1, <1>2, FilesStay DEF FileRest, BeingDeleted, CancelsGoOn

(* fail_running_jobs at the start.                                         *)
LEMMA RecoverStuckFiles ==
    ASSUME Inv, NEW j \in Job, RecoverStuck(j)
    PROVE  FilesInv'
<1>1. /\ UNCHANGED <<cancelReq, dir, pc, kill, at, on, sweeping, server, starts>>
      /\ server = "starting" /\ status'[j] = "failed" /\ status[j] = "running"
      /\ \A k \in Job : k # j => status'[k] = status[k]
    BY DEF RecoverStuck, SetStatus, UpdateStatus, Exists, workerVars, taskVars, clientVars, sweepVars, boundVars,
       Inv, IInv, TypeOK
<1>2. pc[j] = "none" /\ j \notin kill
    BY <1>1, NoTaskAtStart DEF Inv
<1>3. FileInv(j)' /\ (Revoked(j) => Revoked(j)')
    BY <1>1, <1>2 DEF FileInv, Revoked
<1>4. \A k \in Job : k # j => FileRest(k)
    BY <1>1 DEF FileRest, BeingDeleted
<1>5. CancelsGoOn /\ ServedOnce'
    BY <1>1 DEF CancelsGoOn, Inv, FilesInv, ServedOnce
<1> QED BY <1>3, <1>4, <1>5, FilesOf

-----------------------------------------------------------------------------
(* Every step of the one life of the process.                              *)
LEMMA FilesNext ==
    ASSUME OneLife, Inv, [Next]_vars
    PROVE  FilesInv'
<1>1. ASSUME NEW c \in Client, CreateJob(c) \/ ClientStep(c)
      PROVE  FilesInv'
    BY <1>1, CreateJobFiles, HandlerReadsFiles, DeleteFilesFiles, CancelTaskFiles, CommitFiles DEF ClientStep
<1>2. ASSUME NEW c \in Client, NEW j \in Job, NEW p \in {"cancelGet", "deleteGet"}, Request(c, j, p)
      PROVE  FilesInv'
    BY <1>2, RequestFiles
<1>3. CASE WorkerStep
    BY <1>3, WorkerFiles
<1>4. ASSUME NEW j \in Job, ProcessJob(j) \/ RecoverStuck(j)
      PROVE  FilesInv'
    BY <1>4, TaskFiles, RecoverStuckFiles
<1>5. CASE SweepStart \/ SweepRow \/ \E j \in Job : SweepFiles(j)
    BY <1>5, SweepFilesFiles
<1>6. CASE Start \/ RecoverQueued
    BY <1>6, StartFiles
<1>7. CASE UNCHANGED vars
  <2>1. UNCHANGED <<status, cancelReq, dir, pc, kill, at, on, sweeping, server, starts>>
    BY <1>7 DEF vars, tableVars, taskVars, clientVars, sweepVars, boundVars
  <2> QED BY <2>1, FilesStay DEF FileRest, BeingDeleted, CancelsGoOn, Inv, FilesInv, ServedOnce
<1>8. ~(faults < DbFaults) /\ ~StopBegin /\ ~StopGathered /\ ~Crash
    BY JobQueueAssumption DEF OneLife, StopBegin, StopGathered, Crash, Inv, IInv, TypeOK, FilesInv, ServedOnce
<1>9. (\A c \in Client : ~ClientDbError(c)) /\ (\A j \in Job : ~TaskDbError(j)) /\ ~SweepDbError
    BY <1>8 DEF ClientDbError, TaskDbError, SweepDbError
<1> QED BY <1>1, <1>2, <1>3, <1>4, <1>5, <1>6, <1>7, <1>8, <1>9 DEF Next

(* GET /result finds the file of a completed job that nobody cancels or    *)
(* deletes, whatever is cancelled, deleted or cleaned up around it.        *)
THEOREM ResultIsKept ==
    ASSUME DbFaults = 0, MaxStops = 0, MaxStarts <= 1
    PROVE  Spec => []CompletedHasResult
<1>1. Init => FilesInv
    BY DEF Init, FilesInv, ServedOnce, FileInv
<1>2. IInv /\ IInv' /\ CleanInv /\ FilesInv /\ [Next]_vars => CleanInv' /\ FilesInv'
    BY CleanNext, FilesNext DEF Inv, OneLife
<1>3. FilesInv => CompletedHasResult
    BY DEF FilesInv, FileInv, Excused, Revoked, CompletedHasResult
<1> QED BY <1>1, <1>2, <1>3, CleanInit, InvariantHolds, PTL DEF Spec
=============================================================================
