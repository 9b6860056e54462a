------------------------------ MODULE JobQueue ------------------------------
(***************************************************************************)
(* The background job queue: JobManager (job_manager.py), its table        *)
(* (job_repository.py) and the HTTP handlers that call it (routes/jobs.py).*)
(*                                                                         *)
(* Everything runs in one asyncio event loop, so code between two awaits   *)
(* is atomic and every await of the repository is a point where other      *)
(* coroutines run.  A statement awaited by a coroutine is one action; the  *)
(* code that runs when its answer arrives is part of the next action.      *)
(* A pending coroutine is described by the await it is suspended in: `at'  *)
(* for the request handlers, `pc' for the task that processes a job,       *)
(* `sweep' for the cleanup loop and `server' for start() and stop().       *)
(*                                                                         *)
(* Not represented here: what the pipeline computes (a step with two       *)
(* outcomes), the progress columns (module JobProgress), and reads that    *)
(* change nothing (get_job, list_jobs, download).                          *)
(***************************************************************************)
EXTENDS Naturals, Sequences, FiniteSets

CONSTANTS
    MaxJobs,     \* bound: jobs created in a behaviour
    Client,      \* request handlers that can be in progress at once
    DbFaults,    \* bound: awaited statements that raise
    MaxStarts,   \* bound: starts of the server process
    MaxStops     \* bound: graceful shutdowns

ASSUME JobQueueAssumption ==
    /\ MaxJobs \in Nat /\ DbFaults \in Nat /\ MaxStarts \in Nat /\ MaxStops \in Nat

(* A job id is its rank in created_at order: ids are fresh uuids, and only *)
(* their identity and the order of created_at matter.                      *)
Job == 1..MaxJobs
NoJob == 0

Terminal == {"completed", "failed", "cancelled"}
Status == {"none", "queued", "running"} \cup Terminal

VARIABLES
    status,      \* jobs.status, "none" where the table has no row
    cancelReq,   \* jobs.cancel_requested
    startedAt,   \* jobs.started_at is set
    dir,         \* JOBS_DIR/<id>: "absent", "input" or "result" (with the input)
    created,     \* number of ids handed out so far
    queue,       \* JobManager._queue
    worker,      \* the job whose task _run_worker awaits, NoJob in queue.get()
    running,     \* the keys of JobManager._running_tasks
    pc,          \* the await the task of a job is suspended in
    kill,        \* tasks with a cancellation that is not delivered yet
    at, on,      \* the await a handler is suspended in, and its job
    sweep,       \* expired jobs _run_cleanup has still to remove
    sweeping,    \* the one whose DELETE it awaits
    server,      \* phase of the process
    faults, starts, stops, \* how much of the bounds is used
    gone,        \* history: jobs whose row was deleted
    answered     \* history: jobs whose cancellation was confirmed to a client

tableVars  == <<status, cancelReq, startedAt>>
workerVars == <<queue, worker, running>>
taskVars   == <<pc, kill>>
clientVars == <<at, on>>
sweepVars  == <<sweep, sweeping>>
boundVars  == <<faults, starts, stops>>
vars == <<tableVars, dir, created, workerVars, taskVars, clientVars, sweepVars,
          server, boundVars, gone, answered>>

ClientAwait == {"idle", "insert", "enqueue", "cancelGet", "cancelSet",
                "cancelTask", "deleteGet", "deleteFiles", "deleteRow"}

(* The phases of _process_job, in the order of the code.                   *)
Working == {"setRunning", "get2", "read", "pipeline", "get3", "write",
            "setCompleted", "setFailed"}
Live == {"get1", "discard", "setCancelled", "return"} \cup Working
Over == {"done", "cancelled"}

Up == server \in {"up", "draining", "drained", "stopping"}

Init ==
    /\ status = [j \in Job |-> "none"]
    /\ cancelReq = [j \in Job |-> FALSE]
    /\ startedAt = [j \in Job |-> FALSE]
    /\ dir = [j \in Job |-> "absent"]
    /\ created = 0
    /\ queue = <<>> /\ worker = NoJob /\ running = {}
    /\ pc = [j \in Job |-> "none"] /\ kill = {}
    /\ at = [c \in Client |-> "idle"] /\ on = [c \in Client |-> NoJob]
    /\ sweep = {} /\ sweeping = NoJob
    /\ server = "down"
    /\ faults = 0 /\ starts = 0 /\ stops = 0
    /\ gone = {} /\ answered = {}

-----------------------------------------------------------------------------
(* The statements of the repository.  UPDATE and DELETE of a missing row   *)
(* change nothing and raise nothing.                                       *)

Exists(j) == status[j] # "none"

InsertRow(j) ==
    /\ status' = [status EXCEPT ![j] = "queued"]
    /\ UNCHANGED <<cancelReq, startedAt, gone>>

UpdateStatus(j, s) ==
    status' = [status EXCEPT ![j] = IF Exists(j) THEN s ELSE @]

SetStatus(j, s) ==
    /\ UpdateStatus(j, s)
    /\ UNCHANGED <<cancelReq, startedAt, gone>>

SetRunningRow(j) ==
    /\ UpdateStatus(j, "running")
    /\ startedAt' = [startedAt EXCEPT ![j] = Exists(j)]
    /\ UNCHANGED <<cancelReq, gone>>

(* Mutant: the statement forgets cancel_requested.                         *)
RequestCancelRowMutant(j) == SetStatus(j, "cancelled")

RequestCancelRow(j) ==
    /\ UpdateStatus(j, "cancelled")
    /\ cancelReq' = [cancelReq EXCEPT ![j] = Exists(j)]
    /\ UNCHANGED <<startedAt, gone>>

DeleteRow(j) ==
    /\ status' = [status EXCEPT ![j] = "none"]
    /\ cancelReq' = [cancelReq EXCEPT ![j] = FALSE]
    /\ startedAt' = [startedAt EXCEPT ![j] = FALSE]
    /\ gone' = gone \cup {j}

NoStatement == UNCHANGED <<tableVars, gone>>

RemoveDir(j) == dir' = [dir EXCEPT ![j] = "absent"]

-----------------------------------------------------------------------------
(* create_job, cancel_job and delete_job, called by the request handlers.  *)

Suspend(c, p) ==
    /\ at' = [at EXCEPT ![c] = p]
    /\ on' = [on EXCEPT ![c] = IF p = "idle" THEN NoJob ELSE @]

(* create_job up to its first await: make the directory, write the input.  *)
CreateJob(c) ==
    /\ server = "up" /\ at[c] = "idle" /\ created < MaxJobs
    /\ created' = created + 1
    /\ dir' = [dir EXCEPT ![created + 1] = "input"]
    /\ at' = [at EXCEPT ![c] = "insert"] /\ on' = [on EXCEPT ![c] = created + 1]
    /\ NoStatement
    /\ UNCHANGED <<workerVars, taskVars, sweepVars, server, boundVars, answered>>

(* A cancel or delete request arrives; its id was seen in a job list.      *)
Request(c, j, p) ==
    /\ server = "up" /\ at[c] = "idle" /\ Exists(j)
    /\ at' = [at EXCEPT ![c] = p] /\ on' = [on EXCEPT ![c] = j]
    /\ NoStatement
    /\ UNCHANGED <<dir, created, workerVars, taskVars, sweepVars, server, boundVars, answered>>

CancelGet(c) ==
    /\ at[c] = "cancelGet"
    /\ Suspend(c, IF status[on[c]] \in Terminal \cup {"none"} THEN "idle" ELSE "cancelSet")
    /\ NoStatement
    /\ UNCHANGED <<dir, created, workerVars, taskVars, sweepVars, server, boundVars, answered>>

DeleteGet(c) ==
    /\ at[c] = "deleteGet"
    /\ Suspend(c, IF Exists(on[c]) THEN "deleteFiles" ELSE "idle")
    /\ NoStatement
    /\ UNCHANGED <<dir, created, workerVars, taskVars, sweepVars, server, boundVars, answered>>

(* The write statements of the three operations ...                        *)
ClientStatement(c) ==
    \/ at[c] = "insert"    /\ InsertRow(on[c])
    \/ at[c] = "cancelSet" /\ RequestCancelRow(on[c])
    \/ at[c] = "deleteRow" /\ DeleteRow(on[c])

(* Mutant: create_job answers without queue.put.                           *)
AfterStatementMutant(p) == IF p = "cancelSet" THEN "cancelTask" ELSE "idle"

(* ... and the await each of them goes on to.                              *)
AfterStatement(p) ==
    CASE p = "insert" -> "enqueue" [] p = "cancelSet" -> "cancelTask" [] OTHER -> "idle"

ClientCommit(c) ==
    /\ ClientStatement(c)
    /\ Suspend(c, AfterStatement(at[c]))
    /\ UNCHANGED <<dir, created, workerVars, taskVars, sweepVars, server, boundVars, answered>>

(* queue.put on an unbounded queue, then the 202 answer.                   *)
Enqueue(c) ==
    /\ at[c] = "enqueue"
    /\ queue' = Append(queue, on[c])
    /\ Suspend(c, "idle")
    /\ NoStatement
    /\ UNCHANGED <<dir, created, worker, running, taskVars, sweepVars, server, boundVars, answered>>

(* Mutant: the job is looked up in the queue only, not in _running_tasks.  *)
CancelTaskMutant(c) ==
    /\ at[c] = "cancelTask"
    /\ answered' = answered \cup {on[c]}
    /\ Suspend(c, "idle")
    /\ NoStatement
    /\ UNCHANGED <<dir, created, workerVars, taskVars, sweepVars, server, boundVars>>

(* The end of cancel_job: cancel the task if there is one that is not      *)
(* done, and answer that the job is cancelled.                             *)
CancelTask(c) ==
    /\ at[c] = "cancelTask"
    /\ kill' = kill \cup {j \in running : j = on[c] /\ pc[j] \in Live}
    /\ answered' = answered \cup {on[c]}
    /\ Suspend(c, "idle")
    /\ NoStatement
    /\ UNCHANGED <<dir, created, workerVars, pc, sweepVars, server, boundVars>>

DeleteFiles(c) ==
    /\ at[c] = "deleteFiles"
    /\ RemoveDir(on[c])
    /\ Suspend(c, "deleteRow")
    /\ NoStatement
    /\ UNCHANGED <<created, workerVars, taskVars, sweepVars, server, boundVars, answered>>

(* An awaited statement raises, whether or not the database executed it:   *)
(* the handler ends with a 500.                                            *)
ClientDbError(c) ==
    /\ faults < DbFaults /\ faults' = faults + 1
    /\ at[c] \in {"insert", "cancelGet", "cancelSet", "deleteGet", "deleteRow"}
    /\ ClientStatement(c) \/ NoStatement
    /\ Suspend(c, "idle")
    /\ UNCHANGED <<dir, created, workerVars, taskVars, sweepVars, server, starts, stops, answered>>

ClientStep(c) ==
    \/ CancelGet(c) \/ DeleteGet(c) \/ ClientCommit(c)
    \/ Enqueue(c) \/ CancelTask(c) \/ DeleteFiles(c)

-----------------------------------------------------------------------------
(* _run_worker.                                                            *)

(* `tasks' and `others' are the tasks and the registered ones without the  *)
(* one that has just ended; an empty queue suspends the worker in get().   *)
TakeNext(tasks, others) ==
    IF queue = <<>>
    THEN /\ worker' = NoJob /\ pc' = tasks /\ running' = others
         /\ UNCHANGED queue
    ELSE LET j == Head(queue) IN
         /\ worker' = j /\ pc' = [tasks EXCEPT ![j] = "get1"]
         /\ running' = others \cup {j}
         /\ queue' = Tail(queue)

(* Mutant: the worker does not await the task it has started.              *)
WorkerTakeMutant ==
    /\ Up /\ queue # <<>>
    /\ TakeNext(pc, running)
    /\ NoStatement
    /\ UNCHANGED <<dir, created, kill, clientVars, sweepVars, server, boundVars, answered>>

WorkerTake ==
    /\ Up /\ worker = NoJob /\ queue # <<>>
    /\ TakeNext(pc, running)
    /\ NoStatement
    /\ UNCHANGED <<dir, created, kill, clientVars, sweepVars, server, boundVars, answered>>

(* The awaited task is over: the except and finally clauses, and the next  *)
(* turn of the loop up to its await.  A CancelledError is swallowed here,  *)
(* whoever it was meant for.  A stop() that gathers this task is woken.    *)
WorkerReap ==
    /\ worker # NoJob /\ pc[worker] \in Over
    /\ dir' = IF pc[worker] = "cancelled" THEN [dir EXCEPT ![worker] = "absent"] ELSE dir
    /\ TakeNext([pc EXCEPT ![worker] = "none"], running \ {worker})
    /\ server' = IF server = "draining" THEN "drained" ELSE server
    /\ NoStatement
    /\ UNCHANGED <<created, kill, clientVars, sweepVars, boundVars, answered>>

WorkerStep == WorkerTake \/ WorkerReap

-----------------------------------------------------------------------------
(* _process_job.  A coroutine with an undelivered cancellation does not    *)
(* resume, but a statement it has sent may still be executed.              *)

Goto(j, p) == pc' = [pc EXCEPT ![j] = p] /\ UNCHANGED kill

Resumes(j, p) == pc[j] = p /\ j \notin kill

(* stop() resumes from gather() before the task that the worker has just   *)
(* started gets the first answer from the database.                        *)
Answers == server # "drained"

Get1(j) ==
    /\ Resumes(j, "get1") /\ Answers
    /\ Goto(j, CASE ~Exists(j)              -> "done"
                 [] status[j] = "cancelled" -> "discard"
                 [] cancelReq[j]            -> "setCancelled"
                 [] OTHER                   -> "setRunning")
    /\ NoStatement /\ UNCHANGED dir

Discard(j) ==
    /\ Resumes(j, "discard")
    /\ RemoveDir(j) /\ Goto(j, "done") /\ NoStatement

SetRunning(j) ==
    /\ pc[j] = "setRunning"
    /\ SetRunningRow(j) /\ Goto(j, "get2") /\ UNCHANGED dir

SetCancelled(j) ==
    /\ pc[j] = "setCancelled"
    /\ SetStatus(j, "cancelled") /\ Goto(j, "discard") /\ UNCHANGED dir

(* The second read.  Without a record get_params raises inside the try.    *)
Get2(j) ==
    /\ Resumes(j, "get2")
    /\ Goto(j, CASE ~Exists(j)   -> "setFailed"
                 [] cancelReq[j] -> "setCancelled"
                 [] OTHER        -> "read")
    /\ NoStatement /\ UNCHANGED dir

ReadInput(j) ==
    /\ Resumes(j, "read")
    /\ Goto(j, IF dir[j] = "absent" THEN "setFailed" ELSE "pipeline")
    /\ NoStatement /\ UNCHANGED dir

(* SbomEnrichmentPipeline.process returns a result or raises.              *)
Pipeline(j) ==
    /\ Resumes(j, "pipeline")
    /\ \E p \in {"get3", "setFailed"} : Goto(j, p)
    /\ NoStatement /\ UNCHANGED dir

(* Mutant: the result is written after the row says `completed'.           *)
Get3Mutant(j) ==
    /\ Resumes(j, "get3")
    /\ Goto(j, IF Exists(j) /\ (status[j] = "cancelled" \/ cancelReq[j]) THEN "done" ELSE "setCompleted")
    /\ NoStatement /\ UNCHANGED dir

Get3(j) ==
    /\ Resumes(j, "get3")
    /\ Goto(j, IF Exists(j) /\ (status[j] = "cancelled" \/ cancelReq[j]) THEN "done" ELSE "write")
    /\ NoStatement /\ UNCHANGED dir

(* Mutant: write_result makes the directory it needs.                      *)
WriteResultMutant(j) ==
    /\ Resumes(j, "write")
    /\ Goto(j, "setCompleted") /\ dir' = [dir EXCEPT ![j] = "result"]
    /\ NoStatement

WriteResult(j) ==
    /\ Resumes(j, "write")
    /\ IF dir[j] = "absent"
       THEN Goto(j, "setFailed") /\ UNCHANGED dir
       ELSE Goto(j, "setCompleted") /\ dir' = [dir EXCEPT ![j] = "result"]
    /\ NoStatement

SetCompleted(j) ==
    /\ pc[j] = "setCompleted"
    /\ SetStatus(j, "completed") /\ Goto(j, "return") /\ UNCHANGED dir

(* Mutant: a status the table does not know.                               *)
SetFailedMutant(j) ==
    /\ pc[j] = "setFailed"
    /\ SetStatus(j, "error") /\ Goto(j, "return") /\ UNCHANGED dir

SetFailed(j) ==
    /\ pc[j] = "setFailed"
    /\ SetStatus(j, "failed") /\ Goto(j, "return") /\ UNCHANGED dir

Return(j) ==
    /\ Resumes(j, "return")
    /\ Goto(j, "done") /\ NoStatement /\ UNCHANGED dir

(* CancelledError is raised in the await and caught nowhere in the task.   *)
Cancelled(j) ==
    /\ j \in kill
    /\ pc' = [pc EXCEPT ![j] = "cancelled"] /\ kill' = kill \ {j}
    /\ NoStatement /\ UNCHANGED dir

ProcessJob(j) ==
    /\ \/ Get1(j) \/ Discard(j) \/ SetRunning(j) \/ SetCancelled(j) \/ Get2(j)
       \/ ReadInput(j) \/ Pipeline(j) \/ Get3(j) \/ WriteResult(j)
       \/ SetCompleted(j) \/ SetFailed(j) \/ Return(j) \/ Cancelled(j)
    /\ UNCHANGED <<created, workerVars, clientVars, sweepVars, server, boundVars, answered>>

TaskStatement(j) ==
    \/ pc[j] = "setRunning"   /\ SetRunningRow(j)
    \/ pc[j] = "setCancelled" /\ SetStatus(j, "cancelled")
    \/ pc[j] = "setCompleted" /\ SetStatus(j, "completed")
    \/ pc[j] = "setFailed"    /\ SetStatus(j, "failed")

(* An awaited statement raises, executed or not.  The try covers the third *)
(* read and the completion; elsewhere the exception ends the task and the  *)
(* worker only logs it.                                                    *)
TaskDbError(j) ==
    /\ faults < DbFaults /\ faults' = faults + 1
    /\ j \notin kill /\ Answers
    /\ pc[j] \in {"get1", "get2", "get3", "setRunning", "setCancelled", "setCompleted", "setFailed"}
    /\ TaskStatement(j) \/ NoStatement
    /\ Goto(j, IF pc[j] \in {"get3", "setCompleted"} THEN "setFailed" ELSE "done")
    /\ UNCHANGED <<dir, created, workerVars, clientVars, sweepVars, server, starts, stops, answered>>

-----------------------------------------------------------------------------
(* _run_cleanup.  Time is not modelled: any finished job may have expired. *)

SweepStart ==
    /\ Up /\ sweep = {}
    /\ sweep' \in SUBSET {j \in Job : status[j] \in Terminal} \ {{}}
    /\ NoStatement
    /\ UNCHANGED <<dir, created, workerVars, taskVars, clientVars, sweeping, server, boundVars, answered>>

SweepFiles(j) ==
    /\ sweeping = NoJob /\ j \in sweep
    /\ RemoveDir(j) /\ sweeping' = j
    /\ NoStatement
    /\ UNCHANGED <<created, workerVars, taskVars, clientVars, sweep, server, boundVars, answered>>

SweepRow ==
    /\ sweeping # NoJob
    /\ DeleteRow(sweeping)
    /\ sweep' = sweep \ {sweeping} /\ sweeping' = NoJob
    /\ UNCHANGED <<dir, created, workerVars, taskVars, clientVars, server, boundVars, answered>>

(* The exception is logged and the rest of the list is dropped.            *)
SweepDbError ==
    /\ faults < DbFaults /\ faults' = faults + 1
    /\ sweeping # NoJob
    /\ DeleteRow(sweeping) \/ NoStatement
    /\ sweep' = {} /\ sweeping' = NoJob
    /\ UNCHANGED <<dir, created, workerVars, taskVars, clientVars, server, starts, stops, answered>>

-----------------------------------------------------------------------------
(* The process: start(), stop() and its end.                               *)

Exit ==
    /\ server' = "down"
    /\ queue' = <<>> /\ worker' = NoJob /\ running' = {}
    /\ pc' = [j \in Job |-> "none"] /\ kill' = {}
    /\ at' = [c \in Client |-> "idle"] /\ on' = [c \in Client |-> NoJob]
    /\ sweep' = {} /\ sweeping' = NoJob
    /\ NoStatement
    /\ UNCHANGED <<dir, created, answered>>

(* The process dies: killed, or start() raised.                            *)
Crash ==
    /\ server # "down" /\ starts < MaxStarts
    /\ Exit /\ UNCHANGED boundVars

Start ==
    /\ server = "down" /\ starts < MaxStarts
    /\ server' = "starting" /\ starts' = starts + 1
    /\ NoStatement
    /\ UNCHANGED <<dir, created, workerVars, taskVars, clientVars, sweepVars, faults, stops, answered>>

(* Mutant: start() puts a job that was running back in the queue.          *)
RecoverStuckMutant(j) ==
    /\ server = "starting" /\ status[j] = "running"
    /\ SetStatus(j, "queued")
    /\ UNCHANGED <<dir, created, workerVars, taskVars, clientVars, sweepVars, server, boundVars, answered>>

(* start(): a job left running by the previous process is failed ...       *)
RecoverStuck(j) ==
    /\ server = "starting" /\ status[j] = "running"
    /\ SetStatus(j, "failed")
    /\ UNCHANGED <<dir, created, workerVars, taskVars, clientVars, sweepVars, server, boundVars, answered>>

(* ... and once there is none, the queued ones are enqueued by created_at. *)
Queued == {j \in Job : status[j] = "queued"}

(* Mutant: start() does not wait for the running jobs to be failed.        *)
RecoverQueuedMutant ==
    /\ server = "starting"
    /\ \E q \in [1..Cardinality(Queued) -> Queued] :
          /\ \A a, b \in 1..Cardinality(Queued) : a < b => q[a] < q[b]
          /\ queue' = q
    /\ server' = "up"
    /\ NoStatement
    /\ UNCHANGED <<dir, created, worker, running, taskVars, clientVars, sweepVars, boundVars, answered>>

RecoverQueued ==
    /\ server = "starting" /\ \A j \in Job : status[j] # "running"
    /\ \E q \in [1..Cardinality(Queued) -> Queued] :
          /\ \A a, b \in 1..Cardinality(Queued) : a < b => q[a] < q[b]
          /\ queue' = q
    /\ server' = "up"
    /\ NoStatement
    /\ UNCHANGED <<dir, created, worker, running, taskVars, clientVars, sweepVars, boundVars, answered>>

(* stop(), called when the last request has been answered: cancel the      *)
(* tasks, and gather them if there are any.  Otherwise the worker is in    *)
(* queue.get(), where its cancellation ends it.                            *)
StopBegin ==
    /\ server = "up" /\ stops < MaxStops /\ stops' = stops + 1
    /\ \A c \in Client : at[c] = "idle"
    /\ IF running = {} THEN Exit
       ELSE /\ kill' = kill \cup {j \in running : pc[j] \in Live}
            /\ server' = "draining"
            /\ NoStatement
            /\ UNCHANGED <<dir, created, workerVars, pc, clientVars, sweepVars, answered>>
    /\ UNCHANGED <<faults, starts>>

(* stop() after gather(): clear _running_tasks and cancel the worker.  If  *)
(* the worker already awaits the next task, the cancellation goes there.   *)
StopGathered ==
    /\ server = "drained"
    /\ IF worker = NoJob THEN Exit
       ELSE /\ running' = {} /\ kill' = kill \cup {worker}
            /\ server' = "stopping"
            /\ NoStatement
            /\ UNCHANGED <<dir, created, queue, worker, pc, clientVars, sweepVars, answered>>
    /\ UNCHANGED boundVars

-----------------------------------------------------------------------------
Next ==
    \/ \E c \in Client : CreateJob(c) \/ ClientStep(c) \/ ClientDbError(c)
    \/ \E c \in Client, j \in Job, p \in {"cancelGet", "deleteGet"} : Request(c, j, p)
    \/ WorkerStep
    \/ \E j \in Job : ProcessJob(j) \/ TaskDbError(j)
    \/ SweepStart \/ SweepRow \/ SweepDbError
    \/ \E j \in Job : SweepFiles(j)
    \/ Start \/ RecoverQueued \/ StopBegin \/ StopGathered \/ Crash
    \/ \E j \in Job : RecoverStuck(j)

Spec == Init /\ [][Next]_vars

(* The event loop resumes every coroutine that can run, the database       *)
(* answers, and the pipeline ends because every request it makes has a     *)
(* timeout.  Nothing forces a client to act, the process to stop, a        *)
(* statement to fail or a job to expire.  A process that died is restarted *)
(* (docker-compose.yml, `restart: unless-stopped').                        *)
Fairness ==
    /\ WF_vars(WorkerStep)
    /\ WF_vars(\E j \in Job : ProcessJob(j))
    /\ \A c \in Client : WF_vars(ClientStep(c))
    /\ WF_vars(Start \/ (\E j \in Job : RecoverStuck(j)) \/ RecoverQueued \/ StopGathered)

FairSpec == Spec /\ Fairness

-----------------------------------------------------------------------------
(* Properties.                                                             *)

TypeOK ==
    /\ status \in [Job -> Status]
    /\ cancelReq \in [Job -> BOOLEAN]
    /\ startedAt \in [Job -> BOOLEAN]
    /\ dir \in [Job -> {"absent", "input", "result"}]
    /\ created \in 0..MaxJobs
    /\ queue \in Seq(Job)
    /\ worker \in Job \cup {NoJob}
    /\ running \in SUBSET Job
    /\ pc \in [Job -> {"none"} \cup Live \cup Over]
    /\ kill \in SUBSET Job
    /\ at \in [Client -> ClientAwait]
    /\ on \in [Client -> Job \cup {NoJob}]
    /\ sweep \in SUBSET Job /\ sweeping \in Job \cup {NoJob}
    /\ server \in {"down", "starting", "up", "draining", "drained", "stopping"}
    /\ faults \in Nat /\ starts \in Nat /\ stops \in Nat
    /\ gone \in SUBSET Job /\ answered \in SUBSET Job

Waiting(j) == \E i \in 1..Len(queue) : queue[i] = j

(* Jobs are processed one at a time, and while requests are served the     *)
(* task of the job in progress is registered, so that cancel_job finds it. *)
OneTaskAtATime ==
    \A j \in Job : pc[j] # "none" =>
        /\ worker = j
        /\ server = "up" => j \in running

(* Once the row of a job is deleted, by a request or by the cleanup, its   *)
(* row and its files are gone for good, although its task is not stopped   *)
(* and may be about to write the result or the status.                     *)
NoFilesAfterDelete ==
    \A j \in gone : status[j] = "none" /\ dir[j] = "absent"

(* Once POST /cancel was answered 200, the job is not worked on any more,  *)
(* up to the delivery of a cancellation already requested.                 *)
CancelStopsWork ==
    \A j \in answered : pc[j] \in Working => j \in kill

(* No job is started twice, whatever crashes, errors and shutdowns happen: *)
(* a job waiting to be started has never been running.                     *)
StartedAtMostOnce ==
    \A j \in Job : pc[j] \in {"get1", "setRunning"} \/ Waiting(j) => ~startedAt[j]

(* While requests are served and no statement fails, an accepted job       *)
(* (row `queued') is in the queue, about to enter it, or taken by the      *)
(* worker: nothing that clients and the cleanup do makes the queue lose it.*)
NoJobForgotten ==
    server = "up" => \A j \in Job :
        status[j] = "queued" =>
            \/ Waiting(j)
            \/ \E c \in Client : at[c] = "enqueue" /\ on[c] = j
            \/ pc[j] \in {"get1", "setRunning"}

BeingDeleted(j) ==
    sweeping = j \/ \E c \in Client : on[c] = j /\ at[c] = "deleteRow"

(* A completed job that nobody asked to cancel can be downloaded until it  *)
(* is deleted: GET /result does not answer result_file_not_found.          *)
CompletedHasResult ==
    \A j \in Job :
        status[j] = "completed" /\ ~cancelReq[j] /\ ~BeingDeleted(j) => dir[j] = "result"

(* Every accepted job comes to an end by itself, even over a crash, unless *)
(* someone asks to cancel it: it never waits behind a stuck or a cancelled *)
(* one for ever, and a restart leaves none behind as running.              *)
JobsSettle ==
    \A j \in Job :
        status[j] \in {"queued", "running"} ~> status[j] \in Terminal \cup {"none"} \/ cancelReq[j]

-----------------------------------------------------------------------------
(* Statements of the documents that the code does not keep.                *)

(* docs/.../2026-08-01-sbom-enrich-progress-design.md, edge case 2: `the   *)
(* cancelled transition is final'.                                         *)
CancelledIsFinal ==
    [][\A j \in Job : status[j] = "cancelled" => status'[j] \in {"cancelled", "none"}]_vars

(* docs/.../2026-07-10-sbom-enrichment-job-queue-design.md: `queued jobs   *)
(* -> re-enqueued from DB'.  A queued job that is to be processed after a  *)
(* restart still has its input.                                            *)
QueuedKeepsInput ==
    \A j \in Job : status[j] = "queued" /\ ~BeingDeleted(j) => dir[j] # "absent"

(* tests/test_job_manager.py: stop() ends with the worker cancelled.       *)
StopEnds == server = "draining" ~> server = "down"
=============================================================================
