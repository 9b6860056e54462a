---------------------------- MODULE JobProgress -----------------------------
(***************************************************************************)
(* The progress of one running job: the phases and counters that           *)
(* SbomEnrichmentPipeline.process reports (sbom_enrichment.py), the        *)
(* concurrent resolutions behind the second counter (_resolve_concurrent   *)
(* of service.py), and the throttled and conditional writes that bring     *)
(* them into the jobs table (_JobProgressReporter, update_progress), while *)
(* a client may cancel the job.                                            *)
(*                                                                         *)
(* As in JobQueue a coroutine is described by the await it is suspended    *)
(* in: `at' for the task of the job, sub[p] for _resolve_one of PURL p,    *)
(* `client' for cancel_job.  A statement and the code that runs when its   *)
(* answer arrives are one action.  Whether the throttle interval has       *)
(* passed is a choice, and so is what a resolution or a validation finds.  *)
(***************************************************************************)
EXTENDS Naturals, Sequences, FiniteSets

CONSTANTS
    Purl,       \* PURLs a job may have to resolve
    Limit,      \* batch_semaphore_limit
    MaxUrls,    \* bound: distinct references to validate
    DbFaults    \* bound: statements that raise

ASSUME JobProgressAssumption ==
    /\ IsFiniteSet(Purl) /\ Limit \in Nat \ {0}
    /\ MaxUrls \in Nat /\ DbFaults \in Nat

VARIABLES
    status, cancelReq,      \* jobs.status and jobs.cancel_requested
    phase, current, total,  \* jobs.progress_phase, _current and _total
    at,          \* the await _process_job is suspended in
    killed,      \* its cancellation is not delivered yet
    urls,        \* how many references there are to validate
    checked,     \* and how many are
    todo,        \* unique_purls
    sub,         \* the await _resolve_one is suspended in
    doomed,      \* PURLs whose _resolve_one is cancelled but not yet told
    permits,     \* value of the semaphore
    line,        \* progress_lock: its holder, then those waiting for it
    completed,   \* the counter of _resolve_concurrent
    count,       \* the value of it that each _resolve_one reports
    client,      \* the await cancel_job is suspended in
    faults       \* how much of the bound is used

rowVars  == <<status, cancelReq>>
progress == <<phase, current, total>>
mainVars == <<at, killed, urls, checked, todo>>
subVars  == <<sub, doomed, permits, line, completed, count>>
vars == <<rowVars, progress, mainVars, subVars, client, faults>>

Writing == {"parsing", "validating", "counting", "resolving", "announce", "enriching"}
Busy == Writing \cup {"validate", "gather", "storing", "get", "completing", "failing"}
Over == {"over", "cancelled"}
Active == {"permit", "resolve", "turn", "write"}
ActiveSubs == {p \in Purl : sub[p] \in Active}

Init ==
    /\ status = "running" /\ cancelReq = FALSE
    /\ phase = "null" /\ current = 0 /\ total = 0
    /\ at = "parsing" /\ killed = FALSE /\ urls = 0 /\ checked = 0 /\ todo = {}
    /\ sub = [p \in Purl |-> "none"] /\ doomed = {}
    /\ permits = 0 /\ line = <<>> /\ completed = 0 /\ count = [p \in Purl |-> 0]
    /\ client = "idle" /\ faults = 0

-----------------------------------------------------------------------------
(* The reporter.                                                           *)

(* Mutant: the UPDATE has no condition on status and cancel_requested.     *)
UpdateProgressMutant(ph, c, t) == phase' = ph /\ current' = c /\ total' = t

(* update_progress touches a running row that nobody asked to cancel.      *)
UpdateProgress(ph, c, t) ==
    IF status = "running" /\ ~cancelReq
    THEN phase' = ph /\ current' = c /\ total' = t
    ELSE UNCHANGED progress

Fault == faults < DbFaults /\ faults' = faults + 1

(* _write: an exception of the database is logged and swallowed.           *)
Write(ph, c, t) ==
    \/ UpdateProgress(ph, c, t) /\ UNCHANGED faults
    \/ Fault /\ UNCHANGED progress

OnPhase(ph) == Write(ph, current, total)

(* Mutant: the total is written with the first event only.                 *)
OnProgressMutant(c, t) == Write(phase, c, IF c = 0 THEN t ELSE total)

OnProgress(c, t) == Write(phase, c, t)

(* Mutant: only the first event is exempt from the throttle.               *)
ForcedMutant(c, t) == c = 0

(* on_progress skips an event within the throttle interval unless it is    *)
(* the first or the last one.                                              *)
Forced(c, t) == c = 0 \/ c = t

-----------------------------------------------------------------------------
(* The task of the job.  A step whose cancellation is due is Interrupted.  *)

Main(a, b) ==
    /\ at = a /\ ~killed /\ at' = b
    /\ UNCHANGED <<cancelReq, killed, client>>

(* unique_purls is computed and the phase `resolving' is reported.         *)
Select == todo' \in SUBSET Purl

Parse ==
    /\ \/ Main("parsing", "failing") /\ UNCHANGED todo
       \/ Main("parsing", "validating") /\ UNCHANGED todo
       \/ Main("parsing", "resolving") /\ Select
    /\ OnPhase("parsing")
    /\ UNCHANGED <<status, urls, checked, subVars>>

BeginValidation ==
    /\ Main("validating", "counting")
    /\ OnPhase("validating_refs")
    /\ urls' \in 0..MaxUrls
    /\ UNCHANGED <<status, checked, todo, subVars>>

CountUrl ==
    /\ \/ checked < urls /\ Main("counting", "validate") /\ UNCHANGED todo
       \/ checked = urls /\ Main("counting", "resolving") /\ Select
    /\ OnProgress(checked, urls)
    /\ UNCHANGED <<status, urls, checked, subVars>>

ValidateUrl ==
    /\ \/ Main("validate", "counting") /\ checked' = checked + 1
       \/ /\ ~Forced(checked + 1, urls)
          /\ Main("validate", "validate") /\ checked' = checked + 1
       \/ Main("validate", "failing") /\ UNCHANGED checked
    /\ UNCHANGED <<status, progress, urls, todo, subVars, faults>>

BeginResolution ==
    /\ Main("resolving", "announce")
    /\ OnPhase("resolving")
    /\ UNCHANGED <<status, urls, checked, todo, subVars>>

(* The event (0, total), then one _resolve_one per PURL is gathered.       *)
Announce ==
    /\ Main("announce", "gather")
    /\ OnProgress(0, Cardinality(todo))
    /\ sub' = [p \in Purl |-> IF p \in todo THEN "permit" ELSE "none"]
    /\ permits' = Limit
    /\ UNCHANGED <<status, urls, checked, todo, doomed, line, completed, count>>

Gathered ==
    /\ \A p \in todo : sub[p] = "done"
    /\ Main("gather", "storing")
    /\ UNCHANGED <<status, progress, urls, checked, todo, subVars, faults>>

(* store_preexisting_references: a failing store is not caught there.      *)
StoreReferences ==
    /\ \/ Main("storing", "enriching") /\ UNCHANGED faults
       \/ Main("storing", "failing") /\ Fault
    /\ UNCHANGED <<status, progress, urls, checked, todo, subVars>>

(* enrich_sbom may raise: on a `version' that is not a number, say.        *)
Enrich ==
    /\ Main("enriching", "get") \/ Main("enriching", "failing")
    /\ OnPhase("enriching")
    /\ UNCHANGED <<status, urls, checked, todo, subVars>>

(* The row is read again; a cancelled job keeps its status.                *)
CheckRow ==
    /\ \/ /\ status = "cancelled" \/ cancelReq
          /\ Main("get", "over") /\ UNCHANGED faults
       \/ /\ ~(status = "cancelled" \/ cancelReq)
          /\ Main("get", "completing") /\ UNCHANGED faults
       \/ Main("get", "failing") /\ Fault
    /\ UNCHANGED <<status, progress, urls, checked, todo, subVars>>

Complete ==
    /\ \/ Main("completing", "over") /\ status' = "completed" /\ UNCHANGED faults
       \/ Main("completing", "failing") /\ Fault /\ UNCHANGED status
    /\ UNCHANGED <<progress, urls, checked, todo, subVars>>

Fail ==
    /\ Main("failing", "over")
    /\ \/ status' = "failed" /\ UNCHANGED faults
       \/ Fault /\ UNCHANGED status
    /\ UNCHANGED <<progress, urls, checked, todo, subVars>>

(* The cancellation arrives; a statement under way may have been committed *)
(* (one that reports progress changes nothing: the row is cancelled).      *)
Interrupted ==
    /\ killed /\ at \in Busy
    /\ \/ UNCHANGED status
       \/ at = "completing" /\ status' = "completed"
       \/ at = "failing" /\ status' = "failed"
    /\ at' = "cancelled" /\ killed' = FALSE
    /\ UNCHANGED <<cancelReq, progress, urls, checked, todo, subVars, client, faults>>

MainStep ==
    \/ Parse \/ BeginValidation \/ CountUrl \/ ValidateUrl
    \/ BeginResolution \/ Announce \/ Gathered \/ StoreReferences
    \/ Enrich \/ CheckRow \/ Complete \/ Fail \/ Interrupted

-----------------------------------------------------------------------------
(* _resolve_one.                                                           *)

Sub(p, a) == sub[p] = a /\ p \notin doomed

Permit(p) ==
    /\ Sub(p, "permit") /\ permits > 0
    /\ sub' = [sub EXCEPT ![p] = "resolve"] /\ permits' = permits - 1
    /\ UNCHANGED <<rowVars, progress, mainVars, doomed, line, completed, count, client, faults>>

(* The body of `async with progress_lock' up to its await, for the one     *)
(* that has the lock: queue is the line it heads.                          *)
Count(p, queue) ==
    /\ completed' = completed + 1
    /\ \/ /\ sub' = [sub EXCEPT ![p] = "write"]
          /\ count' = [count EXCEPT ![p] = completed + 1]
          /\ line' = queue
       \/ /\ ~Forced(completed + 1, Cardinality(todo))
          /\ sub' = [sub EXCEPT ![p] = "done"]
          /\ line' = Tail(queue)
          /\ UNCHANGED count

(* resolve_purl returns: the permit is released and the lock is taken, or  *)
(* waited for behind those that came first.                                *)
Resolved(p) ==
    /\ Sub(p, "resolve")
    /\ permits' = permits + 1
    /\ IF line = <<>> THEN Count(p, <<p>>)
       ELSE /\ sub' = [sub EXCEPT ![p] = "turn"]
            /\ line' = Append(line, p)
            /\ UNCHANGED <<completed, count>>
    /\ UNCHANGED <<rowVars, progress, mainVars, doomed, client, faults>>

(* Mutant: the lock does not exclude a second writer.                      *)
HasLockMutant(p) == \E i \in 1..Len(line) : line[i] = p

HasLock(p) == line # <<>> /\ Head(line) = p

Turn(p) ==
    /\ Sub(p, "turn") /\ HasLock(p)
    /\ Count(p, line)
    /\ UNCHANGED <<rowVars, progress, mainVars, doomed, permits, client, faults>>

(* The line after p, who stands in it once at most, has left it.           *)
Without(p) ==
    IF \E i \in 1..Len(line) : line[i] = p
    THEN LET i == CHOOSE i \in 1..Len(line) : line[i] = p
         IN  [j \in 1..(Len(line) - 1) |-> IF j < i THEN line[j] ELSE line[j + 1]]
    ELSE line

(* Mutant: the lock is not given back after the write.                     *)
WrittenMutant(p) ==
    /\ Sub(p, "write")
    /\ OnProgress(count[p], Cardinality(todo))
    /\ sub' = [sub EXCEPT ![p] = "done"]
    /\ UNCHANGED <<rowVars, mainVars, doomed, permits, line, completed, count, client>>

Written(p) ==
    /\ Sub(p, "write")
    /\ OnProgress(count[p], Cardinality(todo))
    /\ sub' = [sub EXCEPT ![p] = "done"]
    /\ line' = Without(p)
    /\ UNCHANGED <<rowVars, mainVars, doomed, permits, completed, count, client>>

(* A resolver raises something else than InvalidPurlError or               *)
(* UpstreamError.  gather() passes the first exception on; the other       *)
(* resolutions go on.                                                      *)
Raised(p) ==
    /\ Sub(p, "resolve")
    /\ sub' = [sub EXCEPT ![p] = "raised"] /\ permits' = permits + 1
    /\ at' = IF at = "gather" THEN "failing" ELSE at
    /\ UNCHANGED <<rowVars, progress, killed, urls, checked, todo, doomed, line,
                   completed, count, client, faults>>

(* The cancellation of a resolution arrives: its permit and the lock are   *)
(* released, and the first one cancelled ends gather().                    *)
Cancelled(p) ==
    /\ sub[p] \in Active /\ p \in doomed
    /\ sub' = [sub EXCEPT ![p] = "cancelled"] /\ doomed' = doomed \ {p}
    /\ permits' = IF sub[p] = "resolve" THEN permits + 1 ELSE permits
    /\ line' = Without(p)
    /\ at' = IF at = "gather" THEN "cancelled" ELSE at
    /\ UNCHANGED <<rowVars, progress, killed, urls, checked, todo, completed, count, client, faults>>

SubStep(p) == Permit(p) \/ Resolved(p) \/ Turn(p) \/ Written(p) \/ Raised(p) \/ Cancelled(p)

-----------------------------------------------------------------------------
(* cancel_job.                                                             *)

CancelGet ==
    /\ client = "idle" /\ status = "running"
    /\ client' = "set"
    /\ UNCHANGED <<rowVars, progress, mainVars, subVars, faults>>

CancelSet ==
    /\ client = "set" /\ client' = "task"
    /\ status' = "cancelled" /\ cancelReq' = TRUE
    /\ UNCHANGED <<progress, mainVars, subVars, faults>>

(* Mutant: the resolutions are not told of the cancellation.               *)
CancelTaskMutant ==
    /\ client = "task" /\ client' = "idle"
    /\ IF at = "gather" /\ ActiveSubs # {}
       THEN at' = "cancelled" /\ UNCHANGED <<doomed, killed>>
       ELSE killed' = (at \in Busy) /\ UNCHANGED <<doomed, at>>
    /\ UNCHANGED <<rowVars, progress, urls, checked, todo, sub, permits, line,
                   completed, count, faults>>

(* task.cancel() in gather() cancels the resolutions that are not over.    *)
CancelTask ==
    /\ client = "task" /\ client' = "idle"
    /\ IF at = "gather" /\ ActiveSubs # {}
       THEN doomed' = ActiveSubs /\ UNCHANGED killed
       ELSE killed' = (at \in Busy) /\ UNCHANGED doomed
    /\ UNCHANGED <<rowVars, progress, at, urls, checked, todo, sub, permits, line,
                   completed, count, faults>>

Next ==
    \/ MainStep
    \/ \E p \in Purl : SubStep(p)
    \/ CancelGet \/ CancelSet \/ CancelTask

Spec == Init /\ [][Next]_vars

(* Every request of a resolver or a validation has a timeout, the database *)
(* answers, and the event loop resumes whatever can run.                   *)
Fairness ==
    /\ WF_vars(MainStep)
    /\ \A p \in Purl : WF_vars(SubStep(p))

FairSpec == Spec /\ Fairness

-----------------------------------------------------------------------------
(* Properties.                                                             *)

TypeOK ==
    /\ status \in {"running", "cancelled", "completed", "failed"}
    /\ cancelReq \in BOOLEAN
    /\ phase \in {"null", "parsing", "validating_refs", "resolving", "enriching"}
    /\ current \in Nat /\ total \in Nat
    /\ at \in Busy \cup Over
    /\ killed \in BOOLEAN
    /\ urls \in Nat /\ checked \in 0..urls
    /\ todo \in SUBSET Purl
    /\ sub \in [Purl -> Active \cup {"none", "done", "raised", "cancelled"}]
    /\ doomed \in SUBSET Purl
    /\ permits \in 0..Limit
    /\ line \in Seq(Purl)
    /\ completed \in 0..Cardinality(todo)
    /\ count \in [Purl -> Nat]
    /\ client \in {"idle", "set", "task"}
    /\ faults \in 0..DbFaults

(* The bar the front end draws never exceeds its end, also when the first  *)
(* event of a phase was lost and the row still has the counters of the     *)
(* phase before.                                                           *)
CurrentWithinTotal == current <= total

(* Within a phase the counter a poll reads never goes back, whatever the   *)
(* order in which resolutions end and their writes are answered, once the  *)
(* counters of the phase before are replaced (which a failing statement    *)
(* may prevent).                                                           *)
CounterNeverBack ==
    [][phase' = phase /\ at # "announce" /\ faults' = 0 => current' >= current]_vars

(* What a row that is cancelled, failed or completed shows is final,       *)
(* although resolutions of a failed job go on and report.                  *)
ShownIsFinal ==
    [][status # "running" => UNCHANGED progress]_vars

(* A completed job shows its bar full, in its last phase, if no statement  *)
(* failed and nobody cancelled it: the throttle never drops the last event.*)
CompletedIsFull ==
    status = "completed" /\ ~cancelReq /\ faults = 0 =>
        phase = "enriching" /\ total = Cardinality(todo) /\ current = total

(* Once the task of a job is cancelled, no resolution of it goes on but to *)
(* clean up.  Only an exception that had ended gather() before leaves      *)
(* resolutions that nobody can cancel any more.                            *)
NothingAfterCancel ==
    at = "cancelled" /\ (\A p \in Purl : sub[p] # "raised") => ActiveSubs \subseteq doomed

(* The task of a job and all its resolutions come to an end, whichever of  *)
(* them fail or are cancelled: nobody waits for ever for a permit, for the *)
(* lock or for a resolution.                                               *)
EverythingEnds == <>[](at \in Over /\ ActiveSubs = {})
=============================================================================
