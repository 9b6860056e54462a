----------------------------- MODULE UrlValidator -----------------------------
(***************************************************************************)
(* validate_url (url_validator.py): a HEAD request, then one probe after   *)
(* the other, each a version control client run as a child process, and    *)
(* last the HTTP probes of Fossil.  Validations run beside each other in   *)
(* one event loop, beside the reaper of orphans (main.py) and beside the   *)
(* processes themselves; a job that is cancelled cancels them at any await.*)
(*                                                                         *)
(* A probe's process (main) may start a helper, in its process group or    *)
(* outside it.  When main is no more, its helper is a child of this        *)
(* application (enable_child_subreaper).  A process that has exited is a   *)
(* zombie until its parent waits for it: for main that is asyncio's child  *)
(* watcher, which makes the exit code known to the probe one step later.   *)
(***************************************************************************)
EXTENDS Naturals, Sequences, FiniteSets

CONSTANTS Validation,    \* the validations that run beside each other
          Tools,         \* the clients, in the order they are tried
          ReapAttempts,  \* how often a helper is waited for
          MaxCancels     \* bound: how often a validation is cancelled

ASSUME ValidatorAssumption ==
  /\ Tools \in Seq({"git", "svn", "hg"})
  /\ ReapAttempts \in Nat \ {0} /\ MaxCancels \in Nat

VARIABLES pc,          \* what a validation awaits, is about to do or has ended with
          probe,       \* the index of its current client; the Fossil probe is the last
          sawFalse,    \* one of its probes has answered False
          verdict,     \* its result
          causes,      \* for checking: what became of each probe
          cancels,     \* how often it was cancelled
          cancelled,   \* `cancelled' of _terminate_process, or what called it was a cancellation
          main,        \* its current client, a process
          code,        \* how that ended
          known,       \* asyncio has set its returncode
          helper,      \* the helper of each client, a process
          grouped,     \* that helper is in the client's process group
          descendants, \* the helpers its terminations have collected
          tries,       \* attempts left to wait for one of them
          tracked      \* _TRACKED_PIDS, by the validation the client belongs to
vars == <<pc, probe, sawFalse, verdict, causes, cancels, cancelled, main, code, known,
          helper, grouped, descendants, tries, tracked>>
procVars == <<main, code, known, helper, grouped>>
taskVars == <<pc, probe, sawFalse, verdict, causes, cancels, cancelled, descendants, tries, tracked>>

Probes == DOMAIN Tools
Fossil == Len(Tools) + 1
Process == {"none", "running", "zombie", "gone"}

Init ==
  /\ pc = [v \in Validation |-> "head"] /\ probe = [v \in Validation |-> 0]
  /\ sawFalse = [v \in Validation |-> FALSE] /\ verdict = [v \in Validation |-> "none"]
  /\ causes = [v \in Validation |-> [k \in 1..Fossil |-> "none"]]
  /\ cancels = [v \in Validation |-> 0] /\ cancelled = [v \in Validation |-> FALSE]
  /\ main = [v \in Validation |-> "none"] /\ code = [v \in Validation |-> "ok"]
  /\ known = [v \in Validation |-> FALSE]
  /\ helper = [v \in Validation |-> [k \in Probes |-> "none"]]
  /\ grouped = [v \in Validation |-> [k \in Probes |-> TRUE]]
  /\ descendants = [v \in Validation |-> {}] /\ tries = [v \in Validation |-> 0]
  /\ tracked = {}

-----------------------------------------------------------------------------
(* The processes, which run beside the event loop *)

\* A helper is a child of the application once its client is no more.
Adopted(v, k) == k < probe[v] \/ main[v] # "running"

MainExits(v) ==
  /\ main[v] = "running"
  /\ main' = [main EXCEPT ![v] = "zombie"]
  /\ \E c \in {"ok", "no", "failed"} : code' = [code EXCEPT ![v] = c]
  /\ UNCHANGED <<taskVars, known, helper, grouped>>

HelperStarts(v, k) ==
  /\ k = probe[v] /\ main[v] = "running" /\ helper[v][k] = "none"
  /\ helper' = [helper EXCEPT ![v][k] = "running"]
  /\ \E g \in BOOLEAN : grouped' = [grouped EXCEPT ![v][k] = g]
  /\ UNCHANGED <<taskVars, main, code, known>>

HelperExits(v, k) ==
  /\ helper[v][k] = "running"
  /\ helper' = [helper EXCEPT ![v][k] = "zombie"]
  /\ UNCHANGED <<taskVars, main, code, known, grouped>>

\* A client may wait for its helper; some exit without.
MainReapsHelper(v, k) ==
  /\ ~Adopted(v, k) /\ helper[v][k] = "zombie"
  /\ helper' = [helper EXCEPT ![v][k] = "gone"]
  /\ UNCHANGED <<taskVars, main, code, known, grouped>>

\* The child watcher waits for the client; a code it comes too late for is replaced by 255.
WatcherReaps(v) ==
  /\ main[v] = "zombie"
  /\ main' = [main EXCEPT ![v] = "gone"]
  /\ UNCHANGED <<taskVars, code, known, helper, grouped>>
WatcherNotices(v) ==
  /\ main[v] = "gone" /\ ~known[v]
  /\ known' = [known EXCEPT ![v] = TRUE]
  /\ UNCHANGED <<taskVars, main, code, helper, grouped>>

\* Mutant: the reaper takes every zombie, tracked or not.
StolenMutant == {v \in Validation : main[v] = "zombie"}
\* Clients the reaper takes from the watcher.
Stolen == {v \in Validation \ tracked : main[v] = "zombie"}

\* Mutant: orphans are not adopted, so that the reaper never meets one.
OrphanMutant(v, k) == FALSE
Orphan(v, k) == helper[v][k] = "zombie" /\ Adopted(v, k)

\* reap_orphaned_processes: every zombie child that is not tracked, in one go.  It runs in the
\* event loop, so never between the two halves of a termination.
ReapOrphans ==
  /\ \A v \in Validation : pc[v] # "kill"
  /\ main' = [v \in Validation |-> IF v \in Stolen THEN "gone" ELSE main[v]]
  /\ code' = [v \in Validation |-> IF v \in Stolen THEN "stolen" ELSE code[v]]
  /\ helper' = [v \in Validation |-> [k \in Probes |->
                  IF Orphan(v, k) THEN "gone" ELSE helper[v][k]]]
  /\ <<main', helper'>> # <<main, helper>>
  /\ UNCHANGED <<taskVars, known, grouped>>

-----------------------------------------------------------------------------
(* The probes *)

\* Mutant: the first answer that is not None ends the loop.
AfterAnswerMutant(v, answer) ==
  CASE answer = "True" -> "valid"
    [] answer = "False" -> "invalid"
    [] answer = "None" -> IF probe[v] = Fossil THEN "network_error" ELSE "none"
\* _check_vcs: what an answer makes of the validation; "none" goes on with the next probe.
AfterAnswer(v, answer) ==
  CASE answer = "True" -> "valid"
    [] answer # "True" /\ probe[v] < Fossil -> "none"
    [] answer # "True" /\ probe[v] = Fossil ->
         IF sawFalse[v] \/ answer = "False" THEN "invalid" ELSE "network_error"

\* The probe has answered; untrack is its `finally'.
Answer(v, answer, cause) ==
  LET result == AfterAnswer(v, answer)
  IN /\ sawFalse' = [sawFalse EXCEPT ![v] = @ \/ answer = "False"]
     /\ causes' = [causes EXCEPT ![v][probe[v]] = cause]
     /\ verdict' = [verdict EXCEPT ![v] = result]
     /\ probe' = [probe EXCEPT ![v] = IF result = "none" THEN @ + 1 ELSE @]
     /\ pc' = [pc EXCEPT ![v] = IF result # "none" THEN "over"
                                ELSE IF probe'[v] = Fossil THEN "fossil" ELSE "start"]
     /\ tracked' = tracked \ {v}

\* A cancellation leaves validate_url, and the `finally' untracks the client.
Leave(v) ==
  /\ pc' = [pc EXCEPT ![v] = "over"] /\ verdict' = [verdict EXCEPT ![v] = "cancelled"]
  /\ tracked' = tracked \ {v}

\* The URL has no host or a private one, or the HEAD request is over, whatever became of it.
HeadDone(v) ==
  /\ pc[v] = "head"
  /\ \/ /\ pc' = [pc EXCEPT ![v] = "over"] /\ verdict' = [verdict EXCEPT ![v] = "invalid"]
        /\ UNCHANGED probe
     \/ /\ probe' = [probe EXCEPT ![v] = 1]
        /\ pc' = [pc EXCEPT ![v] = IF Fossil = 1 THEN "fossil" ELSE "start"] /\ UNCHANGED verdict
  /\ UNCHANGED <<sawFalse, causes, cancels, cancelled, descendants, tries, tracked, procVars>>

\* create_subprocess_exec: the client may be missing; else it runs before the await returns.
Spawn(v) ==
  /\ pc[v] = "start"
  /\ \/ Answer(v, "None", "unstarted") /\ UNCHANGED procVars
     \/ /\ pc' = [pc EXCEPT ![v] = "spawned"]
        /\ main' = [main EXCEPT ![v] = "running"] /\ known' = [known EXCEPT ![v] = FALSE]
        /\ UNCHANGED <<probe, sawFalse, verdict, causes, tracked, code, helper, grouped>>
  /\ UNCHANGED <<cancels, cancelled, descendants, tries>>

TrackProcess(v) ==
  /\ pc[v] = "spawned"
  /\ pc' = [pc EXCEPT ![v] = "communicate"] /\ tracked' = tracked \cup {v}
  /\ UNCHANGED <<probe, sawFalse, verdict, causes, cancels, cancelled, descendants, tries, procVars>>

\* What a probe makes of the exit code: git tells `not found' from other failures, the others do not.
FromCode(tool, c) ==
  CASE c = "ok" -> "True"
    [] c = "no" -> "False"
    [] c \in {"failed", "killed", "stolen"} -> IF tool = "git" THEN "None" ELSE "False"

\* communicate() returns: the client has ended, and no helper holds its output open.
Communicated(v) ==
  /\ pc[v] = "communicate" /\ known[v]
  /\ Answer(v, FromCode(Tools[probe[v]], code[v]), code[v])
  /\ UNCHANGED <<cancels, cancelled, descendants, tries, procVars>>

\* Mutant: the client is awaited without being killed.
TerminateMutant(v, byCancel) ==
  /\ cancelled' = [cancelled EXCEPT ![v] = byCancel]
  /\ pc' = [pc EXCEPT ![v] = "wait"]
  /\ UNCHANGED descendants
\* _terminate_process begins: the helpers are collected, unless the client is known to be over.
Terminate(v, byCancel) ==
  /\ cancelled' = [cancelled EXCEPT ![v] = byCancel]
  /\ descendants' = [descendants EXCEPT ![v] = @ \cup
       {k \in {probe[v]} : ~known[v] /\ main[v] = "running" /\ helper[v][k] \in {"running", "zombie"}}]
  /\ pc' = [pc EXCEPT ![v] = IF known[v] THEN "wait" ELSE "kill"]

Timeout(v) ==
  /\ pc[v] = "communicate"
  /\ Terminate(v, FALSE)
  /\ UNCHANGED <<probe, sawFalse, verdict, causes, cancels, tries, tracked, procVars>>

\* Mutant: only the client is killed, not its process group.
HitMutant(v) == {}
\* The helpers killpg reaches: none when the watcher has reaped the client in the meantime.
Hit(v) == {k \in Probes : main[v] # "gone" /\ k = probe[v] /\ grouped[v][k] /\ helper[v][k] = "running"}

\* killpg, in the same uninterrupted run of the event loop as the collection.
Kill(v) ==
  /\ pc[v] = "kill"
  /\ pc' = [pc EXCEPT ![v] = "wait"]
  /\ main' = [main EXCEPT ![v] = IF @ = "running" THEN "zombie" ELSE @]
  /\ code' = [code EXCEPT ![v] = IF main[v] = "running" THEN "killed" ELSE @]
  /\ helper' = [helper EXCEPT ![v] = [k \in Probes |-> IF k \in Hit(v) THEN "zombie" ELSE @[k]]]
  /\ UNCHANGED <<probe, sawFalse, verdict, causes, cancels, cancelled, descendants, tries, tracked,
                 known, grouped>>

\* proc.wait() returns; a cancellation meanwhile was only remembered.
Waited(v) ==
  /\ pc[v] = "wait" /\ known[v]
  /\ pc' = [pc EXCEPT ![v] = "reap"]
  /\ tries' = [tries EXCEPT ![v] = IF probe[v] \in descendants[v] THEN ReapAttempts ELSE 0]
  /\ UNCHANGED <<probe, sawFalse, verdict, causes, cancels, cancelled, descendants, tracked, procVars>>

\* One attempt to wait for a helper: reaped, killed, or no longer a child.
ReapDescendant(v) ==
  LET k == probe[v]
  IN /\ pc[v] = "reap" /\ tries[v] > 0
     /\ helper' = [helper EXCEPT ![v][k] = CASE @ = "zombie" -> "gone"
                                             [] @ = "running" -> "zombie"
                                             [] OTHER -> @]
     /\ tries' = [tries EXCEPT ![v] = IF helper[v][k] = "zombie" THEN 0 ELSE @ - 1]
     /\ UNCHANGED <<pc, probe, sawFalse, verdict, causes, cancels, cancelled, descendants, tracked,
                    main, code, known, grouped>>

Terminated(v) ==
  /\ pc[v] = "reap" /\ tries[v] = 0
  /\ LET cause == IF code[v] = "killed" THEN "killed" ELSE "timeout"
     IN \/ /\ cancelled[v] /\ Leave(v) /\ causes' = [causes EXCEPT ![v][probe[v]] = cause]
           /\ UNCHANGED <<probe, sawFalse>>
        \/ ~cancelled[v] /\ Answer(v, "None", cause)
  /\ UNCHANGED <<cancels, cancelled, descendants, tries, procVars>>

\* The Fossil probes, two HTTP requests.
FossilAnswers(v) ==
  /\ pc[v] = "fossil"
  /\ \E r \in {<<"True", "ok">>, <<"False", "no">>, <<"None", "failed">>} : Answer(v, r[1], r[2])
  /\ UNCHANGED <<cancels, cancelled, descendants, tries, procVars>>

-----------------------------------------------------------------------------
(* Cancellation *)

\* Mutant: a cancellation ends the wait for the client.
CancelInWaitMutant(v) == Leave(v) /\ UNCHANGED cancelled
CancelInWait(v) ==
  /\ cancelled' = [cancelled EXCEPT ![v] = TRUE]
  /\ UNCHANGED <<pc, verdict, tracked>>

\* The job's task is cancelled while validate_url awaits something.
Cancel(v) ==
  /\ cancels[v] < MaxCancels /\ cancels' = [cancels EXCEPT ![v] = @ + 1]
  /\ \/ /\ pc[v] \in {"head", "fossil", "spawnKill"} /\ Leave(v)
        /\ UNCHANGED <<cancelled, descendants, tries, main, code>>
     \/ /\ pc[v] = "spawned"   \* asyncio kills the client alone and waits for it
        /\ pc' = [pc EXCEPT ![v] = "spawnKill"]
        /\ main' = [main EXCEPT ![v] = IF @ = "running" THEN "zombie" ELSE @]
        /\ code' = [code EXCEPT ![v] = IF main[v] = "running" THEN "killed" ELSE @]
        /\ UNCHANGED <<verdict, tracked, cancelled, descendants, tries>>
     \/ /\ pc[v] = "communicate" /\ Terminate(v, TRUE)
        /\ UNCHANGED <<verdict, tracked, tries, main, code>>
     \/ pc[v] = "wait" /\ CancelInWait(v) /\ UNCHANGED <<descendants, tries, main, code>>
     \/ /\ pc[v] = "reap" /\ tries[v] \in 1..(ReapAttempts - 1)   \* during a sleep
        /\ cancelled' = [cancelled EXCEPT ![v] = TRUE]
        /\ tries' = [tries EXCEPT ![v] = 0]
        /\ UNCHANGED <<pc, verdict, tracked, descendants, main, code>>
  /\ UNCHANGED <<probe, sawFalse, causes, known, helper, grouped>>

SpawnCancelled(v) ==
  /\ pc[v] = "spawnKill" /\ known[v] /\ Leave(v)
  /\ UNCHANGED <<probe, sawFalse, causes, cancels, cancelled, descendants, tries, procVars>>

-----------------------------------------------------------------------------
Proceed(v) ==
  \/ HeadDone(v) \/ Spawn(v) \/ TrackProcess(v) \/ Communicated(v) \/ Kill(v) \/ Waited(v)
  \/ ReapDescendant(v) \/ Terminated(v) \/ FossilAnswers(v) \/ SpawnCancelled(v)

Next ==
  \/ \E v \in Validation :
       \/ Proceed(v) \/ Timeout(v) \/ Cancel(v) \/ MainExits(v) \/ WatcherReaps(v) \/ WatcherNotices(v)
       \/ \E k \in Probes : HelperStarts(v, k) \/ HelperExits(v, k) \/ MainReapsHelper(v, k)
  \/ ReapOrphans

\* A validation goes on and its timeouts fire; the watcher and the reaper run for ever.  No
\* client is assumed to end by itself, no helper to exit, and nobody has to cancel.
Fairness ==
  /\ \A v \in Validation : WF_vars(Proceed(v)) /\ WF_vars(Timeout(v))
                           /\ WF_vars(WatcherReaps(v)) /\ WF_vars(WatcherNotices(v))
  /\ WF_vars(ReapOrphans)

Spec == Init /\ [][Next]_vars /\ Fairness

-----------------------------------------------------------------------------
TypeOK ==
  /\ pc \in [Validation -> {"head", "start", "spawned", "spawnKill", "communicate", "kill", "wait",
                            "reap", "fossil", "over"}]
  /\ probe \in [Validation -> 0..Fossil] /\ sawFalse \in [Validation -> BOOLEAN]
  /\ verdict \in [Validation -> {"none", "valid", "invalid", "network_error", "cancelled"}]
  /\ causes \in [Validation -> [1..Fossil ->
                   {"none", "ok", "no", "failed", "killed", "stolen", "timeout", "unstarted"}]]
  /\ cancels \in [Validation -> 0..MaxCancels] /\ cancelled \in [Validation -> BOOLEAN]
  /\ main \in [Validation -> Process] /\ code \in [Validation -> {"ok", "no", "failed", "killed", "stolen"}]
  /\ known \in [Validation -> BOOLEAN]
  /\ helper \in [Validation -> [Probes -> Process]] /\ grouped \in [Validation -> [Probes -> BOOLEAN]]
  /\ descendants \in [Validation -> SUBSET Probes] /\ tries \in [Validation -> 0..ReapAttempts]
  /\ tracked = {v \in Validation : pc[v] \in {"communicate", "kill", "wait", "reap"}}

\* The reaper never takes a client from the child watcher once the probe has registered it.
\* (In the window between its start and its registration it may.)
TrackedNotStolen ==
  [][\A v \in tracked : code[v] # "stolen" => code'[v] # "stolen"]_vars

\* A client is waited for before the validation goes on or ends, however often it is cancelled
\* meanwhile; only two cancellations while the client is being started get past it.
ClientsReaped ==
  \A v \in Validation :
    /\ pc[v] \in {"start", "fossil"} => main[v] \in {"none", "gone"}
    /\ pc[v] = "over" /\ main[v] \in {"running", "zombie"} => cancels[v] >= 2 /\ v \notin tracked
                                                              /\ causes[v][probe[v]] = "none"

\* A terminated client leaves no helper running that its termination had collected, in its
\* process group or not and however often it is cancelled; and one that was killed leaves none
\* running in its process group, even a helper that started after the collection.
TerminationLeavesNoHelper ==
  \A v \in Validation : \A k \in Probes :
    causes[v][k] \in {"killed", "timeout"} /\ helper[v][k] = "running" =>
      k \notin descendants[v] /\ (grouped[v][k] => causes[v][k] # "killed")

\* The verdict is what all the answers amount to: a yes, or else a no that some probe gave, and
\* without either nothing but a network error; only a yes spares the probes that follow.
VerdictIsFold ==
  \A v \in Validation :
    LET of == {causes[v][k] : k \in 1..Fossil}
    IN /\ verdict[v] = "valid" => "ok" \in of
       /\ verdict[v] = "invalid" /\ probe[v] > 0 =>
            "ok" \notin of /\ "none" \notin of /\ of \cap {"no", "failed", "stolen"} # {}
       /\ verdict[v] = "network_error" => of \subseteq {"timeout", "killed", "unstarted", "failed", "stolen"}

\* Every validation ends, although clients may hang and helpers hold their output open.
EveryValidationEnds == \A v \in Validation : <>(pc[v] = "over")

\* Every helper that outlives its client is waited for once it has exited.
HelpersReaped ==
  \A v \in Validation : \A k \in Probes :
    helper[v][k] = "zombie" /\ Adopted(v, k) ~> helper[v][k] = "gone"

\* url_validator.py:463: without an answer from any probe (a timeout, a transport error) the
\* result is a network error; a False comes from a probe that definitely said no.
InconclusiveIsNetworkError ==
  \A v \in Validation :
    verdict[v] = "invalid" /\ probe[v] > 0 => \E k \in 1..Fossil : causes[v][k] = "no"
=============================================================================
