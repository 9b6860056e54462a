-------------------------- MODULE JobProgressProofs --------------------------
(***************************************************************************)
(* Proofs about JobProgress: its types, and what a poll sees of a job, for *)
(* any number of PURLs, permits, references and failing statements.        *)
(***************************************************************************)
EXTENDS JobProgress, FiniteSetTheorems, TLAPS

-----------------------------------------------------------------------------
(* The inductive invariant.                                                *)

Early == {"parsing", "validating", "counting", "validate", "resolving", "announce"}
Late == {"storing", "enriching", "get", "completing"}
Counted == {p \in todo : sub[p] \in {"write", "done", "raised", "cancelled"}}
Asking == {p \in todo : sub[p] = "resolve"}
Phases == {"null", "parsing", "validating_refs", "resolving", "enriching"}
Live == status = "running" /\ ~cancelReq /\ faults = 0
Full == total = Cardinality(todo) /\ current = total
SubAwaits == Active \cup {"none", "done", "raised", "cancelled"}

Types ==
  /\ status \in {"running", "cancelled", "completed", "failed"} /\ cancelReq \in BOOLEAN
  /\ phase \in Phases
  /\ current \in Nat /\ total \in Nat
  /\ at \in Busy \cup Over /\ killed \in BOOLEAN
  /\ urls \in Nat /\ checked \in 0..urls /\ todo \in SUBSET Purl
  /\ sub \in [Purl -> SubAwaits] /\ doomed \in SUBSET Purl /\ permits \in Nat
  /\ line \in Seq(Purl) /\ completed \in Nat /\ count \in [Purl -> Nat]
  /\ client \in {"idle", "set", "task"} /\ faults \in 0..DbFaults

\* Where the resolutions are while the task of the job is at an await.
SubInv ==
  /\ at \in Early => line = <<>> /\ completed = 0 /\ doomed = {} /\ \A p \in Purl : sub[p] = "none"
  /\ \A p \in Purl : sub[p] # "none" => p \in todo
  /\ at = "gather" => \A p \in todo : sub[p] \notin {"none", "raised", "cancelled"}
  /\ at \in Late => \A p \in todo : sub[p] = "done"

\* Each resolution stands in line once, from its result to its report; who reports has the lock.
LineInv ==
  /\ \A i, j \in 1..Len(line) : line[i] = line[j] => i = j
  /\ \A i \in 1..Len(line) : sub[line[i]] \in {"turn", "write"}
  /\ \A p \in Purl : sub[p] \in {"turn", "write"} => \E i \in 1..Len(line) : line[i] = p
  /\ \A p \in Purl : sub[p] = "write" => line[1] = p

\* The counter is the number of resolutions that have been counted, and the one that reports
\* reports the last number.
CountInv ==
  /\ completed <= Cardinality(Counted)
  /\ at = "gather" => completed = Cardinality(Counted)
  /\ \A p \in Purl : sub[p] = "write" => count[p] = completed

PermitInv == (\E p \in Purl : sub[p] # "none") => permits + Cardinality(Asking) = Limit
LimitInv == permits <= Limit

\* What a cancellation has reached.
CancelInv ==
  /\ killed \/ client = "task" \/ doomed # {} => cancelReq
  /\ killed /\ at = "gather" => ActiveSubs = {}
  /\ doomed # {} => ActiveSubs \subseteq doomed
  /\ at # "gather" /\ (\A p \in Purl : sub[p] # "raised") => ActiveSubs \subseteq doomed

\* What the row shows, as long as no statement failed and nobody asked to cancel.
CountersInv ==
  /\ current <= total
  /\ at \in {"parsing", "validating"} => checked = 0 /\ (Live => current = 0)
  /\ Live /\ at \in {"counting", "validate"} => current <= checked
  /\ at = "validate" => checked < urls
  /\ Live /\ (\E p \in Purl : sub[p] # "none") => current <= completed
  /\ Live /\ at = "gather" => total = Cardinality(todo)
  /\ Live /\ at = "gather" /\ completed = Cardinality(todo) =>
       current = completed \/ \E p \in Purl : sub[p] = "write"
  /\ Live /\ at \in Late => Full
  /\ Live /\ at \in {"get", "completing"} => phase = "enriching"
  /\ at \in Busy /\ ~cancelReq => status = "running"
  /\ status = "completed" /\ ~cancelReq => at = "over" /\ (faults = 0 => Full /\ phase = "enriching")

IInv == Types /\ SubInv /\ LineInv /\ CountInv /\ PermitInv /\ LimitInv /\ CancelInv /\ CountersInv

-----------------------------------------------------------------------------
LEMMA Finite ==
  ASSUME Types
  PROVE  /\ IsFiniteSet(todo) /\ Cardinality(todo) \in Nat
         /\ IsFiniteSet(Counted) /\ Cardinality(Counted) \in Nat /\ Cardinality(Counted) <= Cardinality(todo)
         /\ IsFiniteSet(Asking) /\ Cardinality(Asking) \in Nat
<1>1. IsFiniteSet(todo)
  BY JobProgressAssumption, FS_Subset DEF Types
<1>2. Counted \subseteq todo /\ Asking \subseteq todo
  BY DEF Counted, Asking
<1> QED BY <1>1, <1>2, FS_Subset, FS_CardinalityType

LEMMA Empty == Cardinality({}) = 0
BY FS_EmptySet

LEMMA InitInv == Init => IInv
<1> SUFFICES ASSUME Init PROVE IInv
  OBVIOUS
<1>1. Types
  <2>1. sub \in [Purl -> SubAwaits] /\ count \in [Purl -> Nat] /\ line \in Seq(Purl)
    BY DEF Init, SubAwaits
  <2>2. at \in Busy \cup Over /\ phase \in Phases
    BY DEF Init, Busy, Writing, Phases
  <2>3. faults \in 0..DbFaults /\ checked \in 0..urls
    BY JobProgressAssumption DEF Init
  <2> QED BY <2>1, <2>2, <2>3 DEF Init, Types
<1>2. SubInv /\ LineInv /\ PermitInv
  BY DEF Init, SubInv, LineInv, PermitInv, Late
<1>3. CountInv
  <2>1. completed = 0 /\ at = "parsing" /\ \A p \in Purl : sub[p] = "none"
    BY DEF Init
  <2> QED BY <1>1, <2>1, Finite DEF CountInv
<1>4. LimitInv /\ CancelInv
  BY JobProgressAssumption DEF Init, LimitInv, CancelInv, ActiveSubs, Active
<1>5. CountersInv
  BY DEF Init, CountersInv, Late
<1> QED BY <1>1, <1>2, <1>3, <1>4, <1>5 DEF IInv

-----------------------------------------------------------------------------
(* The reporter: without a failing statement a live row shows what was reported. *)
LEMMA WriteStep ==
  ASSUME Types, NEW ph \in Phases, NEW c \in Nat, NEW t \in Nat, c <= t, current <= total, Write(ph, c, t)
  PROVE  /\ phase' \in Phases /\ current' \in Nat /\ total' \in Nat /\ current' <= total'
         /\ faults' \in 0..DbFaults /\ (faults' = 0 => faults = 0)
         /\ \/ phase' = ph /\ current' = c /\ total' = t
            \/ UNCHANGED progress /\ ~(Live /\ faults' = 0)
<1>1. CASE UpdateProgress(ph, c, t) /\ UNCHANGED faults
  BY <1>1 DEF UpdateProgress, progress, Types, Live
<1>2. CASE Fault /\ UNCHANGED progress
  BY <1>2, JobProgressAssumption DEF Fault, progress, Types
<1> QED BY <1>1, <1>2 DEF Write

LEMMA PhaseStep ==
  ASSUME Types, current <= total, NEW ph \in Phases, OnPhase(ph)
  PROVE  /\ phase' \in Phases /\ current' = current /\ total' = total
         /\ faults' \in 0..DbFaults /\ (faults' = 0 => faults = 0)
         /\ Live /\ faults' = 0 => phase' = ph
<1>1. current \in Nat /\ total \in Nat
  BY DEF Types
<1> QED BY <1>1, WriteStep DEF OnPhase, progress

LEMMA ProgressStep ==
  ASSUME Types, current <= total, NEW c \in Nat, NEW t \in Nat, c <= t, OnProgress(c, t)
  PROVE  /\ phase' = phase /\ current' \in Nat /\ total' \in Nat /\ current' <= total'
         /\ faults' \in 0..DbFaults /\ (faults' = 0 => faults = 0)
         /\ Live /\ faults' = 0 => current' = c /\ total' = t
<1>1. phase \in Phases
  BY DEF Types
<1> QED BY <1>1, WriteStep DEF OnProgress, progress

(* A step of the task of the job: the resolutions are where they were. *)
LEMMA MainStepInv ==
  ASSUME IInv, at \in Busy, UNCHANGED <<subVars, cancelReq, client>>, Types', CountersInv',
         killed' = killed \/ killed' = FALSE, todo' = todo \/ at \in Early,
         at' # "gather", at' \in Early => at \in Early,
         at' \in Late => at \notin Early /\ \A p \in todo : sub[p] = "done",
         at = "gather" => ActiveSubs = {}
  PROVE  IInv'
<1>1. Types /\ SubInv /\ LineInv /\ CountInv /\ PermitInv /\ LimitInv /\ CancelInv
  BY DEF IInv
<1>2. /\ sub' = sub /\ doomed' = doomed /\ permits' = permits /\ line' = line
      /\ completed' = completed /\ count' = count
  BY DEF subVars
<1>3. SubInv'
  <2>1. ASSUME NEW p \in Purl, sub'[p] # "none" PROVE p \in todo'
    BY <1>1, <1>2, <2>1 DEF SubInv
  <2>2. at' \in Late => \A p \in todo' : sub'[p] = "done"
    BY <1>2
  <2>3. at' \in Early => line' = <<>> /\ completed' = 0 /\ doomed' = {} /\ \A p \in Purl : sub'[p] = "none"
    BY <1>1, <1>2 DEF SubInv
  <2> QED BY <2>1, <2>2, <2>3 DEF SubInv
<1>4. LineInv' /\ LimitInv'
  BY <1>1, <1>2 DEF LineInv, LimitInv
<1>5. Counted' = Counted /\ Asking' = Asking
  <2>1. CASE todo' = todo
    BY <1>2, <2>1 DEF Counted, Asking
  <2>2. CASE at \in Early
    <3>1. \A p \in Purl : sub[p] = "none"
      BY <1>1, <2>2 DEF SubInv
    <3>2. todo \in SUBSET Purl /\ todo' \in SUBSET Purl
      BY <1>1 DEF Types
    <3> QED BY <1>2, <3>1, <3>2 DEF Counted, Asking
  <2> QED BY <2>1, <2>2
<1>6. CountInv' /\ PermitInv'
  BY <1>1, <1>2, <1>5 DEF CountInv, PermitInv
<1>7. CancelInv'
  BY <1>1, <1>2 DEF CancelInv, ActiveSubs
<1> QED BY <1>3, <1>4, <1>6, <1>7 DEF IInv


LEMMA ParseInv == ASSUME IInv, Parse PROVE IInv'
<1>1. Types /\ SubInv /\ CountersInv /\ at = "parsing" /\ OnPhase("parsing")
      /\ UNCHANGED <<status, cancelReq, killed, client, urls, checked, subVars>>
  BY DEF IInv, Parse, Main
<1>2. at' \in {"failing", "validating", "resolving"} /\ todo' \in SUBSET Purl
  BY <1>1 DEF Parse, Main, Select, Types
<1>3. /\ phase' \in Phases /\ current' = current /\ total' = total
      /\ faults' \in 0..DbFaults /\ (faults' = 0 => faults = 0)
  BY <1>1, PhaseStep DEF CountersInv, Phases
<1>4. Types'
  BY <1>1, <1>2, <1>3 DEF Types, subVars, Busy, Writing
<1>5. \A p \in Purl : sub'[p] = "none"
  BY <1>1 DEF SubInv, Early, subVars
<1>6. CountersInv'
  BY <1>1, <1>2, <1>3, <1>5 DEF CountersInv, Live, Late, Busy, Writing, Over
<1>7. at \in Busy /\ at \in Early /\ at # "gather" /\ at' \notin Late /\ at' # "gather"
  BY <1>1, <1>2 DEF Busy, Writing, Early, Late
<1> QED BY <1>1, <1>4, <1>6, <1>7, MainStepInv

LEMMA BeginValidationInv == ASSUME IInv, BeginValidation PROVE IInv'
<1>1. Types /\ SubInv /\ CountersInv /\ at = "validating" /\ OnPhase("validating_refs")
      /\ UNCHANGED <<status, cancelReq, killed, client, checked, todo, subVars>>
      /\ at' = "counting" /\ urls' \in 0..MaxUrls
  BY DEF IInv, BeginValidation, Main
<1>3. /\ phase' \in Phases /\ current' = current /\ total' = total
      /\ faults' \in 0..DbFaults /\ (faults' = 0 => faults = 0) /\ checked = 0
  BY <1>1, PhaseStep DEF CountersInv, Phases
<1>4. Types'
  BY <1>1, <1>3, JobProgressAssumption DEF Types, subVars, Busy, Writing
<1>5. \A p \in Purl : sub'[p] = "none"
  BY <1>1 DEF SubInv, Early, subVars
<1>6. CountersInv'
  BY <1>1, <1>3, <1>5 DEF CountersInv, Live, Late, Busy, Writing, Over
<1>7. at \in Busy /\ at \in Early /\ at # "gather" /\ at' \notin Late /\ at' # "gather"
  BY <1>1 DEF Busy, Writing, Early, Late
<1> QED BY <1>1, <1>4, <1>6, <1>7, MainStepInv

LEMMA CountUrlInv == ASSUME IInv, CountUrl PROVE IInv'
<1>1. Types /\ SubInv /\ CountersInv /\ at = "counting" /\ OnProgress(checked, urls)
      /\ UNCHANGED <<status, cancelReq, killed, client, urls, checked, subVars>>
  BY DEF IInv, CountUrl, Main
<1>2. at' \in {"validate", "resolving"} /\ todo' \in SUBSET Purl /\ (at' = "validate" => checked < urls)
  BY <1>1 DEF CountUrl, Main, Select, Types
<1>3. /\ phase' \in Phases /\ current' \in Nat /\ total' \in Nat /\ current' <= total'
      /\ faults' \in 0..DbFaults /\ (faults' = 0 => faults = 0)
      /\ Live /\ faults' = 0 => current' = checked
  <2>1. checked \in Nat /\ urls \in Nat /\ checked <= urls /\ phase \in Phases
    BY <1>1 DEF Types
  <2> QED BY <1>1, <2>1, ProgressStep DEF CountersInv
<1>4. Types'
  BY <1>1, <1>2, <1>3 DEF Types, subVars, Busy, Writing
<1>5. \A p \in Purl : sub'[p] = "none"
  BY <1>1 DEF SubInv, Early, subVars
<1>6. CountersInv'
  BY <1>1, <1>2, <1>3, <1>5 DEF CountersInv, Live, Late, Types, Busy, Writing
<1>7. at \in Busy /\ at \in Early /\ at # "gather" /\ at' \notin Late /\ at' # "gather"
  BY <1>1, <1>2 DEF Busy, Writing, Early, Late
<1> QED BY <1>1, <1>4, <1>6, <1>7, MainStepInv

LEMMA ValidateUrlInv == ASSUME IInv, ValidateUrl PROVE IInv'
<1>1. Types /\ SubInv /\ CountersInv /\ at = "validate"
      /\ UNCHANGED <<status, cancelReq, killed, client, progress, urls, todo, subVars, faults>>
  BY DEF IInv, ValidateUrl, Main
<1>2. /\ at' \in {"counting", "validate", "failing"}
      /\ checked' \in Nat /\ checked <= checked' /\ checked' <= urls
      /\ at' = "validate" => checked' < urls
  BY <1>1 DEF ValidateUrl, Main, Forced, Types, CountersInv
<1>3. current' = current /\ total' = total /\ phase' = phase
  BY <1>1 DEF progress
<1>4. Types'
  BY <1>1, <1>2, <1>3 DEF Types, subVars, Busy, Writing
<1>5. \A p \in Purl : sub'[p] = "none"
  BY <1>1 DEF SubInv, Early, subVars
<1>6. CountersInv'
  BY <1>1, <1>2, <1>3, <1>5 DEF CountersInv, Live, Late, Types, Busy, Writing
<1>7. at \in Busy /\ at \in Early /\ at # "gather" /\ at' \notin Late /\ at' # "gather"
  BY <1>1, <1>2 DEF Busy, Writing, Early, Late
<1> QED BY <1>1, <1>4, <1>6, <1>7, MainStepInv

LEMMA BeginResolutionInv == ASSUME IInv, BeginResolution PROVE IInv'
<1>1. Types /\ SubInv /\ CountersInv /\ at = "resolving" /\ OnPhase("resolving")
      /\ UNCHANGED <<status, cancelReq, killed, client, urls, checked, todo, subVars>>
      /\ at' = "announce"
  BY DEF IInv, BeginResolution, Main
<1>3. /\ phase' \in Phases /\ current' = current /\ total' = total
      /\ faults' \in 0..DbFaults /\ (faults' = 0 => faults = 0)
  BY <1>1, PhaseStep DEF CountersInv, Phases
<1>4. Types'
  BY <1>1, <1>3 DEF Types, subVars, Busy, Writing
<1>5. \A p \in Purl : sub'[p] = "none"
  BY <1>1 DEF SubInv, Early, subVars
<1>6. CountersInv'
  BY <1>1, <1>3, <1>5 DEF CountersInv, Live, Late, Busy, Writing, Over
<1>7. at \in Busy /\ at \in Early /\ at # "gather" /\ at' \notin Late /\ at' # "gather"
  BY <1>1 DEF Busy, Writing, Early, Late
<1> QED BY <1>1, <1>4, <1>6, <1>7, MainStepInv

LEMMA AnnounceInv == ASSUME IInv, Announce PROVE IInv'
<1>1. /\ Types /\ SubInv /\ CancelInv /\ CountersInv /\ at = "announce" /\ ~killed /\ at' = "gather"
      /\ OnProgress(0, Cardinality(todo)) /\ permits' = Limit
      /\ sub' = [p \in Purl |-> IF p \in todo THEN "permit" ELSE "none"]
      /\ UNCHANGED <<status, cancelReq, killed, client, urls, checked, todo, doomed, line, completed, count>>
  BY DEF IInv, Announce, Main
<1>2. /\ phase' \in Phases /\ current' \in Nat /\ total' \in Nat /\ current' <= total'
      /\ faults' \in 0..DbFaults /\ (faults' = 0 => faults = 0)
      /\ Live /\ faults' = 0 => current' = 0 /\ total' = Cardinality(todo)
  <2>1. Cardinality(todo) \in Nat /\ 0 <= Cardinality(todo) /\ phase \in Phases
    BY <1>1, Finite DEF Types
  <2> QED BY <1>1, <2>1, ProgressStep DEF CountersInv
<1>3. \A p \in Purl : sub'[p] \in {"permit", "none"} /\ (sub'[p] = "permit" <=> p \in todo)
  BY <1>1
<1>4. line = <<>> /\ completed = 0 /\ doomed = {}
  BY <1>1 DEF SubInv, Early
<1>5. Types'
  <2>1. sub' \in [Purl -> SubAwaits]
    BY <1>1 DEF SubAwaits, Active
  <2>2. at' \in Busy \cup Over /\ permits' \in Nat
    BY <1>1, JobProgressAssumption DEF Busy
  <2> QED BY <1>1, <1>2, <2>1, <2>2 DEF Types
<1>6. SubInv' /\ LineInv'
  <2>1. todo \subseteq Purl /\ todo' = todo /\ at' = "gather" /\ line' = <<>>
    BY <1>1, <1>4 DEF Types
  <2>2. \A p \in todo : sub'[p] = "permit"
    BY <1>3, <2>1
  <2>3. SubInv'
    BY <1>3, <2>1, <2>2 DEF SubInv, Early, Late
  <2> QED BY <1>3, <2>1, <2>3 DEF LineInv
<1>7. Counted' = {} /\ Asking' = {}
  BY <1>1, <1>3 DEF Counted, Asking, Types
<1>8. CountInv' /\ PermitInv' /\ LimitInv'
  BY <1>1, <1>3, <1>4, <1>7, Empty, JobProgressAssumption DEF CountInv, PermitInv, LimitInv
<1>9. CancelInv'
  BY <1>1, <1>4 DEF CancelInv
<1>10. CountersInv'
  BY <1>1, <1>2, <1>4 DEF CountersInv, Live, Late, Busy, Writing
<1> QED BY <1>5, <1>6, <1>8, <1>9, <1>10 DEF IInv

LEMMA GatheredInv == ASSUME IInv, Gathered PROVE IInv'
<1>1. /\ Types /\ SubInv /\ CountInv /\ CountersInv /\ at = "gather" /\ at' = "storing"
      /\ \A p \in todo : sub[p] = "done"
      /\ UNCHANGED <<status, cancelReq, killed, client, progress, urls, checked, todo, subVars, faults>>
  BY DEF IInv, Gathered, Main
<1>2. /\ current' = current /\ total' = total /\ phase' = phase
      /\ sub' = sub /\ completed' = completed
  BY <1>1 DEF progress, subVars
<1>3. Counted = todo /\ \A p \in Purl : sub[p] \in {"none", "done"}
  BY <1>1 DEF Counted, SubInv
<1>4. Types'
  BY <1>1, <1>2 DEF Types, subVars, Busy, Writing
<1>5. CountersInv'
  BY <1>1, <1>2, <1>3 DEF CountersInv, CountInv, Live, Full, Late, Busy
<1>6. at \in Busy /\ at \notin Early /\ at' \notin Early /\ at' # "gather" /\ ActiveSubs = {}
  BY <1>1, <1>3 DEF Busy, Early, ActiveSubs, Active
<1> QED BY <1>1, <1>4, <1>5, <1>6, MainStepInv

(* The steps after the resolutions. *)
LEMMA LateStep ==
  ASSUME IInv, at \in Late \cup {"failing"}, at' \in Late \cup {"failing", "over"},
         UNCHANGED <<cancelReq, killed, client, urls, checked, todo, subVars>>,
         at' \in Late => at \in Late, current' = current, total' = total, phase' \in Phases,
         Live /\ faults' = 0 /\ at' \in {"get", "completing"} => phase' = "enriching",
         faults' \in 0..DbFaults, faults' = 0 => faults = 0,
         \/ status' = status /\ (at' = "over" => at = "failing" \/ cancelReq \/ status = "cancelled")
         \/ status' = "failed" /\ at' = "over"
         \/ status' = "completed" /\ at = "completing" /\ at' = "over" /\ phase' = phase
  PROVE  IInv'
<1>1. Types /\ SubInv /\ CountersInv /\ UNCHANGED <<sub, completed>>
  BY DEF IInv, subVars
<1>2. /\ at \in Busy /\ at \notin Early /\ at # "gather" /\ at' \notin Early /\ at' # "gather"
      /\ at' \in Busy \cup Over /\ at' \notin {"parsing", "validating", "counting", "validate"}
      /\ at' # "over" => at' \in Busy
  BY DEF Busy, Writing, Over, Early, Late
<1>3. status' \in {"running", "cancelled", "completed", "failed"}
  BY <1>1 DEF Types
<1>4. Types'
  BY <1>1, <1>2, <1>3 DEF Types, subVars
<1>5. \A p \in todo : at \in Late => sub[p] = "done"
  BY <1>1 DEF SubInv
<1>6. ~cancelReq => status = "running"
  BY <1>1, <1>2 DEF CountersInv
<1>7. ASSUME status' = "completed", ~cancelReq
      PROVE  at' = "over" /\ (faults' = 0 => Full' /\ phase' = "enriching")
  <2>1. status = "running" /\ at = "completing" /\ at' = "over" /\ phase' = phase
    BY <1>6, <1>7
  <2> QED BY <1>1, <1>7, <2>1 DEF CountersInv, Live, Full, Late
<1>8. current' <= total' /\ (at' \in Busy /\ ~cancelReq' => status' = "running")
  BY <1>1, <1>2, <1>6, <1>3 DEF CountersInv, Busy, Writing
<1>9. Live' => Live /\ faults' = 0
  BY <1>6 DEF Live
<1>10. CountersInv'
  <2>1. Live' /\ (\E p \in Purl : sub'[p] # "none") => current' <= completed'
    BY <1>1, <1>9 DEF CountersInv
  <2>2. Live' /\ at' \in Late => Full'
    BY <1>1, <1>9 DEF CountersInv, Full
  <2>3. Live' /\ at' \in {"get", "completing"} => phase' = "enriching"
    BY <1>9
  <2> QED BY <1>2, <1>7, <1>8, <2>1, <2>2, <2>3 DEF CountersInv
<1> QED BY <1>2, <1>4, <1>5, <1>10, MainStepInv

LEMMA FaultStep == Types /\ Fault => faults' \in 0..DbFaults /\ faults' # 0
BY JobProgressAssumption DEF Types, Fault

LEMMA StoreReferencesInv == ASSUME IInv, StoreReferences PROVE IInv'
<1>1. /\ at = "storing" /\ Types
      /\ UNCHANGED <<cancelReq, killed, client, status, progress, urls, checked, todo, subVars>>
  BY DEF IInv, StoreReferences, Main
<1>2. \/ at' = "enriching" /\ UNCHANGED faults
      \/ at' = "failing" /\ Fault
  BY DEF StoreReferences, Main
<1> QED BY <1>1, <1>2, FaultStep, LateStep DEF Late, progress, Types

LEMMA EnrichInv == ASSUME IInv, Enrich PROVE IInv'
<1>1. /\ at = "enriching" /\ Types /\ CountersInv /\ OnPhase("enriching") /\ at' \in {"get", "failing"}
      /\ UNCHANGED <<cancelReq, killed, client, status, urls, checked, todo, subVars>>
  BY DEF IInv, Enrich, Main
<1>2. /\ phase' \in Phases /\ current' = current /\ total' = total
      /\ faults' \in 0..DbFaults /\ (faults' = 0 => faults = 0)
      /\ Live /\ faults' = 0 => phase' = "enriching"
  BY <1>1, PhaseStep DEF CountersInv, Phases
<1> QED BY <1>1, <1>2, LateStep DEF Late

LEMMA CheckRowInv == ASSUME IInv, CheckRow PROVE IInv'
<1>1. /\ at = "get" /\ Types /\ CountersInv
      /\ UNCHANGED <<cancelReq, killed, client, status, progress, urls, checked, todo, subVars>>
  BY DEF IInv, CheckRow, Main
<1>2. \/ at' = "over" /\ (status = "cancelled" \/ cancelReq) /\ UNCHANGED faults
      \/ at' = "completing" /\ UNCHANGED faults
      \/ at' = "failing" /\ Fault
  BY DEF CheckRow, Main
<1>3. Live /\ faults' = 0 => phase' = "enriching"
  BY <1>1 DEF CountersInv, progress
<1> QED BY <1>1, <1>2, <1>3, FaultStep, LateStep DEF Late, progress, Types

LEMMA CompleteInv == ASSUME IInv, Complete PROVE IInv'
<1>1. /\ at = "completing" /\ Types
      /\ UNCHANGED <<cancelReq, killed, client, progress, urls, checked, todo, subVars>>
  BY DEF IInv, Complete, Main
<1>2. \/ at' = "over" /\ status' = "completed" /\ UNCHANGED faults
      \/ at' = "failing" /\ Fault /\ UNCHANGED status
  BY DEF Complete, Main
<1> QED BY <1>1, <1>2, FaultStep, LateStep DEF Late, progress, Types

LEMMA FailInv == ASSUME IInv, Fail PROVE IInv'
<1>1. /\ at = "failing" /\ Types /\ at' = "over"
      /\ UNCHANGED <<cancelReq, killed, client, progress, urls, checked, todo, subVars>>
  BY DEF IInv, Fail, Main
<1>2. (status' = "failed" /\ UNCHANGED faults) \/ (Fault /\ UNCHANGED status)
  BY DEF Fail
<1> QED BY <1>1, <1>2, FaultStep, LateStep DEF Late, progress, Types

LEMMA InterruptedInv == ASSUME IInv, Interrupted PROVE IInv'
<1>1. /\ Types /\ CancelInv /\ CountersInv /\ at \in Busy /\ at' = "cancelled" /\ killed /\ killed' = FALSE
      /\ UNCHANGED <<cancelReq, progress, urls, checked, todo, subVars, client, faults>>
      /\ status' \in {status, "completed", "failed"}
  BY DEF IInv, Interrupted
<1>2. cancelReq /\ (at = "gather" => ActiveSubs = {})
  BY <1>1 DEF CancelInv
<1>3. Types'
  BY <1>1 DEF Types, progress, subVars, Over
<1>4. CountersInv'
  BY <1>1, <1>2 DEF CountersInv, Live, Late, progress, subVars, Busy, Writing
<1>5. at' \notin Early /\ at' \notin Late
  BY <1>1 DEF Early, Late
<1> QED BY <1>1, <1>2, <1>3, <1>4, <1>5, MainStepInv

LEMMA MainStepsInv == ASSUME IInv, MainStep PROVE IInv'
BY ParseInv, BeginValidationInv, CountUrlInv, ValidateUrlInv, BeginResolutionInv, AnnounceInv, GatheredInv,
   StoreReferencesInv, EnrichInv, CheckRowInv, CompleteInv, FailInv, InterruptedInv DEF MainStep

-----------------------------------------------------------------------------
(* The resolutions.                                                        *)

(* One more resolution is counted, asks or does not ask any more. *)
LEMMA CountedMore ==
  ASSUME Types, NEW p \in todo, todo' = todo, sub[p] \in Active \ {"write"},
         sub' = [sub EXCEPT ![p] = sub'[p]], sub'[p] \in {"write", "done", "raised", "cancelled"}
  PROVE  Cardinality(Counted') = Cardinality(Counted) + 1
<1>1. p \in Purl /\ sub \in [Purl -> SubAwaits] /\ \A q \in Purl \ {p} : sub'[q] = sub[q]
  BY DEF Types
<1>2. Counted' = Counted \cup {p} /\ p \notin Counted
  BY <1>1 DEF Counted, Types, Active
<1> QED BY <1>2, Finite, FS_AddElement

LEMMA AskingMoves ==
  ASSUME Types, NEW p \in todo, todo' = todo, sub' = [sub EXCEPT ![p] = sub'[p]]
  PROVE  /\ sub[p] # "resolve" /\ sub'[p] = "resolve" => Cardinality(Asking') = Cardinality(Asking) + 1
         /\ sub[p] = "resolve" /\ sub'[p] # "resolve" => Cardinality(Asking') = Cardinality(Asking) - 1
         /\ sub[p] # "resolve" /\ sub'[p] # "resolve" => Asking' = Asking
<1>1. p \in Purl /\ sub \in [Purl -> SubAwaits] /\ \A q \in Purl \ {p} : sub'[q] = sub[q]
  BY DEF Types
<1>2. sub[p] # "resolve" /\ sub'[p] = "resolve" => Asking' = Asking \cup {p} /\ p \notin Asking
  BY <1>1 DEF Asking, Types
<1>3. sub[p] = "resolve" /\ sub'[p] # "resolve" => Asking' = Asking \ {p} /\ p \in Asking
  BY <1>1 DEF Asking, Types
<1>4. sub[p] # "resolve" /\ sub'[p] # "resolve" => Asking' = Asking
  BY <1>1 DEF Asking, Types
<1>5. IsFiniteSet(Asking) /\ Cardinality(Asking) \in Nat
  BY Finite
<1>6. p \notin Asking => Cardinality(Asking \cup {p}) = Cardinality(Asking) + 1
  BY <1>5, FS_AddElement
<1>7. p \in Asking => Cardinality(Asking \ {p}) = Cardinality(Asking) - 1
  BY <1>5, FS_RemoveElement
<1> QED BY <1>2, <1>3, <1>4, <1>6, <1>7

(* A resolution moves on, and the counter, the permits and the task of the job with it. *)
LEMMA SubMove ==
  ASSUME IInv, NEW p \in Purl, sub[p] \in Active, sub' = [sub EXCEPT ![p] = sub'[p]],
         sub'[p] \in SubAwaits \ {"none", "permit"}, UNCHANGED <<cancelReq, killed, todo, client>>,
         Types', LineInv', CountersInv',
         \/ at' = at
         \/ at = "gather" /\ sub'[p] = "raised" /\ at' = "failing"
         \/ at = "gather" /\ sub'[p] = "cancelled" /\ at' = "cancelled",
         at' = "gather" => sub'[p] \notin {"raised", "cancelled"},
         \/ doomed' = doomed /\ sub'[p] # "cancelled"
         \/ doomed' = doomed \ {p} /\ p \in doomed /\ sub'[p] = "cancelled",
         IF sub[p] = "resolve" /\ sub'[p] # "resolve" THEN permits' = permits + 1
         ELSE IF sub[p] # "resolve" /\ sub'[p] = "resolve" THEN permits' = permits - 1
         ELSE permits' = permits,
         IF sub[p] # "write" /\ sub'[p] \in {"write", "done"} THEN completed' = completed + 1
         ELSE completed' = completed,
         \A q \in Purl : sub'[q] = "write" => count'[q] = completed',
         sub[p] = "write" => sub'[p] \in {"done", "cancelled"}
  PROVE  IInv'
<1>1. Types /\ SubInv /\ CountInv /\ PermitInv /\ LimitInv /\ CancelInv
  BY DEF IInv
<1>2. /\ \A q \in Purl \ {p} : sub'[q] = sub[q]
      /\ p \in todo /\ todo \subseteq Purl /\ sub[p] # "none" /\ at \notin Early /\ at \notin Late
  BY <1>1 DEF Types, SubInv, Active
<1>3. at' \notin Early /\ at' \notin Late
  BY <1>2 DEF Early, Late
<1>4. SubInv'
  <2>1. \A q \in Purl : sub'[q] # "none" => q \in todo'
    BY <1>1, <1>2 DEF SubInv
  <2>2. at' = "gather" => \A q \in todo' : sub'[q] \notin {"none", "raised", "cancelled"}
    BY <1>1, <1>2 DEF SubInv
  <2> QED BY <1>3, <2>1, <2>2 DEF SubInv
<1>5. PermitInv' /\ LimitInv'
  <2>1. permits + Cardinality(Asking) = Limit /\ Cardinality(Asking) \in Nat /\ permits \in Nat
    BY <1>1, <1>2, Finite DEF PermitInv, Types
  <2>2. Asking' \subseteq todo /\ IsFiniteSet(todo)
    BY <1>1, Finite DEF Asking
  <2>3. Cardinality(Asking') \in Nat
    BY <2>2, FS_Subset, FS_CardinalityType
  <2>4. permits' + Cardinality(Asking') = Limit
    <3>1. CASE sub[p] = "resolve" /\ sub'[p] # "resolve"
      BY <1>1, <1>2, <2>1, <3>1, AskingMoves
    <3>2. CASE sub[p] # "resolve" /\ sub'[p] = "resolve"
      BY <1>1, <1>2, <2>1, <3>2, AskingMoves
    <3>3. CASE sub[p] # "resolve" /\ sub'[p] # "resolve"
      BY <1>1, <1>2, <2>1, <3>3, AskingMoves
    <3>4. CASE sub[p] = "resolve" /\ sub'[p] = "resolve"
      <4>1. Asking' = Asking
        BY <1>2, <3>4 DEF Asking
      <4> QED BY <2>1, <3>4, <4>1
    <3> QED BY <3>1, <3>2, <3>3, <3>4
  <2>5. permits' \in Nat
    BY DEF Types
  <2> QED BY <2>3, <2>4, <2>5, JobProgressAssumption DEF PermitInv, LimitInv
<1>6. CountInv'
  <2>1. Cardinality(Counted) \in Nat /\ completed \in Nat
    BY <1>1, Finite DEF Types
  <2>2. CASE sub[p] = "write"
    <3>1. Counted' = Counted
      BY <1>2, <2>2 DEF Counted
    <3> QED BY <1>1, <2>1, <2>2, <3>1 DEF CountInv
  <2>3. CASE sub[p] # "write" /\ sub'[p] \in {"write", "done", "raised", "cancelled"}
    <3>1. Cardinality(Counted') = Cardinality(Counted) + 1
      BY <1>1, <1>2, <2>3, CountedMore
    <3> QED BY <1>1, <2>1, <2>3, <3>1 DEF CountInv
  <2>4. CASE sub[p] # "write" /\ sub'[p] \in {"resolve", "turn"}
    <3>1. Counted' = Counted
      BY <1>2, <2>4 DEF Counted, Active
    <3> QED BY <1>1, <2>1, <2>4, <3>1 DEF CountInv
  <2> QED BY <2>2, <2>3, <2>4 DEF SubAwaits, Active
<1>7. CancelInv'
  <2>1. ActiveSubs' \subseteq ActiveSubs /\ p \in ActiveSubs /\ (sub'[p] = "cancelled" => p \notin ActiveSubs')
    BY <1>2 DEF ActiveSubs, Active
  <2>2. ~(killed /\ at = "gather")
    BY <1>1, <2>1 DEF CancelInv
  <2>3. doomed' # {} => doomed # {}
    OBVIOUS
  <2>4. ActiveSubs \subseteq doomed => ActiveSubs' \subseteq doomed'
    BY <2>1
  <2>5. ASSUME at' # "gather", \A q \in Purl : sub'[q] # "raised" PROVE ActiveSubs \subseteq doomed
    <3>1. \A q \in Purl : sub[q] # "raised"
      BY <1>2, <2>5 DEF Active
    <3>2. CASE at # "gather"
      BY <1>1, <3>1, <3>2 DEF CancelInv
    <3>3. CASE at = "gather"
      <4>1. doomed # {}
        BY <2>5, <3>3
      <4> QED BY <1>1, <4>1 DEF CancelInv
    <3> QED BY <3>2, <3>3
  <2> QED BY <1>1, <2>2, <2>3, <2>4, <2>5 DEF CancelInv
<1> QED BY <1>4, <1>5, <1>6, <1>7 DEF IInv

-----------------------------------------------------------------------------
(* The line for the lock.                                                  *)

LEMMA LeaveLine ==
  ASSUME Types, LineInv, NEW p \in Purl, sub' = [sub EXCEPT ![p] = sub'[p]],
         sub'[p] \notin {"turn", "write"}, line' = Without(p)
  PROVE  line' \in Seq(Purl) /\ LineInv'
<1>1. \A q \in Purl \ {p} : sub'[q] = sub[q]
  BY DEF Types
<1>2. line \in Seq(Purl) /\ Len(line) \in Nat /\ \A i \in 1..Len(line) : line[i] \in Purl
  BY DEF Types
<1>3. CASE \A i \in 1..Len(line) : line[i] # p
  <2>1. line' = line
    BY <1>3 DEF Without
  <2> QED BY <1>1, <1>2, <1>3, <2>1 DEF LineInv
<1>4. CASE \E i \in 1..Len(line) : line[i] = p
  <2> DEFINE i == CHOOSE i \in 1..Len(line) : line[i] = p
             n == Len(line) - 1
  <2>1. i \in 1..Len(line) /\ line[i] = p
    BY <1>4
  <2>2. line' = [j \in 1..n |-> IF j < i THEN line[j] ELSE line[j + 1]]
    BY <1>4 DEF Without
  <2> HIDE DEF i
  <2>3. n \in Nat /\ n + 1 = Len(line)
    BY <1>2, <2>1
  <2> HIDE DEF n
  <2>4. line' \in Seq(Purl) /\ Len(line') = n
    BY <1>2, <2>1, <2>2, <2>3
  <2>5. \A j \in 1..n : line'[j] = IF j < i THEN line[j] ELSE line[j + 1]
    BY <2>2
  <2>6. \A j, k \in 1..n : line'[j] = line'[k] => j = k
    <3> SUFFICES ASSUME NEW j \in 1..n, NEW k \in 1..n, line'[j] = line'[k] PROVE j = k
      OBVIOUS
    <3> DEFINE J == IF j < i THEN j ELSE j + 1
               K == IF k < i THEN k ELSE k + 1
    <3>1. J \in 1..Len(line) /\ K \in 1..Len(line) /\ line[J] = line[K]
      BY <2>1, <2>3, <2>5
    <3>2. J = K
      BY <3>1 DEF LineInv
    <3> QED BY <2>1, <3>2
  <2>7. \A j \in 1..n : line'[j] # p /\ line'[j] \in Purl /\ sub[line'[j]] \in {"turn", "write"}
    <3> SUFFICES ASSUME NEW j \in 1..n
                 PROVE  line'[j] # p /\ line'[j] \in Purl /\ sub[line'[j]] \in {"turn", "write"}
      OBVIOUS
    <3> DEFINE J == IF j < i THEN j ELSE j + 1
    <3>1. J \in 1..Len(line) /\ J # i /\ line'[j] = line[J]
      BY <2>1, <2>3, <2>5
    <3> QED BY <1>2, <2>1, <3>1 DEF LineInv
  <2>8. ASSUME NEW q \in Purl, sub'[q] \in {"turn", "write"}
        PROVE  \E j \in 1..n : line'[j] = q
    <3>1. q # p /\ sub[q] \in {"turn", "write"}
      BY <1>1, <2>8
    <3>2. PICK J \in 1..Len(line) : line[J] = q
      BY <3>1 DEF LineInv
    <3>3. J # i
      BY <2>1, <3>1, <3>2
    <3>4. CASE J < i
      <4>1. J \in 1..n /\ line'[J] = q
        BY <2>1, <2>3, <2>5, <3>2, <3>4
      <4> QED BY <4>1
    <3>5. CASE J > i
      <4>1. J - 1 \in 1..n /\ ~(J - 1 < i) /\ (J - 1) + 1 = J
        BY <2>1, <2>3, <3>5
      <4>2. line'[J - 1] = q
        BY <2>5, <3>2, <4>1
      <4> QED BY <4>1, <4>2
    <3> QED BY <2>1, <3>3, <3>4, <3>5
  <2>9. ASSUME NEW q \in Purl, sub'[q] = "write" PROVE line'[1] = q
    <3>1. q # p /\ line[1] = q
      BY <1>1, <2>9 DEF LineInv
    <3>2. PICK j \in 1..n : line'[j] = q
      BY <2>8, <2>9
    <3>3. 1 \in 1..n /\ 1 < i
      <4>1. i # 1
        BY <2>1, <3>1
      <4> QED BY <2>1, <2>3, <3>2, <4>1
    <3> QED BY <2>5, <3>1, <3>3
  <2>10. \A j \in 1..n : sub'[line'[j]] \in {"turn", "write"}
    BY <1>1, <2>7
  <2> QED BY <2>4, <2>6, <2>8, <2>9, <2>10 DEF LineInv
<1> QED BY <1>3, <1>4

LEMMA JoinLine ==
  ASSUME Types, LineInv, NEW p \in Purl, sub' = [sub EXCEPT ![p] = "turn"],
         sub[p] \notin {"turn", "write"}, line # <<>>, line' = Append(line, p)
  PROVE  line' \in Seq(Purl) /\ LineInv'
<1>1. sub'[p] = "turn" /\ \A q \in Purl \ {p} : sub'[q] = sub[q]
  BY DEF Types
<1>2. /\ line \in Seq(Purl) /\ Len(line) \in Nat \ {0} /\ \A i \in 1..Len(line) : line[i] \in Purl
      /\ line' \in Seq(Purl) /\ Len(line') = Len(line) + 1 /\ line'[Len(line) + 1] = p
      /\ \A i \in 1..Len(line) : line'[i] = line[i]
  BY DEF Types
<1>3. \A i \in 1..Len(line) : line[i] # p
  BY DEF LineInv
<1>4. \A i \in 1..Len(line') : i \in 1..Len(line) \/ i = Len(line) + 1
  BY <1>2
<1>5. \A i, j \in 1..Len(line') : line'[i] = line'[j] => i = j
  BY <1>2, <1>3, <1>4 DEF LineInv
<1>6. \A i \in 1..Len(line') : sub'[line'[i]] \in {"turn", "write"}
  BY <1>1, <1>2, <1>3, <1>4 DEF LineInv
<1>7. ASSUME NEW q \in Purl, sub'[q] \in {"turn", "write"} PROVE \E i \in 1..Len(line') : line'[i] = q
  <2>1. CASE q = p
    BY <1>2, <2>1
  <2>2. CASE q # p
    <3>1. PICK i \in 1..Len(line) : line[i] = q
      BY <1>1, <1>7, <2>2 DEF LineInv
    <3>2. i \in 1..Len(line') /\ line'[i] = q
      BY <1>2, <3>1
    <3> QED BY <3>2
  <2> QED BY <2>1, <2>2
<1>8. ASSUME NEW q \in Purl, sub'[q] = "write" PROVE line'[1] = q
  BY <1>1, <1>2, <1>8 DEF LineInv
<1> QED BY <1>2, <1>5, <1>6, <1>7, <1>8 DEF LineInv

(* The head of queue, who has the lock, is counted and reports, or is done at once. *)
LEMMA HeadLine ==
  ASSUME Types, NEW p \in Purl, NEW queue \in Seq(Purl), queue # <<>>, queue[1] = p,
         \A i, j \in 1..Len(queue) : queue[i] = queue[j] => i = j,
         \A i \in 1..Len(queue) : queue[i] = p \/ sub[queue[i]] = "turn",
         \A q \in Purl \ {p} : sub[q] # "write" /\ (sub[q] = "turn" => \E i \in 1..Len(queue) : queue[i] = q),
         sub' = [sub EXCEPT ![p] = sub'[p]],
         (sub'[p] = "write" /\ line' = queue) \/ (sub'[p] = "done" /\ line' = Tail(queue))
  PROVE  line' \in Seq(Purl) /\ LineInv'
<1>1. \A q \in Purl \ {p} : sub'[q] = sub[q]
  BY DEF Types
<1>2. Len(queue) \in Nat \ {0} /\ \A i \in 1..Len(queue) : queue[i] \in Purl
  OBVIOUS
<1>3. CASE sub'[p] = "write" /\ line' = queue
  BY <1>1, <1>2, <1>3 DEF LineInv
<1>4. CASE sub'[p] = "done" /\ line' = Tail(queue)
  <2>1. /\ line' \in Seq(Purl) /\ Len(line') = Len(queue) - 1
        /\ \A i \in 1..(Len(queue) - 1) : line'[i] = queue[i + 1]
    BY <1>2, <1>4
  <2>2. \A i \in 1..(Len(queue) - 1) : i + 1 \in 1..Len(queue) /\ i + 1 # 1 /\ 1 \in 1..Len(queue)
    BY <1>2
  <2>3. \A i, j \in 1..Len(line') : line'[i] = line'[j] => i = j
    <3> SUFFICES ASSUME NEW i \in 1..Len(line'), NEW j \in 1..Len(line'), line'[i] = line'[j] PROVE i = j
      OBVIOUS
    <3>1. i + 1 = j + 1
      BY <2>1, <2>2
    <3> QED BY <1>2, <2>1, <3>1
  <2>4. \A i \in 1..Len(line') : line'[i] # p /\ line'[i] \in Purl /\ sub[line'[i]] = "turn"
    <3> SUFFICES ASSUME NEW i \in 1..Len(line')
                 PROVE  line'[i] # p /\ line'[i] \in Purl /\ sub[line'[i]] = "turn"
      OBVIOUS
    <3>1. i + 1 \in 1..Len(queue) /\ i + 1 # 1 /\ 1 \in 1..Len(queue) /\ line'[i] = queue[i + 1]
      BY <2>1, <2>2
    <3>2. queue[i + 1] # p
      BY <3>1
    <3> QED BY <1>2, <3>1, <3>2
  <2>5. ASSUME NEW q \in Purl, sub'[q] \in {"turn", "write"} PROVE \E i \in 1..Len(line') : line'[i] = q
    <3>1. q # p /\ sub[q] = "turn"
      BY <1>1, <1>4, <2>5
    <3>2. PICK i \in 1..Len(queue) : queue[i] = q
      BY <3>1
    <3>3. i - 1 \in 1..(Len(queue) - 1) /\ (i - 1) + 1 = i
      BY <1>2, <3>1, <3>2
    <3>4. i - 1 \in 1..Len(line') /\ line'[i - 1] = q
      BY <2>1, <3>2, <3>3
    <3> QED BY <3>4
  <2>6. \A q \in Purl : sub'[q] # "write"
    BY <1>1, <1>4
  <2>7. \A i \in 1..Len(line') : sub'[line'[i]] \in {"turn", "write"}
    BY <1>1, <2>4
  <2> QED BY <2>1, <2>3, <2>5, <2>6, <2>7 DEF LineInv
<1> QED BY <1>3, <1>4

-----------------------------------------------------------------------------
(* The steps of a resolution.                                              *)

LEMMA PermittedInv == ASSUME IInv, NEW p \in Purl, Permit(p) PROVE IInv'
<1>1. /\ Types /\ LineInv /\ CountInv /\ PermitInv /\ CountersInv
      /\ sub[p] = "permit" /\ permits > 0 /\ sub' = [sub EXCEPT ![p] = "resolve"] /\ permits' = permits - 1
      /\ UNCHANGED <<rowVars, progress, mainVars, doomed, line, completed, count, client, faults>>
  BY DEF IInv, Permit, Sub
<1>2. sub'[p] = "resolve" /\ \A q \in Purl \ {p} : sub'[q] = sub[q]
  BY <1>1 DEF Types
<1>3. Types'
  <2>1. sub' \in [Purl -> SubAwaits] /\ permits' \in Nat
    BY <1>1 DEF Types, SubAwaits, Active
  <2> QED BY <1>1, <2>1 DEF Types, rowVars, progress, mainVars
<1>4. LineInv'
  <2>1. \A q \in Purl : sub'[q] \in {"turn", "write"} <=> sub[q] \in {"turn", "write"}
    BY <1>1, <1>2
  <2>2. \A q \in Purl : sub'[q] = "write" => sub[q] = "write"
    BY <1>2
  <2>3. line' = line /\ \A i \in 1..Len(line) : line[i] \in Purl
    BY <1>1 DEF Types
  <2> QED BY <1>1, <2>1, <2>2, <2>3 DEF LineInv
<1>5. /\ \A q \in Purl : sub'[q] = "write" <=> sub[q] = "write"
      /\ \A q \in Purl : sub'[q] # "none" => \E r \in Purl : sub[r] # "none"
  BY <1>1, <1>2
<1>6. CountersInv'
  BY <1>1, <1>5 DEF CountersInv, Live, Full, rowVars, progress, mainVars
<1>7. \A q \in Purl : sub'[q] = "write" => count'[q] = completed'
  BY <1>1, <1>5 DEF CountInv
<1> QED BY <1>1, <1>2, <1>3, <1>4, <1>6, <1>7, SubMove DEF Active, SubAwaits, rowVars, mainVars

(* A resolution takes the lock and is counted. *)
LEMMA CountStep ==
  ASSUME IInv, NEW p \in Purl, NEW queue \in Seq(Purl), Count(p, queue), queue # <<>>, queue[1] = p,
         sub[p] \in {"resolve", "turn"},
         \A i, j \in 1..Len(queue) : queue[i] = queue[j] => i = j,
         \A i \in 1..Len(queue) : queue[i] = p \/ sub[queue[i]] = "turn",
         \A q \in Purl : sub[q] # "write" /\ (sub[q] = "turn" => \E i \in 1..Len(queue) : queue[i] = q),
         permits' = (IF sub[p] = "resolve" THEN permits + 1 ELSE permits),
         UNCHANGED <<rowVars, progress, mainVars, doomed, client, faults>>
  PROVE  IInv'
<1>1. Types /\ SubInv /\ CountInv /\ CountersInv
  BY DEF IInv
<1>2. /\ completed' = completed + 1 /\ sub' = [sub EXCEPT ![p] = sub'[p]]
      /\ \/ sub'[p] = "write" /\ count' = [count EXCEPT ![p] = completed + 1] /\ line' = queue
         \/ /\ completed + 1 # Cardinality(todo) /\ sub'[p] = "done"
            /\ line' = Tail(queue) /\ UNCHANGED count
  BY <1>1 DEF Count, Forced, Types
<1>3. line' \in Seq(Purl) /\ LineInv'
  BY <1>1, <1>2, HeadLine
<1>4. \A q \in Purl \ {p} : sub'[q] = sub[q]
  BY <1>1, <1>2 DEF Types
<1>5. Types'
  <2>1. sub' \in [Purl -> SubAwaits]
    <3>1. sub \in [Purl -> SubAwaits] /\ sub'[p] \in SubAwaits
      BY <1>1, <1>2 DEF Types, SubAwaits, Active
    <3> QED BY <1>2, <3>1
  <2>2. completed' \in Nat /\ count' \in [Purl -> Nat] /\ permits' \in Nat
    <3>1. completed \in Nat /\ count \in [Purl -> Nat] /\ permits \in Nat
      BY <1>1 DEF Types
    <3>2. count' \in [Purl -> Nat]
      BY <1>2, <3>1
    <3> QED BY <1>2, <3>1, <3>2
  <2> QED BY <1>1, <1>3, <2>1, <2>2 DEF Types, rowVars, progress, mainVars
<1>6. \A q \in Purl : sub'[q] = "write" => count'[q] = completed'
  BY <1>1, <1>2, <1>4 DEF Types
<1>7. CountersInv'
  <2>1. /\ UNCHANGED <<status, cancelReq, phase, current, total, at, urls, checked, todo, faults>>
        /\ sub[p] # "none" /\ completed \in Nat /\ current \in Nat
    BY <1>1 DEF rowVars, progress, mainVars, Types
  <2>2. completed' = Cardinality(todo) => sub'[p] = "write"
    BY <1>2
  <2>3. Live => current <= completed'
    BY <1>1, <1>2, <2>1 DEF CountersInv
  <2> QED BY <1>1, <2>1, <2>2, <2>3 DEF CountersInv, Live, Full
<1> QED BY <1>1, <1>2, <1>3, <1>5, <1>6, <1>7, SubMove DEF Active, SubAwaits, rowVars, mainVars

LEMMA ResolvedInv == ASSUME IInv, NEW p \in Purl, Resolved(p) PROVE IInv'
<1>1. /\ Types /\ LineInv /\ CountInv /\ CountersInv /\ sub[p] = "resolve" /\ permits' = permits + 1
      /\ UNCHANGED <<rowVars, progress, mainVars, doomed, client, faults>>
  BY DEF IInv, Resolved, Sub
<1>2. CASE line = <<>>
  <2>1. Count(p, <<p>>)
    BY <1>2 DEF Resolved
  <2>2. \A q \in Purl : sub[q] \notin {"turn", "write"}
    BY <1>1, <1>2 DEF LineInv
  <2>3. <<p>> \in Seq(Purl) /\ <<p>> # <<>> /\ <<p>>[1] = p /\ Len(<<p>>) = 1
    OBVIOUS
  <2>4. \A i \in 1..Len(<<p>>) : <<p>>[i] = p
    BY <2>3
  <2>5. \A i, j \in 1..Len(<<p>>) : <<p>>[i] = <<p>>[j] => i = j
    BY <2>3
  <2> QED BY <1>1, <2>1, <2>2, <2>3, <2>4, <2>5, CountStep
<1>3. CASE line # <<>>
  <2>1. sub' = [sub EXCEPT ![p] = "turn"] /\ line' = Append(line, p) /\ UNCHANGED <<completed, count>>
    BY <1>3 DEF Resolved
  <2>2. line' \in Seq(Purl) /\ LineInv'
    BY <1>1, <1>3, <2>1, JoinLine
  <2>3. sub'[p] = "turn" /\ \A q \in Purl \ {p} : sub'[q] = sub[q]
    BY <1>1, <2>1 DEF Types
  <2>4. Types'
    <3>1. sub' \in [Purl -> SubAwaits] /\ permits' \in Nat
      BY <1>1, <2>1 DEF Types, SubAwaits, Active
    <3> QED BY <1>1, <2>1, <2>2, <3>1 DEF Types, rowVars, progress, mainVars
  <2>5. /\ \A q \in Purl : sub'[q] = "write" <=> sub[q] = "write"
        /\ \A q \in Purl : sub'[q] # "none" => \E r \in Purl : sub[r] # "none"
    BY <1>1, <2>3
  <2>6. CountersInv'
    BY <1>1, <2>1, <2>5 DEF CountersInv, Live, Full, rowVars, progress, mainVars
  <2>7. \A q \in Purl : sub'[q] = "write" => count'[q] = completed'
    BY <1>1, <2>1, <2>5 DEF CountInv
  <2> QED BY <1>1, <2>1, <2>2, <2>3, <2>4, <2>6, <2>7, SubMove DEF Active, SubAwaits, rowVars, mainVars
<1> QED BY <1>2, <1>3

LEMMA TurnInv == ASSUME IInv, NEW p \in Purl, Turn(p) PROVE IInv'
<1>1. /\ Types /\ LineInv /\ sub[p] = "turn" /\ line # <<>> /\ Head(line) = p /\ Count(p, line)
      /\ UNCHANGED <<rowVars, progress, mainVars, doomed, permits, client, faults>>
  BY DEF IInv, Turn, Sub, HasLock
<1>2. line \in Seq(Purl) /\ line[1] = p /\ permits \in Nat
  BY <1>1 DEF Types
<1>3. \A q \in Purl : sub[q] # "write"
  BY <1>1, <1>2 DEF LineInv
<1>4. \A i \in 1..Len(line) : sub[line[i]] = "turn"
  BY <1>1, <1>2, <1>3 DEF LineInv
<1>5. /\ \A i, j \in 1..Len(line) : line[i] = line[j] => i = j
      /\ \A q \in Purl : sub[q] = "turn" => \E i \in 1..Len(line) : line[i] = q
  BY <1>1 DEF LineInv
<1> QED BY <1>1, <1>2, <1>3, <1>4, <1>5, CountStep

LEMMA WrittenInv == ASSUME IInv, NEW p \in Purl, Written(p) PROVE IInv'
<1>1. /\ Types /\ SubInv /\ LineInv /\ CountInv /\ CountersInv /\ sub[p] = "write"
      /\ OnProgress(count[p], Cardinality(todo))
      /\ sub' = [sub EXCEPT ![p] = "done"] /\ line' = Without(p)
      /\ UNCHANGED <<rowVars, mainVars, doomed, permits, completed, count, client>>
  BY DEF IInv, Written, Sub
<1>2. sub'[p] = "done" /\ \A q \in Purl \ {p} : sub'[q] = sub[q]
  BY <1>1 DEF Types
<1>3. line' \in Seq(Purl) /\ LineInv'
  BY <1>1, <1>2, LeaveLine
<1>4. /\ completed \in Nat /\ Cardinality(todo) \in Nat /\ count[p] = completed /\ completed <= Cardinality(todo)
  BY <1>1, Finite DEF Types, CountInv
<1>5. /\ phase' = phase /\ current' \in Nat /\ total' \in Nat /\ current' <= total'
      /\ faults' \in 0..DbFaults /\ (faults' = 0 => faults = 0)
      /\ Live /\ faults' = 0 => current' = completed /\ total' = Cardinality(todo)
  BY <1>1, <1>4, ProgressStep DEF CountersInv
<1>6. Types'
  <2>1. sub' \in [Purl -> SubAwaits]
    BY <1>1 DEF Types, SubAwaits
  <2> QED BY <1>1, <1>3, <1>5, <2>1 DEF Types, rowVars, mainVars
<1>7. at \notin Early /\ at \notin Late
  BY <1>1 DEF SubInv
<1>8. /\ UNCHANGED <<status, cancelReq, at, urls, checked, todo, completed>>
      /\ \A q \in Purl : sub'[q] # "none" => \E r \in Purl : sub[r] # "none"
  BY <1>1, <1>2 DEF rowVars, mainVars
<1>9. status # "running" => UNCHANGED <<current, total>>
  BY <1>1 DEF OnProgress, Write, UpdateProgress, progress
<1>10. CountersInv'
  <2>1. Live' => Live /\ faults' = 0
    BY <1>5, <1>8 DEF Live
  <2> QED BY <1>1, <1>4, <1>5, <1>7, <1>8, <1>9, <2>1 DEF CountersInv, Full, Early, Late
<1>11. \A q \in Purl : sub'[q] = "write" => count'[q] = completed'
  BY <1>1, <1>2 DEF CountInv
<1> QED BY <1>1, <1>2, <1>3, <1>6, <1>10, <1>11, SubMove DEF Active, SubAwaits, rowVars, mainVars

LEMMA RaisedInv == ASSUME IInv, NEW p \in Purl, Raised(p) PROVE IInv'
<1>1. /\ Types /\ SubInv /\ LineInv /\ CountInv /\ CountersInv /\ sub[p] = "resolve"
      /\ sub' = [sub EXCEPT ![p] = "raised"] /\ permits' = permits + 1
      /\ at' = IF at = "gather" THEN "failing" ELSE at
      /\ UNCHANGED <<rowVars, progress, killed, urls, checked, todo, doomed, line, completed, count, client, faults>>
  BY DEF IInv, Raised, Sub
<1>2. sub'[p] = "raised" /\ \A q \in Purl \ {p} : sub'[q] = sub[q]
  BY <1>1 DEF Types
<1>3. Types'
  <2>1. sub' \in [Purl -> SubAwaits] /\ permits' \in Nat /\ at' \in Busy \cup Over
    BY <1>1 DEF Types, SubAwaits, Busy
  <2> QED BY <1>1, <2>1 DEF Types, rowVars, progress
<1>4. LineInv'
  <2>1. \A q \in Purl : sub'[q] \in {"turn", "write"} <=> sub[q] \in {"turn", "write"}
    BY <1>1, <1>2
  <2>2. \A q \in Purl : sub'[q] = "write" => sub[q] = "write"
    BY <1>2
  <2>3. line' = line /\ \A i \in 1..Len(line) : line[i] \in Purl
    BY <1>1 DEF Types
  <2> QED BY <1>1, <2>1, <2>2, <2>3 DEF LineInv
<1>5. \A q \in Purl : sub'[q] = "write" <=> sub[q] = "write"
  BY <1>1, <1>2
<1>6. CountersInv'
  <2>1. UNCHANGED <<status, cancelReq, phase, current, total, urls, checked, todo, completed, faults>>
        /\ (at' = at \/ (at = "gather" /\ at' = "failing")) /\ sub[p] # "none"
    BY <1>1 DEF rowVars, progress
  <2>2. at = "gather" => at \in Busy
    BY DEF Busy
  <2> QED BY <1>1, <1>5, <2>1, <2>2 DEF CountersInv, Live, Full, Late
<1>7. \A q \in Purl : sub'[q] = "write" => count'[q] = completed'
  BY <1>1, <1>5 DEF CountInv
<1> QED BY <1>1, <1>2, <1>3, <1>4, <1>6, <1>7, SubMove DEF Active, SubAwaits, rowVars

LEMMA CancelledInv == ASSUME IInv, NEW p \in Purl, Cancelled(p) PROVE IInv'
<1>1. /\ Types /\ LineInv /\ CountInv /\ CancelInv /\ CountersInv /\ sub[p] \in Active /\ p \in doomed
      /\ sub' = [sub EXCEPT ![p] = "cancelled"] /\ doomed' = doomed \ {p}
      /\ permits' = (IF sub[p] = "resolve" THEN permits + 1 ELSE permits)
      /\ line' = Without(p) /\ at' = IF at = "gather" THEN "cancelled" ELSE at
      /\ UNCHANGED <<rowVars, progress, killed, urls, checked, todo, completed, count, client, faults>>
  BY DEF IInv, Cancelled
<1>2. sub'[p] = "cancelled" /\ \A q \in Purl \ {p} : sub'[q] = sub[q]
  BY <1>1 DEF Types
<1>3. line' \in Seq(Purl) /\ LineInv'
  BY <1>1, <1>2, LeaveLine
<1>4. Types'
  <2>1. sub' \in [Purl -> SubAwaits] /\ permits' \in Nat /\ at' \in Busy \cup Over
    BY <1>1 DEF Types, SubAwaits, Over
  <2> QED BY <1>1, <1>3, <2>1 DEF Types, rowVars, progress
<1>5. cancelReq
  BY <1>1 DEF CancelInv
<1>6. CountersInv'
  BY <1>1, <1>5 DEF CountersInv, Live, Late, rowVars, progress
<1>7. \A q \in Purl : sub'[q] = "write" => count'[q] = completed'
  BY <1>1, <1>2 DEF CountInv
<1> QED BY <1>1, <1>2, <1>3, <1>4, <1>6, <1>7, SubMove DEF Active, SubAwaits, rowVars

-----------------------------------------------------------------------------
(* cancel_job.                                                             *)

LEMMA ClientInv ==
  ASSUME IInv, CancelGet \/ CancelSet \/ CancelTask
  PROVE  IInv'
<1>1. Types /\ SubInv /\ LineInv /\ CountInv /\ PermitInv /\ LimitInv /\ CancelInv /\ CountersInv
  BY DEF IInv
<1>2. CASE CancelGet
  <2>1. UNCHANGED <<rowVars, progress, mainVars, subVars, faults>> /\ client' = "set" /\ client # "task"
    BY <1>2 DEF CancelGet
  <2> QED BY <1>1, <2>1 DEF IInv, Types, SubInv, LineInv, CountInv, PermitInv, LimitInv, CancelInv, CountersInv,
             Counted, Asking, ActiveSubs, Live, Full, rowVars, progress, mainVars, subVars
<1>3. CASE CancelSet
  <2>1. /\ UNCHANGED <<progress, mainVars, subVars, faults>> /\ client' = "task"
        /\ status' = "cancelled" /\ cancelReq' = TRUE
    BY <1>3 DEF CancelSet
  <2>2. Types' /\ CancelInv'
    BY <1>1, <2>1 DEF Types, CancelInv, ActiveSubs, progress, mainVars, subVars
  <2>3. SubInv' /\ LineInv' /\ CountInv' /\ PermitInv' /\ LimitInv'
    BY <1>1, <2>1 DEF SubInv, LineInv, CountInv, PermitInv, LimitInv, Counted, Asking, mainVars, subVars
  <2>4. CountersInv'
    BY <1>1, <2>1 DEF CountersInv, Live, progress, mainVars
  <2> QED BY <2>2, <2>3, <2>4 DEF IInv
<1>4. CASE CancelTask
  <2>1. /\ client = "task" /\ client' = "idle"
        /\ UNCHANGED <<rowVars, progress, at, urls, checked, todo, sub, permits, line, completed, count, faults>>
        /\ \/ at = "gather" /\ doomed' = ActiveSubs /\ ActiveSubs # {} /\ UNCHANGED killed
           \/ ~(at = "gather" /\ ActiveSubs # {}) /\ killed' = (at \in Busy) /\ UNCHANGED doomed
    BY <1>4 DEF CancelTask
  <2>2. cancelReq /\ ActiveSubs' = ActiveSubs /\ ActiveSubs \subseteq Purl
    BY <1>1, <2>1 DEF CancelInv, ActiveSubs
  <2>3. at = "gather" => at \notin Early
    BY DEF Early
  <2>4. Types'
    <3>1. killed \in BOOLEAN
      BY <1>1 DEF Types
    <3>2. killed' = killed \/ killed' = (at \in Busy)
      BY <2>1, Zenon
    <3>3. killed' \in BOOLEAN
      <4>1. CASE killed' = killed
        BY <3>1, <4>1
      <4>2. CASE killed' = (at \in Busy)
        <5>1. CASE at \in Busy
          BY <4>2, <5>1, Zenon
        <5>2. CASE at \notin Busy
          <6>1. (at \in Busy) = FALSE
            BY <5>2
          <6> QED BY <4>2, <6>1
        <5> QED BY <5>1, <5>2
      <4> QED BY <3>2, <4>1, <4>2
    <3>4. doomed' \in SUBSET Purl
      BY <1>1, <2>1, <2>2 DEF Types
    <3> QED BY <1>1, <2>1, <3>3, <3>4 DEF Types, rowVars, progress
  <2>5. CancelInv'
    BY <1>1, <2>1, <2>2 DEF CancelInv, rowVars
  <2>6. SubInv' /\ LineInv' /\ CountInv' /\ PermitInv' /\ LimitInv'
    BY <1>1, <2>1, <2>3 DEF SubInv, LineInv, CountInv, PermitInv, LimitInv, Counted, Asking
  <2>7. CountersInv'
    BY <1>1, <2>1 DEF CountersInv, Live, Full, rowVars, progress
  <2> QED BY <2>4, <2>5, <2>6, <2>7 DEF IInv
<1> QED BY <1>2, <1>3, <1>4

LEMMA NextInv == IInv /\ [Next]_vars => IInv'
<1> SUFFICES ASSUME IInv, [Next]_vars PROVE IInv'
  OBVIOUS
<1>1. CASE MainStep
  BY <1>1, MainStepsInv
<1>2. ASSUME NEW p \in Purl, SubStep(p) PROVE IInv'
  BY <1>2, PermittedInv, ResolvedInv, TurnInv, WrittenInv, RaisedInv, CancelledInv DEF SubStep
<1>3. CASE CancelGet \/ CancelSet \/ CancelTask
  BY <1>3, ClientInv
<1>4. CASE UNCHANGED vars
  <2>1. UNCHANGED <<status, cancelReq, phase, current, total, at, killed, urls, checked, todo, sub, doomed,
                    permits, line, completed, count, client, faults>>
    BY <1>4 DEF vars, rowVars, progress, mainVars, subVars
  <2> QED BY <2>1 DEF IInv, Types, SubInv, LineInv, CountInv, PermitInv, LimitInv, CancelInv, CountersInv,
             Counted, Asking, ActiveSubs, Live, Full
<1> QED BY <1>1, <1>2, <1>3, <1>4 DEF Next

LEMMA SpecInv == Spec => []IInv
BY InitInv, NextInv, PTL DEF Spec

-----------------------------------------------------------------------------
(* The results.                                                            *)

(* Every variable keeps its type: the semaphore is never released more often than it was taken, and
   no more resolutions are counted than there are PURLs. *)
THEOREM ProgressTypes == Spec => []TypeOK
<1>1. IInv => TypeOK
  <2> SUFFICES ASSUME IInv PROVE TypeOK
    OBVIOUS
  <2>1. Types /\ CountInv /\ LimitInv
    BY DEF IInv
  <2>2. completed \in 0..Cardinality(todo) /\ permits \in 0..Limit
    BY <2>1, Finite, JobProgressAssumption DEF Types, CountInv, LimitInv
  <2> QED BY <2>1, <2>2 DEF Types, TypeOK, Phases, SubAwaits
<1> QED BY <1>1, SpecInv, PTL

(* The bar of a job never exceeds its end, whichever events the throttle drops and whichever
   statements fail (_JobProgressReporter, update_progress). *)
THEOREM BarWithinEnd == Spec => []CurrentWithinTotal
<1>1. IInv => CurrentWithinTotal
  BY DEF IInv, CountersInv, CurrentWithinTotal
<1> QED BY <1>1, SpecInv, PTL

(* A completed job shows a full bar, whatever the order in which its resolutions ended, if no
   statement failed and nobody asked to cancel it. *)
THEOREM CompletedShowsAll == Spec => []CompletedIsFull
<1>1. IInv => CompletedIsFull
  BY DEF IInv, CountersInv, CompletedIsFull, Full
<1> QED BY <1>1, SpecInv, PTL

(* Once the task of a job is cancelled, all its resolutions are being cancelled, unless one of them
   raised (service.py, _resolve_concurrent). *)
THEOREM CancelReachesAll == Spec => []NothingAfterCancel
<1>1. IInv => NothingAfterCancel
  BY DEF IInv, CancelInv, NothingAfterCancel
<1> QED BY <1>1, SpecInv, PTL

(* The row is written through update_progress only, whose condition also stops a late report. *)
LEMMA GuardedWrite ==
  ASSUME NEW ph, NEW c, NEW t, Write(ph, c, t)
  PROVE  /\ status # "running" => UNCHANGED progress
         /\ faults' = 0 /\ DbFaults \in Nat /\ faults \in 0..DbFaults => UNCHANGED progress \/ Live
BY DEF Write, UpdateProgress, Fault, Live

(* What a poll shows of a job that is not running is final, although resolutions of a failed job go
   on and report (job_repository.py, update_progress). *)
THEOREM ShownStays == Spec => ShownIsFinal
<1>1. ASSUME [Next]_vars, status # "running" PROVE UNCHANGED progress
  <2>1. CASE MainStep
    BY <1>1, <2>1, GuardedWrite DEF MainStep, Parse, BeginValidation, CountUrl, ValidateUrl, BeginResolution,
       Announce, Gathered, StoreReferences, Enrich, CheckRow, Complete, Fail, Interrupted, OnPhase, OnProgress
  <2>2. ASSUME NEW p \in Purl, SubStep(p) PROVE UNCHANGED progress
    BY <1>1, <2>2, GuardedWrite DEF SubStep, Permit, Resolved, Turn, Written, Raised, Cancelled, OnProgress
  <2>3. CASE CancelGet \/ CancelSet \/ CancelTask \/ UNCHANGED vars
    BY <2>3 DEF CancelGet, CancelSet, CancelTask, vars
  <2> QED BY <1>1, <2>1, <2>2, <2>3 DEF Next
<1>2. [Next]_vars => [status # "running" => UNCHANGED progress]_vars
  BY <1>1
<1> QED BY <1>2, PTL DEF Spec, ShownIsFinal

(* Within a phase the counter a poll reads never goes back, since each report is made by the one
   resolution that has the lock (service.py, _resolve_one), if no statement failed. *)
THEOREM CounterGrows == Spec => CounterNeverBack
<1>1. ASSUME IInv, [Next]_vars, at # "announce", faults' = 0 PROVE current' >= current
  <2>1. Types /\ CountInv /\ CountersInv /\ DbFaults \in Nat
    BY <1>1, JobProgressAssumption DEF IInv
  <2>2. current \in Nat /\ faults \in 0..DbFaults /\ current <= total /\ (UNCHANGED progress => current' >= current)
    BY <2>1 DEF Types, CountersInv, progress
  <2>3. ASSUME NEW ph \in Phases, OnPhase(ph) PROVE current' >= current
    BY <2>1, <2>2, <2>3, PhaseStep
  <2>4. CASE CountUrl
    <3>1. checked \in Nat /\ urls \in Nat /\ checked <= urls /\ phase \in Phases
      BY <2>1 DEF Types
    <3>2. OnProgress(checked, urls) /\ (Live => current <= checked)
      BY <2>1, <2>4 DEF CountUrl, Main, CountersInv
    <3>3. CASE Live
      BY <1>1, <2>1, <2>2, <3>1, <3>2, <3>3, ProgressStep
    <3>4. CASE UNCHANGED progress
      BY <2>2, <3>4
    <3> QED BY <1>1, <2>1, <2>2, <3>2, <3>3, <3>4, GuardedWrite DEF OnProgress
  <2>5. ASSUME NEW p \in Purl, Written(p) PROVE current' >= current
    <3>1. /\ completed \in Nat /\ Cardinality(todo) \in Nat /\ completed <= Cardinality(todo)
          /\ sub[p] = "write" /\ count[p] = completed /\ OnProgress(completed, Cardinality(todo))
      BY <2>1, <2>5, Finite DEF Types, CountInv, Written, Sub
    <3>2. Live => current <= completed
      BY <2>1, <3>1 DEF CountersInv
    <3>3. CASE Live
      BY <1>1, <2>1, <2>2, <3>1, <3>2, <3>3, ProgressStep
    <3>4. CASE UNCHANGED progress
      BY <2>2, <3>4
    <3> QED BY <1>1, <2>1, <2>2, <3>1, <3>3, <3>4, GuardedWrite DEF OnProgress
  <2>6. CASE MainStep
    <3>1. CASE Parse \/ BeginValidation \/ BeginResolution \/ Enrich
      BY <2>3, <3>1 DEF Parse, BeginValidation, BeginResolution, Enrich, Phases
    <3>2. CASE ValidateUrl \/ Gathered \/ StoreReferences \/ CheckRow \/ Complete \/ Fail \/ Interrupted
      BY <2>2, <3>2 DEF ValidateUrl, Gathered, StoreReferences, CheckRow, Complete, Fail, Interrupted
    <3>3. ~Announce
      BY <1>1 DEF Announce, Main
    <3> QED BY <2>4, <2>6, <3>1, <3>2, <3>3 DEF MainStep
  <2>7. ASSUME NEW p \in Purl, SubStep(p) PROVE current' >= current
    <3>1. CASE Written(p)
      BY <2>5, <3>1
    <3>2. CASE Permit(p) \/ Resolved(p) \/ Turn(p) \/ Raised(p) \/ Cancelled(p)
      BY <2>2, <3>2 DEF Permit, Resolved, Turn, Raised, Cancelled
    <3> QED BY <2>7, <3>1, <3>2 DEF SubStep
  <2>8. CASE CancelGet \/ CancelSet \/ CancelTask \/ UNCHANGED vars
    BY <2>2, <2>8 DEF CancelGet, CancelSet, CancelTask, vars
  <2> QED BY <1>1, <2>6, <2>7, <2>8 DEF Next
<1>2. IInv /\ [Next]_vars =>
        [phase' = phase /\ at # "announce" /\ faults' = 0 => current' >= current]_vars
  BY <1>1
<1> QED BY <1>2, SpecInv, PTL DEF Spec, CounterNeverBack
=============================================================================
