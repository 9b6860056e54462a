-------------------------- MODULE UrlValidatorProofs --------------------------
(***************************************************************************)
(* Proofs about UrlValidator: its types, that clients are waited for, what *)
(* a termination leaves running, and that a verdict is the fold of the     *)
(* answers, for any number of validations, clients and cancellations.      *)
(***************************************************************************)
EXTENDS UrlValidator, TLAPS

-----------------------------------------------------------------------------
(* The inductive invariant.                                                *)

WithClient == {"start", "spawned", "spawnKill", "communicate", "kill", "wait", "reap"}
Registered == {"communicate", "kill", "wait", "reap"}
Causes == {"none", "ok", "no", "failed", "killed", "stolen", "timeout", "unstarted"}
Verdicts == {"none", "valid", "invalid", "network_error", "cancelled"}
Codes == {"ok", "no", "failed", "killed", "stolen"}
SaidNo == {"no", "failed", "stolen"}
Inconclusive == {"timeout", "killed", "unstarted", "failed", "stolen"}

Forms ==
  /\ pc = [v \in Validation |-> pc[v]] /\ probe = [v \in Validation |-> probe[v]]
  /\ sawFalse = [v \in Validation |-> sawFalse[v]] /\ verdict = [v \in Validation |-> verdict[v]]
  /\ causes = [v \in Validation |-> causes[v]] /\ cancels = [v \in Validation |-> cancels[v]]
  /\ cancelled = [v \in Validation |-> cancelled[v]] /\ main = [v \in Validation |-> main[v]]
  /\ code = [v \in Validation |-> code[v]] /\ known = [v \in Validation |-> known[v]]
  /\ helper = [v \in Validation |-> helper[v]] /\ grouped = [v \in Validation |-> grouped[v]]
  /\ descendants = [v \in Validation |-> descendants[v]] /\ tries = [v \in Validation |-> tries[v]]

Types(v) ==
  /\ pc[v] \in WithClient \cup {"head", "fossil", "over"}
  /\ probe[v] \in 0..Fossil /\ sawFalse[v] \in BOOLEAN /\ verdict[v] \in Verdicts
  /\ causes[v] \in [1..Fossil -> Causes]
  /\ cancels[v] \in 0..MaxCancels /\ cancelled[v] \in BOOLEAN
  /\ main[v] \in Process /\ code[v] \in Codes /\ known[v] \in BOOLEAN
  /\ helper[v] \in [Probes -> Process] /\ grouped[v] \in [Probes -> BOOLEAN]
  /\ descendants[v] \in SUBSET Probes /\ tries[v] \in 0..ReapAttempts

\* Which probe a validation is at, and which have answered.
PlaceInv(v) ==
  /\ pc[v] = "head" => probe[v] = 0
  /\ pc[v] = "fossil" => probe[v] = Fossil
  /\ pc[v] \in WithClient => probe[v] \in Probes
  /\ pc[v] # "over" => verdict[v] = "none"
  /\ pc[v] # "over" => \A k \in 1..Fossil : IF k < probe[v] THEN causes[v][k] \notin {"none", "ok"}
                                                            ELSE causes[v][k] = "none"

\* What has become of the client at each await.
MainInv(v) ==
  /\ known[v] => main[v] = "gone"
  /\ pc[v] = "head" => main[v] = "none"
  /\ pc[v] \in {"start", "fossil"} => main[v] \in {"none", "gone"}
  /\ pc[v] = "wait" => main[v] \in {"zombie", "gone"}
  /\ pc[v] = "reap" => main[v] = "gone"
  /\ pc[v] \in {"spawned", "communicate", "kill"} =>
       main[v] # "none" /\ (main[v] # "running" => code[v] # "killed")
  /\ pc[v] = "spawnKill" => cancels[v] >= 1
  /\ pc[v] = "over" /\ main[v] \in {"running", "zombie"} =>
       cancels[v] >= 2 /\ probe[v] \in Probes /\ causes[v][probe[v]] = "none"

\* What the answers so far amount to.
AnswerInv(v) ==
  pc[v] # "over" =>
    /\ sawFalse[v] => \E k \in 1..Fossil : k < probe[v] /\ causes[v][k] \in SaidNo
    /\ ~sawFalse[v] => \A k \in 1..Fossil : k < probe[v] => causes[v][k] \in Inconclusive
VerdictInv(v) ==
  /\ verdict[v] = "valid" => \E k \in 1..Fossil : causes[v][k] = "ok"
  /\ verdict[v] = "invalid" /\ probe[v] > 0 =>
       /\ \A k \in 1..Fossil : causes[v][k] \notin {"ok", "none"}
       /\ \E k \in 1..Fossil : causes[v][k] \in SaidNo
  /\ verdict[v] = "network_error" => \A k \in 1..Fossil : causes[v][k] \in Inconclusive

\* What a termination has done to the helper of its client.
LeftBehind(v, k, cause) ==
  cause \in {"killed", "timeout"} /\ helper[v][k] = "running" =>
    k \notin descendants[v] /\ (grouped[v][k] => cause # "killed")
HelperInv(v) ==
  /\ \A k \in Probes : LeftBehind(v, k, causes[v][k])
  /\ pc[v] = "reap" /\ tries[v] < ReapAttempts /\ probe[v] \in descendants[v] =>
       helper[v][probe[v]] # "running"
  /\ pc[v] \in {"wait", "reap"} /\ code[v] = "killed" /\ grouped[v][probe[v]] =>
       helper[v][probe[v]] # "running"

Inv(v) == Types(v) /\ PlaceInv(v) /\ MainInv(v) /\ AnswerInv(v) /\ VerdictInv(v) /\ HelperInv(v)

TrackedInv == tracked = {v \in Validation : pc[v] \in Registered}

IInv == Forms /\ TrackedInv /\ \A v \in Validation : Inv(v)

-----------------------------------------------------------------------------
LEMMA ToolFacts ==
  /\ Fossil \in Nat \ {0} /\ Probes = 1..(Fossil - 1) /\ Probes \subseteq 1..Fossil
  /\ \A k \in Probes : Tools[k] \in {"git", "svn", "hg"}
BY ValidatorAssumption DEF Fossil, Probes

(* What the steps of a validation and of its processes leave as it is: everything of the others. *)
Others(v) ==
  \A w \in Validation \ {v} :
    /\ pc'[w] = pc[w] /\ probe'[w] = probe[w] /\ sawFalse'[w] = sawFalse[w]
    /\ verdict'[w] = verdict[w] /\ causes'[w] = causes[w] /\ cancels'[w] = cancels[w]
    /\ cancelled'[w] = cancelled[w] /\ main'[w] = main[w] /\ code'[w] = code[w]
    /\ known'[w] = known[w] /\ helper'[w] = helper[w] /\ grouped'[w] = grouped[w]
    /\ descendants'[w] = descendants[w] /\ tries'[w] = tries[w]

LEMMA OneStep ==
  ASSUME IInv, NEW v \in Validation, Others(v), Forms', Inv(v)',
         tracked' = IF pc'[v] \in Registered THEN tracked \cup {v} ELSE tracked \ {v}
  PROVE  IInv'
<1>1. ASSUME NEW w \in Validation \ {v} PROVE Inv(w)'
  <2>1. Inv(w)
    BY DEF IInv
  <2> QED
    BY <2>1 DEF Others, Inv, Types, PlaceInv, MainInv, AnswerInv, VerdictInv, HelperInv, LeftBehind
<1>2. TrackedInv'
  BY DEF IInv, TrackedInv, Others
<1> QED BY <1>1, <1>2 DEF IInv

(* A step that only concerns the processes. *)
LEMMA ProcessStep ==
  ASSUME IInv, NEW v \in Validation, Others(v), Forms', Inv(v)', UNCHANGED <<tracked, pc>>
  PROVE  IInv'
<1>1. tracked' = IF pc'[v] \in Registered THEN tracked \cup {v} ELSE tracked \ {v}
  BY DEF IInv, TrackedInv
<1> QED BY <1>1, OneStep

LEMMA InitInv == Init => IInv
<1> SUFFICES ASSUME Init PROVE IInv
  OBVIOUS
<1>1. Forms
  BY DEF Init, Forms
<1>2. TrackedInv
  BY DEF Init, TrackedInv, Registered
<1>3. ASSUME NEW v \in Validation PROVE Inv(v)
  <2>1. /\ pc[v] = "head" /\ probe[v] = 0 /\ sawFalse[v] = FALSE /\ verdict[v] = "none"
        /\ causes[v] = [k \in 1..Fossil |-> "none"] /\ cancels[v] = 0 /\ cancelled[v] = FALSE
        /\ main[v] = "none" /\ code[v] = "ok" /\ known[v] = FALSE
        /\ helper[v] = [k \in Probes |-> "none"] /\ grouped[v] = [k \in Probes |-> TRUE]
        /\ descendants[v] = {} /\ tries[v] = 0
    BY DEF Init
  <2>2. Types(v)
    <3>1. causes[v] \in [1..Fossil -> Causes] /\ helper[v] \in [Probes -> Process]
          /\ grouped[v] \in [Probes -> BOOLEAN]
      BY <2>1 DEF Causes, Process
    <3>2. pc[v] \in WithClient \cup {"head", "fossil", "over"} /\ verdict[v] \in Verdicts
          /\ main[v] \in Process /\ code[v] \in Codes
      BY <2>1 DEF Verdicts, Process, Codes
    <3>3. probe[v] \in 0..Fossil /\ cancels[v] \in 0..MaxCancels /\ tries[v] \in 0..ReapAttempts
      BY <2>1, ToolFacts, ValidatorAssumption
    <3> QED BY <2>1, <3>1, <3>2, <3>3 DEF Types
  <2>3. PlaceInv(v) /\ MainInv(v)
    BY <2>1, ToolFacts DEF PlaceInv, MainInv, WithClient
  <2>4. AnswerInv(v) /\ VerdictInv(v)
    BY <2>1, ToolFacts DEF AnswerInv, VerdictInv
  <2>5. HelperInv(v)
    BY <2>1, ToolFacts DEF HelperInv, LeftBehind
  <2> QED BY <2>2, <2>3, <2>4, <2>5 DEF Inv
<1> QED BY <1>1, <1>2, <1>3 DEF IInv

-----------------------------------------------------------------------------
(* The processes.                                                          *)

LEMMA MainExitsInv ==
  ASSUME IInv, NEW v \in Validation, MainExits(v)
  PROVE  IInv'
<1>1. Forms /\ Inv(v)
  BY DEF IInv
<1>2. PICK c \in {"ok", "no", "failed"} :
        /\ main[v] = "running" /\ main' = [main EXCEPT ![v] = "zombie"] /\ code' = [code EXCEPT ![v] = c]
        /\ UNCHANGED <<taskVars, known, helper, grouped>>
  BY DEF MainExits
<1>3. Forms' /\ Others(v) /\ UNCHANGED <<tracked, pc>> /\ main'[v] = "zombie" /\ code'[v] = c
  BY <1>1, <1>2 DEF Forms, Others, taskVars
<1>4. Inv(v)'
  BY <1>1, <1>2, <1>3 DEF Inv, Types, PlaceInv, MainInv, AnswerInv, VerdictInv, HelperInv, LeftBehind,
                          taskVars, Codes, Process
<1> QED BY <1>3, <1>4, ProcessStep

LEMMA WatcherInv ==
  ASSUME IInv, NEW v \in Validation, WatcherReaps(v) \/ WatcherNotices(v)
  PROVE  IInv'
<1>1. Forms /\ Inv(v)
  BY DEF IInv
<1>2. /\ UNCHANGED <<taskVars, code, helper, grouped>>
      /\ \/ main[v] = "zombie" /\ main' = [main EXCEPT ![v] = "gone"] /\ UNCHANGED known
         \/ main[v] = "gone" /\ known' = [known EXCEPT ![v] = TRUE] /\ UNCHANGED main
  BY DEF WatcherReaps, WatcherNotices
<1>3. /\ Forms' /\ Others(v) /\ UNCHANGED <<tracked, pc>>
      /\ main[v] \in {"zombie", "gone"} /\ main'[v] = "gone" /\ known'[v] \in BOOLEAN
  BY <1>1, <1>2 DEF Forms, Others, taskVars, Inv, Types
<1>4. Inv(v)'
  BY <1>1, <1>2, <1>3 DEF Inv, Types, PlaceInv, MainInv, AnswerInv, VerdictInv, HelperInv, LeftBehind,
                          taskVars, Process
<1> QED BY <1>3, <1>4, ProcessStep

(* A helper starts only beside a running client, so never behind one whose end has been waited for. *)
LEMMA HelperInvs ==
  ASSUME IInv, NEW v \in Validation, NEW k \in Probes,
         HelperStarts(v, k) \/ HelperExits(v, k) \/ MainReapsHelper(v, k)
  PROVE  IInv'
<1>1. Forms /\ Inv(v)
  BY DEF IInv
<1>2. /\ UNCHANGED <<taskVars, main, code, known>>
      /\ helper' = [helper EXCEPT ![v] = helper'[v]] /\ grouped' = [grouped EXCEPT ![v] = grouped'[v]]
      /\ \A j \in Probes \ {k} : helper'[v][j] = helper[v][j] /\ grouped'[v][j] = grouped[v][j]
      /\ \/ k = probe[v] /\ main[v] = "running"
         \/ helper'[v][k] # "running" /\ grouped'[v][k] = grouped[v][k]
      /\ helper'[v] \in [Probes -> Process] /\ grouped'[v] \in [Probes -> BOOLEAN]
  BY <1>1 DEF HelperStarts, HelperExits, MainReapsHelper, Forms, Inv, Types, Process
<1>3. Forms' /\ Others(v) /\ UNCHANGED <<tracked, pc>>
  BY <1>1, <1>2 DEF Forms, Others, taskVars
<1>4. Types(v)' /\ PlaceInv(v)' /\ MainInv(v)' /\ AnswerInv(v)' /\ VerdictInv(v)'
  BY <1>1, <1>2 DEF Inv, Types, PlaceInv, MainInv, AnswerInv, VerdictInv, taskVars
<1>5. k = probe[v] /\ main[v] = "running" => causes[v][k] = "none" /\ pc[v] \notin {"wait", "reap"}
  BY <1>1, ToolFacts DEF Inv, Types, PlaceInv, MainInv, WithClient
<1>6. ASSUME NEW j \in Probes PROVE LeftBehind(v, j, causes[v][j])'
  <2>1. LeftBehind(v, j, causes[v][j])
    BY <1>1 DEF Inv, HelperInv
  <2> QED BY <1>2, <1>5, <2>1 DEF LeftBehind, taskVars
<1>7. ASSUME pc[v] \in {"wait", "reap"} PROVE probe[v] \in Probes /\ (helper'[v][probe[v]] = "running"
               => helper[v][probe[v]] = "running" /\ grouped'[v][probe[v]] = grouped[v][probe[v]])
  BY <1>1, <1>2, <1>5, <1>7 DEF Inv, PlaceInv, WithClient
<1>8. HelperInv(v)'
  BY <1>1, <1>2, <1>6, <1>7 DEF Inv, HelperInv, taskVars
<1> QED BY <1>3, <1>4, <1>8, ProcessStep DEF Inv

LEMMA ReapOrphansInv ==
  ASSUME IInv, ReapOrphans
  PROVE  IInv'
<1>1. Forms
  BY DEF IInv
<1>2. /\ main' = [v \in Validation |-> IF v \in Stolen THEN "gone" ELSE main[v]]
      /\ code' = [v \in Validation |-> IF v \in Stolen THEN "stolen" ELSE code[v]]
      /\ helper' = [v \in Validation |-> [k \in Probes |-> IF Orphan(v, k) THEN "gone" ELSE helper[v][k]]]
      /\ UNCHANGED <<taskVars, known, grouped>>
  BY DEF ReapOrphans
<1>3. Forms' /\ TrackedInv'
  BY <1>1, <1>2 DEF Forms, IInv, TrackedInv, taskVars
<1>4. ASSUME NEW v \in Validation PROVE Inv(v)'
  <2>1. Inv(v)
    BY DEF IInv
  <2>2. \/ main'[v] = main[v] /\ code'[v] = code[v]
        \/ main[v] = "zombie" /\ main'[v] = "gone" /\ code'[v] = "stolen"
    BY <1>2 DEF Stolen
  <2>3. /\ helper'[v] \in [Probes -> Process]
        /\ \A k \in Probes : helper'[v][k] = "running" => helper[v][k] = "running"
    BY <1>2, <2>1 DEF Inv, Types, Process
  <2>7. Types(v)'
    BY <1>2, <2>1, <2>2, <2>3 DEF Inv, Types, taskVars, Process, Codes
  <2>8. PlaceInv(v)' /\ AnswerInv(v)' /\ VerdictInv(v)'
    BY <1>2, <2>1 DEF Inv, PlaceInv, AnswerInv, VerdictInv, taskVars
  <2>9. known'[v] = known[v] /\ UNCHANGED <<pc, probe, causes, cancels>>
    BY <1>2 DEF taskVars
  <2>4. MainInv(v)'
    BY <2>1, <2>2, <2>9 DEF Inv, MainInv
  <2>5. pc[v] \in {"wait", "reap"} => probe[v] \in Probes
    BY <2>1 DEF Inv, PlaceInv, WithClient
  <2>6. HelperInv(v)'
    BY <1>2, <2>1, <2>2, <2>3, <2>5 DEF Inv, HelperInv, LeftBehind, taskVars
  <2> QED BY <2>4, <2>6, <2>7, <2>8 DEF Inv
<1> QED BY <1>3, <1>4 DEF IInv

-----------------------------------------------------------------------------
(* Answers and ends.                                                       *)

(* An answer that fits what became of the probe, of a client that has been waited for. *)
LEMMA AnswerStep ==
  ASSUME IInv, NEW v \in Validation, NEW answer \in {"True", "False", "None"},
         NEW cause \in Causes \ {"none"}, Answer(v, answer, cause),
         UNCHANGED <<cancels, cancelled, descendants, tries, procVars>>,
         pc[v] \in {"start", "communicate", "reap", "fossil"}, main[v] \in {"none", "gone"},
         answer = "True" <=> cause = "ok", answer = "False" => cause \in SaidNo,
         answer = "None" => cause \in Inconclusive,
         probe[v] \in Probes => LeftBehind(v, probe[v], cause)
  PROVE  IInv'
<1> DEFINE result == AfterAnswer(v, answer)
           p == probe[v]
<1>1. Forms /\ Types(v) /\ PlaceInv(v) /\ MainInv(v) /\ AnswerInv(v) /\ HelperInv(v)
  BY DEF IInv, Inv
<1>2. p \in 1..Fossil /\ p \in Nat /\ (pc[v] = "fossil" <=> p = Fossil)
  BY <1>1, ToolFacts DEF PlaceInv, WithClient
<1>3. \/ answer = "True" /\ result = "valid"
      \/ answer # "True" /\ p < Fossil /\ result = "none"
      \/ answer # "True" /\ p = Fossil /\ (sawFalse[v] \/ answer = "False") /\ result = "invalid"
      \/ answer # "True" /\ p = Fossil /\ ~sawFalse[v] /\ answer = "None" /\ result = "network_error"
  BY <1>2, ToolFacts DEF AfterAnswer
<1> HIDE DEF result
<1>4. /\ sawFalse' = [sawFalse EXCEPT ![v] = @ \/ answer = "False"]
      /\ causes' = [causes EXCEPT ![v][p] = cause]
      /\ verdict' = [verdict EXCEPT ![v] = result]
      /\ probe' = [probe EXCEPT ![v] = IF result = "none" THEN @ + 1 ELSE @]
      /\ pc' = [pc EXCEPT ![v] = IF result # "none" THEN "over"
                                 ELSE IF probe'[v] = Fossil THEN "fossil" ELSE "start"]
      /\ tracked' = tracked \ {v}
  BY DEF Answer, result
<1>5. Forms' /\ Others(v)
  BY <1>1, <1>4 DEF Forms, Others, procVars
<1>6. /\ sawFalse'[v] = (sawFalse[v] \/ answer = "False") /\ verdict'[v] = result
      /\ probe'[v] = IF result = "none" THEN p + 1 ELSE p
      /\ pc'[v] = IF result # "none" THEN "over" ELSE IF probe'[v] = Fossil THEN "fossil" ELSE "start"
  BY <1>1, <1>4 DEF Forms
<1>7. /\ causes'[v] \in [1..Fossil -> Causes] /\ causes'[v][p] = cause
      /\ \A k \in 1..Fossil \ {p} : causes'[v][k] = causes[v][k]
  BY <1>1, <1>2, <1>4 DEF Forms, Types
<1>8. \A k \in 1..Fossil : IF k < p THEN causes[v][k] \notin {"none", "ok"} ELSE causes[v][k] = "none"
  BY <1>1 DEF PlaceInv
<1>9. probe'[v] \in 0..Fossil /\ (probe'[v] # Fossil /\ result = "none" => probe'[v] \in Probes)
  BY <1>2, <1>3, <1>6, ToolFacts
<1>10. Types(v)'
  <2>1. pc'[v] \in WithClient \cup {"head", "fossil", "over"} /\ verdict'[v] \in Verdicts
    BY <1>3, <1>6 DEF WithClient, Verdicts
  <2>2. sawFalse'[v] \in BOOLEAN
    BY <1>1, <1>6 DEF Types
  <2> QED BY <1>1, <1>7, <1>9, <2>1, <2>2 DEF Types, procVars
<1>11. PlaceInv(v)'
  <2>1. ASSUME pc'[v] # "over", NEW k \in 1..Fossil
        PROVE  IF k < probe'[v] THEN causes'[v][k] \notin {"none", "ok"} ELSE causes'[v][k] = "none"
    BY <1>2, <1>3, <1>6, <1>7, <1>8, <2>1
  <2>2. pc'[v] # "over" => verdict'[v] = "none"
    BY <1>6
  <2>3. /\ pc'[v] # "head" /\ (pc'[v] = "fossil" => probe'[v] = Fossil)
        /\ (pc'[v] \in WithClient => probe'[v] \in Probes)
    BY <1>6, <1>9 DEF WithClient
  <2> QED BY <2>1, <2>2, <2>3 DEF PlaceInv
<1>12. MainInv(v)'
  BY <1>1, <1>6 DEF MainInv, procVars
<1>13. AnswerInv(v)' /\ VerdictInv(v)'
  <2>1. ASSUME sawFalse[v] PROVE \E k \in 1..Fossil : k < p /\ causes'[v][k] \in SaidNo
    BY <1>1, <1>2, <1>7, <2>1 DEF AnswerInv
  <2>2. ASSUME ~sawFalse[v] PROVE \A k \in 1..Fossil : k < p => causes'[v][k] \in Inconclusive
    BY <1>1, <1>2, <1>7, <2>2 DEF AnswerInv
  <2>3. \A k \in 1..Fossil : k < p => causes'[v][k] \notin {"none", "ok"}
    BY <1>2, <1>7, <1>8
  <2>4. CASE answer = "True"
    BY <1>2, <1>3, <1>6, <1>7, <2>4 DEF AnswerInv, VerdictInv
  <2>5. CASE answer # "True" /\ p < Fossil
    <3>1. \A k \in 1..Fossil : k < probe'[v] <=> k < p \/ k = p
      BY <1>2, <1>3, <1>6, <2>5
    <3>2. result = "none"
      BY <1>2, <1>3, <2>5
    <3> QED BY <1>2, <1>6, <1>7, <2>1, <2>2, <2>5, <3>1, <3>2 DEF AnswerInv, VerdictInv
  <2>6. CASE answer # "True" /\ p = Fossil
    <3>1. \A k \in 1..Fossil : k < p \/ k = p
      BY <1>2, <2>6
    <3>2. CASE result = "invalid"
      <4>1. \A k \in 1..Fossil : causes'[v][k] \notin {"none", "ok"}
        BY <1>7, <2>3, <2>6, <3>1
      <4>2. \E k \in 1..Fossil : causes'[v][k] \in SaidNo
        BY <1>2, <1>3, <1>7, <2>1, <2>6, <3>2
      <4> QED BY <1>6, <3>2, <4>1, <4>2 DEF AnswerInv, VerdictInv
    <3>3. CASE result = "network_error"
      <4>1. \A k \in 1..Fossil : causes'[v][k] \in Inconclusive
        BY <1>2, <1>3, <1>7, <2>2, <2>6, <3>1, <3>3
      <4> QED BY <1>6, <3>3, <4>1 DEF AnswerInv, VerdictInv
    <3> QED BY <1>2, <1>3, <2>6, <3>2, <3>3
  <2> QED BY <1>2, <2>4, <2>5, <2>6, ToolFacts
<1>14. HelperInv(v)'
  <2>1. \A k \in Probes : LeftBehind(v, k, causes[v][k]) /\ k \in 1..Fossil
    BY <1>1, ToolFacts DEF HelperInv
  <2>2. \A k \in Probes : LeftBehind(v, k, causes'[v][k])
    BY <1>7, <2>1
  <2>3. \A k \in Probes : LeftBehind(v, k, causes[v][k])'
    BY <2>2 DEF LeftBehind, procVars
  <2> QED BY <1>6, <2>3 DEF HelperInv
<1>15. tracked' = IF pc'[v] \in Registered THEN tracked \cup {v} ELSE tracked \ {v}
  BY <1>4, <1>6 DEF Registered
<1> QED BY <1>5, <1>10, <1>11, <1>12, <1>13, <1>14, <1>15, OneStep DEF Inv

(* The end of a validation that was cancelled. *)
LEMMA LeaveStep ==
  ASSUME IInv, NEW v \in Validation, Leave(v), pc[v] # "over",
         UNCHANGED <<probe, sawFalse, cancelled, descendants, tries, procVars>>,
         cancels' = [cancels EXCEPT ![v] = cancels'[v]], cancels'[v] \in 0..MaxCancels,
         causes' = [causes EXCEPT ![v] = causes'[v]], causes'[v] \in [1..Fossil -> Causes],
         \A k \in Probes : LeftBehind(v, k, causes'[v][k]),
         main[v] \in {"running", "zombie"} =>
           cancels'[v] >= 2 /\ probe[v] \in Probes /\ causes'[v][probe[v]] = "none"
  PROVE  IInv'
<1>1. Forms /\ Types(v) /\ PlaceInv(v) /\ MainInv(v) /\ HelperInv(v)
  BY DEF IInv, Inv
<1>2. /\ pc' = [pc EXCEPT ![v] = "over"] /\ verdict' = [verdict EXCEPT ![v] = "cancelled"]
      /\ tracked' = tracked \ {v}
  BY DEF Leave
<1>3. Forms' /\ Others(v) /\ pc'[v] = "over" /\ verdict'[v] = "cancelled"
  BY <1>1, <1>2 DEF Forms, Others, procVars
<1>4. Types(v)'
  BY <1>1, <1>3 DEF Types, Verdicts, procVars
<1>5. PlaceInv(v)' /\ MainInv(v)'
  BY <1>1, <1>3 DEF PlaceInv, MainInv, WithClient, procVars
<1>6. AnswerInv(v)' /\ VerdictInv(v)'
  BY <1>3 DEF AnswerInv, VerdictInv
<1>7. HelperInv(v)'
  BY <1>3 DEF HelperInv, LeftBehind, procVars
<1>8. tracked' = IF pc'[v] \in Registered THEN tracked \cup {v} ELSE tracked \ {v}
  BY <1>2, <1>3 DEF Registered
<1> QED BY <1>3, <1>4, <1>5, <1>6, <1>7, <1>8, OneStep DEF Inv

(* The same while its client has not been waited for in vain: no answer is recorded. *)
LEMMA LeaveSilently ==
  ASSUME IInv, NEW v \in Validation, Leave(v), pc[v] \in {"head", "fossil", "spawnKill"},
         UNCHANGED <<probe, sawFalse, cancelled, descendants, tries, procVars, causes>>,
         \/ cancels[v] < MaxCancels /\ cancels' = [cancels EXCEPT ![v] = @ + 1]
         \/ UNCHANGED cancels /\ known[v]
  PROVE  IInv'
<1>1. Forms /\ Types(v) /\ PlaceInv(v) /\ MainInv(v) /\ HelperInv(v)
  BY DEF IInv, Inv
<1>2. /\ cancels' = [cancels EXCEPT ![v] = cancels'[v]] /\ cancels'[v] \in 0..MaxCancels
      /\ cancels'[v] = cancels[v] + 1 \/ known[v]
  BY <1>1, ValidatorAssumption DEF Forms, Types
<1>3. causes' = [causes EXCEPT ![v] = causes'[v]] /\ causes'[v] \in [1..Fossil -> Causes]
  BY <1>1 DEF Forms, Types
<1>4. \A k \in Probes : LeftBehind(v, k, causes'[v][k])
  BY <1>1 DEF HelperInv
<1>5. ASSUME main[v] \in {"running", "zombie"}
      PROVE  cancels'[v] >= 2 /\ probe[v] \in Probes /\ causes'[v][probe[v]] = "none"
  <2>1. pc[v] = "spawnKill" /\ ~known[v] /\ cancels[v] >= 1 /\ cancels[v] \in Nat
    BY <1>1, <1>5, ValidatorAssumption DEF MainInv, Types
  <2>2. probe[v] \in Probes /\ causes[v][probe[v]] = "none"
    BY <1>1, <2>1, ToolFacts DEF PlaceInv, WithClient
  <2> QED BY <1>2, <2>1, <2>2
<1> QED BY <1>2, <1>3, <1>4, <1>5, LeaveStep

-----------------------------------------------------------------------------
(* The steps of a validation.                                              *)

LEMMA HeadDoneInv ==
  ASSUME IInv, NEW v \in Validation, HeadDone(v)
  PROVE  IInv'
<1>1. Forms /\ Inv(v) /\ pc[v] = "head"
  BY DEF IInv, HeadDone
<1>2. /\ UNCHANGED <<sawFalse, causes, cancels, cancelled, descendants, tries, tracked, procVars>>
      /\ pc' = [pc EXCEPT ![v] = pc'[v]] /\ probe' = [probe EXCEPT ![v] = probe'[v]]
      /\ verdict' = [verdict EXCEPT ![v] = verdict'[v]]
      /\ \/ pc'[v] = "over" /\ verdict'[v] = "invalid" /\ probe'[v] = probe[v]
         \/ /\ probe'[v] = 1 /\ verdict'[v] = verdict[v]
            /\ pc'[v] = IF Fossil = 1 THEN "fossil" ELSE "start"
  BY <1>1 DEF HeadDone, Forms
<1>3. Forms' /\ Others(v)
  BY <1>1, <1>2 DEF Forms, Others, procVars
<1>4. probe[v] = 0 /\ main[v] = "none" /\ verdict[v] = "none"
      /\ \A k \in 1..Fossil : ~(k < 1) /\ ~(k < probe[v]) /\ causes[v][k] = "none"
  BY <1>1 DEF Inv, PlaceInv, MainInv
<1>5. Types(v)'
  <2>1. pc'[v] \in WithClient \cup {"head", "fossil", "over"} /\ verdict'[v] \in Verdicts
    BY <1>2, <1>4 DEF WithClient, Verdicts
  <2>2. probe'[v] \in 0..Fossil
    BY <1>2, <1>4, ToolFacts
  <2> QED BY <1>1, <1>2, <2>1, <2>2 DEF Inv, Types, procVars
<1>6. PlaceInv(v)' /\ MainInv(v)'
  <2>1. causes' = causes /\ main' = main /\ known' = known
    BY <1>2 DEF procVars
  <2>2. MainInv(v)'
    BY <1>1, <1>2, <1>4, <2>1 DEF Inv, MainInv
  <2>3. pc'[v] # "over" => \A k \in 1..Fossil :
          IF k < probe'[v] THEN causes'[v][k] \notin {"none", "ok"} ELSE causes'[v][k] = "none"
    BY <1>2, <1>4, <2>1
  <2> QED BY <1>2, <1>4, <2>2, <2>3, ToolFacts DEF PlaceInv, WithClient
<1>7. AnswerInv(v)' /\ VerdictInv(v)'
  <2>1. sawFalse'[v] = FALSE
    BY <1>1, <1>2, <1>4 DEF Inv, AnswerInv, Types
  <2>2. pc'[v] # "over" => \A k \in 1..Fossil : ~(k < probe'[v])
    BY <1>2, <1>4
  <2>3. pc'[v] = "over" => probe'[v] = 0 /\ verdict'[v] = "invalid"
    BY <1>2, <1>4
  <2>4. pc'[v] # "over" => verdict'[v] = "none"
    BY <1>2, <1>4
  <2> QED BY <2>1, <2>2, <2>3, <2>4 DEF AnswerInv, VerdictInv
<1>8. HelperInv(v)'
  BY <1>1, <1>2 DEF Inv, HelperInv, LeftBehind, procVars
<1>9. tracked' = IF pc'[v] \in Registered THEN tracked \cup {v} ELSE tracked \ {v}
  BY <1>1, <1>2 DEF IInv, TrackedInv, Registered
<1> QED BY <1>3, <1>5, <1>6, <1>7, <1>8, <1>9, OneStep DEF Inv

(* A step within one probe: no answer yet, and the client still starts or runs or is waited for. *)
LEMMA ClientStep ==
  ASSUME IInv, NEW v \in Validation, pc[v] \in WithClient, pc'[v] \in WithClient, Forms', Others(v),
         UNCHANGED <<probe, sawFalse, verdict, causes, grouped>>,
         cancels'[v] \in 0..MaxCancels, cancelled'[v] \in BOOLEAN, main'[v] \in Process,
         code'[v] \in Codes, known'[v] \in BOOLEAN, helper'[v] \in [Probes -> Process],
         descendants'[v] \in SUBSET Probes, tries'[v] \in 0..ReapAttempts,
         \A k \in Probes \ {probe[v]} : descendants'[v] \cap {k} = descendants[v] \cap {k},
         \A k \in Probes : helper'[v][k] = "running" => helper[v][k] = "running",
         MainInv(v)',
         pc'[v] = "reap" /\ tries'[v] < ReapAttempts /\ probe[v] \in descendants'[v] =>
           helper'[v][probe[v]] # "running",
         pc'[v] \in {"wait", "reap"} /\ code'[v] = "killed" /\ grouped[v][probe[v]] =>
           helper'[v][probe[v]] # "running",
         tracked' = IF pc'[v] \in Registered THEN tracked \cup {v} ELSE tracked \ {v}
  PROVE  IInv'
<1>1. Inv(v)
  BY DEF IInv
<1>2. Types(v)'
  BY <1>1 DEF Inv, Types
<1>3. PlaceInv(v)' /\ AnswerInv(v)'
  BY <1>1 DEF Inv, PlaceInv, AnswerInv, WithClient
<1>4. VerdictInv(v)'
  BY <1>1 DEF Inv, VerdictInv
<1>5. causes[v][probe[v]] = "none"
  BY <1>1, ToolFacts DEF Inv, PlaceInv, WithClient
<1>6. ASSUME NEW k \in Probes PROVE LeftBehind(v, k, causes[v][k])'
  <2>1. LeftBehind(v, k, causes[v][k])
    BY <1>1 DEF Inv, HelperInv
  <2>2. CASE k = probe[v]
    BY <1>5, <2>2 DEF LeftBehind
  <2>3. CASE k # probe[v]
    BY <2>1, <2>3 DEF LeftBehind
  <2> QED BY <2>2, <2>3
<1>7. HelperInv(v)'
  BY <1>6 DEF HelperInv
<1> QED BY <1>2, <1>3, <1>4, <1>7, OneStep DEF Inv

LEMMA SpawnInv ==
  ASSUME IInv, NEW v \in Validation, Spawn(v)
  PROVE  IInv'
<1>1. Forms /\ Inv(v) /\ pc[v] = "start" /\ UNCHANGED <<cancels, cancelled, descendants, tries>>
  BY DEF IInv, Spawn
<1>2. CASE Answer(v, "None", "unstarted") /\ UNCHANGED procVars
  <2>1. main[v] \in {"none", "gone"} /\ "unstarted" \in Causes \ {"none"} /\ "unstarted" \in Inconclusive
    BY <1>1 DEF Inv, MainInv, Causes, Inconclusive
  <2>2. LeftBehind(v, probe[v], "unstarted")
    BY DEF LeftBehind
  <2> QED BY <1>1, <1>2, <2>1, <2>2, AnswerStep
<1>3. CASE /\ pc' = [pc EXCEPT ![v] = "spawned"]
           /\ main' = [main EXCEPT ![v] = "running"] /\ known' = [known EXCEPT ![v] = FALSE]
           /\ UNCHANGED <<probe, sawFalse, verdict, causes, tracked, code, helper, grouped>>
  <2>1. Forms' /\ Others(v) /\ pc'[v] = "spawned" /\ main'[v] = "running" /\ known'[v] = FALSE
    BY <1>1, <1>3 DEF Forms, Others
  <2>2. pc[v] \in WithClient /\ pc'[v] \in WithClient /\ main'[v] \in Process
    BY <1>1, <2>1 DEF WithClient, Process
  <2>3. Types(v)
    BY <1>1 DEF Inv
  <2>4. /\ cancels'[v] \in 0..MaxCancels /\ cancelled'[v] \in BOOLEAN /\ code'[v] \in Codes
        /\ known'[v] \in BOOLEAN /\ helper'[v] \in [Probes -> Process]
        /\ descendants'[v] \in SUBSET Probes /\ tries'[v] \in 0..ReapAttempts
    BY <1>1, <1>3, <2>1, <2>3 DEF Types
  <2>5. MainInv(v)'
    BY <1>1, <1>3, <2>1 DEF MainInv
  <2>6. tracked' = IF pc'[v] \in Registered THEN tracked \cup {v} ELSE tracked \ {v}
    BY <1>1, <1>3, <2>1 DEF IInv, TrackedInv, Registered
  <2> QED BY <1>1, <1>3, <2>1, <2>2, <2>4, <2>5, <2>6, ClientStep
<1> QED BY <1>2, <1>3 DEF Spawn

LEMMA TrackProcessInv ==
  ASSUME IInv, NEW v \in Validation, TrackProcess(v)
  PROVE  IInv'
<1>1. Forms /\ Types(v) /\ MainInv(v) /\ pc[v] = "spawned"
  BY DEF IInv, Inv, TrackProcess
<1>2. /\ pc' = [pc EXCEPT ![v] = "communicate"] /\ tracked' = tracked \cup {v}
      /\ UNCHANGED <<probe, sawFalse, verdict, causes, cancels, cancelled, descendants, tries, procVars>>
  BY DEF TrackProcess
<1>3. Forms' /\ Others(v) /\ pc'[v] = "communicate"
  BY <1>1, <1>2 DEF Forms, Others, procVars
<1>4. pc[v] \in WithClient /\ pc'[v] \in WithClient /\ pc'[v] \in Registered
  BY <1>1, <1>3 DEF WithClient, Registered
<1>5. MainInv(v)'
  BY <1>1, <1>2, <1>3 DEF MainInv, procVars
<1>6. /\ cancels'[v] \in 0..MaxCancels /\ cancelled'[v] \in BOOLEAN /\ code'[v] \in Codes
      /\ known'[v] \in BOOLEAN /\ helper'[v] \in [Probes -> Process] /\ main'[v] \in Process
      /\ descendants'[v] \in SUBSET Probes /\ tries'[v] \in 0..ReapAttempts
  BY <1>1, <1>2 DEF Types, procVars
<1>7. UNCHANGED <<helper, grouped>>
  BY <1>2 DEF procVars
<1> QED BY <1>2, <1>3, <1>4, <1>5, <1>6, <1>7, ClientStep

LEMMA CommunicatedInv ==
  ASSUME IInv, NEW v \in Validation, Communicated(v)
  PROVE  IInv'
<1> DEFINE answer == FromCode(Tools[probe[v]], code[v])
<1>1. Inv(v) /\ pc[v] = "communicate" /\ known[v] /\ Answer(v, answer, code[v])
      /\ UNCHANGED <<cancels, cancelled, descendants, tries, procVars>>
  BY DEF IInv, Communicated
<1>2. main[v] = "gone" /\ code[v] # "killed" /\ code[v] \in Codes
  BY <1>1 DEF Inv, MainInv, Types
<1>3. \/ code[v] = "ok" /\ answer = "True"
      \/ code[v] = "no" /\ answer = "False"
      \/ code[v] \in {"failed", "stolen"} /\ answer \in {"None", "False"}
  BY <1>2 DEF FromCode, Codes
<1> HIDE DEF answer
<1>4. /\ answer \in {"True", "False", "None"} /\ code[v] \in Causes \ {"none"}
      /\ answer = "True" <=> code[v] = "ok"
      /\ answer = "False" => code[v] \in SaidNo
      /\ answer = "None" => code[v] \in Inconclusive
  BY <1>3 DEF Causes, SaidNo, Inconclusive
<1>5. LeftBehind(v, probe[v], code[v])
  BY <1>3 DEF LeftBehind
<1> QED BY <1>1, <1>2, <1>4, <1>5, AnswerStep

(* _terminate_process begins, for a timeout or a cancellation. *)
LEMMA TerminateStep ==
  ASSUME IInv, NEW v \in Validation, NEW byCancel \in BOOLEAN, pc[v] = "communicate",
         Terminate(v, byCancel), UNCHANGED <<probe, sawFalse, verdict, causes, tries, tracked, procVars>>,
         cancels' = [cancels EXCEPT ![v] = cancels'[v]], cancels'[v] \in 0..MaxCancels
  PROVE  IInv'
<1>1. Forms /\ Types(v) /\ PlaceInv(v) /\ MainInv(v)
  BY DEF IInv, Inv
<1>2. /\ cancelled' = [cancelled EXCEPT ![v] = byCancel]
      /\ descendants' = [descendants EXCEPT ![v] = descendants'[v]]
      /\ descendants'[v] \in SUBSET Probes
      /\ \A k \in Probes \ {probe[v]} : descendants'[v] \cap {k} = descendants[v] \cap {k}
      /\ pc' = [pc EXCEPT ![v] = IF known[v] THEN "wait" ELSE "kill"]
  <2>1. descendants[v] \in SUBSET Probes /\ probe[v] \in Probes
    BY <1>1 DEF Types, PlaceInv, WithClient
  <2> QED BY <1>1, <2>1 DEF Terminate, Forms
<1>3. Forms' /\ Others(v) /\ pc'[v] = (IF known[v] THEN "wait" ELSE "kill") /\ cancelled'[v] = byCancel
  BY <1>1, <1>2 DEF Forms, Others, procVars
<1>4. pc[v] \in WithClient /\ pc'[v] \in WithClient /\ pc'[v] \in Registered /\ v \in tracked
  BY <1>3 DEF WithClient, Registered, IInv, TrackedInv
<1>5. MainInv(v)'
  BY <1>1, <1>3 DEF MainInv, procVars
<1>6. /\ cancelled'[v] \in BOOLEAN /\ code'[v] \in Codes /\ known'[v] \in BOOLEAN
      /\ helper'[v] \in [Probes -> Process] /\ main'[v] \in Process /\ tries'[v] \in 0..ReapAttempts
  BY <1>1, <1>3 DEF Types, procVars
<1>7. UNCHANGED <<helper, grouped>> /\ pc'[v] # "reap" /\ (pc'[v] = "wait" => code'[v] # "killed")
  BY <1>1, <1>3 DEF MainInv, procVars
<1> QED BY <1>2, <1>3, <1>4, <1>5, <1>6, <1>7, ClientStep

LEMMA TimeoutInv ==
  ASSUME IInv, NEW v \in Validation, Timeout(v)
  PROVE  IInv'
<1>1. Forms /\ Types(v)
  BY DEF IInv, Inv
<1>2. cancels' = [cancels EXCEPT ![v] = cancels'[v]] /\ cancels'[v] \in 0..MaxCancels
  BY <1>1 DEF Forms, Types, Timeout
<1> QED BY <1>2, TerminateStep DEF Timeout

LEMMA KillInv ==
  ASSUME IInv, NEW v \in Validation, Kill(v)
  PROVE  IInv'
<1>1. Forms /\ Types(v) /\ PlaceInv(v) /\ MainInv(v) /\ pc[v] = "kill"
  BY DEF IInv, Inv, Kill
<1>2. /\ pc' = [pc EXCEPT ![v] = "wait"]
      /\ main' = [main EXCEPT ![v] = IF @ = "running" THEN "zombie" ELSE @]
      /\ code' = [code EXCEPT ![v] = IF main[v] = "running" THEN "killed" ELSE @]
      /\ helper' = [helper EXCEPT ![v] = [k \in Probes |-> IF k \in Hit(v) THEN "zombie" ELSE @[k]]]
      /\ UNCHANGED <<probe, sawFalse, verdict, causes, cancels, cancelled, descendants, tries, tracked,
                     known, grouped>>
  BY DEF Kill
<1>3. Forms' /\ Others(v)
  BY <1>1, <1>2 DEF Forms, Others
<1>4. /\ pc'[v] = "wait" /\ main'[v] = (IF main[v] = "running" THEN "zombie" ELSE main[v])
      /\ code'[v] = (IF main[v] = "running" THEN "killed" ELSE code[v])
      /\ helper'[v] = [k \in Probes |-> IF k \in Hit(v) THEN "zombie" ELSE helper[v][k]]
  BY <1>1, <1>2 DEF Forms
<1>5. main[v] \in {"running", "zombie", "gone"} /\ (main[v] # "running" => code[v] # "killed")
      /\ probe[v] \in Probes
  BY <1>1 DEF Types, Process, MainInv, PlaceInv, WithClient
<1>6. MainInv(v)'
  BY <1>1, <1>2, <1>4, <1>5 DEF MainInv
<1>7. /\ helper'[v] \in [Probes -> Process]
      /\ \A k \in Probes : helper'[v][k] = "running" => helper[v][k] = "running"
      /\ code'[v] = "killed" /\ grouped[v][probe[v]] => helper'[v][probe[v]] # "running"
  <2>1. helper[v] \in [Probes -> Process] /\ "zombie" \in Process
    BY <1>1 DEF Types, Process
  <2>2. \A k \in Probes : helper'[v][k] = "running" => k \notin Hit(v) /\ helper[v][k] = "running"
    BY <1>4
  <2>3. ASSUME code'[v] = "killed", grouped[v][probe[v]], helper'[v][probe[v]] = "running"
        PROVE  FALSE
    <3>1. main[v] = "running" /\ probe[v] \notin Hit(v) /\ helper[v][probe[v]] = "running"
      BY <1>4, <1>5, <2>2, <2>3
    <3> QED BY <1>5, <2>3, <3>1 DEF Hit
  <2> QED BY <1>4, <2>1, <2>2, <2>3
<1>8. pc[v] \in WithClient /\ pc'[v] \in WithClient /\ pc'[v] \in Registered /\ v \in tracked
  BY <1>1, <1>4 DEF WithClient, Registered, IInv, TrackedInv
<1>9. /\ cancels'[v] \in 0..MaxCancels /\ cancelled'[v] \in BOOLEAN /\ known'[v] \in BOOLEAN
      /\ descendants'[v] \in SUBSET Probes /\ tries'[v] \in 0..ReapAttempts
  BY <1>1, <1>2 DEF Types
<1>10. main'[v] \in Process /\ code'[v] \in Codes
  BY <1>1, <1>4 DEF Types, Process, Codes
<1>11. tracked' = IF pc'[v] \in Registered THEN tracked \cup {v} ELSE tracked \ {v}
  BY <1>2, <1>8
<1> QED BY <1>2, <1>3, <1>4, <1>6, <1>7, <1>8, <1>9, <1>10, <1>11, ClientStep

LEMMA WaitedInv ==
  ASSUME IInv, NEW v \in Validation, Waited(v)
  PROVE  IInv'
<1>1. Forms /\ Types(v) /\ PlaceInv(v) /\ MainInv(v) /\ HelperInv(v) /\ pc[v] = "wait" /\ known[v]
  BY DEF IInv, Inv, Waited
<1>2. /\ pc' = [pc EXCEPT ![v] = "reap"]
      /\ tries' = [tries EXCEPT ![v] = IF probe[v] \in descendants[v] THEN ReapAttempts ELSE 0]
      /\ UNCHANGED <<probe, sawFalse, verdict, causes, cancels, cancelled, descendants, tracked, procVars>>
  BY DEF Waited
<1>3. Forms' /\ Others(v) /\ pc'[v] = "reap"
      /\ tries'[v] = IF probe[v] \in descendants[v] THEN ReapAttempts ELSE 0
  BY <1>1, <1>2 DEF Forms, Others, procVars
<1>4. pc[v] \in WithClient /\ pc'[v] \in WithClient /\ pc'[v] \in Registered /\ v \in tracked
  BY <1>1, <1>3 DEF WithClient, Registered, IInv, TrackedInv
<1>5. MainInv(v)'
  BY <1>1, <1>2, <1>3 DEF MainInv, procVars
<1>6. tries'[v] \in 0..ReapAttempts /\ ~(tries'[v] < ReapAttempts /\ probe[v] \in descendants'[v])
  BY <1>2, <1>3, ValidatorAssumption
<1>7. /\ cancels'[v] \in 0..MaxCancels /\ cancelled'[v] \in BOOLEAN /\ code'[v] \in Codes
      /\ known'[v] \in BOOLEAN /\ helper'[v] \in [Probes -> Process] /\ main'[v] \in Process
      /\ descendants'[v] \in SUBSET Probes
  BY <1>1, <1>2 DEF Types, procVars
<1>8. UNCHANGED <<helper, grouped, code>>
      /\ (code[v] = "killed" /\ grouped[v][probe[v]] => helper[v][probe[v]] # "running")
  BY <1>1, <1>2 DEF HelperInv, procVars
<1> QED BY <1>2, <1>3, <1>4, <1>5, <1>6, <1>7, <1>8, ClientStep

LEMMA ReapDescendantInv ==
  ASSUME IInv, NEW v \in Validation, ReapDescendant(v)
  PROVE  IInv'
<1> DEFINE k == probe[v]
<1>1. Forms /\ Types(v) /\ PlaceInv(v) /\ MainInv(v) /\ pc[v] = "reap" /\ tries[v] > 0
  BY DEF IInv, Inv, ReapDescendant
<1>2. /\ helper' = [helper EXCEPT ![v][k] = CASE @ = "zombie" -> "gone"
                                               [] @ = "running" -> "zombie"
                                               [] OTHER -> @]
      /\ tries' = [tries EXCEPT ![v] = IF helper[v][k] = "zombie" THEN 0 ELSE @ - 1]
      /\ UNCHANGED <<pc, probe, sawFalse, verdict, causes, cancels, cancelled, descendants, tracked,
                     main, code, known, grouped>>
  BY DEF ReapDescendant
<1>3. Forms' /\ Others(v)
  BY <1>1, <1>2 DEF Forms, Others
<1>4. k \in Probes /\ helper[v] \in [Probes -> Process]
  BY <1>1 DEF Types, PlaceInv, WithClient
<1>5. /\ helper'[v] \in [Probes -> Process] /\ helper'[v][k] # "running"
      /\ \A j \in Probes : helper'[v][j] = "running" => helper[v][j] = "running"
  <2>1. helper'[v] = [helper[v] EXCEPT ![k] = CASE helper[v][k] = "zombie" -> "gone"
                                                [] helper[v][k] = "running" -> "zombie"
                                                [] OTHER -> helper[v][k]]
    BY <1>1, <1>2 DEF Forms
  <2>2. helper[v][k] \in Process
    BY <1>4
  <2> QED BY <1>4, <2>1, <2>2 DEF Process
<1>6. tries'[v] \in 0..ReapAttempts
  <2>1. tries'[v] = IF helper[v][k] = "zombie" THEN 0 ELSE tries[v] - 1
    BY <1>1, <1>2 DEF Forms
  <2> QED BY <1>1, <2>1, ValidatorAssumption DEF Types
<1>7. pc[v] \in WithClient /\ pc'[v] \in WithClient /\ pc'[v] \in Registered /\ v \in tracked
  BY <1>1, <1>2 DEF WithClient, Registered, IInv, TrackedInv
<1>8. MainInv(v)'
  BY <1>1, <1>2 DEF MainInv
<1>9. /\ cancels'[v] \in 0..MaxCancels /\ cancelled'[v] \in BOOLEAN /\ code'[v] \in Codes
      /\ known'[v] \in BOOLEAN /\ main'[v] \in Process /\ descendants'[v] \in SUBSET Probes
  BY <1>1, <1>2 DEF Types
<1> HIDE DEF k
<1>10. tracked' = IF pc'[v] \in Registered THEN tracked \cup {v} ELSE tracked \ {v}
  BY <1>2, <1>7
<1> QED BY <1>2, <1>3, <1>5, <1>6, <1>7, <1>8, <1>9, <1>10, ClientStep DEF k

LEMMA TerminatedInv ==
  ASSUME IInv, NEW v \in Validation, Terminated(v)
  PROVE  IInv'
<1> DEFINE cause == IF code[v] = "killed" THEN "killed" ELSE "timeout"
<1>1. /\ Forms /\ Types(v) /\ PlaceInv(v) /\ MainInv(v) /\ HelperInv(v) /\ pc[v] = "reap" /\ tries[v] = 0
      /\ UNCHANGED <<cancels, cancelled, descendants, tries, procVars>>
  BY DEF IInv, Inv, Terminated
<1>2. main[v] = "gone" /\ probe[v] \in Probes /\ probe[v] \in 1..Fossil
  BY <1>1, ToolFacts DEF MainInv, PlaceInv, WithClient
<1>3. cause \in Causes \ {"none"} /\ cause \in Inconclusive /\ cause # "ok"
  BY DEF Causes, Inconclusive
<1>4. LeftBehind(v, probe[v], cause)
  <2>1. probe[v] \in descendants[v] => helper[v][probe[v]] # "running"
    BY <1>1, ValidatorAssumption DEF HelperInv
  <2>2. code[v] = "killed" /\ grouped[v][probe[v]] => helper[v][probe[v]] # "running"
    BY <1>1 DEF HelperInv
  <2> QED BY <2>1, <2>2 DEF LeftBehind
<1>5. \/ Leave(v) /\ causes' = [causes EXCEPT ![v][probe[v]] = cause] /\ UNCHANGED <<probe, sawFalse>>
      \/ Answer(v, "None", cause)
  BY DEF Terminated
<1> HIDE DEF cause
<1>6. CASE Leave(v) /\ causes' = [causes EXCEPT ![v][probe[v]] = cause] /\ UNCHANGED <<probe, sawFalse>>
  <2>1. /\ causes' = [causes EXCEPT ![v] = causes'[v]] /\ causes'[v] \in [1..Fossil -> Causes]
        /\ causes'[v][probe[v]] = cause /\ \A k \in Probes \ {probe[v]} : causes'[v][k] = causes[v][k]
    BY <1>1, <1>2, <1>3, <1>6, ToolFacts DEF Forms, Types
  <2>2. \A k \in Probes : LeftBehind(v, k, causes'[v][k])
    BY <1>1, <1>4, <2>1 DEF HelperInv
  <2>3. cancels' = [cancels EXCEPT ![v] = cancels'[v]] /\ cancels'[v] \in 0..MaxCancels
    BY <1>1 DEF Forms, Types
  <2> QED BY <1>1, <1>2, <1>6, <2>1, <2>2, <2>3, LeaveStep
<1>7. CASE Answer(v, "None", cause)
  BY <1>1, <1>2, <1>3, <1>4, <1>7, AnswerStep
<1> QED BY <1>5, <1>6, <1>7

LEMMA FossilAnswersInv ==
  ASSUME IInv, NEW v \in Validation, FossilAnswers(v)
  PROVE  IInv'
<1>1. PICK r \in {<<"True", "ok">>, <<"False", "no">>, <<"None", "failed">>} : Answer(v, r[1], r[2])
  BY DEF FossilAnswers
<1>2. pc[v] = "fossil" /\ UNCHANGED <<cancels, cancelled, descendants, tries, procVars>>
      /\ main[v] \in {"none", "gone"}
  BY DEF FossilAnswers, IInv, Inv, MainInv
<1>3. /\ r[1] \in {"True", "False", "None"} /\ r[2] \in Causes \ {"none"}
      /\ r[1] = "True" <=> r[2] = "ok"
      /\ r[1] = "False" => r[2] \in SaidNo
      /\ r[1] = "None" => r[2] \in Inconclusive
      /\ r[2] \notin {"killed", "timeout"}
  BY DEF Causes, SaidNo, Inconclusive
<1>4. LeftBehind(v, probe[v], r[2])
  BY <1>3 DEF LeftBehind
<1> QED BY <1>1, <1>2, <1>3, <1>4, AnswerStep

-----------------------------------------------------------------------------
(* Cancellation.                                                           *)

LEMMA CancelInv ==
  ASSUME IInv, NEW v \in Validation, Cancel(v)
  PROVE  IInv'
<1>1. /\ Forms /\ Types(v) /\ PlaceInv(v) /\ MainInv(v) /\ HelperInv(v)
      /\ cancels[v] < MaxCancels /\ cancels' = [cancels EXCEPT ![v] = @ + 1]
      /\ UNCHANGED <<probe, sawFalse, causes, known, helper, grouped>>
  BY DEF IInv, Inv, Cancel
<1>2. /\ cancels' = [cancels EXCEPT ![v] = cancels'[v]] /\ cancels'[v] \in 0..MaxCancels
      /\ cancels'[v] >= 1
  BY <1>1, ValidatorAssumption DEF Forms, Types
<1>3. CASE /\ pc[v] \in {"head", "fossil", "spawnKill"} /\ Leave(v)
           /\ UNCHANGED <<cancelled, descendants, tries, main, code>>
  BY <1>1, <1>3, LeaveSilently DEF procVars
<1>4. CASE /\ pc[v] = "spawned" /\ pc' = [pc EXCEPT ![v] = "spawnKill"]
           /\ main' = [main EXCEPT ![v] = IF @ = "running" THEN "zombie" ELSE @]
           /\ code' = [code EXCEPT ![v] = IF main[v] = "running" THEN "killed" ELSE @]
           /\ UNCHANGED <<verdict, tracked, cancelled, descendants, tries>>
  <2>1. /\ Forms' /\ Others(v) /\ pc'[v] = "spawnKill"
        /\ main'[v] = (IF main[v] = "running" THEN "zombie" ELSE main[v])
        /\ code'[v] = (IF main[v] = "running" THEN "killed" ELSE code[v])
    BY <1>1, <1>4 DEF Forms, Others
  <2>2. main'[v] \in Process /\ code'[v] \in Codes
    BY <1>1, <2>1 DEF Types, Process, Codes
  <2>3. MainInv(v)'
    BY <1>1, <1>2, <2>1 DEF MainInv
  <2>4. pc[v] \in WithClient /\ pc'[v] \in WithClient /\ pc'[v] \notin Registered /\ v \notin tracked
    BY <1>4, <2>1 DEF WithClient, Registered, IInv, TrackedInv
  <2>5. /\ cancelled'[v] \in BOOLEAN /\ known'[v] \in BOOLEAN /\ helper'[v] \in [Probes -> Process]
        /\ descendants'[v] \in SUBSET Probes /\ tries'[v] \in 0..ReapAttempts
    BY <1>1, <1>4 DEF Types
  <2>6. tracked' = IF pc'[v] \in Registered THEN tracked \cup {v} ELSE tracked \ {v}
    BY <1>4, <2>4
  <2> QED BY <1>1, <1>2, <1>4, <2>1, <2>2, <2>3, <2>4, <2>5, <2>6, ClientStep
<1>5. CASE /\ pc[v] = "communicate" /\ Terminate(v, TRUE)
           /\ UNCHANGED <<verdict, tracked, tries, main, code>>
  BY <1>1, <1>2, <1>5, TerminateStep DEF procVars
<1>6. CASE /\ pc[v] \in {"wait", "reap"} /\ cancelled' = [cancelled EXCEPT ![v] = TRUE]
           /\ tries' = [tries EXCEPT ![v] = tries'[v]]
           /\ \/ pc[v] = "wait" /\ tries'[v] = tries[v]
              \/ pc[v] = "reap" /\ tries[v] < ReapAttempts /\ tries'[v] = 0
           /\ UNCHANGED <<pc, verdict, tracked, descendants, main, code>>
  <2>1. Forms' /\ Others(v) /\ cancelled'[v] = TRUE
    BY <1>1, <1>6 DEF Forms, Others
  <2>2. MainInv(v)'
    BY <1>1, <1>6 DEF MainInv
  <2>3. pc[v] \in WithClient /\ pc'[v] \in WithClient /\ pc'[v] \in Registered /\ v \in tracked
    BY <1>6 DEF WithClient, Registered, IInv, TrackedInv
  <2>4. tries'[v] \in 0..ReapAttempts
    BY <1>1, <1>6, ValidatorAssumption DEF Types
  <2>5. /\ main'[v] \in Process /\ code'[v] \in Codes /\ known'[v] \in BOOLEAN
        /\ helper'[v] \in [Probes -> Process] /\ descendants'[v] \in SUBSET Probes
    BY <1>1, <1>6 DEF Types
  <2>6. /\ pc'[v] = "reap" /\ probe[v] \in descendants'[v] => helper'[v][probe[v]] # "running"
        /\ code'[v] = "killed" /\ grouped[v][probe[v]] => helper'[v][probe[v]] # "running"
    BY <1>1, <1>6 DEF HelperInv
  <2>7. tracked' = IF pc'[v] \in Registered THEN tracked \cup {v} ELSE tracked \ {v}
    BY <1>6, <2>3
  <2> QED BY <1>1, <1>2, <1>6, <2>1, <2>2, <2>3, <2>4, <2>5, <2>6, <2>7, ClientStep
<1>7. CASE pc[v] = "wait" /\ CancelInWait(v) /\ UNCHANGED <<descendants, tries, main, code>>
  BY <1>1, <1>6, <1>7 DEF CancelInWait, Forms
<1>8. CASE /\ pc[v] = "reap" /\ tries[v] \in 1..(ReapAttempts - 1)
           /\ cancelled' = [cancelled EXCEPT ![v] = TRUE] /\ tries' = [tries EXCEPT ![v] = 0]
           /\ UNCHANGED <<pc, verdict, tracked, descendants, main, code>>
  <2>1. tries[v] < ReapAttempts /\ tries'[v] = 0
    BY <1>1, <1>8, ValidatorAssumption DEF Forms
  <2>2. tries' = [tries EXCEPT ![v] = tries'[v]]
    BY <1>8, <2>1
  <2> QED BY <1>6, <1>8, <2>1, <2>2
<1> QED BY <1>3, <1>4, <1>5, <1>7, <1>8 DEF Cancel

LEMMA SpawnCancelledInv ==
  ASSUME IInv, NEW v \in Validation, SpawnCancelled(v)
  PROVE  IInv'
BY LeaveSilently DEF SpawnCancelled

-----------------------------------------------------------------------------
LEMMA NextInv == IInv /\ [Next]_vars => IInv'
<1> SUFFICES ASSUME IInv, [Next]_vars PROVE IInv'
  OBVIOUS
<1>1. ASSUME NEW v \in Validation, Proceed(v) PROVE IInv'
  BY <1>1, HeadDoneInv, SpawnInv, TrackProcessInv, CommunicatedInv, KillInv, WaitedInv, ReapDescendantInv,
     TerminatedInv, FossilAnswersInv, SpawnCancelledInv DEF Proceed
<1>2. ASSUME NEW v \in Validation, Timeout(v) \/ Cancel(v) PROVE IInv'
  BY <1>2, TimeoutInv, CancelInv
<1>3. ASSUME NEW v \in Validation, MainExits(v) \/ WatcherReaps(v) \/ WatcherNotices(v) PROVE IInv'
  BY <1>3, MainExitsInv, WatcherInv
<1>4. ASSUME NEW v \in Validation, NEW k \in Probes,
             HelperStarts(v, k) \/ HelperExits(v, k) \/ MainReapsHelper(v, k)
      PROVE  IInv'
  BY <1>4, HelperInvs
<1>5. CASE ReapOrphans
  BY <1>5, ReapOrphansInv
<1>6. CASE UNCHANGED vars
  BY <1>6 DEF vars, IInv, Forms, TrackedInv, Inv, Types, PlaceInv, MainInv, AnswerInv, VerdictInv,
              HelperInv, LeftBehind
<1> QED BY <1>1, <1>2, <1>3, <1>4, <1>5, <1>6 DEF Next

LEMMA SpecInv == Spec => []IInv
BY InitInv, NextInv, PTL DEF Spec

-----------------------------------------------------------------------------
(* The results.                                                            *)

(* Every variable keeps its type, and the registered clients are those of the validations that
   wait for one, through every cancellation. *)
THEOREM ValidatorTypes == Spec => []TypeOK
<1>1. IInv => TypeOK
  <2> SUFFICES ASSUME IInv PROVE TypeOK
    OBVIOUS
  <2>1. Forms /\ \A v \in Validation : Types(v)
    BY DEF IInv, Inv
  <2>2. tracked = {v \in Validation : pc[v] \in {"communicate", "kill", "wait", "reap"}}
    BY DEF IInv, TrackedInv, Registered
  <2>3. pc \in [Validation -> {"head", "start", "spawned", "spawnKill", "communicate", "kill", "wait",
                               "reap", "fossil", "over"}]
    BY <2>1 DEF Forms, Types, WithClient
  <2>4. /\ probe \in [Validation -> 0..Fossil] /\ sawFalse \in [Validation -> BOOLEAN]
        /\ verdict \in [Validation -> Verdicts] /\ causes \in [Validation -> [1..Fossil -> Causes]]
        /\ cancels \in [Validation -> 0..MaxCancels] /\ cancelled \in [Validation -> BOOLEAN]
        /\ main \in [Validation -> Process] /\ code \in [Validation -> Codes]
    BY <2>1 DEF Forms, Types
  <2>5. /\ known \in [Validation -> BOOLEAN] /\ helper \in [Validation -> [Probes -> Process]]
        /\ grouped \in [Validation -> [Probes -> BOOLEAN]]
        /\ descendants \in [Validation -> SUBSET Probes] /\ tries \in [Validation -> 0..ReapAttempts]
    BY <2>1 DEF Forms, Types
  <2> QED BY <2>2, <2>3, <2>4, <2>5 DEF TypeOK, Verdicts, Causes, Codes
<1> QED BY <1>1, SpecInv, PTL

(* A client is waited for before its validation goes on or ends, whatever is cancelled meanwhile
   (url_validator.py, _terminate_process); only two cancellations while it is being started get
   past it. *)
THEOREM ClientsAreReaped == Spec => []ClientsReaped
<1>1. IInv => ClientsReaped
  <2> SUFFICES ASSUME IInv, NEW v \in Validation
               PROVE  /\ pc[v] \in {"start", "fossil"} => main[v] \in {"none", "gone"}
                      /\ pc[v] = "over" /\ main[v] \in {"running", "zombie"} =>
                           cancels[v] >= 2 /\ v \notin tracked /\ causes[v][probe[v]] = "none"
    BY DEF ClientsReaped
  <2>1. MainInv(v)
    BY DEF IInv, Inv
  <2>2. pc[v] = "over" => v \notin tracked
    BY DEF IInv, TrackedInv, Registered
  <2> QED BY <2>1, <2>2 DEF MainInv
<1> QED BY <1>1, SpecInv, PTL

(* A terminated client leaves none of the helpers its termination collected running, and one that
   was killed none of its process group. *)
THEOREM NoHelperLeft == Spec => []TerminationLeavesNoHelper
<1>1. IInv => TerminationLeavesNoHelper
  BY DEF IInv, Inv, HelperInv, LeftBehind, TerminationLeavesNoHelper
<1> QED BY <1>1, SpecInv, PTL

(* The verdict of a validation is the fold of all its probes' answers (url_validator.py, _check_vcs). *)
THEOREM VerdictsFold == Spec => []VerdictIsFold
<1>1. IInv => VerdictIsFold
  <2> SUFFICES ASSUME IInv, NEW v \in Validation, NEW of, of = {causes[v][k] : k \in 1..Fossil}
               PROVE  /\ verdict[v] = "valid" => "ok" \in of
                      /\ verdict[v] = "invalid" /\ probe[v] > 0 =>
                           "ok" \notin of /\ "none" \notin of /\ of \cap {"no", "failed", "stolen"} # {}
                      /\ verdict[v] = "network_error" =>
                           of \subseteq {"timeout", "killed", "unstarted", "failed", "stolen"}
    BY DEF VerdictIsFold
  <2>1. VerdictInv(v)
    BY DEF IInv, Inv
  <2> QED BY <2>1 DEF VerdictInv, SaidNo, Inconclusive
<1> QED BY <1>1, SpecInv, PTL

(* The reaper of orphans never takes a client that its probe has registered (main.py,
   reap_orphaned_processes; url_validator.py, _track_process). *)
THEOREM RegisteredNotStolen == Spec => TrackedNotStolen
<1>1. ASSUME IInv, [Next]_vars, NEW v \in tracked, code[v] # "stolen", code'[v] = "stolen"
      PROVE  FALSE
  <2>1. Forms /\ v \in Validation
    BY <1>1 DEF IInv, TrackedInv
  <2>2. ASSUME NEW c, NEW w, code' = [code EXCEPT ![w] = c], c # "stolen" PROVE FALSE
    BY <1>1, <2>1, <2>2 DEF Forms
  <2>3. code' # code
    BY <1>1
  <2>4. \/ ReapOrphans
        \/ \E w \in Validation : MainExits(w) \/ Kill(w) \/ Cancel(w)
    BY <1>1, <2>3 DEF Next, vars, Proceed, Timeout, HeadDone, Spawn, TrackProcess, Communicated, Waited,
       ReapDescendant, Terminated, FossilAnswers, SpawnCancelled, WatcherReaps, WatcherNotices,
       HelperStarts, HelperExits, MainReapsHelper, procVars
  <2>5. CASE ReapOrphans
    BY <1>1, <2>1, <2>5 DEF ReapOrphans, Stolen
  <2>6. ASSUME NEW w \in Validation, MainExits(w) PROVE FALSE
    <3>1. PICK c \in {"ok", "no", "failed"} : code' = [code EXCEPT ![w] = c]
      BY <2>6 DEF MainExits
    <3> QED BY <2>2, <3>1
  <2>7. ASSUME NEW w \in Validation, Kill(w) \/ Cancel(w) PROVE FALSE
    <3>1. code' = [code EXCEPT ![w] = IF main[w] = "running" THEN "killed" ELSE @]
      BY <2>3, <2>7 DEF Kill, Cancel
    <3> QED BY <1>1, <2>1, <3>1 DEF Forms
  <2> QED BY <2>4, <2>5, <2>6, <2>7
<1>2. IInv /\ [Next]_vars => [\A v \in tracked : code[v] # "stolen" => code'[v] # "stolen"]_vars
  BY <1>1
<1> QED BY <1>2, SpecInv, PTL DEF Spec, TrackedNotStolen
=============================================================================
