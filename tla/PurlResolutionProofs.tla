------------------------ MODULE PurlResolutionProofs ------------------------
(***************************************************************************)
(* Proofs about PurlResolution: its types, that no resolution answers with *)
(* a URL without a repository, or with one that redirects when nothing is  *)
(* cached, and that renaming a row destroys no other.                      *)
(***************************************************************************)
EXTENDS PurlResolution, TLAPS

-----------------------------------------------------------------------------
(* The inductive invariant.                                                *)

OnOneKey == (Resolving \cup Administering) \ {"skipLookup", "upsert", "delete"}
WithUrl == {"probeFresh", "store", "refLookup", "refStore", "newLookup", "newInsert",
            "skipLookup", "upsert", "select", "apply"}

(* What a call knows in the await it is suspended in.                      *)
Knows(r) ==
    /\ r.at \in OnOneKey => \E k \in Key : r.keys = {k}
    /\ r.at \in {"oldLookup", "select", "apply"} => \E k \in Key : r.to = {k}
    /\ r.at \in {"probeStored", "storeMoved", "deleteInvalid", "apply"} => r.have \in Row
    /\ r.at \in WithUrl => r.url \in Url

(* Where a call has a URL that was found good.                             *)
Checked(r) ==
    /\ r.at = "storeMoved" => Valid(r.have.url)
    /\ r.at = "store" => Valid(r.url) /\ (mode = "always" => Final[r.url] = r.url)
    /\ r.at = "answered" /\ r.found # "" =>
          r.answer \in Url /\ Valid(r.answer) /\ (mode = "always" => Final[r.answer] = r.answer)

Undisturbed == mode # "trust" /\ glitches = 0

FreshInv == (mode # "cooldown" => fresh = {}) /\ (glitches = 0 => \A u \in fresh : Valid(u))
KnowsInv == \A t \in Task : Knows(task[t])
CheckedInv == Undisturbed => \A t \in Task : Checked(task[t])

IInv == TypeOK /\ FreshInv /\ KnowsInv /\ CheckedInv

-----------------------------------------------------------------------------
(* Redirects end, so a URL is as good as its end.                          *)
LEMMA FinalFacts ==
    ASSUME NEW u \in Url
    PROVE  Final[u] \in Url /\ Final[Final[u]] = Final[u] /\ (Valid(u) => Valid(Final[u]))
BY PurlResolutionAssumption DEF Valid

(* A call that has not begun.                                              *)
LEMMA IdleType == Idle \in TaskState
BY PurlResolutionAssumption DEF Idle, TaskState

(* The empty system.                                                       *)
LEMMA InitInv == Init => IInv
<1> SUFFICES ASSUME Init PROVE IInv
    OBVIOUS
<1>1. TypeOK
    BY IdleType, PurlResolutionAssumption DEF Init, TypeOK, Row, Absent, Origin
<1>2. FreshInv
    BY DEF Init, FreshInv
<1>3. KnowsInv /\ CheckedInv
    BY DEF Init, KnowsInv, CheckedInv, Knows, Checked, Idle, OnOneKey, Resolving, Administering, WithUrl
<1> QED BY <1>1, <1>2, <1>3 DEF IInv

(* A step that changes nothing keeps the invariant.                        *)
LEMMA StutterInv == IInv /\ UNCHANGED vars => IInv'
BY DEF vars, bounds, IInv, TypeOK, FreshInv, KnowsInv, CheckedInv, Undisturbed, Checked

(* What a step may do to everything but its own call.                      *)
Elsewhere ==
    /\ mode' = mode
    /\ rows' \in [Key -> Row \cup {Absent}]
    /\ fresh' \in SUBSET Url /\ FreshInv'
    /\ glitches' \in 0..Glitches /\ (glitches' = 0 => glitches = 0)
    /\ faults' \in 0..DbFaults

(* Every step but the ageing of the cache is the step of one call: it is   *)
(* enough to look at what that call has become.                            *)
LEMMA MoveInv ==
    ASSUME IInv, NEW t \in Task, NEW r \in TaskState,
           task' = [task EXCEPT ![t] = r], Elsewhere, Knows(r), Undisturbed' => Checked(r)
    PROVE  IInv'
<1>1. TypeOK'
    BY DEF IInv, TypeOK, Elsewhere
<1>2. \A s \in Task : task'[s] = IF s = t THEN r ELSE task[s]
    BY DEF IInv, TypeOK
<1>3. KnowsInv'
    BY <1>2 DEF IInv, KnowsInv, Knows
<1>4. \A s \in Task : Checked(task[s])' = IF s = t THEN Checked(r) ELSE Checked(task[s])
    BY <1>2 DEF Checked, Elsewhere
<1>5. CheckedInv'
    BY <1>4 DEF IInv, CheckedInv, Undisturbed, Elsewhere
<1> QED BY <1>1, <1>3, <1>5 DEF IInv, Elsewhere

(* A call that answers.                                                    *)
LEMMA AnswerInv ==
    ASSUME IInv, NEW t \in Task, NEW u \in Url \cup {NoUrl},
           NEW by \in {"", "local_db", "resolver"}, Answer(t, u, by), Elsewhere,
           Undisturbed' /\ by # "" =>
               u \in Url /\ Valid(u) /\ (mode = "always" => Final[u] = u)
    PROVE  IInv'
<1> DEFINE r == [Idle EXCEPT !.at = "answered", !.answer = u, !.found = by]
<1>1. r \in TaskState /\ r.at = "answered" /\ r.answer = u /\ r.found = by
    BY IdleType DEF TaskState, Ended
<1>2. Knows(r)
    BY <1>1 DEF Knows, OnOneKey, Resolving, Administering, WithUrl
<1>3. Undisturbed' => Checked(r)
    BY <1>1 DEF Checked
<1>4. task' = [task EXCEPT ![t] = r]
    BY DEF Answer
<1> HIDE DEF r
<1> QED BY <1>1, <1>2, <1>3, <1>4, MoveInv

(* A call that is over without a URL.                                      *)
LEMMA DoneInv ==
    ASSUME IInv, NEW t \in Task, Done(t), Elsewhere
    PROVE  IInv'
BY AnswerInv DEF Done

(* A call that raises.                                                     *)
LEMMA RaiseInv ==
    ASSUME IInv, NEW t \in Task, Raise(t), Elsewhere
    PROVE  IInv'
<1> DEFINE r == [Idle EXCEPT !.at = "raised"]
<1>1. r \in TaskState /\ r.at = "raised"
    BY IdleType DEF TaskState, Ended
<1>2. Knows(r) /\ Checked(r)
    BY <1>1 DEF Knows, Checked, OnOneKey, Resolving, Administering, WithUrl
<1>3. task' = [task EXCEPT ![t] = r]
    BY DEF Raise
<1> HIDE DEF r
<1> QED BY <1>1, <1>2, <1>3, MoveInv

(* A call that goes on: what it is from then on.                           *)
Onward(t, a, keys, absent, to, have, u, n) ==
    task' = [task EXCEPT ![t].at = a, ![t].keys = keys, ![t].absent = absent,
                         ![t].to = to, ![t].have = have, ![t].url = u, ![t].turn = n]

(* It keeps the invariant if it knows what its next await needs.           *)
LEMMA OnwardInv ==
    ASSUME IInv, NEW t \in Task, Elsewhere,
           NEW a \in Resolving \cup Administering,
           NEW have \in Row \cup {Absent}, NEW u \in Url \cup {NoUrl}, NEW n \in 0..Resolvers,
           NEW keys \in SUBSET Key, NEW absent \in SUBSET Key, NEW to \in SUBSET Key,
           Onward(t, a, keys, absent, to, have, u, n),
           a \in OnOneKey => \E k \in Key : keys = {k},
           a \in {"oldLookup", "select", "apply"} => \E k \in Key : to = {k},
           a \in {"probeStored", "storeMoved", "deleteInvalid", "apply"} => have \in Row,
           a \in WithUrl => u \in Url,
           Undisturbed' /\ a = "storeMoved" => Valid(have.url),
           Undisturbed' /\ a = "store" => Valid(u) /\ (mode = "always" => Final[u] = u)
    PROVE  IInv'
<1> DEFINE r == [task[t] EXCEPT !.at = a, !.keys = keys, !.absent = absent,
                                !.to = to, !.have = have, !.url = u, !.turn = n]
<1>1. task[t] \in TaskState
    BY DEF IInv, TypeOK
<1>2. /\ r \in TaskState /\ r.at = a /\ r.keys = keys /\ r.to = to
      /\ r.have = have /\ r.url = u
    BY <1>1 DEF TaskState
<1>3. Knows(r)
    BY <1>2 DEF Knows
<1>4. Undisturbed' => Checked(r)
    BY <1>2 DEF Checked, Resolving, Administering
<1>5. task' = [task EXCEPT ![t] = r]
    BY <1>1 DEF IInv, TypeOK, TaskState, Onward
<1> HIDE DEF r
<1> QED BY <1>2, <1>3, <1>4, <1>5, MoveInv
(* A call that goes on and learns nothing.                                 *)
LEMMA GotoInv ==
    ASSUME IInv, NEW t \in Task, Elsewhere, NEW a \in Resolving \cup Administering, Goto(t, a),
           a \in OnOneKey => \E k \in Key : task[t].keys = {k},
           a \in {"oldLookup", "select", "apply"} => \E k \in Key : task[t].to = {k},
           a \in {"probeStored", "storeMoved", "deleteInvalid", "apply"} => task[t].have \in Row,
           a \in WithUrl => task[t].url \in Url,
           Undisturbed' /\ a = "storeMoved" => Valid(task[t].have.url),
           Undisturbed' /\ a = "store" =>
               Valid(task[t].url) /\ (mode = "always" => Final[task[t].url] = task[t].url)
    PROVE  IInv'
<1>1. task \in [Task -> TaskState]
    BY DEF IInv, TypeOK
<1>2. /\ task[t].have \in Row \cup {Absent} /\ task[t].url \in Url \cup {NoUrl}
      /\ task[t].turn \in 0..Resolvers /\ task[t].keys \in SUBSET Key
      /\ task[t].absent \in SUBSET Key /\ task[t].to \in SUBSET Key
    BY <1>1 DEF TaskState
<1>3. Onward(t, a, task[t].keys, task[t].absent, task[t].to, task[t].have, task[t].url, task[t].turn)
    BY <1>1 DEF Goto, TaskState, Onward
<1> QED BY <1>2, <1>3, OnwardInv

-----------------------------------------------------------------------------
(* What the steps do elsewhere.                                            *)

(* Calls are records of their type.                                        *)
LEMMA CallTypes == IInv => task \in [Task -> TaskState]
BY DEF IInv, TypeOK

(* The fields of a call have their types.                                  *)
LEMMA Fields ==
    ASSUME IInv, NEW t \in Task
    PROVE  /\ task[t].have \in Row \cup {Absent} /\ task[t].url \in Url \cup {NoUrl}
           /\ task[t].turn \in 0..Resolvers /\ task[t].keys \in SUBSET Key
           /\ task[t].absent \in SUBSET Key /\ task[t].to \in SUBSET Key
           /\ task \in [Task -> TaskState]
           /\ Knows(task[t]) /\ (Undisturbed => Checked(task[t]))
<1>1. task \in [Task -> TaskState]
    BY DEF IInv, TypeOK
<1>2. task[t] \in TaskState
    BY <1>1
<1> QED BY <1>1, <1>2 DEF TaskState, IInv, KnowsInv, CheckedInv

(* Sole gives the element of a singleton.                                  *)
LEMMA SoleFact ==
    ASSUME NEW K, \E k \in Key : K = {k}
    PROVE  Sole(K) \in Key /\ K = {Sole(K)}
BY DEF Sole

(* A row that is there has a URL.                                          *)
LEMMA RowFact ==
    ASSUME IInv, NEW k \in Key
    PROVE  rows[k] \in Row \cup {Absent} /\ (rows[k] # Absent => rows[k] \in Row)
BY DEF IInv, TypeOK

(* The URL of a row; an absent row has none.                               *)
LEMMA RowUrl ==
    ASSUME NEW r \in Row \cup {Absent}
    PROVE  (r \in Row => r.url \in Url) /\ r.url \in Url \cup {NoUrl} /\ (r.url # NoUrl => r \in Row)
BY DEF Row, Absent

(* A statement that raises is counted.                                     *)
LEMMA FaultFact ==
    ASSUME IInv, Fault \/ UNCHANGED faults
    PROVE  faults' \in 0..DbFaults
BY PurlResolutionAssumption DEF IInv, TypeOK, Fault

(* A step that leaves the cache alone.                                     *)
LEMMA StatementElsewhere ==
    ASSUME IInv, Fault \/ UNCHANGED faults, UNCHANGED <<fresh, mode, glitches>>,
           rows' \in [Key -> Row \cup {Absent}]
    PROVE  Elsewhere
BY FaultFact DEF IInv, TypeOK, FreshInv, Elsewhere, Valid

(* A step that changes nothing but its call.                               *)
LEMMA NothingElsewhere ==
    ASSUME IInv, Fault \/ UNCHANGED faults, UNCHANGED <<rows, fresh, mode, glitches>>
    PROVE  Elsewhere
BY StatementElsewhere DEF IInv, TypeOK

(* A validation with or without network failures.                          *)
LEMMA ProbeElsewhere ==
    ASSUME IInv, NEW u \in Url, UNCHANGED <<rows, mode, faults>>,
           \/ UNCHANGED glitches /\ Remember(u)
           \/ Glitch /\ (HeadFailed(u) \/ UNCHANGED fresh)
    PROVE  Elsewhere /\ (Undisturbed' => UNCHANGED glitches)
<1>1. CASE UNCHANGED glitches /\ Remember(u)
    BY <1>1 DEF IInv, TypeOK, FreshInv, Elsewhere, Valid, Remember, CachePut
<1>2. CASE Glitch /\ (HeadFailed(u) \/ UNCHANGED fresh)
    BY <1>2, PurlResolutionAssumption
    DEF IInv, TypeOK, FreshInv, Elsewhere, Glitch, HeadFailed, CachePut, Undisturbed
<1> QED BY <1>1, <1>2

-----------------------------------------------------------------------------
(* The steps of a resolution.                                              *)

(* The chain of resolvers is entered at its first.                         *)
LEMMA ChainInv ==
    ASSUME IInv, NEW t \in Task, Elsewhere, Chain(t), \E k \in Key : task[t].keys = {k}
    PROVE  IInv'
<1>1. Onward(t, "resolver", task[t].keys, task[t].absent, task[t].to, task[t].have, task[t].url, 1)
    BY CallTypes DEF Chain, Onward, TaskState
<1>2. 1 \in 0..Resolvers
    BY PurlResolutionAssumption
<1>3. "resolver" \in Resolving /\ "resolver" \notin WithUrl
    BY DEF Resolving, WithUrl
<1> QED BY <1>1, <1>2, <1>3, Fields, OnwardInv

(* The next resolver is asked, or there is none.                           *)
LEMMA NextResolverInv ==
    ASSUME IInv, NEW t \in Task, Elsewhere, NextResolver(t), \E k \in Key : task[t].keys = {k}
    PROVE  IInv'
<1>1. CASE task[t].turn = Resolvers
    BY <1>1, AnswerInv DEF NextResolver
<1>2. CASE task[t].turn # Resolvers
    <2> DEFINE n == task[t].turn + 1
    <2>1. n \in 0..Resolvers
        BY <1>2, Fields, PurlResolutionAssumption
    <2>2. task' = [task EXCEPT ![t].at = "resolver", ![t].turn = n]
        BY <1>2 DEF NextResolver
    <2> HIDE DEF n
    <2>3. Onward(t, "resolver", task[t].keys, task[t].absent, task[t].to, task[t].have, task[t].url, n)
        BY <2>1, <2>2, CallTypes DEF Onward, TaskState
    <2>4. "resolver" \in Resolving /\ "resolver" \notin WithUrl
        BY DEF Resolving, WithUrl
    <2> QED BY <2>1, <2>3, <2>4, Fields, OnwardInv
<1> QED BY <1>1, <1>2

(* A resolution begins.                                                    *)
LEMMA ResolveInv ==
    ASSUME IInv, NEW t \in Task, NEW k \in Key, Resolve(t, k)
    PROVE  IInv'
<1>1. Elsewhere
    BY NothingElsewhere DEF Resolve, bounds
<1>2. Onward(t, "lookup", {k}, task[t].absent, task[t].to, task[t].have, task[t].url, task[t].turn)
    BY CallTypes DEF Resolve, Onward, TaskState
<1>3. "lookup" \in Resolving /\ "lookup" \notin WithUrl
    BY DEF Resolving, WithUrl
<1> QED BY <1>1, <1>2, <1>3, Fields, OnwardInv

(* The row is looked up: one that is taken without a validation is in the  *)
(* cache, or nothing is validated.                                         *)
LEMMA LookupInv ==
    ASSUME IInv, NEW t \in Task, Lookup(t)
    PROVE  IInv'
<1> DEFINE row == rows[KeyOf(t)]
<1>1. \E k \in Key : task[t].keys = {k}
    BY Fields DEF Lookup, At, Knows, OnOneKey, Resolving
<1>2. KeyOf(t) \in Key
    BY <1>1, SoleFact DEF KeyOf
<1>3. Elsewhere
    BY NothingElsewhere DEF Lookup
<1>4. CASE Chain(t)
    BY <1>1, <1>3, <1>4, ChainInv
<1>5. CASE row # Absent /\ Trusted(row.url) /\ Answer(t, row.url, "local_db")
    <2>1. row.url \in Url
        BY <1>2, <1>5, RowFact, RowUrl
    <2>2. Undisturbed' => Valid(row.url) /\ mode # "always"
        BY <1>3, <1>5 DEF Undisturbed, Elsewhere, Trusted, IInv, FreshInv
    <2> QED BY <1>3, <1>5, <2>1, <2>2, AnswerInv
<1>6. CASE row # Absent /\ task' = [task EXCEPT ![t].at = "probeStored", ![t].have = row]
    <2>1. row \in Row
        BY <1>2, <1>6, RowFact
    <2> HIDE DEF row
    <2>2. Onward(t, "probeStored", task[t].keys, task[t].absent, task[t].to, row, task[t].url, task[t].turn)
        BY <1>6, <2>1, CallTypes DEF Onward, TaskState
    <2>3. "probeStored" \in Resolving /\ "probeStored" \notin WithUrl
        BY DEF Resolving, WithUrl
    <2> QED BY <1>1, <1>3, <2>1, <2>2, <2>3, Fields, OnwardInv
<1> QED BY <1>4, <1>5, <1>6 DEF Lookup

(* The stored URL is validated.                                            *)
LEMMA ProbeStoredInv ==
    ASSUME IInv, NEW t \in Task, ProbeStored(t)
    PROVE  IInv'
<1>1. task[t].have \in Row /\ Have(t) \in Url /\ \E k \in Key : task[t].keys = {k}
    BY Fields, RowUrl DEF ProbeStored, At, Knows, OnOneKey, Resolving, Have
<1>2. Elsewhere /\ (Undisturbed' => UNCHANGED glitches)
    BY <1>1, ProbeElsewhere DEF ProbeStored
<1>3. CASE Valid(Have(t)) /\ Final[Have(t)] = Have(t) /\ Answer(t, Have(t), "local_db")
    BY <1>1, <1>2, <1>3, AnswerInv
<1>4. CASE Answer(t, Have(t), "local_db") /\ Glitch
    <2>1. ~Undisturbed'
        BY <1>2, <1>4 DEF Glitch, IInv, TypeOK
    <2> QED BY <1>1, <1>2, <1>4, <2>1, AnswerInv
<1>5. CASE Goto(t, "storeMoved") /\ Valid(Have(t))
    BY <1>1, <1>2, <1>5, GotoInv DEF Resolving, Administering, WithUrl, Have
<1>6. CASE Goto(t, "deleteInvalid")
    BY <1>1, <1>2, <1>6, GotoInv DEF Resolving, Administering, WithUrl
<1>7. CASE Chain(t)
    BY <1>1, <1>2, <1>7, ChainInv
<1> QED BY <1>3, <1>4, <1>5, <1>6, <1>7 DEF ProbeStored

(* The row moves to its final URL.                                         *)
LEMMA StoreMovedInv ==
    ASSUME IInv, NEW t \in Task, StoreMoved(t)
    PROVE  IInv'
<1>1. /\ task[t].have \in Row /\ Have(t) \in Url
      /\ Final[Have(t)] \in Url /\ Final[Final[Have(t)]] = Final[Have(t)]
    BY Fields, RowUrl, FinalFacts DEF StoreMoved, At, Knows, Have
<1>2. rows' \in [Key -> Row \cup {Absent}]
    BY <1>1 DEF StoreMoved, BestEffort, Put, IInv, TypeOK, Row
<1>3. Elsewhere
    BY <1>2, StatementElsewhere DEF StoreMoved, BestEffort
<1>4. Undisturbed' => Valid(Final[Have(t)])
    BY <1>1, <1>3, Fields, FinalFacts DEF StoreMoved, At, Checked, Undisturbed, Elsewhere, Have
<1> QED BY <1>1, <1>3, <1>4, AnswerInv DEF StoreMoved

(* An invalid row is deleted.                                              *)
LEMMA DeleteInvalidInv ==
    ASSUME IInv, NEW t \in Task, DeleteInvalid(t)
    PROVE  IInv'
<1>1. \E k \in Key : task[t].keys = {k}
    BY Fields DEF DeleteInvalid, At, Knows, OnOneKey, Resolving
<1>2. rows' \in [Key -> Row \cup {Absent}]
    BY DEF DeleteInvalid, BestEffort, Remove, IInv, TypeOK
<1>3. Elsewhere
    BY <1>2, StatementElsewhere DEF DeleteInvalid, BestEffort
<1> QED BY <1>1, <1>3, ChainInv DEF DeleteInvalid

(* A resolver answers; a URL that is stored unvalidated is in the cache,   *)
(* or nothing is validated.                                                *)
LEMMA AskResolverInv ==
    ASSUME IInv, NEW t \in Task, AskResolver(t)
    PROVE  IInv'
<1>1. Elsewhere /\ (Undisturbed' => Undisturbed)
    BY NothingElsewhere DEF AskResolver, bounds, Undisturbed
<1>2. \E k \in Key : task[t].keys = {k}
    BY Fields DEF AskResolver, At, Knows, OnOneKey, Resolving
<1>3. CASE Done(t)
    BY <1>1, <1>3, DoneInv
<1>4. CASE Raise(t)
    BY <1>1, <1>4, RaiseInv
<1>5. CASE NextResolver(t)
    BY <1>1, <1>2, <1>5, NextResolverInv
<1>6. ASSUME NEW u \in Url,
             task' = [task EXCEPT ![t].url = u,
                                  ![t].at = IF Trusted(u) THEN "store" ELSE "probeFresh"]
      PROVE  IInv'
    <2> DEFINE a == IF Trusted(u) THEN "store" ELSE "probeFresh"
    <2>1. a \in Resolving /\ a \in {"store", "probeFresh"}
        BY DEF Resolving
    <2>2. Undisturbed' /\ a = "store" => Valid(u) /\ mode # "always"
        BY <1>1 DEF Undisturbed, Trusted, IInv, FreshInv
    <2>3. task' = [task EXCEPT ![t].at = a, ![t].url = u]
        BY <1>6, Fields DEF TaskState
    <2> HIDE DEF a
    <2>4. Onward(t, a, task[t].keys, task[t].absent, task[t].to, task[t].have, u, task[t].turn)
        BY <2>3, CallTypes DEF Onward, TaskState
    <2> QED BY <1>1, <1>2, <2>1, <2>2, <2>4, Fields, OnwardInv
<1> QED BY <1>3, <1>4, <1>5, <1>6 DEF AskResolver

(* A fresh URL is taken.                                                   *)
LEMMA TakeInv ==
    ASSUME IInv, NEW t \in Task, Elsewhere, NEW f \in Url, \E k \in Key : task[t].keys = {k},
           task' = [task EXCEPT ![t].at = "store", ![t].url = f],
           Undisturbed' => Valid(f) /\ (mode = "always" => Final[f] = f)
    PROVE  IInv'
<1>1. Onward(t, "store", task[t].keys, task[t].absent, task[t].to, task[t].have, f, task[t].turn)
    BY CallTypes DEF Onward, TaskState
<1>2. "store" \in Resolving \cup Administering
    BY DEF Resolving
<1>3. f \in Url \cup {NoUrl}
    OBVIOUS
<1>4. /\ task[t].have \in Row \cup {Absent} /\ task[t].turn \in 0..Resolvers
      /\ task[t].keys \in SUBSET Key /\ task[t].absent \in SUBSET Key /\ task[t].to \in SUBSET Key
    BY Fields
<1> QED BY <1>1, <1>2, <1>3, <1>4, OnwardInv

(* A fresh URL is validated.                                               *)
LEMMA ProbeFreshInv ==
    ASSUME IInv, NEW t \in Task, ProbeFresh(t)
    PROVE  IInv'
<1> DEFINE u == task[t].url
           Take(f) == task' = [task EXCEPT ![t].at = "store", ![t].url = f]
<1>1. u \in Url /\ Final[u] \in Url /\ \E k \in Key : task[t].keys = {k}
    BY Fields, FinalFacts DEF ProbeFresh, At, Knows, OnOneKey, Resolving, WithUrl
<1>2. Elsewhere /\ (Undisturbed' => UNCHANGED glitches)
    BY <1>1, ProbeElsewhere DEF ProbeFresh
<1>3. ASSUME NEW f \in Url, Take(f),
             Undisturbed' => Valid(f) /\ (mode = "always" => Final[f] = f)
      PROVE  IInv'
    BY <1>1, <1>2, <1>3, TakeInv
<1>4. CASE Valid(u) /\ Take(Final[u])
    BY <1>1, <1>3, <1>4, FinalFacts
<1>5. CASE Glitch /\ (Take(u) \/ Take(Final[u]))
    <2>1. ~Undisturbed'
        BY <1>2, <1>5 DEF Glitch, IInv, TypeOK
    <2> QED BY <1>1, <1>3, <1>5, <2>1
<1>6. CASE NextResolver(t)
    BY <1>1, <1>2, <1>6, NextResolverInv
<1>7. CASE Raise(t)
    BY <1>2, <1>7, RaiseInv
<1> HIDE DEF u, Take
<1> QED BY <1>4, <1>5, <1>6, <1>7 DEF ProbeFresh, u, Take

(* The answer is stored.                                                   *)
LEMMA StoreInv ==
    ASSUME IInv, NEW t \in Task, Store(t)
    PROVE  IInv'
<1>1. task[t].url \in Url
    BY Fields DEF Store, At, Knows, WithUrl
<1>2. rows' \in [Key -> Row \cup {Absent}]
    BY <1>1 DEF Store, BestEffort, Put, IInv, TypeOK, Row, Origin
<1>3. Elsewhere
    BY <1>2, StatementElsewhere DEF Store, BestEffort
<1>4. Undisturbed' => Valid(task[t].url) /\ (mode = "always" => Final[task[t].url] = task[t].url)
    BY <1>3, Fields DEF Store, At, Checked, Undisturbed, Elsewhere
<1> QED BY <1>1, <1>3, <1>4, AnswerInv DEF Store

-----------------------------------------------------------------------------
(* The steps of the other calls.                                           *)

(* The fields that the beginning of a call does not set keep their value.  *)
LEMMA BeginForm ==
    ASSUME task \in [Task -> TaskState], NEW t \in Task, NEW a, NEW K, NEW to, NEW u,
           task' = [task EXCEPT ![t].at = a, ![t].keys = K, ![t].to = to, ![t].url = u]
    PROVE  Onward(t, a, K, task[t].absent, to, task[t].have, u, task[t].turn)
<1>1. task[t] \in TaskState
    OBVIOUS
<1>2. [task[t] EXCEPT !.at = a, !.keys = K, !.to = to, !.url = u] =
      [task[t] EXCEPT !.at = a, !.keys = K, !.absent = task[t].absent, !.to = to,
                      !.have = task[t].have, !.url = u, !.turn = task[t].turn]
    BY <1>1 DEF TaskState
<1> QED BY <1>2 DEF Onward

(* A call begins with a PURL or several, and a URL if it needs one.        *)
LEMMA CallInv ==
    ASSUME IInv, NEW t \in Task, Call(t)
    PROVE  IInv'
<1>1. Elsewhere
    BY NothingElsewhere DEF Call, Begin, bounds
<1>2. ASSUME NEW a \in Administering \ {"select", "apply"}, NEW K \in SUBSET Key,
             NEW to \in SUBSET Key, NEW u \in Url \cup {NoUrl}, Begin(t, a, K, to, u),
             a \in OnOneKey => \E k \in Key : K = {k},
             a = "oldLookup" => \E k \in Key : to = {k},
             a \in WithUrl => u \in Url
      PROVE  IInv'
    <2>0. task' = [task EXCEPT ![t].at = a, ![t].keys = K, ![t].to = to, ![t].url = u]
        BY <1>2 DEF Begin
    <2>1. Onward(t, a, K, task[t].absent, to, task[t].have, u, task[t].turn)
        BY <2>0, CallTypes, BeginForm
    <2>2. /\ a \in Resolving \cup Administering /\ a # "store" /\ a # "storeMoved"
          /\ a \notin {"probeStored", "storeMoved", "deleteInvalid", "apply"}
          /\ a \in {"oldLookup", "select", "apply"} => a = "oldLookup"
        BY DEF Administering
    <2>3. a \in {"oldLookup", "select", "apply"} => \E k \in Key : to = {k}
        BY <1>2, <2>2
    <2>4. a \in {"probeStored", "storeMoved", "deleteInvalid", "apply"} => task[t].have \in Row
        BY <2>2
    <2>5. Undisturbed' /\ a = "storeMoved" => Valid(task[t].have.url)
        BY <2>2
    <2>6. Undisturbed' /\ a = "store" => Valid(u) /\ (mode = "always" => Final[u] = u)
        BY <2>2
    <2> QED BY ONLY IInv, t \in Task, <1>1, <1>2, <2>1, <2>2, <2>3, <2>4, <2>5, <2>6, Fields, OnwardInv
<1>3. ASSUME NEW k \in Key, NEW u \in Url,
             Begin(t, "refLookup", {k}, {}, u) \/ Begin(t, "newLookup", {k}, {}, u)
      PROVE  IInv'
    BY <1>2, <1>3 DEF Administering
<1>4. ASSUME NEW k \in Key, NEW to \in Key, NEW u \in Url \cup {NoUrl},
             Begin(t, "oldLookup", {k}, {to}, u)
      PROVE  IInv'
    BY <1>2, <1>4 DEF Administering, WithUrl
<1>5. ASSUME NEW K \in SUBSET Key, NEW u \in Url,
             Begin(t, "skipLookup", K, {}, u) \/ Begin(t, "upsert", K, {}, u)
      PROVE  IInv'
    BY <1>2, <1>5 DEF Administering, OnOneKey
<1>6. ASSUME NEW K \in SUBSET Key, Begin(t, "delete", K, {}, NoUrl)
      PROVE  IInv'
    BY <1>2, <1>6 DEF Administering, OnOneKey, WithUrl
<1> QED BY <1>3, <1>4, <1>5, <1>6 DEF Call

(* A statement that raises, or a cancellation, ends the call.              *)
LEMMA AbortInv ==
    ASSUME IInv, NEW t \in Task, Abort(t) \/ Cancelled(t)
    PROVE  IInv'
<1>1. Elsewhere /\ Raise(t)
    BY NothingElsewhere DEF Abort, Cancelled, bounds
<1> QED BY <1>1, RaiseInv

(* A reference of an SBOM.                                                 *)
LEMMA RefInv ==
    ASSUME IInv, NEW t \in Task, RefLookup(t) \/ RefStore(t)
    PROVE  IInv'
<1>1. task[t].url \in Url /\ \E k \in Key : task[t].keys = {k}
    BY Fields DEF RefLookup, RefStore, Statement, At, Knows, OnOneKey, Administering, WithUrl
<1>2. rows' \in [Key -> Row \cup {Absent}]
    BY <1>1 DEF RefLookup, RefStore, Put, IInv, TypeOK, Row, Origin
<1>3. Elsewhere
    BY <1>2, StatementElsewhere DEF RefLookup, RefStore, Statement
<1>4. CASE Done(t)
    BY <1>3, <1>4, DoneInv
<1>5. CASE Goto(t, "refStore")
    BY <1>1, <1>3, <1>5, GotoInv DEF Administering
<1> QED BY <1>4, <1>5 DEF RefLookup, RefStore

(* A creation.                                                             *)
LEMMA NewInv ==
    ASSUME IInv, NEW t \in Task, NewLookup(t) \/ NewInsert(t)
    PROVE  IInv'
<1>1. task[t].url \in Url /\ \E k \in Key : task[t].keys = {k}
    BY Fields DEF NewLookup, NewInsert, Statement, At, Knows, OnOneKey, Administering, WithUrl
<1>2. rows' \in [Key -> Row \cup {Absent}]
    BY <1>1 DEF NewLookup, NewInsert, Put, IInv, TypeOK, Row, Origin
<1>3. Elsewhere
    BY <1>2, StatementElsewhere DEF NewLookup, NewInsert, Statement
<1>4. CASE Done(t)
    BY <1>3, <1>4, DoneInv
<1>5. CASE Goto(t, "newInsert")
    BY <1>1, <1>3, <1>5, GotoInv DEF Administering
<1> QED BY <1>4, <1>5 DEF NewLookup, NewInsert

(* An import.                                                              *)
LEMMA ImportInv ==
    ASSUME IInv, NEW t \in Task, SkipLookup(t) \/ Upsert(t)
    PROVE  IInv'
<1>1. task[t].url \in Url
    BY Fields DEF SkipLookup, Upsert, Statement, At, Knows, WithUrl
<1>2. CASE SkipLookup(t)
    <2>1. PICK k \in task[t].keys :
              LET left == task[t].keys \ {k}
                  missing == task[t].absent \cup {x \in {k} : rows[x] = Absent} IN
              task' = [task EXCEPT ![t].at = IF left = {} THEN "upsert" ELSE "skipLookup",
                                   ![t].keys = IF left = {} THEN missing ELSE left,
                                   ![t].absent = missing]
        BY <1>2 DEF SkipLookup
    <2> DEFINE left == task[t].keys \ {k}
               missing == task[t].absent \cup {x \in {k} : rows[x] = Absent}
               a == IF left = {} THEN "upsert" ELSE "skipLookup"
               K == IF left = {} THEN missing ELSE left
    <2>2. missing \in SUBSET Key /\ K \in SUBSET Key
        BY Fields
    <2>3. a \in Administering /\ a \in {"upsert", "skipLookup"}
        BY DEF Administering
    <2>4. task' = [task EXCEPT ![t].at = a, ![t].keys = K, ![t].absent = missing]
        BY <2>1
    <2> HIDE DEF left, missing, a, K
    <2>5. Onward(t, a, K, missing, task[t].to, task[t].have, task[t].url, task[t].turn)
        BY <2>2, <2>4, CallTypes DEF Onward, TaskState
    <2>6. Elsewhere
        BY <1>2, NothingElsewhere DEF SkipLookup, Statement
    <2>7. a \notin OnOneKey
        BY <2>3 DEF OnOneKey
    <2> QED BY <1>1, <2>2, <2>3, <2>5, <2>6, <2>7, Fields, OnwardInv
<1>3. CASE Upsert(t)
    <2>1. rows' \in [Key -> Row \cup {Absent}]
        BY <1>1, <1>3 DEF Upsert, IInv, TypeOK, Row, Origin
    <2>2. Elsewhere
        BY <1>3, <2>1, StatementElsewhere DEF Upsert, Statement
    <2> QED BY <1>3, <2>2, DoneInv DEF Upsert
<1> QED BY <1>2, <1>3

(* An update up to its SELECT.                                             *)
LEMMA OldLookupInv ==
    ASSUME IInv, NEW t \in Task, OldLookup(t)
    PROVE  IInv'
<1> DEFINE u == IF task[t].url = NoUrl THEN rows[KeyOf(t)].url ELSE task[t].url
<1>1. (\E k \in Key : task[t].keys = {k}) /\ (\E k \in Key : task[t].to = {k})
    BY Fields DEF OldLookup, Statement, At, Knows, OnOneKey, Administering
<1>2. KeyOf(t) \in Key
    BY <1>1, SoleFact DEF KeyOf
<1>3. u \in Url \cup {NoUrl}
    BY <1>2, Fields, RowFact, RowUrl
<1>4. Elsewhere
    BY NothingElsewhere DEF OldLookup, Statement
<1>5. CASE Done(t)
    BY <1>4, <1>5, DoneInv
<1>6. CASE u # NoUrl /\ task' = [task EXCEPT ![t].at = "select", ![t].url = u]
    <2> HIDE DEF u
    <2>1. Onward(t, "select", task[t].keys, task[t].absent, task[t].to, task[t].have, u, task[t].turn)
        BY <1>3, <1>6, CallTypes DEF Onward, TaskState
    <2>2. "select" \in Administering /\ u \in Url
        BY <1>3, <1>6 DEF Administering
    <2> QED BY <1>1, <1>4, <2>1, <2>2, Fields, OnwardInv
<1> QED BY <1>5, <1>6 DEF OldLookup

(* The SELECT of an update.                                                *)
LEMMA SelectInv ==
    ASSUME IInv, NEW t \in Task, Select(t)
    PROVE  IInv'
<1> DEFINE row == rows[KeyOf(t)]
<1>1. /\ (\E k \in Key : task[t].keys = {k}) /\ (\E k \in Key : task[t].to = {k})
      /\ task[t].url \in Url
    BY Fields DEF Select, Statement, At, Knows, OnOneKey, Administering, WithUrl
<1>2. KeyOf(t) \in Key
    BY <1>1, SoleFact DEF KeyOf
<1>3. Elsewhere
    BY NothingElsewhere DEF Select, Statement
<1>4. CASE Done(t)
    BY <1>3, <1>4, DoneInv
<1>5. CASE row # Absent /\ task' = [task EXCEPT ![t].at = "apply", ![t].have = row]
    <2>1. row \in Row
        BY <1>2, <1>5, RowFact
    <2> HIDE DEF row
    <2>2. Onward(t, "apply", task[t].keys, task[t].absent, task[t].to, row, task[t].url, task[t].turn)
        BY <1>5, <2>1, CallTypes DEF Onward, TaskState
    <2>3. "apply" \in Administering
        BY DEF Administering
    <2> QED BY <1>1, <1>3, <2>1, <2>2, <2>3, Fields, OnwardInv
<1> QED BY <1>4, <1>5 DEF Select

(* What an update has when it writes.                                      *)
LEMMA ApplyFacts ==
    ASSUME IInv, NEW t \in Task, task[t].at = "apply"
    PROVE  /\ KeyOf(t) \in Key /\ task[t].keys = {KeyOf(t)} /\ Sole(task[t].to) \in Key
           /\ [task[t].have EXCEPT !.url = task[t].url] \in Row
           /\ task[t].url \in Url
<1>1. /\ (\E k \in Key : task[t].keys = {k}) /\ (\E k \in Key : task[t].to = {k})
      /\ task[t].have \in Row /\ task[t].url \in Url
    BY Fields DEF Knows, OnOneKey, Administering, WithUrl
<1> QED BY <1>1, SoleFact DEF KeyOf, Row

(* The UPDATE, or the DELETE and INSERT.                                   *)
LEMMA ApplyInv ==
    ASSUME IInv, NEW t \in Task, Apply(t)
    PROVE  IInv'
<1> DEFINE k == KeyOf(t)
           to == Sole(task[t].to)
           row == [task[t].have EXCEPT !.url = task[t].url]
<1>1. k \in Key /\ to \in Key /\ row \in Row /\ task[t].url \in Url
    BY ApplyFacts DEF Apply, Statement, At
<1>2. rows \in [Key -> Row \cup {Absent}]
    BY DEF IInv, TypeOK
<1>3. rows[k] # Absent => [rows[k] EXCEPT !.url = task[t].url] \in Row
    BY <1>1, RowFact DEF Row
<1>4. \/ rows' = [rows EXCEPT ![k] = IF @ = Absent THEN @ ELSE [@ EXCEPT !.url = task[t].url]]
      \/ rows' = [rows EXCEPT ![k] = Absent, ![to] = row]
      \/ rows' = rows
    BY DEF Apply, Moved
<1> HIDE DEF k, to, row
<1>5. rows' \in [Key -> Row \cup {Absent}]
    BY <1>1, <1>2, <1>3, <1>4
<1>6. Elsewhere
    BY <1>5, StatementElsewhere DEF Apply, Statement
<1> QED BY <1>6, DoneInv, RaiseInv DEF Apply

(* A deletion.                                                             *)
LEMMA DeleteInv ==
    ASSUME IInv, NEW t \in Task, Delete(t)
    PROVE  IInv'
<1>1. rows' \in [Key -> Row \cup {Absent}]
    BY DEF Delete, Remove, IInv, TypeOK
<1>2. Elsewhere
    BY <1>1, StatementElsewhere DEF Delete, Statement
<1> QED BY <1>2, DoneInv DEF Delete

-----------------------------------------------------------------------------
(* Every step, and every behaviour.                                        *)

(* Entries of the cache get too old.                                       *)
LEMMA ExpireInv == IInv /\ Expire => IInv'
BY DEF Expire, bounds, IInv, TypeOK, FreshInv, KnowsInv, CheckedInv, Undisturbed, Checked, Valid

(* Every step keeps the invariant.                                         *)
LEMMA NextInv == IInv /\ [Next]_vars => IInv'
<1> SUFFICES ASSUME IInv, [Next]_vars PROVE IInv'
    OBVIOUS
<1>1. ASSUME NEW t \in Task, ResolveStep(t) PROVE IInv'
    BY <1>1, LookupInv, ProbeStoredInv, StoreMovedInv, DeleteInvalidInv, AskResolverInv,
       ProbeFreshInv, StoreInv DEF ResolveStep
<1>2. ASSUME NEW t \in Task, CallStep(t) PROVE IInv'
    BY <1>2, RefInv, NewInv, ImportInv, OldLookupInv, SelectInv, ApplyInv, DeleteInv DEF CallStep
<1>3. ASSUME NEW t \in Task, Call(t) \/ Abort(t) \/ Cancelled(t) PROVE IInv'
    BY <1>3, CallInv, AbortInv
<1>4. ASSUME NEW t \in Task, NEW k \in Key, Resolve(t, k) PROVE IInv'
    BY <1>4, ResolveInv
<1>5. CASE Expire
    BY <1>5, ExpireInv
<1>6. CASE UNCHANGED vars
    BY <1>6, StutterInv
<1> QED BY <1>1, <1>2, <1>3, <1>4, <1>5, <1>6 DEF Next

(* The invariant of the resolution table: what each call knows in the      *)
(* await it is in, and where a URL is known to be good.                    *)
THEOREM ResolutionInvariant == Spec => []IInv
<1>1. Init => IInv
    BY InitInv
<1>2. IInv /\ [Next]_vars => IInv'
    BY NextInv
<1> QED BY <1>1, <1>2, PTL DEF Spec

(* Every variable keeps its type.                                          *)
THEOREM ResolutionTypes == Spec => []TypeOK
<1>1. IInv => TypeOK
    BY DEF IInv
<1> QED BY <1>1, ResolutionInvariant, PTL

(* No resolution answers with a URL behind which there is no repository.   *)
THEOREM GoodAnswers == Spec => []AnswersAreGood
<1>1. IInv => AnswersAreGood
    BY DEF IInv, CheckedInv, Undisturbed, Checked, AnswersAreGood, Answered
<1> QED BY <1>1, ResolutionInvariant, PTL

(* Without a cooldown no resolution answers with a URL that redirects.     *)
THEOREM FinalAnswers == Spec => []AnswersAreFinal
<1>1. IInv => AnswersAreFinal
    BY DEF IInv, CheckedInv, Undisturbed, Checked, AnswersAreFinal, Answered
<1> QED BY <1>1, ResolutionInvariant, PTL

-----------------------------------------------------------------------------
(* Renaming.                                                               *)

StepOf(t) ==
    ResolveStep(t) \/ Call(t) \/ CallStep(t) \/ Abort(t) \/ Cancelled(t) \/ \E k \in Key : Resolve(t, k)

(* A step of one call leaves the state of the others alone.                *)
LEMMA OwnState ==
    ASSUME IInv, NEW s \in Task, StepOf(s), NEW t \in Task, t # s
    PROVE  task'[t] = task[t]
<1>1. task \in [Task -> TaskState]
    BY DEF IInv, TypeOK
<1>2. CASE ResolveStep(s)
    BY <1>1, <1>2 DEF ResolveStep, Lookup, ProbeStored, StoreMoved, DeleteInvalid, AskResolver,
       ProbeFresh, Store, Chain, NextResolver, Answer, Done, Raise, Goto
<1>3. CASE CallStep(s)
    BY <1>1, <1>3 DEF CallStep, RefLookup, RefStore, NewLookup, NewInsert, SkipLookup, Upsert,
       OldLookup, Select, Apply, Delete, Answer, Done, Raise, Goto
<1>4. CASE Call(s) \/ Abort(s) \/ Cancelled(s) \/ \E k \in Key : Resolve(s, k)
    BY <1>1, <1>4 DEF Call, Begin, Abort, Cancelled, Resolve, Raise
<1> QED BY <1>2, <1>3, <1>4 DEF StepOf

(* An update that is about to write writes, or ends.                       *)
LEMMA ApplyOnly ==
    ASSUME IInv, NEW t \in Task, task[t].at = "apply", StepOf(t)
    PROVE  Apply(t) \/ UNCHANGED rows
<1>1. ~ResolveStep(t)
    BY DEF ResolveStep, Lookup, ProbeStored, StoreMoved, DeleteInvalid, AskResolver,
       ProbeFresh, Store, At
<1>2. CallStep(t) => Apply(t)
    BY DEF CallStep, RefLookup, RefStore, NewLookup, NewInsert, SkipLookup, Upsert,
       OldLookup, Select, Delete, Statement, At
<1>3. Call(t) \/ Abort(t) \/ Cancelled(t) \/ (\E k \in Key : Resolve(t, k)) => UNCHANGED rows
    BY DEF Call, Begin, Abort, Cancelled, Resolve
<1> QED BY <1>1, <1>2, <1>3 DEF StepOf

(* What an update writes is its own row, and one that was absent.          *)
LEMMA ApplyWrites ==
    ASSUME IInv, NEW t \in Task, Apply(t), NEW k \in Key, {k} # task[t].keys
    PROVE  rows[k] \in {Absent, rows'[k]}
<1> DEFINE own == KeyOf(t)
           to == Sole(task[t].to)
           row == [task[t].have EXCEPT !.url = task[t].url]
<1>1. own \in Key /\ to \in Key /\ k # own
    BY ApplyFacts DEF Apply, Statement, At
<1>2. rows \in [Key -> Row \cup {Absent}]
    BY DEF IInv, TypeOK
<1>3. \/ rows' = [rows EXCEPT ![own] = IF @ = Absent THEN @ ELSE [@ EXCEPT !.url = task[t].url]]
      \/ rows[to] = Absent /\ rows' = [rows EXCEPT ![own] = Absent, ![to] = row]
      \/ rows' = rows
    BY DEF Apply, Moved
<1> HIDE DEF own, to, row
<1> QED BY <1>1, <1>2, <1>3

(* Renaming a row never destroys the row of another PURL.                  *)
THEOREM RenamesAreSafe == Spec => RenameKeepsOthers
<1> DEFINE Safe == \A t \in Task : \A k \in Key :
                      task[t].at = "apply" /\ task'[t] # task[t] /\ {k} # task[t].keys =>
                          rows[k] \in {Absent, rows'[k]}
<1>1. IInv /\ [Next]_vars => [Safe]_vars
    <2> SUFFICES ASSUME IInv, Next, NEW t \in Task, NEW k \in Key,
                        task[t].at = "apply", task'[t] # task[t], {k} # task[t].keys
                 PROVE  rows[k] \in {Absent, rows'[k]}
        OBVIOUS
    <2>1. ~Expire
        BY DEF Expire
    <2>2. PICK s \in Task : StepOf(s)
        BY <2>1 DEF Next, StepOf
    <2>3. s = t
        BY <2>2, OwnState
    <2>4. Apply(t) \/ UNCHANGED rows
        BY <2>2, <2>3, ApplyOnly
    <2> QED BY <2>4, ApplyWrites
<1> QED BY <1>1, ResolutionInvariant, PTL DEF Spec, RenameKeepsOthers
=============================================================================
