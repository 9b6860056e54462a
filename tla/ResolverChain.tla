---------------------------- MODULE ResolverChain ----------------------------
(***************************************************************************)
(* The resolvers at work (resolver/*.py and the loop over them in          *)
(* PurlResolutionService.resolve_purl), beside the requests that change    *)
(* the settings.  A resolution goes through the chain that was in force    *)
(* when it began, though a PATCH may put another one in force meanwhile:   *)
(* a resolver belongs to the chain it was built for, and so do its rate    *)
(* limiter and its retry configuration.                                    *)
(*                                                                         *)
(* Time is the order of things: a granted request opens an interval of the *)
(* limiter, which ends later, the intervals of one resolver in their order.*)
(***************************************************************************)
EXTENDS Settings, FiniteSets

CONSTANTS Task,        \* resolutions, the numbers from 1
          Generations, \* bound: how many chains are built
          Events       \* bound: how many requests, failed writes, deaths there are in all, and resolutions,
                       \* which count twice

ASSUME ChainAssumption == Task \subseteq Nat /\ Request \subseteq Nat /\ Generations \in Nat /\ Events \in Nat

VARIABLES step,        \* what a resolution is about to do or awaits
          outcome,     \* what it has ended with
          type,        \* the type of its package
          held,        \* the chain it goes through
          gen,         \* the generation of that chain
          at,          \* the resolver it asks, or asked last
          fetch,       \* which of the requests of one resolver it is at
          attempt,     \* which attempt at that request
          log,         \* for checking: the results of the attempts before the last, and of the last
          waitsFor,    \* the grant that the limiter had made last when it looked
          granted,     \* how many requests a limiter has granted
          open         \* the grants whose interval is not over
callVars == <<step, outcome, type, held, gen, at, fetch, attempt, log, waitsFor, granted, open>>
vars == <<settingsVars, callVars>>

Limited == {"depsdev", "ecosystems", "librariesio"}
Limiter == (1..Generations) \X Limited
NoLog == [before |-> {}, last |-> "none"]

\* Mutant: the loop looks the chain up anew for every resolver.
ChainOfMutant(t) == chain
ChainOf(t) == held[t]

Asked(t) == ChainOf(t)[at[t]]
LimiterOf(t) == <<gen[t], Asked(t).kind>>

\* The ecosystem tables: which packages a resolver knows.
Supports(kind, ty) ==
  CASE kind \in {"depsdev", "librariesio"} -> ty = "pypi"
    [] kind = "apk" -> ty = "apk"
    [] OTHER -> TRUE

-----------------------------------------------------------------------------
Goes(t, s) == step' = [step EXCEPT ![t] = s] /\ UNCHANGED outcome
Over(t, o) == step' = [step EXCEPT ![t] = "over"] /\ outcome' = [outcome EXCEPT ![t] = o]

Result(t, r) == log' = [log EXCEPT ![t] = [before |-> @.before \cup ({@.last} \ {"none"}), last |-> r]]

\* A URL is returned, unless its validation finds it invalid: then the next resolver is asked.
Found(t) == Goes(t, "ask") \/ Over(t, "found")

Hold(t) ==
  /\ up /\ step[t] = "idle"
  /\ \E ty \in {"pypi", "apk"} : type' = [type EXCEPT ![t] = ty]
  /\ held' = [held EXCEPT ![t] = chain] /\ gen' = [gen EXCEPT ![t] = generation]
  /\ Goes(t, "ask")
  /\ UNCHANGED <<settingsVars, at, fetch, attempt, log, waitsFor, granted, open>>

\* The for loop: the next resolver is asked, or none has found a repository.
Ask(t) ==
  /\ step[t] = "ask"
  /\ \/ /\ at[t] >= Len(ChainOf(t)) /\ Over(t, "none")
        /\ UNCHANGED <<at, fetch, attempt, log>>
     \/ /\ at[t] < Len(ChainOf(t))
        /\ at' = [at EXCEPT ![t] = @ + 1]
        /\ fetch' = [fetch EXCEPT ![t] = 1] /\ attempt' = [attempt EXCEPT ![t] = 1]
        /\ log' = [log EXCEPT ![t] = NoLog]
        /\ LET kind == ChainOf(t)[at[t] + 1].kind
           IN IF ~Supports(kind, type[t]) THEN Goes(t, "ask")
              ELSE CASE kind = "purl2repo" -> Goes(t, "thread")
                     [] kind = "apk" -> Found(t)
                     [] kind = "llm" -> Goes(t, "prompt")
                     [] kind \in Limited -> Goes(t, "limit")
  /\ UNCHANGED <<settingsVars, type, held, gen, waitsFor, granted, open>>

\* Purl2RepoResolver.resolve: the library's answer, from a thread.
Purl2Repo(t) ==
  /\ step[t] = "thread"
  /\ Found(t) \/ Goes(t, "ask") \/ Over(t, "invalid_purl") \/ Over(t, "upstream_error")
  /\ UNCHANGED <<settingsVars, type, held, gen, at, fetch, attempt, log, waitsFor, granted, open>>

-----------------------------------------------------------------------------
(* The HTTP resolvers: _rate_limit_wait, RetryHelper.execute, the answer *)

Grant(t) ==
  /\ granted' = [granted EXCEPT ![LimiterOf(t)] = @ + 1]
  /\ open' = open \cup {<<LimiterOf(t), granted[LimiterOf(t)] + 1>>}
  /\ Goes(t, "request")

\* Mutant: the limiter only remembers when it made a request and never waits.
FreeMutant(i, n) == TRUE
Free(i, n) == <<i, n>> \notin open

\* _rate_limit_wait looks when the last request was: it is granted at once, or sleeps.
LimiterLooks(t) ==
  /\ step[t] = "limit"
  /\ LET i == LimiterOf(t)
     IN /\ waitsFor' = [waitsFor EXCEPT ![t] = granted[i]]
        /\ \/ Free(i, granted[i]) /\ Grant(t)
           \/ ~Free(i, granted[i]) /\ Goes(t, "sleep") /\ UNCHANGED <<granted, open>>
  /\ UNCHANGED <<settingsVars, type, held, gen, at, fetch, attempt, log>>

\* The sleep is over when the interval is that it was computed for; others may have been granted
\* their request meanwhile.
LimiterWakes(t) ==
  /\ step[t] = "sleep" /\ Free(LimiterOf(t), waitsFor[t])
  /\ Grant(t)
  /\ UNCHANGED <<settingsVars, type, held, gen, at, fetch, attempt, log, waitsFor>>

Elapse(i) ==
  /\ \E n \in 1..granted[i] : /\ <<i, n>> \in open /\ \A m \in 1..(n - 1) : <<i, m>> \notin open
                              /\ open' = open \ {<<i, n>>}
  /\ UNCHANGED <<settingsVars, step, outcome, type, held, gen, at, fetch, attempt, log, waitsFor, granted>>

\* Mutant: one attempt more than configured.
AgainMutant(t) == attempt[t] <= Asked(t).attempts
Again(t) == attempt[t] < Asked(t).attempts

\* The answer to a request: no connection or timeout, which alone is retried; a status that
\* raise_for_status refuses; something that is no JSON or not of the expected form, which raises
\* (of no JSON deps.dev makes a warning); data without or with a repository.
Respond(t) ==
  /\ step[t] = "request"
  /\ \/ /\ Result(t, "transport") /\ Goes(t, IF Again(t) THEN "backoff" ELSE "ask")
        /\ UNCHANGED fetch
     \/ Result(t, "status") /\ Goes(t, "ask") /\ UNCHANGED fetch
     \/ /\ Result(t, "garbage") /\ UNCHANGED fetch
        /\ Over(t, "raised") \/ (Asked(t).kind = "depsdev" /\ Goes(t, "ask"))
     \/ /\ Result(t, "data")
        /\ \/ Goes(t, "ask") /\ UNCHANGED fetch
           \/ /\ Asked(t).kind = "depsdev" /\ fetch[t] = 1 /\ fetch' = [fetch EXCEPT ![t] = 2]
              /\ Goes(t, "refetch")
           \/ Found(t) /\ UNCHANGED fetch
  /\ UNCHANGED <<settingsVars, type, held, gen, at, attempt, waitsFor, granted, open>>

\* deps.dev without a version: the versions have been fetched, the version is next.
NextFetch(t) ==
  /\ step[t] = "refetch" /\ Goes(t, "limit")
  /\ attempt' = [attempt EXCEPT ![t] = 1] /\ log' = [log EXCEPT ![t] = NoLog]
  /\ UNCHANGED <<settingsVars, type, held, gen, at, fetch, waitsFor, granted, open>>

\* Mutant: the attempt is not counted.
RetryMutant(t) == UNCHANGED attempt
Retry(t) == attempt' = [attempt EXCEPT ![t] = @ + 1]

BackoffOver(t) ==
  /\ step[t] = "backoff" /\ Retry(t) /\ Goes(t, "request")
  /\ UNCHANGED <<settingsVars, type, held, gen, at, fetch, log, waitsFor, granted, open>>

-----------------------------------------------------------------------------
(* LlmResolver.resolve *)

\* An attempt has failed, for whatever reason: the reason becomes part of the next prompt.
LlmFails(t) ==
  /\ Result(t, "bad")
  /\ \/ Again(t) /\ Retry(t) /\ Goes(t, "prompt")
     \/ ~Again(t) /\ Goes(t, "ask") /\ UNCHANGED attempt

\* A completion without choices raises, as does a URL that is none when it is looked at or
\* checked; else the reply is refused, or its URL is checked.
LlmReplies(t) ==
  /\ step[t] = "prompt"
  /\ \/ LlmFails(t)
     \/ Goes(t, "head") /\ UNCHANGED <<attempt, log>>
     \/ Result(t, "garbage") /\ Over(t, "raised") /\ UNCHANGED attempt
  /\ UNCHANGED <<settingsVars, type, held, gen, at, fetch, waitsFor, granted, open>>

LlmUrlChecked(t) ==
  /\ step[t] = "head"
  /\ \/ LlmFails(t)
     \/ Result(t, "data") /\ Found(t) /\ UNCHANGED attempt
     \/ Result(t, "garbage") /\ Over(t, "raised") /\ UNCHANGED attempt
  /\ UNCHANGED <<settingsVars, type, held, gen, at, fetch, waitsFor, granted, open>>

-----------------------------------------------------------------------------
\* A resolution dies with the server.
Change ==
  /\ SettingsNext
  /\ LET lost == {t \in Task : up /\ ~up' /\ step[t] \notin {"idle", "over"}}
     IN /\ step' = [t \in Task |-> IF t \in lost THEN "over" ELSE step[t]]
        /\ outcome' = [t \in Task |-> IF t \in lost THEN "lost" ELSE outcome[t]]
  /\ UNCHANGED <<type, held, gen, at, fetch, attempt, log, waitsFor, granted, open>>

Resolve(t) ==
  \/ Ask(t) \/ Purl2Repo(t) \/ LimiterLooks(t) \/ LimiterWakes(t) \/ Respond(t) \/ NextFetch(t)
  \/ BackoffOver(t) \/ LlmReplies(t) \/ LlmUrlChecked(t)

\* Requests and resolutions are numbered as they begin.
InOrder(begun) == \A n \in begun : \A m \in 1..(n - 1) : m \in begun

Bounded ==
  LET requests == {p \in Request : patch[p] # "idle"}
      tasks == {t \in Task : step[t] # "idle"}
  IN /\ InOrder(requests) /\ InOrder(tasks)
     /\ Cardinality(requests) + 2 * Cardinality(tasks) + faults + crashes <= Events
     /\ generation <= Generations

Next ==
  \/ Change /\ Bounded'
  \/ \E t \in Task : (Hold(t) /\ Bounded') \/ Resolve(t)
  \/ \E i \in Limiter : Elapse(i)

CallsInit ==
  /\ step = [t \in Task |-> "idle"] /\ outcome = [t \in Task |-> "pending"]
  /\ type = [t \in Task |-> "pypi"] /\ held = [t \in Task |-> <<>>]
  /\ gen = [t \in Task |-> 0] /\ at = [t \in Task |-> 0]
  /\ fetch = [t \in Task |-> 1] /\ attempt = [t \in Task |-> 1] /\ log = [t \in Task |-> NoLog]
  /\ waitsFor = [t \in Task |-> 0]
  /\ granted = [i \in Limiter |-> 0] /\ open = {}

Init == SettingsInit /\ CallsInit

\* Answers come or time out, sleeps end.
Fairness == (\A t \in Task : WF_vars(Resolve(t))) /\ \A i \in Limiter : WF_vars(Elapse(i))

Spec == Init /\ [][Next]_vars /\ Fairness

-----------------------------------------------------------------------------
TypeOK ==
  /\ SettingsTypeOK
  /\ step \in [Task -> {"idle", "ask", "thread", "limit", "sleep", "request", "refetch",
                        "backoff", "prompt", "head", "over"}]
  /\ outcome \in [Task -> {"pending", "found", "none", "invalid_purl", "upstream_error", "raised", "lost"}]
  /\ \A t \in Task : (step[t] = "over") = (outcome[t] # "pending")
  /\ gen \in [Task -> 0..Generations] /\ \A t \in Task : at[t] \in 0..Len(held[t])
  /\ granted \in [Limiter -> Nat] /\ open \subseteq Limiter \X Nat
  /\ \A p \in open : p[2] \in 1..granted[p[1]]

\* A resolution that found nothing has asked every resolver of one chain, the one that was in
\* force when it began, whatever PATCH put in force meanwhile; one under way asks that chain.
OneChain ==
  [][\A t \in Task :
       /\ at'[t] # at[t] => Asked(t)' = held[t][at'[t]]
       /\ outcome'[t] = "none" /\ outcome[t] # "none" => at[t] = Len(held[t])]_vars

\* Only a failed connection is tried again (or a reply of the language model that was refused),
\* never an answer with a status; and a resolver is given up for it only after exactly as many
\* attempts as the settings of its chain say.
RetriesAreBounded ==
  \A t \in Task :
    /\ log[t].before \subseteq {"transport"} \/ log[t].before \subseteq {"bad"}
    /\ at[t] > 0 =>
         /\ attempt[t] <= held[t][at[t]].attempts
         /\ step[t] = "ask" /\ log[t].last \in {"transport", "bad"} => attempt[t] = held[t][at[t]].attempts

\* Two requests of one resolver are an interval apart, unless the later one was already waiting
\* when the earlier one was granted.
SpacedUnlessWaiting ==
  [][\A i \in Limiter : granted'[i] # granted[i] =>
       \E t \in Task : /\ step'[t] = "request" /\ step[t] # "request"
                       /\ \A n \in 1..granted[i] : <<i, n>> \in open => step[t] = "sleep" /\ waitsFor[t] < n]_vars

\* Every resolution ends.
ResolutionsEnd == \A t \in Task : step[t] # "idle" ~> step[t] = "over"
=============================================================================
