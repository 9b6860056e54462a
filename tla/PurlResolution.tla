--------------------------- MODULE PurlResolution ---------------------------
(***************************************************************************)
(* The table resolved_purls and everybody that works on it at once:        *)
(* resolutions (resolve_purl of service.py, with UrlValidationService),    *)
(* the references an SBOM brings (store_preexisting_references), and the   *)
(* administrator's create, update, delete and import (db_admin_service.py, *)
(* with the statements of storage/postgres.py).                            *)
(*                                                                         *)
(* Each task is one such call.  It is described by the await it is         *)
(* suspended in; the code up to the next await is atomic.  PURLs are their *)
(* normalised keys.  The web does not change during a behaviour: Final is  *)
(* where the redirects of a URL end, Repo are the URLs the VCS probes      *)
(* recognise.  What a resolver answers is a choice.                        *)
(***************************************************************************)
EXTENDS Naturals, FiniteSets

CONSTANTS
    Task,       \* calls in a behaviour
    Key,        \* normalised PURLs
    Url,
    NoUrl,      \* no repository_url
    Final,      \* where a URL ends after its redirects
    Repo,       \* URLs with a repository behind them
    Resolvers,  \* length of the resolver chain
    Glitches,   \* bound: network failures during validations
    DbFaults    \* bound: statements that raise

ASSUME PurlResolutionAssumption ==
    /\ NoUrl \notin Url /\ Repo \subseteq Url
    /\ Final \in [Url -> Url] /\ \A u \in Url : Final[Final[u]] = Final[u]
    /\ Resolvers \in Nat \ {0}
    /\ Glitches \in Nat /\ DbFaults \in Nat

Valid(u) == Final[u] \in Repo

Origin == {"resolver", "import-sbom", "import-manual", "import-csv"}
Absent == [url |-> NoUrl, by |-> "nobody"]
Row == [url : Url, by : Origin]

VARIABLES
    rows,       \* the table: a row or Absent for every key
    fresh,      \* URLs in UrlValidationCache, not older than the cooldown
    mode,       \* the settings
    task,       \* the calls
    glitches, faults  \* how much of the bounds is used

bounds == <<glitches, faults>>
vars == <<rows, fresh, mode, task, bounds>>

(* validate_db_urls is off, on with a cooldown, on without one (then no    *)
(* entry of the cache is young enough).  Nobody changes the settings.      *)
Mode == {"trust", "cooldown", "always"}

Resolving == {"lookup", "probeStored", "storeMoved", "deleteInvalid",
              "resolver", "probeFresh", "store"}
Administering == {"refLookup", "refStore", "newLookup", "newInsert", "skipLookup",
                  "upsert", "oldLookup", "select", "apply", "delete"}
Ended == {"answered", "raised"}

TaskState == [
    at     : {"idle"} \cup Resolving \cup Administering \cup Ended,
    keys   : SUBSET Key,                        \* the PURLs of the call
    absent : SUBSET Key,                        \* those an import found absent
    to     : SUBSET Key,                        \* the new PURL of an update
    have   : Row \cup {Absent},                 \* the row it has read
    url    : Url \cup {NoUrl},                  \* the URL it works with
    turn   : 0..Resolvers,                      \* the resolver it asks
    answer : Url \cup {NoUrl},
    found  : {"", "local_db", "resolver"}]      \* found_by of the answer

Sole(K) == CHOOSE k \in Key : K = {k}
KeyOf(t) == Sole(task[t].keys)
Have(t) == task[t].have.url

Idle == [at |-> "idle", keys |-> {}, absent |-> {}, to |-> {}, have |-> Absent,
         url |-> NoUrl, turn |-> 0, answer |-> NoUrl, found |-> ""]

(* The table has the content an earlier import left, the cache that of     *)
(* earlier validations.                                                    *)
Init ==
    /\ rows \in [Key -> {Absent} \cup [url : Url, by : {"import-csv"}]]
    /\ mode \in Mode
    /\ fresh \in IF mode = "cooldown" THEN SUBSET {u \in Url : Valid(u)} ELSE {{}}
    /\ task = [t \in Task |-> Idle]
    /\ glitches = 0 /\ faults = 0

-----------------------------------------------------------------------------
At(t, a) == task[t].at = a
Goto(t, a) == task' = [task EXCEPT ![t].at = a]
Answer(t, u, by) ==
    task' = [task EXCEPT ![t] = [Idle EXCEPT !.at = "answered", !.answer = u, !.found = by]]
Done(t) == Answer(t, NoUrl, "")
Raise(t) == task' = [task EXCEPT ![t] = [Idle EXCEPT !.at = "raised"]]

Fault == faults < DbFaults /\ faults' = faults + 1
Glitch == glitches < Glitches /\ glitches' = glitches + 1

Put(k, u, by) == rows' = [rows EXCEPT ![k] = [url |-> u, by |-> by]]
Remove(K) == rows' = [k \in Key |-> IF k \in K THEN Absent ELSE rows[k]]

(* A statement that either runs or raises, where either is survived.       *)
BestEffort(Change) ==
    \/ Change /\ UNCHANGED faults
    \/ UNCHANGED rows /\ Fault

-----------------------------------------------------------------------------
(* UrlValidationService.validate_url: an entry of the cache within the     *)
(* cooldown is taken as VALID, without a final URL.                        *)

(* With validate_db_urls off nothing is validated.                         *)
Trusted(u) == mode = "trust" \/ u \in fresh

CachePut(u) == fresh' = IF mode = "cooldown" THEN fresh \cup {u} ELSE fresh

(* Mutant: every completed validation is cached, an INVALID one too.       *)
RememberMutant(u) == CachePut(u)

(* A VALID result enters the cache.                                        *)
Remember(u) == IF Valid(u) THEN CachePut(u) ELSE UNCHANGED fresh

(* Without its redirect a URL is probed as it is.                          *)
HeadFailed(u) == (u \in Repo \/ Valid(u)) /\ CachePut(u)

-----------------------------------------------------------------------------
(* resolve_purl.                                                           *)

Chain(t) == task' = [task EXCEPT ![t].at = "resolver", ![t].turn = 1]

NextResolver(t) ==
    IF task[t].turn = Resolvers THEN Answer(t, NoUrl, "")
    ELSE task' = [task EXCEPT ![t].at = "resolver", ![t].turn = @ + 1]

Resolve(t, k) ==
    /\ At(t, "idle")
    /\ task' = [task EXCEPT ![t].at = "lookup", ![t].keys = {k}]
    /\ UNCHANGED <<rows, fresh, mode, bounds>>

Lookup(t) ==
    /\ At(t, "lookup")
    /\ LET row == rows[KeyOf(t)] IN
       \/ Fault /\ Chain(t)
       \/ UNCHANGED faults /\ row = Absent /\ Chain(t)
       \/ UNCHANGED faults /\ row # Absent /\ Trusted(row.url) /\ Answer(t, row.url, "local_db")
       \/ /\ UNCHANGED faults /\ row # Absent /\ ~Trusted(row.url)
          /\ task' = [task EXCEPT ![t].at = "probeStored", ![t].have = row]
    /\ UNCHANGED <<rows, fresh, mode, glitches>>

(* _validate_stored_url.  A failing HEAD request loses the redirect; with  *)
(* a failing probe the answer of another one counts, or none; an exception *)
(* is survived by asking the resolvers.                                    *)
ProbeStored(t) ==
    /\ At(t, "probeStored")
    /\ \/ Valid(Have(t)) /\ Final[Have(t)] = Have(t) /\ UNCHANGED glitches
          /\ Remember(Have(t)) /\ Answer(t, Have(t), "local_db")
       \/ Valid(Have(t)) /\ Final[Have(t)] # Have(t) /\ UNCHANGED glitches
          /\ Remember(Have(t)) /\ Goto(t, "storeMoved")
       \/ ~Valid(Have(t)) /\ UNCHANGED glitches
          /\ Remember(Have(t)) /\ Goto(t, "deleteInvalid")
       \/ Glitch /\ HeadFailed(Have(t)) /\ Answer(t, Have(t), "local_db")
       \/ Glitch /\ UNCHANGED fresh
          /\ (Answer(t, Have(t), "local_db") \/ Goto(t, "deleteInvalid") \/ Chain(t))
    /\ UNCHANGED <<rows, mode, faults>>

(* The row as it was read is stored with its final URL.                    *)
StoreMoved(t) ==
    /\ At(t, "storeMoved")
    /\ BestEffort(Put(KeyOf(t), Final[Have(t)], task[t].have.by))
    /\ Answer(t, Final[Have(t)], "local_db")
    /\ UNCHANGED <<fresh, mode, glitches>>

DeleteInvalid(t) ==
    /\ At(t, "deleteInvalid")
    /\ BestEffort(Remove(task[t].keys))
    /\ Chain(t)
    /\ UNCHANGED <<fresh, mode, glitches>>

(* The answer of a resolver: InvalidPurlError and UpstreamError end the    *)
(* request with an error row, no URL asks the next one, a URL is taken or  *)
(* validated first; another exception is not caught.                       *)
AskResolver(t) ==
    /\ At(t, "resolver")
    /\ \/ Done(t)
       \/ Raise(t)
       \/ NextResolver(t)
       \/ \E u \in Url :
             task' = [task EXCEPT ![t].url = u,
                                  ![t].at = IF Trusted(u) THEN "store" ELSE "probeFresh"]
    /\ UNCHANGED <<rows, fresh, mode, bounds>>

(* Mutant: the URL the resolver gave is stored, not where it ends.         *)
ProbeFreshMutant(t) ==
    /\ At(t, "probeFresh")
    /\ \/ Valid(task[t].url) /\ UNCHANGED glitches
          /\ Remember(task[t].url) /\ Goto(t, "store")
       \/ ~Valid(task[t].url) /\ UNCHANGED glitches
          /\ Remember(task[t].url) /\ NextResolver(t)
    /\ UNCHANGED <<rows, mode, faults>>

(* A fresh URL: INVALID asks the next resolver, NETWORK_ERROR is accepted. *)
ProbeFresh(t) ==
    LET u == task[t].url
        Take(f) == task' = [task EXCEPT ![t].at = "store", ![t].url = f] IN
    /\ At(t, "probeFresh")
    /\ \/ Valid(u) /\ UNCHANGED glitches /\ Remember(u) /\ Take(Final[u])
       \/ ~Valid(u) /\ UNCHANGED glitches /\ Remember(u) /\ NextResolver(t)
       \/ Glitch /\ HeadFailed(u) /\ Take(u)
       \/ Glitch /\ UNCHANGED fresh
          /\ (Take(u) \/ Take(Final[u]) \/ NextResolver(t) \/ Raise(t))
    /\ UNCHANGED <<rows, mode, faults>>

Store(t) ==
    /\ At(t, "store")
    /\ BestEffort(Put(KeyOf(t), task[t].url, "resolver"))
    /\ Answer(t, task[t].url, "resolver")
    /\ UNCHANGED <<fresh, mode, glitches>>

ResolveStep(t) ==
    \/ Lookup(t) \/ ProbeStored(t) \/ StoreMoved(t) \/ DeleteInvalid(t)
    \/ AskResolver(t) \/ ProbeFresh(t) \/ Store(t)

-----------------------------------------------------------------------------
(* The other calls.  Their statements are not protected: one that raises   *)
(* ends the call (a failing lookup of a reference counts as absent).       *)

Statement(t, a) ==
    /\ At(t, a)
    /\ UNCHANGED <<fresh, mode, glitches>>

Begin(t, a, K, to, u) ==
    /\ At(t, "idle")
    /\ task' = [task EXCEPT ![t].at = a, ![t].keys = K, ![t].to = to, ![t].url = u]
    /\ UNCHANGED <<rows, fresh, mode, bounds>>

(* An SBOM has a reference for k; the administrator creates k, imports K   *)
(* with either strategy, renames k or gives it a URL, deletes K.           *)
Call(t) ==
    \/ \E k \in Key, u \in Url :
           Begin(t, "refLookup", {k}, {}, u) \/ Begin(t, "newLookup", {k}, {}, u)
    \/ \E k, to \in Key, u \in Url \cup {NoUrl} : Begin(t, "oldLookup", {k}, {to}, u)
    \/ \E K \in (SUBSET Key) \ {{}} :
           \/ \E u \in Url : Begin(t, "skipLookup", K, {}, u) \/ Begin(t, "upsert", K, {}, u)
           \/ Begin(t, "delete", K, {}, NoUrl)

Abort(t) ==
    /\ task[t].at \in Administering \ {"refLookup"}
    /\ Fault /\ Raise(t)
    /\ UNCHANGED <<rows, fresh, mode, glitches>>

(* The job of a resolution is cancelled.                                   *)
Cancelled(t) ==
    /\ task[t].at \in Resolving \cup {"refLookup", "refStore"}
    /\ Raise(t)
    /\ UNCHANGED <<rows, fresh, mode, bounds>>

RefLookup(t) ==
    /\ Statement(t, "refLookup")
    /\ \/ UNCHANGED faults /\ rows[KeyOf(t)] = Absent /\ Goto(t, "refStore")
       \/ UNCHANGED faults /\ rows[KeyOf(t)] # Absent /\ Done(t)
       \/ Fault /\ Goto(t, "refStore")
    /\ UNCHANGED rows

RefStore(t) ==
    /\ Statement(t, "refStore")
    /\ Put(KeyOf(t), task[t].url, "import-sbom")
    /\ Done(t) /\ UNCHANGED faults

(* create_purl.                                                            *)
NewLookup(t) ==
    /\ Statement(t, "newLookup")
    /\ \/ rows[KeyOf(t)] = Absent /\ Goto(t, "newInsert")
       \/ rows[KeyOf(t)] # Absent /\ Done(t)
    /\ UNCHANGED <<rows, faults>>

NewInsert(t) ==
    /\ Statement(t, "newInsert")
    /\ Put(KeyOf(t), task[t].url, "import-manual")
    /\ Done(t) /\ UNCHANGED faults

(* import_csv, strategy skip_existing: every row of the file is looked up, *)
(* and those that were absent are upserted together.                       *)
SkipLookup(t) ==
    /\ Statement(t, "skipLookup")
    /\ \E k \in task[t].keys :
          LET left == task[t].keys \ {k}
              missing == task[t].absent \cup {x \in {k} : rows[x] = Absent} IN
          task' = [task EXCEPT ![t].at = IF left = {} THEN "upsert" ELSE "skipLookup",
                               ![t].keys = IF left = {} THEN missing ELSE left,
                               ![t].absent = missing]
    /\ UNCHANGED <<rows, faults>>

(* upsert_many, one transaction.                                           *)
Upsert(t) ==
    /\ Statement(t, "upsert")
    /\ rows' = [k \in Key |-> IF k \in task[t].keys
                              THEN [url |-> task[t].url, by |-> "import-csv"] ELSE rows[k]]
    /\ Done(t) /\ UNCHANGED faults

(* Mutant: the URL is not required to come from somewhere.                 *)
OldLookupMutant(t) ==
    LET u == IF task[t].url = NoUrl THEN rows[KeyOf(t)].url ELSE task[t].url IN
    /\ Statement(t, "oldLookup")
    /\ task' = [task EXCEPT ![t].at = "select", ![t].url = u]
    /\ UNCHANGED <<rows, faults>>

(* update_purl of the service: a missing URL is taken from the row.        *)
OldLookup(t) ==
    LET u == IF task[t].url = NoUrl THEN rows[KeyOf(t)].url ELSE task[t].url IN
    /\ Statement(t, "oldLookup")
    /\ \/ u = NoUrl /\ Done(t)
       \/ u # NoUrl /\ task' = [task EXCEPT ![t].at = "select", ![t].url = u]
    /\ UNCHANGED <<rows, faults>>

(* update_purl of the table: SELECT, then UPDATE, or DELETE and INSERT.    *)
Select(t) ==
    /\ Statement(t, "select")
    /\ \/ rows[KeyOf(t)] = Absent /\ Done(t)
       \/ rows[KeyOf(t)] # Absent
          /\ task' = [task EXCEPT ![t].at = "apply", ![t].have = rows[KeyOf(t)]]
    /\ UNCHANGED <<rows, faults>>

Moved(k, to, row) == [rows EXCEPT ![k] = Absent, ![to] = row]

(* Mutant: the new row replaces the one that has its key.                  *)
ApplyMutant(t) ==
    LET k == KeyOf(t) row == [task[t].have EXCEPT !.url = task[t].url] IN
    /\ Statement(t, "apply")
    /\ rows' = Moved(k, Sole(task[t].to), row) /\ Done(t)
    /\ UNCHANGED faults

Apply(t) ==
    LET k == KeyOf(t)
        to == Sole(task[t].to)
        row == [task[t].have EXCEPT !.url = task[t].url] IN
    /\ Statement(t, "apply")
    /\ \/ /\ k = to /\ Done(t)
          /\ rows' = [rows EXCEPT ![k] = IF @ = Absent THEN @ ELSE [@ EXCEPT !.url = task[t].url]]
       \/ /\ k # to /\ rows[to] = Absent /\ Done(t)
          /\ rows' = Moved(k, to, row)
       \/ /\ k # to /\ rows[to] # Absent /\ Raise(t)
          /\ UNCHANGED rows
    /\ UNCHANGED faults

Delete(t) ==
    /\ Statement(t, "delete")
    /\ Remove(task[t].keys)
    /\ Done(t) /\ UNCHANGED faults

CallStep(t) ==
    \/ RefLookup(t) \/ RefStore(t) \/ NewLookup(t) \/ NewInsert(t) \/ SkipLookup(t)
    \/ Upsert(t) \/ OldLookup(t) \/ Select(t) \/ Apply(t) \/ Delete(t)

(* Entries of the cache get older than the cooldown, or all are cleared.   *)
Expire ==
    /\ fresh' \in SUBSET fresh /\ fresh' # fresh
    /\ UNCHANGED <<rows, mode, task, bounds>>

Next ==
    \/ \E t \in Task : ResolveStep(t) \/ Call(t) \/ CallStep(t) \/ Abort(t) \/ Cancelled(t)
    \/ \E t \in Task, k \in Key : Resolve(t, k)
    \/ Expire

Spec == Init /\ [][Next]_vars

-----------------------------------------------------------------------------
(* Properties.                                                             *)

TypeOK ==
    /\ rows \in [Key -> Row \cup {Absent}]
    /\ fresh \in SUBSET Url
    /\ mode \in Mode
    /\ task \in [Task -> TaskState]
    /\ glitches \in 0..Glitches /\ faults \in 0..DbFaults

Answered(t, by) == task[t].at = "answered" /\ task[t].answer \in Url /\ task[t].found = by

(* With validate_db_urls on and no network failure, no resolution answers  *)
(* with a URL behind which there is no repository: neither the table that  *)
(* others fill with anything, nor the cache of earlier validations, nor    *)
(* a failing statement lets one through.                                   *)
AnswersAreGood ==
    mode # "trust" /\ glitches = 0 =>
        \A t \in Task : \A by \in {"local_db", "resolver"} :
            Answered(t, by) => Valid(task[t].answer)

(* Without a cooldown every answer is validated by its own request, so it  *)
(* is the end of its redirects.                                            *)
AnswersAreFinal ==
    mode = "always" /\ glitches = 0 =>
        \A t \in Task : \A by \in {"local_db", "resolver"} :
            Answered(t, by) => Final[task[t].answer] = task[t].answer

(* Renaming a row never destroys the row of another PURL, also when that   *)
(* one is stored between the steps of the update.                          *)
RenameKeepsOthers ==
    [][\A t \in Task : \A k \in Key :
          task[t].at = "apply" /\ task'[t] # task[t] /\ {k} # task[t].keys =>
              rows[k] \in {Absent, rows'[k]}]_vars
=============================================================================
