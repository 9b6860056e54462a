------------------------------ MODULE Settings ------------------------------
(***************************************************************************)
(* The settings (settings_store.py) and PATCH /api/v1/settings             *)
(* (routes/settings.py).  One JSON file holds them and the store keeps a   *)
(* copy of what it read last.  A PATCH takes a snapshot, may await a check *)
(* of the libraries.io key, saves the whole snapshot with its update, and  *)
(* puts it in force: it builds a new chain of resolvers (factory.py) and   *)
(* tells the job manager its retention time.  A write may fail, and the    *)
(* server may die in the middle of one.                                    *)
(*                                                                         *)
(* A field is a name, its value opaque to the store; Null is None, which   *)
(* only some fields may have.  Fields that nothing here reads (timeouts,   *)
(* log level, ...) are those of any other name in Fields.                  *)
(***************************************************************************)
EXTENDS Naturals, Sequences

CONSTANTS Fields,      \* the fields of AppSettings
          Nullable,    \* those declared with `| None'
          Values,      \* for each field, the values SettingsUpdate lets pass, None included
          Null,        \* None
          Defaults,    \* AppSettings()
          Request,     \* the PATCH requests
          Updates,     \* their bodies: functions from some fields to values
          Faults,      \* bound: how many writes fail
          Crashes      \* bound: how often the server dies

IsSettings(s) == s = [f \in Fields |-> s[f]] /\ \A f \in Fields : s[f] \in Values[f]
IsUpdate(u) == DOMAIN u \subseteq Fields /\ \A f \in DOMAIN u : u[f] \in Values[f]

\* AppSettings(**data) accepts the data: no field without a value has to have one.
Readable(s) == \A f \in Fields \ Nullable : s[f] # Null

\* How often something is tried, at least once (ge = 1).
Counts == {"retry_max_attempts", "llm_resolver_attempts_count"}
Keys == {"librariesio_api_key", "ecosystems_api_key", "llm_resolver_api_key"}

ASSUME SettingsAssumption ==
  /\ {"job_ttl_hours"} \cup Counts \cup Keys \subseteq Fields
  /\ Nullable \subseteq Fields \ Counts
  /\ \A f \in Counts : \A n \in Values[f] \ {Null} : n \in Nat \ {0}
  /\ IsSettings(Defaults) /\ Readable(Defaults)
  /\ \A u \in Updates : IsUpdate(u)
  /\ Faults \in Nat /\ Crashes \in Nat

VARIABLES content,     \* what is in the file, when it is whole
          file,        \* the file: absent, torn (no JSON), or whole
          cached,      \* _cached: the copy, or nothing
          chain,       \* the resolvers in force
          generation,  \* how many chains have been built
          ttl,         \* the retention time of the job manager
          up,          \* the server runs
          patch,       \* what a request awaits or has ended with
          snapshot,    \* `current' of a request
          update,      \* `update_data' of a request
          faults, crashes
settingsVars == <<content, file, cached, chain, generation, ttl, up, patch, snapshot, update,
                  faults, crashes>>

-----------------------------------------------------------------------------
(* build_resolvers *)

Part(wanted, kind, attempts, key) ==
  IF wanted THEN <<[kind |-> kind, attempts |-> attempts, key |-> key]>> ELSE <<>>

Set(key) == key \notin {Null, ""}

\* The resolvers that settings s put in force, in the order they are asked.
Chain(s) ==
  Part(TRUE, "purl2repo", 1, Null)
  \o Part(s["depsdev_enabled"], "depsdev", s["retry_max_attempts"], Null)
  \o Part(s["ecosystems_enabled"], "ecosystems", s["retry_max_attempts"], s["ecosystems_api_key"])
  \o Part(s["librariesio_enabled"] /\ Set(s["librariesio_api_key"]), "librariesio",
          s["retry_max_attempts"], s["librariesio_api_key"])
  \o Part(s["apk_resolver_enabled"], "apk", 1, Null)
  \o Part(s["llm_resolver_enabled"] /\ \A f \in {"llm_resolver_base_url", "llm_resolver_api_key",
                                                 "llm_resolver_model"} : Set(s[f]),
          "llm", s["llm_resolver_attempts_count"], s["llm_resolver_api_key"])

-----------------------------------------------------------------------------
(* SettingsStore *)

\* load() returns: the copy, or a readable file, or defaults for one that is absent or torn.
Loads == cached # {} \/ file # "whole" \/ Readable(content)
Loaded == IF cached # {} THEN CHOOSE s \in cached : TRUE
          ELSE IF file = "whole" THEN content ELSE Defaults

\* Mutant: the fields a PATCH does not give are taken from an empty body, as None.
MergeMutant(s, u) == [f \in Fields |-> IF f \in DOMAIN u THEN u[f] ELSE Null]
\* model_copy(update = ...), which validates nothing.
Merge(s, u) == [f \in Fields |-> IF f \in DOMAIN u THEN u[f] ELSE s[f]]

\* The outcome of a request.
Ends(p, outcome) == patch' = [patch EXCEPT ![p] = outcome]

\* A dead server has neither a copy nor requests.
Dies ==
  /\ up' = FALSE /\ cached' = {} /\ crashes' = crashes + 1
  /\ patch' = [p \in Request |-> IF patch[p] = "checking" THEN "lost" ELSE patch[p]]
  /\ UNCHANGED <<content, chain, generation, ttl, snapshot, faults>>

\* The copy save() leaves: it drops the old one, and _rebuild_resolvers loads the new one.
CopyAfterSave(s) == IF Readable(s) THEN {s} ELSE {}

\* Mutant: the chain is not rebuilt when the update gives no retention time.
ChainAfterSaveMutant(s, u) == IF "job_ttl_hours" \in DOMAIN u THEN Chain(s) ELSE chain
ChainAfterSave(s, u) == Chain(s)

TtlAfterSave(u) == IF "job_ttl_hours" \in DOMAIN u THEN u["job_ttl_hours"] ELSE ttl

\* The rest of a PATCH, in one uninterrupted run of the event loop: save() and what puts the
\* settings in force.  Settings that cannot be read back raise after they were written.  A write
\* fails before the file is opened, or leaves it cut short.
Apply(p, current, u) ==
  \/ /\ DOMAIN u = {}
     /\ cached' = {current} /\ chain' = Chain(current) /\ generation' = generation + 1
     /\ Ends(p, "saved")
     /\ UNCHANGED <<content, file, ttl, up, snapshot, faults, crashes>>
  \/ LET s == Merge(current, u)
     IN /\ DOMAIN u # {}
        /\ content' = s /\ file' = "whole" /\ cached' = CopyAfterSave(s)
        /\ \/ /\ Readable(s) /\ chain' = ChainAfterSave(s, u) /\ generation' = generation + 1
              /\ ttl' = TtlAfterSave(u) /\ Ends(p, "saved")
           \/ ~Readable(s) /\ Ends(p, "failed") /\ UNCHANGED <<chain, generation, ttl>>
        /\ UNCHANGED <<up, snapshot, faults, crashes>>
  \/ /\ DOMAIN u # {} /\ faults < Faults /\ faults' = faults + 1
     /\ file' \in {file, "torn"} /\ cached' = {} /\ Ends(p, "failed")
     /\ UNCHANGED <<content, chain, generation, ttl, up, snapshot, crashes>>
  \/ /\ DOMAIN u # {} /\ crashes < Crashes
     /\ file' = "torn" /\ Dies

Without(u, f) == [g \in DOMAIN u \ {f} |-> u[g]]

\* A PATCH arrives.  A key is checked first, unless it is None or empty; an empty one is dropped.
Patch(p) ==
  /\ up /\ patch[p] = "idle"
  /\ \E u \in Updates :
       LET given == "librariesio_api_key" \in DOMAIN u
           kept == IF given /\ u["librariesio_api_key"] = "" THEN Without(u, "librariesio_api_key")
                                                              ELSE u
       IN /\ update' = [update EXCEPT ![p] = kept]
          /\ \/ /\ ~Loads /\ Ends(p, "failed")
                /\ UNCHANGED <<content, file, cached, chain, generation, ttl, up, snapshot, faults,
                               crashes>>
             \/ /\ Loads /\ given /\ Set(u["librariesio_api_key"])
                /\ snapshot' = [snapshot EXCEPT ![p] = Loaded] /\ Ends(p, "checking")
                /\ cached' = {Loaded}
                /\ UNCHANGED <<content, file, chain, generation, ttl, up, faults, crashes>>
             \/ Loads /\ ~(given /\ Set(u["librariesio_api_key"])) /\ Apply(p, Loaded, kept)

\* validate_librariesio_key returns: what libraries.io says, or True when it cannot be asked.
KeyChecked(p) ==
  /\ up /\ patch[p] = "checking"
  /\ \/ /\ Ends(p, "refused")
        /\ UNCHANGED <<content, file, cached, chain, generation, ttl, up, snapshot, faults, crashes>>
     \/ Apply(p, snapshot[p], update[p])
  /\ UNCHANGED update

\* Any other reader: GET, a resolution, a validation, the daily expiry of the cache.
Load ==
  /\ up /\ cached = {} /\ Loads
  /\ cached' = {Loaded}
  /\ UNCHANGED <<content, file, chain, generation, ttl, up, patch, snapshot, update, faults, crashes>>

Crash == up /\ crashes < Crashes /\ Dies /\ UNCHANGED <<file, update>>

\* lifespan: an absent file is written with the defaults, a torn one is left as it is.
Start ==
  /\ ~up /\ Loads
  /\ content' = IF file = "absent" THEN Defaults ELSE content
  /\ file' = IF file = "absent" THEN "whole" ELSE file
  /\ cached' = {Loaded} /\ chain' = Chain(Loaded) /\ generation' = generation + 1
  /\ ttl' = Loaded["job_ttl_hours"] /\ up' = TRUE
  /\ UNCHANGED <<patch, snapshot, update, faults, crashes>>

SettingsInit ==
  /\ content = Defaults /\ file = "absent" /\ cached = {} /\ chain = <<>> /\ generation = 0
  /\ ttl = Defaults["job_ttl_hours"] /\ up = FALSE
  /\ patch = [p \in Request |-> "idle"]
  /\ snapshot = [p \in Request |-> Defaults] /\ update = [p \in Request |-> <<>>]
  /\ faults = 0 /\ crashes = 0

SettingsNext ==
  \/ \E p \in Request : Patch(p) \/ KeyChecked(p)
  \/ Load \/ Crash \/ Start

SettingsSpec == SettingsInit /\ [][SettingsNext]_settingsVars

-----------------------------------------------------------------------------
SettingsTypeOK ==
  /\ IsSettings(content) /\ file \in {"absent", "torn", "whole"}
  /\ \A s \in cached : IsSettings(s) /\ Readable(s) /\ cached = {s}
  /\ ttl \in Values["job_ttl_hours"] /\ generation \in Nat /\ up \in BOOLEAN
  /\ patch \in [Request -> {"idle", "checking", "saved", "refused", "failed", "lost"}]
  /\ \A p \in Request : IsSettings(snapshot[p]) /\ IsUpdate(update[p])
  /\ faults \in 0..Faults /\ crashes \in 0..Crashes

\* A whole file is in force: the copy and the resolvers of the running server are what it says,
\* whatever requests overlapped, failed or were lost.  And it can be read, so that the server can
\* be started again, unless a request gave None for a field that has to have a value.
FileInForce ==
  file = "whole" =>
    \/ Readable(content) /\ (up => cached \subseteq {content} /\ chain = Chain(content))
    \/ ~Readable(content) /\ \E p \in Request : \E f \in DOMAIN update[p] \ Nullable : update[p][f] = Null

\* A setting changes only to what a request gave for it; a request that does not give it can
\* put an older value back only when it awaited the check of its key, or lose it in a torn file.
OnlyGivenChange ==
  [][\A f \in Fields : content'[f] # content[f] =>
       \E p \in Request :
         /\ patch'[p] # patch[p]
         /\ f \in DOMAIN update'[p] \/ patch[p] = "checking" \/ file = "torn"]_settingsVars
=============================================================================
