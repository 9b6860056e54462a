------------------------- MODULE ResolverChainProofs -------------------------
(***************************************************************************)
(* What is proved of the settings and of the resolver chain.               *)
(*   I.  Settings: its types, that a whole settings file is what is in     *)
(*       force, and that a setting changes only to what a request gave.    *)
(*   II. ResolverChain: its types, that a resolution asks one chain, that  *)
(*       attempts are bounded by the settings of that chain, and how far   *)
(*       apart the requests of a resolver are.                             *)
(***************************************************************************)
EXTENDS ResolverChain, TLAPS

-----------------------------------------------------------------------------
(* The inductive invariant.                                                *)

\* A resolver of the chain, tried at least once.
Resolvers == [kind : {"purl2repo", "depsdev", "ecosystems", "librariesio", "apk", "llm"},
              attempts : Nat \ {0}, key : {Null} \cup UNION {Values[f] : f \in Fields}]

Shapes ==
  /\ SettingsTypeOK
  /\ snapshot = [p \in Request |-> snapshot[p]] /\ update = [p \in Request |-> update[p]]

\* What the server that is up has, and a dead one has not.
ServerInv ==
  /\ ~up => cached = {}
  /\ up => file # "absent"
  /\ file = "absent" => content = Defaults
  /\ chain \in Seq(Resolvers) /\ (up => generation # 0)

\* What a request under way holds can be read and gives something.
RequestInv ==
  \A p \in Request :
    /\ Readable(snapshot[p])
    /\ patch[p] = "checking" => up /\ DOMAIN update[p] # {}

\* FileInForce, with a request that has begun as the one that gave None.
GaveNone(p) == patch[p] # "idle" /\ \E f \in DOMAIN update[p] \ Nullable : update[p][f] = Null
InForce ==
  file = "whole" =>
    /\ cached \subseteq {content}
    /\ Readable(content) /\ up => chain = Chain(content)
    /\ ~Readable(content) => \E p \in Request : GaveNone(p)

SettingsInv == Shapes /\ ServerInv /\ RequestInv /\ InForce

-----------------------------------------------------------------------------
(* What is loaded are settings, which can be read; from a whole file it is the content. *)
LEMMA LoadedFacts ==
  ASSUME SettingsInv, Loads
  PROVE  /\ IsSettings(Loaded) /\ Readable(Loaded)
         /\ file = "whole" => Loaded = content
<1>1. CASE cached # {}
  <2>1. PICK s \in cached : Loaded = s
    BY <1>1 DEF Loaded
  <2> QED BY <2>1 DEF SettingsInv, Shapes, SettingsTypeOK, InForce
<1>2. CASE cached = {} /\ file = "whole"
  BY <1>2 DEF Loads, Loaded, SettingsInv, Shapes, SettingsTypeOK
<1>3. CASE cached = {} /\ file # "whole"
  BY <1>3, SettingsAssumption DEF Loaded
<1> QED BY <1>1, <1>2, <1>3

(* Merging settings with an update. *)
LEMMA MergeFacts ==
  ASSUME NEW s, NEW u, IsSettings(s), Readable(s), IsUpdate(u)
  PROVE  /\ IsSettings(Merge(s, u))
         /\ ~Readable(Merge(s, u)) => \E f \in DOMAIN u \ Nullable : u[f] = Null
BY DEF IsSettings, IsUpdate, Readable, Merge

LEMMA WithoutFacts ==
  ASSUME NEW u, NEW f, IsUpdate(u)
  PROVE  IsUpdate(Without(u, f))
BY DEF IsUpdate, Without

(* The resolvers of readable settings. *)
LEMMA ChainType ==
  ASSUME NEW s, IsSettings(s), Readable(s)
  PROVE  Chain(s) \in Seq(Resolvers)
<1> DEFINE Kinds == {"purl2repo", "depsdev", "ecosystems", "librariesio", "apk", "llm"}
           Values0 == {Null} \cup UNION {Values[f] : f \in Fields}
<1>1. ASSUME NEW wanted, NEW kind \in Kinds, NEW attempts \in Nat \ {0}, NEW key \in Values0
      PROVE  Part(wanted, kind, attempts, key) \in Seq(Resolvers)
  <2> DEFINE r == [kind |-> kind, attempts |-> attempts, key |-> key]
  <2>1. r \in Resolvers
    BY DEF Resolvers
  <2> HIDE DEF r
  <2>2. <<r>> \in Seq(Resolvers) /\ <<>> \in Seq(Resolvers)
    BY <2>1
  <2> QED BY <2>2, Zenon DEF Part, r
<1>2. \A f \in Counts : s[f] \in Nat \ {0}
  BY SettingsAssumption DEF IsSettings, Readable
<1>3. \A f \in Keys : s[f] \in Values0
  BY SettingsAssumption DEF IsSettings
<1>4. s["retry_max_attempts"] \in Nat \ {0} /\ s["llm_resolver_attempts_count"] \in Nat \ {0}
  BY <1>2 DEF Counts
<1>5. /\ s["librariesio_api_key"] \in Values0 /\ s["ecosystems_api_key"] \in Values0
      /\ s["llm_resolver_api_key"] \in Values0 /\ Null \in Values0 /\ 1 \in Nat \ {0}
  BY <1>3 DEF Keys
<1> HIDE DEF Kinds, Values0
<1>6. \A a, b \in Seq(Resolvers) : a \o b \in Seq(Resolvers)
  OBVIOUS
<1>7. \A wanted, kind, attempts, key :
        kind \in Kinds /\ attempts \in Nat \ {0} /\ key \in Values0
          => Part(wanted, kind, attempts, key) \in Seq(Resolvers)
  BY <1>1
<1>8. /\ "purl2repo" \in Kinds /\ "depsdev" \in Kinds /\ "ecosystems" \in Kinds
      /\ "librariesio" \in Kinds /\ "apk" \in Kinds /\ "llm" \in Kinds
  BY DEF Kinds
<1> QED
  BY <1>4, <1>5, <1>6, <1>7, <1>8, Zenon DEF Chain

-----------------------------------------------------------------------------
LEMMA InitInv == SettingsInit => SettingsInv
<1> SUFFICES ASSUME SettingsInit PROVE SettingsInv
  OBVIOUS
<1>1. \A p \in Request : IsUpdate(update[p])
  BY DEF SettingsInit, IsUpdate
<1>2. Defaults["job_ttl_hours"] \in Values["job_ttl_hours"]
  BY SettingsAssumption DEF IsSettings
<1>3. IsSettings(content) /\ \A p \in Request : IsSettings(snapshot[p])
  BY SettingsAssumption DEF SettingsInit
<1>4. /\ snapshot = [p \in Request |-> snapshot[p]] /\ update = [p \in Request |-> update[p]]
      /\ patch \in [Request -> {"idle", "checking", "saved", "refused", "failed", "lost"}]
  BY DEF SettingsInit
<1>5. /\ file \in {"absent", "torn", "whole"} /\ ttl \in Values["job_ttl_hours"]
      /\ generation \in Nat /\ up \in BOOLEAN
  BY <1>2 DEF SettingsInit
<1>6. faults \in 0..Faults /\ crashes \in 0..Crashes
  BY SettingsAssumption DEF SettingsInit
<1>7. \A s \in cached : IsSettings(s) /\ Readable(s) /\ cached = {s}
  BY DEF SettingsInit
<1>8. Shapes
  BY <1>1, <1>3, <1>4, <1>5, <1>6, <1>7 DEF Shapes, SettingsTypeOK
<1> QED
  BY <1>8, SettingsAssumption DEF SettingsInit, SettingsInv, ServerInv, RequestInv, InForce

(* The server dies: with a write cut short, or the file as it is. *)
LEMMA DiesInv ==
  ASSUME SettingsInv, crashes < Crashes, Dies, file' \in {file, "torn"},
         update' = [q \in Request |-> update'[q]], \A q \in Request : IsUpdate(update'[q]),
         \A q \in Request : patch[q] # "idle" => update'[q] = update[q] \/ file' = "torn"
  PROVE  SettingsInv'
<1>1. patch' = [p \in Request |-> IF patch[p] = "checking" THEN "lost" ELSE patch[p]]
  BY DEF Dies
<1>2. /\ patch' \in [Request -> {"idle", "checking", "saved", "refused", "failed", "lost"}]
      /\ \A q \in Request : patch'[q] # "checking" /\ (patch[q] # "idle" => patch'[q] # "idle")
  BY <1>1 DEF SettingsInv, Shapes, SettingsTypeOK
<1>3. up' = FALSE /\ cached' = {} /\ crashes' = crashes + 1
      /\ UNCHANGED <<content, chain, generation, ttl, snapshot, faults>>
  BY DEF Dies
<1>4. crashes' \in 0..Crashes
  BY <1>3, SettingsAssumption DEF SettingsInv, Shapes, SettingsTypeOK
<1>5. IsSettings(content)' /\ \A q \in Request : IsSettings(snapshot[q])'
  BY <1>3 DEF SettingsInv, Shapes, SettingsTypeOK
<1>6. /\ file' \in {"absent", "torn", "whole"} /\ ttl' \in Values["job_ttl_hours"]
      /\ generation' \in Nat /\ faults' \in 0..Faults /\ up' \in BOOLEAN
      /\ snapshot' = [q \in Request |-> snapshot'[q]]
  BY <1>3 DEF SettingsInv, Shapes, SettingsTypeOK
<1>7. Shapes'
  BY <1>2, <1>3, <1>4, <1>5, <1>6 DEF Shapes, SettingsTypeOK
<1>8. RequestInv'
  BY <1>2, <1>3 DEF SettingsInv, RequestInv
<1>9. ASSUME file' = "whole" PROVE \A q \in Request : GaveNone(q) => GaveNone(q)'
  BY <1>2, <1>9 DEF GaveNone
<1> QED
  BY <1>3, <1>7, <1>8, <1>9 DEF SettingsInv, ServerInv, InForce

(* The uninterrupted end of a PATCH, whatever it did before. *)
LEMMA ApplyInv ==
  ASSUME SettingsInv, up, NEW p \in Request, NEW current, NEW u,
         IsSettings(current), Readable(current), IsUpdate(u),
         DOMAIN u = {} => (file = "whole" => current = content),
         patch[p] \in {"idle", "checking"}, patch[p] = "checking" => update[p] = u,
         update' = [update EXCEPT ![p] = u],
         Apply(p, current, u)
  PROVE  SettingsInv'
<1> DEFINE s == Merge(current, u)
<1>1. IsSettings(s) /\ (~Readable(s) => \E f \in DOMAIN u \ Nullable : u[f] = Null)
  BY MergeFacts
<1> HIDE DEF s
<1>2. update' = [q \in Request |-> update'[q]] /\ update'[p] = u
      /\ \A q \in Request \ {p} : update'[q] = update[q]
  BY DEF SettingsInv, Shapes
<1>3. \A q \in Request : IsUpdate(update'[q])
  BY <1>2 DEF SettingsInv, Shapes, SettingsTypeOK
<1>4. TtlAfterSave(u) \in Values["job_ttl_hours"]
  BY DEF TtlAfterSave, IsUpdate, SettingsInv, Shapes, SettingsTypeOK
<1>5. CASE /\ DOMAIN u = {}
           /\ cached' = {current} /\ chain' = Chain(current) /\ generation' = generation + 1
           /\ Ends(p, "saved")
           /\ UNCHANGED <<content, file, ttl, up, snapshot, faults, crashes>>
  <2>1. Shapes'
    BY <1>2, <1>3, <1>5 DEF SettingsInv, Shapes, SettingsTypeOK, Ends
  <2>2. \A q \in Request : GaveNone(q) => GaveNone(q)'
    BY <1>2, <1>5 DEF SettingsInv, Shapes, SettingsTypeOK, Ends, GaveNone
  <2>3. RequestInv'
    BY <1>2, <1>5 DEF SettingsInv, Shapes, SettingsTypeOK, Ends, RequestInv
  <2>4. chain' \in Seq(Resolvers) /\ generation' # 0
    BY <1>5, ChainType DEF SettingsInv, Shapes, SettingsTypeOK
  <2> QED
    BY <1>5, <2>1, <2>2, <2>3, <2>4 DEF SettingsInv, ServerInv, InForce
<1>6. CASE /\ content' = s /\ file' = "whole" /\ cached' = CopyAfterSave(s)
           /\ \/ /\ Readable(s) /\ chain' = ChainAfterSave(s, u) /\ generation' = generation + 1
                 /\ ttl' = TtlAfterSave(u) /\ Ends(p, "saved")
              \/ ~Readable(s) /\ Ends(p, "failed") /\ UNCHANGED <<chain, generation, ttl>>
           /\ UNCHANGED <<up, snapshot, faults, crashes>>
  <2>1. cached' = IF Readable(s) THEN {s} ELSE {}
    BY <1>6 DEF CopyAfterSave
  <2>2. patch' \in [Request -> {"idle", "checking", "saved", "refused", "failed", "lost"}]
        /\ patch'[p] \in {"saved", "failed"} /\ \A q \in Request \ {p} : patch'[q] = patch[q]
    BY <1>6 DEF SettingsInv, Shapes, SettingsTypeOK, Ends
  <2>7. IsSettings(content)' /\ \A q \in Request : IsSettings(snapshot[q])'
    BY <1>1, <1>6 DEF SettingsInv, Shapes, SettingsTypeOK
  <2>8. \A x \in cached' : IsSettings(x) /\ Readable(x) /\ cached' = {x}
    BY <1>1, <2>1
  <2>9. ttl' \in Values["job_ttl_hours"] /\ generation' \in Nat
    BY <1>4, <1>6 DEF SettingsInv, Shapes, SettingsTypeOK
  <2>10. snapshot' = [q \in Request |-> snapshot'[q]]
    BY <1>6 DEF SettingsInv, Shapes
  <2>11. /\ file' \in {"absent", "torn", "whole"} /\ up' \in BOOLEAN
         /\ faults' \in 0..Faults /\ crashes' \in 0..Crashes
    BY <1>6 DEF SettingsInv, Shapes, SettingsTypeOK
  <2>3. Shapes'
    BY <1>2, <1>3, <2>2, <2>7, <2>8, <2>9, <2>10, <2>11 DEF Shapes, SettingsTypeOK
  <2>4. RequestInv'
    BY <1>2, <1>6, <2>2 DEF SettingsInv, RequestInv
  <2>5. ~Readable(s) => GaveNone(p)'
    BY <1>1, <1>2, <2>2 DEF GaveNone
  <2>6. Readable(s) => chain' = Chain(s)
    BY <1>6 DEF ChainAfterSave
  <2>12. chain' \in Seq(Resolvers) /\ (up => generation' # 0)
    BY <1>1, <1>6, <2>6, ChainType DEF SettingsInv, Shapes, SettingsTypeOK, ServerInv
  <2> QED
    BY <1>6, <2>1, <2>3, <2>4, <2>5, <2>6, <2>12 DEF SettingsInv, ServerInv, InForce
<1>7. CASE /\ faults < Faults /\ faults' = faults + 1
           /\ file' \in {file, "torn"} /\ cached' = {} /\ Ends(p, "failed")
           /\ UNCHANGED <<content, chain, generation, ttl, up, snapshot, crashes>>
  <2>1. Shapes'
    BY <1>2, <1>3, <1>7, SettingsAssumption DEF SettingsInv, Shapes, SettingsTypeOK, Ends
  <2>2. \A q \in Request : GaveNone(q) => GaveNone(q)'
    BY <1>2, <1>7 DEF SettingsInv, Shapes, SettingsTypeOK, Ends, GaveNone
  <2>3. RequestInv'
    BY <1>2, <1>7 DEF SettingsInv, Shapes, SettingsTypeOK, Ends, RequestInv
  <2> QED
    BY <1>7, <2>1, <2>2, <2>3 DEF SettingsInv, ServerInv, InForce
<1>8. CASE crashes < Crashes /\ file' = "torn" /\ Dies
  BY <1>2, <1>3, <1>8, DiesInv
<1> QED
  BY <1>5, <1>6, <1>7, <1>8 DEF Apply, s

(* A PATCH: the snapshot it takes is what the file says, if the file is whole. *)
LEMMA PatchInv ==
  ASSUME SettingsInv, NEW p \in Request, Patch(p)
  PROVE  SettingsInv'
<1> DEFINE key == "librariesio_api_key"
           Kept(u) == IF key \in DOMAIN u /\ u[key] = "" THEN Without(u, key) ELSE u
<1>1. PICK u \in Updates :
        /\ update' = [update EXCEPT ![p] = Kept(u)]
        /\ \/ /\ ~Loads /\ Ends(p, "failed")
              /\ UNCHANGED <<content, file, cached, chain, generation, ttl, up, snapshot, faults,
                             crashes>>
           \/ /\ Loads /\ key \in DOMAIN u /\ Set(u[key])
              /\ snapshot' = [snapshot EXCEPT ![p] = Loaded] /\ Ends(p, "checking")
              /\ cached' = {Loaded}
              /\ UNCHANGED <<content, file, chain, generation, ttl, up, faults, crashes>>
           \/ Loads /\ Apply(p, Loaded, Kept(u))
  BY Zenon DEF Patch
<1>2. IsUpdate(u) /\ IsUpdate(Kept(u))
  BY WithoutFacts, SettingsAssumption
<1>3. up /\ patch[p] = "idle"
  BY DEF Patch
<1>4. key \in DOMAIN u /\ Set(u[key]) => DOMAIN Kept(u) # {}
  BY DEF Set
<1> HIDE DEF Kept, key
<1>5. /\ update' = [q \in Request |-> update'[q]] /\ update'[p] = Kept(u)
      /\ \A q \in Request \ {p} : update'[q] = update[q]
  BY <1>1 DEF SettingsInv, Shapes
<1>6. \A q \in Request : IsUpdate(update'[q])
  BY <1>2, <1>5 DEF SettingsInv, Shapes, SettingsTypeOK
<1>7. ~GaveNone(p) /\ \A q \in Request \ {p} : patch'[q] = patch[q] => (GaveNone(q) => GaveNone(q)')
  BY <1>3, <1>5 DEF GaveNone
<1>8. CASE ~Loads /\ Ends(p, "failed")
           /\ UNCHANGED <<content, file, cached, chain, generation, ttl, up, snapshot, faults, crashes>>
  <2>1. /\ patch' \in [Request -> {"idle", "checking", "saved", "refused", "failed", "lost"}]
        /\ patch'[p] = "failed" /\ \A q \in Request \ {p} : patch'[q] = patch[q]
    BY <1>8 DEF SettingsInv, Shapes, SettingsTypeOK, Ends
  <2>2. Shapes'
    BY <1>5, <1>6, <1>8, <2>1 DEF SettingsInv, Shapes, SettingsTypeOK
  <2>3. RequestInv'
    BY <1>5, <1>8, <2>1 DEF SettingsInv, RequestInv
  <2> QED
    BY <1>7, <1>8, <2>1, <2>2, <2>3 DEF SettingsInv, ServerInv, InForce
<1>9. CASE /\ Loads /\ key \in DOMAIN u /\ Set(u[key])
           /\ snapshot' = [snapshot EXCEPT ![p] = Loaded] /\ Ends(p, "checking")
           /\ cached' = {Loaded}
           /\ UNCHANGED <<content, file, chain, generation, ttl, up, faults, crashes>>
  <2>1. /\ patch' \in [Request -> {"idle", "checking", "saved", "refused", "failed", "lost"}]
        /\ patch'[p] = "checking" /\ \A q \in Request \ {p} : patch'[q] = patch[q]
    BY <1>9 DEF SettingsInv, Shapes, SettingsTypeOK, Ends
  <2>2. IsSettings(Loaded) /\ Readable(Loaded) /\ (file = "whole" => Loaded = content)
    BY <1>9, LoadedFacts
  <2>3. /\ snapshot' = [q \in Request |-> snapshot'[q]] /\ snapshot'[p] = Loaded
        /\ \A q \in Request \ {p} : snapshot'[q] = snapshot[q]
    BY <1>9 DEF SettingsInv, Shapes
  <2>4. \A q \in Request : IsSettings(snapshot'[q]) /\ Readable(snapshot'[q])
    BY <2>2, <2>3 DEF SettingsInv, Shapes, SettingsTypeOK, RequestInv
  <2>5. \A x \in cached' : IsSettings(x) /\ Readable(x) /\ cached' = {x}
    BY <1>9, <2>2
  <2>6. Shapes'
    BY <1>5, <1>6, <1>9, <2>1, <2>3, <2>4, <2>5 DEF SettingsInv, Shapes, SettingsTypeOK
  <2>7. RequestInv'
    BY <1>3, <1>4, <1>5, <1>9, <2>1, <2>4 DEF SettingsInv, RequestInv
  <2> QED
    BY <1>3, <1>7, <1>9, <2>1, <2>2, <2>6, <2>7 DEF SettingsInv, ServerInv, InForce
<1>10. CASE Loads /\ Apply(p, Loaded, Kept(u))
  BY <1>1, <1>2, <1>3, <1>10, LoadedFacts, ApplyInv
<1> QED
  BY <1>1, <1>8, <1>9, <1>10

LEMMA KeyCheckedInv ==
  ASSUME SettingsInv, NEW p \in Request, KeyChecked(p)
  PROVE  SettingsInv'
<1>1. up /\ patch[p] = "checking" /\ UNCHANGED update
  BY DEF KeyChecked
<1>2. CASE Ends(p, "refused") /\ UNCHANGED <<content, file, cached, chain, generation, ttl, up,
                                             snapshot, faults, crashes>>
  <2>1. /\ patch' \in [Request -> {"idle", "checking", "saved", "refused", "failed", "lost"}]
        /\ patch'[p] = "refused" /\ \A q \in Request \ {p} : patch'[q] = patch[q]
    BY <1>2 DEF SettingsInv, Shapes, SettingsTypeOK, Ends
  <2>2. Shapes'
    BY <1>1, <1>2, <2>1 DEF SettingsInv, Shapes, SettingsTypeOK
  <2>3. RequestInv'
    BY <1>1, <1>2, <2>1 DEF SettingsInv, RequestInv
  <2>4. \A q \in Request : GaveNone(q) => GaveNone(q)'
    BY <1>1, <2>1 DEF GaveNone
  <2> QED
    BY <1>2, <2>2, <2>3, <2>4 DEF SettingsInv, ServerInv, InForce
<1>3. CASE Apply(p, snapshot[p], update[p])
  <2>1. /\ IsSettings(snapshot[p]) /\ Readable(snapshot[p]) /\ IsUpdate(update[p])
        /\ DOMAIN update[p] # {}
    BY <1>1 DEF SettingsInv, Shapes, SettingsTypeOK, RequestInv
  <2>2. update' = [update EXCEPT ![p] = update[p]]
    BY <1>1 DEF SettingsInv, Shapes
  <2> QED
    BY <1>1, <1>3, <2>1, <2>2, ApplyInv
<1> QED
  BY <1>2, <1>3 DEF KeyChecked

LEMMA LoadInv == SettingsInv /\ Load => SettingsInv'
<1> SUFFICES ASSUME SettingsInv, Load PROVE SettingsInv'
  OBVIOUS
<1>1. /\ up /\ cached' = {Loaded} /\ Loads
      /\ UNCHANGED <<content, file, chain, generation, ttl, up, patch, snapshot, update, faults, crashes>>
  BY DEF Load
<1>2. IsSettings(Loaded) /\ Readable(Loaded) /\ (file = "whole" => Loaded = content)
  BY <1>1, LoadedFacts
<1>3. \A x \in cached' : IsSettings(x) /\ Readable(x) /\ cached' = {x}
  BY <1>1, <1>2
<1>4. Shapes'
  BY <1>1, <1>3 DEF SettingsInv, Shapes, SettingsTypeOK
<1> QED
  BY <1>1, <1>2, <1>4 DEF SettingsInv, ServerInv, RequestInv, InForce, GaveNone

LEMMA StartInv == SettingsInv /\ Start => SettingsInv'
<1> SUFFICES ASSUME SettingsInv, Start PROVE SettingsInv'
  OBVIOUS
<1>1. /\ ~up /\ Loads /\ cached' = {Loaded} /\ chain' = Chain(Loaded) /\ generation' = generation + 1
      /\ ttl' = Loaded["job_ttl_hours"] /\ up' = TRUE
      /\ UNCHANGED <<patch, snapshot, update, faults, crashes>>
  BY DEF Start
<1>2. /\ content' = IF file = "absent" THEN Defaults ELSE content
      /\ file' = IF file = "absent" THEN "whole" ELSE file
  BY DEF Start
<1>3. IsSettings(Loaded) /\ Readable(Loaded) /\ (file' = "whole" => Loaded = content')
  BY <1>1, <1>2, LoadedFacts DEF SettingsInv, ServerInv, Loaded
<1>4. \A x \in cached' : IsSettings(x) /\ Readable(x) /\ cached' = {x}
  BY <1>1, <1>3
<1>5. ttl' \in Values["job_ttl_hours"] /\ generation' \in Nat
  BY <1>1, <1>3, SettingsAssumption DEF IsSettings, SettingsInv, Shapes, SettingsTypeOK
<1>6. IsSettings(content)' /\ file' \in {"torn", "whole"}
  BY <1>2, SettingsAssumption DEF SettingsInv, Shapes, SettingsTypeOK
<1>7. Shapes'
  BY <1>1, <1>4, <1>5, <1>6 DEF SettingsInv, Shapes, SettingsTypeOK
<1>8. RequestInv'
  BY <1>1 DEF SettingsInv, RequestInv
<1>9. chain' \in Seq(Resolvers) /\ generation' # 0
  BY <1>1, <1>3, ChainType DEF SettingsInv, Shapes, SettingsTypeOK
<1> QED
  BY <1>1, <1>3, <1>6, <1>7, <1>8, <1>9 DEF SettingsInv, ServerInv, InForce

LEMMA NextInv == SettingsInv /\ [SettingsNext]_settingsVars => SettingsInv'
<1> SUFFICES ASSUME SettingsInv, [SettingsNext]_settingsVars PROVE SettingsInv'
  OBVIOUS
<1>1. ASSUME NEW p \in Request, Patch(p) PROVE SettingsInv'
  BY <1>1, PatchInv
<1>2. ASSUME NEW p \in Request, KeyChecked(p) PROVE SettingsInv'
  BY <1>2, KeyCheckedInv
<1>3. CASE Load
  BY <1>3, LoadInv
<1>4. CASE Crash
  <2>1. crashes < Crashes /\ Dies /\ file' = file /\ update' = update
    BY <1>4 DEF Crash
  <2>2. update' = [q \in Request |-> update'[q]] /\ \A q \in Request : IsUpdate(update'[q])
    BY <2>1 DEF SettingsInv, Shapes, SettingsTypeOK
  <2> QED
    BY <2>1, <2>2, DiesInv
<1>5. CASE Start
  BY <1>5, StartInv
<1>6. CASE UNCHANGED settingsVars
  <2>1. Shapes'
    BY <1>6 DEF SettingsInv, Shapes, SettingsTypeOK, settingsVars
  <2> QED
    BY <1>6, <2>1 DEF SettingsInv, ServerInv, RequestInv, InForce, GaveNone, settingsVars
<1> QED
  BY <1>1, <1>2, <1>3, <1>4, <1>5, <1>6 DEF SettingsNext

-----------------------------------------------------------------------------
(* What a step does to the settings of the file. *)
GivenChange ==
  \A f \in Fields : content'[f] # content[f] =>
    \E p \in Request :
      /\ patch'[p] # patch[p]
      /\ f \in DOMAIN update'[p] \/ patch[p] = "checking" \/ file = "torn"

\* Settings are written by the end of a PATCH alone, over those it loaded or kept.
LEMMA ApplyChange ==
  ASSUME SettingsInv, up, NEW p \in Request, NEW current, NEW u,
         patch[p] \in {"idle", "checking"}, update'[p] = u,
         IsSettings(current), IsUpdate(u),
         patch[p] = "checking" \/ (file = "whole" => current = content),
         Apply(p, current, u)
  PROVE  GivenChange
<1>1. CASE UNCHANGED content
  BY <1>1 DEF GivenChange
<1>2. CASE content' = Merge(current, u) /\ (Ends(p, "saved") \/ Ends(p, "failed"))
  <2>1. patch'[p] # patch[p]
    BY <1>2 DEF Ends, SettingsInv, Shapes, SettingsTypeOK
  <2>2. file \in {"whole", "torn"}
    BY DEF SettingsInv, Shapes, SettingsTypeOK, ServerInv
  <2>3. \A f \in Fields : f \in DOMAIN u \/ content'[f] = current[f]
    BY <1>2 DEF Merge
  <2> QED
    BY <2>1, <2>2, <2>3 DEF GivenChange
<1> QED
  BY <1>1, <1>2 DEF Apply, Dies

LEMMA StepChange ==
  ASSUME SettingsInv, [SettingsNext]_settingsVars
  PROVE  GivenChange
<1>1. ASSUME NEW p \in Request, Patch(p) PROVE GivenChange
  <2> DEFINE key == "librariesio_api_key"
             Kept(u) == IF key \in DOMAIN u /\ u[key] = "" THEN Without(u, key) ELSE u
  <2>1. PICK u \in Updates :
          /\ update' = [update EXCEPT ![p] = Kept(u)]
          /\ UNCHANGED content \/ (Loads /\ Apply(p, Loaded, Kept(u)))
    BY <1>1, Zenon DEF Patch
  <2>2. IsUpdate(Kept(u))
    BY WithoutFacts, SettingsAssumption
  <2>3. up /\ patch[p] = "idle"
    BY <1>1 DEF Patch
  <2> HIDE DEF Kept
  <2>4. update'[p] = Kept(u)
    BY <2>1 DEF SettingsInv, Shapes
  <2>5. CASE UNCHANGED content
    BY <2>5 DEF GivenChange
  <2>6. CASE Loads /\ Apply(p, Loaded, Kept(u))
    BY <2>2, <2>3, <2>4, <2>6, LoadedFacts, ApplyChange
  <2> QED
    BY <2>1, <2>5, <2>6
<1>2. ASSUME NEW p \in Request, KeyChecked(p) PROVE GivenChange
  <2>1. up /\ patch[p] = "checking" /\ update'[p] = update[p]
    BY <1>2 DEF KeyChecked
  <2>2. IsSettings(snapshot[p]) /\ IsUpdate(update[p])
    BY DEF SettingsInv, Shapes, SettingsTypeOK
  <2>3. CASE UNCHANGED content
    BY <2>3 DEF GivenChange
  <2>4. CASE Apply(p, snapshot[p], update[p])
    BY <2>1, <2>2, <2>4, ApplyChange
  <2> QED
    BY <1>2, <2>3, <2>4 DEF KeyChecked
<1>3. CASE Load \/ Crash \/ Start \/ UNCHANGED settingsVars
  <2>1. content' = content
    BY <1>3 DEF Load, Crash, Dies, Start, settingsVars, SettingsInv, ServerInv
  <2> QED
    BY <2>1 DEF GivenChange
<1> QED
  BY <1>1, <1>2, <1>3 DEF SettingsNext

-----------------------------------------------------------------------------
LEMMA InvariantHolds == SettingsSpec => []SettingsInv
BY InitInv, NextInv, PTL DEF SettingsSpec

(* Settings that are read or kept are settings, each field with a value it may have. *)
THEOREM SettingsTypes == SettingsSpec => []SettingsTypeOK
<1>1. SettingsInv => SettingsTypeOK
  BY DEF SettingsInv, Shapes
<1> QED BY <1>1, InvariantHolds, PTL

(* The running server does what the settings file says. *)
LEMMA ForceOfInvariant == SettingsInv => FileInForce
BY DEF SettingsInv, InForce, FileInForce, GaveNone

THEOREM FileIsInForce == SettingsSpec => []FileInForce
BY ForceOfInvariant, InvariantHolds, PTL

(* A setting changes only to what a request gave for it, with the exceptions it states. *)
THEOREM GivenChanges == SettingsSpec => OnlyGivenChange
<1>1. SettingsInv /\ [SettingsNext]_settingsVars => [GivenChange]_settingsVars
  BY StepChange
<1> QED BY <1>1, InvariantHolds, PTL DEF SettingsSpec, OnlyGivenChange, GivenChange

-----------------------------------------------------------------------------
(* II.  The chain of resolvers.                                            *)

-----------------------------------------------------------------------------
(* The inductive invariant.                                                *)

Calling == {"limit", "sleep", "request", "refetch", "backoff"}
Asking == Calling \cup {"thread", "prompt", "head"}
Steps == Asking \cup {"idle", "ask", "over"}
Outcomes == {"pending", "found", "none", "invalid_purl", "upstream_error", "raised", "lost"}

Forms ==
  /\ step = [t \in Task |-> step[t]] /\ outcome = [t \in Task |-> outcome[t]]
  /\ held = [t \in Task |-> held[t]] /\ gen = [t \in Task |-> gen[t]] /\ at = [t \in Task |-> at[t]]
  /\ attempt = [t \in Task |-> attempt[t]] /\ log = [t \in Task |-> log[t]]
  /\ waitsFor = [t \in Task |-> waitsFor[t]]

Types(t) ==
  /\ step[t] \in Steps /\ outcome[t] \in Outcomes /\ held[t] \in Seq(Resolvers)
  /\ gen[t] \in 0..Generations /\ at[t] \in 0..Len(held[t]) /\ attempt[t] \in Nat \ {0}
  /\ waitsFor[t] \in Nat

\* The resolver it asks: how often that tries, and which it is.
Most(t) == held[t][at[t]].attempts
Kind(t) == held[t][at[t]].kind

\* Where a resolution is in its chain, and at which attempt.
PlaceInv(t) ==
  /\ step[t] = "over" <=> outcome[t] # "pending"
  /\ step[t] = "idle" => at[t] = 0
  /\ step[t] # "idle" => gen[t] # 0
  /\ step[t] \in Asking => at[t] > 0
  /\ step[t] \in Calling => Kind(t) \in Limited
  /\ at[t] > 0 => attempt[t] <= Most(t)
  /\ step[t] = "backoff" => attempt[t] < Most(t)

\* What the attempts before have come to.
LogInv(t) ==
  /\ log[t].before \subseteq {"transport"} \/ log[t].before \subseteq {"bad"}
  /\ step[t] \in {"limit", "sleep", "thread"} => log[t] = NoLog
  /\ step[t] \in {"request", "backoff"} =>
       log[t].before \subseteq {"transport"} /\ log[t].last \in {"transport", "none"}
  /\ step[t] \in {"prompt", "head"} =>
       log[t].before \subseteq {"bad"} /\ log[t].last \in {"bad", "none"}
  /\ at[t] > 0 /\ step[t] = "ask" /\ log[t].last \in {"transport", "bad"} =>
       attempt[t] = Most(t)

\* The intervals of a limiter end in their order, so the last one that is over has no open one
\* before it.
LimiterInv ==
  /\ granted \in [Limiter -> Nat]
  /\ open \subseteq Limiter \X Nat
  /\ \A i \in Limiter : \A n \in Nat : <<i, n>> \in open => n \in 1..granted[i]
  /\ \A i \in Limiter : \A m, n \in 1..granted[i] : m < n /\ <<i, m>> \in open => <<i, n>> \in open

WaitInv(t) == step[t] = "sleep" => waitsFor[t] <= granted[LimiterOf(t)]

CallInv ==
  /\ Forms /\ LimiterInv
  /\ \A t \in Task : Types(t) /\ PlaceInv(t) /\ LogInv(t) /\ WaitInv(t)

IInv == SettingsInv /\ generation <= Generations /\ CallInv

-----------------------------------------------------------------------------
(* What an action of task t leaves as it is: everything of the others.      *)
Others(t) ==
  \A s \in Task \ {t} :
    /\ step'[s] = step[s] /\ outcome'[s] = outcome[s] /\ held'[s] = held[s] /\ gen'[s] = gen[s]
    /\ at'[s] = at[s] /\ attempt'[s] = attempt[s] /\ log'[s] = log[s] /\ waitsFor'[s] = waitsFor[s]

(* What the invariant says of one task. *)
LEMMA OfTask ==
  ASSUME CallInv, NEW t \in Task
  PROVE  Forms /\ Types(t) /\ PlaceInv(t) /\ LogInv(t) /\ WaitInv(t)
BY DEF CallInv

(* The resolver that a resolution asks. *)
LEMMA AskedFacts ==
  ASSUME CallInv, NEW t \in Task, at[t] > 0
  PROVE  /\ Asked(t) = held[t][at[t]] /\ held[t][at[t]] \in Resolvers
         /\ Most(t) \in Nat \ {0} /\ Most(t) = Asked(t).attempts /\ Kind(t) = Asked(t).kind
<1>1. Asked(t) = held[t][at[t]]
  BY DEF Asked, ChainOf
<1>2. at[t] \in 1..Len(held[t]) /\ held[t] \in Seq(Resolvers)
  BY OfTask DEF Types
<1>3. held[t][at[t]] \in Resolvers
  BY <1>2
<1> QED BY <1>1, <1>3 DEF Resolvers, Most, Kind

LEMMA LimiterOfFacts ==
  ASSUME CallInv, NEW t \in Task, step[t] \in Calling
  PROVE  LimiterOf(t) \in Limiter /\ LimiterOf(t) = <<gen[t], Kind(t)>>
<1>0. gen[t] \in 0..Generations /\ gen[t] # 0 /\ Kind(t) \in Limited
  BY OfTask DEF Types, PlaceInv, Calling
<1>1. gen[t] \in 1..Generations /\ Kind(t) \in Limited
  BY <1>0, ChainAssumption
<1>2. LimiterOf(t) = <<gen[t], Kind(t)>>
  BY DEF LimiterOf, Asked, ChainOf, Kind
<1> QED BY <1>1, <1>2 DEF Limiter

(* An action of task t keeps what the invariant says of the others. *)
LEMMA OthersInv ==
  ASSUME CallInv, NEW t \in Task, Others(t), NEW s \in Task \ {t},
         \A i \in Limiter : granted'[i] \in Nat /\ granted'[i] >= granted[i]
  PROVE  Types(s)' /\ PlaceInv(s)' /\ LogInv(s)' /\ WaitInv(s)'
<1>1. Types(s) /\ PlaceInv(s) /\ LogInv(s) /\ WaitInv(s)
  BY OfTask
<1>2. Types(s)' /\ PlaceInv(s)' /\ LogInv(s)'
  BY <1>1 DEF Others, Types, PlaceInv, LogInv, Most, Kind
<1>3. ASSUME step'[s] = "sleep" PROVE waitsFor'[s] <= granted'[LimiterOf(s)']
  <2>1. step[s] = "sleep" /\ LimiterOf(s)' = LimiterOf(s)
    BY <1>3 DEF Others, LimiterOf, Asked, ChainOf
  <2>2. LimiterOf(s) \in Limiter
    BY <2>1, LimiterOfFacts DEF Calling
  <2>3. waitsFor[s] <= granted[LimiterOf(s)] /\ waitsFor'[s] = waitsFor[s] /\ waitsFor[s] \in Nat
    BY <1>1, <2>1 DEF WaitInv, Others, Types
  <2>4. granted'[LimiterOf(s)] >= granted[LimiterOf(s)] /\ granted'[LimiterOf(s)] \in Nat
        /\ granted[LimiterOf(s)] \in Nat
    BY <2>2 DEF CallInv, LimiterInv
  <2> QED
    BY <2>1, <2>3, <2>4
<1> QED BY <1>2, <1>3 DEF WaitInv

(* An action of task t that grants nothing keeps the invariant if it keeps what it says of t. *)
LEMMA TaskStep ==
  ASSUME CallInv, NEW t \in Task, Others(t), Forms', UNCHANGED <<granted, open>>,
         Types(t)', PlaceInv(t)', LogInv(t)', WaitInv(t)'
  PROVE  CallInv'
<1>1. LimiterInv'
  BY DEF CallInv, LimiterInv
<1>2. \A i \in Limiter : granted'[i] \in Nat /\ granted'[i] >= granted[i]
  BY DEF CallInv, LimiterInv
<1>3. \A s \in Task \ {t} : Types(s)' /\ PlaceInv(s)' /\ LogInv(s)' /\ WaitInv(s)'
  BY <1>2, OthersInv
<1> QED BY <1>1, <1>3 DEF CallInv

-----------------------------------------------------------------------------
LEMMA CallsInitInv == CallsInit => CallInv
<1> SUFFICES ASSUME CallsInit PROVE CallInv
  OBVIOUS
<1>1. Forms
  BY DEF CallsInit, Forms
<1>2. <<>> \in Seq(Resolvers) /\ Len(<<>>) = 0
  OBVIOUS
<1>3. ASSUME NEW t \in Task PROVE Types(t)
  <2>1. step[t] \in Steps /\ outcome[t] \in Outcomes
    BY DEF CallsInit, Steps, Outcomes
  <2>2. held[t] = <<>> /\ gen[t] = 0 /\ at[t] = 0 /\ attempt[t] = 1 /\ waitsFor[t] = 0
    BY DEF CallsInit
  <2> QED BY <1>2, <2>1, <2>2, ChainAssumption DEF Types
<1>4. LimiterInv
  BY DEF CallsInit, LimiterInv
<1>5. ASSUME NEW t \in Task PROVE PlaceInv(t) /\ LogInv(t) /\ WaitInv(t)
  <2>1. step[t] = "idle" /\ outcome[t] = "pending" /\ at[t] = 0 /\ log[t] = NoLog
    BY DEF CallsInit
  <2>2. step[t] \notin Asking /\ step[t] \notin Calling
    BY <2>1 DEF Asking, Calling
  <2>3. PlaceInv(t)
    BY <1>3, <2>1, <2>2 DEF Types, PlaceInv
  <2>4. LogInv(t) /\ WaitInv(t)
    BY <1>3, <2>1 DEF Types, LogInv, WaitInv, NoLog
  <2> QED BY <2>3, <2>4
<1> QED BY <1>1, <1>3, <1>4, <1>5 DEF CallInv

LEMMA HoldInv ==
  ASSUME IInv, NEW t \in Task, Hold(t)
  PROVE  CallInv'
<1>1. /\ step[t] = "idle" /\ step' = [step EXCEPT ![t] = "ask"] /\ held' = [held EXCEPT ![t] = chain]
      /\ gen' = [gen EXCEPT ![t] = generation]
      /\ UNCHANGED <<outcome, at, attempt, log, waitsFor, granted, open>>
  BY DEF Hold, Goes
<1>2. chain \in Seq(Resolvers) /\ generation \in 1..Generations
  BY ChainAssumption DEF Hold, IInv, SettingsInv, ServerInv, Shapes, SettingsTypeOK
<1>3. Forms /\ Types(t) /\ PlaceInv(t) /\ LogInv(t) /\ CallInv
  BY OfTask DEF IInv
<1>4. Forms' /\ Others(t)
  BY <1>1, <1>3 DEF Forms, Others
<1>5. /\ step'[t] = "ask" /\ held'[t] = chain /\ gen'[t] = generation /\ outcome'[t] = outcome[t]
      /\ at'[t] = 0 /\ attempt'[t] = attempt[t] /\ log'[t] = log[t] /\ waitsFor'[t] = waitsFor[t]
  BY <1>1, <1>3 DEF Forms, PlaceInv
<1>6. Types(t)'
  BY <1>2, <1>3, <1>5 DEF Types, Steps
<1>7. PlaceInv(t)'
  <2>1. step'[t] \notin Asking /\ step'[t] \notin Calling /\ gen'[t] # 0
    BY <1>2, <1>5 DEF Asking, Calling
  <2> QED BY <1>1, <1>3, <1>5, <1>6, <2>1 DEF Types, PlaceInv
<1>8. LogInv(t)' /\ WaitInv(t)'
  BY <1>3, <1>5 DEF LogInv, WaitInv
<1> QED BY <1>1, <1>3, <1>4, <1>6, <1>7, <1>8, TaskStep

(* The resolver that is asked next is one of those that are, or none is left. *)
LEMMA AskFacts ==
  ASSUME CallInv, NEW t \in Task, Ask(t)
  PROVE  \/ at[t] >= Len(held[t]) /\ Over(t, "none") /\ UNCHANGED <<at, attempt, log>>
         \/ /\ at[t] + 1 \in 1..Len(held[t]) /\ held[t][at[t] + 1] \in Resolvers
            /\ at' = [at EXCEPT ![t] = @ + 1]
            /\ attempt' = [attempt EXCEPT ![t] = 1] /\ log' = [log EXCEPT ![t] = NoLog]
            /\ \/ Goes(t, "ask") \/ Goes(t, "thread") \/ Found(t) \/ Goes(t, "prompt")
               \/ held[t][at[t] + 1].kind \in Limited /\ Goes(t, "limit")
<1> DEFINE kind == held[t][at[t] + 1].kind
<1>1. ChainOf(t) = held[t] /\ Types(t)
  BY OfTask DEF ChainOf
<1>2. CASE at[t] >= Len(held[t]) /\ Over(t, "none") /\ UNCHANGED <<at, fetch, attempt, log>>
  BY <1>2
<1>3. CASE /\ at[t] < Len(held[t]) /\ at' = [at EXCEPT ![t] = @ + 1]
           /\ attempt' = [attempt EXCEPT ![t] = 1] /\ log' = [log EXCEPT ![t] = NoLog]
           /\ IF ~Supports(kind, type[t]) THEN Goes(t, "ask")
              ELSE CASE kind = "purl2repo" -> Goes(t, "thread")
                     [] kind = "apk" -> Found(t)
                     [] kind = "llm" -> Goes(t, "prompt")
                     [] kind \in Limited -> Goes(t, "limit")
  <2>1. at[t] + 1 \in 1..Len(held[t]) /\ held[t][at[t] + 1] \in Resolvers
    BY <1>1, <1>3 DEF Types
  <2>2. kind \in {"purl2repo", "depsdev", "ecosystems", "librariesio", "apk", "llm"}
    BY <2>1 DEF Resolvers
  <2> HIDE DEF kind
  <2>3. \/ Goes(t, "ask") \/ Goes(t, "thread") \/ Found(t) \/ Goes(t, "prompt")
        \/ kind \in Limited /\ Goes(t, "limit")
    BY <1>3, <2>2 DEF Limited
  <2> QED BY <1>3, <2>1, <2>3 DEF kind
<1> QED BY <1>1, <1>2, <1>3, Zenon DEF Ask

LEMMA AskInv ==
  ASSUME CallInv, NEW t \in Task, Ask(t)
  PROVE  CallInv'
<1>1. step[t] = "ask" /\ UNCHANGED <<held, gen, waitsFor, granted, open>>
  BY DEF Ask
<1>2. Forms /\ Types(t) /\ PlaceInv(t) /\ LogInv(t)
  BY OfTask
<1>3. CASE Over(t, "none") /\ UNCHANGED <<at, attempt, log>>
  <2>1. Forms' /\ Others(t) /\ step'[t] = "over" /\ outcome'[t] = "none"
    BY <1>1, <1>2, <1>3 DEF Forms, Others, Over
  <2>2. Types(t)'
    BY <1>1, <1>2, <1>3, <2>1 DEF Types, Steps, Outcomes
  <2>3. PlaceInv(t)' /\ LogInv(t)' /\ WaitInv(t)'
    BY <1>1, <1>2, <1>3, <2>1 DEF PlaceInv, LogInv, WaitInv, Asking, Calling, Most, Kind
  <2> QED BY <1>1, <2>1, <2>2, <2>3, TaskStep
<1>4. CASE /\ at[t] + 1 \in 1..Len(held[t]) /\ held[t][at[t] + 1] \in Resolvers
           /\ at' = [at EXCEPT ![t] = @ + 1]
           /\ attempt' = [attempt EXCEPT ![t] = 1] /\ log' = [log EXCEPT ![t] = NoLog]
           /\ \/ Goes(t, "ask") \/ Goes(t, "thread") \/ Found(t) \/ Goes(t, "prompt")
              \/ held[t][at[t] + 1].kind \in Limited /\ Goes(t, "limit")
  <2>1. held[t][at[t] + 1].attempts \in Nat \ {0}
    BY <1>4 DEF Resolvers
  <2>2. /\ Forms' /\ Others(t)
        /\ \/ step'[t] \in {"ask", "thread", "prompt"} /\ outcome'[t] = outcome[t]
           \/ step'[t] = "limit" /\ held[t][at[t] + 1].kind \in Limited /\ outcome'[t] = outcome[t]
           \/ step'[t] = "over" /\ outcome'[t] = "found"
    BY <1>1, <1>2, <1>4 DEF Forms, Others, Goes, Found, Over
  <2>3. /\ at'[t] = at[t] + 1 /\ attempt'[t] = 1 /\ log'[t] = NoLog /\ held'[t] = held[t]
        /\ gen'[t] = gen[t] /\ waitsFor'[t] = waitsFor[t]
    BY <1>1, <1>2, <1>4 DEF Forms
  <2>4. Types(t)'
    <3>1. step'[t] \in Steps /\ outcome'[t] \in Outcomes
      BY <1>2, <2>2 DEF Types, Steps, Asking, Calling, Outcomes
    <3> QED BY <1>2, <1>4, <2>3, <3>1 DEF Types
  <2>5. PlaceInv(t)'
    <3>1. at'[t] > 0 /\ gen'[t] # 0 /\ attempt'[t] <= Most(t)'
      BY <1>1, <1>2, <2>1, <2>3 DEF Types, PlaceInv, Most
    <3>2. step'[t] \in Calling => Kind(t)' \in Limited
      BY <2>2, <2>3 DEF Calling, Kind
    <3>3. step'[t] # "idle" /\ step'[t] # "backoff" /\ (step'[t] = "over" <=> outcome'[t] # "pending")
      BY <1>1, <1>2, <2>2 DEF PlaceInv
    <3> QED BY <2>4, <3>1, <3>2, <3>3 DEF Types, PlaceInv
  <2>6. LogInv(t)' /\ WaitInv(t)'
    BY <2>2, <2>3 DEF LogInv, WaitInv, NoLog
  <2> QED BY <1>1, <2>2, <2>4, <2>5, <2>6, TaskStep
<1> QED BY <1>3, <1>4, AskFacts

LEMMA Purl2RepoInv ==
  ASSUME CallInv, NEW t \in Task, Purl2Repo(t)
  PROVE  CallInv'
<1>1. /\ step[t] = "thread" /\ UNCHANGED <<held, gen, at, attempt, log, waitsFor, granted, open>>
      /\ Found(t) \/ Goes(t, "ask") \/ Over(t, "invalid_purl") \/ Over(t, "upstream_error")
  BY DEF Purl2Repo
<1>2. Forms /\ Types(t) /\ PlaceInv(t) /\ LogInv(t)
  BY OfTask
<1>3. /\ Forms' /\ Others(t)
      /\ \/ step'[t] = "ask" /\ outcome'[t] = outcome[t]
         \/ step'[t] = "over" /\ outcome'[t] \in {"found", "invalid_purl", "upstream_error"}
  BY <1>1, <1>2 DEF Forms, Others, Found, Goes, Over
<1>4. Types(t)'
  BY <1>1, <1>2, <1>3 DEF Types, Steps, Outcomes
<1>5. PlaceInv(t)'
  BY <1>1, <1>2, <1>3 DEF PlaceInv, Asking, Calling, Most, Kind
<1>6. LogInv(t)' /\ WaitInv(t)'
  BY <1>1, <1>2, <1>3 DEF LogInv, WaitInv, NoLog, Most
<1> QED BY <1>1, <1>3, <1>4, <1>5, <1>6, TaskStep

-----------------------------------------------------------------------------
(* The limiters.                                                           *)

LEMMA GrantInv ==
  ASSUME CallInv, NEW t \in Task, step[t] \in {"limit", "sleep"}, Grant(t),
         UNCHANGED <<held, gen, at, attempt, log>>,
         waitsFor' = [waitsFor EXCEPT ![t] = waitsFor'[t]], waitsFor'[t] \in Nat
  PROVE  CallInv'
<1> DEFINE i == LimiterOf(t)
<1>1. i \in Limiter
  BY LimiterOfFacts DEF Calling
<1>2. Forms /\ Types(t) /\ PlaceInv(t) /\ LogInv(t) /\ LimiterInv
  BY OfTask DEF CallInv
<1> HIDE DEF i
<1>3. /\ granted' = [granted EXCEPT ![i] = @ + 1] /\ open' = open \cup {<<i, granted[i] + 1>>}
      /\ step' = [step EXCEPT ![t] = "request"] /\ UNCHANGED outcome
  BY DEF Grant, Goes, i
<1>4. LimiterInv'
  <2>1. /\ granted' \in [Limiter -> Nat] /\ granted[i] \in Nat /\ granted'[i] = granted[i] + 1
        /\ \A j \in Limiter \ {i} : granted'[j] = granted[j]
    BY <1>1, <1>2, <1>3 DEF LimiterInv
  <2>2. open' \subseteq Limiter \X Nat
    BY <1>1, <1>2, <1>3, <2>1 DEF LimiterInv
  <2>3. \A j, n : <<j, n>> \in open' <=> <<j, n>> \in open \/ (j = i /\ n = granted[i] + 1)
    BY <1>3
  <2>4. ASSUME NEW j \in Limiter, NEW n \in Nat, <<j, n>> \in open' PROVE n \in 1..granted'[j]
    <3>1. granted[j] \in Nat /\ (<<j, n>> \in open => n \in 1..granted[j])
      BY <1>2 DEF LimiterInv
    <3> QED BY <2>1, <2>3, <2>4, <3>1
  <2>5. ASSUME NEW j \in Limiter, NEW m \in 1..granted'[j], NEW n \in 1..granted'[j],
               m < n, <<j, m>> \in open'
        PROVE  <<j, n>> \in open'
    <3>1. granted[j] \in Nat
          /\ (m \in 1..granted[j] /\ n \in 1..granted[j] /\ <<j, m>> \in open => <<j, n>> \in open)
      BY <1>2, <2>5 DEF LimiterInv
    <3>2. CASE j # i
      BY <2>1, <2>3, <2>5, <3>1, <3>2
    <3>3. CASE j = i
      BY <2>1, <2>3, <2>5, <3>1, <3>3
    <3> QED BY <3>2, <3>3
  <2> QED BY <2>1, <2>2, <2>4, <2>5 DEF LimiterInv
<1>5. Forms' /\ Others(t)
  BY <1>2, <1>3 DEF Forms, Others
<1>6. step'[t] = "request" /\ outcome'[t] = outcome[t]
  BY <1>2, <1>3 DEF Forms
<1>7. Types(t)'
  BY <1>2, <1>6 DEF Types, Steps, Asking, Calling
<1>8. PlaceInv(t)'
  BY <1>2, <1>6 DEF PlaceInv, Asking, Calling, Most, Kind
<1>9. LogInv(t)' /\ WaitInv(t)'
  BY <1>2, <1>6 DEF LogInv, WaitInv, NoLog
<1>10. \A j \in Limiter : granted'[j] \in Nat /\ granted'[j] >= granted[j]
  BY <1>1, <1>2, <1>3 DEF LimiterInv
<1>11. \A s \in Task \ {t} : Types(s)' /\ PlaceInv(s)' /\ LogInv(s)' /\ WaitInv(s)'
  BY <1>5, <1>10, OthersInv
<1> QED BY <1>4, <1>5, <1>7, <1>8, <1>9, <1>11 DEF CallInv

LEMMA LimiterLooksInv ==
  ASSUME CallInv, NEW t \in Task, LimiterLooks(t)
  PROVE  CallInv'
<1>1. /\ step[t] = "limit" /\ UNCHANGED <<held, gen, at, attempt, log>>
      /\ waitsFor' = [waitsFor EXCEPT ![t] = granted[LimiterOf(t)]]
      /\ Grant(t) \/ (Goes(t, "sleep") /\ UNCHANGED <<granted, open>>)
  BY DEF LimiterLooks
<1>2. Forms /\ Types(t) /\ PlaceInv(t) /\ LogInv(t) /\ LimiterInv
  BY OfTask DEF CallInv
<1>3. granted[LimiterOf(t)] \in Nat
  BY <1>1, <1>2, LimiterOfFacts DEF Calling, LimiterInv
<1>4. waitsFor'[t] = granted[LimiterOf(t)]
  BY <1>1, <1>2 DEF Forms
<1>5. CASE Grant(t)
  BY <1>1, <1>3, <1>4, <1>5, GrantInv
<1>6. CASE Goes(t, "sleep") /\ UNCHANGED <<granted, open>>
  <2>1. Forms' /\ Others(t) /\ step'[t] = "sleep" /\ outcome'[t] = outcome[t]
    BY <1>1, <1>2, <1>6 DEF Forms, Others, Goes
  <2>2. Types(t)'
    BY <1>1, <1>2, <1>3, <1>4, <2>1 DEF Types, Steps, Asking, Calling
  <2>3. PlaceInv(t)' /\ LogInv(t)'
    BY <1>1, <1>2, <2>1 DEF PlaceInv, LogInv, Asking, Calling, Most, Kind
  <2>4. WaitInv(t)'
    <3>1. LimiterOf(t)' = LimiterOf(t)
      BY <1>1 DEF LimiterOf, Asked, ChainOf
    <3> QED BY <1>3, <1>4, <1>6, <3>1 DEF WaitInv
  <2> QED BY <1>6, <2>1, <2>2, <2>3, <2>4, TaskStep
<1> QED BY <1>1, <1>5, <1>6

LEMMA LimiterWakesInv ==
  ASSUME CallInv, NEW t \in Task, LimiterWakes(t)
  PROVE  CallInv'
<1>1. Forms /\ Types(t)
  BY OfTask
<1>2. waitsFor' = [waitsFor EXCEPT ![t] = waitsFor'[t]] /\ waitsFor'[t] \in Nat
  BY <1>1 DEF LimiterWakes, Forms, Types
<1> QED BY <1>2, GrantInv DEF LimiterWakes

LEMMA ElapseInv ==
  ASSUME CallInv, NEW i \in Limiter, Elapse(i)
  PROVE  CallInv'
<1>1. PICK n \in 1..granted[i] : /\ <<i, n>> \in open /\ \A m \in 1..(n - 1) : <<i, m>> \notin open
                                 /\ open' = open \ {<<i, n>>}
  BY DEF Elapse
<1>2. UNCHANGED <<step, outcome, held, gen, at, attempt, log, waitsFor, granted>>
  BY DEF Elapse
<1>3. LimiterInv
  BY DEF CallInv
<1>4. \A j, m : <<j, m>> \in open' <=> <<j, m>> \in open /\ ~(j = i /\ m = n)
  BY <1>1
<1>5. open' \subseteq Limiter \X Nat
  BY <1>1, <1>3 DEF LimiterInv
<1>6. ASSUME NEW j \in Limiter, NEW m \in 1..granted[j], NEW k \in 1..granted[j],
             m < k, <<j, m>> \in open'
      PROVE  <<j, k>> \in open'
  <2>1. <<j, m>> \in open /\ <<j, k>> \in open /\ ~(j = i /\ m = n)
    BY <1>3, <1>4, <1>6 DEF LimiterInv
  <2>2. granted[i] \in Nat
    BY <1>3 DEF LimiterInv
  <2>3. ASSUME j = i, k = n PROVE FALSE
    <3>1. m \in 1..(n - 1)
      BY <1>6, <2>2, <2>3
    <3> QED BY <1>1, <2>1, <2>3, <3>1
  <2> QED BY <1>4, <2>1, <2>3
<1>7. LimiterInv'
  BY <1>2, <1>3, <1>4, <1>5, <1>6 DEF LimiterInv
<1>8. \A t \in Task : Types(t)' /\ PlaceInv(t)' /\ LogInv(t)' /\ WaitInv(t)'
  BY <1>2 DEF CallInv, Types, PlaceInv, LogInv, WaitInv, Most, Kind, LimiterOf, Asked, ChainOf
<1>9. Forms'
  BY <1>2 DEF CallInv, Forms
<1> QED BY <1>7, <1>8, <1>9 DEF CallInv

-----------------------------------------------------------------------------
(* Requests and attempts.                                                  *)

LEMMA RespondInv ==
  ASSUME CallInv, NEW t \in Task, Respond(t)
  PROVE  CallInv'
<1>1. step[t] = "request" /\ UNCHANGED <<held, gen, at, attempt, waitsFor, granted, open>>
  BY DEF Respond
<1>2. Forms /\ Types(t) /\ PlaceInv(t) /\ LogInv(t)
  BY OfTask
<1>3. at[t] > 0 /\ Most(t) \in Nat \ {0} /\ Most(t) = Asked(t).attempts
  BY <1>1, <1>2, AskedFacts DEF PlaceInv, Asking, Calling
<1>4. PICK r \in {"transport", "status", "garbage", "data"} :
        /\ Result(t, r)
        /\ \/ r = "transport" /\ Goes(t, IF Again(t) THEN "backoff" ELSE "ask")
           \/ r # "transport" /\ (Goes(t, "ask") \/ Goes(t, "refetch") \/ Over(t, "raised") \/ Found(t))
  BY DEF Respond
<1>5. /\ Forms' /\ Others(t) /\ log'[t].last = r
      /\ log'[t].before = log[t].before \cup ({log[t].last} \ {"none"})
      /\ \/ step'[t] \in {"ask", "refetch"} /\ outcome'[t] = outcome[t]
         \/ step'[t] = "backoff" /\ outcome'[t] = outcome[t] /\ Again(t)
         \/ step'[t] = "over" /\ outcome'[t] \in {"raised", "found"}
      /\ r = "transport" /\ step'[t] = "ask" => ~Again(t)
      /\ step'[t] = "backoff" => r = "transport"
  BY <1>1, <1>2, <1>4 DEF Forms, Others, Result, Goes, Over, Found
<1>6. Types(t)'
  BY <1>1, <1>2, <1>5 DEF Types, Steps, Asking, Calling, Outcomes
<1>7. Most(t)' = Most(t) /\ Kind(t)' = Kind(t) /\ (Again(t) <=> attempt[t] < Most(t))
  BY <1>1, <1>3 DEF Most, Kind, Again
<1>8. PlaceInv(t)'
  BY <1>1, <1>2, <1>3, <1>5, <1>7 DEF PlaceInv, Asking, Calling
<1>9. log'[t].before \subseteq {"transport"}
  BY <1>1, <1>2, <1>5 DEF LogInv
<1>10. attempt[t] <= Most(t) /\ attempt[t] \in Nat
  BY <1>2, <1>3 DEF PlaceInv, Types
<1>11. LogInv(t)' /\ WaitInv(t)'
  BY <1>1, <1>3, <1>4, <1>5, <1>7, <1>9, <1>10 DEF LogInv, WaitInv
<1> QED BY <1>1, <1>5, <1>6, <1>8, <1>11, TaskStep

LEMMA NextFetchInv ==
  ASSUME CallInv, NEW t \in Task, NextFetch(t)
  PROVE  CallInv'
<1>1. /\ step[t] = "refetch" /\ Goes(t, "limit") /\ attempt' = [attempt EXCEPT ![t] = 1]
      /\ log' = [log EXCEPT ![t] = NoLog]
      /\ UNCHANGED <<held, gen, at, waitsFor, granted, open>>
  BY DEF NextFetch
<1>2. Forms /\ Types(t) /\ PlaceInv(t) /\ LogInv(t)
  BY OfTask
<1>3. Most(t) \in Nat \ {0}
  BY <1>1, <1>2, AskedFacts DEF PlaceInv, Asking, Calling
<1>4. /\ Forms' /\ Others(t) /\ step'[t] = "limit" /\ outcome'[t] = outcome[t] /\ attempt'[t] = 1
      /\ log'[t] = NoLog
  BY <1>1, <1>2 DEF Forms, Others, Goes
<1>5. Types(t)'
  BY <1>1, <1>2, <1>4 DEF Types, Steps, Asking, Calling
<1>6. Most(t)' = Most(t) /\ Kind(t)' = Kind(t)
  BY <1>1 DEF Most, Kind
<1>7. PlaceInv(t)'
  BY <1>1, <1>2, <1>3, <1>4, <1>6 DEF PlaceInv, Asking, Calling
<1>8. LogInv(t)' /\ WaitInv(t)'
  BY <1>4 DEF LogInv, WaitInv, NoLog
<1> QED BY <1>1, <1>4, <1>5, <1>7, <1>8, TaskStep

LEMMA BackoffOverInv ==
  ASSUME CallInv, NEW t \in Task, BackoffOver(t)
  PROVE  CallInv'
<1>1. /\ step[t] = "backoff" /\ Goes(t, "request") /\ attempt' = [attempt EXCEPT ![t] = @ + 1]
      /\ UNCHANGED <<held, gen, at, log, waitsFor, granted, open>>
  BY DEF BackoffOver, Retry
<1>2. Forms /\ Types(t) /\ PlaceInv(t) /\ LogInv(t)
  BY OfTask
<1>3. Most(t) \in Nat \ {0}
  BY <1>1, <1>2, AskedFacts DEF PlaceInv, Asking, Calling
<1>4. /\ Forms' /\ Others(t) /\ step'[t] = "request" /\ outcome'[t] = outcome[t]
      /\ attempt'[t] = attempt[t] + 1
  BY <1>1, <1>2 DEF Forms, Others, Goes
<1>5. Types(t)'
  BY <1>1, <1>2, <1>4 DEF Types, Steps, Asking, Calling
<1>6. Most(t)' = Most(t) /\ Kind(t)' = Kind(t)
  BY <1>1 DEF Most, Kind
<1>7. attempt[t] + 1 <= Most(t)
  BY <1>1, <1>2, <1>3 DEF PlaceInv, Types
<1>8. PlaceInv(t)'
  BY <1>1, <1>2, <1>4, <1>6, <1>7 DEF PlaceInv, Asking, Calling
<1>9. LogInv(t)' /\ WaitInv(t)'
  BY <1>1, <1>2, <1>4 DEF LogInv, WaitInv
<1> QED BY <1>1, <1>4, <1>5, <1>8, <1>9, TaskStep

(* The language model: an attempt that fails is made again or given up, or it ends the resolution. *)
LEMMA LlmInv ==
  ASSUME CallInv, NEW t \in Task, LlmReplies(t) \/ LlmUrlChecked(t)
  PROVE  CallInv'
<1>1. /\ step[t] \in {"prompt", "head"} /\ UNCHANGED <<held, gen, at, waitsFor, granted, open>>
      /\ \/ Result(t, "bad") /\ Again(t) /\ Retry(t) /\ Goes(t, "prompt")
         \/ Result(t, "bad") /\ ~Again(t) /\ UNCHANGED attempt /\ Goes(t, "ask")
         \/ Goes(t, "head") /\ UNCHANGED <<attempt, log>>
         \/ (Result(t, "garbage") \/ Result(t, "data")) /\ UNCHANGED attempt
            /\ (Goes(t, "ask") \/ Over(t, "raised") \/ Over(t, "found"))
  BY DEF LlmReplies, LlmUrlChecked, LlmFails, Found
<1>2. Forms /\ Types(t) /\ PlaceInv(t) /\ LogInv(t)
  BY OfTask
<1>3. at[t] > 0 /\ Most(t) \in Nat \ {0} /\ Most(t) = Asked(t).attempts
  BY <1>1, <1>2, AskedFacts DEF PlaceInv, Asking, Calling
<1>4. /\ Most(t)' = Most(t) /\ Kind(t)' = Kind(t) /\ (Again(t) <=> attempt[t] < Most(t))
      /\ attempt[t] \in Nat \ {0} /\ attempt[t] <= Most(t)
  BY <1>1, <1>2, <1>3 DEF Most, Kind, Again, PlaceInv, Types
<1>5. /\ Forms' /\ Others(t)
      /\ \/ /\ step'[t] = "prompt" /\ outcome'[t] = outcome[t] /\ Again(t)
            /\ attempt'[t] = attempt[t] + 1 /\ log'[t].last = "bad"
            /\ log'[t].before = log[t].before \cup ({log[t].last} \ {"none"})
         \/ /\ step'[t] = "ask" /\ outcome'[t] = outcome[t] /\ ~Again(t)
            /\ attempt'[t] = attempt[t] /\ log'[t].last = "bad"
            /\ log'[t].before = log[t].before \cup ({log[t].last} \ {"none"})
         \/ /\ step'[t] = "head" /\ outcome'[t] = outcome[t] /\ attempt'[t] = attempt[t]
            /\ log'[t] = log[t]
         \/ /\ attempt'[t] = attempt[t] /\ log'[t].last \in {"garbage", "data"}
            /\ log'[t].before = log[t].before \cup ({log[t].last} \ {"none"})
            /\ \/ step'[t] = "ask" /\ outcome'[t] = outcome[t]
               \/ step'[t] = "over" /\ outcome'[t] \in {"raised", "found"}
  BY <1>1, <1>2 DEF Forms, Others, Result, Goes, Over, Retry
<1>6. Types(t)'
  BY <1>1, <1>2, <1>4, <1>5 DEF Types, Steps, Asking, Calling, Outcomes
<1>7. PlaceInv(t)'
  BY <1>1, <1>2, <1>3, <1>4, <1>5 DEF PlaceInv, Asking, Calling
<1>8. log'[t].before \subseteq {"bad"}
  BY <1>1, <1>2, <1>5 DEF LogInv
<1>9. LogInv(t)' /\ WaitInv(t)'
  BY <1>1, <1>2, <1>3, <1>4, <1>5, <1>8 DEF LogInv, WaitInv
<1> QED BY <1>1, <1>5, <1>6, <1>7, <1>9, TaskStep

(* A change of the settings leaves the resolutions as they are, or ends them with the server. *)
LEMMA ChangeInv ==
  ASSUME CallInv, Change
  PROVE  CallInv'
<1>1. UNCHANGED <<type, held, gen, at, attempt, log, waitsFor, granted, open>>
  BY DEF Change
<1>2. PICK lost \in SUBSET {t \in Task : step[t] \notin {"idle", "over"}} :
        /\ step' = [t \in Task |-> IF t \in lost THEN "over" ELSE step[t]]
        /\ outcome' = [t \in Task |-> IF t \in lost THEN "lost" ELSE outcome[t]]
  BY DEF Change
<1>3. Forms' /\ LimiterInv'
  BY <1>1, <1>2 DEF CallInv, Forms, LimiterInv
<1>4. ASSUME NEW t \in Task PROVE Types(t)' /\ PlaceInv(t)' /\ LogInv(t)' /\ WaitInv(t)'
  <2>1. Types(t) /\ PlaceInv(t) /\ LogInv(t) /\ WaitInv(t)
    BY OfTask
  <2>2. Most(t)' = Most(t) /\ Kind(t)' = Kind(t) /\ LimiterOf(t)' = LimiterOf(t)
    BY <1>1 DEF Most, Kind, LimiterOf, Asked, ChainOf
  <2>3. \/ step'[t] = step[t] /\ outcome'[t] = outcome[t]
        \/ step'[t] = "over" /\ outcome'[t] = "lost" /\ step[t] # "idle"
    BY <1>2
  <2>4. Types(t)'
    BY <1>1, <2>1, <2>3 DEF Types, Steps, Outcomes
  <2>5. PlaceInv(t)'
    BY <1>1, <2>1, <2>2, <2>3 DEF PlaceInv, Asking, Calling
  <2>6. LogInv(t)' /\ WaitInv(t)'
    BY <1>1, <2>1, <2>2, <2>3 DEF LogInv, WaitInv
  <2> QED BY <2>4, <2>5, <2>6
<1> QED BY <1>3, <1>4 DEF CallInv

-----------------------------------------------------------------------------
(* The steps of the whole.                                                 *)

LEMMA SettingsStep == [Next]_vars => [SettingsNext]_settingsVars
BY DEF Next, Change, Resolve, Hold, Ask, Purl2Repo, LimiterLooks, LimiterWakes, Respond, NextFetch,
       BackoffOver, LlmReplies, LlmUrlChecked, Elapse, vars

LEMMA ResolveInv ==
  ASSUME CallInv, NEW t \in Task, Resolve(t)
  PROVE  CallInv'
BY AskInv, Purl2RepoInv, LimiterLooksInv, LimiterWakesInv, RespondInv, NextFetchInv, BackoffOverInv,
   LlmInv DEF Resolve

LEMMA StutterInv ==
  ASSUME CallInv, UNCHANGED callVars
  PROVE  CallInv'
BY DEF CallInv, Forms, LimiterInv, Types, PlaceInv, LogInv, WaitInv, Most, Kind, LimiterOf, Asked,
       ChainOf, callVars

LEMMA ChainInitInv == Init => IInv
BY InitInv, CallsInitInv, ChainAssumption DEF Init, IInv, SettingsInit

LEMMA ChainNextInv == IInv /\ [Next]_vars => IInv'
<1> SUFFICES ASSUME IInv, [Next]_vars PROVE IInv'
  OBVIOUS
<1>1. SettingsInv'
  BY SettingsStep, NextInv DEF IInv
<1>2. CASE Change /\ Bounded'
  BY <1>1, <1>2, ChangeInv DEF IInv, Bounded
<1>3. ASSUME NEW t \in Task, Hold(t), Bounded' PROVE IInv'
  BY <1>1, <1>3, HoldInv DEF IInv, Bounded
<1>4. ASSUME NEW t \in Task, Resolve(t) PROVE IInv'
  <2>1. generation' = generation
    BY <1>4 DEF Resolve, Ask, Purl2Repo, LimiterLooks, LimiterWakes, Respond, NextFetch, BackoffOver,
                LlmReplies, LlmUrlChecked, settingsVars
  <2> QED BY <1>1, <1>4, <2>1, ResolveInv DEF IInv
<1>5. ASSUME NEW i \in Limiter, Elapse(i) PROVE IInv'
  BY <1>1, <1>5, ElapseInv DEF IInv, Elapse, settingsVars
<1>6. CASE UNCHANGED vars
  BY <1>1, <1>6, StutterInv DEF IInv, vars, settingsVars
<1> QED BY <1>2, <1>3, <1>4, <1>5, <1>6 DEF Next

(* What a resolution does in the chain it has begun with. *)
AskedStep ==
  \A t \in Task :
    /\ at'[t] # at[t] => Asked(t)' = held[t][at'[t]]
    /\ outcome'[t] = "none" /\ outcome[t] # "none" => at[t] = Len(held[t])

LEMMA AskedOfStep ==
  ASSUME CallInv, [Next]_vars
  PROVE  AskedStep
<1> SUFFICES ASSUME NEW t \in Task
             PROVE  /\ at'[t] # at[t] => Asked(t)' = held[t][at'[t]]
                    /\ outcome'[t] = "none" /\ outcome[t] # "none" => at[t] = Len(held[t])
  BY DEF AskedStep
<1>1. Forms /\ Types(t)
  BY OfTask
<1>2. ASSUME NEW s \in Task, Ask(s) PROVE at'[t] # at[t] => Asked(t)' = held[t][at'[t]]
  BY <1>2 DEF Ask, Asked, ChainOf
<1>3. ASSUME NEW s \in Task, Ask(s)
      PROVE  outcome'[t] = "none" /\ outcome[t] # "none" => at[t] = Len(held[t])
  <2>1. \/ at[s] >= Len(held[s]) /\ Over(s, "none")
        \/ \E x : Goes(s, x)
        \/ Over(s, "found")
    BY <1>3, AskFacts DEF Found
  <2>2. CASE at[s] >= Len(held[s]) /\ Over(s, "none")
    BY <1>1, <2>2 DEF Forms, Types, Over
  <2>3. CASE \E x : Goes(s, x)
    BY <2>3 DEF Goes
  <2>4. CASE Over(s, "found")
    BY <1>1, <2>4 DEF Forms, Over
  <2> QED BY <2>1, <2>2, <2>3, <2>4
<1>4. ASSUME NEW s \in Task,
             Hold(s) \/ Purl2Repo(s) \/ LimiterLooks(s) \/ LimiterWakes(s) \/ Respond(s)
               \/ NextFetch(s) \/ BackoffOver(s) \/ LlmReplies(s) \/ LlmUrlChecked(s)
      PROVE  at' = at /\ (outcome'[t] = "none" => outcome[t] = "none")
  BY <1>1, <1>4 DEF Hold, Purl2Repo, LimiterLooks, LimiterWakes, Respond, NextFetch, BackoffOver,
                    LlmReplies, LlmUrlChecked, LlmFails, Found, Goes, Over, Grant, Forms
<1>5. CASE Change
  BY <1>5 DEF Change
<1>6. CASE UNCHANGED vars \/ \E i \in Limiter : Elapse(i)
  BY <1>6 DEF vars, callVars, Elapse
<1> QED BY <1>2, <1>3, <1>4, <1>5, <1>6 DEF Next, Resolve

(* What has to be over when a limiter grants a request. *)
SpacedStep ==
  \A i \in Limiter : granted'[i] # granted[i] =>
    \E t \in Task : /\ step'[t] = "request" /\ step[t] # "request"
                    /\ \A n \in 1..granted[i] : <<i, n>> \in open => step[t] = "sleep" /\ waitsFor[t] < n

LEMMA GrantSpaced ==
  ASSUME CallInv, NEW t \in Task, LimiterLooks(t) \/ LimiterWakes(t)
  PROVE  SpacedStep
<1> DEFINE i == LimiterOf(t)
<1>1. Forms /\ Types(t) /\ LimiterInv /\ WaitInv(t) /\ step[t] \in {"limit", "sleep"}
  BY OfTask DEF CallInv, LimiterLooks, LimiterWakes
<1>2. i \in Limiter
  BY <1>1, LimiterOfFacts DEF Calling
<1> HIDE DEF i
<1>3. granted[i] \in Nat /\ \A n \in Nat : <<i, n>> \in open => n \in 1..granted[i]
  BY <1>1, <1>2 DEF LimiterInv
<1>4. CASE ~Grant(t)
  BY <1>4 DEF LimiterLooks, LimiterWakes, SpacedStep
<1>5. CASE Grant(t)
  <2>1. step'[t] = "request" /\ \A j \in Limiter : granted'[j] # granted[j] => j = i
    BY <1>1, <1>2, <1>5 DEF Grant, Goes, Forms, LimiterInv, i
  <2>2. ASSUME NEW n \in 1..granted[i], <<i, n>> \in open
        PROVE  step[t] = "sleep" /\ waitsFor[t] < n
    <3>1. \A m \in 1..granted[i] : n < m => <<i, m>> \in open
      BY <1>1, <1>2, <2>2 DEF LimiterInv
    <3>2. <<i, granted[i]>> \in open
      BY <1>3, <2>2, <3>1
    <3>3. LimiterWakes(t) /\ step[t] = "sleep" /\ <<i, waitsFor[t]>> \notin open
      <4>1. CASE LimiterWakes(t)
        BY <4>1 DEF LimiterWakes, Free, i
      <4>2. CASE LimiterLooks(t)
        <5>1. step'[t] = "sleep"
          BY <1>1, <3>2, <4>2 DEF LimiterLooks, Free, Goes, Forms, i
        <5> QED BY <2>1, <5>1
      <4> QED BY <4>1, <4>2
    <3>4. waitsFor[t] \in Nat /\ waitsFor[t] <= granted[i]
      BY <1>1, <3>3 DEF WaitInv, Types, i
    <3> QED BY <1>3, <2>2, <3>1, <3>3, <3>4
  <2> QED BY <1>1, <2>1, <2>2 DEF SpacedStep
<1> QED BY <1>4, <1>5

LEMMA SpacedOfStep ==
  ASSUME CallInv, [Next]_vars
  PROVE  SpacedStep
<1>1. ASSUME NEW t \in Task, LimiterLooks(t) \/ LimiterWakes(t) PROVE SpacedStep
  BY <1>1, GrantSpaced
<1>2. CASE UNCHANGED granted
  BY <1>2 DEF SpacedStep
<1>3. \/ UNCHANGED granted
      \/ \E t \in Task : LimiterLooks(t) \/ LimiterWakes(t)
  BY DEF Next, Change, Resolve, Hold, Ask, Purl2Repo, Respond, NextFetch, BackoffOver, LlmReplies,
         LlmUrlChecked, Elapse, vars, callVars
<1> QED BY <1>1, <1>2, <1>3

-----------------------------------------------------------------------------
LEMMA ChainInvariant == Spec => []IInv
BY ChainInitInv, ChainNextInv, PTL DEF Spec

(* Beside the resolutions the settings go on as SettingsSpec says, so everything proved of it     *)
(* holds here: FileInForce and OnlyGivenChange among it.                                          *)
THEOREM KeepsSettings == Spec => SettingsSpec
<1>1. Init => SettingsInit
  BY DEF Init
<1> QED BY <1>1, SettingsStep, PTL DEF Spec, SettingsSpec

(* The running server does what a whole settings file says, also while resolutions go on. *)
THEOREM ChainFileInForce == Spec => []FileInForce
BY KeepsSettings, FileIsInForce, PTL

(* Resolutions change no setting either. *)
THEOREM ChainGivenChanges == Spec => OnlyGivenChange
BY KeepsSettings, GivenChanges, PTL

(* Every variable keeps its type. *)
THEOREM ChainTypes == Spec => []TypeOK
<1>1. IInv => TypeOK
  <2> SUFFICES ASSUME IInv PROVE TypeOK
    OBVIOUS
  <2>1. SettingsTypeOK /\ Forms /\ LimiterInv /\ \A t \in Task : Types(t) /\ PlaceInv(t)
    BY DEF IInv, CallInv, SettingsInv, Shapes
  <2>2. step \in [Task -> {"idle", "ask", "thread", "limit", "sleep", "request", "refetch",
                           "backoff", "prompt", "head", "over"}]
    BY <2>1 DEF Forms, Types, Steps, Asking, Calling
  <2>3. outcome \in [Task -> {"pending", "found", "none", "invalid_purl", "upstream_error", "raised", "lost"}]
    BY <2>1 DEF Forms, Types, Outcomes
  <2>4. gen \in [Task -> 0..Generations] /\ \A t \in Task : at[t] \in 0..Len(held[t])
    BY <2>1 DEF Forms, Types
  <2>5. granted \in [Limiter -> Nat] /\ open \subseteq Limiter \X Nat
    BY <2>1 DEF LimiterInv
  <2>6. ASSUME NEW p \in open PROVE p[2] \in 1..granted[p[1]]
    <3>1. PICK i \in Limiter, n \in Nat : p = <<i, n>>
      BY <2>5
    <3> QED BY <2>1, <3>1 DEF LimiterInv
  <2>7. \A t \in Task : (step[t] = "over") = (outcome[t] # "pending")
    BY <2>1 DEF PlaceInv
  <2> QED BY <2>1, <2>2, <2>3, <2>4, <2>5, <2>6, <2>7 DEF TypeOK
<1> QED BY <1>1, ChainInvariant, PTL

(* Whatever changes meanwhile, a resolution asks the resolvers of the chain it began with, and    *)
(* has asked them all when it ends without a repository.                                          *)
THEOREM AsksOneChain == Spec => OneChain
<1>1. IInv /\ [Next]_vars => [AskedStep]_vars
  BY AskedOfStep DEF IInv
<1> QED BY <1>1, ChainInvariant, PTL DEF Spec, OneChain, AskedStep

(* What is tried again, and how often. *)
THEOREM BoundedRetries == Spec => []RetriesAreBounded
<1>1. IInv => RetriesAreBounded
  BY DEF IInv, CallInv, PlaceInv, LogInv, Most, RetriesAreBounded
<1> QED BY <1>1, ChainInvariant, PTL

(* The requests of one resolver are an interval apart, but for those that wait already. *)
THEOREM SpacedRequests == Spec => SpacedUnlessWaiting
<1>1. IInv /\ [Next]_vars => [SpacedStep]_vars
  BY SpacedOfStep DEF IInv
<1> QED BY <1>1, ChainInvariant, PTL DEF Spec, SpacedUnlessWaiting, SpacedStep
==============================================================================
