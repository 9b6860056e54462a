----------------------------- MODULE SbomDocument -----------------------------
(***************************************************************************)
(* CycloneDX documents as the code holds them: what json.loads makes of an *)
(* upload, and the accesses the code makes to it (dict.get, assignment,    *)
(* pop, the walk over the nested components).                              *)
(*                                                                         *)
(* A JSON object is the sequence of its members <<key, value>> in document *)
(* order, as a Python dict keeps it.  A value is [kind, items]: kind is    *)
(* its type, or for a text what the code tells apart in it ("blank" is the *)
(* empty text, "space" one of white space only); items are the entries of  *)
(* a list, each <<name, value>>: an external reference is <<type, url>>, a *)
(* property <<name, value>>, a licence <<"license", name>>, and an entry   *)
(* that is not an object of the expected form is Junk.                     *)
(*                                                                         *)
(* A document is its root object, the objects under metadata and           *)
(* metadata.component, and the component tree as the sequence, in          *)
(* pre-order, of [id, up, dict, obj]: up is the id of the component it is  *)
(* nested in (0: the root), dict is FALSE for an entry that is no object.  *)
(***************************************************************************)
EXTENDS Integers, Sequences, FiniteSets, SequencesExt

V(kind) == [kind |-> kind, items |-> <<>>]
ListOf(items) == [kind |-> "list", items |-> items]
Absent == V("absent")
Junk == <<"junk", "">>

\* The entries of s that are in S, in the order of s.
Keep(kept, e, S) == IF e \in S THEN Append(kept, e) ELSE kept
Only(s, S) == LET kept[i \in 0..Len(s)] == IF i = 0 THEN <<>> ELSE Keep(kept[i - 1], s[i], S) IN kept[Len(s)]

Keys(o) == {m[1] : m \in ToSet(o)}
Get(o, k) == IF k \in Keys(o) THEN (CHOOSE m \in ToSet(o) : m[1] = k)[2] ELSE Absent
Put(o, k, v) == IF k \in Keys(o)
                  THEN [i \in DOMAIN o |-> IF o[i][1] = k THEN <<k, v>> ELSE o[i]]
                  ELSE Append(o, <<k, v>>)
Del(o, k) == Only(o, {m \in ToSet(o) : m[1] # k})

IsList(v) == v.kind = "list"
IsNone(v) == v.kind \in {"absent", "null"}
IsText(v) == v.kind \notin {"absent", "null", "int", "bool", "dict", "list", "other"}
NonEmptyString(v) == IsText(v) /\ v.kind # "blank"
Unblank(t) == IsText(V(t)) /\ t \notin {"blank", "space"}   \* a text that str.strip leaves something of

\* A pattern occurs in the text of a member: in a text, or anywhere inside a list.
FieldContains(o, k, pattern) ==
  LET v == Get(o, k)
  IN ~IsNone(v) /\ (v.kind = pattern \/ \E e \in ToSet(v.items) : pattern \in {e[1], e[2]})

HasMetadata(d) == Get(d.root, "metadata").kind = "dict"
HasMain(d) == HasMetadata(d) /\ Get(d.meta, "component").kind = "dict"

Ids(d) == {c.id : c \in ToSet(d.comps)}
Component(d, id) == CHOOSE c \in ToSet(d.comps) : c.id = id
Dicts(d) == {i \in DOMAIN d.comps : d.comps[i].dict}
Children(d, c) == {i \in DOMAIN d.comps : d.comps[i].up = c.id}
IsLeaf(d, c) == Children(d, c) = {}
LeafIds(d) == {d.comps[i].id : i \in {j \in Dicts(d) : IsLeaf(d, d.comps[j])}}
Total(f, S) == MapThenSumSet(LAMBDA i : f[i], S)

-----------------------------------------------------------------------------
(* The form of a document *)

IsSequence(s) == s \in Seq(ToSet(s))
IsValue(v) == /\ v = [kind |-> v.kind, items |-> v.items] /\ IsSequence(v.items)
              /\ ~IsList(v) /\ v.kind \notin {"dict", "int"} => v.items = <<>>
IsObject(o) == IsSequence(o) /\ \A m \in ToSet(o) : m = <<m[1], m[2]>> /\ IsValue(m[2])
IsComponent(c) == /\ c = [id |-> c.id, up |-> c.up, dict |-> c.dict, obj |-> c.obj]
                  /\ c.dict \in BOOLEAN /\ IsObject(c.obj)
IsDocument(d) == /\ d = [root |-> d.root, meta |-> d.meta, main |-> d.main, comps |-> d.comps]
                 /\ IsObject(d.root) /\ IsObject(d.meta) /\ IsObject(d.main)
                 /\ IsSequence(d.comps) /\ \A c \in ToSet(d.comps) : IsComponent(c)

OneMemberPerKey(o) == \A i, j \in DOMAIN o : o[i][1] = o[j][1] => i = j

\* The document is one: the members of an object are distinct, ids are unique, and every
\* nested component comes after a component that is an object with a list of them.
WellFormed(d) ==
  /\ \A o \in {d.root, d.meta, d.main} \cup {c.obj : c \in ToSet(d.comps)} : OneMemberPerKey(o)
  /\ \A i, j \in DOMAIN d.comps : d.comps[i].id = d.comps[j].id => i = j
  /\ \A i \in DOMAIN d.comps : d.comps[i].id # 0
  /\ \A i \in DOMAIN d.comps : d.comps[i].up # 0 =>
       \E j \in 1..i - 1 : /\ d.comps[j].id = d.comps[i].up /\ d.comps[j].dict
                          /\ IsList(Get(d.comps[j].obj, "components"))
=============================================================================
