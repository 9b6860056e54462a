------------------------------- MODULE SbomFix -------------------------------
(***************************************************************************)
(* The SBOM fixer: POST /api/v1/sbom/fix/analyze and POST /api/v1/sbom/fix *)
(* (routes/sbom_fix.py), the rules (sbom/fixer.py) and the removal of      *)
(* optional fields (sbom/optional_fields.py).                              *)
(***************************************************************************)
EXTENDS SbomDocument

CONSTANTS Documents,    \* the documents a user may upload
          OptionSets,   \* the option sets a user may choose
          FieldSets,    \* the sets of field paths a user may ask to remove
          MaxFixes      \* bound: fixes in a row, each of the former's result

ASSUME DocumentsAssumption == \A d \in Documents : IsDocument(d) /\ WellFormed(d)

\* What SbomFixOptions accepts: patterns with every field, and a version that is not empty.
IsPatterns(s, fields) == IsSequence(s) /\ \A p \in ToSet(s) : DOMAIN p = fields
IsOptions(opt) ==
  /\ NonEmptyString(V(opt.spec_version))
  /\ IsPatterns(opt.provided_by_patterns, {"field", "pattern", "provided_by"})
  /\ IsPatterns(opt.add_patterns, {"field", "pattern"})
ASSUME OptionsAssumption == \A opt \in OptionSets : IsOptions(opt)

\* A path is a context and a key.
ASSUME FieldsAssumption == \A fields \in FieldSets : \A p \in fields : p = <<p[1], p[2]>>

VARIABLES doc,       \* the document the user of the fixer holds
          analysis,  \* the answer to the last request if it was an analysis, or NoAnswer
          base,      \* the document that was given to the last fix
          reply,     \* the answer to the last fix, or NoAnswer
          fixes,     \* fixes so far
          refused    \* the error code of the last request, or "none"
fixVars == <<doc, analysis, base, reply, fixes, refused>>

NoAnswer == [none |-> TRUE]

-----------------------------------------------------------------------------
(* Optional fields: a path is <<context, key>> *)

Contexts == {"root", "metadata", "metadata.component", "components[]"}

\* The grammar of a path; "odd key" stands for a key with a character outside it.
ValidPath(p) == p[1] \in Contexts /\ p[2] # "odd key"

FstecPaths ==
  ({"root"} \X {"bomFormat", "specVersion", "serialNumber", "version", "metadata",
                "components", "annotations"})
  \cup ({"metadata"} \X {"timestamp", "component"})
  \cup ({"metadata.component"} \X {"type", "name", "version", "manufacturer"})
  \cup ({"components[]"} \X {"type", "name", "version", "purl", "cpe",
                             "externalReferences", "properties", "components"})

NormalizeKeep(keep) == {p \in keep : ValidPath(p)} \ FstecPaths

FieldCount(d, p) ==
  LET In(o) == IF p[2] \in Keys(o) THEN 1 ELSE 0
  IN CASE p[1] = "root" -> In(d.root)
       [] p[1] = "metadata" -> IF HasMetadata(d) THEN In(d.meta) ELSE 0
       [] p[1] = "metadata.component" -> IF HasMain(d) THEN In(d.main) ELSE 0
       [] p[1] = "components[]" -> Cardinality({i \in Dicts(d) : In(d.comps[i].obj) = 1})

\* analyze_fields: every path of the document that fits the grammar, with its count.
AnalyzeFields(d) ==
  LET keys == Keys(d.root) \cup Keys(d.meta) \cup Keys(d.main)
                \cup UNION {Keys(d.comps[i].obj) : i \in Dicts(d)}
  IN [p \in {q \in Contexts \X keys : ValidPath(q) /\ FieldCount(d, q) > 0} |-> FieldCount(d, p)]

AcceptedPaths(fields, keep) ==
  ({p \in fields : ValidPath(p)} \ FstecPaths) \ NormalizeKeep(keep)

Without(o, context, paths) == Only(o, {m \in ToSet(o) : <<context, m[1]>> \notin paths})

\* Mutant: only the top level of the component tree is visited.
DropFieldsMutant(d, paths) ==
  [d EXCEPT !.comps = [i \in DOMAIN @ |->
     IF @[i].dict /\ @[i].up = 0 THEN [@[i] EXCEPT !.obj = Without(@, "components[]", paths)] ELSE @[i]]]
\* Only what is an object has members to remove.
DropFields(d, paths) ==
  [root |-> Without(d.root, "root", paths),
   meta |-> IF HasMetadata(d) THEN Without(d.meta, "metadata", paths) ELSE d.meta,
   main |-> IF HasMain(d) THEN Without(d.main, "metadata.component", paths) ELSE d.main,
   comps |-> [i \in DOMAIN d.comps |->
     IF i \in Dicts(d) THEN [d.comps[i] EXCEPT !.obj = Without(@, "components[]", paths)] ELSE d.comps[i]]]

\* remove_optional_fields; the paths touch different members, so their order is immaterial.
RemoveOptionalFields(d, fields, keep) ==
  LET accepted == AcceptedPaths(fields, keep)
  IN [doc |-> DropFields(d, accepted),
      counts |-> [p \in accepted |-> FieldCount(d, p)]]

-----------------------------------------------------------------------------
(* The rules of a component: each returns the new object and its count *)

Same(o) == [obj |-> o, n |-> 0]

\* Mutant: the two types the collector and the fixer know are no longer the same.
SourceTypesMutant == {"source-distribution", "distribution"}
SourceTypes == {"vcs", "source-distribution"}
Entries(o, k) == ToSet(Get(o, k).items)
IsSource(ref) == ref[1] \in SourceTypes
GostNames == {"GOST:attack_surface", "GOST:security_function", "GOST:provided_by", "GOST:other"}
RequiredGost == <<"GOST:attack_surface", "GOST:security_function">>
IsProprietary(entry) == entry = <<"license", "Proprietary">>
HasProprietary(o) ==
  IsList(Get(o, "licenses")) /\ \E e \in Entries(o, "licenses") : IsProprietary(e)

\* The new value of a list member keeps the given entries.
Filtered(o, k, entries) ==
  LET old == Get(o, k)
      kept == Only(old.items, entries)
  IN IF IsList(old)
       THEN [obj |-> Put(o, k, ListOf(kept)), n |-> Len(old.items) - Len(kept)]
       ELSE Same(o)

\* Mutant: the second source type is forgotten.
FilterExternalReferencesMutant(o) ==
  Filtered(o, "externalReferences", {e \in Entries(o, "externalReferences") : e[1] = "vcs"})
FilterExternalReferences(o) ==
  Filtered(o, "externalReferences", {e \in Entries(o, "externalReferences") : IsSource(e)})
FilterProperties(o) == Filtered(o, "properties", {p \in Entries(o, "properties") : p[1] \in GostNames})

\* Entries are added to a list; a missing or null one is created first.
Extended(o, k, entries) ==
  LET old == Get(o, k)
  IN IF IsNone(old) \/ IsList(old)
       THEN [obj |-> Put(o, k, ListOf(old.items \o entries)), n |-> Len(entries)]
       ELSE Same(o)

MissingGost(props) == Only(RequiredGost, GostNames \ {p[1] : p \in ToSet(props.items)})
FillGostProperties(o) ==
  LET missing == MissingGost(Get(o, "properties"))
  IN Extended(o, "properties", [i \in DOMAIN missing |-> <<missing[i], "no">>])

SetProperty(o, i, entry) ==
  [obj |-> Put(o, "properties", ListOf([Get(o, "properties").items EXCEPT ![i] = entry])), n |-> 1]

AddProvidedBy(o, patterns) ==
  LET props == Get(o, "properties")
      given == {i \in DOMAIN props.items : IsList(props) /\ props.items[i][1] = "GOST:provided_by"}
      matching == Only(patterns, {p \in ToSet(patterns) : /\ \A k \in DOMAIN p : Unblank(p[k])
                                                          /\ FieldContains(o, p.field, p.pattern)})
      entry == <<"GOST:provided_by", matching[1].provided_by>>
      first == CHOOSE i \in given : \A j \in given : i <= j
  IN IF \/ \E i \in given : Unblank(props.items[i][2])
        \/ matching = <<>>
       THEN Same(o)
       ELSE IF given = {}
              THEN Extended(o, "properties", <<entry>>)
              ELSE SetProperty(o, first, entry)

FilterNonProprietary(o) ==
  LET r == Filtered(o, "licenses", {e \in Entries(o, "licenses") : IsProprietary(e)})
  IN CASE r.n = 0 -> Same(o)
       [] r.n > 0 /\ Get(r.obj, "licenses").items # <<>> -> r
       [] r.n > 0 /\ Get(r.obj, "licenses").items = <<>> -> [r EXCEPT !.obj = Del(o, "licenses")]

\* Mutant: a licence that is there already is not looked for.
AddProprietaryMutant(o, patterns) ==
  IF \E p \in ToSet(patterns) : FieldContains(o, p.field, p.pattern)
    THEN Extended(o, "licenses", <<<<"license", "Proprietary">>>>)
    ELSE Same(o)
AddProprietary(o, patterns) ==
  IF \/ ~\E p \in ToSet(patterns) : /\ \A k \in DOMAIN p : Unblank(p[k])
                                    /\ FieldContains(o, p.field, p.pattern)
     \/ HasProprietary(o)
    THEN Same(o)
    ELSE Extended(o, "licenses", <<<<"license", "Proprietary">>>>)

RemoveProprietarySourceReferences(o) ==
  IF HasProprietary(o)
    THEN Filtered(o, "externalReferences", {e \in Entries(o, "externalReferences") : ~IsSource(e)})
    ELSE Same(o)

-----------------------------------------------------------------------------
(* The order of keys *)

RootPriority == <<"bomFormat", "specVersion", "serialNumber", "version", "metadata",
                  "components", "annotations">>
MetadataPriority == <<"timestamp", "component">>
MainPriority == <<"type", "name", "version", "manufacturer">>
ComponentPriority == <<"type", "name", "version", "purl", "externalReferences",
                       "properties", "components">>

InOrder(o, priority) ==
  LET first == Only(priority, Keys(o))
  IN [i \in DOMAIN first |-> <<first[i], Get(o, first[i])>>]
       \o Only(o, {m \in ToSet(o) : m[1] \notin ToSet(priority)})

Reordered(d) ==
  [root |-> InOrder(d.root, RootPriority),
   meta |-> InOrder(d.meta, MetadataPriority),
   main |-> InOrder(d.main, MainPriority),
   comps |-> [i \in DOMAIN d.comps |-> [d.comps[i] EXCEPT !.obj = InOrder(@, ComponentPriority)]]]

Reorder(d) ==
  LET e == Reordered(d)
      Moved(a, b) == IF a = b THEN 0 ELSE 1
  IN [doc |-> e,
      n |-> Moved(d.root, e.root) + Moved(d.meta, e.meta) + Moved(d.main, e.main)
              + Cardinality({i \in DOMAIN d.comps : d.comps[i] # e.comps[i]})]

-----------------------------------------------------------------------------
(* The rules of a document *)

LeafRules == <<"remove_leaf_missing_purl", "remove_leaf_invalid_purl", "remove_leaf_missing_version">>
ComponentRules == <<"filter_external_references", "filter_properties",
                    "fill_missing_gost_properties", "add_provided_by", "filter_non_proprietary",
                    "add_proprietary", "remove_proprietary_source_references">>
RuleOrder == <<"set_spec_version", "increment_version", "add_timestamp", "add_manufacturer">>
               \o LeafRules \o ComponentRules \o <<"reorder">>
RuleIds == ToSet(RuleOrder)

SetSpecVersion(d, target) ==
  [doc |-> [d EXCEPT !.root = Put(@, "specVersion", V(target))],
   n |-> IF Get(d.root, "specVersion") = V(target) THEN 0 ELSE 1]

IncrementVersion(d) ==
  LET v == Get(d.root, "version")
  IN IF v.kind = "int"
       THEN [doc |-> [d EXCEPT !.root = Put(@, "version", [v EXCEPT !.items = <<@[1] + 1>>])], n |-> 1]
       ELSE [doc |-> d, n |-> 0]

AddTimestamp(d) ==
  IF HasMetadata(d) /\ Get(d.meta, "timestamp").kind \in {"absent", "null", "blank"}
    THEN [doc |-> [d EXCEPT !.meta = Put(@, "timestamp", V("now"))], n |-> 1]
    ELSE [doc |-> d, n |-> 0]

\* A manufacturer is an object whose one member of interest is its name.
HasManufacturer(d) ==
  LET m == Get(d.main, "manufacturer")
  IN m.kind = "dict" /\ \E e \in ToSet(m.items) : e[1] = "name" /\ Unblank(e[2])
AddManufacturer(d) ==
  IF HasMain(d) /\ ~HasManufacturer(d)
    THEN [doc |-> [d EXCEPT !.main =
            Put(@, "manufacturer", [kind |-> "dict", items |-> <<<<"name", "given">>>>])], n |-> 1]
    ELSE [doc |-> d, n |-> 0]

Defective(rule, o) ==
  LET purl == Get(o, "purl")
  IN CASE rule = "remove_leaf_missing_purl" -> ~NonEmptyString(purl)
       [] rule = "remove_leaf_invalid_purl" -> NonEmptyString(purl) /\ purl.kind \in {"bad", "space"}
       [] rule = "remove_leaf_missing_version" -> ~NonEmptyString(Get(o, "version"))

\* Mutant: each rule looks for the leaves anew, and finds the containers the last one emptied.
RemoveLeavesAnewMutant(d, leaves, rule) ==
  LET kept == Only(d.comps, {c \in ToSet(d.comps) : ~(c.id \in LeafIds(d) /\ Defective(rule, c.obj))})
  IN [doc |-> [d EXCEPT !.comps = kept], n |-> Len(d.comps) - Len(kept)]
RemoveLeaves(d, leaves, rule) ==
  LET kept == Only(d.comps, {c \in ToSet(d.comps) : ~(c.id \in leaves /\ Defective(rule, c.obj))})
  IN [doc |-> [d EXCEPT !.comps = kept], n |-> Len(d.comps) - Len(kept)]

ComponentRule(rule, o, opt) ==
  CASE rule = "filter_external_references" -> FilterExternalReferences(o)
    [] rule = "filter_properties" -> FilterProperties(o)
    [] rule = "fill_missing_gost_properties" -> FillGostProperties(o)
    [] rule = "add_provided_by" -> AddProvidedBy(o, opt.provided_by_patterns)
    [] rule = "filter_non_proprietary" -> FilterNonProprietary(o)
    [] rule = "add_proprietary" -> AddProprietary(o, opt.add_patterns)
    [] rule = "remove_proprietary_source_references" -> RemoveProprietarySourceReferences(o)

\* A component's rules look at that component alone, so that the tree may be walked once per rule.
OnComponents(d, rule, opt) ==
  LET done == [i \in Dicts(d) |-> ComponentRule(rule, d.comps[i].obj, opt)]
  IN [doc |-> [d EXCEPT !.comps =
                 [i \in DOMAIN @ |-> IF i \in Dicts(d) THEN [@[i] EXCEPT !.obj = done[i].obj] ELSE @[i]]],
      n |-> Total([i \in Dicts(d) |-> done[i].n], Dicts(d))]

ApplyRule(d, leaves, rule, opt) ==
  CASE rule = "set_spec_version" -> SetSpecVersion(d, opt.spec_version)
    [] rule = "increment_version" -> IncrementVersion(d)
    [] rule = "add_timestamp" -> AddTimestamp(d)
    [] rule = "add_manufacturer" -> AddManufacturer(d)
    [] rule \in ToSet(LeafRules) -> RemoveLeaves(d, leaves, rule)
    [] rule \in ToSet(ComponentRules) -> OnComponents(d, rule, opt)
    [] rule = "reorder" -> Reorder(d)

-----------------------------------------------------------------------------
(* The defects that remain: <<code, id>>, id 0 for the root and metadata *)

\* The names of the defects that are there, from a record of which is.
Found(defects) == {code \in DOMAIN defects : defects[code]}

RootIssues(d) ==
  LET spec == Get(d.root, "specVersion")
      version == Get(d.root, "version")
      metadata == Get(d.root, "metadata")
      components == Get(d.root, "components")
  IN Found([missing_spec_version |-> IsNone(spec) \/ spec.kind = "blank",
            invalid_spec_version |-> ~IsNone(spec) /\ ~IsText(spec),
            spec_version_not_allowed |-> NonEmptyString(spec) /\ spec.kind \notin {"1.6", "1.7"},
            missing_version |-> IsNone(version),
            invalid_version |-> ~IsNone(version) /\ version.kind # "int",
            missing_metadata |-> IsNone(metadata),
            invalid_metadata |-> ~IsNone(metadata) /\ metadata.kind # "dict",
            invalid_components |-> ~IsNone(components) /\ ~IsList(components)])

MetadataIssues(d) ==
  LET component == Get(d.meta, "component")
      Lacks(k) == HasMain(d) /\ ~NonEmptyString(Get(d.main, k))
  IN IF ~HasMetadata(d) THEN {}
     ELSE Found([missing_timestamp |-> ~NonEmptyString(Get(d.meta, "timestamp")),
                 missing_component |-> IsNone(component),
                 invalid_component |-> ~IsNone(component) /\ component.kind # "dict",
                 missing_type |-> Lacks("type"), missing_name |-> Lacks("name"),
                 missing_main_version |-> Lacks("version"),
                 missing_manufacturer |-> HasMain(d) /\ ~HasManufacturer(d)])

SourceExempt(d, c) ==
  \/ Children(d, c) # {}
  \/ \E p \in ToSet(Get(c.obj, "properties").items) :
       p[1] = "GOST:provided_by" /\ NonEmptyString(V(p[2]))
  \/ HasProprietary(c.obj)

ComponentIssues(d, c) ==
  LET props == Get(c.obj, "properties")
      refs == Get(c.obj, "externalReferences")
      nested == Get(c.obj, "components")
      Lacks(k) == ~NonEmptyString(Get(c.obj, k))
      Malformed(v) == ~IsNone(v) /\ ~IsList(v)
  IN IF ~c.dict THEN {"invalid_entry"}
     ELSE Found([missing_type |-> Lacks("type"), missing_name |-> Lacks("name"),
                 missing_version |-> Lacks("version"), missing_purl |-> Lacks("purl"),
                 invalid_properties |-> Malformed(props),
                 missing_gost_properties |-> ~Malformed(props) /\ MissingGost(props) # <<>>,
                 invalid_external_references |-> Malformed(refs),
                 missing_source_reference |-> /\ ~Malformed(refs)
                                              /\ ~\E r \in ToSet(refs.items) : IsSource(r)
                                              /\ ~SourceExempt(d, c),
                 invalid_subcomponents |-> Malformed(nested)])

Issues(d) ==
  ((RootIssues(d) \cup MetadataIssues(d)) \X {0})
  \cup UNION {ComponentIssues(d, d.comps[i]) \X {d.comps[i].id} : i \in DOMAIN d.comps}

-----------------------------------------------------------------------------
\* fix_sbom: the optional fields go first; the leaves are settled before any of them is removed.
FixStep(acc, rule, leaves, opt) ==
  LET r == ApplyRule(acc.doc, leaves, rule, opt)
  IN [doc |-> r.doc, counts |-> [acc.counts EXCEPT ![rule] = r.n]]
ApplyRules(d, leaves, opt) ==
  FoldLeft(LAMBDA acc, rule : FixStep(acc, rule, leaves, opt),
           [doc |-> d, counts |-> [r \in opt.rules |-> 0]], Only(RuleOrder, opt.rules))

Fix(d, opt, fields) ==
  LET pruned == RemoveOptionalFields(d, fields, opt.keep)
      done == ApplyRules(pruned.doc, LeafIds(pruned.doc), opt)
  IN [fixed |-> done.doc, counts |-> done.counts, removed |-> pruned.counts,
      issues |-> Issues(done.doc), options |-> opt, fields |-> fields,
      changed |-> \/ \E r \in opt.rules : done.counts[r] > 0
                  \/ \E p \in DOMAIN pruned.counts : pruned.counts[p] > 0]

FixInit ==
  /\ doc \in Documents
  /\ analysis = NoAnswer /\ base = doc /\ reply = NoAnswer /\ fixes = 0 /\ refused = "none"

\* POST /api/v1/sbom/fix/analyze
Analyze ==
  /\ fixes = 0 /\ analysis = NoAnswer
  /\ analysis' = AnalyzeFields(doc) /\ refused' = "none"
  /\ UNCHANGED <<doc, base, reply, fixes>>

\* POST /api/v1/sbom/fix: the user goes on with the fixed document.
FixDocument(opt, fields) ==
  /\ fixes < MaxFixes
  /\ reply' = Fix(doc, opt, fields)
  /\ base' = doc /\ doc' = reply'.fixed /\ fixes' = fixes + 1
  /\ analysis' = NoAnswer /\ refused' = "none"

\* The errors of a request, in the order the handler looks for them.
Refusal(file, options, fields) ==
  IF file # "ok" THEN file
  ELSE IF options # "ok" THEN "invalid_options"
  ELSE IF fields # "ok" THEN "invalid_remove_fields" ELSE "none"
Refuse(file, options, fields) ==
  /\ fixes = 0 /\ refused = "none" /\ analysis = NoAnswer /\ Refusal(file, options, fields) # "none"
  /\ refused' = Refusal(file, options, fields)
  /\ analysis' = NoAnswer
  /\ UNCHANGED <<doc, base, reply, fixes>>

FixNext ==
  \/ Analyze
  \/ \E opt \in OptionSets, fields \in FieldSets :
       (fixes > 0 => opt = reply.options /\ fields = reply.fields) /\ FixDocument(opt, fields)
  \/ \E file \in {"ok", "file_too_large", "invalid_json", "invalid_sbom"},
        options, fields \in {"ok", "bad"} : Refuse(file, options, fields)

-----------------------------------------------------------------------------
Fixed == fixes > 0
Enabled(rule) == rule \in reply.options.rules
Licences == <<"components[]", "licenses">>
Emptied(id) == Children(base, Component(base, id)) # {} /\ Children(doc, Component(doc, id)) = {}

\* The components that are gone are exactly the leaves of the uploaded document with a defect
\* whose removal is enabled; a container that loses its children stays, whatever its own
\* defects, and a leaf with several defects is counted once.  What remains is a tree.
LeavesRemovedExactly ==
  Fixed =>
    LET rules == ToSet(LeafRules) \cap reply.options.rules
        gone == Ids(base) \ Ids(doc)
    IN /\ gone = {id \in LeafIds(base) : \E r \in rules : Defective(r, Component(base, id).obj)}
       /\ Total(reply.counts, rules) = Cardinality(gone)
       /\ WellFormed(doc)

\* Optional fields are removed as asked.  What the fix says of a field is what the analysis of
\* the same document said of it, and the field is gone, unless the rule that adds a licence
\* puts it back; and no other member disappears from an object that stays: its removal was
\* asked for and its path is neither in the catalogue nor kept, or it is a licence list that
\* the licence filter leaves empty.
FieldsRemovedExactly ==
  Fixed =>
    LET Lost(context, o, p) ==
          \A k \in Keys(o) \ Keys(p) :
            \/ <<context, k>> \in reply.fields \ (FstecPaths \cup reply.options.keep)
            \/ <<context, k>> = Licences /\ Enabled("filter_non_proprietary")
        found == AnalyzeFields(base)
    IN /\ \A p \in DOMAIN reply.removed :
            /\ reply.removed[p] = (IF p \in DOMAIN found THEN found[p] ELSE 0)
            /\ FieldCount(doc, p) > 0 => p = Licences /\ Enabled("add_proprietary")
       /\ Lost("root", base.root, doc.root) /\ Lost("metadata", base.meta, doc.meta)
       /\ Lost("metadata.component", base.main, doc.main)
       /\ \A id \in Ids(doc) : Lost("components[]", Component(base, id).obj, Component(doc, id).obj)

\* A fix makes no new defect, save those its options ask for: a version outside the allowed
\* ones, and a component that loses what exempted it from a source reference, namely the
\* nested components or the proprietary licence that were to be removed, or the references
\* themselves.
NoNewDefect ==
  Fixed =>
    \A issue \in Issues(doc) \ Issues(base) :
      \/ issue[1] = "spec_version_not_allowed" /\ reply.options.spec_version \notin {"1.6", "1.7"}
      \/ /\ issue[1] = "missing_source_reference"
         /\ Emptied(issue[2]) \/ Licences \in DOMAIN reply.removed

\* A second fix of the result, with the same options, finds nothing to do: it only counts
\* the version up and removes containers that the first one emptied; the licences that were
\* asked to be removed come back whenever they are added again.  And a fix that has counted
\* nothing returns the document it was given.
SecondFixIdle ==
  /\ Fixed /\ ~reply.changed => doc = base
  /\ fixes = 2 =>
       /\ \A r \in reply.options.rules :
            reply.counts[r] > 0 =>
              \/ r = "increment_version"
              \/ r \in ToSet(LeafRules) /\ Ids(doc) # Ids(base)
              \/ r = "add_proprietary" /\ Licences \in DOMAIN reply.removed
              \/ /\ r \in {"add_provided_by", "reorder"} /\ Enabled("add_proprietary")
                 /\ \E p \in ToSet(reply.options.provided_by_patterns) : p.field = "licenses"
       /\ \A p \in DOMAIN reply.removed : reply.removed[p] > 0 => p = Licences
=============================================================================
