--------------------------- MODULE MCSbomDocuments ---------------------------
(* Documents, options and fields for checking SbomDocuments. *)
EXTENDS SbomDocuments

\* Objects: the members that are not absent, in the order given.
Members(pairs) == SelectSeq(pairs, LAMBDA m : m[2] # Absent)
Refs(types) == ListOf([i \in DOMAIN types |-> <<types[i], "url">>])
Licenses(names) == ListOf([i \in DOMAIN names |-> <<"license", names[i]>>])
Manufacturer(name) == [kind |-> "dict", items |-> <<<<"name", name>>>>]
Num(n) == [kind |-> "int", items |-> <<n>>]

GoodRoot == Members(<<<<"bomFormat", V("text")>>, <<"specVersion", V("1.6")>>, <<"version", Num(1)>>,
                      <<"metadata", V("dict")>>, <<"components", ListOf(<<>>)>>, <<"x", V("text")>>>>)
GoodMeta == <<<<"timestamp", V("text")>>, <<"component", V("dict")>>>>
GoodMain == <<<<"type", V("text")>>, <<"name", V("text")>>, <<"version", V("text")>>,
              <<"manufacturer", Manufacturer("text")>>>>
GoodComp == [id |-> 1, up |-> 0, dict |-> TRUE,
             obj |-> <<<<"type", V("text")>>, <<"name", V("text")>>, <<"version", V("text")>>,
                       <<"purl", V("pkg")>>, <<"externalReferences", Refs(<<"vcs">>)>>>>]

\* Every form of the root's members, in an order that is not the canonical one.
RootDocs ==
  {[root |-> Members(<<<<"x", V("text")>>, <<"version", version>>, <<"bomFormat", V("text")>>,
                       <<"specVersion", spec>>, <<"components", V(comps)>>>>),
    meta |-> <<>>, main |-> <<>>, comps |-> <<>>] :
     version \in {Absent, V("null"), Num(3), V("bool"), V("text")},
     spec \in {Absent, V("null"), V("blank"), V("int"), V("1.6"), V("1.7"), V("2.0")},
     comps \in {"absent", "null", "other"}}

\* Every form of metadata and of its component.
MetaDocs ==
  {[root |-> [GoodRoot EXCEPT ![4] = <<"metadata", metadata>>],
    meta |-> IF metadata.kind # "dict" THEN <<>>
             ELSE Members(<<<<"tools", V("text")>>, <<"component", component>>, <<"timestamp", ts>>>>),
    main |-> IF metadata.kind # "dict" \/ component.kind # "dict" THEN <<>>
             ELSE Members(<<<<"odd key", V("text")>>, <<"manufacturer", maker>>, <<"name", V("text")>>>>),
    comps |-> <<GoodComp>>] :
     metadata \in {V("null"), V("other"), V("dict")},
     component \in {Absent, V("null"), V("dict"), V("other")},
     ts \in {Absent, V("null"), V("blank"), V("int"), V("text")},
     maker \in {Absent, V("text"), Manufacturer("space"), Manufacturer("int"), Manufacturer("text")}}

\* One component, with every combination of the members the component rules work on.
CompDocs ==
  {[root |-> GoodRoot, meta |-> GoodMeta, main |-> GoodMain,
    comps |-> <<[GoodComp EXCEPT !.obj = Members(
      <<<<"licenses", licenses>>, <<"type", V("text")>>, <<"name", V("text")>>,
        <<"externalReferences", refs>>, <<"purl", V(purl)>>, <<"properties", props>>>>)]>>] :
     purl \in {"pkg", "astra"},
     refs \in {Absent, V("other"), Refs(<<"vcs">>), ListOf(<<Junk, <<"source-distribution", "url">>>>)},
     props \in {Absent, V("null"), V("other"), ListOf(<<>>), ListOf(<<Junk, <<"GOST:attack_surface", "no">>>>),
                ListOf(<<<<"other", "text">>, <<"GOST:provided_by", "blank">>>>),
                ListOf(<<<<"GOST:provided_by", "space">>, <<"GOST:provided_by", "text">>>>),
                ListOf(<<<<"GOST:provided_by", "space">>, <<"GOST:security_function", "no">>>>)},
     licenses \in {Absent, V("null"), V("other"), ListOf(<<>>), Licenses(<<"MIT">>),
                   Licenses(<<"MIT", "Proprietary">>), ListOf(<<Junk>>)}}

\* A container with two entries beside a leaf, each with or without the defects of a leaf.
Node(id, up, purl, version) ==
  [id |-> id, up |-> up, dict |-> TRUE,
   obj |-> Members(<<<<"version", V(version)>>, <<"group", V("text")>>, <<"purl", V(purl)>>,
                     <<"components", IF id = 1 THEN ListOf(<<>>) ELSE V("null")>>>>)]
TreeDocs ==
  {[root |-> GoodRoot, meta |-> GoodMeta, main |-> GoodMain,
    comps |-> <<Node(1, 0, p1, v1), Node(2, 1, p2, v2)>>
              \o (IF p3 = "junk" THEN <<[id |-> 3, up |-> 1, dict |-> FALSE, obj |-> <<>>]>>
                  ELSE <<Node(3, 1, p3, "text")>>)
              \o <<Node(4, 0, "pkg", v4)>>] :
     p1, p2 \in {"absent", "blank", "bad", "pkg"}, p3 \in {"absent", "bad", "pkg", "junk"},
     v1, v2, v4 \in {"null", "text"}}

MCDocuments == RootDocs \cup MetaDocs \cup CompDocs \cup TreeDocs

P(field, pattern, by) == [field |-> field, pattern |-> pattern, provided_by |-> by]
Options(rules) ==
  [rules |-> rules, spec_version |-> "1.7",
   provided_by_patterns |-> <<P("purl", "space", "text"), P("purl", "astra", "given")>>,
   add_patterns |-> <<[field |-> "purl", pattern |-> "astra"]>>,
   keep |-> {<<"components[]", "licenses">>, <<"root", "version">>, <<"metadata", "tools">>}]
Defaults == {"reorder", "set_spec_version", "increment_version", "add_timestamp", "add_manufacturer",
             "filter_external_references", "filter_properties", "add_provided_by"}
MCOptionSets ==
  {Options(Defaults), Options(RuleIds), Options({}), Options(ToSet(LeafRules)),
   [Options(RuleIds \ {"increment_version"}) EXCEPT !.keep = {}],
   [Options({"set_spec_version", "reorder"}) EXCEPT !.spec_version = "2.0", !.keep = {}],
   Options({"add_provided_by", "filter_properties"}),
   Options({"remove_leaf_missing_purl", "remove_leaf_missing_version", "fill_missing_gost_properties"}),
   [Options({"filter_non_proprietary", "add_proprietary"}) EXCEPT !.keep = {}],
   Options({"remove_proprietary_source_references", "filter_non_proprietary"}),
   [Options({"add_provided_by", "add_proprietary", "reorder"})
      EXCEPT !.provided_by_patterns = <<P("licenses", "Proprietary", "text")>>]}
MCFieldSets ==
  {{}, {<<"root", "x">>, <<"metadata", "tools">>, <<"root", "version">>, <<"metadata.component", "odd key">>},
   {<<"components[]", "licenses">>, <<"components[]", "group">>, <<"components[]", "purl">>, <<"metadata", "tools">>}}

-----------------------------------------------------------------------------
(* Documents of a job: the URLs u1 and u2, the purls a1 and a2 with one normal form *)

MCPurlKey == [a1 |-> "a", a2 |-> "a", b |-> "b"]
MCRepositoryUrl == [a |-> "repo-a", b |-> "repo-b"]
Answer(result, url) == [result |-> result, final_url |-> url]
MCOutcomes == [u1 |-> {Answer("valid", "u1"), Answer("valid", "u2"), Answer("invalid", "u1"),
                       Answer("network_error", "u1")},
               u2 |-> {Answer("rate_limited", "u2"), Answer("valid", "u3"), Answer("network_error", "u2")}]

Part(id, up, purl, refs, nested) ==
  [id |-> id, up |-> up, dict |-> TRUE,
   obj |-> Members(<<<<"name", V(IF id = 4 THEN "tool" ELSE "text")>>, <<"purl", V(purl)>>,
                     <<"externalReferences", refs>>, <<"components", nested>>>>)]
JobDoc(version, comps) ==
  [root |-> Members(<<<<"bomFormat", V("text")>>, <<"version", version>>, <<"components", ListOf(<<>>)>>>>),
   meta |-> <<>>, main |-> <<>>, comps |-> comps]
NoDict(id, up) == [id |-> id, up |-> up, dict |-> FALSE, obj |-> <<>>]

\* A container with two components, and one beside it.
Trees ==
  {JobDoc(Num(1), <<Part(1, 0, p1, Absent, ListOf(<<>>)), Part(2, 1, p2, Absent, Absent),
                    Part(3, 1, p3, Absent, V("null")), Part(4, 0, p4, Absent, Absent)>>) :
     p1 \in {"absent", "a1", "b"}, p2, p3, p4 \in {"blank", "a1", "a2", "b", "bad"}}
\* Two components with every form of references, the second an entry of its own.
References ==
  {JobDoc(version, <<Part(1, 0, "a1", refs1, Absent), Part(2, 0, purl, refs2, Absent)>>) :
     version \in {Num(1)}, purl \in {"a2", "b"},
     refs1, refs2 \in {Absent, ListOf(<<>>), ListOf(<<<<"vcs", "u1">>>>), ListOf(<<<<"vcs", "">>, Junk>>),
                       ListOf(<<<<"website", "u1">>, <<"vcs", "u2">>, <<"vcs", "u1">>>>),
                       ListOf(<<<<"source-distribution", "u2">>, <<"vcs", "u2">>>>), V("other")}}
Versions ==
  {JobDoc(version, <<Part(1, 0, "a1", Absent, ListOf(<<>>)), NoDict(2, up)>>) :
     version \in {Absent, V("null"), V("bool"), V("text"), Num(1)}, up \in {0, 1}}
  \cup {JobDoc(version, <<Part(1, 0, "a1", Absent, Absent)>>) :
          version \in {Absent, V("null"), V("bool"), V("text")}}
MCEnrichDocuments == Trees \cup References \cup Versions

Settings(validate, behavior, remove, patterns) ==
  [validate |-> validate, behavior |-> behavior, remove |-> remove, patterns |-> patterns]
ToolPattern == {[field |-> "name", pattern |-> "tool"], [field |-> "blank", pattern |-> "a1"]}
MCJobOptions ==
  {Settings(TRUE, "keep-first", FALSE, {}), Settings(TRUE, "keep-all", TRUE, {}),
   Settings(FALSE, "keep-all", TRUE, ToolPattern),
   Settings(TRUE, "keep-first", FALSE, {[field |-> "purl", pattern |-> "a2"]})}

-----------------------------------------------------------------------------
(* Documents to convert: an image beside, inside or instead of other components *)

ImageNode(id, up, type, purl) ==
  [id |-> id, up |-> up, dict |-> TRUE,
   obj |-> Members(<<<<"type", V(type)>>, <<"purl", V(purl)>>, <<"name", V(IF id = 2 THEN "blank" ELSE "text")>>,
                     <<"components", ListOf(<<>>)>>,
                     <<"properties", IF id = 1 THEN ListOf(<<<<"GOST:other", "no">>>>) ELSE Absent>>>>)]
MCImageDocuments ==
  {[root |-> root, meta |-> GoodMeta, main |-> <<<<"type", V(main)>>, <<"purl", V("i1")>>>>,
    comps |-> <<ImageNode(1, 0, t1, p1), ImageNode(2, 1, t2, p2), ImageNode(3, 0, t3, p3)>>] :
     root \in {GoodRoot, [GoodRoot EXCEPT ![1] = GoodRoot[5], ![5] = GoodRoot[1]]},
     main, t1, t2, t3 \in {"container", "library"}, p1, p2, p3 \in {"absent", "i1", "i2"}}

MCDefaultOptions == [Options(Defaults) EXCEPT !.keep = {}]
=============================================================================
