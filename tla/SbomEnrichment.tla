---------------------------- MODULE SbomEnrichment ----------------------------
(***************************************************************************)
(* What SbomEnrichmentPipeline.process does to a document                  *)
(* (sbom_enrichment.py, sbom/collector.py, enricher.py, remover.py,        *)
(* reporter.py): collect the components with a purl, leave the ignored     *)
(* ones alone, validate their repository URLs, resolve the purls that lack *)
(* one, write the answers back by path, remove what stays unresolved, and  *)
(* report.  How a purl is resolved is PurlResolution's; here its outcome   *)
(* is any subset of the purls asked for.                                   *)
(***************************************************************************)
EXTENDS SbomDocument

CONSTANTS EnrichDocuments,   \* the documents a job may be given
          JobOptions,        \* settings of a job: [validate, behavior, remove, patterns]
          PurlKey,           \* the normal form of each valid purl
          RepositoryUrl,     \* the repository that resolving a key yields
          Outcomes           \* for each URL, the possible answers [result, final_url]

ASSUME EnrichDocumentsAssumption == \A d \in EnrichDocuments : IsDocument(d) /\ WellFormed(d)
ASSUME JobOptionsAssumption == \A options \in JobOptions : options.validate \in BOOLEAN
\* Only a URL that is not empty is validated, or found; an empty answer leaves it as it is.
ASSUME UrlsAssumption == /\ \A u \in DOMAIN Outcomes : \A answer \in Outcomes[u] : answer.final_url # ""
                         /\ \A p \in DOMAIN PurlKey : RepositoryUrl[PurlKey[p]] # ""

VARIABLES given,     \* the uploaded document
          sbom,      \* sbom_data, which the stages change in place
          job,       \* the options of the job
          phase,     \* what process awaits or has ended with
          collected, \* the SbomComponents
          verdicts,  \* the answer for every URL that was validated
          resolved,  \* the keys found by resolve_batch
          removed,   \* the components that were removed
          report     \* the rows and the summary
enrichVars == <<given, sbom, job, phase, collected, verdicts, resolved, removed, report>>

SafeKey(purl) == IF purl \in DOMAIN PurlKey THEN PurlKey[purl] ELSE purl
\* normalize keeps type, namespace and name only: of its result it changes nothing.
ASSUME PurlKeyAssumption == \A p \in DOMAIN PurlKey : SafeKey(PurlKey[p]) = PurlKey[p]

-----------------------------------------------------------------------------
(* Paths: the index of a component and of each one around it *)

Siblings(d, up) == Only(d.comps, {c \in ToSet(d.comps) : c.up = up})
Path(d, c) ==
  LET path[i \in DOMAIN d.comps] ==
        LET e == d.comps[i]
            index == Cardinality({j \in 1..i : d.comps[j].up = e.up})
        IN IF e.up = 0 THEN <<index>>
           ELSE Append(path[CHOOSE j \in 1..i - 1 : d.comps[j].id = e.up], index)
  IN path[CHOOSE i \in DOMAIN d.comps : d.comps[i] = c]

\* The component a path leads to now.
At(d, path) == FoldLeft(LAMBDA up, index : Siblings(d, up)[index].id, 0, path)

Refer(c, refs) == [c EXCEPT !.obj = Put(c.obj, "externalReferences", ListOf(refs))]
SetReferences(d, path, refs) ==
  [d EXCEPT !.comps = [i \in DOMAIN d.comps |->
     IF d.comps[i].id = At(d, path) THEN Refer(d.comps[i], refs) ELSE d.comps[i]]]

\* list.pop: the entry goes with everything nested in it.
Pop(d, path) ==
  LET n == Len(path)
      Inside(c) == LET p == Path(d, c) IN Len(p) >= n /\ SubSeq(p, 1, n) = path
  IN [d EXCEPT !.comps = Only(@, {c \in ToSet(@) : ~Inside(c)})]

LexLess(p, q) ==
  \E n \in 0..Len(p) :
    /\ n < Len(q) /\ SubSeq(p, 1, n) = SubSeq(q, 1, n)
    /\ n = Len(p) \/ p[n + 1] < q[n + 1]

-----------------------------------------------------------------------------
(* collect_components *)

SourceRefTypes == {"vcs", "source-distribution"}
Purl(c) == Get(c.obj, "purl").kind
HasPurl(c) == NonEmptyString(Get(c.obj, "purl"))
HasSourceReference(o) == \E r \in ToSet(Get(o, "externalReferences").items) : r[1] \in SourceRefTypes

\* Below a component without a purl nothing is collected.
Reached(d) ==
  LET reached[i \in DOMAIN d.comps] ==
        \/ d.comps[i].up = 0
        \/ \E j \in 1..i - 1 : /\ d.comps[j].id = d.comps[i].up
                               /\ reached[j] /\ HasPurl(d.comps[j])
  IN Only(d.comps, {d.comps[i] : i \in {j \in DOMAIN d.comps : reached[j]}})

\* An entry that is no object, or references that are none, raise.
CollectRaises(d) ==
  \E c \in ToSet(Reached(d)) :
    \/ ~c.dict
    \/ /\ HasPurl(c)
       /\ LET refs == Get(c.obj, "externalReferences")
          IN \/ ~IsNone(refs) /\ ~IsList(refs) /\ refs.kind # "blank"
             \/ \E i \in DOMAIN refs.items :
                  refs.items[i] = Junk /\ \A j \in 1..i : refs.items[j][1] \notin SourceRefTypes

CollectComponents(d) ==
  LET taken == Only(Reached(d), {c \in ToSet(d.comps) : HasPurl(c)})
  IN [i \in DOMAIN taken |->
        [path |-> Path(d, taken[i]), purl |-> Purl(taken[i]),
         needs_enrichment |-> ~HasSourceReference(taken[i].obj),
         has_subcomponents |-> ~IsLeaf(d, taken[i]),
         existing_references |-> Get(taken[i].obj, "externalReferences").items,
         ignored |-> FALSE]]

MatchesAnyPattern(d, c) ==
  \E rule \in job.patterns :
    /\ rule.field # "blank" /\ rule.pattern # "blank"
    /\ FieldContains(Component(d, At(d, c.path)).obj, rule.field, rule.pattern)

Ignored(d, cs) ==
  [i \in DOMAIN cs |-> IF MatchesAnyPattern(d, cs[i])
                         THEN [cs[i] EXCEPT !.ignored = TRUE, !.needs_enrichment = FALSE]
                         ELSE cs[i]]

-----------------------------------------------------------------------------
(* _validate_external_references *)

IsVcs(ref) == ref[1] = "vcs" /\ ref[2] # ""
VcsIn(refs) == Only(refs, {r \in ToSet(refs) : IsVcs(r)})
OthersIn(refs) == Only(refs, {r \in ToSet(refs) : ~IsVcs(r)})
VcsRefs(c) == VcsIn(c.existing_references)
UniqueUrls(cs) == UNION {{r[2] : r \in ToSet(VcsRefs(c))} : c \in {e \in ToSet(cs) : ~e.ignored}}
Refuted == {"invalid", "network_error"}

\* The references that remain, with the URL each one redirects to.
ValidVcs(c, answers) ==
  LET kept == Only(VcsRefs(c), {r \in ToSet(VcsRefs(c)) : answers[r[2]].result \notin Refuted})
  IN [i \in DOMAIN kept |-> <<"vcs", answers[kept[i][2]].final_url>>]

AfterValidation(c, answers) ==
  LET valid == ValidVcs(c, answers)
      chosen == IF Len(valid) >= 2 /\ job.behavior = "keep-first" THEN <<valid[1]>> ELSE valid
  IN IF c.ignored \/ VcsRefs(c) = <<>> THEN c
     ELSE [c EXCEPT !.existing_references = OthersIn(@) \o chosen,
                    !.needs_enrichment = @ \/ valid = <<>>]

\* The references of every component that is not ignored are written back.
WriteBack(d, c) == IF c.ignored THEN d ELSE SetReferences(d, c.path, c.existing_references)
SyncBack(d, cs) == FoldLeft(WriteBack, d, cs)

-----------------------------------------------------------------------------
(* Selection, enrichment, removal *)

ToResolve(cs) == Only(cs, {c \in ToSet(cs) : c.needs_enrichment})
Skipped(cs) == Only(ToResolve(cs), {c \in ToSet(cs) : c.purl \notin DOMAIN PurlKey})
UniqueKeys(cs) == {PurlKey[c.purl] : c \in {e \in ToSet(ToResolve(cs)) : e.purl \in DOMAIN PurlKey}}

\* Mutant: the references that were there are not kept.
EnrichOneMutant(d, c) == SetReferences(d, c.path, <<<<"vcs", RepositoryUrl[SafeKey(c.purl)]>>>>)
EnrichOne(d, c) ==
  SetReferences(d, c.path, Append(c.existing_references, <<"vcs", RepositoryUrl[SafeKey(c.purl)]>>))

EnrichFound(d, c) == IF c.needs_enrichment /\ SafeKey(c.purl) \in resolved THEN EnrichOne(d, c) ELSE d
EnrichSbom(d, cs) == FoldLeft(EnrichFound, d, cs)

\* sbom.get("version", 0) + 1: a missing version is 0, true is 1, null or a text raises.
VersionRaises(d) == Get(d.root, "version").kind \notin {"absent", "int", "bool"}
BumpVersion(d) ==
  LET v == Get(d.root, "version")
      n == CASE v.kind = "absent" -> 0 [] v.kind = "int" -> v.items[1] [] v.kind = "bool" -> 1
  IN [d EXCEPT !.root = Put(@, "version", [kind |-> "int", items |-> <<n + 1>>])]

ToRemove(cs) ==
  {c \in ToSet(cs) : c.needs_enrichment /\ ~c.has_subcomponents /\ SafeKey(c.purl) \notin resolved}
\* Mutant: the components are removed from the front.
RemovalOrderMutant(cs) ==
  CHOOSE s \in SetToSeqs(ToRemove(cs)) : \A i, j \in DOMAIN s : i < j => LexLess(s[i].path, s[j].path)
\* Last path first, so that a removal moves no component that is still to be removed.
RemovalOrder(cs) ==
  CHOOSE s \in SetToSeqs(ToRemove(cs)) : \A i, j \in DOMAIN s : i < j => LexLess(s[j].path, s[i].path)
RemoveComponents(d, cs) == FoldLeft(LAMBDA e, c : Pop(e, c.path), d, cs)

-----------------------------------------------------------------------------
(* build_report *)

Row(key, status) == [purl |-> key, status |-> status]

\* Mutant: a found purl is looked up before the purls already reported.
ReportStepMutant(acc, c, gone) ==
  LET key == SafeKey(c.purl)
  IN IF ~c.ignored /\ ~c.needs_enrichment THEN acc
     ELSE IF c.ignored THEN [seen |-> acc.seen \cup {key}, rows |-> Append(acc.rows, Row(key, "ignored"))]
     ELSE IF key \in acc.seen \cup gone THEN [acc EXCEPT !.seen = @ \cup {key}]
     ELSE [seen |-> acc.seen \cup {key},
           rows |-> Append(acc.rows, Row(key, IF key \in resolved THEN "found" ELSE "not_found"))]
ReportStep(acc, c, gone) ==
  LET key == SafeKey(c.purl)
      With(status) == [seen |-> acc.seen \cup {key}, rows |-> Append(acc.rows, Row(key, status))]
  IN IF key \in acc.seen \/ (~c.ignored /\ ~c.needs_enrichment) THEN acc
     ELSE IF c.ignored THEN With("ignored")
     ELSE IF key \in gone THEN [acc EXCEPT !.seen = @ \cup {key}]
     ELSE With(IF key \in resolved THEN "found" ELSE "not_found")

MainRows(cs, gone) == FoldLeft(LAMBDA acc, c : ReportStep(acc, c, gone), [seen |-> {}, rows |-> <<>>], cs).rows

BuildReport(cs, skipped, gone) ==
  LET rows == MainRows(cs, {SafeKey(c.purl) : c \in ToSet(gone)})
                   \o [i \in DOMAIN gone |-> Row(gone[i].purl, "removed")]
                   \o [i \in DOMAIN skipped |-> Row(skipped[i].purl, "skipped")]
      Count(status) == Len(Only(rows, {r \in ToSet(rows) : r.status = status}))
  IN [rows |-> rows,
      summary |-> [s \in {"found", "not_found", "ignored", "skipped", "removed"} |-> Count(s)],
      total |-> Count("found") + Count("not_found") + Count("ignored") + Len(skipped) + Len(gone)]

-----------------------------------------------------------------------------
NoReport == [rows |-> <<>>]

EnrichInit ==
  /\ given \in EnrichDocuments /\ sbom = given
  /\ job \in JobOptions /\ phase = "parsing"
  /\ collected = <<>> /\ verdicts = <<>> /\ resolved = {} /\ removed = <<>> /\ report = NoReport

Fail == phase' = "failed" /\ UNCHANGED <<given, sbom, job, collected, verdicts, resolved, removed, report>>

Collect ==
  /\ phase = "parsing"
  /\ \/ CollectRaises(sbom) /\ Fail
     \/ /\ ~CollectRaises(sbom)
        /\ collected' = Ignored(sbom, CollectComponents(sbom))
        /\ phase' = IF job.validate THEN "validating_refs" ELSE "resolving"
        /\ UNCHANGED <<given, sbom, job, verdicts, resolved, removed, report>>

ValidateReferences ==
  /\ phase = "validating_refs"
  /\ \/ (\E c \in ToSet(collected) : ~c.ignored /\ Junk \in ToSet(c.existing_references)) /\ Fail
     \/ /\ \A c \in ToSet(collected) : c.ignored \/ Junk \notin ToSet(c.existing_references)
        /\ verdicts' \in {f \in [UniqueUrls(collected) -> UNION {Outcomes[u] : u \in DOMAIN Outcomes}] :
                            \A u \in DOMAIN f : f[u] \in Outcomes[u]}
        /\ collected' = [i \in DOMAIN collected |-> AfterValidation(collected[i], verdicts')]
        /\ sbom' = SyncBack(sbom, collected') /\ phase' = "resolving"
        /\ UNCHANGED <<given, job, resolved, removed, report>>

\* resolve_batch answers for some of the keys.
Resolve ==
  /\ phase = "resolving"
  /\ resolved' \in SUBSET UniqueKeys(collected)
  /\ phase' = "enriching"
  /\ UNCHANGED <<given, sbom, job, collected, verdicts, removed, report>>

Finish ==
  /\ phase = "enriching"
  /\ \/ VersionRaises(sbom) /\ Fail
     \/ /\ ~VersionRaises(sbom)
        /\ LET enriched == BumpVersion(EnrichSbom(sbom, collected))
           IN /\ removed' = IF job.remove THEN RemovalOrder(collected) ELSE <<>>
              /\ sbom' = RemoveComponents(enriched, removed')
        /\ report' = BuildReport(collected, Skipped(collected), removed')
        /\ phase' = "done"
        /\ UNCHANGED <<given, job, collected, verdicts, resolved>>

EnrichNext == Collect \/ ValidateReferences \/ Resolve \/ Finish

-----------------------------------------------------------------------------
Done == phase = "done"
IdAt(c) == At(given, c.path)
RefsOf(d, id) == Get(Component(d, id).obj, "externalReferences").items
VcsOf(d, id) == VcsIn(RefsOf(d, id))

\* The components that are gone are those that were to be removed and no others, although
\* each removal moves the ones behind it while the paths were taken from the upload; what
\* remains is a tree.
RemovalHitsItsTarget ==
  Done =>
    /\ Ids(given) \ Ids(sbom) = (IF job.remove THEN {IdAt(c) : c \in ToRemove(collected)} ELSE {})
    /\ WellFormed(sbom)

\* Every reference of the result is accounted for.  An ignored component, and one that is not
\* collected because a component around it has no purl, is as it was uploaded.  Of another,
\* what is no repository URL stays, in order; if a repository URL of the upload was not refuted,
\* the component has some of those, as they redirect, and no other; if none remained it has the
\* one that was found, and nothing else.
ReferencesAccounted ==
  Done =>
    /\ \A id \in Ids(sbom) :
         (\A c \in ToSet(collected) : IdAt(c) = id => c.ignored) =>
           Component(sbom, id) = Component(given, id)
    /\ \A c \in ToSet(collected) :
         IdAt(c) \in Ids(sbom) /\ ~c.ignored =>
           LET id == IdAt(c)
               found == {<<"vcs", RepositoryUrl[key]>> : key \in {SafeKey(c.purl)} \cap resolved}
               Survivor(u) == IF job.validate THEN verdicts[u].result \notin Refuted ELSE TRUE
               Target(u) == IF job.validate THEN verdicts[u].final_url ELSE u
               old == VcsOf(given, id)
               kept == {r[2] : r \in {q \in ToSet(old) : Survivor(q[2])}}
               new == VcsOf(sbom, id)
           IN /\ OthersIn(RefsOf(sbom, id)) = OthersIn(RefsOf(given, id))
              /\ kept # {} => /\ new # <<>> /\ Len(new) <= Len(old)
                              /\ \A r \in ToSet(new) : \E u \in kept : r[2] = Target(u)
              /\ kept = {} => ToSet(new) \subseteq found
              /\ c.needs_enrichment => ToSet(new) = found /\ Len(new) <= 1

\* The report has one row for a purl that was found, not found or ignored, whatever spellings
\* it has, none of them also removed; every purl that was asked for has a row.
ReportCovers ==
  Done =>
    LET rows == ToSet(report.rows)
        Main(key) == Only(report.rows,
                          {r \in rows : r.purl = key /\ r.status \in {"found", "not_found", "ignored"}})
        gone == {SafeKey(e.purl) : e \in ToSet(removed)}
    IN /\ \A r \in rows : Len(Main(r.purl)) <= 1
       /\ \A key \in gone : \A r \in rows : r.purl = key => r.status # "not_found"
       /\ \A c \in ToSet(collected) : c.needs_enrichment \/ c.ignored =>
            \E r \in rows : SafeKey(r.purl) = SafeKey(c.purl)
       /\ \A key \in resolved : \E r \in ToSet(Main(key)) : r.status \in {"found", "ignored"}
=============================================================================
