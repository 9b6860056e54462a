---------------------------- MODULE SbomDocuments ----------------------------
(***************************************************************************)
(* What the application does to SBOM documents, in one: the fixer, the     *)
(* enrichment of a job and the conversion to a list of images.  A user     *)
(* works with one of them on a document; what they have to agree on (which *)
(* references count as a source) is stated below.                          *)
(***************************************************************************)
EXTENDS SbomFix, SbomEnrichment, ImagesList

CONSTANTS DefaultOptions   \* SbomFixOptions()

\* By default the fixer removes neither components nor source references.
ASSUME DefaultOptionsAssumption ==
  /\ IsOptions(DefaultOptions)
  /\ DefaultOptions.rules \cap (ToSet(LeafRules) \cup {"remove_proprietary_source_references"}) = {}

VARIABLES task   \* which of the three the user works with
vars == <<task, fixVars, enrichVars, imagesVars>>

NoDocument == [root |-> <<>>, meta |-> <<>>, main |-> <<>>, comps |-> <<>>]
NoFix == /\ doc = NoDocument /\ base = NoDocument
         /\ analysis = NoAnswer /\ reply = NoAnswer /\ fixes = 0 /\ refused = "none"
NoEnrich == /\ given = NoDocument /\ sbom = NoDocument /\ job = [none |-> TRUE] /\ phase = "parsing"
            /\ collected = <<>> /\ verdicts = <<>> /\ resolved = {} /\ removed = <<>> /\ report = NoReport
NoImages == upload = NoDocument /\ conversion = NoConversion

Init == \/ task = "fix" /\ FixInit /\ NoEnrich /\ NoImages
        \/ task = "enrich" /\ NoFix /\ EnrichInit /\ NoImages
        \/ task = "images" /\ NoFix /\ NoEnrich /\ ImagesInit

Next == \/ task = "fix" /\ FixNext /\ UNCHANGED <<task, enrichVars, imagesVars>>
        \/ task = "enrich" /\ EnrichNext /\ UNCHANGED <<task, fixVars, imagesVars>>
        \/ task = "images" /\ ConvertImages /\ UNCHANGED <<task, fixVars, enrichVars>>

Spec == Init /\ [][Next]_vars

-----------------------------------------------------------------------------
\* The fixer's default rules keep the repository an enrichment found: the reference is in the
\* fixed document, and the fixer does not report the component as one without a source.
FixKeepsEnrichment ==
  Done =>
    LET after == Fix(sbom, DefaultOptions, {})
    IN \A c \in ToSet(collected) :
         LET id == IdAt(c)
         IN /\ c.needs_enrichment /\ SafeKey(c.purl) \in resolved
            => /\ <<"vcs", RepositoryUrl[SafeKey(c.purl)]>> \in ToSet(RefsOf(after.fixed, id))
               /\ <<"missing_source_reference", id>> \notin after.issues
=============================================================================
