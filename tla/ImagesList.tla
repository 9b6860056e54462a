------------------------------ MODULE ImagesList ------------------------------
(***************************************************************************)
(* POST /api/v1/convert/images-list (routes/images_list.py,                *)
(* sbom/images_list_converter.py): the containers of a document become its *)
(* components, one for each purl.                                          *)
(***************************************************************************)
EXTENDS SbomDocument

CONSTANTS ImageDocuments

ASSUME ImageDocumentsAssumption == \A d \in ImageDocuments : IsDocument(d) /\ WellFormed(d)

VARIABLES upload,     \* the document the user holds
          conversion  \* the answer to the last conversion, or NoConversion
imagesVars == <<upload, conversion>>

NoConversion == [none |-> TRUE]

IsContainer(o) == Get(o, "type").kind = "container"

Top(d) == Only(d.comps, {c \in ToSet(d.comps) : c.up = 0})
AllAreContainers(d) == Top(d) # <<>> /\ \A c \in ToSet(Top(d)) : c.dict /\ IsContainer(c.obj)

\* The outermost containers of the tree: the walk does not go into a container.
Outermost(d) ==
  LET open[i \in DOMAIN d.comps] ==   \* the walk comes to entry i
        \/ d.comps[i].up = 0
        \/ \E j \in 1..i - 1 : d.comps[j].id = d.comps[i].up /\ open[j] /\ ~IsContainer(d.comps[j].obj)
  IN Only(d.comps, {d.comps[i] : i \in {j \in DOMAIN d.comps : open[j] /\ IsContainer(d.comps[j].obj)}})

Subtree(d, c) == Only(d.comps, {e \in ToSet(d.comps) : e.up = c.id})
Image(d, c) == [obj |-> c.obj, nested |-> Subtree(d, c)]
MainImage(d) == [obj |-> d.main, nested |-> <<>>]

Images(d, cs) == [i \in DOMAIN cs |-> Image(d, cs[i])]

\* The walk takes the members of the root in their order; metadata.component may be a container.
UnderMember(d, k) ==
  CASE k = "metadata" /\ HasMain(d) /\ IsContainer(d.main) -> <<MainImage(d)>>
    [] k = "components" -> Images(d, Outermost(d))
    [] OTHER -> <<>>
CollectContainers(d) == FoldLeft(LAMBDA acc, m : acc \o UnderMember(d, m[1]), <<>>, d.root)

\* Mutant: a container without a purl counts as seen once one was there.
AddContainerMutant(acc, image) ==
  LET purl == Get(image.obj, "purl").kind
  IN IF purl \in acc.seen THEN [acc EXCEPT !.dups = Append(@, purl)]
     ELSE [acc EXCEPT !.seen = @ \cup {purl}, !.kept = Append(@, image)]
AddContainer(acc, image) ==
  LET purl == Get(image.obj, "purl")
  IN CASE ~IsText(purl) -> [acc EXCEPT !.kept = Append(@, image)]
       [] IsText(purl) /\ purl.kind \in acc.seen -> [acc EXCEPT !.dups = Append(@, purl.kind)]
       [] IsText(purl) /\ purl.kind \notin acc.seen ->
            [acc EXCEPT !.seen = @ \cup {purl.kind}, !.kept = Append(@, image)]

Containers(d) == IF AllAreContainers(d) THEN Images(d, Top(d)) ELSE CollectContainers(d)

Deduplicated(images) == FoldLeft(AddContainer, [seen |-> {}, dups |-> <<>>, kept |-> <<>>], images)

\* How often the purl of an image was left out: Counter(duplicates).get(purl).
Duplicates(dups, o) ==
  LET purl == Get(o, "purl") IN IF IsText(purl) THEN Len(Only(dups, {purl.kind})) ELSE 0

Convert(d) ==
  LET r == Deduplicated(Containers(d))
  IN [was_transformed |-> ~AllAreContainers(d) \/ r.dups # <<>>,
      kept |-> r.kept,
      images |-> [i \in DOMAIN r.kept |->
        [missing_name |-> ~NonEmptyString(Get(r.kept[i].obj, "name")),
         missing_version |-> ~NonEmptyString(Get(r.kept[i].obj, "version")),
         missing_components |-> r.kept[i].nested = <<>>,
         missing_properties |-> Get(r.kept[i].obj, "properties").items = <<>>,
         duplicates_removed |-> Duplicates(r.dups, r.kept[i].obj)]]]

ImagesInit == upload \in ImageDocuments /\ conversion = NoConversion

ConvertImages ==
  /\ conversion = NoConversion
  /\ conversion' = Convert(upload)
  /\ UNCHANGED upload

-----------------------------------------------------------------------------
\* No container is lost: each outermost one is in the list or a duplicate of one that is, and
\* the duplicates reported for the images add up to those that were left out.
ImagesAccounted ==
  conversion # NoConversion =>
    LET all == Containers(upload)
        n == DOMAIN conversion.kept
        PurlOf(image) == Get(image.obj, "purl")
    IN /\ Len(all) = Len(conversion.kept)
                     + Total([i \in n |-> conversion.images[i].duplicates_removed], n)
       /\ \A image \in ToSet(all) : \E i \in n :
            \/ conversion.kept[i] = image
            \/ IsText(PurlOf(image)) /\ PurlOf(conversion.kept[i]) = PurlOf(image)
       /\ \A i, j \in n :
            /\ IsText(PurlOf(conversion.kept[i]))
            /\ PurlOf(conversion.kept[i]) = PurlOf(conversion.kept[j])
            => i = j
=============================================================================
