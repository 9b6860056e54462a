------------------------ MODULE SbomDocumentsProofs ------------------------
(***************************************************************************)
(* What is proved of SbomDocuments, for every document and every choice    *)
(* of options.                                                             *)
(*   I.   The list of images accounts for every image.                     *)
(*   II.  A job goes through its stages, removes the components it has     *)
(*        to, accounts for every reference, and reports every purl once.   *)
(*   III. A fix removes the leaves and the fields it has to and no other,  *)
(*        makes no defect, keeps what an enrichment found, and leaves      *)
(*        nothing for a second fix to do.                                  *)
(***************************************************************************)
EXTENDS DocumentLaws

PurlOf(image) == Get(image.obj, "purl")
AreImages(s) == IsSequence(s) /\ \A image \in ToSet(s) : IsValue(PurlOf(image))

CollectStep(d, acc, m) == acc \o UnderMember(d, m[1])
CollectLaws == INSTANCE FoldLaws WITH Op <- CollectStep

\* The images of a list of components are objects.
LEMMA ImagesType ==
  ASSUME NEW d, NEW cs, IsSequence(cs), \A c \in ToSet(cs) : IsComponent(c)
  PROVE  AreImages(Images(d, cs))
<1>. DEFINE s == Images(d, cs)
<1>1. Len(cs) \in Nat /\ DOMAIN cs = 1..Len(cs) /\ \A i \in DOMAIN cs : cs[i] \in ToSet(cs)
  BY SequenceForm
<1>2. s = [i \in 1..Len(cs) |-> s[i]]
  BY <1>1 DEF Images
<1>3. ASSUME NEW i \in 1..Len(cs) PROVE IsValue(PurlOf(s[i]))
  <2>1. s[i].obj = cs[i].obj
    BY <1>1 DEF Images, Image
  <2>2. IsObject(cs[i].obj)
    BY <1>1 DEF IsComponent
  <2>. QED  BY <2>1, <2>2, GetValue DEF PurlOf
<1>. HIDE DEF s
<1>4. IsSequence(s) /\ DOMAIN s = 1..Len(cs)
  BY <1>1, <1>2, FunctionSequence
<1>. QED  BY <1>3, <1>4 DEF AreImages, ToSet, s

\* The images under a member of the root are objects.
LEMMA UnderMemberType ==
  ASSUME NEW d, IsDocument(d), NEW k
  PROVE  AreImages(UnderMember(d, k))
<1>1. AreImages(<<>>)
  BY EmptySet DEF AreImages, IsSequence
<1>2. AreImages(<<MainImage(d)>>)
  <2>1. IsValue(PurlOf(MainImage(d)))
    <3>. MainImage(d).obj = d.main
      BY DEF MainImage
    <3>. QED  BY GetValue DEF PurlOf, IsDocument
  <2>2. <<MainImage(d)>> \in Seq({MainImage(d)})
    OBVIOUS
  <2>3. IsSequence(<<MainImage(d)>>) /\ ToSet(<<MainImage(d)>>) \in SUBSET {MainImage(d)}
    BY <2>2, SequenceOf, Zenon
  <2>. QED  BY <2>1, <2>3 DEF AreImages
<1>3. AreImages(Images(d, Outermost(d)))
  <2>1. IsSequence(Outermost(d)) /\ ToSet(Outermost(d)) \in SUBSET ToSet(d.comps)
    BY OnlySequence DEF Outermost, IsDocument
  <2>. QED  BY <2>1, ImagesType DEF IsDocument
<1>. QED  BY <1>1, <1>2, <1>3 DEF UnderMember

\* The images of a document are objects.
LEMMA CollectContainersType ==
  ASSUME NEW d, IsDocument(d)
  PROVE  AreImages(CollectContainers(d))
<1>. DEFINE X == ToSet(d.root)
            C(t) == CollectLaws!Folded(d, <<>>, t)
            A == {t \in Seq(X) : AreImages(C(t))}
<1>1. CollectContainers(d) = C(d.root)
  BY DEF CollectContainers, FoldLeft, MapThenFoldSet, CollectLaws!Folded, CollectLaws!OnSets,
         CollectLaws!Last, Max, CollectStep
<1>2. <<>> \in A
  <2>1. C(<<>>) = <<>>
    BY CollectLaws!FoldEmpty
  <2>2. AreImages(<<>>)
    BY EmptySet DEF AreImages, IsSequence
  <2>. QED  BY <2>1, <2>2
<1>3. ASSUME NEW t \in Seq(X), NEW m \in X, t \in A PROVE Append(t, m) \in A
  <2>. DEFINE n == Len(t)
              u == Append(t, m)
  <2>1. /\ n \in Nat /\ DOMAIN u = 1..n + 1 /\ DOMAIN t = 1..n
        /\ \A i \in 1..n : t[i] = u[i]
        /\ u[n + 1] = m /\ u \in Seq(X)
    OBVIOUS
  <2>. HIDE DEF n, u
  <2>2. C(u) = CollectStep(d, C(t), u[n + 1])
    BY <2>1, CollectLaws!FoldNext
  <2>3. AreImages(UnderMember(d, m[1]))
    BY UnderMemberType
  <2>4. AreImages(C(t))
    BY <1>3
  <2>. HIDE DEF C
  <2>5. IsSequence(C(t) \o UnderMember(d, m[1]))
        /\ ToSet(C(t) \o UnderMember(d, m[1])) = ToSet(C(t)) \cup ToSet(UnderMember(d, m[1]))
    BY <2>3, <2>4, ConcatSequence DEF AreImages
  <2>6. AreImages(C(u))
    BY <2>1, <2>2, <2>3, <2>4, <2>5 DEF AreImages, CollectStep
  <2>. QED  BY <2>1, <2>6 DEF u
<1>. HIDE DEF A
<1>4. Seq(X) \subseteq A
  BY <1>2, <1>3, SequenceInduction
<1>5. d.root \in Seq(X)
  BY DEF IsDocument, IsObject, IsSequence
<1>. QED  BY <1>1, <1>4, <1>5 DEF A

\* The images that a conversion finds are objects.
LEMMA ContainersType ==
  ASSUME NEW d, IsDocument(d)
  PROVE  AreImages(Containers(d))
<1>1. AreImages(Images(d, Top(d)))
  <2>1. IsSequence(Top(d)) /\ ToSet(Top(d)) \in SUBSET ToSet(d.comps)
    BY OnlySequence DEF Top, IsDocument
  <2>. QED  BY <2>1, ImagesType DEF IsDocument
<1>. QED  BY <1>1, CollectContainersType DEF Containers

AddStep(c, acc, image) == AddContainer(acc, image)
AddLaws == INSTANCE FoldLaws WITH Op <- AddStep

\* What holds of the images t and of the result r of leaving the duplicates out of them.
KeptOnce(t, r) ==
  /\ r = [seen |-> r.seen, dups |-> r.dups, kept |-> r.kept]
  /\ IsSequence(r.dups) /\ ToSet(r.dups) \subseteq r.seen
  /\ AreImages(r.kept) /\ Len(r.kept) + Len(r.dups) = Len(t)
  /\ \A p \in r.seen : \E i \in DOMAIN r.kept : IsText(PurlOf(r.kept[i])) /\ PurlOf(r.kept[i]).kind = p
  /\ \A i \in DOMAIN r.kept : IsText(PurlOf(r.kept[i])) => PurlOf(r.kept[i]).kind \in r.seen
  /\ \A i, j \in DOMAIN r.kept :
       IsText(PurlOf(r.kept[i])) /\ PurlOf(r.kept[i]).kind = PurlOf(r.kept[j]).kind => i = j
  /\ \A image \in ToSet(t) : \E i \in DOMAIN r.kept :
       \/ r.kept[i] = image
       \/ IsText(PurlOf(image)) /\ PurlOf(r.kept[i]) = PurlOf(image)

Dup(r, image) == [r EXCEPT !.dups = Append(@, PurlOf(image).kind)]
NewPurl(r, image) == [r EXCEPT !.seen = @ \cup {PurlOf(image).kind}, !.kept = Append(@, image)]
NoPurl(r, image) == [r EXCEPT !.kept = Append(@, image)]

\* What becomes of the record of a deduplication, field by field.
LEMMA AddedFields ==
  ASSUME NEW r, r = [seen |-> r.seen, dups |-> r.dups, kept |-> r.kept], NEW image
  PROVE  /\ Dup(r, image) = [seen |-> r.seen, dups |-> Append(r.dups, PurlOf(image).kind), kept |-> r.kept]
         /\ NewPurl(r, image) = [seen |-> r.seen \cup {PurlOf(image).kind}, dups |-> r.dups,
                                 kept |-> Append(r.kept, image)]
         /\ NoPurl(r, image) = [seen |-> r.seen, dups |-> r.dups, kept |-> Append(r.kept, image)]
<1>1. Dup(r, image) = [seen |-> r.seen, dups |-> Append(r.dups, PurlOf(image).kind), kept |-> r.kept]
  BY DEF Dup
<1>2. NewPurl(r, image) = [seen |-> r.seen \cup {PurlOf(image).kind}, dups |-> r.dups,
                           kept |-> Append(r.kept, image)]
  <2>. DEFINE x == r.seen \cup {PurlOf(image).kind}
              y == Append(r.kept, image)
              q == [r EXCEPT !.seen = x]
  <2>. HIDE DEF x, y
  <2>1. q = [seen |-> x, dups |-> r.dups, kept |-> r.kept]
    OBVIOUS
  <2>2. NewPurl(r, image) = [q EXCEPT !.kept = y]
    BY DEF NewPurl, x, y
  <2>. HIDE DEF q
  <2>3. [q EXCEPT !.kept = y] = [seen |-> x, dups |-> r.dups, kept |-> y]
    BY <2>1
  <2>. QED  BY <2>2, <2>3 DEF x, y
<1>3. NoPurl(r, image) = [seen |-> r.seen, dups |-> r.dups, kept |-> Append(r.kept, image)]
  BY SMTT(30) DEF NoPurl
<1>. QED  BY <1>1, <1>2, <1>3

\* An image whose purl was seen is counted as a duplicate, and no more.
LEMMA KeptOnceDuplicate ==
  ASSUME NEW t, IsSequence(t), NEW r, KeptOnce(t, r), NEW image, IsValue(PurlOf(image)),
         IsText(PurlOf(image)), PurlOf(image).kind \in r.seen
  PROVE  KeptOnce(Append(t, image), Dup(r, image))
<1>. DEFINE q == Dup(r, image)
            u == Append(t, image)
            k == PurlOf(image).kind
<1>1. /\ q = [seen |-> q.seen, dups |-> q.dups, kept |-> q.kept]
      /\ q.seen = r.seen /\ q.kept = r.kept /\ q.dups = Append(r.dups, k)
  <2>1. r = [seen |-> r.seen, dups |-> r.dups, kept |-> r.kept]
    BY DEF KeptOnce
  <2>2. q = [seen |-> r.seen, dups |-> Append(r.dups, k), kept |-> r.kept]
    BY <2>1, AddedFields, Zenon
  <2>. HIDE DEF q, k
  <2>. QED  BY <2>2
<1>2. Len(u) = Len(t) + 1 /\ ToSet(u) = ToSet(t) \cup {image} /\ Len(t) \in Nat
  BY AppendSequence, SequenceForm
<1>3. IsSequence(q.dups) /\ Len(q.dups) = Len(r.dups) + 1 /\ ToSet(q.dups) = ToSet(r.dups) \cup {k}
  BY <1>1, AppendSequence DEF KeptOnce
<1>4. Len(r.dups) \in Nat /\ Len(r.kept) \in Nat /\ Len(r.kept) + Len(r.dups) = Len(t)
  BY SequenceForm DEF KeptOnce, AreImages
<1>5. PICK i \in DOMAIN r.kept : IsText(PurlOf(r.kept[i])) /\ PurlOf(r.kept[i]).kind = k
  BY DEF KeptOnce
<1>6. PurlOf(r.kept[i]) = PurlOf(image)
  <2>. IsValue(PurlOf(r.kept[i]))
    BY DEF KeptOnce, AreImages, ToSet
  <2>. QED  BY <1>5, TextValue
<1>. HIDE DEF q, u, k
<1>7. Len(q.kept) + Len(q.dups) = Len(u)
  <2>1. Len(q.kept) = Len(r.kept)
    BY <1>1
  <2>2. Len(q.dups) = Len(r.dups) + 1
    BY <1>3
  <2>3. Len(u) = Len(t) + 1 /\ Len(t) \in Nat
    BY <1>2
  <2>. DEFINE a == Len(r.kept)
              b == Len(r.dups)
  <2>4. a \in Nat /\ b \in Nat /\ a + b = Len(t)
    BY <1>4, Zenon
  <2>. HIDE DEF a, b
  <2>5. a + (b + 1) = Len(t) + 1
    BY <2>3, <2>4
  <2>. QED  BY <2>1, <2>2, <2>3, <2>5, Zenon DEF a, b
<1>8. ToSet(q.dups) \subseteq q.seen
  BY <1>1, <1>3 DEF KeptOnce, k
<1>9. \A x \in ToSet(u) : \E j \in DOMAIN q.kept :
       \/ q.kept[j] = x
       \/ IsText(PurlOf(x)) /\ PurlOf(q.kept[j]) = PurlOf(x)
  BY <1>1, <1>2, <1>6 DEF KeptOnce
<1>. QED  BY <1>1, <1>3, <1>7, <1>8, <1>9 DEF KeptOnce, q, u

\* An image whose purl was not seen, or that has none, is kept.
LEMMA KeptOnceNew ==
  ASSUME NEW t, IsSequence(t), NEW r, KeptOnce(t, r), NEW image, IsValue(PurlOf(image)), NEW q,
         q = [seen |-> q.seen, dups |-> q.dups, kept |-> q.kept],
         q.dups = r.dups, q.kept = Append(r.kept, image),
         q.seen = IF IsText(PurlOf(image)) THEN r.seen \cup {PurlOf(image).kind} ELSE r.seen,
         IsText(PurlOf(image)) => PurlOf(image).kind \notin r.seen
  PROVE  KeptOnce(Append(t, image), q)
<1>. DEFINE u == Append(t, image)
            n == Len(r.kept)
            Texts(i) == IsText(PurlOf(q.kept[i]))
            Kind(i) == PurlOf(q.kept[i]).kind
<1>1. Len(u) = Len(t) + 1 /\ ToSet(u) = ToSet(t) \cup {image} /\ Len(t) \in Nat
  BY AppendSequence, SequenceForm
<1>2. /\ n \in Nat /\ DOMAIN r.kept = 1..n /\ DOMAIN q.kept = 1..n + 1 /\ Len(q.kept) = n + 1
      /\ IsSequence(q.kept) /\ ToSet(q.kept) = ToSet(r.kept) \cup {image}
      /\ q.kept[n + 1] = image /\ \A i \in 1..n : q.kept[i] = r.kept[i]
  BY AppendSequence, SequenceForm DEF KeptOnce, AreImages
<1>3. Len(r.dups) \in Nat
  BY SequenceForm DEF KeptOnce
<1>. HIDE DEF u, n
<1>4. AreImages(q.kept)
  BY <1>2 DEF KeptOnce, AreImages
<1>5. Len(q.kept) + Len(q.dups) = Len(u)
  BY <1>1, <1>2, <1>3 DEF KeptOnce, n
<1>6. \A i \in 1..n : Texts(i) => Kind(i) \in r.seen
  BY <1>2 DEF KeptOnce
<1>7. \A i, j \in 1..n : Texts(i) /\ Kind(i) = Kind(j) => i = j
  BY <1>2 DEF KeptOnce
<1>8. \A p \in r.seen : \E i \in 1..n : Texts(i) /\ Kind(i) = p
  BY <1>2 DEF KeptOnce
<1>9. (Texts(n + 1) = IsText(PurlOf(image))) /\ Kind(n + 1) = PurlOf(image).kind
  BY <1>2
<1>10. \A i \in 1..n + 1 : i \in 1..n \/ i = n + 1
  BY <1>2
<1>11. 1..n \subseteq 1..n + 1 /\ n + 1 \in 1..n + 1
  BY <1>2
<1>12. \A i, j \in 1..n : Kind(i) = Kind(j) => (Texts(i) <=> Texts(j))
  BY DEF IsText
<1>13. \A i \in 1..n : Kind(i) = Kind(n + 1) => (Texts(i) <=> Texts(n + 1))
  BY DEF IsText
<1>14. \A i \in DOMAIN q.kept : Texts(i) => Kind(i) \in q.seen
  <2>. HIDE DEF Texts, Kind
  <2>. QED  BY <1>2, <1>6, <1>9, <1>10
<1>15. \A i, j \in DOMAIN q.kept : Texts(i) /\ Kind(i) = Kind(j) => i = j
  <2>. SUFFICES ASSUME NEW i \in 1..n + 1, NEW j \in 1..n + 1, Texts(i), Kind(i) = Kind(j)
                PROVE  i = j
    BY <1>2, Zenon
  <2>. HIDE DEF Texts, Kind
  <2>1. CASE i \in 1..n /\ j \in 1..n
    BY <2>1, <1>7
  <2>2. CASE i \in 1..n /\ j = n + 1
    BY <2>2, <1>6, <1>9, <1>13
  <2>3. CASE i = n + 1 /\ j \in 1..n
    BY <2>3, <1>6, <1>9, <1>13
  <2>. QED  BY <1>10, <2>1, <2>2, <2>3
<1>16. \A p \in q.seen : \E i \in DOMAIN q.kept : Texts(i) /\ Kind(i) = p
  <2>. HIDE DEF Texts, Kind
  <2>. QED  BY <1>2, <1>8, <1>9, <1>11
<1>17. \A x \in ToSet(u) : \E j \in DOMAIN q.kept :
       \/ q.kept[j] = x
       \/ IsText(PurlOf(x)) /\ PurlOf(q.kept[j]) = PurlOf(x)
  BY <1>1, <1>2, <1>11 DEF KeptOnce
<1>18. IsSequence(q.dups) /\ ToSet(q.dups) \subseteq q.seen
  BY DEF KeptOnce
<1>. QED  BY <1>4, <1>5, <1>14, <1>15, <1>16, <1>17, <1>18, Zenon DEF KeptOnce, u

\* Of the images with one purl the first is kept, and every other is a duplicate.
LEMMA DeduplicatedKeepsOnce ==
  ASSUME NEW images, AreImages(images)
  PROVE  KeptOnce(images, Deduplicated(images))
<1>. DEFINE start == [seen |-> {}, dups |-> <<>>, kept |-> <<>>]
            X == ToSet(images)
            C(t) == AddLaws!Folded(0, start, t)
            A == {t \in Seq(X) : KeptOnce(t, C(t))}
<1>1. Deduplicated(images) = C(images)
  BY DEF Deduplicated, FoldLeft, MapThenFoldSet, AddLaws!Folded, AddLaws!OnSets,
         AddLaws!Last, Max, AddStep
<1>2. <<>> \in A
  <2>1. C(<<>>) = start
    BY AddLaws!FoldEmpty
  <2>2. ToSet(<<>>) = {} /\ IsSequence(<<>>) /\ AreImages(<<>>)
    BY EmptySet DEF AreImages, IsSequence
  <2>3. KeptOnce(<<>>, start)
    BY <2>2 DEF KeptOnce
  <2>. QED  BY <2>1, <2>3
<1>3. ASSUME NEW t \in Seq(X), NEW m \in X, t \in A PROVE Append(t, m) \in A
  <2>. DEFINE n == Len(t)
              u == Append(t, m)
              r == C(t)
  <2>1. /\ n \in Nat /\ DOMAIN u = 1..n + 1 /\ DOMAIN t = 1..n
        /\ \A i \in 1..n : t[i] = u[i]
        /\ u[n + 1] = m /\ u \in Seq(X)
    OBVIOUS
  <2>2. C(u) = AddContainer(r, m)
    <3>. HIDE DEF n, u
    <3>. QED  BY <2>1, AddLaws!FoldNext DEF AddStep
  <2>3. KeptOnce(t, r) /\ IsSequence(t) /\ IsValue(PurlOf(m))
    BY <1>3, SequenceOf DEF AreImages
  <2>. HIDE DEF C, u, r
  <2>4. CASE ~IsText(PurlOf(m))
    <3>1. C(u) = NoPurl(r, m)
      BY <2>2, <2>4 DEF AddContainer, PurlOf, NoPurl
    <3>. DEFINE q == NoPurl(r, m)
    <3>2. /\ q = [seen |-> q.seen, dups |-> q.dups, kept |-> q.kept]
          /\ q.dups = r.dups /\ q.kept = Append(r.kept, m) /\ q.seen = r.seen
      <4>1. r = [seen |-> r.seen, dups |-> r.dups, kept |-> r.kept]
        BY <2>3 DEF KeptOnce
      <4>2. q = [seen |-> r.seen, dups |-> r.dups, kept |-> Append(r.kept, m)]
        BY <4>1, AddedFields, Zenon
      <4>. HIDE DEF q
      <4>. QED  BY <4>2
    <3>. HIDE DEF q
    <3>3. KeptOnce(Append(t, m), q)
      BY <2>3, <2>4, <3>2, KeptOnceNew, Zenon
    <3>. QED  BY <3>1, <3>3 DEF q, u
  <2>5. CASE IsText(PurlOf(m)) /\ PurlOf(m).kind \notin r.seen
    <3>1. C(u) = NewPurl(r, m)
      BY <2>2, <2>5 DEF AddContainer, PurlOf, NewPurl
    <3>. DEFINE q == NewPurl(r, m)
    <3>2. /\ q = [seen |-> q.seen, dups |-> q.dups, kept |-> q.kept]
          /\ q.dups = r.dups /\ q.kept = Append(r.kept, m)
          /\ q.seen = r.seen \cup {PurlOf(m).kind}
      <4>1. r = [seen |-> r.seen, dups |-> r.dups, kept |-> r.kept]
        BY <2>3 DEF KeptOnce
      <4>2. q = [seen |-> r.seen \cup {PurlOf(m).kind}, dups |-> r.dups, kept |-> Append(r.kept, m)]
        BY <4>1, AddedFields, Zenon
      <4>. HIDE DEF q
      <4>. QED  BY <4>2
    <3>. HIDE DEF q
    <3>3. KeptOnce(Append(t, m), q)
      BY <2>3, <2>5, <3>2, KeptOnceNew, Zenon
    <3>. QED  BY <3>1, <3>3 DEF q, u
  <2>6. CASE IsText(PurlOf(m)) /\ PurlOf(m).kind \in r.seen
    <3>1. C(u) = Dup(r, m)
      BY <2>2, <2>6 DEF AddContainer, PurlOf, Dup
    <3>. QED  BY <2>3, <2>6, <3>1, KeptOnceDuplicate DEF u
  <2>7. KeptOnce(u, C(u))
    BY <2>4, <2>5, <2>6 DEF u
  <2>. QED  BY <2>1, <2>7 DEF C, u
<1>. HIDE DEF A
<1>4. Seq(X) \subseteq A
  BY <1>2, <1>3, SequenceInduction
<1>5. images \in Seq(X)
  BY DEF AreImages, IsSequence
<1>. QED  BY <1>1, <1>4, <1>5 DEF A

\* The duplicates of the kept images add up to all duplicates.
LEMMA DuplicatesAddUp ==
  ASSUME NEW t, NEW r, KeptOnce(t, r)
  PROVE  Total([i \in DOMAIN r.kept |-> Duplicates(r.dups, r.kept[i].obj)], DOMAIN r.kept) = Len(r.dups)
<1>. DEFINE S == DOMAIN r.kept
            F(s) == [i \in S |-> Duplicates(s, r.kept[i].obj)]
            A == {s \in Seq(r.seen) : (\A i \in S : F(s)[i] \in Int) /\ Total(F(s), S) = Len(s)}
<1>0. S = 1..Len(r.kept) /\ Len(r.kept) \in Nat
  BY SequenceForm DEF KeptOnce, AreImages
<1>1. IsFiniteSet(S)
  BY <1>0, RangeIsFinite
<1>2. <<>> \in A
  <2>1. \A i \in S : F(<<>>)[i] = 0
    <3>. Len(<<>>) = 0
      OBVIOUS
    <3>. QED  BY OnlyEmpty DEF Duplicates
  <2>2. Total(F(<<>>), S) = 0
    <3>. HIDE DEF F, S
    <3>. QED  BY <1>1, <2>1, TotalZero
  <2>. QED  BY <2>1, <2>2
<1>3. ASSUME NEW s \in Seq(r.seen), NEW p \in r.seen, s \in A PROVE Append(s, p) \in A
  <2>1. PICK x \in S : IsText(PurlOf(r.kept[x])) /\ PurlOf(r.kept[x]).kind = p
    BY DEF KeptOnce
  <2>2. ASSUME NEW i \in S PROVE F(Append(s, p))[i] = F(s)[i] + (IF i = x THEN 1 ELSE 0)
    <3>. DEFINE k == PurlOf(r.kept[i]).kind
    <3>1. CASE ~IsText(PurlOf(r.kept[i]))
      BY <3>1, <2>1 DEF Duplicates, PurlOf
    <3>2. CASE IsText(PurlOf(r.kept[i]))
      <4>1. F(Append(s, p))[i] = Len(Only(Append(s, p), {k})) /\ F(s)[i] = Len(Only(s, {k}))
        BY <3>2 DEF Duplicates, PurlOf
      <4>2. Only(Append(s, p), {k}) = IF p = k THEN Append(Only(s, {k}), p) ELSE Only(s, {k})
        BY OnlyNext
      <4>3. p = k <=> i = x
        BY <2>1, <3>2 DEF KeptOnce
      <4>4. Only(s, {k}) \in Seq(r.seen)
        BY OnlyType, Zenon
      <4>. QED  BY <4>1, <4>2, <4>3, <4>4
    <3>. QED  BY <3>1, <3>2
  <2>3. \A i \in S : F(s)[i] \in Int
    BY <1>3, Zenon
  <2>4. F(Append(s, p))[x] = F(s)[x] + 1 /\ \A i \in S \ {x} : F(Append(s, p))[i] = F(s)[i]
    <3>. HIDE DEF F, S
    <3>. QED  BY <2>2, <2>3
  <2>5. Total(F(s), S) = Len(s)
    BY <1>3
  <2>6. Len(Append(s, p)) = Len(s) + 1 /\ Append(s, p) \in Seq(r.seen)
    OBVIOUS
  <2>. HIDE DEF F, S
  <2>7. Total(F(Append(s, p)), S) = Total(F(s), S) + 1
    BY <1>1, <2>3, <2>4, TotalBump
  <2>8. \A i \in S : F(Append(s, p))[i] \in Int
    BY <2>2, <2>3
  <2>. QED  BY <2>5, <2>6, <2>7, <2>8
<1>. HIDE DEF A
<1>4. Seq(r.seen) \subseteq A
  BY <1>2, <1>3, SequenceInduction
<1>5. r.dups \in Seq(r.seen)
  BY DEF KeptOnce, IsSequence
<1>. QED  BY <1>4, <1>5 DEF A

ConvertedWhole ==
  /\ task = "images" => upload \in ImageDocuments
  /\ conversion # NoConversion => upload \in ImageDocuments /\ conversion = Convert(upload)

\* A conversion is that of the document which was uploaded.
LEMMA ConvertedWholeInvariant == Spec => []ConvertedWhole
<1>1. Init => ConvertedWhole
  BY DEF Init, NoImages, ImagesInit, ConvertedWhole
<1>2. ConvertedWhole /\ [Next]_vars => ConvertedWhole'
  <2>. SUFFICES ASSUME ConvertedWhole, [Next]_vars PROVE ConvertedWhole'
    OBVIOUS
  <2>1. CASE UNCHANGED <<task, imagesVars>>
    BY <2>1 DEF ConvertedWhole, imagesVars
  <2>2. CASE task = "images" /\ ConvertImages /\ UNCHANGED <<task, fixVars, enrichVars>>
    BY <2>2 DEF ConvertedWhole, ConvertImages
  <2>3. CASE task = "fix" /\ FixNext /\ UNCHANGED <<task, enrichVars, imagesVars>>
    BY <2>1, <2>3
  <2>4. CASE task = "enrich" /\ EnrichNext /\ UNCHANGED <<task, fixVars, imagesVars>>
    BY <2>1, <2>4
  <2>5. CASE UNCHANGED vars
    BY <2>1, <2>5 DEF vars
  <2>. QED  BY <2>2, <2>3, <2>4, <2>5 DEF Next
<1>. QED  BY <1>1, <1>2, PTL DEF Spec

\* The conversion of any document accounts for each of its images.
LEMMA ConvertedIsAccounted == ConvertedWhole => ImagesAccounted
<1>. SUFFICES ASSUME ConvertedWhole, conversion # NoConversion PROVE ImagesAccounted
  BY DEF ImagesAccounted
<1>. DEFINE all == Containers(upload)
            r == Deduplicated(all)
            n == DOMAIN conversion.kept
            e == [i \in n |-> conversion.images[i].duplicates_removed]
<1>1. IsDocument(upload) /\ conversion = Convert(upload)
  BY ImageDocumentsAssumption DEF ConvertedWhole
<1>2. KeptOnce(all, r)
  BY <1>1, ContainersType, DeduplicatedKeepsOnce
<1>3. conversion.kept = r.kept
  BY <1>1 DEF Convert
<1>4. \A i \in n : conversion.images[i].duplicates_removed = Duplicates(r.dups, r.kept[i].obj)
  BY <1>1, <1>3 DEF Convert
<1>5. e = [i \in DOMAIN r.kept |-> Duplicates(r.dups, r.kept[i].obj)]
  BY <1>3, <1>4
<1>. HIDE DEF all, r
<1>6. Total(e, n) = Len(r.dups)
  BY <1>2, <1>3, <1>5, DuplicatesAddUp
<1>7. Len(all) = Len(r.kept) + Len(r.dups)
  BY <1>2 DEF KeptOnce
<1>8. \A image \in ToSet(all) : \E i \in n :
        \/ conversion.kept[i] = image
        \/ IsText(PurlOf(image)) /\ PurlOf(conversion.kept[i]) = PurlOf(image)
  BY <1>2, <1>3 DEF KeptOnce
<1>9. \A i, j \in n :
        /\ IsText(PurlOf(conversion.kept[i]))
        /\ PurlOf(conversion.kept[i]) = PurlOf(conversion.kept[j])
        => i = j
  BY <1>2, <1>3 DEF KeptOnce
<1>10. Len(all) = Len(conversion.kept) + Total(e, n)
  BY <1>3, <1>6, <1>7, Zenon
<1>. HIDE DEF n, e
<1>. QED  BY <1>8, <1>9, <1>10 DEF ImagesAccounted, PurlOf, n, e, all

\* No image is lost or listed twice, and the counts of the answer add up (sbom/images_list_converter.py,
\* convert), for every document.
THEOREM ImagesAreAccounted == Spec => []ImagesAccounted
  BY ConvertedWholeInvariant, ConvertedIsAccounted, PTL

-----------------------------------------------------------------------------
(* Writing references back.                                                *)

\* New objects may be replaced again.
LEMMA NewObjectsTransitive ==
  ASSUME NEW d, NEW e, NEW g, NewObjects(d, e), NewObjects(e, g)
  PROVE  NewObjects(d, g)
<1>0. DOMAIN e.comps = DOMAIN d.comps /\ DOMAIN g.comps = DOMAIN d.comps /\ IsSequence(g.comps)
  BY DEF NewObjects
<1>1. ASSUME NEW i \in DOMAIN d.comps
      PROVE  /\ g.comps[i] = [id |-> d.comps[i].id, up |-> d.comps[i].up, dict |-> d.comps[i].dict,
                              obj |-> g.comps[i].obj]
             /\ IsObject(g.comps[i].obj) /\ OneMemberPerKey(g.comps[i].obj)
             /\ Get(g.comps[i].obj, "components") = Get(d.comps[i].obj, "components")
  <2>1. /\ e.comps[i].id = d.comps[i].id /\ e.comps[i].up = d.comps[i].up
        /\ e.comps[i].dict = d.comps[i].dict
    BY NewObjectsSame
  <2>2. Get(e.comps[i].obj, "components") = Get(d.comps[i].obj, "components")
    BY Zenon DEF NewObjects
  <2>3. g.comps[i] = [id |-> e.comps[i].id, up |-> e.comps[i].up, dict |-> e.comps[i].dict,
                      obj |-> g.comps[i].obj]
    BY <1>0 DEF NewObjects
  <2>4. /\ IsObject(g.comps[i].obj) /\ OneMemberPerKey(g.comps[i].obj)
        /\ Get(g.comps[i].obj, "components") = Get(e.comps[i].obj, "components")
    BY <1>0, Zenon DEF NewObjects
  <2>. QED  BY <2>1, <2>2, <2>3, <2>4
<1>. QED  BY <1>0, <1>1 DEF NewObjects

\* The entries of cs are components of d, each at a path of its own.
Located(d, cs) ==
  /\ IsSequence(cs) /\ Once(cs)
  /\ \A c \in ToSet(cs) : \E i \in DOMAIN d.comps : c.path = Place(d, i)
  /\ \A b, c \in ToSet(cs) : b.path = c.path => b = c

\* Every entry c for which f[c].on holds has its references written to its component.
WriteStep(f, d, c) == IF f[c].on THEN SetReferences(d, c.path, f[c].refs) ELSE d
WriteLaws == INSTANCE FoldLaws WITH Op <- WriteStep

Written(d, f, t, e) ==
  /\ e = With(d, e.comps) /\ Sound(e) /\ NewObjects(d, e)
  /\ \A i \in DOMAIN d.comps :
       /\ (\A c \in ToSet(t) : c.path = Place(d, i) => ~f[c].on) => e.comps[i].obj = d.comps[i].obj
       /\ \A c \in ToSet(t) : c.path = Place(d, i) /\ f[c].on =>
            e.comps[i].obj = Put(d.comps[i].obj, "externalReferences", ListOf(f[c].refs))

\* One entry more is written back.
LEMMA WriteOne ==
  ASSUME NEW d, Sound(d), NEW cs, Located(d, cs), NEW f, NEW t, IsSequence(t), ToSet(t) \subseteq ToSet(cs),
         NEW e, Written(d, f, t, e), NEW c \in ToSet(cs), c \notin ToSet(t), IsSequence(f[c].refs)
  PROVE  Written(d, f, Append(t, c), WriteStep(f, e, c))
<1>. DEFINE u == Append(t, c)
            n == Len(d.comps)
            g == SetReferences(e, c.path, f[c].refs)
<1>0. ToSet(u) = ToSet(t) \cup {c}
  BY AppendSequence
<1>1. /\ SoundParts(d) /\ Tree(d, n) /\ DOMAIN d.comps = 1..n /\ IsSequence(d.comps) /\ n \in Nat
  BY SoundHasParts, SequenceForm DEF SoundParts
<1>2. Sound(e) /\ NewObjects(d, e) /\ e = With(d, e.comps)
  BY DEF Written
<1>3. SameTree(d, e) /\ SoundParts(e) /\ IsSequence(e.comps) /\ DOMAIN e.comps = 1..n
  <2>1. SoundFrame(e)
    BY <1>2, SoundHasParts DEF SoundParts
  <2>2. SameTree(d, e) /\ SoundParts(e)
    BY <1>1, <1>2, <2>1, NewObjectsSound
  <2>. QED  BY <1>1, <2>2 DEF SameTree
<1>4. Tree(e, n) /\ \A i \in 1..n : Place(e, i) = Place(d, i)
  BY <1>1, <1>3, SameTreePlaces
<1>. HIDE DEF u
<1>5. CASE ~f[c].on
  <2>1. WriteStep(f, e, c) = e
    BY <1>5 DEF WriteStep
  <2>2. ASSUME NEW i \in 1..n
        PROVE  /\ (\A b \in ToSet(u) : b.path = Place(d, i) => ~f[b].on) => e.comps[i].obj = d.comps[i].obj
               /\ \A b \in ToSet(u) : b.path = Place(d, i) /\ f[b].on =>
                    e.comps[i].obj = Put(d.comps[i].obj, "externalReferences", ListOf(f[b].refs))
    <3>1. /\ (\A b \in ToSet(t) : b.path = Place(d, i) => ~f[b].on) => e.comps[i].obj = d.comps[i].obj
          /\ \A b \in ToSet(t) : b.path = Place(d, i) /\ f[b].on =>
               e.comps[i].obj = Put(d.comps[i].obj, "externalReferences", ListOf(f[b].refs))
      BY <1>1 DEF Written
    <3>. QED  BY <1>0, <1>5, <3>1
  <2>3. Written(d, f, u, e)
    BY <1>1, <1>2, <2>2 DEF Written
  <2>. QED  BY <2>1, <2>3 DEF u
<1>6. CASE f[c].on
  <2>1. WriteStep(f, e, c) = g
    BY <1>6 DEF WriteStep
  <2>2. /\ g = With(e, g.comps) /\ Sound(g) /\ NewObjects(e, g)
        /\ \A i \in 1..n : g.comps[i].obj =
             IF e.comps[i].id = At(e, c.path) THEN Put(e.comps[i].obj, "externalReferences", ListOf(f[c].refs))
             ELSE e.comps[i].obj
    BY <1>2, <1>3, SetReferencesEffect
  <2>3. PICK k \in 1..n : c.path = Place(d, k)
    BY <1>1 DEF Located
  <2>4. At(e, c.path) = e.comps[k].id
    BY <1>3, <1>4, <2>3, AtPlace
  <2>5. \A i \in 1..n : e.comps[i].id = At(e, c.path) <=> i = k
    BY <1>4, <2>4 DEF Tree
  <2>6. \A i \in 1..n : c.path = Place(d, i) <=> i = k
    BY <1>1, <2>3, PlaceInjective
  <2>. HIDE DEF g
  <2>7. ASSUME NEW i \in 1..n
        PROVE  /\ (\A b \in ToSet(u) : b.path = Place(d, i) => ~f[b].on) => g.comps[i].obj = d.comps[i].obj
               /\ \A b \in ToSet(u) : b.path = Place(d, i) /\ f[b].on =>
                    g.comps[i].obj = Put(d.comps[i].obj, "externalReferences", ListOf(f[b].refs))
    <3>1. /\ (\A b \in ToSet(t) : b.path = Place(d, i) => ~f[b].on) => e.comps[i].obj = d.comps[i].obj
          /\ \A b \in ToSet(t) : b.path = Place(d, i) /\ f[b].on =>
               e.comps[i].obj = Put(d.comps[i].obj, "externalReferences", ListOf(f[b].refs))
      BY <1>1 DEF Written
    <3>2. CASE i # k
      <4>1. g.comps[i].obj = e.comps[i].obj /\ c.path # Place(d, i)
        BY <2>2, <2>5, <2>6, <3>2
      <4>. QED  BY <1>0, <3>1, <4>1
    <3>3. CASE i = k
      <4>1. g.comps[i].obj = Put(e.comps[i].obj, "externalReferences", ListOf(f[c].refs))
        BY <2>2, <2>5, <3>3
      <4>2. \A b \in ToSet(t) : b.path # Place(d, i)
        BY <2>3, <3>3 DEF Located
      <4>3. e.comps[i].obj = d.comps[i].obj
        BY <3>1, <4>2
      <4>4. c.path = Place(d, i)
        BY <2>3, <3>3
      <4>. QED  BY <1>0, <1>6, <4>1, <4>2, <4>3, <4>4
    <3>. QED  BY <3>2, <3>3
  <2>8. NewObjects(d, g)
    BY <1>2, <2>2, NewObjectsTransitive
  <2>9. g = With(d, g.comps)
    <3>. DEFINE a == e.comps
                b == g.comps
    <3>1. e = With(d, a) /\ g = With(e, b)
      BY <1>2, <2>2
    <3>. HIDE DEF a, b
    <3>2. g = With(d, b)
      BY <3>1 DEF With
    <3>. QED  BY <3>2 DEF b
  <2>10. Written(d, f, u, g)
    BY <1>1, <2>2, <2>7, <2>8, <2>9 DEF Written
  <2>. QED  BY <2>1, <2>10 DEF u
<1>. QED  BY <1>5, <1>6

\* Writing the references of one entry after another puts each in its own component.
LEMMA WriteFold ==
  ASSUME NEW d, Sound(d), NEW cs, Located(d, cs), NEW f, \A c \in ToSet(cs) : IsSequence(f[c].refs)
  PROVE  Written(d, f, cs, WriteLaws!Folded(f, d, cs))
<1>. DEFINE X == ToSet(cs)
            C(t) == WriteLaws!Folded(f, d, t)
            A == {t \in Seq(X) : Once(t) => Written(d, f, t, C(t))}
<1>1. <<>> \in A
  <2>1. C(<<>>) = d
    BY WriteLaws!FoldEmpty
  <2>2. d = With(d, d.comps) /\ NewObjects(d, d)
    BY SoundHasParts, NewObjectsReflexive
  <2>3. Written(d, f, <<>>, d)
    BY <2>2, EmptySet DEF Written
  <2>. QED  BY <2>1, <2>3
<1>2. ASSUME NEW t \in Seq(X), NEW c \in X, t \in A PROVE Append(t, c) \in A
  <2>. DEFINE n == Len(t)
              u == Append(t, c)
  <2>1. /\ n \in Nat /\ DOMAIN u = 1..n + 1 /\ DOMAIN t = 1..n
        /\ \A i \in 1..n : t[i] = u[i]
        /\ u[n + 1] = c /\ u \in Seq(X)
    OBVIOUS
  <2>. HIDE DEF n, u
  <2>2. C(u) = WriteStep(f, C(t), u[n + 1])
    BY <2>1, WriteLaws!FoldNext
  <2>3. ASSUME Once(u) PROVE Written(d, f, u, C(u))
    <3>1. Once(t) /\ c \notin ToSet(t)
      BY <2>3, OnceFront DEF u
    <3>2. IsSequence(t) /\ ToSet(t) \subseteq X
      BY SequenceOf
    <3>3. Written(d, f, t, C(t))
      BY <1>2, <3>1
    <3>. HIDE DEF C
    <3>4. Written(d, f, Append(t, c), WriteStep(f, C(t), c))
      BY <3>1, <3>2, <3>3, WriteOne
    <3>. QED  BY <2>1, <2>2, <3>4 DEF u
  <2>. QED  BY <2>1, <2>3 DEF u
<1>. HIDE DEF A
<1>3. Seq(X) \subseteq A
  BY <1>1, <1>2, SequenceInduction
<1>4. cs \in Seq(X) /\ Once(cs)
  BY DEF Located, IsSequence
<1>. QED  BY <1>3, <1>4 DEF A

\* Both write back and enrichment are such folds.
SyncStep(f, d, c) == WriteBack(d, c)
SyncLaws == INSTANCE FoldLaws WITH Op <- SyncStep
FoundStep(f, d, c) == EnrichFound(d, c)
FoundLaws == INSTANCE FoldLaws WITH Op <- FoundStep

SyncPlan(cs) == [c \in ToSet(cs) |-> [on |-> ~c.ignored, refs |-> c.existing_references]]
FoundPlan(cs) ==
  [c \in ToSet(cs) |-> [on |-> c.needs_enrichment /\ SafeKey(c.purl) \in resolved,
                        refs |-> Append(c.existing_references, <<"vcs", RepositoryUrl[SafeKey(c.purl)]>>)]]

\* After a validation each component has the references of its entry (sbom_enrichment.py, process).
LEMMA SyncBackWrites ==
  ASSUME NEW d, Sound(d), NEW cs, Located(d, cs), \A c \in ToSet(cs) : IsSequence(c.existing_references)
  PROVE  Written(d, SyncPlan(cs), cs, SyncBack(d, cs))
<1>. DEFINE X == ToSet(cs)
            f == SyncPlan(cs)
            C(t) == SyncLaws!Folded(0, d, t)
            W(t) == WriteLaws!Folded(f, d, t)
            A == {t \in Seq(X) : C(t) = W(t)}
<1>1. SyncBack(d, cs) = C(cs)
  BY DEF SyncBack, FoldLeft, MapThenFoldSet, SyncLaws!Folded, SyncLaws!OnSets,
         SyncLaws!Last, Max, SyncStep
<1>2. <<>> \in A
  BY SyncLaws!FoldEmpty, WriteLaws!FoldEmpty
<1>3. ASSUME NEW t \in Seq(X), NEW c \in X, t \in A PROVE Append(t, c) \in A
  <2>. DEFINE n == Len(t)
              u == Append(t, c)
  <2>1. /\ n \in Nat /\ DOMAIN u = 1..n + 1 /\ DOMAIN t = 1..n
        /\ \A i \in 1..n : t[i] = u[i]
        /\ u[n + 1] = c /\ u \in Seq(X)
    OBVIOUS
  <2>2. f[c].on = ~c.ignored /\ f[c].refs = c.existing_references
    BY DEF SyncPlan
  <2>. HIDE DEF n, u, f
  <2>3. C(u) = SyncStep(0, C(t), u[n + 1])
    <3>1. DOMAIN t = 1..n /\ DOMAIN u = 1..n + 1 /\ n \in Nat
      BY <2>1
    <3>2. \A i \in 1..n : t[i] = u[i]
      BY <2>1
    <3>. QED  BY ONLY <3>1, <3>2, SyncLaws!FoldNext
  <2>4. W(u) = WriteStep(f, W(t), u[n + 1])
    BY <2>1, WriteLaws!FoldNext
  <2>5. C(t) = W(t)
    BY <1>3
  <2>. HIDE DEF C, W
  <2>6. SyncStep(0, W(t), c) = WriteStep(f, W(t), c)
    BY <2>2, Zenon DEF SyncStep, WriteBack, WriteStep
  <2>. QED  BY <2>1, <2>3, <2>4, <2>5, <2>6 DEF u
<1>. HIDE DEF A
<1>4. Seq(X) \subseteq A
  BY <1>2, <1>3, SequenceInduction
<1>5. cs \in Seq(X)
  BY DEF Located, IsSequence
<1>6. C(cs) = W(cs)
  BY <1>4, <1>5 DEF A
<1>7. \A c \in ToSet(cs) : IsSequence(f[c].refs)
  BY DEF SyncPlan
<1>. HIDE DEF f, C
<1>8. Written(d, f, cs, W(cs))
  BY <1>7, WriteFold
<1>. QED  BY <1>1, <1>6, <1>8 DEF f

\* The enrichment adds the reference it found to each component that needs one, and to no other.
LEMMA EnrichSbomWrites ==
  ASSUME NEW d, Sound(d), NEW cs, Located(d, cs), \A c \in ToSet(cs) : IsSequence(c.existing_references)
  PROVE  Written(d, FoundPlan(cs), cs, EnrichSbom(d, cs))
<1>. DEFINE X == ToSet(cs)
            f == FoundPlan(cs)
            C(t) == FoundLaws!Folded(0, d, t)
            W(t) == WriteLaws!Folded(f, d, t)
            A == {t \in Seq(X) : C(t) = W(t)}
<1>1. EnrichSbom(d, cs) = C(cs)
  BY DEF EnrichSbom, FoldLeft, MapThenFoldSet, FoundLaws!Folded, FoundLaws!OnSets,
         FoundLaws!Last, Max, FoundStep
<1>2. <<>> \in A
  BY FoundLaws!FoldEmpty, WriteLaws!FoldEmpty
<1>3. ASSUME NEW t \in Seq(X), NEW c \in X, t \in A PROVE Append(t, c) \in A
  <2>. DEFINE n == Len(t)
              u == Append(t, c)
  <2>1. /\ n \in Nat /\ DOMAIN u = 1..n + 1 /\ DOMAIN t = 1..n
        /\ \A i \in 1..n : t[i] = u[i]
        /\ u[n + 1] = c /\ u \in Seq(X)
    OBVIOUS
  <2>2. /\ f[c].on = (c.needs_enrichment /\ SafeKey(c.purl) \in resolved)
        /\ f[c].refs = Append(c.existing_references, <<"vcs", RepositoryUrl[SafeKey(c.purl)]>>)
    BY DEF FoundPlan
  <2>. HIDE DEF n, u, f
  <2>3. C(u) = FoundStep(0, C(t), u[n + 1])
    BY <2>1, FoundLaws!FoldNext
  <2>4. W(u) = WriteStep(f, W(t), u[n + 1])
    BY <2>1, WriteLaws!FoldNext
  <2>5. C(t) = W(t)
    BY <1>3
  <2>. HIDE DEF C, W
  <2>6. FoundStep(0, W(t), c) = WriteStep(f, W(t), c)
    BY <2>2, Zenon DEF FoundStep, EnrichFound, EnrichOne, WriteStep
  <2>. QED  BY <2>1, <2>3, <2>4, <2>5, <2>6 DEF u
<1>. HIDE DEF A
<1>4. Seq(X) \subseteq A
  BY <1>2, <1>3, SequenceInduction
<1>5. cs \in Seq(X)
  BY DEF Located, IsSequence
<1>6. C(cs) = W(cs)
  BY <1>4, <1>5 DEF A
<1>7. \A c \in ToSet(cs) : IsSequence(f[c].refs)
  <2>. TAKE c \in ToSet(cs)
  <2>1. f[c].refs = Append(c.existing_references, <<"vcs", RepositoryUrl[SafeKey(c.purl)]>>)
    BY DEF FoundPlan
  <2>. QED  BY <2>1, AppendSequence
<1>. HIDE DEF f, C
<1>8. Written(d, f, cs, W(cs))
  BY <1>7, WriteFold
<1>. QED  BY <1>1, <1>6, <1>8 DEF f

\* Counting up the version changes the version alone.
LEMMA BumpVersionEffect ==
  ASSUME NEW d, Sound(d)
  PROVE  LET e == BumpVersion(d)
         IN Sound(e) /\ e.comps = d.comps /\ e.meta = d.meta /\ e.main = d.main
            /\ \E x : e.root = Put(d.root, "version", [kind |-> "int", items |-> <<x>>])
<1>. DEFINE e == BumpVersion(d)
            v == Get(d.root, "version")
            x == CASE v.kind = "absent" -> 0 [] v.kind = "int" -> v.items[1] [] v.kind = "bool" -> 1
            w == [kind |-> "int", items |-> <<x + 1>>]
            r == Put(d.root, "version", w)
<1>1. d = With(d, d.comps) /\ SoundParts(d)
  BY SoundHasParts
<1>2. e = [d EXCEPT !.root = r]
  BY DEF BumpVersion
<1>3. IsValue(w)
  <2>. DEFINE y == x + 1
  <2>. HIDE DEF x, y
  <2>1. <<y>> \in Seq({y})
    OBVIOUS
  <2>2. IsSequence(<<y>>)
    BY <2>1, SequenceOf, Zenon
  <2>3. IsValue([kind |-> "int", items |-> <<y>>])
    BY <2>2 DEF IsValue, IsList
  <2>. QED  BY <2>3 DEF y
<1>. HIDE DEF w
<1>4. IsObject(r) /\ OneMemberPerKey(r)
  BY <1>1, <1>3, PutObject DEF SoundParts, SoundFrame
<1>. HIDE DEF r, e
<1>5. e = [root |-> r, meta |-> d.meta, main |-> d.main, comps |-> d.comps]
  BY <1>1, <1>2 DEF With
<1>6. e.root = r /\ e.meta = d.meta /\ e.main = d.main /\ e.comps = d.comps
  BY <1>5
<1>7. SoundFrame(e)
  BY <1>1, <1>4, <1>6 DEF SoundParts, SoundFrame
<1>8. SoundParts(e)
  BY <1>1, <1>6, <1>7 DEF SoundParts, Tree, Opens
<1>9. e = With(e, e.comps)
  BY <1>5, <1>6 DEF With
<1>10. Sound(e)
  BY <1>8, <1>9, PartsAreSound
<1>. QED  BY <1>6, <1>10, Zenon DEF e, r, w

-----------------------------------------------------------------------------
(* Removing several components.                                            *)

\* A document without one of its leaves is sound.
LEMMA WithoutSound ==
  ASSUME NEW d, Sound(d), NEW n, Tree(d, n), NEW r \in 1..n, Leaf(d, n, r), NEW e, e = With(d, e.comps),
         Without1(d, n, r, e)
  PROVE  Sound(e)
<1>1. SoundParts(d) /\ DOMAIN d.comps = 1..n /\ n \in Nat /\ IsSequence(e.comps) /\ DOMAIN e.comps = 1..n - 1
  BY SoundHasParts DEF Tree, Without1
<1>2. \A k \in 1..n - 1 : e.comps[k] = d.comps[Skip(r, k)] /\ Skip(r, k) \in 1..n
  BY <1>1, Skips DEF Without1
<1>3. Len(e.comps) = n - 1
  <2>1. Len(e.comps) \in Nat /\ 1..Len(e.comps) = 1..n - 1 /\ n - 1 \in Nat
    BY <1>1, SequenceForm
  <2>2. \A m, k \in Nat : 1..m = 1..k => m = k
    <3>. SUFFICES ASSUME NEW m \in Nat, NEW k \in Nat, 1..m = 1..k PROVE ~(m < k) /\ ~(k < m)
      OBVIOUS
    <3>1. m + 1 \in 1..m \/ k < m + 1
      OBVIOUS
    <3>2. k + 1 \in 1..k \/ m < k + 1
      OBVIOUS
    <3>. QED  BY <3>1, <3>2
  <2>. QED  BY <2>1, <2>2
<1>4. Tree(e, Len(e.comps))
  BY <1>3, WithoutTree
<1>5. \A k \in DOMAIN e.comps : SoundComponent(e.comps[k])
  BY <1>1, <1>2 DEF SoundParts
<1>6. Opens(e)
  BY <1>1, <1>2, ZenonT(40) DEF SoundParts, Opens
<1>7. SoundFrame(e) /\ e = With(e, e.comps)
  BY <1>1 DEF With, SoundParts, SoundFrame
<1>8. SoundParts(e)
  BY <1>1, <1>4, <1>5, <1>6, <1>7 DEF SoundParts
<1>. QED  BY <1>7, <1>8, PartsAreSound

RemoveStep(x, d, c) == Pop(d, c.path)
RemoveLaws == INSTANCE FoldLaws WITH Op <- RemoveStep

\* The entries of t are leaves of d, the last path first.
Removable(d, t) ==
  /\ IsSequence(t) /\ Descends(t)
  /\ \A c \in ToSet(t) : \E k \in DOMAIN d.comps : c.path = Place(d, k) /\ Leaf(d, Len(d.comps), k)

Taken(t, d, k) == \E c \in ToSet(t) : c.path = Place(d, k)

\* What is left of d when the entries of t are removed.
Gone(d, t, e) ==
  /\ e = With(d, e.comps) /\ Sound(e)
  /\ \A k \in DOMAIN d.comps : ~Taken(t, d, k) =>
       \E j \in DOMAIN e.comps :
         /\ e.comps[j] = d.comps[k]
         /\ (\A c \in ToSet(t) : LexLess(Place(d, k), c.path)) => Place(e, j) = Place(d, k)
  /\ \A j \in DOMAIN e.comps : \E k \in DOMAIN d.comps : e.comps[j] = d.comps[k] /\ ~Taken(t, d, k)

\* Removing a leaf after the leaves with later paths: its path still leads to it.
LEMMA RemoveOne ==
  ASSUME NEW d, Sound(d), NEW t, IsSequence(t), NEW e, Gone(d, t, e), NEW c, NEW k \in DOMAIN d.comps,
         c.path = Place(d, k), Leaf(d, Len(d.comps), k), \A b \in ToSet(t) : LexLess(c.path, b.path)
  PROVE  Gone(d, Append(t, c), Pop(e, c.path))
<1>. DEFINE u == Append(t, c)
            n == Len(d.comps)
            m == Len(e.comps)
            g == Pop(e, c.path)
<1>0. ToSet(u) = ToSet(t) \cup {c}
  BY AppendSequence
<1>. HIDE DEF u
<1>1. Tree(d, n) /\ DOMAIN d.comps = 1..n /\ IsSequence(d.comps) /\ n \in Nat
  BY SoundHasParts, SequenceForm DEF SoundParts
<1>2. Sound(e) /\ e = With(d, e.comps) /\ e = With(e, e.comps)
  BY SoundHasParts DEF Gone
<1>3. Tree(e, m) /\ DOMAIN e.comps = 1..m /\ IsSequence(e.comps) /\ m \in Nat
  BY <1>2, SoundHasParts, SequenceForm DEF SoundParts
<1>4. c.path \in Seq(Nat)
  BY <1>1, PlaceType
<1>5. ~Taken(t, d, k)
  BY <1>4, LexIrreflexive DEF Taken
<1>6. PICK r \in 1..m : e.comps[r] = d.comps[k] /\ Place(e, r) = Place(d, k)
  BY <1>3, <1>5, Zenon DEF Gone
<1>7. Leaf(e, m, r)
  <2>. SUFFICES ASSUME NEW i \in 1..m PROVE e.comps[i].up # e.comps[r].id
    BY DEF Leaf
  <2>1. PICK j \in DOMAIN d.comps : e.comps[i] = d.comps[j]
    BY <1>3, Zenon DEF Gone
  <2>. QED  BY <1>1, <1>6, <2>1 DEF Leaf
<1>8. Without1(e, m, r, g) /\ g = With(e, g.comps)
  BY <1>2, <1>3, <1>6, <1>7, PopRemoves
<1>. HIDE DEF g, m, n
<1>9. Sound(g)
  BY <1>2, <1>3, <1>7, <1>8, WithoutSound
<1>10. g = With(d, g.comps)
  <2>. DEFINE a == e.comps
              b == g.comps
  <2>1. e = With(d, a) /\ g = With(e, b)
    BY <1>2, <1>8
  <2>. HIDE DEF a, b
  <2>2. g = With(d, b)
    BY <2>1 DEF With
  <2>. QED  BY <2>2 DEF b
<1>11. /\ DOMAIN g.comps = 1..m - 1
       /\ \A i \in 1..m - 1 : g.comps[i] = e.comps[Skip(r, i)] /\ Skip(r, i) \in 1..m /\ Skip(r, i) # r
  BY <1>3, <1>8, Skips DEF Without1
<1>12. ASSUME NEW h \in DOMAIN d.comps, ~Taken(u, d, h)
       PROVE  \E j \in DOMAIN g.comps :
                /\ g.comps[j] = d.comps[h]
                /\ (\A b \in ToSet(u) : LexLess(Place(d, h), b.path)) => Place(g, j) = Place(d, h)
  <2>1. ~Taken(t, d, h) /\ c.path # Place(d, h)
    BY <1>0, <1>12 DEF Taken
  <2>2. PICK i \in 1..m : /\ e.comps[i] = d.comps[h]
                          /\ (\A b \in ToSet(t) : LexLess(Place(d, h), b.path)) => Place(e, i) = Place(d, h)
    BY <1>3, <2>1, Zenon DEF Gone
  <2>3. h # k /\ d.comps[h].id # d.comps[k].id
    BY <1>1, <2>1 DEF Tree
  <2>4. i # r
    BY <1>6, <2>2, <2>3
  <2>5. PICK j \in 1..m - 1 : Skip(r, j) = i
    <3>. m \in Nat
      BY <1>3
    <3>. QED  BY <2>4, SkipReaches, Zenon
  <2>6. g.comps[j] = d.comps[h]
    BY <1>11, <2>2, <2>5
  <2>7. ASSUME \A b \in ToSet(u) : LexLess(Place(d, h), b.path) PROVE Place(g, j) = Place(d, h)
    <3>1. LexLess(Place(d, h), Place(d, k)) /\ Place(e, i) = Place(d, h)
      BY <1>0, <2>2, <2>7
    <3>2. LexLess(Place(e, Skip(r, j)), Place(e, r))
      BY <1>6, <2>5, <3>1
    <3>3. Place(g, j) = Place(e, Skip(r, j))
      BY <1>3, <1>7, <1>8, <3>2, RemovalKeepsEarlier
    <3>. QED  BY <2>5, <3>1, <3>3
  <2>. QED  BY <1>11, <2>6, <2>7
<1>13. ASSUME NEW j \in 1..m - 1
       PROVE  \E h \in DOMAIN d.comps : g.comps[j] = d.comps[h] /\ ~Taken(u, d, h)
  <2>1. g.comps[j] = e.comps[Skip(r, j)] /\ Skip(r, j) \in 1..m /\ Skip(r, j) # r
    BY <1>11
  <2>2. PICK h \in DOMAIN d.comps : e.comps[Skip(r, j)] = d.comps[h] /\ ~Taken(t, d, h)
    BY <1>3, <2>1 DEF Gone
  <2>3. h # k
    <3>. SUFFICES ASSUME h = k PROVE FALSE
      OBVIOUS
    <3>1. e.comps[Skip(r, j)].id = e.comps[r].id
      BY <1>6, <2>2
    <3>. QED  BY <1>3, <2>1, <3>1 DEF Tree
  <2>4. c.path # Place(d, h)
    BY <1>1, <2>3, PlaceInjective
  <2>5. ~Taken(u, d, h)
    BY <1>0, <2>2, <2>4 DEF Taken
  <2>. QED  BY <2>1, <2>2, <2>5
<1>14. Gone(d, u, g)
  BY <1>9, <1>10, <1>11, <1>12, <1>13, Zenon DEF Gone
<1>. QED  BY <1>14 DEF u, g

\* In a descending list all the others have later paths than the last.
LEMMA DescendsFront ==
  ASSUME NEW X, NEW t \in Seq(X), NEW c \in X, Descends(Append(t, c))
  PROVE  Descends(t) /\ \A b \in ToSet(t) : LexLess(c.path, b.path)
<1>. DEFINE u == Append(t, c)
            n == Len(t)
<1>1. /\ n \in Nat /\ DOMAIN t = 1..n /\ DOMAIN u = 1..n + 1 /\ u[n + 1] = c /\ n + 1 \in 1..n + 1
      /\ \A i \in 1..n : u[i] = t[i] /\ i \in 1..n + 1 /\ i < n + 1
  OBVIOUS
<1>. HIDE DEF u, n
<1>2. Descends(t)
  BY <1>1 DEF Descends, u
<1>3. \A i \in 1..n : LexLess(c.path, t[i].path)
  BY <1>1 DEF Descends, u
<1>. QED  BY <1>1, <1>2, <1>3, InSet

\* Removing leaves from the last path to the first removes those leaves and nothing else
\* (sbom/remover.py, remove_unresolved_components): no removal shifts a path still to be removed.
LEMMA RemoveComponentsRemoves ==
  ASSUME NEW d, Sound(d), NEW cs, Removable(d, cs)
  PROVE  Gone(d, cs, RemoveComponents(d, cs))
<1>. DEFINE X == ToSet(cs)
            C(t) == RemoveLaws!Folded(0, d, t)
            A == {t \in Seq(X) : Descends(t) => Gone(d, t, C(t))}
<1>1. RemoveComponents(d, cs) = C(cs)
  BY DEF RemoveComponents, FoldLeft, MapThenFoldSet, RemoveLaws!Folded, RemoveLaws!OnSets,
         RemoveLaws!Last, Max, RemoveStep
<1>2. <<>> \in A
  <2>1. C(<<>>) = d
    BY RemoveLaws!FoldEmpty
  <2>2. d = With(d, d.comps)
    BY SoundHasParts
  <2>3. Gone(d, <<>>, d)
    BY <2>2, EmptySet DEF Gone, Taken
  <2>. QED  BY <2>1, <2>3
<1>3. ASSUME NEW t \in Seq(X), NEW c \in X, t \in A PROVE Append(t, c) \in A
  <2>. DEFINE n == Len(t)
              u == Append(t, c)
  <2>1. /\ n \in Nat /\ DOMAIN u = 1..n + 1 /\ DOMAIN t = 1..n
        /\ \A i \in 1..n : t[i] = u[i]
        /\ u[n + 1] = c /\ u \in Seq(X)
    OBVIOUS
  <2>. HIDE DEF n, u
  <2>2. C(u) = RemoveStep(0, C(t), u[n + 1])
    BY <2>1, RemoveLaws!FoldNext
  <2>3. ASSUME Descends(u) PROVE Gone(d, u, C(u))
    <3>1. Descends(t) /\ \A b \in ToSet(t) : LexLess(c.path, b.path)
      BY <2>3, DescendsFront DEF u
    <3>2. IsSequence(t) /\ ToSet(t) \subseteq X
      BY SequenceOf
    <3>3. Gone(d, t, C(t))
      BY <1>3, <3>1
    <3>4. PICK k \in DOMAIN d.comps : c.path = Place(d, k) /\ Leaf(d, Len(d.comps), k)
      BY DEF Removable
    <3>. HIDE DEF C
    <3>5. Gone(d, Append(t, c), Pop(C(t), c.path))
      BY <3>1, <3>2, <3>3, <3>4, RemoveOne
    <3>. QED  BY <2>1, <2>2, <3>5 DEF u, RemoveStep
  <2>. QED  BY <2>1, <2>3 DEF u
<1>. HIDE DEF A
<1>4. Seq(X) \subseteq A
  BY <1>2, <1>3, SequenceInduction
<1>5. cs \in Seq(X) /\ Descends(cs)
  BY DEF Removable, IsSequence
<1>. QED  BY <1>1, <1>4, <1>5 DEF A

-----------------------------------------------------------------------------
(* What is collected.                                                      *)

RefItems(d, k) == Get(d.comps[k].obj, "externalReferences").items

\* A SbomComponent.
IsEntry(c) ==
  /\ DOMAIN c = {"path", "purl", "needs_enrichment", "has_subcomponents", "existing_references", "ignored"}
  /\ c = [f \in DOMAIN c |-> c[f]]

\* c was collected for the component k of d.
Entry(d, k, c) ==
  /\ IsEntry(c)
  /\ c.path = Place(d, k) /\ c.purl = Purl(d.comps[k]) /\ HasPurl(d.comps[k])
  /\ c.has_subcomponents = ~IsLeaf(d, d.comps[k])
  /\ c.ignored \in BOOLEAN /\ c.needs_enrichment \in BOOLEAN /\ (c.ignored => ~c.needs_enrichment)
  /\ IsSequence(c.existing_references)

\* ... and its references were not changed yet.
Fresh(d, k, c) ==
  /\ c.existing_references = RefItems(d, k)
  /\ ~c.ignored => c.needs_enrichment = ~HasSourceReference(d.comps[k].obj)
  /\ d.comps[k] \in ToSet(Reached(d))

EntriesOf(d, cs) ==
  /\ IsSequence(cs)
  /\ \A i, j \in DOMAIN cs : cs[i].path = cs[j].path => i = j
  /\ \A i \in DOMAIN cs : \E k \in DOMAIN d.comps : Entry(d, k, cs[i])

\* Every entry has a component of its own.
LEMMA EntriesLocated ==
  ASSUME NEW d, NEW cs, EntriesOf(d, cs)
  PROVE  Located(d, cs) /\ \A c \in ToSet(cs) : \E k \in DOMAIN d.comps : Entry(d, k, c)
<1>1. IsSequence(cs) /\ \A i, j \in DOMAIN cs : cs[i].path = cs[j].path => i = j
  BY DEF EntriesOf
<1>2. \A c \in ToSet(cs) : \E k \in DOMAIN d.comps : Entry(d, k, c)
  BY InSet DEF EntriesOf
<1>3. Once(cs)
  BY <1>1 DEF Once
<1>4. \A b, c \in ToSet(cs) : b.path = c.path => b = c
  BY <1>1, InSet
<1>5. \A c \in ToSet(cs) : \E k \in DOMAIN d.comps : c.path = Place(d, k)
  BY <1>2 DEF Entry
<1>. QED  BY <1>1, <1>2, <1>3, <1>4, <1>5 DEF Located

\* The collector makes one entry for each component with a purl, with its references.
LEMMA CollectedEntries ==
  ASSUME NEW d, Sound(d)
  PROVE  LET cs == CollectComponents(d)
         IN /\ EntriesOf(d, cs)
            /\ \A i \in DOMAIN cs : \E k \in DOMAIN d.comps :
                 Entry(d, k, cs[i]) /\ Fresh(d, k, cs[i]) /\ cs[i].ignored = FALSE
<1>. DEFINE taken == Only(Reached(d), {c \in ToSet(d.comps) : HasPurl(c)})
            cs == CollectComponents(d)
            n == Len(d.comps)
            m == Len(taken)
<1>1. SoundParts(d) /\ IsSequence(d.comps) /\ Tree(d, n) /\ DOMAIN d.comps = 1..n
  BY SoundHasParts, Zenon DEF SoundParts, Tree
<1>2. Once(d.comps)
  BY <1>1 DEF Once, Tree
<1>3. /\ IsSequence(Reached(d)) /\ Once(Reached(d)) /\ ToSet(Reached(d)) \in SUBSET ToSet(d.comps)
  BY <1>1, <1>2, OnlySequence, OnlyOnce DEF Reached
<1>4. /\ IsSequence(taken) /\ Once(taken)
      /\ \A c \in ToSet(taken) : c \in ToSet(Reached(d)) /\ c \in ToSet(d.comps) /\ HasPurl(c)
  BY <1>3, OnlySequence, OnlyOnce
<1>5. m \in Nat /\ DOMAIN taken = 1..m /\ \A i \in 1..m : taken[i] \in ToSet(taken)
  BY <1>4, SequenceForm, Zenon
<1>6. cs = [i \in 1..m |->
              [path |-> Path(d, taken[i]), purl |-> Purl(taken[i]),
               needs_enrichment |-> ~HasSourceReference(taken[i].obj),
               has_subcomponents |-> ~IsLeaf(d, taken[i]),
               existing_references |-> Get(taken[i].obj, "externalReferences").items,
               ignored |-> FALSE]]
  BY <1>5 DEF CollectComponents
<1>. HIDE DEF taken, cs, m
<1>7. IsSequence(cs) /\ DOMAIN cs = 1..m
  <2>. cs = [i \in 1..m |-> cs[i]]
    BY <1>6
  <2>. QED  BY <1>5, FunctionSequence
<1>8. ASSUME NEW i \in 1..m, NEW k \in 1..n, taken[i] = d.comps[k]
      PROVE  Entry(d, k, cs[i]) /\ Fresh(d, k, cs[i]) /\ cs[i].ignored = FALSE
  <2>. DEFINE c == cs[i]
              o == d.comps[k].obj
              h == HasSourceReference(o)
              l == IsLeaf(d, d.comps[k])
  <2>1. HasPurl(d.comps[k]) /\ d.comps[k] \in ToSet(Reached(d))
    BY <1>4, <1>5, <1>8
  <2>2. c = [path |-> Place(d, k), purl |-> Purl(d.comps[k]), needs_enrichment |-> ~h,
             has_subcomponents |-> ~l, existing_references |-> RefItems(d, k), ignored |-> FALSE]
    BY <1>6, <1>8, Zenon DEF Place, RefItems
  <2>3. IsSequence(RefItems(d, k))
    <3>. IsObject(o)
      BY <1>1, Zenon DEF SoundParts, SoundComponent, IsComponent
    <3>1. IsValue(Get(o, "externalReferences"))
      BY GetValue
    <3>. QED  BY <3>1 DEF IsValue, RefItems
  <2>4. h \in BOOLEAN
    BY DEF HasSourceReference
  <2>. HIDE DEF c, h, l
  <2>5. /\ c.path = Place(d, k) /\ c.purl = Purl(d.comps[k]) /\ c.needs_enrichment = ~h
        /\ c.has_subcomponents = ~l /\ c.existing_references = RefItems(d, k) /\ c.ignored = FALSE
    BY <2>2
  <2>6. IsEntry(c)
    BY <2>2 DEF IsEntry
  <2>7. Entry(d, k, c)
    BY <2>1, <2>3, <2>4, <2>5, <2>6, Zenon DEF Entry, l
  <2>8. Fresh(d, k, c)
    BY <2>1, <2>5 DEF Fresh, h
  <2>. QED  BY <2>5, <2>7, <2>8 DEF c
<1>9. \A i \in 1..m : \E k \in 1..n : taken[i] = d.comps[k]
  BY <1>1, <1>4, <1>5, InSet
<1>10. ASSUME NEW i \in 1..m, NEW j \in 1..m, cs[i].path = cs[j].path PROVE i = j
  <2>1. PICK k \in 1..n : taken[i] = d.comps[k]
    BY <1>9
  <2>2. PICK l \in 1..n : taken[j] = d.comps[l]
    BY <1>9
  <2>3. Entry(d, k, cs[i]) /\ Entry(d, l, cs[j])
    BY <1>8, <2>1, <2>2, Zenon
  <2>4. k = l
    BY <1>1, <1>10, <2>3, PlaceInjective, Zenon DEF Entry
  <2>. QED  BY <1>4, <1>5, <2>1, <2>2, <2>4 DEF Once
<1>11. \A i \in 1..m : \E k \in 1..n : Entry(d, k, cs[i]) /\ Fresh(d, k, cs[i]) /\ cs[i].ignored = FALSE
  BY <1>8, <1>9, Zenon
<1>12. EntriesOf(d, cs)
  BY <1>1, <1>7, <1>10, <1>11 DEF EntriesOf
<1>. QED  BY <1>1, <1>7, <1>11, <1>12 DEF cs

-----------------------------------------------------------------------------
(* The entries through the stages of the job.                              *)

\* e is the entry c after a stage, with what a stage never changes.
SameEntry(c, e) ==
  /\ IsEntry(e) /\ e.path = c.path /\ e.purl = c.purl /\ e.has_subcomponents = c.has_subcomponents

\* An entry that is ignored.
LEMMA EntryIgnored ==
  ASSUME NEW c, IsEntry(c)
  PROVE  LET e == [c EXCEPT !.ignored = TRUE, !.needs_enrichment = FALSE]
         IN /\ SameEntry(c, e) /\ e.existing_references = c.existing_references
            /\ e.ignored = TRUE /\ e.needs_enrichment = FALSE
  BY Zenon DEF IsEntry, SameEntry

\* An entry that gets other references.
LEMMA EntryRefers ==
  ASSUME NEW c, IsEntry(c), NEW refs, NEW need
  PROVE  LET e == [c EXCEPT !.existing_references = refs, !.needs_enrichment = need]
         IN /\ SameEntry(c, e) /\ e.ignored = c.ignored
            /\ e.existing_references = refs /\ e.needs_enrichment = need
  BY Zenon DEF IsEntry, SameEntry

\* A changed entry is still the entry of its component.
LEMMA EntryStays ==
  ASSUME NEW d, NEW k, NEW c, Entry(d, k, c), NEW e, SameEntry(c, e),
         e.ignored \in BOOLEAN, e.needs_enrichment \in BOOLEAN, e.ignored => ~e.needs_enrichment,
         IsSequence(e.existing_references)
  PROVE  Entry(d, k, e)
  BY DEF Entry, SameEntry

\* A stage that changes every entry in this way keeps the entries.
LEMMA EntriesStay ==
  ASSUME NEW d, NEW cs, EntriesOf(d, cs), NEW es, IsSequence(es), DOMAIN es = DOMAIN cs,
         \A i \in DOMAIN cs : /\ SameEntry(cs[i], es[i]) /\ es[i].ignored \in BOOLEAN
                              /\ es[i].needs_enrichment \in BOOLEAN
                              /\ es[i].ignored => ~es[i].needs_enrichment
                              /\ IsSequence(es[i].existing_references)
  PROVE  EntriesOf(d, es)
<1>2. IsSequence(es) /\ DOMAIN es = DOMAIN cs
  OBVIOUS
<1>3. \A i \in DOMAIN cs : es[i].path = cs[i].path
  BY DEF SameEntry
<1>4. ASSUME NEW i \in DOMAIN cs PROVE \E k \in DOMAIN d.comps : Entry(d, k, es[i])
  <2>1. PICK k \in DOMAIN d.comps : Entry(d, k, cs[i])
    BY DEF EntriesOf
  <2>2. Entry(d, k, es[i])
    BY <2>1, EntryStays
  <2>. QED  BY <2>2
<1>5. \A i, j \in DOMAIN es : es[i].path = es[j].path => i = j
  BY <1>2, <1>3 DEF EntriesOf
<1>. QED  BY <1>2, <1>4, <1>5 DEF EntriesOf

\* Entries that are changed one by one stay a sequence.
LEMMA MappedSequence ==
  ASSUME NEW cs, IsSequence(cs), NEW es, es = [i \in DOMAIN cs |-> es[i]]
  PROVE  IsSequence(es) /\ DOMAIN es = DOMAIN cs
<1>1. Len(cs) \in Nat /\ DOMAIN cs = 1..Len(cs)
  BY SequenceForm
<1>. QED  BY <1>1, FunctionSequence

\* The repository URLs of c that are not refuted, in order.
Surviving(c, answers) ==
  Only(VcsRefs(c), {r \in ToSet(VcsRefs(c)) : answers[r[2]].result \notin Refuted})

\* The references that a validation leaves, with the URLs it found for them.
LEMMA ValidVcsForm ==
  ASSUME NEW c, IsSequence(c.existing_references), NEW answers
  PROVE  LET valid == ValidVcs(c, answers)
             kept == Surviving(c, answers)
         IN /\ IsSequence(kept) /\ IsSequence(valid) /\ DOMAIN valid = DOMAIN kept /\ Len(valid) = Len(kept)
            /\ \A i \in DOMAIN kept : valid[i] = <<"vcs", answers[kept[i][2]].final_url>>
<1>. DEFINE valid == ValidVcs(c, answers)
            kept == Surviving(c, answers)
<1>1. IsSequence(kept)
  BY OnlySequence DEF Surviving, VcsRefs, VcsIn
<1>2. Len(kept) \in Nat /\ DOMAIN kept = 1..Len(kept)
  BY <1>1, SequenceForm
<1>3. valid = [i \in DOMAIN kept |-> <<"vcs", answers[kept[i][2]].final_url>>]
  BY DEF ValidVcs, Surviving
<1>. HIDE DEF valid, kept
<1>4. valid = [i \in 1..Len(kept) |-> valid[i]]
  BY <1>2, <1>3
<1>5. IsSequence(valid) /\ Len(valid) = Len(kept) /\ DOMAIN valid = 1..Len(kept)
  BY <1>2, <1>4, FunctionSequence
<1>. QED  BY <1>1, <1>2, <1>3, <1>5 DEF valid, kept

\* What of these references a component keeps.
Chosen(c, answers) ==
  IF Len(ValidVcs(c, answers)) >= 2 /\ job.behavior = "keep-first"
    THEN <<ValidVcs(c, answers)[1]>> ELSE ValidVcs(c, answers)
Changes(c) == ~c.ignored /\ VcsRefs(c) # <<>>

\* The references that the chosen behaviour keeps of these.
LEMMA ChosenForm ==
  ASSUME NEW c, IsSequence(c.existing_references), NEW answers
  PROVE  /\ IsSequence(Chosen(c, answers)) /\ ToSet(Chosen(c, answers)) \in SUBSET ToSet(ValidVcs(c, answers))
         /\ Chosen(c, answers) = <<>> <=> ValidVcs(c, answers) = <<>>
<1>. DEFINE v == ValidVcs(c, answers)
<1>1. IsSequence(v)
  BY ValidVcsForm
<1>2. CASE Len(v) >= 2 /\ job.behavior = "keep-first"
  <2>1. Chosen(c, answers) = <<v[1]>>
    BY <1>2 DEF Chosen
  <2>. HIDE DEF v
  <2>2. v[1] \in ToSet(v) /\ v # <<>>
    BY <1>1, <1>2, SequenceForm
  <2>3. <<v[1]>> \in Seq({v[1]}) /\ <<v[1]>> # <<>>
    OBVIOUS
  <2>4. IsSequence(<<v[1]>>) /\ ToSet(<<v[1]>>) \in SUBSET {v[1]}
    BY <2>3, SequenceOf, Zenon
  <2>. QED  BY <2>1, <2>2, <2>3, <2>4 DEF v
<1>3. CASE ~(Len(v) >= 2 /\ job.behavior = "keep-first")
  <2>1. Chosen(c, answers) = v
    BY <1>3 DEF Chosen
  <2>. QED  BY <1>1, <2>1
<1>. QED  BY <1>2, <1>3

\* What a validation makes of an entry (sbom_enrichment.py, _validate_external_references).
LEMMA ValidatedEntry ==
  ASSUME NEW c, IsEntry(c), IsSequence(c.existing_references), NEW answers
  PROVE  LET e == AfterValidation(c, answers)
         IN /\ SameEntry(c, e) /\ e.ignored = c.ignored /\ IsSequence(e.existing_references)
            /\ Changes(c) =>
                 /\ e.existing_references = OthersIn(c.existing_references) \o Chosen(c, answers)
                 /\ e.needs_enrichment = (c.needs_enrichment \/ ValidVcs(c, answers) = <<>>)
            /\ ~Changes(c) => e = c
<1>. DEFINE e == AfterValidation(c, answers)
            refs == OthersIn(c.existing_references) \o Chosen(c, answers)
            need == c.needs_enrichment \/ ValidVcs(c, answers) = <<>>
<1>1. CASE Changes(c)
  <2>1. e = [c EXCEPT !.existing_references = refs, !.needs_enrichment = need]
    BY <1>1 DEF AfterValidation, Changes, Chosen
  <2>2. IsSequence(refs)
    <3>1. IsSequence(OthersIn(c.existing_references))
      BY OnlySequence DEF OthersIn
    <3>. QED  BY <3>1, ChosenForm, ConcatSequence
  <2>3. SameEntry(c, e) /\ e.ignored = c.ignored /\ e.existing_references = refs /\ e.needs_enrichment = need
    <3>1. \A x, y : LET f == [c EXCEPT !.existing_references = x, !.needs_enrichment = y]
                    IN SameEntry(c, f) /\ f.ignored = c.ignored /\ f.existing_references = x /\ f.needs_enrichment = y
      BY Zenon DEF IsEntry, SameEntry
    <3>. HIDE DEF e, refs, need
    <3>. QED  BY <2>1, <3>1, Zenon
  <2>. HIDE DEF e, refs, need
  <2>. QED  BY <1>1, <2>2, <2>3 DEF e, refs, need
<1>2. CASE ~Changes(c)
  <2>1. e = c
    BY <1>2 DEF AfterValidation, Changes
  <2>. QED  BY <1>2, <2>1 DEF SameEntry
<1>. QED  BY <1>1, <1>2

-----------------------------------------------------------------------------
(* The stages of a job.                                                    *)

Initial == Ignored(given, CollectComponents(given))
Validated == IF job.validate THEN [i \in DOMAIN Initial |-> AfterValidation(Initial[i], verdicts)] ELSE Initial
Synced == IF job.validate THEN SyncBack(given, Validated) ELSE given

\* No URL that was validated leads to an empty one.
Answered == \A u \in UniqueUrls(Initial) : verdicts[u].final_url # ""

\* Where a job is, and what its document and its entries are there.
Stages ==
  /\ task # "enrich" => phase = "parsing"
  /\ task = "enrich" => given \in EnrichDocuments /\ job \in JobOptions
  /\ phase = "parsing" => sbom = given
  /\ phase = "validating_refs" => job.validate /\ sbom = given /\ collected = Initial
  /\ phase \in {"resolving", "enriching"} => collected = Validated /\ sbom = Synced
  /\ phase \in {"resolving", "enriching"} /\ job.validate => Answered
  /\ phase = "enriching" => resolved \in SUBSET UniqueKeys(collected)

\* The stages hold at the start.
LEMMA StagesInit == Init => Stages
  BY DEF Init, EnrichInit, NoEnrich, Stages

\* The entries depend on the document and the options of the job alone.
LEMMA StagesSame ==
  ASSUME given' = given, job' = job
  PROVE  Initial' = Initial
  BY DEF Initial, Ignored, MatchesAnyPattern

\* So do the validated ones, and on the verdicts.
LEMMA ValidatedSame ==
  ASSUME given' = given, job' = job, verdicts' = verdicts
  PROVE  Validated' = Validated /\ Synced' = Synced /\ (Answered' <=> Answered)
<1>1. Initial' = Initial
  BY StagesSame
<1>2. Validated' = Validated
  BY <1>1 DEF Validated, AfterValidation
<1>3. Synced' = Synced
  BY <1>2 DEF Synced
<1>4. Answered' <=> Answered
  <2>. HIDE DEF Initial
  <2>. QED  BY <1>1 DEF Answered, UniqueUrls
<1>. QED  BY <1>2, <1>3, <1>4

\* Every step of a job leads to the stage that the code enters.
LEMMA StagesNext ==
  ASSUME Stages, [Next]_vars
  PROVE  Stages'
<1>1. CASE UNCHANGED enrichVars /\ (task' = task)
  <2>1. Validated' = Validated /\ Synced' = Synced /\ Initial' = Initial /\ (Answered' <=> Answered)
    BY <1>1, ValidatedSame, StagesSame DEF enrichVars
  <2>. HIDE DEF Stages, Validated, Synced, Initial, Answered
  <2>2. /\ task' = task /\ given' = given /\ sbom' = sbom /\ job' = job /\ phase' = phase
        /\ collected' = collected /\ resolved' = resolved
    BY <1>1 DEF enrichVars
  <2>. QED  BY <2>1, <2>2 DEF Stages, UniqueKeys, ToResolve
<1>2. CASE task = "enrich" /\ EnrichNext /\ task' = task
  <2>1. CASE Fail /\ phase # "done"
    BY <1>2, <2>1 DEF Fail, Stages
  <2>2. ASSUME phase = "parsing", collected' = Ignored(sbom, CollectComponents(sbom)),
               phase' = IF job.validate THEN "validating_refs" ELSE "resolving",
               UNCHANGED <<given, sbom, job, verdicts, resolved, removed, report>>
        PROVE  Stages'
    <3>1. Initial' = Initial /\ Validated' = Validated /\ Synced' = Synced /\ (Answered' <=> Answered)
      BY <2>2, StagesSame, ValidatedSame
    <3>2. collected' = Initial /\ sbom' = given /\ given \in EnrichDocuments
      BY <1>2, <2>2 DEF Stages, Initial
    <3>3. ~job.validate => Validated = Initial /\ Synced = given
      BY DEF Validated, Synced
    <3>. HIDE DEF Validated, Synced, Initial, Answered
    <3>. QED  BY <1>2, <2>2, <3>1, <3>2, <3>3 DEF Stages
  <2>3. ASSUME phase = "validating_refs",
               verdicts' \in {f \in [UniqueUrls(collected) -> UNION {Outcomes[u] : u \in DOMAIN Outcomes}] :
                                \A u \in DOMAIN f : f[u] \in Outcomes[u]},
               collected' = [i \in DOMAIN collected |-> AfterValidation(collected[i], verdicts')],
               sbom' = SyncBack(sbom, collected'), phase' = "resolving",
               UNCHANGED <<given, job, resolved, removed, report>>
        PROVE  Stages'
    <3>1. Initial' = Initial
      BY <2>3, StagesSame
    <3>2. job.validate /\ sbom = given /\ collected = Initial /\ given \in EnrichDocuments
      BY <1>2, <2>3 DEF Stages
    <3>3. collected' = Validated'
      <4>. HIDE DEF Initial
      <4>. QED  BY <2>3, <3>1, <3>2, Zenon DEF Validated, AfterValidation
    <3>4. sbom' = Synced'
      <4>. HIDE DEF Validated
      <4>. QED  BY <2>3, <3>2, <3>3 DEF Synced
    <3>5. Answered'
      <4>. HIDE DEF Initial
      <4>1. verdicts' \in [UniqueUrls(Initial) -> UNION {Outcomes[u] : u \in DOMAIN Outcomes}]
        BY <2>3, <3>2
      <4>2. \A u \in UniqueUrls(Initial) : verdicts'[u].final_url # ""
        BY <4>1, UrlsAssumption, ZenonT(40)
      <4>. QED  BY <3>1, <4>2, Zenon DEF Answered, UniqueUrls
    <3>. HIDE DEF Validated, Synced, Initial, Answered
    <3>. QED  BY <1>2, <2>3, <3>2, <3>3, <3>4, <3>5 DEF Stages
  <2>4. CASE Resolve
    <3>1. Initial' = Initial /\ Validated' = Validated /\ Synced' = Synced /\ (Answered' <=> Answered)
      BY <2>4, StagesSame, ValidatedSame DEF Resolve
    <3>. HIDE DEF Validated, Synced, Initial, Answered
    <3>. QED  BY <1>2, <2>4, <3>1 DEF Stages, Resolve, UniqueKeys, ToResolve
  <2>5. CASE Finish
    <3>1. phase' \in {"failed", "done"} /\ given' = given /\ job' = job
      BY <2>5 DEF Finish, Fail
    <3>. QED  BY <1>2, <3>1 DEF Stages
  <2>6. CASE Collect
    <3>1. (Fail /\ phase # "done") \/ ~Fail
      BY <2>6 DEF Collect
    <3>. QED  BY <2>1, <2>2, <2>6, <3>1 DEF Collect
  <2>7. CASE ValidateReferences
    BY <2>1, <2>3, <2>7 DEF ValidateReferences
  <2>. QED  BY <1>2, <2>4, <2>5, <2>6, <2>7 DEF EnrichNext
<1>. QED  BY <1>1, <1>2 DEF Next, vars

\* Where the job of a document is: the collected components and the document as the stage
\* before left them (SbomEnrichmentPipeline.process).
THEOREM JobsFollowStages == Spec => []Stages
  BY StagesInit, StagesNext, PTL DEF Spec

\* A property of the end of a job has to hold after Finish only.
FinishEnds ==
  /\ task = "enrich" /\ Stages /\ phase = "enriching" /\ ~VersionRaises(sbom)
  /\ removed' = (IF job.remove THEN RemovalOrder(collected) ELSE <<>>)
  /\ sbom' = RemoveComponents(BumpVersion(EnrichSbom(sbom, collected)), removed')
  /\ report' = BuildReport(collected, Skipped(collected), removed')
  /\ phase' = "done"
  /\ UNCHANGED <<given, job, collected, verdicts, resolved>>

\* A job is done by its last step only.
LEMMA OnlyFinishEnds ==
  ASSUME Stages, [Next]_vars, Done'
  PROVE  FinishEnds \/ (Done /\ UNCHANGED enrichVars)
<1>1. CASE UNCHANGED enrichVars
  BY <1>1 DEF Done, enrichVars
<1>2. CASE task = "enrich" /\ EnrichNext
  <2>1. Finish /\ ~Fail
    BY <1>2 DEF EnrichNext, Collect, ValidateReferences, Resolve, Finish, Fail, Done
  <2>. QED  BY <1>2, <2>1 DEF Finish, FinishEnds
<1>. QED  BY <1>1, <1>2 DEF Next, vars

\* What a job is given and collects.
LEMMA IgnoredEntries ==
  ASSUME NEW d, NEW cs, EntriesOf(d, cs), NEW es, es = Ignored(d, cs)
  PROVE  /\ EntriesOf(d, es) /\ DOMAIN es = DOMAIN cs
         /\ \A i \in DOMAIN cs :
              /\ SameEntry(cs[i], es[i]) /\ es[i].existing_references = cs[i].existing_references
              /\ ~es[i].ignored => es[i].needs_enrichment = cs[i].needs_enrichment
<1>1. \A i \in DOMAIN cs : /\ IsEntry(cs[i]) /\ IsSequence(cs[i].existing_references)
                           /\ cs[i].ignored \in BOOLEAN /\ cs[i].needs_enrichment \in BOOLEAN
                           /\ (cs[i].ignored => ~cs[i].needs_enrichment)
  BY DEF EntriesOf, Entry
<1>2. IsSequence(es) /\ DOMAIN es = DOMAIN cs
  <2>1. es = [i \in DOMAIN cs |-> es[i]]
    BY Zenon DEF Ignored
  <2>. QED  BY <2>1, MappedSequence DEF EntriesOf
<1>3. ASSUME NEW i \in DOMAIN cs
      PROVE  /\ SameEntry(cs[i], es[i]) /\ es[i].existing_references = cs[i].existing_references
             /\ \/ es[i].ignored = TRUE /\ es[i].needs_enrichment = FALSE
                \/ es[i].ignored = cs[i].ignored /\ es[i].needs_enrichment = cs[i].needs_enrichment
  <2>1. PICK c, e : c = cs[i] /\ e = es[i]
    OBVIOUS
  <2>2. IsEntry(c)
    BY <1>1, <2>1
  <2>3. e = c \/ e = [c EXCEPT !.ignored = TRUE, !.needs_enrichment = FALSE]
    BY <2>1, Zenon DEF Ignored
  <2>4. /\ SameEntry(c, e) /\ e.existing_references = c.existing_references
        /\ \/ e.ignored = TRUE /\ e.needs_enrichment = FALSE
           \/ e.ignored = c.ignored /\ e.needs_enrichment = c.needs_enrichment
    <3>1. CASE e = c
      BY <2>2, <3>1 DEF SameEntry
    <3>2. CASE e = [c EXCEPT !.ignored = TRUE, !.needs_enrichment = FALSE]
      BY <2>2, <3>2, EntryIgnored, Zenon
    <3>. QED  BY <2>3, <3>1, <3>2, Zenon
  <2>. QED  BY <2>1, <2>4
<1>4. \A i \in DOMAIN cs : /\ SameEntry(cs[i], es[i]) /\ es[i].ignored \in BOOLEAN
                           /\ es[i].needs_enrichment \in BOOLEAN
                           /\ es[i].ignored => ~es[i].needs_enrichment
                           /\ IsSequence(es[i].existing_references)
  BY <1>1, <1>3, Zenon
<1>5. EntriesOf(d, es) /\ DOMAIN es = DOMAIN cs
  BY <1>2, <1>4, EntriesStay
<1>. QED  BY <1>3, <1>5, Zenon

\* The entries are still the entries of their components after a validation.
LEMMA ValidatedEntries ==
  ASSUME NEW d, NEW cs, EntriesOf(d, cs), NEW answers,
         NEW es, es = [i \in DOMAIN cs |-> AfterValidation(cs[i], answers)]
  PROVE  /\ EntriesOf(d, es) /\ DOMAIN es = DOMAIN cs
         /\ \A i \in DOMAIN cs : SameEntry(cs[i], es[i]) /\ es[i].ignored = cs[i].ignored
<1>1. \A i \in DOMAIN cs : /\ IsEntry(cs[i]) /\ IsSequence(cs[i].existing_references)
                           /\ cs[i].ignored \in BOOLEAN /\ cs[i].needs_enrichment \in BOOLEAN
                           /\ (cs[i].ignored => ~cs[i].needs_enrichment)
  BY DEF EntriesOf, Entry
<1>2. IsSequence(es) /\ DOMAIN es = DOMAIN cs
  <2>1. es = [i \in DOMAIN cs |-> es[i]]
    OBVIOUS
  <2>. QED  BY <2>1, MappedSequence DEF EntriesOf
<1>3. ASSUME NEW i \in DOMAIN cs
      PROVE  /\ SameEntry(cs[i], es[i]) /\ es[i].ignored = cs[i].ignored
             /\ es[i].needs_enrichment \in BOOLEAN
             /\ es[i].ignored => ~es[i].needs_enrichment
             /\ IsSequence(es[i].existing_references)
  <2>1. PICK c, e : c = cs[i] /\ e = AfterValidation(c, answers)
    OBVIOUS
  <2>2. IsEntry(c) /\ IsSequence(c.existing_references) /\ c.needs_enrichment \in BOOLEAN
        /\ (c.ignored => ~c.needs_enrichment)
    BY <1>1, <2>1
  <2>3. /\ SameEntry(c, e) /\ e.ignored = c.ignored /\ IsSequence(e.existing_references)
        /\ Changes(c) => e.needs_enrichment = (c.needs_enrichment \/ ValidVcs(c, answers) = <<>>)
        /\ ~Changes(c) => e = c
    BY <2>1, <2>2, ValidatedEntry
  <2>4. c.ignored => ~Changes(c)
    BY DEF Changes
  <2>5. e.needs_enrichment \in BOOLEAN /\ (e.ignored => ~e.needs_enrichment)
    <3>1. CASE Changes(c)
      <4>1. e.needs_enrichment \in BOOLEAN
        BY <2>2, <2>3, <3>1, Zenon
      <4>. QED  BY <2>3, <2>4, <3>1, <4>1
    <3>2. CASE ~Changes(c)
      BY <2>2, <2>3, <3>2
    <3>. QED  BY <3>1, <3>2
  <2>6. e = es[i]
    BY <2>1
  <2>. QED  BY <2>1, <2>3, <2>5, <2>6
<1>4. EntriesOf(d, es) /\ DOMAIN es = DOMAIN cs
  <2>1. \A i \in DOMAIN cs : /\ SameEntry(cs[i], es[i]) /\ es[i].ignored \in BOOLEAN
                             /\ es[i].needs_enrichment \in BOOLEAN
                             /\ es[i].ignored => ~es[i].needs_enrichment
                             /\ IsSequence(es[i].existing_references)
    BY <1>1, <1>3
  <2>. QED  BY <1>2, <2>1, EntriesStay
<1>. QED  BY <1>3, <1>4

\* The entries before and after the validation.
Uploaded(d, cs) ==
  \A i \in DOMAIN cs : \E k \in DOMAIN d.comps : Entry(d, k, cs[i]) /\ Fresh(d, k, cs[i])

\* The entries of an uploaded document.
LEMMA InitialForm ==
  ASSUME given \in EnrichDocuments
  PROVE  Sound(given) /\ EntriesOf(given, Initial) /\ Uploaded(given, Initial)
<1>1. Sound(given)
  BY EnrichDocumentsAssumption DEF Sound
<1>2. ASSUME NEW d, Sound(d), NEW es, es = Ignored(d, CollectComponents(d))
      PROVE  EntriesOf(d, es) /\ Uploaded(d, es)
  <2>1. PICK cs : cs = CollectComponents(d)
    OBVIOUS
  <2>2. /\ EntriesOf(d, cs)
        /\ \A i \in DOMAIN cs : \E k \in DOMAIN d.comps :
             Entry(d, k, cs[i]) /\ Fresh(d, k, cs[i]) /\ cs[i].ignored = FALSE
    BY <1>2, <2>1, CollectedEntries, Zenon
  <2>3. /\ EntriesOf(d, es) /\ DOMAIN es = DOMAIN cs
        /\ \A i \in DOMAIN cs :
             /\ SameEntry(cs[i], es[i]) /\ es[i].existing_references = cs[i].existing_references
             /\ ~es[i].ignored => es[i].needs_enrichment = cs[i].needs_enrichment
    BY <1>2, <2>1, <2>2, IgnoredEntries
  <2>4. ASSUME NEW i \in DOMAIN es
        PROVE  \E k \in DOMAIN d.comps : Entry(d, k, es[i]) /\ Fresh(d, k, es[i])
    <3>1. PICK k \in DOMAIN d.comps : Entry(d, k, cs[i]) /\ Fresh(d, k, cs[i]) /\ cs[i].ignored = FALSE
      BY <2>2, <2>3
    <3>2. /\ SameEntry(cs[i], es[i]) /\ es[i].existing_references = cs[i].existing_references
          /\ ~es[i].ignored => es[i].needs_enrichment = cs[i].needs_enrichment
      BY <2>3
    <3>3. PICK h \in DOMAIN d.comps : Entry(d, h, es[i])
      BY <2>3 DEF EntriesOf
    <3>4. Entry(d, k, es[i])
      BY <3>1, <3>2, <3>3, EntryStays DEF Entry
    <3>5. Fresh(d, k, es[i])
      BY <3>1, <3>2 DEF Fresh
    <3>. QED  BY <3>4, <3>5
  <2>. QED  BY <2>3, <2>4 DEF Uploaded
<1>. QED  BY <1>1, <1>2 DEF Initial

\* The entries after the validation of an uploaded document.
LEMMA ValidatedForm ==
  ASSUME given \in EnrichDocuments
  PROVE  EntriesOf(given, Validated)
<1>1. EntriesOf(given, Initial)
  BY InitialForm
<1>. HIDE DEF Initial
<1>2. ASSUME NEW d, NEW cs, EntriesOf(d, cs), NEW es, es = [i \in DOMAIN cs |-> AfterValidation(cs[i], verdicts)]
      PROVE  EntriesOf(d, es)
  BY <1>2, ValidatedEntries
<1>. QED  BY <1>1, <1>2 DEF Validated

\* The document and the entries when the enrichment begins.
LEMMA StageForms ==
  ASSUME Stages, task = "enrich", phase = "enriching"
  PROVE  /\ given \in EnrichDocuments /\ Sound(given) /\ Sound(sbom) /\ NewObjects(given, sbom) /\ SameTree(given, sbom)
         /\ EntriesOf(given, collected) /\ collected = Validated
         /\ job.validate => Written(given, SyncPlan(collected), collected, sbom)
         /\ ~job.validate => sbom = given
<1>1. collected = Validated /\ sbom = Synced /\ given \in EnrichDocuments
  BY DEF Stages
<1>2. Sound(given) /\ EntriesOf(given, collected)
  BY <1>1, InitialForm, ValidatedForm
<1>3. Located(given, collected) /\ \A c \in ToSet(collected) : IsSequence(c.existing_references)
  BY <1>2, EntriesLocated DEF Entry
<1>4. CASE job.validate
  <2>1. sbom = SyncBack(given, collected)
    <3>. HIDE DEF Validated
    <3>. QED  BY <1>1, <1>4 DEF Synced
  <2>2. Written(given, SyncPlan(collected), collected, sbom)
    BY <1>2, <1>3, <2>1, SyncBackWrites
  <2>3. Sound(sbom) /\ NewObjects(given, sbom)
    BY <2>2 DEF Written
  <2>4. SameTree(given, sbom)
    BY <1>2, <2>3, SoundHasParts, NewObjectsSound DEF SoundParts
  <2>. QED  BY <1>1, <1>2, <1>4, <2>2, <2>3, <2>4
<1>5. CASE ~job.validate
  <2>1. sbom = given
    BY <1>1, <1>5 DEF Synced
  <2>2. NewObjects(given, given)
    BY <1>2, NewObjectsReflexive
  <2>3. SameTree(given, given)
    BY <1>2, SoundHasParts DEF SoundParts, SameTree
  <2>. QED  BY <1>1, <1>2, <1>5, <2>1, <2>2, <2>3
<1>. QED  BY <1>4, <1>5

-----------------------------------------------------------------------------
(* What is removed.                                                        *)

\* A listing of a finite set has each of its members once.
LEMMA SetToSeqsForm ==
  ASSUME NEW T, IsFiniteSet(T), NEW s \in SetToSeqs(T)
  PROVE  IsSequence(s) /\ Once(s) /\ ToSet(s) = T
<1>. DEFINE n == Cardinality(T)
<1>1. n \in Nat /\ s \in [1..n -> T] /\ \A i, j \in 1..n : i # j => s[i] # s[j]
  BY FS_CardinalityType DEF SetToSeqs
<1>2. IsFiniteSet(1..n) /\ Cardinality(1..n) = n
  BY <1>1, RangeIsFinite
<1>3. s \in Injection(1..n, T)
  BY <1>1 DEF Injection, IsInjective
<1>4. s \in Surjection(1..n, T)
  BY <1>2, <1>3, FS_Injection
<1>5. \A x \in T : \E i \in 1..n : s[i] = x
  BY <1>4 DEF Surjection
<1>6. s = [i \in 1..n |-> s[i]]
  BY <1>1
<1>7. IsSequence(s) /\ DOMAIN s = 1..n
  BY <1>1, <1>6, FunctionSequence
<1>8. ToSet(s) = T
  <2>1. ASSUME NEW x \in ToSet(s) PROVE x \in T
    BY <1>1, <1>7, InSet
  <2>2. ASSUME NEW x \in T PROVE x \in ToSet(s)
    BY <1>5, <1>7, InSet, Zenon
  <2>. QED  BY <2>1, <2>2
<1>. QED  BY <1>1, <1>7, <1>8 DEF Once

\* The entries of a sequence are finitely many.
LEMMA SequenceFinite ==
  ASSUME NEW s, IsSequence(s)
  PROVE  IsFiniteSet(ToSet(s))
<1>1. Len(s) \in Nat /\ DOMAIN s = 1..Len(s)
  BY SequenceForm
<1>2. IsFiniteSet(1..Len(s))
  BY <1>1, RangeIsFinite
<1>3. s \in Surjection(1..Len(s), ToSet(s))
  <2>1. \A i \in 1..Len(s) : s[i] \in ToSet(s)
    BY <1>1, InSet
  <2>2. s \in [1..Len(s) -> ToSet(s)]
    BY <1>1, <2>1, SequenceForm
  <2>3. \A x \in ToSet(s) : \E i \in 1..Len(s) : s[i] = x
    BY <1>1, InSet
  <2>. QED  BY <2>2, <2>3 DEF Surjection
<1>. QED  BY <1>2, <1>3, FS_Surjection

\* The order of a removal lists the leaves to remove, each once, from the last path to the first.
LEMMA RemovalOrderForm ==
  ASSUME NEW g, Sound(g), NEW cs, EntriesOf(g, cs), NEW T, T = ToRemove(cs), NEW t, t = RemovalOrder(cs)
  PROVE  IsSequence(t) /\ Once(t) /\ Descends(t) /\ ToSet(t) = T
<1>1. T \in SUBSET ToSet(cs)
  BY DEF ToRemove
<1>2. IsFiniteSet(T)
  BY <1>1, SequenceFinite, FS_Subset DEF EntriesOf
<1>3. \A x \in T : x.path \in Seq(Nat)
  <2>1. \A c \in ToSet(cs) : \E k \in DOMAIN g.comps : Entry(g, k, c)
    BY EntriesLocated
  <2>2. Tree(g, Len(g.comps)) /\ DOMAIN g.comps = 1..Len(g.comps)
    BY SoundHasParts DEF SoundParts, Tree
  <2>. QED  BY <1>1, <2>1, <2>2, PlaceType DEF Entry
<1>4. \A x, y \in T : x.path = y.path => x = y
  BY <1>1, EntriesLocated DEF Located
<1>5. \E s \in SetToSeqs(T) : Descends(s)
  BY <1>2, <1>3, <1>4, DescendingOrder
<1>6. t = CHOOSE s \in SetToSeqs(T) : Descends(s)
  BY DEF RemovalOrder, Descends
<1>7. t \in SetToSeqs(T) /\ Descends(t)
  BY <1>5, <1>6
<1>. QED  BY <1>2, <1>7, SetToSeqsForm

\* The enriched document, before anything is removed.
LEMMA EnrichedForm ==
  ASSUME NEW g, Sound(g), NEW cs, EntriesOf(g, cs), NEW s, Sound(s), NewObjects(g, s), SameTree(g, s),
         NEW e, e = BumpVersion(EnrichSbom(s, cs))
  PROVE  /\ Sound(e) /\ SameTree(g, e) /\ NewObjects(g, e) /\ DOMAIN e.comps = DOMAIN g.comps
         /\ \A i \in DOMAIN g.comps :
              /\ (\A c \in ToSet(cs) : c.path = Place(g, i) => ~FoundPlan(cs)[c].on) => e.comps[i].obj = s.comps[i].obj
              /\ \A c \in ToSet(cs) : c.path = Place(g, i) /\ FoundPlan(cs)[c].on =>
                   e.comps[i].obj = Put(s.comps[i].obj, "externalReferences", ListOf(FoundPlan(cs)[c].refs))
<1>. DEFINE n == Len(g.comps)
<1>1. Tree(g, n) /\ DOMAIN g.comps = 1..n
  BY SoundHasParts, Zenon DEF SoundParts, Tree
<1>2. \A i \in DOMAIN g.comps : Place(s, i) = Place(g, i)
  BY <1>1, SameTreePlaces
<1>3. DOMAIN s.comps = DOMAIN g.comps
  BY DEF SameTree
<1>4. Located(g, cs) /\ \A c \in ToSet(cs) : IsSequence(c.existing_references)
  BY EntriesLocated DEF Entry
<1>5. Located(s, cs)
  BY <1>2, <1>3, <1>4 DEF Located
<1>6. PICK x : x = EnrichSbom(s, cs)
  OBVIOUS
<1>7. Written(s, FoundPlan(cs), cs, x)
  BY <1>4, <1>5, <1>6, EnrichSbomWrites
<1>8. Sound(x) /\ NewObjects(s, x)
  BY <1>7 DEF Written
<1>9. Sound(e) /\ e.comps = x.comps
  BY <1>6, <1>8, BumpVersionEffect
<1>10. NewObjects(g, x)
  BY <1>8, NewObjectsTransitive
<1>11. NewObjects(g, e)
  BY <1>9, <1>10 DEF NewObjects
<1>12. SameTree(g, e)
  BY <1>9, <1>11, SoundHasParts, NewObjectsSound DEF SoundParts
<1>13. \A i \in DOMAIN g.comps :
         /\ (\A c \in ToSet(cs) : c.path = Place(g, i) => ~FoundPlan(cs)[c].on) => x.comps[i].obj = s.comps[i].obj
         /\ \A c \in ToSet(cs) : c.path = Place(g, i) /\ FoundPlan(cs)[c].on =>
              x.comps[i].obj = Put(s.comps[i].obj, "externalReferences", ListOf(FoundPlan(cs)[c].refs))
  BY <1>2, <1>3, <1>7 DEF Written
<1>14. DOMAIN e.comps = DOMAIN g.comps
  BY <1>12 DEF SameTree
<1>. QED  BY <1>9, <1>11, <1>12, <1>13, <1>14

\* What a removal leaves of a document.
LEMMA RemovedForm ==
  ASSUME NEW g, Sound(g), NEW cs, EntriesOf(g, cs), NEW e, Sound(e), SameTree(g, e),
         NEW t, IsSequence(t), Descends(t),
         \A c \in ToSet(t) : c \in ToSet(cs) /\ ~c.has_subcomponents,
         NEW r, r = RemoveComponents(e, t)
  PROVE  /\ Gone(e, t, r) /\ Sound(r)
         /\ Ids(g) \ Ids(r) = {At(g, c.path) : c \in ToSet(t)}
         /\ \A id \in Ids(r) : \E k \in DOMAIN g.comps :
              g.comps[k].id = id /\ e.comps[k].id = id /\ Component(r, id) = e.comps[k]
<1>. DEFINE n == Len(g.comps)
<1>1. Tree(g, n) /\ DOMAIN g.comps = 1..n /\ IsSequence(g.comps)
  BY SoundHasParts DEF SoundParts, Tree
<1>2. /\ IsSequence(e.comps) /\ DOMAIN e.comps = DOMAIN g.comps
      /\ \A i \in 1..n : e.comps[i].id = g.comps[i].id /\ e.comps[i].up = g.comps[i].up
      /\ \A i \in 1..n : Place(e, i) = Place(g, i)
      /\ Len(e.comps) = n
  <2>1. /\ IsSequence(e.comps) /\ DOMAIN e.comps = DOMAIN g.comps
        /\ \A i \in 1..n : e.comps[i].id = g.comps[i].id /\ e.comps[i].up = g.comps[i].up
    BY <1>1 DEF SameTree
  <2>2. \A i \in 1..n : Place(e, i) = Place(g, i)
    BY <1>1, SameTreePlaces
  <2>3. Len(e.comps) = n
    BY <1>1, <2>1, SequenceForm
  <2>. QED  BY <2>1, <2>2, <2>3
<1>3. ASSUME NEW c \in ToSet(t)
      PROVE  \E k \in 1..n : c.path = Place(g, k) /\ Leaf(e, n, k) /\ At(g, c.path) = g.comps[k].id
  <2>1. c \in ToSet(cs) /\ ~c.has_subcomponents
    OBVIOUS
  <2>2. PICK k \in 1..n : Entry(g, k, c)
    BY <1>1, <2>1, EntriesLocated
  <2>3. c.path = Place(g, k) /\ IsLeaf(g, g.comps[k])
    BY <2>1, <2>2, Zenon DEF Entry
  <2>4. Leaf(e, n, k)
    BY <1>1, <1>2, <2>3 DEF IsLeaf, Children, Leaf
  <2>5. At(g, c.path) = g.comps[k].id
    BY <1>1, <2>3, AtPlace
  <2>. QED  BY <2>3, <2>4, <2>5
<1>4. Removable(e, t)
  BY <1>1, <1>2, <1>3 DEF Removable
<1>5. Gone(e, t, r) /\ Sound(r)
  <2>1. Gone(e, t, r)
    BY <1>4, RemoveComponentsRemoves
  <2>. QED  BY <2>1 DEF Gone
<1>6. \A j \in DOMAIN r.comps : \E k \in 1..n : r.comps[j] = e.comps[k] /\ ~Taken(t, e, k)
  BY <1>1, <1>2, <1>5 DEF Gone
<1>7. \A k \in 1..n : ~Taken(t, e, k) => \E j \in DOMAIN r.comps : r.comps[j] = e.comps[k]
  BY <1>1, <1>2, <1>5 DEF Gone
<1>8. ASSUME NEW id \in Ids(g) \ Ids(r) PROVE \E c \in ToSet(t) : At(g, c.path) = id
  <2>1. PICK k \in 1..n : g.comps[k].id = id
    BY <1>1, IdsAre
  <2>2. Taken(t, e, k)
    <3>. SUFFICES ASSUME ~Taken(t, e, k) PROVE FALSE
      OBVIOUS
    <3>1. PICK j \in DOMAIN r.comps : r.comps[j] = e.comps[k]
      BY <1>7
    <3>2. r.comps[j].id = id
      BY <1>2, <2>1, <3>1
    <3>. QED  BY <3>2, IdsAre
  <2>3. PICK c \in ToSet(t) : c.path = Place(e, k)
    BY <2>2 DEF Taken
  <2>4. At(g, c.path) = id
    BY <1>1, <1>2, <2>1, <2>3, AtPlace
  <2>. QED  BY <2>4
<1>9. ASSUME NEW c \in ToSet(t) PROVE At(g, c.path) \in Ids(g) \ Ids(r)
  <2>1. PICK k \in 1..n : c.path = Place(g, k) /\ Leaf(e, n, k) /\ At(g, c.path) = g.comps[k].id
    BY <1>3
  <2>2. At(g, c.path) \in Ids(g)
    BY <1>1, <2>1, IdsAre
  <2>3. ASSUME NEW j \in DOMAIN r.comps, r.comps[j].id = g.comps[k].id PROVE FALSE
    <3>1. PICK h \in 1..n : r.comps[j] = e.comps[h] /\ ~Taken(t, e, h)
      BY <1>6
    <3>2. h = k
      BY <1>1, <1>2, <2>3, <3>1 DEF Tree
    <3>. QED  BY <1>2, <2>1, <3>1, <3>2 DEF Taken
  <2>4. At(g, c.path) \notin Ids(r)
    BY <2>1, <2>3, IdsAre
  <2>. QED  BY <2>2, <2>4
<1>10. ASSUME NEW id \in Ids(r)
       PROVE  \E k \in DOMAIN g.comps : g.comps[k].id = id /\ e.comps[k].id = id /\ Component(r, id) = e.comps[k]
  <2>1. PICK j \in DOMAIN r.comps : r.comps[j].id = id
    BY IdsAre
  <2>2. PICK k \in 1..n : r.comps[j] = e.comps[k]
    BY <1>6
  <2>3. Component(r, id) = r.comps[j]
    BY <1>5, <2>1, ComponentIs
  <2>. QED  BY <1>1, <1>2, <2>1, <2>2, <2>3
<1>. QED  BY <1>5, <1>8, <1>9, <1>10

\* What the last step of a job makes of the document.
LEMMA FinishForm ==
  ASSUME NEW g, NEW cs, NEW s, NEW t, NEW r, g = given, cs = collected, s = sbom, t = removed', r = sbom', FinishEnds
  PROVE  \E e, T :
           /\ Sound(g) /\ EntriesOf(g, cs) /\ Sound(s) /\ NewObjects(g, s) /\ SameTree(g, s)
           /\ e = BumpVersion(EnrichSbom(s, cs)) /\ Sound(e) /\ SameTree(g, e)
           /\ T = (IF job.remove THEN ToRemove(cs) ELSE {})
           /\ IsSequence(t) /\ Once(t) /\ Descends(t) /\ ToSet(t) = T
           /\ \A c \in ToSet(t) : c \in ToSet(cs) /\ ~c.has_subcomponents
           /\ r = RemoveComponents(e, t)
<1>1. Sound(g) /\ EntriesOf(g, cs) /\ Sound(s) /\ NewObjects(g, s) /\ SameTree(g, s)
  BY StageForms DEF FinishEnds
<1>2. PICK e : e = BumpVersion(EnrichSbom(s, cs))
  OBVIOUS
<1>3. Sound(e) /\ SameTree(g, e)
  BY <1>1, <1>2, EnrichedForm
<1>4. r = RemoveComponents(e, t)
  BY <1>2 DEF FinishEnds
<1>5. PICK T : T = (IF job.remove THEN ToRemove(cs) ELSE {})
  BY Zenon
<1>6. IsSequence(t) /\ Once(t) /\ Descends(t) /\ ToSet(t) = T
  <2>1. CASE job.remove
    <3>1. t = RemovalOrder(cs) /\ T = ToRemove(cs)
      BY <1>5, <2>1 DEF FinishEnds
    <3>. QED  BY <1>1, <3>1, RemovalOrderForm
  <2>2. CASE ~job.remove
    <3>1. t = <<>> /\ T = {}
      BY <1>5, <2>2 DEF FinishEnds
    <3>2. ToSet(<<>>) = {} /\ <<>> \in Seq({})
      BY EmptySet
    <3>. QED  BY <3>1, <3>2 DEF IsSequence, Once, Descends
  <2>. QED  BY <2>1, <2>2
<1>7. \A c \in ToSet(t) : c \in ToSet(cs) /\ ~c.has_subcomponents
  BY <1>5, <1>6 DEF ToRemove
<1>. QED  BY <1>1, <1>2, <1>3, <1>4, <1>5, <1>6, <1>7

\* The last step of a job removes what it has to.
LEMMA FinishRemoves ==
  ASSUME FinishEnds
  PROVE  /\ Ids(given) \ Ids(sbom') = {At(given, c.path) : c \in (IF job.remove THEN ToRemove(collected) ELSE {})}
         /\ WellFormed(sbom')
<1>1. PICK g, cs, s, t, r : g = given /\ cs = collected /\ s = sbom /\ t = removed' /\ r = sbom'
  OBVIOUS
<1>2. PICK e, T :
           /\ Sound(g) /\ EntriesOf(g, cs) /\ Sound(s) /\ NewObjects(g, s) /\ SameTree(g, s)
           /\ e = BumpVersion(EnrichSbom(s, cs)) /\ Sound(e) /\ SameTree(g, e)
           /\ T = (IF job.remove THEN ToRemove(cs) ELSE {})
           /\ IsSequence(t) /\ Once(t) /\ Descends(t) /\ ToSet(t) = T
           /\ \A c \in ToSet(t) : c \in ToSet(cs) /\ ~c.has_subcomponents
           /\ r = RemoveComponents(e, t)
  BY <1>1, FinishForm
<1>3. Ids(g) \ Ids(r) = {At(g, c.path) : c \in ToSet(t)} /\ Sound(r)
  BY <1>2, RemovedForm
<1>4. Ids(g) \ Ids(r) = {At(g, c.path) : c \in (IF job.remove THEN ToRemove(cs) ELSE {})}
  BY <1>2, <1>3
<1>. QED  BY <1>1, <1>3, <1>4 DEF Sound

\* The components that are gone are those that were to be removed, in every document, with
\* every choice of options, and whatever was resolved (remover.py, remove_components).
THEOREM RemovalIsExact == Spec => []RemovalHitsItsTarget
<1>1. Init => RemovalHitsItsTarget
  BY DEF Init, EnrichInit, NoEnrich, RemovalHitsItsTarget, Done
<1>2. ASSUME Stages, RemovalHitsItsTarget, [Next]_vars PROVE RemovalHitsItsTarget'
  <2>. SUFFICES ASSUME Done' PROVE RemovalHitsItsTarget'
    BY DEF RemovalHitsItsTarget
  <2>1. CASE FinishEnds
    <3>1. Ids(given) \ Ids(sbom') = {At(given, c.path) : c \in (IF job.remove THEN ToRemove(collected) ELSE {})}
          /\ WellFormed(sbom')
      BY <2>1, FinishRemoves
    <3>2. given' = given /\ job' = job /\ collected' = collected /\ resolved' = resolved
      BY <2>1 DEF FinishEnds
    <3>3. ToRemove(collected)' = ToRemove(collected)
      BY <3>2 DEF ToRemove
    <3>4. (IF job.remove THEN {IdAt(c) : c \in ToRemove(collected)} ELSE {})' =
            {At(given, c.path) : c \in (IF job.remove THEN ToRemove(collected) ELSE {})}
      <4>. HIDE DEF ToRemove
      <4>. QED  BY <3>2, <3>3 DEF IdAt
    <3>. QED  BY <3>1, <3>2, <3>4 DEF RemovalHitsItsTarget
  <2>2. CASE Done /\ UNCHANGED enrichVars
    <3>1. given' = given /\ sbom' = sbom /\ job' = job /\ collected' = collected /\ resolved' = resolved
          /\ phase' = phase
      BY <2>2 DEF enrichVars
    <3>2. ToRemove(collected)' = ToRemove(collected)
      BY <3>1 DEF ToRemove
    <3>3. (IF job.remove THEN {IdAt(c) : c \in ToRemove(collected)} ELSE {})' =
            (IF job.remove THEN {IdAt(c) : c \in ToRemove(collected)} ELSE {})
      <4>. HIDE DEF ToRemove
      <4>. QED  BY <3>1, <3>2 DEF IdAt
    <3>. QED  BY <1>2, <3>1, <3>3 DEF RemovalHitsItsTarget, Done
  <2>. QED  BY <1>2, <2>1, <2>2, OnlyFinishEnds
<1>. QED  BY <1>1, <1>2, JobsFollowStages, PTL DEF Spec

-----------------------------------------------------------------------------
(* References: those that are repository URLs and the others.              *)

\* The two parts of a list to which a repository URL is added.
LEMMA RefsAppend ==
  ASSUME NEW s, IsSequence(s), NEW e, IsVcs(e)
  PROVE  OthersIn(Append(s, e)) = OthersIn(s) /\ VcsIn(Append(s, e)) = Append(VcsIn(s), e)
<1>. DEFINE u == Append(s, e)
            P == {r \in ToSet(u) : IsVcs(r)}
            Q == {r \in ToSet(u) : ~IsVcs(r)}
<1>1. ToSet(u) = ToSet(s) \cup {e}
  BY AppendSequence
<1>2. OthersIn(u) = Only(s, Q) /\ VcsIn(u) = Append(Only(s, P), e)
  BY <1>1, OnlyAppend DEF OthersIn, VcsIn
<1>3. Only(s, Q) = OthersIn(s) /\ Only(s, P) = VcsIn(s)
  BY <1>1, OnlySame DEF OthersIn, VcsIn
<1>. QED  BY <1>2, <1>3, Zenon

\* The two parts of a list that is made of what is no repository URL and of some URLs.
LEMMA RefsJoined ==
  ASSUME NEW s, IsSequence(s), NEW t, IsSequence(t), \A r \in ToSet(t) : IsVcs(r)
  PROVE  OthersIn(OthersIn(s) \o t) = OthersIn(s) /\ VcsIn(OthersIn(s) \o t) = t
<1>. DEFINE o == OthersIn(s)
            X == ToSet(t)
            A == {v \in Seq(X) : OthersIn(o \o v) = o /\ VcsIn(o \o v) = v}
<1>1. IsSequence(o) /\ \A r \in ToSet(o) : ~IsVcs(r)
  BY OnlySequence DEF OthersIn
<1>2. <<>> \in A
  <2>1. o \o <<>> = o
    BY <1>1 DEF IsSequence
  <2>2. OthersIn(o) = o
    BY <1>1, OnlyAll DEF OthersIn
  <2>3. VcsIn(o) = <<>>
    BY <1>1, OnlyNone DEF VcsIn
  <2>. QED  BY <2>1, <2>2, <2>3
<1>3. ASSUME NEW v \in Seq(X), NEW e \in X, v \in A PROVE Append(v, e) \in A
  <2>1. o \o Append(v, e) = Append(o \o v, e)
    BY <1>1 DEF IsSequence
  <2>2. IsSequence(v) /\ IsSequence(o \o v)
    <3>1. IsSequence(v)
      BY SequenceOf
    <3>. QED  BY <1>1, <3>1, ConcatSequence
  <2>3. OthersIn(Append(o \o v, e)) = OthersIn(o \o v) /\ VcsIn(Append(o \o v, e)) = Append(VcsIn(o \o v), e)
    BY <2>2, RefsAppend
  <2>4. OthersIn(o \o v) = o /\ VcsIn(o \o v) = v
    BY <1>3
  <2>5. Append(v, e) \in Seq(X)
    OBVIOUS
  <2>6. OthersIn(o \o Append(v, e)) = o /\ VcsIn(o \o Append(v, e)) = Append(v, e)
    <3>. HIDE DEF o, A
    <3>. QED  BY <2>1, <2>3, <2>4
  <2>. QED  BY <2>5, <2>6
<1>. HIDE DEF A
<1>4. Seq(X) \subseteq A
  BY <1>2, <1>3, SequenceInduction
<1>. QED  BY <1>4 DEF A, IsSequence

\* The answers for these references lead somewhere.
UrlsLead(refs, answers) == \A r \in refs : answers[r[2]].final_url # ""

\* The repository URLs that are not refuted.
Unrefuted(refs, answers) == {r \in ToSet(VcsIn(refs)) : answers[r[2]].result \notin Refuted}

\* A component needs a URL if it had no source reference, or if none of its URLs remained.
NeedsUrl(b, c, x, kept) == c.needs_enrichment <=> b.needs_enrichment \/ (kept = {} /\ VcsIn(x) # <<>>)

\* What the validation makes of references: the others stay, and of the URLs that are not refuted
\* some stay, as they redirect, and no other.
RefsKept(x, y, answers, kept) ==
  /\ OthersIn(y) = OthersIn(x)
  /\ kept # {} => /\ VcsIn(y) # <<>> /\ Len(VcsIn(y)) <= Len(VcsIn(x))
                  /\ \A r \in ToSet(VcsIn(y)) : \E q \in kept : r[2] = answers[q[2]].final_url
  /\ kept = {} => VcsIn(y) = <<>>

\* What a validation makes of the references of a component.
LEMMA ReferencesValidated ==
  ASSUME NEW b, IsEntry(b), NEW x, x = b.existing_references, IsSequence(x), ~b.ignored, NEW answers,
         UrlsLead(ToSet(VcsIn(x)), answers),
         NEW c, c = AfterValidation(b, answers), c.needs_enrichment \in BOOLEAN, b.needs_enrichment \in BOOLEAN,
         NEW kept, kept = Unrefuted(x, answers),
         NEW y, y = c.existing_references
  PROVE  RefsKept(x, y, answers, kept) /\ NeedsUrl(b, c, x, kept)
<1>1. VcsRefs(b) = VcsIn(x) /\ IsSequence(VcsIn(x))
  BY OnlySequence DEF VcsRefs, VcsIn
<1>2. CASE VcsIn(x) = <<>>
  <2>1. c = b
    BY <1>1, <1>2 DEF AfterValidation
  <2>2. kept = {} /\ y = x
    BY <1>2, <2>1, EmptySet DEF Unrefuted
  <2>. QED  BY <1>2, <2>1, <2>2 DEF RefsKept, NeedsUrl
<1>3. CASE VcsIn(x) # <<>>
  <2>0. PICK s, v, w : s = Surviving(b, answers) /\ v = ValidVcs(b, answers) /\ w = Chosen(b, answers)
    OBVIOUS
  <2>1. IsSequence(s) /\ ToSet(s) = kept /\ Len(s) <= Len(VcsIn(x))
    <3>1. s = Only(VcsIn(x), kept)
      BY <1>1, <2>0 DEF Surviving, Unrefuted
    <3>2. kept \in SUBSET ToSet(VcsIn(x))
      BY DEF Unrefuted
    <3>3. ToSet(VcsIn(x)) \cap kept = kept
      BY <3>2
    <3>. QED  BY <1>1, <3>1, <3>3, OnlySequence, OnlyShorter, Zenon
  <2>2. /\ IsSequence(v) /\ Len(v) = Len(s) /\ DOMAIN v = DOMAIN s
        /\ \A i \in DOMAIN s : v[i] = <<"vcs", answers[s[i][2]].final_url>>
    <3>1. IsSequence(b.existing_references)
      OBVIOUS
    <3>. QED  BY <2>0, <3>1, ValidVcsForm
  <2>3. ASSUME NEW r \in ToSet(v) PROVE \E q \in kept : r = <<"vcs", answers[q[2]].final_url>>
    <3>1. PICK i \in DOMAIN s : v[i] = r
      BY <2>2, InSet
    <3>2. s[i] \in kept
      BY <2>1, InSet
    <3>. QED  BY <2>2, <3>1, <3>2, Zenon
  <2>4. v = <<>> <=> kept = {}
    <3>1. Len(s) \in Nat /\ DOMAIN s = 1..Len(s) /\ v \in Seq(ToSet(v))
      BY <2>1, <2>2, SequenceForm
    <3>2. CASE Len(s) = 0
      <4>1. DOMAIN s = {} /\ v = <<>>
        BY <2>2, <3>1, <3>2
      <4>2. kept = {}
        BY <2>1, <4>1, InSet
      <4>. QED  BY <4>1, <4>2
    <3>3. CASE Len(s) # 0
      <4>1. 1 \in DOMAIN s /\ v # <<>>
        BY <2>2, <3>1, <3>3
      <4>2. kept # {}
        BY <2>1, <4>1, InSet, Zenon
      <4>. QED  BY <4>1, <4>2
    <3>. QED  BY <3>2, <3>3
  <2>5. /\ IsSequence(w) /\ ToSet(w) \in SUBSET ToSet(v) /\ (w = <<>> <=> v = <<>>)
    <3>1. IsSequence(b.existing_references)
      OBVIOUS
    <3>. QED  BY <2>0, <3>1, ChosenForm
  <2>6. Len(w) <= Len(v)
    <3>1. Len(v) \in Nat
      BY <2>2, SequenceForm
    <3>2. w = v \/ (Len(v) >= 2 /\ w = <<v[1]>>)
      BY <2>0 DEF Chosen
    <3>3. CASE w = v
      BY <3>1, <3>3
    <3>4. CASE Len(v) >= 2 /\ w = <<v[1]>>
      <4>1. Len(w) = 1
        BY <3>4
      <4>. QED  BY <3>1, <3>4, <4>1
    <3>. QED  BY <3>2, <3>3, <3>4
  <2>7. /\ y = OthersIn(x) \o w
        /\ c.needs_enrichment = (b.needs_enrichment \/ v = <<>>)
    <3>1. Changes(b)
      BY <1>1, <1>3 DEF Changes
    <3>. QED  BY <2>0, <3>1, ValidatedEntry
  <2>8. ASSUME NEW r \in ToSet(w) PROVE IsVcs(r) /\ \E q \in kept : r[2] = answers[q[2]].final_url
    <3>1. PICK q \in kept : r = <<"vcs", answers[q[2]].final_url>>
      BY <2>3, <2>5
    <3>2. answers[q[2]].final_url # ""
      <4>1. q \in ToSet(VcsIn(x))
        BY DEF Unrefuted
      <4>. QED  BY <4>1, Zenon DEF UrlsLead
    <3>3. r[1] = "vcs" /\ r[2] = answers[q[2]].final_url
      BY <3>1
    <3>. QED  BY <3>2, <3>3, Zenon DEF IsVcs
  <2>9. OthersIn(y) = OthersIn(x) /\ VcsIn(y) = w
    BY <2>5, <2>7, <2>8, RefsJoined
  <2>10. Len(w) <= Len(VcsIn(x))
    <3>1. Len(w) \in Nat /\ Len(v) \in Nat /\ Len(s) \in Nat /\ Len(VcsIn(x)) \in Nat
      BY <1>1, <2>1, <2>2, <2>5, SequenceForm
    <3>. QED  BY <2>1, <2>2, <2>6, <3>1
  <2>11. c.needs_enrichment <=> (b.needs_enrichment \/ kept = {})
    BY <2>4, <2>7, Zenon
  <2>. QED  BY <1>3, <2>4, <2>5, <2>8, <2>9, <2>10, <2>11 DEF RefsKept, NeedsUrl
<1>. QED  BY <1>2, <1>3

\* A component without a source reference has no repository URL.
LEMMA NoSourceNoUrl ==
  ASSUME NEW d, NEW k, IsSequence(RefItems(d, k)), ~HasSourceReference(d.comps[k].obj)
  PROVE  VcsIn(RefItems(d, k)) = <<>>
<1>1. \A r \in ToSet(RefItems(d, k)) : ~IsVcs(r)
  BY Zenon DEF HasSourceReference, RefItems, IsVcs, SourceRefTypes
<1>. QED  BY <1>1, OnlyNone DEF VcsIn

\* Where an entry comes from.
LEMMA EntryHistory ==
  ASSUME given \in EnrichDocuments, NEW g, g = given, NEW cs, cs = Validated, NEW ini, ini = Initial, NEW c \in ToSet(cs)
  PROVE  \E k \in DOMAIN g.comps, b \in ToSet(ini) :
           /\ Entry(g, k, b) /\ Fresh(g, k, b) /\ Entry(g, k, c) /\ c.ignored = b.ignored
           /\ job.validate => c = AfterValidation(b, verdicts)
           /\ ~job.validate => c = b
<1>1. Sound(g) /\ EntriesOf(g, ini) /\ Uploaded(g, ini) /\ EntriesOf(g, cs)
  BY InitialForm, ValidatedForm
<1>2. Tree(g, Len(g.comps)) /\ DOMAIN g.comps = 1..Len(g.comps) /\ IsSequence(g.comps)
  BY <1>1, SoundHasParts DEF SoundParts, Tree
<1>3. /\ DOMAIN cs = DOMAIN ini
      /\ \A i \in DOMAIN ini : /\ job.validate => cs[i] = AfterValidation(ini[i], verdicts)
                               /\ ~job.validate => cs[i] = ini[i]
  <2>. HIDE DEF Initial
  <2>. QED  BY DEF Validated
<1>4. PICK i \in DOMAIN ini : cs[i] = c
  BY <1>3, InSet
<1>5. PICK b : b = ini[i]
  OBVIOUS
<1>6. PICK k \in DOMAIN g.comps : Entry(g, k, b) /\ Fresh(g, k, b)
  BY <1>1, <1>4, <1>5 DEF Uploaded
<1>7. b \in ToSet(ini)
  BY <1>4, <1>5, InSet
<1>8. PICK h \in DOMAIN g.comps : Entry(g, h, c)
  BY <1>1, EntriesLocated
<1>9. (job.validate => c = AfterValidation(b, verdicts)) /\ (~job.validate => c = b)
  BY <1>3, <1>4, <1>5
<1>10. c.path = b.path /\ c.ignored = b.ignored
  <2>1. IsEntry(b) /\ IsSequence(b.existing_references)
    BY <1>6 DEF Entry
  <2>2. SameEntry(b, AfterValidation(b, verdicts)) /\ AfterValidation(b, verdicts).ignored = b.ignored
    BY <2>1, ValidatedEntry
  <2>3. CASE job.validate
    BY <1>9, <2>2, <2>3 DEF SameEntry
  <2>4. CASE ~job.validate
    BY <1>9, <2>4
  <2>. QED  BY <2>3, <2>4
<1>11. h = k
  BY <1>2, <1>6, <1>8, <1>10, PlaceInjective, Zenon DEF Entry
<1>. QED  BY <1>6, <1>7, <1>8, <1>9, <1>10, <1>11

\* The references a component ends with.
Ended(c, found) ==
  IF c.needs_enrichment /\ SafeKey(c.purl) \in found
    THEN Append(c.existing_references, <<"vcs", RepositoryUrl[SafeKey(c.purl)]>>)
    ELSE c.existing_references

\* A component with the same object is the same.
LEMMA SameObject ==
  ASSUME NEW d, NEW e, Sound(d), NewObjects(d, e), NEW i \in DOMAIN d.comps, e.comps[i].obj = d.comps[i].obj
  PROVE  e.comps[i] = d.comps[i]
<1>1. /\ e.comps[i] = [id |-> d.comps[i].id, up |-> d.comps[i].up, dict |-> d.comps[i].dict,
                       obj |-> d.comps[i].obj]
  BY DEF NewObjects
<1>2. d.comps[i] = [id |-> d.comps[i].id, up |-> d.comps[i].up, dict |-> d.comps[i].dict,
                    obj |-> d.comps[i].obj]
  <2>1. SoundComponent(d.comps[i])
    BY SoundHasParts DEF SoundParts
  <2>. QED  BY <2>1 DEF SoundComponent, IsComponent
<1>. QED  BY <1>1, <1>2

\* What the last step of a job leaves of a component: all of it if every entry of it is ignored,
\* or the references of its entry and the one that was found.
LEMMA FinishKeeps ==
  ASSUME FinishEnds, NEW g, g = given, NEW cs, cs = collected, NEW r, r = sbom', NEW id \in Ids(r)
  PROVE  \E k \in DOMAIN g.comps :
           /\ g.comps[k].id = id /\ Component(g, id) = g.comps[k]
           /\ (\A c \in ToSet(cs) : At(g, c.path) = id => c.ignored) => Component(r, id) = g.comps[k]
           /\ \A c \in ToSet(cs) : At(g, c.path) = id /\ ~c.ignored =>
                /\ Entry(g, k, c)
                /\ RefsOf(r, id) = Ended(c, resolved)
<1>1. PICK s, t : s = sbom /\ t = removed'
  OBVIOUS
<1>2. PICK e :
           /\ Sound(g) /\ EntriesOf(g, cs) /\ Sound(s) /\ NewObjects(g, s) /\ SameTree(g, s)
           /\ e = BumpVersion(EnrichSbom(s, cs)) /\ Sound(e) /\ SameTree(g, e)
           /\ IsSequence(t) /\ Descends(t)
           /\ \A c \in ToSet(t) : c \in ToSet(cs) /\ ~c.has_subcomponents
           /\ r = RemoveComponents(e, t)
  BY <1>1, FinishForm
<1>3. PICK k \in DOMAIN g.comps : g.comps[k].id = id /\ e.comps[k].id = id /\ Component(r, id) = e.comps[k]
  BY <1>2, RemovedForm
<1>4. Component(g, id) = g.comps[k]
  BY <1>2, <1>3, ComponentIs
<1>5. /\ Tree(g, Len(g.comps)) /\ DOMAIN g.comps = 1..Len(g.comps) /\ IsSequence(g.comps)
      /\ Located(g, cs) /\ \A c \in ToSet(cs) : \E h \in DOMAIN g.comps : Entry(g, h, c)
  BY <1>2, SoundHasParts, EntriesLocated, Zenon DEF SoundParts, Tree
<1>6. At(g, Place(g, k)) = id
  BY <1>3, <1>5, AtPlace
<1>7. ASSUME NEW c \in ToSet(cs), At(g, c.path) = id PROVE c.path = Place(g, k) /\ Entry(g, k, c)
  <2>1. PICK h \in DOMAIN g.comps : Entry(g, h, c)
    BY <1>5
  <2>2. c.path = Place(g, h)
    BY <2>1 DEF Entry
  <2>3. g.comps[h].id = id
    BY <1>5, <1>7, <2>2, AtPlace
  <2>4. h = k
    BY <1>3, <1>5, <2>3 DEF Tree
  <2>. QED  BY <2>1, <2>2, <2>4
<1>8. /\ NewObjects(g, e)
      /\ (\A c \in ToSet(cs) : c.path = Place(g, k) => ~FoundPlan(cs)[c].on) => e.comps[k].obj = s.comps[k].obj
      /\ \A c \in ToSet(cs) : c.path = Place(g, k) /\ FoundPlan(cs)[c].on =>
           e.comps[k].obj = Put(s.comps[k].obj, "externalReferences", ListOf(FoundPlan(cs)[c].refs))
  BY <1>2, <1>3, EnrichedForm
<1>9. /\ job.validate => Written(g, SyncPlan(cs), cs, s)
      /\ ~job.validate => s = g
  BY <1>1, StageForms DEF FinishEnds
<1>10. \A c \in ToSet(cs) :
         /\ FoundPlan(cs)[c].on = (c.needs_enrichment /\ SafeKey(c.purl) \in resolved)
         /\ FoundPlan(cs)[c].refs = Append(c.existing_references, <<"vcs", RepositoryUrl[SafeKey(c.purl)]>>)
         /\ SyncPlan(cs)[c].on = ~c.ignored
         /\ SyncPlan(cs)[c].refs = c.existing_references
  BY DEF FoundPlan, SyncPlan
<1>11. ASSUME \A c \in ToSet(cs) : At(g, c.path) = id => c.ignored PROVE Component(r, id) = g.comps[k]
  <2>1. \A c \in ToSet(cs) : c.path = Place(g, k) => c.ignored
    BY <1>6, <1>11
  <2>2. \A c \in ToSet(cs) : c.path = Place(g, k) => ~c.needs_enrichment
    <3>1. \A c \in ToSet(cs) : c.ignored => ~c.needs_enrichment
      BY <1>5 DEF Entry
    <3>. QED  BY <2>1, <3>1
  <2>3. \A c \in ToSet(cs) : c.path = Place(g, k) => ~FoundPlan(cs)[c].on /\ ~SyncPlan(cs)[c].on
    BY <1>10, <2>1, <2>2, Zenon
  <2>4. e.comps[k].obj = s.comps[k].obj
    BY <1>8, <2>3
  <2>5. s.comps[k].obj = g.comps[k].obj
    <3>1. CASE job.validate
      BY <1>9, <2>3, <3>1 DEF Written
    <3>2. CASE ~job.validate
      BY <1>9, <3>2
    <3>. QED  BY <3>1, <3>2
  <2>6. e.comps[k] = g.comps[k]
    BY <1>2, <1>8, <2>4, <2>5, SameObject
  <2>. QED  BY <1>3, <2>6
<1>12. ASSUME NEW c \in ToSet(cs), At(g, c.path) = id, ~c.ignored
       PROVE  Entry(g, k, c) /\ RefsOf(r, id) = Ended(c, resolved)
  <2>1. Entry(g, k, c) /\ c.path = Place(g, k) /\ IsSequence(c.existing_references)
    BY <1>7, <1>12 DEF Entry
  <2>2. \A b \in ToSet(cs) : b.path = Place(g, k) => b = c
    BY <1>5, <2>1 DEF Located
  <2>3. \A d \in {g, s} : IsSequence(d.comps[k].obj) /\ OneMemberPerKey(d.comps[k].obj)
    <3>1. \A d \in {g, s} : k \in DOMAIN d.comps /\ SoundParts(d)
      BY <1>2, SoundHasParts DEF SameTree
    <3>2. \A d \in {g, s} : SoundComponent(d.comps[k])
      BY <3>1 DEF SoundParts
    <3>3. \A x : SoundComponent(x) => IsSequence(x.obj) /\ OneMemberPerKey(x.obj)
      BY DEF SoundComponent, IsComponent, IsObject
    <3>. QED  BY <3>2, <3>3
  <2>4. RefItems(s, k) = c.existing_references
    <3>1. CASE job.validate
      <4>1. s.comps[k].obj = Put(g.comps[k].obj, "externalReferences", ListOf(c.existing_references))
        <5>1. SyncPlan(cs)[c].on /\ SyncPlan(cs)[c].refs = c.existing_references
          BY <1>10, <1>12, Zenon
        <5>2. \A i \in DOMAIN g.comps : \A b \in ToSet(cs) : b.path = Place(g, i) /\ SyncPlan(cs)[b].on =>
                s.comps[i].obj = Put(g.comps[i].obj, "externalReferences", ListOf(SyncPlan(cs)[b].refs))
          BY <1>9, <3>1 DEF Written
        <5>. QED  BY <2>1, <5>1, <5>2
      <4>2. Get(s.comps[k].obj, "externalReferences") = ListOf(c.existing_references)
        BY <2>3, <4>1, PutGet
      <4>. QED  BY <2>1, <4>2, ListValue DEF RefItems
    <3>2. CASE ~job.validate
      <4>1. PICK ini : ini = Initial
        OBVIOUS
      <4>2. PICK h \in DOMAIN g.comps, b \in ToSet(ini) :
              Entry(g, h, b) /\ Fresh(g, h, b) /\ Entry(g, h, c) /\ c = b
        <5>1. given \in EnrichDocuments /\ cs = Validated
          BY StageForms DEF FinishEnds
        <5>. QED  BY <3>2, <4>1, <5>1, EntryHistory
      <4>3. h = k
        <5>1. Place(g, h) = Place(g, k)
          BY <2>1, <4>2 DEF Entry
        <5>. QED  BY <1>5, <5>1, PlaceInjective
      <4>. QED  BY <1>9, <3>2, <4>2, <4>3 DEF Fresh, RefItems
    <3>. QED  BY <3>1, <3>2
  <2>5. CASE c.needs_enrichment /\ SafeKey(c.purl) \in resolved
    <3>. DEFINE refs == Append(c.existing_references, <<"vcs", RepositoryUrl[SafeKey(c.purl)]>>)
    <3>1. e.comps[k].obj = Put(s.comps[k].obj, "externalReferences", ListOf(refs))
      <4>1. FoundPlan(cs)[c].on /\ FoundPlan(cs)[c].refs = refs
        BY <1>10, <2>5, Zenon
      <4>. QED  BY <1>8, <2>1, <4>1, Zenon
    <3>2. IsSequence(refs)
      BY <2>1, AppendSequence
    <3>3. Ended(c, resolved) = refs
      BY <2>5 DEF Ended
    <3>. HIDE DEF refs
    <3>4. Get(e.comps[k].obj, "externalReferences").items = refs
      BY <2>3, <3>1, <3>2, PutGet, ListValue
    <3>. QED  BY <1>3, <2>1, <3>3, <3>4 DEF RefsOf
  <2>6. CASE ~(c.needs_enrichment /\ SafeKey(c.purl) \in resolved)
    <3>1. e.comps[k].obj = s.comps[k].obj
      <4>1. ~FoundPlan(cs)[c].on
        BY <1>10, <2>6, Zenon
      <4>. QED  BY <1>8, <2>2, <4>1
    <3>2. Ended(c, resolved) = c.existing_references
      BY <2>6 DEF Ended
    <3>. QED  BY <1>3, <2>1, <2>4, <3>1, <3>2 DEF RefsOf, RefItems
  <2>. QED  BY <2>1, <2>5, <2>6
<1>. QED  BY <1>3, <1>4, <1>11, <1>12

\* What ReferencesAccounted says of one component.
AccountedFor(g, r, c, id, validate, answers, res) ==
  LET found == {<<"vcs", RepositoryUrl[key]>> : key \in {SafeKey(c.purl)} \cap res}
      Survivor(u) == IF validate THEN answers[u].result \notin Refuted ELSE TRUE
      Target(u) == IF validate THEN answers[u].final_url ELSE u
      old == VcsOf(g, id)
      kept == {q[2] : q \in {q \in ToSet(old) : Survivor(q[2])}}
      new == VcsOf(r, id)
  IN /\ OthersIn(RefsOf(r, id)) = OthersIn(RefsOf(g, id))
     /\ kept # {} => /\ new # <<>> /\ Len(new) <= Len(old)
                     /\ \A q \in ToSet(new) : \E u \in kept : q[2] = Target(u)
     /\ kept = {} => ToSet(new) \subseteq found
     /\ c.needs_enrichment => ToSet(new) = found /\ Len(new) <= 1

Accounted(g, r, cs, validate, answers, res) ==
  /\ \A id \in Ids(r) :
       (\A c \in ToSet(cs) : At(g, c.path) = id => c.ignored) => Component(r, id) = Component(g, id)
  /\ \A c \in ToSet(cs) :
       At(g, c.path) \in Ids(r) /\ ~c.ignored => AccountedFor(g, r, c, At(g, c.path), validate, answers, res)

\* The invariant in terms of the values of a state.
LEMMA AccountedIs ==
  ReferencesAccounted <=> (Done => Accounted(given, sbom, collected, job.validate, verdicts, resolved))
  BY DEF ReferencesAccounted, Accounted, AccountedFor, IdAt

\* A single reference.
LEMMA OneReference == \A x : ToSet(<<x>>) = {x} /\ Len(<<x>>) = 1 /\ <<x>> # <<>>
<1>. TAKE x
<1>1. <<>> \in Seq({x}) /\ <<x>> = Append(<<>>, x)
  OBVIOUS
<1>2. ToSet(<<x>>) = {x}
  BY DEF ToSet
<1>. QED  BY <1>2

\* The reference that was found for a component.
FoundRefs(c, res) == {<<"vcs", RepositoryUrl[key]>> : key \in {SafeKey(c.purl)} \cap res}

\* It is a repository URL.
FoundIsVcs(c, res) == SafeKey(c.purl) \in res => IsVcs(<<"vcs", RepositoryUrl[SafeKey(c.purl)]>>)

\* The URLs of an entry that is not ignored are validated.
LEMMA UrlsCollected ==
  ASSUME NEW cs, NEW b \in ToSet(cs), ~b.ignored, NEW q \in ToSet(VcsRefs(b))
  PROVE  q[2] \in UniqueUrls(cs)
  BY DEF UniqueUrls

\* What is found is a reference to a repository.
LEMMA FoundUrl == \A p \in DOMAIN PurlKey : IsVcs(<<"vcs", RepositoryUrl[PurlKey[p]]>>)
  BY UrlsAssumption, Zenon DEF IsVcs

\* The references after the validation and those at the end.
LEMMA EndedReferences ==
  ASSUME NEW x, NEW z, IsSequence(z), NEW c, c.existing_references = z, c.needs_enrichment \in BOOLEAN,
         NEW res, NEW kept, c.needs_enrichment => kept = {},
         FoundIsVcs(c, res),
         OthersIn(z) = OthersIn(x), kept = {} => VcsIn(z) = <<>>,
         NEW y, y = Ended(c, res)
  PROVE  /\ OthersIn(y) = OthersIn(x)
         /\ kept # {} => y = z
         /\ kept = {} => ToSet(VcsIn(y)) \subseteq FoundRefs(c, res)
         /\ c.needs_enrichment => ToSet(VcsIn(y)) = FoundRefs(c, res) /\ Len(VcsIn(y)) <= 1
<1>. DEFINE key == SafeKey(c.purl)
            ref == <<"vcs", RepositoryUrl[key]>>
            found == FoundRefs(c, res)
<1>1. CASE c.needs_enrichment /\ key \in res
  <2>1. y = Append(z, ref)
    BY <1>1 DEF Ended
  <2>2. IsVcs(ref)
    BY <1>1 DEF FoundIsVcs
  <2>3. OthersIn(y) = OthersIn(z) /\ VcsIn(y) = Append(VcsIn(z), ref)
    <3>. HIDE DEF ref
    <3>. QED  BY <2>1, <2>2, RefsAppend
  <2>4. kept = {} /\ VcsIn(z) = <<>>
    BY <1>1
  <2>5. VcsIn(y) = <<ref>>
    <3>. HIDE DEF ref
    <3>1. Append(<<>>, ref) = <<ref>>
      OBVIOUS
    <3>. QED  BY <2>3, <2>4, <3>1
  <2>6. found = {ref}
    BY <1>1 DEF FoundRefs
  <2>7. ToSet(VcsIn(y)) = {ref} /\ Len(VcsIn(y)) = 1
    <3>. HIDE DEF ref
    <3>. QED  BY <2>5, OneReference
  <2>. HIDE DEF ref, key, found
  <2>8. 1 <= 1
    OBVIOUS
  <2>9. ToSet(VcsIn(y)) = found /\ Len(VcsIn(y)) <= 1 /\ ToSet(VcsIn(y)) \subseteq found
    BY <2>6, <2>7, <2>8
  <2>. QED  BY <2>3, <2>4, <2>9 DEF found, key
<1>2. CASE ~(c.needs_enrichment /\ key \in res)
  <2>1. y = z
    BY <1>2 DEF Ended
  <2>2. kept = {} => VcsIn(y) = <<>> /\ ToSet(VcsIn(y)) = {}
    BY <2>1, EmptySet
  <2>3. c.needs_enrichment => found = {}
    BY <1>2 DEF FoundRefs
  <2>4. Len(<<>>) = 0 /\ 0 <= 1
    OBVIOUS
  <2>. HIDE DEF found
  <2>5. c.needs_enrichment => ToSet(VcsIn(y)) = found /\ Len(VcsIn(y)) <= 1
    BY <2>2, <2>3, <2>4, Zenon
  <2>6. kept = {} => ToSet(VcsIn(y)) \subseteq found
    BY <2>2
  <2>. QED  BY <2>1, <2>5, <2>6 DEF found
<1>. QED  BY <1>1, <1>2

\* What ReferencesAccounted says of the references x of a component and those y it ends with.
RefsEnd(x, y, c, validate, answers, res) ==
  LET Survivor(u) == IF validate THEN answers[u].result \notin Refuted ELSE TRUE
      Target(u) == IF validate THEN answers[u].final_url ELSE u
      kept == {q[2] : q \in {q \in ToSet(VcsIn(x)) : Survivor(q[2])}}
  IN /\ OthersIn(y) = OthersIn(x)
     /\ kept # {} => /\ VcsIn(y) # <<>> /\ Len(VcsIn(y)) <= Len(VcsIn(x))
                     /\ \A q \in ToSet(VcsIn(y)) : \E u \in kept : q[2] = Target(u)
     /\ kept = {} => ToSet(VcsIn(y)) \subseteq FoundRefs(c, res)
     /\ c.needs_enrichment => ToSet(VcsIn(y)) = FoundRefs(c, res) /\ Len(VcsIn(y)) <= 1

\* c is what the validation makes of the entry b that was collected with the references x.
RefsStart(b, x, c, validate, answers, res) ==
  /\ IsEntry(b) /\ ~b.ignored /\ b.needs_enrichment \in BOOLEAN
  /\ x = b.existing_references /\ IsSequence(x) /\ (b.needs_enrichment => VcsIn(x) = <<>>)
  /\ validate \in BOOLEAN /\ (validate => UrlsLead(ToSet(VcsIn(x)), answers))
  /\ c.needs_enrichment \in BOOLEAN /\ IsSequence(c.existing_references)
  /\ validate => c = AfterValidation(b, answers)
  /\ ~validate => c = b
  /\ FoundIsVcs(c, res)

\* The references of a component, from those it was uploaded with to those it ends with.
LEMMA RefsAccounted ==
  ASSUME NEW b, NEW x, NEW c, NEW validate, NEW answers, NEW res, RefsStart(b, x, c, validate, answers, res),
         NEW y, y = Ended(c, res)
  PROVE  RefsEnd(x, y, c, validate, answers, res)
<1>0. PICK z : z = c.existing_references
  OBVIOUS
<1>1. /\ x = b.existing_references /\ IsSequence(x) /\ IsEntry(b) /\ ~b.ignored
      /\ b.needs_enrichment \in BOOLEAN /\ c.needs_enrichment \in BOOLEAN
  BY DEF RefsStart
<1>2. IsSequence(z) /\ (b.needs_enrichment => VcsIn(x) = <<>>)
  BY <1>0 DEF RefsStart
<1>. DEFINE Survivor(u) == IF validate THEN answers[u].result \notin Refuted ELSE TRUE
            Target(u) == IF validate THEN answers[u].final_url ELSE u
            refs == {q \in ToSet(VcsIn(x)) : Survivor(q[2])}
            kept == {q[2] : q \in refs}
<1>10. /\ OthersIn(z) = OthersIn(x)
       /\ refs # {} => /\ VcsIn(z) # <<>> /\ Len(VcsIn(z)) <= Len(VcsIn(x))
                       /\ \A q \in ToSet(VcsIn(z)) : \E p \in refs : q[2] = Target(p[2])
       /\ refs = {} => VcsIn(z) = <<>>
       /\ c.needs_enrichment => refs = {}
  <2>1. CASE validate
    <3>1. refs = Unrefuted(x, answers) /\ \A u : Target(u) = answers[u].final_url
      BY <2>1 DEF Unrefuted
    <3>0. PICK left : left = Unrefuted(x, answers)
      OBVIOUS
    <3>. HIDE DEF refs, Target
    <3>3. RefsKept(x, z, answers, left) /\ (c.needs_enrichment <=> b.needs_enrichment \/ (left = {} /\ VcsIn(x) # <<>>))
      <4>1. UrlsLead(ToSet(VcsIn(x)), answers) /\ c = AfterValidation(b, answers)
        BY <2>1 DEF RefsStart
      <4>2. RefsKept(x, z, answers, left)
        BY <1>0, <1>1, <3>0, <4>1, ReferencesValidated
      <4>3. NeedsUrl(b, c, x, left)
        BY <1>0, <1>1, <3>0, <4>1, ReferencesValidated
      <4>. QED  BY <4>2, <4>3 DEF NeedsUrl
    <3>4. /\ OthersIn(z) = OthersIn(x)
          /\ left # {} => /\ VcsIn(z) # <<>> /\ Len(VcsIn(z)) <= Len(VcsIn(x))
                          /\ \A q \in ToSet(VcsIn(z)) : \E p \in left : q[2] = answers[p[2]].final_url
          /\ left = {} => VcsIn(z) = <<>>
      BY <3>3 DEF RefsKept
    <3>5. VcsIn(x) = <<>> => left = {}
      BY <3>0, EmptySet DEF Unrefuted
    <3>6. c.needs_enrichment => left = {}
      BY <1>2, <3>3, <3>5
    <3>7. left # {} => \A q \in ToSet(VcsIn(z)) : \E p \in left : q[2] = Target(p[2])
      BY <3>1, <3>4
    <3>8. left = refs
      BY <3>0, <3>1
    <3>. QED  BY <3>4, <3>6, <3>7, <3>8
  <2>2. CASE ~validate
    <3>1. refs = ToSet(VcsIn(x)) /\ \A u : Target(u) = u
      BY <2>2
    <3>2. c = b /\ z = x
      BY <1>0, <1>1, <2>2 DEF RefsStart
    <3>. HIDE DEF refs, Target
    <3>3. IsSequence(VcsIn(x)) /\ Len(VcsIn(x)) \in Nat /\ VcsIn(x) \in Seq(refs)
      BY <1>1, <3>1, OnlySequence, SequenceForm DEF VcsIn
    <3>4. VcsIn(x) = <<>> <=> refs = {}
      <4>1. VcsIn(x) = <<>> => refs = {}
        BY <3>1, EmptySet
      <4>2. refs = {} => VcsIn(x) = <<>>
        BY <3>3
      <4>. QED  BY <4>1, <4>2
    <3>5. Len(VcsIn(z)) <= Len(VcsIn(x))
      BY <3>2, <3>3
    <3>6. \A q \in ToSet(VcsIn(z)) : \E p \in refs : q[2] = Target(p[2])
      BY <3>1, <3>2
    <3>. QED  BY <1>2, <3>2, <3>4, <3>5, <3>6
  <2>3. validate \in BOOLEAN
    BY DEF RefsStart
  <2>. QED  BY <2>1, <2>2, <2>3
<1>. HIDE DEF refs, Target
<1>11. PICK urls : urls = kept
  BY Zenon
<1>12. (kept = {} <=> refs = {}) /\ \A q \in refs : q[2] \in kept
  BY Zenon
<1>. HIDE DEF kept
<1>13. (urls = {} => VcsIn(z) = <<>>) /\ (c.needs_enrichment => urls = {})
  BY <1>10, <1>11, <1>12
<1>3. OthersIn(z) = OthersIn(x)
  BY <1>10
<1>14. /\ OthersIn(y) = OthersIn(x)
       /\ urls # {} => y = z
       /\ urls = {} => ToSet(VcsIn(y)) \subseteq FoundRefs(c, res)
       /\ c.needs_enrichment => ToSet(VcsIn(y)) = FoundRefs(c, res) /\ Len(VcsIn(y)) <= 1
  <2>1. FoundIsVcs(c, res)
    BY DEF RefsStart
  <2>2. c.needs_enrichment \in BOOLEAN /\ IsSequence(z)
    BY <1>1, <1>2
  <2>. QED  BY <1>0, <1>3, <1>13, <2>1, <2>2, EndedReferences
<1>15. kept # {} => /\ VcsIn(y) # <<>> /\ Len(VcsIn(y)) <= Len(VcsIn(x))
                   /\ \A q \in ToSet(VcsIn(y)) : \E u \in kept : q[2] = Target(u)
  BY <1>10, <1>11, <1>12, <1>14
<1>. QED  BY <1>11, <1>14, <1>15, Zenon DEF RefsEnd, refs, Target, kept

\* Each component of a finished document is accounted for.
LEMMA OneAccounted ==
  ASSUME FinishEnds, NEW g, g = given, NEW cs, cs = collected, NEW r, r = sbom', NEW answers, answers = verdicts,
         NEW validate, validate = job.validate, NEW res, res = resolved,
         NEW c \in ToSet(cs), ~c.ignored, NEW id, id = At(g, c.path), id \in Ids(r)
  PROVE  AccountedFor(g, r, c, id, validate, answers, res)
<1>1. given \in EnrichDocuments /\ cs = Validated /\ Stages
  BY StageForms DEF FinishEnds
<1>2. PICK k \in DOMAIN g.comps :
        /\ g.comps[k].id = id /\ Component(g, id) = g.comps[k]
        /\ Entry(g, k, c) /\ RefsOf(r, id) = Ended(c, res)
  BY FinishKeeps
<1>3. PICK ini : ini = Initial
  OBVIOUS
<1>4. PICK h \in DOMAIN g.comps, b \in ToSet(ini) :
        /\ Entry(g, h, b) /\ Fresh(g, h, b) /\ Entry(g, h, c) /\ c.ignored = b.ignored
        /\ job.validate => c = AfterValidation(b, verdicts)
        /\ ~job.validate => c = b
  BY <1>1, <1>3, EntryHistory
<1>5. h = k
  <2>1. Place(g, h) = Place(g, k)
    BY <1>2, <1>4 DEF Entry
  <2>2. Tree(g, Len(g.comps)) /\ DOMAIN g.comps = 1..Len(g.comps) /\ IsSequence(g.comps)
    BY <1>1, InitialForm, SoundHasParts, Zenon DEF SoundParts, Tree
  <2>. QED  BY <2>1, <2>2, PlaceInjective
<1>6. PICK x, z, y : x = RefItems(g, k) /\ z = c.existing_references /\ y = RefsOf(r, id)
  OBVIOUS
<1>7. RefsOf(g, id) = x /\ b.existing_references = x
  BY <1>2, <1>4, <1>5, <1>6 DEF Fresh, RefsOf, RefItems
<1>7a. x = b.existing_references
  BY <1>7
<1>7b. z = c.existing_references
  BY <1>6
<1>8. /\ IsSequence(x) /\ IsSequence(z) /\ IsEntry(b)
      /\ ~b.ignored /\ b.needs_enrichment \in BOOLEAN /\ c.needs_enrichment \in BOOLEAN
  BY <1>4, <1>6, <1>7 DEF Entry
<1>9. b.needs_enrichment => VcsIn(x) = <<>>
  <2>1. b.needs_enrichment => ~HasSourceReference(g.comps[k].obj)
    BY <1>4, <1>5, <1>8, Zenon DEF Fresh
  <2>. QED  BY <1>6, <1>8, <2>1, NoSourceNoUrl
<1>10. validate => UrlsLead(ToSet(VcsIn(x)), answers)
  <2>1. \A q \in ToSet(VcsIn(x)) : q[2] \in UniqueUrls(ini)
    BY <1>4, <1>7, <1>8, UrlsCollected DEF VcsRefs
  <2>2. validate => Answered
    BY <1>1 DEF Stages, FinishEnds
  <2>3. validate => \A u \in UniqueUrls(ini) : answers[u].final_url # ""
    BY <1>3, <2>2, Zenon DEF Answered
  <2>. QED  BY <2>1, <2>3, Zenon DEF UrlsLead
<1>11. FoundIsVcs(c, res)
  <2>1. res \in SUBSET UniqueKeys(cs)
    BY <1>1 DEF Stages, FinishEnds
  <2>2. \A key \in UniqueKeys(cs) : \E p \in DOMAIN PurlKey : key = PurlKey[p]
    BY DEF UniqueKeys
  <2>. QED  BY <2>1, <2>2, FoundUrl DEF FoundIsVcs
<1>12. validate \in BOOLEAN
  <2>1. job \in JobOptions
    BY <1>1 DEF Stages, FinishEnds
  <2>. QED  BY <2>1, JobOptionsAssumption
<1>13. /\ validate => c = AfterValidation(b, answers)
       /\ ~validate => c = b
  BY <1>4
<1>14. y = Ended(c, res)
  BY <1>2, <1>6
<1>15. RefsEnd(x, y, c, validate, answers, res)
  <2>1. RefsStart(b, x, c, validate, answers, res)
    BY <1>7a, <1>7b, <1>8, <1>9, <1>10, <1>11, <1>12, <1>13 DEF RefsStart
  <2>. QED  BY <1>14, <2>1, RefsAccounted
<1>. QED  BY <1>6, <1>7, <1>15, Zenon DEF AccountedFor, RefsEnd, VcsOf, FoundRefs

\* The references of the components that remain are those that were uploaded, without the
\* refuted ones, and those that were found (sbom_enrichment.py, enricher.py), in every document
\* and with every choice of options and answers.
THEOREM ReferencesAreAccounted == Spec => []ReferencesAccounted
<1>1. Init => ReferencesAccounted
  BY DEF Init, EnrichInit, NoEnrich, ReferencesAccounted, Done
<1>2. ASSUME Stages, ReferencesAccounted, [Next]_vars PROVE ReferencesAccounted'
  <2>. SUFFICES ASSUME Done' PROVE Accounted(given, sbom, collected, job.validate, verdicts, resolved)'
    BY Zenon DEF ReferencesAccounted, Accounted, AccountedFor, IdAt
  <2>1. CASE FinishEnds
    <3>1. given' = given /\ job' = job /\ collected' = collected /\ resolved' = resolved /\ verdicts' = verdicts
      BY <2>1 DEF FinishEnds
    <3>2. PICK g, cs, r, answers, validate, res :
            g = given /\ cs = collected /\ r = sbom' /\ answers = verdicts /\ validate = job.validate /\ res = resolved
      OBVIOUS
    <3>3. ASSUME NEW id \in Ids(r), \A c \in ToSet(cs) : At(g, c.path) = id => c.ignored
          PROVE  Component(r, id) = Component(g, id)
      BY <2>1, <3>2, <3>3, FinishKeeps
    <3>4. ASSUME NEW c \in ToSet(cs), At(g, c.path) \in Ids(r), ~c.ignored
          PROVE  AccountedFor(g, r, c, At(g, c.path), validate, answers, res)
      BY <2>1, <3>2, <3>4, OneAccounted
    <3>5. Accounted(g, r, cs, validate, answers, res)
      BY <3>3, <3>4 DEF Accounted
    <3>. QED  BY <3>1, <3>2, <3>5
  <2>2. CASE Done /\ UNCHANGED enrichVars
    <3>1. given' = given /\ sbom' = sbom /\ job' = job /\ collected' = collected /\ resolved' = resolved
          /\ verdicts' = verdicts /\ phase' = phase
      BY <2>2 DEF enrichVars
    <3>2. Accounted(given, sbom, collected, job.validate, verdicts, resolved)
      BY <1>2, <2>2, AccountedIs
    <3>. QED  BY <3>1, <3>2
  <2>. QED  BY <1>2, <2>1, <2>2, OnlyFinishEnds
<1>. QED  BY <1>1, <1>2, JobsFollowStages, PTL DEF Spec

-----------------------------------------------------------------------------
(* The report.                                                             *)

\* At most one entry of s is in S.
LEMMA OnlyOne ==
  ASSUME NEW s, IsSequence(s), NEW S, \A i, j \in DOMAIN s : s[i] \in S /\ s[j] \in S => i = j
  PROVE  Len(Only(s, S)) <= 1
<1>. DEFINE X == ToSet(s)
            One(t) == \A i, j \in DOMAIN t : t[i] \in S /\ t[j] \in S => i = j
            A == {t \in Seq(X) : One(t) => Len(Only(t, S)) <= 1}
<1>1. <<>> \in A
  <2>1. Len(Only(<<>>, S)) = 0 /\ <<>> \in Seq(X)
    BY OnlyEmpty
  <2>. HIDE DEF One
  <2>. QED  BY <2>1
<1>2. ASSUME NEW t \in Seq(X), NEW e \in X, t \in A PROVE Append(t, e) \in A
  <2>. HIDE DEF One
  <2>. SUFFICES ASSUME One(Append(t, e)) PROVE Len(Only(Append(t, e), S)) <= 1
    OBVIOUS
  <2>. DEFINE u == Append(t, e)
              n == Len(t)
  <2>1. n \in Nat /\ DOMAIN t = 1..n /\ DOMAIN u = 1..n + 1 /\ u[n + 1] = e /\ \A i \in 1..n : u[i] = t[i]
    OBVIOUS
  <2>2. Only(u, S) = IF e \in S THEN Append(Only(t, S), e) ELSE Only(t, S)
    BY OnlyNext
  <2>3. Only(t, S) \in Seq(X) /\ ToSet(Only(t, S)) = ToSet(t) \cap S
    BY OnlyType, Zenon
  <2>. HIDE DEF u, n
  <2>4. One(t)
    <3>. SUFFICES ASSUME NEW i \in DOMAIN t, NEW j \in DOMAIN t, t[i] \in S, t[j] \in S PROVE i = j
      BY DEF One
    <3>1. i \in DOMAIN u /\ j \in DOMAIN u /\ u[i] = t[i] /\ u[j] = t[j]
      BY <2>1
    <3>. QED  BY <3>1 DEF u, One
  <2>5. Len(Only(t, S)) <= 1
    BY <1>2, <2>4
  <2>6. CASE e \in S
    <3>1. ToSet(t) \cap S = {}
      <4>. SUFFICES ASSUME NEW m \in ToSet(t), m \in S PROVE FALSE
        OBVIOUS
      <4>1. PICK i \in 1..n : t[i] = m
        BY <2>1, InSet
      <4>2. u[i] \in S /\ u[n + 1] \in S /\ i \in DOMAIN u /\ n + 1 \in DOMAIN u /\ i # n + 1
        BY <2>1, <2>6, <4>1
      <4>. QED  BY <4>2 DEF u, One
    <3>2. Only(t, S) \in Seq({})
      <4>1. IsSequence(Only(t, S))
        BY <2>3, SequenceOf
      <4>. QED  BY <2>3, <3>1, <4>1 DEF IsSequence
    <3>3. Len(Only(t, S)) = 0
      BY <3>2
    <3>. QED  BY <2>2, <2>3, <2>6, <3>3 DEF u
  <2>7. CASE e \notin S
    BY <2>2, <2>5, <2>7 DEF u
  <2>. QED  BY <2>6, <2>7
<1>. HIDE DEF A
<1>3. Seq(X) \subseteq A
  BY <1>1, <1>2, SequenceInduction
<1>4. s \in Seq(X)
  BY DEF IsSequence
<1>. QED  BY <1>3, <1>4 DEF A

MainStatus == {"found", "not_found", "ignored"}

\* What build_report has after the entries of t: one row for a key, unless it is removed.
Reported(t, gone, found, seen, rows) ==
  /\ IsSequence(rows)
  /\ \A r \in ToSet(rows) :
       /\ r = Row(r.purl, r.status)
       /\ r.purl \in seen /\ r.status \in MainStatus
       /\ r.status = "not_found" => r.purl \notin gone /\ r.purl \notin found
  /\ \A i, j \in DOMAIN rows : rows[i].purl = rows[j].purl => i = j
  /\ \A c \in ToSet(t) : c.ignored \/ c.needs_enrichment => SafeKey(c.purl) \in seen
  /\ \A key \in seen : key \in gone \/ \E r \in ToSet(rows) : r.purl = key

\* An entry whose purl has no row yet gets one.
LEMMA ReportedRow ==
  ASSUME NEW t, IsSequence(t), NEW gone, NEW found, NEW seen, NEW rows, Reported(t, gone, found, seen, rows),
         NEW c, NEW key, key = SafeKey(c.purl), key \notin seen,
         NEW status \in MainStatus, status = "not_found" => key \notin gone /\ key \notin found
  PROVE  Reported(Append(t, c), gone, found, seen \cup {key}, Append(rows, Row(key, status)))
<1>. DEFINE n == Len(rows)
            row == Row(key, status)
            more == Append(rows, row)
<1>1. n \in Nat /\ DOMAIN rows = 1..n /\ IsSequence(rows)
  BY SequenceForm DEF Reported
<1>2. /\ IsSequence(more) /\ ToSet(more) = ToSet(rows) \cup {row}
      /\ DOMAIN more = 1..n + 1 /\ more[n + 1] = row /\ \A i \in 1..n : more[i] = rows[i]
  BY <1>1, AppendSequence
<1>3. row.purl = key /\ row.status = status /\ row = Row(row.purl, row.status)
  BY DEF Row
<1>4. ToSet(Append(t, c)) = ToSet(t) \cup {c}
  BY AppendSequence
<1>. HIDE DEF n, more, row
<1>5. \A r \in ToSet(more) :
        /\ r = Row(r.purl, r.status)
        /\ r.purl \in seen \cup {key} /\ r.status \in MainStatus
        /\ r.status = "not_found" => r.purl \notin gone /\ r.purl \notin found
  <2>. TAKE r \in ToSet(more)
  <2>1. CASE r \in ToSet(rows)
    BY <2>1 DEF Reported
  <2>2. CASE r = row
    BY <1>3, <2>2
  <2>. QED  BY <1>2, <2>1, <2>2
<1>6. \A i \in 1..n : rows[i].purl # key
  <2>. TAKE i \in 1..n
  <2>1. rows[i] \in ToSet(rows)
    BY <1>1, InSet
  <2>. QED  BY <2>1 DEF Reported
<1>7. \A i, j \in DOMAIN more : more[i].purl = more[j].purl => i = j
  <2>1. \A i, j \in 1..n : rows[i].purl = rows[j].purl => i = j
    BY <1>1 DEF Reported
  <2>2. \A i \in 1..n + 1 : i \in 1..n \/ i = n + 1
    BY <1>1
  <2>. QED  BY <1>2, <1>3, <1>6, <2>1, <2>2
<1>8. \A b \in ToSet(Append(t, c)) : b.ignored \/ b.needs_enrichment => SafeKey(b.purl) \in seen \cup {key}
  BY <1>4 DEF Reported
<1>9. \A k \in seen \cup {key} : k \in gone \/ \E r \in ToSet(more) : r.purl = k
  BY <1>2, <1>3 DEF Reported
<1>. QED  BY <1>2, <1>5, <1>7, <1>8, <1>9, Zenon DEF Reported, more, row

\* An entry whose purl has a row, or that needs none, gets no other.
LEMMA ReportedSeen ==
  ASSUME NEW t, IsSequence(t), NEW gone, NEW found, NEW seen, NEW rows, Reported(t, gone, found, seen, rows),
         NEW c, NEW more, more = seen \/ (SafeKey(c.purl) \in gone /\ more = seen \cup {SafeKey(c.purl)}),
         c.ignored \/ c.needs_enrichment => SafeKey(c.purl) \in more
  PROVE  Reported(Append(t, c), gone, found, more, rows)
<1>1. ToSet(Append(t, c)) = ToSet(t) \cup {c}
  BY AppendSequence
<1>2. seen \subseteq more /\ \A k \in more : k \in seen \/ k \in gone
  OBVIOUS
<1>3. \A b \in ToSet(Append(t, c)) : b.ignored \/ b.needs_enrichment => SafeKey(b.purl) \in more
  BY <1>1, <1>2 DEF Reported
<1>. QED  BY <1>2, <1>3 DEF Reported

ReportLaw(gone, acc, c) == ReportStep(acc, c, gone)
ReportLaws == INSTANCE FoldLaws WITH Op <- ReportLaw
IsReported(t, gone, found, acc) ==
  acc = [seen |-> acc.seen, rows |-> acc.rows] /\ Reported(t, gone, found, acc.seen, acc.rows)

\* One entry more is reported.
LEMMA ReportNext ==
  ASSUME NEW t, IsSequence(t), NEW gone, NEW found, found = resolved, NEW acc, IsReported(t, gone, found, acc),
         NEW c, c.ignored => ~c.needs_enrichment
  PROVE  IsReported(Append(t, c), gone, found, ReportStep(acc, c, gone))
<1>1. PICK seen, rows, key : seen = acc.seen /\ rows = acc.rows /\ key = SafeKey(c.purl)
  OBVIOUS
<1>2. Reported(t, gone, found, seen, rows) /\ acc = [seen |-> seen, rows |-> rows]
  BY <1>1 DEF IsReported
<1>3. ASSUME NEW more, NEW list, Reported(Append(t, c), gone, found, more, list)
      PROVE  IsReported(Append(t, c), gone, found, [seen |-> more, rows |-> list])
  BY <1>3 DEF IsReported
<1>4. CASE key \in seen \/ (~c.ignored /\ ~c.needs_enrichment)
  <2>1. ReportStep(acc, c, gone) = [seen |-> seen, rows |-> rows]
    BY <1>1, <1>2, <1>4 DEF ReportStep
  <2>2. Reported(Append(t, c), gone, found, seen, rows)
    BY <1>1, <1>2, <1>4, ReportedSeen
  <2>. QED  BY <1>3, <2>1, <2>2
<1>5. CASE key \notin seen /\ ~c.ignored /\ c.needs_enrichment /\ key \in gone
  <2>1. ReportStep(acc, c, gone) = [acc EXCEPT !.seen = @ \cup {key}]
    BY <1>1, <1>5 DEF ReportStep
  <2>2. [acc EXCEPT !.seen = @ \cup {key}] = [seen |-> seen \cup {key}, rows |-> rows]
    BY <1>2
  <2>3. Reported(Append(t, c), gone, found, seen \cup {key}, rows)
    BY <1>1, <1>2, <1>5, ReportedSeen
  <2>. QED  BY <1>3, <2>1, <2>2, <2>3
<1>6. CASE key \notin seen /\ (c.ignored \/ (c.needs_enrichment /\ key \notin gone))
  <2>1. PICK status \in MainStatus :
          /\ ReportStep(acc, c, gone) = [seen |-> seen \cup {key}, rows |-> Append(rows, Row(key, status))]
          /\ status = "not_found" => key \notin gone /\ key \notin found
    <3>1. CASE c.ignored
      <4>1. ReportStep(acc, c, gone) = [seen |-> seen \cup {key}, rows |-> Append(rows, Row(key, "ignored"))]
        BY <1>1, <1>6, <3>1 DEF ReportStep
      <4>. QED  BY <4>1 DEF MainStatus
    <3>2. CASE ~c.ignored /\ key \in found
      <4>1. ReportStep(acc, c, gone) = [seen |-> seen \cup {key}, rows |-> Append(rows, Row(key, "found"))]
        BY <1>1, <1>6, <3>2 DEF ReportStep
      <4>. QED  BY <4>1 DEF MainStatus
    <3>3. CASE ~c.ignored /\ key \notin found
      <4>1. ReportStep(acc, c, gone) = [seen |-> seen \cup {key}, rows |-> Append(rows, Row(key, "not_found"))]
        BY <1>1, <1>6, <3>3 DEF ReportStep
      <4>. QED  BY <1>6, <3>3, <4>1 DEF MainStatus
    <3>. QED  BY <3>1, <3>2, <3>3
  <2>2. Reported(Append(t, c), gone, found, seen \cup {key}, Append(rows, Row(key, status)))
    BY <1>1, <1>2, <1>6, <2>1, ReportedRow, Zenon
  <2>. QED  BY <1>3, <2>1, <2>2, Zenon
<1>. QED  BY <1>4, <1>5, <1>6

\* The main rows report on each purl once.
LEMMA MainRowsReport ==
  ASSUME NEW cs, IsSequence(cs), \A c \in ToSet(cs) : c.ignored => ~c.needs_enrichment,
         NEW gone, NEW found, found = resolved
  PROVE  \E seen : Reported(cs, gone, found, seen, MainRows(cs, gone))
<1>. DEFINE start == [seen |-> {}, rows |-> <<>>]
            X == ToSet(cs)
            C(t) == ReportLaws!Folded(gone, start, t)
            A == {t \in Seq(X) : IsReported(t, gone, found, C(t))}
<1>1. MainRows(cs, gone) = C(cs).rows
  BY DEF MainRows, FoldLeft, MapThenFoldSet, ReportLaws!Folded, ReportLaws!OnSets,
         ReportLaws!Last, Max, ReportLaw
<1>2. <<>> \in A
  <2>1. C(<<>>) = start
    BY ReportLaws!FoldEmpty
  <2>2. ToSet(<<>>) = {} /\ IsSequence(<<>>)
    BY EmptySet DEF IsSequence
  <2>3. Reported(<<>>, gone, found, {}, <<>>)
    BY <2>2 DEF Reported
  <2>4. IsReported(<<>>, gone, found, start)
    BY <2>3 DEF IsReported
  <2>. QED  BY <2>1, <2>4
<1>3. ASSUME NEW t \in Seq(X), NEW c \in X, t \in A PROVE Append(t, c) \in A
  <2>. DEFINE n == Len(t)
              u == Append(t, c)
  <2>1. /\ n \in Nat /\ DOMAIN u = 1..n + 1 /\ DOMAIN t = 1..n
        /\ \A i \in 1..n : t[i] = u[i]
        /\ u[n + 1] = c /\ u \in Seq(X)
    OBVIOUS
  <2>. HIDE DEF n, u
  <2>2. C(u) = ReportLaw(gone, C(t), u[n + 1])
    BY <2>1, ReportLaws!FoldNext
  <2>3. IsReported(t, gone, found, C(t)) /\ IsSequence(t)
    BY <1>3, SequenceOf
  <2>. HIDE DEF C
  <2>4. PICK acc : acc = C(t)
    OBVIOUS
  <2>5. IsReported(Append(t, c), gone, found, ReportStep(acc, c, gone))
    BY <2>3, <2>4, ReportNext
  <2>6. IsReported(u, gone, found, C(u))
    BY <2>1, <2>2, <2>4, <2>5 DEF u, ReportLaw
  <2>. QED  BY <2>1, <2>6 DEF u
<1>. HIDE DEF A
<1>4. Seq(X) \subseteq A
  BY <1>2, <1>3, SequenceInduction
<1>5. cs \in Seq(X)
  BY DEF IsSequence
<1>6. IsReported(cs, gone, found, C(cs))
  BY <1>4, <1>5 DEF A
<1>. QED  BY <1>1, <1>6 DEF IsReported

\* The entries of one sequence after another.
LEMMA ConcatEntries ==
  ASSUME NEW s, IsSequence(s), NEW t, IsSequence(t)
  PROVE  /\ DOMAIN (s \o t) = 1..Len(s) + Len(t)
         /\ \A i \in 1..Len(s) : (s \o t)[i] = s[i]
         /\ \A i \in DOMAIN (s \o t) : i \in 1..Len(s) \/ (i > Len(s) /\ (s \o t)[i] \in ToSet(t))
<1>. DEFINE X == ToSet(s) \cup ToSet(t)
            m == Len(s)
            n == Len(t)
<1>1. s \in Seq(X) /\ t \in Seq(X)
  <2>1. s \in Seq(ToSet(s)) /\ t \in Seq(ToSet(t)) /\ ToSet(s) \in SUBSET X /\ ToSet(t) \in SUBSET X
    BY DEF IsSequence
  <2>. QED  BY <2>1
<1>2. /\ m \in Nat /\ n \in Nat /\ DOMAIN (s \o t) = 1..m + n /\ DOMAIN t = 1..n
      /\ \A i \in 1..m : (s \o t)[i] = s[i]
      /\ \A i \in 1..m + n : i > m => (s \o t)[i] = t[i - m] /\ i - m \in 1..n
  BY <1>1
<1>3. \A i \in 1..m + n : i \in 1..m \/ (i > m /\ (s \o t)[i] \in ToSet(t))
  <2>. TAKE i \in 1..m + n
  <2>1. CASE i > m
    <3>1. (s \o t)[i] = t[i - m] /\ i - m \in DOMAIN t
      BY <1>2, <2>1
    <3>. QED  BY <2>1, <3>1, InSet
  <2>2. CASE ~(i > m)
    BY <1>2, <2>2
  <2>. QED  BY <2>1, <2>2
<1>. QED  BY <1>2, <1>3

\* The rows of the components with a status of their own.
RowsOf(s, status) == [i \in DOMAIN s |-> Row(s[i].purl, status)]

\* The rows of a list of entries with one status.
LEMMA RowsOfForm ==
  ASSUME NEW s, IsSequence(s), NEW status
  PROVE  /\ IsSequence(RowsOf(s, status))
         /\ \A r \in ToSet(RowsOf(s, status)) : r.status = status /\ \E c \in ToSet(s) : r.purl = c.purl
         /\ \A c \in ToSet(s) : \E r \in ToSet(RowsOf(s, status)) : r.purl = c.purl
<1>. DEFINE rows == RowsOf(s, status)
<1>1. Len(s) \in Nat /\ DOMAIN s = 1..Len(s)
  BY SequenceForm
<1>2. /\ rows = [i \in 1..Len(s) |-> rows[i]] /\ DOMAIN rows = DOMAIN s
      /\ \A i \in DOMAIN s : rows[i].purl = s[i].purl /\ rows[i].status = status
  BY <1>1 DEF RowsOf, Row
<1>. HIDE DEF rows
<1>3. IsSequence(rows)
  BY <1>1, <1>2, FunctionSequence
<1>4. \A r \in ToSet(rows) : r.status = status /\ \E c \in ToSet(s) : r.purl = c.purl
  <2>. TAKE r \in ToSet(rows)
  <2>1. PICK i \in DOMAIN s : rows[i] = r
    BY <1>2, InSet
  <2>2. s[i] \in ToSet(s)
    BY InSet
  <2>. QED  BY <1>2, <2>1, <2>2, Zenon
<1>5. \A c \in ToSet(s) : \E r \in ToSet(rows) : r.purl = c.purl
  <2>. TAKE c \in ToSet(s)
  <2>1. PICK i \in DOMAIN s : s[i] = c
    BY InSet
  <2>2. rows[i] \in ToSet(rows)
    BY <1>2, InSet
  <2>. QED  BY <1>2, <2>1, <2>2, Zenon
<1>. QED  BY <1>3, <1>4, <1>5 DEF rows

\* A key is its own key.
LEMMA SafeKeyOfKey == \A p : SafeKey(SafeKey(p)) = SafeKey(p)
  BY PurlKeyAssumption DEF SafeKey

\* What ReportCovers says of the rows of a report.
MainRow(rows, key) ==
  {r \in ToSet(rows) : r.purl = key /\ r.status \in {"found", "not_found", "ignored"}}
Covers(list, cs, t, found) ==
  LET rows == ToSet(list)
      Main(key) == Only(list, {r \in rows : r.purl = key /\ r.status \in {"found", "not_found", "ignored"}})
      gone == {SafeKey(e.purl) : e \in ToSet(t)}
  IN /\ \A r \in rows : Len(Main(r.purl)) <= 1
     /\ \A key \in gone : \A r \in rows : r.purl = key => r.status # "not_found"
     /\ \A c \in ToSet(cs) : c.needs_enrichment \/ c.ignored =>
          \E r \in rows : SafeKey(r.purl) = SafeKey(c.purl)
     /\ \A key \in found : \E r \in ToSet(Main(key)) : r.status \in {"found", "ignored"}

\* The rows of all three kinds cover what was collected, once.
LEMMA MainRowsCover ==
  ASSUME NEW cs, NEW t, NEW found, NEW gone, gone = {SafeKey(e.purl) : e \in ToSet(t)}, gone \cap found = {},
         \A key \in found : \E c \in ToSet(cs) : c.needs_enrichment /\ SafeKey(c.purl) = key,
         NEW seen, NEW main, Reported(cs, gone, found, seen, main),
         NEW a, IsSequence(a), \A r \in ToSet(a) : r.status = "removed", \A e \in ToSet(t) : \E r \in ToSet(a) : r.purl = e.purl,
         NEW b, IsSequence(b), \A r \in ToSet(b) : r.status = "skipped",
         NEW list, list = main \o a \o b
  PROVE  Covers(list, cs, t, found)
<1>. DEFINE n == Len(main)
<1>1. IsSequence(main) /\ n \in Nat /\ DOMAIN main = 1..n
  BY SequenceForm DEF Reported
<1>2. /\ IsSequence(main \o a) /\ IsSequence(list)
      /\ ToSet(main \o a) = ToSet(main) \cup ToSet(a) /\ ToSet(list) = ToSet(main) \cup ToSet(a) \cup ToSet(b)
  BY <1>1, ConcatSequence
<1>3. \A i \in DOMAIN list : \/ i \in 1..n /\ list[i] = main[i]
                             \/ list[i].status \in {"removed", "skipped"}
  <2>. TAKE i \in DOMAIN list
  <2>. DEFINE l == main \o a
  <2>0. IsSequence(l) /\ list = l \o b
    BY <1>2
  <2>1. /\ \A j \in 1..Len(l) : list[j] = l[j]
        /\ i \in 1..Len(l) \/ list[i] \in ToSet(b)
    <3>. HIDE DEF l
    <3>. QED  BY <2>0, ConcatEntries
  <2>2. Len(l) \in Nat /\ DOMAIN l = 1..Len(l)
    BY <1>2, SequenceForm
  <2>3. /\ \A j \in 1..n : l[j] = main[j]
        /\ \A j \in DOMAIN l : j \in 1..n \/ l[j] \in ToSet(a)
    BY <1>1, ConcatEntries
  <2>. HIDE DEF l, n
  <2>. QED  BY <2>1, <2>2, <2>3, Zenon
<1>. HIDE DEF n
<1>4. \A key : Len(Only(list, MainRow(list, key))) <= 1
  <2>. TAKE key
  <2>1. ASSUME NEW i \in DOMAIN list, list[i] \in MainRow(list, key) PROVE i \in 1..n /\ main[i].purl = key
    <3>1. list[i].purl = key /\ list[i].status \notin {"removed", "skipped"}
      BY <2>1 DEF MainRow
    <3>. QED  BY <1>3, <3>1
  <2>2. \A i, j \in DOMAIN list : list[i] \in MainRow(list, key) /\ list[j] \in MainRow(list, key) => i = j
    <3>1. \A i, j \in 1..n : main[i].purl = main[j].purl => i = j
      BY <1>1 DEF Reported
    <3>. QED  BY <2>1, <3>1
  <2>. QED  BY <1>2, <2>2, OnlyOne, Zenon
<1>5. ASSUME NEW key \in gone, NEW r \in ToSet(list), r.purl = key PROVE r.status # "not_found"
  <2>1. r \in ToSet(main) \/ r.status \in {"removed", "skipped"}
    BY <1>2
  <2>2. CASE r \in ToSet(main)
    BY <1>5, <2>2 DEF Reported
  <2>3. CASE r.status \in {"removed", "skipped"}
    BY <2>3
  <2>. QED  BY <2>1, <2>2, <2>3
<1>6. ASSUME NEW c \in ToSet(cs), c.needs_enrichment \/ c.ignored
      PROVE  \E r \in ToSet(list) : SafeKey(r.purl) = SafeKey(c.purl)
  <2>1. SafeKey(c.purl) \in seen
    BY <1>6 DEF Reported
  <2>2. CASE SafeKey(c.purl) \in gone
    <3>1. PICK e \in ToSet(t) : SafeKey(e.purl) = SafeKey(c.purl)
      BY <2>2
    <3>2. PICK r \in ToSet(a) : r.purl = e.purl
      OBVIOUS
    <3>. QED  BY <1>2, <3>1, <3>2
  <2>3. CASE SafeKey(c.purl) \notin gone
    <3>1. PICK r \in ToSet(main) : r.purl = SafeKey(c.purl)
      BY <2>1, <2>3 DEF Reported
    <3>2. SafeKey(r.purl) = SafeKey(c.purl)
      BY <3>1, SafeKeyOfKey
    <3>. QED  BY <1>2, <3>2
  <2>. QED  BY <2>2, <2>3
<1>7. ASSUME NEW key \in found PROVE \E r \in ToSet(Only(list, MainRow(list, key))) : r.status \in {"found", "ignored"}
  <2>1. PICK c \in ToSet(cs) : c.needs_enrichment /\ SafeKey(c.purl) = key
    OBVIOUS
  <2>2. key \in seen /\ key \notin gone
    BY <2>1 DEF Reported
  <2>3. PICK r \in ToSet(main) : r.purl = key
    BY <2>2 DEF Reported
  <2>4. r.status \in MainStatus /\ r.status # "not_found"
    BY <2>3 DEF Reported
  <2>5. r \in MainRow(list, key) /\ r.status \in {"found", "ignored"}
    BY <1>2, <2>3, <2>4 DEF MainRow, MainStatus
  <2>6. ToSet(Only(list, MainRow(list, key))) = ToSet(list) \cap MainRow(list, key)
    BY <1>2, OnlySequence
  <2>. QED  BY <1>2, <2>3, <2>5, <2>6
<1>. QED  BY <1>4, <1>5, <1>6, <1>7, Zenon DEF Covers, MainRow

\* The rows of a report.
LEMMA ReportForm ==
  ASSUME NEW cs, NEW s, NEW t
  PROVE  BuildReport(cs, s, t).rows =
           MainRows(cs, {SafeKey(c.purl) : c \in ToSet(t)}) \o RowsOf(t, "removed") \o RowsOf(s, "skipped")
  BY DEF BuildReport, RowsOf

\* The report that the last step makes covers what was collected.
LEMMA FinishCovers ==
  ASSUME FinishEnds, NEW cs, cs = collected, NEW t, t = removed', NEW found, found = resolved,
         NEW list, list = report'.rows
  PROVE  Covers(list, cs, t, found)
<1>1. PICK g : g = given
  OBVIOUS
<1>2. EntriesOf(g, cs)
  BY <1>1, StageForms DEF FinishEnds
<1>3. IsSequence(cs) /\ \A c \in ToSet(cs) : c.ignored => ~c.needs_enrichment
  <2>1. IsSequence(cs)
    BY <1>2 DEF EntriesOf
  <2>2. \A c \in ToSet(cs) : \E k \in DOMAIN g.comps : Entry(g, k, c)
    BY <1>2, EntriesLocated
  <2>. QED  BY <2>1, <2>2 DEF Entry
<1>4. IsSequence(t) /\ \A c \in ToSet(t) : SafeKey(c.purl) \notin found
  <2>1. CASE job.remove
    <3>1. PICK T : T = ToRemove(cs)
      OBVIOUS
    <3>2. t = RemovalOrder(cs)
      BY <2>1 DEF FinishEnds
    <3>3. IsSequence(t) /\ ToSet(t) = T
      BY <1>1, <1>2, <3>1, <3>2, StageForms, RemovalOrderForm DEF FinishEnds
    <3>. QED  BY <3>1, <3>3 DEF ToRemove
  <2>2. CASE ~job.remove
    <3>1. t = <<>> /\ ToSet(<<>>) = {} /\ <<>> \in Seq({})
      BY <2>2, EmptySet DEF FinishEnds
    <3>. QED  BY <3>1 DEF IsSequence
  <2>. QED  BY <2>1, <2>2
<1>5. PICK s : s = Skipped(cs)
  OBVIOUS
<1>6. IsSequence(s)
  BY <1>3, <1>5, OnlySequence DEF Skipped, ToResolve
<1>7. PICK gone : gone = {SafeKey(c.purl) : c \in ToSet(t)}
  BY Zenon
<1>8. PICK main, a, b : main = MainRows(cs, gone) /\ a = RowsOf(t, "removed") /\ b = RowsOf(s, "skipped")
  OBVIOUS
<1>9. list = main \o a \o b
  <2>1. report' = BuildReport(cs, s, t)
    BY <1>5 DEF FinishEnds
  <2>2. BuildReport(cs, s, t).rows = MainRows(cs, gone) \o RowsOf(t, "removed") \o RowsOf(s, "skipped")
    BY <1>7, ReportForm, Zenon
  <2>. QED  BY <1>8, <2>1, <2>2
<1>10. PICK seen : Reported(cs, gone, found, seen, main)
  BY <1>3, <1>8, MainRowsReport
<1>11. /\ IsSequence(a) /\ (\A r \in ToSet(a) : r.status = "removed") /\ (\A e \in ToSet(t) : \E r \in ToSet(a) : r.purl = e.purl)
       /\ IsSequence(b) /\ (\A r \in ToSet(b) : r.status = "skipped")
  BY <1>4, <1>6, <1>8, RowsOfForm
<1>12. \A key \in found : \E c \in ToSet(cs) : c.needs_enrichment /\ SafeKey(c.purl) = key
  <2>1. found \in SUBSET UniqueKeys(cs)
    BY DEF Stages, FinishEnds
  <2>2. \A c \in ToSet(ToResolve(cs)) : c \in ToSet(cs) /\ c.needs_enrichment
    BY <1>3, OnlySequence DEF ToResolve
  <2>3. \A key \in UniqueKeys(cs) : \E c \in ToSet(ToResolve(cs)) : c.purl \in DOMAIN PurlKey /\ key = PurlKey[c.purl]
    BY DEF UniqueKeys
  <2>. QED  BY <2>1, <2>2, <2>3 DEF SafeKey
<1>13. gone \cap found = {}
  BY <1>4, <1>7
<1>. QED  BY <1>7, <1>9, <1>10, <1>11, <1>12, <1>13, MainRowsCover, Zenon

\* The report has one row for a purl, and every purl that was asked for has one (reporter.py,
\* build_report), for every document, whatever was found, ignored, skipped or removed.
THEOREM ReportIsComplete == Spec => []ReportCovers
<1>1. Init => ReportCovers
  BY DEF Init, EnrichInit, NoEnrich, ReportCovers, Done
<1>2. ASSUME Stages, ReportCovers, [Next]_vars PROVE ReportCovers'
  <2>. SUFFICES ASSUME Done' PROVE Covers(report.rows, collected, removed, resolved)'
    BY Zenon DEF ReportCovers, Covers
  <2>1. CASE FinishEnds
    <3>1. collected' = collected /\ resolved' = resolved
      BY <2>1 DEF FinishEnds
    <3>2. PICK cs, t, found, list : cs = collected /\ t = removed' /\ found = resolved /\ list = report'.rows
      OBVIOUS
    <3>3. Covers(list, cs, t, found)
      BY <2>1, <3>2, FinishCovers
    <3>. QED  BY <3>1, <3>2, <3>3
  <2>2. CASE Done /\ UNCHANGED enrichVars
    <3>1. collected' = collected /\ resolved' = resolved /\ removed' = removed /\ report' = report
      BY <2>2 DEF enrichVars
    <3>2. Covers(report.rows, collected, removed, resolved)
      BY <1>2, <2>2 DEF ReportCovers, Covers
    <3>. QED  BY <3>1, <3>2
  <2>. QED  BY <1>2, <2>1, <2>2, OnlyFinishEnds
<1>. QED  BY <1>1, <1>2, JobsFollowStages, PTL DEF Spec

-----------------------------------------------------------------------------
(* Where a user of the fixer is: every document is sound, the last answer is the fix of the
   base, and the base of a second fix is the result of one with the same request.          *)

Requested(d, r) == r = Fix(d, r.options, r.fields)
FixHolds ==
  /\ fixes \in Nat
  /\ task = "fix" => Sound(doc)
  /\ fixes > 0 => /\ task = "fix" /\ Sound(base)
                  /\ reply.options \in OptionSets /\ reply.fields \in FieldSets
                  /\ Requested(base, reply) /\ doc = reply.fixed
  /\ fixes > 1 => \E b : Sound(b) /\ base = Fix(b, reply.options, reply.fields).fixed

\* The invariant holds at first.
LEMMA FixHoldsInit == Init => FixHolds
<1>1. Init => fixes = 0 /\ (task = "fix" => doc \in Documents)
  BY DEF Init, FixInit, NoFix
<1>2. \A d \in Documents : Sound(d)
  BY DocumentsAssumption DEF Sound
<1>. QED  BY <1>1, <1>2 DEF FixHolds

\* Every step keeps the invariant.
LEMMA FixHoldsNext ==
  ASSUME FixHolds, [Next]_vars
  PROVE  FixHolds'
<1>1. CASE task' = task /\ doc' = doc /\ base' = base /\ reply' = reply /\ fixes' = fixes
  BY <1>1 DEF FixHolds, Requested
<1>2. ASSUME task = "fix", task' = task, NEW opt \in OptionSets, NEW fields \in FieldSets,
             fixes > 0 => opt = reply.options /\ fields = reply.fields, FixDocument(opt, fields)
      PROVE  FixHolds'
  <2>. DEFINE F == Fix(doc, opt, fields)
  <2>1. /\ reply' = F /\ base' = doc /\ doc' = reply'.fixed /\ fixes' = fixes + 1
    BY <1>2 DEF FixDocument
  <2>2. Sound(doc) /\ IsOptions(opt) /\ fixes \in Nat
    BY <1>2, OptionsAssumption DEF FixHolds
  <2>3. F.options = opt /\ F.fields = fields /\ Sound(F.fixed)
    BY <2>2, FixStages
  <2>4. fixes' > 1 => Sound(base) /\ base' = Fix(base, opt, fields).fixed
    BY <1>2, <2>1, <2>2 DEF FixHolds, Requested
  <2>5. Requested(base', reply') /\ reply'.options = opt /\ reply'.fields = fields /\ Sound(doc')
    BY <2>1, <2>3 DEF Requested
  <2>. HIDE DEF F
  <2>6. fixes' \in Nat
    BY <2>1, <2>2
  <2>7. fixes' > 1 => \E b : Sound(b) /\ base' = Fix(b, reply'.options, reply'.fields).fixed
    BY <2>4, <2>5
  <2>. QED  BY <1>2, <2>1, <2>2, <2>5, <2>6, <2>7 DEF FixHolds, Requested
<1>3. CASE task = "fix" /\ FixNext /\ UNCHANGED <<task, enrichVars, imagesVars>>
  <2>1. CASE Analyze
    BY <1>1, <1>3, <2>1 DEF Analyze
  <2>2. CASE \E file \in {"ok", "file_too_large", "invalid_json", "invalid_sbom"},
               options, fields \in {"ok", "bad"} : Refuse(file, options, fields)
    BY <1>1, <1>3, <2>2 DEF Refuse
  <2>. QED  BY <1>2, <1>3, <2>1, <2>2 DEF FixNext
<1>. QED  BY <1>1, <1>3 DEF Next, vars, fixVars

\* Every document of the fixer is a tree of components, and every answer is the fix of the document
\* before it (sbom/fixer.py, fix_sbom; routes/sbom_fix.py).
THEOREM FixesAreSound == Spec => []FixHolds
  BY FixHoldsInit, FixHoldsNext, PTL DEF Spec

\* What an invariant about the last fix needs: a state in which there was one.
LEMMA LastFix ==
  ASSUME FixHolds, Fixed
  PROVE  /\ Sound(base) /\ IsOptions(reply.options) /\ reply.options \in OptionSets /\ reply.fields \in FieldSets
         /\ Requested(base, reply) /\ doc = reply.fixed /\ Sound(doc)
<1>1. /\ Sound(base) /\ reply.options \in OptionSets /\ reply.fields \in FieldSets
      /\ Requested(base, reply) /\ doc = reply.fixed /\ Sound(doc)
  BY DEF FixHolds, Fixed
<1>. QED  BY <1>1, OptionsAssumption

\* The invariant implies LeavesRemovedExactly.
LEMMA LeavesAreRemoved == FixHolds => LeavesRemovedExactly
<1>. SUFFICES ASSUME FixHolds, Fixed PROVE LeavesRemovedExactly
  BY DEF LeavesRemovedExactly
<1>. DEFINE rules == ToSet(LeafRules) \cap reply.options.rules
            gone == Ids(base) \ Ids(doc)
            out == Doomed(base, rules)
<1>1. Sound(base) /\ IsOptions(reply.options) /\ reply = Fix(base, reply.options, reply.fields)
      /\ doc = reply.fixed /\ Sound(doc)
  BY LastFix DEF Requested
<1>. HIDE DEF rules
<1>2. Ids(doc) = Ids(base) \ out /\ Total(reply.counts, rules) = Len(base.comps) - Len(doc.comps)
  <2>. DEFINE F == Fix(base, reply.options, reply.fields)
  <2>1. Ids(F.fixed) = Ids(base) \ out /\ Total(F.counts, rules) = Len(base.comps) - Len(F.fixed.comps)
    BY <1>1, FixLeaves, Zenon DEF rules
  <2>2. F = reply
    BY <1>1
  <2>. HIDE DEF F
  <2>. QED  BY <1>1, <2>1, <2>2, Zenon
<1>3. out \subseteq Ids(base)
  BY DEF Doomed, LeafIds, Dicts, Ids, ToSet
<1>4. gone = out
  BY <1>2, <1>3
<1>5. Cardinality(gone) = Len(base.comps) - Len(doc.comps)
  <2>1. IsFiniteSet(Ids(base)) /\ Cardinality(Ids(base)) = Len(base.comps)
        /\ IsFiniteSet(Ids(doc)) /\ Cardinality(Ids(doc)) = Len(doc.comps)
    BY <1>1, IdCount
  <2>2. Ids(base) \cap Ids(doc) = Ids(doc)
    BY <1>2
  <2>3. Cardinality(gone) = Cardinality(Ids(base)) - Cardinality(Ids(base) \cap Ids(doc))
    BY <2>1, FS_Difference, Zenon
  <2>. QED  BY <2>1, <2>2, <2>3, Zenon
<1>6. WellFormed(doc)
  BY <1>1 DEF Sound
<1>. QED  BY <1>2, <1>4, <1>5, <1>6, Zenon DEF LeavesRemovedExactly, Doomed, rules

\* The components that are gone after a fix are exactly the leaves with a defect whose removal
\* is enabled, each counted once, and what remains is a tree.
THEOREM LeavesAreRemovedExactly == Spec => []LeavesRemovedExactly
  BY FixesAreSound, LeavesAreRemoved, PTL

\* The invariant implies FieldsRemovedExactly.
LEMMA FieldsAreRemoved == FixHolds => FieldsRemovedExactly
<1>. SUFFICES ASSUME FixHolds, Fixed PROVE FieldsRemovedExactly
  BY DEF FieldsRemovedExactly
<1>. DEFINE opt == reply.options
            fields == reply.fields
            F == Fix(base, opt, fields)
            a == AcceptedPaths(fields, opt.keep)
            found == AnalyzeFields(base)
<1>1. Sound(base) /\ IsOptions(opt) /\ fields \in FieldSets /\ reply = F /\ doc = F.fixed
  BY LastFix DEF Requested
<1>2. DOMAIN F.removed = a /\ \A p \in a : F.removed[p] = FieldCount(base, p)
  BY <1>1, FixStages
<1>3. ASSUME NEW p \in a
      PROVE  /\ FieldCount(base, p) = IF p \in DOMAIN found THEN found[p] ELSE 0
             /\ FieldCount(F.fixed, p) > 0 => p = Licences /\ "add_proprietary" \in opt.rules
  <2>1. p \in fields /\ ValidPath(p)
    BY AcceptedAsked
  <2>2. p = <<p[1], p[2]>>
    BY <1>1, <2>1, FieldsAssumption
  <2>. QED  BY <1>1, <2>1, <2>2, AnalysisCounts, RemovedIsGone
<1>4. /\ MayLose("root", base.root, F.fixed.root, opt, fields) /\ MayLose("metadata", base.meta, F.fixed.meta, opt, fields)
      /\ MayLose("metadata.component", base.main, F.fixed.main, opt, fields)
      /\ \A id \in Ids(F.fixed) : MayLose("components[]", Component(base, id).obj, Component(F.fixed, id).obj, opt, fields)
  BY <1>1, LostWasAsked
<1>. HIDE DEF F, found, a
<1>5. DOMAIN reply.removed = a /\ \A p \in a :
        /\ reply.removed[p] = IF p \in DOMAIN found THEN found[p] ELSE 0
        /\ FieldCount(doc, p) > 0 => p = Licences /\ Enabled("add_proprietary")
  BY <1>1, <1>2, <1>3 DEF Enabled
<1>6. /\ MayLose("root", base.root, doc.root, opt, fields) /\ MayLose("metadata", base.meta, doc.meta, opt, fields)
      /\ MayLose("metadata.component", base.main, doc.main, opt, fields)
      /\ \A id \in Ids(doc) : MayLose("components[]", Component(base, id).obj, Component(doc, id).obj, opt, fields)
  BY <1>1, <1>4
<1>. QED  BY <1>5, <1>6 DEF FieldsRemovedExactly, MayLose, Enabled, found

\* The fields that are gone after a fix are those that were asked for, and the answer counts
\* them as the analysis did.
THEOREM FieldsAreRemovedExactly == Spec => []FieldsRemovedExactly
  BY FixesAreSound, FieldsAreRemoved, PTL

\* The invariant implies NoNewDefect.
LEMMA NothingNewIsWrong == FixHolds => NoNewDefect
<1>. SUFFICES ASSUME FixHolds, Fixed, NEW x \in Issues(doc), x \notin Issues(base)
              PROVE  \/ x[1] = "spec_version_not_allowed" /\ reply.options.spec_version \notin {"1.6", "1.7"}
                     \/ /\ x[1] = "missing_source_reference"
                        /\ Emptied(x[2]) \/ Licences \in DOMAIN reply.removed
  BY DEF NoNewDefect
<1>. DEFINE opt == reply.options
            fields == reply.fields
            F == Fix(base, opt, fields)
            a == AcceptedPaths(fields, opt.keep)
<1>1. Sound(base) /\ IsOptions(opt) /\ reply = F /\ doc = F.fixed
  BY LastFix DEF Requested
<1>2. DOMAIN F.removed = a
  BY <1>1, FixStages
<1>3. PICK b : Pruning(base, b, a) /\ KeepsFrame(opt, b, F.fixed)
  BY <1>1, FixTraces
<1>4. \A c \in ToSet(F.fixed.comps) : \E m \in ToSet(base.comps) :
        Trace(opt, a, m, c) /\ Component(base, c.id) = m /\ Component(F.fixed, c.id) = c
  BY <1>1, FixTraces
<1>. HIDE DEF F
<1>5. /\ KeepsFrame(opt, b, doc) /\ DOMAIN reply.removed = a
      /\ \A c \in ToSet(doc.comps) : \E m \in ToSet(base.comps) :
           Trace(opt, a, m, c) /\ Component(base, c.id) = m /\ Component(doc, c.id) = c
  BY <1>1, <1>2, <1>3, <1>4
<1>6. ASSUME NEW code \in RootIssues(doc), x = <<code, 0>>
      PROVE  x[1] = "spec_version_not_allowed" /\ opt.spec_version \notin {"1.6", "1.7"}
  <2>1. code \notin RootIssues(base)
    BY <1>6, IssuesOf
  <2>2. code = "spec_version_not_allowed" /\ opt.spec_version \notin {"1.6", "1.7"}
    BY <1>1, <1>3, <1>5, <1>6, <2>1, NoNewRootDefect, Zenon
  <2>. QED  BY <1>6, <2>2
<1>7. ASSUME NEW code \in MetadataIssues(doc), x = <<code, 0>> PROVE FALSE
  <2>1. code \in MetadataIssues(base)
    BY <1>3, <1>5, <1>7, NoNewMetadataDefect, Zenon
  <2>. QED  BY <1>7, <2>1, IssuesOf
<1>8. ASSUME NEW c \in ToSet(doc.comps), NEW code \in ComponentIssues(doc, c), x = <<code, c.id>>
      PROVE  x[1] = "missing_source_reference" /\ (Emptied(x[2]) \/ Licences \in DOMAIN reply.removed)
  <2>1. PICK m \in ToSet(base.comps) :
          Trace(opt, a, m, c) /\ Component(base, c.id) = m /\ Component(doc, c.id) = c
    BY <1>5
  <2>2. m.id = c.id
    BY <2>1 DEF Trace
  <2>3. code \notin ComponentIssues(base, m)
    BY <1>8, <2>2, IssuesOf
  <2>. HIDE DEF a, opt, fields
  <2>4. Trace(opt, AcceptedPaths(fields, opt.keep), m, c)
    BY <2>1 DEF a
  <2>5. code \in ComponentIssues(doc, c)
    BY <1>8
  <2>6. code = "missing_source_reference"
        /\ ((Children(base, m) # {} /\ Children(doc, c) = {}) \/ Licences \in a)
    BY ONLY <2>3, <2>4, <2>5, NoNewEntryDefect, Zenon DEF a
  <2>7. x[1] = code /\ x[2] = c.id
    BY <1>8
  <2>. QED  BY <1>5, <2>1, <2>6, <2>7 DEF Emptied
<1>. QED  BY <1>6, <1>7, <1>8, IssuesOf

\* A fix makes no new defect, save those its options ask for.
THEOREM FixMakesNoDefect == Spec => []NoNewDefect
  BY FixesAreSound, NothingNewIsWrong, PTL

-----------------------------------------------------------------------------
(* The fixer after an enrichment.                                          *)

\* What was found for a component is in the document that the job returns.
LEMMA FoundIsReturned ==
  ASSUME FinishEnds, NEW g, g = given, NEW cs, cs = collected, NEW r, r = sbom', NEW c \in ToSet(cs),
         c.needs_enrichment, SafeKey(c.purl) \in resolved
  PROVE  LET id == At(g, c.path)
         IN Sound(r) /\ id \in Ids(r) /\ <<"vcs", RepositoryUrl[SafeKey(c.purl)]>> \in ToSet(RefsOf(r, id))
<1>. DEFINE id == At(g, c.path)
            ref == <<"vcs", RepositoryUrl[SafeKey(c.purl)]>>
<1>1. PICK s, t : s = sbom /\ t = removed'
  OBVIOUS
<1>2. PICK e, T :
           /\ Sound(g) /\ EntriesOf(g, cs) /\ Sound(s) /\ NewObjects(g, s) /\ SameTree(g, s)
           /\ e = BumpVersion(EnrichSbom(s, cs)) /\ Sound(e) /\ SameTree(g, e)
           /\ T = (IF job.remove THEN ToRemove(cs) ELSE {})
           /\ IsSequence(t) /\ Once(t) /\ Descends(t) /\ ToSet(t) = T
           /\ \A x \in ToSet(t) : x \in ToSet(cs) /\ ~x.has_subcomponents
           /\ r = RemoveComponents(e, t)
  BY <1>1, FinishForm
<1>3. Sound(r) /\ Ids(g) \ Ids(r) = {At(g, x.path) : x \in ToSet(t)}
  BY <1>2, RemovedForm
<1>4. /\ Tree(g, Len(g.comps)) /\ DOMAIN g.comps = 1..Len(g.comps) /\ IsSequence(g.comps) /\ Located(g, cs)
      /\ \A x \in ToSet(cs) : \E h \in DOMAIN g.comps : Entry(g, h, x)
  BY <1>2, SoundHasParts, EntriesLocated, Zenon DEF SoundParts, Tree
<1>5. PICK k \in DOMAIN g.comps : Entry(g, k, c)
  BY <1>4
<1>6. c.path = Place(g, k) /\ ~c.ignored /\ IsSequence(c.existing_references)
  BY <1>5 DEF Entry
<1>7. id = g.comps[k].id /\ id \in Ids(g)
  BY <1>4, <1>5, <1>6, AtPlace, IdsAre
<1>8. id \in Ids(r)
  <2>. SUFFICES ASSUME id \notin Ids(r) PROVE FALSE
    OBVIOUS
  <2>1. PICK x \in ToSet(t) : At(g, x.path) = id
    BY <1>3, <1>7
  <2>2. x \in ToSet(cs) /\ x \in ToRemove(cs)
    BY <1>2, <2>1
  <2>3. PICK h \in DOMAIN g.comps : Entry(g, h, x)
    BY <1>4, <2>2
  <2>4. x.path = Place(g, h) /\ g.comps[h].id = id
    BY <1>4, <2>1, <2>3, AtPlace DEF Entry
  <2>5. h = k
    BY <1>4, <1>7, <2>4 DEF Tree
  <2>6. x = c
    BY <1>4, <1>6, <2>2, <2>4, <2>5 DEF Located
  <2>. QED  BY <2>2, <2>6 DEF ToRemove
<1>9. PICK h \in DOMAIN g.comps : \A x \in ToSet(cs) : At(g, x.path) = id /\ ~x.ignored => RefsOf(r, id) = Ended(x, resolved)
  BY <1>8, FinishKeeps
<1>. HIDE DEF id, ref
<1>10. RefsOf(r, id) = Append(c.existing_references, ref)
  BY <1>6, <1>9 DEF Ended, id, ref
<1>11. ref \in ToSet(RefsOf(r, id))
  BY <1>6, <1>10, AppendSequence
<1>. QED  BY <1>3, <1>8, <1>11 DEF id, ref

\* What FixKeepsEnrichment says of one entry of a job.
SourceKept(g, r, c) ==
  LET after == Fix(r, DefaultOptions, {})
  IN /\ <<"vcs", RepositoryUrl[SafeKey(c.purl)]>> \in ToSet(RefsOf(after.fixed, At(g, c.path)))
     /\ <<"missing_source_reference", At(g, c.path)>> \notin after.issues
SourcesKept(g, r, cs, res) ==
  \A c \in ToSet(cs) : c.needs_enrichment /\ SafeKey(c.purl) \in res => SourceKept(g, r, c)

\* The property in terms of the values of a state.
LEMMA SourcesKeptIs == FixKeepsEnrichment <=> (Done => SourcesKept(given, sbom, collected, resolved))
  BY DEF FixKeepsEnrichment, SourcesKept, SourceKept, IdAt

\* The default rules of the fixer keep what an enrichment found, in every document.
THEOREM EnrichmentIsKept == Spec => []FixKeepsEnrichment
<1>1. Init => FixKeepsEnrichment
  BY DEF Init, EnrichInit, NoEnrich, FixKeepsEnrichment, Done
<1>2. ASSUME Stages, FixKeepsEnrichment, [Next]_vars PROVE FixKeepsEnrichment'
  <2>. SUFFICES ASSUME Done' PROVE SourcesKept(given, sbom, collected, resolved)'
    BY DEF FixKeepsEnrichment, SourcesKept, SourceKept, IdAt
  <2>1. CASE FinishEnds
    <3>1. given' = given /\ collected' = collected /\ resolved' = resolved
      BY <2>1 DEF FinishEnds
    <3>2. PICK g, cs, r, res : g = given /\ cs = collected /\ r = sbom' /\ res = resolved
      OBVIOUS
    <3>3. ASSUME NEW c \in ToSet(cs), c.needs_enrichment, SafeKey(c.purl) \in res
          PROVE  SourceKept(g, r, c)
      <4>. DEFINE id == At(g, c.path)
                  ref == <<"vcs", RepositoryUrl[SafeKey(c.purl)]>>
      <4>1. Sound(r) /\ id \in Ids(r) /\ ref \in ToSet(RefsOf(r, id))
        BY <2>1, <3>2, <3>3, FoundIsReturned
      <4>2. IsSource(ref)
        BY DEF IsSource, SourceTypes
      <4>. HIDE DEF id, ref
      <4>3. LET F == Fix(r, DefaultOptions, {})
            IN ref \in ToSet(RefsOf(F.fixed, id)) /\ <<"missing_source_reference", id>> \notin F.issues
        BY <4>1, <4>2, FixKeepsSource, DefaultOptionsAssumption
      <4>. QED  BY <4>3 DEF SourceKept, id, ref
    <3>4. SourcesKept(g, r, cs, res)
      BY <3>3 DEF SourcesKept
    <3>. QED  BY <3>1, <3>2, <3>4
  <2>2. CASE Done /\ UNCHANGED enrichVars
    <3>1. given' = given /\ sbom' = sbom /\ collected' = collected /\ resolved' = resolved /\ phase' = phase
      BY <2>2 DEF enrichVars
    <3>2. SourcesKept(given, sbom, collected, resolved)
      BY <1>2, <2>2, SourcesKeptIs
    <3>. QED  BY <3>1, <3>2
  <2>. QED  BY <1>2, <2>1, <2>2, OnlyFinishEnds
<1>. QED  BY <1>1, <1>2, JobsFollowStages, PTL DEF Spec

\* Where the user of the fixer is, that is the second fix.
LEMMA SecondFixIsIdle == FixHolds => SecondFixIdle
<1>. SUFFICES ASSUME FixHolds PROVE SecondFixIdle
  OBVIOUS
<1>1. ASSUME Fixed, ~reply.changed PROVE doc = base
  <2>1. Sound(base) /\ IsOptions(reply.options) /\ Requested(base, reply) /\ doc = reply.fixed
    BY <1>1, LastFix
  <2>2. ~Fix(base, reply.options, reply.fields).changed
    BY <1>1, <2>1 DEF Requested
  <2>. QED  BY <2>1, <2>2, UncountedFix DEF Requested
<1>2. ASSUME fixes = 2
      PROVE  /\ \A r \in reply.options.rules :
                  reply.counts[r] > 0 =>
                    \/ r = "increment_version"
                    \/ r \in ToSet(LeafRules) /\ Ids(doc) # Ids(base)
                    \/ r = "add_proprietary" /\ Licences \in DOMAIN reply.removed
                    \/ /\ r \in {"add_provided_by", "reorder"} /\ Enabled("add_proprietary")
                       /\ \E p \in ToSet(reply.options.provided_by_patterns) : p.field = "licenses"
             /\ \A p \in DOMAIN reply.removed : reply.removed[p] > 0 => p = Licences
  <2>. DEFINE opt == reply.options
              fields == reply.fields
              a == AcceptedPaths(fields, opt.keep)
              F == Fix(base, opt, fields)
              b == DropFields(base, a)
  <2>1. /\ Sound(base) /\ IsOptions(opt) /\ reply = F /\ doc = F.fixed
        /\ \A p \in fields : p = <<p[1], p[2]>>
    <3>1. Fixed
      BY <1>2 DEF Fixed
    <3>2. Sound(base) /\ IsOptions(opt) /\ fields \in FieldSets /\ Requested(base, reply) /\ doc = reply.fixed
      BY <3>1, LastFix
    <3>. QED  BY <3>2, FieldsAssumption DEF Requested
  <2>2. PICK d : Sound(d) /\ base = Fix(d, opt, fields).fixed
    BY <1>2 DEF FixHolds
  <2>3. /\ FrameSettled(opt, base) /\ EntriesSettled(opt, a, 14, base)
        /\ RuleAt(15) \in opt.rules => FrameInOrder(base) /\ EntriesInOrder(base)
        /\ Clear(base, a \ {Licences})
    BY <2>1, <2>2, FixSettles, Zenon
  <2>4. <<"components[]", "components">> \notin a
    BY FstecPathSet DEF AcceptedPaths
  <2>5. /\ Sound(b) /\ DOMAIN F.removed = a /\ \A p \in a : F.removed[p] = FieldCount(base, p)
        /\ \E D : Passes(D, b, opt, F.counts)
    BY <2>1, FixStages
  <2>6. ASSUME NEW i \in 5..7, RuleAt(i) \in opt.rules, F.counts[RuleAt(i)] > 0 PROVE Ids(F.fixed) # Ids(base)
    BY <2>1, <2>6, LeavesCounted
  <2>7. ASSUME NEW p \in a, FieldCount(base, p) > 0 PROVE p = Licences
    <3>1. p \in AcceptedPaths(fields, opt.keep) /\ p = <<p[1], p[2]>>
      BY <2>1 DEF AcceptedPaths
    <3>. QED  BY <2>1, <2>2, <2>7, <3>1, RemovedIsGone
  <2>. HIDE DEF a, F
  <2>8. Again(opt, a, 0, b)
    BY <2>1, <2>3, <2>4, FixThenAgain
  <2>9. PICK D : Passes(D, b, opt, F.counts)
    BY <2>5
  <2>. HIDE DEF b
  <2>10. \A i \in 1..15 : RuleAt(i) \in opt.rules => F.counts[RuleAt(i)] = 0 \/ MayCount(opt, a, i)
    BY <2>1, <2>5, <2>8, <2>9, SecondFixCounts
  <2>. HIDE DEF opt, fields
  <2>11. ASSUME NEW r \in opt.rules, F.counts[r] > 0
         PROVE  \/ r = "increment_version"
                \/ r \in ToSet(LeafRules) /\ Ids(doc) # Ids(base)
                \/ r = "add_proprietary" /\ Licences \in a
                \/ r \in {"add_provided_by", "reorder"} /\ AgainOnLicences(opt)
    <3>1. PICK i \in 1..15 : r = RuleAt(i)
      BY <2>9, <2>11 DEF Passes
    <3>2. MayCount(opt, a, i)
      BY <2>10, <2>11, <3>1
    <3>3. i = 2 => r = "increment_version"
      BY <3>1 DEF RuleAt
    <3>4. i \in 5..7 => r \in ToSet(LeafRules) /\ Ids(doc) # Ids(base)
      <4>. SUFFICES ASSUME i \in 5..7 PROVE r \in ToSet(LeafRules) /\ Ids(doc) # Ids(base)
        OBVIOUS
      <4>1. i = 5 \/ i = 6 \/ i = 7
        OBVIOUS
      <4>2. r \in ToSet(LeafRules)
        BY <3>1, <4>1, LeafRuleSet DEF RuleAt
      <4>. QED  BY <2>1, <2>6, <2>11, <3>1, <4>2
    <3>5. i = 13 => r = "add_proprietary"
      BY <3>1 DEF RuleAt
    <3>6. i = 11 => r = "add_provided_by"
      BY <3>1 DEF RuleAt
    <3>7. i = 15 => r = "reorder"
      BY <3>1 DEF RuleAt
    <3>. QED  BY <3>2, <3>3, <3>4, <3>5, <3>6, <3>7 DEF MayCount, Excused
  <2>12. AgainOnLicences(opt) => /\ Enabled("add_proprietary")
                                 /\ \E p \in ToSet(reply.options.provided_by_patterns) : p.field = "licenses"
    BY DEF AgainOnLicences, Enabled, opt
  <2>. HIDE DEF Licences
  <2>13. \A p \in DOMAIN reply.removed : reply.removed[p] > 0 => p = Licences
    BY <2>1, <2>5, <2>7
  <2>14. DOMAIN reply.removed = a /\ reply.counts = F.counts
    BY <2>1, <2>5
  <2>. QED  BY <2>11, <2>12, <2>13, <2>14 DEF opt
<1>. QED  BY <1>1, <1>2 DEF SecondFixIdle

\* A second fix of the result, with the same options, finds nothing to do, but for what its
\* options bring about anew; and a fix that has counted nothing has changed nothing.
THEOREM SecondFixesAreIdle == Spec => []SecondFixIdle
  BY FixesAreSound, SecondFixIsIdle, PTL
=============================================================================
