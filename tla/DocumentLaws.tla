---------------------------- MODULE DocumentLaws ----------------------------
(***************************************************************************)
(* What the proofs about the fixer, the enrichment and the list of images  *)
(* rest on.                                                                *)
(*   I.   The laws of documents: sequences and the entries kept of them,   *)
(*        sums, objects and their members, the component tree with its     *)
(*        paths and their order, and the removal of one component.         *)
(*   II.  The laws of the fixer: what each of its rules does to a          *)
(*        document, what all of them in turn keep of it, and the form in   *)
(*        which they leave it; what a fix as a whole removes and leaves.   *)
(***************************************************************************)
EXTENDS SbomDocuments, FiniteSetTheorems, TLAPS

-----------------------------------------------------------------------------
(* Numbers, sequences, and the entries of a sequence that are in a set.    *)

\* One step of Only, as the laws of folds take it.
OnlyStep(S, kept, e) == Keep(kept, e, S)
OnlyLaws == INSTANCE FoldLaws WITH Op <- OnlyStep

\* A set of numbers that holds 0, and with each number the next, holds them all.
LEMMA Induction ==
  ASSUME NEW N, 0 \in N, \A n \in Nat : n \in N => n + 1 \in N
  PROVE  Nat \subseteq N
  BY OnlyLaws!Induction

\* A sequence that is not empty is one with an entry more.
LEMMA LastEntry ==
  ASSUME NEW X, NEW s \in Seq(X), s # <<>>
  PROVE  \E t \in Seq(X), e \in X : s = Append(t, e)
<1>. DEFINE n == Len(s) - 1
            t == [i \in 1..n |-> s[i]]
<1>1. n \in Nat /\ Len(s) = n + 1
  OBVIOUS
<1>2. t \in Seq(X) /\ Len(t) = n /\ s[n + 1] \in X
  BY <1>1
<1>3. s = Append(t, s[n + 1])
  BY <1>1, <1>2
<1>. QED  BY <1>2, <1>3, Zenon

\* A set of sequences that holds the empty one, and with a sequence all that have an entry
\* more, holds them all.
LEMMA SequenceInduction ==
  ASSUME NEW X, NEW A, <<>> \in A, \A t \in Seq(X), e \in X : t \in A => Append(t, e) \in A
  PROVE  Seq(X) \subseteq A
<1>. DEFINE N == {n \in Nat : \A s \in Seq(X) : Len(s) = n => s \in A}
<1>1. 0 \in N
  <2>. \A s \in Seq(X) : Len(s) = 0 => s = <<>>
    OBVIOUS
  <2>. QED  OBVIOUS
<1>2. ASSUME NEW n \in Nat, n \in N PROVE n + 1 \in N
  <2>. SUFFICES ASSUME NEW s \in Seq(X), Len(s) = n + 1 PROVE s \in A
    OBVIOUS
  <2>1. PICK t \in Seq(X), e \in X : s = Append(t, e)
    BY LastEntry
  <2>. QED  BY <1>2, <2>1
<1>. HIDE DEF N
<1>3. Nat \subseteq N
  BY <1>1, <1>2, Induction
<1>. QED  BY <1>3 DEF N

\* The empty sequence has no entries.
LEMMA EmptySet == ToSet(<<>>) = {}
  BY DEF ToSet

\* An appended entry joins the entries.
LEMMA AppendSet ==
  ASSUME NEW X, NEW t \in Seq(X), NEW e
  PROVE  ToSet(Append(t, e)) = ToSet(t) \cup {e}
<1>. DEFINE u == Append(t, e)
<1>1. DOMAIN u = DOMAIN t \cup {Len(t) + 1} /\ u[Len(t) + 1] = e /\ \A i \in DOMAIN t : u[i] = t[i]
  OBVIOUS
<1>. HIDE DEF u
<1>2. ToSet(u) = ToSet(t) \cup {e}
  BY <1>1 DEF ToSet
<1>. QED  BY <1>2 DEF u

\* Nothing is kept of nothing.
LEMMA OnlyEmpty == \A S : Only(<<>>, S) = <<>>
<1>. TAKE S
<1>1. Only(<<>>, S) = OnlyLaws!Traced(S, <<>>, <<>>)
  BY DEF Only, OnlyLaws!Traced, OnlyLaws!Trace, OnlyStep
<1>2. Len(<<>>) = 0
  OBVIOUS
<1>. QED  BY <1>1, <1>2, OnlyLaws!CountEmpty

\* Only decides on each entry alone.
LEMMA OnlyNext ==
  ASSUME NEW X, NEW s \in Seq(X), NEW e \in X, NEW S
  PROVE  Only(Append(s, e), S) = IF e \in S THEN Append(Only(s, S), e) ELSE Only(s, S)
<1>. DEFINE more == Append(s, e)
            n == Len(s)
<1>1. \A t : Only(t, S) = OnlyLaws!Traced(S, <<>>, t)
  BY DEF Only, OnlyLaws!Traced, OnlyLaws!Trace, OnlyStep
<1>2. n \in Nat /\ Len(more) = n + 1 /\ more[n + 1] = e /\ \A i \in 1..n : s[i] = more[i]
  OBVIOUS
<1>. HIDE DEF more, n
<1>3. OnlyLaws!Traced(S, <<>>, more) = OnlyStep(S, OnlyLaws!Traced(S, <<>>, s), more[n + 1])
  BY <1>2, OnlyLaws!CountNext DEF n
<1>. QED  BY <1>1, <1>2, <1>3 DEF OnlyStep, Keep, more

\* Only keeps the entries of the sequence that are in the set.
LEMMA OnlyType ==
  ASSUME NEW X, NEW s \in Seq(X), NEW S
  PROVE  /\ Only(s, S) \in Seq(X) /\ Only(s, S) \in Seq(X \cap S)
         /\ ToSet(Only(s, S)) = ToSet(s) \cap S
<1>. DEFINE A == {t \in Seq(X) : /\ Only(t, S) \in Seq(X) /\ Only(t, S) \in Seq(X \cap S)
                                 /\ ToSet(Only(t, S)) = ToSet(t) \cap S}
<1>1. <<>> \in A
  <2>. Only(<<>>, S) = <<>> /\ <<>> \in Seq(X) /\ <<>> \in Seq(X \cap S)
    BY OnlyEmpty
  <2>. QED  BY EmptySet, Zenon
<1>2. ASSUME NEW t \in Seq(X), NEW e \in X, t \in A PROVE Append(t, e) \in A
  <2>1. ToSet(Append(t, e)) = ToSet(t) \cup {e}
    BY AppendSet
  <2>2. CASE e \in S
    <3>1. Only(Append(t, e), S) = Append(Only(t, S), e)
      BY <2>2, OnlyNext
    <3>2. ToSet(Append(Only(t, S), e)) = ToSet(Only(t, S)) \cup {e}
      BY <1>2, AppendSet
    <3>3. Append(t, e) \in Seq(X) /\ Only(Append(t, e), S) \in Seq(X)
      BY <1>2, <3>1
    <3>4. Only(Append(t, e), S) \in Seq(X \cap S)
      BY <1>2, <2>2, <3>1
    <3>5. ToSet(Only(Append(t, e), S)) = ToSet(Append(t, e)) \cap S
      BY <1>2, <2>1, <2>2, <3>1, <3>2
    <3>. QED  BY <3>3, <3>4, <3>5
  <2>3. CASE e \notin S
    <3>1. Only(Append(t, e), S) = Only(t, S)
      BY <2>3, OnlyNext
    <3>. QED  BY <1>2, <2>1, <2>3, <3>1
  <2>. QED  BY <2>2, <2>3
<1>. HIDE DEF A
<1>3. Seq(X) \subseteq A
  BY <1>1, <1>2, SequenceInduction
<1>. QED  BY <1>3 DEF A

\* The numbers up to n are n.
LEMMA RangeIsFinite ==
  ASSUME NEW n \in Nat
  PROVE  IsFiniteSet(1..n) /\ Cardinality(1..n) = n
<1>1. 1 \in Int /\ n \in Int
  OBVIOUS
<1>2. IsFiniteSet(1..n) /\ Cardinality(1..n) = IF 1 > n THEN 0 ELSE n - 1 + 1
  BY <1>1, FS_Interval
<1>. QED  BY <1>2

-----------------------------------------------------------------------------
(* Sums.                                                                   *)

Pick(T) == CHOOSE x \in T : TRUE
Sums(g, f, S) == g = [T \in SUBSET S |-> IF T = {} THEN 0 ELSE f[Pick(T)] + g[T \ {Pick(T)}]]

\* The recursion of a sum, up to the sets of a size.
SumsUpTo(g, f, S, n) ==
  \A T \in SUBSET S : Cardinality(T) <= n =>
    g[T] = IF T = {} THEN 0 ELSE f[Pick(T)] + g[T \ {Pick(T)}]

\* A finite set without one of its members.
LEMMA SmallerSet ==
  ASSUME NEW S, IsFiniteSet(S), NEW T \in SUBSET S, NEW x \in T
  PROVE  /\ IsFiniteSet(T) /\ Cardinality(T) \in Nat /\ Cardinality(T \ {x}) \in Nat
         /\ Cardinality(T \ {x}) = Cardinality(T) - 1 /\ T \ {x} \in SUBSET S
<1>1. IsFiniteSet(T)
  BY FS_Subset
<1>2. Cardinality(T) \in Nat
  BY <1>1, FS_CardinalityType
<1>3. IsFiniteSet(T \ {x}) /\ Cardinality(T \ {x}) = Cardinality(T) - 1
  BY <1>1, FS_RemoveElement
<1>4. Cardinality(T \ {x}) \in Nat
  BY <1>3, FS_CardinalityType
<1>. QED  BY <1>1, <1>2, <1>3, <1>4

\* The recursion of a sum over a finite set has a solution.
LEMMA SumsExist ==
  ASSUME NEW f, NEW S, IsFiniteSet(S)
  PROVE  \E g : Sums(g, f, S)
<1>. DEFINE N == {n \in Nat : \E g : SumsUpTo(g, f, S, n)}
<1>1. 0 \in N
  <2>. DEFINE g == [T \in SUBSET S |-> 0]
  <2>1. ASSUME NEW T \in SUBSET S, Cardinality(T) <= 0 PROVE T = {}
    <3>1. IsFiniteSet(T)
      BY FS_Subset
    <3>2. Cardinality(T) = 0
      BY <2>1, <3>1, FS_CardinalityType
    <3>. QED  BY <3>1, <3>2, FS_EmptySet
  <2>2. SumsUpTo(g, f, S, 0)
    BY <2>1 DEF SumsUpTo
  <2>. QED  BY <2>2
<1>2. ASSUME NEW n \in Nat, n \in N PROVE n + 1 \in N
  <2>. PICK g : SumsUpTo(g, f, S, n)
    BY <1>2
  <2>. DEFINE h == [T \in SUBSET S |->
                      IF Cardinality(T) <= n THEN g[T]
                      ELSE IF T = {} THEN 0 ELSE f[Pick(T)] + g[T \ {Pick(T)}]]
  <2>1. ASSUME NEW T \in SUBSET S, Cardinality(T) <= n + 1
        PROVE  h[T] = IF T = {} THEN 0 ELSE f[Pick(T)] + h[T \ {Pick(T)}]
    <3>1. CASE T = {}
      <4>. h[T] = g[T] \/ h[T] = 0
        BY <3>1
      <4>. Cardinality(T) <= n => g[T] = 0
        BY <3>1 DEF SumsUpTo
      <4>. QED  BY <3>1
    <3>2. CASE T # {}
      <4>1. Pick(T) \in T
        BY <3>2 DEF Pick
      <4>2. /\ Cardinality(T) \in Nat /\ Cardinality(T \ {Pick(T)}) \in Nat
            /\ Cardinality(T \ {Pick(T)}) = Cardinality(T) - 1 /\ T \ {Pick(T)} \in SUBSET S
        BY <4>1, SmallerSet
      <4>3. h[T \ {Pick(T)}] = g[T \ {Pick(T)}]
        BY <2>1, <4>2
      <4>4. h[T] = f[Pick(T)] + g[T \ {Pick(T)}]
        BY <3>2 DEF SumsUpTo
      <4>. QED  BY <3>2, <4>3, <4>4
    <3>. QED  BY <3>1, <3>2
  <2>2. SumsUpTo(h, f, S, n + 1)
    <3>. HIDE DEF h
    <3>. QED  BY <2>1, Zenon DEF SumsUpTo
  <2>. QED  BY <2>2
<1>. HIDE DEF N
<1>3. Cardinality(S) \in N
  <2>1. Nat \subseteq N
    BY <1>1, <1>2, Induction
  <2>. QED  BY <2>1, FS_CardinalityType
<1>4. PICK g : SumsUpTo(g, f, S, Cardinality(S))
  BY <1>3 DEF N
<1>. DEFINE h == [T \in SUBSET S |-> g[T]]
<1>5. ASSUME NEW T \in SUBSET S
      PROVE  h[T] = IF T = {} THEN 0 ELSE f[Pick(T)] + h[T \ {Pick(T)}]
  <2>1. Cardinality(T) <= Cardinality(S)
    BY FS_Subset
  <2>. QED  BY <1>4, <2>1 DEF SumsUpTo
<1>6. h = [T \in SUBSET S |-> h[T]]
  OBVIOUS
<1>. HIDE DEF h
<1>7. Sums(h, f, S)
  BY <1>5, <1>6, Zenon DEF Sums
<1>. QED  BY <1>7

\* Total is a solution of the recursion of a sum.
LEMMA TotalIsSum ==
  ASSUME NEW f, NEW S, IsFiniteSet(S)
  PROVE  \E g : Sums(g, f, S) /\ Total(f, S) = g[S]
<1>1. \E g : Sums(g, f, S)
  BY SumsExist
<1>. QED  BY <1>1, Zenon DEF Total, MapThenSumSet, MapThenFoldSet, Sums, Pick

\* A sum of integers is one, and takes its terms in any order.
LEMMA SumsType ==
  ASSUME NEW f, NEW S, IsFiniteSet(S), \A x \in S : f[x] \in Int, NEW g, Sums(g, f, S)
  PROVE  g[{}] = 0 /\ \A T \in SUBSET S : g[T] \in Int
<1>. DEFINE N == {n \in Nat : \A T \in SUBSET S : Cardinality(T) = n => g[T] \in Int}
<1>1. g[{}] = 0
  <2>. {} \in SUBSET S
    OBVIOUS
  <2>. QED  BY DEF Sums
<1>2. 0 \in N
  <2>. SUFFICES ASSUME NEW T \in SUBSET S, Cardinality(T) = 0 PROVE g[T] \in Int
    OBVIOUS
  <2>. T = {}
    BY FS_Subset, FS_EmptySet
  <2>. QED  BY <1>1
<1>3. ASSUME NEW n \in Nat, n \in N PROVE n + 1 \in N
  <2>. SUFFICES ASSUME NEW T \in SUBSET S, Cardinality(T) = n + 1 PROVE g[T] \in Int
    OBVIOUS
  <2>1. T # {}
    <3>. n + 1 # 0
      OBVIOUS
    <3>. QED  BY FS_EmptySet
  <2>2. Pick(T) \in T /\ f[Pick(T)] \in Int
    BY <2>1 DEF Pick
  <2>3. T \ {Pick(T)} \in SUBSET S /\ Cardinality(T \ {Pick(T)}) = Cardinality(T) - 1
    BY <2>2, SmallerSet
  <2>4. g[T \ {Pick(T)}] \in Int
    BY <1>3, <2>3
  <2>5. g[T] = f[Pick(T)] + g[T \ {Pick(T)}]
    BY <2>1, Zenon DEF Sums
  <2>. QED  BY <2>2, <2>4, <2>5
<1>. HIDE DEF N
<1>4. Nat \subseteq N
  BY <1>2, <1>3, Induction
<1>5. ASSUME NEW T \in SUBSET S PROVE g[T] \in Int
  <2>1. Cardinality(T) \in N
    BY <1>4, FS_Subset, FS_CardinalityType
  <2>. QED  BY <2>1 DEF N
<1>. QED  BY <1>1, <1>5

\* A sum is any one of its terms and the sum of the others: the order is immaterial.
LEMMA SumsSplit ==
  ASSUME NEW f, NEW S, IsFiniteSet(S), \A x \in S : f[x] \in Int, NEW g, Sums(g, f, S)
  PROVE  \A T \in SUBSET S : \A x \in T : g[T] = f[x] + g[T \ {x}]
<1>. DEFINE N == {n \in Nat : \A T \in SUBSET S : Cardinality(T) = n =>
                     \A x \in T : g[T] = f[x] + g[T \ {x}]}
<1>0. \A T \in SUBSET S : g[T] \in Int
  BY SumsType
<1>1. 0 \in N
  <2>. SUFFICES ASSUME NEW T \in SUBSET S, Cardinality(T) = 0 PROVE T = {}
    OBVIOUS
  <2>. QED  BY FS_Subset, FS_EmptySet
<1>2. ASSUME NEW n \in Nat, n \in N PROVE n + 1 \in N
  <2>. SUFFICES ASSUME NEW T \in SUBSET S, Cardinality(T) = n + 1, NEW x \in T
                PROVE  g[T] = f[x] + g[T \ {x}]
    OBVIOUS
  <2>. DEFINE p == Pick(T)
  <2>1. p \in T
    BY DEF Pick
  <2>2. g[T] = f[p] + g[T \ {p}]
    BY <2>1, Zenon DEF Sums
  <2>. HIDE DEF p
  <2>3. CASE x = p
    BY <2>2, <2>3
  <2>4. CASE x # p
    <3>1. x \in T \ {p} /\ p \in T \ {x} /\ (T \ {p}) \ {x} = (T \ {x}) \ {p}
      BY <2>1, <2>4
    <3>2. T \ {p} \in SUBSET S /\ Cardinality(T \ {p}) = Cardinality(T) - 1
      BY <2>1, SmallerSet
    <3>3. T \ {x} \in SUBSET S /\ Cardinality(T \ {x}) = Cardinality(T) - 1
      BY SmallerSet
    <3>4. g[T \ {p}] = f[x] + g[(T \ {p}) \ {x}]
      BY <1>2, <3>1, <3>2
    <3>5. g[T \ {x}] = f[p] + g[(T \ {p}) \ {x}]
      BY <1>2, <3>1, <3>3
    <3>6. g[(T \ {p}) \ {x}] \in Int /\ f[x] \in Int /\ f[p] \in Int
      BY <1>0, <2>1
    <3>. QED  BY <2>2, <3>4, <3>5, <3>6
  <2>. QED  BY <2>3, <2>4
<1>. HIDE DEF N
<1>3. Nat \subseteq N
  BY <1>1, <1>2, Induction
<1>4. ASSUME NEW T \in SUBSET S PROVE \A x \in T : g[T] = f[x] + g[T \ {x}]
  <2>1. Cardinality(T) \in N
    BY <1>3, FS_Subset, FS_CardinalityType
  <2>. QED  BY <2>1 DEF N
<1>. QED  BY <1>4, Zenon

\* Two functions that agree on a set have the same sum there.
LEMMA SumsAgree ==
  ASSUME NEW f, NEW S, IsFiniteSet(S), NEW g, Sums(g, f, S),
         NEW e, NEW R, R \in SUBSET S, \A x \in R : e[x] = f[x], NEW h, Sums(h, e, R)
  PROVE  \A T \in SUBSET R : h[T] = g[T]
<1>. DEFINE N == {n \in Nat : \A T \in SUBSET R : Cardinality(T) = n => h[T] = g[T]}
<1>1. IsFiniteSet(R)
  BY FS_Subset
<1>2. 0 \in N
  <2>. SUFFICES ASSUME NEW T \in SUBSET R, Cardinality(T) = 0 PROVE h[T] = g[T]
    OBVIOUS
  <2>. T = {}
    BY <1>1, FS_Subset, FS_EmptySet
  <2>. {} \in SUBSET S
    OBVIOUS
  <2>. QED  BY DEF Sums
<1>3. ASSUME NEW n \in Nat, n \in N PROVE n + 1 \in N
  <2>. SUFFICES ASSUME NEW T \in SUBSET R, Cardinality(T) = n + 1 PROVE h[T] = g[T]
    OBVIOUS
  <2>1. T # {}
    <3>. n + 1 # 0
      OBVIOUS
    <3>. QED  BY FS_EmptySet
  <2>2. Pick(T) \in T
    BY <2>1 DEF Pick
  <2>3. T \ {Pick(T)} \in SUBSET R /\ Cardinality(T \ {Pick(T)}) = Cardinality(T) - 1
    BY <1>1, <2>2, SmallerSet
  <2>4. h[T \ {Pick(T)}] = g[T \ {Pick(T)}]
    BY <1>3, <2>3
  <2>5. h[T] = e[Pick(T)] + h[T \ {Pick(T)}]
    BY <2>1, Zenon DEF Sums
  <2>6. g[T] = f[Pick(T)] + g[T \ {Pick(T)}]
    BY <2>1, Zenon DEF Sums
  <2>. QED  BY <2>2, <2>4, <2>5, <2>6
<1>. HIDE DEF N
<1>4. Nat \subseteq N
  BY <1>2, <1>3, Induction
<1>5. ASSUME NEW T \in SUBSET R PROVE h[T] = g[T]
  <2>1. Cardinality(T) \in N
    BY <1>1, <1>4, FS_Subset, FS_CardinalityType
  <2>. QED  BY <2>1 DEF N
<1>. QED  BY <1>5

\* A total of nothing.
LEMMA TotalEmpty == \A f : Total(f, {}) = 0
<1>. TAKE f
<1>1. PICK g : Sums(g, f, {}) /\ Total(f, {}) = g[{}]
  BY TotalIsSum, FS_EmptySet
<1>. QED  BY <1>1 DEF Sums

\* A total of numbers is a number.
LEMMA TotalType ==
  ASSUME NEW f, NEW S, IsFiniteSet(S), \A x \in S : f[x] \in Int
  PROVE  Total(f, S) \in Int
<1>1. PICK g : Sums(g, f, S) /\ Total(f, S) = g[S]
  BY TotalIsSum
<1>. QED  BY <1>1, SumsType

\* Totals of the same terms.
LEMMA TotalSame ==
  ASSUME NEW S, IsFiniteSet(S), NEW e, NEW f, \A x \in S : e[x] = f[x]
  PROVE  Total(e, S) = Total(f, S)
<1>1. PICK g : Sums(g, f, S) /\ Total(f, S) = g[S]
  BY TotalIsSum
<1>2. PICK h : Sums(h, e, S) /\ Total(e, S) = h[S]
  BY TotalIsSum
<1>3. \A T \in SUBSET S : h[T] = g[T]
  BY <1>1, <1>2, SumsAgree
<1>. QED  BY <1>1, <1>2, <1>3

\* A total is any one of its terms and the total of the others.
LEMMA TotalSplit ==
  ASSUME NEW f, NEW S, IsFiniteSet(S), \A x \in S : f[x] \in Int, NEW x \in S
  PROVE  Total(f, S) = f[x] + Total(f, S \ {x})
<1>1. PICK g : Sums(g, f, S) /\ Total(f, S) = g[S]
  BY TotalIsSum
<1>. DEFINE R == S \ {x}
<1>2. R \in SUBSET S /\ IsFiniteSet(R)
  BY FS_Subset
<1>. HIDE DEF R
<1>3. PICK h : Sums(h, f, R) /\ Total(f, R) = h[R]
  BY <1>2, TotalIsSum
<1>4. \A T \in SUBSET R : h[T] = g[T]
  BY <1>1, <1>2, <1>3, SumsAgree
<1>5. g[S] = f[x] + g[S \ {x}]
  BY <1>1, SumsSplit
<1>. QED  BY <1>1, <1>3, <1>4, <1>5 DEF R

\* A total of zeros.
LEMMA TotalZero ==
  ASSUME NEW f, NEW S, IsFiniteSet(S), \A x \in S : f[x] = 0
  PROVE  Total(f, S) = 0
<1>1. PICK g : Sums(g, f, S) /\ Total(f, S) = g[S]
  BY TotalIsSum
<1>. DEFINE N == {n \in Nat : \A T \in SUBSET S : Cardinality(T) = n => g[T] = 0}
<1>2. 0 \in N
  <2>. SUFFICES ASSUME NEW T \in SUBSET S, Cardinality(T) = 0 PROVE g[T] = 0
    OBVIOUS
  <2>. T = {}
    BY FS_Subset, FS_EmptySet
  <2>. QED  BY <1>1 DEF Sums
<1>3. ASSUME NEW n \in Nat, n \in N PROVE n + 1 \in N
  <2>. SUFFICES ASSUME NEW T \in SUBSET S, Cardinality(T) = n + 1 PROVE g[T] = 0
    OBVIOUS
  <2>1. PICK y : y \in T
    <3>. n + 1 # 0
      OBVIOUS
    <3>. QED  BY FS_EmptySet
  <2>2. T \ {y} \in SUBSET S /\ Cardinality(T \ {y}) = Cardinality(T) - 1
    BY <2>1, SmallerSet
  <2>3. g[T \ {y}] = 0
    BY <1>3, <2>2
  <2>4. g[T] = f[y] + g[T \ {y}]
    BY <1>1, <2>1, SumsSplit
  <2>. QED  BY <2>1, <2>3, <2>4
<1>. HIDE DEF N
<1>4. Nat \subseteq N
  BY <1>2, <1>3, Induction
<1>5. Cardinality(S) \in N
  BY <1>4, FS_CardinalityType
<1>. QED  BY <1>1, <1>5 DEF N

\* One term more, or one term that is larger by a number.
LEMMA TotalBump ==
  ASSUME NEW S, IsFiniteSet(S), NEW f, \A y \in S : f[y] \in Int, NEW x \in S, NEW n \in Int,
         NEW e, e[x] = f[x] + n, \A y \in S \ {x} : e[y] = f[y]
  PROVE  Total(e, S) = Total(f, S) + n
<1>1. IsFiniteSet(S \ {x}) /\ \A y \in S : e[y] \in Int
  BY FS_Subset
<1>2. Total(f, S) = f[x] + Total(f, S \ {x})
  BY TotalSplit
<1>3. Total(e, S) = e[x] + Total(e, S \ {x})
  BY <1>1, TotalSplit
<1>4. Total(e, S \ {x}) = Total(f, S \ {x})
  BY <1>1, TotalSame
<1>5. Total(f, S \ {x}) \in Int
  BY <1>1, TotalType
<1>6. f[x] \in Int
  OBVIOUS
<1>. QED  BY <1>2, <1>3, <1>4, <1>5, <1>6

-----------------------------------------------------------------------------
(* Documents, objects and their members.                                   *)

\* A sequence is a function on the numbers up to its length.
LEMMA SequenceForm ==
  ASSUME NEW s, IsSequence(s)
  PROVE  /\ Len(s) \in Nat /\ DOMAIN s = 1..Len(s) /\ s \in Seq(ToSet(s))
         /\ \A i \in DOMAIN s : s[i] \in ToSet(s)
         /\ s = [i \in 1..Len(s) |-> s[i]]
  BY DEF IsSequence, ToSet

\* What is a sequence of anything is a sequence of its own entries.
LEMMA SequenceOf ==
  ASSUME NEW X, NEW s \in Seq(X)
  PROVE  IsSequence(s) /\ ToSet(s) \in SUBSET X
<1>1. ToSet(s) \in SUBSET X
  BY DEF ToSet
<1>2. \A i \in DOMAIN s : s[i] \in ToSet(s)
  BY DEF ToSet
<1>3. s \in Seq(ToSet(s))
  <2>1. s = [i \in 1..Len(s) |-> s[i]] /\ Len(s) \in Nat /\ DOMAIN s = 1..Len(s)
    OBVIOUS
  <2>. QED  BY <1>2, <2>1
<1>. QED  BY <1>1, <1>3 DEF IsSequence

\* A function on 1..n is a sequence.
LEMMA FunctionSequence ==
  ASSUME NEW n \in Nat, NEW s, s = [i \in 1..n |-> s[i]]
  PROVE  IsSequence(s) /\ Len(s) = n /\ DOMAIN s = 1..n
<1>1. \A i \in 1..n : s[i] \in ToSet(s)
  BY DEF ToSet
<1>2. s \in Seq(ToSet(s))
  BY <1>1
<1>. QED  BY <1>2 DEF IsSequence

\* What Only keeps is a sequence.
LEMMA OnlySequence ==
  ASSUME NEW s, IsSequence(s), NEW S
  PROVE  IsSequence(Only(s, S)) /\ ToSet(Only(s, S)) = ToSet(s) \cap S
<1>1. s \in Seq(ToSet(s))
  BY DEF IsSequence
<1>2. Only(s, S) \in Seq(ToSet(s)) /\ ToSet(Only(s, S)) = ToSet(s) \cap S
  BY <1>1, OnlyType, Zenon
<1>. QED  BY <1>2, SequenceOf

\* A missing member is a value, and no text.
LEMMA AbsentValue == IsValue(Absent) /\ ~IsText(Absent) /\ Absent.kind = "absent" /\ Absent.items = <<>>
<1>1. Absent = [kind |-> "absent", items |-> <<>>]
  BY DEF Absent, V
<1>2. ToSet(<<>>) = {} /\ <<>> \in Seq({})
  BY EmptySet
<1>. QED  BY <1>1, <1>2 DEF IsValue, IsText, IsSequence

\* What is read from an object is a value.
LEMMA GetValue ==
  ASSUME NEW o, IsObject(o), NEW k
  PROVE  IsValue(Get(o, k))
<1>1. CASE k \in Keys(o)
  <2>1. PICK m \in ToSet(o) : m[1] = k
    BY <1>1 DEF Keys
  <2>2. (CHOOSE x \in ToSet(o) : x[1] = k) \in ToSet(o)
    BY <2>1
  <2>. QED  BY <1>1, <2>2 DEF Get, IsObject
<1>2. CASE k \notin Keys(o)
  BY <1>2, AbsentValue DEF Get
<1>. QED  BY <1>1, <1>2

\* A text is determined by its kind.
LEMMA TextValue ==
  ASSUME NEW v, IsValue(v), IsText(v)
  PROVE  v = [kind |-> v.kind, items |-> <<>>]
  BY DEF IsValue, IsText, IsList

\* One sequence after another.
LEMMA ConcatSequence ==
  ASSUME NEW s, IsSequence(s), NEW t, IsSequence(t)
  PROVE  IsSequence(s \o t) /\ ToSet(s \o t) = ToSet(s) \cup ToSet(t)
<1>. DEFINE X == ToSet(s) \cup ToSet(t)
            u == s \o t
<1>1. s \in Seq(X) /\ t \in Seq(X)
  BY DEF IsSequence
<1>2. u \in Seq(X) /\ Len(u) = Len(s) + Len(t)
  BY <1>1
<1>3. /\ \A i \in DOMAIN s : i \in DOMAIN u /\ u[i] = s[i]
      /\ \A i \in DOMAIN t : Len(s) + i \in DOMAIN u /\ u[Len(s) + i] = t[i]
  BY <1>1
<1>4. ToSet(s) \subseteq ToSet(u) /\ ToSet(t) \subseteq ToSet(u)
  <2>. HIDE DEF u
  <2>. QED  BY <1>3 DEF ToSet
<1>5. IsSequence(u) /\ ToSet(u) \in SUBSET X
  <2>. HIDE DEF u, X
  <2>. QED  BY <1>2, SequenceOf
<1>. QED  BY <1>4, <1>5

\* The entries of a sequence with one more at its end.
LEMMA AppendSequence ==
  ASSUME NEW s, IsSequence(s), NEW e
  PROVE  /\ IsSequence(Append(s, e)) /\ ToSet(Append(s, e)) = ToSet(s) \cup {e}
         /\ Len(Append(s, e)) = Len(s) + 1 /\ DOMAIN Append(s, e) = 1..Len(s) + 1
         /\ Append(s, e)[Len(s) + 1] = e /\ \A i \in DOMAIN s : Append(s, e)[i] = s[i]
<1>. DEFINE X == ToSet(s) \cup {e}
            u == Append(s, e)
<1>1. s \in Seq(X)
  BY DEF IsSequence
<1>2. u \in Seq(X) /\ Len(u) = Len(s) + 1 /\ u[Len(s) + 1] = e /\ \A i \in DOMAIN s : u[i] = s[i]
  BY <1>1
<1>3. ToSet(u) = ToSet(s) \cup {e}
  <2>. HIDE DEF X
  <2>. QED  BY <1>1, AppendSet
<1>4. IsSequence(u)
  <2>. HIDE DEF u, X
  <2>. QED  BY <1>2, SequenceOf
<1>5. DOMAIN u = 1..Len(s) + 1
  <2>. HIDE DEF X
  <2>. QED  BY <1>1
<1>. QED  BY <1>2, <1>3, <1>4, <1>5

-----------------------------------------------------------------------------
(* The images list.                                                        *)

-----------------------------------------------------------------------------
(* Paths.                                                                  *)

\* The component tree: the components are numbered, and the parent of each comes before it.
Tree(d, n) ==
  /\ n \in Nat /\ DOMAIN d.comps = 1..n
  /\ \A i, j \in 1..n : d.comps[i].id = d.comps[j].id => i = j
  /\ \A i \in 1..n : d.comps[i].id # 0
  /\ \A i \in 1..n : d.comps[i].up # 0 => \E j \in 1..i - 1 : d.comps[j].id = d.comps[i].up

Index(d, i) == Cardinality({j \in 1..i : d.comps[j].up = d.comps[i].up})
Parent(d, i) == CHOOSE j \in 1..i - 1 : d.comps[j].id = d.comps[i].up
Place(d, i) == Path(d, d.comps[i])

PathStep(d, path, i) == IF d.comps[i].up = 0 THEN <<Index(d, i)>> ELSE Append(path[Parent(d, i)], Index(d, i))
PathLaws == INSTANCE FoldLaws WITH Op <- PathStep

\* The components of a document are a tree.
LEMMA DocumentTree ==
  ASSUME NEW d, IsDocument(d), WellFormed(d)
  PROVE  Tree(d, Len(d.comps))
<1>1. Len(d.comps) \in Nat /\ DOMAIN d.comps = 1..Len(d.comps)
  BY SequenceForm DEF IsDocument
<1>. QED  BY <1>1 DEF WellFormed, Tree

\* The parent of a nested component comes before it.
LEMMA ParentBefore ==
  ASSUME NEW d, NEW n, Tree(d, n), NEW i \in 1..n, d.comps[i].up # 0
  PROVE  Parent(d, i) \in 1..i - 1 /\ Parent(d, i) \in 1..n /\ d.comps[Parent(d, i)].id = d.comps[i].up
<1>1. \E j \in 1..i - 1 : d.comps[j].id = d.comps[i].up
  BY DEF Tree
<1>2. Parent(d, i) \in 1..i - 1 /\ d.comps[Parent(d, i)].id = d.comps[i].up
  BY <1>1 DEF Parent
<1>3. n \in Nat
  BY DEF Tree
<1>. QED  BY <1>2, <1>3

\* A component is one of its siblings.
LEMMA IndexType ==
  ASSUME NEW d, NEW n, Tree(d, n), NEW i \in 1..n
  PROVE  Index(d, i) \in Nat /\ Index(d, i) # 0
<1>. DEFINE S == {j \in 1..i : d.comps[j].up = d.comps[i].up}
<1>1. n \in Nat
  BY DEF Tree
<1>2. i \in S /\ IsFiniteSet(1..i) /\ S \subseteq 1..i
  BY <1>1, RangeIsFinite
<1>. HIDE DEF S
<1>3. IsFiniteSet(S)
  BY <1>2, FS_Subset, Zenon
<1>4. Cardinality(S) \in Nat /\ Cardinality(S) # 0
  BY <1>2, <1>3, FS_CardinalityType, FS_EmptySet
<1>. QED  BY <1>4 DEF Index, S

\* The path of a component is the path of its parent, and where it is among its siblings.
LEMMA PlaceStep ==
  ASSUME NEW d, NEW n, Tree(d, n), NEW k \in 1..n
  PROVE  Place(d, k) = IF d.comps[k].up = 0 THEN <<Index(d, k)>>
                       ELSE Append(Place(d, Parent(d, k)), Index(d, k))
<1>. DEFINE P(p) == p = [i \in DOMAIN d.comps |-> PathStep(d, p, i)]
            path == CHOOSE p : P(p)
<1>0. n \in Nat /\ DOMAIN d.comps = 1..n
  BY DEF Tree
<1>1. \E p : P(p)
  <2>1. ASSUME NEW f, NEW g, NEW i \in 1..n, \A j \in 1..i - 1 : f[j] = g[j]
        PROVE  PathStep(d, f, i) = PathStep(d, g, i)
    BY <2>1, ParentBefore DEF PathStep
  <2>2. \E p : p = [i \in 1..n |-> PathStep(d, p, i)]
    BY <1>0, <2>1, PathLaws!RecursionExists, Zenon
  <2>. QED  BY <1>0, <2>2
<1>2. P(path)
  BY <1>1
<1>3. ASSUME NEW i \in 1..n PROVE Place(d, i) = path[i]
  <2>1. (CHOOSE j \in DOMAIN d.comps : d.comps[j] = d.comps[i]) = i
    BY <1>0 DEF Tree
  <2>2. Place(d, i) = path[CHOOSE j \in DOMAIN d.comps : d.comps[j] = d.comps[i]]
    BY DEF Place, Path, PathStep, Index, Parent
  <2>. QED  BY <2>1, <2>2, Zenon
<1>4. \A i \in 1..n : path[i] = PathStep(d, path, i)
  BY <1>0, <1>2, Zenon
<1>. HIDE DEF path
<1>5. Place(d, k) = PathStep(d, path, k)
  BY <1>3, <1>4
<1>6. d.comps[k].up # 0 => path[Parent(d, k)] = Place(d, Parent(d, k))
  BY <1>3, ParentBefore
<1>. QED  BY <1>5, <1>6 DEF PathStep

\* How many of the first i entries of s are in S.
Before(s, S, i) == Cardinality({j \in 1..i : s[j] \in S})

\* How many of the first entries are in a set.
LEMMA BeforeType ==
  ASSUME NEW s, NEW S, NEW i \in Nat
  PROVE  /\ Before(s, S, i) \in Nat
         /\ \A k \in 0..i : Before(s, S, k) <= Before(s, S, i)
         /\ \A k \in 1..i : s[k] \in S => Before(s, S, k) >= 1
         /\ Before(s, S, 0) = 0
<1>. DEFINE A(k) == {j \in 1..k : s[j] \in S}
<1>1. ASSUME NEW k \in Nat PROVE IsFiniteSet(A(k)) /\ Cardinality(A(k)) \in Nat
  <2>1. IsFiniteSet(1..k) /\ A(k) \subseteq 1..k
    BY RangeIsFinite
  <2>2. IsFiniteSet(A(k))
    BY <2>1, FS_Subset
  <2>. QED  BY <2>2, FS_CardinalityType
<1>2. ASSUME NEW k \in 0..i PROVE Cardinality(A(k)) <= Cardinality(A(i))
  <2>1. A(k) \subseteq A(i)
    OBVIOUS
  <2>. HIDE DEF A
  <2>. QED  BY <1>1, <2>1, FS_Subset
<1>3. ASSUME NEW k \in 1..i, s[k] \in S PROVE Cardinality(A(k)) >= 1
  <2>1. k \in A(k)
    BY <1>3
  <2>. HIDE DEF A
  <2>2. Cardinality(A(k)) # 0
    BY <1>1, <2>1, FS_EmptySet
  <2>. QED  BY <1>1, <2>2
<1>4. Cardinality(A(0)) = 0
  <2>1. A(0) = {}
    OBVIOUS
  <2>. HIDE DEF A
  <2>. QED  BY <2>1, FS_EmptySet
<1>. QED  BY <1>1, <1>2, <1>3, <1>4 DEF Before

\* One entry more.
LEMMA BeforeNext ==
  ASSUME NEW s, NEW S, NEW i \in Nat
  PROVE  Before(s, S, i + 1) = IF s[i + 1] \in S THEN Before(s, S, i) + 1 ELSE Before(s, S, i)
<1>. DEFINE A(k) == {j \in 1..k : s[j] \in S}
<1>1. IsFiniteSet(A(i))
  <2>1. IsFiniteSet(1..i) /\ A(i) \subseteq 1..i
    BY RangeIsFinite
  <2>. QED  BY <2>1, FS_Subset
<1>2. CASE s[i + 1] \in S
  <2>1. A(i + 1) = A(i) \cup {i + 1} /\ i + 1 \notin A(i)
    BY <1>2
  <2>. HIDE DEF A
  <2>2. Cardinality(A(i + 1)) = Cardinality(A(i)) + 1
    BY <1>1, <2>1, FS_AddElement
  <2>. QED  BY <1>2, <2>2 DEF Before, A
<1>3. CASE s[i + 1] \notin S
  <2>1. A(i + 1) = A(i)
    BY <1>3
  <2>. QED  BY <1>3, <2>1, Zenon DEF Before
<1>. QED  BY <1>2, <1>3

\* Only the entries up to the last one matter.
LEMMA BeforeAgree ==
  ASSUME NEW s, NEW t, NEW S, NEW i \in Nat, \A j \in 1..i : s[j] = t[j]
  PROVE  Before(s, S, i) = Before(t, S, i)
<1>1. {j \in 1..i : s[j] \in S} = {j \in 1..i : t[j] \in S}
  OBVIOUS
<1>. QED  BY <1>1 DEF Before

\* An entry stands behind those of the entries before it that are kept.
LEMMA OnlyPosition ==
  ASSUME NEW X, NEW s \in Seq(X), NEW S
  PROVE  /\ Len(Only(s, S)) = Before(s, S, Len(s))
         /\ \A i \in 1..Len(s) : s[i] \in S =>
              Before(s, S, i) \in 1..Len(Only(s, S)) /\ Only(s, S)[Before(s, S, i)] = s[i]
<1>. DEFINE A == {t \in Seq(X) : /\ Len(Only(t, S)) = Before(t, S, Len(t))
                                 /\ \A i \in 1..Len(t) : t[i] \in S => Only(t, S)[Before(t, S, i)] = t[i]}
<1>1. <<>> \in A
  <2>1. Only(<<>>, S) = <<>> /\ Len(<<>>) = 0 /\ 1..0 = {} /\ Before(<<>>, S, 0) = 0
    BY OnlyEmpty, BeforeType
  <2>. QED  BY <2>1
<1>2. ASSUME NEW t \in Seq(X), NEW e \in X, t \in A PROVE Append(t, e) \in A
  <2>. DEFINE u == Append(t, e)
              n == Len(t)
              o == Only(t, S)
  <2>1. n \in Nat /\ Len(u) = n + 1 /\ u[n + 1] = e /\ u \in Seq(X) /\ \A i \in 1..n : u[i] = t[i]
    OBVIOUS
  <2>2. o \in Seq(X) /\ Only(u, S) = IF e \in S THEN Append(o, e) ELSE o
    BY OnlyType, OnlyNext, Zenon
  <2>3. Len(o) = Before(t, S, n) /\ \A i \in 1..n : t[i] \in S => o[Before(t, S, i)] = t[i]
    BY <1>2
  <2>. HIDE DEF u, n, o
  <2>4. \A i \in 0..n : Before(u, S, i) = Before(t, S, i)
    BY <2>1, BeforeAgree
  <2>5. Before(u, S, n + 1) = IF e \in S THEN Before(t, S, n) + 1 ELSE Before(t, S, n)
    BY <2>1, <2>4, BeforeNext
  <2>6. \A i \in 1..n : t[i] \in S => Before(t, S, i) \in 1..Len(o)
    BY <2>1, <2>3, BeforeType
  <2>7. Before(t, S, n) \in Nat
    BY <2>1, BeforeType
  <2>8. Len(Only(u, S)) = Before(u, S, n + 1)
    BY <2>2, <2>3, <2>5
  <2>9. \A i \in 1..n : t[i] \in S => Only(u, S)[Before(t, S, i)] = t[i]
    BY <2>2, <2>3, <2>6
  <2>10. e \in S => Only(u, S)[Before(u, S, n + 1)] = e
    BY <2>2, <2>3, <2>5
  <2>11. ASSUME NEW i \in 1..n + 1, u[i] \in S PROVE Only(u, S)[Before(u, S, i)] = u[i]
    <3>1. CASE i = n + 1
      BY <2>1, <2>10, <2>11, <3>1
    <3>2. CASE i # n + 1
      <4>. i \in 1..n /\ i \in 0..n
        BY <2>1, <3>2
      <4>. QED  BY <2>1, <2>4, <2>9, <2>11
    <3>. QED  BY <3>1, <3>2
  <2>12. u \in A
    BY <2>1, <2>8, <2>11
  <2>. QED  BY <2>12 DEF u
<1>. HIDE DEF A
<1>3. Seq(X) \subseteq A
  BY <1>1, <1>2, SequenceInduction
<1>4. /\ Len(Only(s, S)) = Before(s, S, Len(s))
      /\ \A i \in 1..Len(s) : s[i] \in S => Only(s, S)[Before(s, S, i)] = s[i]
  BY <1>3 DEF A
<1>5. ASSUME NEW i \in 1..Len(s), s[i] \in S PROVE Before(s, S, i) \in 1..Len(Only(s, S))
  <2>1. Len(s) \in Nat /\ i \in 0..Len(s) /\ i \in Nat
    OBVIOUS
  <2>2. /\ Before(s, S, i) \in Nat /\ Before(s, S, i) <= Before(s, S, Len(s)) /\ Before(s, S, i) >= 1
        /\ Before(s, S, Len(s)) \in Nat
    BY <1>5, <2>1, BeforeType
  <2>. QED  BY <1>4, <2>2
<1>. QED  BY <1>4, <1>5

\* A set of positions that holds each one all of whose predecessors it holds, holds them all.
LEMMA StrongInduction ==
  ASSUME NEW n \in Nat, NEW I, \A i \in 1..n : (\A j \in 1..i - 1 : j \in I) => i \in I
  PROVE  1..n \subseteq I
<1>. DEFINE N == {m \in Nat : \A i \in 1..n : i <= m => i \in I}
<1>1. 0 \in N
  OBVIOUS
<1>2. ASSUME NEW m \in Nat, m \in N PROVE m + 1 \in N
  <2>. SUFFICES ASSUME NEW i \in 1..n, i <= m + 1 PROVE i \in I
    OBVIOUS
  <2>1. \A j \in 1..i - 1 : j \in I
    BY <1>2
  <2>. QED  BY <2>1
<1>. HIDE DEF N
<1>3. Nat \subseteq N
  BY <1>1, <1>2, Induction
<1>. QED  BY <1>3 DEF N

\* A path is a sequence of indices that is not empty.
LEMMA PlaceType ==
  ASSUME NEW d, NEW n, Tree(d, n), NEW i \in 1..n
  PROVE  Place(d, i) \in Seq(Nat) /\ Place(d, i) # <<>>
<1>. DEFINE I == {k \in 1..n : Place(d, k) \in Seq(Nat) /\ Place(d, k) # <<>>}
<1>1. n \in Nat
  BY DEF Tree
<1>2. ASSUME NEW k \in 1..n, \A j \in 1..k - 1 : j \in I PROVE k \in I
  <2>1. Index(d, k) \in Nat
    BY IndexType
  <2>2. CASE d.comps[k].up = 0
    <3>. DEFINE x == Index(d, k)
    <3>1. Place(d, k) = <<x>>
      BY <2>2, PlaceStep
    <3>. HIDE DEF x
    <3>2. x \in Nat => <<x>> \in Seq(Nat) /\ <<x>> # <<>>
      OBVIOUS
    <3>. QED  BY <2>1, <3>1, <3>2, Zenon DEF x
  <2>3. CASE d.comps[k].up # 0
    <3>1. Place(d, k) = Append(Place(d, Parent(d, k)), Index(d, k))
      BY <2>3, PlaceStep
    <3>2. Parent(d, k) \in I
      BY <1>2, <2>3, ParentBefore
    <3>3. Place(d, Parent(d, k)) \in Seq(Nat)
      BY <3>2
    <3>. QED  BY <2>1, <3>1, <3>3
  <2>. QED  BY <2>2, <2>3
<1>. HIDE DEF I
<1>3. 1..n \subseteq I
  BY <1>1, <1>2, StrongInduction, Zenon
<1>. QED  BY <1>3 DEF I

-----------------------------------------------------------------------------

AtStep(d, up, index) == Siblings(d, up)[index].id
AtLaws == INSTANCE FoldLaws WITH Op <- AtStep

\* The empty path is the root.
LEMMA AtEmpty == \A d : At(d, <<>>) = 0
<1>. TAKE d
<1>1. At(d, <<>>) = AtLaws!Folded(d, 0, <<>>)
  BY DEF At, FoldLeft, MapThenFoldSet, AtLaws!Folded, AtLaws!OnSets, AtLaws!Last, Max, AtStep
<1>. QED  BY <1>1, AtLaws!FoldEmpty

\* A path is followed index by index.
LEMMA AtNext ==
  ASSUME NEW d, NEW p \in Seq(Nat), NEW x \in Nat
  PROVE  At(d, Append(p, x)) = Siblings(d, At(d, p))[x].id
<1>. DEFINE u == Append(p, x)
            n == Len(p)
<1>1. \A q : At(d, q) = AtLaws!Folded(d, 0, q)
  BY DEF At, FoldLeft, MapThenFoldSet, AtLaws!Folded, AtLaws!OnSets, AtLaws!Last, Max, AtStep
<1>2. /\ n \in Nat /\ DOMAIN u = 1..n + 1 /\ DOMAIN p = 1..n
      /\ \A i \in 1..n : p[i] = u[i]
      /\ u[n + 1] = x
  OBVIOUS
<1>. HIDE DEF n, u
<1>3. AtLaws!Folded(d, 0, u) = AtStep(d, AtLaws!Folded(d, 0, p), u[n + 1])
  BY <1>2, AtLaws!FoldNext
<1>. QED  BY <1>1, <1>2, <1>3 DEF AtStep, u

\* A component's index among its siblings.
LEMMA SiblingAt ==
  ASSUME NEW d, IsSequence(d.comps), NEW n, Tree(d, n), NEW i \in 1..n
  PROVE  Siblings(d, d.comps[i].up)[Index(d, i)] = d.comps[i]
<1>. DEFINE S == {c \in ToSet(d.comps) : c.up = d.comps[i].up}
<1>1. n \in Nat /\ DOMAIN d.comps = 1..n
  BY DEF Tree
<1>2. d.comps \in Seq(ToSet(d.comps)) /\ Len(d.comps) = n /\ \A j \in 1..n : d.comps[j] \in ToSet(d.comps)
  BY <1>1, SequenceForm
<1>3. Index(d, i) = Before(d.comps, S, i)
  <2>1. {j \in 1..i : d.comps[j].up = d.comps[i].up} = {j \in 1..i : d.comps[j] \in S}
    BY <1>1, <1>2
  <2>. QED  BY <2>1, Zenon DEF Index, Before
<1>4. d.comps[i] \in S
  BY <1>2
<1>. HIDE DEF S
<1>5. Only(d.comps, S)[Before(d.comps, S, i)] = d.comps[i]
  BY <1>2, <1>4, OnlyPosition
<1>. QED  BY <1>3, <1>5 DEF Siblings, S

\* The path of a component leads to it.
LEMMA AtPlace ==
  ASSUME NEW d, IsSequence(d.comps), NEW n, Tree(d, n), NEW i \in 1..n
  PROVE  At(d, Place(d, i)) = d.comps[i].id
<1>. DEFINE I == {k \in 1..n : At(d, Place(d, k)) = d.comps[k].id}
<1>1. n \in Nat
  BY DEF Tree
<1>2. ASSUME NEW k \in 1..n, \A j \in 1..k - 1 : j \in I PROVE k \in I
  <2>1. Index(d, k) \in Nat
    BY IndexType
  <2>2. Siblings(d, d.comps[k].up)[Index(d, k)] = d.comps[k]
    BY SiblingAt
  <2>3. CASE d.comps[k].up = 0
    <3>1. Place(d, k) = Append(<<>>, Index(d, k))
      BY <2>1, <2>3, PlaceStep
    <3>2. At(d, Place(d, k)) = Siblings(d, 0)[Index(d, k)].id
      <4>. <<>> \in Seq(Nat)
        OBVIOUS
      <4>. QED  BY <2>1, <3>1, AtEmpty, AtNext, Zenon
    <3>. QED  BY <2>2, <2>3, <3>2
  <2>4. CASE d.comps[k].up # 0
    <3>1. Place(d, k) = Append(Place(d, Parent(d, k)), Index(d, k))
      BY <2>4, PlaceStep
    <3>2. Parent(d, k) \in I /\ d.comps[Parent(d, k)].id = d.comps[k].up /\ Parent(d, k) \in 1..n
      BY <1>2, <2>4, ParentBefore
    <3>3. Place(d, Parent(d, k)) \in Seq(Nat)
      BY <3>2, PlaceType
    <3>4. At(d, Place(d, k)) = Siblings(d, At(d, Place(d, Parent(d, k))))[Index(d, k)].id
      BY <2>1, <3>1, <3>3, AtNext
    <3>. QED  BY <2>2, <3>2, <3>4
  <2>. QED  BY <2>3, <2>4
<1>. HIDE DEF I
<1>3. 1..n \subseteq I
  BY <1>1, <1>2, StrongInduction
<1>. QED  BY <1>3 DEF I

\* Components with one path are one.
LEMMA PlaceInjective ==
  ASSUME NEW d, IsSequence(d.comps), NEW n, Tree(d, n), NEW i \in 1..n, NEW j \in 1..n,
         Place(d, i) = Place(d, j)
  PROVE  i = j
<1>1. d.comps[i].id = d.comps[j].id
  BY AtPlace
<1>. QED  BY <1>1 DEF Tree

\* The tree of a document whose components have other members is the same.
SameTree(d, e) ==
  /\ IsSequence(e.comps) /\ DOMAIN e.comps = DOMAIN d.comps
  /\ \A i \in DOMAIN d.comps : e.comps[i].id = d.comps[i].id /\ e.comps[i].up = d.comps[i].up

\* Documents with the same tree have the same paths.
LEMMA SameTreePlaces ==
  ASSUME NEW d, NEW n, Tree(d, n), NEW e, SameTree(d, e)
  PROVE  Tree(e, n) /\ \A i \in 1..n : Place(e, i) = Place(d, i)
<1>0. n \in Nat /\ DOMAIN d.comps = 1..n
  BY DEF Tree
<1>1. Tree(e, n)
  <2>1. DOMAIN e.comps = 1..n /\ \A i \in 1..n : e.comps[i].id = d.comps[i].id /\ e.comps[i].up = d.comps[i].up
    BY <1>0 DEF SameTree
  <2>2. \A i, j \in 1..n : e.comps[i].id = e.comps[j].id => i = j
    BY <2>1 DEF Tree
  <2>3. \A i \in 1..n : e.comps[i].id # 0
    BY <2>1 DEF Tree
  <2>4. ASSUME NEW i \in 1..n, e.comps[i].up # 0 PROVE \E j \in 1..i - 1 : e.comps[j].id = e.comps[i].up
    <3>1. PICK j \in 1..i - 1 : d.comps[j].id = d.comps[i].up
      BY <2>1, <2>4 DEF Tree
    <3>2. j \in 1..n
      BY <1>0
    <3>. QED  BY <2>1, <3>1, <3>2
  <2>. QED  BY <1>0, <2>1, <2>2, <2>3, <2>4 DEF Tree
<1>2. ASSUME NEW i \in 1..n
      PROVE  Index(e, i) = Index(d, i) /\ Parent(e, i) = Parent(d, i) /\ e.comps[i].up = d.comps[i].up
  <2>1. \A j \in 1..i : j \in DOMAIN d.comps
    BY <1>0
  <2>2. {j \in 1..i : e.comps[j].up = e.comps[i].up} = {j \in 1..i : d.comps[j].up = d.comps[i].up}
    BY <1>0, <2>1 DEF SameTree
  <2>3. \A j \in 1..i - 1 : e.comps[j].id = e.comps[i].up <=> d.comps[j].id = d.comps[i].up
    BY <1>0, <2>1 DEF SameTree
  <2>4. Parent(e, i) = Parent(d, i)
    BY <2>3 DEF Parent
  <2>. QED  BY <1>0, <2>2, <2>4, Zenon DEF Index, SameTree
<1>. DEFINE I == {k \in 1..n : Place(e, k) = Place(d, k)}
<1>3. ASSUME NEW k \in 1..n, \A j \in 1..k - 1 : j \in I PROVE k \in I
  <2>1. CASE d.comps[k].up = 0
    BY <1>1, <1>2, <2>1, PlaceStep
  <2>2. CASE d.comps[k].up # 0
    <3>1. Place(e, Parent(d, k)) = Place(d, Parent(d, k))
      BY <1>3, <2>2, ParentBefore
    <3>2. Place(d, k) = Append(Place(d, Parent(d, k)), Index(d, k))
      BY <2>2, PlaceStep
    <3>3. e.comps[k].up # 0
      BY <1>2, <2>2
    <3>4. Place(e, k) = Append(Place(e, Parent(e, k)), Index(e, k))
      BY <1>1, <3>3, PlaceStep
    <3>. QED  BY <1>2, <3>1, <3>2, <3>4
  <2>. QED  BY <2>1, <2>2
<1>. HIDE DEF I
<1>4. 1..n \subseteq I
  BY <1>0, <1>3, StrongInduction, Zenon
<1>. QED  BY <1>1, <1>4 DEF I

-----------------------------------------------------------------------------
(* The order of paths.                                                     *)

LessFrom(p, q, n) ==
  /\ n <= Len(p) /\ n < Len(q)
  /\ \A k \in 1..n : p[k] = q[k]
  /\ n = Len(p) \/ p[n + 1] < q[n + 1]

\* Two paths agree up to an index when they agree at each.
LEMMA SameBeginning ==
  ASSUME NEW p \in Seq(Nat), NEW q \in Seq(Nat), NEW n \in Nat, n <= Len(p), n <= Len(q)
  PROVE  SubSeq(p, 1, n) = SubSeq(q, 1, n) <=> \A k \in 1..n : p[k] = q[k]
<1>1. /\ SubSeq(p, 1, n) = [k \in 1..n |-> p[k]]
      /\ SubSeq(q, 1, n) = [k \in 1..n |-> q[k]]
  OBVIOUS
<1>. DEFINE f == [k \in 1..n |-> p[k]]
            g == [k \in 1..n |-> q[k]]
<1>2. f = g => \A k \in 1..n : f[k] = g[k]
  BY Zenon
<1>. QED  BY <1>1, <1>2

\* The order of paths, by the first index where they part.
LEMMA LexLessFrom ==
  ASSUME NEW p \in Seq(Nat), NEW q \in Seq(Nat)
  PROVE  LexLess(p, q) <=> \E n \in Nat : LessFrom(p, q, n)
<1>1. Len(p) \in Nat /\ Len(q) \in Nat
  OBVIOUS
<1>2. \A n \in Nat : n <= Len(p) /\ n <= Len(q) => (SubSeq(p, 1, n) = SubSeq(q, 1, n) <=> \A k \in 1..n : p[k] = q[k])
  BY <1>1, SameBeginning, Zenon
<1>3. LexLess(p, q) <=>
        \E n \in 0..Len(p) : /\ n < Len(q) /\ SubSeq(p, 1, n) = SubSeq(q, 1, n)
                             /\ n = Len(p) \/ p[n + 1] < q[n + 1]
  BY DEF LexLess
<1>4. \A n \in 0..Len(p) : n \in Nat /\ n <= Len(p)
  BY <1>1
<1>5. \A n \in Nat : n <= Len(p) => n \in 0..Len(p)
  BY <1>1
<1>. QED  BY <1>2, <1>3, <1>4, <1>5 DEF LessFrom

\* No path is before itself.
LEMMA LexIrreflexive ==
  ASSUME NEW p \in Seq(Nat)
  PROVE  ~LexLess(p, p)
<1>. SUFFICES ASSUME NEW n \in Nat, LessFrom(p, p, n) PROVE FALSE
  BY LexLessFrom
<1>1. n < Len(p) /\ n + 1 \in 1..Len(p) /\ Len(p) \in Nat
  BY DEF LessFrom
<1>2. p[n + 1] \in Nat
  BY <1>1
<1>. QED  BY <1>1, <1>2 DEF LessFrom

\* The order of paths is transitive.
LEMMA LexTransitive ==
  ASSUME NEW p \in Seq(Nat), NEW q \in Seq(Nat), NEW r \in Seq(Nat), LexLess(p, q), LexLess(q, r)
  PROVE  LexLess(p, r)
<1>1. PICK m \in Nat : LessFrom(p, q, m)
  BY LexLessFrom
<1>2. PICK n \in Nat : LessFrom(q, r, n)
  BY LexLessFrom
<1>. DEFINE lp == Len(p)
            lq == Len(q)
            lr == Len(r)
<1>3. /\ lp \in Nat /\ lq \in Nat /\ lr \in Nat
      /\ \A k \in 1..lp : p[k] \in Nat
      /\ \A k \in 1..lq : q[k] \in Nat
      /\ \A k \in 1..lr : r[k] \in Nat
  OBVIOUS
<1>4. /\ m <= lp /\ m < lq /\ (\A k \in 1..m : p[k] = q[k]) /\ (m = lp \/ p[m + 1] < q[m + 1])
      /\ n <= lq /\ n < lr /\ (\A k \in 1..n : q[k] = r[k]) /\ (n = lq \/ q[n + 1] < r[n + 1])
  BY <1>1, <1>2 DEF LessFrom
<1>. HIDE DEF lp, lq, lr
<1>. SUFFICES \E k \in Nat : k <= lp /\ k < lr /\ (\A j \in 1..k : p[j] = r[j]) /\ (k = lp \/ p[k + 1] < r[k + 1])
  BY LexLessFrom DEF LessFrom, lp, lr
<1>5. CASE m < n
  <2>1. m < lr /\ \A j \in 1..m : p[j] = r[j]
    <3>1. m < lr
      BY <1>3, <1>4, <1>5
    <3>2. \A j \in 1..m : j \in 1..n
      BY <1>5
    <3>. QED  BY <1>4, <3>1, <3>2, Zenon
  <2>2. q[m + 1] = r[m + 1]
    BY <1>4, <1>5
  <2>3. m = lp \/ p[m + 1] < r[m + 1]
    BY <1>4, <2>2
  <2>. QED  BY <1>4, <2>1, <2>3
<1>6. CASE n < m
  <2>1. n <= lp /\ n < lr /\ \A j \in 1..n : p[j] = r[j]
    BY <1>3, <1>4, <1>6
  <2>2. p[n + 1] = q[n + 1]
    BY <1>4, <1>6
  <2>3. q[n + 1] < r[n + 1]
    BY <1>3, <1>4, <1>6
  <2>. QED  BY <2>1, <2>2, <2>3
<1>7. CASE m = n
  <2>1. n < lr /\ \A j \in 1..n : p[j] = r[j]
    BY <1>4, <1>7
  <2>2. n # lq /\ q[n + 1] < r[n + 1]
    BY <1>3, <1>4, <1>7
  <2>3. n = lp \/ p[n + 1] < r[n + 1]
    <3>1. CASE n # lp
      <4>1. n + 1 \in 1..lp /\ n + 1 \in 1..lq /\ n + 1 \in 1..lr
        BY <1>3, <1>4, <1>7, <3>1
      <4>2. p[n + 1] \in Nat /\ q[n + 1] \in Nat /\ r[n + 1] \in Nat
        BY <1>3, <4>1
      <4>3. p[n + 1] < q[n + 1]
        BY <1>4, <1>7, <3>1
      <4>. QED  BY <2>2, <4>2, <4>3
    <3>. QED  BY <3>1
  <2>. QED  BY <1>4, <1>7, <2>1, <2>3
<1>. QED  BY <1>5, <1>6, <1>7

\* Of two paths one is before the other.
LEMMA LexTotal ==
  ASSUME NEW p \in Seq(Nat), NEW q \in Seq(Nat), p # q
  PROVE  LexLess(p, q) \/ LexLess(q, p)
<1>. DEFINE Less == LexLess(p, q) \/ LexLess(q, p)
            N == {k \in Nat : Less \/ (k <= Len(p) /\ k <= Len(q) /\ \A j \in 1..k : p[j] = q[j])}
<1>0. /\ Len(p) \in Nat /\ Len(q) \in Nat
      /\ \A k \in 1..Len(p) : p[k] \in Nat
      /\ \A k \in 1..Len(q) : q[k] \in Nat
  OBVIOUS
<1>1. 0 \in N
  BY <1>0
<1>2. ASSUME NEW k \in Nat, k \in N PROVE k + 1 \in N
  <2>. SUFFICES ASSUME ~Less PROVE k + 1 <= Len(p) /\ k + 1 <= Len(q) /\ \A j \in 1..k + 1 : p[j] = q[j]
    OBVIOUS
  <2>1. k <= Len(p) /\ k <= Len(q) /\ \A j \in 1..k : p[j] = q[j]
    BY <1>2
  <2>2. ~LessFrom(p, q, k) /\ ~LessFrom(q, p, k)
    BY LexLessFrom
  <2>3. k # Len(p)
    <3>. SUFFICES ASSUME k = Len(p) PROVE FALSE
      OBVIOUS
    <3>1. k < Len(q) => LessFrom(p, q, k)
      BY <2>1 DEF LessFrom
    <3>2. Len(q) = k
      BY <1>0, <2>1, <2>2, <3>1
    <3>3. p = [j \in 1..k |-> p[j]] /\ q = [j \in 1..k |-> q[j]]
      BY <3>2
    <3>4. p = q
      BY <2>1, <3>3, Zenon
    <3>. QED  BY <3>4
  <2>4. k < Len(p)
    BY <1>0, <2>1, <2>3
  <2>5. k # Len(q)
    BY <2>1, <2>2, <2>4 DEF LessFrom
  <2>6. k < Len(q)
    BY <1>0, <2>1, <2>5
  <2>7. p[k + 1] \in Nat /\ q[k + 1] \in Nat
    BY <1>0, <2>4, <2>6
  <2>8. ~(p[k + 1] < q[k + 1]) /\ ~(q[k + 1] < p[k + 1])
    BY <2>1, <2>2, <2>4, <2>6 DEF LessFrom
  <2>9. p[k + 1] = q[k + 1]
    BY <2>7, <2>8
  <2>. QED  BY <1>0, <2>1, <2>4, <2>6, <2>9
<1>. HIDE DEF N
<1>3. Nat \subseteq N
  BY <1>1, <1>2, Induction, Zenon
<1>4. Len(p) + 1 \in N
  BY <1>0, <1>3
<1>. QED  BY <1>0, <1>4 DEF N

\* A component comes before those nested in it.
LEMMA LexPrefix ==
  ASSUME NEW p \in Seq(Nat), NEW x \in Nat
  PROVE  LexLess(p, Append(p, x))
<1>. DEFINE q == Append(p, x)
<1>1. q \in Seq(Nat) /\ Len(q) = Len(p) + 1 /\ Len(p) \in Nat /\ \A k \in 1..Len(p) : p[k] = q[k]
  OBVIOUS
<1>. HIDE DEF q
<1>2. LessFrom(p, q, Len(p))
  BY <1>1 DEF LessFrom
<1>3. LexLess(p, q)
  BY <1>1, <1>2, LexLessFrom
<1>. QED  BY <1>3 DEF q

\* Siblings are in the order of their indices.
LEMMA LexLast ==
  ASSUME NEW p \in Seq(Nat), NEW x \in Nat, NEW y \in Nat, x < y
  PROVE  LexLess(Append(p, x), Append(p, y))
<1>. DEFINE q == Append(p, x)
            r == Append(p, y)
            n == Len(p)
<1>1. /\ n \in Nat
      /\ q \in Seq(Nat) /\ Len(q) = n + 1 /\ q[n + 1] = x /\ \A k \in 1..n : p[k] = q[k]
      /\ r \in Seq(Nat) /\ Len(r) = n + 1 /\ r[n + 1] = y /\ \A k \in 1..n : p[k] = r[k]
  OBVIOUS
<1>. HIDE DEF q, r, n
<1>2. LessFrom(q, r, n)
  BY <1>1 DEF LessFrom
<1>3. LexLess(q, r)
  BY <1>1, <1>2, LexLessFrom
<1>. QED  BY <1>3 DEF q, r

\* Things with different paths can be put in the descending order of their paths, in one
\* way only up to what they are.
Descends(s) == \A i, j \in DOMAIN s : i < j => LexLess(s[j].path, s[i].path)

\* Of finitely many paths one is the first.
LEMMA LeastPath ==
  ASSUME NEW T, IsFiniteSet(T), T # {}, \A x \in T : x.path \in Seq(Nat),
         \A x, y \in T : x.path = y.path => x = y
  PROVE  \E x \in T : \A y \in T \ {x} : LexLess(x.path, y.path)
<1>. DEFINE Least(R) == R # {} => \E x \in R : \A y \in R \ {x} : LexLess(x.path, y.path)
            N == {n \in Nat : \A R \in SUBSET T : Cardinality(R) = n => Least(R)}
<1>1. 0 \in N
  <2>. SUFFICES ASSUME NEW R \in SUBSET T, Cardinality(R) = 0 PROVE R = {}
    BY Zenon
  <2>. QED  BY FS_Subset, FS_EmptySet
<1>2. ASSUME NEW n \in Nat, n \in N PROVE n + 1 \in N
  <2>. SUFFICES ASSUME NEW R \in SUBSET T, Cardinality(R) = n + 1, R # {}
                PROVE  \E x \in R : \A y \in R \ {x} : LexLess(x.path, y.path)
    BY SMTT(30)
  <2>1. PICK z : z \in R
    OBVIOUS
  <2>2. R \ {z} \in SUBSET T /\ Cardinality(R \ {z}) = n
    BY <2>1, SmallerSet
  <2>3. Least(R \ {z})
    BY <1>2, <2>2, Zenon
  <2>4. CASE R \ {z} = {}
    BY <2>1, <2>4
  <2>5. CASE R \ {z} # {}
    <3>1. PICK x \in R \ {z} : \A y \in (R \ {z}) \ {x} : LexLess(x.path, y.path)
      BY <2>3, <2>5
    <3>2. x.path # z.path /\ x.path \in Seq(Nat) /\ z.path \in Seq(Nat) /\ x # z
      BY <2>1, <3>1
    <3>3. CASE LexLess(x.path, z.path)
      <4>1. \A y \in R \ {x} : LexLess(x.path, y.path)
        BY <3>1, <3>3
      <4>. QED  BY <3>1, <4>1
    <3>4. CASE LexLess(z.path, x.path)
      <4>1. ASSUME NEW y \in R \ {z} PROVE LexLess(z.path, y.path)
        <5>1. CASE y = x
          BY <3>4, <5>1
        <5>2. CASE y # x
          <6>1. LexLess(x.path, y.path) /\ y.path \in Seq(Nat)
            BY <3>1, <5>2
          <6>. QED  BY <3>2, <3>4, <6>1, LexTransitive
        <5>. QED  BY <5>1, <5>2
      <4>. QED  BY <2>1, <4>1
    <3>. QED  BY <3>2, <3>3, <3>4, LexTotal
  <2>. QED  BY <2>4, <2>5
<1>. HIDE DEF N
<1>3. Nat \subseteq N
  BY <1>1, <1>2, Induction
<1>4. Cardinality(T) \in N
  BY <1>3, FS_CardinalityType
<1>5. Least(T)
  BY <1>4 DEF N
<1>. QED  BY <1>5

\* Finitely many components can be listed from the last path to the first.
LEMMA DescendingOrder ==
  ASSUME NEW T, IsFiniteSet(T), \A x \in T : x.path \in Seq(Nat),
         \A x, y \in T : x.path = y.path => x = y
  PROVE  \E s \in SetToSeqs(T) : Descends(s)
<1>. DEFINE N == {n \in Nat : \A R \in SUBSET T : Cardinality(R) = n => \E s \in SetToSeqs(R) : Descends(s)}
<1>1. 0 \in N
  <2>. SUFFICES ASSUME NEW R \in SUBSET T, Cardinality(R) = 0 PROVE \E s \in SetToSeqs(R) : Descends(s)
    OBVIOUS
  <2>. DEFINE s == [i \in 1..0 |-> i]
  <2>1. s \in [1..0 -> R] /\ DOMAIN s = {}
    OBVIOUS
  <2>. HIDE DEF s
  <2>2. s \in SetToSeqs(R) /\ Descends(s)
    BY <2>1 DEF SetToSeqs, Descends
  <2>. QED  BY <2>2
<1>2. ASSUME NEW n \in Nat, n \in N PROVE n + 1 \in N
  <2>. SUFFICES ASSUME NEW R \in SUBSET T, Cardinality(R) = n + 1 PROVE \E s \in SetToSeqs(R) : Descends(s)
    OBVIOUS
  <2>1. IsFiniteSet(R) /\ R # {}
    <3>. n + 1 # 0
      OBVIOUS
    <3>. QED  BY FS_Subset, FS_EmptySet
  <2>2. PICK z \in R : \A y \in R \ {z} : LexLess(z.path, y.path)
    BY <2>1, LeastPath
  <2>3. R \ {z} \in SUBSET T /\ Cardinality(R \ {z}) = n
    BY <2>2, SmallerSet
  <2>4. PICK s \in SetToSeqs(R \ {z}) : Descends(s)
    BY <1>2, <2>3
  <2>5. s \in [1..n -> R \ {z}] /\ \A i, j \in 1..n : i # j => s[i] # s[j]
    BY <2>3, <2>4, Zenon DEF SetToSeqs
  <2>. DEFINE u == [i \in 1..n + 1 |-> IF i = n + 1 THEN z ELSE s[i]]
  <2>6. /\ u \in [1..n + 1 -> R] /\ DOMAIN u = 1..n + 1 /\ u[n + 1] = z
        /\ \A i \in 1..n : u[i] = s[i] /\ u[i] \in R \ {z}
    BY <2>2, <2>5
  <2>. HIDE DEF u
  <2>7. \A i \in 1..n + 1 : i \in 1..n \/ i = n + 1
    OBVIOUS
  <2>8. \A i, j \in 1..n + 1 : i # j => u[i] # u[j]
    BY <2>5, <2>6, <2>7
  <2>9. u \in SetToSeqs(R)
    BY <2>6, <2>8 DEF SetToSeqs
  <2>10. ASSUME NEW i \in 1..n + 1, NEW j \in 1..n + 1, i < j PROVE LexLess(u[j].path, u[i].path)
    <3>1. i \in 1..n
      BY <2>10
    <3>2. CASE j = n + 1
      BY <2>2, <2>6, <3>1, <3>2
    <3>3. CASE j \in 1..n
      BY <2>4, <2>5, <2>6, <2>10, <3>1, <3>3 DEF Descends
    <3>. QED  BY <2>7, <3>2, <3>3
  <2>11. Descends(u)
    BY <2>6, <2>10 DEF Descends
  <2>. QED  BY <2>9, <2>11
<1>. HIDE DEF N
<1>3. Nat \subseteq N
  BY <1>1, <1>2, Induction
<1>4. Cardinality(T) \in N
  BY <1>3, FS_CardinalityType
<1>. QED  BY <1>4 DEF N

-----------------------------------------------------------------------------
(* Removing one entry.                                                     *)

Skip(r, k) == IF k < r THEN k ELSE k + 1

\* e is d without its component r.
Without1(d, n, r, e) ==
  /\ IsSequence(e.comps) /\ DOMAIN e.comps = 1..n - 1
  /\ \A k \in 1..n - 1 : e.comps[k] = d.comps[Skip(r, k)]

Leaf(d, n, r) == \A i \in 1..n : d.comps[i].up # d.comps[r].id

\* All but one of the entries are kept: those after it move up.
LEMMA OnlyRemoves ==
  ASSUME NEW X, NEW s \in Seq(X), NEW n, n = Len(s), NEW r \in 1..n, NEW S,
         \A i \in 1..n : s[i] \in S <=> i # r
  PROVE  Only(s, S) \in Seq(X) /\ DOMAIN Only(s, S) = 1..n - 1
         /\ \A k \in 1..n - 1 : Only(s, S)[k] = s[Skip(r, k)]
<1>. DEFINE N == {i \in Nat : i <= n => Before(s, S, i) = IF i < r THEN i ELSE i - 1}
<1>0. n \in Nat
  OBVIOUS
<1>1. 0 \in N
  <2>. Before(s, S, 0) = 0
    BY BeforeType
  <2>. QED  BY <1>0
<1>2. ASSUME NEW i \in Nat, i \in N PROVE i + 1 \in N
  <2>. SUFFICES ASSUME i + 1 <= n PROVE Before(s, S, i + 1) = IF i + 1 < r THEN i + 1 ELSE (i + 1) - 1
    OBVIOUS
  <2>1. Before(s, S, i) = IF i < r THEN i ELSE i - 1
    BY <1>0, <1>2
  <2>2. i + 1 \in 1..n
    BY <1>0
  <2>3. Before(s, S, i + 1) = IF i + 1 # r THEN Before(s, S, i) + 1 ELSE Before(s, S, i)
    BY <2>2, BeforeNext
  <2>. QED  BY <1>0, <2>1, <2>3
<1>. HIDE DEF N
<1>3. Nat \subseteq N
  BY <1>1, <1>2, Induction, Zenon
<1>4. \A i \in 0..n : Before(s, S, i) = IF i < r THEN i ELSE i - 1
  BY <1>0, <1>3 DEF N
<1>5. Only(s, S) \in Seq(X) /\ Len(Only(s, S)) = Before(s, S, n)
  BY OnlyType, OnlyPosition, Zenon
<1>6. Before(s, S, n) = n - 1
  BY <1>0, <1>4
<1>7. ASSUME NEW k \in 1..n - 1 PROVE Only(s, S)[k] = s[Skip(r, k)]
  <2>. DEFINE i == Skip(r, k)
  <2>1. i \in 1..n /\ i # r /\ k = IF i < r THEN i ELSE i - 1
    BY <1>0 DEF Skip
  <2>. HIDE DEF i
  <2>2. Before(s, S, i) = k /\ s[i] \in S
    BY <1>0, <1>4, <2>1
  <2>3. Only(s, S)[Before(s, S, i)] = s[i]
    BY <2>1, <2>2, OnlyPosition, Zenon
  <2>. QED  BY <2>2, <2>3 DEF i
<1>. QED  BY <1>5, <1>6, <1>7

\* What is nested in a leaf is the leaf.
LEMMA LeafPrefix ==
  ASSUME NEW d, IsSequence(d.comps), NEW n, Tree(d, n), NEW r \in 1..n, Leaf(d, n, r), NEW i \in 1..n
  PROVE  Len(Place(d, i)) >= Len(Place(d, r)) /\ SubSeq(Place(d, i), 1, Len(Place(d, r))) = Place(d, r)
         <=> i = r
<1>. DEFINE m == Len(Place(d, r))
            In(k) == Len(Place(d, k)) >= m /\ SubSeq(Place(d, k), 1, m) = Place(d, r)
            I == {k \in 1..n : In(k) <=> k = r}
<1>0. n \in Nat
  BY DEF Tree
<1>1. m \in Nat /\ m # 0
  BY PlaceType
<1>2. ASSUME NEW k \in 1..n, \A j \in 1..k - 1 : j \in I PROVE k \in I
  <2>. DEFINE p == Place(d, k)
  <2>1. p \in Seq(Nat) /\ p # <<>> /\ Len(p) \in Nat
    BY PlaceType
  <2>2. CASE Len(p) = m
    <3>1. SubSeq(p, 1, m) = p
      <4>. HIDE DEF p, m
      <4>. QED  BY <1>1, <2>1, <2>2
    <3>2. In(k) <=> p = Place(d, r)
      BY <1>1, <2>2, <3>1
    <3>. QED  BY <3>2, PlaceInjective
  <2>3. CASE Len(p) < m
    <3>1. k # r
      BY <1>1, <2>3
    <3>2. ~In(k)
      BY <1>1, <2>1, <2>3
    <3>. QED  BY <3>1, <3>2
  <2>4. CASE Len(p) > m
    <3>. DEFINE q == Place(d, Parent(d, k))
    <3>0. k # r
      BY <1>1, <2>4
    <3>1. CASE d.comps[k].up = 0
      <4>1. p = <<Index(d, k)>>
        BY <3>1, PlaceStep
      <4>2. Len(p) = 1
        BY <4>1
      <4>. QED  BY <1>1, <2>4, <4>2
    <3>2. CASE d.comps[k].up # 0
      <4>1. p = Append(q, Index(d, k))
        BY <3>2, PlaceStep
      <4>2. Parent(d, k) \in I /\ d.comps[Parent(d, k)].id = d.comps[k].up /\ Parent(d, k) \in 1..n
        BY <1>2, <3>2, ParentBefore, Zenon
      <4>3. q \in Seq(Nat) /\ Index(d, k) \in Nat
        BY <4>2, PlaceType, IndexType
      <4>4. Parent(d, k) # r
        BY <4>2 DEF Leaf
      <4>5. ~In(Parent(d, k))
        BY <4>2, <4>4
      <4>6. Len(q) >= m /\ SubSeq(p, 1, m) = SubSeq(q, 1, m)
        <5>. HIDE DEF p, q, m
        <5>. QED  BY <1>1, <2>4, <4>1, <4>3
      <4>7. ~In(k)
        BY <4>5, <4>6
      <4>. QED  BY <3>0, <4>7
    <3>. QED  BY <3>1, <3>2
  <2>. QED  BY <1>1, <2>1, <2>2, <2>3, <2>4
<1>. HIDE DEF I
<1>3. 1..n \subseteq I
  BY <1>0, <1>2, StrongInduction, Zenon
<1>. QED  BY <1>3 DEF I

Outside(d, p) ==
  LET Inside(c) == LET q == Path(d, c) IN Len(q) >= Len(p) /\ SubSeq(q, 1, Len(p)) = p
  IN {c \in ToSet(d.comps) : ~Inside(c)}

\* The components that do not begin with the path of a leaf are all but the leaf.
LEMMA PopKeeps ==
  ASSUME NEW d, IsSequence(d.comps), NEW n, Tree(d, n), NEW r \in 1..n, Leaf(d, n, r), NEW p, p = Place(d, r)
  PROVE  LET o == Only(d.comps, Outside(d, p))
         IN IsSequence(o) /\ DOMAIN o = 1..n - 1 /\ \A k \in 1..n - 1 : o[k] = d.comps[Skip(r, k)]
<1>. DEFINE Inside(c) == LET q == Path(d, c) IN Len(q) >= Len(p) /\ SubSeq(q, 1, Len(p)) = p
            S == Outside(d, p)
            s == d.comps
<1>1. n \in Nat /\ DOMAIN s = 1..n
  BY DEF Tree
<1>2. s \in Seq(ToSet(s)) /\ n = Len(s) /\ \A i \in 1..n : s[i] \in ToSet(s)
  BY <1>1, SequenceForm
<1>3. ASSUME NEW i \in 1..n PROVE s[i] \in S <=> i # r
  <2>1. Inside(s[i]) <=> i = r
    BY LeafPrefix DEF Place
  <2>. QED  BY <1>2, <2>1, Zenon DEF Outside
<1>. HIDE DEF S, s
<1>5. Only(s, S) \in Seq(ToSet(s)) /\ DOMAIN Only(s, S) = 1..n - 1
      /\ \A k \in 1..n - 1 : Only(s, S)[k] = s[Skip(r, k)]
  BY <1>2, <1>3, OnlyRemoves, SMTT(30)
<1>6. IsSequence(Only(s, S))
  BY <1>5, SequenceOf
<1>. QED  BY <1>5, <1>6 DEF S, s

\* The document with other components.
With(d, cs) == [root |-> d.root, meta |-> d.meta, main |-> d.main, comps |-> cs]

\* Popping the path of a leaf removes that leaf, and nothing else.
LEMMA PopRemoves ==
  ASSUME NEW d, d = With(d, d.comps), IsSequence(d.comps), NEW n, Tree(d, n), NEW r \in 1..n, Leaf(d, n, r)
  PROVE  LET e == Pop(d, Place(d, r))
         IN Without1(d, n, r, e) /\ e = With(d, e.comps)
<1>. DEFINE p == Place(d, r)
            o == Only(d.comps, Outside(d, p))
            e == Pop(d, p)
<1>1. IsSequence(o) /\ DOMAIN o = 1..n - 1 /\ \A k \in 1..n - 1 : o[k] = d.comps[Skip(r, k)]
  BY PopKeeps
<1>2. e = [d EXCEPT !.comps = o]
  BY DEF Pop, Outside
<1>. HIDE DEF o, e
<1>3. e = With(d, o)
  BY <1>2 DEF With
<1>4. e.comps = o
  BY <1>3 DEF With
<1>5. Without1(d, n, r, e) /\ e = With(d, e.comps)
  BY <1>1, <1>3, <1>4 DEF Without1
<1>. QED  BY <1>5 DEF e

\* Skip goes through all the indices but one, in their order.
LEMMA Skips ==
  ASSUME NEW n \in Nat, NEW r \in 1..n
  PROVE  /\ \A k \in 1..n - 1 : Skip(r, k) \in 1..n /\ Skip(r, k) # r
         /\ \A k, m \in 1..n - 1 : (Skip(r, k) = Skip(r, m) => k = m) /\ (Skip(r, m) < Skip(r, k) <=> m < k)
         /\ \A i \in 1..n : i # r => \E k \in 1..n - 1 : Skip(r, k) = i
<1>1. \A k \in 1..n - 1 : Skip(r, k) \in 1..n /\ Skip(r, k) # r
  BY DEF Skip
<1>2. \A k, m \in 1..n - 1 : (Skip(r, k) = Skip(r, m) => k = m) /\ (Skip(r, m) < Skip(r, k) <=> m < k)
  BY DEF Skip
<1>3. ASSUME NEW i \in 1..n, i # r PROVE \E k \in 1..n - 1 : Skip(r, k) = i
  <2>1. CASE i < r
    <3>. i \in 1..n - 1 /\ Skip(r, i) = i
      BY <2>1 DEF Skip
    <3>. QED  OBVIOUS
  <2>2. CASE i > r
    <3>. i - 1 \in 1..n - 1 /\ Skip(r, i - 1) = i
      BY <2>2 DEF Skip
    <3>. QED  OBVIOUS
  <2>. QED  BY <1>3, <2>1, <2>2
<1>. QED  BY <1>1, <1>2, <1>3

\* The third part of Skips for one index: every index but r is reached.
LEMMA SkipReaches ==
  ASSUME NEW n \in Nat, NEW r \in 1..n, NEW i \in 1..n, i # r
  PROVE  \E k \in 1..n - 1 : Skip(r, k) = i
<1>1. \A h \in 1..n : h # r => \E k \in 1..n - 1 : Skip(r, k) = h
  BY Skips
<1>. QED  BY <1>1

\* What is left of a tree without a leaf is a tree.
LEMMA WithoutTree ==
  ASSUME NEW d, NEW n, Tree(d, n), NEW r \in 1..n, Leaf(d, n, r), NEW e, Without1(d, n, r, e)
  PROVE  Tree(e, n - 1)
<1>0. n \in Nat /\ DOMAIN e.comps = 1..n - 1 /\ n - 1 \in Nat
  BY DEF Tree, Without1
<1>1. \A k \in 1..n - 1 : e.comps[k] = d.comps[Skip(r, k)] /\ Skip(r, k) \in 1..n /\ Skip(r, k) # r
  BY <1>0, Skips DEF Without1
<1>2. ASSUME NEW k \in 1..n - 1, NEW m \in 1..n - 1, e.comps[k].id = e.comps[m].id PROVE k = m
  <2>1. Skip(r, k) = Skip(r, m)
    BY <1>1, <1>2, SMTT(30) DEF Tree
  <2>. QED  BY <1>0, <2>1, Skips
<1>3. \A k \in 1..n - 1 : e.comps[k].id # 0
  BY <1>1 DEF Tree
<1>4. ASSUME NEW k \in 1..n - 1, e.comps[k].up # 0
      PROVE  \E m \in 1..k - 1 : e.comps[m].id = e.comps[k].up
  <2>. DEFINE i == Skip(r, k)
  <2>1. i \in 1..n /\ e.comps[k] = d.comps[i]
    BY <1>1
  <2>2. PICK j \in 1..i - 1 : d.comps[j].id = d.comps[i].up
    BY <1>4, <2>1 DEF Tree
  <2>3. j \in 1..n /\ j < i
    BY <1>0, <2>1
  <2>4. j # r
    BY <2>1, <2>2 DEF Leaf
  <2>5. PICK m \in 1..n - 1 : Skip(r, m) = j
    BY <1>0, <2>3, <2>4, Skips
  <2>6. m < k
    BY <1>0, <2>3, <2>5, Skips
  <2>7. m \in 1..k - 1
    BY <1>0, <2>6
  <2>. QED  BY <1>1, <2>1, <2>2, <2>5, <2>7
<1>. QED  BY <1>0, <1>2, <1>3, <1>4, Zenon DEF Tree

Kin(d, up) == {c \in ToSet(d.comps) : c.up = up}

\* An index is a count of the siblings up to a component.
LEMMA IndexBefore ==
  ASSUME NEW d, IsSequence(d.comps), NEW n, Tree(d, n), NEW i \in 1..n, NEW S,
         \A j \in 1..n : d.comps[j] \in S <=> d.comps[j].up = d.comps[i].up
  PROVE  Index(d, i) = Before(d.comps, S, i)
<1>1. n \in Nat /\ \A j \in 1..i : j \in 1..n
  BY DEF Tree
<1>2. {j \in 1..i : d.comps[j].up = d.comps[i].up} = {j \in 1..i : d.comps[j] \in S}
  BY <1>1
<1>. QED  BY <1>2, Zenon DEF Index, Before

\* Of two siblings the earlier has the smaller index.
LEMMA SiblingsInOrder ==
  ASSUME NEW d, IsSequence(d.comps), NEW n, Tree(d, n), NEW r \in 1..n, NEW i \in 1..n, r < i,
         d.comps[r].up = d.comps[i].up
  PROVE  LexLess(Place(d, r), Place(d, i))
<1>. DEFINE s == d.comps
            S == Kin(d, s[i].up)
<1>0. n \in Nat /\ \A j \in 1..n : s[j] \in ToSet(s)
  BY SequenceForm DEF Tree
<1>1. \A j \in 1..n : s[j] \in S <=> s[j].up = s[i].up
  BY <1>0 DEF Kin
<1>. HIDE DEF S
<1>2. Index(d, i) = Before(s, S, i) /\ Index(d, r) = Before(s, S, r)
  BY <1>1, IndexBefore
<1>3. s[i] \in S /\ i - 1 \in Nat /\ (i - 1) + 1 = i /\ r \in 0..i - 1
  BY <1>0, <1>1
<1>4. Before(s, S, i) = Before(s, S, i - 1) + 1
  BY <1>3, BeforeNext
<1>5. Before(s, S, r) <= Before(s, S, i - 1) /\ Before(s, S, i - 1) \in Nat
  BY <1>3, BeforeType
<1>6. Index(d, i) \in Nat /\ Index(d, r) \in Nat /\ Index(d, r) < Index(d, i)
  <2>. Index(d, i) \in Nat /\ Index(d, r) \in Nat
    BY IndexType
  <2>. QED  BY <1>2, <1>4, <1>5
<1>7. CASE s[i].up = 0
  <2>1. Place(d, i) = Append(<<>>, Index(d, i)) /\ Place(d, r) = Append(<<>>, Index(d, r))
    <3>1. \A x \in Nat : <<x>> = Append(<<>>, x)
      OBVIOUS
    <3>. QED  BY <1>6, <1>7, <3>1, PlaceStep
  <2>2. <<>> \in Seq(Nat)
    OBVIOUS
  <2>. QED  BY <1>6, <2>1, <2>2, LexLast, Zenon
<1>8. CASE s[i].up # 0
  <2>1. Parent(d, i) \in 1..n /\ s[Parent(d, i)].id = s[i].up
    BY <1>8, ParentBefore
  <2>2. Parent(d, r) \in 1..n /\ s[Parent(d, r)].id = s[i].up
    BY <1>8, ParentBefore
  <2>3. Parent(d, r) = Parent(d, i)
    BY <2>1, <2>2 DEF Tree
  <2>4. /\ Place(d, i) = Append(Place(d, Parent(d, i)), Index(d, i))
        /\ Place(d, r) = Append(Place(d, Parent(d, i)), Index(d, r))
    BY <1>8, <2>3, PlaceStep
  <2>5. Place(d, Parent(d, i)) \in Seq(Nat)
    BY <2>1, PlaceType
  <2>. QED  BY <1>6, <2>4, <2>5, LexLast
<1>. QED  BY <1>7, <1>8

\* Counts of a set that the removed component is not in stay the same.
LEMMA BeforeWithout ==
  ASSUME NEW d, NEW n \in Nat, NEW r \in 1..n, NEW e, Without1(d, n, r, e), NEW S, d.comps[r] \notin S
  PROVE  \A k \in 0..n - 1 : Before(e.comps, S, k) = Before(d.comps, S, IF k < r THEN k ELSE k + 1)
<1>. DEFINE B(k) == Before(e.comps, S, k)
            D(k) == Before(d.comps, S, k)
            N == {k \in Nat : k <= n - 1 => B(k) = D(IF k < r THEN k ELSE k + 1)}
<1>1. 0 \in N
  BY BeforeType
<1>2. ASSUME NEW k \in Nat, k \in N PROVE k + 1 \in N
  <2>. SUFFICES ASSUME k + 1 <= n - 1 PROVE B(k + 1) = D(IF k + 1 < r THEN k + 1 ELSE (k + 1) + 1)
    OBVIOUS
  <2>1. B(k) = D(IF k < r THEN k ELSE k + 1)
    BY <1>2
  <2>2. e.comps[k + 1] = d.comps[Skip(r, k + 1)]
    BY DEF Without1
  <2>3. B(k + 1) = IF d.comps[Skip(r, k + 1)] \in S THEN B(k) + 1 ELSE B(k)
    BY <2>2, BeforeNext
  <2>4. \A j \in Nat : D(j + 1) = IF d.comps[j + 1] \in S THEN D(j) + 1 ELSE D(j)
    BY BeforeNext
  <2>. HIDE DEF B, D
  <2>5. CASE k + 1 < r
    <3>1. Skip(r, k + 1) = k + 1 /\ B(k) = D(k)
      BY <2>1, <2>5 DEF Skip
    <3>2. D(k + 1) = IF d.comps[k + 1] \in S THEN D(k) + 1 ELSE D(k)
      BY <2>4
    <3>. QED  BY <2>3, <2>5, <3>1, <3>2
  <2>6. CASE k + 1 = r
    <3>1. Skip(r, k + 1) = (k + 1) + 1 /\ B(k) = D(k)
      BY <2>1, <2>6 DEF Skip
    <3>2. D(k + 1) = D(k)
      BY <2>4, <2>6
    <3>3. D((k + 1) + 1) = IF d.comps[(k + 1) + 1] \in S THEN D(k + 1) + 1 ELSE D(k + 1)
      BY <2>4
    <3>. QED  BY <2>3, <2>6, <3>1, <3>2, <3>3
  <2>7. CASE k + 1 > r
    <3>1. Skip(r, k + 1) = (k + 1) + 1 /\ B(k) = D(k + 1)
      BY <2>1, <2>7 DEF Skip
    <3>2. D((k + 1) + 1) = IF d.comps[(k + 1) + 1] \in S THEN D(k + 1) + 1 ELSE D(k + 1)
      BY <2>4
    <3>. QED  BY <2>3, <2>7, <3>1, <3>2
  <2>. QED  BY <2>5, <2>6, <2>7
<1>. HIDE DEF N
<1>3. Nat \subseteq N
  BY <1>1, <1>2, Induction
<1>. QED  BY <1>3 DEF N

\* A removal moves no component whose path comes before that of the removed one.
LEMMA RemovalKeepsEarlier ==
  ASSUME NEW d, IsSequence(d.comps), NEW n, Tree(d, n), NEW r \in 1..n, Leaf(d, n, r),
         NEW e, Without1(d, n, r, e), NEW k \in 1..n - 1, LexLess(Place(d, Skip(r, k)), Place(d, r))
  PROVE  Place(e, k) = Place(d, Skip(r, k))
<1>. DEFINE I == {m \in 1..n - 1 : LexLess(Place(d, Skip(r, m)), Place(d, r)) =>
                                     Place(e, m) = Place(d, Skip(r, m))}
<1>0. n \in Nat /\ n - 1 \in Nat /\ IsSequence(e.comps) /\ Tree(e, n - 1)
  <2>1. n \in Nat /\ IsSequence(e.comps)
    BY DEF Tree, Without1
  <2>2. Tree(e, n - 1)
    BY WithoutTree
  <2>. QED  BY <2>1, <2>2
<1>1. \A m \in 1..n - 1 : e.comps[m] = d.comps[Skip(r, m)] /\ Skip(r, m) \in 1..n /\ Skip(r, m) # r
  BY <1>0, Skips, Zenon DEF Without1
<1>2. ASSUME NEW m \in 1..n - 1, \A j \in 1..m - 1 : j \in I PROVE m \in I
  <2>. DEFINE i == Skip(r, m)
  <2>. SUFFICES ASSUME LexLess(Place(d, i), Place(d, r)) PROVE Place(e, m) = Place(d, i)
    OBVIOUS
  <2>0. i \in 1..n /\ i # r /\ e.comps[m] = d.comps[i] /\ i = IF m < r THEN m ELSE m + 1
    BY <1>1 DEF Skip
  <2>. HIDE DEF i
  <2>1. Place(d, i) \in Seq(Nat) /\ Place(d, r) \in Seq(Nat)
    BY <2>0, PlaceType
  <2>2. ~LexLess(Place(d, r), Place(d, i))
    <3>. SUFFICES ASSUME LexLess(Place(d, r), Place(d, i)) PROVE FALSE
      OBVIOUS
    <3>1. LexLess(Place(d, i), Place(d, i))
      BY <2>1, LexTransitive
    <3>. QED  BY <2>1, <3>1, LexIrreflexive
  <2>3. Index(e, m) = Index(d, i)
    <3>. DEFINE S == Kin(d, d.comps[i].up)
    <3>0. \A j \in 1..n : d.comps[j] \in ToSet(d.comps)
      BY SequenceForm DEF Tree
    <3>1. \A j \in 1..n : d.comps[j] \in S <=> d.comps[j].up = d.comps[i].up
      BY <3>0 DEF Kin
    <3>2. \A j \in 1..n - 1 : e.comps[j] \in S <=> e.comps[j].up = e.comps[m].up
      BY <1>1, <2>0, <3>1
    <3>. HIDE DEF S
    <3>3. Index(d, i) = Before(d.comps, S, i)
      BY <2>0, <3>1, IndexBefore
    <3>4. Index(e, m) = Before(e.comps, S, m)
      BY <1>0, <3>2, IndexBefore, Zenon
    <3>5. CASE d.comps[r] \notin S
      <4>. m \in 0..n - 1
        BY <1>0
      <4>1. Before(e.comps, S, m) = Before(d.comps, S, IF m < r THEN m ELSE m + 1)
        BY <1>0, <3>5, BeforeWithout
      <4>. QED  BY <2>0, <3>3, <3>4, <4>1
    <3>6. CASE d.comps[r] \in S
      <4>1. ~(r < i)
        BY <2>0, <2>2, <3>1, <3>6, SiblingsInOrder
      <4>2. i = m /\ m < r
        BY <1>0, <2>0, <4>1
      <4>3. \A j \in 1..m : e.comps[j] = d.comps[j]
        <5>. SUFFICES ASSUME NEW j \in 1..m PROVE e.comps[j] = d.comps[j]
          OBVIOUS
        <5>. j \in 1..n - 1 /\ Skip(r, j) = j
          BY <1>0, <4>2 DEF Skip
        <5>. QED  BY <1>1
      <4>4. Before(e.comps, S, m) = Before(d.comps, S, m)
        BY <4>3, BeforeAgree
      <4>. QED  BY <3>3, <3>4, <4>2, <4>4
    <3>. QED  BY <3>5, <3>6
  <2>4. CASE d.comps[i].up = 0
    BY <1>0, <2>0, <2>3, <2>4, PlaceStep, Zenon
  <2>5. CASE d.comps[i].up # 0
    <3>. DEFINE p == Parent(d, i)
                q == Parent(e, m)
    <3>1. p \in 1..n /\ d.comps[p].id = d.comps[i].up
      BY <2>0, <2>5, ParentBefore
    <3>2. q \in 1..m - 1 /\ q \in 1..n - 1 /\ e.comps[q].id = d.comps[i].up
      BY <1>0, <2>0, <2>5, ParentBefore
    <3>3. Skip(r, q) = p
      <4>. HIDE DEF p, q
      <4>1. Skip(r, q) \in 1..n /\ d.comps[Skip(r, q)].id = d.comps[p].id
        BY <1>1, <3>1, <3>2
      <4>. QED  BY <3>1, <4>1 DEF Tree
    <3>4. Place(d, i) = Append(Place(d, p), Index(d, i)) /\ Place(e, m) = Append(Place(e, q), Index(e, m))
      BY <1>0, <2>0, <2>5, PlaceStep, Zenon
    <3>5. Place(d, p) \in Seq(Nat) /\ Index(d, i) \in Nat
      BY <2>0, <3>1, PlaceType, IndexType, Zenon
    <3>6. LexLess(Place(d, p), Place(d, i))
      BY <3>4, <3>5, LexPrefix
    <3>7. LexLess(Place(d, p), Place(d, r))
      BY <2>1, <3>5, <3>6, LexTransitive
    <3>. HIDE DEF p, q
    <3>8. q \in I
      BY <1>2, <3>2
    <3>9. Place(e, q) = Place(d, p)
      BY <3>3, <3>7, <3>8
    <3>. QED  BY <2>3, <3>4, <3>9
  <2>. QED  BY <2>4, <2>5
<1>. HIDE DEF I
<1>3. 1..n - 1 \subseteq I
  BY <1>0, <1>2, StrongInduction, Zenon
<1>. QED  BY <1>3 DEF I

-----------------------------------------------------------------------------
(* Members of objects.                                                     *)

\* An entry is at one of the indices.
LEMMA InSet ==
  ASSUME NEW o, NEW m
  PROVE  m \in ToSet(o) <=> \E i \in DOMAIN o : o[i] = m
  BY DEF ToSet

\* The value of a member is what is read under its key.
LEMMA GetMember ==
  ASSUME NEW o, OneMemberPerKey(o), NEW m \in ToSet(o), NEW k, m[1] = k
  PROVE  k \in Keys(o) /\ Get(o, k) = m[2]
<1>1. k \in Keys(o)
  BY DEF Keys
<1>2. \A x, y \in ToSet(o) : x[1] = y[1] => x = y
  BY InSet DEF OneMemberPerKey
<1>3. (CHOOSE x \in ToSet(o) : x[1] = k) = m
  BY <1>2
<1>. QED  BY <1>1, <1>3, Zenon DEF Get

\* Nothing is read under a key that no member has.
LEMMA GetAbsent ==
  ASSUME NEW o, NEW k, \A m \in ToSet(o) : m[1] # k
  PROVE  k \notin Keys(o) /\ Get(o, k) = Absent
<1>1. k \notin Keys(o)
  BY DEF Keys
<1>. QED  BY <1>1 DEF Get

\* What a Put leaves: the members of other keys, and one member of its key.
LEMMA PutMembers ==
  ASSUME NEW o, IsSequence(o), OneMemberPerKey(o), NEW k, NEW v
  PROVE  /\ IsSequence(Put(o, k, v)) /\ OneMemberPerKey(Put(o, k, v))
         /\ ToSet(Put(o, k, v)) = {m \in ToSet(o) : m[1] # k} \cup {<<k, v>>}
<1>. DEFINE n == Len(o)
            p == Put(o, k, v)
            kv == <<k, v>>
<1>0. n \in Nat /\ DOMAIN o = 1..n /\ kv[1] = k
  BY SequenceForm
<1>. HIDE DEF n, kv
<1>1. CASE k \in Keys(o)
  <2>1. p = [i \in 1..n |-> IF o[i][1] = k THEN kv ELSE o[i]]
    BY <1>0, <1>1 DEF Put, kv
  <2>2. PICK j \in 1..n : o[j][1] = k
    BY <1>0, <1>1, InSet DEF Keys
  <2>3. DOMAIN p = 1..n /\ p = [i \in 1..n |-> p[i]]
        /\ \A i \in 1..n : p[i] = IF o[i][1] = k THEN kv ELSE o[i]
    BY <2>1
  <2>. HIDE DEF p
  <2>4. IsSequence(p)
    BY <1>0, <2>3, FunctionSequence
  <2>5. OneMemberPerKey(p)
    <3>. SUFFICES ASSUME NEW i \in 1..n, NEW m \in 1..n, p[i][1] = p[m][1] PROVE i = m
      BY <2>3 DEF OneMemberPerKey
    <3>1. p[i][1] = o[i][1] /\ p[m][1] = o[m][1]
      BY <1>0, <2>3
    <3>. QED  BY <1>0, <3>1, Zenon DEF OneMemberPerKey
  <2>6. ASSUME NEW m PROVE m \in ToSet(p) <=> m \in {x \in ToSet(o) : x[1] # k} \cup {kv}
    <3>1. m \in ToSet(p) <=> \E i \in 1..n : p[i] = m
      BY <2>3, InSet, ZenonT(40)
    <3>2. m \in ToSet(o) <=> \E i \in 1..n : o[i] = m
      BY <1>0, InSet
    <3>3. p[j] = kv
      BY <2>2, <2>3
    <3>. QED  BY <1>0, <2>3, <3>1, <3>2, <3>3
  <2>. QED  BY <2>4, <2>5, <2>6 DEF p, kv
<1>2. CASE k \notin Keys(o)
  <2>1. p = Append(o, kv)
    BY <1>2 DEF Put, kv
  <2>2. \A i \in 1..n : o[i][1] # k
    BY <1>0, <1>2, InSet DEF Keys
  <2>. HIDE DEF p
  <2>3. /\ IsSequence(p) /\ ToSet(p) = ToSet(o) \cup {kv} /\ DOMAIN p = 1..n + 1
        /\ p[n + 1] = kv /\ \A i \in 1..n : p[i] = o[i]
    BY <1>0, <2>1, AppendSequence DEF n
  <2>4. OneMemberPerKey(p)
    <3>. SUFFICES ASSUME NEW i \in 1..n + 1, NEW m \in 1..n + 1, p[i][1] = p[m][1] PROVE i = m
      BY <2>3 DEF OneMemberPerKey
    <3>1. \A x \in 1..n + 1 : x \in 1..n \/ x = n + 1
      BY <1>0
    <3>2. CASE i \in 1..n /\ m \in 1..n
      BY <1>0, <2>3, <3>2 DEF OneMemberPerKey
    <3>3. CASE i = n + 1 /\ m \in 1..n
      BY <1>0, <2>2, <2>3, <3>3
    <3>4. CASE i \in 1..n /\ m = n + 1
      BY <1>0, <2>2, <2>3, <3>4
    <3>. QED  BY <3>1, <3>2, <3>3, <3>4
  <2>5. \A m \in ToSet(o) : m[1] # k
    BY <1>2 DEF Keys
  <2>6. ToSet(p) = {m \in ToSet(o) : m[1] # k} \cup {kv}
    BY <2>3, <2>5
  <2>. QED  BY <2>3, <2>4, <2>6 DEF p, kv
<1>. QED  BY <1>1, <1>2

\* What was put is read, and under any other key what was there.
LEMMA PutGet ==
  ASSUME NEW o, IsSequence(o), OneMemberPerKey(o), NEW k, NEW v
  PROVE  /\ Get(Put(o, k, v), k) = v
         /\ \A j : j # k => Get(Put(o, k, v), j) = Get(o, j)
<1>. DEFINE p == Put(o, k, v)
            kv == <<k, v>>
<1>1. /\ OneMemberPerKey(p)
      /\ ToSet(p) = {m \in ToSet(o) : m[1] # k} \cup {kv}
  BY PutMembers
<1>0. kv[1] = k /\ kv[2] = v
  OBVIOUS
<1>. HIDE DEF p, kv
<1>2. Get(p, k) = v
  <2>. kv \in ToSet(p)
    BY <1>1
  <2>. QED  BY <1>0, <1>1, GetMember
<1>3. ASSUME NEW j, j # k PROVE Get(p, j) = Get(o, j)
  <2>1. CASE \E m \in ToSet(o) : m[1] = j
    <3>1. PICK m \in ToSet(o) : m[1] = j
      BY <2>1
    <3>2. m \in ToSet(p)
      BY <1>1, <1>3, <3>1
    <3>3. Get(o, j) = m[2]
      BY <3>1, GetMember
    <3>4. Get(p, j) = m[2]
      BY <1>1, <3>1, <3>2, GetMember
    <3>. QED  BY <3>3, <3>4
  <2>2. CASE \A m \in ToSet(o) : m[1] # j
    <3>1. \A m \in ToSet(p) : m[1] # j
      BY <1>0, <1>1, <1>3, <2>2
    <3>2. Get(p, j) = Absent
      BY <3>1, GetAbsent
    <3>3. Get(o, j) = Absent
      BY <2>2, GetAbsent
    <3>. QED  BY <3>2, <3>3
  <2>. QED  BY <2>1, <2>2
<1>. QED  BY <1>2, <1>3 DEF p

\* An object stays one when a value is put.
LEMMA PutObject ==
  ASSUME NEW o, IsObject(o), OneMemberPerKey(o), NEW k, NEW v, IsValue(v)
  PROVE  IsObject(Put(o, k, v)) /\ OneMemberPerKey(Put(o, k, v))
<1>. DEFINE p == Put(o, k, v)
            kv == <<k, v>>
<1>1. /\ IsSequence(p) /\ OneMemberPerKey(p)
      /\ ToSet(p) = {m \in ToSet(o) : m[1] # k} \cup {kv}
  BY PutMembers DEF IsObject
<1>2. kv = <<kv[1], kv[2]>> /\ IsValue(kv[2])
  OBVIOUS
<1>. HIDE DEF p, kv
<1>3. \A m \in ToSet(p) : m = <<m[1], m[2]>> /\ IsValue(m[2])
  BY <1>1, <1>2 DEF IsObject
<1>. QED  BY <1>1, <1>3 DEF IsObject, p

\* A list of entries is a value.
LEMMA ListValue ==
  ASSUME NEW s, IsSequence(s)
  PROVE  IsValue(ListOf(s)) /\ ListOf(s).items = s /\ ListOf(s).kind = "list"
  BY DEF ListOf, IsValue, IsList

-----------------------------------------------------------------------------
(* The changes of a document.                                              *)

Sound(d) == IsDocument(d) /\ WellFormed(d)

\* What is the case of a component of a document.
SoundComponent(c) == IsComponent(c) /\ OneMemberPerKey(c.obj)
SoundFrame(d) ==
  /\ IsObject(d.root) /\ IsObject(d.meta) /\ IsObject(d.main)
  /\ OneMemberPerKey(d.root) /\ OneMemberPerKey(d.meta) /\ OneMemberPerKey(d.main)
Opens(d) ==
  \A i \in DOMAIN d.comps : d.comps[i].up # 0 =>
    \A j \in DOMAIN d.comps : d.comps[j].id = d.comps[i].up =>
      d.comps[j].dict /\ IsList(Get(d.comps[j].obj, "components"))
SoundParts(d) ==
  /\ SoundFrame(d) /\ IsSequence(d.comps) /\ Tree(d, Len(d.comps))
  /\ \A i \in DOMAIN d.comps : SoundComponent(d.comps[i])
  /\ Opens(d)

\* A sound document, part by part.
LEMMA SoundHasParts ==
  ASSUME NEW d, Sound(d)
  PROVE  d = With(d, d.comps) /\ SoundParts(d)
<1>1. d = With(d, d.comps)
  BY DEF Sound, IsDocument, With
<1>2. IsSequence(d.comps) /\ Tree(d, Len(d.comps))
  BY DocumentTree DEF Sound, IsDocument
<1>3. DOMAIN d.comps = 1..Len(d.comps) /\ \A i \in DOMAIN d.comps : d.comps[i] \in ToSet(d.comps)
  BY <1>2, SequenceForm
<1>4. \A i \in DOMAIN d.comps : SoundComponent(d.comps[i])
  BY <1>3 DEF Sound, IsDocument, WellFormed, SoundComponent
<1>5. SoundFrame(d)
  BY DEF Sound, IsDocument, WellFormed, SoundFrame
<1>6. Opens(d)
  <2>. SUFFICES ASSUME NEW i \in DOMAIN d.comps, d.comps[i].up # 0,
                       NEW j \in DOMAIN d.comps, d.comps[j].id = d.comps[i].up
                PROVE  d.comps[j].dict /\ IsList(Get(d.comps[j].obj, "components"))
    BY DEF Opens
  <2>1. PICK k \in 1..i - 1 : /\ d.comps[k].id = d.comps[i].up /\ d.comps[k].dict
                              /\ IsList(Get(d.comps[k].obj, "components"))
    BY DEF Sound, WellFormed
  <2>2. k \in DOMAIN d.comps
    BY <1>2, <1>3 DEF Tree
  <2>3. k = j
    BY <1>2, <1>3, <2>1, <2>2 DEF Tree
  <2>. QED  BY <2>1, <2>3
<1>. QED  BY <1>1, <1>2, <1>4, <1>5, <1>6 DEF SoundParts

\* A document whose parts are sound is.
LEMMA PartsAreSound ==
  ASSUME NEW d, d = With(d, d.comps), SoundParts(d)
  PROVE  Sound(d)
<1>1. IsSequence(d.comps) /\ Tree(d, Len(d.comps)) /\ DOMAIN d.comps = 1..Len(d.comps) /\ Len(d.comps) \in Nat
  BY SequenceForm DEF SoundParts
<1>2. \A c \in ToSet(d.comps) : SoundComponent(c)
  BY InSet DEF SoundParts
<1>3. IsDocument(d)
  BY <1>1, <1>2 DEF IsDocument, With, SoundParts, SoundFrame, SoundComponent
<1>4. \A o \in {d.root, d.meta, d.main} \cup {c.obj : c \in ToSet(d.comps)} : OneMemberPerKey(o)
  BY <1>2 DEF SoundParts, SoundFrame, SoundComponent
<1>5. ASSUME NEW i \in DOMAIN d.comps, d.comps[i].up # 0
      PROVE  \E j \in 1..i - 1 : /\ d.comps[j].id = d.comps[i].up /\ d.comps[j].dict
                                 /\ IsList(Get(d.comps[j].obj, "components"))
  <2>1. PICK j \in 1..i - 1 : d.comps[j].id = d.comps[i].up
    BY <1>1, <1>5, Zenon DEF Tree
  <2>2. j \in DOMAIN d.comps
    BY <1>1
  <2>. QED  BY <1>5, <2>1, <2>2 DEF SoundParts, Opens
<1>6. WellFormed(d)
  BY <1>1, <1>4, <1>5 DEF WellFormed, Tree
<1>. QED  BY <1>3, <1>6 DEF Sound

\* e has the components of d, with other objects in which the nested components are the same.
NewObjects(d, e) ==
  /\ IsSequence(e.comps) /\ DOMAIN e.comps = DOMAIN d.comps
  /\ \A i \in DOMAIN d.comps :
       /\ e.comps[i] = [id |-> d.comps[i].id, up |-> d.comps[i].up, dict |-> d.comps[i].dict,
                        obj |-> e.comps[i].obj]
       /\ IsObject(e.comps[i].obj) /\ OneMemberPerKey(e.comps[i].obj)
       /\ Get(e.comps[i].obj, "components") = Get(d.comps[i].obj, "components")

\* Only the object of a component is new.
LEMMA NewObjectsSame ==
  ASSUME NEW d, NEW e, NewObjects(d, e), NEW i \in DOMAIN d.comps
  PROVE  /\ e.comps[i].id = d.comps[i].id /\ e.comps[i].up = d.comps[i].up
         /\ e.comps[i].dict = d.comps[i].dict
<1>. DEFINE c == d.comps[i]
            x == e.comps[i]
<1>1. x = [id |-> c.id, up |-> c.up, dict |-> c.dict, obj |-> x.obj]
  BY DEF NewObjects
<1>. HIDE DEF c, x
<1>2. x.id = c.id /\ x.up = c.up /\ x.dict = c.dict
  BY <1>1
<1>. QED  BY <1>2 DEF c, x

\* A component with a new object has the form of one.
LEMMA NewObjectsForm ==
  ASSUME NEW d, NEW e, NewObjects(d, e), NEW i \in DOMAIN d.comps
  PROVE  e.comps[i] = [id |-> e.comps[i].id, up |-> e.comps[i].up, dict |-> e.comps[i].dict,
                       obj |-> e.comps[i].obj]
  BY NewObjectsSame DEF NewObjects

\* A document stays sound when its components get sound objects with the same list of nested
\* components.
LEMMA NewObjectsSound ==
  ASSUME NEW d, SoundParts(d), NEW e, NewObjects(d, e), SoundFrame(e)
  PROVE  SameTree(d, e) /\ SoundParts(e)
<1>1. SameTree(d, e)
  <2>1. IsSequence(e.comps) /\ DOMAIN e.comps = DOMAIN d.comps
    BY DEF NewObjects
  <2>. QED  BY <2>1, NewObjectsSame DEF SameTree
<1>2. Len(e.comps) = Len(d.comps) /\ DOMAIN d.comps = 1..Len(d.comps)
  <2>1. /\ Len(d.comps) \in Nat /\ DOMAIN d.comps = 1..Len(d.comps)
        /\ Len(e.comps) \in Nat /\ DOMAIN e.comps = 1..Len(e.comps)
    BY SequenceForm DEF SoundParts, NewObjects
  <2>2. \A m, n \in Nat : 1..m = 1..n => m = n
    <3>. SUFFICES ASSUME NEW m \in Nat, NEW n \in Nat, 1..m = 1..n PROVE ~(m < n) /\ ~(n < m)
      OBVIOUS
    <3>1. m + 1 \in 1..m \/ n < m + 1
      OBVIOUS
    <3>2. n + 1 \in 1..n \/ m < n + 1
      OBVIOUS
    <3>. QED  BY <3>1, <3>2
  <2>. QED  BY <2>1, <2>2 DEF NewObjects
<1>3. Tree(e, Len(e.comps))
  BY <1>1, <1>2, SameTreePlaces DEF SoundParts
<1>4. \A i \in DOMAIN e.comps : SoundComponent(e.comps[i])
  <2>. SUFFICES ASSUME NEW i \in DOMAIN d.comps PROVE SoundComponent(e.comps[i])
    BY DEF NewObjects
  <2>1. d.comps[i].dict \in BOOLEAN
    BY Zenon DEF SoundParts, SoundComponent, IsComponent
  <2>2. IsObject(e.comps[i].obj) /\ OneMemberPerKey(e.comps[i].obj)
    BY Zenon DEF NewObjects
  <2>3. /\ e.comps[i].dict = d.comps[i].dict
        /\ e.comps[i] = [id |-> e.comps[i].id, up |-> e.comps[i].up, dict |-> e.comps[i].dict,
                         obj |-> e.comps[i].obj]
    BY NewObjectsSame, NewObjectsForm
  <2>. QED  BY <2>1, <2>2, <2>3 DEF SoundComponent, IsComponent
<1>5. Opens(e)
  <2>0. DOMAIN e.comps = DOMAIN d.comps
    BY DEF NewObjects
  <2>. SUFFICES ASSUME NEW i \in DOMAIN d.comps, e.comps[i].up # 0,
                       NEW j \in DOMAIN d.comps, e.comps[j].id = e.comps[i].up
                PROVE  e.comps[j].dict /\ IsList(Get(e.comps[j].obj, "components"))
    BY <2>0 DEF Opens
  <2>1. d.comps[i].up # 0 /\ d.comps[j].id = d.comps[i].up /\ e.comps[j].dict = d.comps[j].dict
    BY NewObjectsSame
  <2>2. d.comps[j].dict /\ IsList(Get(d.comps[j].obj, "components"))
    BY <2>1 DEF SoundParts, Opens
  <2>3. Get(e.comps[j].obj, "components") = Get(d.comps[j].obj, "components")
    BY Zenon DEF NewObjects
  <2>. QED  BY <2>1, <2>2, <2>3
<1>6. IsSequence(e.comps)
  BY DEF NewObjects
<1>. QED  BY <1>1, <1>3, <1>4, <1>5, <1>6 DEF SoundParts

\* Writing references puts them in the component at the path, and changes nothing else.
LEMMA SetReferencesEffect ==
  ASSUME NEW d, Sound(d), NEW p, NEW refs, IsSequence(refs)
  PROVE  LET e == SetReferences(d, p, refs)
         IN /\ e = With(d, e.comps) /\ Sound(e) /\ NewObjects(d, e)
            /\ \A i \in DOMAIN d.comps : e.comps[i].obj =
                 IF d.comps[i].id = At(d, p) THEN Put(d.comps[i].obj, "externalReferences", ListOf(refs))
                 ELSE d.comps[i].obj
<1>. DEFINE e == SetReferences(d, p, refs)
            n == Len(d.comps)
            New(o) == Put(o, "externalReferences", ListOf(refs))
            cs == [i \in DOMAIN d.comps |->
                     IF d.comps[i].id = At(d, p) THEN Refer(d.comps[i], refs) ELSE d.comps[i]]
<1>0. SoundParts(d) /\ n \in Nat /\ DOMAIN d.comps = 1..n
  BY SoundHasParts, SequenceForm DEF SoundParts
<1>1. e = With(d, cs)
  <2>1. d = With(d, d.comps)
    BY SoundHasParts
  <2>2. e = [d EXCEPT !.comps = cs]
    BY DEF SetReferences
  <2>. HIDE DEF e, cs
  <2>. QED  BY <2>1, <2>2 DEF With
<1>2. e.comps = cs
  <2>. HIDE DEF e, cs
  <2>. QED  BY <1>1 DEF With
<1>3. ASSUME NEW i \in 1..n
      PROVE  LET c == d.comps[i]
                 o == IF c.id = At(d, p) THEN New(c.obj) ELSE c.obj
             IN cs[i] = [id |-> c.id, up |-> c.up, dict |-> c.dict, obj |-> o]
  <2>. DEFINE c == d.comps[i]
  <2>1. c = [id |-> c.id, up |-> c.up, dict |-> c.dict, obj |-> c.obj]
    BY <1>0 DEF SoundParts, SoundComponent, IsComponent
  <2>2. cs[i] = IF c.id = At(d, p) THEN Refer(c, refs) ELSE c
    BY <1>0
  <2>. HIDE DEF c, cs
  <2>0. Refer(c, refs) = [c EXCEPT !.obj = New(c.obj)]
    BY DEF Refer
  <2>. HIDE DEF New
  <2>3. Refer(c, refs) = [id |-> c.id, up |-> c.up, dict |-> c.dict, obj |-> New(c.obj)]
    BY <2>0, <2>1
  <2>4. cs[i] = [id |-> c.id, up |-> c.up, dict |-> c.dict,
                 obj |-> IF c.id = At(d, p) THEN New(c.obj) ELSE c.obj]
    <3>1. CASE c.id = At(d, p)
      BY <2>2, <2>3, <3>1
    <3>2. CASE c.id # At(d, p)
      BY <2>1, <2>2, <3>2
    <3>. QED  BY <3>1, <3>2
  <2>. QED  BY <2>4 DEF c
<1>4. IsSequence(cs) /\ DOMAIN cs = 1..n
  <2>. cs = [i \in 1..n |-> cs[i]]
    BY <1>0
  <2>. HIDE DEF cs
  <2>. QED  BY <1>0, FunctionSequence
<1>. HIDE DEF cs
<1>5. ASSUME NEW i \in 1..n
      PROVE  LET o == IF d.comps[i].id = At(d, p) THEN New(d.comps[i].obj) ELSE d.comps[i].obj
             IN /\ IsObject(o) /\ OneMemberPerKey(o)
                /\ Get(o, "components") = Get(d.comps[i].obj, "components")
  <2>. DEFINE o == d.comps[i].obj
  <2>1. IsObject(o) /\ OneMemberPerKey(o) /\ IsSequence(o)
    BY <1>0, Zenon DEF SoundParts, SoundComponent, IsComponent, IsObject
  <2>. HIDE DEF o
  <2>2. IsObject(New(o)) /\ OneMemberPerKey(New(o))
    BY <2>1, PutObject, ListValue
  <2>3. Get(New(o), "components") = Get(o, "components")
    BY <2>1, PutGet
  <2>. QED  BY <2>1, <2>2, <2>3 DEF o
<1>6. \A i \in 1..n : cs[i].obj = IF d.comps[i].id = At(d, p) THEN New(d.comps[i].obj) ELSE d.comps[i].obj
  <2>. TAKE i \in 1..n
  <2>. DEFINE o == IF d.comps[i].id = At(d, p) THEN New(d.comps[i].obj) ELSE d.comps[i].obj
  <2>1. cs[i] = [id |-> d.comps[i].id, up |-> d.comps[i].up, dict |-> d.comps[i].dict, obj |-> o]
    BY <1>3
  <2>. HIDE DEF o
  <2>2. cs[i].obj = o
    BY <2>1
  <2>. QED  BY <2>2 DEF o
<1>. HIDE DEF New, e
<1>7. NewObjects(d, e)
  <2>. SUFFICES ASSUME NEW i \in 1..n
                PROVE  /\ cs[i] = [id |-> d.comps[i].id, up |-> d.comps[i].up, dict |-> d.comps[i].dict,
                                   obj |-> cs[i].obj]
                       /\ IsObject(cs[i].obj) /\ OneMemberPerKey(cs[i].obj)
                       /\ Get(cs[i].obj, "components") = Get(d.comps[i].obj, "components")
    BY <1>0, <1>2, <1>4 DEF NewObjects
  <2>1. cs[i] = [id |-> d.comps[i].id, up |-> d.comps[i].up, dict |-> d.comps[i].dict, obj |-> cs[i].obj]
    BY <1>3, <1>6
  <2>. QED  BY <1>5, <1>6, <2>1
<1>8. SoundFrame(e)
  BY <1>0, <1>1 DEF SoundParts, SoundFrame, With
<1>9. SoundParts(e)
  BY <1>0, <1>7, <1>8, NewObjectsSound
<1>10. e = With(d, e.comps) /\ e = With(e, e.comps)
  BY <1>1, <1>2 DEF With
<1>11. Sound(e)
  BY <1>9, <1>10, PartsAreSound
<1>. QED  BY <1>0, <1>2, <1>6, <1>7, <1>10, <1>11 DEF e, New

\* A document is one with new objects of its own.
LEMMA NewObjectsReflexive ==
  ASSUME NEW d, Sound(d)
  PROVE  NewObjects(d, d)
<1>1. SoundParts(d)
  BY SoundHasParts
<1>. QED  BY <1>1 DEF SoundParts, SoundComponent, IsComponent, NewObjects

Once(s) == \A i, j \in DOMAIN s : s[i] = s[j] => i = j

\* The last entry of a sequence without repetitions is not among the others.
LEMMA OnceFront ==
  ASSUME NEW X, NEW t \in Seq(X), NEW c \in X, Once(Append(t, c))
  PROVE  Once(t) /\ c \notin ToSet(t)
<1>. DEFINE u == Append(t, c)
            n == Len(t)
<1>1. /\ n \in Nat /\ DOMAIN t = 1..n /\ DOMAIN u = 1..n + 1 /\ u[n + 1] = c
      /\ \A i \in 1..n : u[i] = t[i] /\ i \in 1..n + 1 /\ i # n + 1
  OBVIOUS
<1>. HIDE DEF u, n
<1>2. Once(t)
  BY <1>1 DEF Once, u
<1>3. n + 1 \in 1..n + 1
  BY <1>1
<1>4. \A i \in 1..n : t[i] # c
  BY <1>1, <1>3 DEF Once, u
<1>. QED  BY <1>1, <1>2, <1>4, InSet

\* What is kept of a sequence without repetitions has none.
LEMMA OnlyOnce ==
  ASSUME NEW s, IsSequence(s), Once(s), NEW S
  PROVE  Once(Only(s, S))
<1>. DEFINE X == ToSet(s)
            A == {t \in Seq(X) : Once(t) => Once(Only(t, S))}
<1>1. <<>> \in A
  <2>. Only(<<>>, S) = <<>> /\ Once(<<>>)
    BY OnlyEmpty DEF Once
  <2>. QED  OBVIOUS
<1>2. ASSUME NEW t \in Seq(X), NEW e \in X, t \in A PROVE Append(t, e) \in A
  <2>. SUFFICES ASSUME Once(Append(t, e)) PROVE Once(Only(Append(t, e), S))
    OBVIOUS
  <2>1. Once(t) /\ e \notin ToSet(t)
    BY OnceFront
  <2>2. Once(Only(t, S))
    BY <1>2, <2>1
  <2>3. Only(t, S) \in Seq(X) /\ ToSet(Only(t, S)) = ToSet(t) \cap S
    BY OnlyType, Zenon
  <2>4. Only(Append(t, e), S) = IF e \in S THEN Append(Only(t, S), e) ELSE Only(t, S)
    BY OnlyNext
  <2>. DEFINE o == Only(t, S)
  <2>. HIDE DEF o
  <2>5. Once(Append(o, e))
    <3>. DEFINE n == Len(o)
                u == Append(o, e)
    <3>1. /\ n \in Nat /\ DOMAIN o = 1..n /\ DOMAIN u = 1..n + 1 /\ u[n + 1] = e
          /\ \A i \in 1..n : u[i] = o[i]
      BY <2>3 DEF o
    <3>. HIDE DEF n, u
    <3>2. \A i \in 1..n : o[i] # e
      BY <2>1, <2>3, <3>1, InSet DEF o
    <3>3. \A i \in 1..n + 1 : i \in 1..n \/ i = n + 1
      BY <3>1
    <3>4. \A i, j \in 1..n : o[i] = o[j] => i = j
      BY <2>2, <3>1 DEF Once, o
    <3>5. Once(u)
      BY <3>1, <3>2, <3>3, <3>4 DEF Once
    <3>. QED  BY <3>5 DEF u
  <2>. QED  BY <2>2, <2>4, <2>5 DEF o
<1>. HIDE DEF A
<1>3. Seq(X) \subseteq A
  BY <1>1, <1>2, SequenceInduction
<1>4. s \in Seq(X)
  BY DEF IsSequence
<1>. QED  BY <1>3, <1>4 DEF A

\* The components of a document, by id.
LEMMA ComponentIs ==
  ASSUME NEW d, Sound(d), NEW k \in DOMAIN d.comps, NEW id, d.comps[k].id = id
  PROVE  Component(d, id) = d.comps[k] /\ id \in Ids(d)
<1>1. Tree(d, Len(d.comps)) /\ DOMAIN d.comps = 1..Len(d.comps)
  BY SoundHasParts DEF SoundParts, Tree
<1>2. d.comps[k] \in ToSet(d.comps)
  BY InSet
<1>3. \A c \in ToSet(d.comps) : c.id = id => c = d.comps[k]
  BY <1>1, InSet DEF Tree
<1>. QED  BY <1>2, <1>3 DEF Component, Ids

\* The ids of a document are those of its components.
LEMMA IdsAre ==
  ASSUME NEW d, NEW id
  PROVE  id \in Ids(d) <=> \E k \in DOMAIN d.comps : d.comps[k].id = id
  BY InSet DEF Ids

\* All entries are kept when all are in the set.
LEMMA OnlyAll ==
  ASSUME NEW s, IsSequence(s), NEW S, ToSet(s) \in SUBSET S
  PROVE  Only(s, S) = s
<1>. DEFINE X == ToSet(s)
            A == {t \in Seq(X) : Only(t, S) = t}
<1>1. <<>> \in A
  BY OnlyEmpty
<1>2. ASSUME NEW t \in Seq(X), NEW e \in X, t \in A PROVE Append(t, e) \in A
  <2>1. Only(Append(t, e), S) = Append(Only(t, S), e)
    BY OnlyNext
  <2>. QED  BY <1>2, <2>1
<1>. HIDE DEF A
<1>3. Seq(X) \subseteq A
  BY <1>1, <1>2, SequenceInduction
<1>. QED  BY <1>3 DEF A, IsSequence

\* Nothing is kept of entries that are not in the set.
LEMMA OnlyNone ==
  ASSUME NEW s, IsSequence(s), NEW S, ToSet(s) \cap S = {}
  PROVE  Only(s, S) = <<>>
<1>1. IsSequence(Only(s, S)) /\ ToSet(Only(s, S)) = {}
  BY OnlySequence
<1>2. Only(s, S) \in Seq({})
  BY <1>1 DEF IsSequence
<1>. QED  BY <1>2

\* Only the entries of the sequence matter.
LEMMA OnlySame ==
  ASSUME NEW s, IsSequence(s), NEW S, NEW T, S \cap ToSet(s) = T \cap ToSet(s)
  PROVE  Only(s, S) = Only(s, T)
<1>. DEFINE X == ToSet(s)
            A == {t \in Seq(X) : Only(t, S) = Only(t, T)}
<1>1. <<>> \in A
  BY OnlyEmpty
<1>2. ASSUME NEW t \in Seq(X), NEW e \in X, t \in A PROVE Append(t, e) \in A
  <2>1. Only(Append(t, e), S) = IF e \in S THEN Append(Only(t, S), e) ELSE Only(t, S)
    BY OnlyNext
  <2>2. Only(Append(t, e), T) = IF e \in T THEN Append(Only(t, T), e) ELSE Only(t, T)
    BY OnlyNext
  <2>3. e \in S <=> e \in T
    OBVIOUS
  <2>. QED  BY <1>2, <2>1, <2>2, <2>3
<1>. HIDE DEF A
<1>3. Seq(X) \subseteq A
  BY <1>1, <1>2, SequenceInduction
<1>. QED  BY <1>3 DEF A, IsSequence

\* Keeping makes no sequence longer.
LEMMA OnlyShorter ==
  ASSUME NEW s, IsSequence(s), NEW S
  PROVE  Len(Only(s, S)) <= Len(s)
<1>. DEFINE X == ToSet(s)
            A == {t \in Seq(X) : Len(Only(t, S)) <= Len(t)}
<1>1. <<>> \in A
  BY OnlyEmpty
<1>2. ASSUME NEW t \in Seq(X), NEW e \in X, t \in A PROVE Append(t, e) \in A
  <2>1. Only(Append(t, e), S) = IF e \in S THEN Append(Only(t, S), e) ELSE Only(t, S)
    BY OnlyNext
  <2>2. Only(t, S) \in Seq(X)
    BY OnlyType, Zenon
  <2>. DEFINE o == Only(t, S)
  <2>3. /\ Len(o) \in Nat /\ Len(t) \in Nat /\ Len(Append(o, e)) = Len(o) + 1
        /\ Len(Append(t, e)) = Len(t) + 1 /\ Len(o) <= Len(t) /\ Append(t, e) \in Seq(X)
    BY <1>2, <2>2
  <2>. HIDE DEF o
  <2>4. Len(Only(Append(t, e), S)) <= Len(Append(t, e))
    <3>1. CASE e \in S
      BY <2>1, <2>3, <3>1 DEF o
    <3>2. CASE e \notin S
      BY <2>1, <2>3, <3>2 DEF o
    <3>. QED  BY <3>1, <3>2
  <2>. QED  BY <2>3, <2>4
<1>. HIDE DEF A
<1>3. Seq(X) \subseteq A
  BY <1>1, <1>2, SequenceInduction
<1>. QED  BY <1>3 DEF A, IsSequence

\* Only decides on each entry alone.
LEMMA OnlyAppend ==
  ASSUME NEW s, IsSequence(s), NEW e, NEW S
  PROVE  Only(Append(s, e), S) = IF e \in S THEN Append(Only(s, S), e) ELSE Only(s, S)
<1>. DEFINE X == ToSet(s) \cup {e}
<1>1. s \in Seq(X)
  <2>1. s \in Seq(ToSet(s)) /\ ToSet(s) \in SUBSET X
    BY DEF IsSequence
  <2>. QED  BY <2>1
<1>. QED  BY <1>1, OnlyNext

-----------------------------------------------------------------------------
(* The rules, one by one.                                                  *)

\* The entries of a concatenation.
LEMMA ConcatAt ==
  ASSUME NEW s, IsSequence(s), NEW t, IsSequence(t)
  PROVE  LET m == Len(s)
             n == Len(t)
         IN /\ IsSequence(s \o t) /\ Len(s \o t) = m + n /\ DOMAIN (s \o t) = 1..m + n
            /\ \A i \in 1..m : (s \o t)[i] = s[i]
            /\ \A i \in 1..m + n : i > m => (s \o t)[i] = t[i - m] /\ i - m \in 1..n
<1>. DEFINE X == ToSet(s) \cup ToSet(t)
            m == Len(s)
            n == Len(t)
<1>1. s \in Seq(X) /\ t \in Seq(X)
  <2>1. s \in Seq(ToSet(s)) /\ t \in Seq(ToSet(t)) /\ ToSet(s) \in SUBSET X /\ ToSet(t) \in SUBSET X
    BY DEF IsSequence
  <2>. QED  BY <2>1
<1>2. IsSequence(s \o t)
  BY ConcatSequence
<1>3. /\ m \in Nat /\ n \in Nat /\ DOMAIN (s \o t) = 1..m + n /\ Len(s \o t) = m + n
      /\ \A i \in 1..m : (s \o t)[i] = s[i]
      /\ \A i \in 1..m + n : i > m => (s \o t)[i] = t[i - m] /\ i - m \in 1..n
  BY <1>1
<1>. QED  BY <1>2, <1>3

RuleAt(i) == <<"set_spec_version", "increment_version", "add_timestamp", "add_manufacturer",
  "remove_leaf_missing_purl", "remove_leaf_invalid_purl", "remove_leaf_missing_version",
  "filter_external_references", "filter_properties", "fill_missing_gost_properties", "add_provided_by",
  "filter_non_proprietary", "add_proprietary", "remove_proprietary_source_references", "reorder">>[i]

\* The fifteen rules in their order (fixer.py, RULES).
LEMMA RuleOrderEntries ==
  /\ IsSequence(RuleOrder) /\ Len(RuleOrder) = 15 /\ DOMAIN RuleOrder = 1..15
  /\ \A i \in 1..15 : RuleOrder[i] = RuleAt(i)
<1>. DEFINE a == <<"set_spec_version", "increment_version", "add_timestamp", "add_manufacturer">>
            l == LeafRules
            k == ComponentRules
            e == <<"reorder">>
            b == a \o l
            c == b \o k
            o == c \o e
<1>1. /\ IsSequence(a) /\ Len(a) = 4
      /\ a[1] = RuleAt(1) /\ a[2] = RuleAt(2) /\ a[3] = RuleAt(3) /\ a[4] = RuleAt(4)
  <2>. a = [i \in 1..4 |-> a[i]]
    OBVIOUS
  <2>. QED  BY FunctionSequence, Zenon DEF RuleAt
<1>2. /\ IsSequence(l) /\ Len(l) = 3
      /\ l[1] = RuleAt(5) /\ l[2] = RuleAt(6) /\ l[3] = RuleAt(7)
  <2>. l = [i \in 1..3 |-> l[i]]
    BY DEF LeafRules
  <2>. QED  BY FunctionSequence, Zenon DEF RuleAt, LeafRules
<1>3. /\ IsSequence(k) /\ Len(k) = 7
      /\ k[1] = RuleAt(8) /\ k[2] = RuleAt(9) /\ k[3] = RuleAt(10) /\ k[4] = RuleAt(11)
      /\ k[5] = RuleAt(12) /\ k[6] = RuleAt(13) /\ k[7] = RuleAt(14)
  <2>1. k = [i \in 1..7 |-> k[i]]
    BY DEF ComponentRules
  <2>2. IsSequence(k) /\ Len(k) = 7
    <3>. HIDE DEF k
    <3>. QED  BY <2>1, FunctionSequence, Zenon
  <2>. QED  BY <2>2 DEF RuleAt, ComponentRules
<1>4. IsSequence(e) /\ Len(e) = 1 /\ e[1] = RuleAt(15)
  <2>. e = [i \in 1..1 |-> e[i]]
    OBVIOUS
  <2>. QED  BY FunctionSequence, Zenon DEF RuleAt
<1>5. RuleOrder = o
  BY DEF RuleOrder
<1>. HIDE DEF a, l, k, e
<1>6. /\ IsSequence(b) /\ Len(b) = 7 /\ \A i \in 1..4 : b[i] = a[i]
      /\ \A i \in 1..7 : i > 4 => b[i] = l[i - 4]
  <2>1. LET m == Len(a)
            n == Len(l)
        IN /\ IsSequence(b) /\ Len(b) = m + n /\ DOMAIN b = 1..m + n
           /\ \A i \in 1..m : b[i] = a[i]
           /\ \A i \in 1..m + n : i > m => b[i] = l[i - m] /\ i - m \in 1..n
    BY <1>1, <1>2, ConcatAt, Zenon
  <2>2. Len(a) = 4 /\ Len(l) = 3
    BY <1>1, <1>2
  <2>. HIDE DEF b
  <2>. QED  BY <2>1, <2>2
<1>. HIDE DEF b
<1>7. /\ IsSequence(c) /\ Len(c) = 14 /\ \A i \in 1..7 : c[i] = b[i]
      /\ \A i \in 1..14 : i > 7 => c[i] = k[i - 7]
  <2>1. LET m == Len(b)
            n == Len(k)
        IN /\ IsSequence(c) /\ Len(c) = m + n /\ DOMAIN c = 1..m + n
           /\ \A i \in 1..m : c[i] = b[i]
           /\ \A i \in 1..m + n : i > m => c[i] = k[i - m] /\ i - m \in 1..n
    BY <1>3, <1>6, ConcatAt, Zenon
  <2>2. Len(b) = 7 /\ Len(k) = 7
    BY <1>3, <1>6
  <2>. HIDE DEF c
  <2>. QED  BY <2>1, <2>2
<1>. HIDE DEF c
<1>8. /\ IsSequence(o) /\ Len(o) = 15 /\ DOMAIN o = 1..15 /\ \A i \in 1..14 : o[i] = c[i]
      /\ \A i \in 1..15 : i > 14 => o[i] = e[i - 14]
  <2>1. LET m == Len(c)
            n == Len(e)
        IN /\ IsSequence(o) /\ Len(o) = m + n /\ DOMAIN o = 1..m + n
           /\ \A i \in 1..m : o[i] = c[i]
           /\ \A i \in 1..m + n : i > m => o[i] = e[i - m] /\ i - m \in 1..n
    BY <1>4, <1>7, ConcatAt, Zenon
  <2>2. Len(c) = 14 /\ Len(e) = 1
    BY <1>4, <1>7
  <2>. HIDE DEF o
  <2>. QED  BY <2>1, <2>2
<1>. HIDE DEF o
<1>9. \A i \in 1..15 : o[i] = RuleAt(i)
  <2>. SUFFICES ASSUME NEW i \in 1..15 PROVE o[i] = RuleAt(i)
    OBVIOUS
  <2>1. CASE i \in 1..4
    <3>. i \in {1, 2, 3, 4}
      BY <2>1
    <3>. QED  BY <1>1, <1>6, <1>7, <1>8
  <2>2. CASE i \in 5..7
    <3>. i \in {5, 6, 7}
      BY <2>2
    <3>1. b[5] = l[1] /\ b[6] = l[2] /\ b[7] = l[3]
      BY <1>6
    <3>. QED  BY <1>2, <1>7, <1>8, <3>1
  <2>3. CASE i \in 8..14
    <3>. i \in {8, 9, 10, 11, 12, 13, 14}
      BY <2>3
    <3>1. c[8] = k[1] /\ c[9] = k[2] /\ c[10] = k[3] /\ c[11] = k[4] /\ c[12] = k[5] /\ c[13] = k[6] /\ c[14] = k[7]
      BY <1>7
    <3>. QED  BY <1>3, <1>8, <3>1
  <2>4. CASE i = 15
    BY <1>4, <1>8, <2>4
  <2>. QED  BY <2>1, <2>2, <2>3, <2>4
<1>. QED  BY <1>5, <1>8, <1>9

\* No rule is listed twice.
LEMMA RulesDiffer == \A i, j \in 1..15 : RuleAt(i) = RuleAt(j) => i = j
<1>. SUFFICES ASSUME NEW i \in 1..15, NEW j \in 1..15, RuleAt(i) = RuleAt(j) PROVE i = j
  OBVIOUS
<1>. i \in {1, 2, 3, 4, 5, 6, 7, 8, 9, 10, 11, 12, 13, 14, 15} /\ j \in {1, 2, 3, 4, 5, 6, 7, 8, 9, 10, 11, 12, 13, 14, 15}
  OBVIOUS
<1>. QED  BY DEF RuleAt

RuleStep(c, acc, rule) == FixStep(acc, rule, c[1], c[2])
RuleLaws == INSTANCE FoldLaws WITH Op <- RuleStep

Zero(opt) == [r \in opt.rules |-> 0]
FirstRules(i) == [j \in 1..i |-> RuleAt(j)]
ChosenUpTo(opt, i) == Only(FirstRules(i), opt.rules)
After(d, opt, i) == RuleLaws!Folded(<<LeafIds(d), opt>>, [doc |-> d, counts |-> Zero(opt)], ChosenUpTo(opt, i))

\* A fix applies all fifteen rules.
LEMMA AfterAll ==
  ASSUME NEW d, NEW opt
  PROVE  ApplyRules(d, LeafIds(d), opt) = After(d, opt, 15)
<1>1. RuleOrder = FirstRules(15)
  BY RuleOrderEntries, SequenceForm DEF FirstRules
<1>2. ApplyRules(d, LeafIds(d), opt)
        = RuleLaws!Folded(<<LeafIds(d), opt>>, [doc |-> d, counts |-> Zero(opt)], Only(RuleOrder, opt.rules))
  BY DEF ApplyRules, FoldLeft, MapThenFoldSet, RuleLaws!Folded, RuleLaws!OnSets, RuleLaws!Last, Max, RuleStep, Zero
<1>. QED  BY <1>1, <1>2 DEF After, ChosenUpTo

\* Before the first rule nothing has changed.
LEMMA AfterNone ==
  ASSUME NEW d, NEW opt
  PROVE  After(d, opt, 0) = [doc |-> d, counts |-> Zero(opt)]
<1>1. ChosenUpTo(opt, 0) = <<>>
  <2>1. FirstRules(0) = <<>>
    BY DEF FirstRules
  <2>. QED  BY <2>1, OnlyEmpty DEF ChosenUpTo
<1>2. DOMAIN ChosenUpTo(opt, 0) = 1..0
  BY <1>1
<1>. QED  BY <1>2, RuleLaws!FoldEmpty DEF After

\* One rule more is chosen or not.
LEMMA ChosenUpToNext ==
  ASSUME NEW opt, NEW i \in 0..14
  PROVE  /\ IsSequence(ChosenUpTo(opt, i))
         /\ ChosenUpTo(opt, i + 1) = IF RuleAt(i + 1) \in opt.rules THEN Append(ChosenUpTo(opt, i), RuleAt(i + 1))
                                 ELSE ChosenUpTo(opt, i)
<1>. DEFINE s == FirstRules(i)
            e == RuleAt(i + 1)
<1>0. i \in Nat /\ s = [j \in 1..i |-> s[j]] /\ \A j \in 1..i : s[j] = RuleAt(j)
  BY DEF FirstRules
<1>1. IsSequence(s) /\ Len(s) = i /\ DOMAIN s = 1..i
  <2>. HIDE DEF s
  <2>. QED  BY <1>0, FunctionSequence
<1>2. FirstRules(i + 1) = Append(s, e)
  <2>. DEFINE u == Append(s, e)
  <2>1. /\ IsSequence(u) /\ Len(u) = i + 1 /\ DOMAIN u = 1..i + 1 /\ u[i + 1] = e
        /\ \A j \in 1..i : u[j] = s[j]
    <3>. HIDE DEF s, e
    <3>. QED  BY <1>1, AppendSequence
  <2>2. u = [j \in 1..i + 1 |-> u[j]]
    <3>. HIDE DEF u
    <3>. QED  BY <2>1, SequenceForm
  <2>3. \A j \in 1..i + 1 : u[j] = RuleAt(j)
    <3>. \A j \in 1..i + 1 : j \in 1..i \/ j = i + 1
      BY <1>0
    <3>. HIDE DEF u
    <3>. QED  BY <1>0, <2>1
  <2>. HIDE DEF u
  <2>. QED  BY <2>2, <2>3 DEF FirstRules, u
<1>. HIDE DEF s
<1>3. IsSequence(Only(s, opt.rules))
  BY <1>1, OnlySequence
<1>4. Only(Append(s, e), opt.rules) = IF e \in opt.rules THEN Append(Only(s, opt.rules), e) ELSE Only(s, opt.rules)
  <2>. HIDE DEF e
  <2>. QED  BY <1>1, OnlyAppend, Zenon
<1>. QED  BY <1>2, <1>3, <1>4, Zenon DEF ChosenUpTo, s

\* One rule more is applied or not.
LEMMA AfterNext ==
  ASSUME NEW d, NEW opt, NEW i \in 0..14
  PROVE  After(d, opt, i + 1) = IF RuleAt(i + 1) \in opt.rules
                                THEN FixStep(After(d, opt, i), RuleAt(i + 1), LeafIds(d), opt)
                                ELSE After(d, opt, i)
<1>. DEFINE s == ChosenUpTo(opt, i)
            e == RuleAt(i + 1)
            u == Append(s, e)
            n == Len(s)
            c == <<LeafIds(d), opt>>
            b == [doc |-> d, counts |-> Zero(opt)]
<1>1. IsSequence(s) /\ ChosenUpTo(opt, i + 1) = IF e \in opt.rules THEN u ELSE s
  BY ChosenUpToNext, Zenon
<1>2. /\ n \in Nat /\ DOMAIN s = 1..n /\ DOMAIN u = 1..n + 1 /\ u[n + 1] = e
      /\ \A j \in 1..n : s[j] = u[j]
  <2>. HIDE DEF s, e
  <2>. QED  BY <1>1, AppendSequence, SequenceForm
<1>. HIDE DEF s, e, u, n, b
<1>3. RuleLaws!Folded(c, b, u) = RuleStep(c, RuleLaws!Folded(c, b, s), e)
  <2>. HIDE DEF c
  <2>. QED  BY <1>2, RuleLaws!FoldNext
<1>4. RuleStep(c, RuleLaws!Folded(c, b, s), e) = FixStep(RuleLaws!Folded(c, b, s), e, LeafIds(d), opt)
  BY DEF RuleStep
<1>. QED  BY <1>1, <1>3, <1>4 DEF After, s, e, b

\* What the rule at place i does to a document, or nothing if it is not enabled.
Pass(d, e, opt, i) == ApplyRule(d, LeafIds(e), RuleAt(i), opt)
Counted(r, d, D, opt, i) == RuleAt(i) \in opt.rules => r[RuleAt(i)] = Pass(D[i - 1], d, opt, i).n
Passed(d, D, opt, i) == D[i] = IF RuleAt(i) \in opt.rules THEN Pass(D[i - 1], d, opt, i).doc ELSE D[i - 1]

\* D are the documents after each rule, from d to the end; r are the counts of the rules.
Passes(D, d, opt, r) ==
  /\ D[0] = d /\ \A i \in 1..15 : Passed(d, D, opt, i)
  /\ DOMAIN r = opt.rules /\ \A i \in 1..15 : Counted(r, d, D, opt, i)
  /\ \A x \in opt.rules : (\A i \in 1..15 : x # RuleAt(i)) => r[x] = 0

\* A fix passes through a document after each rule, and counts what each rule changed.
LEMMA RulesPass ==
  ASSUME NEW d, NEW opt
  PROVE  \E D : Passes(D, d, opt, ApplyRules(d, LeafIds(d), opt).counts)
                /\ ApplyRules(d, LeafIds(d), opt).doc = D[15]
<1>. DEFINE A(i) == After(d, opt, i)
            D == [i \in 0..15 |-> A(i).doc]
            R == opt.rules
            Good(i) == /\ DOMAIN A(i).counts = R
                       /\ \A j \in 1..i : Counted(A(i).counts, d, D, opt, j)
                       /\ \A x \in R : (\A j \in 1..i : x # RuleAt(j)) => A(i).counts[x] = 0
            I == {i \in Nat : i <= 15 => Good(i)}
<1>0. \A i \in 0..15 : D[i] = A(i).doc
  OBVIOUS
<1>1. A(0).doc = d /\ A(0).counts = Zero(opt)
  BY AfterNone
<1>2. ASSUME NEW i \in 0..14
      PROVE  A(i + 1) = IF RuleAt(i + 1) \in R
                        THEN [doc |-> Pass(D[i], d, opt, i + 1).doc,
                              counts |-> [A(i).counts EXCEPT ![RuleAt(i + 1)] = Pass(D[i], d, opt, i + 1).n]]
                        ELSE A(i)
  <2>1. A(i + 1) = IF RuleAt(i + 1) \in R THEN FixStep(A(i), RuleAt(i + 1), LeafIds(d), opt) ELSE A(i)
    BY AfterNext
  <2>2. D[i] = A(i).doc
    BY <1>0
  <2>. HIDE DEF A, D
  <2>. QED  BY <2>1, <2>2 DEF FixStep, Pass
<1>. HIDE DEF A, D
<1>3. 0 \in I
  BY <1>1 DEF Zero
<1>4. ASSUME NEW i \in Nat, i \in I PROVE i + 1 \in I
  <2>. SUFFICES ASSUME i + 1 <= 15 PROVE Good(i + 1)
    OBVIOUS
  <2>. DEFINE x == RuleAt(i + 1)
              q == Pass(D[i], d, opt, i + 1)
              c == A(i).counts
              b == A(i + 1).counts
  <2>1. i \in 0..14 /\ i + 1 \in 1..15 /\ i + 1 - 1 = i /\ \A j \in 1..i + 1 : j \in 1..i \/ j = i + 1
    OBVIOUS
  <2>2. DOMAIN c = R
    BY <1>4, <2>1
  <2>3. \A j \in 1..i : Counted(c, d, D, opt, j)
    BY <1>4, <2>1
  <2>4. \A y \in R : (\A j \in 1..i : y # RuleAt(j)) => c[y] = 0
    BY <1>4, <2>1
  <2>5. b = IF x \in R THEN [c EXCEPT ![x] = q.n] ELSE c
    BY <1>2, <2>1, SMTT(30)
  <2>6. \A j \in 1..i : RuleAt(j) # x
    <3>. SUFFICES ASSUME NEW j \in 1..i PROVE RuleAt(j) # x
      OBVIOUS
    <3>. j \in 1..15 /\ j # i + 1
      BY <2>1
    <3>. QED  BY <2>1, RulesDiffer
  <2>. HIDE DEF c, b, q, I, x
  <2>7. DOMAIN b = R /\ \A y \in R : b[y] = IF y = x THEN q.n ELSE c[y]
    BY <2>2, <2>5
  <2>8. \A j \in 1..i : Counted(b, d, D, opt, j)
    BY <2>3, <2>6, <2>7 DEF Counted
  <2>9. Counted(b, d, D, opt, i + 1)
    BY <2>1, <2>7 DEF Counted, x, q
  <2>10. \A y \in R : (\A j \in 1..i + 1 : y # RuleAt(j)) => b[y] = 0
    <3>. SUFFICES ASSUME NEW y \in R, \A j \in 1..i + 1 : y # RuleAt(j) PROVE b[y] = 0
      OBVIOUS
    <3>1. y # x
      BY <2>1 DEF x
    <3>2. \A j \in 1..i : y # RuleAt(j)
      BY <2>1
    <3>. QED  BY <2>4, <2>7, <3>1, <3>2
  <2>. QED  BY <2>1, <2>7, <2>8, <2>9, <2>10 DEF b
<1>5. \A i \in 0..15 : Good(i)
  <2>. HIDE DEF I
  <2>1. Nat \subseteq I
    BY <1>3, <1>4, Induction
  <2>. QED  BY <2>1 DEF I
<1>6. \A i \in 1..15 : Passed(d, D, opt, i)
  <2>. SUFFICES ASSUME NEW i \in 1..15 PROVE Passed(d, D, opt, i)
    OBVIOUS
  <2>1. i - 1 \in 0..14 /\ (i - 1) + 1 = i /\ i \in 0..15 /\ i - 1 \in 0..15
    OBVIOUS
  <2>2. D[i] = A(i).doc /\ D[i - 1] = A(i - 1).doc
    BY <1>0, <2>1
  <2>3. A(i) = IF RuleAt(i) \in R
               THEN [doc |-> Pass(D[i - 1], d, opt, i).doc,
                     counts |-> [A(i - 1).counts EXCEPT ![RuleAt(i)] = Pass(D[i - 1], d, opt, i).n]]
               ELSE A(i - 1)
    BY <1>2, <2>1, Zenon
  <2>. QED  BY <2>2, <2>3 DEF Passed
<1>7. ApplyRules(d, LeafIds(d), opt) = A(15)
  BY AfterAll DEF A
<1>8. Passes(D, d, opt, A(15).counts) /\ A(15).doc = D[15]
  <2>1. D[0] = d /\ D[15] = A(15).doc
    BY <1>0, <1>1
  <2>2. Good(15)
    BY <1>5
  <2>. QED  BY <1>6, <2>1, <2>2 DEF Passes
<1>. QED  BY <1>7, <1>8

-----------------------------------------------------------------------------
(* Objects and their members.                                              *)

\* The entries of o are entries of s, in the same order: g are their places.
Picks(g, s, o) ==
  /\ \A k \in DOMAIN o : g[k] \in DOMAIN s /\ o[k] = s[g[k]]
  /\ \A j, k \in DOMAIN o : j < k => g[j] < g[k]

\* What is kept of a sequence is picked from it at rising indices.
LEMMA OnlyPicks ==
  ASSUME NEW s, IsSequence(s), NEW S
  PROVE  \E g : Picks(g, s, Only(s, S))
<1>. DEFINE X == ToSet(s)
            A == {t \in Seq(X) : \E g : Picks(g, t, Only(t, S))}
<1>1. <<>> \in A
  <2>1. Only(<<>>, S) = <<>>
    BY OnlyEmpty
  <2>2. Picks(<<>>, <<>>, <<>>)
    BY DEF Picks
  <2>. QED  BY <2>1, <2>2
<1>2. ASSUME NEW t \in Seq(X), NEW e \in X, t \in A PROVE Append(t, e) \in A
  <2>. DEFINE o == Only(t, S)
              u == Append(t, e)
              n == Len(t)
              m == Len(o)
  <2>1. PICK g : Picks(g, t, o)
    BY <1>2
  <2>2. Only(t, S) \in Seq(X)
    BY OnlyType, Zenon
  <2>3. Only(u, S) = IF e \in S THEN Append(o, e) ELSE o
    BY OnlyNext
  <2>4. /\ n \in Nat /\ DOMAIN t = 1..n /\ DOMAIN u = 1..n + 1 /\ u[n + 1] = e
        /\ \A i \in 1..n : u[i] = t[i]
    OBVIOUS
  <2>. HIDE DEF o
  <2>5. m \in Nat /\ DOMAIN o = 1..m
    BY <2>2 DEF o
  <2>6. DOMAIN Append(o, e) = 1..m + 1 /\ Append(o, e)[m + 1] = e /\ \A i \in 1..m : Append(o, e)[i] = o[i]
    BY <2>2 DEF o
  <2>. HIDE DEF u, n, m
  <2>7. CASE e \in S
    <3>. DEFINE h == [k \in 1..m + 1 |-> IF k = m + 1 THEN n + 1 ELSE g[k]]
                v == Append(o, e)
    <3>1. \A k \in 1..m + 1 : h[k] = IF k = m + 1 THEN n + 1 ELSE g[k]
      OBVIOUS
    <3>. HIDE DEF h, v
    <3>2. DOMAIN v = 1..m + 1 /\ v[m + 1] = e /\ \A i \in 1..m : v[i] = o[i]
      BY <2>6, Zenon DEF v
    <3>3. \A k \in 1..m + 1 : k \in 1..m \/ k = m + 1
      BY <2>5
    <3>4. \A k \in 1..m : k \in 1..m + 1 /\ k # m + 1 /\ k < m + 1
      BY <2>5
    <3>5. \A k \in 1..m : g[k] \in 1..n /\ o[k] = t[g[k]]
      BY <2>1, <2>4, <2>5 DEF Picks
    <3>6. \A k \in DOMAIN v : h[k] \in DOMAIN u /\ v[k] = u[h[k]]
      <4>. SUFFICES ASSUME NEW k \in 1..m + 1 PROVE h[k] \in 1..n + 1 /\ v[k] = u[h[k]]
        BY <2>4, <3>2
      <4>1. CASE k = m + 1
        BY <2>4, <3>1, <3>2, <4>1
      <4>2. CASE k \in 1..m
        <5>1. h[k] = g[k] /\ g[k] \in 1..n /\ v[k] = t[g[k]]
          BY <3>1, <3>2, <3>4, <3>5, <4>2
        <5>. QED  BY <2>4, <5>1
      <4>. QED  BY <3>3, <4>1, <4>2
    <3>7. \A j, k \in DOMAIN v : j < k => h[j] < h[k]
      <4>. SUFFICES ASSUME NEW j \in 1..m + 1, NEW k \in 1..m + 1, j < k PROVE h[j] < h[k]
        BY <3>2
      <4>0. j \in 1..m
        BY <2>5, <3>3
      <4>1. CASE k = m + 1
        BY <2>4, <3>1, <3>4, <3>5, <4>0, <4>1
      <4>2. CASE k \in 1..m
        BY <2>1, <2>5, <3>1, <3>4, <4>0, <4>2 DEF Picks
      <4>. QED  BY <3>3, <4>1, <4>2
    <3>8. Picks(h, u, v)
      BY <3>6, <3>7 DEF Picks
    <3>9. Only(u, S) = v
      BY <2>3, <2>7 DEF v
    <3>10. \E f : Picks(f, u, Only(u, S))
      BY <3>8, <3>9
    <3>. QED  BY <3>10 DEF u
  <2>8. CASE e \notin S
    <3>1. Picks(g, u, o)
      BY <2>1, <2>4, <2>5 DEF Picks
    <3>. QED  BY <2>3, <2>8, <3>1 DEF u
  <2>. QED  BY <2>7, <2>8
<1>. HIDE DEF A
<1>3. Seq(X) \subseteq A
  BY <1>1, <1>2, SequenceInduction
<1>. QED  BY <1>3 DEF A, IsSequence

\* An object, and what it has in common with another.
Obj(o) == IsObject(o) /\ OneMemberPerKey(o)
SameAt(o, p, k) == (k \in Keys(p) <=> k \in Keys(o)) /\ Get(p, k) = Get(o, k)
\* p is o but for the members of S.
AlikeBut(o, p, S) == \A k : k \notin S => SameAt(o, p, k)

\* An object is a sequence of members.
LEMMA ObjSequence ==
  ASSUME NEW o, Obj(o)
  PROVE  IsSequence(o) /\ OneMemberPerKey(o) /\ IsObject(o)
  BY DEF Obj, IsObject

\* A member that both have is the same in both.
LEMMA MemberSame ==
  ASSUME NEW o, OneMemberPerKey(o), NEW p, OneMemberPerKey(p), NEW k,
         \A m : m[1] = k => (m \in ToSet(p) <=> m \in ToSet(o))
  PROVE  SameAt(o, p, k)
<1>1. CASE \E m \in ToSet(o) : m[1] = k
  <2>. PICK m \in ToSet(o) : m[1] = k
    BY <1>1
  <2>1. m \in ToSet(p)
    OBVIOUS
  <2>2. k \in Keys(o) /\ Get(o, k) = m[2]
    BY GetMember
  <2>3. k \in Keys(p) /\ Get(p, k) = m[2]
    BY <2>1, GetMember
  <2>. QED  BY <2>2, <2>3 DEF SameAt
<1>2. CASE \A m \in ToSet(o) : m[1] # k
  <2>1. \A m \in ToSet(p) : m[1] # k
    BY <1>2
  <2>2. k \notin Keys(o) /\ Get(o, k) = Absent
    BY <1>2, GetAbsent
  <2>3. k \notin Keys(p) /\ Get(p, k) = Absent
    BY <2>1, GetAbsent
  <2>. QED  BY <2>2, <2>3 DEF SameAt
<1>. QED  BY <1>1, <1>2

\* Some of the members of an object are one.
LEMMA OnlyObject ==
  ASSUME NEW o, Obj(o), NEW S
  PROVE  Obj(Only(o, S)) /\ ToSet(Only(o, S)) = ToSet(o) \cap S
<1>. DEFINE p == Only(o, S)
<1>1. IsSequence(p) /\ ToSet(p) = ToSet(o) \cap S
  BY OnlySequence, ObjSequence
<1>2. PICK g : Picks(g, o, p)
  BY OnlyPicks, ObjSequence
<1>3. DOMAIN p = 1..Len(p) /\ Len(p) \in Nat /\ DOMAIN o = 1..Len(o) /\ Len(o) \in Nat
  BY <1>1, SequenceForm, ObjSequence
<1>. HIDE DEF p
<1>4. OneMemberPerKey(p)
  <2>. SUFFICES ASSUME NEW i \in DOMAIN p, NEW j \in DOMAIN p, p[i][1] = p[j][1] PROVE i = j
    BY DEF OneMemberPerKey
  <2>1. g[i] \in DOMAIN o /\ g[j] \in DOMAIN o /\ p[i] = o[g[i]] /\ p[j] = o[g[j]]
    BY <1>2 DEF Picks
  <2>2. g[i] = g[j]
    BY <2>1 DEF Obj, OneMemberPerKey
  <2>3. i < j => g[i] < g[j]
    BY <1>2 DEF Picks
  <2>4. j < i => g[j] < g[i]
    BY <1>2 DEF Picks
  <2>5. i \in Int /\ j \in Int /\ g[i] \in Int
    BY <1>3, <2>1
  <2>. QED  BY <2>2, <2>3, <2>4, <2>5
<1>5. IsObject(p)
  BY <1>1 DEF Obj, IsObject
<1>. QED  BY <1>1, <1>4, <1>5 DEF Obj, p

\* Putting a member changes that member only.
LEMMA PutAlters ==
  ASSUME NEW o, Obj(o), NEW k, NEW v, IsValue(v)
  PROVE  LET p == Put(o, k, v) IN Obj(p) /\ AlikeBut(o, p, {k}) /\ k \in Keys(p) /\ Get(p, k) = v
<1>. DEFINE p == Put(o, k, v)
            kv == <<k, v>>
<1>1. Obj(p)
  BY PutObject DEF Obj
<1>2. ToSet(p) = {m \in ToSet(o) : m[1] # k} \cup {kv}
  BY PutMembers, ObjSequence
<1>3. Get(p, k) = v
  BY PutGet, ObjSequence
<1>4. kv[1] = k
  OBVIOUS
<1>. HIDE DEF p, kv
<1>5. k \in Keys(p)
  BY <1>2, <1>4 DEF Keys
<1>6. ASSUME NEW j, j # k PROVE SameAt(o, p, j)
  <2>. \A m : m[1] = j => (m \in ToSet(p) <=> m \in ToSet(o))
    BY <1>2, <1>4, <1>6
  <2>. QED  BY <1>1, MemberSame DEF Obj
<1>7. AlikeBut(o, p, {k})
  BY <1>6 DEF AlikeBut
<1>. QED  BY <1>1, <1>3, <1>5, <1>7 DEF p

\* What is put there already changes nothing.
LEMMA PutSame ==
  ASSUME NEW o, Obj(o), NEW k \in Keys(o)
  PROVE  Put(o, k, Get(o, k)) = o
<1>1. Len(o) \in Nat /\ DOMAIN o = 1..Len(o) /\ o = [i \in 1..Len(o) |-> o[i]] /\ IsSequence(o)
  BY SequenceForm, ObjSequence
<1>2. ASSUME NEW i \in DOMAIN o, o[i][1] = k PROVE o[i] = <<k, Get(o, k)>>
  <2>1. o[i] \in ToSet(o)
    BY InSet
  <2>2. Get(o, k) = o[i][2]
    BY <1>2, <2>1, GetMember, ObjSequence
  <2>3. o[i] = <<o[i][1], o[i][2]>>
    BY <2>1 DEF Obj, IsObject
  <2>. QED  BY <1>2, <2>2, <2>3
<1>. DEFINE v == Get(o, k)
<1>3. Put(o, k, v) = [i \in DOMAIN o |-> IF o[i][1] = k THEN <<k, v>> ELSE o[i]]
  BY DEF Put
<1>. HIDE DEF v
<1>4. \A i \in DOMAIN o : (IF o[i][1] = k THEN <<k, v>> ELSE o[i]) = o[i]
  BY <1>2 DEF v
<1>5. Put(o, k, v) = [i \in DOMAIN o |-> o[i]]
  BY <1>3, <1>4
<1>. QED  BY <1>1, <1>5 DEF v

\* Deleting a member changes that member only.
LEMMA DelAlters ==
  ASSUME NEW o, Obj(o), NEW k
  PROVE  LET p == Del(o, k) IN Obj(p) /\ AlikeBut(o, p, {k}) /\ k \notin Keys(p) /\ Get(p, k) = Absent
<1>. DEFINE S == {m \in ToSet(o) : m[1] # k}
            p == Only(o, S)
<1>1. Obj(p) /\ ToSet(p) = S
  BY OnlyObject
<1>. HIDE DEF p
<1>2. k \notin Keys(p) /\ Get(p, k) = Absent
  BY <1>1, GetAbsent
<1>3. ASSUME NEW j, j # k PROVE SameAt(o, p, j)
  <2>. \A m : m[1] = j => (m \in ToSet(p) <=> m \in ToSet(o))
    BY <1>1, <1>3
  <2>. QED  BY <1>1, MemberSame DEF Obj
<1>4. AlikeBut(o, p, {k})
  BY <1>3 DEF AlikeBut
<1>. QED  BY <1>1, <1>2, <1>4 DEF p, Del

\* An object is like itself.
LEMMA AlikeSelf == \A o, S : AlikeBut(o, o, S)
  BY DEF AlikeBut, SameAt

\* More members may differ.
LEMMA AlikeMore ==
  ASSUME NEW o, NEW p, NEW S, NEW T, AlikeBut(o, p, S), S \subseteq T
  PROVE  AlikeBut(o, p, T)
  BY DEF AlikeBut

\* Two changes of the same members are one.
LEMMA AlikeThen ==
  ASSUME NEW o, NEW p, NEW q, NEW S, AlikeBut(o, p, S), AlikeBut(p, q, S)
  PROVE  AlikeBut(o, q, S)
  BY DEF AlikeBut, SameAt

-----------------------------------------------------------------------------
(* What a change of a list member leaves.                                  *)

\* A sequence of which all is kept is the same.
LEMMA OnlyWhole ==
  ASSUME NEW s, IsSequence(s), NEW S, Len(Only(s, S)) = Len(s)
  PROVE  Only(s, S) = s
<1>. DEFINE X == ToSet(s)
            A == {t \in Seq(X) : Len(Only(t, S)) = Len(t) => Only(t, S) = t}
<1>1. <<>> \in A
  BY OnlyEmpty
<1>2. ASSUME NEW t \in Seq(X), NEW e \in X, t \in A PROVE Append(t, e) \in A
  <2>. DEFINE o == Only(t, S)
  <2>1. Only(Append(t, e), S) = IF e \in S THEN Append(o, e) ELSE o
    BY OnlyNext
  <2>2. IsSequence(t)
    BY SequenceOf
  <2>3. o \in Seq(X) /\ Len(o) <= Len(t)
    BY <2>2, OnlyType, OnlyShorter, Zenon
  <2>4. t \in A => (Len(o) = Len(t) => o = t)
    OBVIOUS
  <2>. HIDE DEF o
  <2>5. Len(Append(t, e)) = Len(t) + 1 /\ Len(Append(o, e)) = Len(o) + 1 /\ Len(t) \in Nat /\ Len(o) \in Nat
    BY <2>3
  <2>6. Len(Only(Append(t, e), S)) = Len(Append(t, e)) => Only(Append(t, e), S) = Append(t, e)
    <3>1. CASE e \in S
      BY <1>2, <2>1, <2>4, <2>5, <3>1
    <3>2. CASE e \notin S
      BY <2>1, <2>3, <2>5, <3>2
    <3>. QED  BY <3>1, <3>2
  <2>7. Append(t, e) \in Seq(X)
    OBVIOUS
  <2>. QED  BY <2>6, <2>7
<1>. HIDE DEF A
<1>3. Seq(X) \subseteq A
  BY <1>1, <1>2, SequenceInduction
<1>. QED  BY <1>3 DEF A, IsSequence

\* A member of an object is a value.
LEMMA ObjValue ==
  ASSUME NEW o, Obj(o), NEW k
  PROVE  /\ IsValue(Get(o, k)) /\ IsSequence(Get(o, k).items)
         /\ IsList(Get(o, k)) => Get(o, k) = ListOf(Get(o, k).items) /\ k \in Keys(o)
         /\ IsNone(Get(o, k)) => Get(o, k).items = <<>>
<1>. DEFINE v == Get(o, k)
<1>1. IsValue(v)
  BY GetValue DEF Obj
<1>2. IsSequence(v.items) /\ v = [kind |-> v.kind, items |-> v.items]
  BY <1>1 DEF IsValue
<1>3. IsList(v) => k \in Keys(o)
  BY AbsentValue DEF Get, IsList
<1>. HIDE DEF v
<1>4. IsList(v) => v = ListOf(v.items)
  BY <1>2 DEF IsList, ListOf
<1>5. IsNone(v) => v.items = <<>>
  BY <1>1 DEF IsValue, IsNone, IsList
<1>. QED  BY <1>1, <1>2, <1>3, <1>4, <1>5 DEF v

\* r is the result of a rule that changes the member k of o alone, or nothing and counts nothing.
Change(o, k, r) ==
  /\ Obj(r.obj) /\ AlikeBut(o, r.obj, {k}) /\ r.n \in Nat
  /\ r.n = 0 => r.obj = o

\* No change is a change.
LEMMA SameChange ==
  ASSUME NEW o, Obj(o), NEW k
  PROVE  Change(o, k, Same(o)) /\ Same(o).obj = o /\ Same(o).n = 0
  BY AlikeSelf DEF Change, Same

\* Filtering the entries of a member keeps their order and counts those that go.
LEMMA FilteredEffect ==
  ASSUME NEW o, Obj(o), NEW k, NEW entries
  PROVE  LET r == Filtered(o, k, entries)
             old == Get(o, k)
         IN /\ Change(o, k, r)
            /\ k \in Keys(r.obj) <=> k \in Keys(o)
            /\ IF IsList(old)
                 THEN /\ Get(r.obj, k) = ListOf(Only(old.items, entries))
                      /\ r.n = Len(old.items) - Len(Only(old.items, entries))
                 ELSE r = Same(o)
<1>. DEFINE r == Filtered(o, k, entries)
            old == Get(o, k)
            kept == Only(old.items, entries)
            p == Put(o, k, ListOf(kept))
<1>1. CASE ~IsList(old)
  <2>1. r = Same(o)
    BY <1>1 DEF Filtered
  <2>. HIDE DEF r
  <2>2. r.obj = o /\ Change(o, k, r)
    BY <2>1, SameChange
  <2>. HIDE DEF old
  <2>. QED  BY <1>1, <2>1, <2>2 DEF r, old
<1>2. CASE IsList(old)
  <2>1. r = [obj |-> p, n |-> Len(old.items) - Len(kept)]
    BY <1>2 DEF Filtered
  <2>2. IsSequence(old.items) /\ old = ListOf(old.items) /\ k \in Keys(o)
    BY <1>2, ObjValue
  <2>. HIDE DEF r, old
  <2>3. IsSequence(kept) /\ Len(kept) <= Len(old.items) /\ Len(old.items) \in Nat /\ Len(kept) \in Nat
    BY <2>2, OnlySequence, OnlyShorter, SequenceForm
  <2>4. Len(kept) = Len(old.items) => kept = old.items
    BY <2>2, OnlyWhole
  <2>. HIDE DEF kept
  <2>5. IsValue(ListOf(kept))
    BY <2>3, ListValue
  <2>6. Obj(p) /\ AlikeBut(o, p, {k}) /\ k \in Keys(p) /\ Get(p, k) = ListOf(kept)
    BY <2>5, PutAlters
  <2>7. kept = old.items => p = o
    BY <2>2, PutSame DEF old
  <2>. HIDE DEF p
  <2>8. r.obj = p /\ r.n = Len(old.items) - Len(kept)
    BY <2>1
  <2>9. r.n \in Nat /\ (r.n = 0 => r.obj = o)
    BY <2>3, <2>4, <2>7, <2>8
  <2>10. Change(o, k, r)
    BY <2>6, <2>8, <2>9 DEF Change
  <2>. QED  BY <1>2, <2>2, <2>6, <2>8, <2>10 DEF r, old, kept
<1>. QED  BY <1>1, <1>2, Zenon

\* Extending a member adds the entries at its end, if the member is absent or a list.
LEMMA ExtendedEffect ==
  ASSUME NEW o, Obj(o), NEW k, NEW entries, IsSequence(entries),
         IsNone(Get(o, k)) => entries # <<>>
  PROVE  LET r == Extended(o, k, entries)
             old == Get(o, k)
         IN /\ Change(o, k, r)
            /\ k \in Keys(o) => k \in Keys(r.obj)
            /\ IF IsNone(old) \/ IsList(old)
                 THEN /\ k \in Keys(r.obj) /\ r.n = Len(entries)
                      /\ Get(r.obj, k) = ListOf(old.items \o entries) /\ IsSequence(old.items \o entries)
                      /\ ToSet(old.items \o entries) = ToSet(old.items) \cup ToSet(entries)
                 ELSE r = Same(o)
<1>. DEFINE r == Extended(o, k, entries)
            old == Get(o, k)
            all == old.items \o entries
            p == Put(o, k, ListOf(all))
<1>1. CASE ~(IsNone(old) \/ IsList(old))
  <2>1. r = Same(o)
    BY <1>1 DEF Extended
  <2>. HIDE DEF r
  <2>2. r.obj = o /\ Change(o, k, r)
    BY <2>1, SameChange
  <2>. HIDE DEF old
  <2>. QED  BY <1>1, <2>1, <2>2 DEF r, old
<1>2. CASE IsNone(old) \/ IsList(old)
  <2>1. r = [obj |-> p, n |-> Len(entries)]
    BY <1>2 DEF Extended
  <2>2. /\ IsSequence(old.items)
        /\ IsNone(old) => entries # <<>>
        /\ IsList(old) => old = ListOf(old.items) /\ k \in Keys(o)
    BY ObjValue
  <2>. HIDE DEF r, old
  <2>3. IsSequence(all) /\ ToSet(all) = ToSet(old.items) \cup ToSet(entries) /\ Len(entries) \in Nat
    BY <2>2, ConcatSequence, SequenceForm
  <2>4. Len(entries) = 0 => entries = <<>> /\ all = old.items
    <3>. SUFFICES ASSUME Len(entries) = 0 PROVE entries = <<>> /\ all = old.items
      OBVIOUS
    <3>1. entries = <<>>
      BY SequenceForm
    <3>2. old.items \in Seq(ToSet(old.items))
      BY <2>2, SequenceForm
    <3>. QED  BY <3>1, <3>2
  <2>. HIDE DEF all
  <2>5. IsValue(ListOf(all))
    BY <2>3, ListValue
  <2>6. Obj(p) /\ AlikeBut(o, p, {k}) /\ k \in Keys(p) /\ Get(p, k) = ListOf(all)
    BY <2>5, PutAlters
  <2>7. IsList(old) /\ all = old.items => p = o
    BY <2>2, PutSame DEF old
  <2>. HIDE DEF p
  <2>8. r.obj = p /\ r.n = Len(entries)
    BY <2>1
  <2>9. r.n \in Nat /\ (r.n = 0 => r.obj = o)
    BY <1>2, <2>2, <2>3, <2>4, <2>7, <2>8
  <2>10. Change(o, k, r)
    BY <2>6, <2>8, <2>9 DEF Change
  <2>. QED  BY <1>2, <2>3, <2>6, <2>8, <2>10 DEF r, old, all
<1>. QED  BY <1>1, <1>2

-----------------------------------------------------------------------------
(* What the rules of a component keep of it.                               *)

Odd(v) == ~IsNone(v) /\ ~IsList(v)
RuleKeys == {"externalReferences", "properties", "licenses"}
Sources(o) == {r \in Entries(o, "externalReferences") : IsSource(r)}
ProvidedIn(o) == \E e \in Entries(o, "properties") : e[1] = "GOST:provided_by" /\ NonEmptyString(V(e[2]))
GostKept(o, p) ==
  \A e \in Entries(o, "properties") : e[1] \in GostNames => \E f \in Entries(p, "properties") : f[1] = e[1]

KeepsRefs(rules, o, p) ==
  /\ "externalReferences" \in Keys(o) => "externalReferences" \in Keys(p)
  /\ Odd(Get(p, "externalReferences")) <=> Odd(Get(o, "externalReferences"))
  /\ Sources(o) # {} => Sources(p) # {} \/ HasProprietary(p)
  /\ "remove_proprietary_source_references" \notin rules => Sources(o) \subseteq Sources(p)
KeepsProps(o, p) ==
  /\ "properties" \in Keys(o) => "properties" \in Keys(p)
  /\ Odd(Get(p, "properties")) <=> Odd(Get(o, "properties"))
  /\ GostKept(o, p)
  /\ ProvidedIn(o) => ProvidedIn(p)
KeepsLicences(rules, o, p) ==
  /\ HasProprietary(o) => HasProprietary(p)
  /\ "licenses" \in Keys(o) \ Keys(p) => "filter_non_proprietary" \in rules
  /\ "licenses" \in Keys(p) \ Keys(o) => "add_proprietary" \in rules

\* p is what the enabled rules may make of the object o of a component.
Keeps(rules, o, p) ==
  /\ Obj(p) /\ AlikeBut(o, p, RuleKeys)
  /\ KeepsRefs(rules, o, p) /\ KeepsProps(o, p) /\ KeepsLicences(rules, o, p)

\* What two changes keep, they keep together.
LEMMA KeepsThen ==
  ASSUME NEW rules, NEW o, NEW p, NEW q, Keeps(rules, o, p), Keeps(rules, p, q)
  PROVE  Keeps(rules, o, q)
<1>1. Obj(q) /\ AlikeBut(o, q, RuleKeys)
  BY AlikeThen DEF Keeps
<1>2. KeepsRefs(rules, o, q)
  BY DEF Keeps, KeepsRefs, KeepsLicences
<1>3. KeepsProps(o, q)
  <2>1. GostKept(o, q)
    BY DEF Keeps, KeepsProps, GostKept
  <2>. QED  BY <2>1 DEF Keeps, KeepsProps
<1>4. KeepsLicences(rules, o, q)
  BY DEF Keeps, KeepsLicences
<1>. QED  BY <1>1, <1>2, <1>3, <1>4 DEF Keeps

\* Each member that is the same is kept.
LEMMA SameRefs ==
  ASSUME NEW rules, NEW o, NEW p, SameAt(o, p, "externalReferences")
  PROVE  KeepsRefs(rules, o, p)
  BY DEF SameAt, KeepsRefs, Sources, Entries

\* A change that leaves the properties alone keeps them.
LEMMA SameProps ==
  ASSUME NEW o, NEW p, SameAt(o, p, "properties")
  PROVE  KeepsProps(o, p)
<1>1. Entries(p, "properties") = Entries(o, "properties")
  BY DEF SameAt, Entries
<1>. QED  BY <1>1 DEF SameAt, KeepsProps, ProvidedIn, GostKept

\* A change that leaves the licences alone keeps them.
LEMMA SameLicences ==
  ASSUME NEW rules, NEW o, NEW p, SameAt(o, p, "licenses")
  PROVE  KeepsLicences(rules, o, p)
  BY DEF SameAt, KeepsLicences, HasProprietary, Entries

\* An object with the same members keeps everything.
LEMMA SameKeeps ==
  ASSUME NEW rules, NEW o, NEW p, Obj(p), AlikeBut(o, p, {})
  PROVE  Keeps(rules, o, p)
<1>1. AlikeBut(o, p, RuleKeys) /\ \A k : SameAt(o, p, k)
  BY AlikeMore DEF AlikeBut
<1>. QED  BY <1>1, SameRefs, SameProps, SameLicences DEF Keeps

\* A change of one of the three members has to keep that one.
LEMMA RefsKeep ==
  ASSUME NEW rules, NEW o, NEW r, Change(o, "externalReferences", r), KeepsRefs(rules, o, r.obj)
  PROVE  Keeps(rules, o, r.obj)
<1>1. Obj(r.obj) /\ AlikeBut(o, r.obj, {"externalReferences"})
  BY DEF Change
<1>2. SameAt(o, r.obj, "properties") /\ SameAt(o, r.obj, "licenses") /\ AlikeBut(o, r.obj, RuleKeys)
  BY <1>1, AlikeMore DEF AlikeBut, RuleKeys
<1>. QED  BY <1>1, <1>2, SameProps, SameLicences DEF Keeps

\* A change of the properties alone leaves references and licences.
LEMMA PropsKeep ==
  ASSUME NEW rules, NEW o, NEW r, Change(o, "properties", r), KeepsProps(o, r.obj)
  PROVE  Keeps(rules, o, r.obj)
<1>1. Obj(r.obj) /\ AlikeBut(o, r.obj, {"properties"})
  BY DEF Change
<1>2. SameAt(o, r.obj, "externalReferences") /\ SameAt(o, r.obj, "licenses") /\ AlikeBut(o, r.obj, RuleKeys)
  BY <1>1, AlikeMore DEF AlikeBut, RuleKeys
<1>. QED  BY <1>1, <1>2, SameRefs, SameLicences DEF Keeps

\* A change of the licences alone leaves references and properties.
LEMMA LicencesKeep ==
  ASSUME NEW rules, NEW o, NEW r, Change(o, "licenses", r), KeepsLicences(rules, o, r.obj)
  PROVE  Keeps(rules, o, r.obj)
<1>1. Obj(r.obj) /\ AlikeBut(o, r.obj, {"licenses"})
  BY DEF Change
<1>2. SameAt(o, r.obj, "externalReferences") /\ SameAt(o, r.obj, "properties") /\ AlikeBut(o, r.obj, RuleKeys)
  BY <1>1, AlikeMore DEF AlikeBut, RuleKeys
<1>. QED  BY <1>1, <1>2, SameRefs, SameProps DEF Keeps

\* A rule that changes nothing.
LEMMA SameRule ==
  ASSUME NEW rules, NEW o, Obj(o)
  PROVE  Keeps(rules, o, Same(o).obj)
  BY SameKeeps, SameChange, AlikeSelf

\* What is kept of a list is what it had of the entries to keep.
LEMMA KeptItems ==
  ASSUME NEW o, Obj(o), NEW k, NEW entries, IsList(Get(o, k))
  PROVE  LET p == Filtered(o, k, entries).obj
         IN IsList(Get(p, k)) /\ Entries(p, k) = Entries(o, k) \cap entries
<1>. DEFINE p == Filtered(o, k, entries).obj
            kept == Only(Get(o, k).items, entries)
<1>1. Get(p, k) = ListOf(kept)
  BY FilteredEffect, Zenon
<1>2. IsSequence(kept) /\ ToSet(kept) = Entries(o, k) \cap entries
  BY ObjValue, OnlySequence DEF Entries
<1>. HIDE DEF p, kept
<1>3. ListOf(kept).items = kept /\ IsList(ListOf(kept))
  BY DEF ListOf, IsList
<1>. QED  BY <1>1, <1>2, <1>3 DEF Entries, p

\* Filtering the references keeps the source references (fixer.py, filter_external_references).
LEMMA FilterExternalReferencesKeeps ==
  ASSUME NEW rules, NEW o, Obj(o)
  PROVE  LET r == FilterExternalReferences(o)
         IN Change(o, "externalReferences", r) /\ Keeps(rules, o, r.obj)
<1>. DEFINE k == "externalReferences"
            S == {e \in Entries(o, k) : IsSource(e)}
            r == Filtered(o, k, S)
<1>1. Change(o, k, r) /\ (k \in Keys(r.obj) <=> k \in Keys(o)) /\ (~IsList(Get(o, k)) => r = Same(o))
  BY FilteredEffect, Zenon
<1>2. r = FilterExternalReferences(o)
  BY DEF FilterExternalReferences
<1>3. CASE IsList(Get(o, k))
  <2>1. IsList(Get(r.obj, k)) /\ Entries(r.obj, k) = Entries(o, k) \cap S
    BY <1>3, KeptItems
  <2>. HIDE DEF r
  <2>2. Sources(r.obj) = Sources(o)
    BY <2>1 DEF Sources
  <2>3. KeepsRefs(rules, o, r.obj)
    BY <1>1, <1>3, <2>1, <2>2 DEF KeepsRefs, Odd
  <2>. QED  BY <1>1, <1>2, <2>3, RefsKeep
<1>4. CASE ~IsList(Get(o, k))
  BY <1>1, <1>2, <1>4, SameRule
<1>. QED  BY <1>3, <1>4

\* Filtering the properties keeps those of GOST.
LEMMA FilterPropertiesKeeps ==
  ASSUME NEW rules, NEW o, Obj(o)
  PROVE  LET r == FilterProperties(o)
         IN Change(o, "properties", r) /\ Keeps(rules, o, r.obj)
<1>. DEFINE k == "properties"
            S == {e \in Entries(o, k) : e[1] \in GostNames}
            r == Filtered(o, k, S)
<1>1. Change(o, k, r) /\ (k \in Keys(r.obj) <=> k \in Keys(o)) /\ (~IsList(Get(o, k)) => r = Same(o))
  BY FilteredEffect, Zenon
<1>2. r = FilterProperties(o)
  BY DEF FilterProperties
<1>3. CASE IsList(Get(o, k))
  <2>1. IsList(Get(r.obj, k)) /\ Entries(r.obj, k) = Entries(o, k) \cap S
    BY <1>3, KeptItems
  <2>. HIDE DEF r
  <2>2. "GOST:provided_by" \in GostNames
    BY DEF GostNames
  <2>3. GostKept(o, r.obj) /\ (ProvidedIn(o) => ProvidedIn(r.obj))
    BY <2>1, <2>2 DEF GostKept, ProvidedIn
  <2>4. KeepsProps(o, r.obj)
    BY <1>1, <1>3, <2>1, <2>3 DEF KeepsProps, Odd
  <2>. QED  BY <1>1, <1>2, <2>4, PropsKeep
<1>4. CASE ~IsList(Get(o, k))
  BY <1>1, <1>2, <1>4, SameRule
<1>. QED  BY <1>3, <1>4

\* What an extended list has.
LEMMA ExtendedEntries ==
  ASSUME NEW o, Obj(o), NEW k, NEW entries, IsSequence(entries),
         IsNone(Get(o, k)) => entries # <<>>, IsNone(Get(o, k)) \/ IsList(Get(o, k))
  PROVE  LET p == Extended(o, k, entries).obj
         IN k \in Keys(p) /\ IsList(Get(p, k)) /\ Entries(p, k) = Entries(o, k) \cup ToSet(entries)
<1>. DEFINE p == Extended(o, k, entries).obj
            all == Get(o, k).items \o entries
<1>1. k \in Keys(p) /\ Get(p, k) = ListOf(all) /\ ToSet(all) = Entries(o, k) \cup ToSet(entries)
  BY ExtendedEffect, Zenon DEF Entries
<1>. HIDE DEF p, all
<1>2. ListOf(all).items = all /\ IsList(ListOf(all))
  BY DEF ListOf, IsList
<1>. QED  BY <1>1, <1>2 DEF Entries, p

\* The required properties are of GOST.
LEMMA RequiredNames ==
  /\ IsSequence(RequiredGost)
  /\ "GOST:attack_surface" \in ToSet(RequiredGost) /\ ToSet(RequiredGost) \subseteq GostNames
<1>. DEFINE s == RequiredGost
<1>1. s = [i \in 1..2 |-> s[i]] /\ s[1] = "GOST:attack_surface" /\ s[2] = "GOST:security_function"
  BY DEF RequiredGost
<1>. HIDE DEF s
<1>2. IsSequence(s) /\ DOMAIN s = 1..2
  BY <1>1, FunctionSequence, Zenon
<1>3. \A x \in ToSet(s) : x = "GOST:attack_surface" \/ x = "GOST:security_function"
  <2>. TAKE x \in ToSet(s)
  <2>. PICK i \in 1..2 : s[i] = x
    BY <1>2, InSet
  <2>. QED  BY <1>1
<1>4. "GOST:attack_surface" \in ToSet(s)
  BY <1>1, <1>2, InSet
<1>. QED  BY <1>2, <1>3, <1>4 DEF s, GostNames

\* The names that are missing are required ones that no entry has.
NamesIn(props) == {p[1] : p \in ToSet(props.items)}

\* What is missing are the required names that the properties do not have.
LEMMA MissingNames ==
  ASSUME NEW props
  PROVE  /\ IsSequence(MissingGost(props))
         /\ ToSet(MissingGost(props)) = ToSet(RequiredGost) \ NamesIn(props)
         /\ MissingGost(props) = <<>> <=> ToSet(RequiredGost) \subseteq NamesIn(props)
<1>1. MissingGost(props) = Only(RequiredGost, GostNames \ NamesIn(props))
  BY DEF MissingGost, NamesIn
<1>. DEFINE N == NamesIn(props)
            m == Only(RequiredGost, GostNames \ N)
<1>2. IsSequence(m) /\ ToSet(m) = ToSet(RequiredGost) \cap (GostNames \ N)
  BY OnlySequence, RequiredNames
<1>3. ToSet(m) = ToSet(RequiredGost) \ N
  <2>. HIDE DEF m, N
  <2>. QED  BY <1>2, RequiredNames
<1>4. m = <<>> <=> ToSet(m) = {}
  <2>. HIDE DEF m
  <2>1. Len(m) \in Nat /\ DOMAIN m = 1..Len(m) /\ m = [i \in 1..Len(m) |-> m[i]]
    BY <1>2, SequenceForm
  <2>2. ToSet(m) = {} => Len(m) = 0
    <3>. SUFFICES ASSUME Len(m) # 0 PROVE m[1] \in ToSet(m)
      OBVIOUS
    <3>. 1 \in DOMAIN m
      BY <2>1
    <3>. QED  BY InSet
  <2>. QED  BY <2>1, <2>2, EmptySet
<1>. HIDE DEF m, N
<1>5. m = <<>> <=> ToSet(RequiredGost) \subseteq N
  BY <1>3, <1>4
<1>. QED  BY <1>1, <1>2, <1>3, <1>5, Zenon DEF m, N

\* An object without properties misses some.
LEMMA NoneMissing ==
  ASSUME NEW o, Obj(o), IsNone(Get(o, "properties"))
  PROVE  MissingGost(Get(o, "properties")) # <<>>
<1>. DEFINE v == Get(o, "properties")
<1>1. v.items = <<>>
  BY ObjValue
<1>. HIDE DEF v
<1>2. NamesIn(v) = {}
  BY <1>1, EmptySet DEF NamesIn
<1>3. MissingGost(v) # <<>>
  BY <1>2, MissingNames, RequiredNames
<1>. QED  BY <1>3 DEF v

MissingEntries(missing) == [i \in DOMAIN missing |-> <<missing[i], "no">>]

\* One entry per missing name.
LEMMA MissingEntriesForm ==
  ASSUME NEW m, IsSequence(m)
  PROVE  /\ IsSequence(MissingEntries(m)) /\ Len(MissingEntries(m)) = Len(m)
         /\ MissingEntries(m) = <<>> <=> m = <<>>
         /\ \A e \in ToSet(MissingEntries(m)) : e[1] \in ToSet(m)
         /\ \A x \in ToSet(m) : \E e \in ToSet(MissingEntries(m)) : e[1] = x
<1>. DEFINE s == MissingEntries(m)
            n == Len(m)
<1>1. n \in Nat /\ DOMAIN m = 1..n /\ m = [i \in 1..n |-> m[i]]
  BY SequenceForm
<1>2. s = [i \in 1..n |-> s[i]] /\ \A i \in 1..n : s[i][1] = m[i]
  BY <1>1 DEF MissingEntries
<1>. HIDE DEF s, n
<1>3. IsSequence(s) /\ Len(s) = n /\ DOMAIN s = 1..n
  BY <1>1, <1>2, FunctionSequence
<1>4. \A e \in ToSet(s) : e[1] \in ToSet(m)
  <2>. TAKE e \in ToSet(s)
  <2>. PICK i \in 1..n : s[i] = e
    BY <1>3, InSet
  <2>. QED  BY <1>1, <1>2, InSet
<1>5. \A x \in ToSet(m) : \E e \in ToSet(s) : e[1] = x
  <2>. TAKE x \in ToSet(m)
  <2>. PICK i \in 1..n : m[i] = x
    BY <1>1, InSet
  <2>. s[i] \in ToSet(s) /\ s[i][1] = x
    BY <1>2, <1>3, InSet, Zenon
  <2>. QED  OBVIOUS
<1>6. s = <<>> <=> m = <<>>
  <2>1. s = <<>> => n = 0
    BY <1>3
  <2>2. n = 0 => s = <<>> /\ m = <<>>
    BY <1>1, <1>2
  <2>3. m = <<>> => n = 0
    BY DEF n
  <2>. QED  BY <2>1, <2>2, <2>3
<1>. QED  BY <1>3, <1>4, <1>5, <1>6 DEF s, n

\* Filling in what is missing keeps every property.
LEMMA FillGostPropertiesKeeps ==
  ASSUME NEW rules, NEW o, Obj(o)
  PROVE  LET r == FillGostProperties(o)
         IN Change(o, "properties", r) /\ Keeps(rules, o, r.obj)
<1>. DEFINE k == "properties"
            m == MissingGost(Get(o, k))
            s == MissingEntries(m)
            r == Extended(o, k, s)
<1>1. r = FillGostProperties(o)
  BY DEF FillGostProperties, MissingEntries
<1>2. IsSequence(s) /\ (IsNone(Get(o, k)) => s # <<>>)
  BY MissingNames, MissingEntriesForm, NoneMissing
<1>3. Change(o, k, r) /\ (k \in Keys(o) => k \in Keys(r.obj))
      /\ (~(IsNone(Get(o, k)) \/ IsList(Get(o, k))) => r = Same(o))
  BY <1>2, ExtendedEffect
<1>4. CASE IsNone(Get(o, k)) \/ IsList(Get(o, k))
  <2>1. IsList(Get(r.obj, k)) /\ Entries(r.obj, k) = Entries(o, k) \cup ToSet(s)
    BY <1>2, <1>4, ExtendedEntries
  <2>. HIDE DEF r, s
  <2>2. GostKept(o, r.obj) /\ (ProvidedIn(o) => ProvidedIn(r.obj))
    BY <2>1 DEF GostKept, ProvidedIn
  <2>3. KeepsProps(o, r.obj)
    BY <1>3, <1>4, <2>1, <2>2 DEF KeepsProps, Odd
  <2>. QED  BY <1>1, <1>3, <2>3, PropsKeep
<1>5. CASE ~(IsNone(Get(o, k)) \/ IsList(Get(o, k)))
  BY <1>1, <1>3, <1>5, SameRule
<1>. QED  BY <1>4, <1>5

\* A set of places has a first one.
LEMMA FirstPlace ==
  ASSUME NEW n \in Nat, NEW S \in SUBSET (1..n), S # {}
  PROVE  \E i \in S : \A j \in S : i <= j
<1>. SUFFICES ASSUME \A i \in S : \E j \in S : ~(i <= j) PROVE FALSE
  OBVIOUS
<1>. DEFINE I == {i \in 1..n : i \notin S}
<1>1. ASSUME NEW i \in 1..n, \A j \in 1..i - 1 : j \in I PROVE i \in I
  <2>. SUFFICES ASSUME i \in S PROVE FALSE
    OBVIOUS
  <2>1. PICK j \in S : ~(i <= j)
    OBVIOUS
  <2>2. j \in 1..i - 1
    BY <2>1
  <2>. QED  BY <1>1, <2>2
<1>. HIDE DEF I
<1>2. 1..n \subseteq I
  BY <1>1, StrongInduction, Zenon
<1>. QED  BY <1>2, Zenon DEF I

Matches(p, o) == (\A k \in DOMAIN p : Unblank(p[k])) /\ FieldContains(o, p.field, p.pattern)
Matching(o, patterns) == Only(patterns, {p \in ToSet(patterns) : Matches(p, o)})
GivenIn(o) ==
  {i \in DOMAIN Get(o, "properties").items :
     IsList(Get(o, "properties")) /\ Get(o, "properties").items[i][1] = "GOST:provided_by"}
\* A provider is there: add_provided_by leaves the component as it is.
Filled(o) == \E i \in GivenIn(o) : Unblank(Get(o, "properties").items[i][2])
FirstGiven(o) == CHOOSE i \in GivenIn(o) : \A j \in GivenIn(o) : i <= j
ProvidedEntry(o, patterns) == <<"GOST:provided_by", Matching(o, patterns)[1].provided_by>>

\* The rule add_provided_by by its cases.
LEMMA AddProvidedByForm ==
  ASSUME NEW o, NEW patterns
  PROVE  AddProvidedBy(o, patterns) =
           IF Filled(o) \/ Matching(o, patterns) = <<>> THEN Same(o)
           ELSE IF GivenIn(o) = {} THEN Extended(o, "properties", <<ProvidedEntry(o, patterns)>>)
           ELSE SetProperty(o, FirstGiven(o), ProvidedEntry(o, patterns))
  BY DEF AddProvidedBy, Filled, Matching, Matches, GivenIn, FirstGiven, ProvidedEntry

\* What matches is one of the patterns.
LEMMA MatchingEntry ==
  ASSUME NEW o, NEW patterns, IsPatterns(patterns, {"field", "pattern", "provided_by"})
  PROVE  /\ Matching(o, patterns) = <<>> <=> \A p \in ToSet(patterns) : ~Matches(p, o)
         /\ Matching(o, patterns) # <<>> => Unblank(ProvidedEntry(o, patterns)[2])
<1>. DEFINE M == {p \in ToSet(patterns) : Matches(p, o)}
            m == Only(patterns, M)
<1>1. IsSequence(m) /\ ToSet(m) = M
  BY OnlySequence DEF IsPatterns
<1>2. Matching(o, patterns) = m
  BY DEF Matching
<1>. HIDE DEF m
<1>3. Len(m) \in Nat /\ DOMAIN m = 1..Len(m) /\ m = [i \in 1..Len(m) |-> m[i]]
  BY <1>1, SequenceForm
<1>4. m # <<>> => m[1] \in M
  <2>. SUFFICES ASSUME m # <<>> PROVE m[1] \in M
    OBVIOUS
  <2>1. 1 \in DOMAIN m
    BY <1>3
  <2>. QED  BY <1>1, <2>1, InSet
<1>5. m = <<>> => M = {}
  BY <1>1, EmptySet
<1>6. m # <<>> => Unblank(m[1].provided_by)
  <2>. SUFFICES ASSUME m # <<>> PROVE Unblank(m[1].provided_by)
    OBVIOUS
  <2>. DEFINE p == m[1]
  <2>1. p \in ToSet(patterns) /\ Matches(p, o)
    BY <1>4
  <2>2. DOMAIN p = {"field", "pattern", "provided_by"}
    BY <2>1 DEF IsPatterns
  <2>. HIDE DEF p
  <2>3. Unblank(p["provided_by"])
    BY <2>1, <2>2 DEF Matches
  <2>. QED  BY <2>3 DEF p
<1>. QED  BY <1>2, <1>4, <1>5, <1>6 DEF ProvidedEntry

\* A text that is not blank is a text that is not empty.
LEMMA UnblankText == \A t : Unblank(t) => NonEmptyString(V(t))
  BY DEF Unblank, NonEmptyString, V, IsText

\* The first of the entries that name a provider gets one.
LEMMA SetPropertyEffect ==
  ASSUME NEW o, Obj(o), NEW x, GivenIn(o) # {}
  PROVE  LET i == FirstGiven(o)
             e == <<"GOST:provided_by", x>>
             s == Get(o, "properties").items
             t == [s EXCEPT ![i] = e]
             r == SetProperty(o, i, e)
         IN /\ i \in GivenIn(o) /\ i \in DOMAIN s /\ s[i][1] = "GOST:provided_by" /\ IsList(Get(o, "properties"))
            /\ IsSequence(t) /\ DOMAIN t = DOMAIN s /\ \A j \in DOMAIN s : t[j] = IF j = i THEN e ELSE s[j]
            /\ Change(o, "properties", r) /\ Get(r.obj, "properties") = ListOf(t) /\ r.n = 1
            /\ "properties" \in Keys(r.obj)
<1>. DEFINE i == FirstGiven(o)
            e == <<"GOST:provided_by", x>>
            v == Get(o, "properties")
            s == v.items
            t == [s EXCEPT ![i] = e]
            r == SetProperty(o, i, e)
            p == Put(o, "properties", ListOf(t))
<1>1. IsSequence(s)
  BY ObjValue
<1>2. Len(s) \in Nat /\ DOMAIN s = 1..Len(s)
  BY <1>1, SequenceForm
<1>3. i \in GivenIn(o)
  <2>1. GivenIn(o) \in SUBSET (1..Len(s))
    BY <1>2 DEF GivenIn
  <2>2. \E j \in GivenIn(o) : \A l \in GivenIn(o) : j <= l
    BY <1>2, <2>1, FirstPlace, Zenon
  <2>. QED  BY <2>2 DEF FirstGiven
<1>4. i \in DOMAIN s /\ s[i][1] = "GOST:provided_by" /\ IsList(v)
  BY <1>3 DEF GivenIn
<1>. HIDE DEF i, e, s
<1>5. DOMAIN t = DOMAIN s /\ \A j \in DOMAIN s : t[j] = IF j = i THEN e ELSE s[j]
  OBVIOUS
<1>6. t = [j \in 1..Len(s) |-> t[j]]
  BY <1>2, Zenon
<1>. HIDE DEF t
<1>7. IsSequence(t)
  BY <1>2, <1>6, FunctionSequence
<1>8. IsValue(ListOf(t))
  BY <1>7, ListValue
<1>9. Obj(p) /\ AlikeBut(o, p, {"properties"}) /\ Get(p, "properties") = ListOf(t) /\ "properties" \in Keys(p)
  BY <1>8, PutAlters
<1>10. r = [obj |-> p, n |-> 1]
  BY DEF SetProperty, t, s
<1>. HIDE DEF p, r
<1>11. r.obj = p /\ r.n = 1
  BY <1>10
<1>12. Change(o, "properties", r)
  BY <1>9, <1>11 DEF Change
<1>. QED  BY <1>3, <1>4, <1>5, <1>7, <1>9, <1>11, <1>12 DEF i, e, s, t, r, p

\* A sequence of one entry.
LEMMA OneEntry == ASSUME NEW e PROVE IsSequence(<<e>>) /\ ToSet(<<e>>) = {e} /\ <<e>> # <<>> /\ Len(<<e>>) = 1
<1>. DEFINE s == <<e>>
<1>1. s = [i \in 1..1 |-> s[i]] /\ s[1] = e /\ Len(s) = 1 /\ s # <<>>
  OBVIOUS
<1>. HIDE DEF s
<1>2. IsSequence(s) /\ DOMAIN s = 1..1
  BY <1>1, FunctionSequence
<1>3. ToSet(s) = {e}
  BY <1>1, <1>2, InSet
<1>. QED  BY <1>1, <1>2, <1>3 DEF s

\* The component whose provider is added has one then.
LEMMA AddProvidedByEffect ==
  ASSUME NEW o, Obj(o), NEW patterns, IsPatterns(patterns, {"field", "pattern", "provided_by"})
  PROVE  LET r == AddProvidedBy(o, patterns)
         IN /\ Change(o, "properties", r) /\ KeepsProps(o, r.obj)
            /\ r = Same(o) \/ Filled(r.obj)
            /\ r = Same(o) <=> Filled(o) \/ Matching(o, patterns) = <<>> \/ Odd(Get(o, "properties"))
            /\ r.n # 0 <=> r # Same(o)
<1>. DEFINE k == "properties"
            v == Get(o, k)
            e == ProvidedEntry(o, patterns)
            r == AddProvidedBy(o, patterns)
            Quiet == Filled(o) \/ Matching(o, patterns) = <<>>
            p == r.obj
<1>0. r = IF Quiet THEN Same(o)
          ELSE IF GivenIn(o) = {} THEN Extended(o, k, <<e>>) ELSE SetProperty(o, FirstGiven(o), e)
  BY AddProvidedByForm
<1>1. Change(o, k, Same(o)) /\ Same(o).obj = o /\ Same(o).n = 0 /\ KeepsProps(o, o)
  BY SameChange, SameProps, AlikeSelf DEF AlikeBut
<1>2. e[1] = "GOST:provided_by" /\ (~Quiet => Unblank(e[2]) /\ NonEmptyString(V(e[2])))
  BY MatchingEntry, UnblankText DEF ProvidedEntry
<1>3. e = <<"GOST:provided_by", Matching(o, patterns)[1].provided_by>>
  BY DEF ProvidedEntry
<1>. HIDE DEF r, e, v
<1>4. CASE Quiet
  BY <1>0, <1>1, <1>4 DEF r
<1>5. CASE ~Quiet /\ GivenIn(o) = {} /\ ~Odd(v)
  <2>1. r = Extended(o, k, <<e>>) /\ IsSequence(<<e>>) /\ ToSet(<<e>>) = {e} /\ <<e>> # <<>> /\ Len(<<e>>) = 1
    BY <1>0, <1>5, OneEntry
  <2>2. IsNone(v) \/ IsList(v)
    BY <1>5 DEF Odd
  <2>3. /\ Change(o, k, r) /\ r.n = 1
    BY <2>1, <2>2, ExtendedEffect, Zenon DEF v
  <2>4. k \in Keys(p) /\ IsList(Get(p, k)) /\ Entries(p, k) = Entries(o, k) \cup {e}
    BY <2>1, <2>2, ExtendedEntries DEF v
  <2>5. KeepsProps(o, p)
    <3>1. GostKept(o, p) /\ (ProvidedIn(o) => ProvidedIn(p))
      BY <2>4 DEF GostKept, ProvidedIn
    <3>. QED  BY <1>5, <2>4, <3>1 DEF KeepsProps, Odd, v
  <2>6. Filled(p)
    <3>1. e \in ToSet(Get(p, k).items)
      BY <2>4 DEF Entries
    <3>2. PICK i \in DOMAIN Get(p, k).items : Get(p, k).items[i] = e
      BY <3>1, InSet
    <3>3. i \in GivenIn(p)
      BY <1>2, <2>4, <3>2 DEF GivenIn
    <3>. QED  BY <1>2, <1>5, <3>2, <3>3 DEF Filled
  <2>7. r # Same(o)
    BY <1>1, <2>3
  <2>. QED  BY <1>5, <2>3, <2>5, <2>6, <2>7 DEF v, r
<1>6. CASE ~Quiet /\ GivenIn(o) = {} /\ Odd(v)
  <2>1. r = Extended(o, k, <<e>>)
    BY <1>0, <1>6
  <2>2. r = Same(o)
    BY <1>6, <2>1 DEF Extended, Odd, v
  <2>. QED  BY <1>1, <1>6, <2>2 DEF v, r
<1>7. CASE ~Quiet /\ GivenIn(o) # {}
  <2>. DEFINE i == FirstGiven(o)
              s == Get(o, k).items
              t == [s EXCEPT ![i] = e]
  <2>1. r = SetProperty(o, i, e)
    BY <1>0, <1>7
  <2>2. /\ i \in DOMAIN s /\ s[i][1] = "GOST:provided_by" /\ IsList(Get(o, k))
        /\ IsSequence(t) /\ DOMAIN t = DOMAIN s /\ \A j \in DOMAIN s : t[j] = IF j = i THEN e ELSE s[j]
        /\ Change(o, k, r) /\ Get(p, k) = ListOf(t) /\ r.n = 1 /\ k \in Keys(p)
    BY <1>3, <1>7, <2>1, SetPropertyEffect
  <2>3. IsList(Get(p, k)) /\ Get(p, k).items = t
    BY <2>2 DEF ListOf, IsList
  <2>. HIDE DEF i, s, t
  <2>4. Entries(p, k) = ToSet(t) /\ Entries(o, k) = ToSet(s)
    BY <2>3 DEF Entries, s
  <2>5. t[i] = e /\ e \in ToSet(t)
    <3>. t[i] = e /\ i \in DOMAIN t
      BY <2>2
    <3>. QED  BY InSet
  <2>6. \A x \in ToSet(s) : \E y \in ToSet(t) : y[1] = x[1] /\ (y = x \/ y = e)
    <3>. TAKE x \in ToSet(s)
    <3>1. PICK j \in DOMAIN s : s[j] = x
      BY InSet
    <3>2. t[j] \in ToSet(t)
      BY <2>2, InSet
    <3>3. t[j] = IF j = i THEN e ELSE x
      BY <2>2, <3>1
    <3>. QED  BY <1>2, <2>2, <3>1, <3>2, <3>3
  <2>7. GostKept(o, p)
    BY <2>4, <2>6 DEF GostKept
  <2>8. ProvidedIn(p)
    BY <1>2, <1>7, <2>4, <2>5 DEF ProvidedIn
  <2>9. KeepsProps(o, p)
    BY <2>2, <2>3, <2>7, <2>8 DEF KeepsProps, Odd
  <2>10. Filled(p)
    <3>1. i \in GivenIn(p)
      BY <1>2, <2>2, <2>3, <2>5 DEF GivenIn
    <3>. QED  BY <1>2, <1>7, <2>3, <2>5, <3>1 DEF Filled
  <2>11. r # Same(o) /\ ~Odd(v)
    BY <1>1, <2>2 DEF Odd, v, s
  <2>. QED  BY <1>7, <2>2, <2>9, <2>10, <2>11 DEF v, r
<1>. QED  BY <1>4, <1>5, <1>6, <1>7 DEF r

\* Adding or setting who provides a component keeps the other properties.
LEMMA AddProvidedByKeeps ==
  ASSUME NEW rules, NEW o, Obj(o), NEW patterns, IsPatterns(patterns, {"field", "pattern", "provided_by"})
  PROVE  LET r == AddProvidedBy(o, patterns)
         IN Change(o, "properties", r) /\ Keeps(rules, o, r.obj)
<1>. DEFINE r == AddProvidedBy(o, patterns)
<1>1. Change(o, "properties", r) /\ KeepsProps(o, r.obj)
  BY AddProvidedByEffect
<1>. HIDE DEF r
<1>2. Keeps(rules, o, r.obj)
  BY <1>1, PropsKeep
<1>. QED  BY <1>1, <1>2 DEF r

\* A filter that finds nothing to remove.
LEMMA FilteredQuiet ==
  ASSUME NEW o, Obj(o), NEW k, NEW S, IsList(Get(o, k)) => Entries(o, k) \subseteq S
  PROVE  Filtered(o, k, S).n = 0
<1>. DEFINE r == Filtered(o, k, S)
            s == Get(o, k).items
<1>1. CASE IsList(Get(o, k))
  <2>1. r.n = Len(s) - Len(Only(s, S))
    BY <1>1, FilteredEffect, Zenon
  <2>2. IsSequence(s) /\ ToSet(s) \subseteq S
    BY <1>1, ObjValue DEF Entries
  <2>. HIDE DEF s, r
  <2>3. Only(s, S) = s /\ Len(s) \in Nat
    BY <2>2, OnlyAll, SequenceForm
  <2>4. r.n = 0
    BY <2>1, <2>3
  <2>. QED  BY <2>4 DEF r
<1>2. CASE ~IsList(Get(o, k))
  <2>1. r = Same(o)
    BY <1>2, FilteredEffect, Zenon
  <2>. QED  BY <2>1 DEF Same
<1>. QED  BY <1>1, <1>2

QuietNonProprietary(o) ==
  IsList(Get(o, "licenses")) => \A e \in Entries(o, "licenses") : IsProprietary(e)

\* Where a component is proprietary only that licence stays, and a second time nothing changes.
LEMMA FilterNonProprietaryEffect ==
  ASSUME NEW o, Obj(o)
  PROVE  LET r == FilterNonProprietary(o)
         IN /\ Change(o, "licenses", r)
            /\ HasProprietary(o) => HasProprietary(r.obj)
            /\ "licenses" \in Keys(r.obj) => "licenses" \in Keys(o)
            /\ QuietNonProprietary(o) => r = Same(o)
            /\ QuietNonProprietary(r.obj)
            /\ \/ SameAt(o, r.obj, "licenses") \/ Get(r.obj, "licenses") = Absent
               \/ IsList(Get(o, "licenses")) /\ IsList(Get(r.obj, "licenses"))
                  /\ Entries(r.obj, "licenses") \subseteq Entries(o, "licenses")
<1>. DEFINE k == "licenses"
            S == {e \in Entries(o, k) : IsProprietary(e)}
            f == Filtered(o, k, S)
            r == FilterNonProprietary(o)
            p == f.obj
            q == Del(o, k)
<1>1. /\ Change(o, k, f) /\ (k \in Keys(p) <=> k \in Keys(o)) /\ (~IsList(Get(o, k)) => f = Same(o))
  BY FilteredEffect, Zenon
<1>2. IsList(Get(o, k)) => IsList(Get(p, k)) /\ Entries(p, k) = Entries(o, k) \cap S
  BY KeptItems
<1>3. Obj(q) /\ AlikeBut(o, q, {k}) /\ k \notin Keys(q) /\ Get(q, k) = Absent
  BY DelAlters
<1>4. QuietNonProprietary(o) => f.n = 0
  <2>. QuietNonProprietary(o) => (IsList(Get(o, k)) => Entries(o, k) \subseteq S)
    BY DEF QuietNonProprietary
  <2>. QED  BY FilteredQuiet
<1>5. r = CASE f.n = 0 -> Same(o)
            [] f.n > 0 /\ Get(p, k).items # <<>> -> f
            [] f.n > 0 /\ Get(p, k).items = <<>> -> [f EXCEPT !.obj = q]
  BY DEF FilterNonProprietary
<1>6. ~IsList(Get(o, k)) => f.n = 0
  BY <1>1 DEF Same
<1>7. f = Same(o) \/ (DOMAIN f = {"obj", "n"} /\ f = [obj |-> p, n |-> f.n])
  BY Zenon DEF Filtered, Same
<1>. HIDE DEF f, q, r
<1>8. f.n \in Nat
  BY <1>1 DEF Change
<1>9. CASE f.n = 0
  <2>1. r = Same(o) /\ r.obj = o /\ Change(o, k, r)
    BY <1>5, <1>8, <1>9, SameChange
  <2>2. p = o
    BY <1>1, <1>9 DEF Change
  <2>3. QuietNonProprietary(o)
    BY <1>2, <2>2 DEF QuietNonProprietary
  <2>. QED  BY <2>1, <2>3 DEF r, SameAt
<1>10. CASE f.n # 0 /\ Get(p, k).items # <<>>
  <2>1. r = f /\ IsList(Get(o, k))
    BY <1>5, <1>6, <1>8, <1>10
  <2>2. QuietNonProprietary(p) /\ (HasProprietary(o) => HasProprietary(p))
    BY <1>2, <2>1 DEF QuietNonProprietary, HasProprietary
  <2>. QED  BY <1>1, <1>2, <1>4, <1>10, <2>1, <2>2 DEF r
<1>11. CASE f.n # 0 /\ Get(p, k).items = <<>>
  <2>1. r = [f EXCEPT !.obj = q] /\ IsList(Get(o, k))
    BY <1>5, <1>6, <1>8, <1>11
  <2>2. f # Same(o)
    BY <1>11 DEF Same
  <2>3. r.obj = q /\ r.n = f.n
    BY <1>7, <2>1, <2>2
  <2>4. Change(o, k, r)
    BY <1>3, <1>8, <1>11, <2>3 DEF Change
  <2>5. ~HasProprietary(o)
    BY <1>2, <1>11, <2>1, EmptySet DEF HasProprietary, Entries
  <2>6. QuietNonProprietary(q)
    BY <1>3, AbsentValue DEF QuietNonProprietary, IsList
  <2>. QED  BY <1>3, <1>4, <1>11, <2>3, <2>4, <2>5, <2>6 DEF r
<1>. QED  BY <1>8, <1>9, <1>10, <1>11

Matched(o, patterns) == \E p \in ToSet(patterns) : Matches(p, o)

\* The rule add_proprietary by its cases.
LEMMA AddProprietaryForm ==
  ASSUME NEW o, NEW patterns
  PROVE  AddProprietary(o, patterns) =
           IF ~Matched(o, patterns) \/ HasProprietary(o) THEN Same(o)
           ELSE Extended(o, "licenses", <<<<"license", "Proprietary">>>>)
<1>. DEFINE x == Extended(o, "licenses", <<<<"license", "Proprietary">>>>)
            M == \E p \in ToSet(patterns) : /\ \A k \in DOMAIN p : Unblank(p[k])
                                            /\ FieldContains(o, p.field, p.pattern)
<1>1. AddProprietary(o, patterns) = IF ~M \/ HasProprietary(o) THEN Same(o) ELSE x
  BY DEF AddProprietary
<1>2. M <=> Matched(o, patterns)
  BY Zenon DEF Matched, Matches
<1>. HIDE DEF M, x
<1>3. AddProprietary(o, patterns) = IF ~Matched(o, patterns) \/ HasProprietary(o) THEN Same(o) ELSE x
  BY <1>1, <1>2
<1>. QED  BY <1>3 DEF x

\* Where a pattern matches, a component becomes proprietary, unless its licences are no list.
LEMMA AddProprietaryEffect ==
  ASSUME NEW o, Obj(o), NEW patterns
  PROVE  LET r == AddProprietary(o, patterns)
         IN /\ Change(o, "licenses", r)
            /\ HasProprietary(o) => HasProprietary(r.obj)
            /\ "licenses" \in Keys(o) => "licenses" \in Keys(r.obj)
            /\ ~Matched(o, patterns) \/ HasProprietary(o) \/ Odd(Get(o, "licenses")) => r = Same(o)
            /\ \/ r = Same(o)
               \/ /\ Matched(o, patterns) /\ HasProprietary(r.obj) /\ IsList(Get(r.obj, "licenses"))
                  /\ Entries(r.obj, "licenses") = Entries(o, "licenses") \cup {<<"license", "Proprietary">>}
            /\ Matched(o, patterns) => HasProprietary(r.obj) \/ Odd(Get(o, "licenses"))
<1>. DEFINE k == "licenses"
            e == <<"license", "Proprietary">>
            x == Extended(o, k, <<e>>)
            r == AddProprietary(o, patterns)
            Idle == ~Matched(o, patterns) \/ HasProprietary(o)
<1>1. r = IF Idle THEN Same(o) ELSE x
  BY AddProprietaryForm
<1>2. IsSequence(<<e>>) /\ ToSet(<<e>>) = {e} /\ <<e>> # <<>>
  BY OneEntry
<1>3. IsProprietary(e)
  BY DEF IsProprietary
<1>4. Change(o, k, x) /\ (k \in Keys(o) => k \in Keys(x.obj))
  BY <1>2, ExtendedEffect
<1>5. ~Odd(Get(o, k)) => IsList(Get(x.obj, k)) /\ Entries(x.obj, k) = Entries(o, k) \cup {e}
  BY <1>2, ExtendedEntries DEF Odd
<1>6. Odd(Get(o, k)) => x = Same(o)
  BY DEF Extended, Odd
<1>. HIDE DEF x, e, r
<1>7. Change(o, k, Same(o)) /\ Same(o).obj = o
  BY SameChange
<1>8. CASE Idle \/ Odd(Get(o, k))
  <2>. r = Same(o)
    BY <1>1, <1>6, <1>8
  <2>. QED  BY <1>7, <1>8 DEF r
<1>9. CASE ~Idle /\ ~Odd(Get(o, k))
  <2>1. r = x
    BY <1>1, <1>9
  <2>2. HasProprietary(x.obj)
    BY <1>3, <1>5, <1>9 DEF HasProprietary
  <2>. QED  BY <1>4, <1>5, <1>9, <2>1, <2>2 DEF r, e
<1>. QED  BY <1>8, <1>9

\* A proprietary component loses its source references, and no other does.
LEMMA RemoveSourceReferencesEffect ==
  ASSUME NEW o, Obj(o)
  PROVE  LET r == RemoveProprietarySourceReferences(o)
         IN /\ Change(o, "externalReferences", r)
            /\ "externalReferences" \in Keys(r.obj) <=> "externalReferences" \in Keys(o)
            /\ HasProprietary(r.obj) <=> HasProprietary(o)
            /\ ~HasProprietary(o) => r = Same(o)
            /\ IsList(Get(o, "externalReferences")) <=> IsList(Get(r.obj, "externalReferences"))
            /\ ~IsList(Get(o, "externalReferences")) => r = Same(o)
            /\ Entries(r.obj, "externalReferences") \subseteq Entries(o, "externalReferences")
            /\ HasProprietary(o) /\ IsList(Get(o, "externalReferences")) => Sources(r.obj) = {}
            /\ HasProprietary(o) /\ Sources(o) = {} => r.n = 0
<1>. DEFINE k == "externalReferences"
            S == {e \in Entries(o, k) : ~IsSource(e)}
            f == Filtered(o, k, S)
            r == RemoveProprietarySourceReferences(o)
<1>1. Change(o, k, f) /\ (k \in Keys(f.obj) <=> k \in Keys(o)) /\ (~IsList(Get(o, k)) => f = Same(o))
  BY FilteredEffect, Zenon
<1>2. IsList(Get(o, k)) => IsList(Get(f.obj, k)) /\ Entries(f.obj, k) = Entries(o, k) \cap S
  BY KeptItems
<1>3. r = IF HasProprietary(o) THEN f ELSE Same(o)
  BY DEF RemoveProprietarySourceReferences
<1>4. Sources(o) = {} => f.n = 0
  <2>. Sources(o) = {} => Entries(o, k) \subseteq S
    BY DEF Sources
  <2>. QED  BY FilteredQuiet
<1>. HIDE DEF f, r
<1>5. Change(o, k, Same(o)) /\ Same(o).obj = o /\ Same(o).n = 0
  BY SameChange
<1>6. CASE ~HasProprietary(o)
  BY <1>3, <1>5, <1>6 DEF r
<1>7. CASE HasProprietary(o) /\ IsList(Get(o, k))
  <2>1. r = f
    BY <1>3, <1>7
  <2>2. Sources(f.obj) = {}
    BY <1>2, <1>7 DEF Sources
  <2>3. HasProprietary(f.obj) <=> HasProprietary(o)
    <3>. SameAt(o, f.obj, "licenses")
      BY <1>1 DEF Change, AlikeBut
    <3>. QED  BY DEF SameAt, HasProprietary, Entries
  <2>. QED  BY <1>1, <1>2, <1>4, <1>7, <2>1, <2>2, <2>3 DEF r
<1>8. CASE HasProprietary(o) /\ ~IsList(Get(o, k))
  <2>. r = Same(o)
    BY <1>1, <1>3, <1>8
  <2>. QED  BY <1>5, <1>8 DEF r
<1>. QED  BY <1>6, <1>7, <1>8

\* What the rule filter_non_proprietary keeps.
LEMMA FilterNonProprietaryKeeps ==
  ASSUME NEW rules, "filter_non_proprietary" \in rules, NEW o, Obj(o)
  PROVE  LET r == FilterNonProprietary(o)
         IN Change(o, "licenses", r) /\ Keeps(rules, o, r.obj)
<1>. DEFINE r == FilterNonProprietary(o)
<1>1. /\ Change(o, "licenses", r) /\ (HasProprietary(o) => HasProprietary(r.obj))
      /\ ("licenses" \in Keys(r.obj) => "licenses" \in Keys(o))
  BY FilterNonProprietaryEffect
<1>. HIDE DEF r
<1>2. KeepsLicences(rules, o, r.obj)
  BY <1>1 DEF KeepsLicences
<1>3. Keeps(rules, o, r.obj)
  BY <1>1, <1>2, LicencesKeep
<1>. QED  BY <1>1, <1>3 DEF r

\* What the rule add_proprietary keeps.
LEMMA AddProprietaryKeeps ==
  ASSUME NEW rules, "add_proprietary" \in rules, NEW o, Obj(o), NEW patterns
  PROVE  LET r == AddProprietary(o, patterns)
         IN Change(o, "licenses", r) /\ Keeps(rules, o, r.obj)
<1>. DEFINE r == AddProprietary(o, patterns)
<1>1. /\ Change(o, "licenses", r) /\ (HasProprietary(o) => HasProprietary(r.obj))
      /\ ("licenses" \in Keys(o) => "licenses" \in Keys(r.obj))
  BY AddProprietaryEffect
<1>. HIDE DEF r
<1>2. KeepsLicences(rules, o, r.obj)
  BY <1>1 DEF KeepsLicences
<1>3. Keeps(rules, o, r.obj)
  BY <1>1, <1>2, LicencesKeep
<1>. QED  BY <1>1, <1>3 DEF r

\* What the rule remove_proprietary_source_references keeps.
LEMMA RemoveSourceReferencesKeeps ==
  ASSUME NEW rules, "remove_proprietary_source_references" \in rules, NEW o, Obj(o)
  PROVE  LET r == RemoveProprietarySourceReferences(o)
         IN Change(o, "externalReferences", r) /\ Keeps(rules, o, r.obj)
<1>. DEFINE k == "externalReferences"
            r == RemoveProprietarySourceReferences(o)
<1>1. /\ Change(o, k, r) /\ (k \in Keys(r.obj) <=> k \in Keys(o))
      /\ (HasProprietary(r.obj) <=> HasProprietary(o)) /\ (~HasProprietary(o) => r = Same(o))
      /\ (IsList(Get(o, k)) <=> IsList(Get(r.obj, k))) /\ (~IsList(Get(o, k)) => r = Same(o))
  BY RemoveSourceReferencesEffect
<1>2. Same(o).obj = o
  BY DEF Same
<1>. HIDE DEF r
<1>3. CASE ~HasProprietary(o) \/ ~IsList(Get(o, k))
  <2>. r = Same(o)
    BY <1>1, <1>3
  <2>. QED  BY <1>1, SameRule DEF r
<1>4. CASE HasProprietary(o) /\ IsList(Get(o, k))
  <2>1. KeepsRefs(rules, o, r.obj)
    BY <1>1, <1>4 DEF KeepsRefs, Odd
  <2>. QED  BY <1>1, <2>1, RefsKeep DEF r
<1>. QED  BY <1>3, <1>4

\* A rule of a component, whichever it is.
LEMMA ComponentRuleKeeps ==
  ASSUME NEW opt, IsOptions(opt), NEW i \in 8..14, RuleAt(i) \in opt.rules, NEW o, Obj(o)
  PROVE  LET r == ComponentRule(RuleAt(i), o, opt)
         IN Keeps(opt.rules, o, r.obj) /\ r.n \in Nat /\ (r.n = 0 => r.obj = o)
<1>1. IsPatterns(opt.provided_by_patterns, {"field", "pattern", "provided_by"})
  BY DEF IsOptions
<1>2. CASE i = 8
  <2>1. ComponentRule(RuleAt(i), o, opt) = FilterExternalReferences(o)
    BY <1>2 DEF RuleAt, ComponentRule
  <2>. QED  BY <2>1, FilterExternalReferencesKeeps DEF Change
<1>3. CASE i = 9
  <2>1. ComponentRule(RuleAt(i), o, opt) = FilterProperties(o)
    BY <1>3 DEF RuleAt, ComponentRule
  <2>. QED  BY <2>1, FilterPropertiesKeeps DEF Change
<1>4. CASE i = 10
  <2>1. ComponentRule(RuleAt(i), o, opt) = FillGostProperties(o)
    BY <1>4 DEF RuleAt, ComponentRule
  <2>. QED  BY <2>1, FillGostPropertiesKeeps DEF Change
<1>5. CASE i = 11
  <2>1. ComponentRule(RuleAt(i), o, opt) = AddProvidedBy(o, opt.provided_by_patterns)
    BY <1>5 DEF RuleAt, ComponentRule
  <2>. QED  BY <1>1, <2>1, AddProvidedByKeeps, SMTT(30) DEF Change
<1>6. CASE i = 12
  <2>1. ComponentRule(RuleAt(i), o, opt) = FilterNonProprietary(o) /\ RuleAt(i) = "filter_non_proprietary"
    BY <1>6 DEF RuleAt, ComponentRule
  <2>. QED  BY <2>1, FilterNonProprietaryKeeps DEF Change
<1>7. CASE i = 13
  <2>1. ComponentRule(RuleAt(i), o, opt) = AddProprietary(o, opt.add_patterns) /\ RuleAt(i) = "add_proprietary"
    BY <1>7 DEF RuleAt, ComponentRule
  <2>. QED  BY <2>1, AddProprietaryKeeps DEF Change
<1>8. CASE i = 14
  <2>1. ComponentRule(RuleAt(i), o, opt) = RemoveProprietarySourceReferences(o)
        /\ RuleAt(i) = "remove_proprietary_source_references"
    BY <1>8 DEF RuleAt, ComponentRule
  <2>. QED  BY <2>1, RemoveSourceReferencesKeeps DEF Change
<1>. QED  BY <1>2, <1>3, <1>4, <1>5, <1>6, <1>7, <1>8

-----------------------------------------------------------------------------
(* What the rules keep of a document.                                      *)

\* Counts sum up to a count.
LEMMA TotalNat ==
  ASSUME NEW f, NEW S, IsFiniteSet(S), \A x \in S : f[x] \in Nat
  PROVE  Total(f, S) \in Nat
<1>. DEFINE N == {n \in Nat : \A T \in SUBSET S : Cardinality(T) = n => Total(f, T) \in Nat}
<1>1. 0 \in N
  <2>. SUFFICES ASSUME NEW T \in SUBSET S, Cardinality(T) = 0 PROVE Total(f, T) \in Nat
    OBVIOUS
  <2>1. T = {}
    <3>. IsFiniteSet(T)
      BY FS_Subset
    <3>. QED  BY FS_EmptySet
  <2>2. Total(f, T) = 0
    BY <2>1, TotalEmpty
  <2>. QED  BY <2>2
<1>2. ASSUME NEW n \in Nat, n \in N PROVE n + 1 \in N
  <2>. SUFFICES ASSUME NEW T \in SUBSET S, Cardinality(T) = n + 1 PROVE Total(f, T) \in Nat
    OBVIOUS
  <2>1. IsFiniteSet(T)
    BY FS_Subset
  <2>2. T # {}
    BY FS_EmptySet
  <2>. PICK x \in T : TRUE
    BY <2>2
  <2>3. Cardinality(T \ {x}) = n
    <3>. Cardinality(T \ {x}) = Cardinality(T) - 1
      BY <2>1, FS_RemoveElement, Zenon
    <3>. QED  OBVIOUS
  <2>4. Total(f, T \ {x}) \in Nat
    BY <1>2, <2>3
  <2>5. \A y \in T : f[y] \in Int
    OBVIOUS
  <2>6. Total(f, T) = f[x] + Total(f, T \ {x})
    BY <2>1, <2>5, TotalSplit
  <2>7. f[x] \in Nat
    OBVIOUS
  <2>. HIDE DEF N
  <2>. QED  BY <2>4, <2>6, <2>7
<1>. HIDE DEF N
<1>3. Nat \subseteq N
  BY <1>1, <1>2, Induction
<1>4. Cardinality(S) \in Nat
  BY FS_CardinalityType
<1>. QED  BY <1>3, <1>4 DEF N

\* A sum of natural numbers is none only if each of them is.
LEMMA TotalNone ==
  ASSUME NEW f, NEW S, IsFiniteSet(S), \A x \in S : f[x] \in Nat, Total(f, S) = 0, NEW x \in S
  PROVE  f[x] = 0
<1>1. \A y \in S : f[y] \in Int
  OBVIOUS
<1>2. Total(f, S) = f[x] + Total(f, S \ {x})
  BY <1>1, TotalSplit
<1>3. Total(f, S \ {x}) \in Nat
  <2>. IsFiniteSet(S \ {x})
    BY FS_Subset
  <2>. \A y \in S \ {x} : f[y] \in Nat
    OBVIOUS
  <2>. QED  BY TotalNat
<1>4. f[x] \in Nat
  OBVIOUS
<1>. QED  BY <1>2, <1>3, <1>4

\* e is d with the objects f of the components in S.
NewAt(d, S, f) ==
  [i \in DOMAIN d.comps |-> IF i \in S THEN [d.comps[i] EXCEPT !.obj = f[i]] ELSE d.comps[i]]

\* New objects in the components of a sound document, with the same children, leave a sound document.
LEMMA NewAtEffect ==
  ASSUME NEW d, Sound(d), NEW S, NEW f,
         \A i \in DOMAIN d.comps : i \in S =>
           Obj(f[i]) /\ Get(f[i], "components") = Get(d.comps[i].obj, "components"),
         NEW e, e = With(e, e.comps), SoundFrame(e), e.comps = NewAt(d, S, f)
  PROVE  /\ Sound(e) /\ NewObjects(d, e) /\ SameTree(d, e)
         /\ \A i \in DOMAIN d.comps : e.comps[i].obj = IF i \in S THEN f[i] ELSE d.comps[i].obj
<1>. DEFINE n == Len(d.comps)
            cs == e.comps
            o(i) == IF i \in S THEN f[i] ELSE d.comps[i].obj
<1>0. SoundParts(d) /\ n \in Nat /\ DOMAIN d.comps = 1..n
  BY SoundHasParts, SequenceForm DEF SoundParts
<1>1. DOMAIN cs = 1..n /\ cs = [i \in 1..n |-> cs[i]]
      /\ \A i \in 1..n : cs[i] = IF i \in S THEN [d.comps[i] EXCEPT !.obj = f[i]] ELSE d.comps[i]
  BY <1>0 DEF NewAt
<1>. HIDE DEF cs
<1>2. IsSequence(cs) /\ Len(cs) = n
  BY <1>0, <1>1, FunctionSequence
<1>3. ASSUME NEW i \in 1..n
      PROVE  LET c == d.comps[i]
             IN cs[i] = [id |-> c.id, up |-> c.up, dict |-> c.dict, obj |-> o(i)]
  <2>. DEFINE c == d.comps[i]
  <2>1. c = [id |-> c.id, up |-> c.up, dict |-> c.dict, obj |-> c.obj]
    BY <1>0 DEF SoundParts, SoundComponent, IsComponent
  <2>2. cs[i] = IF i \in S THEN [c EXCEPT !.obj = f[i]] ELSE c
    BY <1>1, Zenon
  <2>. HIDE DEF c
  <2>3. CASE i \in S
    BY <2>1, <2>2, <2>3 DEF c
  <2>4. CASE i \notin S
    BY <2>1, <2>2, <2>4 DEF c
  <2>. QED  BY <2>3, <2>4
<1>4. \A i \in 1..n : cs[i].obj = o(i)
  <2>. TAKE i \in 1..n
  <2>1. cs[i] = [id |-> d.comps[i].id, up |-> d.comps[i].up, dict |-> d.comps[i].dict, obj |-> o(i)]
    BY <1>3
  <2>. HIDE DEF o
  <2>. QED  BY <2>1
<1>5. \A i \in 1..n : /\ IsObject(o(i)) /\ OneMemberPerKey(o(i))
                      /\ Get(o(i), "components") = Get(d.comps[i].obj, "components")
  BY <1>0, Zenon DEF Obj, SoundParts, SoundComponent, IsComponent
<1>6. NewObjects(d, e)
  <2>. SUFFICES ASSUME NEW i \in 1..n
                PROVE  /\ cs[i] = [id |-> d.comps[i].id, up |-> d.comps[i].up, dict |-> d.comps[i].dict,
                                   obj |-> cs[i].obj]
                       /\ IsObject(cs[i].obj) /\ OneMemberPerKey(cs[i].obj)
                       /\ Get(cs[i].obj, "components") = Get(d.comps[i].obj, "components")
    BY <1>0, <1>1, <1>2, Zenon DEF NewObjects, cs
  <2>. HIDE DEF o
  <2>1. cs[i] = [id |-> d.comps[i].id, up |-> d.comps[i].up, dict |-> d.comps[i].dict, obj |-> cs[i].obj]
    BY <1>3, <1>4
  <2>. QED  BY <1>4, <1>5, <2>1
<1>. HIDE DEF o
<1>7. SameTree(d, e) /\ SoundParts(e)
  BY <1>0, <1>6, NewObjectsSound
<1>8. Sound(e)
  BY <1>7, PartsAreSound
<1>. QED  BY <1>0, <1>4, <1>6, <1>7, <1>8 DEF o, cs

\* The objects at the root of e are those of d but for what the rules set in them.
KeepsFrame(opt, d, e) ==
  /\ AlikeBut(d.root, e.root, {"specVersion", "version"})
  /\ AlikeBut(d.meta, e.meta, {"timestamp"}) /\ AlikeBut(d.main, e.main, {"manufacturer"})
  /\ Keys(d.root) \subseteq Keys(e.root) /\ Keys(d.meta) \subseteq Keys(e.meta)
  /\ Keys(d.main) \subseteq Keys(e.main)
  /\ Get(e.root, "specVersion") \in {Get(d.root, "specVersion"), V(opt.spec_version)}
  /\ \/ Get(e.root, "version") = Get(d.root, "version")
     \/ Get(d.root, "version").kind = "int" /\ Get(e.root, "version").kind = "int"
  /\ Get(e.meta, "timestamp") \in {Get(d.meta, "timestamp"), V("now")}
  /\ HasManufacturer(d) => HasManufacturer(e)
  /\ HasManufacturer(e) \/ SameAt(d.main, e.main, "manufacturer")

\* c is the entry b of the component tree, after some rules.
KeepsEntry(opt, b, c) == c.id = b.id /\ c.up = b.up /\ c.dict = b.dict /\ Keeps(opt.rules, b.obj, c.obj)

\* The document e is d after some of the enabled rules.
Follows(opt, d, e) ==
  /\ Sound(e) /\ KeepsFrame(opt, d, e)
  /\ \A c \in ToSet(e.comps) : \E b \in ToSet(d.comps) : KeepsEntry(opt, b, c)

\* What two steps keep of a document, they keep together.
LEMMA FollowsThen ==
  ASSUME NEW opt, NEW d, NEW e, NEW g, Follows(opt, d, e), Follows(opt, e, g)
  PROVE  Follows(opt, d, g)
<1>1. Sound(g) /\ KeepsFrame(opt, d, e) /\ KeepsFrame(opt, e, g)
  BY DEF Follows
<1>2. KeepsFrame(opt, d, g)
  <2>1. AlikeBut(d.root, g.root, {"specVersion", "version"}) /\ AlikeBut(d.meta, g.meta, {"timestamp"})
        /\ AlikeBut(d.main, g.main, {"manufacturer"})
    BY <1>1, AlikeThen DEF KeepsFrame
  <2>2. HasManufacturer(g) \/ SameAt(d.main, g.main, "manufacturer")
    BY <1>1 DEF KeepsFrame, SameAt, HasManufacturer
  <2>. QED  BY <1>1, <2>1, <2>2 DEF KeepsFrame
<1>3. ASSUME NEW c \in ToSet(g.comps) PROVE \E a \in ToSet(d.comps) : KeepsEntry(opt, a, c)
  <2>1. PICK b \in ToSet(e.comps) : KeepsEntry(opt, b, c)
    BY DEF Follows
  <2>2. PICK a \in ToSet(d.comps) : KeepsEntry(opt, a, b)
    BY DEF Follows
  <2>3. Keeps(opt.rules, a.obj, c.obj)
    BY <2>1, <2>2, KeepsThen DEF KeepsEntry
  <2>4. KeepsEntry(opt, a, c)
    BY <2>1, <2>2, <2>3 DEF KeepsEntry
  <2>. QED  BY <2>4
<1>. QED  BY <1>1, <1>2, <1>3 DEF Follows

\* A frame keeps itself.
LEMMA FrameSelf == ASSUME NEW opt, NEW d PROVE KeepsFrame(opt, d, d)
  BY AlikeSelf DEF KeepsFrame, SameAt

\* The components of a sound document are objects.
LEMMA SoundObjects ==
  ASSUME NEW d, Sound(d)
  PROVE  /\ Obj(d.root) /\ Obj(d.meta) /\ Obj(d.main) /\ IsSequence(d.comps) /\ Tree(d, Len(d.comps))
         /\ \A c \in ToSet(d.comps) : Obj(c.obj)
         /\ \A i \in DOMAIN d.comps : d.comps[i] \in ToSet(d.comps) /\ Obj(d.comps[i].obj)
         /\ d = With(d, d.comps) /\ SoundFrame(d)
         /\ Len(d.comps) \in Nat /\ DOMAIN d.comps = 1..Len(d.comps)
<1>1. d = With(d, d.comps) /\ SoundParts(d)
  BY SoundHasParts
<1>2. \A i \in DOMAIN d.comps : Obj(d.comps[i].obj)
  BY <1>1, Zenon DEF SoundParts, SoundComponent, IsComponent, Obj
<1>. QED  BY <1>1, <1>2, InSet, SequenceForm DEF SoundParts, SoundFrame, Obj

\* A component keeps itself.
LEMMA EntriesSelf ==
  ASSUME NEW opt, NEW d, Sound(d), NEW c \in ToSet(d.comps)
  PROVE  KeepsEntry(opt, c, c)
<1>1. Obj(c.obj)
  BY SoundObjects
<1>. QED  BY <1>1, SameKeeps, AlikeSelf DEF KeepsEntry

\* A document follows itself.
LEMMA FollowsSelf ==
  ASSUME NEW opt, NEW d, Sound(d)
  PROVE  Follows(opt, d, d)
  BY FrameSelf, EntriesSelf DEF Follows

\* A rule that leaves the components alone.
LEMMA FrameFollows ==
  ASSUME NEW opt, NEW d, Sound(d), NEW e, e = With(e, e.comps), e.comps = d.comps,
         Obj(e.root), Obj(e.meta), Obj(e.main), KeepsFrame(opt, d, e)
  PROVE  Follows(opt, d, e)
<1>1. SoundParts(d)
  BY SoundHasParts
<1>2. SoundParts(e)
  BY <1>1 DEF SoundParts, SoundFrame, Obj, Tree, Opens
<1>3. Sound(e)
  BY <1>2, PartsAreSound
<1>. QED  BY <1>3, EntriesSelf DEF Follows

\* A rule that leaves the root alone and keeps what it must of each component.
LEMMA ObjectsFollow ==
  ASSUME NEW opt, NEW d, Sound(d), NEW e, Sound(e), SameTree(d, e), KeepsFrame(opt, d, e),
         \A i \in DOMAIN d.comps : e.comps[i].dict = d.comps[i].dict
                                   /\ Keeps(opt.rules, d.comps[i].obj, e.comps[i].obj)
  PROVE  Follows(opt, d, e)
<1>1. DOMAIN e.comps = DOMAIN d.comps
  BY DEF SameTree
<1>2. ASSUME NEW c \in ToSet(e.comps) PROVE \E b \in ToSet(d.comps) : KeepsEntry(opt, b, c)
  <2>1. PICK i \in DOMAIN d.comps : e.comps[i] = c
    BY <1>1, InSet
  <2>2. d.comps[i] \in ToSet(d.comps)
    BY InSet
  <2>3. KeepsEntry(opt, d.comps[i], c)
    BY <2>1 DEF KeepsEntry, SameTree
  <2>. QED  BY <2>2, <2>3
<1>. QED  BY <1>2 DEF Follows

-----------------------------------------------------------------------------
(* The rules of a document, one by one.                                    *)

\* r is the result of an enabled rule on d.
Applied(opt, d, r) == Follows(opt, d, r.doc) /\ r.n \in Nat /\ (r.n = 0 => r.doc = d)

\* A text is a value.
LEMMA TextIsValue == \A t : IsValue(V(t)) /\ V(t).kind = t /\ V(t).items = <<>>
  BY DEF IsValue, V, IsSequence, IsList, ToSet

\* A number is a value.
LEMMA IntIsValue == \A x : IsValue([kind |-> "int", items |-> <<x>>])
<1>. TAKE x
<1>1. IsSequence(<<x>>)
  BY OneEntry
<1>. QED  BY <1>1 DEF IsValue, IsList

\* An object is a value.
LEMMA ObjectIsValue == \A x : IsValue([kind |-> "dict", items |-> <<x>>])
<1>. TAKE x
<1>1. IsSequence(<<x>>)
  BY OneEntry
<1>. QED  BY <1>1 DEF IsValue, IsList

\* An object gets a member.
LEMMA MemberPut ==
  ASSUME NEW o, Obj(o), NEW k, NEW v, IsValue(v), NEW p, p = Put(o, k, v)
  PROVE  Obj(p) /\ AlikeBut(o, p, {k}) /\ k \in Keys(p) /\ Get(p, k) = v /\ Keys(o) \subseteq Keys(p)
<1>1. Obj(p) /\ AlikeBut(o, p, {k}) /\ k \in Keys(p) /\ Get(p, k) = v
  BY PutAlters
<1>2. ASSUME NEW j \in Keys(o) PROVE j \in Keys(p)
  BY <1>1 DEF AlikeBut, SameAt
<1>. QED  BY <1>1, <1>2

\* The rule set_spec_version: a sound step, and no step if it counts nothing.
LEMMA SetSpecVersionApplied ==
  ASSUME NEW opt, IsOptions(opt), NEW d, Sound(d)
  PROVE  Applied(opt, d, SetSpecVersion(d, opt.spec_version))
<1>. DEFINE t == opt.spec_version
            r == SetSpecVersion(d, t)
            e == r.doc
<1>0. d = With(d, d.comps) /\ Obj(d.root) /\ Obj(d.meta) /\ Obj(d.main)
  BY SoundObjects
<1>1. e = [root |-> Put(d.root, "specVersion", V(t)), meta |-> d.meta, main |-> d.main, comps |-> d.comps]
      /\ r.n = IF Get(d.root, "specVersion") = V(t) THEN 0 ELSE 1
  BY <1>0 DEF SetSpecVersion, With
<1>2. /\ e = With(e, e.comps) /\ e.comps = d.comps /\ e.meta = d.meta /\ e.main = d.main
      /\ e.root = Put(d.root, "specVersion", V(t))
  BY <1>1 DEF With
<1>3. NonEmptyString(V(t))
  BY DEF IsOptions
<1>. HIDE DEF e, r, t
<1>4. Obj(e.root) /\ AlikeBut(d.root, e.root, {"specVersion"}) /\ Get(e.root, "specVersion") = V(t)
      /\ Keys(d.root) \subseteq Keys(e.root)
  <2>1. IsValue(V(t))
    BY TextIsValue
  <2>. DEFINE v == V(t)
  <2>2. IsValue(v) /\ v.kind = t /\ e.root = Put(d.root, "specVersion", v)
    BY <1>2, <2>1, TextIsValue
  <2>. HIDE DEF v
  <2>3. Obj(e.root) /\ AlikeBut(d.root, e.root, {"specVersion"}) /\ Get(e.root, "specVersion") = v
        /\ Keys(d.root) \subseteq Keys(e.root)
    BY ONLY <1>0, <2>2, MemberPut, SMTT(30)
  <2>. QED  BY <2>3 DEF v
<1>5. AlikeBut(d.root, e.root, {"specVersion", "version"})
  BY <1>4, AlikeMore
<1>6. Get(e.root, "version") = Get(d.root, "version")
  BY <1>4 DEF AlikeBut, SameAt
<1>7. KeepsFrame(opt, d, e)
  BY <1>2, <1>4, <1>5, <1>6, AlikeSelf DEF KeepsFrame, t, HasManufacturer, SameAt
<1>8. Follows(opt, d, e)
  BY <1>0, <1>2, <1>4, <1>7, FrameFollows
<1>9. r.n = 0 => e = d
  <2>. SUFFICES ASSUME Get(d.root, "specVersion") = V(t) PROVE e = d
    BY <1>1
  <2>1. "specVersion" \in Keys(d.root)
    BY <1>3 DEF NonEmptyString, IsText, Get, Absent, V
  <2>2. e.root = d.root
    BY <1>0, <1>2, <2>1, PutSame
  <2>. QED  BY <1>0, <1>2, <2>2 DEF With
<1>. QED  BY <1>1, <1>8, <1>9 DEF Applied, e, r, t

\* The rule increment_version.
LEMMA IncrementVersionApplied ==
  ASSUME NEW opt, NEW d, Sound(d)
  PROVE  Applied(opt, d, IncrementVersion(d))
<1>. DEFINE r == IncrementVersion(d)
            e == r.doc
            v == Get(d.root, "version")
            w == [v EXCEPT !.items = <<@[1] + 1>>]
<1>0. d = With(d, d.comps) /\ Obj(d.root) /\ Obj(d.meta) /\ Obj(d.main)
  BY SoundObjects
<1>1. CASE v.kind # "int"
  <2>1. r.doc = d /\ r.n = 0
    BY <1>1 DEF IncrementVersion
  <2>. HIDE DEF r
  <2>. QED  BY <2>1, FollowsSelf DEF Applied, r
<1>2. CASE v.kind = "int"
  <2>1. v = [kind |-> "int", items |-> v.items]
    BY <1>0, <1>2, ObjValue DEF IsValue
  <2>2. w = [kind |-> "int", items |-> <<v.items[1] + 1>>]
    BY <2>1
  <2>3. IsValue(w) /\ w.kind = "int"
    BY <2>2, IntIsValue
  <2>4. e = [d EXCEPT !.root = Put(@, "version", w)] /\ r.n = 1
    BY <1>2 DEF IncrementVersion
  <2>. HIDE DEF w
  <2>5. e = [root |-> Put(d.root, "version", w), meta |-> d.meta, main |-> d.main, comps |-> d.comps]
    BY <1>0, <2>4 DEF With
  <2>6. /\ e = With(e, e.comps) /\ e.comps = d.comps /\ e.meta = d.meta /\ e.main = d.main
        /\ e.root = Put(d.root, "version", w)
    BY <2>5 DEF With
  <2>. HIDE DEF e, r
  <2>7. Obj(e.root) /\ AlikeBut(d.root, e.root, {"version"}) /\ Get(e.root, "version") = w
        /\ Keys(d.root) \subseteq Keys(e.root)
    BY ONLY <1>0, <2>3, <2>6, MemberPut
  <2>8. AlikeBut(d.root, e.root, {"specVersion", "version"})
    BY <2>7, AlikeMore
  <2>9. Get(e.root, "specVersion") = Get(d.root, "specVersion")
    BY <2>7 DEF AlikeBut, SameAt
  <2>10. KeepsFrame(opt, d, e)
    BY <1>2, <2>3, <2>6, <2>7, <2>8, <2>9, AlikeSelf DEF KeepsFrame, HasManufacturer, SameAt
  <2>11. Follows(opt, d, e)
    BY <1>0, <2>6, <2>7, <2>10, FrameFollows
  <2>. QED  BY <2>4, <2>11 DEF Applied, e, r
<1>. QED  BY <1>1, <1>2

\* The rule add_timestamp.
LEMMA AddTimestampApplied ==
  ASSUME NEW opt, NEW d, Sound(d)
  PROVE  Applied(opt, d, AddTimestamp(d))
<1>. DEFINE r == AddTimestamp(d)
            e == r.doc
            Due == HasMetadata(d) /\ Get(d.meta, "timestamp").kind \in {"absent", "null", "blank"}
<1>0. d = With(d, d.comps) /\ Obj(d.root) /\ Obj(d.meta) /\ Obj(d.main)
  BY SoundObjects
<1>1. CASE ~Due
  <2>1. r.doc = d /\ r.n = 0
    BY <1>1 DEF AddTimestamp
  <2>. HIDE DEF r
  <2>. QED  BY <2>1, FollowsSelf DEF Applied, r
<1>2. CASE Due
  <2>4. e = [d EXCEPT !.meta = Put(@, "timestamp", V("now"))] /\ r.n = 1
    BY <1>2 DEF AddTimestamp
  <2>5. e = [root |-> d.root, meta |-> Put(d.meta, "timestamp", V("now")), main |-> d.main, comps |-> d.comps]
    BY <1>0, <2>4 DEF With
  <2>6. /\ e = With(e, e.comps) /\ e.comps = d.comps /\ e.root = d.root /\ e.main = d.main
        /\ e.meta = Put(d.meta, "timestamp", V("now"))
    BY <2>5 DEF With
  <2>. HIDE DEF e, r
  <2>7. Obj(e.meta) /\ AlikeBut(d.meta, e.meta, {"timestamp"}) /\ Get(e.meta, "timestamp") = V("now")
        /\ Keys(d.meta) \subseteq Keys(e.meta)
    <3>1. IsValue(V("now"))
      BY TextIsValue
    <3>. DEFINE v == V("now")
    <3>2. IsValue(v) /\ v.kind = "now" /\ e.meta = Put(d.meta, "timestamp", v)
      BY <2>6, <3>1, TextIsValue
    <3>. HIDE DEF v
    <3>3. Obj(e.meta) /\ AlikeBut(d.meta, e.meta, {"timestamp"}) /\ Get(e.meta, "timestamp") = v
          /\ Keys(d.meta) \subseteq Keys(e.meta)
      BY ONLY <1>0, <3>2, MemberPut, SMTT(30)
    <3>. QED  BY <3>3 DEF v
  <2>10. KeepsFrame(opt, d, e)
    BY <2>6, <2>7, AlikeSelf DEF KeepsFrame, HasManufacturer, SameAt
  <2>11. Follows(opt, d, e)
    BY <1>0, <2>6, <2>7, <2>10, FrameFollows
  <2>. QED  BY <2>4, <2>11 DEF Applied, e, r
<1>. QED  BY <1>1, <1>2

\* The rule add_manufacturer: afterwards the main component has one.
LEMMA AddManufacturerApplied ==
  ASSUME NEW opt, NEW d, Sound(d)
  PROVE  Applied(opt, d, AddManufacturer(d)) /\ (HasMain(d) => HasManufacturer(AddManufacturer(d).doc))
<1>. DEFINE r == AddManufacturer(d)
            e == r.doc
            Due == HasMain(d) /\ ~HasManufacturer(d)
            v == [kind |-> "dict", items |-> <<<<"name", "given">>>>]
<1>0. d = With(d, d.comps) /\ Obj(d.root) /\ Obj(d.meta) /\ Obj(d.main)
  BY SoundObjects
<1>1. CASE ~Due
  <2>1. r.doc = d /\ r.n = 0
    BY <1>1 DEF AddManufacturer
  <2>. HIDE DEF r
  <2>. QED  BY <1>1, <2>1, FollowsSelf DEF Applied, r
<1>2. CASE Due
  <2>3. IsValue(v) /\ v.kind = "dict" /\ <<"name", "given">> \in ToSet(v.items) /\ Unblank("given")
    BY ObjectIsValue, OneEntry DEF Unblank, IsText, V
  <2>4. e = [d EXCEPT !.main = Put(@, "manufacturer", v)] /\ r.n = 1
    BY <1>2 DEF AddManufacturer
  <2>. HIDE DEF v
  <2>5. e = [root |-> d.root, meta |-> d.meta, main |-> Put(d.main, "manufacturer", v), comps |-> d.comps]
    BY <1>0, <2>4 DEF With
  <2>6. /\ e = With(e, e.comps) /\ e.comps = d.comps /\ e.root = d.root /\ e.meta = d.meta
        /\ e.main = Put(d.main, "manufacturer", v)
    BY <2>5 DEF With
  <2>. HIDE DEF e, r
  <2>7. Obj(e.main) /\ AlikeBut(d.main, e.main, {"manufacturer"}) /\ Get(e.main, "manufacturer") = v
        /\ Keys(d.main) \subseteq Keys(e.main)
    BY ONLY <1>0, <2>3, <2>6, MemberPut
  <2>8. HasManufacturer(e)
    <3>. DEFINE x == <<"name", "given">>
    <3>1. x[1] = "name" /\ x[2] = "given" /\ x \in ToSet(v.items)
      BY <2>3
    <3>. HIDE DEF x
    <3>. QED  BY <2>3, <2>7, <3>1 DEF HasManufacturer
  <2>10. KeepsFrame(opt, d, e)
    BY <2>6, <2>7, <2>8, AlikeSelf DEF KeepsFrame, SameAt
  <2>11. Follows(opt, d, e)
    BY <1>0, <2>6, <2>7, <2>10, FrameFollows
  <2>. QED  BY <2>4, <2>8, <2>11 DEF Applied, e, r
<1>. QED  BY <1>1, <1>2

\* A document without some of its leaves.
LEMMA LeavesGone ==
  ASSUME NEW d, Sound(d), NEW S, NEW e, e = With(d, Only(d.comps, S)),
         \A i, k \in DOMAIN d.comps : d.comps[i] \notin S => d.comps[k].up # d.comps[i].id
  PROVE  /\ Sound(e) /\ e.comps = Only(d.comps, S) /\ ToSet(e.comps) = ToSet(d.comps) \cap S
         /\ e.root = d.root /\ e.meta = d.meta /\ e.main = d.main
<1>. DEFINE s == d.comps
            o == e.comps
            n == Len(s)
<1>0. SoundParts(d) /\ IsSequence(s) /\ n \in Nat /\ DOMAIN s = 1..n /\ Tree(d, n)
  BY SoundHasParts, SequenceForm DEF SoundParts
<1>1. o = Only(s, S) /\ e.root = d.root /\ e.meta = d.meta /\ e.main = d.main /\ e = With(e, o)
  BY DEF With
<1>2. IsSequence(o) /\ ToSet(o) = ToSet(s) \cap S
  BY <1>0, <1>1, OnlySequence
<1>3. DOMAIN o = 1..Len(o) /\ Len(o) \in Nat
  BY <1>2, SequenceForm
<1>4. PICK g : Picks(g, s, o)
  BY <1>0, <1>1, OnlyPicks
<1>. HIDE DEF o, s
<1>5. \A k \in DOMAIN o : g[k] \in 1..n /\ o[k] = s[g[k]]
  BY <1>0, <1>4 DEF Picks
<1>6. \A j, k \in DOMAIN o : j < k => g[j] < g[k]
  BY <1>4 DEF Picks
<1>7. \A j, k \in DOMAIN o : g[j] = g[k] => j = k
  BY <1>3, <1>5, <1>6
<1>8. \A j, k \in DOMAIN o : o[j].id = o[k].id => j = k
  BY <1>0, <1>5, <1>7 DEF Tree, s
<1>9. ASSUME NEW k \in DOMAIN o, o[k].up # 0
      PROVE  \E h \in 1..k - 1 : o[h].id = o[k].up
  <2>1. PICK j \in 1..g[k] - 1 : s[j].id = s[g[k]].up
    BY <1>0, <1>5, <1>9 DEF Tree, s
  <2>2. j \in 1..n /\ g[k] \in 1..n /\ j < g[k]
    BY <1>0, <1>5
  <2>3. s[j] \in S
    BY <1>0, <2>1, <2>2, Zenon DEF s
  <2>4. s[j] \in ToSet(o)
    BY <1>0, <1>2, <2>2, <2>3, InSet
  <2>5. PICK h \in DOMAIN o : o[h] = s[j]
    BY <2>4, InSet
  <2>6. g[h] = j
    BY <1>0, <1>5, <2>2, <2>5 DEF Tree, s
  <2>7. h < k
    BY <1>3, <1>6, <2>2, <2>6, <1>5
  <2>8. h \in 1..k - 1
    BY <1>3, <2>7
  <2>. QED  BY <1>5, <2>1, <2>5, <2>8
<1>10. Tree(e, Len(o))
  <2>1. \A k \in DOMAIN o : o[k].id # 0
    BY <1>0, <1>5 DEF Tree, s
  <2>. QED  BY <1>3, <1>8, <1>9, <2>1 DEF Tree, o
<1>11. Opens(e)
  <2>. SUFFICES ASSUME NEW i \in DOMAIN o, o[i].up # 0, NEW j \in DOMAIN o, o[j].id = o[i].up
                PROVE  o[j].dict /\ IsList(Get(o[j].obj, "components"))
    BY DEF Opens, o
  <2>. QED  BY <1>0, <1>5 DEF SoundParts, Opens, s
<1>12. \A i \in DOMAIN o : SoundComponent(o[i])
  BY <1>0, <1>5 DEF SoundParts, s
<1>13. SoundParts(e)
  BY <1>0, <1>1, <1>2, <1>10, <1>11, <1>12 DEF SoundParts, SoundFrame, o
<1>14. Sound(e)
  BY <1>1, <1>13, PartsAreSound DEF o
<1>. QED  BY <1>1, <1>2, <1>14 DEF o, s

\* No rule nests anything in a leaf.
LEMMA LeavesStay ==
  ASSUME NEW opt, NEW b, Sound(b), NEW d, Follows(opt, b, d), NEW c, c.id \in LeafIds(b), NEW k \in DOMAIN d.comps
  PROVE  d.comps[k].up # c.id
<1>. SUFFICES ASSUME d.comps[k].up = c.id PROVE FALSE
  OBVIOUS
<1>1. d.comps[k] \in ToSet(d.comps)
  BY InSet
<1>2. PICK a \in ToSet(b.comps) : KeepsEntry(opt, a, d.comps[k])
  BY <1>1 DEF Follows
<1>3. PICK j \in DOMAIN b.comps : b.comps[j] = a
  BY InSet
<1>4. b.comps[j].up = c.id
  BY <1>2, <1>3 DEF KeepsEntry
<1>5. PICK i \in Dicts(b) : b.comps[i].id = c.id /\ IsLeaf(b, b.comps[i])
  BY DEF LeafIds
<1>. QED  BY <1>4, <1>5 DEF IsLeaf, Children

Spared(d, leaves, rule) == {c \in ToSet(d.comps) : ~(c.id \in leaves /\ Defective(rule, c.obj))}

Fewer(d, e) == Len(d.comps) - Len(e.comps)

\* A rule that removes leaves removes the defective ones and counts them.
LEMMA RemoveLeavesApplied ==
  ASSUME NEW opt, NEW b, Sound(b), NEW d, Follows(opt, b, d), NEW rule
  PROVE  LET r == RemoveLeaves(d, LeafIds(b), rule)
             e == r.doc
         IN /\ Applied(opt, d, r)
            /\ \A c : c \in ToSet(e.comps) <=> c \in Spared(d, LeafIds(b), rule)
            /\ r.n = Fewer(d, e)
            /\ e.root = d.root /\ e.meta = d.meta /\ e.main = d.main
<1>. DEFINE leaves == LeafIds(b)
            S == Spared(d, leaves, rule)
            r == RemoveLeaves(d, leaves, rule)
            e == r.doc
<1>0. Sound(d) /\ d = With(d, d.comps) /\ IsSequence(d.comps) /\ Len(d.comps) \in Nat
  BY SoundObjects DEF Follows
<1>1. e = [d EXCEPT !.comps = Only(d.comps, S)] /\ r.n = Len(d.comps) - Len(Only(d.comps, S))
  BY DEF RemoveLeaves, Spared
<1>2. e = With(d, Only(d.comps, S))
  BY <1>0, <1>1 DEF With
<1>. HIDE DEF r, e, leaves
<1>3. ASSUME NEW i \in DOMAIN d.comps, NEW k \in DOMAIN d.comps, d.comps[i] \notin S
      PROVE  d.comps[k].up # d.comps[i].id
  <2>1. d.comps[i].id \in leaves
    BY <1>3, InSet DEF Spared
  <2>. QED  BY <2>1, LeavesStay DEF leaves
<1>4. Sound(e) /\ e.comps = Only(d.comps, S) /\ ToSet(e.comps) = ToSet(d.comps) \cap S
      /\ e.root = d.root /\ e.meta = d.meta /\ e.main = d.main
  <2>1. \A i, k \in DOMAIN d.comps : d.comps[i] \notin S => d.comps[k].up # d.comps[i].id
    BY <1>3
  <2>. HIDE DEF S
  <2>2. Sound(d) /\ e = With(d, Only(d.comps, S))
    BY <1>0, <1>2
  <2>3. Sound(e)
    BY ONLY <2>1, <2>2, LeavesGone
  <2>4. e.comps = Only(d.comps, S) /\ e.root = d.root /\ e.meta = d.meta /\ e.main = d.main
    BY <1>2 DEF With
  <2>. QED  BY <1>0, <2>3, <2>4, OnlySequence
<1>5. ToSet(e.comps) = S
  BY <1>4 DEF Spared
<1>6. KeepsFrame(opt, d, e)
  BY <1>4, FrameSelf DEF KeepsFrame, HasManufacturer
<1>7. Follows(opt, d, e)
  BY <1>0, <1>4, <1>6, EntriesSelf DEF Follows
<1>. HIDE DEF S
<1>9. r.n = Len(d.comps) - Len(Only(d.comps, S))
  BY <1>1
<1>8. r.n \in Nat /\ (r.n = 0 => e = d)
  <2>1. Len(Only(d.comps, S)) \in Nat /\ Len(Only(d.comps, S)) <= Len(d.comps)
    BY <1>0, OnlyShorter, OnlySequence, SequenceForm
  <2>2. ASSUME r.n = 0 PROVE e = d
    <3>1. Only(d.comps, S) = d.comps
      <4>1. Len(Only(d.comps, S)) = Len(d.comps)
        <5>. DEFINE x == Len(d.comps)
                    y == Len(Only(d.comps, S))
        <5>1. x \in Nat /\ y \in Nat /\ x - y = 0
          BY <1>0, <1>9, <2>1, <2>2, Zenon
        <5>. HIDE DEF x, y
        <5>2. x = y
          BY <5>1
        <5>. QED  BY <5>2 DEF x, y
      <4>. QED  BY <1>0, <4>1, OnlyWhole
    <3>. QED  BY <1>0, <1>2, <3>1
  <2>. QED  BY <1>0, <1>1, <2>1, <2>2
<1>10. r.n = Fewer(d, e)
  BY <1>4, <1>9 DEF Fewer
<1>. QED  BY <1>4, <1>5, <1>7, <1>8, <1>10 DEF Applied, S, e, r, leaves

\* A component's rule, on each component that is an object.
Done1(d, rule, opt) == [i \in Dicts(d) |-> ComponentRule(rule, d.comps[i].obj, opt)]
Objs(f) == [i \in DOMAIN f |-> f[i].obj]
Counts(f) == [i \in DOMAIN f |-> f[i].n]

\* A document with the same objects is the same.
LEMMA SameObjects ==
  ASSUME NEW d, Sound(d), NEW e, e = With(e, e.comps), NewObjects(d, e),
         e.root = d.root, e.meta = d.meta, e.main = d.main,
         \A k \in DOMAIN d.comps : e.comps[k].obj = d.comps[k].obj
  PROVE  e = d
<1>1. \A k \in DOMAIN d.comps : d.comps[k] = [id |-> d.comps[k].id, up |-> d.comps[k].up,
                                              dict |-> d.comps[k].dict, obj |-> d.comps[k].obj]
  BY SoundHasParts, Zenon DEF SoundParts, SoundComponent, IsComponent
<1>2. \A k \in DOMAIN d.comps : e.comps[k] = [id |-> d.comps[k].id, up |-> d.comps[k].up,
                                              dict |-> d.comps[k].dict, obj |-> e.comps[k].obj]
  BY DEF NewObjects
<1>3. \A k \in DOMAIN d.comps : e.comps[k] = d.comps[k]
  BY <1>1, <1>2, Zenon
<1>4. IsSequence(e.comps) /\ DOMAIN e.comps = DOMAIN d.comps /\ IsSequence(d.comps) /\ d = With(d, d.comps)
  BY SoundObjects DEF NewObjects
<1>5. e.comps = d.comps
  <2>1. e.comps = [k \in 1..Len(e.comps) |-> e.comps[k]] /\ DOMAIN e.comps = 1..Len(e.comps)
    BY <1>4, SequenceForm, Zenon
  <2>2. d.comps = [k \in 1..Len(d.comps) |-> d.comps[k]] /\ DOMAIN d.comps = 1..Len(d.comps)
    BY <1>4, SequenceForm, Zenon
  <2>. QED  BY <1>3, <1>4, <2>1, <2>2, Zenon
<1>. QED  BY <1>4, <1>5 DEF With

\* A rule of components is applied to each of them.
LEMMA OnComponentsForm ==
  ASSUME NEW d, d = With(d, d.comps), NEW rule, NEW opt
  PROVE  LET r == OnComponents(d, rule, opt)
             f == Done1(d, rule, opt)
         IN r.doc = With(d, NewAt(d, Dicts(d), Objs(f))) /\ r.n = Total(Counts(f), Dicts(d))
<1>. DEFINE f == Done1(d, rule, opt)
            cs == [i \in DOMAIN d.comps |->
                     IF i \in Dicts(d) THEN [d.comps[i] EXCEPT !.obj = f[i].obj] ELSE d.comps[i]]
<1>1. /\ OnComponents(d, rule, opt).doc = [d EXCEPT !.comps = cs]
      /\ OnComponents(d, rule, opt).n = Total([i \in Dicts(d) |-> f[i].n], Dicts(d))
  BY DEF OnComponents, Done1
<1>2. DOMAIN f = Dicts(d)
  BY DEF Done1
<1>. HIDE DEF f
<1>3. Objs(f) = [i \in Dicts(d) |-> f[i].obj] /\ Counts(f) = [i \in Dicts(d) |-> f[i].n]
  BY <1>2 DEF Objs, Counts
<1>4. cs = NewAt(d, Dicts(d), Objs(f))
  BY <1>3 DEF NewAt
<1>. HIDE DEF cs
<1>5. [d EXCEPT !.comps = cs] = With(d, cs)
  BY DEF With
<1>. QED  BY <1>1, <1>3, <1>4, <1>5 DEF f

\* A rule of components changes their objects, and neither the tree nor the frame.
LEMMA OnComponentsApplied ==
  ASSUME NEW opt, IsOptions(opt), NEW d, Sound(d), NEW i \in 8..14, RuleAt(i) \in opt.rules
  PROVE  LET rule == RuleAt(i)
             r == OnComponents(d, rule, opt)
             e == r.doc
         IN /\ Applied(opt, d, r)
            /\ SameTree(d, e) /\ e.root = d.root /\ e.meta = d.meta /\ e.main = d.main
            /\ \A k \in DOMAIN d.comps :
                 /\ e.comps[k].dict = d.comps[k].dict
                 /\ e.comps[k].obj = IF d.comps[k].dict THEN ComponentRule(rule, d.comps[k].obj, opt).obj
                                     ELSE d.comps[k].obj
            /\ (\A k \in Dicts(d) : ComponentRule(rule, d.comps[k].obj, opt).n = 0) => r.n = 0
<1>. DEFINE rule == RuleAt(i)
            r == OnComponents(d, rule, opt)
            e == r.doc
            f == Done1(d, rule, opt)
            g == Objs(f)
            h == Counts(f)
            S == Dicts(d)
<1>0. d = With(d, d.comps) /\ SoundFrame(d) /\ Len(d.comps) \in Nat /\ DOMAIN d.comps = 1..Len(d.comps)
      /\ \A k \in DOMAIN d.comps : Obj(d.comps[k].obj)
  BY SoundObjects
<1>1. e = With(d, NewAt(d, S, g)) /\ r.n = Total(h, S)
  BY <1>0, OnComponentsForm
<1>2. S \subseteq DOMAIN d.comps /\ IsFiniteSet(S) /\ \A k \in DOMAIN d.comps : k \in S <=> d.comps[k].dict
  <2>1. S \subseteq DOMAIN d.comps /\ \A k \in DOMAIN d.comps : k \in S <=> d.comps[k].dict
    BY DEF Dicts
  <2>2. IsFiniteSet(1..Len(d.comps))
    BY <1>0, RangeIsFinite
  <2>. QED  BY <1>0, <2>1, <2>2, FS_Subset
<1>3. \A k \in S : g[k] = ComponentRule(rule, d.comps[k].obj, opt).obj
                   /\ h[k] = ComponentRule(rule, d.comps[k].obj, opt).n
  BY DEF Done1, Objs, Counts
<1>4. /\ e = With(e, e.comps) /\ e.comps = NewAt(d, S, g)
      /\ e.root = d.root /\ e.meta = d.meta /\ e.main = d.main
  BY <1>1 DEF With
<1>. HIDE DEF r, e, f, g, h, S, rule
<1>5. ASSUME NEW k \in S
      PROVE  Keeps(opt.rules, d.comps[k].obj, g[k]) /\ h[k] \in Nat /\ (h[k] = 0 => g[k] = d.comps[k].obj)
  <2>1. Obj(d.comps[k].obj)
    BY <1>0, <1>2
  <2>2. LET q == ComponentRule(rule, d.comps[k].obj, opt)
        IN Keeps(opt.rules, d.comps[k].obj, q.obj) /\ q.n \in Nat /\ (q.n = 0 => q.obj = d.comps[k].obj)
    BY <2>1, ComponentRuleKeeps DEF rule
  <2>. QED  BY <1>3, <2>2
<1>6. \A k \in DOMAIN d.comps : k \in S =>
        Obj(g[k]) /\ Get(g[k], "components") = Get(d.comps[k].obj, "components")
  BY <1>5 DEF Keeps, AlikeBut, SameAt, RuleKeys
<1>7. SoundFrame(e)
  BY <1>0, <1>4 DEF SoundFrame
<1>8. Sound(e) /\ NewObjects(d, e) /\ SameTree(d, e)
      /\ \A k \in DOMAIN d.comps : e.comps[k].obj = IF k \in S THEN g[k] ELSE d.comps[k].obj
  BY <1>4, <1>6, <1>7, NewAtEffect
<1>9. \A k \in DOMAIN d.comps : e.comps[k].dict = d.comps[k].dict
  BY <1>8, NewObjectsSame
<1>10. KeepsFrame(opt, d, e)
  BY <1>4, FrameSelf DEF KeepsFrame, HasManufacturer
<1>11. \A k \in DOMAIN d.comps : Keeps(opt.rules, d.comps[k].obj, e.comps[k].obj)
  <2>. TAKE k \in DOMAIN d.comps
  <2>1. CASE k \in S
    BY <1>5, <1>8, <2>1
  <2>2. CASE k \notin S
    <3>1. Obj(d.comps[k].obj) /\ e.comps[k].obj = d.comps[k].obj
      BY <1>0, <1>8, <2>2
    <3>. QED  BY <3>1, SameKeeps, AlikeSelf
  <2>. QED  BY <2>1, <2>2
<1>12. Follows(opt, d, e)
  BY <1>8, <1>9, <1>10, <1>11, ObjectsFollow
<1>13. r.n \in Nat
  BY <1>1, <1>2, <1>5, TotalNat
<1>14. ASSUME r.n = 0 PROVE e = d
  <2>1. \A k \in S : h[k] = 0
    BY <1>1, <1>2, <1>5, <1>14, TotalNone, Zenon
  <2>2. \A k \in DOMAIN d.comps : e.comps[k].obj = d.comps[k].obj
    BY <1>5, <1>8, <2>1
  <2>. QED  BY <1>4, <1>8, <2>2, SameObjects
<1>15. ASSUME \A k \in S : ComponentRule(rule, d.comps[k].obj, opt).n = 0 PROVE r.n = 0
  <2>1. \A k \in S : h[k] = 0
    BY <1>3, <1>15
  <2>. QED  BY <1>1, <1>2, <2>1, TotalZero
<1>16. \A k \in DOMAIN d.comps :
         e.comps[k].obj = IF d.comps[k].dict THEN ComponentRule(rule, d.comps[k].obj, opt).obj
                          ELSE d.comps[k].obj
  BY <1>2, <1>3, <1>8
<1>. QED  BY <1>4, <1>8, <1>9, <1>12, <1>13, <1>14, <1>15, <1>16 DEF Applied, r, e, rule, S

-----------------------------------------------------------------------------
(* The order of keys.                                                      *)

\* No key is twice in an order.
LEMMA PriorityKeys ==
  /\ IsSequence(RootPriority) /\ Once(RootPriority)
  /\ IsSequence(MetadataPriority) /\ Once(MetadataPriority)
  /\ IsSequence(MainPriority) /\ Once(MainPriority)
  /\ IsSequence(ComponentPriority) /\ Once(ComponentPriority)
<1>1. IsSequence(RootPriority) /\ Once(RootPriority)
  BY DEF RootPriority, IsSequence, ToSet, Once
<1>2. IsSequence(MetadataPriority) /\ Once(MetadataPriority)
  BY DEF MetadataPriority, IsSequence, ToSet, Once
<1>3. IsSequence(MainPriority) /\ Once(MainPriority)
  BY DEF MainPriority, IsSequence, ToSet, Once
<1>4. IsSequence(ComponentPriority) /\ Once(ComponentPriority)
  BY DEF ComponentPriority, IsSequence, ToSet, Once
<1>. QED  BY <1>1, <1>2, <1>3, <1>4

\* The members of o with the keys of first, in that order.
Members(o, first) == [i \in DOMAIN first |-> <<first[i], Get(o, first[i])>>]
\* The members whose keys have no priority.
OtherMembers(o, priority) == Only(o, {m \in ToSet(o) : m[1] \notin ToSet(priority)})

\* The members of an object for some keys.
LEMMA MembersForm ==
  ASSUME NEW o, NEW first, IsSequence(first), Once(first)
  PROVE  LET s == Members(o, first)
         IN /\ IsSequence(s) /\ Len(s) = Len(first) /\ DOMAIN s = DOMAIN first
            /\ OneMemberPerKey(s) /\ Keys(s) = ToSet(first)
            /\ \A i \in DOMAIN s : s[i] = <<first[i], Get(o, first[i])>> /\ s[i][1] = first[i]
<1>. DEFINE s == Members(o, first)
            n == Len(first)
<1>1. n \in Nat /\ DOMAIN first = 1..n
  BY SequenceForm
<1>2. s = [i \in 1..n |-> s[i]] /\ DOMAIN s = 1..n
      /\ \A i \in 1..n : s[i] = <<first[i], Get(o, first[i])>> /\ s[i][1] = first[i]
  BY <1>1 DEF Members
<1>. HIDE DEF s
<1>3. IsSequence(s) /\ Len(s) = n
  BY <1>1, <1>2, FunctionSequence
<1>4. OneMemberPerKey(s)
  BY <1>1, <1>2 DEF OneMemberPerKey, Once
<1>5. Keys(s) = ToSet(first)
  <2>1. ASSUME NEW k \in Keys(s) PROVE k \in ToSet(first)
    <3>1. PICK m \in ToSet(s) : m[1] = k
      BY DEF Keys
    <3>2. PICK i \in DOMAIN s : s[i] = m
      BY InSet
    <3>. QED  BY <1>1, <1>2, <3>1, <3>2, InSet
  <2>2. ASSUME NEW k \in ToSet(first) PROVE k \in Keys(s)
    <3>1. PICK i \in 1..n : first[i] = k
      BY <1>1, InSet
    <3>2. s[i] \in ToSet(s) /\ s[i][1] = k
      BY <1>2, <3>1, InSet
    <3>. QED  BY <3>2 DEF Keys
  <2>. QED  BY <2>1, <2>2
<1>. QED  BY <1>1, <1>2, <1>3, <1>4, <1>5 DEF s

\* Putting the keys in order moves the members, and does no more.
LEMMA InOrderMembers ==
  ASSUME NEW o, Obj(o), NEW priority, IsSequence(priority), Once(priority)
  PROVE  LET p == InOrder(o, priority)
         IN Obj(p) /\ AlikeBut(o, p, {}) /\ Keys(p) = Keys(o)
<1>. DEFINE first == Only(priority, Keys(o))
            s == Members(o, first)
            O == {m \in ToSet(o) : m[1] \notin ToSet(priority)}
            t == OtherMembers(o, priority)
            p == InOrder(o, priority)
            a == Len(s)
            b == Len(t)
<1>0. IsSequence(o) /\ OneMemberPerKey(o) /\ IsObject(o)
  BY ObjSequence
<1>1. IsSequence(first) /\ Once(first) /\ ToSet(first) = ToSet(priority) \cap Keys(o)
  BY OnlySequence, OnlyOnce
<1>2. p = s \o t
  BY DEF InOrder, Members, OtherMembers
<1>3. Obj(t) /\ ToSet(t) = ToSet(o) \cap O
  BY OnlyObject DEF OtherMembers
<1>4. ToSet(t) = O
  BY <1>3
<1>. HIDE DEF first, t, p
<1>5. IsSequence(s) /\ OneMemberPerKey(s) /\ Keys(s) = ToSet(first)
      /\ DOMAIN s = DOMAIN first
      /\ \A i \in DOMAIN s : s[i] = <<first[i], Get(o, first[i])>> /\ s[i][1] = first[i]
  BY <1>1, MembersForm
<1>. HIDE DEF s
<1>6. IsSequence(t) /\ OneMemberPerKey(t)
  BY <1>3, ObjSequence
<1>7. /\ IsSequence(p) /\ DOMAIN p = 1..a + b
      /\ \A i \in 1..a : p[i] = s[i]
      /\ \A i \in 1..a + b : i > a => p[i] = t[i - a] /\ i - a \in 1..b
  BY <1>2, <1>5, <1>6, ConcatAt
<1>8. ToSet(p) = ToSet(s) \cup ToSet(t)
  BY <1>2, <1>5, <1>6, ConcatSequence
<1>9. a \in Nat /\ b \in Nat /\ DOMAIN s = 1..a /\ DOMAIN t = 1..b
  BY <1>5, <1>6, SequenceForm
<1>10. \A i \in 1..a : s[i][1] \in ToSet(priority)
  BY <1>1, <1>5, <1>9, InSet, Zenon
<1>11. \A i \in 1..b : t[i][1] \notin ToSet(priority)
  BY <1>4, <1>9, InSet
<1>12. OneMemberPerKey(p)
  <2>. SUFFICES ASSUME NEW i \in 1..a + b, NEW j \in 1..a + b, p[i][1] = p[j][1] PROVE i = j
    BY <1>7 DEF OneMemberPerKey
  <2>1. CASE i <= a /\ j <= a
    <3>1. i \in 1..a /\ j \in 1..a
      BY <1>9, <2>1
    <3>. QED  BY <1>5, <1>7, <1>9, <3>1 DEF OneMemberPerKey
  <2>2. CASE i > a /\ j > a
    <3>1. i - a \in 1..b /\ j - a \in 1..b /\ p[i] = t[i - a] /\ p[j] = t[j - a]
      BY <1>7, <2>2
    <3>2. i - a = j - a
      BY <1>6, <1>9, <3>1, Zenon DEF OneMemberPerKey
    <3>. QED  BY <1>9, <3>2
  <2>3. CASE i <= a /\ j > a
    <3>1. i \in 1..a /\ j - a \in 1..b /\ p[i] = s[i] /\ p[j] = t[j - a]
      BY <1>7, <1>9, <2>3
    <3>. QED  BY <1>10, <1>11, <3>1
  <2>4. CASE i > a /\ j <= a
    <3>1. j \in 1..a /\ i - a \in 1..b /\ p[j] = s[j] /\ p[i] = t[i - a]
      BY <1>7, <1>9, <2>4
    <3>. QED  BY <1>10, <1>11, <3>1
  <2>. QED  BY <1>9, <2>1, <2>2, <2>3, <2>4
<1>13. ToSet(p) = ToSet(o)
  <2>1. ASSUME NEW m \in ToSet(s) PROVE m \in ToSet(o) /\ m[1] \in ToSet(priority)
    <3>1. PICK i \in DOMAIN s : s[i] = m
      BY InSet
    <3>2. m = <<first[i], Get(o, first[i])>> /\ m[1] = first[i] /\ first[i] \in ToSet(first)
      BY <1>5, <3>1, InSet, Zenon
    <3>3. PICK x \in ToSet(o) : x[1] = first[i]
      BY <1>1, <3>2 DEF Keys
    <3>4. Get(o, first[i]) = x[2]
      BY <1>0, <3>3, GetMember
    <3>5. x = <<x[1], x[2]>>
      BY <1>0 DEF IsObject
    <3>6. m = x
      BY <3>2, <3>3, <3>4, <3>5
    <3>. QED  BY <1>1, <3>2, <3>6
  <2>2. ASSUME NEW m \in ToSet(o), m[1] \in ToSet(priority) PROVE m \in ToSet(s)
    <3>1. m[1] \in ToSet(first)
      BY <1>1, <2>2 DEF Keys
    <3>2. PICK i \in DOMAIN s : first[i] = m[1]
      BY <1>5, <3>1, InSet
    <3>3. Get(o, m[1]) = m[2] /\ m = <<m[1], m[2]>>
      BY <1>0, GetMember DEF IsObject
    <3>4. s[i] = m
      BY <1>5, <3>2, <3>3
    <3>. QED  BY <3>4, InSet
  <2>. QED  BY <1>4, <1>8, <2>1, <2>2
<1>14. Obj(p)
  BY <1>0, <1>7, <1>12, <1>13 DEF Obj, IsObject
<1>15. \A k : SameAt(o, p, k)
  BY <1>0, <1>12, <1>13, MemberSame
<1>. QED  BY <1>13, <1>14, <1>15 DEF AlikeBut, Keys, p

\* The document with the members of each object in order.
LEMMA ReorderedForm ==
  ASSUME NEW d, Sound(d)
  PROVE  LET e == Reordered(d)
             f == [i \in DOMAIN d.comps |-> InOrder(d.comps[i].obj, ComponentPriority)]
         IN /\ e = With(e, e.comps) /\ e.comps = NewAt(d, DOMAIN d.comps, f)
            /\ e.root = InOrder(d.root, RootPriority) /\ e.meta = InOrder(d.meta, MetadataPriority)
            /\ e.main = InOrder(d.main, MainPriority)
<1>. DEFINE f == [i \in DOMAIN d.comps |-> InOrder(d.comps[i].obj, ComponentPriority)]
            cs == [i \in DOMAIN d.comps |-> [d.comps[i] EXCEPT !.obj = InOrder(@, ComponentPriority)]]
<1>1. cs = NewAt(d, DOMAIN d.comps, f)
  BY DEF NewAt
<1>2. Reordered(d) = [root |-> InOrder(d.root, RootPriority), meta |-> InOrder(d.meta, MetadataPriority),
                      main |-> InOrder(d.main, MainPriority), comps |-> cs]
  BY DEF Reordered
<1>. HIDE DEF cs, f
<1>. QED  BY <1>1, <1>2 DEF With, f

\* Reordering changes no member of any object.
LEMMA ReorderApplied ==
  ASSUME NEW opt, NEW d, Sound(d)
  PROVE  LET r == Reorder(d)
             e == r.doc
         IN /\ Applied(opt, d, r) /\ SameTree(d, e) /\ NewObjects(d, e) /\ e = Reordered(d) /\ (e = d => r.n = 0)
            /\ \A k \in DOMAIN d.comps : e.comps[k].dict = d.comps[k].dict
                                         /\ e.comps[k].obj = InOrder(d.comps[k].obj, ComponentPriority)
                                         /\ AlikeBut(d.comps[k].obj, e.comps[k].obj, {})
            /\ AlikeBut(d.root, e.root, {}) /\ AlikeBut(d.meta, e.meta, {}) /\ AlikeBut(d.main, e.main, {})
            /\ Keys(e.root) = Keys(d.root) /\ Keys(e.meta) = Keys(d.meta) /\ Keys(e.main) = Keys(d.main)
<1>. DEFINE e == Reordered(d)
            r == Reorder(d)
            f == [i \in DOMAIN d.comps |-> InOrder(d.comps[i].obj, ComponentPriority)]
            S == DOMAIN d.comps
            Moved(a, b) == IF a = b THEN 0 ELSE 1
            M == {i \in S : d.comps[i] # e.comps[i]}
<1>0. d = With(d, d.comps) /\ Obj(d.root) /\ Obj(d.meta) /\ Obj(d.main) /\ Len(d.comps) \in Nat /\ S = 1..Len(d.comps)
      /\ \A i \in S : Obj(d.comps[i].obj)
  BY SoundObjects
<1>1. /\ e = With(e, e.comps) /\ e.comps = NewAt(d, S, f)
      /\ e.root = InOrder(d.root, RootPriority) /\ e.meta = InOrder(d.meta, MetadataPriority)
      /\ e.main = InOrder(d.main, MainPriority)
  BY ReorderedForm
<1>2. r.doc = e /\ r.n = Moved(d.root, e.root) + Moved(d.meta, e.meta) + Moved(d.main, e.main) + Cardinality(M)
  BY DEF Reorder
<1>. HIDE DEF e, r
<1>3. /\ Obj(e.root) /\ AlikeBut(d.root, e.root, {}) /\ Keys(e.root) = Keys(d.root)
      /\ Obj(e.meta) /\ AlikeBut(d.meta, e.meta, {}) /\ Keys(e.meta) = Keys(d.meta)
      /\ Obj(e.main) /\ AlikeBut(d.main, e.main, {}) /\ Keys(e.main) = Keys(d.main)
  BY <1>0, <1>1, PriorityKeys, InOrderMembers
<1>4. \A i \in S : f[i] = InOrder(d.comps[i].obj, ComponentPriority) /\ Obj(f[i]) /\ AlikeBut(d.comps[i].obj, f[i], {})
  BY <1>0, PriorityKeys, InOrderMembers
<1>. HIDE DEF f
<1>5. \A i \in S : i \in S => Obj(f[i]) /\ Get(f[i], "components") = Get(d.comps[i].obj, "components")
  BY <1>4 DEF AlikeBut, SameAt
<1>6. SoundFrame(e)
  BY <1>3 DEF SoundFrame, Obj
<1>7. Sound(e) /\ NewObjects(d, e) /\ SameTree(d, e) /\ \A i \in S : e.comps[i].obj = f[i]
  BY <1>1, <1>5, <1>6, NewAtEffect
<1>8. \A k \in S : e.comps[k].dict = d.comps[k].dict
  BY <1>7, NewObjectsSame
<1>9. KeepsFrame(opt, d, e)
  <2>1. AlikeBut(d.root, e.root, {"specVersion", "version"}) /\ AlikeBut(d.meta, e.meta, {"timestamp"})
        /\ AlikeBut(d.main, e.main, {"manufacturer"})
    BY <1>3, AlikeMore
  <2>2. /\ \A k : SameAt(d.root, e.root, k)
        /\ \A k : SameAt(d.meta, e.meta, k)
        /\ \A k : SameAt(d.main, e.main, k)
    BY <1>3 DEF AlikeBut
  <2>3. /\ \A k : Get(e.root, k) = Get(d.root, k)
        /\ \A k : Get(e.meta, k) = Get(d.meta, k)
        /\ \A k : Get(e.main, k) = Get(d.main, k)
    BY <2>2 DEF SameAt
  <2>. QED  BY <1>3, <2>1, <2>2, <2>3 DEF KeepsFrame, HasManufacturer
<1>10. \A k \in S : Keeps(opt.rules, d.comps[k].obj, e.comps[k].obj)
  BY <1>4, <1>7, SameKeeps
<1>11. Follows(opt, d, e)
  BY <1>7, <1>8, <1>9, <1>10, ObjectsFollow
<1>12. IsFiniteSet(M) /\ Cardinality(M) \in Nat
  <2>1. IsFiniteSet(S)
    BY <1>0, RangeIsFinite
  <2>. QED  BY <2>1, FS_Subset, FS_CardinalityType
<1>. DEFINE c == Cardinality(M)
<1>13. r.n \in Nat /\ (r.n = 0 => c = 0 /\ e.root = d.root /\ e.meta = d.meta /\ e.main = d.main)
       /\ (c = 0 /\ e.root = d.root /\ e.meta = d.meta /\ e.main = d.main => r.n = 0)
  <2>1. c \in Nat
    BY <1>12
  <2>. HIDE DEF M, c
  <2>2. r.n = Moved(d.root, e.root) + Moved(d.meta, e.meta) + Moved(d.main, e.main) + c
    BY <1>2 DEF c
  <2>. QED  BY <2>1, <2>2
<1>14. ASSUME r.n = 0 PROVE e = d
  <2>1. M = {}
    BY <1>12, <1>13, <1>14, FS_EmptySet
  <2>2. \A i \in S : e.comps[i].obj = d.comps[i].obj
    BY <2>1
  <2>. QED  BY <1>1, <1>7, <1>13, <1>14, <2>2, SameObjects
<1>15. ASSUME e = d PROVE r.n = 0
  <2>1. M = {}
    BY <1>15
  <2>2. c = 0
    BY <2>1, FS_EmptySet
  <2>. QED  BY <1>13, <1>15, <2>2
<1>. QED  BY <1>2, <1>3, <1>4, <1>7, <1>8, <1>11, <1>13, <1>14, <1>15 DEF Applied, e, r

-----------------------------------------------------------------------------
(* All rules.                                                              *)

\* The rules that remove leaves.
LEMMA LeafRuleSet == ToSet(LeafRules) = {"remove_leaf_missing_purl", "remove_leaf_invalid_purl", "remove_leaf_missing_version"}
<1>. DEFINE s == LeafRules
<1>1. DOMAIN s = 1..3 /\ s[1] = "remove_leaf_missing_purl" /\ s[2] = "remove_leaf_invalid_purl"
      /\ s[3] = "remove_leaf_missing_version"
  BY DEF LeafRules
<1>. HIDE DEF s
<1>2. \A x : x \in ToSet(s) <=> x \in {s[1], s[2], s[3]}
  BY <1>1, InSet
<1>. QED  BY <1>1, <1>2 DEF s

\* The rules of components.
LEMMA ComponentRuleSet ==
  ToSet(ComponentRules) = {"filter_external_references", "filter_properties", "fill_missing_gost_properties",
    "add_provided_by", "filter_non_proprietary", "add_proprietary", "remove_proprietary_source_references"}
<1>. DEFINE s == ComponentRules
<1>1. DOMAIN s = 1..7 /\ s[1] = "filter_external_references" /\ s[2] = "filter_properties"
      /\ s[3] = "fill_missing_gost_properties" /\ s[4] = "add_provided_by" /\ s[5] = "filter_non_proprietary"
      /\ s[6] = "add_proprietary" /\ s[7] = "remove_proprietary_source_references"
  BY DEF ComponentRules
<1>. HIDE DEF s
<1>2. \A x : x \in ToSet(s) <=> x \in {s[1], s[2], s[3], s[4], s[5], s[6], s[7]}
  BY <1>1, InSet
<1>. QED  BY <1>1, <1>2 DEF s

\* What each of the fifteen rules does.
LEMMA PassForms ==
  ASSUME NEW d, NEW e, NEW opt
  PROVE  /\ Pass(d, e, opt, 1) = SetSpecVersion(d, opt.spec_version)
         /\ Pass(d, e, opt, 2) = IncrementVersion(d)
         /\ Pass(d, e, opt, 3) = AddTimestamp(d)
         /\ Pass(d, e, opt, 4) = AddManufacturer(d)
         /\ \A i \in 5..7 : Pass(d, e, opt, i) = RemoveLeaves(d, LeafIds(e), RuleAt(i))
         /\ \A i \in 8..14 : Pass(d, e, opt, i) = OnComponents(d, RuleAt(i), opt)
         /\ Pass(d, e, opt, 15) = Reorder(d)
<1>1. /\ RuleAt(1) = "set_spec_version" /\ RuleAt(2) = "increment_version" /\ RuleAt(3) = "add_timestamp"
      /\ RuleAt(4) = "add_manufacturer" /\ RuleAt(15) = "reorder"
  BY DEF RuleAt
<1>2. \A i \in 5..7 : RuleAt(i) \in ToSet(LeafRules)
  BY LeafRuleSet DEF RuleAt
<1>3. \A i \in 8..14 : RuleAt(i) \in ToSet(ComponentRules) /\ RuleAt(i) \notin ToSet(LeafRules)
  <2>1. \A i \in 8..14 : RuleAt(i) \in ToSet(ComponentRules)
    BY ComponentRuleSet DEF RuleAt
  <2>2. \A i \in 8..14 : RuleAt(i) \notin ToSet(LeafRules)
    BY LeafRuleSet DEF RuleAt
  <2>. QED  BY <2>1, <2>2
<1>. HIDE DEF RuleAt
<1>. DEFINE first == {"set_spec_version", "increment_version", "add_timestamp", "add_manufacturer"}
            l == ToSet(LeafRules)
            c == ToSet(ComponentRules)
<1>8. \A x \in l : x \notin first /\ x \notin c /\ x # "reorder"
  BY LeafRuleSet, ComponentRuleSet
<1>9. \A x \in c : x \notin first /\ x \notin l /\ x # "reorder"
  BY LeafRuleSet, ComponentRuleSet
<1>10. "reorder" \notin l /\ "reorder" \notin c /\ \A x \in first : x \notin l /\ x \notin c
  BY LeafRuleSet, ComponentRuleSet
<1>4. ASSUME NEW i \in 5..7 PROVE Pass(d, e, opt, i) = RemoveLeaves(d, LeafIds(e), RuleAt(i))
  BY <1>2, <1>8 DEF Pass, ApplyRule
<1>5. ASSUME NEW i \in 8..14 PROVE Pass(d, e, opt, i) = OnComponents(d, RuleAt(i), opt)
  BY <1>3, <1>9 DEF Pass, ApplyRule
<1>6. Pass(d, e, opt, 15) = Reorder(d)
  BY <1>1, <1>10 DEF Pass, ApplyRule
<1>7. /\ Pass(d, e, opt, 1) = SetSpecVersion(d, opt.spec_version) /\ Pass(d, e, opt, 2) = IncrementVersion(d)
      /\ Pass(d, e, opt, 3) = AddTimestamp(d) /\ Pass(d, e, opt, 4) = AddManufacturer(d)
  BY <1>1, <1>10 DEF Pass, ApplyRule
<1>. QED  BY <1>4, <1>5, <1>6, <1>7

\* Each rule is a sound step, and no step if it counts nothing.
LEMMA PassApplied ==
  ASSUME NEW opt, IsOptions(opt), NEW b, Sound(b), NEW d, Follows(opt, b, d), NEW i \in 1..15, RuleAt(i) \in opt.rules
  PROVE  Applied(opt, d, Pass(d, b, opt, i))
<1>0. Sound(d)
  BY DEF Follows
<1>1. CASE i \in 5..7
  <2>1. Pass(d, b, opt, i) = RemoveLeaves(d, LeafIds(b), RuleAt(i))
    BY <1>1, PassForms
  <2>2. Applied(opt, d, RemoveLeaves(d, LeafIds(b), RuleAt(i)))
    BY RemoveLeavesApplied
  <2>. QED  BY <2>1, <2>2
<1>2. CASE i \in 8..14
  BY <1>0, <1>2, PassForms, OnComponentsApplied
<1>3. CASE i = 1
  BY <1>0, <1>3, PassForms, SetSpecVersionApplied
<1>4. CASE i = 2
  BY <1>0, <1>4, PassForms, IncrementVersionApplied
<1>5. CASE i = 3
  BY <1>0, <1>5, PassForms, AddTimestampApplied
<1>6. CASE i = 4
  BY <1>0, <1>6, PassForms, AddManufacturerApplied
<1>7. CASE i = 15
  BY <1>0, <1>7, PassForms, ReorderApplied
<1>. QED  BY <1>1, <1>2, <1>3, <1>4, <1>5, <1>6, <1>7

\* Each document of a fix follows from those before it.
LEMMA StagesFollow ==
  ASSUME NEW opt, IsOptions(opt), NEW b, Sound(b), NEW D, NEW r, Passes(D, b, opt, r)
  PROVE  /\ \A i \in 0..15 : Follows(opt, b, D[i])
         /\ \A i \in 1..15 : Follows(opt, D[i - 1], D[i]) /\ Follows(opt, D[i], D[15])
         /\ \A i \in 1..15 : RuleAt(i) \in opt.rules => Applied(opt, D[i - 1], Pass(D[i - 1], b, opt, i))
<1>. DEFINE I == {i \in Nat : i <= 15 => Follows(opt, b, D[i])}
<1>0. D[0] = b /\ \A i \in 1..15 : Passed(b, D, opt, i)
  BY DEF Passes
<1>1. 0 \in I
  BY <1>0, FollowsSelf
<1>2. ASSUME NEW i \in 1..15, Follows(opt, b, D[i - 1])
      PROVE  /\ Follows(opt, D[i - 1], D[i]) /\ Follows(opt, b, D[i])
             /\ RuleAt(i) \in opt.rules => Applied(opt, D[i - 1], Pass(D[i - 1], b, opt, i))
  <2>1. CASE RuleAt(i) \in opt.rules
    <3>1. Applied(opt, D[i - 1], Pass(D[i - 1], b, opt, i))
      BY <1>2, <2>1, PassApplied
    <3>2. D[i] = Pass(D[i - 1], b, opt, i).doc
      BY <1>0, <2>1 DEF Passed
    <3>3. Follows(opt, D[i - 1], D[i])
      BY <3>1, <3>2 DEF Applied
    <3>. QED  BY <1>2, <3>1, <3>3, FollowsThen
  <2>2. CASE RuleAt(i) \notin opt.rules
    <3>1. D[i] = D[i - 1] /\ Sound(D[i - 1])
      BY <1>0, <1>2, <2>2 DEF Passed, Follows
    <3>. QED  BY <1>2, <2>2, <3>1, FollowsSelf
  <2>. QED  BY <2>1, <2>2
<1>3. \A n \in Nat : n \in I => n + 1 \in I
  <2>. SUFFICES ASSUME NEW n \in Nat, Follows(opt, b, D[n]), n + 1 <= 15 PROVE Follows(opt, b, D[n + 1])
    BY <1>0
  <2>1. n + 1 \in 1..15 /\ (n + 1) - 1 = n
    OBVIOUS
  <2>. QED  BY <1>2, <2>1
<1>. HIDE DEF I
<1>4. Nat \subseteq I
  BY <1>1, <1>3, Induction
<1>5. \A i \in 0..15 : Follows(opt, b, D[i])
  BY <1>4 DEF I
<1>. DEFINE J == {j \in Nat : j <= 15 => Follows(opt, D[15 - j], D[15])}
<1>6. 0 \in J
  <2>1. Sound(D[15]) /\ 15 - 0 = 15
    BY <1>5 DEF Follows
  <2>. QED  BY <2>1, FollowsSelf
<1>7. \A n \in Nat : n \in J => n + 1 \in J
  <2>. SUFFICES ASSUME NEW n \in Nat, Follows(opt, D[15 - n], D[15]), n + 1 <= 15
                PROVE  Follows(opt, D[15 - (n + 1)], D[15])
    OBVIOUS
  <2>1. 15 - n \in 1..15 /\ (15 - n) - 1 = 15 - (n + 1) /\ 15 - (n + 1) \in 0..15
    OBVIOUS
  <2>2. Follows(opt, D[15 - (n + 1)], D[15 - n])
    BY <1>2, <1>5, <2>1
  <2>. QED  BY <2>2, FollowsThen
<1>. HIDE DEF J
<1>8. Nat \subseteq J
  BY <1>6, <1>7, Induction
<1>9. ASSUME NEW i \in 0..15 PROVE Follows(opt, D[i], D[15])
  <2>1. 15 - i \in Nat /\ 15 - i <= 15 /\ 15 - (15 - i) = i
    OBVIOUS
  <2>2. Follows(opt, D[15 - (15 - i)], D[15])
    BY <1>8, <2>1, Zenon DEF J
  <2>. QED  BY <2>1, <2>2
<1>10. \A i \in 1..15 : i - 1 \in 0..15 /\ i \in 0..15
  OBVIOUS
<1>. QED  BY <1>2, <1>5, <1>9, <1>10

-----------------------------------------------------------------------------
(* Optional fields.                                                        *)

\* Removing fields removes the members named, and no other.
LEMMA WithoutEffect ==
  ASSUME NEW o, Obj(o), NEW context, NEW paths
  PROVE  LET p == Without(o, context, paths)
         IN /\ Obj(p)
            /\ \A k : IF <<context, k>> \in paths THEN k \notin Keys(p) /\ Get(p, k) = Absent ELSE SameAt(o, p, k)
<1>. DEFINE S == {m \in ToSet(o) : <<context, m[1]>> \notin paths}
            p == Without(o, context, paths)
<1>1. Obj(p) /\ ToSet(p) = ToSet(o) \cap S
  BY OnlyObject DEF Without
<1>2. OneMemberPerKey(o) /\ OneMemberPerKey(p)
  BY <1>1 DEF Obj
<1>. HIDE DEF p
<1>3. ASSUME NEW k, <<context, k>> \in paths PROVE k \notin Keys(p) /\ Get(p, k) = Absent
  <2>1. \A m \in ToSet(p) : m[1] # k
    BY <1>1, <1>3
  <2>. QED  BY <2>1, GetAbsent
<1>4. ASSUME NEW k, <<context, k>> \notin paths PROVE SameAt(o, p, k)
  <2>1. \A m : m[1] = k => (m \in ToSet(p) <=> m \in ToSet(o))
    BY <1>1, <1>4
  <2>. QED  BY <1>2, <2>1, MemberSame
<1>. QED  BY <1>1, <1>3, <1>4 DEF p

\* The object o after the removal of fields is p.
Pruned(o, p, context, paths) ==
  /\ Obj(p)
  /\ \A k : IF <<context, k>> \in paths THEN k \notin Keys(p) /\ Get(p, k) = Absent ELSE SameAt(o, p, k)

\* Removing fields prunes the objects of a document and leaves its tree.
LEMMA DropFieldsEffect ==
  ASSUME NEW d, Sound(d), NEW paths, <<"components[]", "components">> \notin paths
  PROVE  LET e == DropFields(d, paths)
         IN /\ Sound(e) /\ NewObjects(d, e) /\ SameTree(d, e)
            /\ Pruned(d.root, e.root, "root", paths)
            /\ IF HasMetadata(d) THEN Pruned(d.meta, e.meta, "metadata", paths) ELSE e.meta = d.meta
            /\ IF HasMain(d) THEN Pruned(d.main, e.main, "metadata.component", paths) ELSE e.main = d.main
            /\ \A i \in DOMAIN d.comps :
                 IF d.comps[i].dict THEN Pruned(d.comps[i].obj, e.comps[i].obj, "components[]", paths)
                 ELSE e.comps[i].obj = d.comps[i].obj
<1>. DEFINE e == DropFields(d, paths)
            S == Dicts(d)
            f == [i \in S |-> Without(d.comps[i].obj, "components[]", paths)]
            cs == [i \in DOMAIN d.comps |->
                     IF i \in S THEN [d.comps[i] EXCEPT !.obj = Without(@, "components[]", paths)] ELSE d.comps[i]]
            meta == IF HasMetadata(d) THEN Without(d.meta, "metadata", paths) ELSE d.meta
            main == IF HasMain(d) THEN Without(d.main, "metadata.component", paths) ELSE d.main
<1>0. d = With(d, d.comps) /\ Obj(d.root) /\ Obj(d.meta) /\ Obj(d.main)
      /\ \A i \in DOMAIN d.comps : Obj(d.comps[i].obj)
  BY SoundObjects
<1>1. cs = NewAt(d, S, f)
  BY DEF NewAt
<1>2. e = [root |-> Without(d.root, "root", paths), meta |-> meta, main |-> main, comps |-> cs]
  BY DEF DropFields
<1>3. /\ Pruned(d.root, Without(d.root, "root", paths), "root", paths)
      /\ Pruned(d.meta, Without(d.meta, "metadata", paths), "metadata", paths)
      /\ Pruned(d.main, Without(d.main, "metadata.component", paths), "metadata.component", paths)
  BY <1>0, WithoutEffect DEF Pruned
<1>4. \A i \in S : i \in DOMAIN d.comps /\ d.comps[i].dict /\ Pruned(d.comps[i].obj, f[i], "components[]", paths)
  BY <1>0, WithoutEffect DEF Pruned, Dicts
<1>. HIDE DEF cs, f, meta, main
<1>5. e = With(e, e.comps) /\ e.comps = NewAt(d, S, f) /\ e.root = Without(d.root, "root", paths)
      /\ e.meta = meta /\ e.main = main
  BY <1>1, <1>2 DEF With
<1>. HIDE DEF e
<1>6. Obj(e.root) /\ Obj(e.meta) /\ Obj(e.main)
  BY <1>0, <1>3, <1>5 DEF Pruned, meta, main
<1>7. SoundFrame(e)
  BY <1>6 DEF SoundFrame, Obj
<1>8. \A i \in DOMAIN d.comps : i \in S =>
        Obj(f[i]) /\ Get(f[i], "components") = Get(d.comps[i].obj, "components")
  BY <1>4 DEF Pruned, SameAt
<1>9. Sound(e) /\ NewObjects(d, e) /\ SameTree(d, e)
      /\ \A i \in DOMAIN d.comps : e.comps[i].obj = IF i \in S THEN f[i] ELSE d.comps[i].obj
  BY <1>5, <1>7, <1>8, NewAtEffect
<1>10. \A i \in DOMAIN d.comps : i \in S <=> d.comps[i].dict
  BY DEF Dicts
<1>11. \A i \in DOMAIN d.comps :
         IF d.comps[i].dict THEN Pruned(d.comps[i].obj, e.comps[i].obj, "components[]", paths)
         ELSE e.comps[i].obj = d.comps[i].obj
  BY <1>4, <1>9, <1>10
<1>12. IF HasMetadata(d) THEN Pruned(d.meta, e.meta, "metadata", paths) ELSE e.meta = d.meta
  BY <1>3, <1>5 DEF meta
<1>13. IF HasMain(d) THEN Pruned(d.main, e.main, "metadata.component", paths) ELSE e.main = d.main
  BY <1>3, <1>5 DEF main
<1>. QED  BY <1>3, <1>5, <1>9, <1>11, <1>12, <1>13 DEF e

\* The catalogue's fields stay.
LEMMA FstecPathSet ==
  \A p : p \in FstecPaths <=>
    \/ \E k \in {"bomFormat", "specVersion", "serialNumber", "version", "metadata", "components", "annotations"} :
         p = <<"root", k>>
    \/ \E k \in {"timestamp", "component"} : p = <<"metadata", k>>
    \/ \E k \in {"type", "name", "version", "manufacturer"} : p = <<"metadata.component", k>>
    \/ \E k \in {"type", "name", "version", "purl", "cpe", "externalReferences", "properties", "components"} :
         p = <<"components[]", k>>
  BY DEF FstecPaths

\* A fix removes the accepted fields first and then passes the rules.
LEMMA FixStages ==
  ASSUME NEW d, Sound(d), NEW opt, IsOptions(opt), NEW fields
  PROVE  LET F == Fix(d, opt, fields)
             a == AcceptedPaths(fields, opt.keep)
             b == DropFields(d, a)
         IN /\ Sound(b) /\ NewObjects(d, b) /\ SameTree(d, b)
            /\ \E D : Passes(D, b, opt, F.counts) /\ F.fixed = D[15]
            /\ Follows(opt, b, F.fixed) /\ Sound(F.fixed)
            /\ DOMAIN F.removed = a /\ \A p \in a : F.removed[p] = FieldCount(d, p)
            /\ F.options = opt /\ F.fields = fields /\ F.issues = Issues(F.fixed)
            /\ F.changed <=> \/ \E x \in opt.rules : F.counts[x] > 0
                             \/ \E p \in a : F.removed[p] > 0
<1>. DEFINE F == Fix(d, opt, fields)
            a == AcceptedPaths(fields, opt.keep)
            b == DropFields(d, a)
            R == ApplyRules(b, LeafIds(b), opt)
            pruned == RemoveOptionalFields(d, fields, opt.keep)
            counts == [p \in a |-> FieldCount(d, p)]
<1>1. <<"components[]", "components">> \notin a
  BY FstecPathSet DEF AcceptedPaths
<1>2. Sound(b) /\ NewObjects(d, b) /\ SameTree(d, b)
  <2>. HIDE DEF a
  <2>. QED  BY <1>1, DropFieldsEffect
<1>3. pruned.doc = b /\ pruned.counts = counts
  BY DEF RemoveOptionalFields
<1>. HIDE DEF a, b
<1>4. PICK D : Passes(D, b, opt, R.counts) /\ R.doc = D[15]
  BY RulesPass
<1>. HIDE DEF R, counts, pruned
<1>5. F = [fixed |-> R.doc, counts |-> R.counts, removed |-> counts,
           issues |-> Issues(R.doc), options |-> opt, fields |-> fields,
           changed |-> \/ \E r \in opt.rules : R.counts[r] > 0
                       \/ \E p \in DOMAIN counts : counts[p] > 0]
  BY <1>3 DEF Fix, R, pruned
<1>6. DOMAIN counts = a /\ \A p \in a : counts[p] = FieldCount(d, p)
  BY DEF counts
<1>7. Follows(opt, b, D[15])
  BY <1>2, <1>4, StagesFollow
<1>. HIDE DEF F
<1>8. F.fixed = R.doc /\ F.counts = R.counts /\ F.removed = counts /\ F.issues = Issues(R.doc)
      /\ F.options = opt /\ F.fields = fields
      /\ (F.changed <=> \/ \E r \in opt.rules : R.counts[r] > 0
                        \/ \E p \in DOMAIN counts : counts[p] > 0)
  BY <1>5
<1>9. Sound(D[15])
  BY <1>7 DEF Follows
<1>. QED  BY <1>2, <1>4, <1>6, <1>7, <1>8, <1>9 DEF F, a, b

-----------------------------------------------------------------------------
(* The leaves that are removed.                                            *)

\* A document has as many ids as components.
LEMMA IdCount ==
  ASSUME NEW d, Sound(d)
  PROVE  IsFiniteSet(Ids(d)) /\ Cardinality(Ids(d)) = Len(d.comps)
<1>. DEFINE n == Len(d.comps)
            f == [i \in 1..n |-> d.comps[i].id]
<1>1. n \in Nat /\ DOMAIN d.comps = 1..n /\ Tree(d, n)
  BY SoundObjects
<1>2. \A id : id \in Ids(d) <=> \E k \in 1..n : d.comps[k].id = id
  BY <1>1, IdsAre
<1>3. \A i, j \in 1..n : f[i] = f[j] => i = j
  BY <1>1, Zenon DEF Tree
<1>4. f \in [1..n -> Ids(d)]
  BY <1>2
<1>5. f \in Bijection(1..n, Ids(d))
  BY <1>2, <1>3, <1>4, Zenon DEF Bijection, Injection, Surjection, IsInjective
<1>6. ExistsBijection(1..n, Ids(d))
  BY <1>5 DEF ExistsBijection
<1>7. IsFiniteSet(1..n) /\ Cardinality(1..n) = n
  BY <1>1, RangeIsFinite
<1>. QED  BY <1>6, <1>7, FS_Bijection

\* A sum over one more.
LEMMA TotalMore ==
  ASSUME NEW f, NEW T, IsFiniteSet(T), NEW U, NEW R, NEW x, x \notin U, T = IF x \in R THEN U \cup {x} ELSE U,
         \A y \in T : f[y] \in Int
  PROVE  Total(f, T) = Total(f, U) + (IF x \in R THEN f[x] ELSE 0)
<1>1. IsFiniteSet(U)
  BY FS_Subset
<1>2. Total(f, U) \in Int
  BY <1>1, TotalType
<1>3. CASE x \in R
  <2>1. T \ {x} = U /\ x \in T
    BY <1>3
  <2>2. Total(f, T) = f[x] + Total(f, T \ {x})
    BY <2>1, TotalSplit
  <2>3. Total(f, T) = f[x] + Total(f, U)
    BY <2>1, <2>2, Zenon
  <2>4. f[x] \in Int
    BY <2>1
  <2>. QED  BY <1>2, <1>3, <2>3, <2>4
<1>4. CASE x \notin R
  <2>1. T = U
    BY <1>4
  <2>. QED  BY <1>2, <1>4, <2>1
<1>. QED  BY <1>3, <1>4

\* The first four rules leave the components.
LEMMA FrontSame ==
  ASSUME NEW d, Sound(d), NEW b, NEW opt, NEW i \in 1..4
  PROVE  Pass(d, b, opt, i).doc.comps = d.comps
<1>0. d = With(d, d.comps)
  BY SoundObjects
<1>1. SetSpecVersion(d, opt.spec_version).doc.comps = d.comps
  BY <1>0 DEF SetSpecVersion, With
<1>2. IncrementVersion(d).doc.comps = d.comps
  BY <1>0 DEF IncrementVersion, With
<1>3. AddTimestamp(d).doc.comps = d.comps
  BY <1>0 DEF AddTimestamp, With
<1>4. AddManufacturer(d).doc.comps = d.comps
  BY <1>0 DEF AddManufacturer, With
<1>5. i = 1 \/ i = 2 \/ i = 3 \/ i = 4
  OBVIOUS
<1>. QED  BY <1>1, <1>2, <1>3, <1>4, <1>5, PassForms

\* The last eight rules leave the tree.
LEMMA BackTree ==
  ASSUME NEW d, Sound(d), NEW b, NEW opt, IsOptions(opt), NEW i \in 8..15, RuleAt(i) \in opt.rules
  PROVE  SameTree(d, Pass(d, b, opt, i).doc)
<1>1. CASE i \in 8..14
  BY <1>1, PassForms, OnComponentsApplied
<1>2. CASE i = 15
  BY <1>2, PassForms, ReorderApplied
<1>. QED  BY <1>1, <1>2

\* Two steps that leave the tree leave it together.
LEMMA SameTreeThen ==
  ASSUME NEW d, NEW e, NEW g, SameTree(d, e), SameTree(e, g)
  PROVE  SameTree(d, g)
  BY DEF SameTree

\* The same tree has the same ids.
LEMMA SameTreeIds ==
  ASSUME NEW d, Sound(d), NEW e, SameTree(d, e)
  PROVE  Ids(e) = Ids(d) /\ Len(e.comps) = Len(d.comps)
<1>1. \A id : id \in Ids(e) <=> id \in Ids(d)
  BY IdsAre DEF SameTree
<1>2. IsSequence(e.comps) /\ DOMAIN e.comps = 1..Len(d.comps) /\ Len(d.comps) \in Nat
  BY SoundObjects DEF SameTree
<1>3. DOMAIN e.comps = 1..Len(e.comps) /\ Len(e.comps) \in Nat
  BY <1>2, SequenceForm
<1>4. Ids(e) = Ids(d)
  BY <1>1
<1>5. Len(e.comps) = Len(d.comps)
  BY <1>2, <1>3
<1>. QED  BY <1>4, <1>5

\* The rules before those of the leaves, and the rules after them, leave the tree alone.
LEMMA StageTrees ==
  ASSUME NEW opt, IsOptions(opt), NEW b, Sound(b), NEW D, NEW r, Passes(D, b, opt, r)
  PROVE  D[4].comps = b.comps /\ SameTree(D[7], D[15])
<1>0. D[0] = b /\ (\A i \in 1..15 : Passed(b, D, opt, i)) /\ \A i \in 0..15 : Sound(D[i])
  BY StagesFollow DEF Passes, Follows
<1>1. ASSUME NEW i \in 1..4 PROVE D[i].comps = D[i - 1].comps
  <2>1. i \in 1..15 /\ i - 1 \in 0..15
    OBVIOUS
  <2>2. Passed(b, D, opt, i) /\ Sound(D[i - 1])
    BY <1>0, <2>1
  <2>3. Pass(D[i - 1], b, opt, i).doc.comps = D[i - 1].comps
    BY <2>2, FrontSame
  <2>. QED  BY <2>2, <2>3 DEF Passed
<1>2. D[4].comps = b.comps
  <2>1. D[1].comps = D[0].comps
    BY <1>1, 1 \in 1..4, 1 - 1 = 0
  <2>2. D[2].comps = D[1].comps
    BY <1>1, 2 \in 1..4, 2 - 1 = 1
  <2>3. D[3].comps = D[2].comps
    BY <1>1, 3 \in 1..4, 3 - 1 = 2
  <2>4. D[4].comps = D[3].comps
    BY <1>1, 4 \in 1..4, 4 - 1 = 3
  <2>. QED  BY <1>0, <2>1, <2>2, <2>3, <2>4
<1>3. \A i \in 8..15 : SameTree(D[i - 1], D[i])
  <2>. TAKE i \in 8..15
  <2>1. Sound(D[i - 1]) /\ Passed(b, D, opt, i)
    BY <1>0
  <2>2. CASE RuleAt(i) \in opt.rules
    BY <2>1, <2>2, BackTree DEF Passed
  <2>3. CASE RuleAt(i) \notin opt.rules
    BY <2>1, <2>3, SoundObjects DEF Passed, SameTree
  <2>. QED  BY <2>2, <2>3
<1>. DEFINE I == {n \in Nat : n <= 8 => SameTree(D[7], D[7 + n])}
<1>4. 0 \in I
  <2>1. Sound(D[7]) /\ 7 + 0 = 7
    BY <1>0
  <2>. QED  BY <2>1, SoundObjects DEF SameTree
<1>5. \A n \in Nat : n \in I => n + 1 \in I
  <2>. SUFFICES ASSUME NEW n \in Nat, n + 1 <= 8, SameTree(D[7], D[7 + n])
                PROVE  SameTree(D[7], D[7 + (n + 1)])
    OBVIOUS
  <2>1. 7 + (n + 1) \in 8..15 /\ 7 + (n + 1) - 1 = 7 + n
    OBVIOUS
  <2>2. SameTree(D[7 + n], D[7 + (n + 1)])
    BY <1>3, <2>1
  <2>. QED  BY <2>2, SameTreeThen
<1>. HIDE DEF I
<1>6. 8 \in I
  BY <1>4, <1>5, Induction
<1>. QED  BY <1>2, <1>6 DEF I

\* The same tree has the same leaves.
LEMMA SameLeaves ==
  ASSUME NEW d, NEW e, SameTree(d, e), \A i \in DOMAIN d.comps : e.comps[i].dict = d.comps[i].dict
  PROVE  LeafIds(e) = LeafIds(d)
<1>1. DOMAIN e.comps = DOMAIN d.comps
      /\ \A i \in DOMAIN d.comps : e.comps[i].id = d.comps[i].id /\ e.comps[i].up = d.comps[i].up
  BY DEF SameTree
<1>2. \A i \in DOMAIN d.comps : IsLeaf(e, e.comps[i]) <=> IsLeaf(d, d.comps[i])
  BY <1>1 DEF IsLeaf, Children
<1>3. \A id : id \in LeafIds(e) <=> \E i \in DOMAIN e.comps : e.comps[i].dict /\ IsLeaf(e, e.comps[i]) /\ e.comps[i].id = id
  BY DEF LeafIds, Dicts
<1>4. \A id : id \in LeafIds(d) <=> \E i \in DOMAIN d.comps : d.comps[i].dict /\ IsLeaf(d, d.comps[i]) /\ d.comps[i].id = id
  BY DEF LeafIds, Dicts
<1>5. \A id : id \in LeafIds(e) <=> id \in LeafIds(d)
  BY <1>1, <1>2, <1>3, <1>4
<1>. QED  BY <1>5

\* What the rules of the leaves look at is in the catalogue: it is never removed as optional.
LEMMA SameDefects ==
  ASSUME NEW o, NEW p, NEW paths, Pruned(o, p, "components[]", paths),
         <<"components[]", "purl">> \notin paths, <<"components[]", "version">> \notin paths, NEW i \in 5..7
  PROVE  Defective(RuleAt(i), p) <=> Defective(RuleAt(i), o)
<1>1. Get(p, "purl") = Get(o, "purl") /\ Get(p, "version") = Get(o, "version")
  BY DEF Pruned, SameAt
<1>. QED  BY <1>1, Zenon DEF Defective

\* The component c is one the rule at place i removes.
Falls(opt, leaves, i, c) == RuleAt(i) \in opt.rules /\ c.id \in leaves /\ Defective(RuleAt(i), c.obj)
CountAt(opt, r, i) == IF RuleAt(i) \in opt.rules THEN r[RuleAt(i)] ELSE 0

\* Each of the three rules removes the leaves with its defect, of those the tree had in the beginning.
LEMMA LeafStage ==
  ASSUME NEW opt, IsOptions(opt), NEW b, Sound(b), NEW D, NEW r, Passes(D, b, opt, r), NEW i \in 5..7
  PROVE  /\ \A c : c \in ToSet(D[i].comps) <=> c \in ToSet(D[i - 1].comps) /\ ~Falls(opt, LeafIds(b), i, c)
         /\ CountAt(opt, r, i) = Len(D[i - 1].comps) - Len(D[i].comps)
<1>1. Follows(opt, b, D[i - 1]) /\ Passed(b, D, opt, i) /\ Counted(r, b, D, opt, i)
  <2>1. i \in 1..15 /\ i - 1 \in 0..15
    OBVIOUS
  <2>. QED  BY <2>1, StagesFollow DEF Passes
<1>2. Len(D[i - 1].comps) \in Nat
  BY <1>1, SoundObjects DEF Follows
<1>3. CASE RuleAt(i) \in opt.rules
  <2>. DEFINE q == RemoveLeaves(D[i - 1], LeafIds(b), RuleAt(i))
  <2>1. Pass(D[i - 1], b, opt, i) = q
    BY PassForms
  <2>2. (\A c : c \in ToSet(q.doc.comps) <=> c \in Spared(D[i - 1], LeafIds(b), RuleAt(i)))
        /\ q.n = Fewer(D[i - 1], q.doc)
    BY <1>1, RemoveLeavesApplied
  <2>3. D[i] = q.doc /\ r[RuleAt(i)] = q.n
    BY <1>1, <1>3, <2>1 DEF Passed, Counted
  <2>. HIDE DEF q
  <2>4. \A c : c \in ToSet(D[i].comps) <=> c \in Spared(D[i - 1], LeafIds(b), RuleAt(i))
    BY <2>2, <2>3
  <2>5. \A c : c \in ToSet(D[i].comps) <=> c \in ToSet(D[i - 1].comps) /\ ~Falls(opt, LeafIds(b), i, c)
    BY <1>3, <2>4 DEF Spared, Falls
  <2>. QED  BY <1>3, <2>2, <2>3, <2>5 DEF CountAt, Fewer
<1>4. CASE RuleAt(i) \notin opt.rules
  BY <1>1, <1>2, <1>4 DEF Passed, Falls, CountAt
<1>. QED  BY <1>3, <1>4, Zenon

\* The three counts together.
LEMMA LeafTotal ==
  ASSUME NEW opt, NEW r, \A i \in 5..7 : CountAt(opt, r, i) \in Int
  PROVE  Total(r, ToSet(LeafRules) \cap opt.rules) = CountAt(opt, r, 5) + CountAt(opt, r, 6) + CountAt(opt, r, 7)
<1>. DEFINE a == RuleAt(5)
            b == RuleAt(6)
            c == RuleAt(7)
            A == {a}
            B == A \cup {b}
            C == B \cup {c}
            R == opt.rules
<1>1. ToSet(LeafRules) = C
  BY LeafRuleSet DEF RuleAt
<1>2. a # b /\ a # c /\ b # c
  BY DEF RuleAt
<1>3. \A x \in C : x \in R => r[x] \in Int
  BY DEF CountAt
<1>4. CountAt(opt, r, 5) = (IF a \in R THEN r[a] ELSE 0) /\ CountAt(opt, r, 6) = (IF b \in R THEN r[b] ELSE 0)
      /\ CountAt(opt, r, 7) = (IF c \in R THEN r[c] ELSE 0)
  BY DEF CountAt
<1>. HIDE DEF a, b, c, R
<1>5. IsFiniteSet(A \cap R) /\ IsFiniteSet(B \cap R) /\ IsFiniteSet(C \cap R)
  <2>1. IsFiniteSet(A) /\ IsFiniteSet(B) /\ IsFiniteSet(C)
    BY FS_AddElement, FS_Singleton, Zenon
  <2>. QED  BY <2>1, FS_Subset
<1>6. Total(r, A \cap R) = (IF a \in R THEN r[a] ELSE 0)
  <2>. DEFINE T == A \cap R
  <2>1. T = (IF a \in R THEN {} \cup {a} ELSE {}) /\ (\A y \in T : r[y] \in Int) /\ a \notin {}
    BY <1>3
  <2>2. IsFiniteSet(T)
    BY <1>5
  <2>. HIDE DEF T
  <2>3. Total(r, T) = Total(r, {}) + (IF a \in R THEN r[a] ELSE 0)
    BY <2>1, <2>2, TotalMore, Zenon
  <2>. QED  BY <1>3, <2>3, TotalEmpty DEF T
<1>7. Total(r, B \cap R) = Total(r, A \cap R) + (IF b \in R THEN r[b] ELSE 0)
  <2>. DEFINE T == B \cap R
              U == A \cap R
  <2>1. T = (IF b \in R THEN U \cup {b} ELSE U) /\ (\A y \in T : r[y] \in Int) /\ b \notin U
    BY <1>2, <1>3
  <2>2. IsFiniteSet(T)
    BY <1>5
  <2>. HIDE DEF T, U
  <2>3. Total(r, T) = Total(r, U) + (IF b \in R THEN r[b] ELSE 0)
    BY <2>1, <2>2, TotalMore
  <2>. QED  BY <2>3 DEF T, U
<1>8. Total(r, C \cap R) = Total(r, B \cap R) + (IF c \in R THEN r[c] ELSE 0)
  <2>. DEFINE T == C \cap R
              U == B \cap R
  <2>1. T = (IF c \in R THEN U \cup {c} ELSE U) /\ (\A y \in T : r[y] \in Int) /\ c \notin U
    BY <1>2, <1>3
  <2>2. IsFiniteSet(T)
    BY <1>5
  <2>. HIDE DEF T, U
  <2>3. Total(r, T) = Total(r, U) + (IF c \in R THEN r[c] ELSE 0)
    BY <2>1, <2>2, TotalMore
  <2>. QED  BY <2>3 DEF T, U
<1>. HIDE DEF A, B, C
<1>13. Total(r, C \cap R) = CountAt(opt, r, 5) + CountAt(opt, r, 6) + CountAt(opt, r, 7)
  BY <1>4, <1>6, <1>7, <1>8
<1>. QED  BY <1>1, <1>13 DEF R

\* The leaves with a defect that is to be removed.
Doomed(d, rules) == {id \in LeafIds(d) : \E r \in rules : Defective(r, Component(d, id).obj)}

\* A fix removes the leaves of the document it was given that have a defect asked for, and counts each once.
LEMMA FixLeaves ==
  ASSUME NEW d, Sound(d), NEW opt, IsOptions(opt), NEW fields
  PROVE  LET F == Fix(d, opt, fields)
             rules == ToSet(LeafRules) \cap opt.rules
         IN /\ Ids(F.fixed) = Ids(d) \ Doomed(d, rules)
            /\ Total(F.counts, rules) = Len(d.comps) - Len(F.fixed.comps)
<1>. DEFINE F == Fix(d, opt, fields)
            rules == ToSet(LeafRules) \cap opt.rules
            a == AcceptedPaths(fields, opt.keep)
            b == DropFields(d, a)
            e == F.fixed
            r == F.counts
            leaves == LeafIds(d)
<1>1. Sound(b) /\ NewObjects(d, b) /\ SameTree(d, b) /\ Sound(e)
  BY FixStages
<1>2. PICK D : Passes(D, b, opt, r) /\ e = D[15]
  BY FixStages
<1>3. /\ <<"components[]", "components">> \notin a /\ <<"components[]", "purl">> \notin a
      /\ <<"components[]", "version">> \notin a
  BY FstecPathSet DEF AcceptedPaths
<1>4. \A i \in DOMAIN d.comps :
        IF d.comps[i].dict THEN Pruned(d.comps[i].obj, b.comps[i].obj, "components[]", a)
        ELSE b.comps[i].obj = d.comps[i].obj
  <2>. HIDE DEF a
  <2>. QED  BY <1>3, DropFieldsEffect
<1>. HIDE DEF F, a, b, leaves, r, e
<1>5. LeafIds(b) = leaves
  BY <1>1, NewObjectsSame, SameLeaves DEF leaves
<1>6. D[4].comps = b.comps /\ SameTree(D[7], e)
  BY <1>1, <1>2, StageTrees
<1>7. Ids(e) = Ids(D[7]) /\ Len(e.comps) = Len(D[7].comps)
  <2>1. Sound(D[7])
    BY <1>1, <1>2, StagesFollow DEF Follows
  <2>. QED  BY <1>6, <2>1, SameTreeIds
<1>8. \A i \in 5..7 :
        /\ \A c : c \in ToSet(D[i].comps) <=> c \in ToSet(D[i - 1].comps) /\ ~Falls(opt, leaves, i, c)
        /\ CountAt(opt, r, i) = Len(D[i - 1].comps) - Len(D[i].comps)
  BY <1>1, <1>2, <1>5, LeafStage, ZenonT(40)
<1>9. \A c : c \in ToSet(D[7].comps) <=>
        c \in ToSet(b.comps) /\ ~Falls(opt, leaves, 5, c) /\ ~Falls(opt, leaves, 6, c) /\ ~Falls(opt, leaves, 7, c)
  <2>1. 5 - 1 = 4 /\ 6 - 1 = 5 /\ 7 - 1 = 6
    OBVIOUS
  <2>2. \A c : c \in ToSet(D[5].comps) <=> c \in ToSet(D[4].comps) /\ ~Falls(opt, leaves, 5, c)
    BY <1>8, <2>1
  <2>3. \A c : c \in ToSet(D[6].comps) <=> c \in ToSet(D[5].comps) /\ ~Falls(opt, leaves, 6, c)
    BY <1>8, <2>1
  <2>4. \A c : c \in ToSet(D[7].comps) <=> c \in ToSet(D[6].comps) /\ ~Falls(opt, leaves, 7, c)
    BY <1>8, <2>1
  <2>. QED  BY <1>6, <2>2, <2>3, <2>4, Zenon
<1>10. \A x \in rules : \E i \in 5..7 : x = RuleAt(i)
  BY LeafRuleSet DEF RuleAt
<1>11. \A i \in 5..7 : RuleAt(i) \in opt.rules => RuleAt(i) \in rules
  BY LeafRuleSet DEF RuleAt
<1>12. ASSUME NEW c \in ToSet(b.comps)
       PROVE  (\E i \in 5..7 : Falls(opt, leaves, i, c)) <=> c.id \in Doomed(d, rules)
  <2>1. PICK k \in DOMAIN b.comps : b.comps[k] = c
    BY InSet
  <2>2. k \in DOMAIN d.comps /\ d.comps[k].id = c.id
    BY <1>1, <2>1 DEF SameTree
  <2>3. Component(d, c.id) = d.comps[k]
    BY <2>2, ComponentIs
  <2>4. ASSUME c.id \in leaves, NEW i \in 5..7
        PROVE  Defective(RuleAt(i), c.obj) <=> Defective(RuleAt(i), d.comps[k].obj)
    <3>1. CASE d.comps[k].dict
      BY <1>3, <1>4, <2>1, <2>2, <3>1, SameDefects
    <3>2. CASE ~d.comps[k].dict
      BY <1>4, <2>1, <2>2, <3>2
    <3>. QED  BY <3>1, <3>2
  <2>. HIDE DEF rules
  <2>. QED  BY <1>10, <1>11, <2>3, <2>4 DEF Falls, Doomed, leaves, rules
<1>13. \A id : id \in Ids(e) <=> id \in Ids(d) /\ id \notin Doomed(d, rules)
  <2>1. ASSUME NEW id \in Ids(e) PROVE id \in Ids(d) /\ id \notin Doomed(d, rules)
    <3>1. PICK c \in ToSet(D[7].comps) : c.id = id
      BY <1>7, Zenon DEF Ids
    <3>2. c \in ToSet(b.comps) /\ ~\E i \in 5..7 : Falls(opt, leaves, i, c)
      <4>1. \A i \in 5..7 : i = 5 \/ i = 6 \/ i = 7
        OBVIOUS
      <4>. QED  BY <1>9, <4>1
    <3>3. c.id \in Ids(b)
      BY <3>2 DEF Ids
    <3>. QED  BY <1>1, <1>12, <3>1, <3>2, <3>3, SameTreeIds, Zenon
  <2>2. ASSUME NEW id \in Ids(d), id \notin Doomed(d, rules) PROVE id \in Ids(e)
    <3>1. id \in Ids(b)
      BY <1>1, SameTreeIds
    <3>2. PICK c \in ToSet(b.comps) : c.id = id
      BY <3>1 DEF Ids
    <3>3. ~\E i \in 5..7 : Falls(opt, leaves, i, c)
      BY <1>12, <2>2, <3>2
    <3>4. c \in ToSet(D[7].comps)
      BY <1>9, <3>2, <3>3
    <3>. QED  BY <1>7, <3>2, <3>4, Zenon DEF Ids
  <2>. QED  BY <2>1, <2>2
<1>14. Total(r, rules) = Len(d.comps) - Len(e.comps)
  <2>1. \A i \in 4..7 : Len(D[i].comps) \in Nat
    BY <1>1, <1>2, StagesFollow, SoundObjects, SMTT(30) DEF Follows
  <2>2. Len(D[4].comps) = Len(d.comps)
    BY <1>1, <1>6, SameTreeIds
  <2>. DEFINE n(i) == Len(D[i].comps)
  <2>3. \A i \in 5..7 : CountAt(opt, r, i) = n(i - 1) - n(i)
    BY <1>8, Zenon
  <2>6. \A i \in 4..7 : n(i) \in Nat
    BY <2>1
  <2>. HIDE DEF n
  <2>4. \A i \in 5..7 : CountAt(opt, r, i) \in Int
    BY <2>3, <2>6
  <2>5. Total(r, rules) = CountAt(opt, r, 5) + CountAt(opt, r, 6) + CountAt(opt, r, 7)
    BY <2>4, LeafTotal
  <2>. HIDE DEF rules
  <2>7. Total(r, rules) = n(4) - n(7)
    BY <2>3, <2>5, <2>6
  <2>8. n(4) = Len(d.comps) /\ n(7) = Len(e.comps)
    BY <1>7, <2>2 DEF n
  <2>. QED  BY <2>7, <2>8, Zenon
<1>15. Ids(e) = Ids(d) \ Doomed(d, rules)
  <2>. HIDE DEF rules
  <2>. QED  BY <1>13
<1>. QED  BY <1>14, <1>15, Zenon DEF F, e, r

-----------------------------------------------------------------------------
(* Objects whose keys are in order.                                        *)

\* g is a rising map of one interval onto another.
Rises(g, n, m) ==
  /\ n \in Nat /\ m \in Nat /\ \A k \in 1..n : g[k] \in 1..m
  /\ \A j, k \in 1..n : j < k => g[j] < g[k]
  /\ \A i \in 1..m : \E k \in 1..n : g[k] = i

\* A rising map of an interval onto an interval is the identity.
LEMMA RisingOnto ==
  ASSUME NEW g, NEW n, NEW m, Rises(g, n, m)
  PROVE  n = m /\ \A k \in 1..n : g[k] = k
<1>. n \in Nat /\ m \in Nat
  BY DEF Rises
<1>. /\ \A k \in 1..n : g[k] \in 1..m
     /\ \A j, k \in 1..n : j < k => g[j] < g[k]
     /\ \A i \in 1..m : \E k \in 1..n : g[k] = i
  BY DEF Rises
<1>. DEFINE N == {k \in Nat : k <= n => (k <= m /\ \A j \in 1..k : g[j] = j)}
<1>1. 0 \in N
  OBVIOUS
<1>2. ASSUME NEW k \in Nat, k \in N PROVE k + 1 \in N
  <2>. SUFFICES ASSUME k + 1 <= n PROVE k + 1 <= m /\ \A j \in 1..k + 1 : g[j] = j
    OBVIOUS
  <2>1. k <= m /\ \A j \in 1..k : g[j] = j
    BY <1>2
  <2>2. k + 1 \in 1..n /\ g[k + 1] \in 1..m
    BY <1>2
  <2>3. g[k + 1] > k
    <3>1. CASE k = 0
      BY <2>2, <3>1
    <3>2. CASE k > 0
      <4>1. k \in 1..n /\ k < k + 1 /\ g[k] = k
        BY <1>2, <2>1, <3>2
      <4>. QED  BY <2>2, <4>1
    <3>. QED  BY <1>2, <3>1, <3>2
  <2>4. k + 1 \in 1..m
    BY <1>2, <2>2, <2>3
  <2>5. PICK j \in 1..n : g[j] = k + 1
    BY <2>4
  <2>6. ~(j \in 1..k)
    BY <1>2, <2>1, <2>5
  <2>7. ~(j > k + 1)
    <3>. SUFFICES ASSUME j > k + 1 PROVE FALSE
      OBVIOUS
    <3>1. g[k + 1] < g[j]
      BY <2>2, <2>5
    <3>. QED  BY <1>2, <2>2, <2>3, <2>5, <3>1
  <2>8. j = k + 1
    BY <1>2, <2>5, <2>6, <2>7
  <2>. QED  BY <1>2, <2>1, <2>4, <2>5, <2>8
<1>. HIDE DEF N
<1>3. Nat \subseteq N
  BY <1>1, <1>2, Induction
<1>4. n <= m /\ \A k \in 1..n : g[k] = k
  BY <1>3, SMTT(30) DEF N
<1>5. m <= n
  <2>1. CASE m = 0
    BY <2>1
  <2>2. CASE m > 0
    <3>1. PICK k \in 1..n : g[k] = m
      BY <2>2
    <3>. QED  BY <1>4, <3>1
  <2>. QED  BY <2>1, <2>2
<1>. QED  BY <1>4, <1>5

\* The keys with priority come first, in the order they have.
Precedes(priority, k, l) == \E a, b \in DOMAIN priority : a < b /\ priority[a] = k /\ priority[b] = l
InPlace(o, priority) ==
  \A i, j \in DOMAIN o : i < j /\ o[j][1] \in ToSet(priority) => Precedes(priority, o[i][1], o[j][1])

\* An object in order: first the keys with priority, then the others.
LEMMA InOrderForm ==
  ASSUME NEW o, Obj(o), NEW priority, IsSequence(priority), Once(priority)
  PROVE  LET first == Only(priority, Keys(o))
             t == OtherMembers(o, priority)
             p == InOrder(o, priority)
             a == Len(first)
             b == Len(t)
         IN /\ a \in Nat /\ b \in Nat /\ DOMAIN first = 1..a /\ DOMAIN t = 1..b /\ DOMAIN p = 1..a + b
            /\ \A i \in 1..a : p[i][1] = first[i] /\ p[i][1] \in ToSet(priority)
            /\ \A i \in 1..a + b : i > a => p[i] = t[i - a] /\ i - a \in 1..b /\ p[i][1] \notin ToSet(priority)
<1>. DEFINE first == Only(priority, Keys(o))
            s == Members(o, first)
            t == OtherMembers(o, priority)
            p == InOrder(o, priority)
            a == Len(first)
            b == Len(t)
<1>1. IsSequence(first) /\ Once(first) /\ ToSet(first) = ToSet(priority) \cap Keys(o)
  BY OnlySequence, OnlyOnce
<1>2. p = s \o t
  BY DEF InOrder, Members, OtherMembers
<1>3. IsSequence(t) /\ \A m \in ToSet(t) : m[1] \notin ToSet(priority)
  <2>1. IsSequence(o)
    BY ObjSequence
  <2>. QED  BY <2>1, OnlySequence DEF OtherMembers
<1>. HIDE DEF first, t, p
<1>4. /\ IsSequence(s) /\ Len(s) = a
      /\ \A i \in DOMAIN s : s[i] = <<first[i], Get(o, first[i])>> /\ s[i][1] = first[i]
  BY <1>1, MembersForm
<1>5. a \in Nat /\ DOMAIN first = 1..a /\ DOMAIN s = 1..a /\ b \in Nat /\ DOMAIN t = 1..b
  BY <1>1, <1>3, <1>4, SequenceForm
<1>. HIDE DEF s
<1>. DEFINE c == Len(s)
<1>6. /\ DOMAIN p = 1..a + b
      /\ \A i \in 1..a : p[i] = s[i]
      /\ \A i \in 1..a + b : i > a => p[i] = t[i - a] /\ i - a \in 1..b
  <2>1. /\ DOMAIN p = 1..c + b
        /\ \A i \in 1..c : p[i] = s[i]
        /\ \A i \in 1..c + b : i > c => p[i] = t[i - c] /\ i - c \in 1..b
    BY <1>2, <1>3, <1>4, ConcatAt, ZenonT(40)
  <2>2. c = a
    BY <1>4
  <2>. QED  BY <2>1, <2>2
<1>7. /\ \A i \in 1..b : t[i][1] \notin ToSet(priority)
      /\ \A i \in 1..a : first[i] \in ToSet(priority)
  BY <1>1, <1>3, <1>5, InSet
<1>8. \A i \in 1..a : p[i][1] = first[i] /\ p[i][1] \in ToSet(priority)
  BY <1>4, <1>5, <1>6, <1>7
<1>9. \A i \in 1..a + b : i > a => p[i] = t[i - a] /\ i - a \in 1..b /\ p[i][1] \notin ToSet(priority)
  BY <1>6, <1>7
<1>. QED  BY <1>5, <1>6, <1>8, <1>9 DEF first, t, p

\* What the rule of the order returns is in order.
LEMMA InOrderInPlace ==
  ASSUME NEW o, Obj(o), NEW priority, IsSequence(priority), Once(priority)
  PROVE  InPlace(InOrder(o, priority), priority)
<1>. DEFINE first == Only(priority, Keys(o))
            p == InOrder(o, priority)
            a == Len(first)
            b == Len(OtherMembers(o, priority))
<1>1. /\ a \in Nat /\ b \in Nat /\ DOMAIN first = 1..a /\ DOMAIN p = 1..a + b
      /\ \A i \in 1..a : p[i][1] = first[i]
      /\ \A i \in 1..a + b : i > a => p[i][1] \notin ToSet(priority)
  BY InOrderForm
<1>2. PICK g : Picks(g, priority, first)
  BY OnlyPicks
<1>. HIDE DEF first, p, a, b
<1>3. ASSUME NEW i \in DOMAIN p, NEW j \in DOMAIN p, i < j, p[j][1] \in ToSet(priority)
      PROVE  Precedes(priority, p[i][1], p[j][1])
  <2>1. i \in 1..a /\ j \in 1..a
    BY <1>1, <1>3
  <2>2. /\ g[i] \in DOMAIN priority /\ first[i] = priority[g[i]]
        /\ g[j] \in DOMAIN priority /\ first[j] = priority[g[j]]
        /\ g[i] < g[j]
    BY <1>1, <1>2, <1>3, <2>1 DEF Picks
  <2>3. p[i][1] = priority[g[i]] /\ p[j][1] = priority[g[j]]
    BY <1>1, <2>1, <2>2
  <2>. QED  BY <2>2, <2>3 DEF Precedes
<1>. QED  BY <1>3 DEF InPlace, p

\* Members in order stay where they are.
LEMMA InPlaceStays ==
  ASSUME NEW o, Obj(o), NEW priority, IsSequence(priority), Once(priority), InPlace(o, priority)
  PROVE  InOrder(o, priority) = o
<1>. DEFINE p == InOrder(o, priority)
            P == ToSet(priority)
            g == [k \in DOMAIN p |-> CHOOSE i \in DOMAIN o : o[i][1] = p[k][1]]
            n == Len(p)
            m == Len(o)
<1>1. Obj(p) /\ AlikeBut(o, p, {}) /\ Keys(p) = Keys(o)
  BY InOrderMembers
<1>2. InPlace(p, priority)
  BY InOrderInPlace
<1>3. \A k, l : ~(Precedes(priority, k, l) /\ Precedes(priority, l, k))
  <2>. SUFFICES ASSUME NEW a \in DOMAIN priority, NEW b \in DOMAIN priority, NEW c \in DOMAIN priority,
                       NEW e \in DOMAIN priority, a < b, c < e, priority[a] = priority[e], priority[b] = priority[c]
                PROVE  FALSE
    BY DEF Precedes
  <2>1. a = e /\ b = c
    BY DEF Once
  <2>2. DOMAIN priority = 1..Len(priority) /\ Len(priority) \in Nat
    BY SequenceForm
  <2>. QED  BY <2>1, <2>2
<1>4. \A k, l : Precedes(priority, k, l) => k \in P /\ l \in P
  BY InSet DEF Precedes
<1>5. /\ IsSequence(o) /\ OneMemberPerKey(o) /\ IsObject(o) /\ m \in Nat /\ DOMAIN o = 1..m
      /\ IsSequence(p) /\ OneMemberPerKey(p) /\ IsObject(p) /\ n \in Nat /\ DOMAIN p = 1..n
  BY <1>1, ObjSequence, SequenceForm
<1>. HIDE DEF p, P, g, n, m
<1>6. ASSUME NEW k \in 1..n
      PROVE  g[k] \in 1..m /\ o[g[k]][1] = p[k][1] /\ p[k] = o[g[k]]
  <2>. DEFINE x == p[k][1]
  <2>1. p[k] \in ToSet(p) /\ p[k] = <<p[k][1], p[k][2]>> /\ x \in Keys(p) /\ Get(p, x) = p[k][2]
    <3>1. p[k] \in ToSet(p)
      BY <1>5, InSet
    <3>. QED  BY <1>5, <3>1, GetMember DEF IsObject
  <2>2. PICK y \in ToSet(o) : y[1] = x
    BY <1>1, <2>1 DEF Keys
  <2>3. PICK i \in DOMAIN o : o[i] = y
    BY InSet
  <2>4. g[k] \in DOMAIN o /\ o[g[k]][1] = x
    <3>1. \E q \in DOMAIN o : o[q][1] = p[k][1]
      BY <2>2, <2>3
    <3>2. g[k] = CHOOSE q \in DOMAIN o : o[q][1] = p[k][1]
      BY <1>5 DEF g
    <3>. QED  BY <3>1, <3>2
  <2>5. o[g[k]] \in ToSet(o)
    BY <2>4, InSet
  <2>6. o[g[k]] = <<x, o[g[k]][2]>> /\ Get(o, x) = o[g[k]][2]
    BY <1>5, <2>4, <2>5, GetMember DEF IsObject
  <2>7. Get(p, x) = Get(o, x)
    BY <1>1 DEF AlikeBut, SameAt
  <2>. QED  BY <1>5, <2>1, <2>4, <2>6, <2>7
<1>7. ASSUME NEW j \in 1..n, NEW k \in 1..n, j < k PROVE g[j] < g[k]
  <2>1. /\ g[j] \in 1..m /\ o[g[j]][1] = p[j][1] /\ p[j] = o[g[j]]
        /\ g[k] \in 1..m /\ o[g[k]][1] = p[k][1] /\ p[k] = o[g[k]]
    BY <1>6
  <2>2. g[j] # g[k]
    BY <1>5, <1>7, <2>1 DEF OneMemberPerKey
  <2>3. CASE p[k][1] \in P
    <3>1. Precedes(priority, p[j][1], p[k][1])
      BY <1>2, <1>5, <1>7, <2>3 DEF InPlace, P
    <3>2. p[j][1] \in P
      BY <1>4, <3>1
    <3>3. ~(g[k] < g[j])
      <4>. SUFFICES ASSUME g[k] < g[j] PROVE FALSE
        OBVIOUS
      <4>1. Precedes(priority, p[k][1], p[j][1])
        BY <1>5, <2>1, <3>2 DEF InPlace, P
      <4>. QED  BY <1>3, <3>1, <4>1
    <3>. QED  BY <1>5, <2>1, <2>2, <3>3
  <2>4. CASE p[k][1] \notin P /\ p[j][1] \in P
    <3>1. ~(g[k] < g[j])
      <4>. SUFFICES ASSUME g[k] < g[j] PROVE FALSE
        OBVIOUS
      <4>1. Precedes(priority, p[k][1], p[j][1])
        BY <1>5, <2>1, <2>4 DEF InPlace, P
      <4>. QED  BY <1>4, <2>4, <4>1
    <3>. QED  BY <1>5, <2>1, <2>2, <3>1
  <2>5. CASE p[k][1] \notin P /\ p[j][1] \notin P
    <3>. DEFINE t == OtherMembers(o, priority)
                a == Len(Only(priority, Keys(o)))
                b == Len(t)
    <3>1. /\ a \in Nat /\ b \in Nat /\ DOMAIN t = 1..b /\ 1..n = 1..a + b
          /\ \A i \in 1..a : p[i][1] \in P
          /\ \A i \in 1..a + b : i > a => p[i] = t[i - a] /\ i - a \in 1..b
      BY <1>5, InOrderForm, Zenon DEF p, P
    <3>2. PICK h : Picks(h, o, t)
      BY <1>5, OnlyPicks, Zenon DEF OtherMembers
    <3>. HIDE DEF t, a, b
    <3>3. j > a /\ k > a /\ j \in 1..a + b /\ k \in 1..a + b
      <4>1. j \in 1..a + b /\ k \in 1..a + b
        BY <3>1, Zenon
      <4>2. ~(j \in 1..a) /\ ~(k \in 1..a)
        BY <2>5, <3>1
      <4>. QED  BY <3>1, <4>1, <4>2
    <3>4. p[j] = t[j - a] /\ j - a \in 1..b /\ p[k] = t[k - a] /\ k - a \in 1..b
      BY <3>1, <3>3
    <3>5. j - a < k - a
      BY <1>7, <3>1, <3>3
    <3>6. /\ h[j - a] \in DOMAIN o /\ o[h[j - a]] = p[j]
          /\ h[k - a] \in DOMAIN o /\ o[h[k - a]] = p[k]
          /\ h[j - a] < h[k - a]
      BY <3>1, <3>2, <3>4, <3>5, Zenon DEF Picks
    <3>7. h[j - a] = g[j] /\ h[k - a] = g[k]
      BY <1>5, <2>1, <3>6, SMTT(30) DEF OneMemberPerKey
    <3>. QED  BY <3>6, <3>7
  <2>. QED  BY <2>3, <2>4, <2>5
<1>8. ASSUME NEW i \in 1..m PROVE \E k \in 1..n : g[k] = i
  <2>1. o[i][1] \in Keys(p)
    <3>1. o[i] \in ToSet(o)
      BY <1>5, InSet
    <3>. QED  BY <1>1, <3>1 DEF Keys
  <2>2. PICK y \in ToSet(p) : y[1] = o[i][1]
    BY <2>1 DEF Keys
  <2>3. PICK k \in 1..n : p[k] = y
    BY <1>5, InSet
  <2>4. g[k] \in 1..m /\ o[g[k]][1] = p[k][1]
    BY <1>6
  <2>5. g[k] = i
    BY <1>5, <2>2, <2>3, <2>4 DEF OneMemberPerKey
  <2>. QED  BY <2>5
<1>9. n = m /\ \A k \in 1..n : g[k] = k
  <2>1. n \in Nat /\ m \in Nat /\ \A k \in 1..n : g[k] \in 1..m
    BY <1>5, <1>6 DEF n, m
  <2>2. (\A j, k \in 1..n : j < k => g[j] < g[k]) /\ \A i \in 1..m : \E k \in 1..n : g[k] = i
    BY <1>7, <1>8
  <2>3. Rises(g, n, m)
    BY <2>1, <2>2 DEF Rises
  <2>. QED  BY <2>3, RisingOnto
<1>10. \A k \in 1..n : p[k] = o[k]
  BY <1>6, <1>9
<1>11. p = [k \in 1..n |-> p[k]] /\ o = [k \in 1..m |-> o[k]]
  BY <1>5, SequenceForm DEF n, m
<1>. QED  BY <1>9, <1>10, <1>11 DEF p

\* A new value of a member, or a new member without priority, keeps the keys in order.
LEMMA InPlacePut ==
  ASSUME NEW o, Obj(o), NEW priority, InPlace(o, priority), NEW k, NEW v, k \in Keys(o) \/ k \notin ToSet(priority)
  PROVE  InPlace(Put(o, k, v), priority)
<1>. DEFINE p == Put(o, k, v)
            n == Len(o)
<1>1. IsSequence(o) /\ n \in Nat /\ DOMAIN o = 1..n
  BY ObjSequence, SequenceForm
<1>2. CASE k \in Keys(o)
  <2>1. p = [i \in DOMAIN o |-> IF o[i][1] = k THEN <<k, v>> ELSE o[i]]
    BY <1>2 DEF Put
  <2>2. DOMAIN p = DOMAIN o /\ \A i \in DOMAIN o : p[i][1] = o[i][1]
    BY <2>1
  <2>. HIDE DEF p
  <2>. QED  BY <2>2 DEF InPlace, p
<1>3. CASE k \notin Keys(o)
  <2>1. p = Append(o, <<k, v>>)
    BY <1>3 DEF Put
  <2>2. DOMAIN p = 1..n + 1 /\ p[n + 1] = <<k, v>> /\ \A i \in 1..n : p[i] = o[i]
    BY <1>1, <2>1, AppendSequence
  <2>. HIDE DEF p
  <2>3. p[n + 1][1] = k
    BY <2>2
  <2>4. ASSUME NEW i \in DOMAIN p, NEW j \in DOMAIN p, i < j, p[j][1] \in ToSet(priority)
        PROVE  Precedes(priority, p[i][1], p[j][1])
    <3>1. j # n + 1
      BY <1>3, <2>3, <2>4
    <3>2. i \in 1..n /\ j \in 1..n
      BY <1>1, <2>2, <2>4, <3>1
    <3>. QED  BY <1>1, <2>2, <2>4, <3>2 DEF InPlace
  <2>. QED  BY <2>4 DEF InPlace, p
<1>. QED  BY <1>2, <1>3

\* What is kept of members in order is in order.
LEMMA InPlaceOnly ==
  ASSUME NEW o, Obj(o), NEW priority, InPlace(o, priority), NEW S
  PROVE  InPlace(Only(o, S), priority)
<1>. DEFINE p == Only(o, S)
<1>1. IsSequence(o)
  BY ObjSequence
<1>2. PICK g : Picks(g, o, p)
  BY <1>1, OnlyPicks
<1>. HIDE DEF p
<1>. QED  BY <1>2 DEF InPlace, Picks, p

-----------------------------------------------------------------------------
(* What a rule of a component leaves, and has nothing to do about again.   *)

\* The form each rule leaves its component in (sbom/fixer.py, the rules of a component).
OnlySources(o) ==
  IsList(Get(o, "externalReferences")) => \A e \in Entries(o, "externalReferences") : IsSource(e)
OnlyGost(o) == IsList(Get(o, "properties")) => \A e \in Entries(o, "properties") : e[1] \in GostNames
GostComplete(o) == Odd(Get(o, "properties")) \/ MissingGost(Get(o, "properties")) = <<>>
\* The provider is there, or every pattern that gives one is about the licence the next rule adds.
LicenceAdded(opt, o) == "add_proprietary" \in opt.rules /\ HasProprietary(o)
ProviderSettled(opt, o) ==
  \/ Filled(o) \/ Odd(Get(o, "properties"))
  \/ \A p \in ToSet(opt.provided_by_patterns) : Matches(p, o) => p.field = "licenses" /\ LicenceAdded(opt, o)
LicenceSettled(opt, o) ==
  ~Matched(o, opt.add_patterns) \/ HasProprietary(o) \/ Odd(Get(o, "licenses"))
Bare(o) == IsList(Get(o, "externalReferences")) => Sources(o) = {}
SourceSettled(o) == HasProprietary(o) => Bare(o)

\* Each of these depends on the members its rule looks at.
LEMMA SameForms ==
  ASSUME NEW o, NEW p
  PROVE  /\ SameAt(o, p, "externalReferences") => /\ OnlySources(o) => OnlySources(p)
                                                  /\ Bare(o) => Bare(p)
         /\ SameAt(o, p, "properties") => /\ OnlyGost(o) => OnlyGost(p)
                                          /\ GostComplete(o) => GostComplete(p)
                                          /\ Filled(o) <=> Filled(p)
                                          /\ Odd(Get(o, "properties")) <=> Odd(Get(p, "properties"))
         /\ SameAt(o, p, "licenses") => /\ HasProprietary(o) <=> HasProprietary(p)
                                        /\ QuietNonProprietary(o) => QuietNonProprietary(p)
                                        /\ Odd(Get(o, "licenses")) <=> Odd(Get(p, "licenses"))
<1>1. ASSUME SameAt(o, p, "externalReferences")
      PROVE  (OnlySources(o) => OnlySources(p)) /\ (Bare(o) => Bare(p))
  BY <1>1 DEF SameAt, OnlySources, Bare, Sources, Entries
<1>2. ASSUME SameAt(o, p, "properties")
      PROVE  /\ OnlyGost(o) => OnlyGost(p)
             /\ GostComplete(o) => GostComplete(p)
             /\ Filled(o) <=> Filled(p)
             /\ Odd(Get(o, "properties")) <=> Odd(Get(p, "properties"))
  BY <1>2 DEF SameAt, OnlyGost, GostComplete, Filled, GivenIn, Entries
<1>3. ASSUME SameAt(o, p, "licenses")
      PROVE  /\ HasProprietary(o) <=> HasProprietary(p)
             /\ QuietNonProprietary(o) => QuietNonProprietary(p)
             /\ Odd(Get(o, "licenses")) <=> Odd(Get(p, "licenses"))
  BY <1>3 DEF SameAt, HasProprietary, QuietNonProprietary, Entries
<1>. QED  BY <1>1, <1>2, <1>3

\* A member that loses entries, or is gone, holds no text it did not hold before.
Shrinks(o, p, k) ==
  /\ AlikeBut(o, p, {k})
  /\ \/ SameAt(o, p, k) \/ Get(p, k) = Absent
     \/ IsList(Get(o, k)) /\ IsList(Get(p, k)) /\ Entries(p, k) \subseteq Entries(o, k)

\* An object one of whose lists has shrunk matches no pattern that it did not match before.
LEMMA ShrinksMatch ==
  ASSUME NEW o, NEW p, NEW k, Shrinks(o, p, k), NEW pattern, Matches(pattern, p)
  PROVE  Matches(pattern, o)
<1>. DEFINE f == pattern.field
<1>1. FieldContains(p, f, pattern.pattern) /\ \A x \in DOMAIN pattern : Unblank(pattern[x])
  BY DEF Matches
<1>2. CASE SameAt(o, p, f)
  BY <1>1, <1>2 DEF SameAt, FieldContains, Matches
<1>3. CASE f = k /\ Get(p, k) = Absent
  BY <1>1, <1>3, AbsentValue DEF FieldContains, IsNone
<1>4. CASE f = k /\ IsList(Get(o, k)) /\ IsList(Get(p, k)) /\ Entries(p, k) \subseteq Entries(o, k)
  <2>1. ~IsNone(Get(o, k)) /\ Get(o, k).kind = Get(p, k).kind
    BY <1>4 DEF IsList, IsNone
  <2>. QED  BY <1>1, <1>4, <2>1 DEF FieldContains, Matches, Entries
<1>. QED  BY <1>2, <1>3, <1>4 DEF Shrinks, AlikeBut

\* So it matches no set of patterns that it did not match before.
LEMMA ShrinksMatched ==
  ASSUME NEW o, NEW p, NEW k, Shrinks(o, p, k), NEW patterns, Matched(p, patterns)
  PROVE  Matched(o, patterns)
BY ShrinksMatch DEF Matched

\* The rule that filters references, and the references it leaves.
LEMMA FilterReferencesSettles ==
  ASSUME NEW o, Obj(o)
  PROVE  LET r == FilterExternalReferences(o)
         IN OnlySources(r.obj) /\ (OnlySources(o) => r.n = 0)
<1>. DEFINE k == "externalReferences"
            S == {e \in Entries(o, k) : IsSource(e)}
            r == FilterExternalReferences(o)
<1>1. r = Filtered(o, k, S)
  BY DEF FilterExternalReferences
<1>. HIDE DEF r
<1>2. CASE IsList(Get(o, k))
  <2>1. Entries(r.obj, k) = Entries(o, k) \cap S
    BY <1>1, <1>2, KeptItems
  <2>2. OnlySources(r.obj)
    BY <2>1 DEF OnlySources
  <2>3. OnlySources(o) => r.n = 0
    BY <1>1, <1>2, FilteredQuiet DEF OnlySources
  <2>. QED  BY <2>2, <2>3 DEF r
<1>3. CASE ~IsList(Get(o, k))
  <2>1. r = Same(o) /\ Same(o).obj = o /\ Same(o).n = 0
    BY <1>1, <1>3, FilteredEffect, SameChange, Zenon
  <2>. QED  BY <1>3, <2>1 DEF OnlySources, r
<1>. QED  BY <1>2, <1>3

\* The filter of the properties leaves GOST properties alone, and finds nothing among them.
LEMMA FilterPropertiesSettles ==
  ASSUME NEW o, Obj(o)
  PROVE  LET r == FilterProperties(o)
         IN OnlyGost(r.obj) /\ (OnlyGost(o) => r.n = 0)
<1>. DEFINE k == "properties"
            S == {e \in Entries(o, k) : e[1] \in GostNames}
            r == FilterProperties(o)
<1>1. r = Filtered(o, k, S)
  BY DEF FilterProperties
<1>. HIDE DEF r
<1>2. CASE IsList(Get(o, k))
  <2>1. Entries(r.obj, k) = Entries(o, k) \cap S
    BY <1>1, <1>2, KeptItems
  <2>2. OnlyGost(r.obj)
    BY <2>1 DEF OnlyGost
  <2>3. OnlyGost(o) => r.n = 0
    BY <1>1, <1>2, FilteredQuiet DEF OnlyGost
  <2>. QED  BY <2>2, <2>3 DEF r
<1>3. CASE ~IsList(Get(o, k))
  <2>1. r = Same(o) /\ Same(o).obj = o /\ Same(o).n = 0
    BY <1>1, <1>3, FilteredEffect, SameChange, Zenon
  <2>. QED  BY <1>3, <2>1 DEF OnlyGost, r
<1>. QED  BY <1>2, <1>3

\* The rule that completes the properties.
LEMMA FillPropertiesSettles ==
  ASSUME NEW o, Obj(o)
  PROVE  LET r == FillGostProperties(o)
         IN /\ GostComplete(r.obj) /\ (GostComplete(o) => r.n = 0)
            /\ OnlyGost(o) => OnlyGost(r.obj)
<1>. DEFINE k == "properties"
            m == MissingGost(Get(o, k))
            entries == MissingEntries(m)
            r == FillGostProperties(o)
<1>1. r = Extended(o, k, entries)
  BY DEF FillGostProperties, MissingEntries
<1>2. /\ IsSequence(m) /\ ToSet(m) = ToSet(RequiredGost) \ NamesIn(Get(o, k))
      /\ m = <<>> <=> ToSet(RequiredGost) \subseteq NamesIn(Get(o, k))
  BY MissingNames
<1>3. IsNone(Get(o, k)) => m # <<>>
  BY NoneMissing
<1>. HIDE DEF m, r
<1>4. /\ IsSequence(entries) /\ Len(entries) = Len(m) /\ (entries = <<>> <=> m = <<>>)
      /\ \A e \in ToSet(entries) : e[1] \in ToSet(m)
      /\ \A x \in ToSet(m) : \E e \in ToSet(entries) : e[1] = x
  BY <1>2, MissingEntriesForm
<1>. HIDE DEF entries
<1>a. IF IsNone(Get(o, k)) \/ IsList(Get(o, k))
        THEN Extended(o, k, entries).n = Len(entries)
        ELSE Extended(o, k, entries) = Same(o)
  BY <1>3, <1>4, ExtendedEffect
<1>5. CASE Odd(Get(o, k))
  <2>1. r = Same(o) /\ Same(o).obj = o /\ Same(o).n = 0
    BY <1>1, <1>a, <1>5, SameChange DEF Odd
  <2>. QED  BY <1>5, <2>1 DEF GostComplete, r
<1>6. CASE ~Odd(Get(o, k))
  <2>1. /\ IsList(Get(r.obj, k)) /\ Entries(r.obj, k) = Entries(o, k) \cup ToSet(entries)
        /\ r.n = Len(entries)
    BY <1>1, <1>a, <1>3, <1>4, <1>6, ExtendedEntries DEF Odd
  <2>2. ToSet(RequiredGost) \subseteq NamesIn(Get(r.obj, k))
    <3>. SUFFICES ASSUME NEW x \in ToSet(RequiredGost) PROVE \E e \in Entries(r.obj, k) : e[1] = x
      BY DEF NamesIn, Entries
    <3>1. CASE x \in NamesIn(Get(o, k))
      BY <2>1, <3>1 DEF NamesIn, Entries
    <3>2. CASE x \in ToSet(m)
      BY <1>4, <2>1, <3>2
    <3>. QED  BY <1>2, <3>1, <3>2
  <2>3. GostComplete(r.obj)
    BY <2>2, MissingNames DEF GostComplete
  <2>4. GostComplete(o) => r.n = 0
    <3>1. GostComplete(o) => m = <<>>
      BY <1>6 DEF GostComplete, m
    <3>2. m = <<>> => Len(m) = 0
      OBVIOUS
    <3>. QED  BY <1>4, <2>1, <3>1, <3>2
  <2>5. ASSUME OnlyGost(o) PROVE OnlyGost(r.obj)
    <3>1. \A e \in Entries(o, k) : e[1] \in GostNames
      <4>1. CASE IsList(Get(o, k))
        BY <2>5, <4>1 DEF OnlyGost
      <4>2. CASE IsNone(Get(o, k))
        <5>1. Get(o, k).items = <<>>
          BY <4>2, ObjValue
        <5>. QED  BY <5>1 DEF Entries, ToSet
      <4>. QED  BY <1>6, <4>1, <4>2 DEF Odd
    <3>2. \A e \in ToSet(entries) : e[1] \in GostNames
      BY <1>2, <1>4, RequiredNames
    <3>. QED  BY <2>1, <3>1, <3>2 DEF OnlyGost
  <2>. QED  BY <2>3, <2>4, <2>5 DEF r
<1>. QED  BY <1>5, <1>6

ProvidedPatterns(opt) == IsPatterns(opt.provided_by_patterns, {"field", "pattern", "provided_by"})
\* The one way back from a later rule to an earlier one: a pattern that gives a provider for a licence.
AgainOnLicences(opt) ==
  /\ "add_proprietary" \in opt.rules
  /\ \E p \in ToSet(opt.provided_by_patterns) : p.field = "licenses"

\* The rule that names a provider.
LEMMA AddProvidedBySettles ==
  ASSUME NEW opt, ProvidedPatterns(opt), NEW o, Obj(o)
  PROVE  LET r == AddProvidedBy(o, opt.provided_by_patterns)
         IN /\ ProviderSettled(opt, r.obj)
            /\ ProviderSettled(opt, o) => r.n = 0 \/ (AgainOnLicences(opt) /\ HasProprietary(o))
            /\ OnlyGost(o) => OnlyGost(r.obj)
            /\ GostComplete(o) => GostComplete(r.obj)
<1>. DEFINE k == "properties"
            patterns == opt.provided_by_patterns
            e == ProvidedEntry(o, patterns)
            r == AddProvidedBy(o, patterns)
            q == r.obj
            Quiet == Filled(o) \/ Matching(o, patterns) = <<>>
<1>1. /\ IsPatterns(patterns, {"field", "pattern", "provided_by"})
      /\ Matching(o, patterns) = <<>> <=> \A p \in ToSet(patterns) : ~Matches(p, o)
  BY MatchingEntry DEF ProvidedPatterns
<1>2. /\ KeepsProps(o, r.obj) /\ (r = Same(o) \/ Filled(r.obj))
      /\ r = Same(o) <=> Quiet \/ Odd(Get(o, k))
      /\ r.n # 0 <=> r # Same(o)
  BY <1>1, AddProvidedByEffect
<1>3. r = IF Quiet THEN Same(o)
          ELSE IF GivenIn(o) = {} THEN Extended(o, k, <<e>>) ELSE SetProperty(o, FirstGiven(o), e)
  BY AddProvidedByForm, Zenon
<1>4. e[1] = "GOST:provided_by" /\ e = <<"GOST:provided_by", Matching(o, patterns)[1].provided_by>>
  BY DEF ProvidedEntry
<1>5. Same(o).obj = o
  BY DEF Same
<1>. HIDE DEF r, e
<1>6. ProviderSettled(opt, r.obj)
  <2>1. CASE r = Same(o)
    BY <1>1, <1>2, <1>5, <2>1 DEF ProviderSettled
  <2>2. CASE Filled(r.obj)
    BY <2>2 DEF ProviderSettled
  <2>. QED  BY <1>2, <2>1, <2>2
<1>7. ASSUME ProviderSettled(opt, o), r.n # 0 PROVE AgainOnLicences(opt) /\ HasProprietary(o)
  <2>1. PICK p \in ToSet(patterns) : Matches(p, o)
    BY <1>1, <1>2, <1>7
  <2>2. p.field = "licenses" /\ LicenceAdded(opt, o)
    BY <1>2, <1>7, <2>1 DEF ProviderSettled
  <2>. QED  BY <2>1, <2>2 DEF AgainOnLicences, LicenceAdded
<1>8. ASSUME OnlyGost(o) PROVE OnlyGost(r.obj)
  <2>1. CASE r = Same(o)
    BY <1>5, <1>8, <2>1
  <2>2. CASE r # Same(o)
    <3>1. ~Quiet /\ ~Odd(Get(o, k))
      BY <1>2, <2>2
    <3>2. "GOST:provided_by" \in GostNames
      BY DEF GostNames
    <3>3. CASE GivenIn(o) = {}
      <4>1. r = Extended(o, k, <<e>>) /\ IsSequence(<<e>>) /\ <<e>> # <<>> /\ ToSet(<<e>>) = {e}
        BY <1>3, <3>1, <3>3, OneEntry
      <4>2. Entries(r.obj, k) = Entries(o, k) \cup {e}
        BY <3>1, <4>1, ExtendedEntries DEF Odd
      <4>3. \A f \in Entries(o, k) : f[1] \in GostNames
        <5>1. CASE IsList(Get(o, k))
          BY <1>8, <5>1 DEF OnlyGost
        <5>2. CASE IsNone(Get(o, k))
          <6>1. Get(o, k).items = <<>>
            BY <5>2, ObjValue
          <6>. QED  BY <6>1 DEF Entries, ToSet
        <5>. QED  BY <3>1, <5>1, <5>2 DEF Odd
      <4>. QED  BY <1>4, <3>2, <4>2, <4>3 DEF OnlyGost
    <3>4. CASE GivenIn(o) # {}
      <4>. DEFINE i == FirstGiven(o)
                  s == Get(o, k).items
                  t == [s EXCEPT ![i] = e]
      <4>1. /\ IsSequence(t) /\ DOMAIN t = DOMAIN s /\ \A j \in DOMAIN s : t[j] = IF j = i THEN e ELSE s[j]
            /\ Get(SetProperty(o, i, e).obj, k) = ListOf(t) /\ IsList(Get(o, k))
        BY <1>4, <3>4, SetPropertyEffect
      <4>2. Get(r.obj, k).items = t
        BY <1>3, <3>1, <3>4, <4>1 DEF ListOf
      <4>3. IsSequence(s)
        BY ObjValue
      <4>. HIDE DEF t, s, i
      <4>4. \A j \in DOMAIN s : s[j][1] \in GostNames
        BY <1>8, <4>1, <4>3, SequenceForm DEF OnlyGost, Entries, s
      <4>5. \A j \in DOMAIN t : t[j][1] \in GostNames
        BY <1>4, <3>2, <4>1, <4>4
      <4>6. \A f \in ToSet(t) : f[1] \in GostNames
        BY <4>1, <4>5, InSet
      <4>. QED  BY <4>2, <4>6 DEF OnlyGost, Entries
    <3>. QED  BY <3>3, <3>4
  <2>. QED  BY <2>1, <2>2
<1>9. ASSUME GostComplete(o) PROVE GostComplete(r.obj)
  <2>1. Odd(Get(r.obj, k)) <=> Odd(Get(o, k))
    BY <1>2 DEF KeepsProps
  <2>2. ASSUME ~Odd(Get(o, k)) PROVE ToSet(RequiredGost) \subseteq NamesIn(Get(r.obj, k))
    <3>1. ToSet(RequiredGost) \subseteq NamesIn(Get(o, k))
      BY <1>9, <2>2, MissingNames DEF GostComplete
    <3>. SUFFICES ASSUME NEW x \in ToSet(RequiredGost) PROVE x \in NamesIn(Get(r.obj, k))
      OBVIOUS
    <3>2. PICK d \in Entries(o, k) : d[1] = x
      BY <3>1 DEF NamesIn, Entries
    <3>3. x \in GostNames
      BY RequiredNames
    <3>4. PICK f \in Entries(r.obj, k) : f[1] = d[1]
      BY <1>2, <3>2, <3>3 DEF KeepsProps, GostKept
    <3>. QED  BY <3>2, <3>4 DEF NamesIn, Entries
  <2>. QED  BY <2>1, <2>2, MissingNames DEF GostComplete
<1>. QED  BY <1>6, <1>7, <1>8, <1>9 DEF r

\* The rules of the licences.
LEMMA FilterLicencesSettles ==
  ASSUME NEW opt, NEW o, Obj(o)
  PROVE  LET r == FilterNonProprietary(o)
         IN /\ QuietNonProprietary(r.obj) /\ (QuietNonProprietary(o) => r.n = 0)
            /\ HasProprietary(r.obj) => HasProprietary(o)
            /\ ProviderSettled(opt, o) => ProviderSettled(opt, r.obj)
<1>. DEFINE k == "licenses"
            r == FilterNonProprietary(o)
            p == r.obj
<1>1. /\ Change(o, k, r) /\ (HasProprietary(o) => HasProprietary(p))
      /\ QuietNonProprietary(o) => r = Same(o)
      /\ QuietNonProprietary(p)
      /\ \/ SameAt(o, p, k) \/ Get(p, k) = Absent
         \/ IsList(Get(o, k)) /\ IsList(Get(p, k)) /\ Entries(p, k) \subseteq Entries(o, k)
  BY FilterNonProprietaryEffect
<1>2. Same(o).n = 0
  BY DEF Same
<1>. HIDE DEF r
<1>3. Shrinks(o, p, k) /\ SameAt(o, p, "properties")
  BY <1>1 DEF Shrinks, Change, AlikeBut
<1>4. HasProprietary(p) => HasProprietary(o)
  <2>1. CASE SameAt(o, p, k)
    BY <2>1, SameForms
  <2>2. CASE Get(p, k) = Absent
    BY <2>2, AbsentValue DEF HasProprietary, IsList
  <2>3. CASE IsList(Get(o, k)) /\ IsList(Get(p, k)) /\ Entries(p, k) \subseteq Entries(o, k)
    BY <2>3 DEF HasProprietary
  <2>. QED  BY <1>1, <2>1, <2>2, <2>3
<1>5. ASSUME ProviderSettled(opt, o) PROVE ProviderSettled(opt, p)
  <2>1. CASE Filled(o) \/ Odd(Get(o, "properties"))
    BY <1>3, <2>1, SameForms DEF ProviderSettled
  <2>2. CASE \A x \in ToSet(opt.provided_by_patterns) : Matches(x, o) => x.field = "licenses" /\ LicenceAdded(opt, o)
    <3>1. LicenceAdded(opt, o) => LicenceAdded(opt, p)
      BY <1>1 DEF LicenceAdded
    <3>2. \A x \in ToSet(opt.provided_by_patterns) : Matches(x, p) => Matches(x, o)
      BY <1>3, ShrinksMatch
    <3>. QED  BY <2>2, <3>1, <3>2 DEF ProviderSettled
  <2>. QED  BY <1>5, <2>1, <2>2 DEF ProviderSettled
<1>. QED  BY <1>1, <1>2, <1>4, <1>5 DEF r

\* The rule that adds the licence leaves it with every component that matches, and then adds none.
LEMMA AddLicenceSettles ==
  ASSUME NEW opt, "add_proprietary" \in opt.rules, NEW o, Obj(o)
  PROVE  LET r == AddProprietary(o, opt.add_patterns)
         IN /\ LicenceSettled(opt, r.obj) /\ (LicenceSettled(opt, o) => r.n = 0)
            /\ r = Same(o) \/ (Matched(o, opt.add_patterns) /\ HasProprietary(r.obj))
            /\ QuietNonProprietary(o) => QuietNonProprietary(r.obj)
            /\ ~Odd(Get(o, "licenses")) => ~Odd(Get(r.obj, "licenses"))
            /\ ProviderSettled(opt, o) => ProviderSettled(opt, r.obj)
<1>. DEFINE k == "licenses"
            added == {<<"license", "Proprietary">>}
            r == AddProprietary(o, opt.add_patterns)
            p == r.obj
<1>1. /\ Change(o, k, r) /\ (HasProprietary(o) => HasProprietary(p))
      /\ ~Matched(o, opt.add_patterns) \/ HasProprietary(o) \/ Odd(Get(o, k)) => r = Same(o)
      /\ \/ r = Same(o)
         \/ /\ Matched(o, opt.add_patterns) /\ HasProprietary(p) /\ IsList(Get(p, k))
            /\ Entries(p, k) = Entries(o, k) \cup added
      /\ Matched(o, opt.add_patterns) => HasProprietary(p) \/ Odd(Get(o, k))
  BY AddProprietaryEffect
<1>2. Same(o).n = 0 /\ Same(o).obj = o
  BY DEF Same
<1>. HIDE DEF r
<1>3. SameAt(o, p, "properties") /\ \A x : x # k => SameAt(o, p, x)
  BY <1>1 DEF Change, AlikeBut
<1>4. CASE r = Same(o)
  <2>1. LicenceSettled(opt, o)
    BY <1>1, <1>2, <1>4 DEF LicenceSettled
  <2>. QED  BY <1>2, <1>4, <2>1 DEF r
<1>5. CASE r # Same(o)
  <2>1. /\ Matched(o, opt.add_patterns) /\ HasProprietary(p) /\ IsList(Get(p, k))
        /\ Entries(p, k) = Entries(o, k) \cup added
        /\ ~HasProprietary(o) /\ ~Odd(Get(o, k))
    BY <1>1, <1>5
  <2>2. LicenceSettled(opt, p) /\ ~LicenceSettled(opt, o)
    BY <2>1 DEF LicenceSettled
  <2>3. ~Odd(Get(p, k))
    BY <2>1 DEF Odd
  <2>4. ASSUME QuietNonProprietary(o) PROVE QuietNonProprietary(p)
    <3>1. \A e \in Entries(o, k) : IsProprietary(e)
      <4>1. CASE IsList(Get(o, k))
        BY <2>4, <4>1 DEF QuietNonProprietary
      <4>2. CASE IsNone(Get(o, k))
        <5>1. Get(o, k).items = <<>>
          BY <4>2, ObjValue
        <5>. QED  BY <5>1 DEF Entries, ToSet
      <4>. QED  BY <2>1, <4>1, <4>2 DEF Odd
    <3>. QED  BY <2>1, <3>1 DEF QuietNonProprietary, IsProprietary
  <2>5. ASSUME ProviderSettled(opt, o) PROVE ProviderSettled(opt, p)
    <3>1. CASE Filled(o) \/ Odd(Get(o, "properties"))
      BY <1>3, <3>1, SameForms DEF ProviderSettled
    <3>2. CASE \A x \in ToSet(opt.provided_by_patterns) : Matches(x, o) => x.field = "licenses" /\ LicenceAdded(opt, o)
      <4>1. LicenceAdded(opt, p)
        BY <2>1 DEF LicenceAdded
      <4>2. ASSUME NEW x \in ToSet(opt.provided_by_patterns), Matches(x, p), x.field # "licenses"
            PROVE  Matches(x, o)
        <5>1. SameAt(o, p, x.field)
          BY <1>3, <4>2
        <5>. QED  BY <4>2, <5>1 DEF SameAt, Matches, FieldContains
      <4>. QED  BY <3>2, <4>1, <4>2 DEF ProviderSettled
    <3>. QED  BY <2>5, <3>1, <3>2 DEF ProviderSettled
  <2>. QED  BY <2>1, <2>2, <2>3, <2>4, <2>5 DEF r
<1>. QED  BY <1>4, <1>5

\* The rule that removes the sources of proprietary components.
LEMMA RemoveSourcesSettles ==
  ASSUME NEW opt, NEW o, Obj(o)
  PROVE  LET r == RemoveProprietarySourceReferences(o)
         IN /\ SourceSettled(r.obj) /\ (SourceSettled(o) => r.n = 0)
            /\ OnlySources(o) => OnlySources(r.obj)
            /\ ProviderSettled(opt, o) => ProviderSettled(opt, r.obj)
            /\ LicenceSettled(opt, o) => LicenceSettled(opt, r.obj)
<1>. DEFINE k == "externalReferences"
            r == RemoveProprietarySourceReferences(o)
            p == r.obj
<1>1. /\ Change(o, k, r) /\ (HasProprietary(p) <=> HasProprietary(o))
      /\ ~HasProprietary(o) => r = Same(o)
      /\ IsList(Get(o, k)) <=> IsList(Get(p, k))
      /\ ~IsList(Get(o, k)) => r = Same(o)
      /\ Entries(p, k) \subseteq Entries(o, k)
      /\ HasProprietary(o) /\ IsList(Get(o, k)) => Sources(p) = {}
      /\ HasProprietary(o) /\ Sources(o) = {} => r.n = 0
  BY RemoveSourceReferencesEffect
<1>2. Same(o).n = 0 /\ Same(o).obj = o
  BY DEF Same
<1>. HIDE DEF r
<1>3. SourceSettled(p) /\ (SourceSettled(o) => r.n = 0)
  BY <1>1, <1>2 DEF SourceSettled, Bare
<1>4. OnlySources(o) => OnlySources(p)
  BY <1>1 DEF OnlySources
<1>5. Shrinks(o, p, k) /\ SameAt(o, p, "properties") /\ SameAt(o, p, "licenses")
  <2>1. AlikeBut(o, p, {k})
    BY <1>1 DEF Change
  <2>2. CASE IsList(Get(o, k))
    BY <1>1, <2>1, <2>2 DEF Shrinks, AlikeBut
  <2>3. CASE ~IsList(Get(o, k))
    <3>1. SameAt(o, p, k)
      BY <1>1, <1>2, <2>3 DEF SameAt
    <3>. QED  BY <2>1, <3>1 DEF Shrinks, AlikeBut
  <2>. QED  BY <2>2, <2>3
<1>6. ASSUME ProviderSettled(opt, o) PROVE ProviderSettled(opt, p)
  <2>1. CASE Filled(o) \/ Odd(Get(o, "properties"))
    BY <1>5, <2>1, SameForms DEF ProviderSettled
  <2>2. CASE \A x \in ToSet(opt.provided_by_patterns) : Matches(x, o) => x.field = "licenses" /\ LicenceAdded(opt, o)
    <3>1. LicenceAdded(opt, o) => LicenceAdded(opt, p)
      BY <1>1 DEF LicenceAdded
    <3>2. \A x \in ToSet(opt.provided_by_patterns) : Matches(x, p) => Matches(x, o)
      BY <1>5, ShrinksMatch
    <3>. QED  BY <2>2, <3>1, <3>2 DEF ProviderSettled
  <2>. QED  BY <1>6, <2>1, <2>2 DEF ProviderSettled
<1>7. LicenceSettled(opt, o) => LicenceSettled(opt, p)
  <2>1. Matched(p, opt.add_patterns) => Matched(o, opt.add_patterns)
    BY <1>5, ShrinksMatched
  <2>. QED  BY <1>5, <2>1, SameForms DEF LicenceSettled
<1>. QED  BY <1>3, <1>4, <1>6, <1>7 DEF r

\* What rule j finds when it has nothing to do.
QuietAt(opt, j, o) ==
  CASE j = 8 -> OnlySources(o)
    [] j = 9 -> OnlyGost(o)
    [] j = 10 -> GostComplete(o)
    [] j = 11 -> ProviderSettled(opt, o)
    [] j = 12 -> QuietNonProprietary(o)
    [] j = 13 -> LicenceSettled(opt, o)
    [] j = 14 -> SourceSettled(o)

\* The form of each rule by its place.
LEMMA QuietForms ==
  ASSUME NEW opt, NEW o
  PROVE  /\ QuietAt(opt, 8, o) <=> OnlySources(o)
         /\ QuietAt(opt, 9, o) <=> OnlyGost(o)
         /\ QuietAt(opt, 10, o) <=> GostComplete(o)
         /\ QuietAt(opt, 11, o) <=> ProviderSettled(opt, o)
         /\ QuietAt(opt, 12, o) <=> QuietNonProprietary(o)
         /\ QuietAt(opt, 13, o) <=> LicenceSettled(opt, o)
         /\ QuietAt(opt, 14, o) <=> SourceSettled(o)
  BY DEF QuietAt

\* A rule of a component leaves nothing for itself to do, and nothing for the rules before it;
\* where it finds nothing to do it does nothing (sbom/fixer.py, the rules of a component).
SettlesAt(opt, i, o, r) ==
  /\ QuietAt(opt, i, r.obj)
  /\ \A j \in 8..14 : j < i /\ QuietAt(opt, j, o) => QuietAt(opt, j, r.obj)
  /\ QuietAt(opt, i, o) => r.n = 0 \/ (i = 11 /\ AgainOnLicences(opt) /\ HasProprietary(o))
  /\ ~Odd(Get(o, "licenses")) => ~Odd(Get(r.obj, "licenses"))

\* A rule settles its own form and keeps those of the rules before it, one by one.
LEMMA SettlesIf ==
  ASSUME NEW opt, NEW i, NEW o, NEW r, QuietAt(opt, i, r.obj),
         QuietAt(opt, i, o) => r.n = 0 \/ (i = 11 /\ AgainOnLicences(opt) /\ HasProprietary(o)),
         ~Odd(Get(o, "licenses")) => ~Odd(Get(r.obj, "licenses")),
         NEW n, n = i, i \in 8..14,
         n > 8 /\ QuietAt(opt, 8, o) => QuietAt(opt, 8, r.obj),
         n > 9 /\ QuietAt(opt, 9, o) => QuietAt(opt, 9, r.obj),
         n > 10 /\ QuietAt(opt, 10, o) => QuietAt(opt, 10, r.obj),
         n > 11 /\ QuietAt(opt, 11, o) => QuietAt(opt, 11, r.obj),
         n > 12 /\ QuietAt(opt, 12, o) => QuietAt(opt, 12, r.obj),
         n > 13 /\ QuietAt(opt, 13, o) => QuietAt(opt, 13, r.obj)
  PROVE  SettlesAt(opt, i, o, r)
<1>1. ASSUME NEW j \in 8..14, j < i, QuietAt(opt, j, o) PROVE QuietAt(opt, j, r.obj)
  <2>1. \/ (j = 8 /\ n > 8)
        \/ (j = 9 /\ n > 9)
        \/ (j = 10 /\ n > 10)
        \/ (j = 11 /\ n > 11)
        \/ (j = 12 /\ n > 12)
        \/ (j = 13 /\ n > 13)
    BY <1>1
  <2>. QED  BY <1>1, <2>1
<1>. QED  BY <1>1 DEF SettlesAt

\* Every rule of a component leaves the form it has nothing to do about, and keeps the forms of
\* the rules before it (sbom/fixer.py, the order of RULES).
LEMMA RuleSettles ==
  ASSUME NEW opt, IsOptions(opt), NEW i \in 8..14, RuleAt(i) \in opt.rules, NEW o, Obj(o)
  PROVE  SettlesAt(opt, i, o, ComponentRule(RuleAt(i), o, opt))
<1>. DEFINE r == ComponentRule(RuleAt(i), o, opt)
            p == r.obj
<1>1. ProvidedPatterns(opt)
  BY DEF IsOptions, ProvidedPatterns
<1>8. CASE i = 8
  <2>1. r = FilterExternalReferences(o)
    BY <1>8 DEF RuleAt, ComponentRule
  <2>. HIDE DEF r
  <2>2. OnlySources(p) /\ (OnlySources(o) => r.n = 0) /\ SameAt(o, p, "licenses")
    BY <2>1, FilterReferencesSettles, FilterExternalReferencesKeeps DEF Change, AlikeBut
  <2>40. QuietAt(opt, i, p) /\ (QuietAt(opt, i, o) => r.n = 0 \/ (i = 11 /\ AgainOnLicences(opt) /\ HasProprietary(o)))
    BY <1>8, <2>2, QuietForms
  <2>41. ~Odd(Get(o, "licenses")) => ~Odd(Get(p, "licenses"))
    BY <2>2, SameForms
  <2>. QED  BY <1>8, <2>40, <2>41, SettlesIf DEF r
<1>9. CASE i = 9
  <2>1. r = FilterProperties(o)
    BY <1>9 DEF RuleAt, ComponentRule
  <2>. HIDE DEF r
  <2>2. /\ OnlyGost(p) /\ (OnlyGost(o) => r.n = 0)
        /\ SameAt(o, p, "licenses") /\ SameAt(o, p, "externalReferences")
    BY <2>1, FilterPropertiesSettles, FilterPropertiesKeeps DEF Change, AlikeBut
  <2>28. QuietAt(opt, 8, o) => QuietAt(opt, 8, p)
    BY <2>2, QuietForms, SameForms
  <2>40. QuietAt(opt, i, p) /\ (QuietAt(opt, i, o) => r.n = 0 \/ (i = 11 /\ AgainOnLicences(opt) /\ HasProprietary(o)))
    BY <1>9, <2>2, QuietForms
  <2>41. ~Odd(Get(o, "licenses")) => ~Odd(Get(p, "licenses"))
    BY <2>2, SameForms
  <2>. QED  BY <1>9, <2>28, <2>40, <2>41, SettlesIf DEF r
<1>10. CASE i = 10
  <2>1. r = FillGostProperties(o)
    BY <1>10 DEF RuleAt, ComponentRule
  <2>. HIDE DEF r
  <2>2. /\ GostComplete(p) /\ (GostComplete(o) => r.n = 0) /\ (OnlyGost(o) => OnlyGost(p))
        /\ SameAt(o, p, "licenses") /\ SameAt(o, p, "externalReferences")
    BY <2>1, FillPropertiesSettles, FillGostPropertiesKeeps DEF Change, AlikeBut
  <2>28. QuietAt(opt, 8, o) => QuietAt(opt, 8, p)
    BY <2>2, QuietForms, SameForms
  <2>29. QuietAt(opt, 9, o) => QuietAt(opt, 9, p)
    BY <2>2, QuietForms, SameForms
  <2>40. QuietAt(opt, i, p) /\ (QuietAt(opt, i, o) => r.n = 0 \/ (i = 11 /\ AgainOnLicences(opt) /\ HasProprietary(o)))
    BY <1>10, <2>2, QuietForms
  <2>41. ~Odd(Get(o, "licenses")) => ~Odd(Get(p, "licenses"))
    BY <2>2, SameForms
  <2>. QED  BY <1>10, <2>28, <2>29, <2>40, <2>41, SettlesIf DEF r
<1>11. CASE i = 11
  <2>1. r = AddProvidedBy(o, opt.provided_by_patterns)
    BY <1>11 DEF RuleAt, ComponentRule
  <2>. HIDE DEF r
  <2>2. /\ ProviderSettled(opt, p)
        /\ ProviderSettled(opt, o) => r.n = 0 \/ (AgainOnLicences(opt) /\ HasProprietary(o))
        /\ OnlyGost(o) => OnlyGost(p)
        /\ GostComplete(o) => GostComplete(p)
    BY <1>1, <2>1, AddProvidedBySettles
  <2>4. SameAt(o, p, "licenses") /\ SameAt(o, p, "externalReferences")
    BY <1>1, <2>1, AddProvidedByKeeps DEF Change, AlikeBut, ProvidedPatterns
  <2>28. QuietAt(opt, 8, o) => QuietAt(opt, 8, p)
    BY <2>2, <2>4, QuietForms, SameForms
  <2>29. QuietAt(opt, 9, o) => QuietAt(opt, 9, p)
    BY <2>2, <2>4, QuietForms, SameForms
  <2>30. QuietAt(opt, 10, o) => QuietAt(opt, 10, p)
    BY <2>2, <2>4, QuietForms, SameForms
  <2>40. QuietAt(opt, i, p) /\ (QuietAt(opt, i, o) => r.n = 0 \/ (i = 11 /\ AgainOnLicences(opt) /\ HasProprietary(o)))
    BY <1>11, <2>2, <2>4, QuietForms
  <2>41. ~Odd(Get(o, "licenses")) => ~Odd(Get(p, "licenses"))
    BY <2>2, <2>4, SameForms
  <2>. QED  BY <1>11, <2>28, <2>29, <2>30, <2>40, <2>41, SettlesIf DEF r
<1>12. CASE i = 12
  <2>1. r = FilterNonProprietary(o)
    BY <1>12 DEF RuleAt, ComponentRule
  <2>. HIDE DEF r
  <2>2. /\ QuietNonProprietary(p) /\ (QuietNonProprietary(o) => r.n = 0)
        /\ ProviderSettled(opt, o) => ProviderSettled(opt, p)
    BY <2>1, FilterLicencesSettles
  <2>3. SameAt(o, p, "properties") /\ SameAt(o, p, "externalReferences")
    BY <2>1, FilterNonProprietaryEffect, Zenon DEF Change, AlikeBut
  <2>4. ~Odd(Get(o, "licenses")) => ~Odd(Get(p, "licenses"))
    <3>1. SameAt(o, p, "licenses") \/ Get(p, "licenses") = Absent \/ IsList(Get(p, "licenses"))
      BY <2>1, FilterNonProprietaryEffect
    <3>. QED  BY <3>1, AbsentValue, SameForms DEF Odd, IsNone
  <2>28. QuietAt(opt, 8, o) => QuietAt(opt, 8, p)
    BY <2>2, <2>3, <2>4, QuietForms, SameForms
  <2>29. QuietAt(opt, 9, o) => QuietAt(opt, 9, p)
    BY <2>2, <2>3, <2>4, QuietForms, SameForms
  <2>30. QuietAt(opt, 10, o) => QuietAt(opt, 10, p)
    BY <2>2, <2>3, <2>4, QuietForms, SameForms
  <2>31. QuietAt(opt, 11, o) => QuietAt(opt, 11, p)
    BY <2>2, <2>3, <2>4, QuietForms, SameForms
  <2>40. QuietAt(opt, i, p) /\ (QuietAt(opt, i, o) => r.n = 0 \/ (i = 11 /\ AgainOnLicences(opt) /\ HasProprietary(o)))
    BY <1>12, <2>2, <2>3, <2>4, QuietForms
  <2>41. ~Odd(Get(o, "licenses")) => ~Odd(Get(p, "licenses"))
    BY <2>2, <2>3, <2>4, SameForms
  <2>. QED  BY <1>12, <2>28, <2>29, <2>30, <2>31, <2>40, <2>41, SettlesIf DEF r
<1>13. CASE i = 13
  <2>1. r = AddProprietary(o, opt.add_patterns) /\ RuleAt(i) = "add_proprietary"
    BY <1>13 DEF RuleAt, ComponentRule
  <2>. HIDE DEF r
  <2>2. /\ LicenceSettled(opt, p) /\ (LicenceSettled(opt, o) => r.n = 0)
        /\ QuietNonProprietary(o) => QuietNonProprietary(p)
        /\ ~Odd(Get(o, "licenses")) => ~Odd(Get(p, "licenses"))
        /\ ProviderSettled(opt, o) => ProviderSettled(opt, p)
    BY <2>1, AddLicenceSettles
  <2>3. SameAt(o, p, "properties") /\ SameAt(o, p, "externalReferences")
    BY <2>1, AddProprietaryEffect, Zenon DEF Change, AlikeBut
  <2>28. QuietAt(opt, 8, o) => QuietAt(opt, 8, p)
    BY <2>2, <2>3, QuietForms, SameForms
  <2>29. QuietAt(opt, 9, o) => QuietAt(opt, 9, p)
    BY <2>2, <2>3, QuietForms, SameForms
  <2>30. QuietAt(opt, 10, o) => QuietAt(opt, 10, p)
    BY <2>2, <2>3, QuietForms, SameForms
  <2>31. QuietAt(opt, 11, o) => QuietAt(opt, 11, p)
    BY <2>2, <2>3, QuietForms, SameForms
  <2>32. QuietAt(opt, 12, o) => QuietAt(opt, 12, p)
    BY <2>2, <2>3, QuietForms, SameForms
  <2>40. QuietAt(opt, i, p) /\ (QuietAt(opt, i, o) => r.n = 0 \/ (i = 11 /\ AgainOnLicences(opt) /\ HasProprietary(o)))
    BY <1>13, <2>2, <2>3, QuietForms
  <2>41. ~Odd(Get(o, "licenses")) => ~Odd(Get(p, "licenses"))
    BY <2>2, <2>3, SameForms
  <2>. QED  BY <1>13, <2>28, <2>29, <2>30, <2>31, <2>32, <2>40, <2>41, SettlesIf DEF r
<1>14. CASE i = 14
  <2>1. r = RemoveProprietarySourceReferences(o)
    BY <1>14 DEF RuleAt, ComponentRule
  <2>. HIDE DEF r
  <2>2. /\ SourceSettled(p) /\ (SourceSettled(o) => r.n = 0)
        /\ OnlySources(o) => OnlySources(p)
        /\ ProviderSettled(opt, o) => ProviderSettled(opt, p)
        /\ LicenceSettled(opt, o) => LicenceSettled(opt, p)
    BY <2>1, RemoveSourcesSettles
  <2>3. SameAt(o, p, "properties") /\ SameAt(o, p, "licenses")
    BY <2>1, RemoveSourceReferencesEffect, Zenon DEF Change, AlikeBut
  <2>28. QuietAt(opt, 8, o) => QuietAt(opt, 8, p)
    BY <2>2, <2>3, QuietForms, SameForms
  <2>29. QuietAt(opt, 9, o) => QuietAt(opt, 9, p)
    BY <2>2, <2>3, QuietForms, SameForms
  <2>30. QuietAt(opt, 10, o) => QuietAt(opt, 10, p)
    BY <2>2, <2>3, QuietForms, SameForms
  <2>31. QuietAt(opt, 11, o) => QuietAt(opt, 11, p)
    BY <2>2, <2>3, QuietForms, SameForms
  <2>32. QuietAt(opt, 12, o) => QuietAt(opt, 12, p)
    BY <2>2, <2>3, QuietForms, SameForms
  <2>33. QuietAt(opt, 13, o) => QuietAt(opt, 13, p)
    BY <2>2, <2>3, QuietForms, SameForms
  <2>40. QuietAt(opt, i, p) /\ (QuietAt(opt, i, o) => r.n = 0 \/ (i = 11 /\ AgainOnLicences(opt) /\ HasProprietary(o)))
    BY <1>14, <2>2, <2>3, QuietForms
  <2>41. ~Odd(Get(o, "licenses")) => ~Odd(Get(p, "licenses"))
    BY <2>2, <2>3, SameForms
  <2>. QED  BY <1>14, <2>28, <2>29, <2>30, <2>31, <2>32, <2>33, <2>40, <2>41, SettlesIf DEF r
<1>. QED  BY <1>8, <1>9, <1>10, <1>11, <1>12, <1>13, <1>14

\* Where the members that the rules look at are the same, or all but a licence that is gone.
LEMMA QuietAlike ==
  ASSUME NEW opt, NEW j \in 8..14, NEW o, NEW p, AlikeBut(o, p, {}), QuietAt(opt, j, o)
  PROVE  QuietAt(opt, j, p)
<1>1. \A k : SameAt(o, p, k)
  BY DEF AlikeBut
<1>2. \A x : Matches(x, p) <=> Matches(x, o)
  BY <1>1 DEF Matches, FieldContains, SameAt
<1>3. ProviderSettled(opt, o) => ProviderSettled(opt, p)
  BY <1>1, <1>2, SameForms DEF ProviderSettled, LicenceAdded
<1>4. LicenceSettled(opt, o) => LicenceSettled(opt, p)
  BY <1>1, <1>2, SameForms DEF LicenceSettled, Matched
<1>0. SameAt(o, p, "externalReferences") /\ SameAt(o, p, "properties") /\ SameAt(o, p, "licenses")
  BY <1>1
<1>5. SourceSettled(o) => SourceSettled(p)
  BY <1>0, SameForms DEF SourceSettled
<1>7. (OnlySources(o) => OnlySources(p)) /\ (OnlyGost(o) => OnlyGost(p)) /\ (GostComplete(o) => GostComplete(p))
      /\ (QuietNonProprietary(o) => QuietNonProprietary(p))
  BY <1>0, SameForms
<1>6. j = 8 \/ j = 9 \/ j = 10 \/ j = 11 \/ j = 12 \/ j = 13 \/ j = 14
  OBVIOUS
<1>. QED  BY <1>7, <1>3, <1>4, <1>5, <1>6, QuietForms

\* The removal of the licences disturbs the form of no rule but the one that adds them.
LEMMA QuietWithoutLicences ==
  ASSUME NEW opt, NEW j \in 8..14, NEW o, NEW p, AlikeBut(o, p, {"licenses"}), Get(p, "licenses") = Absent,
         j # 13, QuietAt(opt, j, o)
  PROVE  QuietAt(opt, j, p)
<1>1. SameAt(o, p, "externalReferences") /\ SameAt(o, p, "properties")
  BY DEF AlikeBut
<1>2. ~IsList(Get(p, "licenses"))
  BY AbsentValue DEF IsList
<1>3. QuietNonProprietary(p) /\ SourceSettled(p)
  BY <1>2 DEF QuietNonProprietary, SourceSettled, HasProprietary
<1>4. ASSUME ProviderSettled(opt, o) PROVE ProviderSettled(opt, p)
  <2>1. CASE Filled(o) \/ Odd(Get(o, "properties"))
    BY <1>1, <2>1, SameForms DEF ProviderSettled
  <2>2. CASE \A x \in ToSet(opt.provided_by_patterns) : Matches(x, o) => x.field = "licenses" /\ LicenceAdded(opt, o)
    <3>. SUFFICES ASSUME NEW x \in ToSet(opt.provided_by_patterns), Matches(x, p) PROVE FALSE
      BY DEF ProviderSettled
    <3>1. FieldContains(p, x.field, x.pattern)
      BY DEF Matches
    <3>2. x.field # "licenses"
      BY <3>1, AbsentValue DEF FieldContains, IsNone
    <3>3. SameAt(o, p, x.field)
      BY <3>2 DEF AlikeBut
    <3>4. Matches(x, o)
      BY <3>3 DEF Matches, FieldContains, SameAt
    <3>. QED  BY <2>2, <3>2, <3>4
  <2>. QED  BY <1>4, <2>1, <2>2 DEF ProviderSettled
<1>6. j = 8 \/ j = 9 \/ j = 10 \/ j = 11 \/ j = 12 \/ j = 14
  OBVIOUS
<1>7. (OnlySources(o) => OnlySources(p)) /\ (OnlyGost(o) => OnlyGost(p)) /\ (GostComplete(o) => GostComplete(p))
  BY <1>1, SameForms
<1>. QED  BY <1>3, <1>4, <1>6, <1>7, QuietForms

\* A component after the rules up to i of the first fix: none of them has anything left to do.
Settled(opt, i, o) == \A j \in 8..14 : j <= i /\ RuleAt(j) \in opt.rules => QuietAt(opt, j, o)

\* After the rule at place i the object has the forms of the rules up to i.
LEMMA SettledStep ==
  ASSUME NEW opt, IsOptions(opt), NEW i \in 8..14, NEW o, Obj(o), Settled(opt, i - 1, o)
  PROVE  IF RuleAt(i) \in opt.rules THEN Settled(opt, i, ComponentRule(RuleAt(i), o, opt).obj)
         ELSE Settled(opt, i, o)
<1>. DEFINE r == ComponentRule(RuleAt(i), o, opt)
<1>1. CASE RuleAt(i) \in opt.rules
  <2>1. SettlesAt(opt, i, o, r)
    BY <1>1, RuleSettles
  <2>. HIDE DEF r
  <2>2. ASSUME NEW j \in 8..14, j <= i, RuleAt(j) \in opt.rules PROVE QuietAt(opt, j, r.obj)
    <3>1. CASE j = i
      BY <2>1, <3>1 DEF SettlesAt
    <3>2. CASE j < i
      <4>1. QuietAt(opt, j, o)
        BY <2>2, <3>2 DEF Settled
      <4>. QED  BY <2>1, <3>2, <4>1 DEF SettlesAt
    <3>. QED  BY <2>2, <3>1, <3>2
  <2>. QED  BY <1>1, <2>2 DEF Settled, r
<1>2. CASE RuleAt(i) \notin opt.rules
  <2>1. ASSUME NEW j \in 8..14, j <= i, RuleAt(j) \in opt.rules PROVE QuietAt(opt, j, o)
    <3>1. j # i
      BY <1>2, <2>1
    <3>. QED  BY <2>1, <3>1 DEF Settled
  <2>. QED  BY <1>2, <2>1 DEF Settled
<1>. QED  BY <1>1, <1>2

\* A component in the second fix, after the rules up to i of it.  If the licences were to be
\* removed there is none until a rule adds one, and that one exempts the component from sources
\* that are not there any more.
Ready(opt, a, i, o) ==
  /\ \A j \in 8..14 : RuleAt(j) \in opt.rules /\ (j # 13 \/ Licences \notin a) => QuietAt(opt, j, o)
  /\ Licences \in a /\ i < 13 =>
       /\ ~HasProprietary(o)
       /\ RuleAt(13) \in opt.rules /\ RuleAt(14) \in opt.rules /\ Matched(o, opt.add_patterns) => Bare(o)
\* What a rule may still do in the second fix.
Excused(opt, a, i) == (i = 13 /\ Licences \in a) \/ (i = 11 /\ AgainOnLicences(opt))

\* The members of a component, but for the ones rule 11 and rule 13 write.
LEMMA RuleMembers ==
  ASSUME NEW opt, IsOptions(opt), NEW o, Obj(o)
  PROVE  /\ RuleAt(11) \in opt.rules =>
              LET p == ComponentRule(RuleAt(11), o, opt).obj
              IN SameAt(o, p, "licenses") /\ SameAt(o, p, "externalReferences")
         /\ RuleAt(13) \in opt.rules =>
              LET r == ComponentRule(RuleAt(13), o, opt)
                  p == r.obj
              IN /\ SameAt(o, p, "properties") /\ SameAt(o, p, "externalReferences")
                 /\ r.n = 0 \/ Matched(o, opt.add_patterns)
                 /\ p = o \/ \E v : p = Put(o, "licenses", v)
<1>1. ASSUME RuleAt(11) \in opt.rules
      PROVE  LET p == ComponentRule(RuleAt(11), o, opt).obj
             IN SameAt(o, p, "licenses") /\ SameAt(o, p, "externalReferences")
  <2>1. ComponentRule(RuleAt(11), o, opt) = AddProvidedBy(o, opt.provided_by_patterns)
    BY DEF RuleAt, ComponentRule
  <2>2. IsPatterns(opt.provided_by_patterns, {"field", "pattern", "provided_by"})
    BY DEF IsOptions
  <2>. QED  BY <2>1, <2>2, AddProvidedByKeeps, Zenon DEF Change, AlikeBut
<1>2. ASSUME RuleAt(13) \in opt.rules
      PROVE  LET r == ComponentRule(RuleAt(13), o, opt)
                 p == r.obj
             IN /\ SameAt(o, p, "properties") /\ SameAt(o, p, "externalReferences")
                /\ r.n = 0 \/ Matched(o, opt.add_patterns)
                /\ p = o \/ \E v : p = Put(o, "licenses", v)
  <2>. DEFINE r == AddProprietary(o, opt.add_patterns)
              p == r.obj
              new == <<<<"license", "Proprietary">>>>
  <2>1. ComponentRule(RuleAt(13), o, opt) = r
    BY DEF RuleAt, ComponentRule
  <2>2. r = Same(o) \/ r = Extended(o, "licenses", new)
    BY AddProprietaryForm
  <2>3. Change(o, "licenses", r) /\ (r = Same(o) \/ Matched(o, opt.add_patterns))
    BY AddProprietaryEffect
  <2>4. Same(o).n = 0 /\ Same(o).obj = o
    BY DEF Same
  <2>. HIDE DEF r
  <2>5. Extended(o, "licenses", new) = Same(o)
        \/ \E v : Extended(o, "licenses", new).obj = Put(o, "licenses", v)
    BY DEF Extended
  <2>6. SameAt(o, p, "properties") /\ SameAt(o, p, "externalReferences")
    BY <2>3 DEF Change, AlikeBut
  <2>7. p = o \/ \E v : p = Put(o, "licenses", v)
    BY <2>2, <2>4, <2>5
  <2>. QED  BY <2>1, <2>3, <2>4, <2>6, <2>7
<1>. QED  BY <1>1, <1>2

\* A rule of the second fix finds nothing to do in an object the first fix left, save where a
\* removed licence is added again and what follows from that.
LEMMA ReadyStep ==
  ASSUME NEW opt, IsOptions(opt), NEW a, NEW i \in 8..14, RuleAt(i) \in opt.rules, NEW o, Obj(o),
         Ready(opt, a, i - 1, o)
  PROVE  LET r == ComponentRule(RuleAt(i), o, opt)
         IN Ready(opt, a, i, r.obj) /\ (r.n = 0 \/ Excused(opt, a, i))
<1>. DEFINE r == ComponentRule(RuleAt(i), o, opt)
            p == r.obj
<1>1. SettlesAt(opt, i, o, r) /\ (r.n = 0 => p = o)
  BY RuleSettles, ComponentRuleKeeps
<1>2. Ready(opt, a, i, o)
  BY DEF Ready
<1>3. \A j \in 8..14 : RuleAt(j) \in opt.rules /\ (j # 13 \/ Licences \notin a) => QuietAt(opt, j, o)
  BY DEF Ready
<1>4. CASE r.n = 0
  <2>1. p = o
    BY <1>1, <1>4
  <2>. HIDE DEF r
  <2>. QED  BY <1>2, <1>4, <2>1 DEF r
<1>5. CASE r.n # 0 /\ (i # 13 \/ Licences \notin a)
  <2>. HIDE DEF r
  <2>1. i = 11 /\ AgainOnLicences(opt) /\ HasProprietary(o)
    BY <1>1, <1>3, <1>5 DEF SettlesAt
  <2>2. Licences \notin a
    BY <2>1 DEF Ready
  <2>3. SameAt(o, p, "licenses") /\ SameAt(o, p, "externalReferences")
    BY <2>1, RuleMembers DEF r
  <2>4. HasProprietary(p) /\ (QuietNonProprietary(o) => QuietNonProprietary(p)) /\ (Bare(o) => Bare(p))
    BY <2>1, <2>3, SameForms
  <2>5. ASSUME NEW j \in 8..14, RuleAt(j) \in opt.rules PROVE QuietAt(opt, j, p)
    <3>1. QuietAt(opt, j, o)
      BY <1>3, <2>2, <2>5
    <3>2. CASE j < i
      BY <1>1, <3>1, <3>2 DEF SettlesAt
    <3>3. CASE j = i
      BY <1>1, <3>3 DEF SettlesAt
    <3>4. CASE j = 12
      BY <2>4, <3>1, <3>4, QuietForms
    <3>5. CASE j = 13
      BY <2>4, <3>5, QuietForms DEF LicenceSettled
    <3>6. CASE j = 14
      BY <2>1, <2>4, <3>1, <3>6, QuietForms DEF SourceSettled
    <3>. QED  BY <2>1, <3>2, <3>3, <3>4, <3>5, <3>6
  <2>. QED  BY <2>1, <2>2, <2>5 DEF Ready, Excused, r
<1>6. CASE r.n # 0 /\ i = 13 /\ Licences \in a
  <2>. HIDE DEF r
  <2>1. SameAt(o, p, "externalReferences") /\ Matched(o, opt.add_patterns)
    BY <1>6, RuleMembers DEF r
  <2>2. Bare(o) => Bare(p)
    BY <2>1, SameForms
  <2>3. ASSUME NEW j \in 8..14, RuleAt(j) \in opt.rules, j # 13 PROVE QuietAt(opt, j, p)
    <3>1. CASE j < 13
      <4>1. QuietAt(opt, j, o)
        BY <1>3, <2>3
      <4>. QED  BY <1>1, <1>6, <3>1, <4>1 DEF SettlesAt
    <3>2. CASE j = 14
      <4>1. Bare(o)
        BY <1>6, <2>1, <2>3, <3>2 DEF Ready
      <4>. QED  BY <2>2, <3>2, <4>1, QuietForms DEF SourceSettled
    <3>. QED  BY <2>3, <3>1, <3>2
  <2>4. Excused(opt, a, i)
    BY <1>6 DEF Excused
  <2>5. Ready(opt, a, i, p)
    BY <1>6, <2>3 DEF Ready
  <2>. QED  BY <2>4, <2>5 DEF r
<1>. QED  BY <1>4, <1>5, <1>6

\* The order of the members, as long as only a licence is added.
LEMMA ReadyOrder ==
  ASSUME NEW opt, IsOptions(opt), NEW i \in 8..14, RuleAt(i) \in opt.rules, NEW o, Obj(o),
         InPlace(o, ComponentPriority), ComponentRule(RuleAt(i), o, opt).n = 0 \/ i = 13
  PROVE  InPlace(ComponentRule(RuleAt(i), o, opt).obj, ComponentPriority)
<1>. DEFINE r == ComponentRule(RuleAt(i), o, opt)
            p == r.obj
<1>1. r.n = 0 => p = o
  BY ComponentRuleKeeps
<1>2. i = 13 => p = o \/ \E v : p = Put(o, "licenses", v)
  BY RuleMembers
<1>. HIDE DEF r
<1>3. "licenses" \notin ToSet(ComponentPriority)
  BY DEF ComponentPriority, ToSet
<1>4. r.n = 0 \/ i = 13
  BY DEF r
<1>5. p = o \/ \E v : p = Put(o, "licenses", v)
  BY <1>1, <1>2, <1>4
<1>6. InPlace(p, ComponentPriority)
  BY <1>3, <1>5, InPlacePut
<1>. QED  BY <1>6 DEF r

\* What the first fix leaves is ready for the second one once its fields have been removed.
LEMMA ReadyAgain ==
  ASSUME NEW opt, NEW a, NEW o, Settled(opt, 14, o), NEW p,
         IF Licences \in a
           THEN AlikeBut(o, p, {"licenses"}) /\ Get(p, "licenses") = Absent /\ ~Odd(Get(o, "licenses"))
           ELSE AlikeBut(o, p, {})
  PROVE  Ready(opt, a, 7, p)
<1>1. \A j \in 8..14 : RuleAt(j) \in opt.rules => QuietAt(opt, j, o)
  BY DEF Settled
<1>2. CASE Licences \notin a
  BY <1>1, <1>2, QuietAlike DEF Ready
<1>3. CASE Licences \in a
  <2>1. \A j \in 8..14 : RuleAt(j) \in opt.rules /\ j # 13 => QuietAt(opt, j, p)
    BY <1>1, <1>3, QuietWithoutLicences
  <2>2. ~HasProprietary(p)
    BY <1>3, AbsentValue DEF HasProprietary, IsList
  <2>3. ASSUME RuleAt(13) \in opt.rules, RuleAt(14) \in opt.rules, Matched(p, opt.add_patterns)
        PROVE  Bare(p)
    <3>1. Shrinks(o, p, "licenses") /\ SameAt(o, p, "externalReferences")
      BY <1>3 DEF Shrinks, AlikeBut
    <3>2. Matched(o, opt.add_patterns)
      BY <2>3, <3>1, ShrinksMatched
    <3>3. LicenceSettled(opt, o) /\ SourceSettled(o)
      BY <1>1, <2>3, QuietForms
    <3>4. Bare(o)
      BY <1>3, <3>2, <3>3 DEF LicenceSettled, SourceSettled
    <3>. QED  BY <3>1, <3>4, SameForms
  <2>. QED  BY <1>3, <2>1, <2>2, <2>3 DEF Ready
<1>. QED  BY <1>2, <1>3

-----------------------------------------------------------------------------
(* The root and the metadata in a second fix.                              *)

\* The root and the metadata after a fix: the rules before those of the components have nothing
\* left to do, but for the version that is counted up each time.
FrameSettled(opt, d) ==
  /\ RuleAt(1) \in opt.rules => Get(d.root, "specVersion") = V(opt.spec_version)
  /\ RuleAt(3) \in opt.rules => ~(HasMetadata(d) /\ Get(d.meta, "timestamp").kind \in {"absent", "null", "blank"})
  /\ RuleAt(4) \in opt.rules => (HasMain(d) => HasManufacturer(d))
FrameInOrder(d) ==
  InPlace(d.root, RootPriority) /\ InPlace(d.meta, MetadataPriority) /\ InPlace(d.main, MainPriority)

\* Both depend on the root and the metadata only.
LEMMA SameFrame ==
  ASSUME NEW opt, NEW d, NEW e, e.root = d.root, e.meta = d.meta, e.main = d.main
  PROVE  /\ FrameSettled(opt, d) => FrameSettled(opt, e)
         /\ FrameInOrder(d) => FrameInOrder(e)
  BY DEF FrameSettled, FrameInOrder, HasMetadata, HasMain, HasManufacturer

\* What a later stage keeps of the frame.
LEMMA FrameLater ==
  ASSUME NEW opt, NEW d, NEW e, KeepsFrame(opt, d, e)
  PROVE  /\ Get(d.root, "specVersion") = V(opt.spec_version) => Get(e.root, "specVersion") = V(opt.spec_version)
         /\ HasMetadata(e) <=> HasMetadata(d)
         /\ HasMain(e) <=> HasMain(d)
         /\ Get(e.meta, "timestamp") \in {Get(d.meta, "timestamp"), V("now")}
         /\ HasManufacturer(d) => HasManufacturer(e)
<1>1. Get(e.root, "metadata") = Get(d.root, "metadata") /\ Get(e.meta, "component") = Get(d.meta, "component")
  BY DEF KeepsFrame, AlikeBut, SameAt
<1>. QED  BY <1>1 DEF KeepsFrame, HasMetadata, HasMain

\* A member that is put is there.
LEMMA PutGives ==
  ASSUME NEW o, Obj(o), NEW k, NEW v, IsValue(v)
  PROVE  Get(Put(o, k, v), k) = v
<1>. DEFINE p == Put(o, k, v)
<1>1. Obj(p) /\ AlikeBut(o, p, {k}) /\ k \in Keys(p) /\ Get(p, k) = v
  BY PutAlters
<1>. QED  BY <1>1

\* A fix leaves the root and the metadata in a form it has nothing to do about.
LEMMA FixSettlesFrame ==
  ASSUME NEW opt, IsOptions(opt), NEW b, Sound(b), NEW D, NEW r, Passes(D, b, opt, r)
  PROVE  FrameSettled(opt, D[15])
<1>. DEFINE e == D[15]
            now == V("now")
<1>0. /\ \A i \in 1..15 : Passed(b, D, opt, i)
      /\ \A i \in 1..15 : Follows(opt, D[i], e) /\ Sound(D[i - 1])
      /\ Pass(D[0], b, opt, 1) = SetSpecVersion(D[0], opt.spec_version)
      /\ Pass(D[2], b, opt, 3) = AddTimestamp(D[2])
      /\ Pass(D[3], b, opt, 4) = AddManufacturer(D[3])
  <2>1. \A i \in 1..15 : Passed(b, D, opt, i)
    BY DEF Passes
  <2>2. \A i \in 0..15 : Sound(D[i])
    BY StagesFollow DEF Follows
  <2>3. \A i \in 1..15 : Follows(opt, D[i], e)
    BY StagesFollow
  <2>4. \A i \in 1..15 : i - 1 \in 0..15
    OBVIOUS
  <2>. HIDE DEF e
  <2>. QED  BY <2>1, <2>2, <2>3, <2>4, PassForms
<1>. HIDE DEF e
<1>1. ASSUME RuleAt(1) \in opt.rules PROVE Get(e.root, "specVersion") = V(opt.spec_version)
  <2>1. D[1] = SetSpecVersion(D[0], opt.spec_version).doc /\ Sound(D[0]) /\ KeepsFrame(opt, D[1], e)
    BY <1>0, <1>1, 1 \in 1..15, 1 - 1 = 0 DEF Passed, Follows
  <2>2. D[1].root = Put(D[0].root, "specVersion", V(opt.spec_version))
    <3>1. D[0] = With(D[0], D[0].comps)
      BY <2>1, SoundObjects
    <3>. QED  BY <2>1, <3>1 DEF SetSpecVersion, With
  <2>3. Get(D[1].root, "specVersion") = V(opt.spec_version)
    <3>1. Obj(D[0].root) /\ IsValue(V(opt.spec_version))
      BY <2>1, SoundObjects, TextIsValue
    <3>2. Get(Put(D[0].root, "specVersion", V(opt.spec_version)), "specVersion") = V(opt.spec_version)
      BY <3>1, PutGives
    <3>. QED  BY <2>2, <3>2
  <2>. QED  BY <2>1, <2>3, FrameLater
<1>3. ASSUME RuleAt(3) \in opt.rules, HasMetadata(e)
      PROVE  Get(e.meta, "timestamp").kind \notin {"absent", "null", "blank"}
  <2>1. D[3] = AddTimestamp(D[2]).doc /\ Sound(D[2]) /\ KeepsFrame(opt, D[3], e)
    BY <1>0, <1>3, 3 \in 1..15, 3 - 1 = 2 DEF Passed, Follows
  <2>2. now.kind \notin {"absent", "null", "blank"}
    BY DEF V
  <2>3. Get(D[3].meta, "timestamp").kind \notin {"absent", "null", "blank"}
    <3>1. HasMetadata(D[3]) /\ D[2] = With(D[2], D[2].comps) /\ Obj(D[2].meta)
      BY <1>3, <2>1, FrameLater, SoundObjects
    <3>2. CASE HasMetadata(D[2]) /\ Get(D[2].meta, "timestamp").kind \in {"absent", "null", "blank"}
      <4>1. D[3] = [D[2] EXCEPT !.meta = Put(@, "timestamp", now)]
        BY <2>1, <3>2 DEF AddTimestamp
      <4>2. D[3].meta = Put(D[2].meta, "timestamp", now)
        BY <3>1, <4>1 DEF With
      <4>3. Get(D[3].meta, "timestamp") = now
        <5>1. IsValue(now)
          BY TextIsValue
        <5>. HIDE DEF now
        <5>2. Get(Put(D[2].meta, "timestamp", now), "timestamp") = now
          BY <3>1, <5>1, PutGives
        <5>. QED  BY <4>2, <5>2
      <4>. QED  BY <2>2, <4>3
    <3>3. CASE ~(HasMetadata(D[2]) /\ Get(D[2].meta, "timestamp").kind \in {"absent", "null", "blank"})
      <4>1. D[3] = D[2]
        BY <2>1, <3>3 DEF AddTimestamp
      <4>. QED  BY <3>1, <3>3, <4>1
    <3>. QED  BY <3>2, <3>3
  <2>4. Get(e.meta, "timestamp") \in {Get(D[3].meta, "timestamp"), now}
    BY <2>1, FrameLater
  <2>. QED  BY <2>2, <2>3, <2>4
<1>4. ASSUME RuleAt(4) \in opt.rules, HasMain(e) PROVE HasManufacturer(e)
  <2>1. D[4] = AddManufacturer(D[3]).doc /\ Sound(D[3]) /\ KeepsFrame(opt, D[4], e)
    BY <1>0, <1>4, 4 \in 1..15, 4 - 1 = 3 DEF Passed, Follows
  <2>2. HasMain(D[3]) => HasManufacturer(D[4])
    BY <2>1, AddManufacturerApplied
  <2>3. HasMain(D[3])
    <3>1. KeepsFrame(opt, D[3], D[4])
      BY <2>1, AddManufacturerApplied, Zenon DEF Applied, Follows
    <3>. QED  BY <1>4, <2>1, <3>1, FrameLater
  <2>. QED  BY <2>1, <2>2, <2>3, FrameLater
<1>. QED  BY <1>1, <1>3, <1>4 DEF FrameSettled, e

\* The first rules in a second fix: only the version is counted up.
LEMMA FrontAgain ==
  ASSUME NEW opt, IsOptions(opt), NEW b, NEW d, Sound(d), FrameSettled(opt, d), NEW i \in 1..4, RuleAt(i) \in opt.rules
  PROVE  LET r == Pass(d, b, opt, i)
         IN /\ r.n = 0 \/ i = 2
            /\ FrameSettled(opt, r.doc) /\ (FrameInOrder(d) => FrameInOrder(r.doc)) /\ r.doc.comps = d.comps
<1>. DEFINE r == Pass(d, b, opt, i)
            e == r.doc
<1>0. /\ d = With(d, d.comps) /\ Obj(d.root) /\ e.comps = d.comps
      /\ i = 1 => r = SetSpecVersion(d, opt.spec_version)
      /\ i = 2 => r = IncrementVersion(d)
      /\ i = 3 => r = AddTimestamp(d)
      /\ i = 4 => r = AddManufacturer(d)
  BY SoundObjects, FrontSame, PassForms
<1>1. r.n = 0 => e = d
  <2>1. i = 1 => Applied(opt, d, r)
    BY <1>0, SetSpecVersionApplied
  <2>2. i = 2 => Applied(opt, d, r)
    BY <1>0, IncrementVersionApplied
  <2>3. i = 3 => Applied(opt, d, r)
    BY <1>0, AddTimestampApplied
  <2>4. i = 4 => Applied(opt, d, r)
    BY <1>0, AddManufacturerApplied
  <2>. HIDE DEF r
  <2>5. Applied(opt, d, r)
    BY <2>1, <2>2, <2>3, <2>4
  <2>. QED  BY <2>5 DEF Applied
<1>. HIDE DEF r
<1>2. CASE i # 2
  <2>1. i = 1 => r.n = 0
    BY <1>0 DEF SetSpecVersion, FrameSettled
  <2>2. i = 3 => r.n = 0
    BY <1>0 DEF AddTimestamp, FrameSettled
  <2>3. i = 4 => r.n = 0
    BY <1>0 DEF AddManufacturer, FrameSettled
  <2>4. r.n = 0
    BY <1>2, <2>1, <2>2, <2>3
  <2>. QED  BY <1>0, <1>1, <2>4 DEF r
<1>3. CASE i = 2
  <2>. DEFINE v == Get(d.root, "version")
  <2>1. CASE v.kind # "int"
    <3>1. r.n = 0
      BY <1>0, <1>3, <2>1 DEF IncrementVersion
    <3>. QED  BY <1>0, <1>1, <3>1 DEF r
  <2>2. CASE v.kind = "int"
    <3>. DEFINE w == [v EXCEPT !.items = <<@[1] + 1>>]
    <3>1. e = [d EXCEPT !.root = Put(@, "version", w)]
      BY <1>0, <1>3, <2>2 DEF IncrementVersion
    <3>2. e.root = Put(d.root, "version", w) /\ e.meta = d.meta /\ e.main = d.main
      <4>. HIDE DEF w
      <4>. QED  BY <1>0, <3>1 DEF With
    <3>3. KeepsFrame(opt, d, e)
      BY <1>0, <1>3, IncrementVersionApplied, Zenon DEF Applied, Follows
    <3>4. "version" \in Keys(d.root)
      BY <2>2, AbsentValue DEF Get
    <3>. HIDE DEF w
    <3>5. FrameInOrder(d) => FrameInOrder(e)
      BY <1>0, <3>2, <3>4, InPlacePut DEF FrameInOrder
    <3>6. FrameSettled(opt, e)
      BY <3>2, <3>3, FrameLater DEF FrameSettled
    <3>. QED  BY <1>0, <1>3, <3>5, <3>6 DEF r
  <2>. QED  BY <2>1, <2>2
<1>. QED  BY <1>2, <1>3

-----------------------------------------------------------------------------
(* The components, through the passes of the first fix and of the second.  *)

EntriesSettled(opt, a, i, d) ==
  \A k \in DOMAIN d.comps :
    d.comps[k].dict => /\ Settled(opt, i, d.comps[k].obj)
                       /\ Licences \in a => ~Odd(Get(d.comps[k].obj, "licenses"))
EntriesReady(opt, a, i, d) ==
  \A k \in DOMAIN d.comps : d.comps[k].dict => Ready(opt, a, i, d.comps[k].obj)
EntriesInOrder(d) == \A k \in DOMAIN d.comps : InPlace(d.comps[k].obj, ComponentPriority)

\* What SettledStep says of one object holds for every entry of a document.
LEMMA SettledPass ==
  ASSUME NEW opt, IsOptions(opt), NEW a, NEW i \in 8..14, NEW d, Sound(d), EntriesSettled(opt, a, i - 1, d),
         NEW e, e = IF RuleAt(i) \in opt.rules THEN OnComponents(d, RuleAt(i), opt).doc ELSE d
  PROVE  EntriesSettled(opt, a, i, e)
<1>1. CASE RuleAt(i) \in opt.rules
  <2>1. /\ SameTree(d, e)
        /\ \A k \in DOMAIN d.comps :
             /\ e.comps[k].dict = d.comps[k].dict
             /\ d.comps[k].dict => e.comps[k].obj = ComponentRule(RuleAt(i), d.comps[k].obj, opt).obj
    BY <1>1, OnComponentsApplied, SMTT(30)
  <2>2. DOMAIN e.comps = DOMAIN d.comps
    BY <2>1 DEF SameTree
  <2>. SUFFICES ASSUME NEW k \in DOMAIN d.comps, d.comps[k].dict
                PROVE  /\ Settled(opt, i, e.comps[k].obj)
                       /\ Licences \in a => ~Odd(Get(e.comps[k].obj, "licenses"))
    BY <2>1, <2>2 DEF EntriesSettled
  <2>. DEFINE o == d.comps[k].obj
              r == ComponentRule(RuleAt(i), o, opt)
  <2>3. Obj(o) /\ e.comps[k].obj = r.obj
    BY <2>1, SoundObjects
  <2>4. Settled(opt, i - 1, o) /\ (Licences \in a => ~Odd(Get(o, "licenses")))
    BY DEF EntriesSettled
  <2>. HIDE DEF o
  <2>5. SettlesAt(opt, i, o, r) /\ Settled(opt, i, r.obj)
    BY <1>1, <2>3, <2>4, RuleSettles, SettledStep
  <2>. HIDE DEF r
  <2>. QED  BY <2>3, <2>4, <2>5 DEF SettlesAt
<1>2. CASE RuleAt(i) \notin opt.rules
  <2>. SUFFICES ASSUME NEW k \in DOMAIN d.comps, d.comps[k].dict
                PROVE  /\ Settled(opt, i, d.comps[k].obj)
                       /\ Licences \in a => ~Odd(Get(d.comps[k].obj, "licenses"))
    BY <1>2 DEF EntriesSettled
  <2>. DEFINE o == d.comps[k].obj
  <2>1. Obj(o)
    BY SoundObjects
  <2>2. Settled(opt, i - 1, o) /\ (Licences \in a => ~Odd(Get(o, "licenses")))
    BY DEF EntriesSettled
  <2>. HIDE DEF o
  <2>3. Settled(opt, i, o)
    BY <1>2, <2>1, <2>2, SettledStep
  <2>. QED  BY <2>2, <2>3 DEF o
<1>. QED  BY <1>1, <1>2

\* The components before the rules of components are some of those that came in.
LEMMA EarlyEntries ==
  ASSUME NEW opt, IsOptions(opt), NEW b, Sound(b), NEW D, NEW r, Passes(D, b, opt, r)
  PROVE  ToSet(D[7].comps) \subseteq ToSet(b.comps)
<1>1. D[4].comps = b.comps
  BY StageTrees
<1>2. ASSUME NEW i \in 5..7, NEW c \in ToSet(D[i].comps) PROVE c \in ToSet(D[i - 1].comps)
  <2>1. \A x : x \in ToSet(D[i].comps) <=> x \in ToSet(D[i - 1].comps) /\ ~Falls(opt, LeafIds(b), i, x)
    BY LeafStage
  <2>. QED  BY <1>2, <2>1
<1>3. /\ ToSet(D[5].comps) \subseteq ToSet(D[4].comps)
      /\ ToSet(D[6].comps) \subseteq ToSet(D[5].comps)
      /\ ToSet(D[7].comps) \subseteq ToSet(D[6].comps)
  <2>1. 5 - 1 = 4 /\ 6 - 1 = 5 /\ 7 - 1 = 6 /\ 5 \in 5..7 /\ 6 \in 5..7 /\ 7 \in 5..7
    OBVIOUS
  <2>. QED  BY <1>2, <2>1
<1>. QED  BY <1>1, <1>3

\* The stages of a fix, one by one.
LEMMA StageAt ==
  ASSUME NEW opt, IsOptions(opt), NEW b, Sound(b), NEW D, NEW r, Passes(D, b, opt, r), NEW i \in 1..15
  PROVE  /\ i - 1 \in 0..15 /\ Sound(D[i - 1]) /\ Sound(D[i]) /\ Follows(opt, b, D[i - 1])
         /\ D[i] = IF RuleAt(i) \in opt.rules THEN Pass(D[i - 1], b, opt, i).doc ELSE D[i - 1]
         /\ RuleAt(i) \in opt.rules => r[RuleAt(i)] = Pass(D[i - 1], b, opt, i).n
<1>1. i - 1 \in 0..15 /\ i \in 0..15
  BY i \in 1..15
<1>2. Follows(opt, b, D[i - 1]) /\ Follows(opt, b, D[i])
  BY <1>1, StagesFollow
<1>3. Passed(b, D, opt, i) /\ Counted(r, b, D, opt, i)
  BY DEF Passes
<1>. QED  BY <1>1, <1>2, <1>3 DEF Follows, Passed, Counted

\* A fix leaves the components with nothing to do for any of its rules.
LEMMA FixSettlesEntries ==
  ASSUME NEW opt, IsOptions(opt), NEW a, NEW b, Sound(b), NEW D, NEW r, Passes(D, b, opt, r),
         Licences \in a => \A c \in ToSet(b.comps) : c.dict => ~Odd(Get(c.obj, "licenses"))
  PROVE  /\ EntriesSettled(opt, a, 14, D[15])
         /\ RuleAt(15) \in opt.rules => FrameInOrder(D[15]) /\ EntriesInOrder(D[15])
<1>. DEFINE I == {n \in Nat : n <= 7 => EntriesSettled(opt, a, 7 + n, D[7 + n])}
<1>1. 0 \in I
  <2>. SUFFICES EntriesSettled(opt, a, 7, D[7])
    BY 7 + 0 = 7
  <2>. SUFFICES ASSUME NEW k \in DOMAIN D[7].comps, D[7].comps[k].dict
                PROVE  /\ Settled(opt, 7, D[7].comps[k].obj)
                       /\ Licences \in a => ~Odd(Get(D[7].comps[k].obj, "licenses"))
    BY DEF EntriesSettled
  <2>1. D[7].comps[k] \in ToSet(b.comps)
    BY EarlyEntries, InSet
  <2>2. \A j \in 8..14 : ~(j <= 7)
    OBVIOUS
  <2>. QED  BY <2>1, <2>2 DEF Settled
<1>2. \A n \in Nat : n \in I => n + 1 \in I
  <2>. SUFFICES ASSUME NEW n \in Nat, n + 1 <= 7, EntriesSettled(opt, a, 7 + n, D[7 + n])
                PROVE  EntriesSettled(opt, a, 7 + (n + 1), D[7 + (n + 1)])
    OBVIOUS
  <2>. DEFINE i == 7 + (n + 1)
  <2>1. i \in 8..14 /\ i \in 1..15 /\ i - 1 = 7 + n
    OBVIOUS
  <2>. HIDE DEF i
  <2>2. /\ Sound(D[i - 1])
        /\ D[i] = IF RuleAt(i) \in opt.rules THEN Pass(D[i - 1], b, opt, i).doc ELSE D[i - 1]
    BY <2>1, StageAt
  <2>3. Pass(D[i - 1], b, opt, i) = OnComponents(D[i - 1], RuleAt(i), opt)
    BY <2>1, PassForms
  <2>4. EntriesSettled(opt, a, i, D[i])
    BY <2>1, <2>2, <2>3, SettledPass
  <2>. QED  BY <2>4 DEF i
<1>. HIDE DEF I
<1>3. 7 \in I
  BY <1>1, <1>2, Induction
<1>4. EntriesSettled(opt, a, 14, D[14])
  BY <1>3, 7 + 7 = 14 DEF I
<1>5. /\ Sound(D[14])
      /\ D[15] = IF RuleAt(15) \in opt.rules THEN Reorder(D[14]).doc ELSE D[14]
  BY StageAt, PassForms, 15 \in 1..15, 15 - 1 = 14
<1>6. CASE RuleAt(15) \in opt.rules
  <2>. DEFINE d == D[14]
              e == D[15]
  <2>0. Sound(d) /\ e = Reorder(d).doc /\ EntriesSettled(opt, a, 14, d)
    BY <1>4, <1>5, <1>6
  <2>. HIDE DEF d, e
  <2>1. /\ SameTree(d, e) /\ e = Reordered(d)
        /\ \A k \in DOMAIN d.comps : e.comps[k].dict = d.comps[k].dict
                                     /\ e.comps[k].obj = InOrder(d.comps[k].obj, ComponentPriority)
                                     /\ AlikeBut(d.comps[k].obj, e.comps[k].obj, {})
    BY <2>0, ReorderApplied
  <2>2. /\ e.root = InOrder(d.root, RootPriority) /\ e.meta = InOrder(d.meta, MetadataPriority)
        /\ e.main = InOrder(d.main, MainPriority)
    BY <2>0, <2>1, ReorderedForm, Zenon
  <2>3. FrameInOrder(e)
    BY <2>0, <2>2, SoundObjects, PriorityKeys, InOrderInPlace DEF FrameInOrder
  <2>4. DOMAIN e.comps = DOMAIN d.comps
    BY <2>1 DEF SameTree
  <2>5. EntriesInOrder(e)
    BY <2>0, <2>1, <2>4, SoundObjects, PriorityKeys, InOrderInPlace DEF EntriesInOrder
  <2>6. EntriesSettled(opt, a, 14, e)
    <3>. SUFFICES ASSUME NEW k \in DOMAIN d.comps, d.comps[k].dict
                  PROVE  /\ Settled(opt, 14, e.comps[k].obj)
                         /\ Licences \in a => ~Odd(Get(e.comps[k].obj, "licenses"))
      BY <2>1, <2>4 DEF EntriesSettled
    <3>. DEFINE o == d.comps[k].obj
                p == e.comps[k].obj
    <3>1. Settled(opt, 14, o) /\ (Licences \in a => ~Odd(Get(o, "licenses"))) /\ AlikeBut(o, p, {})
      BY <2>0, <2>1 DEF EntriesSettled
    <3>. HIDE DEF o, p
    <3>2. Settled(opt, 14, p)
      BY <3>1, QuietAlike DEF Settled
    <3>3. Get(p, "licenses") = Get(o, "licenses")
      BY <3>1 DEF AlikeBut, SameAt
    <3>. QED  BY <3>1, <3>2, <3>3 DEF p
  <2>. QED  BY <2>3, <2>5, <2>6 DEF e
<1>7. CASE RuleAt(15) \notin opt.rules
  BY <1>4, <1>5, <1>7
<1>. QED  BY <1>6, <1>7

\* A rule of components in the second fix.
LEMMA AgainEntries ==
  ASSUME NEW opt, IsOptions(opt), NEW a, NEW i \in 8..14, RuleAt(i) \in opt.rules, NEW d, Sound(d),
         EntriesReady(opt, a, i - 1, d)
  PROVE  LET r == OnComponents(d, RuleAt(i), opt)
             e == r.doc
         IN /\ r.n = 0 \/ Excused(opt, a, i)
            /\ EntriesReady(opt, a, i, e)
            /\ EntriesInOrder(d) /\ ~AgainOnLicences(opt) => EntriesInOrder(e)
            /\ e.root = d.root /\ e.meta = d.meta /\ e.main = d.main
<1>. DEFINE r == OnComponents(d, RuleAt(i), opt)
            e == r.doc
<1>0. /\ SameTree(d, e) /\ e.root = d.root /\ e.meta = d.meta /\ e.main = d.main
      /\ \A k \in DOMAIN d.comps :
           /\ e.comps[k].dict = d.comps[k].dict
           /\ e.comps[k].obj = IF d.comps[k].dict THEN ComponentRule(RuleAt(i), d.comps[k].obj, opt).obj
                               ELSE d.comps[k].obj
      /\ (\A k \in Dicts(d) : ComponentRule(RuleAt(i), d.comps[k].obj, opt).n = 0) => r.n = 0
  BY OnComponentsApplied, SMTT(30)
<1>. HIDE DEF r
<1>. DEFINE R(k) == ComponentRule(RuleAt(i), d.comps[k].obj, opt)
<1>1. /\ SameTree(d, e) /\ e.root = d.root /\ e.meta = d.meta /\ e.main = d.main
      /\ \A k \in DOMAIN d.comps :
           /\ e.comps[k].dict = d.comps[k].dict
           /\ e.comps[k].obj = IF d.comps[k].dict THEN R(k).obj ELSE d.comps[k].obj
      /\ (\A k \in Dicts(d) : R(k).n = 0) => r.n = 0
  BY <1>0
<1>2. DOMAIN e.comps = DOMAIN d.comps
  BY <1>1 DEF SameTree
<1>3. ASSUME NEW k \in DOMAIN d.comps, d.comps[k].dict
      PROVE  /\ Obj(d.comps[k].obj) /\ Ready(opt, a, i, R(k).obj) /\ (R(k).n = 0 \/ Excused(opt, a, i))
  <2>. DEFINE o == d.comps[k].obj
  <2>1. Obj(o) /\ Ready(opt, a, i - 1, o)
    BY <1>3, SoundObjects DEF EntriesReady
  <2>. HIDE DEF o
  <2>2. LET q == ComponentRule(RuleAt(i), o, opt) IN Ready(opt, a, i, q.obj) /\ (q.n = 0 \/ Excused(opt, a, i))
    BY <2>1, ReadyStep
  <2>. QED  BY <2>1, <2>2 DEF o
<1>4. EntriesReady(opt, a, i, e)
  BY <1>1, <1>2, <1>3 DEF EntriesReady
<1>5. r.n = 0 \/ Excused(opt, a, i)
  <2>1. \A k \in Dicts(d) : R(k).n = 0 \/ Excused(opt, a, i)
    BY <1>3 DEF Dicts
  <2>. QED  BY <1>1, <2>1
<1>6. ASSUME EntriesInOrder(d), ~AgainOnLicences(opt) PROVE EntriesInOrder(e)
  <2>. SUFFICES ASSUME NEW k \in DOMAIN d.comps PROVE InPlace(e.comps[k].obj, ComponentPriority)
    BY <1>2 DEF EntriesInOrder
  <2>1. InPlace(d.comps[k].obj, ComponentPriority)
    BY <1>6 DEF EntriesInOrder
  <2>2. CASE ~d.comps[k].dict
    BY <1>1, <2>1, <2>2
  <2>3. CASE d.comps[k].dict
    <3>1. Obj(d.comps[k].obj) /\ (R(k).n = 0 \/ i = 13)
      BY <1>3, <1>6, <2>3 DEF Excused
    <3>2. InPlace(R(k).obj, ComponentPriority)
      BY <2>1, <3>1, ReadyOrder
    <3>. QED  BY <1>1, <2>3, <3>2
  <2>. QED  BY <2>2, <2>3
<1>. QED  BY <1>1, <1>4, <1>5, <1>6 DEF r

\* A document in the second fix, after the rules up to i.
Again(opt, a, i, d) ==
  /\ FrameSettled(opt, d)
  /\ EntriesReady(opt, a, IF i < 7 THEN 7 ELSE i, d)
  /\ RuleAt(15) \in opt.rules /\ ~AgainOnLicences(opt) => FrameInOrder(d) /\ EntriesInOrder(d)
\* The rules that may find something to do.
MayCount(opt, a, i) ==
  i = 2 \/ i \in 5..7 \/ Excused(opt, a, i) \/ (i = 15 /\ AgainOnLicences(opt))

\* A rule of the second fix, of whichever kind, finds nothing to do but what MayCount says, and
\* leaves the same to the rules after it.
LEMMA AgainStep ==
  ASSUME NEW opt, IsOptions(opt), NEW a, NEW b, Sound(b), NEW D, NEW r, Passes(D, b, opt, r), NEW i \in 1..14,
         Again(opt, a, i - 1, D[i - 1])
  PROVE  Again(opt, a, i, D[i]) /\ (RuleAt(i) \in opt.rules => r[RuleAt(i)] = 0 \/ MayCount(opt, a, i))
<1>. DEFINE d == D[i - 1]
            e == D[i]
            q == Pass(d, b, opt, i)
            j == IF i - 1 < 7 THEN 7 ELSE i - 1
            k == IF i < 7 THEN 7 ELSE i
            Ordered == RuleAt(15) \in opt.rules /\ ~AgainOnLicences(opt)
<1>1. /\ Sound(d) /\ Follows(opt, b, d)
      /\ e = IF RuleAt(i) \in opt.rules THEN q.doc ELSE d
      /\ RuleAt(i) \in opt.rules => r[RuleAt(i)] = q.n
  BY StageAt
<1>2. FrameSettled(opt, d) /\ EntriesReady(opt, a, j, d) /\ (Ordered => FrameInOrder(d) /\ EntriesInOrder(d))
  BY DEF Again
<1>3. EntriesReady(opt, a, k, d)
  BY <1>2 DEF EntriesReady, Ready
<1>4. SUFFICES /\ FrameSettled(opt, e) /\ EntriesReady(opt, a, k, e)
               /\ Ordered => FrameInOrder(e) /\ EntriesInOrder(e)
               /\ RuleAt(i) \in opt.rules => q.n = 0 \/ MayCount(opt, a, i)
  BY <1>1 DEF Again
<1>5. CASE RuleAt(i) \notin opt.rules
  BY <1>1, <1>2, <1>3, <1>5
<1>6. CASE RuleAt(i) \in opt.rules /\ i \in 1..4
  <2>. HIDE DEF d, k, Ordered
  <2>1. /\ q.n = 0 \/ i = 2
        /\ FrameSettled(opt, q.doc) /\ (FrameInOrder(d) => FrameInOrder(q.doc)) /\ q.doc.comps = d.comps
    BY <1>1, <1>2, <1>6, FrontAgain
  <2>2. e = q.doc
    BY <1>1, <1>6
  <2>. HIDE DEF e, q
  <2>3. EntriesReady(opt, a, k, e) /\ (EntriesInOrder(d) => EntriesInOrder(e))
    BY <1>3, <2>1, <2>2 DEF EntriesReady, EntriesInOrder
  <2>. QED  BY <1>2, <2>1, <2>2, <2>3 DEF MayCount
<1>7. CASE RuleAt(i) \in opt.rules /\ i \in 5..7
  <2>. HIDE DEF d, k, Ordered
  <2>1. q = RemoveLeaves(d, LeafIds(b), RuleAt(i)) /\ e = q.doc
    BY <1>1, <1>7, PassForms
  <2>a. LET p == RemoveLeaves(d, LeafIds(b), RuleAt(i))
        IN /\ \A c : c \in ToSet(p.doc.comps) <=> c \in Spared(d, LeafIds(b), RuleAt(i))
           /\ p.doc.root = d.root /\ p.doc.meta = d.meta /\ p.doc.main = d.main
    <3>. HIDE DEF e, q
    <3>1. Sound(b) /\ Follows(opt, b, d)
      BY <1>1
    <3>. QED  BY <3>1, RemoveLeavesApplied
  <2>. HIDE DEF e, q
  <2>2. /\ \A c : c \in ToSet(e.comps) <=> c \in Spared(d, LeafIds(b), RuleAt(i))
        /\ e.root = d.root /\ e.meta = d.meta /\ e.main = d.main
    BY <2>1, <2>a
  <2>3. ASSUME NEW x \in DOMAIN e.comps PROVE \E y \in DOMAIN d.comps : d.comps[y] = e.comps[x]
    <3>1. e.comps[x] \in ToSet(d.comps)
      BY <2>2, InSet DEF Spared
    <3>. QED  BY <3>1, InSet
  <2>4. EntriesReady(opt, a, k, e)
    BY <1>3, <2>3 DEF EntriesReady
  <2>5. EntriesInOrder(d) => EntriesInOrder(e)
    BY <2>3 DEF EntriesInOrder
  <2>6. FrameSettled(opt, e) /\ (FrameInOrder(d) => FrameInOrder(e))
    BY <1>2, <2>2, SameFrame
  <2>. QED  BY <1>2, <1>7, <2>4, <2>5, <2>6 DEF MayCount
<1>8. CASE RuleAt(i) \in opt.rules /\ i \in 8..14
  <2>1. k = i /\ j = i - 1
    BY <1>8
  <2>. HIDE DEF d, k, j
  <2>2. q = OnComponents(d, RuleAt(i), opt) /\ e = q.doc
    BY <1>1, <1>8, PassForms
  <2>. HIDE DEF e, q
  <2>3. /\ q.n = 0 \/ Excused(opt, a, i)
        /\ EntriesReady(opt, a, i, e)
        /\ EntriesInOrder(d) /\ ~AgainOnLicences(opt) => EntriesInOrder(e)
        /\ e.root = d.root /\ e.meta = d.meta /\ e.main = d.main
    BY <1>1, <1>2, <1>8, <2>1, <2>2, AgainEntries
  <2>4. FrameSettled(opt, e) /\ (FrameInOrder(d) => FrameInOrder(e))
    BY <1>2, <2>3, SameFrame
  <2>. QED  BY <1>2, <2>1, <2>3, <2>4 DEF MayCount
<1>9. i \in 1..4 \/ i \in 5..7 \/ i \in 8..14
  OBVIOUS
<1>. QED  BY <1>5, <1>6, <1>7, <1>8, <1>9

\* What may be counted in the second fix.
LEMMA SecondFixCounts ==
  ASSUME NEW opt, IsOptions(opt), NEW a, NEW b, Sound(b), NEW D, NEW r, Passes(D, b, opt, r), Again(opt, a, 0, b)
  PROVE  \A i \in 1..15 : RuleAt(i) \in opt.rules => r[RuleAt(i)] = 0 \/ MayCount(opt, a, i)
<1>. DEFINE I == {n \in Nat : n <= 14 => Again(opt, a, n, D[n])}
<1>1. 0 \in I
  BY DEF Passes
<1>2. \A n \in Nat : n \in I => n + 1 \in I
  <2>. SUFFICES ASSUME NEW n \in Nat, n + 1 <= 14, Again(opt, a, n, D[n]) PROVE Again(opt, a, n + 1, D[n + 1])
    OBVIOUS
  <2>. DEFINE i == n + 1
  <2>1. i \in 1..14 /\ i - 1 = n
    OBVIOUS
  <2>. HIDE DEF i
  <2>2. Again(opt, a, i, D[i])
    BY <2>1, AgainStep
  <2>. QED  BY <2>2 DEF i
<1>. HIDE DEF I
<1>3. \A n \in Nat : n \in I
  BY <1>1, <1>2, Induction
<1>4. ASSUME NEW i \in 1..14, RuleAt(i) \in opt.rules PROVE r[RuleAt(i)] = 0 \/ MayCount(opt, a, i)
  <2>1. i - 1 \in Nat /\ i - 1 <= 14
    BY <1>4
  <2>2. Again(opt, a, i - 1, D[i - 1])
    BY <1>3, <2>1 DEF I
  <2>. QED  BY <1>4, <2>2, AgainStep
<1>5. ASSUME RuleAt(15) \in opt.rules PROVE r[RuleAt(15)] = 0 \/ MayCount(opt, a, 15)
  <2>. DEFINE d == D[14]
  <2>1. Sound(d) /\ r[RuleAt(15)] = Reorder(d).n
    BY <1>5, StageAt, PassForms, 15 \in 1..15, 15 - 1 = 14
  <2>2. Again(opt, a, 14, d)
    BY <1>3, 14 \in Nat DEF I
  <2>. HIDE DEF d
  <2>3. CASE AgainOnLicences(opt)
    BY <2>3 DEF MayCount
  <2>4. CASE ~AgainOnLicences(opt)
    <3>. DEFINE e == Reorder(d).doc
    <3>1. FrameInOrder(d) /\ EntriesInOrder(d)
      BY <1>5, <2>2, <2>4 DEF Again
    <3>2. /\ SameTree(d, e) /\ NewObjects(d, e) /\ e = Reordered(d) /\ (e = d => Reorder(d).n = 0)
          /\ \A k \in DOMAIN d.comps : e.comps[k].obj = InOrder(d.comps[k].obj, ComponentPriority)
      BY <2>1, ReorderApplied
    <3>. HIDE DEF e
    <3>3. /\ e = With(e, e.comps)
          /\ e.root = InOrder(d.root, RootPriority) /\ e.meta = InOrder(d.meta, MetadataPriority)
          /\ e.main = InOrder(d.main, MainPriority)
          /\ e.comps = NewAt(d, DOMAIN d.comps, [i \in DOMAIN d.comps |-> InOrder(d.comps[i].obj, ComponentPriority)])
      BY <2>1, <3>2, ReorderedForm
    <3>4. e.root = d.root /\ e.meta = d.meta /\ e.main = d.main
      BY <2>1, <3>1, <3>3, SoundObjects, PriorityKeys, InPlaceStays DEF FrameInOrder
    <3>5. \A k \in DOMAIN d.comps : e.comps[k].obj = d.comps[k].obj
      BY <2>1, <3>1, <3>2, SoundObjects, PriorityKeys, InPlaceStays DEF EntriesInOrder
    <3>7. e = d
      BY <2>1, <3>2, <3>3, <3>4, <3>5, SameObjects
    <3>. QED  BY <2>1, <3>2, <3>7
  <2>. QED  BY <2>3, <2>4
<1>6. ASSUME NEW i \in 1..15, RuleAt(i) \in opt.rules PROVE r[RuleAt(i)] = 0 \/ MayCount(opt, a, i)
  <2>1. i \in 1..14 \/ i = 15
    OBVIOUS
  <2>. QED  BY <1>4, <1>5, <1>6, <2>1
<1>. QED  BY <1>6

-----------------------------------------------------------------------------
(* What a fix leaves of the fields.                                        *)

\* The document b is d without the fields at the paths.
Pruning(d, b, paths) ==
  /\ Pruned(d.root, b.root, "root", paths)
  /\ IF HasMetadata(d) THEN Pruned(d.meta, b.meta, "metadata", paths) ELSE b.meta = d.meta
  /\ IF HasMain(d) THEN Pruned(d.main, b.main, "metadata.component", paths) ELSE b.main = d.main
\* The object p is o without its fields, if o is one of a component that is an object.
PrunedEntry(m, p, paths) == IF m.dict THEN Pruned(m.obj, p, "components[]", paths) ELSE p = m.obj
\* The entry c of the result comes from m.
Trace(opt, paths, m, c) ==
  /\ c.id = m.id /\ c.up = m.up /\ c.dict = m.dict
  /\ \E p : PrunedEntry(m, p, paths) /\ Keeps(opt.rules, p, c.obj)

\* Each component of a fixed document comes from the one of that id in the document before.
LEMMA FixTraces ==
  ASSUME NEW d, Sound(d), NEW opt, IsOptions(opt), NEW fields
  PROVE  LET e == Fix(d, opt, fields).fixed
             a == AcceptedPaths(fields, opt.keep)
         IN /\ \E b : Pruning(d, b, a) /\ KeepsFrame(opt, b, e)
            /\ \A c \in ToSet(e.comps) : \E m \in ToSet(d.comps) :
                 Trace(opt, a, m, c) /\ Component(d, c.id) = m /\ Component(e, c.id) = c
<1>. DEFINE e == Fix(d, opt, fields).fixed
            a == AcceptedPaths(fields, opt.keep)
            b == DropFields(d, a)
<1>1. Sound(b) /\ NewObjects(d, b) /\ Follows(opt, b, e) /\ Sound(e)
  BY FixStages
<1>2. <<"components[]", "components">> \notin a
  BY FstecPathSet DEF AcceptedPaths
<1>. HIDE DEF e, a
<1>3. Pruning(d, b, a) /\ \A i \in DOMAIN d.comps : PrunedEntry(d.comps[i], b.comps[i].obj, a)
  BY <1>2, DropFieldsEffect DEF Pruning, PrunedEntry
<1>. HIDE DEF b
<1>4. ASSUME NEW c \in ToSet(e.comps)
      PROVE  \E m \in ToSet(d.comps) : Trace(opt, a, m, c) /\ Component(d, c.id) = m /\ Component(e, c.id) = c
  <2>1. PICK n \in ToSet(b.comps) : KeepsEntry(opt, n, c)
    BY <1>1, <1>4 DEF Follows
  <2>2. PICK i \in DOMAIN b.comps : b.comps[i] = n
    BY InSet
  <2>3. i \in DOMAIN d.comps /\ n.id = d.comps[i].id /\ n.up = d.comps[i].up /\ n.dict = d.comps[i].dict
    BY <1>1, <2>2, NewObjectsSame DEF NewObjects
  <2>4. Trace(opt, a, d.comps[i], c)
    BY <1>3, <2>1, <2>2, <2>3 DEF Trace, KeepsEntry
  <2>5. d.comps[i] \in ToSet(d.comps) /\ Component(d, d.comps[i].id) = d.comps[i]
    BY <2>3, ComponentIs, SoundObjects
  <2>6. PICK k \in DOMAIN e.comps : e.comps[k] = c
    BY <1>4, InSet
  <2>7. Component(e, c.id) = c
    BY <1>1, <2>6, ComponentIs
  <2>. QED  BY <2>4, <2>5, <2>7 DEF Trace
<1>. QED  BY <1>1, <1>3, <1>4 DEF Follows, e, a

\* Only what was asked for is removed, and nothing of the catalogue and nothing kept.
LEMMA AcceptedAsked ==
  ASSUME NEW fields, NEW keep, NEW p \in AcceptedPaths(fields, keep)
  PROVE  p \in fields \ (FstecPaths \cup keep) /\ ValidPath(p)
  BY DEF AcceptedPaths, NormalizeKeep

\* The analysis of a document says how often each field occurs.
LEMMA AnalysisCounts ==
  ASSUME NEW d, Sound(d), NEW p, p = <<p[1], p[2]>>, ValidPath(p)
  PROVE  /\ FieldCount(d, p) \in Nat
         /\ FieldCount(d, p) = LET found == AnalyzeFields(d) IN IF p \in DOMAIN found THEN found[p] ELSE 0
<1>. DEFINE keys == Keys(d.root) \cup Keys(d.meta) \cup Keys(d.main)
                      \cup UNION {Keys(d.comps[i].obj) : i \in Dicts(d)}
            S == {q \in Contexts \X keys : ValidPath(q) /\ FieldCount(d, q) > 0}
            In(o) == IF p[2] \in Keys(o) THEN 1 ELSE 0
            has == {i \in Dicts(d) : In(d.comps[i].obj) = 1}
<1>1. p[1] \in {"root", "metadata", "metadata.component", "components[]"}
  BY Zenon DEF ValidPath, Contexts
<1>2. IsFiniteSet(has)
  <2>. DEFINE n == Len(d.comps)
  <2>1. DOMAIN d.comps = 1..n /\ n \in Nat
    BY SoundObjects
  <2>. HIDE DEF n
  <2>2. IsFiniteSet(1..n)
    BY <2>1, RangeIsFinite
  <2>3. has \subseteq DOMAIN d.comps
    BY DEF Dicts
  <2>. QED  BY <2>1, <2>2, <2>3, FS_Subset
<1>3. Cardinality(has) \in Nat /\ (has = {} => Cardinality(has) = 0)
  BY <1>2, FS_CardinalityType, FS_EmptySet
<1>4. /\ p[1] = "root" => FieldCount(d, p) = In(d.root)
      /\ p[1] = "metadata" => FieldCount(d, p) = IF HasMetadata(d) THEN In(d.meta) ELSE 0
      /\ p[1] = "metadata.component" => FieldCount(d, p) = IF HasMain(d) THEN In(d.main) ELSE 0
      /\ p[1] = "components[]" => FieldCount(d, p) = Cardinality(has)
  BY DEF FieldCount
<1>5. FieldCount(d, p) \in Nat
  <2>. HIDE DEF has
  <2>. QED  BY <1>1, <1>3, <1>4
<1>6. FieldCount(d, p) > 0 => p[2] \in keys
  <2>1. has # {} => p[2] \in keys
    OBVIOUS
  <2>2. \A o : In(o) > 0 => p[2] \in Keys(o)
    OBVIOUS
  <2>. HIDE DEF has, In
  <2>3. CASE p[1] = "components[]"
    BY <1>3, <1>4, <2>1, <2>3
  <2>4. CASE p[1] # "components[]"
    BY <1>1, <1>4, <2>2, <2>4
  <2>. QED  BY <2>3, <2>4
<1>7. p \in S <=> FieldCount(d, p) > 0
  <2>. HIDE DEF keys, has
  <2>. QED  BY <1>6, Zenon DEF ValidPath
<1>8. AnalyzeFields(d) = [q \in S |-> FieldCount(d, q)]
  BY DEF AnalyzeFields
<1>. HIDE DEF S
<1>. QED  BY <1>5, <1>7, <1>8

\* An object that was pruned has no field at the paths, and has the others.
LEMMA PrunedKeys ==
  ASSUME NEW o, NEW p, NEW context, NEW paths, Pruned(o, p, context, paths), NEW k
  PROVE  k \in Keys(p) <=> k \in Keys(o) /\ <<context, k>> \notin paths
  BY DEF Pruned, SameAt

\* What the rules take from an object.
LEMMA KeptKeys ==
  ASSUME NEW rules, NEW o, NEW p, Keeps(rules, o, p), NEW k
  PROVE  /\ k \in Keys(o) \ Keys(p) => k = "licenses" /\ "filter_non_proprietary" \in rules
         /\ k \in Keys(p) \ Keys(o) =>
              k \in {"externalReferences", "properties"} \/ (k = "licenses" /\ "add_proprietary" \in rules)
<1>1. k \notin RuleKeys => (k \in Keys(p) <=> k \in Keys(o))
  BY DEF Keeps, AlikeBut, SameAt
<1>2. k \in RuleKeys <=> k = "externalReferences" \/ k = "properties" \/ k = "licenses"
  BY DEF RuleKeys
<1>3. /\ "externalReferences" \in Keys(o) => "externalReferences" \in Keys(p)
      /\ "properties" \in Keys(o) => "properties" \in Keys(p)
      /\ "licenses" \in Keys(o) \ Keys(p) => "filter_non_proprietary" \in rules
      /\ "licenses" \in Keys(p) \ Keys(o) => "add_proprietary" \in rules
  BY DEF Keeps, KeepsRefs, KeepsProps, KeepsLicences
<1>4. CASE k = "licenses"
  BY <1>3, <1>4
<1>5. CASE k = "externalReferences"
  BY <1>3, <1>5
<1>6. CASE k = "properties"
  BY <1>3, <1>6
<1>7. CASE k \notin RuleKeys
  BY <1>1, <1>7
<1>. QED  BY <1>2, <1>4, <1>5, <1>6, <1>7

\* The metadata and its component are objects before a fix if they are after it.
LEMMA FixedHas ==
  ASSUME NEW d, NEW opt, NEW fields, NEW b, Pruning(d, b, AcceptedPaths(fields, opt.keep)),
         NEW e, KeepsFrame(opt, b, e)
  PROVE  /\ Get(e.root, "metadata") = Get(d.root, "metadata") /\ (HasMetadata(e) <=> HasMetadata(d))
         /\ HasMetadata(d) => Get(e.meta, "component") = Get(d.meta, "component")
         /\ (HasMain(e) <=> HasMain(d))
<1>1. <<"root", "metadata">> \notin AcceptedPaths(fields, opt.keep)
      /\ <<"metadata", "component">> \notin AcceptedPaths(fields, opt.keep)
  BY FstecPathSet DEF AcceptedPaths
<1>2. Get(e.root, "metadata") = Get(d.root, "metadata")
  BY <1>1 DEF Pruning, Pruned, SameAt, KeepsFrame, AlikeBut
<1>3. HasMetadata(d) => Get(e.meta, "component") = Get(d.meta, "component")
  BY <1>1 DEF Pruning, Pruned, SameAt, KeepsFrame, AlikeBut
<1>. QED  BY <1>2, <1>3 DEF HasMetadata, HasMain

\* A field that was to be removed is gone, unless it is the licences and they are added.
LEMMA RemovedIsGone ==
  ASSUME NEW d, Sound(d), NEW opt, IsOptions(opt), NEW fields, NEW p \in AcceptedPaths(fields, opt.keep),
         p = <<p[1], p[2]>>, FieldCount(Fix(d, opt, fields).fixed, p) > 0
  PROVE  p = Licences /\ "add_proprietary" \in opt.rules
<1>. DEFINE e == Fix(d, opt, fields).fixed
            a == AcceptedPaths(fields, opt.keep)
            k == p[2]
            In(o) == IF k \in Keys(o) THEN 1 ELSE 0
            has == {i \in Dicts(e) : In(e.comps[i].obj) = 1}
<1>1. PICK b : Pruning(d, b, a) /\ KeepsFrame(opt, b, e)
  BY FixTraces
<1>2. \A c \in ToSet(e.comps) : \E m \in ToSet(d.comps) : Trace(opt, a, m, c)
  BY FixTraces
<1>3. p \notin FstecPaths /\ p[1] \in {"root", "metadata", "metadata.component", "components[]"}
  BY Zenon DEF AcceptedPaths, ValidPath, Contexts
<1>. HIDE DEF e
<1>4. (HasMetadata(e) <=> HasMetadata(d)) /\ (HasMain(e) <=> HasMain(d))
  BY <1>1, FixedHas, Zenon
<1>5. HasMain(e) => HasMain(d)
  BY <1>4
<1>6. /\ p[1] = "root" => In(e.root) > 0
      /\ p[1] = "metadata" => HasMetadata(e) /\ In(e.meta) > 0
      /\ p[1] = "metadata.component" => HasMain(e) /\ In(e.main) > 0
      /\ p[1] = "components[]" => Cardinality(has) > 0
  BY DEF FieldCount, e
<1>7. \A o : In(o) > 0 => k \in Keys(o)
  OBVIOUS
<1>8. \A o : In(o) = 1 => k \in Keys(o)
  OBVIOUS
<1>. HIDE DEF In, a
<1>9. p[1] # "root"
  <2>. SUFFICES ASSUME p[1] = "root" PROVE FALSE
    OBVIOUS
  <2>1. k \in Keys(e.root) /\ p = <<"root", k>>
    BY <1>6, <1>7
  <2>2. k # "specVersion" /\ k # "version"
    BY <1>3, <2>1, FstecPathSet
  <2>3. k \in Keys(b.root)
    BY <1>1, <2>1, <2>2 DEF KeepsFrame, AlikeBut, SameAt
  <2>. QED  BY <1>1, <2>1, <2>3, PrunedKeys DEF Pruning, a
<1>10. p[1] # "metadata"
  <2>. SUFFICES ASSUME p[1] = "metadata" PROVE FALSE
    OBVIOUS
  <2>1. k \in Keys(e.meta) /\ p = <<"metadata", k>> /\ HasMetadata(d)
    BY <1>4, <1>6, <1>7
  <2>2. k # "timestamp"
    BY <1>3, <2>1, FstecPathSet
  <2>3. k \in Keys(b.meta)
    BY <1>1, <2>1, <2>2 DEF KeepsFrame, AlikeBut, SameAt
  <2>. QED  BY <1>1, <2>1, <2>3, PrunedKeys DEF Pruning, a
<1>11. p[1] # "metadata.component"
  <2>. SUFFICES ASSUME p[1] = "metadata.component" PROVE FALSE
    OBVIOUS
  <2>1. k \in Keys(e.main) /\ p = <<"metadata.component", k>> /\ HasMain(d)
    BY <1>5, <1>6, <1>7
  <2>2. k # "manufacturer"
    BY <1>3, <2>1, FstecPathSet
  <2>3. k \in Keys(b.main)
    BY <1>1, <2>1, <2>2 DEF KeepsFrame, AlikeBut, SameAt
  <2>. QED  BY <1>1, <2>1, <2>3, PrunedKeys DEF Pruning, a
<1>12. p = <<"components[]", k>>
  BY <1>3, <1>9, <1>10, <1>11
<1>13. PICK i \in Dicts(e) : k \in Keys(e.comps[i].obj)
  <2>1. has # {}
    <3>1. Cardinality({}) = 0
      BY FS_EmptySet
    <3>. HIDE DEF has
    <3>. QED  BY <1>6, <1>12, <3>1
  <2>. QED  BY <1>8, <2>1
<1>14. e.comps[i] \in ToSet(e.comps) /\ e.comps[i].dict
  BY <1>13 DEF ToSet, Dicts
<1>15. PICK m \in ToSet(d.comps) : Trace(opt, a, m, e.comps[i])
  BY <1>2, <1>14
<1>16. PICK q : Pruned(m.obj, q, "components[]", a) /\ Keeps(opt.rules, q, e.comps[i].obj)
  BY <1>14, <1>15 DEF Trace, PrunedEntry
<1>17. k \notin Keys(q)
  BY <1>12, <1>16, PrunedKeys DEF a
<1>18. k \in {"externalReferences", "properties"} \/ (k = "licenses" /\ "add_proprietary" \in opt.rules)
  BY <1>13, <1>16, <1>17, KeptKeys
<1>19. k # "externalReferences" /\ k # "properties"
  BY <1>3, <1>12, FstecPathSet
<1>. QED  BY <1>12, <1>18, <1>19 DEF Licences

\* The key k of an object was asked to be removed, or it is the licences.
MayLose(context, o, p, opt, fields) ==
  \A k \in Keys(o) \ Keys(p) :
    \/ <<context, k>> \in fields \ (FstecPaths \cup opt.keep)
    \/ <<context, k>> = Licences /\ "filter_non_proprietary" \in opt.rules

\* What a fixed document lacks of the members of the one before, it was asked to remove.
LEMMA LostWasAsked ==
  ASSUME NEW d, Sound(d), NEW opt, IsOptions(opt), NEW fields
  PROVE  LET e == Fix(d, opt, fields).fixed
         IN /\ MayLose("root", d.root, e.root, opt, fields) /\ MayLose("metadata", d.meta, e.meta, opt, fields)
            /\ MayLose("metadata.component", d.main, e.main, opt, fields)
            /\ \A id \in Ids(e) : MayLose("components[]", Component(d, id).obj, Component(e, id).obj, opt, fields)
<1>. DEFINE e == Fix(d, opt, fields).fixed
            a == AcceptedPaths(fields, opt.keep)
<1>1. PICK b : Pruning(d, b, a) /\ KeepsFrame(opt, b, e)
  BY FixTraces
<1>2. \A c \in ToSet(e.comps) : \E m \in ToSet(d.comps) :
        Trace(opt, a, m, c) /\ Component(d, c.id) = m /\ Component(e, c.id) = c
  BY FixTraces
<1>3. \A p \in a : p \in fields \ (FstecPaths \cup opt.keep)
  BY AcceptedAsked
<1>. HIDE DEF e, a
<1>4. \A context, o, q : Pruned(o, q, context, a) =>
        \A k \in Keys(o) \ Keys(q) : <<context, k>> \in fields \ (FstecPaths \cup opt.keep)
  BY <1>3, PrunedKeys
<1>5. Keys(b.root) \subseteq Keys(e.root) /\ Keys(b.meta) \subseteq Keys(e.meta) /\ Keys(b.main) \subseteq Keys(e.main)
  BY <1>1 DEF KeepsFrame
<1>6. MayLose("root", d.root, e.root, opt, fields)
  BY <1>1, <1>4, <1>5 DEF MayLose, Pruning
<1>7. MayLose("metadata", d.meta, e.meta, opt, fields)
  BY <1>1, <1>4, <1>5 DEF MayLose, Pruning
<1>8. MayLose("metadata.component", d.main, e.main, opt, fields)
  BY <1>1, <1>4, <1>5 DEF MayLose, Pruning
<1>9. ASSUME NEW id \in Ids(e)
      PROVE  MayLose("components[]", Component(d, id).obj, Component(e, id).obj, opt, fields)
  <2>1. PICK c \in ToSet(e.comps) : c.id = id
    BY <1>9 DEF Ids
  <2>2. PICK m \in ToSet(d.comps) : Trace(opt, a, m, c) /\ Component(d, id) = m /\ Component(e, id) = c
    BY <1>2, <2>1
  <2>3. PICK q : PrunedEntry(m, q, a) /\ Keeps(opt.rules, q, c.obj)
    BY <2>2 DEF Trace
  <2>4. \A k \in Keys(m.obj) \ Keys(q) : <<"components[]", k>> \in fields \ (FstecPaths \cup opt.keep)
    <3>1. CASE m.dict
      BY <1>4, <2>3, <3>1 DEF PrunedEntry
    <3>2. CASE ~m.dict
      BY <2>3, <3>2 DEF PrunedEntry
    <3>. QED  BY <3>1, <3>2, Zenon
  <2>5. \A k \in Keys(q) \ Keys(c.obj) : k = "licenses" /\ "filter_non_proprietary" \in opt.rules
    BY <2>3, KeptKeys
  <2>6. MayLose("components[]", m.obj, c.obj, opt, fields)
    BY <2>4, <2>5, Zenon DEF MayLose, Licences
  <2>. QED  BY <2>2, <2>6
<1>. QED  BY <1>6, <1>7, <1>8, <1>9 DEF e

-----------------------------------------------------------------------------
(* The defects of a fixed document.                                        *)

\* The defects of the root.
LEMMA RootCodes ==
  ASSUME NEW d, NEW code
  PROVE  LET spec == Get(d.root, "specVersion")
             version == Get(d.root, "version")
             metadata == Get(d.root, "metadata")
             components == Get(d.root, "components")
         IN code \in RootIssues(d) <=>
              \/ code = "missing_spec_version" /\ (IsNone(spec) \/ spec.kind = "blank")
              \/ code = "invalid_spec_version" /\ ~IsNone(spec) /\ ~IsText(spec)
              \/ code = "spec_version_not_allowed" /\ NonEmptyString(spec) /\ spec.kind \notin {"1.6", "1.7"}
              \/ code = "missing_version" /\ IsNone(version)
              \/ code = "invalid_version" /\ ~IsNone(version) /\ version.kind # "int"
              \/ code = "missing_metadata" /\ IsNone(metadata)
              \/ code = "invalid_metadata" /\ ~IsNone(metadata) /\ metadata.kind # "dict"
              \/ code = "invalid_components" /\ ~IsNone(components) /\ ~IsList(components)
<1>. DEFINE spec == Get(d.root, "specVersion")
            version == Get(d.root, "version")
            metadata == Get(d.root, "metadata")
            components == Get(d.root, "components")
            r == [missing_spec_version |-> IsNone(spec) \/ spec.kind = "blank",
                 invalid_spec_version |-> ~IsNone(spec) /\ ~IsText(spec),
                 spec_version_not_allowed |-> NonEmptyString(spec) /\ spec.kind \notin {"1.6", "1.7"},
                 missing_version |-> IsNone(version),
                 invalid_version |-> ~IsNone(version) /\ version.kind # "int",
                 missing_metadata |-> IsNone(metadata),
                 invalid_metadata |-> ~IsNone(metadata) /\ metadata.kind # "dict",
                 invalid_components |-> ~IsNone(components) /\ ~IsList(components)]
<1>1. RootIssues(d) = Found(r)
  BY DEF RootIssues
<1>. HIDE DEF spec, version, metadata, components
<1>2. DOMAIN r = {"missing_spec_version", "invalid_spec_version", "spec_version_not_allowed", "missing_version",
                  "invalid_version", "missing_metadata", "invalid_metadata", "invalid_components"}
  OBVIOUS
<1>3. /\ r["missing_spec_version"] <=> (IsNone(spec) \/ spec.kind = "blank")
      /\ r["invalid_spec_version"] <=> (~IsNone(spec) /\ ~IsText(spec))
      /\ r["spec_version_not_allowed"] <=> (NonEmptyString(spec) /\ spec.kind \notin {"1.6", "1.7"})
      /\ r["missing_version"] <=> (IsNone(version))
      /\ r["invalid_version"] <=> (~IsNone(version) /\ version.kind # "int")
      /\ r["missing_metadata"] <=> (IsNone(metadata))
      /\ r["invalid_metadata"] <=> (~IsNone(metadata) /\ metadata.kind # "dict")
      /\ r["invalid_components"] <=> (~IsNone(components) /\ ~IsList(components))
  BY Zenon
<1>. HIDE DEF r
<1>4. code \in RootIssues(d) <=> code \in DOMAIN r /\ r[code]
  BY <1>1 DEF Found
<1>5. code \in RootIssues(d) <=>
              \/ code = "missing_spec_version" /\ (IsNone(spec) \/ spec.kind = "blank")
              \/ code = "invalid_spec_version" /\ ~IsNone(spec) /\ ~IsText(spec)
              \/ code = "spec_version_not_allowed" /\ NonEmptyString(spec) /\ spec.kind \notin {"1.6", "1.7"}
              \/ code = "missing_version" /\ IsNone(version)
              \/ code = "invalid_version" /\ ~IsNone(version) /\ version.kind # "int"
              \/ code = "missing_metadata" /\ IsNone(metadata)
              \/ code = "invalid_metadata" /\ ~IsNone(metadata) /\ metadata.kind # "dict"
              \/ code = "invalid_components" /\ ~IsNone(components) /\ ~IsList(components)
  BY <1>2, <1>3, <1>4
<1>. QED  BY <1>5 DEF spec, version, metadata, components

\* The defects of the metadata.
LEMMA MetadataCodes ==
  ASSUME NEW d, HasMetadata(d), NEW code
  PROVE  LET component == Get(d.meta, "component")
             Lacks(k) == HasMain(d) /\ ~NonEmptyString(Get(d.main, k))
         IN code \in MetadataIssues(d) <=>
              \/ code = "missing_timestamp" /\ ~NonEmptyString(Get(d.meta, "timestamp"))
              \/ code = "missing_component" /\ IsNone(component)
              \/ code = "invalid_component" /\ ~IsNone(component) /\ component.kind # "dict"
              \/ code = "missing_type" /\ Lacks("type")
              \/ code = "missing_name" /\ Lacks("name")
              \/ code = "missing_main_version" /\ Lacks("version")
              \/ code = "missing_manufacturer" /\ HasMain(d) /\ ~HasManufacturer(d)
<1>. DEFINE component == Get(d.meta, "component")
            Lacks(k) == HasMain(d) /\ ~NonEmptyString(Get(d.main, k))
            r == [missing_timestamp |-> ~NonEmptyString(Get(d.meta, "timestamp")),
                 missing_component |-> IsNone(component),
                 invalid_component |-> ~IsNone(component) /\ component.kind # "dict",
                 missing_type |-> Lacks("type"),
                 missing_name |-> Lacks("name"),
                 missing_main_version |-> Lacks("version"),
                 missing_manufacturer |-> HasMain(d) /\ ~HasManufacturer(d)]
<1>1. MetadataIssues(d) = Found(r)
  BY DEF MetadataIssues
<1>. HIDE DEF component, Lacks
<1>2. DOMAIN r = {"missing_timestamp", "missing_component", "invalid_component", "missing_type",
                  "missing_name", "missing_main_version", "missing_manufacturer"}
  OBVIOUS
<1>3. /\ r["missing_timestamp"] <=> (~NonEmptyString(Get(d.meta, "timestamp")))
      /\ r["missing_component"] <=> (IsNone(component))
      /\ r["invalid_component"] <=> (~IsNone(component) /\ component.kind # "dict")
      /\ r["missing_type"] <=> (Lacks("type"))
      /\ r["missing_name"] <=> (Lacks("name"))
      /\ r["missing_main_version"] <=> (Lacks("version"))
      /\ r["missing_manufacturer"] <=> (HasMain(d) /\ ~HasManufacturer(d))
  BY Zenon
<1>. HIDE DEF r
<1>4. code \in MetadataIssues(d) <=> code \in DOMAIN r /\ r[code]
  BY <1>1 DEF Found
<1>5. code \in MetadataIssues(d) <=>
              \/ code = "missing_timestamp" /\ ~NonEmptyString(Get(d.meta, "timestamp"))
              \/ code = "missing_component" /\ IsNone(component)
              \/ code = "invalid_component" /\ ~IsNone(component) /\ component.kind # "dict"
              \/ code = "missing_type" /\ Lacks("type")
              \/ code = "missing_name" /\ Lacks("name")
              \/ code = "missing_main_version" /\ Lacks("version")
              \/ code = "missing_manufacturer" /\ HasMain(d) /\ ~HasManufacturer(d)
  BY <1>2, <1>3, <1>4
<1>. QED  BY <1>5 DEF component, Lacks

\* The defects of a component.
LEMMA ComponentCodes ==
  ASSUME NEW d, NEW c, c.dict, NEW code
  PROVE  LET o == c.obj
             Lacks(k) == ~NonEmptyString(Get(o, k))
         IN code \in ComponentIssues(d, c) <=>
              \/ code = "missing_type" /\ Lacks("type")
              \/ code = "missing_name" /\ Lacks("name")
              \/ code = "missing_version" /\ Lacks("version")
              \/ code = "missing_purl" /\ Lacks("purl")
              \/ code = "invalid_properties" /\ Odd(Get(o, "properties"))
              \/ code = "missing_gost_properties" /\ ~Odd(Get(o, "properties"))
                   /\ MissingGost(Get(o, "properties")) # <<>>
              \/ code = "invalid_external_references" /\ Odd(Get(o, "externalReferences"))
              \/ code = "missing_source_reference" /\ ~Odd(Get(o, "externalReferences"))
                   /\ Sources(o) = {} /\ ~SourceExempt(d, c)
              \/ code = "invalid_subcomponents" /\ Odd(Get(o, "components"))
<1>. DEFINE props == Get(c.obj, "properties")
            refs == Get(c.obj, "externalReferences")
            nested == Get(c.obj, "components")
            Lacks(k) == ~NonEmptyString(Get(c.obj, k))
            none == ~\E r \in ToSet(refs.items) : IsSource(r)
            r == [missing_type |-> Lacks("type"),
                 missing_name |-> Lacks("name"),
                 missing_version |-> Lacks("version"),
                 missing_purl |-> Lacks("purl"),
                 invalid_properties |-> Odd(props),
                 missing_gost_properties |-> ~Odd(props) /\ MissingGost(props) # <<>>,
                 invalid_external_references |-> Odd(refs),
                 missing_source_reference |-> ~Odd(refs) /\ none /\ ~SourceExempt(d, c),
                 invalid_subcomponents |-> Odd(nested)]
<1>0. none <=> Sources(c.obj) = {}
  BY DEF Sources, Entries
<1>1. ComponentIssues(d, c) = Found(r)
  BY Zenon DEF ComponentIssues, Odd
<1>. HIDE DEF props, refs, nested, Lacks, none
<1>2. DOMAIN r = {"missing_type", "missing_name", "missing_version", "missing_purl", "invalid_properties",
                  "missing_gost_properties", "invalid_external_references", "missing_source_reference", "invalid_subcomponents"}
  OBVIOUS
<1>3. /\ r["missing_type"] <=> (Lacks("type"))
      /\ r["missing_name"] <=> (Lacks("name"))
      /\ r["missing_version"] <=> (Lacks("version"))
      /\ r["missing_purl"] <=> (Lacks("purl"))
      /\ r["invalid_properties"] <=> (Odd(props))
      /\ r["missing_gost_properties"] <=> (~Odd(props) /\ MissingGost(props) # <<>>)
      /\ r["invalid_external_references"] <=> (Odd(refs))
      /\ r["missing_source_reference"] <=> (~Odd(refs) /\ none /\ ~SourceExempt(d, c))
      /\ r["invalid_subcomponents"] <=> (Odd(nested))
  BY Zenon
<1>. HIDE DEF r
<1>4. code \in ComponentIssues(d, c) <=> code \in DOMAIN r /\ r[code]
  BY <1>1 DEF Found
<1>5. code \in ComponentIssues(d, c) <=>
              \/ code = "missing_type" /\ Lacks("type")
              \/ code = "missing_name" /\ Lacks("name")
              \/ code = "missing_version" /\ Lacks("version")
              \/ code = "missing_purl" /\ Lacks("purl")
              \/ code = "invalid_properties" /\ Odd(props)
              \/ code = "missing_gost_properties" /\ ~Odd(props) /\ MissingGost(props) # <<>>
              \/ code = "invalid_external_references" /\ Odd(refs)
              \/ code = "missing_source_reference" /\ ~Odd(refs) /\ none /\ ~SourceExempt(d, c)
              \/ code = "invalid_subcomponents" /\ Odd(nested)
  BY <1>2, <1>3, <1>4
<1>. QED  BY <1>0, <1>5 DEF props, refs, nested, Lacks

\* What the catalogue holds is in the pruned document as it was.
LEMMA CatalogueStays ==
  ASSUME NEW fields, NEW keep
  PROVE  LET a == AcceptedPaths(fields, keep)
         IN /\ \A o, p, k : Pruned(o, p, "root", a) =>
                 (k \in {"specVersion", "version", "metadata", "components"} => SameAt(o, p, k))
            /\ \A o, p, k : Pruned(o, p, "metadata", a) =>
                 (k \in {"timestamp", "component"} => SameAt(o, p, k))
            /\ \A o, p, k : Pruned(o, p, "metadata.component", a) =>
                 (k \in {"type", "name", "version", "manufacturer"} => SameAt(o, p, k))
            /\ \A o, p, k : Pruned(o, p, "components[]", a) =>
                 (k \in {"type", "name", "version", "purl", "externalReferences", "properties", "components"}
                    => SameAt(o, p, k))
<1>. DEFINE a == AcceptedPaths(fields, keep)
<1>1. \A p \in a : p \notin FstecPaths
  BY DEF AcceptedPaths
<1>. HIDE DEF a
<1>2. \A o, p, k, context : Pruned(o, p, context, a) /\ <<context, k>> \in FstecPaths => SameAt(o, p, k)
  BY <1>1 DEF Pruned
<1>3. /\ \A k \in {"specVersion", "version", "metadata", "components"} : <<"root", k>> \in FstecPaths
      /\ \A k \in {"timestamp", "component"} : <<"metadata", k>> \in FstecPaths
      /\ \A k \in {"type", "name", "version", "manufacturer"} : <<"metadata.component", k>> \in FstecPaths
      /\ \A k \in {"type", "name", "version", "purl", "externalReferences", "properties", "components"} :
           <<"components[]", k>> \in FstecPaths
  BY FstecPathSet
<1>. QED  BY <1>2, <1>3 DEF a

\* The root has no defect it did not have, but for the version that is set.
LEMMA NoNewRootDefect ==
  ASSUME NEW d, NEW opt, IsOptions(opt), NEW fields, NEW b, Pruning(d, b, AcceptedPaths(fields, opt.keep)),
         NEW e, KeepsFrame(opt, b, e), NEW code \in RootIssues(e), code \notin RootIssues(d)
  PROVE  code = "spec_version_not_allowed" /\ opt.spec_version \notin {"1.6", "1.7"}
<1>. DEFINE S(k) == Get(d.root, k)
            T(k) == Get(e.root, k)
<1>1. \A k \in {"specVersion", "version", "metadata", "components"} : Get(b.root, k) = S(k)
  BY CatalogueStays DEF Pruning, SameAt
<1>2. T("metadata") = S("metadata") /\ T("components") = S("components")
  BY <1>1 DEF KeepsFrame, AlikeBut, SameAt
<1>3. T("version") = S("version") \/ (S("version").kind = "int" /\ T("version").kind = "int")
  BY <1>1 DEF KeepsFrame
<1>4. T("specVersion") = S("specVersion") \/ T("specVersion") = V(opt.spec_version)
  BY <1>1 DEF KeepsFrame
<1>5. /\ NonEmptyString(V(opt.spec_version)) /\ IsText(V(opt.spec_version))
      /\ V(opt.spec_version).kind = opt.spec_version /\ opt.spec_version # "blank" /\ ~IsNone(V(opt.spec_version))
  BY TextIsValue DEF IsOptions, NonEmptyString, IsText, IsNone
<1>6. T("version").kind = "int" => ~IsNone(T("version"))
  BY DEF IsNone
<1>. HIDE DEF S, T
<1>7. /\ code # "missing_spec_version" /\ code # "invalid_spec_version"
  <2>1. T("specVersion") = S("specVersion") => code # "missing_spec_version" /\ code # "invalid_spec_version"
    BY RootCodes DEF S, T
  <2>2. T("specVersion") = V(opt.spec_version) => code # "missing_spec_version" /\ code # "invalid_spec_version"
    BY <1>5, RootCodes DEF T
  <2>. QED  BY <1>4, <2>1, <2>2
<1>8. /\ code # "missing_version" /\ code # "invalid_version"
  <2>1. T("version") = S("version") => code # "missing_version" /\ code # "invalid_version"
    BY RootCodes DEF S, T
  <2>2. T("version").kind = "int" => code # "missing_version" /\ code # "invalid_version"
    BY <1>6, RootCodes DEF T
  <2>. QED  BY <1>3, <2>1, <2>2
<1>9. /\ code # "missing_metadata" /\ code # "invalid_metadata" /\ code # "invalid_components"
  BY <1>2, RootCodes DEF S, T
<1>10. code = "spec_version_not_allowed" /\ T("specVersion").kind \notin {"1.6", "1.7"}
  BY <1>7, <1>8, <1>9, RootCodes DEF T
<1>11. T("specVersion") # S("specVersion")
  BY <1>10, RootCodes DEF S, T
<1>. QED  BY <1>4, <1>5, <1>10, <1>11

\* A fix makes no new defect in the metadata.
LEMMA NoNewMetadataDefect ==
  ASSUME NEW d, NEW opt, NEW fields, NEW b, Pruning(d, b, AcceptedPaths(fields, opt.keep)),
         NEW e, KeepsFrame(opt, b, e), NEW code \in MetadataIssues(e)
  PROVE  code \in MetadataIssues(d)
<1>1. HasMetadata(e) /\ HasMetadata(d) /\ (HasMain(e) <=> HasMain(d))
  BY FixedHas, Zenon DEF MetadataIssues
<1>2. Get(b.meta, "timestamp") = Get(d.meta, "timestamp") /\ Get(b.meta, "component") = Get(d.meta, "component")
  BY <1>1, CatalogueStays DEF Pruning, SameAt
<1>3. Get(e.meta, "component") = Get(d.meta, "component")
      /\ Get(e.meta, "timestamp") \in {Get(d.meta, "timestamp"), V("now")}
  BY <1>2 DEF KeepsFrame, AlikeBut, SameAt
<1>4. NonEmptyString(V("now"))
  BY TextIsValue DEF NonEmptyString, IsText
<1>5. HasMain(d) => \A k \in {"type", "name", "version", "manufacturer"} : Get(b.main, k) = Get(d.main, k)
  BY CatalogueStays DEF Pruning, SameAt
<1>6. HasMain(d) => \A k \in {"type", "name", "version"} : Get(e.main, k) = Get(d.main, k)
  BY <1>5 DEF KeepsFrame, AlikeBut, SameAt
<1>7. HasMain(d) /\ HasManufacturer(d) => HasManufacturer(e)
  BY <1>5 DEF KeepsFrame, HasManufacturer
<1>. QED  BY <1>1, <1>3, <1>4, <1>6, <1>7, MetadataCodes

\* What exempts a component from a source reference.
LEMMA Exempt ==
  ASSUME NEW d, NEW c
  PROVE  SourceExempt(d, c) <=> Children(d, c) # {} \/ ProvidedIn(c.obj) \/ HasProprietary(c.obj)
  BY DEF SourceExempt, ProvidedIn, Entries

\* A component has no defect it did not have, but that it lost what exempted it from a source.
LEMMA NoNewEntryDefect ==
  ASSUME NEW d, NEW opt, NEW fields, NEW e, NEW m, NEW c,
         Trace(opt, AcceptedPaths(fields, opt.keep), m, c),
         NEW code \in ComponentIssues(e, c), code \notin ComponentIssues(d, m)
  PROVE  /\ code = "missing_source_reference"
         /\ \/ Children(d, m) # {} /\ Children(e, c) = {}
            \/ Licences \in AcceptedPaths(fields, opt.keep)
<1>. DEFINE a == AcceptedPaths(fields, opt.keep)
            o == m.obj
            q == c.obj
            kept == {"type", "name", "version", "purl", "externalReferences", "properties", "components"}
<1>1. c.dict /\ m.dict
  <2>1. c.dict <=> m.dict
    BY DEF Trace
  <2>. QED  BY <2>1 DEF ComponentIssues
<1>2. PICK p : Pruned(o, p, "components[]", a) /\ Keeps(opt.rules, p, q)
  BY <1>1 DEF Trace, PrunedEntry
<1>3. \A k \in kept : SameAt(o, p, k)
  BY <1>2, CatalogueStays
<1>4. Licences \notin a => SameAt(o, p, "licenses")
  BY <1>2 DEF Pruned, Licences
<1>. HIDE DEF a, o, q
<1>5. \A k \in {"type", "name", "version", "purl", "components"} : Get(q, k) = Get(o, k)
  <2>1. \A k \in {"type", "name", "version", "purl", "components"} : k \in kept /\ k \notin RuleKeys
    BY DEF RuleKeys
  <2>. HIDE DEF kept
  <2>. QED  BY <1>2, <1>3, <2>1 DEF Keeps, AlikeBut, SameAt
<1>6. /\ Get(p, "externalReferences") = Get(o, "externalReferences")
      /\ Get(p, "properties") = Get(o, "properties")
  BY <1>3 DEF SameAt
<1>7. /\ Odd(Get(q, "externalReferences")) <=> Odd(Get(o, "externalReferences"))
      /\ Odd(Get(q, "properties")) <=> Odd(Get(o, "properties"))
  BY <1>2, <1>6 DEF Keeps, KeepsRefs, KeepsProps
<1>8. Sources(o) # {} => Sources(q) # {} \/ HasProprietary(q)
  <2>1. Sources(p) = Sources(o)
    BY <1>6 DEF Sources, Entries
  <2>. QED  BY <1>2, <2>1 DEF Keeps, KeepsRefs
<1>9. ProvidedIn(o) => ProvidedIn(q)
  <2>1. ProvidedIn(o) => ProvidedIn(p)
    BY <1>6 DEF ProvidedIn, Entries
  <2>. QED  BY <1>2, <2>1 DEF Keeps, KeepsProps
<1>10. Licences \notin a /\ HasProprietary(o) => HasProprietary(q)
  <2>1. SameAt(o, p, "licenses") => (HasProprietary(o) => HasProprietary(p))
    BY DEF SameAt, HasProprietary, Entries
  <2>. QED  BY <1>2, <1>4, <2>1 DEF Keeps, KeepsLicences
<1>11. MissingGost(Get(o, "properties")) = <<>> => MissingGost(Get(q, "properties")) = <<>>
  <2>1. \A x \in NamesIn(Get(o, "properties")) : x \in GostNames => x \in NamesIn(Get(q, "properties"))
    <3>1. GostKept(p, q)
      BY <1>2 DEF Keeps, KeepsProps
    <3>. QED  BY <1>6, <3>1 DEF GostKept, NamesIn, Entries
  <2>. QED  BY <2>1, MissingNames, RequiredNames
<1>12. /\ code # "missing_type" /\ code # "missing_name" /\ code # "missing_version" /\ code # "missing_purl"
       /\ code # "invalid_subcomponents"
  BY <1>1, <1>5, ComponentCodes DEF o, q
<1>13. code # "invalid_properties" /\ code # "invalid_external_references"
  BY <1>1, <1>7, ComponentCodes DEF o, q
<1>14. code # "missing_gost_properties"
  BY <1>1, <1>7, <1>11, ComponentCodes DEF o, q
<1>15. /\ code = "missing_source_reference" /\ ~Odd(Get(q, "externalReferences")) /\ Sources(q) = {}
       /\ ~SourceExempt(e, c)
  BY <1>1, <1>12, <1>13, <1>14, ComponentCodes, Zenon DEF q
<1>16. Sources(o) # {} \/ SourceExempt(d, m)
  BY <1>1, <1>7, <1>15, ComponentCodes DEF o
<1>17. Children(e, c) = {} /\ ~ProvidedIn(q) /\ ~HasProprietary(q)
  BY <1>15, Exempt DEF q
<1>18. Children(d, m) # {} \/ ProvidedIn(o) \/ HasProprietary(o)
  BY <1>8, <1>15, <1>16, <1>17, Exempt DEF o
<1>. QED  BY <1>9, <1>10, <1>15, <1>17, <1>18 DEF a

\* The defects of a document.
LEMMA IssuesOf ==
  ASSUME NEW d, NEW x
  PROVE  x \in Issues(d) <=>
           \/ \E code \in RootIssues(d) : x = <<code, 0>>
           \/ \E code \in MetadataIssues(d) : x = <<code, 0>>
           \/ \E c \in ToSet(d.comps) : \E code \in ComponentIssues(d, c) : x = <<code, c.id>>
  BY DEF Issues, ToSet

\* A fix that removes neither components nor source references keeps a source of a component.
LEMMA FixKeepsSource ==
  ASSUME NEW opt, IsOptions(opt),
         opt.rules \cap (ToSet(LeafRules) \cup {"remove_proprietary_source_references"}) = {},
         NEW d, Sound(d), NEW id \in Ids(d), NEW ref \in ToSet(RefsOf(d, id)), IsSource(ref)
  PROVE  LET F == Fix(d, opt, {})
         IN ref \in ToSet(RefsOf(F.fixed, id)) /\ <<"missing_source_reference", id>> \notin F.issues
<1>. DEFINE F == Fix(d, opt, {})
            e == F.fixed
            a == AcceptedPaths({}, opt.keep)
            none == ToSet(LeafRules) \cap opt.rules
<1>1. F.issues = Issues(e) /\ Sound(e)
  BY FixStages
<1>2. Ids(e) = Ids(d)
  <2>1. Ids(e) = Ids(d) \ Doomed(d, none)
    BY FixLeaves, Zenon
  <2>2. none = {}
    OBVIOUS
  <2>. HIDE DEF none
  <2>3. Doomed(d, none) = {}
    BY <2>2 DEF Doomed
  <2>. QED  BY <2>1, <2>3
<1>3. \A c \in ToSet(e.comps) : \E m \in ToSet(d.comps) :
        Trace(opt, a, m, c) /\ Component(d, c.id) = m /\ Component(e, c.id) = c
  BY FixTraces
<1>4. a = {}
  BY DEF AcceptedPaths
<1>. HIDE DEF F, a
<1>5. PICK c \in ToSet(e.comps) : c.id = id
  BY <1>2 DEF Ids
<1>6. PICK m \in ToSet(d.comps) : Trace(opt, a, m, c) /\ Component(d, id) = m /\ Component(e, id) = c
  BY <1>3, <1>5
<1>7. PICK p : PrunedEntry(m, p, a) /\ Keeps(opt.rules, p, c.obj)
  BY <1>6 DEF Trace
<1>8. Get(p, "externalReferences") = Get(m.obj, "externalReferences")
  BY <1>4, <1>7 DEF PrunedEntry, Pruned, SameAt
<1>9. ref \in Sources(m.obj)
  BY <1>6 DEF RefsOf, Sources, Entries
<1>10. Sources(m.obj) = Sources(p)
  BY <1>8 DEF Sources, Entries
<1>11. Sources(p) \subseteq Sources(c.obj)
  BY <1>7 DEF Keeps, KeepsRefs
<1>12. ref \in Sources(c.obj)
  BY <1>9, <1>10, <1>11
<1>13. ref \in ToSet(RefsOf(e, id))
  BY <1>6, <1>12 DEF RefsOf, Sources, Entries
<1>14. <<"missing_source_reference", id>> \notin Issues(e)
  <2>. SUFFICES ASSUME <<"missing_source_reference", id>> \in Issues(e) PROVE FALSE
    OBVIOUS
  <2>1. id # 0
    <3>1. PICK i \in DOMAIN e.comps : e.comps[i] = c
      BY <1>5, InSet
    <3>. QED  BY <1>1, <1>5, <3>1 DEF Sound, WellFormed
  <2>2. PICK b \in ToSet(e.comps) : \E code \in ComponentIssues(e, b) : <<"missing_source_reference", id>> = <<code, b.id>>
    BY <2>1, IssuesOf
  <2>3. b.id = id /\ "missing_source_reference" \in ComponentIssues(e, b)
    BY <2>2
  <2>4. b = c
    BY <1>3, <1>6, <2>3
  <2>5. "missing_source_reference" \in ComponentIssues(e, c)
    BY <2>3, <2>4
  <2>6. c.dict
    BY <2>5 DEF ComponentIssues
  <2>7. Sources(c.obj) = {}
    BY <2>5, <2>6, ComponentCodes, SMTT(30)
  <2>. QED  BY <1>12, <2>7
<1>. QED  BY <1>1, <1>13, <1>14 DEF F

-----------------------------------------------------------------------------
(* A fix of what has none of the fields to remove.                         *)

\* The document d has no member at the paths a.
Clear(d, a) ==
  /\ \A k : <<"root", k>> \in a => k \notin Keys(d.root)
  /\ HasMetadata(d) => \A k : <<"metadata", k>> \in a => k \notin Keys(d.meta)
  /\ HasMain(d) => \A k : <<"metadata.component", k>> \in a => k \notin Keys(d.main)
  /\ \A i \in Dicts(d) : \A k : <<"components[]", k>> \in a => k \notin Keys(d.comps[i].obj)

\* What is counted nowhere is nowhere.
LEMMA ClearIf ==
  ASSUME NEW d, Sound(d), NEW a, \A p \in a : ~(FieldCount(d, p) > 0)
  PROVE  Clear(d, a)
<1>1. ASSUME NEW k, <<"root", k>> \in a PROVE k \notin Keys(d.root)
  <2>1. ~(FieldCount(d, <<"root", k>>) > 0)
    BY <1>1
  <2>. QED  BY <2>1 DEF FieldCount
<1>2. ASSUME HasMetadata(d), NEW k, <<"metadata", k>> \in a PROVE k \notin Keys(d.meta)
  <2>1. ~(FieldCount(d, <<"metadata", k>>) > 0)
    BY <1>2
  <2>. QED  BY <1>2, <2>1 DEF FieldCount
<1>3. ASSUME HasMain(d), NEW k, <<"metadata.component", k>> \in a PROVE k \notin Keys(d.main)
  <2>1. ~(FieldCount(d, <<"metadata.component", k>>) > 0)
    BY <1>3
  <2>. QED  BY <1>3, <2>1 DEF FieldCount
<1>4. ASSUME NEW i \in Dicts(d), NEW k, <<"components[]", k>> \in a PROVE k \notin Keys(d.comps[i].obj)
  <2>. SUFFICES ASSUME k \in Keys(d.comps[i].obj) PROVE FALSE
    OBVIOUS
  <2>. DEFINE In(o) == IF k \in Keys(o) THEN 1 ELSE 0
              T == {j \in Dicts(d) : In(d.comps[j].obj) = 1}
  <2>1. ~(FieldCount(d, <<"components[]", k>>) > 0)
    BY <1>4
  <2>2. FieldCount(d, <<"components[]", k>>) = Cardinality(T)
    BY DEF FieldCount
  <2>3. i \in T /\ T \subseteq DOMAIN d.comps
    BY <1>4 DEF Dicts
  <2>. HIDE DEF T
  <2>4. IsFiniteSet(DOMAIN d.comps)
    BY SoundObjects, RangeIsFinite
  <2>5. IsFiniteSet(T)
    BY <2>3, <2>4, FS_Subset
  <2>6. Cardinality(T) \in Nat /\ Cardinality(T) # 0
    BY <2>3, <2>5, FS_CardinalityType, FS_EmptySet
  <2>. QED  BY <2>1, <2>2, <2>6
<1>. QED  BY <1>1, <1>2, <1>3, <1>4 DEF Clear

\* An object that has none of the fields loses none.
LEMMA WithoutNone ==
  ASSUME NEW o, Obj(o), NEW context, NEW a, \A k : <<context, k>> \in a => k \notin Keys(o)
  PROVE  Without(o, context, a) = o
<1>1. \A m \in ToSet(o) : m[1] \in Keys(o)
  BY DEF Keys
<1>2. ToSet(o) \subseteq {m \in ToSet(o) : <<context, m[1]>> \notin a}
  BY <1>1
<1>3. IsSequence(o)
  BY ObjSequence
<1>. QED  BY <1>2, <1>3, OnlyAll, Zenon DEF Without

\* The removal of what may only be among the licences.
LEMMA ClearDrop ==
  ASSUME NEW d, Sound(d), NEW a, <<"components[]", "components">> \notin a, Clear(d, a \ {Licences})
  PROVE  LET b == DropFields(d, a)
         IN /\ b = With(b, b.comps) /\ b.root = d.root /\ b.meta = d.meta /\ b.main = d.main
            /\ NewObjects(d, b) /\ SameTree(d, b)
            /\ \A i \in DOMAIN d.comps :
                 /\ b.comps[i].dict = d.comps[i].dict
                 /\ b.comps[i].obj = IF d.comps[i].dict THEN Without(d.comps[i].obj, "components[]", a)
                                     ELSE d.comps[i].obj
                 /\ d.comps[i].dict => Pruned(d.comps[i].obj, b.comps[i].obj, "components[]", a)
<1>. DEFINE b == DropFields(d, a)
            meta == IF HasMetadata(d) THEN Without(d.meta, "metadata", a) ELSE d.meta
            main == IF HasMain(d) THEN Without(d.main, "metadata.component", a) ELSE d.main
            cs == [i \in DOMAIN d.comps |->
                     IF i \in Dicts(d) THEN [d.comps[i] EXCEPT !.obj = Without(@, "components[]", a)] ELSE d.comps[i]]
            f == [i \in Dicts(d) |-> Without(d.comps[i].obj, "components[]", a)]
<1>0. Obj(d.root) /\ Obj(d.meta) /\ Obj(d.main)
  BY SoundObjects
<1>1. b = [root |-> Without(d.root, "root", a), meta |-> meta, main |-> main, comps |-> cs]
  BY DEF DropFields
<1>2. \A i \in DOMAIN d.comps : i \in Dicts(d) <=> d.comps[i].dict
  BY DEF Dicts
<1>3. cs = NewAt(d, Dicts(d), f)
  BY DEF NewAt
<1>. HIDE DEF cs
<1>4. NewObjects(d, b) /\ SameTree(d, b)
      /\ \A i \in DOMAIN d.comps :
           d.comps[i].dict => Pruned(d.comps[i].obj, b.comps[i].obj, "components[]", a)
  BY DropFieldsEffect
<1>5. \A k : /\ <<"root", k>> \in a => k \notin Keys(d.root)
             /\ HasMetadata(d) /\ <<"metadata", k>> \in a => k \notin Keys(d.meta)
             /\ HasMain(d) /\ <<"metadata.component", k>> \in a => k \notin Keys(d.main)
  <2>1. \A k : <<"root", k>> # Licences /\ <<"metadata", k>> # Licences /\ <<"metadata.component", k>> # Licences
    BY DEF Licences
  <2>. QED  BY <2>1, Zenon DEF Clear
<1>6. Without(d.root, "root", a) = d.root
  BY <1>0, <1>5, WithoutNone, Zenon
<1>7. meta = d.meta
  BY <1>0, <1>5, WithoutNone, Zenon
<1>8. main = d.main
  BY <1>0, <1>5, WithoutNone, Zenon
<1>. HIDE DEF meta, main
<1>9. b = With(b, b.comps) /\ b.root = d.root /\ b.meta = d.meta /\ b.main = d.main /\ b.comps = cs
  BY <1>1, <1>6, <1>7, <1>8 DEF With
<1>10. \A i \in DOMAIN d.comps : b.comps[i].dict = d.comps[i].dict
  <2>. HIDE DEF b
  <2>. QED  BY <1>4, NewObjectsSame
<1>11. ASSUME NEW i \in DOMAIN d.comps
       PROVE  b.comps[i].obj = IF d.comps[i].dict THEN Without(d.comps[i].obj, "components[]", a)
                               ELSE d.comps[i].obj
  <2>. HIDE DEF b
  <2>1. b.comps[i] = IF i \in Dicts(d) THEN [d.comps[i] EXCEPT !.obj = f[i]] ELSE d.comps[i]
    BY <1>3, <1>9 DEF NewAt
  <2>2. d.comps[i].dict => b.comps[i].obj = f[i]
    <3>. DEFINE c == d.comps[i]
    <3>1. c = [id |-> c.id, up |-> c.up, dict |-> c.dict, obj |-> c.obj]
      BY SoundHasParts DEF SoundParts, SoundComponent, IsComponent
    <3>. HIDE DEF f
    <3>. QED  BY <1>2, <2>1, <3>1
  <2>3. i \in Dicts(d) => f[i] = Without(d.comps[i].obj, "components[]", a)
    OBVIOUS
  <2>. HIDE DEF f
  <2>. QED  BY <1>2, <2>1, <2>2, <2>3
<1>. QED  BY <1>4, <1>9, <1>10, <1>11 DEF b

\* A document that has none of the fields is not changed by their removal.
LEMMA NothingToDrop ==
  ASSUME NEW d, Sound(d), NEW a, <<"components[]", "components">> \notin a, Clear(d, a)
  PROVE  DropFields(d, a) = d
<1>. DEFINE b == DropFields(d, a)
<1>1. Clear(d, a \ {Licences})
  BY DEF Clear
<1>2. /\ b = With(b, b.comps) /\ b.root = d.root /\ b.meta = d.meta /\ b.main = d.main /\ NewObjects(d, b)
      /\ \A i \in DOMAIN d.comps :
           b.comps[i].obj = IF d.comps[i].dict THEN Without(d.comps[i].obj, "components[]", a)
                            ELSE d.comps[i].obj
  BY <1>1, ClearDrop
<1>. HIDE DEF b
<1>3. \A i \in DOMAIN d.comps : b.comps[i].obj = d.comps[i].obj
  <2>. SUFFICES ASSUME NEW i \in DOMAIN d.comps, d.comps[i].dict
                PROVE  Without(d.comps[i].obj, "components[]", a) = d.comps[i].obj
    BY <1>2
  <2>1. i \in Dicts(d) /\ Obj(d.comps[i].obj)
    BY SoundObjects DEF Dicts
  <2>2. \A k : <<"components[]", k>> \in a => k \notin Keys(d.comps[i].obj)
    BY <2>1 DEF Clear
  <2>. QED  BY <2>1, <2>2, WithoutNone
<1>. QED  BY <1>2, <1>3, SameObjects DEF b

-----------------------------------------------------------------------------
(* What a second fix finds.                                                *)

\* The result of a fix: each enabled rule has left what it leaves, and the fields are gone.
LEMMA FixSettles ==
  ASSUME NEW d, Sound(d), NEW opt, IsOptions(opt), NEW fields, \A p \in fields : p = <<p[1], p[2]>>
  PROVE  LET e == Fix(d, opt, fields).fixed
             a == AcceptedPaths(fields, opt.keep)
         IN /\ FrameSettled(opt, e) /\ EntriesSettled(opt, a, 14, e)
            /\ RuleAt(15) \in opt.rules => FrameInOrder(e) /\ EntriesInOrder(e)
            /\ Sound(e) /\ Clear(e, a \ {Licences})
<1>. DEFINE F == Fix(d, opt, fields)
            e == F.fixed
            a == AcceptedPaths(fields, opt.keep)
            b == DropFields(d, a)
<1>1. Sound(b) /\ NewObjects(d, b) /\ Sound(e)
  BY FixStages
<1>2. PICK D : Passes(D, b, opt, F.counts) /\ e = D[15]
  BY FixStages
<1>3. <<"components[]", "components">> \notin a
  BY FstecPathSet DEF AcceptedPaths
<1>4. Clear(e, a \ {Licences})
  <2>1. ASSUME NEW p \in a \ {Licences} PROVE ~(FieldCount(e, p) > 0)
    <3>1. p = <<p[1], p[2]>> /\ p \in AcceptedPaths(fields, opt.keep)
      BY DEF AcceptedPaths
    <3>2. FieldCount(Fix(d, opt, fields).fixed, p) > 0 => p = Licences
      BY <3>1, RemovedIsGone
    <3>. QED  BY <3>2
  <2>. HIDE DEF a, e
  <2>. QED  BY <1>1, <2>1, ClearIf
<1>. HIDE DEF a
<1>5. \A i \in DOMAIN d.comps :
        IF d.comps[i].dict THEN Pruned(d.comps[i].obj, b.comps[i].obj, "components[]", a)
        ELSE b.comps[i].obj = d.comps[i].obj
  BY <1>3, DropFieldsEffect
<1>. HIDE DEF b, F
<1>6. Licences \in a => \A c \in ToSet(b.comps) : c.dict => ~Odd(Get(c.obj, "licenses"))
  <2>. SUFFICES ASSUME Licences \in a, NEW c \in ToSet(b.comps), c.dict PROVE ~Odd(Get(c.obj, "licenses"))
    OBVIOUS
  <2>1. PICK i \in DOMAIN b.comps : b.comps[i] = c
    BY InSet
  <2>2. i \in DOMAIN d.comps /\ d.comps[i].dict
    BY <1>1, <2>1, NewObjectsSame DEF NewObjects
  <2>3. Get(c.obj, "licenses") = Absent
    BY <1>5, <2>1, <2>2 DEF Pruned, Licences
  <2>. QED  BY <2>3 DEF Odd, Absent, IsNone, V
<1>7. FrameSettled(opt, D[15])
  BY <1>1, <1>2, FixSettlesFrame
<1>8. /\ EntriesSettled(opt, a, 14, D[15])
      /\ RuleAt(15) \in opt.rules => FrameInOrder(D[15]) /\ EntriesInOrder(D[15])
  BY <1>1, <1>2, <1>6, FixSettlesEntries
<1>9. /\ FrameSettled(opt, e) /\ EntriesSettled(opt, a, 14, e) /\ Sound(e) /\ Clear(e, a \ {Licences})
      /\ RuleAt(15) \in opt.rules => FrameInOrder(e) /\ EntriesInOrder(e)
  BY <1>1, <1>2, <1>4, <1>7, <1>8
<1>. QED  BY <1>9 DEF a, F

\* So that a second fix, once it has removed the fields, has little to do.
LEMMA FixThenAgain ==
  ASSUME NEW opt, NEW a, <<"components[]", "components">> \notin a, NEW e, Sound(e), Clear(e, a \ {Licences}),
         FrameSettled(opt, e), EntriesSettled(opt, a, 14, e),
         RuleAt(15) \in opt.rules => FrameInOrder(e) /\ EntriesInOrder(e)
  PROVE  Again(opt, a, 0, DropFields(e, a))
<1>. DEFINE b == DropFields(e, a)
<1>1. /\ b.root = e.root /\ b.meta = e.meta /\ b.main = e.main /\ NewObjects(e, b)
      /\ \A i \in DOMAIN e.comps :
           /\ b.comps[i].dict = e.comps[i].dict
           /\ b.comps[i].obj = IF e.comps[i].dict THEN Without(e.comps[i].obj, "components[]", a)
                               ELSE e.comps[i].obj
           /\ e.comps[i].dict => Pruned(e.comps[i].obj, b.comps[i].obj, "components[]", a)
  BY ClearDrop
<1>. HIDE DEF b
<1>2. DOMAIN b.comps = DOMAIN e.comps
  BY <1>1 DEF NewObjects
<1>3. FrameSettled(opt, b) /\ (FrameInOrder(e) => FrameInOrder(b))
  BY <1>1, SameFrame
<1>4. ASSUME NEW i \in DOMAIN e.comps, e.comps[i].dict PROVE Ready(opt, a, 7, b.comps[i].obj)
  <2>. DEFINE o == e.comps[i].obj
              p == b.comps[i].obj
  <2>1. Settled(opt, 14, o) /\ (Licences \in a => ~Odd(Get(o, "licenses")))
    BY <1>4 DEF EntriesSettled
  <2>2. \A k : IF <<"components[]", k>> \in a THEN k \notin Keys(p) /\ Get(p, k) = Absent ELSE SameAt(o, p, k)
    BY <1>1, <1>4, Zenon DEF Pruned
  <2>3. \A k : <<"components[]", k>> \in a /\ k # "licenses" => k \notin Keys(o)
    <3>1. i \in Dicts(e)
      BY <1>4 DEF Dicts
    <3>2. \A k : k # "licenses" => <<"components[]", k>> # Licences
      BY DEF Licences
    <3>. QED  BY <3>1, <3>2 DEF Clear
  <2>. HIDE DEF o, p
  <2>4. ASSUME NEW k, <<"components[]", k>> \notin a \/ k # "licenses" PROVE SameAt(o, p, k)
    <3>1. CASE <<"components[]", k>> \notin a
      BY <2>2, <3>1
    <3>2. CASE <<"components[]", k>> \in a
      <4>1. k \notin Keys(o) /\ k \notin Keys(p) /\ Get(p, k) = Absent
        BY <2>2, <2>3, <2>4, <3>2
      <4>. QED  BY <4>1 DEF SameAt, Get
    <3>. QED  BY <3>1, <3>2
  <2>5. CASE Licences \in a
    <3>1. Get(p, "licenses") = Absent
      BY <2>2, <2>5 DEF Licences
    <3>2. AlikeBut(o, p, {"licenses"})
      BY <2>4, Zenon DEF AlikeBut
    <3>. QED  BY <2>1, <2>5, <3>1, <3>2, ReadyAgain DEF p
  <2>6. CASE Licences \notin a
    <3>1. AlikeBut(o, p, {})
      BY <2>4, <2>6, Zenon DEF AlikeBut, Licences
    <3>. QED  BY <2>1, <2>6, <3>1, ReadyAgain DEF p
  <2>. QED  BY <2>5, <2>6
<1>5. EntriesReady(opt, a, 7, b)
  BY <1>1, <1>2, <1>4 DEF EntriesReady
<1>6. EntriesInOrder(e) => EntriesInOrder(b)
  <2>. SUFFICES ASSUME EntriesInOrder(e), NEW i \in DOMAIN e.comps
                PROVE  InPlace(b.comps[i].obj, ComponentPriority)
    BY <1>2 DEF EntriesInOrder
  <2>1. InPlace(e.comps[i].obj, ComponentPriority) /\ Obj(e.comps[i].obj)
    BY SoundObjects DEF EntriesInOrder
  <2>2. InPlace(Without(e.comps[i].obj, "components[]", a), ComponentPriority)
    BY <2>1, InPlaceOnly DEF Without
  <2>. QED  BY <1>1, <2>1, <2>2
<1>. QED  BY <1>3, <1>5, <1>6 DEF Again, b

-----------------------------------------------------------------------------
(* A fix that has counted nothing.                                         *)

\* A fix that has counted nothing has changed nothing.
LEMMA UncountedFix ==
  ASSUME NEW d, Sound(d), NEW opt, IsOptions(opt), NEW fields, ~Fix(d, opt, fields).changed
  PROVE  Fix(d, opt, fields).fixed = d
<1>. DEFINE F == Fix(d, opt, fields)
            a == AcceptedPaths(fields, opt.keep)
            b == DropFields(d, a)
            r == F.counts
<1>1. /\ Sound(b) /\ \A p \in a : F.removed[p] = FieldCount(d, p)
      /\ F.changed <=> \/ \E x \in opt.rules : F.counts[x] > 0
                       \/ \E p \in a : F.removed[p] > 0
  BY FixStages
<1>2. PICK D : Passes(D, b, opt, r) /\ F.fixed = D[15]
  BY FixStages
<1>3. <<"components[]", "components">> \notin a
  BY FstecPathSet DEF AcceptedPaths
<1>4. ~F.changed
  OBVIOUS
<1>. HIDE DEF a
<1>5. b = d
  <2>1. \A p \in a : ~(FieldCount(d, p) > 0)
    BY <1>1, <1>4
  <2>. QED  BY <1>3, <2>1, ClearIf, NothingToDrop
<1>6. \A x \in opt.rules : ~(r[x] > 0)
  BY <1>1, <1>4
<1>. HIDE DEF b, F, r
<1>7. \A i \in 1..15 : D[i] = D[i - 1]
  <2>. SUFFICES ASSUME NEW i \in 1..15 PROVE D[i] = D[i - 1]
    OBVIOUS
  <2>1. /\ D[i] = IF RuleAt(i) \in opt.rules THEN Pass(D[i - 1], b, opt, i).doc ELSE D[i - 1]
        /\ RuleAt(i) \in opt.rules => r[RuleAt(i)] = Pass(D[i - 1], b, opt, i).n
    BY <1>1, <1>2, StageAt
  <2>2. RuleAt(i) \in opt.rules => Applied(opt, D[i - 1], Pass(D[i - 1], b, opt, i))
    BY <1>1, <1>2, StagesFollow
  <2>. QED  BY <1>6, <2>1, <2>2 DEF Applied
<1>8. D[0] = b
  BY <1>2 DEF Passes
<1>. DEFINE I == {n \in Nat : n <= 15 => D[n] = b}
<1>9. \A n \in Nat : n \in I
  <2>1. 0 \in I
    BY <1>8
  <2>2. \A n \in Nat : n \in I => n + 1 \in I
    <3>. SUFFICES ASSUME NEW n \in Nat, n + 1 <= 15, D[n] = b PROVE D[n + 1] = b
      OBVIOUS
    <3>1. n + 1 \in 1..15 /\ (n + 1) - 1 = n
      OBVIOUS
    <3>. QED  BY <1>7, <3>1
  <2>. HIDE DEF I
  <2>. QED  BY <2>1, <2>2, Induction
<1>10. D[15] = b
  <2>1. 15 \in I
    BY <1>9
  <2>. QED  BY <2>1
<1>11. F.fixed = d
  BY <1>2, <1>5, <1>10
<1>. QED  BY <1>11 DEF F

\* A leaf rule that counts removes components.
LEMMA LeavesCounted ==
  ASSUME NEW d, Sound(d), NEW opt, IsOptions(opt), NEW fields, NEW i \in 5..7, RuleAt(i) \in opt.rules,
         Fix(d, opt, fields).counts[RuleAt(i)] > 0
  PROVE  Ids(Fix(d, opt, fields).fixed) # Ids(d)
<1>. DEFINE F == Fix(d, opt, fields)
            e == F.fixed
            r == F.counts
            b == DropFields(d, AcceptedPaths(fields, opt.keep))
            rules == ToSet(LeafRules) \cap opt.rules
<1>1. Sound(b) /\ Sound(e)
  BY FixStages
<1>2. PICK D : Passes(D, b, opt, r)
  BY FixStages
<1>3. Total(r, rules) = Len(d.comps) - Len(e.comps)
  BY FixLeaves, Zenon
<1>4. r[RuleAt(i)] > 0
  OBVIOUS
<1>. HIDE DEF F, b, r
<1>5. ASSUME NEW j \in 5..7, RuleAt(j) \in opt.rules PROVE r[RuleAt(j)] \in Nat
  <2>1. j \in 1..15
    OBVIOUS
  <2>2. r[RuleAt(j)] = Pass(D[j - 1], b, opt, j).n
    BY <1>1, <1>2, <1>5, <2>1, StageAt
  <2>3. Applied(opt, D[j - 1], Pass(D[j - 1], b, opt, j))
    BY <1>1, <1>2, <1>5, <2>1, StagesFollow
  <2>. QED  BY <2>2, <2>3 DEF Applied
<1>6. IsFiniteSet(rules) /\ RuleAt(i) \in rules /\ \A x \in rules : r[x] \in Nat
  <2>1. ToSet(LeafRules) = {RuleAt(5), RuleAt(6), RuleAt(7)}
    BY LeafRuleSet DEF RuleAt
  <2>2. IsFiniteSet({RuleAt(5)} \cup {RuleAt(6)} \cup {RuleAt(7)})
    BY FS_Singleton, FS_Union, Zenon
  <2>3. {RuleAt(5)} \cup {RuleAt(6)} \cup {RuleAt(7)} = {RuleAt(5), RuleAt(6), RuleAt(7)}
    OBVIOUS
  <2>4. IsFiniteSet(rules)
    BY <2>1, <2>2, <2>3, FS_Subset
  <2>5. i = 5 \/ i = 6 \/ i = 7
    OBVIOUS
  <2>6. RuleAt(i) \in rules
    BY <2>1, <2>5
  <2>7. \A x \in rules : r[x] \in Nat
    <3>1. 5 \in 5..7 /\ 6 \in 5..7 /\ 7 \in 5..7
      OBVIOUS
    <3>. QED  BY <1>5, <2>1, <3>1
  <2>. QED  BY <2>4, <2>6, <2>7
<1>. HIDE DEF rules
<1>7. Total(r, rules) # 0
  <2>. SUFFICES ASSUME Total(r, rules) = 0 PROVE FALSE
    OBVIOUS
  <2>1. r[RuleAt(i)] = 0
    BY <1>6, TotalNone
  <2>. QED  BY <1>4, <2>1
<1>8. Cardinality(Ids(d)) = Len(d.comps) /\ Cardinality(Ids(e)) = Len(e.comps)
      /\ Len(d.comps) \in Nat /\ Len(e.comps) \in Nat
  BY <1>1, IdCount, SoundObjects
<1>9. Ids(e) # Ids(d)
  BY <1>3, <1>7, <1>8
<1>. QED  BY <1>9 DEF F
=============================================================================
