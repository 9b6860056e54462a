------------------------------ MODULE FoldLaws ------------------------------
(***************************************************************************)
(* What a fold over a sequence computes, for any step: FoldLeft is defined *)
(* by a recursive function on the subsets of the indices; here it is shown *)
(* to exist and to go through the sequence entry by entry.                 *)
(***************************************************************************)
EXTENDS Integers, Sequences, FiniteSetTheorems, TLAPS

CONSTANTS Op(_, _, _)   \* the step: from a context and what was folded so far, with the next entry

Last(S) == CHOOSE x \in S : \A y \in S : x >= y

\* The function that FoldLeft recurses over: on the sets of the indices D of seq.
OnSets(g, c, base, seq, D) ==
  g = [S \in SUBSET D |-> IF S = {} THEN base ELSE Op(c, g[S \ {Last(S)}], seq[Last(S)])]
Folded(c, base, seq) == (CHOOSE g : OnSets(g, c, base, seq, DOMAIN seq))[DOMAIN seq]

\* What was folded after each entry.
Trace(t, c, base, seq, n) ==
  t = [i \in 0..n |-> IF i = 0 THEN base ELSE Op(c, t[i - 1], seq[i])]
Traced(c, base, seq) == (CHOOSE t : Trace(t, c, base, seq, Len(seq)))[Len(seq)]

-----------------------------------------------------------------------------
\* A set of numbers that holds 0, and with each number the next, holds them all.
LEMMA Induction ==
  ASSUME NEW S, 0 \in S, \A n \in Nat : n \in S => n + 1 \in S
  PROVE  Nat \subseteq S
<1>. SUFFICES ASSUME NEW m \in Nat, m \notin S PROVE FALSE
  OBVIOUS
<1>. DEFINE A == {k \in 0..m : k \in S}
            B == A \ {0}
            f == [k \in A |-> k + 1]
<1>1. IsFiniteSet(A)
  <2>1. IsFiniteSet(0..m)
    BY FS_Interval
  <2>. QED  BY <2>1, FS_Subset
<1>2. Cardinality(A) \in Nat
  BY <1>1, FS_CardinalityType
<1>3. IsFiniteSet(B) /\ Cardinality(B) = Cardinality(A) - 1
  <2>1. 0 \in A
    OBVIOUS
  <2>. HIDE DEF A
  <2>. QED  BY <1>1, <2>1, FS_RemoveElement
<1>4. f \in [A -> B]
  <2>. SUFFICES ASSUME NEW k \in A PROVE k + 1 \in B
    OBVIOUS
  <2>. k # m
    OBVIOUS
  <2>. QED  OBVIOUS
<1>5. \E x, y \in A : x # y /\ f[x] = f[y]
  <2>. HIDE DEF A, B, f
  <2>. Cardinality(B) < Cardinality(A)
    BY <1>2, <1>3
  <2>. QED  BY <1>1, <1>3, <1>4, FS_PigeonHole
<1>. QED  BY <1>5

\* The last of the indices that include the end is the end.
LEMMA LastOfPrefix ==
  ASSUME NEW n \in Nat, NEW S \in SUBSET (1..n + 1), n + 1 \in S
  PROVE  Last(S) = n + 1
<1>1. \A x \in S : n + 1 >= x
  OBVIOUS
<1>2. \A x \in S : (\A y \in S : x >= y) => x = n + 1
  OBVIOUS
<1>. QED  BY <1>1, <1>2 DEF Last

\* A finite set of indices has a last one.
LEMMA LastIn ==
  ASSUME NEW n \in Nat, NEW S \in SUBSET (1..n), S # {}
  PROVE  Last(S) \in S
<1>. DEFINE N == {m \in Nat : \A T \in SUBSET (1..m) : T # {} => \E x \in T : \A y \in T : x >= y}
<1>1. Nat \subseteq N
  <2>1. 0 \in N
    <3>. 1..0 = {}
      OBVIOUS
    <3>. QED  OBVIOUS
  <2>2. ASSUME NEW m \in Nat, m \in N PROVE m + 1 \in N
    <3>. SUFFICES ASSUME NEW T \in SUBSET (1..m + 1), T # {} PROVE \E x \in T : \A y \in T : x >= y
      OBVIOUS
    <3>1. CASE m + 1 \in T
      BY <3>1
    <3>2. CASE m + 1 \notin T
      <4>. T \in SUBSET (1..m)
        BY <3>2
      <4>. QED  BY <2>2
    <3>. QED  BY <3>1, <3>2
  <2>. HIDE DEF N
  <2>. QED  BY <2>1, <2>2, Induction
<1>. QED  BY <1>1 DEF Last

\* The recursion over sets has a solution.
LEMMA OnSetsExists ==
  ASSUME NEW c, NEW base, NEW seq, NEW n \in Nat
  PROVE  \E g : OnSets(g, c, base, seq, 1..n)
<1>. DEFINE N == {m \in Nat : \E g : OnSets(g, c, base, seq, 1..m)}
<1>1. 0 \in N
  <2>. DEFINE g == [S \in SUBSET (1..0) |-> base]
  <2>1. \A S \in SUBSET (1..0) : S = {}
    OBVIOUS
  <2>2. OnSets(g, c, base, seq, 1..0)
    BY <2>1 DEF OnSets
  <2>. QED  BY <2>2
<1>2. ASSUME NEW m \in Nat, m \in N PROVE m + 1 \in N
  <2>. PICK g : OnSets(g, c, base, seq, 1..m)
    BY <1>2
  <2>. DEFINE h == [S \in SUBSET (1..m + 1) |->
                      IF m + 1 \in S THEN Op(c, g[S \ {m + 1}], seq[m + 1]) ELSE g[S]]
  <2>1. ASSUME NEW S \in SUBSET (1..m + 1)
        PROVE  h[S] = IF S = {} THEN base ELSE Op(c, h[S \ {Last(S)}], seq[Last(S)])
    <3>1. CASE m + 1 \in S
      <4>1. Last(S) = m + 1
        BY <3>1, LastOfPrefix
      <4>2. S \ {m + 1} \in SUBSET (1..m) /\ S \ {m + 1} \in SUBSET (1..m + 1)
        OBVIOUS
      <4>3. h[S \ {m + 1}] = g[S \ {m + 1}]
        BY <4>2
      <4>. QED  BY <3>1, <4>1, <4>3
    <3>2. CASE m + 1 \notin S
      <4>1. S \in SUBSET (1..m)
        BY <3>2
      <4>2. h[S] = g[S]
        BY <3>2
      <4>3. g[S] = IF S = {} THEN base ELSE Op(c, g[S \ {Last(S)}], seq[Last(S)])
        BY <4>1 DEF OnSets
      <4>4. m + 1 \notin S \ {Last(S)} /\ S \ {Last(S)} \in SUBSET (1..m + 1)
        BY <3>2
      <4>5. h[S \ {Last(S)}] = g[S \ {Last(S)}]
        BY <4>4
      <4>. HIDE DEF h
      <4>. QED  BY <4>2, <4>3, <4>5
    <3>. QED  BY <3>1, <3>2
  <2>2. h = [S \in SUBSET (1..m + 1) |-> h[S]]
    OBVIOUS
  <2>3. OnSets(h, c, base, seq, 1..m + 1)
    <3>. HIDE DEF h
    <3>. QED  BY <2>1, <2>2 DEF OnSets
  <2>. QED  BY <2>3
<1>. HIDE DEF N
<1>3. Nat \subseteq N
  BY <1>1, <1>2, Induction
<1>. QED  BY <1>3 DEF N

\* It goes through the entries one by one.
LEMMA OnSetsSteps ==
  ASSUME NEW c, NEW base, NEW seq, NEW n \in Nat, NEW g, OnSets(g, c, base, seq, 1..n)
  PROVE  /\ g[1..0] = base
         /\ \A i \in 1..n : g[1..i] = Op(c, g[1..i - 1], seq[i])
<1>1. g[1..0] = base
  <2>. 1..0 = {} /\ {} \in SUBSET (1..n)
    OBVIOUS
  <2>. QED  BY DEF OnSets
<1>2. ASSUME NEW i \in 1..n PROVE g[1..i] = Op(c, g[1..i - 1], seq[i])
  <2>1. 1..i \in SUBSET (1..n) /\ 1..i # {} /\ (1..i) \ {i} = 1..i - 1
    OBVIOUS
  <2>2. Last(1..i) = i
    <3>. i - 1 \in Nat /\ i = (i - 1) + 1 /\ 1..i \in SUBSET (1..(i - 1) + 1) /\ i \in 1..i
      OBVIOUS
    <3>. QED  BY LastOfPrefix
  <2>. QED  BY <2>1, <2>2 DEF OnSets
<1>. QED  BY <1>1, <1>2

\* So its values on the prefixes are a trace.
LEMMA OnSetsTrace ==
  ASSUME NEW c, NEW base, NEW seq, NEW n \in Nat, NEW g, OnSets(g, c, base, seq, 1..n)
  PROVE  \E t : Trace(t, c, base, seq, n) /\ t[n] = g[1..n]
<1>. DEFINE t == [i \in 0..n |-> g[1..i]]
<1>1. ASSUME NEW i \in 0..n PROVE t[i] = IF i = 0 THEN base ELSE Op(c, t[i - 1], seq[i])
  <2>1. g[1..0] = base /\ \A k \in 1..n : g[1..k] = Op(c, g[1..k - 1], seq[k])
    BY OnSetsSteps
  <2>2. i # 0 => i \in 1..n /\ i - 1 \in 0..n
    OBVIOUS
  <2>. QED  BY <2>1, <2>2
<1>2. t = [i \in 0..n |-> t[i]] /\ t[n] = g[1..n]
  OBVIOUS
<1>. HIDE DEF t
<1>3. Trace(t, c, base, seq, n)
  BY <1>1, <1>2 DEF Trace
<1>. QED  BY <1>2, <1>3

\* A trace exists, and there is only one.
LEMMA TraceExists ==
  ASSUME NEW c, NEW base, NEW seq, NEW n \in Nat
  PROVE  \E t : Trace(t, c, base, seq, n)
  BY OnSetsExists, OnSetsTrace

\* What was folded after each entry is determined.
LEMMA TraceUnique ==
  ASSUME NEW c, NEW base, NEW seq, NEW n \in Nat, NEW seq2, NEW m \in 0..n, \A i \in 1..m : seq2[i] = seq[i],
         NEW t, Trace(t, c, base, seq, n), NEW u, Trace(u, c, base, seq2, m)
  PROVE  \A i \in 0..m : t[i] = u[i]
<1>. DEFINE N == {k \in Nat : k <= m => t[k] = u[k]}
<1>1. 0 \in N
  BY DEF Trace
<1>2. ASSUME NEW k \in Nat, k \in N PROVE k + 1 \in N
  <2>. SUFFICES ASSUME k + 1 <= m PROVE t[k + 1] = u[k + 1]
    OBVIOUS
  <2>1. t[k] = u[k]
    BY <1>2
  <2>2. k + 1 \in 0..m /\ k + 1 \in 0..n /\ k + 1 # 0 /\ (k + 1) - 1 = k /\ seq2[k + 1] = seq[k + 1]
    OBVIOUS
  <2>3. t[k + 1] = Op(c, t[k], seq[k + 1])
    BY <2>2 DEF Trace
  <2>4. u[k + 1] = Op(c, u[k], seq2[k + 1])
    BY <2>2 DEF Trace
  <2>. QED  BY <2>1, <2>2, <2>3, <2>4
<1>. HIDE DEF N
<1>3. Nat \subseteq N
  BY <1>1, <1>2, Induction
<1>. QED  BY <1>3 DEF N

\* The trace of one entry more goes one step further.
LEMMA TracePrefix ==
  ASSUME NEW c, NEW base, NEW n \in Nat, NEW N \in Nat, n < N,
         NEW seq, NEW more, \A i \in 1..n : seq[i] = more[i],
         NEW t, Trace(t, c, base, seq, n), NEW u, Trace(u, c, base, more, N)
  PROVE  u[n] = t[n]
<1>1. n \in 0..N /\ n \in 0..n
  OBVIOUS
<1>. QED  BY <1>1, TraceUnique

\* One entry more.
LEMMA TraceNext ==
  ASSUME NEW c, NEW base, NEW n \in Nat, NEW seq, NEW more, \A i \in 1..n : seq[i] = more[i],
         NEW t, Trace(t, c, base, seq, n), NEW u, Trace(u, c, base, more, n + 1)
  PROVE  u[n + 1] = Op(c, t[n], more[n + 1])
<1>1. u[n] = t[n]
  <2>. n + 1 \in Nat /\ n < n + 1
    OBVIOUS
  <2>. QED  BY TracePrefix
<1>2. u[n + 1] = Op(c, u[n], more[n + 1])
  <2>. n + 1 \in 0..n + 1 /\ n + 1 # 0 /\ (n + 1) - 1 = n
    OBVIOUS
  <2>. QED  BY DEF Trace
<1>. QED  BY <1>1, <1>2

\* A fold is the end of its trace ...
THEOREM FoldIsTrace ==
  ASSUME NEW c, NEW base, NEW seq, NEW n \in Nat, DOMAIN seq = 1..n
  PROVE  \E t : Trace(t, c, base, seq, n) /\ Folded(c, base, seq) = t[n]
<1>1. \E g : OnSets(g, c, base, seq, DOMAIN seq)
  BY OnSetsExists
<1>2. PICK g : OnSets(g, c, base, seq, DOMAIN seq) /\ Folded(c, base, seq) = g[DOMAIN seq]
  BY <1>1 DEF Folded
<1>3. OnSets(g, c, base, seq, 1..n) /\ Folded(c, base, seq) = g[1..n]
  BY <1>2
<1>. QED  BY <1>3, OnSetsTrace

\* ... and so is a function that counts the entries up.
THEOREM CountIsTrace ==
  ASSUME NEW c, NEW base, NEW seq, Len(seq) \in Nat
  PROVE  \E t : Trace(t, c, base, seq, Len(seq)) /\ Traced(c, base, seq) = t[Len(seq)]
<1>. DEFINE t == CHOOSE u : Trace(u, c, base, seq, Len(seq))
<1>1. Trace(t, c, base, seq, Len(seq))
  BY TraceExists
<1>2. Traced(c, base, seq) = t[Len(seq)]
  BY DEF Traced
<1>. QED  BY <1>1, <1>2

\* Both start with the base, and an entry more is a step more.
THEOREM FoldEmpty ==
  ASSUME NEW c, NEW base, NEW seq, DOMAIN seq = 1..0
  PROVE  Folded(c, base, seq) = base
<1>1. PICK t : Trace(t, c, base, seq, 0) /\ Folded(c, base, seq) = t[0]
  BY FoldIsTrace
<1>. QED  BY <1>1 DEF Trace

\* A fold over one entry more takes one step more.
THEOREM FoldNext ==
  ASSUME NEW c, NEW base, NEW n \in Nat, NEW seq, NEW more,
         DOMAIN more = 1..n + 1, DOMAIN seq = 1..n, \A i \in 1..n : seq[i] = more[i]
  PROVE  Folded(c, base, more) = Op(c, Folded(c, base, seq), more[n + 1])
<1>1. \E t : Trace(t, c, base, seq, n) /\ Folded(c, base, seq) = t[n]
  BY FoldIsTrace
<1>2. \E u : Trace(u, c, base, more, n + 1) /\ Folded(c, base, more) = u[n + 1]
  <2>. n + 1 \in Nat
    OBVIOUS
  <2>. QED  BY FoldIsTrace
<1>. QED  BY <1>1, <1>2, TraceNext

\* A fold over nothing.
THEOREM CountEmpty ==
  ASSUME NEW c, NEW base, NEW seq, Len(seq) = 0
  PROVE  Traced(c, base, seq) = base
<1>1. PICK t : Trace(t, c, base, seq, Len(seq)) /\ Traced(c, base, seq) = t[Len(seq)]
  BY CountIsTrace
<1>. QED  BY <1>1 DEF Trace

\* One entry more to count.
THEOREM CountNext ==
  ASSUME NEW c, NEW base, NEW n \in Nat, NEW seq, Len(seq) = n,
         NEW more, Len(more) = n + 1, \A i \in 1..n : seq[i] = more[i]
  PROVE  Traced(c, base, more) = Op(c, Traced(c, base, seq), more[n + 1])
<1>1. PICK t : Trace(t, c, base, seq, n) /\ Traced(c, base, seq) = t[n]
  BY CountIsTrace
<1>2. PICK u : Trace(u, c, base, more, n + 1) /\ Traced(c, base, more) = u[n + 1]
  BY CountIsTrace
<1>3. u[n + 1] = Op(c, t[n], more[n + 1])
  BY <1>1, <1>2, TraceNext
<1>. QED  BY <1>1, <1>2, <1>3

\* A function that is defined at each number from its values at the smaller ones exists.
THEOREM RecursionExists ==
  ASSUME NEW c, NEW n \in Nat,
         \A f, g : \A i \in 1..n : (\A j \in 1..i - 1 : f[j] = g[j]) => Op(c, f, i) = Op(c, g, i)
  PROVE  \E f : f = [i \in 1..n |-> Op(c, f, i)]
<1>. DEFINE N == {m \in Nat : m <= n => \E f : f = [i \in 1..m |-> Op(c, f, i)]}
<1>1. 0 \in N
  <2>. DEFINE f == [i \in 1..0 |-> i]
  <2>1. f = [i \in 1..0 |-> Op(c, f, i)]
    OBVIOUS
  <2>. QED  BY <2>1
<1>2. ASSUME NEW m \in Nat, m \in N PROVE m + 1 \in N
  <2>. SUFFICES ASSUME m + 1 <= n PROVE \E f : f = [i \in 1..m + 1 |-> Op(c, f, i)]
    OBVIOUS
  <2>1. PICK f : f = [i \in 1..m |-> Op(c, f, i)]
    BY <1>2
  <2>. DEFINE h == [i \in 1..m + 1 |-> IF i = m + 1 THEN Op(c, f, m + 1) ELSE f[i]]
  <2>2. \A i \in 1..m : h[i] = f[i]
    OBVIOUS
  <2>3. h[m + 1] = Op(c, f, m + 1) /\ h = [i \in 1..m + 1 |-> h[i]]
    OBVIOUS
  <2>. HIDE DEF h
  <2>4. ASSUME NEW i \in 1..m + 1 PROVE h[i] = Op(c, h, i)
    <3>1. i \in 1..n /\ \A j \in 1..i - 1 : h[j] = f[j]
      BY <2>2
    <3>2. Op(c, h, i) = Op(c, f, i)
      BY <3>1
    <3>3. CASE i = m + 1
      BY <2>3, <3>2, <3>3
    <3>4. CASE i # m + 1
      <4>1. i \in 1..m
        BY <3>4
      <4>. QED  BY <2>1, <2>2, <3>2, <4>1
    <3>. QED  BY <3>3, <3>4
  <2>5. h = [i \in 1..m + 1 |-> Op(c, h, i)]
    BY <2>3, <2>4
  <2>. QED  BY <2>5
<1>. HIDE DEF N
<1>3. Nat \subseteq N
  BY <1>1, <1>2, Induction
<1>. QED  BY <1>3 DEF N
=============================================================================
