----------------------------- MODULE Inductions -----------------------------
(* What the proofs about data rest on: the least of some numbers, induction *)
(* as a fact about sets of numbers, recursive functions on intervals, and   *)
(* sequences put together of sequences.                                     *)
EXTENDS SequencesExt, Integers, FiniteSetTheorems, WellFoundedInduction, TLAPS

\* A nonempty set of naturals has a least element: of the intervals 0 .. i that
\* end in it, take one that is minimal under strict inclusion.
LEMMA LeastNatural ==
  ASSUME NEW S \in SUBSET Nat, S # {}
  PROVE  \E i \in S : \A j \in S : i <= j
<1> DEFINE T == {0 .. i : i \in S}
           R == StrictSubsetOrdering(Nat)
<1>1. T \subseteq FiniteSubsetsOf(Nat) /\ T # {}
  <2>1. ASSUME NEW i \in S
        PROVE  0 .. i \in FiniteSubsetsOf(Nat)
    <3>1. IsFiniteSet(0 .. i)
      BY FS_Interval
    <3> QED BY <3>1 DEF FiniteSubsetsOf
  <2> QED BY <2>1
<1>2. IsWellFoundedOn(R, FiniteSubsetsOf(Nat))
  BY FS_StrictSubsetOrderingWellFounded
<1>3. PICK x \in T : \A y \in T : ~ (<<y, x>> \in R)
  <2> HIDE DEF T, R
  <2> QED BY <1>1, <1>2, WFMin
<1>4. PICK i \in S : x = 0 .. i
  OBVIOUS
<1>5. ASSUME NEW j \in S, j < i
      PROVE  FALSE
  <2>1. (0 .. j) \subseteq (0 .. i) /\ 0 .. j # 0 .. i
    <3>1. i \in 0 .. i /\ i \notin 0 .. j
      BY <1>5
    <3> QED BY <1>5, <3>1
  <2>2. <<0 .. j, 0 .. i>> \in R
    BY <2>1 DEF StrictSubsetOrdering
  <2> QED BY <1>3, <1>4, <2>2
<1> QED
  BY <1>5

\* A nonempty set of numbers up to L has a greatest element.
LEMMA GreatestNatural ==
  ASSUME NEW L \in Nat, NEW S \in SUBSET (1 .. L), S # {}
  PROVE  \E i \in S : \A j \in S : j <= i
<1> DEFINE D == {L - i : i \in S}
<1>1. D \in SUBSET Nat /\ D # {}
  <2>1. \A i \in S : L - i \in Nat
    OBVIOUS
  <2> QED BY <2>1
<1>2. PICK d \in D : \A e \in D : d <= e
  <2> HIDE DEF D
  <2> QED BY <1>1, LeastNatural
<1>3. PICK i \in S : d = L - i
  BY <1>2
<1>4. ASSUME NEW j \in S
      PROVE  j <= i
  <2>1. L - j \in D
    OBVIOUS
  <2>2. d <= L - j
    BY <1>2, <2>1
  <2> QED BY <1>3, <2>2
<1> QED BY <1>4

\* Induction: a set with 0 and with the successors of its numbers has all of them.
LEMMA NatInSet ==
  ASSUME NEW S, 0 \in S, \A n \in Nat : n \in S => n + 1 \in S
  PROVE  Nat \subseteq S
<1> SUFFICES ASSUME Nat \ S # {} PROVE FALSE
  OBVIOUS
<1>1. PICK i \in Nat \ S : \A j \in Nat \ S : i <= j
  BY LeastNatural
<1>2. i # 0 /\ i - 1 \in Nat
  BY <1>1
<1>3. i - 1 \in S
  BY <1>1, <1>2
<1> QED BY <1>1, <1>2, <1>3

-----------------------------------------------------------------------------
(* Recursive functions.                                                    *)

\* The steps of a recursion over D, and the function they lead to from a base.
AreSteps(step, L, D) == step \in [1 .. L -> [D -> D]]

Iterates(f, base, step, L, D) ==
  /\ f \in [0 .. L -> D]
  /\ f[0] = base
  /\ \A n \in 1 .. L : f[n] = step[n][f[n - 1]]

\* A function that begins with base and goes on by the steps exists.
LEMMA Iteration ==
  ASSUME NEW L \in Nat, NEW D, NEW base \in D, NEW step, AreSteps(step, L, D)
  PROVE  \E f : Iterates(f, base, step, L, D)
<1> USE DEF AreSteps
<1> DEFINE Upto(k, f) == f[0] = base /\ \A n \in 1 .. k : f[n] = step[n][f[n - 1]]
           Good == {k \in Nat : k <= L => \E f \in [0 .. k -> D] : Upto(k, f)}
<1>1. 0 \in Good
  <2> DEFINE g == [n \in 0 .. 0 |-> base]
  <2>1. g \in [0 .. 0 -> D] /\ Upto(0, g)
    OBVIOUS
  <2> QED BY <2>1
<1>2. ASSUME NEW k \in Nat, k \in Good
      PROVE  k + 1 \in Good
  <2> SUFFICES ASSUME k + 1 <= L
               PROVE  \E f \in [0 .. k + 1 -> D] : Upto(k + 1, f)
    OBVIOUS
  <2>1. PICK f \in [0 .. k -> D] : Upto(k, f)
    BY <1>2
  <2> DEFINE g == [n \in 0 .. k + 1 |-> IF n <= k THEN f[n] ELSE step[k + 1][f[k]]]
  <2>2. f[k] \in D /\ step[k + 1] \in [D -> D]
    OBVIOUS
  <2>3. g \in [0 .. k + 1 -> D]
    <3>1. \A n \in 0 .. k + 1 : n <= k => n \in 0 .. k
      OBVIOUS
    <3> QED BY <2>2, <3>1
  <2>4. g[0] = base
    BY <2>1
  <2>5. ASSUME NEW n \in 1 .. k + 1
        PROVE  g[n] = step[n][g[n - 1]]
    <3>1. CASE n <= k
      <4>1. n \in 1 .. k /\ n \in 0 .. k + 1 /\ n - 1 \in 0 .. k + 1 /\ n - 1 <= k
        BY <3>1
      <4>2. g[n] = f[n] /\ g[n - 1] = f[n - 1]
        BY <3>1, <4>1
      <4> QED BY <2>1, <4>1, <4>2
    <3>2. CASE ~(n <= k)
      <4>1. n = k + 1 /\ n - 1 = k /\ k \in 0 .. k + 1
        BY <3>2
      <4>2. g[k + 1] = step[k + 1][f[k]] /\ g[k] = f[k]
        BY <4>1
      <4> QED BY <4>1, <4>2
    <3> QED BY <3>1, <3>2
  <2> QED BY <2>3, <2>4, <2>5
<1>3. L \in Good
  <2> HIDE DEF Good
  <2> QED BY <1>1, <1>2, NatInSet
<1> QED BY <1>3 DEF Iterates

-----------------------------------------------------------------------------
(* FlattenSeq.                                                             *)

LEMMA FlattenEmpty == FlattenSeq(<<>>) = <<>>
BY DEF FlattenSeq

\* The first sequences put together, for each number of them.
Flattens(f, seqs, X) ==
  /\ f \in [1 .. Len(seqs) -> Seq(X)]
  /\ f[1] = seqs[1]
  /\ \A i \in 2 .. Len(seqs) : f[i] = f[i - 1] \o seqs[i]

\* FlattenSeq is made of them.
LEMMA FlattenFcn ==
  ASSUME NEW X, NEW seqs \in Seq(Seq(X)), Len(seqs) > 0
  PROVE  \E f : Flattens(f, seqs, X) /\ FlattenSeq(seqs) = f[Len(seqs)]
<1> DEFINE L == Len(seqs)
           D == Seq(X)
           step == [n \in 1 .. L - 1 |-> [s \in D |-> s \o seqs[n + 1]]]
           Body(f) == [i \in 1 .. L |-> IF i = 1 THEN seqs[i] ELSE f[i - 1] \o seqs[i]]
<1>1. L \in Nat /\ L - 1 \in Nat /\ \A n \in 1 .. L : seqs[n] \in D
  OBVIOUS
<1>2. step \in [1 .. L - 1 -> [D -> D]]
  <2>1. ASSUME NEW n \in 1 .. L - 1
        PROVE  [s \in D |-> s \o seqs[n + 1]] \in [D -> D]
    <3>1. seqs[n + 1] \in Seq(X)
      BY <1>1
    <3> QED BY <3>1
  <2> QED BY <2>1
<1>3. PICK g : Iterates(g, seqs[1], step, L - 1, D)
  <2>1. seqs[1] \in D /\ AreSteps(step, L - 1, D)
    BY <1>1, <1>2 DEF AreSteps
  <2> HIDE DEF step, D
  <2> QED BY <1>1, <2>1, Iteration
<1>4. /\ g \in [0 .. L - 1 -> D]
      /\ g[0] = seqs[1] /\ \A n \in 1 .. L - 1 : g[n] = step[n][g[n - 1]]
  <2> HIDE DEF step, D
  <2> QED BY <1>3 DEF Iterates
<1> DEFINE h == [i \in 1 .. L |-> g[i - 1]]
<1>5. h \in [1 .. L -> D]
  <2>1. \A i \in 1 .. L : i - 1 \in 0 .. L - 1
    BY <1>1
  <2> HIDE DEF step, D
  <2> QED BY <1>4, <2>1
<1>6. h = Body(h)
  <2>1. ASSUME NEW i \in 1 .. L
        PROVE  h[i] = IF i = 1 THEN seqs[i] ELSE h[i - 1] \o seqs[i]
    <3>1. CASE i = 1
      BY <1>4, <3>1
    <3>2. CASE i # 1
      <4>1. i - 1 \in 1 .. L - 1 /\ i - 1 \in 1 .. L /\ (i - 1) + 1 = i /\ (i - 1) - 1 \in 0 .. L - 1
        BY <1>1, <3>2
      <4>2. h[i] = g[i - 1] /\ h[i - 1] = g[(i - 1) - 1] /\ g[(i - 1) - 1] \in D
        BY <1>4, <4>1
      <4>3. g[i - 1] = step[i - 1][g[(i - 1) - 1]]
        BY <1>4, <4>1
      <4>4. step[i - 1][g[(i - 1) - 1]] = g[(i - 1) - 1] \o seqs[(i - 1) + 1]
        BY <4>1, <4>2
      <4> QED BY <3>2, <4>1, <4>2, <4>3, <4>4
    <3> QED BY <3>1, <3>2
  <2> QED BY <2>1
<1> DEFINE c == CHOOSE f : f = Body(f)
<1>7. c = Body(c)
  <2> HIDE DEF Body, h
  <2> QED BY <1>6
<1>8. FlattenSeq(seqs) = c[L]
  BY <1>1 DEF FlattenSeq
<1>9. c[1] = seqs[1] /\ \A i \in 2 .. L : c[i] = c[i - 1] \o seqs[i]
  <2> HIDE DEF c
  <2>1. ASSUME NEW i \in 1 .. L
        PROVE  c[i] = IF i = 1 THEN seqs[i] ELSE c[i - 1] \o seqs[i]
    <3>1. c[i] = Body(c)[i]
      BY <1>7
    <3> QED BY <3>1
  <2>2. 1 \in 1 .. L
    BY <1>1
  <2>3. \A i \in 2 .. L : i \in 1 .. L /\ i # 1
    BY <1>1
  <2> QED BY <2>1, <2>2, <2>3
<1>10. \A i \in 1 .. L : c[i] \in D
  <2> DEFINE Good == {n \in Nat : n + 1 \in 1 .. L => c[n + 1] \in D}
  <2> HIDE DEF c
  <2>1. 0 \in Good
    BY <1>1, <1>9
  <2>2. ASSUME NEW n \in Nat, n \in Good
        PROVE  n + 1 \in Good
    <3> SUFFICES ASSUME (n + 1) + 1 \in 1 .. L PROVE c[(n + 1) + 1] \in D
      OBVIOUS
    <3>1. n + 1 \in 1 .. L /\ (n + 1) + 1 \in 2 .. L /\ ((n + 1) + 1) - 1 = n + 1
      BY <1>1
    <3>2. c[n + 1] \in Seq(X) /\ seqs[(n + 1) + 1] \in Seq(X)
      BY <1>1, <2>2, <3>1
    <3>3. c[(n + 1) + 1] = c[n + 1] \o seqs[(n + 1) + 1]
      BY <1>9, <3>1
    <3> QED BY <3>2, <3>3
  <2>3. Nat \subseteq Good
    <3> HIDE DEF Good
    <3> QED BY <2>1, <2>2, NatInSet
  <2>4. ASSUME NEW i \in 1 .. L
        PROVE  c[i] \in D
    <3>1. i - 1 \in Nat /\ (i - 1) + 1 = i
      BY <1>1
    <3>2. i - 1 \in Good
      BY <2>3, <3>1
    <3> QED BY <3>1, <3>2
  <2> QED BY <2>4
<1>11. c \in [1 .. L -> D]
  <2>1. c = [i \in 1 .. L |-> c[i]]
    <3> HIDE DEF c
    <3> QED BY <1>7
  <2> HIDE DEF c
  <2> QED BY <1>10, <2>1
<1> HIDE DEF c
<1> QED BY <1>8, <1>9, <1>11 DEF Flattens

\* What is put together of sequences over X is one.
LEMMA FlattenType ==
  ASSUME NEW X, NEW seqs \in Seq(Seq(X))
  PROVE  FlattenSeq(seqs) \in Seq(X)
<1>1. CASE Len(seqs) = 0
  <2>1. seqs = <<>>
    BY <1>1
  <2>2. <<>> \in Seq(X)
    OBVIOUS
  <2> QED BY <2>1, <2>2, FlattenEmpty
<1>2. CASE Len(seqs) > 0
  <2>1. PICK f : Flattens(f, seqs, X) /\ FlattenSeq(seqs) = f[Len(seqs)]
    BY <1>2, FlattenFcn
  <2>2. Len(seqs) \in 1 .. Len(seqs)
    BY <1>2
  <2> QED BY <2>1, <2>2 DEF Flattens
<1> QED BY <1>1, <1>2

\* One sequence more goes behind the others.
LEMMA FlattenAppend ==
  ASSUME NEW X, NEW seqs \in Seq(Seq(X)), NEW s \in Seq(X)
  PROVE  FlattenSeq(Append(seqs, s)) = FlattenSeq(seqs) \o s
<1> DEFINE L == Len(seqs)
           more == Append(seqs, s)
<1>1. /\ L \in Nat /\ more \in Seq(Seq(X)) /\ Len(more) = L + 1 /\ more[L + 1] = s
      /\ \A i \in 1 .. L : more[i] = seqs[i]
  OBVIOUS
<1> HIDE DEF more
<1>2. PICK f : Flattens(f, more, X) /\ FlattenSeq(more) = f[Len(more)]
  <2>1. Len(more) > 0
    BY <1>1
  <2> QED BY <1>1, <2>1, FlattenFcn
<1>3. CASE L = 0
  <2>1. seqs = <<>> /\ FlattenSeq(seqs) = <<>>
    BY <1>3, FlattenEmpty
  <2>2. FlattenSeq(more) = s
    BY <1>1, <1>2, <1>3 DEF Flattens
  <2> QED BY <2>1, <2>2 DEF more
<1>4. CASE L > 0
  <2>1. PICK g : Flattens(g, seqs, X) /\ FlattenSeq(seqs) = g[L]
    BY <1>4, FlattenFcn
  <2> DEFINE Good == {n \in Nat : n + 1 \in 1 .. L => g[n + 1] = f[n + 1]}
  <2>2. 0 \in Good
    BY <1>1, <1>2, <1>4, <2>1 DEF Flattens
  <2>3. ASSUME NEW n \in Nat, n \in Good
        PROVE  n + 1 \in Good
    <3> SUFFICES ASSUME (n + 1) + 1 \in 1 .. L PROVE g[(n + 1) + 1] = f[(n + 1) + 1]
      OBVIOUS
    <3>1. /\ n + 1 \in 1 .. L /\ (n + 1) + 1 \in 2 .. L /\ (n + 1) + 1 \in 2 .. Len(more)
          /\ ((n + 1) + 1) - 1 = n + 1
      <4> DEFINE M == Len(more)
      <4>1. L \in Nat /\ M = L + 1
        BY <1>1
      <4> HIDE DEF L, M
      <4>2. n + 1 \in 1 .. L /\ (n + 1) + 1 \in 2 .. L /\ (n + 1) + 1 \in 2 .. M
        BY <4>1
      <4> QED BY <4>2 DEF M
    <3>2. g[(n + 1) + 1] = g[n + 1] \o seqs[(n + 1) + 1]
      BY <2>1, <3>1 DEF Flattens
    <3>3. f[(n + 1) + 1] = f[n + 1] \o more[(n + 1) + 1]
      BY <1>2, <3>1 DEF Flattens
    <3> QED BY <1>1, <2>3, <3>1, <3>2, <3>3
  <2>4. L - 1 \in Good
    <3> HIDE DEF Good
    <3>1. L - 1 \in Nat
      BY <1>1, <1>4
    <3> QED BY <2>2, <2>3, <3>1, NatInSet
  <2>5. (L - 1) + 1 = L /\ L \in 1 .. L /\ L + 1 \in 2 .. Len(more) /\ (L + 1) - 1 = L
    BY <1>1, <1>4
  <2>6. g[L] = f[L]
    BY <2>4, <2>5
  <2>7. f[L + 1] = f[L] \o more[L + 1]
    BY <1>2, <2>5 DEF Flattens
  <2> QED BY <1>1, <1>2, <2>1, <2>6, <2>7 DEF more
<1> QED BY <1>1, <1>3, <1>4

-----------------------------------------------------------------------------
(* What is put together, read off one sequence after another.              *)

First(seqs, n) == [i \in 1 .. n |-> seqs[i]]

LEMMA FirstType ==
  ASSUME NEW X, NEW seqs \in Seq(X), NEW n \in 0 .. Len(seqs)
  PROVE  First(seqs, n) \in Seq(X) /\ Len(First(seqs, n)) = n
<1>1. Len(seqs) \in Nat /\ \A i \in 1 .. Len(seqs) : seqs[i] \in X
  OBVIOUS
<1>2. \A i \in 1 .. n : seqs[i] \in X
  BY <1>1
<1> QED BY <1>1, <1>2 DEF First

LEMMA FirstNone ==
  ASSUME NEW seqs
  PROVE  First(seqs, 0) = <<>>
BY DEF First

LEMMA FirstAll ==
  ASSUME NEW X, NEW seqs \in Seq(X)
  PROVE  First(seqs, Len(seqs)) = seqs
BY DEF First

LEMMA FirstNext ==
  ASSUME NEW X, NEW seqs \in Seq(X), NEW n \in Nat, n < Len(seqs)
  PROVE  First(seqs, n + 1) = Append(First(seqs, n), seqs[n + 1])
<1>1. First(seqs, n) \in Seq(X) /\ Len(First(seqs, n)) = n
  <2>1. n \in 0 .. Len(seqs)
    OBVIOUS
  <2> QED BY <2>1, FirstType
<1>2. First(seqs, n + 1) \in Seq(X) /\ Len(First(seqs, n + 1)) = n + 1
  <2>1. n + 1 \in 0 .. Len(seqs)
    OBVIOUS
  <2> QED BY <2>1, FirstType
<1>3. seqs[n + 1] \in X
  OBVIOUS
<1>4. ASSUME NEW i \in 1 .. n + 1
      PROVE  First(seqs, n + 1)[i] = Append(First(seqs, n), seqs[n + 1])[i]
  <2>1. First(seqs, n + 1)[i] = seqs[i]
    BY DEF First
  <2>2. CASE i = n + 1
    BY <1>1, <1>3, <2>1, <2>2
  <2>3. CASE i # n + 1
    <3>1. i \in 1 .. n
      BY <2>3
    <3>2. First(seqs, n)[i] = seqs[i]
      BY <3>1 DEF First
    <3> QED BY <1>1, <1>3, <2>1, <3>1, <3>2
  <2> QED BY <2>2, <2>3
<1>5. /\ Append(First(seqs, n), seqs[n + 1]) \in Seq(X)
      /\ Len(Append(First(seqs, n), seqs[n + 1])) = n + 1
  BY <1>1, <1>3
<1> QED BY <1>2, <1>4, <1>5

\* The first n + 1 sequences are the first n and another.
LEMMA FlattenNext ==
  ASSUME NEW X, NEW seqs \in Seq(Seq(X)), NEW n \in Nat, n < Len(seqs)
  PROVE  FlattenSeq(First(seqs, n + 1)) = FlattenSeq(First(seqs, n)) \o seqs[n + 1]
<1>1. n \in 0 .. Len(seqs) /\ seqs[n + 1] \in Seq(X)
  OBVIOUS
<1>2. First(seqs, n) \in Seq(Seq(X))
  BY <1>1, FirstType
<1> QED BY <1>1, <1>2, FirstNext, FlattenAppend

LEMMA FlattenFirstType ==
  ASSUME NEW X, NEW seqs \in Seq(Seq(X)), NEW n \in 0 .. Len(seqs)
  PROVE  FlattenSeq(First(seqs, n)) \in Seq(X)
BY FirstType, FlattenType

LEMMA FlattenFirstNone ==
  ASSUME NEW seqs
  PROVE  FlattenSeq(First(seqs, 0)) = <<>>
BY FirstNone, FlattenEmpty

LEMMA FlattenOne ==
  ASSUME NEW X, NEW s \in Seq(X)
  PROVE  FlattenSeq(<<s>>) = s
<1>1. <<>> \in Seq(Seq(X)) /\ <<s>> = Append(<<>>, s) /\ <<>> \o s = s
  OBVIOUS
<1> QED BY <1>1, FlattenAppend, FlattenEmpty

LEMMA SameSeq ==
  ASSUME NEW X, NEW s \in Seq(X), NEW t \in Seq(X), Len(s) = Len(t),
         \A i \in 1 .. Len(t) : s[i] = t[i]
  PROVE  s = t
OBVIOUS

LEMMA AppendConcat ==
  ASSUME NEW X, NEW s \in Seq(X), NEW x \in X
  PROVE  Append(s, x) = s \o <<x>>
OBVIOUS

LEMMA ConcatAssoc ==
  ASSUME NEW X, NEW s \in Seq(X), NEW t \in Seq(X), NEW u \in Seq(X)
  PROVE  s \o (t \o u) = (s \o t) \o u
<1>1. /\ s \o (t \o u) \in Seq(X) /\ Len(s \o (t \o u)) = Len(s) + Len(t) + Len(u)
      /\ (s \o t) \o u \in Seq(X) /\ Len((s \o t) \o u) = Len(s) + Len(t) + Len(u)
  OBVIOUS
<1>2. ASSUME NEW i \in 1 .. Len(s) + Len(t) + Len(u)
      PROVE  (s \o (t \o u))[i] = ((s \o t) \o u)[i]
  <2>1. CASE i <= Len(s)
    BY <2>1
  <2>2. CASE Len(s) < i /\ i <= Len(s) + Len(t)
    BY <2>2
  <2>3. CASE Len(s) + Len(t) < i
    BY <2>3
  <2> QED BY <2>1, <2>2, <2>3
<1> QED BY <1>1, <1>2, SameSeq

\* Sequences of one element each.
LEMMA FlattenSingles ==
  ASSUME NEW X, NEW s \in Seq(X), NEW seqs,
         seqs = [i \in 1 .. Len(s) |-> <<s[i]>>]
  PROVE  FlattenSeq(seqs) = s
<1>1. Len(s) \in Nat /\ \A i \in 1 .. Len(s) : s[i] \in X
  OBVIOUS
<1>2. seqs \in Seq(Seq(X)) /\ Len(seqs) = Len(s) /\ \A i \in 1 .. Len(s) : seqs[i] = <<s[i]>>
  <2>1. \A i \in 1 .. Len(s) : <<s[i]>> \in Seq(X)
    BY <1>1
  <2> QED BY <1>1, <2>1
<1> DEFINE Good == {n \in Nat : n <= Len(s) => FlattenSeq(First(seqs, n)) = First(s, n)}
<1>3. 0 \in Good
  BY FlattenFirstNone, FirstNone
<1>4. ASSUME NEW n \in Nat, n \in Good
      PROVE  n + 1 \in Good
  <2> SUFFICES ASSUME n + 1 <= Len(s)
               PROVE  FlattenSeq(First(seqs, n + 1)) = First(s, n + 1)
    OBVIOUS
  <2>1. n < Len(s) /\ n + 1 \in 1 .. Len(s) /\ n \in 0 .. Len(s)
    BY <1>1
  <2>2. FlattenSeq(First(seqs, n + 1)) = First(s, n) \o <<s[n + 1]>>
    <3>1. n < Len(seqs) /\ seqs[n + 1] = <<s[n + 1]>>
      BY <1>2, <2>1
    <3>2. FlattenSeq(First(seqs, n + 1)) = FlattenSeq(First(seqs, n)) \o seqs[n + 1]
      BY <1>2, <3>1, FlattenNext
    <3>3. FlattenSeq(First(seqs, n)) = First(s, n)
      BY <1>1, <1>4, <2>1
    <3> QED BY <3>1, <3>2, <3>3
  <2>3. First(s, n + 1) = Append(First(s, n), s[n + 1])
    BY <2>1, FirstNext
  <2>4. First(s, n) \in Seq(X) /\ s[n + 1] \in X
    BY <1>1, <2>1, FirstType
  <2> QED BY <2>2, <2>3, <2>4, AppendConcat
<1>5. Len(s) \in Good
  <2> HIDE DEF Good
  <2> QED BY <1>1, <1>3, <1>4, NatInSet
<1>6. FlattenSeq(First(seqs, Len(s))) = First(s, Len(s))
  BY <1>1, <1>5
<1>7. First(s, Len(s)) = s /\ First(seqs, Len(seqs)) = seqs
  BY <1>2, FirstAll
<1> QED BY <1>2, <1>6, <1>7

\* Every element of the sequences is one of the whole.
LEMMA FlattenHas ==
  ASSUME NEW X, NEW seqs \in Seq(Seq(X)), NEW k \in 1 .. Len(seqs), NEW c \in 1 .. Len(seqs[k])
  PROVE  \E i \in 1 .. Len(FlattenSeq(seqs)) : FlattenSeq(seqs)[i] = seqs[k][c]
<1> DEFINE Part(n) == FlattenSeq(First(seqs, n))
           Good == {n \in Nat : n >= k /\ n <= Len(seqs) =>
                      \E i \in 1 .. Len(Part(n)) : Part(n)[i] = seqs[k][c]}
<1>1. Len(seqs) \in Nat /\ k \in Nat /\ \A n \in 0 .. Len(seqs) : Part(n) \in Seq(X)
  BY FlattenFirstType
<1>2. 0 \in Good
  BY <1>1
<1>3. ASSUME NEW n \in Nat, n \in Good
      PROVE  n + 1 \in Good
  <2> SUFFICES ASSUME n + 1 >= k, n + 1 <= Len(seqs)
               PROVE  \E i \in 1 .. Len(Part(n + 1)) : Part(n + 1)[i] = seqs[k][c]
    OBVIOUS
  <2>1. n < Len(seqs) /\ n \in 0 .. Len(seqs) /\ n + 1 \in 1 .. Len(seqs)
    BY <1>1
  <2>2. Part(n + 1) = Part(n) \o seqs[n + 1]
    BY <2>1, FlattenNext
  <2>3. Part(n) \in Seq(X) /\ seqs[n + 1] \in Seq(X)
    BY <1>1, <2>1
  <2> HIDE DEF Part
  <2>4. CASE n + 1 = k
    <3>1. /\ Len(Part(n)) + c \in 1 .. Len(Part(n + 1))
          /\ Part(n + 1)[Len(Part(n)) + c] = seqs[k][c]
      BY <2>2, <2>3, <2>4
    <3> QED BY <3>1
  <2>5. CASE n + 1 # k
    <3>1. PICK i \in 1 .. Len(Part(n)) : Part(n)[i] = seqs[k][c]
      BY <1>1, <1>3, <2>1, <2>5
    <3>2. i \in 1 .. Len(Part(n + 1)) /\ Part(n + 1)[i] = seqs[k][c]
      BY <2>2, <2>3, <3>1
    <3> QED BY <3>2
  <2> QED BY <2>4, <2>5
<1>4. Len(seqs) \in Good
  <2> HIDE DEF Good
  <2> QED BY <1>1, <1>2, <1>3, NatInSet
<1>5. FlattenSeq(seqs) = Part(Len(seqs))
  BY FirstAll
<1> QED BY <1>1, <1>4, <1>5

\* A function applied to each element, before or after.
Mapped(g, s) == [i \in 1 .. Len(s) |-> g[s[i]]]

IsMap(g, X, Y) == g \in [X -> Y]

LEMMA MappedType ==
  ASSUME NEW X, NEW Y, NEW g, IsMap(g, X, Y), NEW s \in Seq(X)
  PROVE  Mapped(g, s) \in Seq(Y) /\ Len(Mapped(g, s)) = Len(s)
<1>1. Len(s) \in Nat /\ \A i \in 1 .. Len(s) : g[s[i]] \in Y
  BY DEF IsMap
<1> QED BY <1>1 DEF Mapped

LEMMA MappedConcat ==
  ASSUME NEW X, NEW Y, NEW g, IsMap(g, X, Y), NEW s \in Seq(X), NEW t \in Seq(X)
  PROVE  Mapped(g, s \o t) = Mapped(g, s) \o Mapped(g, t)
<1>1. s \o t \in Seq(X) /\ Len(s \o t) = Len(s) + Len(t) /\ Len(s) \in Nat /\ Len(t) \in Nat
  OBVIOUS
<1> DEFINE u == s \o t
           a == Mapped(g, s)
           b == Mapped(g, t)
<1>2. a \in Seq(Y) /\ Len(a) = Len(s)
  BY MappedType
<1>3. b \in Seq(Y) /\ Len(b) = Len(t)
  BY MappedType
<1>4. Mapped(g, s \o t) \in Seq(Y) /\ Len(Mapped(g, s \o t)) = Len(s) + Len(t)
  <2>1. u \in Seq(X) /\ Len(u) = Len(s) + Len(t)
    BY <1>1
  <2> HIDE DEF u
  <2>2. Mapped(g, u) \in Seq(Y) /\ Len(Mapped(g, u)) = Len(u)
    BY <2>1, MappedType
  <2> QED BY <2>1, <2>2 DEF u
<1>5. ASSUME NEW i \in 1 .. Len(s) + Len(t)
      PROVE  Mapped(g, s \o t)[i] = (Mapped(g, s) \o Mapped(g, t))[i]
  <2>1. Mapped(g, s \o t)[i] = g[(s \o t)[i]]
    BY <1>1 DEF Mapped
  <2>2. CASE i <= Len(s)
    <3>1. i \in 1 .. Len(s)
      BY <1>1, <2>2
    <3>2. Mapped(g, s)[i] = g[s[i]] /\ (s \o t)[i] = s[i]
      BY <3>1 DEF Mapped
    <3>3. (Mapped(g, s) \o Mapped(g, t))[i] = Mapped(g, s)[i]
      BY <1>2, <1>3, <3>1
    <3> QED BY <2>1, <3>2, <3>3
  <2>3. CASE ~(i <= Len(s))
    <3>1. i - Len(s) \in 1 .. Len(t)
      BY <1>1, <2>3
    <3>2. Mapped(g, t)[i - Len(s)] = g[t[i - Len(s)]] /\ (s \o t)[i] = t[i - Len(s)]
      BY <1>1, <2>3, <3>1 DEF Mapped
    <3>3. (Mapped(g, s) \o Mapped(g, t))[i] = Mapped(g, t)[i - Len(s)]
      BY <1>1, <1>2, <1>3, <2>3, <3>1
    <3> QED BY <2>1, <3>2, <3>3
  <2> QED BY <2>2, <2>3
<1>6. a \o b \in Seq(Y) /\ Len(a \o b) = Len(s) + Len(t)
  <2> HIDE DEF a, b
  <2> QED BY <1>2, <1>3
<1> QED BY <1>4, <1>5, <1>6

LEMMA FlattenMapped ==
  ASSUME NEW X, NEW Y, NEW g, IsMap(g, X, Y), NEW seqs \in Seq(Seq(X)), NEW images,
         images = [k \in 1 .. Len(seqs) |-> Mapped(g, seqs[k])]
  PROVE  FlattenSeq(images) = Mapped(g, FlattenSeq(seqs))
<1> DEFINE Good == {n \in Nat : n <= Len(seqs) =>
                      FlattenSeq(First(images, n)) = Mapped(g, FlattenSeq(First(seqs, n)))}
<1>1. Len(seqs) \in Nat /\ \A k \in 1 .. Len(seqs) : seqs[k] \in Seq(X)
  OBVIOUS
<1>2. \A k \in 1 .. Len(seqs) : Mapped(g, seqs[k]) \in Seq(Y)
  BY <1>1, MappedType
<1>3. /\ images \in Seq(Seq(Y)) /\ Len(images) = Len(seqs)
      /\ \A k \in 1 .. Len(seqs) : images[k] = Mapped(g, seqs[k])
  BY <1>1, <1>2
<1>4. 0 \in Good
  <2>1. Mapped(g, <<>>) = <<>>
    BY DEF Mapped
  <2> QED BY <2>1, FlattenFirstNone
<1>5. ASSUME NEW n \in Nat, n \in Good
      PROVE  n + 1 \in Good
  <2> SUFFICES ASSUME n + 1 <= Len(seqs)
               PROVE  FlattenSeq(First(images, n + 1)) = Mapped(g, FlattenSeq(First(seqs, n + 1)))
    OBVIOUS
  <2>1. n < Len(seqs) /\ n \in 0 .. Len(seqs) /\ n + 1 \in 1 .. Len(seqs)
    BY <1>1
  <2>2. FlattenSeq(First(images, n + 1)) = FlattenSeq(First(images, n)) \o Mapped(g, seqs[n + 1])
    BY <1>3, <2>1, FlattenNext
  <2>3. FlattenSeq(First(seqs, n + 1)) = FlattenSeq(First(seqs, n)) \o seqs[n + 1]
    BY <2>1, FlattenNext
  <2>4. FlattenSeq(First(seqs, n)) \in Seq(X) /\ seqs[n + 1] \in Seq(X)
    BY <1>1, <2>1, FlattenFirstType
  <2>5. Mapped(g, FlattenSeq(First(seqs, n)) \o seqs[n + 1])
          = Mapped(g, FlattenSeq(First(seqs, n))) \o Mapped(g, seqs[n + 1])
    <3> DEFINE s == FlattenSeq(First(seqs, n))
               t == seqs[n + 1]
    <3>1. s \in Seq(X) /\ t \in Seq(X)
      BY <2>4
    <3> HIDE DEF s, t
    <3>2. Mapped(g, s \o t) = Mapped(g, s) \o Mapped(g, t)
      <4> HIDE DEF Good
      <4> QED BY ONLY IsMap(g, X, Y), <3>1, MappedConcat
    <3> QED BY <3>2 DEF s, t
  <2>6. FlattenSeq(First(images, n)) = Mapped(g, FlattenSeq(First(seqs, n)))
    BY <1>1, <1>5, <2>1
  <2> QED BY <2>2, <2>3, <2>5, <2>6
<1>6. Len(seqs) \in Good
  <2> HIDE DEF Good
  <2> QED BY <1>1, <1>4, <1>5, NatInSet
<1>7. First(images, Len(seqs)) = images /\ First(seqs, Len(seqs)) = seqs
  BY <1>3, FirstAll
<1> HIDE DEF First
<1> QED BY <1>1, <1>6, <1>7

\* Some of the sequences are left out.
Thinned(part, whole) ==
  Len(part) = Len(whole) /\ \A k \in 1 .. Len(whole) : part[k] = whole[k] \/ part[k] = <<>>

\* Only one is not left out.
LEMMA FlattenOnly ==
  ASSUME NEW X, NEW seqs \in Seq(Seq(X)), NEW k \in 1 .. Len(seqs),
         \A i \in 1 .. Len(seqs) : i # k => seqs[i] = <<>>
  PROVE  FlattenSeq(seqs) = seqs[k]
<1> DEFINE Good == {n \in Nat : n <= Len(seqs) =>
                      FlattenSeq(First(seqs, n)) = IF n < k THEN <<>> ELSE seqs[k]}
<1>1. Len(seqs) \in Nat /\ k \in Nat /\ k > 0 /\ seqs[k] \in Seq(X)
  OBVIOUS
<1>2. 0 \in Good
  BY <1>1, FlattenFirstNone
<1>3. ASSUME NEW n \in Nat, n \in Good
      PROVE  n + 1 \in Good
  <2> SUFFICES ASSUME n + 1 <= Len(seqs)
               PROVE  FlattenSeq(First(seqs, n + 1)) = IF n + 1 < k THEN <<>> ELSE seqs[k]
    OBVIOUS
  <2>1. n < Len(seqs) /\ n + 1 \in 1 .. Len(seqs)
    BY <1>1
  <2>2. FlattenSeq(First(seqs, n + 1)) = (IF n < k THEN <<>> ELSE seqs[k]) \o seqs[n + 1]
    <3>1. FlattenSeq(First(seqs, n + 1)) = FlattenSeq(First(seqs, n)) \o seqs[n + 1]
      BY <2>1, FlattenNext
    <3>2. FlattenSeq(First(seqs, n)) = IF n < k THEN <<>> ELSE seqs[k]
      BY <1>1, <1>3, <2>1
    <3> QED BY <3>1, <3>2
  <2>3. CASE n + 1 = k
    <3>1. n < k /\ ~(n + 1 < k) /\ seqs[n + 1] = seqs[k]
      BY <1>1, <2>3
    <3>2. <<>> \o seqs[k] = seqs[k]
      BY <1>1
    <3> QED BY <2>2, <3>1, <3>2
  <2>4. CASE n + 1 # k
    <3>1. seqs[n + 1] = <<>>
      BY <2>1, <2>4
    <3> QED BY <1>1, <2>2, <2>4, <3>1
  <2> QED BY <2>3, <2>4
<1>4. Len(seqs) \in Good
  <2> HIDE DEF Good
  <2> QED BY <1>1, <1>2, <1>3, NatInSet
<1> QED BY <1>1, <1>4, FirstAll

LEMMA FlattenNothing ==
  ASSUME NEW X, NEW seqs \in Seq(Seq(X)), \A i \in 1 .. Len(seqs) : seqs[i] = <<>>
  PROVE  FlattenSeq(seqs) = <<>>
<1>1. CASE seqs = <<>>
  BY <1>1, FlattenEmpty
<1>2. CASE seqs # <<>>
  <2>1. 1 \in 1 .. Len(seqs)
    BY <1>2
  <2> QED BY <2>1, FlattenOnly
<1> QED BY <1>1, <1>2

\* Numbers that never fall and end at zero, beginning there, are zero throughout.
LEMMA StaysZero ==
  ASSUME NEW L \in Nat, NEW d, d[0] = 0, d[L] = 0,
         \A n \in 0 .. L : d[n] \in Int,
         \A n \in 1 .. L : d[n - 1] <= d[n]
  PROVE  \A n \in 0 .. L : d[n] = 0
<1> DEFINE Good == {m \in Nat : m <= L => \A n \in 0 .. m : d[n] <= d[m] /\ d[n] >= 0}
<1>1. 0 \in Good
  OBVIOUS
<1>2. ASSUME NEW m \in Nat, m \in Good
      PROVE  m + 1 \in Good
  <2> SUFFICES ASSUME m + 1 <= L, NEW n \in 0 .. m + 1
               PROVE  d[n] <= d[m + 1] /\ d[n] >= 0
    OBVIOUS
  <2>1. m + 1 \in 1 .. L /\ m \in 0 .. m /\ m \in 0 .. L /\ m + 1 \in 0 .. L /\ (m + 1) - 1 = m
    OBVIOUS
  <2>2. d[m] <= d[m + 1] /\ d[m] >= 0 /\ d[m] \in Int /\ d[m + 1] \in Int
    BY <1>2, <2>1
  <2>3. CASE n = m + 1
    BY <2>2, <2>3
  <2>4. CASE n # m + 1
    <3>1. n \in 0 .. m /\ n \in 0 .. L
      BY <2>4
    <3>2. d[n] <= d[m] /\ d[n] >= 0 /\ d[n] \in Int
      BY <1>2, <2>1, <3>1
    <3> QED BY <2>2, <3>2
  <2> QED BY <2>3, <2>4
<1>3. L \in Good
  <2> HIDE DEF Good
  <2> QED BY <1>1, <1>2, NatInSet
<1> QED BY <1>3

\* Two sums of which one has the smaller terms: if they come to the same, the terms do.
SumsOver(L, p, w, x, y) ==
  /\ \A n \in 0 .. L : p[n] \in Nat /\ w[n] \in Nat
  /\ \A n \in 1 .. L : /\ x[n] \in Nat /\ y[n] \in Nat /\ x[n] <= y[n]
                       /\ p[n] = p[n - 1] + x[n] /\ w[n] = w[n - 1] + y[n]
  /\ p[0] = w[0] /\ p[L] = w[L]

LEMMA SameSums ==
  ASSUME NEW L \in Nat, NEW p, NEW w, NEW x, NEW y, SumsOver(L, p, w, x, y)
  PROVE  \A n \in 1 .. L : x[n] = y[n]
<1> USE DEF SumsOver
<1> DEFINE d == [n \in 0 .. L |-> w[n] - p[n]]
<1>1. d[0] = 0 /\ d[L] = 0 /\ \A n \in 0 .. L : d[n] \in Int
  OBVIOUS
<1>2. ASSUME NEW n \in 1 .. L
      PROVE  d[n - 1] <= d[n] /\ (d[n - 1] = d[n] => x[n] = y[n])
  <2>1. n - 1 \in 0 .. L /\ n \in 0 .. L
    OBVIOUS
  <2> QED BY <2>1
<1>3. \A n \in 0 .. L : d[n] = 0
  <2> HIDE DEF d
  <2> QED BY <1>1, <1>2, StaysZero
<1>4. \A n \in 1 .. L : n - 1 \in 0 .. L /\ n \in 0 .. L
  OBVIOUS
<1> HIDE DEF d
<1> QED BY <1>2, <1>3, <1>4

\* If what is left is as long as the whole, then nothing was left out.
LEMMA FlattenThinned ==
  ASSUME NEW X, NEW part \in Seq(Seq(X)), NEW whole \in Seq(Seq(X)), Thinned(part, whole),
         Len(FlattenSeq(part)) = Len(FlattenSeq(whole))
  PROVE  part = whole
<1> DEFINE L == Len(whole)
           p == [n \in 0 .. L |-> Len(FlattenSeq(First(part, n)))]
           w == [n \in 0 .. L |-> Len(FlattenSeq(First(whole, n)))]
           x == [n \in 1 .. L |-> Len(part[n])]
           y == [n \in 1 .. L |-> Len(whole[n])]
<1>1. /\ L \in Nat /\ Len(part) = L
      /\ \A k \in 1 .. L : part[k] \in Seq(X) /\ whole[k] \in Seq(X)
      /\ \A k \in 1 .. L : part[k] = whole[k] \/ part[k] = <<>>
  BY DEF Thinned
<1>2. \A n \in 0 .. L : p[n] \in Nat /\ w[n] \in Nat
  <2>1. ASSUME NEW n \in 0 .. L
        PROVE  FlattenSeq(First(part, n)) \in Seq(X) /\ FlattenSeq(First(whole, n)) \in Seq(X)
    BY <1>1, FlattenFirstType
  <2> QED BY <2>1
<1>3. ASSUME NEW n \in 1 .. L
      PROVE  p[n] = p[n - 1] + x[n] /\ w[n] = w[n - 1] + y[n]
  <2>1. n - 1 \in Nat /\ n - 1 < L /\ n - 1 \in 0 .. L /\ n \in 0 .. L /\ (n - 1) + 1 = n
    BY <1>1
  <2>2. FlattenSeq(First(part, n)) = FlattenSeq(First(part, n - 1)) \o part[n]
    BY <1>1, <2>1, FlattenNext
  <2>3. FlattenSeq(First(whole, n)) = FlattenSeq(First(whole, n - 1)) \o whole[n]
    BY <1>1, <2>1, FlattenNext
  <2>4. FlattenSeq(First(part, n - 1)) \in Seq(X) /\ FlattenSeq(First(whole, n - 1)) \in Seq(X)
    BY <1>1, <2>1, FlattenFirstType
  <2>5. part[n] \in Seq(X) /\ whole[n] \in Seq(X)
    BY <1>1
  <2>6. /\ p[n] = Len(FlattenSeq(First(part, n))) /\ p[n - 1] = Len(FlattenSeq(First(part, n - 1)))
        /\ w[n] = Len(FlattenSeq(First(whole, n))) /\ w[n - 1] = Len(FlattenSeq(First(whole, n - 1)))
        /\ x[n] = Len(part[n]) /\ y[n] = Len(whole[n])
    BY <2>1
  <2> HIDE DEF p, w, x, y
  <2>7. ASSUME NEW s \in Seq(X), NEW t \in Seq(X)
        PROVE  Len(s \o t) = Len(s) + Len(t)
    OBVIOUS
  <2> QED BY <2>2, <2>3, <2>4, <2>5, <2>6, <2>7
<1>4. p[0] = w[0] /\ p[L] = w[L]
  BY <1>1, FlattenFirstNone, FirstAll
<1>5. ASSUME NEW n \in 1 .. L
      PROVE  /\ x[n] \in Nat /\ y[n] \in Nat /\ x[n] <= y[n]
             /\ x[n] = y[n] => part[n] = whole[n]
  <2> DEFINE a == part[n]
             b == whole[n]
  <2>1. a \in Seq(X) /\ b \in Seq(X) /\ (a = b \/ a = <<>>)
    BY <1>1
  <2>2. x[n] = Len(a) /\ y[n] = Len(b)
    OBVIOUS
  <2> HIDE DEF a, b, x, y
  <2>3. Len(a) \in Nat /\ Len(b) \in Nat /\ Len(a) <= Len(b) /\ (Len(a) = Len(b) => a = b)
    BY <2>1
  <2> QED BY <2>2, <2>3 DEF a, b
<1>6. \A n \in 1 .. L : x[n] = y[n]
  <2>1. L \in Nat
    BY <1>1
  <2>2. \A n \in 1 .. L : /\ x[n] \in Nat /\ y[n] \in Nat /\ x[n] <= y[n]
                           /\ p[n] = p[n - 1] + x[n] /\ w[n] = w[n - 1] + y[n]
    <3> HIDE DEF p, w, x, y
    <3> QED BY <1>3, <1>5
  <2> HIDE DEF p, w, x, y, L
  <2>3. SumsOver(L, p, w, x, y)
    BY <1>2, <1>4, <2>2 DEF SumsOver
  <2> QED BY <2>1, <2>3, SameSums
<1>7. \A n \in 1 .. L : part[n] = whole[n]
  <2> HIDE DEF x, y
  <2> QED BY <1>5, <1>6
<1> QED BY <1>1, <1>7, SameSeq

\* The first of some sequences are no longer than all of them.
LEMMA FlattenFirstShorter ==
  ASSUME NEW X, NEW seqs \in Seq(Seq(X)), NEW n \in 0 .. Len(seqs)
  PROVE  /\ Len(FlattenSeq(First(seqs, n))) \in Nat /\ Len(FlattenSeq(seqs)) \in Nat
         /\ Len(FlattenSeq(First(seqs, n))) <= Len(FlattenSeq(seqs))
<1> DEFINE Part(k) == FlattenSeq(First(seqs, k))
           Good == {k \in Nat : n + k <= Len(seqs) => Len(Part(n)) <= Len(Part(n + k))}
<1>1. Len(seqs) \in Nat /\ \A k \in 0 .. Len(seqs) : Part(k) \in Seq(X)
  BY FlattenFirstType
<1>2. ASSUME NEW s \in Seq(X), NEW t \in Seq(X)
      PROVE  Len(s) \in Nat /\ Len(s \o t) >= Len(s)
  OBVIOUS
<1>3. \A k \in 0 .. Len(seqs) : Len(Part(k)) \in Nat
  <2> HIDE DEF Part
  <2> QED BY <1>1, <1>2
<1>4. 0 \in Good
  <2>1. n + 0 = n /\ Len(Part(n)) \in Nat
    BY <1>1, <1>3
  <2> HIDE DEF Part
  <2> QED BY <2>1
<1>5. ASSUME NEW k \in Nat, k \in Good
      PROVE  k + 1 \in Good
  <2> SUFFICES ASSUME n + (k + 1) <= Len(seqs)
               PROVE  Len(Part(n)) <= Len(Part(n + (k + 1)))
    OBVIOUS
  <2>1. /\ n + k < Len(seqs) /\ n + k \in 0 .. Len(seqs) /\ n + (k + 1) = (n + k) + 1 /\ n + k \in Nat
        /\ (n + k) + 1 \in 1 .. Len(seqs) /\ (n + k) + 1 \in 0 .. Len(seqs)
    BY <1>1
  <2>2. Part((n + k) + 1) = Part(n + k) \o seqs[(n + k) + 1]
    BY <2>1, FlattenNext
  <2>3. Part(n + k) \in Seq(X) /\ seqs[(n + k) + 1] \in Seq(X)
    BY <1>1, <2>1
  <2>4. Len(Part(n)) <= Len(Part(n + k))
    BY <1>5, <2>1
  <2> HIDE DEF Part
  <2>5. Len(Part((n + k) + 1)) >= Len(Part(n + k))
    BY <1>2, <2>2, <2>3
  <2>6. Len(Part(n)) \in Nat /\ Len(Part(n + k)) \in Nat /\ Len(Part((n + k) + 1)) \in Nat
    BY <1>3, <2>1
  <2> QED BY <2>1, <2>4, <2>5, <2>6
<1>6. Len(seqs) - n \in Good
  <2>1. Len(seqs) - n \in Nat
    BY <1>1
  <2> HIDE DEF Good
  <2> QED BY <2>1, <1>4, <1>5, NatInSet
<1>7. n + (Len(seqs) - n) = Len(seqs) /\ Len(seqs) \in 0 .. Len(seqs)
  BY <1>1
<1>8. Part(Len(seqs)) = FlattenSeq(seqs)
  BY FirstAll
<1>9. Len(Part(n)) <= Len(Part(Len(seqs)))
  BY <1>1, <1>6, <1>7
<1> QED BY <1>3, <1>7, <1>8, <1>9

\* Sequences of the same lengths come to the same length.
LEMMA FlattenSameLength ==
  ASSUME NEW X, NEW Y, NEW s \in Seq(Seq(X)), NEW t \in Seq(Seq(Y)),
         Len(s) = Len(t), \A k \in 1 .. Len(s) : Len(s[k]) = Len(t[k])
  PROVE  Len(FlattenSeq(s)) = Len(FlattenSeq(t))
<1> DEFINE S(k) == FlattenSeq(First(s, k))
           T(k) == FlattenSeq(First(t, k))
           Good == {k \in Nat : k <= Len(s) => Len(S(k)) = Len(T(k))}
<1>1. Len(s) \in Nat /\ \A k \in 0 .. Len(s) : S(k) \in Seq(X) /\ T(k) \in Seq(Y)
  BY FlattenFirstType
<1>2. 0 \in Good
  BY FlattenFirstNone
<1>3. ASSUME NEW k \in Nat, k \in Good
      PROVE  k + 1 \in Good
  <2> SUFFICES ASSUME k + 1 <= Len(s)
               PROVE  Len(S(k + 1)) = Len(T(k + 1))
    OBVIOUS
  <2>1. k < Len(s) /\ k \in 0 .. Len(s) /\ k + 1 \in 1 .. Len(s)
    BY <1>1
  <2>2. S(k + 1) = S(k) \o s[k + 1] /\ T(k + 1) = T(k) \o t[k + 1]
    BY <2>1, FlattenNext
  <2>3. /\ S(k) \in Seq(X) /\ s[k + 1] \in Seq(X) /\ T(k) \in Seq(Y) /\ t[k + 1] \in Seq(Y)
        /\ Len(s[k + 1]) = Len(t[k + 1]) /\ Len(S(k)) = Len(T(k))
    BY <1>1, <1>3, <2>1
  <2>4. ASSUME NEW Z, NEW a \in Seq(Z), NEW b \in Seq(Z)
        PROVE  Len(a \o b) = Len(a) + Len(b)
    OBVIOUS
  <2> HIDE DEF S, T
  <2>5. Len(S(k + 1)) = Len(S(k)) + Len(s[k + 1])
    BY <2>2, <2>3, <2>4
  <2>6. Len(T(k + 1)) = Len(T(k)) + Len(t[k + 1])
    BY <2>2, <2>3, <2>4
  <2> QED BY <2>3, <2>5, <2>6
<1>4. Len(s) \in Good
  <2> HIDE DEF Good
  <2> QED BY <1>1, <1>2, <1>3, NatInSet
<1> QED BY <1>1, <1>4, FirstAll
=============================================================================
