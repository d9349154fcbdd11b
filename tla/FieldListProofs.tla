-------------------------- MODULE FieldListProofs ---------------------------
(* Proofs about FieldList, for any number of result fields and any calls.  *)
EXTENDS FieldList, TLAPS

IInv ==
  /\ TypeOK
  /\ MapMatchesRanges
  /\ RangesDisjoint

\* What marking a range of an object that holds together leaves in the map.
LEMMA MarkProperties ==
  ASSUME TypeOK, NEW upTo
  PROVE  /\ Mark(upTo) \in Seq(Nat)
         /\ Len(Mark(upTo)) = Len(rfToWildcard)
         /\ \A i \in 1 .. Len(rfToWildcard) :
              Mark(upTo)[i] = IF i \in upTo THEN Len(wildcards) + 1 ELSE rfToWildcard[i]
<1>1. Len(wildcards) \in Nat /\ Len(rfToWildcard) \in Nat
  BY DEF TypeOK
<1> QED
  BY <1>1 DEF Mark, TypeOK

LEMMA WildcardTypes ==
  ASSUME TypeOK, NEW w \in 1 .. Len(wildcards)
  PROVE  /\ wildcards[w].offset \in Nat
         /\ wildcards[w].num \in Nat /\ wildcards[w].num > 0
<1>1. wildcards[w] \in Wildcard
  BY DEF TypeOK
<1> QED
  BY <1>1 DEF Wildcard

LEMMA EmptySeqType ==
  ASSUME NEW S
  PROVE  <<>> \in Seq(S) /\ Len(<<>>) = 0
  OBVIOUS

LEMMA ZerosType ==
  ASSUME NEW n \in Nat, NEW zeros, zeros = [i \in 1 .. n |-> 0]
  PROVE  /\ zeros \in Seq(Nat) /\ Len(zeros) = n
         /\ \A i \in 1 .. n : zeros[i] = 0
  OBVIOUS

\* A new object holds together: there is no wildcard to disagree with.
LEMMA NewStep ==
  ASSUME IInv, NEW n \in Lengths, New(n)
  PROVE  IInv'
<1>1. n \in Nat
  BY FieldListAssumption
<1>2. /\ rfToWildcard' \in Seq(Nat) /\ Len(rfToWildcard') = n
      /\ \A i \in 1 .. n : rfToWildcard'[i] = 0
  BY <1>1, ZerosType DEF New
<1>3. wildcards' \in Seq(Wildcard) /\ Len(wildcards') = 0 /\ 1 .. Len(wildcards') = {}
  BY EmptySeqType DEF New
<1>4. TypeOK'
  BY <1>2, <1>3 DEF New, TypeOK
<1>5. MapMatchesRanges'
  BY <1>1, <1>2, <1>3 DEF MapMatchesRanges
<1>6. RangesDisjoint'
  BY <1>3 DEF RangesDisjoint
<1> QED
  BY <1>4, <1>5, <1>6 DEF IInv

\* A call that succeeds: the new range was free, so it meets no other.
LEMMA AddStep ==
  ASSUME IInv, ~dropped, NEW off \in Offsets, NEW num \in Nums, NEW name \in RefNames,
         addWildcard(name, off, num), UNCHANGED dropped
  PROVE  IInv'
<1> DEFINE n == Len(wildcards)
           L == Len(rfToWildcard)
           new == [refName |-> name, offset |-> off, num |-> num]
<1>1. off \in Nat /\ num \in Nat \ {0} /\ n \in Nat /\ L \in Nat /\ off + num <= L
  BY FieldListAssumption DEF IInv, TypeOK, addWildcard, InBounds
<1>2. new \in Wildcard
  BY <1>1 DEF Wildcard
<1>3. /\ wildcards' \in Seq(Wildcard) /\ Len(wildcards') = n + 1
      /\ wildcards'[n + 1] = new
      /\ \A w \in 1 .. n : wildcards'[w] = wildcards[w]
  <2>1. wildcards' = Append(wildcards, new)
    BY DEF addWildcard
  <2> QED BY <1>2, <2>1 DEF IInv, TypeOK
<1>4. /\ rfToWildcard' \in Seq(Nat) /\ Len(rfToWildcard') = L
      /\ \A i \in 1 .. L :
           rfToWildcard'[i] = IF i \in Covers(off, num) THEN n + 1 ELSE rfToWildcard[i]
  <2>1. rfToWildcard' = Mark(Covers(off, num))
    BY DEF addWildcard
  <2> QED BY <2>1, MarkProperties DEF IInv
<1>5. \A i \in Covers(off, num) : rfToWildcard[i] = 0
  BY DEF addWildcard, Overlap
<1>6. Covers(off, num) \subseteq 1 .. L
  BY <1>1 DEF Covers
<1>7. \A w \in 1 .. n : /\ wildcards[w].offset \in Nat
                        /\ wildcards[w].num \in Nat /\ wildcards[w].num > 0
  BY WildcardTypes DEF IInv
<1>8. TypeOK'
  BY <1>3, <1>4 DEF IInv, TypeOK
<1>9. MapMatchesRanges'
  <2> SUFFICES ASSUME NEW i \in 1 .. L
               PROVE  /\ rfToWildcard'[i] \in 0 .. n + 1
                      /\ \A w \in 1 .. n + 1 :
                           rfToWildcard'[i] = w <=>
                             i \in Covers(wildcards'[w].offset, wildcards'[w].num)
    BY <1>3, <1>4 DEF MapMatchesRanges
  <2>1. /\ rfToWildcard[i] \in 0 .. n
        /\ \A w \in 1 .. n :
             rfToWildcard[i] = w <=> i \in Covers(wildcards[w].offset, wildcards[w].num)
    BY DEF IInv, MapMatchesRanges
  <2>2. wildcards'[n + 1].offset = off /\ wildcards'[n + 1].num = num
    BY <1>3
  <2>3. n + 1 \notin 1 .. n /\ 0 \notin 1 .. n + 1 /\ (1 .. n + 1) = (1 .. n) \union {n + 1}
    BY <1>1
  <2>4. rfToWildcard'[i] = IF i \in Covers(off, num) THEN n + 1 ELSE rfToWildcard[i]
    BY <1>4
  <2>5. rfToWildcard'[i] \in 0 .. n + 1
    BY <1>1, <2>1, <2>4
  <2>6. rfToWildcard'[i] = n + 1 <=> i \in Covers(off, num)
    BY <1>1, <2>1, <2>4
  <2>7. ASSUME NEW w \in 1 .. n
        PROVE  rfToWildcard'[i] = w <=>
                 i \in Covers(wildcards'[w].offset, wildcards'[w].num)
    <3>1. CASE i \in Covers(off, num)
      BY <1>3, <1>5, <2>1, <2>3, <2>4, <3>1
    <3>2. CASE i \notin Covers(off, num)
      BY <1>3, <2>1, <2>4, <3>2
    <3> QED BY <3>1, <3>2
  <2> QED BY <2>2, <2>3, <2>5, <2>6, <2>7
<1>10. RangesDisjoint'
  <2>1. ASSUME NEW w \in 1 .. n
        PROVE  \/ off + num <= wildcards[w].offset
               \/ wildcards[w].offset + wildcards[w].num <= off
    <3>1. \A i \in Covers(off, num) : i \notin Covers(wildcards[w].offset, wildcards[w].num)
      BY <1>1, <1>5, <1>6 DEF IInv, MapMatchesRanges
    <3>2. CASE wildcards[w].offset <= off
      <4>1. off + 1 \in Covers(off, num)
        BY <1>1 DEF Covers
      <4>2. off + 1 \notin wildcards[w].offset + 1 .. wildcards[w].offset + wildcards[w].num
        BY <3>1, <4>1 DEF Covers
      <4> QED BY <1>1, <1>7, <3>2, <4>2
    <3>3. CASE off < wildcards[w].offset
      <4>1. CASE wildcards[w].offset + 1 \in Covers(off, num)
        BY <1>7, <3>1, <4>1 DEF Covers
      <4>2. CASE wildcards[w].offset + 1 \notin Covers(off, num)
        BY <1>1, <1>7, <3>3, <4>2 DEF Covers
      <4> QED BY <4>1, <4>2
    <3> QED BY <1>1, <1>7, <3>2, <3>3
  <2>2. ASSUME NEW v \in 1 .. n + 1, NEW w \in 1 .. n + 1
        PROVE  /\ wildcards'[v].offset + wildcards'[v].num <= L
               /\ v # w =>
                    \/ wildcards'[v].offset + wildcards'[v].num <= wildcards'[w].offset
                    \/ wildcards'[w].offset + wildcards'[w].num <= wildcards'[v].offset
    <3>1. CASE v \in 1 .. n /\ w \in 1 .. n
      BY <1>3, <3>1 DEF IInv, RangesDisjoint
    <3>2. CASE v = n + 1 /\ w \in 1 .. n
      BY <1>1, <1>3, <2>1, <3>2
    <3>3. CASE v \in 1 .. n /\ w = n + 1
      BY <1>1, <1>3, <2>1, <3>3 DEF IInv, RangesDisjoint
    <3>4. CASE v = n + 1 /\ w = n + 1
      BY <1>1, <1>3, <3>4
    <3> QED BY <1>1, <3>1, <3>2, <3>3, <3>4
  <2> QED BY <1>3, <1>4, <2>2 DEF RangesDisjoint
<1> QED
  BY <1>8, <1>9, <1>10 DEF IInv

\* A call that fails leaves the wildcards alone, and an object no one asks.
LEMMA FailStep ==
  ASSUME IInv, NEW off, NEW num, addWildcardFails(off, num)
  PROVE  IInv'
<1>1. rfToWildcard' \in Seq(Nat) /\ Len(rfToWildcard') = Len(rfToWildcard)
  BY MarkProperties DEF addWildcardFails, IInv, TypeOK
<1> QED
  BY <1>1 DEF addWildcardFails, IInv, TypeOK, MapMatchesRanges, RangesDisjoint

LEMMA InitIInv == Init => IInv
<1> SUFFICES ASSUME Init PROVE IInv
  OBVIOUS
<1>1. PICK n \in Lengths : rfToWildcard = [i \in 1 .. n |-> 0]
  BY DEF Init
<1>2. n \in Nat
  BY FieldListAssumption
<1>3. /\ rfToWildcard \in Seq(Nat) /\ Len(rfToWildcard) = n
      /\ \A i \in 1 .. n : rfToWildcard[i] = 0
  BY <1>1, <1>2, ZerosType
<1>4. wildcards \in Seq(Wildcard) /\ Len(wildcards) = 0 /\ 1 .. Len(wildcards) = {}
  BY EmptySeqType DEF Init
<1>5. TypeOK
  BY <1>3, <1>4 DEF Init, TypeOK
<1>6. MapMatchesRanges
  BY <1>2, <1>3, <1>4 DEF MapMatchesRanges
<1>7. RangesDisjoint
  BY <1>4 DEF RangesDisjoint
<1> QED
  BY <1>5, <1>6, <1>7 DEF IInv

\* IInv is inductive: that a range is free is known from the map, and that the
\* map agrees with the ranges is what makes the ranges disjoint.
THEOREM Inductive == Spec => []IInv
<1>1. IInv /\ [Next]_flVars => IInv'
  <2> SUFFICES ASSUME IInv, [Next]_flVars PROVE IInv'
    OBVIOUS
  <2>1. CASE Add
    <3>1. PICK off \in Offsets, num \in Nums :
            \/ (\E name \in RefNames : addWildcard(name, off, num)) /\ UNCHANGED dropped
            \/ addWildcardFails(off, num)
      BY <2>1 DEF Add
    <3> QED BY <2>1, <3>1, AddStep, FailStep DEF Add
  <2>2. CASE \E n \in Lengths : New(n)
    BY <2>2, NewStep
  <2>3. CASE UNCHANGED flVars
    BY <2>3 DEF flVars, IInv, TypeOK, MapMatchesRanges, RangesDisjoint
  <2> QED BY <2>1, <2>2, <2>3 DEF Next
<1> QED
  BY InitIInv, <1>1, PTL DEF Spec

\* The map always holds a number for every result field (dml_meta.go:290-297).
THEOREM TypeCorrect == Spec => []TypeOK
<1>1. IInv => TypeOK
  BY DEF IInv
<1> QED
  BY <1>1, Inductive, PTL

\* However many result fields a statement has and however its wildcards are
\* added, the map and the ranges agree (addWildcard, dml_meta.go:245-281).
THEOREM MapAgrees == Spec => []MapMatchesRanges
<1>1. IInv => MapMatchesRanges
  BY DEF IInv
<1> QED
  BY <1>1, Inductive, PTL

\* No two wildcards ever share a result field (dml_meta.go:265-269).
THEOREM Disjoint == Spec => []RangesDisjoint
<1>1. IInv => RangesDisjoint
  BY DEF IInv
<1> QED
  BY <1>1, Inductive, PTL

\* The column offsets of a wildcard's result fields count 1, 2, ... without a
\* gap (WildcardColumnOffset, dml_meta.go:354-365), which is what the select
\* template indexes the columns of a table by.
THEOREM OffsetsCount == Spec => []ColumnOffsetsRun
<1>1. IInv => ColumnOffsetsRun
  <2> SUFFICES ASSUME IInv, ~dropped, NEW i \in 1 .. Len(rfToWildcard), InWildcard(i)
               PROVE  /\ WildcardColumnOffset(i) \in 1 .. wildcards[rfToWildcard[i]].num
                      /\ WildcardColumnOffset(i) > 1 =>
                           /\ rfToWildcard[i - 1] = rfToWildcard[i]
                           /\ WildcardColumnOffset(i - 1) = WildcardColumnOffset(i) - 1
    BY DEF ColumnOffsetsRun
  <2> DEFINE w == rfToWildcard[i]
             off == wildcards[w].offset
             num == wildcards[w].num
  <2>1. Len(wildcards) \in Nat /\ Len(rfToWildcard) \in Nat
    BY DEF IInv, TypeOK
  <2>2. w \in 1 .. Len(wildcards) /\ i \in Covers(off, num)
    BY <2>1 DEF IInv, MapMatchesRanges, InWildcard
  <2>3. off \in Nat /\ num \in Nat /\ num > 0
    BY <2>2, WildcardTypes DEF IInv
  <2>4. WildcardColumnOffset(i) = i - off
    BY DEF WildcardColumnOffset
  <2>5. ASSUME i - off > 1
        PROVE  rfToWildcard[i - 1] = w
    <3>1. i - 1 \in Covers(off, num) /\ i - 1 \in 1 .. Len(rfToWildcard)
      BY <2>1, <2>2, <2>3, <2>5 DEF Covers
    <3> QED BY <2>2, <3>1 DEF IInv, MapMatchesRanges
  <2>6. ASSUME i - off > 1
        PROVE  WildcardColumnOffset(i - 1) = i - 1 - off
    <3>1. i - 1 \in 1 .. Len(rfToWildcard)
      BY <2>1, <2>3, <2>6
    <3>2. InWildcard(i - 1)
      BY <2>1, <2>2, <2>5, <2>6, <3>1 DEF InWildcard
    <3> QED BY <2>5, <2>6, <3>2 DEF WildcardColumnOffset
  <2> QED BY <2>2, <2>3, <2>4, <2>5, <2>6 DEF Covers
<1> QED
  BY <1>1, Inductive, PTL

\* Until a new object is made, wildcards are only added, and a result field
\* once marked keeps its wildcard, even when a call fails half-way.
THEOREM CallsOnlyAdd == Spec => OnlyAdds
<1> DEFINE Kept ==
      /\ Len(wildcards') \in {Len(wildcards), Len(wildcards) + 1}
      /\ \A w \in 1 .. Len(wildcards) : wildcards'[w] = wildcards[w]
      /\ \A i \in 1 .. Len(rfToWildcard) :
           rfToWildcard[i] # 0 => rfToWildcard'[i] = rfToWildcard[i]
<1>1. IInv /\ [Next]_flVars => [(\E n \in Lengths : New(n)) \/ Kept]_flVars
  <2> SUFFICES ASSUME IInv, Add PROVE Kept
    BY DEF Next
  <2>1. PICK off \in Offsets, num \in Nums :
          \/ (\E name \in RefNames : addWildcard(name, off, num)) /\ UNCHANGED dropped
          \/ addWildcardFails(off, num)
    BY DEF Add
  <2>2. Len(wildcards) \in Nat /\ Len(rfToWildcard) \in Nat
    BY DEF IInv, TypeOK
  <2>3. ASSUME NEW name \in RefNames, addWildcard(name, off, num)
        PROVE  Kept
    <3>1. wildcards' = Append(wildcards, [refName |-> name, offset |-> off, num |-> num])
      BY <2>3 DEF addWildcard
    <3>2. \A i \in Covers(off, num) : rfToWildcard[i] = 0
      BY <2>3 DEF addWildcard, Overlap
    <3>3. \A i \in 1 .. Len(rfToWildcard) :
            rfToWildcard[i] # 0 => rfToWildcard'[i] = rfToWildcard[i]
      BY <2>3, <3>2, MarkProperties DEF IInv, addWildcard
    <3>4. wildcards \in Seq(Wildcard)
      BY DEF IInv, TypeOK
    <3> QED BY <2>2, <3>1, <3>3, <3>4
  <2>4. ASSUME addWildcardFails(off, num)
        PROVE  Kept
    <3> DEFINE free == {i \in Covers(off, num) : \A j \in off + 1 .. i : rfToWildcard[j] = 0}
    <3>1. off \in Int
      BY FieldListAssumption
    <3>2. \A i \in free : rfToWildcard[i] = 0
      BY <3>1 DEF Covers
    <3>3. rfToWildcard' = rfToWildcard \/ rfToWildcard' = Mark(free)
      BY <2>4 DEF addWildcardFails
    <3> HIDE DEF free
    <3>4. \A i \in 1 .. Len(rfToWildcard) :
            rfToWildcard[i] # 0 => rfToWildcard'[i] = rfToWildcard[i]
      BY <3>2, <3>3, MarkProperties DEF IInv
    <3> QED BY <2>2, <2>4, <3>4 DEF addWildcardFails
  <2> QED BY <2>1, <2>3, <2>4
<1> QED
  BY <1>1, Inductive, PTL DEF Spec, OnlyAdds
=============================================================================
