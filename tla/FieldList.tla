----------------------------- MODULE FieldList ------------------------------
(***************************************************************************)
(* FieldListMeta: the wildcards of one SELECT statement and the map from   *)
(* its result fields to them (context/dml_meta.go:223-365).                *)
(*                                                                         *)
(* addWildcard takes any offset and any number of result fields, checks    *)
(* them, and marks the range field by field; finding a field taken, it     *)
(* fails with the fields before it already marked, and its caller drops    *)
(* the whole object.  Indices start at 1 here, so that the offset of a     *)
(* wildcard is the number of result fields before it, and 0 stands for     *)
(* the -1 of a result field outside every wildcard.                        *)
(***************************************************************************)
EXTENDS Integers, Sequences

CONSTANTS
  RefNames,   \* names of table sources
  Lengths,    \* numbers of result fields a statement may have
  Offsets,    \* arguments addWildcard is called with
  Nums

ASSUME FieldListAssumption ==
  /\ Lengths \subseteq Nat
  /\ Offsets \subseteq Int
  /\ Nums \subseteq Int

VARIABLES
  wildcards,      \* a record per wildcard: refName, offset, num
  rfToWildcard,   \* result field -> index in wildcards, or 0
  dropped         \* a call failed, and the object with it

flVars == <<wildcards, rfToWildcard, dropped>>

Wildcard == [refName : RefNames, offset : Nat, num : Nat \ {0}]

\* The result fields of a wildcard.
Covers(off, num) == off + 1 .. off + num

\* Mutated: a wildcard without result fields passes.
InBoundsEmpty(off, num) ==
  /\ off >= 0
  /\ num >= 0
  /\ off + num <= Len(rfToWildcard)

InBounds(off, num) ==
  /\ off >= 0
  /\ num > 0
  /\ off + num <= Len(rfToWildcard)

\* Mutated: only the ends of the range are looked at.
OverlapAtEnds(off, num) ==
  rfToWildcard[off + 1] # 0 \/ rfToWildcard[off + num] # 0

Overlap(off, num) == \E i \in Covers(off, num) : rfToWildcard[i] # 0

\* Mutated: one result field too few is marked.
MarkShort(upTo) ==
  [i \in 1 .. Len(rfToWildcard) |->
     IF i \in upTo /\ i + 1 \in upTo THEN Len(wildcards) + 1 ELSE rfToWildcard[i]]

Mark(upTo) ==
  [i \in 1 .. Len(rfToWildcard) |->
     IF i \in upTo THEN Len(wildcards) + 1 ELSE rfToWildcard[i]]

-----------------------------------------------------------------------------
\* NewFieldListMeta allocates the map, with every field outside a wildcard.
New(n) ==
  /\ wildcards' = <<>>
  /\ rfToWildcard' = [i \in 1 .. n |-> 0]
  /\ dropped' = FALSE

addWildcard(name, off, num) ==
  /\ InBounds(off, num)
  /\ ~Overlap(off, num)
  /\ rfToWildcard' = Mark(Covers(off, num))
  /\ wildcards' = Append(wildcards, [refName |-> name, offset |-> off, num |-> num])

\* Out of bounds nothing is touched; on an overlap the fields before the first
\* one taken have been marked.
addWildcardFails(off, num) ==
  /\ \/ /\ ~InBounds(off, num)
        /\ UNCHANGED rfToWildcard
     \/ /\ InBounds(off, num) /\ Overlap(off, num)
        /\ rfToWildcard' =
             Mark({i \in Covers(off, num) : \A j \in off + 1 .. i : rfToWildcard[j] = 0})
  /\ UNCHANGED wildcards
  /\ dropped' = TRUE

Add ==
  /\ ~dropped
  /\ \E off \in Offsets, num \in Nums :
       \/ /\ \E name \in RefNames : addWildcard(name, off, num)
          /\ UNCHANGED dropped
       \/ addWildcardFails(off, num)

Init ==
  /\ wildcards = <<>>
  /\ \E n \in Lengths : rfToWildcard = [i \in 1 .. n |-> 0]
  /\ dropped = FALSE

Next == Add \/ \E n \in Lengths : New(n)

Spec == Init /\ [][Next]_flVars

-----------------------------------------------------------------------------
(* Queries: the wildcard the i-th result field is in, and where in it.     *)

NoName == <<>>

InWildcard(i) == i \in 1 .. Len(rfToWildcard) /\ rfToWildcard[i] # 0

WildcardTableRefName(i) ==
  IF InWildcard(i) THEN wildcards[rfToWildcard[i]].refName ELSE NoName

\* Mutated: the position in the result, not in the wildcard.
WildcardColumnOffsetAbsolute(i) == IF InWildcard(i) THEN i ELSE 0

WildcardColumnOffset(i) ==
  IF InWildcard(i) THEN i - wildcards[rfToWildcard[i]].offset ELSE 0

-----------------------------------------------------------------------------
\* The map has a wildcard's index, or 0, for every result field.
TypeOK ==
  /\ wildcards \in Seq(Wildcard)
  /\ rfToWildcard \in Seq(Nat)
  /\ dropped \in BOOLEAN

\* Whatever calls were made, in whatever order, while none has failed the map
\* gives a result field the wildcard in whose range it lies, and 0 only where
\* it lies in none.
MapMatchesRanges ==
  ~dropped =>
    \A i \in 1 .. Len(rfToWildcard) :
      /\ rfToWildcard[i] \in 0 .. Len(wildcards)
      /\ \A w \in 1 .. Len(wildcards) :
           rfToWildcard[i] = w <=> i \in Covers(wildcards[w].offset, wildcards[w].num)

\* No two wildcards share a result field, and none reaches past the last one.
RangesDisjoint ==
  \A v, w \in 1 .. Len(wildcards) :
    /\ wildcards[v].offset + wildcards[v].num <= Len(rfToWildcard)
    /\ v # w =>
         \/ wildcards[v].offset + wildcards[v].num <= wildcards[w].offset
         \/ wildcards[w].offset + wildcards[w].num <= wildcards[v].offset

\* The template starts a new struct at column offset 1 and indexes the columns
\* of the table by it: the offset runs from 1 to the wildcard's number of
\* columns, rising by one from each result field of the wildcard to the next.
ColumnOffsetsRun ==
  ~dropped =>
    \A i \in 1 .. Len(rfToWildcard) : InWildcard(i) =>
      /\ WildcardColumnOffset(i) \in 1 .. wildcards[rfToWildcard[i]].num
      /\ WildcardColumnOffset(i) > 1 =>
           /\ rfToWildcard[i - 1] = rfToWildcard[i]
           /\ WildcardColumnOffset(i - 1) = WildcardColumnOffset(i) - 1

\* A call only ever adds: the wildcards there keep their place and range, and
\* no marked result field is given to another wildcard.
OnlyAdds ==
  [][(\E n \in Lengths : New(n)) \/
     /\ Len(wildcards') \in {Len(wildcards), Len(wildcards) + 1}
     /\ \A w \in 1 .. Len(wildcards) : wildcards'[w] = wildcards[w]
     /\ \A i \in 1 .. Len(rfToWildcard) :
          rfToWildcard[i] # 0 => rfToWildcard'[i] = rfToWildcard[i]]_flVars
=============================================================================
