-------------------------- MODULE TableEntryProofs --------------------------
(* That the code of a table does what it is to do when it is run, for any   *)
(* tables and any clients: the invariant of the tables, the files, the rows *)
(* and the entry, and what follows from it.                                 *)
EXTENDS TableEntry, SequenceTheorems, Inductions, TLAPS

-----------------------------------------------------------------------------
(* Go types and the numbers they hold.                                     *)

IntTypes == {"tiny", "short", "int24", "long", "longlong", "year"}

\* The integer types.
LEMMA IntTypesAre == DOMAIN WidthOf = IntTypes
BY DEF WidthOf, IntTypes

\* Their widths.
LEMMA Widths ==
  /\ WidthOf["tiny"] = 8 /\ WidthOf["short"] = 16 /\ WidthOf["int24"] = 24 /\ WidthOf["long"] = 32
  /\ WidthOf["longlong"] = 64 /\ WidthOf["year"] = 12
BY DEF WidthOf

\* Half of the numbers of each width, as the assumption has them.
LEMMA Halves ==
  /\ \A w \in {1, 8, 12, 16, 24, 32, 64} : Half[w] \in Nat
  /\ Half[1] = 1 /\ 2 <= Half[8] /\ 2 * Half[12] <= Half[16] /\ 2 * Half[24] <= Half[32]
  /\ 2 * Half[8] <= Half[64] /\ 2 * Half[16] <= Half[64] /\ 2 * Half[24] <= Half[64] /\ 2 * Half[32] <= Half[64]
<1>1. \A v, w \in {1, 8, 12, 16, 24, 32, 64} : v < w => 2 * Half[v] <= Half[w]
  BY TypeAdapterAssumption
<1>2. \A w \in {1, 8, 12, 16, 24, 32, 64} : Half[w] \in Nat
  BY TypeAdapterAssumption
<1> QED BY <1>1, <1>2, TypeAdapterAssumption

\* The Go types that hold numbers, and which.
LEMMA GoRangeIs ==
  /\ DOMAIN GoRange = Ints \union {"NullInt64", "bool", "NullBool"}
  /\ GoRange["int8"] = IntRange(FALSE, 8) /\ GoRange["int16"] = IntRange(FALSE, 16)
  /\ GoRange["int32"] = IntRange(FALSE, 32) /\ GoRange["int64"] = IntRange(FALSE, 64)
  /\ GoRange["uint8"] = IntRange(TRUE, 8) /\ GoRange["uint16"] = IntRange(TRUE, 16)
  /\ GoRange["uint32"] = IntRange(TRUE, 32) /\ GoRange["uint64"] = IntRange(TRUE, 64)
  /\ GoRange["NullInt64"] = IntRange(FALSE, 64) /\ GoRange["bool"] = IntRange(TRUE, 1)
  /\ GoRange["NullBool"] = IntRange(TRUE, 1)
BY DEF GoRange, Ints

\* The nullable types.
LEMMA PlainOfIs == DOMAIN PlainOf = {"NullInt64", "NullString", "NullFloat64", "NullBool", "NullTime"}
BY DEF PlainOf

\* The types that hold NULL.
Nullables == DOMAIN PlainOf \union {"[]byte"}

\* What AdaptType makes of an integer type.
LEMMA AdaptInt ==
  ASSUME NEW ft, IsInt(ft)
  PROVE  /\ ft.tp \in IntTypes
         /\ ft.tp = "year" => AdaptType(ft) = "uint16"
         /\ ft.tp = "tiny" /\ ft.flen = 1 => AdaptType(ft) \in {"NullBool", "bool"}
         /\ ft.tp # "year" /\ ~(ft.tp = "tiny" /\ ft.flen = 1) =>
              AdaptType(ft) \in {"NullInt64", Sized(ft.unsigned, WidthOf[ft.tp])}
         /\ ft.tp # "year" /\ ~ft.notNull => AdaptType(ft) \in Nullables
<1>1. ft.tp \in IntTypes
  BY IntTypesAre DEF IsInt
<1>2. CASE ft.tp = "year"
  BY <1>1, <1>2 DEF AdaptType
<1>3. CASE ft.tp = "tiny" /\ ft.flen = 1
  BY <1>1, <1>3, PlainOfIs DEF AdaptType, Nullables
<1>4. CASE ft.tp # "year" /\ ~(ft.tp = "tiny" /\ ft.flen = 1)
  BY <1>1, <1>4, PlainOfIs DEF AdaptType, Nullables, IntTypes
<1> QED BY <1>1, <1>2, <1>3, <1>4

\* And of another type, but for BIT.
LEMMA AdaptOther ==
  ASSUME NEW ft, ~IsInt(ft), ft.tp # "bit"
  PROVE  /\ AdaptType(ft) \notin DOMAIN GoRange
         /\ ~ft.notNull => AdaptType(ft) \in Nullables
<1>1. ft.tp \notin IntTypes
  BY IntTypesAre DEF IsInt
<1>2. AdaptType(ft) \in {"NullFloat64", "float32", "float64", "NullTime", "Time", "[]byte", "NullString", "string"}
  BY <1>1 DEF AdaptType, IntTypes
<1>3. AdaptType(ft) \notin DOMAIN GoRange
  BY <1>2, GoRangeIs DEF Ints
<1>4. ~ft.notNull => AdaptType(ft) \in Nullables
  BY <1>1, PlainOfIs DEF AdaptType, Nullables, IntTypes
<1> QED BY <1>3, <1>4

\* Too large for a NullInt64.
TooLarge(n) == n > IntRange(FALSE, 64).max

\* A number without a sign is in the range of the Go type of its width.
LEMMA UnsignedFits ==
  ASSUME NEW w \in {8, 16, 24, 32, 64}, NEW n \in Int, In(n, IntRange(TRUE, w))
  PROVE  Sized(TRUE, w) \in Ints /\ In(n, GoRange[Sized(TRUE, w)])
<1>1. CASE w = 8
  <2>1. Sized(TRUE, w) = "uint8"
    BY <1>1 DEF Sized
  <2> QED BY <1>1, <2>1, GoRangeIs DEF Ints
<1>2. CASE w = 16
  <2>1. Sized(TRUE, w) = "uint16"
    BY <1>2 DEF Sized
  <2> QED BY <1>2, <2>1, GoRangeIs DEF Ints
<1>3. CASE w = 24
  <2>1. Sized(TRUE, w) = "uint32"
    BY <1>3 DEF Sized
  <2>2. In(n, IntRange(TRUE, 32))
    BY <1>3, Halves DEF In, IntRange
  <2> QED BY <2>1, <2>2, GoRangeIs DEF Ints
<1>4. CASE w = 32
  <2>1. Sized(TRUE, w) = "uint32"
    BY <1>4 DEF Sized
  <2> QED BY <1>4, <2>1, GoRangeIs DEF Ints
<1>5. CASE w = 64
  <2>1. Sized(TRUE, w) = "uint64"
    BY <1>5 DEF Sized
  <2> QED BY <1>5, <2>1, GoRangeIs DEF Ints
<1> QED BY <1>1, <1>2, <1>3, <1>4, <1>5

\* And one with a sign.
LEMMA SignedFits ==
  ASSUME NEW w \in {8, 16, 24, 32, 64}, NEW n \in Int, In(n, IntRange(FALSE, w))
  PROVE  Sized(FALSE, w) \in Ints /\ In(n, GoRange[Sized(FALSE, w)])
<1>1. CASE w = 8
  <2>1. Sized(FALSE, w) = "int8"
    BY <1>1 DEF Sized
  <2> QED BY <1>1, <2>1, GoRangeIs DEF Ints
<1>2. CASE w = 16
  <2>1. Sized(FALSE, w) = "int16"
    BY <1>2 DEF Sized
  <2> QED BY <1>2, <2>1, GoRangeIs DEF Ints
<1>3. CASE w = 24
  <2>1. Sized(FALSE, w) = "int32"
    BY <1>3 DEF Sized
  <2>2. In(n, IntRange(FALSE, 32))
    BY <1>3, Halves DEF In, IntRange
  <2> QED BY <2>1, <2>2, GoRangeIs DEF Ints
<1>4. CASE w = 32
  <2>1. Sized(FALSE, w) = "int32"
    BY <1>4 DEF Sized
  <2> QED BY <1>4, <2>1, GoRangeIs DEF Ints
<1>5. CASE w = 64
  <2>1. Sized(FALSE, w) = "int64"
    BY <1>5 DEF Sized
  <2> QED BY <1>5, <2>1, GoRangeIs DEF Ints
<1> QED BY <1>1, <1>2, <1>3, <1>4, <1>5

\* All but the largest width, with a sign or without, are within an int64.
LEMMA WithinInt64 ==
  ASSUME NEW w \in {8, 16, 24, 32, 64}, NEW n \in Int,
         In(n, IntRange(TRUE, w)) \/ In(n, IntRange(FALSE, w))
  PROVE  In(n, IntRange(FALSE, 64)) \/ (w = 64 /\ TooLarge(n))
<1>1. Half[w] \in Nat /\ Half[64] \in Nat /\ (w # 64 => 2 * Half[w] <= Half[64])
  BY Halves
<1>2. -Half[w] <= n /\ n <= 2 * Half[w] - 1
  BY <1>1 DEF In, IntRange
<1>3. CASE w # 64
  BY <1>1, <1>2, <1>3 DEF In, IntRange
<1>4. CASE w = 64
  BY <1>1, <1>2, <1>4 DEF In, TooLarge, IntRange
<1> QED BY <1>3, <1>4

\* An integer type goes into a Go type that holds numbers.
LEMMA IntInRange ==
  ASSUME NEW ft, IsInt(ft)
  PROVE  AdaptType(ft) \in DOMAIN GoRange
<1>1. WidthOf[ft.tp] \in {8, 12, 16, 24, 32, 64} /\ (ft.tp # "year" => WidthOf[ft.tp] # 12)
  BY AdaptInt, Widths DEF IntTypes
<1>2. AdaptType(ft) \in {"uint16", "NullBool", "bool", "NullInt64"}
        \/ (ft.tp # "year" /\ AdaptType(ft) = Sized(ft.unsigned, WidthOf[ft.tp]))
  BY AdaptInt
<1>3. ft.tp # "year" => Sized(ft.unsigned, WidthOf[ft.tp]) \in Ints
  BY <1>1 DEF Sized, Ints
<1> QED BY <1>2, <1>3, GoRangeIs DEF Ints

\* A number of a column's range is one of its Go type's, but for what a bool and a
\* NullInt64 cannot hold.
LEMMA NumbersFit ==
  ASSUME NEW ft, IsInt(ft), NEW n \in Int, In(n, ColumnRange(ft))
  PROVE  /\ AdaptType(ft) \in DOMAIN GoRange
         /\ \/ In(n, GoRange[AdaptType(ft)])
            \/ ft.tp = "tiny" /\ ft.flen = 1 /\ n \notin {0, 1}
            \/ ft.tp = "longlong" /\ AdaptType(ft) = "NullInt64" /\ TooLarge(n)
<1>1. PICK w : w = WidthOf[ft.tp]
  OBVIOUS
<1>2. /\ ft.tp \in IntTypes
      /\ ft.unsigned \/ ft.tp = "year" => In(n, IntRange(TRUE, w))
      /\ ~(ft.unsigned \/ ft.tp = "year") => In(n, IntRange(FALSE, w))
  <2>1. ft.tp \in IntTypes /\ In(n, IntRange(ft.unsigned \/ ft.tp = "year", w))
    BY <1>1, AdaptInt DEF ColumnRange
  <2> QED BY <2>1 DEF IntRange
<1>3. CASE ft.tp = "year"
  <2>1. AdaptType(ft) = "uint16" /\ In(n, IntRange(TRUE, 12))
    BY <1>1, <1>2, <1>3, AdaptInt, Widths
  <2>2. In(n, IntRange(TRUE, 16))
    BY <2>1, Halves DEF In, IntRange
  <2> QED BY <2>1, <2>2, GoRangeIs DEF Ints
<1>4. CASE ft.tp = "tiny" /\ ft.flen = 1
  <2>1. AdaptType(ft) \in {"NullBool", "bool"}
    BY <1>4, AdaptInt
  <2>2. In(n, IntRange(TRUE, 1)) <=> n \in {0, 1}
    BY Halves DEF In, IntRange
  <2> QED BY <1>4, <2>1, <2>2, GoRangeIs
<1>5. CASE ft.tp # "year" /\ ~(ft.tp = "tiny" /\ ft.flen = 1)
  <2>1. AdaptType(ft) \in {"NullInt64", Sized(ft.unsigned, w)}
    BY <1>1, <1>5, AdaptInt
  <2>2. ft.tp \in {"tiny", "short", "int24", "long", "longlong"}
    BY <1>2, <1>5 DEF IntTypes
  <2>3. w \in {8, 16, 24, 32, 64} /\ (w = 64 => ft.tp = "longlong")
    BY <1>1, <2>2, Widths
  <2>4. CASE AdaptType(ft) = "NullInt64"
    <3>1. In(n, IntRange(FALSE, 64)) \/ (w = 64 /\ TooLarge(n))
      BY <1>2, <2>3, WithinInt64
    <3>2. GoRange[AdaptType(ft)] = IntRange(FALSE, 64) /\ AdaptType(ft) \in DOMAIN GoRange
      BY <2>4, GoRangeIs
    <3> QED BY <2>3, <2>4, <3>1, <3>2
  <2>5. CASE AdaptType(ft) = Sized(ft.unsigned, w)
    <3>1. CASE ft.unsigned
      <4>1. Sized(ft.unsigned, w) = Sized(TRUE, w)
        BY <3>1 DEF Sized
      <4>2. Sized(TRUE, w) \in Ints /\ In(n, GoRange[Sized(TRUE, w)])
        BY <1>2, <2>3, <3>1, UnsignedFits
      <4> QED BY <2>5, <4>1, <4>2, GoRangeIs
    <3>2. CASE ~ft.unsigned
      <4>1. Sized(ft.unsigned, w) = Sized(FALSE, w)
        BY <3>2 DEF Sized
      <4>2. Sized(FALSE, w) \in Ints /\ In(n, GoRange[Sized(FALSE, w)])
        BY <1>2, <1>5, <2>3, <3>2, SignedFits
      <4> QED BY <2>5, <4>1, <4>2, GoRangeIs
    <3> QED BY <3>1, <3>2
  <2> QED BY <2>1, <2>4, <2>5
<1> QED BY <1>3, <1>4, <1>5

\* What a column may have, and a field.
ColumnHolds(ft, v) ==
  /\ v = NULL => ~ft.notNull
  /\ v # NULL /\ IsInt(ft) => v \in Int /\ In(v, ColumnRange(ft))

FieldHolds(ft, v) == Holds(AdaptType(ft), v) /\ (IsInt(ft) => v \in Int \union {NULL})

\* What a column has that its field cannot hold.
Unreadable(ft, v) ==
  \/ ft.tp = "year" /\ v = NULL
  \/ ft.tp = "longlong" /\ v # NULL /\ TooLarge(v) /\ AdaptType(ft) = "NullInt64"
  \/ ft.tp = "tiny" /\ ft.flen = 1 /\ v \notin {NULL, 0, 1}

\* A value of a column goes into its field, or is one of those.
LEMMA HeldOrCaused ==
  ASSUME NEW ft, ft.tp # "bit", NEW v, ColumnHolds(ft, v)
  PROVE  FieldHolds(ft, v) \/ Unreadable(ft, v)
<1>1. CASE v = NULL
  <2>1. ft.tp = "year" \/ AdaptType(ft) \in Nullables
    BY <1>1, AdaptInt, AdaptOther DEF ColumnHolds
  <2> QED BY <1>1, <2>1 DEF FieldHolds, Holds, Nullables, Unreadable
<1>2. CASE v # NULL /\ IsInt(ft)
  <2>1. v \in Int /\ In(v, ColumnRange(ft))
    BY <1>2 DEF ColumnHolds
  <2>2. \/ In(v, GoRange[AdaptType(ft)])
        \/ ft.tp = "tiny" /\ ft.flen = 1 /\ v \notin {0, 1}
        \/ ft.tp = "longlong" /\ AdaptType(ft) = "NullInt64" /\ TooLarge(v)
    BY <1>2, <2>1, NumbersFit
  <2> QED BY <1>2, <2>1, <2>2 DEF FieldHolds, Holds, Unreadable
<1>3. CASE v # NULL /\ ~IsInt(ft)
  BY <1>3, AdaptOther DEF FieldHolds, Holds
<1> QED BY <1>1, <1>2, <1>3

\* The ends of a range are numbers.
LEMMA GoRangeInts ==
  ASSUME NEW go \in DOMAIN GoRange
  PROVE  GoRange[go].min \in Int /\ GoRange[go].max \in Int
<1> DEFINE Ranges == {IntRange(FALSE, 8), IntRange(FALSE, 16), IntRange(FALSE, 32), IntRange(FALSE, 64),
                      IntRange(TRUE, 1), IntRange(TRUE, 8), IntRange(TRUE, 16), IntRange(TRUE, 32),
                      IntRange(TRUE, 64)}
<1>1. \A range \in Ranges : range.min \in Int /\ range.max \in Int
  BY Halves DEF IntRange
<1>2. GoRange[go] \in Ranges
  BY GoRangeIs DEF Ints
<1> HIDE DEF Ranges
<1> QED BY <1>1, <1>2

\* The values listed for a Go type are ones it holds.
LEMMA GoValuesHeld ==
  ASSUME NEW ft, ft.tp # "bit", NEW v \in GoValues(AdaptType(ft))
  PROVE  FieldHolds(ft, v)
<1> DEFINE go == AdaptType(ft)
<1>1. CASE v = NULL
  <2>1. v \notin Int /\ v # "v"
    BY <1>1, TypeAdapterAssumption
  <2>2. CASE go \in DOMAIN GoRange
    <3>1. \A n \in {GoRange[go].min, 0, 1, GoRange[go].max} : n \in Int
      BY <2>2, GoRangeInts
    <3> QED BY <1>1, <2>1, <2>2, <3>1 DEF GoValues, FieldHolds
  <2>3. CASE go \notin DOMAIN GoRange
    BY <1>1, <2>1, <2>3 DEF GoValues, FieldHolds
  <2> QED BY <2>2, <2>3
<1>2. CASE v # NULL /\ go \in DOMAIN GoRange
  <2>1. v \in {GoRange[go].min, 0, 1, GoRange[go].max} /\ In(v, GoRange[go])
    BY <1>2 DEF GoValues
  <2>2. v \in Int
    BY <1>2, <2>1, GoRangeInts
  <2> QED BY <1>2, <2>1, <2>2 DEF FieldHolds, Holds
<1>3. CASE v # NULL /\ go \notin DOMAIN GoRange
  <2>1. ~IsInt(ft)
    BY <1>3, IntInRange
  <2> QED BY <1>3, <2>1 DEF FieldHolds, Holds
<1> QED BY <1>1, <1>2, <1>3

\* And those listed for a column ones that it has.
LEMMA ColumnValuesHeld ==
  ASSUME NEW ft, NEW v \in ColumnValues(ft)
  PROVE  ColumnHolds(ft, v)
<1>1. CASE IsInt(ft)
  <2>1. ColumnRange(ft).min \in Int /\ ColumnRange(ft).max \in Int
    <3>1. WidthOf[ft.tp] \in {8, 12, 16, 24, 32, 64}
      BY <1>1, AdaptInt, Widths DEF IntTypes
    <3> QED BY <3>1, Halves DEF ColumnRange, IntRange
  <2>2. NULL \notin {ColumnRange(ft).min, 0, 1, 2, ColumnRange(ft).max}
    BY <2>1, TypeAdapterAssumption
  <2> QED BY <1>1, <2>1, <2>2 DEF ColumnValues, ColumnHolds
<1>2. CASE ~IsInt(ft)
  BY <1>2, TypeAdapterAssumption DEF ColumnValues, ColumnHolds
<1> QED BY <1>1, <1>2

-----------------------------------------------------------------------------
(* Tuples.                                                                 *)

\* The tuples grow one value at a time.
LEMMA TuplesUnfold ==
  ASSUME NEW S, NEW L \in Nat, Len(S) = L
  PROVE  \E f : /\ f[0] = {<<>>} /\ f[L] = Tuples(S)
                /\ \A n \in 1 .. L : f[n] = Longer(f[n - 1], S[n])
<1> DEFINE U == UNION {S[c] : c \in 1 .. L}
           D == SUBSET Seq(U)
           step == [n \in 1 .. L |-> [d \in D |-> Longer(d, S[n])]]
           Body(f) == [k \in 0 .. L |-> IF k = 0 THEN {<<>>} ELSE Longer(f[k - 1], S[k])]
<1>1. {<<>>} \in D
  BY EmptySeq
<1>2. AreSteps(step, L, D)
  <2>1. ASSUME NEW n \in 1 .. L, NEW d \in D
        PROVE  Longer(d, S[n]) \in D
    <3>1. PICK V : V = S[n]
      OBVIOUS
    <3>2. V \subseteq U
      BY <3>1
    <3> HIDE DEF U
    <3>3. \A tuple \in d, v \in V : Append(tuple, v) \in Seq(U)
      BY <3>2
    <3> QED BY <3>1, <3>3 DEF Longer
  <2> HIDE DEF D
  <2> QED BY <2>1 DEF AreSteps
<1>3. PICK g : Iterates(g, {<<>>}, step, L, D)
  <2> HIDE DEF step, D
  <2> QED BY <1>1, <1>2, Iteration
<1>4. g = Body(g)
  <2>1. g \in [0 .. L -> D] /\ g[0] = {<<>>} /\ \A n \in 1 .. L : g[n] = step[n][g[n - 1]]
    <3> HIDE DEF step, D
    <3> QED BY <1>3 DEF Iterates
  <2> HIDE DEF D
  <2>2. ASSUME NEW n \in 0 .. L, n # 0
        PROVE  g[n] = Longer(g[n - 1], S[n])
    <3>1. n \in 1 .. L /\ n - 1 \in 0 .. L
      BY <2>2
    <3>2. g[n - 1] \in D
      BY <2>1, <3>1
    <3> QED BY <2>1, <3>1, <3>2
  <2> QED BY <2>1, <2>2
<1> DEFINE h == CHOOSE f : f = Body(f)
<1>5. h = Body(h)
  <2> HIDE DEF Body
  <2> QED BY <1>4
<1>6. Tuples(S) = h[L]
  BY DEF Tuples
<1>7. ASSUME NEW n \in 0 .. L
      PROVE  h[n] = IF n = 0 THEN {<<>>} ELSE Longer(h[n - 1], S[n])
  <2> HIDE DEF h
  <2>1. h[n] = Body(h)[n]
    BY <1>5
  <2> QED BY <2>1
<1> HIDE DEF h
<1>8. \A n \in 1 .. L : n \in 0 .. L /\ n # 0
  OBVIOUS
<1>9. \A n \in 1 .. L : h[n] = Longer(h[n - 1], S[n])
  BY <1>7, <1>8
<1> QED BY <1>6, <1>7, <1>9

\* Tuples have a value of each set in its place.
LEMMA TuplesDef ==
  ASSUME NEW S, NEW L \in Nat, Len(S) = L, NEW t \in Tuples(S)
  PROVE  DOMAIN t = 1 .. L /\ \A c \in 1 .. L : t[c] \in S[c]
<1> DEFINE U == UNION {S[c] : c \in 1 .. L}
<1>1. PICK f : /\ f[0] = {<<>>} /\ f[L] = Tuples(S)
               /\ \A n \in 1 .. L : f[n] = Longer(f[n - 1], S[n])
  BY TuplesUnfold
<1>2. \A n \in 1 .. L : S[n] \subseteq U
  OBVIOUS
<1> HIDE DEF U
<1> DEFINE Fits(n) == \A tuple \in f[n] : tuple \in Seq(U) /\ Len(tuple) = n /\ \A c \in 1 .. n : tuple[c] \in S[c]
           Good == {n \in Nat : n <= L => Fits(n)}
<1>3. 0 \in Good
  <2> SUFFICES ASSUME NEW tuple \in f[0]
               PROVE  tuple \in Seq(U) /\ Len(tuple) = 0 /\ \A c \in 1 .. 0 : tuple[c] \in S[c]
    OBVIOUS
  <2>1. tuple = <<>>
    BY <1>1
  <2>2. tuple \in Seq(U) /\ Len(tuple) = 0
    BY <2>1, EmptySeq
  <2> QED BY <2>2
<1>4. ASSUME NEW n \in Nat, n \in Good
      PROVE  n + 1 \in Good
  <2> SUFFICES ASSUME n + 1 <= L, NEW tuple \in f[n + 1]
               PROVE  tuple \in Seq(U) /\ Len(tuple) = n + 1 /\ \A c \in 1 .. n + 1 : tuple[c] \in S[c]
    OBVIOUS
  <2>1. n + 1 \in 1 .. L /\ (n + 1) - 1 = n
    OBVIOUS
  <2>2. PICK u \in f[n], v \in S[n + 1] : tuple = Append(u, v)
    <3>1. tuple \in Longer(f[n], S[n + 1])
      BY <1>1, <2>1
    <3> QED BY <3>1 DEF Longer
  <2>3. u \in Seq(U) /\ Len(u) = n /\ \A c \in 1 .. n : u[c] \in S[c]
    BY <1>4
  <2>4. /\ tuple \in Seq(U) /\ Len(tuple) = n + 1 /\ tuple[n + 1] = v
        /\ \A c \in 1 .. n : tuple[c] = u[c]
    <3>1. v \in U
      BY <1>2, <2>1
    <3> HIDE DEF Good
    <3> QED BY <2>2, <2>3, <3>1
  <2>5. ASSUME NEW c \in 1 .. n + 1
        PROVE  tuple[c] \in S[c]
    <3>1. CASE c = n + 1
      BY <2>4, <3>1
    <3>2. CASE c # n + 1
      <4>1. c \in 1 .. n
        BY <3>2
      <4> QED BY <2>3, <2>4, <4>1
    <3> QED BY <3>1, <3>2
  <2> QED BY <2>4, <2>5
<1>5. L \in Good
  <2> HIDE DEF Good
  <2> QED BY <1>3, <1>4, NatInSet
<1>6. t \in Seq(U) /\ Len(t) = L /\ \A c \in 1 .. L : t[c] \in S[c]
  BY <1>1, <1>5
<1> QED BY <1>6

-----------------------------------------------------------------------------
(* What is kept.                                                           *)

\* What is known of a table is made of what TiDB says of it.
Known(n) == \E m \in DOMAIN schema : schema[m].name = n /\ tables[n] = NewTableMeta(schema[m])

MetaInv ==
  /\ schema \in Schemas /\ IsFiniteSet(DOMAIN tables)
  /\ \A n \in DOMAIN tables : Known(n)

\* A file is one of a table that is known, as it is made of that table; the code is
\* complete when it is rendered.
FilesInv ==
  /\ phase \in {"meta", "render", "rendered", "run", "stopped"}
  /\ DOMAIN files \subseteq DOMAIN tables
  /\ phase = "meta" => DOMAIN files = {}
  /\ phase \in {"rendered", "run"} => DOMAIN files = DOMAIN tables
  /\ \A n \in DOMAIN files : files[n] = File(tables[n])

\* A table that code is run on: an enum or a set has no item twice, as that does not
\* compile, and what is numbered is a number.
Apart(items) == \A i, j \in DOMAIN items : items[i] = items[j] => i = j

Runnable(t) ==
  /\ \A c \in DOMAIN t.columns :
       t.columns[c].type.tp # "bit" /\ (t.columns[c].autoInc => IsInt(t.columns[c].type))
  /\ \A c \in Special(t) : Apart(Elems(t, c))

\* The program runs on such a table, and nothing was done before it runs.
RunInv ==
  /\ phase = "run" => table \in DOMAIN tables /\ Runnable(T)
  /\ phase # "run" => rows = {} /\ entry = <<>> /\ result = "none"

\* No unique index has two rows of the same values.
RowsApart == \A r, q \in rows : Twins(r, q) => r = q

\* A value that a column has, and one that a field has.
HasColumn(c, v) == IF c \in Special(T) THEN v \in DbValues(c) ELSE ColumnHolds(Type(c), v)
HasField(c, v)  == IF c \in Special(T) THEN v \in FieldValues(c) ELSE FieldHolds(Type(c), v)

IsRow(r)   == \A c \in Cols : HasColumn(c, r[c])
IsEntry(e) == DOMAIN e = Cols /\ \A c \in Cols : HasField(c, e[c])

DataInv == (\A r \in rows : IsRow(r)) /\ (entry # <<>> => IsEntry(entry))

-----------------------------------------------------------------------------
(* Values of a column and of its field.                                    *)

\* Items that are a list without NULL, the texts of which are not NULL.
GoodItems(items) ==
  /\ items \in Seq(ToSet(items)) /\ NULL \notin ToSet(items)
  /\ \A texts \in SUBSET ToSet(items) : NULL # texts

\* What is asked of a column: items like these, and no BIT.
GoodColumn(c) == c \in Cols /\ GoodItems(Elems(T, c)) /\ Type(c).tp # "bit"

\* The columns with types of their own, by the name of the database type.
LEMMA Kinds ==
  ASSUME NEW c \in Cols
  PROVE  /\ c \in Special(T) <=> Type(c).tp \in {"enum", "set"}
         /\ c \in Enums(T) <=> Type(c).tp = "enum"
         /\ c \in Sets(T) <=> Type(c).tp = "set"
BY DEF Special, Enums, Sets, Type, Cols

\* What goes for the column of an enum.
LEMMA EnumValues ==
  ASSUME NEW c \in Enums(T)
  PROVE  /\ c \in Special(T) /\ c \notin Sets(T)
         /\ DbValues(c) = (IF Type(c).notNull THEN {} ELSE {NULL}) \union ToSet(Elems(T, c))
         /\ FieldValues(c) = 0 .. Len(Elems(T, c)) + 1
         /\ \A e : ToDb(c, e) = EnumValue(c, e)
         /\ \A v : FromDb(c, v) = EnumScan(c, v) /\ Readable(c, v)
BY DEF DbValues, FieldValues, ToDb, FromDb, Readable, Enums, Sets

\* What goes for that of a set.
LEMMA SetValues ==
  ASSUME NEW c \in Sets(T)
  PROVE  /\ c \in Special(T) /\ c \notin Enums(T)
         /\ DbValues(c) = (IF Type(c).notNull THEN {} ELSE {NULL})
                            \union {Stored(parts) : parts \in SUBSET ToSet(Elems(T, c))}
         /\ FieldValues(c) = {NULL} \union SUBSET DOMAIN Elems(T, c)
         /\ \A e : ToDb(c, e) = IF SetValue(c, e) = NULL THEN NULL ELSE Stored(SetValue(c, e))
         /\ \A v : FromDb(c, v) = SetScan(c, v)
         /\ \A v : Readable(c, v) <=> SetReadable(c, v)
BY DEF DbValues, FieldValues, ToDb, FromDb, Readable, Sets

\* What goes for every other column.
LEMMA PlainValues ==
  ASSUME NEW c, c \notin Special(T)
  PROVE  /\ c \notin Enums(T) /\ c \notin Sets(T)
         /\ DbValues(c) = ColumnValues(Type(c))
         /\ FieldValues(c) = GoValues(AdaptType(Type(c)))
         /\ \A e : ToDb(c, e) = e
         /\ \A v : FromDb(c, v) = v
         /\ \A v : Readable(c, v) <=> Holds(AdaptType(Type(c)), v)
BY DEF DbValues, FieldValues, ToDb, FromDb, Readable, Enums, Sets, GoType, Type

\* A column with a type of its own is an enum or a set.
LEMMA SpecialIs == \A c \in Special(T) : c \in Enums(T) \/ c \in Sets(T)
BY DEF Enums, Sets

\* The text of a set that has items, and what the database makes of it.
LEMMA SetText ==
  ASSUME NEW c \in Sets(T), GoodItems(Elems(T, c)), NEW s \in SUBSET DOMAIN Elems(T, c), s # {}
  PROVE  /\ s # NULL => SetValue(c, s) = {Elems(T, c)[i] : i \in s}
         /\ {Elems(T, c)[i] : i \in s} \in SUBSET ToSet(Elems(T, c)) /\ {Elems(T, c)[i] : i \in s} # {}
BY DEF SetValue, SetString, ToSet

\* The parts of a text that has any come back from the database.
LEMMA StoredSplit ==
  ASSUME NEW parts, parts # {}
  PROVE  Split(Stored(parts)) = parts
BY DEF Split, Stored

\* The values listed for a column are ones that it has.
LEMMA DbValuesHave ==
  ASSUME NEW c, NEW v \in DbValues(c)
  PROVE  HasColumn(c, v)
BY PlainValues, ColumnValuesHeld DEF HasColumn

\* And those listed for a field ones that the field has.
LEMMA FieldValuesHave ==
  ASSUME NEW c, GoodColumn(c), NEW v \in FieldValues(c)
  PROVE  HasField(c, v)
BY PlainValues, GoValuesHeld DEF HasField, GoodColumn

\* The database takes what its column has.
LEMMA ColumnAccepted ==
  ASSUME NEW c, GoodColumn(c), NEW v, HasColumn(c, v)
  PROVE  Accepts(c, v)
<1>1. CASE c \in Enums(T)
  BY <1>1, EnumValues DEF HasColumn, Accepts, GoodColumn, GoodItems
<1>2. CASE c \in Sets(T)
  <2>1. \A parts \in SUBSET ToSet(Elems(T, c)) : Stored(parts) # NULL
    BY DEF Stored, GoodColumn, GoodItems
  <2> QED BY <1>2, <2>1, SetValues DEF HasColumn, Accepts
<1>3. CASE c \notin Special(T)
  BY <1>3 DEF HasColumn, Accepts, ColumnHolds
<1> QED BY <1>1, <1>2, <1>3, SpecialIs

\* What the field of an enum is for the database is an item or NULL.
LEMMA EnumToDb ==
  ASSUME NEW c \in Enums(T), GoodItems(Elems(T, c)), NEW e \in FieldValues(c)
  PROVE  \/ ToDb(c, e) = NULL
         \/ ToDb(c, e) \in ToSet(Elems(T, c))
<1>1. e \in Int /\ (0 < e /\ e <= Len(Elems(T, c)) => Elems(T, c)[e] \in ToSet(Elems(T, c)))
  BY EnumValues DEF GoodItems
<1> QED BY <1>1, EnumValues DEF EnumValue

\* And of a set, the texts that its column has.
LEMMA SetToDb ==
  ASSUME NEW c \in Sets(T), GoodItems(Elems(T, c)), NEW e \in FieldValues(c)
  PROVE  \/ ToDb(c, e) = NULL
         \/ \E parts \in SUBSET ToSet(Elems(T, c)) : ToDb(c, e) = Stored(parts)
<1>1. CASE e = NULL
  BY <1>1, SetValues DEF SetValue
<1>2. CASE e = {} /\ e # NULL
  <2>1. SetValue(c, e) = {<<>>}
    BY <1>2 DEF SetValue, SetString
  <2>2. Stored({<<>>}) = Stored({})
    BY DEF Stored
  <2> QED BY <2>1, <2>2, SetValues
<1>3. CASE e # {} /\ e # NULL
  <2>1. e \in SUBSET DOMAIN Elems(T, c)
    BY <1>3, SetValues
  <2>2. SetValue(c, e) \in SUBSET ToSet(Elems(T, c))
    BY <1>3, <2>1, SetText
  <2> QED BY <2>2, SetValues
<1> QED BY <1>1, <1>2, <1>3

\* What a field is for the database is, if it is taken, a value of the column.
LEMMA EntryColumn ==
  ASSUME NEW c, GoodColumn(c), NEW e, HasField(c, e), Accepts(c, ToDb(c, e))
  PROVE  HasColumn(c, ToDb(c, e))
<1>1. ToDb(c, e) = NULL => ~Type(c).notNull
  BY DEF Accepts
<1>2. CASE c \in Enums(T)
  BY <1>1, <1>2, EnumValues, EnumToDb DEF HasField, HasColumn, GoodColumn
<1>3. CASE c \in Sets(T)
  BY <1>1, <1>3, SetValues, SetToDb DEF HasField, HasColumn, GoodColumn
<1>4. CASE c \notin Special(T)
  BY <1>4, PlainValues DEF HasField, HasColumn, FieldHolds, ColumnHolds, Accepts
<1> QED BY <1>2, <1>3, <1>4, SpecialIs

\* What a column has is, if it can be read, a value of the field.
LEMMA ColumnEntry ==
  ASSUME NEW c, GoodColumn(c), NEW v, HasColumn(c, v), Readable(c, v)
  PROVE  HasField(c, FromDb(c, v))
<1> DEFINE items == Elems(T, c)
<1>1. items \in Seq(ToSet(items)) /\ Len(items) \in Nat
  BY DEF GoodColumn, GoodItems
<1>2. CASE c \in Enums(T)
  <2>1. CASE v = NULL
    BY <1>1, <1>2, <2>1, EnumValues DEF HasField, EnumScan
  <2>2. CASE v # NULL
    <3>1. \E i \in DOMAIN items : items[i] = v
      BY <1>2, <2>2, EnumValues DEF HasColumn, ToSet
    <3>2. EnumScan(c, v) \in DOMAIN items
      BY <2>2, <3>1 DEF EnumScan
    <3> QED BY <1>1, <1>2, <3>2, EnumValues DEF HasField
  <2> QED BY <2>1, <2>2
<1>3. CASE c \in Sets(T)
  BY <1>3, SetValues DEF HasField, SetScan
<1>4. CASE c \notin Special(T)
  BY <1>4, PlainValues DEF HasField, HasColumn, FieldHolds, ColumnHolds
<1> QED BY <1>2, <1>3, <1>4, SpecialIs

\* A field comes back from the database as it was, but for these.
Changed(c, e) ==
  \/ c \in Enums(T) /\ e > Len(Elems(T, c)) /\ FromDb(c, ToDb(c, e)) = 0
  \/ c \in Sets(T) /\ e = {}

\* A field is what is scanned of what the database has of it, but for those.
LEMMA ComesBack ==
  ASSUME NEW c, GoodColumn(c), c \in Special(T) => Apart(Elems(T, c)), NEW e, HasField(c, e)
  PROVE  (Readable(c, ToDb(c, e)) /\ FromDb(c, ToDb(c, e)) = e) \/ Changed(c, e)
<1> DEFINE items == Elems(T, c)
<1>1. items \in Seq(ToSet(items)) /\ Len(items) \in Nat /\ NULL \notin ToSet(items)
  BY DEF GoodColumn, GoodItems
<1>2. CASE c \in Enums(T)
  <2>1. e \in 0 .. Len(items) + 1
    BY <1>2, EnumValues DEF HasField
  <2>2. CASE 0 < e /\ e <= Len(items)
    <3>1. ToDb(c, e) = items[e] /\ e \in DOMAIN items /\ items[e] # NULL
      BY <1>1, <1>2, <2>1, <2>2, EnumValues DEF EnumValue
    <3>2. \A i \in DOMAIN items : items[i] = items[e] => i = e
      BY <1>2, <3>1, EnumValues DEF Apart
    <3>3. EnumScan(c, items[e]) = e
      BY <3>1, <3>2 DEF EnumScan
    <3> QED BY <1>2, <3>1, <3>3, EnumValues
  <2>3. CASE e = 0 \/ e = Len(items) + 1
    <3>1. ToDb(c, e) = NULL
      BY <1>1, <1>2, <2>3, EnumValues DEF EnumValue
    <3>2. FromDb(c, ToDb(c, e)) = 0
      BY <1>2, <3>1, EnumValues DEF EnumScan
    <3> QED BY <1>1, <1>2, <2>3, <3>2, EnumValues DEF Changed
  <2> QED BY <1>1, <2>1, <2>2, <2>3
<1>3. CASE c \in Sets(T)
  <2>1. CASE e = NULL
    BY <1>3, <2>1, SetValues DEF SetValue, SetReadable, SetScan
  <2>2. CASE e = {}
    BY <1>3, <2>2 DEF Changed
  <2>3. CASE e # NULL /\ e # {}
    <3> DEFINE parts == {items[i] : i \in e}
    <3>1. e \in SUBSET DOMAIN items
      BY <1>3, <2>3, SetValues DEF HasField
    <3>2. SetValue(c, e) = parts /\ parts \in SUBSET ToSet(items) /\ parts # {}
      BY <1>3, <2>3, <3>1, SetText DEF GoodColumn
    <3>3. parts # NULL /\ Stored(parts) # NULL
      BY <3>2 DEF Stored, GoodColumn, GoodItems
    <3>4. ToDb(c, e) = Stored(parts)
      BY <1>3, <3>2, <3>3, SetValues
    <3>5. Split(Stored(parts)) = parts
      BY <3>2, StoredSplit
    <3>6. Readable(c, Stored(parts))
      BY <1>3, <3>2, <3>5, SetValues DEF SetReadable
    <3>7. \A i, j \in DOMAIN items : items[i] = items[j] => i = j
      BY <1>3, SetValues DEF Apart
    <3>8. {i \in DOMAIN items : items[i] \in parts} = e
      BY <3>1, <3>7
    <3>9. SetScan(c, Stored(parts)) = e
      BY <3>3, <3>5, <3>8 DEF SetScan
    <3> QED BY <1>3, <3>4, <3>6, <3>9, SetValues
  <2> QED BY <2>1, <2>2, <2>3
<1>4. CASE c \notin Special(T)
  BY <1>4, PlainValues DEF HasField, FieldHolds
<1> QED BY <1>2, <1>3, <1>4, SpecialIs

\* What a column has cannot be read for one of these causes.
Cause(c, v) ==
  CASE Type(c).tp = "year" -> v = NULL
    [] Type(c).tp = "longlong" -> v # NULL /\ v > IntRange(FALSE, 64).max
    [] Type(c).tp = "tiny" /\ Type(c).flen = 1 -> v \notin {NULL, 0, 1}
    [] c \in Sets(T) -> v = {} /\ <<>> \notin ToSet(Elems(T, c))
    [] OTHER -> FALSE

\* A value that a column has and its field does not take has its cause in it.
LEMMA UnreadableCaused ==
  ASSUME NEW c, GoodColumn(c), NEW v, HasColumn(c, v), ~Readable(c, v)
  PROVE  Cause(c, v)
<1>1. c \notin Enums(T)
  BY EnumValues
<1>2. CASE c \in Sets(T)
  <2>1. v # NULL /\ ~(Split(v) \subseteq ToSet(Elems(T, c)))
    BY <1>2, SetValues DEF SetReadable
  <2>2. PICK parts \in SUBSET ToSet(Elems(T, c)) : v = Stored(parts)
    BY <1>2, <2>1, SetValues DEF HasColumn
  <2>3. v = {} /\ <<>> \notin ToSet(Elems(T, c))
    BY <2>1, <2>2 DEF Split, Stored
  <2>4. Type(c).tp = "set"
    BY <1>2, Kinds DEF GoodColumn
  <2> QED BY <1>2, <2>3, <2>4 DEF Cause
<1>3. CASE c \notin Special(T)
  <2>1. ColumnHolds(Type(c), v) /\ ~FieldHolds(Type(c), v)
    BY <1>3, PlainValues DEF HasColumn, FieldHolds
  <2>2. Unreadable(Type(c), v)
    BY <2>1, HeldOrCaused DEF GoodColumn
  <2>3. c \notin Sets(T)
    BY <1>3, PlainValues
  <2> QED BY <2>2, <2>3 DEF Cause, Unreadable, TooLarge
<1> QED BY <1>1, <1>2, <1>3, SpecialIs

-----------------------------------------------------------------------------
(* Tables.                                                                 *)

\* A table's indices are the handle's, if there is one, and those TiDB has, so
\* that each is of columns of the table, and a primary one is unique.
LEMMA IndicesOfColumns ==
  ASSUME NEW s \in Schemas, NEW m \in DOMAIN s, NEW k \in DOMAIN Indices(s[m])
  PROVE  /\ ToSet(Indices(s[m])[k].columns) \subseteq DOMAIN s[m].columns
         /\ Indices(s[m])[k].primary => Indices(s[m])[k].unique
<1> DEFINE info == s[m]
<1>1. /\ info.handle \in {0} \union DOMAIN info.columns
      /\ info.indices \in Seq(ToSet(info.indices))
      /\ \A j \in DOMAIN info.indices :
           /\ ToSet(info.indices[j].columns) \subseteq DOMAIN info.columns
           /\ info.indices[j].primary => info.indices[j].unique
  BY TableMetaAssumption DEF IsList
<1>2. CASE info.handle = 0
  <2>1. Indices(info) = info.indices
    BY <1>1, <1>2 DEF Indices, NewIndexMetaFromPKHandler
  <2> QED BY <1>1, <2>1
<1>3. CASE info.handle # 0
  <2> DEFINE pk == [name |-> <<"primary">>, unique |-> TRUE, primary |-> TRUE, columns |-> <<info.handle>>]
  <2>1. Indices(info) = <<pk>> \o info.indices
    BY <1>3 DEF Indices, NewIndexMetaFromPKHandler
  <2>2. CASE k = 1
    <3>1. Indices(info)[k] = pk
      BY <1>1, <2>1, <2>2
    <3>2. ToSet(pk.columns) = {info.handle}
      BY DEF ToSet
    <3> QED BY <1>1, <1>3, <3>1, <3>2
  <2>3. CASE k # 1
    <3>1. k \in 2 .. Len(info.indices) + 1
      BY <1>1, <2>1, <2>3
    <3>2. k - 1 \in DOMAIN info.indices /\ Indices(info)[k] = info.indices[k - 1]
      BY <1>1, <2>1, <3>1
    <3> QED BY <1>1, <3>2
  <2> QED BY <2>2, <2>3
<1> QED BY <1>2, <1>3

\* The primary key of a table that is known is of columns of it, and a unique index.
LEMMA PrimaryIsUnique ==
  ASSUME MetaInv, table \in DOMAIN tables, PrimaryColumns(T) # <<>>
  PROVE  /\ T.primaryIndex \in UniqueIndices(T)
         /\ PrimaryColumns(T) = T.indices[T.primaryIndex].columns
         /\ ToSet(PrimaryColumns(T)) \subseteq Cols
<1>1. PICK m \in DOMAIN schema : T = NewTableMeta(schema[m])
  BY DEF MetaInv, Known, T
<1>2. /\ T.indices = Indices(schema[m])
      /\ T.columns = schema[m].columns
      /\ T.primaryIndex = Only(Primaries(Indices(schema[m])))
  BY <1>1 DEF NewTableMeta
<1>3. T.primaryIndex # 0 /\ PrimaryColumns(T) = T.indices[T.primaryIndex].columns
  BY DEF PrimaryColumns
<1>4. T.primaryIndex \in Primaries(T.indices)
  BY <1>2, <1>3 DEF Only
<1>5. T.primaryIndex \in DOMAIN T.indices /\ T.indices[T.primaryIndex].primary
  BY <1>4 DEF Primaries
<1>6. /\ ToSet(T.indices[T.primaryIndex].columns) \subseteq DOMAIN T.columns
      /\ T.indices[T.primaryIndex].unique
  BY <1>2, <1>5, IndicesOfColumns DEF MetaInv
<1> QED BY <1>3, <1>5, <1>6 DEF UniqueIndices, Cols

\* The rows that an entry's primary key hits are one.
LEMMA HitsOne ==
  ASSUME MetaInv, RunInv, RowsApart, phase = "run", PrimaryColumns(T) # <<>>,
         NEW r \in Hit(entry), NEW q \in Hit(entry)
  PROVE  r = q
<1>1. table \in DOMAIN tables
  BY DEF RunInv
<1>2. /\ T.primaryIndex \in UniqueIndices(T)
      /\ PrimaryColumns(T) = T.indices[T.primaryIndex].columns
  BY <1>1, PrimaryIsUnique
<1>3. \A c \in ToSet(PrimaryColumns(T)) :
        r[c] = AsRow(entry)[c] /\ r[c] # NULL /\ q[c] = AsRow(entry)[c]
  BY DEF Hit, Where
<1>4. Twins(r, q)
  BY <1>2, <1>3 DEF Twins
<1> QED BY <1>4 DEF RowsApart, Hit

-----------------------------------------------------------------------------
(* The invariant is inductive.                                             *)

\* The items of a column of a table that is known.
LEMMA ItemsGood ==
  ASSUME MetaInv, table \in DOMAIN tables, NEW c \in Cols
  PROVE  GoodItems(Elems(T, c))
<1>1. PICK m \in DOMAIN schema : T = NewTableMeta(schema[m])
  BY DEF MetaInv, Known, T
<1>2. T.columns = schema[m].columns
  BY <1>1 DEF NewTableMeta
<1>3. Elems(T, c) = schema[m].columns[c].type.elems /\ c \in DOMAIN schema[m].columns
  BY <1>2 DEF Elems, Cols
<1>4. PICK items : items = Elems(T, c)
  OBVIOUS
<1>5. NULL \notin ToSet(items) /\ \A texts \in SUBSET ToSet(items) : NULL # texts
  BY <1>3, <1>4, TableEntryAssumption DEF MetaInv
<1>6. items \in Seq(ToSet(items))
  BY <1>3, <1>4, TableMetaAssumption DEF MetaInv, IsList
<1> QED BY <1>4, <1>5, <1>6 DEF GoodItems

\* Columns are numbered.
LEMMA ColsNumbered ==
  ASSUME MetaInv, table \in DOMAIN tables
  PROVE  Len(T.columns) \in Nat /\ Cols = 1 .. Len(T.columns) /\ T.columns \in Seq(ToSet(T.columns))
<1>1. PICK m \in DOMAIN schema : T = NewTableMeta(schema[m])
  BY DEF MetaInv, Known, T
<1>2. T.columns = schema[m].columns
  BY <1>1 DEF NewTableMeta
<1>3. T.columns \in Seq(ToSet(T.columns))
  BY <1>2, TableMetaAssumption DEF MetaInv, IsList
<1> QED BY <1>3 DEF Cols

\* The column that is numbered by the database, if there is one, is one of the table.
LEMMA AutoIncIs ==
  ASSUME MetaInv, RunInv, phase = "run", T.autoIncColumn # 0
  PROVE  /\ T.autoIncColumn \in Cols /\ IsInt(Type(T.autoIncColumn))
         /\ T.autoIncColumn \notin Special(T)
<1>1. table \in DOMAIN tables /\ Runnable(T)
  BY DEF RunInv
<1>2. PICK m \in DOMAIN schema : T = NewTableMeta(schema[m])
  BY <1>1 DEF MetaInv, Known, T
<1>3. T.columns = schema[m].columns /\ T.autoIncColumn = Only(AutoIncs(schema[m]))
  BY <1>2 DEF NewTableMeta
<1>4. T.autoIncColumn \in AutoIncs(schema[m])
  BY <1>3 DEF Only
<1>5. T.autoIncColumn \in Cols /\ T.columns[T.autoIncColumn].autoInc
  BY <1>3, <1>4 DEF AutoIncs, Cols
<1>6. IsInt(Type(T.autoIncColumn))
  BY <1>1, <1>5 DEF Runnable, Cols, Type
<1>7. Type(T.autoIncColumn).tp \notin {"enum", "set"}
  BY <1>6, IntTypesAre DEF IsInt, IntTypes
<1> QED BY <1>5, <1>6, <1>7, Kinds

\* A file in which an enum or a set declares the same item twice does not compile.
LEMMA ItemsOnce ==
  ASSUME NEW t, NEW c \in Special(t), Once(Decls(t))
  PROVE  Apart(Elems(t, c))
<1>1. ItemDecls(t, c) \subseteq Decls(t)
  <2>1. c \in Enums(t) \/ c \in Sets(t)
    BY DEF Sets
  <2> QED BY <2>1 DEF Decls, EnumDecls, SetDecls
<1>2. ASSUME NEW i \in DOMAIN Elems(t, c), NEW j \in DOMAIN Elems(t, c), Elems(t, c)[i] = Elems(t, c)[j]
      PROVE  i = j
  <2> DEFINE d(n) == Decl(ItemId(t, c, Elems(t, c)[n]), "item", c, n)
  <2>1. d(i) \in ItemDecls(t, c) /\ d(j) \in ItemDecls(t, c)
    BY DEF ItemDecls
  <2>2. d(i).id = d(j).id /\ d(i).of = <<"item", c, i>> /\ d(j).of = <<"item", c, j>>
    BY <1>2 DEF Decl
  <2>3. d(i) = d(j)
    <3> HIDE DEF d
    <3> QED BY <1>1, <2>1, <2>2 DEF Once
  <2>4. <<"item", c, i>> = <<"item", c, j>>
    BY <2>2, <2>3
  <2> QED BY <2>4
<1> QED BY <1>2 DEF Apart

-----------------------------------------------------------------------------
(* Before the program runs.                                                *)

\* At first nothing is known.
LEMMA InitInvs ==
  ASSUME InitEntry
  PROVE  MetaInv /\ FilesInv /\ RunInv /\ RowsApart
<1>1. /\ schema \in Schemas /\ DOMAIN tables = {} /\ phase = "meta" /\ DOMAIN files = {}
      /\ rows = {} /\ entry = <<>> /\ result = "none"
  BY DEF InitEntry, InitCode, InitMeta
<1>2. IsFiniteSet(DOMAIN tables)
  BY <1>1, FS_EmptySet
<1> QED BY <1>1, <1>2 DEF MetaInv, FilesInv, RunInv, RowsApart

\* A table more is one of TiDB's.
LEMMA AddTableInv ==
  ASSUME MetaInv, AddTable
  PROVE  MetaInv'
<1> DEFINE m == Cardinality(DOMAIN tables) + 1
           info == schema[m]
<1>1. Cardinality(DOMAIN tables) \in Nat
  BY FS_CardinalityType DEF MetaInv
<1>2. schema \in Seq(ToSet(schema))
  BY TableMetaAssumption DEF MetaInv, IsList
<1>3. /\ Cardinality(DOMAIN tables) < Len(schema)
      /\ tables' = Put(tables, info.name, NewTableMeta(info))
      /\ UNCHANGED schema
  BY DEF AddTable
<1>4. m \in DOMAIN schema
  BY <1>1, <1>2, <1>3
<1>5. DOMAIN tables' = DOMAIN tables \union {info.name}
  BY <1>3 DEF Put
<1>6. IsFiniteSet(DOMAIN tables')
  BY <1>5, FS_AddElement DEF MetaInv
<1>7. ASSUME NEW n \in DOMAIN tables'
      PROVE  \E l \in DOMAIN schema : schema[l].name = n /\ tables'[n] = NewTableMeta(schema[l])
  <2>1. CASE n = info.name
    BY <1>3, <1>4, <2>1 DEF Put
  <2>2. CASE n # info.name
    <3>1. n \in DOMAIN tables /\ tables'[n] = tables[n]
      BY <1>3, <1>5, <2>2 DEF Put
    <3> QED BY <3>1 DEF MetaInv, Known
  <2> QED BY <2>1, <2>2
<1>8. schema' \in Schemas
  BY <1>3 DEF MetaInv
<1> QED BY <1>3, <1>6, <1>7, <1>8 DEF MetaInv, Known

\* What is known stays.
LEMMA MetaStays ==
  ASSUME MetaInv, UNCHANGED <<schema, tables>>
  PROVE  MetaInv'
BY DEF MetaInv, Known

\* A table goes by its name.
LEMMA NamedByItself ==
  ASSUME MetaInv, NEW n \in DOMAIN tables
  PROVE  tables[n].name = n
BY DEF MetaInv, Known, NewTableMeta

\* What a file is made of is made again as it was made.
LEMMA PartsStay ==
  ASSUME UNCHANGED <<options, tables>>, NEW t
  PROVE  /\ \A k : Params(t, k)' = Params(t, k)
         /\ \A fk : RefIndex(fk)' = RefIndex(fk)
         /\ Accessors(t)' = Accessors(t)
         /\ \A fk, j : Cast(t, fk, j)' = Cast(t, fk, j)
         /\ \A c : FieldType(t, c)' = FieldType(t, c)
         /\ \A f : Args(t, f)' = Args(t, f)
<1>1. \A ft : AdaptType(ft)' = AdaptType(ft)
  BY DEF AdaptType
<1>2. \A c : GoType(t, c)' = GoType(t, c) /\ FieldType(t, c)' = FieldType(t, c)
  BY <1>1 DEF GoType, FieldType
<1>3. \A k : Params(t, k)' = Params(t, k)
  BY <1>2 DEF Params
<1>4. \A fk : RefIndex(fk)' = RefIndex(fk)
  BY DEF RefIndex
<1>5. Accessors(t)' = Accessors(t)
  BY <1>4 DEF Accessors
<1>6. \A fk, j : Cast(t, fk, j)' = Cast(t, fk, j)
  BY <1>1 DEF Cast, GoType
<1>7. \A f : Args(t, f)' = Args(t, f)
  BY <1>1, <1>2, <1>6 DEF Args, GoType
<1> QED BY <1>2, <1>3, <1>4, <1>5, <1>6, <1>7

\* And so is the file.
LEMMA FileStays ==
  ASSUME UNCHANGED <<options, tables>>, NEW t
  PROVE  File(t)' = File(t)
<1>1. Members(t)' = Members(t)
  BY PartsStay DEF Members
<1>2. Printed(t)' = Printed(t)
  <2>1. StructPkgs(t)' = StructPkgs(t) /\ EnumPkgs(t)' = EnumPkgs(t) /\ SetPkgs(t)' = SetPkgs(t)
    BY PartsStay DEF StructPkgs, EnumPkgs, SetPkgs
  <2>2. AccessorPkgs(t)' = AccessorPkgs(t)
    BY PartsStay DEF AccessorPkgs
  <2>3. IndexPkgs(t)' = IndexPkgs(t)
    BY PartsStay DEF IndexPkgs
  <2> QED BY <2>1, <2>2, <2>3 DEF Printed, MethodPkgs
<1> QED BY PartsStay, <1>1, <1>2 DEF File

\* Files are as they were made while nothing is added to tables.
LEMMA FilesStay ==
  ASSUME FilesInv, UNCHANGED <<options, tables, files>>, phase' \in {"render", "rendered", "run", "stopped"},
         phase' \in {"rendered", "run"} => DOMAIN files = DOMAIN tables
  PROVE  FilesInv'
<1>1. ASSUME NEW n \in DOMAIN files'
      PROVE  files'[n] = File(tables[n])'
  <2>1. PICK t : t = tables[n]
    OBVIOUS
  <2>2. files[n] = File(t)
    BY <2>1 DEF FilesInv
  <2>3. File(tables[n])' = File(t)'
    BY <2>1
  <2> QED BY <2>2, <2>3, FileStays
<1> QED BY <1>1 DEF FilesInv

\* A file more is one of a table that is known.
LEMMA RenderTableFiles ==
  ASSUME MetaInv, FilesInv, NEW n \in DOMAIN tables, RenderTable(tables[n])
  PROVE  FilesInv'
<1>1. /\ files' = Put(files, n, File(tables[n])) /\ phase = "render"
      /\ UNCHANGED <<options, phase, schema, tables>>
  BY NamedByItself DEF RenderTable, CanRender
<1>2. ASSUME NEW l \in DOMAIN files'
      PROVE  l \in DOMAIN tables /\ files'[l] = File(tables[l])'
  <2>1. PICK t : t = tables[l]
    OBVIOUS
  <2>2. l \in DOMAIN tables /\ files'[l] = File(t)
    BY <1>1, <2>1 DEF Put, FilesInv
  <2>3. File(tables[l])' = File(t)'
    BY <1>1, <2>1
  <2> QED BY <1>1, <2>2, <2>3, FileStays
<1> QED BY <1>1, <1>2 DEF FilesInv

\* Tables are added before there are files.
LEMMA AddTableFiles ==
  ASSUME FilesInv, AddTable, UNCHANGED files
  PROVE  FilesInv'
<1>1. phase = "meta" /\ phase' = "meta" /\ DOMAIN files = {} /\ files' = files
  BY DEF AddTable, FilesInv
<1> QED BY <1>1 DEF FilesInv

\* Reading the tables and rendering them goes on to what a program needs.
LEMMA CodeInvs ==
  ASSUME MetaInv, FilesInv, RunInv, NextCode, UNCHANGED entryVars
  PROVE  MetaInv' /\ FilesInv' /\ RunInv' /\ phase # "run" /\ phase' # "run"
<1>1. UNCHANGED <<table, rows, entry, result>>
  BY DEF entryVars
<1>2. MetaInv' /\ FilesInv' /\ phase # "run" /\ phase' # "run"
  <2>1. CASE AddTable /\ UNCHANGED files
    BY <2>1, AddTableInv, AddTableFiles DEF AddTable
  <2>2. CASE PanicMultiple /\ UNCHANGED files
    BY <2>2, MetaStays, FilesStay DEF PanicMultiple
  <2>3. CASE NewDBMeta /\ UNCHANGED files
    BY <2>3, MetaStays, FilesStay DEF NewDBMeta
  <2>4. CASE EndRender
    BY <2>4, MetaStays, FilesStay DEF EndRender
  <2>5. ASSUME NEW n \in DOMAIN tables, RenderTable(tables[n])
        PROVE  MetaInv' /\ FilesInv' /\ phase # "run" /\ phase' # "run"
    BY <2>5, MetaStays, RenderTableFiles DEF RenderTable, CanRender
  <2>6. ASSUME NEW n \in DOMAIN tables, FailTable(tables[n]) \/ FailFormat(tables[n])
        PROVE  MetaInv' /\ FilesInv' /\ phase # "run" /\ phase' # "run"
    BY <2>6, MetaStays, FilesStay DEF FailTable, FailFormat, CanRender
  <2> QED BY <2>1, <2>2, <2>3, <2>4, <2>5, <2>6 DEF NextCode, NextMeta
<1> QED BY <1>1, <1>2 DEF RunInv

\* Code that compiles is run on a table that it can be run on.
LEMMA StartInvs ==
  ASSUME MetaInv, FilesInv, RunInv, NEW n \in DOMAIN tables, Start(n)
  PROVE  /\ MetaInv' /\ FilesInv' /\ RunInv'
         /\ rows = {} /\ rows' = {} /\ entry' = <<>> /\ result' = "none"
<1>1. /\ UNCHANGED <<options, schema, tables, files, rows, entry, result>>
      /\ table' = n /\ phase = "rendered" /\ phase' = "run" /\ Compiles
      /\ \A c \in ToSet(tables[n].columns) : c.type.tp # "bit" /\ (c.autoInc => IsInt(c.type))
  BY DEF Start
<1>2. MetaInv' /\ FilesInv'
  <2>1. DOMAIN files = DOMAIN tables
    BY <1>1 DEF FilesInv
  <2> QED BY <1>1, <2>1, MetaStays, FilesStay
<1>3. rows = {} /\ entry = <<>> /\ result = "none"
  BY <1>1 DEF RunInv
<1>4. n \in DOMAIN files /\ files[n] = File(tables[n])
  BY <1>1 DEF FilesInv
<1>5. PICK t : t = tables[n]
  OBVIOUS
<1>6. Once(Decls(t))
  <2>1. Once(files[n].decls)
    BY <1>1, <1>4 DEF Compiles, DeclaredOnceIn
  <2>2. File(t).decls = Decls(t)
    BY DEF File
  <2> QED BY <1>4, <1>5, <2>1, <2>2
<1>7. Runnable(t)
  BY <1>1, <1>5, <1>6, ItemsOnce DEF Runnable, ToSet
<1>8. T' = t
  BY <1>1, <1>5 DEF T
<1>9. Runnable(T)'
  BY <1>7, <1>8 DEF Runnable, Special, Elems, Apart, IsInt
<1> QED BY <1>1, <1>2, <1>3, <1>9 DEF RunInv

-----------------------------------------------------------------------------
(* Steps.                                                                  *)

\* The table the program runs on, and what is known of its rows and its entry.
GoodTable == \A c \in Cols : GoodColumn(c) /\ (c \in Special(T) => Apart(Elems(T, c)))

\* The table a program runs on is one that it can be run on.
LEMMA TableGood ==
  ASSUME MetaInv, RunInv, phase = "run"
  PROVE  GoodTable
<1>1. table \in DOMAIN tables /\ Runnable(T)
  BY DEF RunInv
<1>2. \A c \in Special(T) : c \in Cols /\ Apart(Elems(T, c))
  BY <1>1 DEF Runnable, Special, Cols
<1>3. \A c \in Cols : Type(c).tp # "bit"
  BY <1>1 DEF Runnable, Cols, Type
<1> QED BY <1>1, <1>2, <1>3, ItemsGood DEF GoodTable, GoodColumn

\* What a field's value may come back as, from what its column has.
ReadsAs(c, v, e) ==
  \/ Readable(c, v) /\ FromDb(c, v) = e
  \/ c \in Enums(T) /\ e > Len(Elems(T, c)) /\ FromDb(c, v) = 0
  \/ c \in Sets(T) /\ e = {}
  \/ c = T.autoIncColumn /\ v # NULL /\ v > IntRange(FALSE, 64).max /\ e = v - 2 * Half[64]

\* A number that goes into a bool.
IntoBool == Type(T.autoIncColumn).tp = "tiny" /\ Type(T.autoIncColumn).flen = 1

\* What the last call came to is so for the rows and the entry as they are.
ResultInv ==
  /\ result = "saved" => \E r \in rows : \A c \in Cols : ReadsAs(c, r[c], entry[c])
  /\ result = "unreadable" => \E r \in rows : \E c \in Cols : Cause(c, r[c])
  /\ result = "panic" => IntoBool

\* The table stays as it is while the program runs.
LEMMA TwinsStay ==
  ASSUME UNCHANGED <<tables, table>>
  PROVE  \A r, q : Twins(r, q)' <=> Twins(r, q)
BY DEF Twins, UniqueIndices, T

\* And with it what its columns and fields have.
LEMMA ValuesStay ==
  ASSUME UNCHANGED <<options, tables, table>>
  PROVE  /\ Cols' = Cols /\ T' = T
         /\ \A c, v : HasColumn(c, v)' <=> HasColumn(c, v)
         /\ \A c, v : HasField(c, v)' <=> HasField(c, v)
         /\ \A c, v : Readable(c, v)' <=> Readable(c, v)
         /\ \A c, v : FromDb(c, v)' = FromDb(c, v)
         /\ \A c, v : Cause(c, v)' <=> Cause(c, v)
         /\ \A c, v, e : ReadsAs(c, v, e)' <=> ReadsAs(c, v, e)
         /\ IntoBool' <=> IntoBool
<1>1. T' = T /\ Cols' = Cols /\ \A c : Type(c)' = Type(c)
  BY DEF T, Cols, Type
<1>2. \A ft : AdaptType(ft)' = AdaptType(ft)
  BY DEF AdaptType
<1>3. \A c : GoType(T, c)' = GoType(T, c)
  BY <1>1, <1>2 DEF GoType
<1>4. \A c : DbValues(c)' = DbValues(c)
  <2>1. \A ft : ColumnValues(ft)' = ColumnValues(ft)
    BY DEF ColumnValues
  <2> QED BY <1>1, <2>1 DEF DbValues, Enums, Sets, Special, Elems
<1>5. \A c : FieldValues(c)' = FieldValues(c)
  BY <1>1, <1>3 DEF FieldValues, Enums, Sets, Special, Elems, GoValues, Holds, In
<1>6. \A ft, v : FieldHolds(ft, v)' <=> FieldHolds(ft, v)
  BY <1>2 DEF FieldHolds, Holds, IsInt
<1>7. \A ft, v : ColumnHolds(ft, v)' <=> ColumnHolds(ft, v)
  BY DEF ColumnHolds, IsInt
<1>8. \A c, v : HasColumn(c, v)' <=> HasColumn(c, v)
  BY <1>1, <1>4, <1>7 DEF HasColumn, Special
<1>9. \A c, v : HasField(c, v)' <=> HasField(c, v)
  BY <1>1, <1>5, <1>6 DEF HasField, Special
<1>10. \A c, v : Readable(c, v)' <=> Readable(c, v)
  BY <1>1, <1>3 DEF Readable, Enums, Sets, Special, SetReadable, Elems, Holds
<1>11. \A c, v : FromDb(c, v)' = FromDb(c, v)
  BY <1>1 DEF FromDb, Enums, Sets, Special, EnumScan, SetScan, Elems
<1>12. \A c, v : Cause(c, v)' <=> Cause(c, v)
  BY <1>1 DEF Cause, Sets, Special, Enums, Elems
<1>13. \A c, v, e : ReadsAs(c, v, e)' <=> ReadsAs(c, v, e)
  BY <1>1, <1>10, <1>11 DEF ReadsAs, Sets, Special, Enums, Elems, IntRange
<1>14. IntoBool' <=> IntoBool
  BY <1>1 DEF IntoBool
<1> QED BY <1>1, <1>8, <1>9, <1>10, <1>11, <1>12, <1>13, <1>14

\* What is made of an entry is a row, if it is taken.
LEMMA EntryRow ==
  ASSUME GoodTable, IsEntry(entry), NEW others, Takes(AsRow(entry), others)
  PROVE  IsRow(AsRow(entry))
<1> SUFFICES ASSUME NEW c \in Cols PROVE HasColumn(c, AsRow(entry)[c])
  BY DEF IsRow
<1>1. AsRow(entry)[c] = ToDb(c, entry[c])
  BY DEF AsRow
<1>2. Accepts(c, ToDb(c, entry[c]))
  BY <1>1 DEF Takes
<1> QED BY <1>1, <1>2, EntryColumn DEF GoodTable, IsEntry

\* With a number of the database in its place, if the entry brings none.
LEMMA NumberedRow ==
  ASSUME MetaInv, RunInv, phase = "run", GoodTable, IsEntry(entry),
         NEW r \in Numbered(AsRow(entry)), NEW others, Takes(r, others)
  PROVE  /\ IsRow(r)
         /\ \A c \in Cols : c # T.autoIncColumn => r[c] = ToDb(c, entry[c])
         /\ T.autoIncColumn # 0 =>
              /\ r[T.autoIncColumn] # NULL /\ r[T.autoIncColumn] \in Int
              /\ In(r[T.autoIncColumn], ColumnRange(Type(T.autoIncColumn)))
<1>1. PICK auto : auto = T.autoIncColumn
  OBVIOUS
<1>2. PICK row : row = AsRow(entry)
  OBVIOUS
<1>3. DOMAIN row = Cols /\ \A c \in Cols : row[c] = ToDb(c, entry[c])
  BY <1>2 DEF AsRow
<1>4. auto # 0 => auto \in Cols /\ IsInt(Type(auto)) /\ auto \notin Special(T)
  BY <1>1, AutoIncIs
<1>5. CASE auto = 0 \/ row[auto] \notin {NULL, 0}
  <2>1. r = AsRow(entry)
    BY <1>1, <1>2, <1>5 DEF Numbered
  <2>2. IsRow(r)
    BY <2>1, EntryRow
  <2>3. ASSUME auto # 0
        PROVE  r[auto] # NULL /\ r[auto] \in Int /\ In(r[auto], ColumnRange(Type(auto)))
    <3>1. HasColumn(auto, r[auto]) /\ r[auto] # NULL
      BY <1>2, <1>4, <1>5, <2>1, <2>2, <2>3 DEF IsRow
    <3> QED BY <1>4, <2>3, <3>1 DEF HasColumn, ColumnHolds
  <2> QED BY <1>1, <1>2, <1>3, <2>1, <2>2, <2>3
<1>6. CASE auto # 0 /\ row[auto] \in {NULL, 0}
  <2>1. PICK n \in DbValues(auto) : n # NULL /\ r = [d \in Cols |-> IF d = auto THEN n ELSE row[d]]
    BY <1>1, <1>2, <1>6 DEF Numbered
  <2>2. HasColumn(auto, n)
    BY DbValuesHave
  <2>3. n \in Int /\ In(n, ColumnRange(Type(auto)))
    BY <1>4, <1>6, <2>1, <2>2 DEF HasColumn, ColumnHolds
  <2>4. ASSUME NEW c \in Cols, c # auto
        PROVE  r[c] = ToDb(c, entry[c]) /\ HasColumn(c, r[c])
    <3>1. r[c] = ToDb(c, entry[c])
      BY <1>3, <2>1, <2>4
    <3>2. Accepts(c, r[c])
      BY DEF Takes
    <3> QED BY <3>1, <3>2, EntryColumn DEF GoodTable, IsEntry
  <2>5. r[auto] = n
    BY <1>4, <1>6, <2>1
  <2>6. IsRow(r)
    BY <2>2, <2>4, <2>5 DEF IsRow
  <2> QED BY <1>1, <2>1, <2>3, <2>4, <2>5, <2>6
<1> QED BY <1>1, <1>5, <1>6

\* Its number goes into the entry as it is, or is one too large for an int64.
LEMMA SavedNumber ==
  ASSUME Coerces, T.autoIncColumn # 0, IsInt(Type(T.autoIncColumn)), T.autoIncColumn \notin Special(T),
         NEW n \in Int, n # NULL, In(n, ColumnRange(Type(T.autoIncColumn)))
  PROVE  /\ HasField(T.autoIncColumn, Saved(n))
         /\ ReadsAs(T.autoIncColumn, n, Saved(n))
<1>1. PICK auto : auto = T.autoIncColumn
  OBVIOUS
<1>2. PICK ft : ft = Type(auto)
  OBVIOUS
<1>3. GoType(T, auto) = AdaptType(ft)
  BY <1>2 DEF GoType, Type
<1>4. AdaptType(ft) \in Ints \union {"NullInt64"} /\ IsInt(ft) /\ In(n, ColumnRange(ft))
  BY <1>1, <1>2, <1>3 DEF Coerces
<1>5. \/ In(n, GoRange[AdaptType(ft)])
      \/ AdaptType(ft) = "NullInt64" /\ TooLarge(n)
  <2>1. ~(ft.tp = "tiny" /\ ft.flen = 1)
    BY <1>4, AdaptInt DEF Ints
  <2> QED BY <1>4, <2>1, NumbersFit
<1>6. AdaptType(ft) \in DOMAIN GoRange /\ NULL \notin Int
  BY <1>4, IntInRange, TypeAdapterAssumption
<1>7. Half[64] \in Nat
  BY Halves
<1>8. CASE In(n, GoRange[AdaptType(ft)])
  <2>1. Saved(n) = n
    <3>1. CASE AdaptType(ft) = "NullInt64"
      <4>1. In(n, IntRange(FALSE, 64))
        BY <1>8, <3>1, GoRangeIs
      <4> QED BY <1>1, <1>3, <1>7, <4>1 DEF Saved, In, IntRange
    <3>2. CASE AdaptType(ft) # "NullInt64"
      BY <1>1, <1>3, <3>2 DEF Saved
    <3> QED BY <3>1, <3>2
  <2>2. Holds(AdaptType(ft), n)
    BY <1>8 DEF Holds
  <2> QED BY <1>1, <1>2, <2>1, <2>2, PlainValues DEF HasField, FieldHolds, ReadsAs
<1>9. CASE AdaptType(ft) = "NullInt64" /\ TooLarge(n)
  <2>1. Saved(n) = n - 2 * Half[64]
    BY <1>1, <1>3, <1>9 DEF Saved, TooLarge
  <2>2. n <= 2 * Half[64] - 1
    <3>1. ft.tp \in IntTypes
      BY <1>4, AdaptInt
    <3>2. WidthOf[ft.tp] \in {8, 12, 16, 24, 32, 64}
      BY <3>1, Widths DEF IntTypes
    <3>3. n <= 2 * Half[WidthOf[ft.tp]] - 1
      BY <1>4, <3>2, Halves DEF In, ColumnRange, IntRange
    <3>4. Half[WidthOf[ft.tp]] <= Half[64]
      BY <3>2, Halves
    <3> QED BY <1>7, <3>2, <3>3, <3>4, Halves
  <2>3. In(Saved(n), IntRange(FALSE, 64)) /\ Saved(n) \in Int
    BY <1>7, <1>9, <2>1, <2>2 DEF In, TooLarge, IntRange
  <2>4. Holds(AdaptType(ft), Saved(n))
    BY <1>6, <1>9, <2>3, GoRangeIs DEF Holds
  <2> QED BY <1>1, <1>2, <1>9, <2>1, <2>3, <2>4 DEF HasField, FieldHolds, ReadsAs, TooLarge
<1> QED BY <1>5, <1>8, <1>9

-----------------------------------------------------------------------------
(* The steps of a program.                                                 *)

\* Rows stay rows, and entries entries.
LEMMA RowsStay ==
  ASSUME UNCHANGED <<options, tables, table>>
  PROVE  /\ \A r : IsRow(r)' <=> IsRow(r)
         /\ \A e : IsEntry(e)' <=> IsEntry(e)
BY ValuesStay DEF IsRow, IsEntry

\* Rows and an entry like these leave the data as they are to be.
LEMMA DataBy ==
  ASSUME UNCHANGED <<options, tables, table>>,
         \A r \in rows' : IsRow(r), NEW e, entry' = e, e # <<>> => IsEntry(e)
  PROVE  DataInv'
<1>1. ASSUME NEW r \in rows'
      PROVE  IsRow(r)'
  BY RowsStay
<1>2. e # <<>> => IsEntry(e)'
  BY RowsStay
<1>3. IsEntry(entry)' <=> IsEntry(e)'
  OBVIOUS
<1> QED BY <1>1, <1>2, <1>3 DEF DataInv

\* A result with its reason in the rows and the entry.
LEMMA ResultBy ==
  ASSUME UNCHANGED <<options, tables, table>>, NEW e, entry' = e,
         result' = "saved" => \E r \in rows' : \A c \in Cols : ReadsAs(c, r[c], e[c]),
         result' = "unreadable" => \E r \in rows' : \E c \in Cols : Cause(c, r[c]),
         result' = "panic" => IntoBool
  PROVE  ResultInv'
BY ValuesStay DEF ResultInv

\* Another client's row has what its columns have.
LEMMA ClientInsertData ==
  ASSUME MetaInv, RunInv, phase = "run", DataInv, ClientInsert
  PROVE  DataInv' /\ ResultInv'
<1>1. UNCHANGED <<options, tables, table, entry>> /\ result' = "none"
  BY DEF ClientInsert
<1>2. PICK r \in Tuples([c \in Cols |-> DbValues(c)]) : rows' = rows \union {r}
  BY DEF ClientInsert
<1>3. IsRow(r)
  <2> DEFINE S == [c \in Cols |-> DbValues(c)]
  <2>1. Len(T.columns) \in Nat /\ Cols = 1 .. Len(T.columns)
    BY ColsNumbered DEF RunInv
  <2>2. S \in Seq({S[c] : c \in Cols}) /\ Len(S) = Len(T.columns)
    BY <2>1
  <2>3. \A c \in Cols : r[c] \in S[c]
    <3>1. r \in Tuples(S)
      OBVIOUS
    <3> HIDE DEF S
    <3> QED BY <2>1, <2>2, <3>1, TuplesDef
  <2> QED BY <2>3, DbValuesHave DEF IsRow
<1>4. \A q \in rows' : IsRow(q)
  BY <1>2, <1>3 DEF DataInv
<1>5. PICK e : e = entry
  OBVIOUS
<1>6. e # <<>> => IsEntry(e)
  BY <1>5 DEF DataInv
<1> QED BY <1>1, <1>4, <1>5, <1>6, DataBy, ResultBy

\* The program's entry has what its fields have.
LEMMA MakeData ==
  ASSUME MetaInv, RunInv, phase = "run", DataInv, Make
  PROVE  DataInv' /\ ResultInv'
<1>1. UNCHANGED <<options, tables, table, rows>> /\ result' = "none"
  BY DEF Make
<1>2. PICK e \in Tuples([c \in Cols |-> FieldValues(c)]) : entry' = e
  BY DEF Make
<1>3. IsEntry(e)
  <2> DEFINE S == [c \in Cols |-> FieldValues(c)]
  <2>1. Len(T.columns) \in Nat /\ Cols = 1 .. Len(T.columns)
    BY ColsNumbered DEF RunInv
  <2>2. S \in Seq({S[c] : c \in Cols}) /\ Len(S) = Len(T.columns)
    BY <2>1
  <2>3. DOMAIN e = Cols /\ \A c \in Cols : e[c] \in S[c]
    <3>1. e \in Tuples(S)
      OBVIOUS
    <3> HIDE DEF S
    <3> QED BY <2>1, <2>2, <3>1, TuplesDef
  <2> QED BY <2>3, FieldValuesHave, TableGood DEF IsEntry, GoodTable
<1>4. \A q \in rows' : IsRow(q)
  BY <1>1 DEF DataInv
<1> QED BY <1>1, <1>2, <1>3, <1>4, DataBy, ResultBy

\* Insert: the row is the entry's, with the number that the entry has after it.
LEMMA InsertData ==
  ASSUME MetaInv, RunInv, phase = "run", DataInv, Insert
  PROVE  DataInv' /\ ResultInv'
<1>1. UNCHANGED <<options, tables, table>> /\ entry # <<>> /\ result' = IF Coerces THEN "saved" ELSE "panic"
  BY DEF Insert, Came, CanCall
<1>2. PICK r \in Numbered(AsRow(entry)) :
        /\ Takes(r, rows) /\ rows' = rows \union {r}
        /\ entry' = IF T.autoIncColumn = 0 \/ ~Coerces THEN entry
                    ELSE [entry EXCEPT ![T.autoIncColumn] = Saved(r[T.autoIncColumn])]
  BY DEF Insert
<1>3. GoodTable /\ IsEntry(entry)
  BY <1>1, TableGood DEF DataInv
<1>4. PICK auto : auto = T.autoIncColumn
  OBVIOUS
<1>5. /\ IsRow(r)
      /\ \A c \in Cols : c # auto => r[c] = ToDb(c, entry[c])
      /\ auto # 0 => r[auto] # NULL /\ r[auto] \in Int /\ In(r[auto], ColumnRange(Type(auto)))
  BY <1>2, <1>3, <1>4, NumberedRow
<1>6. auto # 0 => auto \in Cols /\ IsInt(Type(auto)) /\ auto \notin Special(T)
  BY <1>4, AutoIncIs
<1>7. PICK e : e = entry'
  OBVIOUS
<1>8. \A c \in Cols : c # auto => e[c] = entry[c]
  BY <1>2, <1>3, <1>4, <1>7 DEF IsEntry
<1>9. auto # 0 /\ Coerces => /\ e[auto] = Saved(r[auto]) /\ HasField(auto, e[auto])
                             /\ ReadsAs(auto, r[auto], e[auto])
  <2> SUFFICES ASSUME auto # 0, Coerces
               PROVE  /\ e[auto] = Saved(r[auto]) /\ HasField(auto, e[auto])
                      /\ ReadsAs(auto, r[auto], e[auto])
    OBVIOUS
  <2>1. e[auto] = Saved(r[auto])
    BY <1>2, <1>3, <1>4, <1>6, <1>7 DEF IsEntry
  <2> QED BY <1>4, <1>5, <1>6, <2>1, SavedNumber
<1>10. IsEntry(e)
  <2>1. CASE auto = 0 \/ ~Coerces
    BY <1>2, <1>3, <1>4, <1>7, <2>1
  <2>2. CASE auto # 0 /\ Coerces
    <3>1. DOMAIN e = Cols
      BY <1>2, <1>3, <1>4, <1>7, <2>2 DEF IsEntry
    <3>2. ASSUME NEW c \in Cols
          PROVE  HasField(c, e[c])
      BY <1>3, <1>8, <1>9, <2>2 DEF IsEntry
    <3> QED BY <3>1, <3>2 DEF IsEntry
  <2> QED BY <2>1, <2>2
<1>11. \A q \in rows' : IsRow(q)
  BY <1>2, <1>5 DEF DataInv
<1>12. ASSUME Coerces, NEW c \in Cols
       PROVE  ReadsAs(c, r[c], e[c])
  <2>1. CASE c = auto
    <3>1. auto # 0
      <4>1. Cols = 1 .. Len(T.columns) /\ Len(T.columns) \in Nat
        BY ColsNumbered DEF RunInv
      <4> QED BY <2>1, <4>1
    <3> QED BY <1>9, <1>12, <2>1, <3>1
  <2>2. CASE c # auto
    <3>1. r[c] = ToDb(c, entry[c]) /\ e[c] = entry[c]
      BY <1>5, <1>8, <2>2
    <3>2. HasField(c, entry[c]) /\ GoodColumn(c) /\ (c \in Special(T) => Apart(Elems(T, c)))
      BY <1>3 DEF IsEntry, GoodTable
    <3> QED BY <3>1, <3>2, ComesBack DEF ReadsAs, Changed
  <2> QED BY <2>1, <2>2
<1>13. ~Coerces => IntoBool
  <2> SUFFICES ASSUME ~Coerces PROVE IntoBool
    OBVIOUS
  <2>1. auto # 0 /\ AdaptType(Type(auto)) \notin Ints \union {"NullInt64"}
    BY <1>4 DEF Coerces, GoType, Type
  <2>2. PICK ft : ft = Type(auto)
    OBVIOUS
  <2>3. AdaptType(ft) \in {"bool", "NullBool"} /\ IsInt(ft)
    BY <1>6, <2>1, <2>2, IntInRange, GoRangeIs
  <2>4. ft.tp # "year" /\ ~(ft.tp = "tiny" /\ ft.flen = 1) => AdaptType(ft) \in Ints \union {"NullInt64"}
    <3>1. AdaptType(ft) \notin Ints \union {"NullInt64"}
      BY <2>1, <2>2
    <3>2. ft.tp \in IntTypes /\ (ft.tp # "year" /\ ~(ft.tp = "tiny" /\ ft.flen = 1) =>
             AdaptType(ft) \in {"NullInt64", Sized(ft.unsigned, WidthOf[ft.tp])})
      BY <2>3, AdaptInt
    <3>3. Sized(ft.unsigned, WidthOf[ft.tp]) \in Ints
      BY <3>2, Widths DEF Sized, Ints, IntTypes
    <3> QED BY <3>2, <3>3
  <2>5. ft.tp # "year"
    BY <2>3, AdaptInt
  <2> QED BY <1>4, <2>1, <2>2, <2>4, <2>5 DEF IntoBool
<1>14. /\ result' = "saved" => \E q \in rows' : \A c \in Cols : ReadsAs(c, q[c], e[c])
       /\ result' = "unreadable" => \E q \in rows' : \E c \in Cols : Cause(c, q[c])
       /\ result' = "panic" => IntoBool
  BY <1>1, <1>2, <1>12, <1>13
<1> QED BY <1>1, <1>7, <1>10, <1>11, <1>14, DataBy, ResultBy

\* Rows may go, and what stays is as it was.
LEMMA RefusedData ==
  ASSUME DataInv, UNCHANGED <<options, tables, table, entry>>, rows' \subseteq rows, result' \in {"none", "error"}
  PROVE  DataInv' /\ ResultInv'
<1>1. \A q \in rows' : IsRow(q)
  BY DEF DataInv
<1>2. PICK e : e = entry
  OBVIOUS
<1>3. e # <<>> => IsEntry(e)
  BY <1>2 DEF DataInv
<1>4. entry' = e /\ result' \notin {"saved", "unreadable", "panic"}
  BY <1>2
<1> QED BY <1>1, <1>3, <1>4, DataBy, ResultBy

\* Update: the row in the place of the one that was hit is the entry's.
LEMMA UpdateData ==
  ASSUME MetaInv, RunInv, phase = "run", DataInv, Update
  PROVE  DataInv' /\ ResultInv'
<1>1. UNCHANGED <<options, tables, table, entry>> /\ entry # <<>>
  BY DEF Update, Came, CanCall
<1>2. CASE Hit(entry) = {}
  <2>1. rows' = rows /\ result' = "none"
    BY <1>2 DEF Update, Came
  <2> QED BY <1>1, <2>1, RefusedData
<1>3. CASE Hit(entry) # {}
  <2>1. /\ Takes(AsRow(entry), rows \ Hit(entry)) /\ rows' = (rows \ Hit(entry)) \union {AsRow(entry)}
        /\ result' = "saved"
    BY <1>3 DEF Update, Came
  <2>2. GoodTable /\ IsEntry(entry)
    BY <1>1, TableGood DEF DataInv
  <2>3. PICK r : r = AsRow(entry)
    OBVIOUS
  <2>4. IsRow(r)
    BY <2>1, <2>2, <2>3, EntryRow
  <2>5. \A q \in rows' : IsRow(q)
    BY <2>1, <2>3, <2>4 DEF DataInv
  <2>6. PICK e : e = entry
    OBVIOUS
  <2>7. ASSUME NEW c \in Cols
        PROVE  ReadsAs(c, r[c], e[c])
    <3>1. r[c] = ToDb(c, e[c])
      BY <2>3, <2>6 DEF AsRow
    <3>2. HasField(c, e[c]) /\ GoodColumn(c) /\ (c \in Special(T) => Apart(Elems(T, c)))
      BY <2>2, <2>6 DEF IsEntry, GoodTable
    <3> QED BY <3>1, <3>2, ComesBack DEF ReadsAs, Changed
  <2>8. r \in rows'
    BY <2>1, <2>3
  <2>9. e # <<>> => IsEntry(e)
    BY <2>2, <2>6
  <2>10. /\ result' = "saved" => \E q \in rows' : \A c \in Cols : ReadsAs(c, q[c], e[c])
         /\ result' \notin {"unreadable", "panic"}
    BY <2>1, <2>7, <2>8
  <2>11. entry' = e
    BY <1>1, <2>6
  <2> QED BY <1>1, <2>5, <2>9, <2>10, <2>11, DataBy, ResultBy
<1> QED BY <1>2, <1>3

\* Find: what is scanned of a row is an entry.
LEMMA FindData ==
  ASSUME MetaInv, RunInv, phase = "run", DataInv, NEW k, NEW r, Find(k, r)
  PROVE  DataInv' /\ ResultInv'
<1>1. /\ UNCHANGED <<options, tables, table, rows>> /\ r \in rows /\ CanScan(r)
      /\ entry' = AsEntry(r) /\ result' = "found"
  BY DEF Find, Came
<1>2. PICK e : e = AsEntry(r)
  OBVIOUS
<1>3. DOMAIN e = Cols /\ \A c \in Cols : e[c] = FromDb(c, r[c])
  BY <1>2 DEF AsEntry
<1>4. ASSUME NEW c \in Cols
      PROVE  HasField(c, e[c])
  <2>1. HasColumn(c, r[c]) /\ Readable(c, r[c]) /\ GoodColumn(c)
    BY <1>1, TableGood DEF DataInv, IsRow, CanScan, GoodTable
  <2> QED BY <1>3, <2>1, ColumnEntry
<1>5. IsEntry(e)
  BY <1>3, <1>4 DEF IsEntry
<1>6. \A q \in rows' : IsRow(q)
  BY <1>1 DEF DataInv
<1> QED BY <1>1, <1>2, <1>5, <1>6, DataBy, ResultBy

\* What cannot be scanned has its cause in the row.
LEMMA FindFailsData ==
  ASSUME MetaInv, RunInv, phase = "run", DataInv, NEW k, NEW r, FindFails(k, r)
  PROVE  DataInv' /\ ResultInv'
<1>1. /\ UNCHANGED <<options, tables, table, rows, entry>> /\ r \in rows /\ ~CanScan(r)
      /\ result' = "unreadable"
  BY DEF FindFails, Came
<1>2. PICK c \in Cols : ~Readable(c, r[c])
  BY <1>1 DEF CanScan
<1>3. HasColumn(c, r[c]) /\ GoodColumn(c)
  BY <1>1, TableGood DEF DataInv, IsRow, GoodTable
<1>4. Cause(c, r[c])
  BY <1>2, <1>3, UnreadableCaused
<1>5. \A q \in rows' : IsRow(q)
  BY <1>1 DEF DataInv
<1>6. PICK e : e = entry
  OBVIOUS
<1>7. (e # <<>> => IsEntry(e)) /\ entry' = e
  BY <1>1, <1>6 DEF DataInv
<1>8. /\ \E q \in rows' : \E d \in Cols : Cause(d, q[d])
      /\ result' \notin {"saved", "panic"}
  BY <1>1, <1>4
<1> QED BY <1>1, <1>5, <1>7, <1>8, DataBy, ResultBy

-----------------------------------------------------------------------------
(* The invariant is inductive.                                             *)

IInv == MetaInv /\ FilesInv /\ RunInv /\ RowsApart /\ DataInv /\ ResultInv

\* Rows that were apart, less any, with one more that has no twin, are apart.
LEMMA RowMore ==
  ASSUME RowsApart, UNCHANGED <<tables, table>>, NEW kept \in SUBSET rows, NEW r,
         ~\E q \in kept : Twins(r, q), rows' \subseteq kept \union {r}
  PROVE  RowsApart'
<1> SUFFICES ASSUME NEW p \in rows', NEW q \in rows', Twins(p, q)
             PROVE  p = q
  BY TwinsStay DEF RowsApart
<1>1. Twins(q, p)
  BY DEF Twins
<1>2. CASE p \in kept /\ q \in kept
  BY <1>2 DEF RowsApart
<1>3. CASE p = r \/ q = r
  BY <1>1, <1>3
<1> QED BY <1>2, <1>3

\* Whatever the program and other clients do, a row that comes to the others has no
\* twin among those that stay.
LEMMA StepApart ==
  ASSUME RowsApart, UNCHANGED <<tables, table>>, NextRun
  PROVE  RowsApart'
<1>1. CASE ClientInsert \/ Insert
  <2>1. PICK r : rows' = rows \union {r} /\ Takes(r, rows)
    BY <1>1 DEF ClientInsert, Insert
  <2> QED BY <2>1, RowMore DEF Takes
<1>2. CASE rows' \subseteq rows
  BY <1>2, TwinsStay DEF RowsApart
<1>3. CASE Update
  <2> DEFINE kept == rows \ Hit(entry)
  <2>1. CASE Hit(entry) = {}
    <3>1. rows' = rows
      BY <1>3, <2>1 DEF Update
    <3> QED BY <1>2, <3>1
  <2>2. CASE Hit(entry) # {}
    <3>1. rows' = kept \union {AsRow(entry)} /\ Takes(AsRow(entry), kept)
      BY <1>3, <2>2 DEF Update
    <3> QED BY <3>1, RowMore DEF Takes
  <2> QED BY <2>1, <2>2
<1>4. CASE Make \/ InsertRefused \/ UpdateRefused \/ Delete
  BY <1>2, <1>4 DEF Make, InsertRefused, UpdateRefused, Delete
<1>5. ASSUME NEW k, NEW r, Find(k, r) \/ FindFails(k, r)
      PROVE  RowsApart'
  BY <1>2, <1>5 DEF Find, FindFails
<1> QED BY <1>1, <1>3, <1>4, <1>5 DEF NextRun

\* All that a program and other clients do.
LEMMA StepData ==
  ASSUME MetaInv, RunInv, phase = "run", DataInv, NextRun
  PROVE  DataInv' /\ ResultInv'
<1>1. CASE ClientInsert
  BY <1>1, ClientInsertData
<1>2. CASE Make
  BY <1>2, MakeData
<1>3. CASE Insert
  BY <1>3, InsertData
<1>4. CASE InsertRefused \/ UpdateRefused \/ Delete
  <2>1. UNCHANGED <<options, tables, table, entry>> /\ rows' \subseteq rows /\ result' \in {"none", "error"}
    BY <1>4 DEF InsertRefused, UpdateRefused, Delete, Came
  <2> QED BY <2>1, RefusedData
<1>5. CASE Update
  BY <1>5, UpdateData
<1>6. ASSUME NEW k, NEW r, Find(k, r) \/ FindFails(k, r)
      PROVE  DataInv' /\ ResultInv'
  BY <1>6, FindData, FindFailsData
<1> QED BY <1>1, <1>2, <1>3, <1>4, <1>5, <1>6 DEF NextRun

\* Before it runs there is nothing to be said of rows, entry and result.
LEMMA NothingYet ==
  ASSUME rows = {}, entry = <<>>, result = "none"
  PROVE  RowsApart /\ DataInv /\ ResultInv
BY DEF RowsApart, DataInv, ResultInv

\* Nothing changes.
LEMMA Stutters ==
  ASSUME IInv, UNCHANGED vars
  PROVE  IInv'
<1>1. UNCHANGED <<options, phase, schema, tables, files, table, rows, entry, result>>
  BY DEF vars, entryVars
<1>2. MetaInv' /\ FilesInv'
  <2>1. MetaInv'
    BY <1>1, MetaStays DEF IInv
  <2>2. ASSUME NEW n \in DOMAIN files'
        PROVE  files'[n] = File(tables[n])'
    <3>1. PICK t : t = tables[n]
      OBVIOUS
    <3>2. files[n] = File(t)
      BY <1>1, <3>1 DEF IInv, FilesInv
    <3>3. File(tables[n])' = File(t)'
      BY <1>1, <3>1
    <3> QED BY <1>1, <3>2, <3>3, FileStays
  <2> QED BY <1>1, <2>1, <2>2 DEF IInv, FilesInv
<1>3. RunInv'
  BY <1>1 DEF IInv, RunInv, Runnable, T, IsInt, Special, Elems, Apart
<1>4. RowsApart'
  BY <1>1, TwinsStay DEF IInv, RowsApart
<1>5. PICK e : e = entry
  OBVIOUS
<1>6. DataInv'
  BY <1>1, <1>5, DataBy DEF IInv, DataInv
<1>7. ResultInv'
  BY <1>1, <1>5, ResultBy DEF IInv, ResultInv
<1> QED BY <1>2, <1>3, <1>4, <1>6, <1>7 DEF IInv

\* The program's table stays one that it can be run on.
LEMMA StepRun ==
  ASSUME MetaInv, FilesInv, RunInv, phase = "run", NextRun
  PROVE  MetaInv' /\ FilesInv' /\ RunInv' /\ UNCHANGED <<tables, table>>
<1>1. UNCHANGED <<options, phase, schema, tables, files, table>>
  BY DEF NextRun, ClientInsert, Make, Insert, InsertRefused, Update, UpdateRefused, Delete, Find,
         FindFails, Came
<1>2. MetaInv' /\ FilesInv'
  <2>1. DOMAIN files = DOMAIN tables
    BY DEF FilesInv
  <2> QED BY <1>1, <2>1, MetaStays, FilesStay
<1>3. RunInv'
  BY <1>1 DEF RunInv, Runnable, T, IsInt, Special, Elems, Apart
<1> QED BY <1>1, <1>2, <1>3

\* Tables are made of what TiDB says and files of tables, rows and entries have what
\* their columns and fields can have, no unique index has two rows of the same
\* values, and what the last call came to has its reason in them, whatever the
\* program and other clients do.
THEOREM Inductive == Spec => []IInv
<1>1. InitEntry => IInv
  <2>1. InitEntry => rows = {} /\ entry = <<>> /\ result = "none"
    BY DEF InitEntry
  <2> QED BY <2>1, InitInvs, NothingYet DEF IInv
<1>2. IInv /\ [Next]_vars => IInv'
  <2> SUFFICES ASSUME IInv, [Next]_vars PROVE IInv'
    OBVIOUS
  <2>1. MetaInv /\ FilesInv /\ RunInv /\ RowsApart /\ DataInv
    BY DEF IInv
  <2>2. CASE UNCHANGED vars
    BY <2>2, Stutters
  <2>3. CASE NextCode /\ UNCHANGED entryVars
    <3>1. MetaInv' /\ FilesInv' /\ RunInv' /\ phase' # "run"
      BY <2>1, <2>3, CodeInvs
    <3>2. rows' = {} /\ entry' = <<>> /\ result' = "none"
      BY <3>1 DEF RunInv
    <3>3. RowsApart' /\ DataInv' /\ ResultInv'
      BY <3>2 DEF RowsApart, DataInv, ResultInv
    <3> QED BY <3>1, <3>3 DEF IInv
  <2>4. ASSUME NEW n \in DOMAIN tables, Start(n) PROVE IInv'
    <3>1. MetaInv' /\ FilesInv' /\ RunInv' /\ rows' = {} /\ entry' = <<>> /\ result' = "none"
      BY <2>1, <2>4, StartInvs
    <3>2. RowsApart' /\ DataInv' /\ ResultInv'
      BY <3>1 DEF RowsApart, DataInv, ResultInv
    <3> QED BY <3>1, <3>2 DEF IInv
  <2>5. CASE phase = "run" /\ NextRun
    BY <2>1, <2>5, StepRun, StepApart, StepData DEF IInv
  <2> QED BY <2>2, <2>3, <2>4, <2>5 DEF Next
<1> QED BY <1>1, <1>2, PTL DEF Spec

-----------------------------------------------------------------------------
\* What NewDBMeta and the renderer keep is made of TiDB's tables, an index is of
\* columns of its table, and rows and entries have what they can have: for all
\* databases, ranges of integers and clients.
THEOREM TypeCorrect == Spec => []TypeOK
<1>1. IInv => TypeOK
  <2> SUFFICES ASSUME IInv PROVE TypeOK
    OBVIOUS
  <2>1. phase \in {"meta", "render", "rendered", "run", "stopped"} /\ DOMAIN files \subseteq DOMAIN tables
    BY DEF IInv, FilesInv
  <2>2. ASSUME NEW n \in DOMAIN tables
        PROVE  /\ tables[n].columns = Info(n).columns
               /\ tables[n].primaryIndex \in 0 .. Len(tables[n].indices)
               /\ \A k \in DOMAIN tables[n].indices :
                    ToSet(tables[n].indices[k].columns) \subseteq DOMAIN tables[n].columns
    <3>1. PICK m \in DOMAIN schema : schema[m].name = n /\ tables[n] = NewTableMeta(schema[m])
      BY DEF IInv, MetaInv, Known
    <3>2. Info(n) = schema[m]
      <4>1. \A l \in DOMAIN schema : schema[l].name = n => l = m
        BY <3>1, TableMetaAssumption DEF IInv, MetaInv, IsList
      <4> QED BY <3>1, <4>1 DEF Info
    <3>3. /\ tables[n].columns = schema[m].columns /\ tables[n].indices = Indices(schema[m])
          /\ tables[n].primaryIndex = Only(Primaries(Indices(schema[m])))
      BY <3>1 DEF NewTableMeta
    <3>4. Len(Indices(schema[m])) \in Nat /\ DOMAIN Indices(schema[m]) = 1 .. Len(Indices(schema[m]))
      <4>1. schema[m].indices \in Seq(ToSet(schema[m].indices))
        BY <3>1, TableMetaAssumption DEF IInv, MetaInv, IsList
      <4>2. CASE schema[m].handle = 0
        <5>1. Indices(schema[m]) = schema[m].indices
          BY <4>1, <4>2 DEF Indices, NewIndexMetaFromPKHandler
        <5> QED BY <4>1, <5>1
      <4>3. CASE schema[m].handle # 0
        <5>1. PICK pk : Indices(schema[m]) = <<pk>> \o schema[m].indices
          BY <4>3 DEF Indices, NewIndexMetaFromPKHandler
        <5> QED BY <4>1, <5>1
      <4> QED BY <4>2, <4>3
    <3>5. Only(Primaries(Indices(schema[m]))) \in {0} \union DOMAIN Indices(schema[m])
      BY DEF Only, Primaries
    <3>6. \A k \in DOMAIN Indices(schema[m]) :
            ToSet(Indices(schema[m])[k].columns) \subseteq DOMAIN schema[m].columns
      BY <3>1, IndicesOfColumns DEF IInv, MetaInv
    <3> QED BY <3>2, <3>3, <3>4, <3>5, <3>6
  <2>3. ASSUME phase = "run", NEW r \in rows, NEW c \in Cols
        PROVE  Accepts(c, r[c]) /\ (c \in Special(T) => r[c] \in DbValues(c))
    <3>1. HasColumn(c, r[c]) /\ GoodColumn(c)
      BY <2>3, TableGood DEF IInv, DataInv, IsRow, GoodTable
    <3> QED BY <3>1, ColumnAccepted DEF HasColumn
  <2>4. ASSUME phase = "run", entry # <<>>, NEW c \in Cols
        PROVE  IF c \in Special(T) THEN entry[c] \in FieldValues(c) ELSE Holds(GoType(T, c), entry[c])
    <3>1. HasField(c, entry[c])
      BY <2>4 DEF IInv, DataInv, IsEntry
    <3> QED BY <3>1 DEF HasField, FieldHolds, GoType, Type
  <2> QED BY <2>1, <2>2, <2>3, <2>4 DEF TypeOK
<1> QED BY <1>1, Inductive, PTL

\* What Insert (table.go:244-267) or Update (269-282) wrote is read back by the functions
\* of unique indices (356-374) as the entry it was written from, but for the enums, sets and
\* numbers that the property names: for tables of columns of any types.
THEOREM WrittenIsReadBack == Spec => []ReadBack
<1>1. IInv => ReadBack
  BY DEF IInv, ResultInv, ReadsAs, ReadBack
<1> QED BY <1>1, Inductive, PTL

\* A row that cannot be scanned has one of the four causes, in a column of it, and an
\* insert panics only over a number for a bool: for tables of columns of any types,
\* and rows of any client.
THEOREM UnreadForCause == Spec => []ReadsForCause
<1>1. IInv => ReadsForCause
  BY DEF IInv, ResultInv, Cause, IntoBool, ReadsForCause
<1> QED BY <1>1, Inductive, PTL

\* Update and Delete (table.go:269-295) never touch a second row, nor one that
\* differs from the entry in a column of the primary key: for tables with keys of
\* any columns, and any rows that other clients write in between.
THEOREM TouchesOwnRow == Spec => OwnRowOnly
<1>1. IInv /\ [Next]_vars =>
        [(Update \/ Delete) =>
           \A r \in rows \ rows' :
             /\ \A c \in ToSet(PrimaryColumns(T)) : ToDb(c, entry[c]) = r[c]
             /\ Cardinality(rows \ rows') = 1]_vars
  <2> SUFFICES ASSUME IInv, Update \/ Delete, NEW r \in rows \ rows'
               PROVE  /\ \A c \in ToSet(PrimaryColumns(T)) : ToDb(c, entry[c]) = r[c]
                      /\ Cardinality(rows \ rows') = 1
    OBVIOUS
  <2>1. phase = "run" /\ PrimaryColumns(T) # <<>>
    BY DEF Update, Delete, CanCall
  <2>2. rows \ rows' \subseteq Hit(entry)
    BY DEF Update, Delete
  <2>3. rows \ rows' = {r}
    BY <2>1, <2>2, HitsOne DEF IInv
  <2>4. Cardinality(rows \ rows') = 1
    BY <2>3, FS_Singleton
  <2>5. ASSUME NEW c \in ToSet(PrimaryColumns(T))
        PROVE  ToDb(c, entry[c]) = r[c]
    <3>1. c \in Cols
      BY <2>1, PrimaryIsUnique DEF IInv, RunInv
    <3>2. r[c] = AsRow(entry)[c]
      BY <2>2 DEF Hit, Where
    <3> QED BY <3>1, <3>2 DEF AsRow
  <2> QED BY <2>4, <2>5
<1> QED BY <1>1, Inductive, PTL DEF OwnRowOnly, Spec

-----------------------------------------------------------------------------
(* Keys of a table.                                                        *)

\* A table that is known, by the name of TiDB's.
LEMMA KnownInfo ==
  ASSUME MetaInv, NEW n \in DOMAIN tables
  PROVE  \E m \in DOMAIN schema : /\ schema[m].name = n /\ tables[n] = NewTableMeta(schema[m])
                                  /\ Info(n) = schema[m]
<1>1. PICK m \in DOMAIN schema : schema[m].name = n /\ tables[n] = NewTableMeta(schema[m])
  BY DEF MetaInv, Known
<1>2. \A l \in DOMAIN schema : schema[l].name = n => l = m
  BY <1>1, TableMetaAssumption DEF MetaInv
<1>3. Info(n) = schema[m]
  BY <1>1, <1>2 DEF Info
<1> QED BY <1>1, <1>3

\* Two lists, as far as both go, are alike if one begins as the other.
LEMMA AlikeIs ==
  ASSUME NEW a, NEW b, IsList(a), IsList(b)
  PROVE  /\ Alike(a, b) <=> IsPrefix(a, b) \/ IsPrefix(b, a)
         /\ Alike(a, b) /\ Len(a) <= Len(b) <=> IsPrefix(a, b)
<1>1. Len(a) \in Nat /\ Len(b) \in Nat /\ DOMAIN a = 1 .. Len(a) /\ DOMAIN b = 1 .. Len(b)
  BY DEF IsList
<1>2. ASSUME Len(a) <= Len(b)
      PROVE  IsPrefix(a, b) <=> \A i \in 1 .. Len(a) : a[i] = b[i]
  <2>1. SubSeq(a, 1, Len(a)) = a /\ Len(SubSeq(b, 1, Len(a))) = Len(a)
    BY <1>1, <1>2 DEF IsList
  <2>2. \A i \in 1 .. Len(a) : SubSeq(b, 1, Len(a))[i] = b[i]
    BY <1>1, <1>2 DEF IsList
  <2>3. SubSeq(b, 1, Len(a)) = a <=> \A i \in 1 .. Len(a) : a[i] = b[i]
    BY <1>1, <1>2, <2>2 DEF IsList
  <2> QED BY <1>2, <2>1, <2>3 DEF IsPrefix
<1>3. ASSUME Len(b) <= Len(a)
      PROVE  IsPrefix(b, a) <=> \A i \in 1 .. Len(b) : a[i] = b[i]
  <2>1. SubSeq(b, 1, Len(b)) = b
    BY <1>1 DEF IsList
  <2>2. \A i \in 1 .. Len(b) : SubSeq(a, 1, Len(b))[i] = a[i]
    BY <1>1, <1>3 DEF IsList
  <2>3. SubSeq(a, 1, Len(b)) = b <=> \A i \in 1 .. Len(b) : a[i] = b[i]
    BY <1>1, <1>3, <2>2 DEF IsList
  <2> QED BY <1>3, <2>1, <2>3 DEF IsPrefix
<1>4. CASE Len(a) <= Len(b)
  <2>1. DOMAIN a \intersect DOMAIN b = 1 .. Len(a)
    BY <1>1, <1>4
  <2>2. IsPrefix(b, a) => IsPrefix(a, b)
    <3>1. IsPrefix(b, a) => Len(a) = Len(b)
      <4>1. IsPrefix(b, a) => Len(b) <= Len(a)
        BY DEF IsPrefix
      <4>2. \A i, j \in Nat : i <= j /\ j <= i => i = j
        OBVIOUS
      <4> QED BY <1>1, <1>4, <4>1, <4>2
    <3> QED BY <1>2, <1>3, <1>4, <3>1
  <2> QED BY <1>2, <1>4, <2>1, <2>2 DEF Alike
<1>5. CASE Len(b) < Len(a)
  <2>1. DOMAIN a \intersect DOMAIN b = 1 .. Len(b)
    BY <1>1, <1>5
  <2>2. ~IsPrefix(a, b)
    BY <1>1, <1>5 DEF IsPrefix
  <2>3. Len(b) <= Len(a) /\ ~(Len(a) <= Len(b))
    BY <1>1, <1>5
  <2> QED BY <1>3, <2>1, <2>2, <2>3 DEF Alike
<1> QED BY <1>1, <1>4, <1>5

\* What NewTableMeta makes of the keys of a table, in order.
LEMMA KeysAre ==
  ASSUME NEW s \in Schemas, NEW m \in DOMAIN s
  PROVE  /\ DOMAIN Keys(s[m]) = DOMAIN Indices(s[m])
         /\ Len(Keys(s[m])) = Len(Indices(s[m])) /\ Len(Indices(s[m])) \in Nat
         /\ DOMAIN Indices(s[m]) = 1 .. Len(Indices(s[m]))
         /\ \A k \in DOMAIN Indices(s[m]) :
              /\ Keys(s[m])[k] = ColumnNames(NewTableMeta(s[m]), Indices(s[m])[k])
              /\ UniqueKey(s[m], k) <=> Indices(s[m])[k].unique
              /\ IsList(Indices(s[m])[k].columns)
<1> DEFINE info == s[m]
           names(index) == [i \in DOMAIN index.columns |-> info.columns[index.columns[i]].name]
<1>1. IsList(info.indices) /\ \A k \in DOMAIN info.indices : IsList(info.indices[k].columns)
  BY TableMetaAssumption
<1>2. \A index : ColumnNames(NewTableMeta(info), index) = names(index)
  BY DEF ColumnNames, NewTableMeta
<1>3. PICK l \in Nat : l = Len(info.indices) /\ DOMAIN info.indices = 1 .. l
  BY <1>1 DEF IsList
<1> DEFINE rest == [k \in DOMAIN info.indices |-> names(info.indices[k])]
<1>4. rest \in Seq({rest[k] : k \in 1 .. l}) /\ Len(rest) = l
  <2>1. rest = [k \in 1 .. l |-> rest[k]]
    BY <1>3
  <2> HIDE DEF rest
  <2>2. rest \in [1 .. l -> {rest[k] : k \in 1 .. l}]
    BY <2>1
  <2> QED BY <2>2
<1>5. CASE info.handle = 0
  <2>1. Indices(info) = info.indices
    BY <1>1, <1>5 DEF Indices, NewIndexMetaFromPKHandler, IsList
  <2>2. Keys(info) = rest
    <3>1. Keys(info) = <<>> \o rest
      BY <1>5 DEF Keys
    <3> HIDE DEF rest
    <3> QED BY <1>4, <3>1
  <2>3. \A k \in DOMAIN info.indices : UniqueKey(info, k) <=> info.indices[k].unique
    BY <1>5 DEF UniqueKey
  <2>4. DOMAIN rest = 1 .. l /\ \A k \in 1 .. l : rest[k] = names(info.indices[k])
    BY <1>3
  <2> HIDE DEF rest, names
  <2> QED BY <1>1, <1>2, <1>3, <1>4, <2>1, <2>2, <2>3, <2>4
<1>6. CASE info.handle # 0
  <2> DEFINE pk == [name |-> <<"primary">>, unique |-> TRUE, primary |-> TRUE, columns |-> <<info.handle>>]
             first == <<info.columns[info.handle].name>>
  <2>1. Indices(info) = <<pk>> \o info.indices
    BY <1>6 DEF Indices, NewIndexMetaFromPKHandler
  <2>2. Keys(info) = <<first>> \o rest
    BY <1>6 DEF Keys
  <2>3. /\ Len(Indices(info)) = l + 1 /\ DOMAIN Indices(info) = 1 .. l + 1 /\ Indices(info)[1] = pk
        /\ \A k \in 2 .. l + 1 : Indices(info)[k] = info.indices[k - 1]
    <3> HIDE DEF pk
    <3> QED BY <1>1, <1>3, <2>1 DEF IsList
  <2>4. /\ Len(Keys(info)) = l + 1 /\ DOMAIN Keys(info) = 1 .. l + 1 /\ Keys(info)[1] = first
        /\ \A k \in 2 .. l + 1 : Keys(info)[k] = rest[k - 1]
    <3> HIDE DEF first, rest
    <3> QED BY <1>4, <2>2
  <2>5. names(pk) = first /\ IsList(pk.columns) /\ UniqueKey(info, 1)
    BY <1>6 DEF IsList, ToSet, UniqueKey
  <2>6. ASSUME NEW k \in 2 .. l + 1
        PROVE  /\ Keys(info)[k] = names(Indices(info)[k])
               /\ UniqueKey(info, k) <=> Indices(info)[k].unique
               /\ IsList(Indices(info)[k].columns)
    <3>1. k - 1 \in DOMAIN info.indices /\ k # 1
      BY <1>3
    <3>2. Keys(info)[k] = names(info.indices[k - 1])
      BY <2>4, <3>1
    <3> QED BY <1>1, <1>6, <2>3, <3>1, <3>2 DEF UniqueKey
  <2>7. pk.unique
    OBVIOUS
  <2>8. ASSUME NEW k \in 1 .. l + 1
        PROVE  /\ Keys(info)[k] = names(Indices(info)[k])
               /\ UniqueKey(info, k) <=> Indices(info)[k].unique
               /\ IsList(Indices(info)[k].columns)
    <3>1. CASE k = 1
      <4> HIDE DEF names, pk, first
      <4> QED BY <2>3, <2>4, <2>5, <2>7, <3>1
    <3>2. CASE k # 1
      BY <2>6, <3>2
    <3> QED BY <3>1, <3>2
  <2> HIDE DEF names, pk, first, rest
  <2> QED BY <1>2, <2>3, <2>4, <2>8
<1> QED BY <1>5, <1>6

-----------------------------------------------------------------------------
(* The index that a key finds.                                             *)

\* The names of an index's columns are a list.
LEMMA NamesList ==
  ASSUME NEW t, NEW index, IsList(index.columns)
  PROVE  IsList(ColumnNames(t, index)) /\ Len(ColumnNames(t, index)) = Len(index.columns)
<1>1. PICK l \in Nat : l = Len(index.columns) /\ DOMAIN index.columns = 1 .. l
  BY DEF IsList
<1>2. PICK names : names = ColumnNames(t, index)
  OBVIOUS
<1>3. names = [i \in 1 .. l |-> names[i]]
  BY <1>1, <1>2 DEF ColumnNames
<1>4. names \in [1 .. l -> ToSet(names)]
  BY <1>3 DEF ToSet
<1> QED BY <1>1, <1>2, <1>4 DEF IsList

\* The index that a key finds is the first that begins with its columns, if none
\* before it is one that the key goes beyond.
LEMMA FoundIs ==
  ASSUME MetaInv, NEW fk, IsList(fk.refCols), fk.refTable \in DOMAIN tables
  PROVE  /\ Found(fk) = IF RefIndex(fk) = 0 THEN {} ELSE {RefIndex(fk)}
         /\ RefIndex(fk) # 0 =>
              /\ RefIndex(fk) \in DOMAIN tables[fk.refTable].indices
              /\ IsPrefix(fk.refCols, Keys(Info(fk.refTable))[RefIndex(fk)])
<1>1. PICK m \in DOMAIN schema : /\ tables[fk.refTable] = NewTableMeta(schema[m])
                                 /\ Info(fk.refTable) = schema[m]
  BY KnownInfo
<1>2. PICK ref : ref = tables[fk.refTable]
  OBVIOUS
<1>3. PICK keys : keys = Keys(schema[m])
  OBVIOUS
<1>4. ref.indices = Indices(schema[m])
  BY <1>1, <1>2 DEF NewTableMeta
<1>5. PICK l \in Nat : DOMAIN ref.indices = 1 .. l /\ DOMAIN keys = 1 .. l
  BY <1>3, <1>4, KeysAre DEF MetaInv
<1>6. ASSUME NEW k \in 1 .. l
      PROVE  /\ keys[k] = ColumnNames(ref, ref.indices[k]) /\ IsList(keys[k])
             /\ Len(keys[k]) = Len(ref.indices[k].columns)
  <2>1. keys[k] = ColumnNames(ref, ref.indices[k]) /\ IsList(ref.indices[k].columns)
    BY <1>1, <1>2, <1>3, <1>4, <1>5, KeysAre DEF MetaInv
  <2> QED BY <2>1, NamesList
<1>7. PICK cols : cols = fk.refCols
  OBVIOUS
<1> DEFINE Hits == {k \in 1 .. l : Alike(cols, keys[k])}
           found == {k \in 1 .. l : /\ IsPrefix(cols, keys[k])
                                    /\ \A j \in 1 .. k - 1 : ~IsPrefix(cols, keys[j]) /\ ~IsPrefix(keys[j], cols)}
<1>8. RefIndex(fk) = IF Hits = {} \/ Len(keys[Min(Hits)]) < Len(cols) THEN 0 ELSE Min(Hits)
  <2>1. {k \in DOMAIN ref.indices : Alike(fk.refCols, ColumnNames(ref, ref.indices[k]))} = Hits
    BY <1>5, <1>6, <1>7
  <2>2. Hits # {} => Min(Hits) \in 1 .. l
    <3>1. Hits \in SUBSET Nat
      OBVIOUS
    <3> HIDE DEF Hits
    <3>2. Hits # {} => \E i \in Hits : \A j \in Hits : i <= j
      BY <3>1, LeastNatural
    <3>3. Hits # {} => Min(Hits) \in Hits
      BY <3>2 DEF Min
    <3> QED BY <3>3 DEF Hits
  <2> HIDE DEF Hits
  <2>3. RefIndex(fk) = IF Hits = {} \/ Len(ref.indices[Min(Hits)].columns) < Len(cols) THEN 0 ELSE Min(Hits)
    BY <1>2, <1>7, <2>1 DEF RefIndex
  <2>4. Hits # {} => Len(ref.indices[Min(Hits)].columns) = Len(keys[Min(Hits)])
    BY <1>6, <2>2
  <2> QED BY <2>3, <2>4
<1>9. Found(fk) = found
  BY <1>1, <1>3, <1>5, <1>7 DEF Found
<1>10. ASSUME NEW k \in 1 .. l
       PROVE  /\ k \in Hits <=> IsPrefix(cols, keys[k]) \/ IsPrefix(keys[k], cols)
              /\ k \in Hits /\ Len(cols) <= Len(keys[k]) <=> IsPrefix(cols, keys[k])
  BY <1>6, <1>7, AlikeIs
<1>11. \A k \in found : k \in Hits /\ Len(cols) <= Len(keys[k]) /\ \A j \in 1 .. k - 1 : j \notin Hits
  BY <1>10
<1>12. \A k \in 1 .. l : Len(keys[k]) \in Nat /\ Len(cols) \in Nat
  BY <1>6, <1>7 DEF IsList
<1>13. Hits # {} => Min(Hits) \in Hits /\ \A j \in Hits : Min(Hits) <= j
  <2>1. Hits \in SUBSET Nat
    OBVIOUS
  <2> HIDE DEF Hits
  <2>2. Hits # {} => \E i \in Hits : \A j \in Hits : i <= j
    BY <2>1, LeastNatural
  <2> QED BY <2>2 DEF Min
<1>14. CASE RefIndex(fk) = 0
  <2>1. Hits = {} \/ Len(keys[Min(Hits)]) < Len(cols)
    <3> HIDE DEF Hits
    <3>1. Hits # {} => Min(Hits) # 0
      BY <1>13 DEF Hits
    <3> QED BY <1>8, <1>14, <3>1
  <2>2. ASSUME NEW k \in found
        PROVE  FALSE
    <3>1. k \in Hits /\ Len(cols) <= Len(keys[k]) /\ k \in 1 .. l
      BY <1>11
    <3>2. Min(Hits) = k
      <4>1. Min(Hits) \in 1 .. l /\ Min(Hits) <= k /\ Min(Hits) \in Hits
        BY <1>13, <3>1
      <4>2. Min(Hits) \notin 1 .. k - 1
        BY <1>11, <4>1
      <4> HIDE DEF Hits
      <4> QED BY <3>1, <4>1, <4>2
    <3> HIDE DEF Hits
    <3> QED BY <1>12, <2>1, <3>1, <3>2
  <2> HIDE DEF found
  <2> QED BY <1>9, <1>14, <2>2
<1>15. CASE RefIndex(fk) # 0
  <2>1. PICK k : k = RefIndex(fk)
    OBVIOUS
  <2>2. Hits # {} /\ k = Min(Hits) /\ ~(Len(keys[k]) < Len(cols))
    <3> HIDE DEF Hits
    <3> QED BY <1>8, <1>15, <2>1
  <2>3. k \in Hits /\ \A j \in Hits : k <= j
    BY <1>13, <2>2
  <2>4. k \in 1 .. l
    BY <2>3
  <2>5. Len(cols) <= Len(keys[k])
    BY <1>12, <2>2, <2>4
  <2>6. IsPrefix(cols, keys[k])
    BY <1>10, <2>3, <2>4, <2>5
  <2>7. \A j \in 1 .. k - 1 : j \notin Hits /\ j \in 1 .. l
    <3> HIDE DEF Hits
    <3>1. \A j \in 1 .. k - 1 : ~(k <= j) /\ j \in 1 .. l
      BY <2>4
    <3> QED BY <2>3, <3>1
  <2>8. k \in found
    BY <1>10, <2>4, <2>6, <2>7
  <2>9. ASSUME NEW j \in found
        PROVE  j = k
    <3>1. j \in Hits /\ j \in 1 .. l /\ \A i \in 1 .. j - 1 : i \notin Hits
      BY <1>11
    <3>2. k <= j
      BY <2>3, <3>1
    <3>3. k \notin 1 .. j - 1
      BY <2>3, <3>1
    <3> HIDE DEF Hits
    <3> QED BY <2>4, <3>1, <3>2, <3>3
  <2> HIDE DEF found
  <2>10. Found(fk) = {k}
    BY <1>9, <2>8, <2>9
  <2> QED BY <1>1, <1>2, <1>3, <1>5, <1>7, <1>15, <2>1, <2>4, <2>6, <2>10
<1> QED BY <1>14, <1>15

-----------------------------------------------------------------------------
(* Calls of accessors.                                                     *)

\* A column goes by its name.
LEMMA NamedColumn ==
  ASSUME NEW s \in Schemas, NEW m \in DOMAIN s, NEW c \in DOMAIN s[m].columns
  PROVE  /\ ColumnByName(NewTableMeta(s[m]), s[m].columns[c].name) = c
         /\ TypeIn(s[m], s[m].columns[c].name) = s[m].columns[c].type
<1>1. \A a \in DOMAIN s[m].columns : s[m].columns[a].name = s[m].columns[c].name => a = c
  BY TableMetaAssumption
<1>2. NewTableMeta(s[m]).columns = s[m].columns
  BY DEF NewTableMeta
<1>3. \A col \in ToSet(s[m].columns) : col.name = s[m].columns[c].name => col = s[m].columns[c]
  BY <1>1 DEF ToSet
<1>4. s[m].columns[c] \in ToSet(s[m].columns)
  BY DEF ToSet
<1> QED BY <1>1, <1>2, <1>3, <1>4 DEF ColumnByName, TypeIn

\* The lists of a key.
LEMMA KeyLists ==
  ASSUME NEW s \in Schemas, NEW m \in DOMAIN s, NEW f \in DOMAIN s[m].foreignKeys
  PROVE  LET fk == s[m].foreignKeys[f]
         IN  /\ IsList(fk.cols) /\ IsList(fk.refCols) /\ Len(fk.cols) \in Nat
             /\ Len(fk.cols) = Len(fk.refCols)
             /\ DOMAIN fk.cols = 1 .. Len(fk.cols) /\ DOMAIN fk.refCols = 1 .. Len(fk.cols)
             /\ \A j \in DOMAIN fk.cols : \E c \in DOMAIN s[m].columns : fk.cols[j] = s[m].columns[c].name
<1> DEFINE fk == s[m].foreignKeys[f]
<1>1. /\ IsList(fk.cols) /\ IsList(fk.refCols) /\ Len(fk.cols) = Len(fk.refCols)
      /\ ToSet(fk.cols) \subseteq {c.name : c \in ToSet(s[m].columns)}
  BY TableMetaAssumption
<1>2. Len(fk.cols) \in Nat /\ DOMAIN fk.cols = 1 .. Len(fk.cols) /\ DOMAIN fk.refCols = 1 .. Len(fk.cols)
  BY <1>1 DEF IsList
<1>3. \A j \in DOMAIN fk.cols : \E c \in DOMAIN s[m].columns : fk.cols[j] = s[m].columns[c].name
  BY <1>1 DEF ToSet
<1> QED BY <1>1, <1>2, <1>3

\* The columns of the index that a key finds have the names that the key gives.
LEMMA RefColumns ==
  ASSUME MetaInv, NEW fk, IsList(fk.refCols), RefIndex(fk) # 0
  PROVE  LET ref   == tables[fk.refTable]
             index == ref.indices[RefIndex(fk)]
         IN  /\ fk.refTable \in DOMAIN tables /\ RefIndex(fk) \in DOMAIN ref.indices
             /\ IsList(index.columns) /\ Len(fk.refCols) <= Len(index.columns)
             /\ Len(index.columns) = Len(Keys(Info(fk.refTable))[RefIndex(fk)])
             /\ \A j \in DOMAIN fk.refCols :
                  /\ j \in DOMAIN index.columns /\ index.columns[j] \in DOMAIN ref.columns
                  /\ ref.columns[index.columns[j]].name = fk.refCols[j]
                  /\ ColumnByName(ref, fk.refCols[j]) = index.columns[j]
                  /\ TypeIn(Info(fk.refTable), fk.refCols[j]) = ref.columns[index.columns[j]].type
<1>1. fk.refTable \in DOMAIN tables
  BY DEF RefIndex
<1>2. PICK k : k = RefIndex(fk)
  OBVIOUS
<1>3. PICK m \in DOMAIN schema : /\ tables[fk.refTable] = NewTableMeta(schema[m])
                                 /\ Info(fk.refTable) = schema[m]
  BY <1>1, KnownInfo
<1>4. PICK ref : ref = tables[fk.refTable]
  OBVIOUS
<1>5. PICK index : index = ref.indices[k]
  OBVIOUS
<1>6. ref.indices = Indices(schema[m]) /\ ref.columns = schema[m].columns
  BY <1>3, <1>4 DEF NewTableMeta
<1>7. k \in DOMAIN ref.indices /\ IsPrefix(fk.refCols, Keys(schema[m])[k])
  BY <1>1, <1>2, <1>3, <1>4, FoundIs
<1>8. /\ Keys(schema[m])[k] = ColumnNames(ref, index) /\ IsList(index.columns)
      /\ ToSet(index.columns) \subseteq DOMAIN ref.columns
  BY <1>3, <1>4, <1>5, <1>6, <1>7, KeysAre, IndicesOfColumns DEF MetaInv
<1>9. PICK names : names = ColumnNames(ref, index)
  OBVIOUS
<1>10. IsList(names) /\ Len(names) = Len(index.columns) /\ IsPrefix(fk.refCols, names)
  BY <1>7, <1>8, <1>9, NamesList
<1>11. Alike(fk.refCols, names) /\ Len(fk.refCols) <= Len(names)
  BY <1>10, AlikeIs
<1>12. ASSUME NEW j \in DOMAIN fk.refCols
       PROVE  /\ j \in DOMAIN index.columns /\ index.columns[j] \in DOMAIN ref.columns
              /\ ref.columns[index.columns[j]].name = fk.refCols[j]
              /\ ColumnByName(ref, fk.refCols[j]) = index.columns[j]
              /\ TypeIn(schema[m], fk.refCols[j]) = ref.columns[index.columns[j]].type
  <2>1. j \in DOMAIN index.columns /\ j \in DOMAIN names
    BY <1>8, <1>10, <1>11 DEF IsList
  <2>2. index.columns[j] \in DOMAIN ref.columns
    BY <1>8, <2>1 DEF ToSet
  <2>3. ref.columns[index.columns[j]].name = fk.refCols[j]
    BY <1>9, <1>11, <2>1 DEF Alike, ColumnNames
  <2>4. schema \in Schemas
    BY DEF MetaInv
  <2> QED BY <1>3, <1>4, <1>6, <2>1, <2>2, <2>3, <2>4, NamedColumn
<1> QED BY <1>1, <1>2, <1>3, <1>4, <1>5, <1>7, <1>8, <1>9, <1>10, <1>11, <1>12

\* A cast that leaves its argument as it is is one to the same type.
LEMMA SameCast ==
  ASSUME NEW src, NEW dst, CastType(src, dst) = "same"
  PROVE  src = dst
BY DEF CastType

\* Every accessor of a file calls the function of the index that its key finds with
\* what that function takes (table.go:303-325), for tables with any keys and
\* indices, but for the two causes that the property names.
THEOREM AccessorsCall == Spec => []AccessorsFit
<1>1. IInv => AccessorsFit
  <2> SUFFICES ASSUME IInv, NEW n \in DOMAIN files, NEW call \in files[n].calls
               PROVE  LET fk == tables[n].foreignKeys[call.fk]
                      IN  \/ CallFits(n, call)
                          \/ \E k \in Found(fk) : Len(Keys(Info(fk.refTable))[k]) > Len(fk.refCols)
                          \/ \E name \in ToSet(fk.cols) : TypeIn(Info(n), name).tp \in {"enum", "set"}
    BY DEF AccessorsFit
  <2>1. MetaInv /\ n \in DOMAIN tables /\ files[n] = File(tables[n])
    BY DEF IInv, FilesInv
  <2>2. PICK t : t = tables[n]
    OBVIOUS
  <2>3. PICK f \in Accessors(t) : call = [fk |-> f, args |-> Args(t, f)]
    BY <2>1, <2>2 DEF File
  <2>4. PICK fk : fk = t.foreignKeys[f]
    OBVIOUS
  <2>5. PICK m \in DOMAIN schema : t = NewTableMeta(schema[m]) /\ Info(n) = schema[m]
    BY <2>1, <2>2, KnownInfo
  <2>6. t.columns = schema[m].columns /\ t.foreignKeys = schema[m].foreignKeys
    BY <2>5 DEF NewTableMeta
  <2>7. f \in DOMAIN schema[m].foreignKeys /\ RefIndex(fk) # 0
    BY <2>4, <2>6, <2>3 DEF Accessors
  <2>8. schema \in Schemas
    BY <2>1 DEF MetaInv
  <2>9. /\ IsList(fk.cols) /\ IsList(fk.refCols) /\ Len(fk.cols) \in Nat /\ Len(fk.cols) = Len(fk.refCols)
        /\ DOMAIN fk.cols = 1 .. Len(fk.cols) /\ DOMAIN fk.refCols = 1 .. Len(fk.cols)
        /\ \A j \in DOMAIN fk.cols : \E c \in DOMAIN t.columns : fk.cols[j] = t.columns[c].name
    BY <2>4, <2>6, <2>7, <2>8, KeyLists
  <2>10. PICK ref : ref = tables[fk.refTable]
    OBVIOUS
  <2>11. PICK index : index = ref.indices[RefIndex(fk)]
    OBVIOUS
  <2>12. /\ fk.refTable \in DOMAIN tables /\ Len(fk.refCols) <= Len(index.columns)
         /\ IsList(index.columns) /\ Len(index.columns) = Len(Keys(Info(fk.refTable))[RefIndex(fk)])
         /\ \A j \in DOMAIN fk.refCols : ColumnByName(ref, fk.refCols[j]) = index.columns[j]
    BY <2>1, <2>7, <2>9, <2>10, <2>11, RefColumns
  <2>13. Len(index.columns) \in Nat /\ DOMAIN index.columns = 1 .. Len(index.columns)
    BY <2>12 DEF IsList
  <2>14. CASE Len(index.columns) # Len(fk.refCols)
    <3>1. RefIndex(fk) \in Found(fk)
      BY <2>1, <2>7, <2>9, <2>12, FoundIs
    <3>2. Len(Keys(Info(fk.refTable))[RefIndex(fk)]) > Len(fk.refCols)
      BY <2>9, <2>12, <2>13, <2>14
    <3> QED BY <2>2, <2>3, <2>4, <3>1, <3>2
  <2>15. CASE \E j \in DOMAIN fk.cols : ColumnByName(t, fk.cols[j]) \in Special(t)
    <3>1. PICK j \in DOMAIN fk.cols : ColumnByName(t, fk.cols[j]) \in Special(t)
      BY <2>15
    <3>2. PICK c \in DOMAIN t.columns : fk.cols[j] = t.columns[c].name
      BY <2>9, <3>1
    <3>3. ColumnByName(t, fk.cols[j]) = c /\ TypeIn(schema[m], fk.cols[j]) = t.columns[c].type
      BY <2>5, <2>6, <2>8, <3>2, NamedColumn
    <3>4. TypeIn(Info(n), fk.cols[j]).tp \in {"enum", "set"}
      BY <2>5, <3>1, <3>3 DEF Special
    <3>5. fk.cols[j] \in ToSet(fk.cols)
      BY DEF ToSet
    <3> QED BY <2>2, <2>3, <2>4, <3>4, <3>5
  <2>16. CASE /\ Len(index.columns) = Len(fk.refCols)
              /\ \A j \in DOMAIN fk.cols : ColumnByName(t, fk.cols[j]) \notin Special(t)
    <3> DEFINE args == Args(t, f)
               params == Params(ref, RefIndex(fk))
    <3>1. DOMAIN args = 1 .. Len(fk.cols) /\ DOMAIN params = 1 .. Len(fk.cols)
      BY <2>4, <2>9, <2>11, <2>13, <2>16 DEF Args, Params
    <3>2. Len(args) = Len(fk.cols) /\ Len(params) = Len(fk.cols)
      <4>1. args = [j \in 1 .. Len(fk.cols) |-> args[j]] /\ params = [j \in 1 .. Len(fk.cols) |-> params[j]]
        BY <2>4, <2>9, <2>11, <2>13, <2>16 DEF Args, Params
      <4>2. PICK l \in Nat : l = Len(fk.cols)
        BY <2>9
      <4>3. PICK a, p : a = args /\ p = params
        OBVIOUS
      <4>4. a = [j \in 1 .. l |-> a[j]] /\ p = [j \in 1 .. l |-> p[j]]
        BY <4>1, <4>2, <4>3
      <4>5. Len(a) = l /\ Len(p) = l
        BY <4>4
      <4> QED BY <4>2, <4>3, <4>5
    <3>3. ASSUME NEW j \in 1 .. Len(fk.cols)
          PROVE  args[j] = params[j].type
      <4>1. params[j].type = GoType(ref, index.columns[j])
        BY <2>9, <2>11, <2>13, <2>16 DEF Params
      <4>2. ColumnByName(ref, fk.refCols[j]) = index.columns[j]
        BY <2>9, <2>12
      <4>3. ColumnByName(t, fk.cols[j]) \notin Special(t)
        BY <2>9, <2>16
      <4>4. CASE Cast(t, fk, j) = "same"
        <5>1. GoType(t, ColumnByName(t, fk.cols[j])) = GoType(ref, ColumnByName(ref, fk.refCols[j]))
          BY <2>10, <4>4, SameCast DEF Cast
        <5>2. args[j] = FieldType(t, ColumnByName(t, fk.cols[j]))
          BY <2>4, <2>9, <4>4 DEF Args
        <5> QED BY <4>1, <4>2, <4>3, <5>1, <5>2 DEF FieldType
      <4>5. CASE Cast(t, fk, j) # "same"
        <5>1. args[j] = GoType(ref, ColumnByName(ref, fk.refCols[j]))
          BY <2>4, <2>9, <2>10, <4>3, <4>5 DEF Args
        <5> QED BY <4>1, <4>2, <5>1
      <4> QED BY <4>4, <4>5
    <3>4. call.args = args /\ tables[n].foreignKeys[call.fk] = fk
      BY <2>2, <2>3, <2>4
    <3> HIDE DEF args, params
    <3>5. Len(call.args) = Len(params) /\ \A j \in DOMAIN params : call.args[j] = params[j].type
      BY <3>1, <3>2, <3>3, <3>4
    <3>6. CallFits(n, call)
      BY <2>10, <3>4, <3>5 DEF CallFits, params
    <3> QED BY <3>6
  <2> QED BY <2>14, <2>15, <2>16
<1> QED BY <1>1, Inductive, PTL

-----------------------------------------------------------------------------
(* Casts.                                                                  *)

\* The Go types.
GoTypes ==
  Ints \union {"float32", "float64", "string", "bool", "Time", "[]byte"}
    \union {"NullInt64", "NullString", "NullFloat64", "NullBool", "NullTime"}

\* AdaptType makes one of them.
LEMMA AdaptGo ==
  ASSUME NEW ft
  PROVE  AdaptType(ft) \in GoTypes
<1>1. \A n : Sized(TRUE, n) \in Ints /\ Sized(ft.unsigned, n) \in Ints
  BY DEF Sized, Ints
<1>2. CASE ft.tp \in {"bit", "tiny"}
  BY <1>1, <1>2 DEF AdaptType, GoTypes
<1>3. CASE ft.tp \in {"short", "int24", "long", "longlong"}
  BY <1>1, <1>3 DEF AdaptType, GoTypes
<1>4. CASE ft.tp = "year"
  BY <1>4 DEF AdaptType, GoTypes, Ints
<1>5. CASE ft.tp \notin {"bit", "tiny", "short", "int24", "long", "longlong", "year"}
  BY <1>5 DEF AdaptType, GoTypes
<1> QED BY <1>2, <1>3, <1>4, <1>5

\* A set with more than one element has two.
LEMMA TwoElements ==
  ASSUME NEW S, IsFiniteSet(S)
  PROVE  Cardinality(S) > 1 <=> \E x, y \in S : x # y
<1>1. Cardinality(S) \in Nat
  BY FS_CardinalityType
<1>2. CASE S = {}
  BY <1>2, FS_EmptySet
<1>3. ASSUME NEW x \in S
      PROVE  Cardinality(S) > 1 <=> \E z, y \in S : z # y
  <2>1. IsFiniteSet(S \ {x}) /\ Cardinality(S \ {x}) = Cardinality(S) - 1
    BY FS_RemoveElement
  <2>2. Cardinality(S \ {x}) = 0 <=> S \ {x} = {}
    BY <2>1, FS_EmptySet
  <2>3. Cardinality(S) > 1 <=> Cardinality(S \ {x}) # 0
    <3>1. Cardinality(S \ {x}) \in Nat
      BY <2>1, FS_CardinalityType
    <3> QED BY <1>1, <2>1, <3>1
  <2>4. S \ {x} # {} <=> \E z, y \in S : z # y
    OBVIOUS
  <2> QED BY <2>2, <2>3, <2>4
<1> QED BY <1>2, <1>3

\* Of two types one is nullable.
LEMMA OneNullable ==
  ASSUME NEW src, NEW dst, src # dst, NEW S
  PROVE  Cardinality({src, dst} \intersect S) = 1 <=> (src \in S <=> dst \notin S)
<1> DEFINE N == {src, dst} \intersect S
<1>1. IsFiniteSet(N)
  <2>1. IsFiniteSet({src})
    BY FS_Singleton
  <2>2. IsFiniteSet({src} \union {dst}) /\ N \subseteq {src} \union {dst}
    BY <2>1, FS_AddElement
  <2> HIDE DEF N
  <2> QED BY <2>2, FS_Subset
<1>2. Cardinality(N) \in Nat /\ (Cardinality(N) = 0 <=> N = {})
  BY <1>1, FS_CardinalityType, FS_EmptySet
<1>3. Cardinality(N) > 1 <=> \E x, y \in N : x # y
  BY <1>1, TwoElements
<1>4. (\E x, y \in N : x # y) <=> src \in S /\ dst \in S
  OBVIOUS
<1>5. N = {} <=> src \notin S /\ dst \notin S
  OBVIOUS
<1> HIDE DEF N
<1>6. Cardinality(N) = 1 <=> Cardinality(N) # 0 /\ ~(Cardinality(N) > 1)
  BY <1>2
<1> QED BY <1>2, <1>3, <1>4, <1>5, <1>6 DEF N

\* The types that a nullable one is made from are those of its kind that are plain.
LEMMA PlainKind ==
  ASSUME NEW null \in DOMAIN PlainOf, NEW go \in GoTypes
  PROVE  go \in PlainOf[null] <=> go \notin DOMAIN PlainOf /\ Kind(go) = Kind(null)
<1>1. /\ PlainOf["NullInt64"] = Ints /\ PlainOf["NullString"] = {"string"}
      /\ PlainOf["NullFloat64"] = {"float32", "float64"} /\ PlainOf["NullBool"] = {"bool"}
      /\ PlainOf["NullTime"] = {"Time"}
  BY DEF PlainOf
<1>2. /\ Kind("NullInt64") = "integer" /\ Kind("NullString") = "string" /\ Kind("NullFloat64") = "float"
      /\ Kind("NullBool") = "bool" /\ Kind("NullTime") = "time"
  BY DEF Kind, Ints
<1>3. go \in Ints => Kind(go) = "integer" /\ go \notin DOMAIN PlainOf
  BY PlainOfIs DEF Kind, Ints
<1>4. /\ Kind("string") = "string" /\ Kind("float32") = "float" /\ Kind("float64") = "float"
      /\ Kind("bool") = "bool" /\ Kind("Time") = "time" /\ Kind("[]byte") = "bytes"
  BY DEF Kind, Ints
<1>5. {"string", "float32", "float64", "bool", "Time", "[]byte"} \intersect (Ints \union DOMAIN PlainOf) = {}
  BY PlainOfIs DEF Ints
<1>6. CASE go \in Ints
  BY <1>1, <1>2, <1>3, <1>5, <1>6, PlainOfIs
<1>7. CASE go \in DOMAIN PlainOf
  BY <1>1, <1>5, <1>7, PlainOfIs DEF Ints
<1>8. CASE go \in {"string", "float32", "float64", "bool", "Time", "[]byte"}
  BY <1>1, <1>2, <1>4, <1>5, <1>8, PlainOfIs
<1> QED BY <1>6, <1>7, <1>8, PlainOfIs DEF GoTypes

\* A cast that does not come to an expression, or not to one that can be formatted.
BadCast(cast) == cast = "error" \/ (cast = "unbalanced" /\ ~options.NoFormat)

\* A cast is bad for what Mismatch says.
LEMMA MismatchIs ==
  ASSUME NEW src \in GoTypes, NEW dst \in GoTypes
  PROVE  BadCast(CastType(src, dst)) <=>
           /\ src # dst
           /\ \/ Kind(src) # Kind(dst) \/ Cardinality({src, dst} \intersect DOMAIN PlainOf) # 1
              \/ /\ src \in {src, dst} \intersect DOMAIN PlainOf
                 /\ Kind(src) \in {"bool", "time"} /\ ~options.NoFormat
<1>1. CASE src = dst
  <2>1. ~(dst \in DOMAIN PlainOf /\ src \in PlainOf[dst]) /\ ~(src \in DOMAIN PlainOf /\ dst \in PlainOf[src])
    BY <1>1, PlainKind
  <2>2. CastType(src, dst) = "same"
    BY <1>1, <2>1 DEF CastType
  <2> QED BY <1>1, <2>2 DEF BadCast
<1>2. CASE src # dst
  <2>1. Cardinality({src, dst} \intersect DOMAIN PlainOf) = 1 <=> (src \in DOMAIN PlainOf <=> dst \notin DOMAIN PlainOf)
    BY <1>2, OneNullable
  <2>2. CASE dst \in DOMAIN PlainOf /\ src \in PlainOf[dst]
    <3>1. src \notin DOMAIN PlainOf /\ Kind(src) = Kind(dst)
      BY <2>2, PlainKind
    <3>2. CastType(src, dst) = "wrap"
      BY <1>2, <2>2, <3>1 DEF CastType
    <3> QED BY <2>1, <2>2, <3>1, <3>2 DEF BadCast
  <2>3. CASE src \in DOMAIN PlainOf /\ dst \in PlainOf[src]
    <3>1. dst \notin DOMAIN PlainOf /\ Kind(src) = Kind(dst)
      BY <2>3, PlainKind
    <3>2. CastType(src, dst) = IF src \in {"NullBool", "NullTime"} THEN "unbalanced" ELSE "unwrap"
      BY <1>2, <2>3, <3>1 DEF CastType
    <3>3. src \in {"NullBool", "NullTime"} <=> Kind(src) \in {"bool", "time"}
      BY <2>3, PlainOfIs DEF Kind, Ints
    <3> QED BY <1>2, <2>1, <2>3, <3>1, <3>2, <3>3 DEF BadCast
  <2>4. CASE ~(dst \in DOMAIN PlainOf /\ src \in PlainOf[dst]) /\ ~(src \in DOMAIN PlainOf /\ dst \in PlainOf[src])
    <3>1. CastType(src, dst) = "error"
      BY <1>2, <2>4 DEF CastType
    <3>2. (src \in DOMAIN PlainOf <=> dst \notin DOMAIN PlainOf) => Kind(src) # Kind(dst)
      BY <2>4, PlainKind
    <3> QED BY <1>2, <2>1, <3>1, <3>2 DEF BadCast
  <2> QED BY <2>2, <2>3, <2>4
<1> QED BY <1>1, <1>2

-----------------------------------------------------------------------------
(* Two of what there may be one of.                                        *)

\* The primary indices of a table, of which there are two, or columns that are
\* numbered.
LEMMA MultipleIs ==
  ASSUME NEW s \in Schemas, NEW m \in DOMAIN s
  PROVE  Multiple(s[m]) <=> TwoOf(s[m])
<1>1. PICK info : info = s[m]
  OBVIOUS
<1>2. IsList(info.columns) /\ IsList(info.indices)
  BY <1>1, TableMetaAssumption
<1>3. PICK cols \in Nat : DOMAIN info.columns = 1 .. cols
  BY <1>2 DEF IsList
<1>4. PICK l \in Nat : Len(info.indices) = l /\ DOMAIN info.indices = 1 .. l
  BY <1>2 DEF IsList
<1>5. Cardinality(AutoIncs(info)) > 1 <=>
        \E a, b \in DOMAIN info.columns : a # b /\ info.columns[a].autoInc /\ info.columns[b].autoInc
  <2>1. IsFiniteSet(AutoIncs(info))
    <3>1. AutoIncs(info) \subseteq 1 .. cols
      BY <1>3 DEF AutoIncs
    <3>2. IsFiniteSet(1 .. cols)
      BY FS_Interval
    <3> QED BY <3>1, <3>2, FS_Subset
  <2> QED BY <2>1, TwoElements DEF AutoIncs
<1> DEFINE Is(a) == IF a = 0 THEN info.handle # 0 ELSE info.indices[a].primary
           P == Primaries(Indices(info))
<1>6. (\E x, y \in P : x # y) <=> \E a, b \in 0 .. l : a < b /\ info.indices[b].primary /\ Is(a)
  <2>1. ASSUME info.handle = 0
        PROVE  P = {k \in 1 .. l : info.indices[k].primary}
    <3>1. Indices(info) = info.indices
      BY <1>2, <2>1 DEF Indices, NewIndexMetaFromPKHandler, IsList
    <3> QED BY <1>4, <3>1 DEF Primaries
  <2>2. ASSUME info.handle # 0
        PROVE  /\ 1 \in P /\ P \subseteq 1 .. l + 1
               /\ \A k \in 1 .. l : k + 1 \in P <=> info.indices[k].primary
    <3> DEFINE pk == [name |-> <<"primary">>, unique |-> TRUE, primary |-> TRUE, columns |-> <<info.handle>>]
    <3>1. Indices(info) = <<pk>> \o info.indices /\ pk.primary
      BY <2>2 DEF Indices, NewIndexMetaFromPKHandler
    <3> HIDE DEF pk
    <3>2. /\ DOMAIN Indices(info) = 1 .. l + 1 /\ Indices(info)[1] = pk
          /\ \A k \in 1 .. l : Indices(info)[k + 1] = info.indices[k]
      BY <1>2, <1>4, <3>1 DEF IsList
    <3> QED BY <1>4, <3>1, <3>2 DEF Primaries
  <2> HIDE DEF P
  <2>3. CASE info.handle = 0
    <3>1. ASSUME NEW x \in P, NEW y \in P, x # y
          PROVE  \E a, b \in 0 .. l : a < b /\ info.indices[b].primary /\ Is(a)
      <4>1. x \in 1 .. l /\ y \in 1 .. l /\ info.indices[x].primary /\ info.indices[y].primary /\ (x < y \/ y < x)
        BY <2>1, <2>3, <3>1
      <4> QED BY <4>1
    <3>2. ASSUME NEW a \in 0 .. l, NEW b \in 0 .. l, a < b, info.indices[b].primary, Is(a)
          PROVE  \E x, y \in P : x # y
      <4>1. a # 0 /\ info.indices[a].primary
        BY <2>3, <3>2
      <4>2. a \in P /\ b \in P /\ a # b
        BY <2>1, <2>3, <3>2, <4>1
      <4> QED BY <4>2
    <3> HIDE DEF Is
    <3> QED BY <3>1, <3>2
  <2>4. CASE info.handle # 0
    <3>1. ASSUME NEW x \in P, NEW y \in P, x < y
          PROVE  \E a, b \in 0 .. l : a < b /\ info.indices[b].primary /\ Is(a)
      <4>1. x \in 1 .. l + 1 /\ y \in 1 .. l + 1 /\ y - 1 \in 1 .. l /\ (y - 1) + 1 = y
        BY <2>2, <2>4, <3>1
      <4>2. info.indices[y - 1].primary
        BY <2>2, <2>4, <4>1
      <4>3. 0 \in 0 .. l /\ y - 1 \in 0 .. l /\ 0 < y - 1 /\ Is(0)
        BY <2>4, <4>1
      <4> QED BY <4>2, <4>3
    <3>2. ASSUME NEW x \in P, NEW y \in P, x # y
          PROVE  x < y \/ y < x
      BY <2>2, <2>4, <3>2
    <3>3. ASSUME NEW a \in 0 .. l, NEW b \in 0 .. l, a < b, info.indices[b].primary
          PROVE  \E x, y \in P : x # y
      <4>1. b \in 1 .. l /\ b + 1 \in P /\ 1 \in P /\ b + 1 # 1
        BY <2>2, <2>4, <3>3
      <4> QED BY <4>1
    <3> HIDE DEF Is
    <3> QED BY <3>1, <3>2, <3>3
  <2> QED BY <2>3, <2>4
<1>7. IsFiniteSet(P)
  <2>1. Len(Indices(s[m])) \in Nat /\ DOMAIN Indices(s[m]) = 1 .. Len(Indices(s[m]))
    BY KeysAre
  <2>2. P \subseteq 1 .. Len(Indices(s[m]))
    BY <1>1, <2>1 DEF Primaries
  <2>3. IsFiniteSet(1 .. Len(Indices(s[m])))
    BY <2>1, FS_Interval
  <2> QED BY <2>2, <2>3, FS_Subset
<1>8. Cardinality(P) > 1 <=> \E x, y \in P : x # y
  <2> HIDE DEF P
  <2> QED BY <1>7, TwoElements
<1>9. Multiple(info) <=> (Cardinality(AutoIncs(info)) > 1 \/ Cardinality(P) > 1)
  BY DEF Multiple
<1>10. TwoOf(info) <=>
         \/ \E a, b \in DOMAIN info.columns : a # b /\ info.columns[a].autoInc /\ info.columns[b].autoInc
         \/ \E a, b \in 0 .. l : a < b /\ info.indices[b].primary /\ Is(a)
  BY <1>4 DEF TwoOf
<1> HIDE DEF P, Is
<1> QED BY <1>1, <1>5, <1>6, <1>8, <1>9, <1>10

-----------------------------------------------------------------------------
(* Tables of which code is made.                                           *)

\* All tables are known.
Complete == DOMAIN tables = {schema[m].name : m \in DOMAIN schema}

\* A cast of a key's column is bad for what Mismatch says.
LEMMA CastBad ==
  ASSUME MetaInv, NEW m \in DOMAIN schema, NEW f \in DOMAIN schema[m].foreignKeys,
         RefIndex(schema[m].foreignKeys[f]) # 0, NEW j \in DOMAIN schema[m].foreignKeys[f].cols
  PROVE  BadCast(Cast(NewTableMeta(schema[m]), schema[m].foreignKeys[f], j)) <=>
           Mismatch(schema[m], schema[m].foreignKeys[f], j)
<1>1. PICK fk : fk = schema[m].foreignKeys[f]
  OBVIOUS
<1>2. PICK t : t = NewTableMeta(schema[m])
  OBVIOUS
<1>3. schema \in Schemas
  BY DEF MetaInv
<1>4. /\ IsList(fk.refCols) /\ DOMAIN fk.cols = DOMAIN fk.refCols
      /\ \E c \in DOMAIN schema[m].columns : fk.cols[j] = schema[m].columns[c].name
  <2>1. DOMAIN fk.cols = 1 .. Len(fk.cols) /\ DOMAIN fk.refCols = 1 .. Len(fk.cols)
    BY <1>1, <1>3, KeyLists
  <2> QED BY <1>1, <1>3, <2>1, KeyLists
<1>5. PICK c \in DOMAIN schema[m].columns : fk.cols[j] = schema[m].columns[c].name
  BY <1>4
<1>6. /\ ColumnByName(t, fk.cols[j]) = c /\ TypeIn(schema[m], fk.cols[j]) = schema[m].columns[c].type
      /\ t.columns = schema[m].columns
  BY <1>2, <1>3, <1>5, NamedColumn DEF NewTableMeta
<1>7. GoType(t, ColumnByName(t, fk.cols[j])) = AdaptType(TypeIn(schema[m], fk.cols[j]))
  BY <1>6 DEF GoType
<1>8. PICK ref : ref = tables[fk.refTable]
  OBVIOUS
<1>9. TypeIn(Info(fk.refTable), fk.refCols[j]) = ref.columns[ColumnByName(ref, fk.refCols[j])].type
  <2>1. PICK index : index = ref.indices[RefIndex(fk)]
    OBVIOUS
  <2>2. RefIndex(fk) # 0 /\ j \in DOMAIN fk.refCols
    BY <1>1, <1>4
  <2>3. /\ ColumnByName(ref, fk.refCols[j]) = index.columns[j]
        /\ TypeIn(Info(fk.refTable), fk.refCols[j]) = ref.columns[index.columns[j]].type
    BY <1>4, <1>8, <2>1, <2>2, RefColumns
  <2> QED BY <2>3
<1>10. GoType(ref, ColumnByName(ref, fk.refCols[j])) = AdaptType(TypeIn(Info(fk.refTable), fk.refCols[j]))
  BY <1>9 DEF GoType
<1>11. PICK src \in GoTypes, dst \in GoTypes :
         /\ src = AdaptType(TypeIn(schema[m], fk.cols[j]))
         /\ dst = AdaptType(TypeIn(Info(fk.refTable), fk.refCols[j]))
  BY AdaptGo
<1>12. Cast(t, fk, j) = CastType(src, dst)
  BY <1>7, <1>8, <1>10, <1>11 DEF Cast
<1>13. Mismatch(schema[m], fk, j) <=>
         /\ src # dst
         /\ \/ Kind(src) # Kind(dst) \/ Cardinality({src, dst} \intersect DOMAIN PlainOf) # 1
            \/ /\ src \in {src, dst} \intersect DOMAIN PlainOf
               /\ Kind(src) \in {"bool", "time"} /\ ~options.NoFormat
  BY <1>11 DEF Mismatch
<1> QED BY <1>1, <1>2, <1>12, <1>13, MismatchIs

\* A key stops the rendering, or what is rendered cannot be formatted, for what
\* BadKey says.
LEMMA KeyBad ==
  ASSUME MetaInv, Complete, NEW m \in DOMAIN schema, NEW f \in DOMAIN schema[m].foreignKeys
  PROVE  BadKey(schema[m], schema[m].foreignKeys[f]) <=>
           \/ RefIndex(schema[m].foreignKeys[f]) = 0
           \/ /\ f \in Accessors(NewTableMeta(schema[m]))
              /\ \E j \in DOMAIN schema[m].foreignKeys[f].cols :
                   BadCast(Cast(NewTableMeta(schema[m]), schema[m].foreignKeys[f], j))
<1>1. PICK fk : fk = schema[m].foreignKeys[f]
  OBVIOUS
<1>2. PICK t : t = NewTableMeta(schema[m])
  OBVIOUS
<1>3. fk.refTable \in {i.name : i \in Infos} <=> fk.refTable \in DOMAIN tables
  BY DEF Complete, Infos, ToSet
<1>4. IsList(fk.refCols) /\ schema \in Schemas
  BY <1>1, KeyLists DEF MetaInv
<1>5. CASE RefIndex(fk) = 0
  <2>1. fk.refTable \in DOMAIN tables => Found(fk) = {}
    BY <1>4, <1>5, FoundIs
  <2> QED BY <1>1, <1>3, <1>5, <2>1 DEF BadKey
<1>6. CASE RefIndex(fk) # 0
  <2>1. fk.refTable \in DOMAIN tables
    BY <1>6 DEF RefIndex
  <2>2. Found(fk) = {RefIndex(fk)} /\ RefIndex(fk) \in DOMAIN tables[fk.refTable].indices
    BY <1>4, <1>6, <2>1, FoundIs
  <2>3. PICK l \in DOMAIN schema : /\ tables[fk.refTable] = NewTableMeta(schema[l])
                                   /\ Info(fk.refTable) = schema[l]
    BY <2>1, KnownInfo
  <2>4. tables[fk.refTable].indices = Indices(schema[l])
    BY <2>3 DEF NewTableMeta
  <2>5. UniqueKey(Info(fk.refTable), RefIndex(fk)) <=> tables[fk.refTable].indices[RefIndex(fk)].unique
    BY <1>4, <2>2, <2>3, <2>4, KeysAre
  <2>6. t.foreignKeys = schema[m].foreignKeys
    BY <1>2 DEF NewTableMeta
  <2>7. f \in Accessors(t) <=> \E k \in Found(fk) : UniqueKey(Info(fk.refTable), k)
    BY <1>1, <1>6, <2>2, <2>5, <2>6 DEF Accessors
  <2>8. \A j \in DOMAIN fk.cols : BadCast(Cast(t, fk, j)) <=> Mismatch(schema[m], fk, j)
    BY <1>1, <1>2, <1>6, CastBad
  <2>9. BadKey(schema[m], fk) <=> /\ \E k \in Found(fk) : UniqueKey(Info(fk.refTable), k)
                                  /\ \E j \in DOMAIN fk.cols : Mismatch(schema[m], fk, j)
    BY <1>3, <2>1, <2>2 DEF BadKey
  <2> QED BY <1>1, <1>2, <1>6, <2>7, <2>8, <2>9
<1> QED BY <1>5, <1>6

\* The names of parameters are made of those of the keys without duplicates.
LEMMA ParamsAre ==
  ASSUME NEW s \in Schemas, NEW m \in DOMAIN s, NEW word
  PROVE  word \in ParamNames(s[m]) <=>
           \E k \in UniqueIndices(NewTableMeta(s[m])) :
             \E j \in DOMAIN Params(NewTableMeta(s[m]), k) : Params(NewTableMeta(s[m]), k)[j].name = word
<1>1. PICK t : t = NewTableMeta(s[m])
  OBVIOUS
<1>2. PICK keys : keys = Keys(s[m])
  OBVIOUS
<1>3. PICK l \in Nat : DOMAIN t.indices = 1 .. l /\ DOMAIN keys = 1 .. l
  BY <1>1, <1>2, KeysAre DEF NewTableMeta
<1>4. ASSUME NEW k \in 1 .. l
      PROVE  /\ UniqueKey(s[m], k) <=> k \in UniqueIndices(t)
             /\ DOMAIN keys[k] = DOMAIN Params(t, k)
             /\ \A j \in DOMAIN keys[k] : Params(t, k)[j].name = Pascal(keys[k][j])
  <2>1. t.indices = Indices(s[m])
    BY <1>1 DEF NewTableMeta
  <2>2. keys[k] = ColumnNames(t, t.indices[k]) /\ (UniqueKey(s[m], k) <=> t.indices[k].unique)
    BY <1>1, <1>2, <1>3, <2>1, KeysAre
  <2> QED BY <1>3, <2>2 DEF ColumnNames, Params, UniqueIndices
<1>5. UniqueIndices(t) \subseteq 1 .. l
  BY <1>3 DEF UniqueIndices
<1>6. word \in ParamNames(s[m]) <=> \E k \in 1 .. l : UniqueKey(s[m], k) /\ \E j \in DOMAIN keys[k] : Pascal(keys[k][j]) = word
  BY <1>2, <1>3 DEF ParamNames, ToSet
<1> QED BY <1>1, <1>4, <1>5, <1>6

\* A table of which the code is made.
Makes(t) == Renders(t) /\ (options.NoFormat \/ Parses(t))

\* It is made if none of the causes is there.
LEMMA MadeIs ==
  ASSUME MetaInv, Complete, NEW m \in DOMAIN schema
  PROVE  Makes(NewTableMeta(schema[m])) <=>
           /\ ~BadName(schema[m])
           /\ \A fk \in ToSet(schema[m].foreignKeys) : ~BadKey(schema[m], fk)
<1>1. PICK info : info = schema[m]
  OBVIOUS
<1>2. PICK t : t = NewTableMeta(info)
  OBVIOUS
<1>3. schema \in Schemas
  BY DEF MetaInv
<1>4. t.foreignKeys = info.foreignKeys /\ t.columns = info.columns /\ t.name = info.name
  BY <1>2 DEF NewTableMeta
<1>5. Accessors(t) \subseteq DOMAIN info.foreignKeys
  BY <1>4 DEF Accessors
<1> DEFINE Bad(f) == \/ RefIndex(info.foreignKeys[f]) = 0
                     \/ /\ f \in Accessors(t)
                        /\ \E j \in DOMAIN info.foreignKeys[f].cols : BadCast(Cast(t, info.foreignKeys[f], j))
<1>6. (\A fk \in ToSet(info.foreignKeys) : ~BadKey(info, fk)) <=> \A f \in DOMAIN info.foreignKeys : ~Bad(f)
  <2>1. \A f \in DOMAIN info.foreignKeys : BadKey(info, info.foreignKeys[f]) <=> Bad(f)
    BY <1>1, <1>2, KeyBad
  <2> HIDE DEF Bad
  <2> QED BY <2>1 DEF ToSet
<1>7. (\A f \in DOMAIN info.foreignKeys : ~Bad(f)) <=>
        /\ \A f \in DOMAIN t.foreignKeys : RefIndex(t.foreignKeys[f]) # 0
        /\ "error" \notin Casts(t) /\ (options.NoFormat \/ "unbalanced" \notin Casts(t))
  <2>1. \A cast : cast \in Casts(t) <=>
          \E f \in Accessors(t) : \E j \in DOMAIN info.foreignKeys[f].cols : Cast(t, info.foreignKeys[f], j) = cast
    BY <1>4 DEF Casts
  <2>2. (\E f \in Accessors(t) : \E j \in DOMAIN info.foreignKeys[f].cols : BadCast(Cast(t, info.foreignKeys[f], j)))
          <=> "error" \in Casts(t) \/ (~options.NoFormat /\ "unbalanced" \in Casts(t))
    BY <2>1 DEF BadCast
  <2> QED BY <1>4, <1>5, <2>2
<1>8. /\ <<>> \in ParamNames(info) <=>
           \E k \in UniqueIndices(t) : \E j \in DOMAIN Params(t, k) : Params(t, k)[j].name = <<>>
      /\ ParamNames(info) \intersect GoKeywords # {} <=>
           \E k \in UniqueIndices(t) : \E j \in DOMAIN Params(t, k) : Params(t, k)[j].name \in GoKeywords
  <2>1. \A word : word \in ParamNames(info) <=>
          \E k \in UniqueIndices(t) : \E j \in DOMAIN Params(t, k) : Params(t, k)[j].name = word
    BY <1>1, <1>2, <1>3, ParamsAre
  <2> QED BY <2>1
<1>9. StructName(t) # <<>> /\ (\A c \in DOMAIN t.columns : Pascal(t.columns[c].name) # <<>>) <=>
        ~(Pascal(info.name) = <<>> \/ \E c \in ToSet(info.columns) : Pascal(c.name) = <<>>)
  BY <1>4 DEF StructName, ToSet
<1> HIDE DEF Bad
<1> QED BY <1>1, <1>2, <1>6, <1>7, <1>8, <1>9 DEF Makes, Renders, Parses, BadName

-----------------------------------------------------------------------------
(* Causes.                                                                 *)

\* A cause for making the code to stop.
Caused ==
  \E info \in Infos :
    \/ TwoOf(info) \/ BadName(info)
    \/ \E fk \in ToSet(info.foreignKeys) : BadKey(info, fk)

\* The first k tables are known, and none of them has two of what it may have once.
Added(k) ==
  /\ DOMAIN tables = {schema[m].name : m \in 1 .. k}
  /\ \A m \in 1 .. k : ~TwoOf(schema[m])

\* How far the code is made, and that it stopped for a cause.
CauseInv ==
  /\ phase = "meta" =>
       /\ Cardinality(DOMAIN tables) \in 0 .. Len(schema)
       /\ Added(Cardinality(DOMAIN tables))
  /\ phase \in {"render", "rendered", "run"} => Added(Len(schema))
  /\ \A n \in DOMAIN files : Makes(tables[n])
  /\ phase = "stopped" => Caused

\* The tables are known one by one.
LEMMA SchemaList ==
  ASSUME MetaInv
  PROVE  /\ Len(schema) \in Nat /\ DOMAIN schema = 1 .. Len(schema)
         /\ \A m, n \in DOMAIN schema : schema[m].name = schema[n].name => m = n
<1>1. schema \in Schemas /\ IsList(schema)
  BY TableMetaAssumption DEF MetaInv
<1>2. \A m, n \in DOMAIN schema : schema[m].name = schema[n].name => m = n
  BY <1>1, TableMetaAssumption
<1> QED BY <1>1, <1>2 DEF IsList

\* What is made of a table is made again.
LEMMA MakesStays ==
  ASSUME UNCHANGED <<options, tables>>, NEW t
  PROVE  Makes(t)' <=> Makes(t)
<1>1. Casts(t)' = Casts(t)
  BY PartsStay DEF Casts
<1>2. Renders(t)' <=> Renders(t)
  BY <1>1, PartsStay DEF Renders
<1>3. Parses(t)' <=> Parses(t)
  BY <1>1, PartsStay DEF Parses
<1> QED BY <1>2, <1>3 DEF Makes

\* The causes are those of what TiDB holds.
LEMMA CausedStays ==
  ASSUME UNCHANGED <<options, schema>>
  PROVE  Caused' <=> Caused
<1>1. \A name : Info(name)' = Info(name)
  BY DEF Info
<1>2. \A fk : Found(fk)' = Found(fk)
  BY <1>1 DEF Found
<1>3. \A ft : AdaptType(ft)' = AdaptType(ft)
  BY DEF AdaptType
<1>4. \A info, fk, j : Mismatch(info, fk, j)' <=> Mismatch(info, fk, j)
  BY <1>1, <1>3 DEF Mismatch
<1>5. Infos' = Infos
  BY DEF Infos
<1>6. \A info, fk : BadKey(info, fk)' <=> BadKey(info, fk)
  BY <1>1, <1>2, <1>4, <1>5 DEF BadKey
<1>7. \A info : BadName(info)' <=> BadName(info)
  BY DEF BadName
<1> QED BY <1>5, <1>6, <1>7 DEF Caused

\* Nothing is added to the files, or to the tables, in any other step.
LEMMA MadeStay ==
  ASSUME CauseInv, UNCHANGED <<options, tables>>, DOMAIN files' \subseteq DOMAIN files
  PROVE  \A n \in DOMAIN files' : Makes(tables[n])'
<1>1. ASSUME NEW n \in DOMAIN files'
      PROVE  Makes(tables[n])'
  <2>1. PICK t : t = tables[n]
    OBVIOUS
  <2>2. Makes(t)
    BY <1>1, <2>1 DEF CauseInv
  <2>3. Makes(tables[n])' <=> Makes(t)'
    BY <2>1
  <2> QED BY <2>2, <2>3, MakesStays
<1> QED BY <1>1

\* And so are the tables that are known.
LEMMA AddedStays ==
  ASSUME UNCHANGED <<schema, tables>>, NEW k
  PROVE  Added(k)' <=> Added(k)
BY DEF Added

\* A table more.
LEMMA AddTableCause ==
  ASSUME MetaInv, FilesInv, CauseInv, AddTable, UNCHANGED files
  PROVE  CauseInv'
<1>1. PICK k : k = Cardinality(DOMAIN tables)
  OBVIOUS
<1>2. PICK info : info = schema[k + 1]
  OBVIOUS
<1>3. /\ phase = "meta" /\ phase' = "meta" /\ k < Len(schema) /\ schema' = schema /\ options' = options
      /\ ~Multiple(info) /\ tables' = Put(tables, info.name, NewTableMeta(info))
  BY <1>1, <1>2 DEF AddTable
<1>4. /\ Len(schema) \in Nat /\ DOMAIN schema = 1 .. Len(schema)
      /\ \A m, n \in DOMAIN schema : schema[m].name = schema[n].name => m = n
  BY SchemaList
<1>5. k \in Nat /\ k + 1 \in DOMAIN schema /\ Added(k)
  BY <1>1, <1>3, <1>4 DEF CauseInv
<1>6. ~TwoOf(info)
  BY <1>2, <1>3, <1>5, MultipleIs DEF MetaInv
<1>7. info.name \notin DOMAIN tables
  <2>1. \A m \in 1 .. k : m \in DOMAIN schema /\ m # k + 1
    BY <1>4, <1>5
  <2> QED BY <1>2, <1>4, <1>5, <2>1 DEF Added
<1>8. DOMAIN tables' = DOMAIN tables \union {info.name}
  BY <1>3 DEF Put
<1>9. Cardinality(DOMAIN tables') = k + 1
  BY <1>1, <1>7, <1>8, FS_AddElement DEF MetaInv
<1>10. DOMAIN tables' = {schema[m].name : m \in 1 .. k + 1}
  <2>1. \A m : m \in 1 .. k + 1 <=> m \in 1 .. k \/ m = k + 1
    BY <1>5
  <2> QED BY <1>2, <1>5, <1>8, <2>1 DEF Added
<1>11. \A m \in 1 .. k + 1 : ~TwoOf(schema[m])
  <2>1. \A m \in 1 .. k + 1 : m \in 1 .. k \/ m = k + 1
    BY <1>5
  <2> QED BY <1>2, <1>5, <1>6, <2>1 DEF Added
<1>12. Added(k + 1)'
  BY <1>3, <1>10, <1>11 DEF Added, TwoOf
<1>13. DOMAIN files' = {}
  BY <1>3 DEF FilesInv
<1>14. Cardinality(DOMAIN tables)' = k + 1 /\ k + 1 \in 0 .. Len(schema')
  BY <1>3, <1>4, <1>5, <1>9
<1>15. Added(Cardinality(DOMAIN tables))'
  BY <1>12, <1>14 DEF Added
<1> QED BY <1>3, <1>13, <1>14, <1>15 DEF CauseInv

\* The other steps that make the code.
LEMMA CodeCause ==
  ASSUME MetaInv, FilesInv, CauseInv, NextCode
  PROVE  CauseInv'
<1>1. CASE AddTable /\ UNCHANGED files
  BY <1>1, AddTableCause
<1>2. CASE PanicMultiple /\ UNCHANGED files
  <2>1. PICK k : k = Cardinality(DOMAIN tables)
    OBVIOUS
  <2>2. /\ phase = "meta" /\ k < Len(schema) /\ Multiple(schema[k + 1]) /\ phase' = "stopped"
        /\ UNCHANGED <<options, schema, tables, files>>
    BY <1>2, <2>1 DEF PanicMultiple
  <2>3. k + 1 \in DOMAIN schema
    BY <2>1, <2>2, SchemaList DEF CauseInv
  <2>4. TwoOf(schema[k + 1]) /\ schema[k + 1] \in Infos
    BY <2>2, <2>3, MultipleIs DEF MetaInv, Infos, ToSet
  <2>5. Caused'
    BY <2>2, <2>4, CausedStays DEF Caused
  <2>6. \A n \in DOMAIN files' : Makes(tables[n])'
    BY <2>2, MadeStay
  <2> QED BY <2>2, <2>5, <2>6 DEF CauseInv
<1>3. CASE NewDBMeta /\ UNCHANGED files
  <2>1. /\ phase = "meta" /\ Cardinality(DOMAIN tables) = Len(schema) /\ phase' = "render"
        /\ UNCHANGED <<options, schema, tables, files>>
    BY <1>3 DEF NewDBMeta
  <2>2. PICK k : k = Len(schema)
    OBVIOUS
  <2>3. Added(k) /\ (Added(Len(schema)))' = Added(k)'
    BY <2>1, <2>2 DEF CauseInv, Added
  <2>4. \A n \in DOMAIN files' : Makes(tables[n])'
    BY <2>1, MadeStay
  <2>5. (Added(Len(schema)))'
    BY <2>1, <2>3, AddedStays
  <2> QED BY <2>1, <2>4, <2>5 DEF CauseInv
<1>4. CASE EndRender
  <2>1. /\ phase = "render" /\ phase' = "rendered" /\ UNCHANGED <<options, schema, tables, files>>
    BY <1>4 DEF EndRender
  <2>2. Added(Len(schema))'
    BY <2>1 DEF CauseInv, Added, TwoOf
  <2>3. \A n \in DOMAIN files' : Makes(tables[n])'
    BY <2>1, MadeStay
  <2> QED BY <2>1, <2>2, <2>3 DEF CauseInv
<1>5. ASSUME NEW n \in DOMAIN tables,
             RenderTable(tables[n]) \/ FailTable(tables[n]) \/ FailFormat(tables[n])
      PROVE  CauseInv'
  <2>1. PICK t : t = tables[n]
    OBVIOUS
  <2>2. t.name = n /\ phase = "render" /\ UNCHANGED <<options, schema, tables>>
    BY <1>5, <2>1, NamedByItself DEF RenderTable, FailTable, FailFormat, CanRender
  <2>3. Added(Len(schema)) /\ Added(Len(schema))'
    BY <2>2 DEF CauseInv, Added, TwoOf
  <2>4. CASE RenderTable(t)
    <3>1. files' = Put(files, n, File(t)) /\ phase' = "render" /\ Makes(t)
      BY <2>2, <2>4 DEF RenderTable, Makes
    <3>2. ASSUME NEW l \in DOMAIN files'
          PROVE  Makes(tables[l])'
      <4>1. PICK u : u = tables[l]
        OBVIOUS
      <4>2. Makes(u)
        BY <2>1, <3>1, <4>1 DEF CauseInv, Put
      <4>3. Makes(tables[l])' <=> Makes(u)'
        BY <2>2, <4>1
      <4> QED BY <2>2, <4>2, <4>3, MakesStays
    <3> QED BY <2>3, <3>1, <3>2 DEF CauseInv
  <2>5. CASE FailTable(t) \/ FailFormat(t)
    <3>1. phase' = "stopped" /\ files' = files /\ ~Makes(t)
      BY <2>5 DEF FailTable, FailFormat, Makes
    <3>2. Complete
      BY <2>3, SchemaList DEF Added, Complete
    <3>3. PICK m \in DOMAIN schema : t = NewTableMeta(schema[m])
      BY <2>1, KnownInfo
    <3>4. BadName(schema[m]) \/ \E fk \in ToSet(schema[m].foreignKeys) : BadKey(schema[m], fk)
      BY <3>1, <3>2, <3>3, MadeIs
    <3>5. Caused
      BY <3>4 DEF Caused, Infos, ToSet
    <3>6. \A l \in DOMAIN files' : Makes(tables[l])'
      BY <2>2, <3>1, MadeStay
    <3> QED BY <2>2, <3>1, <3>5, <3>6, CausedStays DEF CauseInv
  <2> QED BY <1>5, <2>1, <2>4, <2>5
<1> QED BY <1>1, <1>2, <1>3, <1>4, <1>5 DEF NextCode, NextMeta

\* A step that changes neither the code nor the tables.
LEMMA SameCause ==
  ASSUME CauseInv, UNCHANGED <<options, schema, tables, files>>,
         phase' = phase \/ (phase = "rendered" /\ phase' = "run")
  PROVE  CauseInv'
<1>1. \A n \in DOMAIN files' : Makes(tables[n])'
  BY MadeStay
<1>2. Added(Len(schema))' <=> Added(Len(schema))
  BY DEF Added, TwoOf
<1>3. Added(Cardinality(DOMAIN tables))' <=> Added(Cardinality(DOMAIN tables))
  BY DEF Added, TwoOf
<1>4. /\ Cardinality(DOMAIN tables)' = Cardinality(DOMAIN tables) /\ Len(schema)' = Len(schema)
      /\ (Caused' <=> Caused)
  BY CausedStays
<1> QED BY <1>1, <1>2, <1>3, <1>4 DEF CauseInv

\* Making the code stops for the causes that the property names, and only for these,
\* whatever tables TiDB holds (db_meta.go:84-108, 320-350; table.go:303-346;
\* main.go:248-256): code that is made of all of them has none of the causes.
THEOREM StoppedForCause == Spec => []StopsForCause
<1>1. InitEntry => CauseInv
  <2>1. InitEntry => phase = "meta" /\ DOMAIN tables = {} /\ DOMAIN files = {} /\ schema \in Schemas
    BY DEF InitEntry, InitCode, InitMeta
  <2>2. schema \in Schemas => Len(schema) \in Nat
    BY TableMetaAssumption DEF IsList
  <2>3. DOMAIN tables = {} => Cardinality(DOMAIN tables) = 0
    BY FS_EmptySet
  <2>4. \A m : m \notin 1 .. 0
    OBVIOUS
  <2>5. DOMAIN tables = {} => Added(0)
    BY <2>4 DEF Added
  <2> QED BY <2>1, <2>2, <2>3, <2>5 DEF CauseInv
<1>2. IInv /\ CauseInv /\ [Next]_vars => CauseInv'
  <2> SUFFICES ASSUME MetaInv, FilesInv, CauseInv, [Next]_vars PROVE CauseInv'
    BY DEF IInv
  <2>1. CASE UNCHANGED vars
    BY <2>1, SameCause DEF vars
  <2>2. CASE NextCode
    BY <2>2, CodeCause
  <2>3. ASSUME NEW n \in DOMAIN tables, Start(n)
        PROVE  CauseInv'
    BY <2>3, SameCause DEF Start
  <2>4. CASE phase = "run" /\ NextRun
    <3>1. UNCHANGED <<options, phase, schema, tables, files>>
      BY <2>4 DEF NextRun, ClientInsert, Make, Insert, InsertRefused, Update, UpdateRefused, Delete, Find,
                  FindFails, Came
    <3> QED BY <3>1, SameCause
  <2> QED BY <2>1, <2>2, <2>3, <2>4 DEF Next
<1>3. IInv /\ CauseInv => StopsForCause
  <2> SUFFICES ASSUME MetaInv, FilesInv, CauseInv PROVE StopsForCause
    BY DEF IInv
  <2>1. phase = "stopped" => Caused
    BY DEF CauseInv
  <2>2. ASSUME phase \in {"rendered", "run"}, NEW m \in DOMAIN schema
        PROVE  /\ ~TwoOf(schema[m]) /\ ~BadName(schema[m])
               /\ \A fk \in ToSet(schema[m].foreignKeys) : ~BadKey(schema[m], fk)
    <3>1. Added(Len(schema)) /\ Complete
      BY <2>2, SchemaList DEF CauseInv, Added, Complete
    <3>2. PICK n : n = schema[m].name
      OBVIOUS
    <3>3. n \in DOMAIN tables /\ DOMAIN files = DOMAIN tables
      BY <2>2, <3>1, <3>2 DEF Complete, FilesInv
    <3>4. tables[n] = NewTableMeta(schema[m])
      <4>1. PICK l \in DOMAIN schema : schema[l].name = n /\ tables[n] = NewTableMeta(schema[l])
        BY <3>3 DEF MetaInv, Known
      <4>2. l = m
        BY <3>2, <4>1, SchemaList
      <4> QED BY <4>1, <4>2
    <3>5. Makes(NewTableMeta(schema[m]))
      BY <3>3, <3>4 DEF CauseInv
    <3>6. ~TwoOf(schema[m])
      BY <3>1, SchemaList DEF Added
    <3> QED BY <3>1, <3>5, <3>6, MadeIs
  <2>3. phase \in {"rendered", "run"} => ~Caused
    BY <2>2 DEF Caused, Infos, ToSet
  <2> QED BY <2>1, <2>3 DEF StopsForCause, Caused
<1> QED BY <1>1, <1>2, <1>3, Inductive, PTL DEF Spec

-----------------------------------------------------------------------------
(* Names.                                                                  *)

\* What PascalCase makes of a name is of words.
LEMMA PascalWords ==
  ASSUME NEW name, IsList(name)
  PROVE  Pascal(name) \in Seq(Words)
<1>1. PICK l \in Nat : l = Len(name) /\ DOMAIN name = 1 .. l
  BY DEF IsList
<1> DEFINE parts == [i \in DOMAIN name |-> IF name[i] \in Words THEN <<name[i]>> ELSE <<>>]
<1>2. ASSUME NEW i \in 1 .. l
      PROVE  parts[i] \in Seq(Words)
  BY <1>1
<1>3. parts = [i \in 1 .. l |-> parts[i]]
  BY <1>1
<1>4. parts \in Seq(Seq(Words))
  <2> HIDE DEF parts
  <2>1. parts \in [1 .. l -> Seq(Words)]
    BY <1>2, <1>3
  <2> QED BY <2>1
<1> HIDE DEF parts
<1>5. FlattenSeq(parts) \in Seq(Words)
  BY <1>4, FlattenType
<1> QED BY <1>5 DEF Pascal, parts

\* Two sequences that go on to the same one: one begins with the other.
LEMMA SameWhole ==
  ASSUME NEW X, NEW a \in Seq(X), NEW b \in Seq(X), NEW x \in Seq(X), NEW y \in Seq(X), a \o x = b \o y
  PROVE  IsPrefix(a, b) \/ IsPrefix(b, a)
<1>1. a \in Seq(ToSet(a)) /\ b \in Seq(ToSet(b))
  BY DEF ToSet
<1>2. /\ Len(a) \in Nat /\ Len(b) \in Nat /\ DOMAIN a = 1 .. Len(a) /\ DOMAIN b = 1 .. Len(b)
      /\ \A i \in 1 .. Len(a) : (a \o x)[i] = a[i]
      /\ \A i \in 1 .. Len(b) : (b \o y)[i] = b[i]
  OBVIOUS
<1>3. Alike(a, b)
  BY <1>2 DEF Alike
<1> QED BY <1>1, <1>3, AlikeIs DEF IsList

\* And if it is the same one that they begin with, they go on in the same way.
LEMMA SameRest ==
  ASSUME NEW X, NEW a \in Seq(X), NEW x \in Seq(X), NEW y \in Seq(X), a \o x = a \o y
  PROVE  x = y
<1>1. /\ Len(a) \in Nat /\ Len(x) \in Nat /\ Len(y) \in Nat
      /\ Len(a \o x) = Len(a) + Len(x) /\ Len(a \o y) = Len(a) + Len(y)
  OBVIOUS
<1>2. Len(x) = Len(y)
  BY <1>1
<1>3. ASSUME NEW i \in 1 .. Len(x)
      PROVE  x[i] = y[i]
  <2>1. (a \o x)[Len(a) + i] = x[i] /\ (a \o y)[Len(a) + i] = y[i]
    BY <1>1, <1>2
  <2> QED BY <2>1
<1> QED BY <1>2, <1>3

\* A sequence begins with itself, and with its beginning.
LEMMA BeginsWith ==
  ASSUME NEW X, NEW a \in Seq(X), NEW x \in Seq(X)
  PROVE  IsPrefix(a, a \o x) /\ IsPrefix(a, a) /\ (a # <<>> => Head(a \o x) = Head(a))
<1>1. Len(a) \in Nat /\ a \o x \in Seq(X) /\ Len(a) <= Len(a \o x) /\ \A i \in 1 .. Len(a) : (a \o x)[i] = a[i]
  OBVIOUS
<1>2. SubSeq(a \o x, 1, Len(a)) = a /\ SubSeq(a, 1, Len(a)) = a
  BY <1>1
<1>3. a # <<>> => Head(a \o x) = Head(a)
  BY <1>1
<1> QED BY <1>1, <1>2, <1>3 DEF IsPrefix

-----------------------------------------------------------------------------
(* Names that are clear.                                                   *)

\* What names are made of.
Letters == Words \union {"new", "by", "insert", "update", "delete", "NULL_", "Empty_"}

\* Names of the table, of its columns, items and indices.
ColumnWords(t, c) == Pascal(t.columns[c].name)
ItemWords(item)   == IF item = <<>> THEN <<"Empty_">> ELSE Pascal(item)
IndexWords(t, k)  == Pascal(t.indices[k].name)

\* Names that are clear, as of a table that is known.
ClearColumns(t) ==
  /\ \A c \in DOMAIN t.columns :
       /\ ColumnWords(t, c) \in Seq(Letters) /\ ColumnWords(t, c) # <<>>
       /\ Head(ColumnWords(t, c)) \notin {"by", "insert", "update", "delete"}
  /\ \A a, b \in DOMAIN t.columns : IsPrefix(ColumnWords(t, a), ColumnWords(t, b)) => a = b

ClearItems(t) ==
  \A c \in DOMAIN t.columns :
    /\ \A i \in DOMAIN Elems(t, c) :
         /\ Pascal(Elems(t, c)[i]) \in Seq(Words)
         /\ Elems(t, c)[i] # <<>> => Pascal(Elems(t, c)[i]) # <<>>
    /\ \A i, j \in DOMAIN Elems(t, c) : Pascal(Elems(t, c)[i]) = Pascal(Elems(t, c)[j]) => i = j

ClearIndices(t) ==
  /\ \A k \in DOMAIN t.indices : IndexWords(t, k) \in Seq(Letters)
  /\ \A j, k \in DOMAIN t.indices : IndexWords(t, j) = IndexWords(t, k) => j = k

ClearKeys(t) ==
  \A f \in DOMAIN t.foreignKeys :
    /\ AccessorId(t, f) \notin {ColumnWords(t, c) : c \in DOMAIN t.columns}
    /\ AccessorId(t, f) \notin {<<"insert">>, <<"update">>, <<"delete">>}
    /\ \A g \in DOMAIN t.foreignKeys : AccessorId(t, f) = AccessorId(t, g) => f = g

ClearStruct(t) ==
  /\ StructName(t) \in Seq(Letters) /\ StructName(t) # <<>> /\ Head(StructName(t)) # "new"
  /\ \A name \in StandaloneNames : ~IsPrefix(StructName(t), name)

\* A sequence of words is one of letters.
LEMMA WordsLetters ==
  ASSUME NEW s \in Seq(Words)
  PROVE  s \in Seq(Letters)
<1>1. /\ Len(s) \in Nat /\ DOMAIN s = 1 .. Len(s) /\ s = [i \in 1 .. Len(s) |-> s[i]]
      /\ \A i \in 1 .. Len(s) : s[i] \in Letters
  BY DEF Letters
<1>2. PICK l \in Nat : l = Len(s)
  BY <1>1
<1>3. s \in [1 .. l -> Letters]
  BY <1>1, <1>2
<1> QED BY <1>2, <1>3

\* The name of the index that TiDB does not keep.
LEMMA PrimaryWord == Pascal(<<"primary">>) = <<"primary">>
<1> DEFINE name  == <<"primary">>
           parts == [i \in DOMAIN name |-> IF name[i] \in Words THEN <<name[i]>> ELSE <<>>]
<1>1. parts = <<<<"primary">>>>
  BY TableCodeAssumption
<1>2. <<"primary">> \in Seq(Words)
  BY TableCodeAssumption
<1>3. Pascal(name) = FlattenSeq(parts)
  BY DEF Pascal
<1> QED BY <1>1, <1>2, <1>3, FlattenOne

\* The convention for names, of a table that is known.
LEMMA ClearIs ==
  ASSUME NEW s \in Schemas, NEW m \in DOMAIN s, ClearTable(s[m])
  PROVE  LET t == NewTableMeta(s[m])
         IN  ClearColumns(t) /\ ClearItems(t) /\ ClearIndices(t) /\ ClearKeys(t)
<1>1. PICK info : info = s[m]
  OBVIOUS
<1>2. PICK t : t = NewTableMeta(info)
  OBVIOUS
<1>3. /\ t.columns = info.columns /\ t.foreignKeys = info.foreignKeys /\ t.indices = Indices(info)
      /\ ToSet(info.columns) = {info.columns[c] : c \in DOMAIN info.columns}
  BY <1>2 DEF NewTableMeta, ToSet
<1>4. ClearColumns(t)
  <2>1. \A c \in DOMAIN info.columns : Pascal(info.columns[c].name) \in Seq(Words)
    BY <1>1, TableMetaAssumption, PascalWords
  <2>2. \A c \in DOMAIN info.columns : Pascal(info.columns[c].name) \in Seq(Letters)
    BY <2>1, WordsLetters
  <2>3. \A c \in DOMAIN info.columns :
          /\ Pascal(info.columns[c].name) # <<>>
          /\ Head(Pascal(info.columns[c].name)) \notin {"by", "insert", "update", "delete"}
    BY <1>1, <1>3 DEF ClearTable
  <2>4. \A a, b \in DOMAIN info.columns :
          IsPrefix(Pascal(info.columns[a].name), Pascal(info.columns[b].name)) => a = b
    BY <1>1 DEF ClearTable
  <2> QED BY <1>3, <2>2, <2>3, <2>4 DEF ClearColumns, ColumnWords
<1>5. ClearItems(t)
  <2>1. ASSUME NEW c \in DOMAIN info.columns
        PROVE  /\ \A i \in DOMAIN info.columns[c].type.elems :
                    /\ Pascal(info.columns[c].type.elems[i]) \in Seq(Words)
                    /\ info.columns[c].type.elems[i] # <<>> => Pascal(info.columns[c].type.elems[i]) # <<>>
               /\ \A i, j \in DOMAIN info.columns[c].type.elems :
                    Pascal(info.columns[c].type.elems[i]) = Pascal(info.columns[c].type.elems[j]) => i = j
    <3>1. PICK elems : elems = info.columns[c].type.elems
      OBVIOUS
    <3>2. \A i \in DOMAIN elems : IsList(elems[i])
      BY <1>1, <3>1, TableMetaAssumption DEF ToSet
    <3>3. info.columns[c] \in ToSet(info.columns)
      BY DEF ToSet
    <3>4. \A i, j \in DOMAIN elems :
            /\ i # j => Pascal(elems[i]) # Pascal(elems[j])
            /\ elems[i] # <<>> => Pascal(elems[i]) # <<>>
      BY <1>1, <3>1, <3>3 DEF ClearTable
    <3> QED BY <3>1, <3>2, <3>4, PascalWords
  <2> QED BY <1>3, <2>1 DEF ClearItems, Elems
<1>6. ClearIndices(t)
  <2>0. IsList(info.indices)
    BY <1>1, TableMetaAssumption
  <2>1. PICK l \in Nat : l = Len(info.indices) /\ DOMAIN info.indices = 1 .. l
    BY <2>0 DEF IsList
  <2>2. \A k \in 1 .. l : IsList(info.indices[k].name)
    BY <1>1, <2>1, TableMetaAssumption
  <2>3. \A j, k \in 1 .. l :
          /\ Pascal(info.indices[j].name) # <<"primary">> \/ info.handle = 0
          /\ Pascal(info.indices[j].name) = Pascal(info.indices[k].name) => j = k
    BY <1>1, <2>1 DEF ClearTable
  <2>4. CASE info.handle = 0
    <3>1. t.indices = info.indices
      BY <1>3, <2>0, <2>4 DEF Indices, NewIndexMetaFromPKHandler, IsList
    <3> QED BY <2>1, <2>2, <2>3, <3>1, PascalWords, WordsLetters DEF ClearIndices, IndexWords
  <2>5. CASE info.handle # 0
    <3> DEFINE pk == [name |-> <<"primary">>, unique |-> TRUE, primary |-> TRUE, columns |-> <<info.handle>>]
    <3>1. t.indices = <<pk>> \o info.indices /\ pk.name = <<"primary">>
      BY <1>3, <2>5 DEF Indices, NewIndexMetaFromPKHandler
    <3> HIDE DEF pk
    <3>2. /\ DOMAIN t.indices = 1 .. l + 1 /\ t.indices[1] = pk
          /\ \A k \in 2 .. l + 1 : t.indices[k] = info.indices[k - 1]
      BY <2>0, <2>1, <3>1 DEF IsList
    <3>3. IsList(pk.name)
      BY <3>1 DEF IsList, ToSet
    <3>4. ASSUME NEW k \in 1 .. l + 1
          PROVE  IsList(t.indices[k].name)
      <4>1. k = 1 \/ (k \in 2 .. l + 1 /\ k - 1 \in 1 .. l)
        BY <2>1
      <4> QED BY <2>2, <3>2, <3>3, <4>1
    <3>5. \A k \in 1 .. l + 1 : IndexWords(t, k) \in Seq(Letters)
      BY <3>4, PascalWords, WordsLetters DEF IndexWords
    <3>6. ASSUME NEW k \in 2 .. l + 1
          PROVE  IndexWords(t, k) # IndexWords(t, 1)
      <4>1. k - 1 \in 1 .. l
        BY <2>1
      <4>2. Pascal(info.indices[k - 1].name) # <<"primary">>
        BY <2>3, <2>5, <4>1
      <4>3. IndexWords(t, 1) = Pascal(<<"primary">>)
        BY <3>1, <3>2 DEF IndexWords
      <4>4. IndexWords(t, k) = Pascal(info.indices[k - 1].name)
        BY <3>2 DEF IndexWords
      <4> QED BY <4>2, <4>3, <4>4, PrimaryWord
    <3>7. ASSUME NEW j \in 2 .. l + 1, NEW k \in 2 .. l + 1, IndexWords(t, j) = IndexWords(t, k)
          PROVE  j = k
      <4>1. j - 1 \in 1 .. l /\ k - 1 \in 1 .. l
        BY <2>1
      <4>2. IndexWords(t, j) = Pascal(info.indices[j - 1].name) /\ IndexWords(t, k) = Pascal(info.indices[k - 1].name)
        BY <3>2 DEF IndexWords
      <4>3. j - 1 = k - 1
        BY <2>3, <3>7, <4>1, <4>2
      <4> QED BY <4>3
    <3>8. ASSUME NEW j \in 1 .. l + 1, NEW k \in 1 .. l + 1, IndexWords(t, j) = IndexWords(t, k)
          PROVE  j = k
      <4>1. (j = 1 \/ j \in 2 .. l + 1) /\ (k = 1 \/ k \in 2 .. l + 1)
        BY <2>1
      <4> QED BY <3>6, <3>7, <3>8, <4>1
    <3> QED BY <3>2, <3>5, <3>8 DEF ClearIndices
  <2> QED BY <2>4, <2>5
<1>7. ClearKeys(t)
  <2>1. \A j, k \in DOMAIN info.foreignKeys :
          /\ j # k => Pascal(info.foreignKeys[j].refTable) # Pascal(info.foreignKeys[k].refTable)
          /\ Pascal(info.foreignKeys[j].refTable) \notin
               {Pascal(c.name) : c \in ToSet(info.columns)} \union {<<"insert">>, <<"update">>, <<"delete">>}
    BY <1>1 DEF ClearTable
  <2> QED BY <1>3, <2>1 DEF ClearKeys, AccessorId, ColumnWords
<1> QED BY <1>1, <1>2, <1>4, <1>5, <1>6, <1>7

-----------------------------------------------------------------------------
(* Declared names.                                                         *)

\* What names have behind the column's name, and what is named so.
Behind(t, c, of, tail) ==
  \/ of = <<"type", c, 0>> /\ tail = <<>>
  \/ of = <<"null", c, 0>> /\ tail = <<"NULL_">>
  \/ \E i \in DOMAIN Elems(t, c) : of = <<"item", c, i>> /\ tail = ItemWords(Elems(t, c)[i])

\* Behind the struct's name.
OfColumn(t, of, rest) ==
  \E c \in DOMAIN t.columns : \E tail \in Seq(Letters) :
    rest = ColumnWords(t, c) \o tail /\ Behind(t, c, of, tail)

OfIndex(t, of, rest) ==
  \E k \in DOMAIN t.indices : of = <<"index", k, 0>> /\ rest = <<"by">> \o IndexWords(t, k)

Rest(t, of, rest) ==
  \/ of = <<"struct", 0, 0>> /\ rest = <<>>
  \/ OfColumn(t, of, rest) \/ OfIndex(t, of, rest)

\* A declared name is the struct's with something behind it, or one of these behind
\* "new".
Plain(t, d) ==
  \E rest \in Seq(Letters) : d.id = StructName(t) \o rest /\ Rest(t, d.of, rest)

New(t, d) ==
  \E c \in DOMAIN t.columns :
    d.of = <<"new", c, 0>> /\ d.id = <<"new">> \o (StructName(t) \o ColumnWords(t, c))

IsDecl(t, d) == d = [id |-> d.id, of |-> d.of] /\ (Plain(t, d) \/ New(t, d))

\* The literal words are letters.
LEMMA LiteralLetters ==
  /\ <<>> \in Seq(Letters) /\ <<"new">> \in Seq(Letters) /\ <<"by">> \in Seq(Letters)
  /\ <<"NULL_">> \in Seq(Letters) /\ <<"Empty_">> \in Seq(Letters)
BY EmptySeq DEF Letters

\* Different things have different names behind the same column's.
LEMMA TailsOnce ==
  ASSUME NEW t, ClearItems(t), NEW c \in DOMAIN t.columns, NEW tail, NEW of, NEW other,
         Behind(t, c, of, tail), Behind(t, c, other, tail)
  PROVE  of = other
<1>1. PICK elems : elems = Elems(t, c)
  OBVIOUS
<1>2. /\ \A i \in DOMAIN elems :
           Pascal(elems[i]) \in Seq(Words) /\ (elems[i] # <<>> => Pascal(elems[i]) # <<>>)
      /\ \A i, j \in DOMAIN elems : Pascal(elems[i]) = Pascal(elems[j]) => i = j
  BY <1>1 DEF ClearItems
<1>3. \A s \in Seq(Words) : s # <<"NULL_">> /\ s # <<"Empty_">>
  <2>1. ASSUME NEW s \in Seq(Words), s = <<"NULL_">> \/ s = <<"Empty_">>
        PROVE  FALSE
    <3>1. Len(s) = 1 /\ s[1] \in {"NULL_", "Empty_"}
      BY <2>1
    <3>2. s[1] \in Words
      BY <3>1
    <3> QED BY <3>1, <3>2, TableCodeAssumption
  <2> QED BY <2>1
<1>4. \A i \in DOMAIN elems : ItemWords(elems[i]) # <<>> /\ ItemWords(elems[i]) # <<"NULL_">>
  BY <1>2, <1>3 DEF ItemWords
<1>5. \A i, j \in DOMAIN elems : ItemWords(elems[i]) = ItemWords(elems[j]) => i = j
  BY <1>2, <1>3 DEF ItemWords
<1> QED BY <1>1, <1>4, <1>5 DEF Behind

\* Different things have different names behind the struct's.
LEMMA RestsOnce ==
  ASSUME NEW t, ClearColumns(t), ClearItems(t), ClearIndices(t), NEW rest, NEW of, NEW other,
         Rest(t, of, rest), Rest(t, other, rest)
  PROVE  of = other
<1>1. ASSUME NEW o, OfColumn(t, o, rest)
      PROVE  \E c \in DOMAIN t.columns : \E tail \in Seq(Letters) :
               /\ rest = ColumnWords(t, c) \o tail /\ Behind(t, c, o, tail) /\ ColumnWords(t, c) \in Seq(Letters)
               /\ rest # <<>> /\ Head(rest) # "by"
  <2>1. PICK c \in DOMAIN t.columns, tail \in Seq(Letters) : rest = ColumnWords(t, c) \o tail /\ Behind(t, c, o, tail)
    BY <1>1 DEF OfColumn
  <2>2. PICK words \in Seq(Letters) : words = ColumnWords(t, c) /\ words # <<>> /\ Head(words) # "by"
    BY DEF ClearColumns
  <2>3. rest = words \o tail /\ Head(rest) = Head(words) /\ rest # <<>>
    BY <2>1, <2>2, BeginsWith
  <2> QED BY <2>1, <2>2, <2>3
<1>2. ASSUME NEW o, OfIndex(t, o, rest)
      PROVE  \E k \in DOMAIN t.indices :
               /\ o = <<"index", k, 0>> /\ rest = <<"by">> \o IndexWords(t, k)
               /\ IndexWords(t, k) \in Seq(Letters) /\ rest # <<>> /\ Head(rest) = "by"
  <2>1. PICK k \in DOMAIN t.indices : o = <<"index", k, 0>> /\ rest = <<"by">> \o IndexWords(t, k)
    BY <1>2 DEF OfIndex
  <2>2. PICK words \in Seq(Letters) : words = IndexWords(t, k)
    BY DEF ClearIndices
  <2>3. <<"by">> \in Seq(Letters)
    BY LiteralLetters
  <2>4. rest = <<"by">> \o words /\ Head(rest) = "by" /\ rest # <<>>
    BY <2>1, <2>2, <2>3
  <2> QED BY <2>1, <2>2, <2>4
<1>3. CASE OfColumn(t, of, rest) /\ OfColumn(t, other, rest)
  <2>1. PICK c \in DOMAIN t.columns, x \in Seq(Letters) :
          rest = ColumnWords(t, c) \o x /\ Behind(t, c, of, x) /\ ColumnWords(t, c) \in Seq(Letters)
    BY <1>1, <1>3
  <2>2. PICK d \in DOMAIN t.columns, y \in Seq(Letters) :
          rest = ColumnWords(t, d) \o y /\ Behind(t, d, other, y) /\ ColumnWords(t, d) \in Seq(Letters)
    BY <1>1, <1>3
  <2>3. IsPrefix(ColumnWords(t, c), ColumnWords(t, d)) \/ IsPrefix(ColumnWords(t, d), ColumnWords(t, c))
    BY <2>1, <2>2, SameWhole
  <2>4. c = d
    BY <2>3 DEF ClearColumns
  <2>5. x = y
    BY <2>1, <2>2, <2>4, SameRest
  <2> QED BY <2>1, <2>2, <2>4, <2>5, TailsOnce
<1>4. CASE OfIndex(t, of, rest) /\ OfIndex(t, other, rest)
  <2>1. PICK j \in DOMAIN t.indices :
          of = <<"index", j, 0>> /\ rest = <<"by">> \o IndexWords(t, j) /\ IndexWords(t, j) \in Seq(Letters)
    BY <1>2, <1>4
  <2>2. PICK k \in DOMAIN t.indices :
          other = <<"index", k, 0>> /\ rest = <<"by">> \o IndexWords(t, k) /\ IndexWords(t, k) \in Seq(Letters)
    BY <1>2, <1>4
  <2>3. IndexWords(t, j) = IndexWords(t, k)
    BY <2>1, <2>2, LiteralLetters, SameRest
  <2> QED BY <2>1, <2>2, <2>3 DEF ClearIndices
<1> QED BY <1>1, <1>2, <1>3, <1>4 DEF Rest

\* What a file declares.
LEMMA DeclsAre ==
  ASSUME NEW t, ClearStruct(t), ClearColumns(t), ClearItems(t), ClearIndices(t), NEW d \in Decls(t)
  PROVE  IsDecl(t, d)
<1>1. PICK name \in Seq(Letters) : name = StructName(t)
  BY DEF ClearStruct
<1>2. ASSUME NEW c \in Special(t)
      PROVE  /\ c \in DOMAIN t.columns /\ ColumnWords(t, c) \in Seq(Letters)
             /\ TypeId(t, c) = name \o ColumnWords(t, c)
             /\ \A tail \in Seq(Letters) : \A of, id :
                  id = TypeId(t, c) \o tail /\ Behind(t, c, of, tail) => IsDecl(t, [id |-> id, of |-> of])
  <2>1. c \in DOMAIN t.columns
    BY DEF Special
  <2>2. PICK words \in Seq(Letters) : words = ColumnWords(t, c)
    BY <2>1 DEF ClearColumns
  <2>3. TypeId(t, c) = name \o words
    BY <1>1, <2>2 DEF TypeId, ColumnWords
  <2>4. ASSUME NEW tail \in Seq(Letters), NEW of, NEW id, id = TypeId(t, c) \o tail, Behind(t, c, of, tail)
        PROVE  IsDecl(t, [id |-> id, of |-> of])
    <3>1. id = name \o (words \o tail)
      BY <2>3, <2>4, ConcatAssoc
    <3>2. words \o tail \in Seq(Letters)
      OBVIOUS
    <3>3. OfColumn(t, of, words \o tail)
      BY <2>1, <2>2, <2>4 DEF OfColumn
    <3>4. PICK rest \in Seq(Letters) : rest = words \o tail
      BY <3>2
    <3>5. id = StructName(t) \o rest /\ Rest(t, of, rest)
      BY <1>1, <3>1, <3>3, <3>4 DEF Rest
    <3> QED BY <3>5 DEF IsDecl, Plain
  <2> QED BY <2>1, <2>2, <2>3, <2>4
<1>3. ASSUME NEW c \in Special(t)
      PROVE  /\ IsDecl(t, Decl(TypeId(t, c), "type", c, 0))
             /\ IsDecl(t, Decl(TypeId(t, c) \o <<"NULL_">>, "null", c, 0))
             /\ IsDecl(t, Decl(<<"new">> \o TypeId(t, c), "new", c, 0))
             /\ \A i \in DOMAIN Elems(t, c) : IsDecl(t, Decl(ItemId(t, c, Elems(t, c)[i]), "item", c, i))
  <2>1. PICK words \in Seq(Letters) : words = ColumnWords(t, c) /\ TypeId(t, c) = name \o words
    BY <1>2
  <2>2. TypeId(t, c) = TypeId(t, c) \o <<>>
    <3>1. name \o words \in Seq(Letters)
      OBVIOUS
    <3>2. \A s \in Seq(Letters) : s = s \o <<>>
      OBVIOUS
    <3> QED BY <2>1, <3>1, <3>2
  <2>3. IsDecl(t, Decl(TypeId(t, c), "type", c, 0))
    BY <1>2, <2>2, LiteralLetters DEF Decl, Behind
  <2>4. IsDecl(t, Decl(TypeId(t, c) \o <<"NULL_">>, "null", c, 0))
    BY <1>2, LiteralLetters DEF Decl, Behind
  <2>5. IsDecl(t, Decl(<<"new">> \o TypeId(t, c), "new", c, 0))
    BY <1>1, <1>2, <2>1 DEF Decl, IsDecl, New
  <2>6. ASSUME NEW i \in DOMAIN Elems(t, c)
        PROVE  IsDecl(t, Decl(ItemId(t, c, Elems(t, c)[i]), "item", c, i))
    <3>1. PICK item : item = Elems(t, c)[i]
      OBVIOUS
    <3>2. Pascal(item) \in Seq(Words)
      BY <1>2, <3>1 DEF ClearItems
    <3>3. ItemWords(item) \in Seq(Letters)
      BY <3>2, WordsLetters, LiteralLetters DEF ItemWords
    <3>4. ItemId(t, c, item) = TypeId(t, c) \o ItemWords(item)
      BY DEF ItemId, ItemWords
    <3>5. Behind(t, c, <<"item", c, i>>, ItemWords(item))
      BY <3>1 DEF Behind
    <3> QED BY <1>2, <3>1, <3>3, <3>4, <3>5 DEF Decl
  <2> QED BY <2>3, <2>4, <2>5, <2>6
<1>4. IsDecl(t, Decl(StructName(t), "struct", 0, 0))
  <2>1. name \o <<>> = name
    OBVIOUS
  <2> QED BY <1>1, <2>1, LiteralLetters DEF Decl, IsDecl, Plain, Rest
<1>5. ASSUME NEW k \in UniqueIndices(t)
      PROVE  IsDecl(t, Decl(ByIndex(t, k), "index", k, 0))
  <2>1. k \in DOMAIN t.indices
    BY DEF UniqueIndices
  <2>2. PICK words \in Seq(Letters) : words = IndexWords(t, k)
    BY <2>1 DEF ClearIndices
  <2>3. ByIndex(t, k) = (name \o <<"by">>) \o words
    BY <1>1, <2>2 DEF ByIndex, IndexWords
  <2>4. PICK rest \in Seq(Letters) : rest = <<"by">> \o words
    <3>1. PICK by \in Seq(Letters) : by = <<"by">>
      BY LiteralLetters
    <3>2. by \o words \in Seq(Letters)
      OBVIOUS
    <3> QED BY <3>1, <3>2
  <2>5. ByIndex(t, k) = name \o rest
    BY <2>3, <2>4, LiteralLetters, ConcatAssoc
  <2>6. OfIndex(t, <<"index", k, 0>>, rest)
    BY <2>1, <2>2, <2>4 DEF OfIndex
  <2> QED BY <1>1, <2>5, <2>6 DEF Decl, IsDecl, Plain, Rest
<1>6. Enums(t) \subseteq Special(t) /\ Sets(t) \subseteq Special(t)
  BY DEF Enums, Sets
<1>7. \/ d = Decl(StructName(t), "struct", 0, 0)
      \/ \E c \in Enums(t) : d \in EnumDecls(t, c)
      \/ \E c \in Sets(t) : d \in SetDecls(t, c)
      \/ \E k \in UniqueIndices(t) : d = Decl(ByIndex(t, k), "index", k, 0)
  BY DEF Decls
<1>8. ASSUME NEW c \in Special(t), d \in EnumDecls(t, c) \/ d \in SetDecls(t, c)
      PROVE  IsDecl(t, d)
  BY <1>3, <1>8 DEF EnumDecls, SetDecls, ItemDecls
<1> QED BY <1>4, <1>5, <1>6, <1>7, <1>8

-----------------------------------------------------------------------------
(* Everything is declared once.                                            *)

\* Where names of two tables, or of one, meet, one table's name begins with the
\* other's; and so do what has the names, each behind the table's.
LEMMA NamesMeet ==
  ASSUME NEW t, ClearStruct(t), ClearColumns(t), NEW u, ClearStruct(u), ClearColumns(u),
         NEW d, NEW e, IsDecl(t, d), IsDecl(u, e), d.id = e.id
  PROVE  /\ IsPrefix(StructName(t), StructName(u)) \/ IsPrefix(StructName(u), StructName(t))
         /\ (Plain(t, d) /\ Plain(u, e)) \/ (New(t, d) /\ New(u, e))
<1>1. PICK s \in Seq(Letters), r \in Seq(Letters) :
        /\ s = StructName(t) /\ r = StructName(u) /\ s # <<>> /\ r # <<>> /\ Head(s) # "new" /\ Head(r) # "new"
  BY DEF ClearStruct
<1>2. PICK new \in Seq(Letters) : new = <<"new">> /\ new # <<>> /\ Head(new) = "new"
  <2>1. Head(<<"new">>) = "new"
    OBVIOUS
  <2> QED BY <2>1, LiteralLetters
<1>3. ASSUME Plain(t, d)
      PROVE  \E rest \in Seq(Letters) : d.id = s \o rest /\ Head(d.id) # "new"
  <2>1. PICK rest \in Seq(Letters) : d.id = s \o rest
    BY <1>1, <1>3 DEF Plain
  <2> QED BY <1>1, <2>1, BeginsWith
<1>4. ASSUME Plain(u, e)
      PROVE  \E rest \in Seq(Letters) : e.id = r \o rest /\ Head(e.id) # "new"
  <2>1. PICK rest \in Seq(Letters) : e.id = r \o rest
    BY <1>1, <1>4 DEF Plain
  <2> QED BY <1>1, <2>1, BeginsWith
<1>5. ASSUME New(t, d)
      PROVE  \E rest \in Seq(Letters) : d.id = new \o (s \o rest) /\ Head(d.id) = "new"
  <2>1. PICK c \in DOMAIN t.columns : d.id = new \o (s \o ColumnWords(t, c))
    BY <1>1, <1>2, <1>5 DEF New
  <2>2. PICK rest \in Seq(Letters) : rest = ColumnWords(t, c)
    BY DEF ClearColumns
  <2>3. s \o rest \in Seq(Letters)
    OBVIOUS
  <2>4. Head(new \o (s \o rest)) = "new"
    BY <1>2, <2>3, BeginsWith
  <2> QED BY <2>1, <2>2, <2>4
<1>6. ASSUME New(u, e)
      PROVE  \E rest \in Seq(Letters) : e.id = new \o (r \o rest) /\ Head(e.id) = "new"
  <2>1. PICK c \in DOMAIN u.columns : e.id = new \o (r \o ColumnWords(u, c))
    BY <1>1, <1>2, <1>6 DEF New
  <2>2. PICK rest \in Seq(Letters) : rest = ColumnWords(u, c)
    BY DEF ClearColumns
  <2>3. r \o rest \in Seq(Letters)
    OBVIOUS
  <2>4. Head(new \o (r \o rest)) = "new"
    BY <1>2, <2>3, BeginsWith
  <2> QED BY <2>1, <2>2, <2>4
<1>7. CASE Plain(t, d) /\ Plain(u, e)
  <2>1. PICK x \in Seq(Letters), y \in Seq(Letters) : s \o x = r \o y
    BY <1>3, <1>4, <1>7
  <2> QED BY <1>1, <1>7, <2>1, SameWhole
<1>8. CASE New(t, d) /\ New(u, e)
  <2>1. PICK x \in Seq(Letters), y \in Seq(Letters) : new \o (s \o x) = new \o (r \o y)
    BY <1>5, <1>6, <1>8
  <2>2. s \o x = r \o y
    <3>1. s \o x \in Seq(Letters) /\ r \o y \in Seq(Letters)
      OBVIOUS
    <3> QED BY <2>1, <3>1, SameRest
  <2> QED BY <1>1, <1>8, <2>2, SameWhole
<1> QED BY <1>3, <1>4, <1>5, <1>6, <1>7, <1>8 DEF IsDecl

\* A file declares a name once.
LEMMA FileOnce ==
  ASSUME NEW t, ClearStruct(t), ClearColumns(t), ClearItems(t), ClearIndices(t)
  PROVE  Once(Decls(t))
<1> SUFFICES ASSUME NEW d \in Decls(t), NEW e \in Decls(t), d.id = e.id PROVE d = e
  BY DEF Once
<1>1. IsDecl(t, d) /\ IsDecl(t, e)
  BY DeclsAre
<1>2. PICK s \in Seq(Letters) : s = StructName(t)
  BY DEF ClearStruct
<1>3. CASE Plain(t, d) /\ Plain(t, e)
  <2>1. PICK x \in Seq(Letters) : d.id = s \o x /\ Rest(t, d.of, x)
    BY <1>2, <1>3 DEF Plain
  <2>2. PICK y \in Seq(Letters) : e.id = s \o y /\ Rest(t, e.of, y)
    BY <1>2, <1>3 DEF Plain
  <2>3. x = y
    BY <2>1, <2>2, SameRest
  <2>4. d.of = e.of
    BY <2>1, <2>2, <2>3, RestsOnce
  <2> QED BY <1>1, <2>4 DEF IsDecl
<1>4. CASE New(t, d) /\ New(t, e)
  <2>1. PICK b \in DOMAIN t.columns : d.of = <<"new", b, 0>> /\ d.id = <<"new">> \o (s \o ColumnWords(t, b))
    BY <1>2, <1>4 DEF New
  <2>2. PICK c \in DOMAIN t.columns : e.of = <<"new", c, 0>> /\ e.id = <<"new">> \o (s \o ColumnWords(t, c))
    BY <1>2, <1>4 DEF New
  <2>3. PICK x \in Seq(Letters), y \in Seq(Letters) : x = ColumnWords(t, b) /\ y = ColumnWords(t, c)
    BY DEF ClearColumns
  <2>4. PICK new \in Seq(Letters) : new = <<"new">>
    BY LiteralLetters
  <2>5. s \o x = s \o y
    <3>1. s \o x \in Seq(Letters) /\ s \o y \in Seq(Letters)
      OBVIOUS
    <3>2. new \o (s \o x) = new \o (s \o y)
      BY <2>1, <2>2, <2>3, <2>4
    <3> QED BY <3>1, <3>2, SameRest
  <2>6. x = y
    BY <2>5, SameRest
  <2>7. b = c
    <3>1. IsPrefix(x, y)
      BY <2>6, EmptySeq, BeginsWith
    <3> QED BY <2>3, <3>1 DEF ClearColumns
  <2> QED BY <1>1, <2>1, <2>2, <2>7 DEF IsDecl
<1> QED BY <1>1, <1>3, <1>4, NamesMeet

\* No file declares what the package has anyway.
LEMMA NotStandalone ==
  ASSUME NEW t, ClearStruct(t), ClearColumns(t), NEW d, IsDecl(t, d)
  PROVE  d.id \notin StandaloneNames
<1>1. PICK s \in Seq(Letters) : s = StructName(t)
  BY DEF ClearStruct
<1>2. CASE Plain(t, d)
  <2>1. PICK rest \in Seq(Letters) : d.id = s \o rest
    BY <1>1, <1>2 DEF Plain
  <2>2. IsPrefix(s, d.id)
    BY <2>1, BeginsWith
  <2> QED BY <1>1, <2>2 DEF ClearStruct
<1>3. CASE New(t, d)
  <2>1. PICK c \in DOMAIN t.columns : d.id = <<"new">> \o (s \o ColumnWords(t, c))
    BY <1>1, <1>3 DEF New
  <2>2. PICK rest \in Seq(Letters) : rest = ColumnWords(t, c)
    BY DEF ClearColumns
  <2>3. PICK new \in Seq(Letters) : new = <<"new">> /\ new # <<>> /\ Head(new) = "new"
    <3>1. Head(<<"new">>) = "new"
      OBVIOUS
    <3> QED BY <3>1, LiteralLetters
  <2>4. s \o rest \in Seq(Letters) /\ d.id = new \o (s \o rest)
    BY <2>1, <2>2, <2>3
  <2>5. Head(d.id) = "new"
    BY <2>3, <2>4, BeginsWith
  <2>6. \A name \in StandaloneNames : Head(name) # "new"
    BY DEF StandaloneNames
  <2> QED BY <2>5, <2>6
<1> QED BY <1>2, <1>3 DEF IsDecl

\* A struct has each field and method once.
LEMMA MembersOnce ==
  ASSUME NEW t, ClearColumns(t), ClearKeys(t)
  PROVE  Once(Members(t))
<1> DEFINE Field(m)    == \E c \in DOMAIN t.columns : m = Decl(ColumnWords(t, c), "field", c, 0)
           Method(m)   == m \in {Decl(<<"insert">>, "method", 0, 0), Decl(<<"update">>, "method", 0, 1),
                                 Decl(<<"delete">>, "method", 0, 2)}
           Accessor(m) == \E f \in DOMAIN t.foreignKeys : m = Decl(AccessorId(t, f), "accessor", f, 0)
<1>1. \A m \in Members(t) : Field(m) \/ Method(m) \/ Accessor(m)
  BY DEF Members, ColumnWords, Accessors
<1>2. \A c \in DOMAIN t.columns : ColumnWords(t, c) \notin {<<"insert">>, <<"update">>, <<"delete">>}
  BY DEF ClearColumns
<1>3. \A b, c \in DOMAIN t.columns : ColumnWords(t, b) = ColumnWords(t, c) => b = c
  <2>1. ASSUME NEW b \in DOMAIN t.columns, NEW c \in DOMAIN t.columns, ColumnWords(t, b) = ColumnWords(t, c)
        PROVE  b = c
    <3>1. PICK words \in Seq(Letters) : words = ColumnWords(t, b) /\ words = ColumnWords(t, c)
      BY <2>1 DEF ClearColumns
    <3>2. IsPrefix(words, words)
      BY EmptySeq, BeginsWith
    <3> QED BY <3>1, <3>2 DEF ClearColumns
  <2> QED BY <2>1
<1>4. ASSUME NEW m, NEW o, Field(m), Field(o), m.id = o.id
      PROVE  m = o
  BY <1>3, <1>4 DEF Decl
<1>5. ASSUME NEW m, NEW o, Method(m), Method(o), m.id = o.id
      PROVE  m = o
  BY <1>5 DEF Decl
<1>6. ASSUME NEW m, NEW o, Accessor(m), Accessor(o), m.id = o.id
      PROVE  m = o
  BY <1>6 DEF Decl, ClearKeys
<1>7. ASSUME NEW m, NEW o, Field(m), Method(o)
      PROVE  m.id # o.id
  BY <1>2, <1>7 DEF Decl
<1>8. ASSUME NEW m, NEW o, Accessor(m), Field(o) \/ Method(o)
      PROVE  m.id # o.id
  BY <1>8 DEF Decl, ClearKeys
<1> HIDE DEF Field, Method, Accessor
<1> QED BY <1>1, <1>4, <1>5, <1>6, <1>7, <1>8 DEF Once

\* If names are clear, all of the code together declares a name once, and a struct
\* has each member once: for any tables, columns, items, indices and keys, the names
\* of which are put together from words without anything between them
\* (table.go:51-166, 233-318, 356).
THEOREM DeclaredOnceOnly == Spec => []DeclaredOnce
<1>1. IInv => DeclaredOnce
  <2> SUFFICES ASSUME IInv, ClearNames, NEW n \in DOMAIN files PROVE DeclaredOnceIn(n)
    BY DEF DeclaredOnce
  <2>1. MetaInv /\ schema \in Schemas
    BY DEF IInv, MetaInv
  <2> DEFINE Is(l, t) ==
               \E m \in DOMAIN schema :
                 /\ schema[m].name = l /\ t.name = l
                 /\ files[l].decls = Decls(t) /\ files[l].members = Members(t)
                 /\ ClearStruct(t) /\ ClearColumns(t) /\ ClearItems(t) /\ ClearIndices(t) /\ ClearKeys(t)
  <2>2. ASSUME NEW l \in DOMAIN files
        PROVE  \E t : Is(l, t)
    <3>1. l \in DOMAIN tables /\ files[l] = File(tables[l])
      BY DEF IInv, FilesInv
    <3>2. PICK m \in DOMAIN schema : schema[m].name = l /\ tables[l] = NewTableMeta(schema[m])
      BY <2>1, <3>1 DEF MetaInv, Known
    <3>3. PICK t : t = NewTableMeta(schema[m])
      OBVIOUS
    <3>4. schema[m] \in Infos
      BY DEF Infos, ToSet
    <3>5. ClearTable(schema[m])
      BY <3>4 DEF ClearNames
    <3>6. ClearColumns(t) /\ ClearItems(t) /\ ClearIndices(t) /\ ClearKeys(t)
      BY <2>1, <3>3, <3>5, ClearIs
    <3>7. t.name = l /\ StructName(t) = Pascal(schema[m].name)
      BY <3>2, <3>3 DEF StructName, NewTableMeta
    <3>8. Pascal(schema[m].name) \in Seq(Letters)
      BY <2>1, TableMetaAssumption, PascalWords, WordsLetters
    <3>9. ClearStruct(t)
      BY <3>4, <3>7, <3>8 DEF ClearNames, ClearStruct
    <3>10. files[l].decls = Decls(t) /\ files[l].members = Members(t)
      BY <3>1, <3>2, <3>3 DEF File
    <3> QED BY <3>2, <3>6, <3>7, <3>9, <3>10
  <2>3. PICK t : Is(n, t)
    <3> HIDE DEF Is
    <3> QED BY <2>2
  <2>4. PICK i \in DOMAIN schema :
          /\ schema[i].name = n /\ t.name = n
          /\ files[n].decls = Decls(t) /\ files[n].members = Members(t)
          /\ ClearStruct(t) /\ ClearColumns(t) /\ ClearItems(t) /\ ClearIndices(t) /\ ClearKeys(t)
    BY <2>3
  <2>5. Once(files[n].decls) /\ Once(files[n].members)
    BY <2>4, FileOnce, MembersOnce
  <2>6. \A d \in files[n].decls : d.id \notin StandaloneNames
    BY <2>4, DeclsAre, NotStandalone
  <2>7. ASSUME NEW d \in files[n].decls, NEW l \in DOMAIN files \ {n}, NEW e \in files[l].decls
        PROVE  d.id # e.id
    <3>0. PICK u : Is(l, u)
      <4> HIDE DEF Is
      <4> QED BY <2>2
    <3>1. PICK j \in DOMAIN schema :
            /\ schema[j].name = l /\ u.name = l /\ files[l].decls = Decls(u)
            /\ ClearStruct(u) /\ ClearColumns(u) /\ ClearItems(u) /\ ClearIndices(u)
      BY <3>0
    <3>2. i # j
      BY <2>4, <3>1
    <3>3. StructName(t) = Pascal(schema[i].name) /\ StructName(u) = Pascal(schema[j].name)
      BY <2>4, <3>1 DEF StructName
    <3>4. ~IsPrefix(StructName(t), StructName(u)) /\ ~IsPrefix(StructName(u), StructName(t))
      BY <3>2, <3>3 DEF ClearNames
    <3>5. IsDecl(t, d) /\ IsDecl(u, e)
      BY <2>4, <3>1, DeclsAre
    <3> QED BY <2>4, <3>1, <3>4, <3>5, NamesMeet
  <2> QED BY <2>5, <2>6, <2>7 DEF DeclaredOnceIn
<1> QED BY <1>1, Inductive, PTL
=============================================================================
