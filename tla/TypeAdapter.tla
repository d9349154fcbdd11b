---------------------------- MODULE TypeAdapter -----------------------------
(***************************************************************************)
(* Which Go type holds the values of a database type, and how an           *)
(* expression of one Go type is turned into another                        *)
(* (render/type_adapter.go).                                               *)
(*                                                                         *)
(* A database type is [tp, flen, notNull, unsigned, binary, elems].  A Go  *)
(* type is its name without the package.  Integers have the ranges of      *)
(* their widths; all other values are one value, "v".                      *)
(***************************************************************************)
EXTENDS Integers, Sequences

CONSTANTS
  NULL,  \* in a column, and in a variable of a nullable type
  Half   \* width -> half of the numbers it has in the model

VARIABLE
  options  \* [AllNullTypes, NoFormat]: -null, nullable types for all; -nofmt

ASSUME TypeAdapterAssumption ==
  /\ DOMAIN Half = {1, 8, 12, 16, 24, 32, 64} /\ Half[1] = 1
  /\ \A w \in DOMAIN Half : Half[w] \in Nat
  /\ \A v, w \in DOMAIN Half : v < w => 2 * Half[v] <= Half[w]
  /\ NULL \notin Int /\ NULL # "v"

\* Width of an integer type.  (A BIT has flen bits; its values are not modelled.)
WidthOf == [tiny |-> 8, short |-> 16, int24 |-> 24, long |-> 32, longlong |-> 64, year |-> 12]

IsInt(ft) == ft.tp \in DOMAIN WidthOf

-----------------------------------------------------------------------------
(* AdaptType.                                                              *)

\* Mutated: all integers have a sign.
SizedSigned(unsigned, n) ==
  IF n <= 8 THEN "int8" ELSE IF n <= 16 THEN "int16" ELSE IF n <= 32 THEN "int32" ELSE "int64"

\* The smallest Go type for n bits.
Sized(unsigned, n) ==
  LET go == IF n <= 8 THEN <<"int8", "uint8">> ELSE IF n <= 16 THEN <<"int16", "uint16">>
            ELSE IF n <= 32 THEN <<"int32", "uint32">> ELSE <<"int64", "uint64">>
  IN  IF unsigned THEN go[2] ELSE go[1]

AdaptType(ft) ==
  LET nullable == options.AllNullTypes \/ ~ft.notNull
      Or(null, plain) == IF nullable THEN null ELSE plain
  IN  CASE ft.tp \in {"bit", "tiny"} /\ ft.flen = 1 -> Or("NullBool", "bool")
        [] ft.tp = "bit" /\ ft.flen # 1 -> Or("NullInt64", Sized(TRUE, ft.flen))
        [] ft.tp = "year" -> "uint16"
        [] \/ ft.tp = "tiny" /\ ft.flen # 1
           \/ ft.tp \in {"short", "int24", "long", "longlong"} ->
             Or("NullInt64", Sized(ft.unsigned, WidthOf[ft.tp]))
        [] ft.tp = "float" -> Or("NullFloat64", "float32")
        [] ft.tp \in {"double", "decimal"} -> Or("NullFloat64", "float64")
        [] ft.tp \in {"datetime", "date", "timestamp"} -> Or("NullTime", "Time")
        [] OTHER -> IF ft.binary THEN "[]byte" ELSE Or("NullString", "string")

-----------------------------------------------------------------------------
(* CastType.                                                               *)

Ints == {"int8", "int16", "int32", "int64", "uint8", "uint16", "uint32", "uint64"}

\* Nullable type -> plain types it is made from and turned into.
PlainOf ==
  [NullInt64 |-> Ints, NullString |-> {"string"}, NullFloat64 |-> {"float32", "float64"},
   NullBool |-> {"bool"}, NullTime |-> {"Time"}]

\* The value in a nullable type, NULL or not; out of a bool or a time with a
\* parenthesis too many; an error between all other types.
CastType(src, dst) ==
  CASE src = dst -> "same"
    [] dst \in DOMAIN PlainOf /\ src \in PlainOf[dst] -> "wrap"
    [] src \in DOMAIN PlainOf /\ dst \in PlainOf[src] ->
         IF src \in {"NullBool", "NullTime"} THEN "unbalanced" ELSE "unwrap"
    [] OTHER -> "error"

-----------------------------------------------------------------------------
(* Values.                                                                 *)

IntRange(unsigned, w) ==
  IF unsigned THEN [min |-> 0, max |-> 2 * Half[w] - 1]
  ELSE [min |-> -Half[w], max |-> Half[w] - 1]

In(n, range) == range.min <= n /\ n <= range.max

ColumnRange(ft) == IntRange(ft.unsigned \/ ft.tp = "year", WidthOf[ft.tp])

GoRange ==
  [int8 |-> IntRange(FALSE, 8), int16 |-> IntRange(FALSE, 16), int32 |-> IntRange(FALSE, 32),
   int64 |-> IntRange(FALSE, 64), uint8 |-> IntRange(TRUE, 8), uint16 |-> IntRange(TRUE, 16),
   uint32 |-> IntRange(TRUE, 32), uint64 |-> IntRange(TRUE, 64), NullInt64 |-> IntRange(FALSE, 64),
   bool |-> IntRange(TRUE, 1), NullBool |-> IntRange(TRUE, 1)]

\* database/sql: the values of a column that Scan can store in a variable.
Holds(go, v) ==
  IF v = NULL THEN go \in DOMAIN PlainOf \union {"[]byte"}
  ELSE go \in DOMAIN GoRange => In(v, GoRange[go])

\* The values a column may have, of integers those at the ends and around zero.
ColumnValues(ft) ==
  (IF ft.notNull THEN {} ELSE {NULL})
    \union (IF IsInt(ft)
            THEN {n \in {ColumnRange(ft).min, 0, 1, 2, ColumnRange(ft).max} : In(n, ColumnRange(ft))}
            ELSE {"v"})

\* The values a Go variable may have, likewise.
GoValues(go) ==
  (IF Holds(go, NULL) THEN {NULL} ELSE {})
    \union (IF go \in DOMAIN GoRange
            THEN {n \in {GoRange[go].min, 0, 1, GoRange[go].max} : In(n, GoRange[go])}
            ELSE {"v"})
=============================================================================
