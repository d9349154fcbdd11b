-------------------------- MODULE MCQueryFunc -------------------------------
(* The statements of MCSelectMeta, and longer field lists of one table, in *)
(* which the name of a member and that of an expression collide.           *)
EXTENDS MCSelectMeta, QueryFunc, TLC

StructFieldLists == MCFieldLists \union [1 .. 3 -> {Expr, Wild("", "user")}]

\* The expression is called user1, which is also what a second user becomes.
MCExprName == <<"user1">>

Word(stem) == [stem |-> stem, sfx |-> <<>>]

\* One name that has no letters, and becomes an empty string.
MCPascal ==
  [item \in {RefName(s) : s \in MCSources} \union {MCExprName}
              \union {<<"id">>, <<"name">>, <<"host">>, <<"n">>, <<"now()">>} |->
     CASE item = MCExprName                          -> [stem |-> "user", sfx |-> <<1>>]
       [] item \in {<<"user">>, <<"mysql", "user">>} -> Word("user")
       [] item = <<"n">>                             -> Word("")
       [] OTHER                                      -> Word(item[Len(item)])]

MCWords == {MCPascal[item].stem : item \in DOMAIN MCPascal}

MCHalf ==
  [w \in {1, 8, 12, 16, 24, 32, 64} |->
     CASE w = 1 -> 1 [] w = 8 -> 2 [] w = 12 -> 4 [] w = 16 -> 8 [] w = 24 -> 16 [] w = 32 -> 32 [] OTHER -> 64]

Column(tp, notNull) ==
  [tp |-> tp, flen |-> 11, notNull |-> notNull, unsigned |-> FALSE, binary |-> FALSE, elems |-> <<>>]

\* A column of each way to take a NULL: never but with -null, in a table's struct
\* only, always, not even with -null.
MCColumnType ==
  [id |-> Column("long", TRUE), name |-> Column("enum", TRUE), n |-> Column("varchar", FALSE),
   host |-> Column("year", TRUE)] @@ ("now()" :> Column("datetime", TRUE))

MCExprType == Column("longlong", FALSE)

\* What the theorems assume of names; MCSelectHyphen.cfg has others.
ASSUME MCAssumption == NoDifferences
=============================================================================
