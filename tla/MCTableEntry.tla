---------------------------- MODULE MCTableEntry ----------------------------
(* Databases of one or two tables: keys between columns of all types, keys  *)
(* and indices of several columns, names that meet, and tables to write to. *)
EXTENDS TableEntry

MCHalf == 1 :> 1 @@ 8 :> 2 @@ 12 :> 4 @@ 16 :> 8 @@ 24 :> 16 @@ 32 :> 32 @@ 64 :> 64

MCWords == {"user", "role", "admin", "id", "name", "type", "sql", "insert", "new", "by", "bind",
            "blog", "a", "b", "x", "y", "primary"}

-----------------------------------------------------------------------------
(* Types.                                                                  *)

Of(tp, flen, notNull, unsigned) ==
  [tp |-> tp, flen |-> flen, notNull |-> notNull, unsigned |-> unsigned, binary |-> FALSE,
   elems |-> IF tp \in {"enum", "set"} THEN <<<<"a">>, <<>>, <<"b">>>> ELSE <<>>]

Tiny    == Of("tiny", 4, TRUE, FALSE)
Long    == Of("long", 11, TRUE, FALSE)
OneOrOther(tp, flen) == {Of(tp, flen, n, u) : n, u \in BOOLEAN}

AllTypes ==
  UNION {OneOrOther(tp, 0) : tp \in {"tiny", "short", "int24", "long", "longlong"}}
    \union {Of(tp, 1, n, FALSE) : tp \in {"bit", "tiny"}, n \in BOOLEAN}
    \union {Of("bit", w, n, FALSE) : w \in {8, 16, 24, 64}, n \in BOOLEAN}
    \union {Of(tp, 0, n, FALSE) : n \in BOOLEAN,
              tp \in {"year", "float", "double", "decimal", "datetime", "varchar", "enum"}}
    \union {[Of("varchar", 0, n, FALSE) EXCEPT !.binary = TRUE] : n \in BOOLEAN}

-----------------------------------------------------------------------------
(* Tables.                                                                 *)

Col(name, type)        == [name |-> name, autoInc |-> FALSE, type |-> type]
Numbering(name, type)  == [name |-> name, autoInc |-> TRUE, type |-> type]
Index(name, unique, columns) ==
  [name |-> name, unique |-> unique, primary |-> FALSE, columns |-> columns]
Primary(columns) ==
  [name |-> <<"primary">>, unique |-> TRUE, primary |-> TRUE, columns |-> columns]
Key(cols, refTable, refCols) ==
  [cols |-> cols, refTable |-> refTable, refCols |-> refCols]

Table(name, columns, handle, indices, foreignKeys) ==
  [name |-> name, columns |-> columns, handle |-> handle, indices |-> indices,
   foreignKeys |-> foreignKeys]

Id == Numbering(<<"id">>, Long)

\* A key from a column of one type to one of another.
Casting(from, to) ==
  <<Table(<<"blog">>, <<Col(<<"user", "_", "id">>, from)>>, 0, <<>>,
          <<Key(<<<<"user", "_", "id">>>>, <<"user">>, <<<<"id">>>>)>>),
    Table(<<"user">>, <<Col(<<"id">>, to)>>, 0, <<Primary(<<1>>)>>, <<>>)>>

AB == <<Id, Col(<<"a">>, Long), Col(<<"b">>, Long)>>

\* Keys of one or two columns, with indices of one or two in any order.
Keyed(handle, indices, refTable, refCols) ==
  <<Table(<<"user">>, AB, handle, indices, <<>>),
    Table(<<"blog">>, <<Col(<<"x">>, Long), Col(<<"y">>, Long)>>, 0, <<>>,
          <<Key(SubSeq(<<<<"x">>, <<"y">>>>, 1, Len(refCols)), refTable, refCols)>>)>>

OneIndex == {Index(<<"b", "_", "a">>, u, cols) : u \in BOOLEAN, cols \in {<<2>>, <<3>>, <<2, 3>>, <<3, 2>>}}

KeyedSchemas ==
  {Keyed(h, indices, r, cols) :
     h \in {0, 1}, r \in {<<"user">>, <<"role">>},
     indices \in {<<i>> : i \in OneIndex} \union {<<i, [j EXCEPT !.name = <<"x">>]>> : i, j \in OneIndex},
     cols \in {<<<<"id">>>>, <<<<"a">>>>, <<<<"b">>>>, <<<<"a">>, <<"b">>>>, <<<<"b">>, <<"a">>>>}}

\* Two of what there may be one of.
Doubled ==
  {<<Table(<<"user">>, <<Id, Numbering(<<"a">>, Long)>>, 1, <<>>, <<>>)>>,
   <<Table(<<"user">>, AB, 1, <<Primary(<<2>>)>>, <<>>)>>}

Enum(items) == [Of("enum", 0, FALSE, FALSE) EXCEPT !.elems = items]
Set(items)  == [Of("set", 0, FALSE, FALSE) EXCEPT !.elems = items]

\* Names that meet, or are nearly the same, of tables, columns, items and methods.
SomeNames == {<<"user">>, <<"user", "_">>, <<"user", "_", "role">>, <<"role">>, <<"2">>, <<"new", "_", "user">>,
              <<"type">>, <<"sql">>, <<"insert">>, <<"by", "_", "a">>, <<"bind", "_", "type">>}

NamedSchemas ==
  {<<Table(t1, <<Col(<<"id">>, Long), Col(c1, type)>>, 0, <<Primary(<<p>>)>>, <<>>),
     Table(t2, <<Col(<<"a">>, Long)>>, 0, <<Index(<<"a">>, TRUE, <<1>>)>>,
           IF k = 0 THEN <<>> ELSE [n \in 1 .. k |-> Key(<<<<"a">>>>, t1, <<<<"id">>>>)])>> :
     p \in {1, 2}, k \in 0 .. 2, t1 \in SomeNames \ {<<"role">>}, t2 \in {<<"role">>}, c1 \in SomeNames \ {<<"2">>},
     type \in {Long, Enum(<<<<"admin">>, <<>>>>), Set(<<<<"a">>, <<"a", "_">>>>)}}

\* An enum's item against another column's type, and both against an empty item.
ItemSchemas ==
  {<<Table(<<"user">>, <<Col(<<"role">>, Enum(items)), Col(c, type)>>, 0, <<>>, <<>>)>> :
     items \in {<<<<"admin">>, <<>>>>, <<<<"2">>, <<"admin">>>>, <<<<"admin">>, <<"admin", "_">>>>},
     c \in {<<"role", "_", "admin">>, <<"admin">>, <<"role", "_">>}, type \in {Enum(<<<<"a">>>>), Long}}

-----------------------------------------------------------------------------
(* Tables to write to.                                                     *)

Valued(type) ==
  <<Table(<<"user">>, <<Numbering(<<"id">>, Tiny), Col(<<"a">>, type)>>, 1, <<>>, <<>>)>>

EnumAndSet(items) ==
  <<Table(<<"user">>, <<Col(<<"a">>, Enum(<<<<"x">>, <<>>>>)), Col(<<"b">>, Set(items))>>, 0,
          <<Index(<<"a">>, TRUE, <<1>>)>>, <<>>)>>

Composite ==
  <<Table(<<"user">>, <<Col(<<"a">>, Of("tiny", 4, TRUE, TRUE)), Col(<<"b">>, Tiny)>>, 0,
          <<Primary(<<2, 1>>)>>, <<>>)>>

\* A number that a bool, or a NullInt64, cannot hold.
NumberedBy(type) ==
  <<Table(<<"user">>, <<Numbering(<<"id">>, type), Col(<<"a">>, Of("varchar", 0, TRUE, FALSE))>>, 1,
          <<>>, <<>>)>>

MCPrograms ==
  {Valued(Of(tp, flen, n, tp # "tiny")) : n \in BOOLEAN,
     <<tp, flen>> \in {<<"tiny", 1>>, <<"longlong", 20>>, <<"year", 4>>}}
    \union {Valued(Of("tiny", 4, n, ~n)) : n \in BOOLEAN}
    \union {Valued(Of("varchar", 4, FALSE, FALSE)), Composite}
    \union {NumberedBy(Of("tiny", 1, TRUE, FALSE)), NumberedBy(Of("longlong", 20, TRUE, TRUE))}
    \union {EnumAndSet(items) : items \in {<<<<"x">>, <<"y">>>>, <<<<"x">>, <<>>>>}}

MCSchemas ==
  MCPrograms \union {Casting(from, to) : from, to \in AllTypes} \union KeyedSchemas \union Doubled
    \union NamedSchemas \union ItemSchemas

SetOnly == {<<Table(<<"user">>, <<Col(<<"id">>, Long), Col(<<"a">>, Set(<<<<"x">>, <<"y">>>>))>>, 1, <<>>, <<>>)>>}
NoProgram == {}
=============================================================================
