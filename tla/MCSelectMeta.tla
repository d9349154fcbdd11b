---------------------------- MODULE MCSelectMeta ----------------------------
(* FROM clauses of up to three table sources that collide in name, alias   *)
(* and schema, with field lists of up to two fields.                       *)
EXTENDS SelectMeta

UpTo(S, n) == UNION {[1 .. k -> S] : k \in 0 .. n}

Table(db, name, as, cols) ==
  [kind |-> "table", db |-> db, name |-> name, as |-> as, cols |-> cols]
Derived(as, cols) ==
  [kind |-> "derived", db |-> "", name |-> "", as |-> as, cols |-> cols]

\* The wildcard user.* means one, two or no source; justsql.b.* means one when
\* compiled and none when executed, which can make the lengths agree again.
MCSources == {
  Table("justsql", "user", <<>>, <<"id", "name">>),
  Table("mysql", "user", <<>>, <<"host">>),
  Table("mysql", "db", <<>>, <<"host">>),
  Table("justsql", "blog", <<"b">>, <<"id">>),
  Table("justsql", "blog", <<"mysql", "user">>, <<"id">>),
  Table("justsql", "blog", <<"x", "y", "z">>, <<"id">>),
  Derived(<<"user">>, <<"n">>),
  Derived(<<"b">>, <<"now()">>)}

MCFields == {Star, Expr, Wild("", "user"), Wild("", "b"), Wild("mysql", "user"),
             Wild("justsql", "user"), Wild("justsql", "b")}

\* Three of the sources, so that the FROM clause is a tree of one shape or another.
TreeSources == {
  Table("justsql", "user", <<>>, <<"id", "name">>),
  Table("mysql", "db", <<>>, <<"host">>),
  Table("justsql", "blog", <<"b">>, <<"id">>)}

MCFroms      == UpTo(MCSources, 2) \union [1 .. 3 -> TreeSources]
MCFieldLists == UpTo(MCFields, 2) \ {<<>>}
MCNotIdent   == {"now()", "a-b"}
MCHyphened   == [h \in {"a-b"} |-> <<"a", "b">>]

\* An alias that reads as a difference, beside what the difference would name.
HyphenSources == {
  Table("justsql", "blog", <<"a-b">>, <<"id">>),
  Table("justsql", "b", <<>>, <<"id", "n">>),
  Table("justsql", "x", <<>>, <<"a">>)}

HyphenFroms      == UpTo(HyphenSources, 3)
HyphenFieldLists == UpTo({Star, Expr, Wild("", "x")}, 2) \ {<<>>}
=============================================================================
