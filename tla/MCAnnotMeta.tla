---------------------------- MODULE MCAnnotMeta -----------------------------
(* Every text of up to two comments of all kinds, and of three comments of *)
(* the kinds that depend on each other.                                    *)
EXTENDS AnnotMeta

KV(key, val) == [key |-> key, val |-> val]
Annot(kvs)   == [is |-> "kvs", kvs |-> kvs]
Plain        == [is |-> "plain"]
Subs(x)      == [is |-> "subs", content |-> x]

Bind    == Annot(<<KV("bind", "id")>>)
Arg     == Annot(<<KV("arg", "id"), KV("type", "int")>>)
At      == Annot(<<KV("setting", ""), KV("bindNamePrefix", "@")>>)
FuncOne == Annot(<<KV("func", "f"), KV("return", "many"), KV("return", "one")>>)
FuncG   == Annot(<<KV("func", "g")>>)
Env     == Annot(<<KV("env", ""), KV("x", "1"), KV("x", "2")>>)

Dependent == {Plain, Subs("action"), Bind, Arg, At, FuncOne}

Kinds ==
  Dependent \union
    {Subs(""), FuncG, Env,
     Annot(<<KV("param", "nick")>>),
     Annot(<<KV("env", ""), KV("y", "1"), KV("x", "3")>>),
     Annot(<<KV("setting", ""), KV("bindNamePrefix", "$"), KV("prefix", "?")>>),
     Annot(<<KV("bind", "id"), KV("type", "int")>>),
     Annot(<<KV("func", "")>>),
     Annot(<<KV("func", "g"), KV("malformed", "")>>),
     Annot(<<KV("malformed", "")>>)}

Pieces == {<<>>, <<"gap", "word">>, <<"word", "gap">>}

TextsOf(n, kinds, pieces) ==
  {[pieces |-> p, comments |-> c] : p \in [1 .. n + 1 -> pieces], c \in [1 .. n -> kinds]}

MCStatements ==
  (UNION {TextsOf(n, Kinds, Pieces) : n \in 0 .. 1})
    \union TextsOf(2, Kinds, {<<>>, <<"word", "gap">>})
    \union TextsOf(3, Dependent, {<<>>, <<"gap", "word">>})

MCIdents == {"id", "nick", "f", "g"}

ASSUME MCAssumption == NoGaps
=============================================================================
