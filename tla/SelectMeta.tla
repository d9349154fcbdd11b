----------------------------- MODULE SelectMeta -----------------------------
(***************************************************************************)
(* What JustSQL learns about a SELECT statement (context/dml_meta.go).     *)
(*                                                                         *)
(* The statement is executed and compiled by the embedded database; its    *)
(* FROM tree is walked for table sources, whose names must be unique; its  *)
(* field list is scanned, and every wildcard is given the range of result  *)
(* fields it stands for; then the wildcards are replaced by the columns    *)
(* they stand for and the statement obtained goes through the same steps.  *)
(* The select template reads the ranges of the original statement against  *)
(* the result fields of the expanded one.                                  *)
(*                                                                         *)
(* The database is outside the repository.  Here it is what dml_meta.go    *)
(* relies on: names are resolved by tableUniqueName (context.go:75), but   *)
(* the wildcards of an executed statement are matched by schema and        *)
(* visible name, and an alias has no schema, which is why                  *)
(* "SELECT u.*, justsql.u.* FROM user u" (dml_meta.go:427) has fewer       *)
(* result fields when executed than when compiled.                         *)
(*                                                                         *)
(* A table source is a record: its kind, its schema and name if it is a    *)
(* table, its alias, its columns.  Names that a dot may separate are       *)
(* sequences of parts.  Indices start at 1, and 0 stands for the -1 that   *)
(* marks a result field outside every wildcard.                            *)
(***************************************************************************)
EXTENDS Integers, FiniteSets, SequencesExt

CONSTANTS
  DBName,      \* the database of the run, which the DDL filled
  Froms,       \* the FROM clauses considered, each a sequence of table sources
  FieldLists,  \* the field lists considered
  NotIdent,    \* column names that are not identifiers, such as now()
  MaxResultFields,  \* more than any statement considered has
  Hyphened     \* parts of names that read as a difference: "a-b" -> <<"a", "b">>

VARIABLES
  from,          \* the FROM tree
  listed,        \* its table sources as written, left to right
  fields,        \* the field list
  phase,         \* what is done next
  executed,      \* result fields of the executed statement
  todo,          \* FROM nodes not visited yet, next one first
  tableSources,  \* table sources collected
  field, starAt, \* next field; next table source of an unqualified wildcard
  offset,        \* result fields accounted for
  wildcards,     \* a record per wildcard: refName, offset, num
  rfToWildcard,  \* result field -> index in wildcards, or 0
  origin         \* what was learnt of the original statement, once expanded

given   == <<from, listed, fields>>
scanned == <<field, starAt, offset, wildcards, rfToWildcard>>
vars    == <<given, phase, executed, todo, tableSources, scanned, origin>>

-----------------------------------------------------------------------------
(* Names.                                                                  *)

UniqueTableName(db, name) ==
  IF db # "" /\ db # DBName THEN <<db, name>> ELSE <<name>>

\* The reference name of a table source; a derived table always has an alias.
RefName(src) == IF src.as # <<>> THEN src.as ELSE UniqueTableName(src.db, src.name)

Star           == [kind |-> "star"]
Expr           == [kind |-> "expr"]
Wild(db, tbl)  == [kind |-> "wild", db |-> db, tbl |-> tbl]
Text(parts)    == [kind |-> "text", parts |-> parts]   \* written by ExpandWildcard

IsWild(f) == f.kind \in {"star", "wild"}

-----------------------------------------------------------------------------
(* The database.  A result field is known by what it reads: <<i, c>> is    *)
(* column c of the i-th table source, <<>> an expression of the user's,    *)
(* <<i, c, j, d>> a difference of two columns.                             *)

Columns(srcs, i) == [c \in 1 .. Len(srcs[i].cols) |-> <<i, c>>]

ColumnsOf(srcs, Chosen(_)) ==
  FlattenSeq([i \in 1 .. Len(srcs) |-> IF Chosen(i) THEN Columns(srcs, i) ELSE <<>>])

Named(srcs, name) == {i \in 1 .. Len(srcs) : RefName(srcs[i]) = name}

\* The columns a name means: unqualified, or qualified by a table name.
Meanings(srcs, parts) ==
  LET qualified(src) ==
        CASE Len(parts) = 1 -> TRUE
          [] Len(parts) = 2 -> RefName(src) = <<parts[1]>>
          [] Len(parts) = 3 -> RefName(src) = UniqueTableName(parts[1], parts[2])
          [] OTHER -> FALSE
  IN  UNION {{<<i, c>> : c \in {d \in 1 .. Len(srcs[i].cols) :
                                 srcs[i].cols[d] = parts[Len(parts)]}} :
             i \in {j \in 1 .. Len(srcs) : qualified(srcs[j])}}

\* The names in a field's text: two if a part reads as a difference.
NamesIn(parts) ==
  LET hyphens == {k \in 1 .. Len(parts) : parts[k] \in DOMAIN Hyphened}
  IN  IF hyphens = {} THEN <<parts>>
      ELSE LET k == CHOOSE h \in hyphens : TRUE
           IN  <<Append(SubSeq(parts, 1, k-1), Hyphened[parts[k]][1]),
                 <<Hyphened[parts[k]][2]>> \o SubSeq(parts, k+1, Len(parts))>>

\* No two tables and no two derived tables of one name, and every name means
\* something, and one thing only.
Accepts(srcs, fs) ==
  /\ \A i, j \in 1 .. Len(srcs) :
       RefName(srcs[i]) = RefName(srcs[j]) /\ srcs[i].kind = srcs[j].kind => i = j
  /\ \A k \in 1 .. Len(fs) :
       CASE fs[k].kind = "star" -> srcs # <<>>
         [] fs[k].kind = "wild" -> Named(srcs, UniqueTableName(fs[k].db, fs[k].tbl)) # {}
         [] fs[k].kind = "text" ->
              \A n \in 1 .. Len(NamesIn(fs[k].parts)) :
                Cardinality(Meanings(srcs, NamesIn(fs[k].parts)[n])) = 1
         [] OTHER -> TRUE

TextReads(srcs, parts) ==
  LET names == NamesIn(parts)
  IN  FlattenSeq([n \in 1 .. Len(names) |-> CHOOSE m \in Meanings(srcs, names[n]) : TRUE])

\* Whether an executed wildcard takes in the i-th table source.
Takes(srcs, f, i) ==
  LET src == srcs[i]
  IN  \/ f.kind = "star"
      \/ /\ f.db \in {"", IF src.as # <<>> THEN "" ELSE src.db}
         /\ <<f.tbl>> = IF src.as # <<>> THEN src.as ELSE <<src.name>>

ExpandsTo(srcs, f, Chosen(_)) ==
  CASE IsWild(f)       -> ColumnsOf(srcs, Chosen)
    [] f.kind = "text" -> << TextReads(srcs, f.parts) >>
    [] OTHER           -> << <<>> >>

\* The result fields of the statement when compiled, and when executed.
Compiled(srcs, fs) ==
  FlattenSeq([k \in 1 .. Len(fs) |->
    ExpandsTo(srcs, fs[k],
      LAMBDA i : \/ fs[k].kind = "star"
                 \/ i \in Named(srcs, UniqueTableName(fs[k].db, fs[k].tbl)))])

Executed(srcs, fs) ==
  FlattenSeq([k \in 1 .. Len(fs) |->
    ExpandsTo(srcs, fs[k], LAMBDA i : Takes(srcs, fs[k], i))])

\* What the parser makes: table sources of any number, each with a column at least,
\* and field lists with at least one field, a wildcard or an expression.
IsSource(src) ==
  /\ src.kind \in {"table", "derived"}
  /\ src.as \in Seq(ToSet(src.as)) /\ src.cols \in Seq(ToSet(src.cols)) /\ src.cols # <<>>

IsFieldList(fs) ==
  /\ fs \in Seq(ToSet(fs)) /\ fs # <<>>
  /\ \A k \in 1 .. Len(fs) : fs[k].kind \in {"star", "wild", "expr"}

ASSUME SelectAssumption ==
  /\ MaxResultFields \in Nat
  /\ \A f \in Froms : f \in Seq(ToSet(f)) /\ \A i \in 1 .. Len(f) : IsSource(f[i])
  /\ \A fs \in FieldLists : IsFieldList(fs)
  /\ \A f \in Froms, fs \in FieldLists : Accepts(f, fs) =>
       Len(Compiled(f, fs)) <= MaxResultFields /\ Len(Executed(f, fs)) <= MaxResultFields

\* What reads as a difference is no identifier, and the name that NewContext gives the
\* run's database does not.
ASSUME HyphenAssumption ==
  DOMAIN Hyphened \subseteq NotIdent /\ {"", DBName} \intersect DOMAIN Hyphened = {}

-----------------------------------------------------------------------------
Nil        == [kind |-> "nil"]
Join(l, r) == [kind |-> "join", left |-> l, right |-> r]

\* The trees over any row of neighbours: spans[n][i] has those over n table sources
\* from the i-th.
Spans(srcs) ==
  LET spans[n \in 1 .. Len(srcs)] ==
        [i \in 1 .. Len(srcs) + 1 - n |->
           IF n = 1 THEN {srcs[i]}
           ELSE UNION {{Join(l, r) : l \in spans[m][i], r \in spans[n - m][i + m]} :
                         m \in 1 .. n - 1}]
  IN  spans

\* The trees the parser makes of a FROM clause: commas and joins lean to the left,
\* and parentheses may make them lean anywhere.
Trees(srcs) ==
  CASE Len(srcs) = 0 -> {Nil}
    [] Len(srcs) = 1 -> {Join(srcs[1], Nil)}
    [] OTHER -> Spans(srcs)[Len(srcs)][1]

NoOrigin == [fields |-> <<>>, executed |-> <<>>, wildcards |-> <<>>, rfToWildcard |-> <<>>]

Init ==
  /\ listed \in Froms
  /\ from \in Trees(listed)
  /\ fields \in FieldLists
  /\ phase = "execute"
  /\ executed = <<>>
  /\ todo = <<>>
  /\ tableSources = <<>>
  /\ field = 1 /\ starAt = 1
  /\ offset = 0
  /\ wildcards = <<>>
  /\ rfToWildcard = <<>>
  /\ origin = NoOrigin

Fail ==
  /\ phase' = "failed"
  /\ UNCHANGED <<given, executed, todo, tableSources, scanned, origin>>

-----------------------------------------------------------------------------
(* NewSelectStmtMeta runs the statement first, which also rejects what the *)
(* database does not accept.                                               *)

Execute ==
  /\ phase = "execute"
  /\ IF Accepts(listed, fields)
     THEN /\ executed' = Executed(listed, fields)
          /\ todo' = <<from>>
          /\ phase' = "collect"
          /\ UNCHANGED <<given, tableSources, scanned, origin>>
     ELSE Fail

-----------------------------------------------------------------------------
(* NewTableRefsMeta: collect walks the tree, left then right.  TiDB has    *)
(* resolved the tables by now, so GetDBMeta finds their databases.         *)

CollectJoin ==
  /\ phase = "collect" /\ todo # <<>> /\ Head(todo).kind = "join"
  /\ todo' = <<Head(todo).left, Head(todo).right>> \o Tail(todo)
  /\ UNCHANGED <<given, phase, executed, tableSources, scanned, origin>>

CollectNil ==
  /\ phase = "collect" /\ todo # <<>> /\ Head(todo).kind = "nil"
  /\ todo' = Tail(todo)
  /\ UNCHANGED <<given, phase, executed, tableSources, scanned, origin>>

\* TableRefNameMap and TableSources[i] as one: the sources of a name.
RefNameTaken(name) == Named(tableSources, name) # {}

CollectSource ==
  /\ phase = "collect" /\ todo # <<>> /\ Head(todo).kind \in {"table", "derived"}
  /\ IF RefNameTaken(RefName(Head(todo)))
     THEN Fail
     ELSE /\ tableSources' = Append(tableSources, Head(todo))
          /\ todo' = Tail(todo)
          /\ UNCHANGED <<given, phase, executed, scanned, origin>>

\* CASE 2: once all are collected, no two may share the name without its
\* database.  A name of three parts (an alias with dots in it) panics.
TableParts == {1, 2}

\* Mutated: the part before the dot is compared.
NameCheckedFirstPart(name) == name[1]

NameChecked(name) == name[Len(name)]

\* Mutated: the check for CASE 2 is left out.
NamesClashNever(srcs) == FALSE

NamesClash(srcs) ==
  \E i, j \in 1 .. Len(srcs) :
    i # j /\ NameChecked(RefName(srcs[i])) = NameChecked(RefName(srcs[j]))

CheckNames ==
  /\ phase = "collect" /\ todo = <<>>
  /\ IF \/ \E i \in 1 .. Len(tableSources) : Len(RefName(tableSources[i])) \notin TableParts
        \/ NamesClash(tableSources)
     THEN Fail
     ELSE /\ phase' = "fields"
          /\ rfToWildcard' = [i \in 1 .. Len(Compiled(listed, fields)) |-> 0]
          /\ UNCHANGED <<given, executed, todo, tableSources, field, starAt, offset, wildcards,
                         origin>>

-----------------------------------------------------------------------------
(* NewFieldListMeta: each field takes one result field, or those of the    *)
(* table sources its wildcard stands for.                                  *)

NumResultFields(name) ==
  IF RefNameTaken(name)
  THEN Len(tableSources[CHOOSE i \in Named(tableSources, name) : TRUE].cols)
  ELSE 0

AllSources  == UNION {ToSet(f) : f \in Froms}
AllRefNames == {RefName(src) : src \in AllSources}

\* The field list meta of the statement.  A call that fails ends the statement,
\* and the half-marked map with it.
FL == INSTANCE FieldList WITH
        RefNames <- AllRefNames,
        Lengths  <- 0 .. MaxResultFields,
        Offsets  <- 0 .. MaxResultFields,
        Nums     <- {Len(src.cols) : src \in AllSources},
        dropped  <- FALSE

CanAddWildcard(num) == FL!InBounds(offset, num) /\ ~FL!Overlap(offset, num)

InFields == phase = "fields" /\ field <= Len(fields)

ScanPlain ==
  /\ InFields /\ ~IsWild(fields[field])
  /\ offset' = offset + 1
  /\ field' = field + 1
  /\ UNCHANGED <<given, phase, executed, todo, tableSources, starAt, wildcards, rfToWildcard,
                 origin>>

ScanQualified ==
  /\ InFields /\ fields[field].kind = "wild"
  /\ LET name == UniqueTableName(fields[field].db, fields[field].tbl)
         num  == NumResultFields(name)
     IN  IF CanAddWildcard(num)
         THEN /\ FL!addWildcard(name, offset, num)
              /\ offset' = offset + num
              /\ field' = field + 1
              /\ UNCHANGED <<given, phase, executed, todo, tableSources, starAt, origin>>
         ELSE Fail

\* One table source of an unqualified wildcard.
ScanStar ==
  /\ InFields /\ fields[field].kind = "star" /\ starAt <= Len(tableSources)
  /\ LET num == Len(tableSources[starAt].cols)
     IN  IF CanAddWildcard(num)
         THEN /\ FL!addWildcard(RefName(tableSources[starAt]), offset, num)
              /\ offset' = offset + num
              /\ starAt' = starAt + 1
              /\ UNCHANGED <<given, phase, executed, todo, tableSources, field, origin>>
         ELSE Fail

ScanStarEnd ==
  /\ InFields /\ fields[field].kind = "star" /\ starAt > Len(tableSources)
  /\ field' = field + 1
  /\ starAt' = 1
  /\ UNCHANGED <<given, phase, executed, todo, tableSources, offset, wildcards, rfToWildcard,
                 origin>>

\* The rough checks: lengths as scanned, as compiled and as executed agree, and
\* ExpandWildcard's, on the two statements.
CheckCounts ==
  /\ phase = "fields" /\ field > Len(fields)
  /\ IF \/ offset # Len(rfToWildcard)
        \/ Len(executed) # Len(rfToWildcard)
        \/ origin # NoOrigin /\ Len(executed) # Len(origin.executed)
     THEN Fail
     ELSE /\ phase' = IF origin = NoOrigin THEN "expand" ELSE "done"
          /\ UNCHANGED <<given, executed, todo, tableSources, scanned, origin>>

-----------------------------------------------------------------------------
(* ExpandWildcard.                                                         *)

Learnt == [fields |-> fields, executed |-> executed, wildcards |-> wildcards,
           rfToWildcard |-> rfToWildcard]

ColumnTexts(src) == [c \in 1 .. Len(src.cols) |-> Text(Append(RefName(src), src.cols[c]))]

WildSources(f) ==
  IF f.kind = "star" THEN tableSources
  ELSE LET name == UniqueTableName(f.db, f.tbl)
       IN  <<tableSources[CHOOSE i \in Named(tableSources, name) : TRUE]>>

\* Mutated: the last table source comes first.
ExpandedReversed(f) ==
  IF ~IsWild(f) THEN <<f>>
  ELSE LET srcs == WildSources(f)
       IN  FlattenSeq([i \in 1 .. Len(srcs) |-> ColumnTexts(srcs[Len(srcs) + 1 - i])])

Expanded(f) ==
  IF ~IsWild(f) THEN <<f>>
  ELSE LET srcs == WildSources(f)
       IN  FlattenSeq([i \in 1 .. Len(srcs) |-> ColumnTexts(srcs[i])])

\* wildcardRe finds no qualifier but identifiers, and resultFieldName refuses a
\* column that cannot be written as it is; the table names are not looked at.
Writable(f) ==
  IsWild(f) =>
    /\ f.kind = "wild" => {f.db, f.tbl} \intersect DOMAIN Hyphened = {}
    /\ \A i \in 1 .. Len(WildSources(f)) :
         \A c \in 1 .. Len(WildSources(f)[i].cols) : WildSources(f)[i].cols[c] \notin NotIdent

ExpandNothing ==
  /\ phase = "expand" /\ wildcards = <<>>
  /\ origin' = Learnt
  /\ phase' = "done"
  /\ UNCHANGED <<given, executed, todo, tableSources, scanned>>

\* Mutated: the new statement begins with the map of the old one.
ExpandStaleMap ==
  /\ phase = "expand" /\ wildcards # <<>>
  /\ IF \E k \in 1 .. Len(fields) : ~Writable(fields[k])
     THEN Fail
     ELSE /\ origin' = Learnt
          /\ fields' = FlattenSeq([k \in 1 .. Len(fields) |-> Expanded(fields[k])])
          /\ phase' = "execute"
          /\ executed' = <<>> /\ todo' = <<>> /\ tableSources' = <<>>
          /\ field' = 1 /\ starAt' = 1 /\ offset' = 0
          /\ wildcards' = <<>>
          /\ UNCHANGED <<from, listed, rfToWildcard>>

\* The new text is parsed, and becomes a statement of its own.
Expand ==
  /\ phase = "expand" /\ wildcards # <<>>
  /\ IF \E k \in 1 .. Len(fields) : ~Writable(fields[k])
     THEN Fail
     ELSE /\ origin' = Learnt
          /\ fields' = FlattenSeq([k \in 1 .. Len(fields) |-> Expanded(fields[k])])
          /\ phase' = "execute"
          /\ executed' = <<>> /\ todo' = <<>> /\ tableSources' = <<>>
          /\ field' = 1 /\ starAt' = 1 /\ offset' = 0
          /\ wildcards' = <<>> /\ rfToWildcard' = <<>>
          /\ UNCHANGED <<from, listed>>

Stop == phase \in {"done", "failed"} /\ UNCHANGED vars

Next ==
  \/ Execute
  \/ CollectJoin \/ CollectNil \/ CollectSource \/ CheckNames
  \/ ScanPlain \/ ScanQualified \/ ScanStar \/ ScanStarEnd \/ CheckCounts
  \/ ExpandNothing \/ Expand
  \/ Stop

Spec == Init /\ [][Next]_vars

\* No name of a table source or a column reads as a difference.
NoDifferences ==
  \A src \in AllSources :
    /\ \A n \in 1 .. Len(RefName(src)) : RefName(src)[n] \notin DOMAIN Hyphened
    /\ \A c \in 1 .. Len(src.cols) : src.cols[c] \notin DOMAIN Hyphened

-----------------------------------------------------------------------------
(* The select template asks the original statement about each result field *)
(* of the expanded one.                                                    *)

OriginFL == INSTANCE FieldList WITH
              RefNames <- {}, Lengths <- {}, Offsets <- {}, Nums <- {},
              wildcards <- origin.wildcards, rfToWildcard <- origin.rfToWildcard,
              dropped <- FALSE

Phases == {"execute", "collect", "fields", "expand", "done", "failed"}

\* Counters and indices stay within what they index.
TypeOK ==
  /\ phase \in Phases
  /\ Len(executed) <= MaxResultFields /\ Len(rfToWildcard) <= MaxResultFields
  /\ field \in 1 .. Len(fields) + 1
  /\ starAt \in 1 .. Len(tableSources) + 1
  /\ offset \in Nat
  /\ rfToWildcard \in Seq(0 .. Len(wildcards))

\* Seen from its field list, the statement only ever makes a field list meta and
\* adds wildcards to it: FieldList's invariants hold of it.
ImplementsFieldList == FL!Spec

\* When a statement is accepted, the template can tell, from what was learnt of
\* the original statement, exactly where each result field of the expanded one
\* comes from: the table source of that name, which is the only one, and the
\* column at that offset; or from no wildcard at all.
ResultFieldsIdentified ==
  phase = "done" =>
    /\ Len(origin.rfToWildcard) = Len(executed)
    /\ \A i \in 1 .. Len(executed) :
         LET name == OriginFL!WildcardTableRefName(i)
         IN  IF name = OriginFL!NoName THEN executed[i] = <<>>
             ELSE \E s \in 1 .. Len(listed) :
                    /\ Named(listed, name) = {s}
                    /\ executed[i] = <<s, OriginFL!WildcardColumnOffset(i)>>

\* "tbl.*" of an accepted statement draws from a single table source
\* (docs/implement_note.zh_CN.md:24), although the database would take it to
\* mean every source of that visible name.
SingleSource ==
  phase = "done" =>
    \A k \in 1 .. Len(origin.fields) :
      origin.fields[k].kind = "wild" =>
        Cardinality({i \in 1 .. Len(listed) : Takes(listed, origin.fields[k], i)}) = 1

\* ExpandWildcard returns an equivalent statement without wildcards
\* (dml_meta.go:440): it reads the same columns of the same sources in order.
ExpandedEquivalent ==
  phase = "done" =>
    /\ \A k \in 1 .. Len(fields) : ~IsWild(fields[k])
    /\ executed = origin.executed

\* A statement with nothing peculiar about it: names that differ before and
\* after the dot, no alias qualified by a schema, columns one can write and tell apart.
Plain(srcs, fs) ==
  /\ Accepts(srcs, fs)
  /\ \A i \in 1 .. Len(srcs) :
       /\ Len(RefName(srcs[i])) <= 2
       /\ srcs[i].as = <<>> \/ Len(srcs[i].as) = 1
       /\ \A c \in 1 .. Len(srcs[i].cols) :
            /\ srcs[i].cols[c] \notin NotIdent
            /\ \A d \in 1 .. Len(srcs[i].cols) : srcs[i].cols[c] = srcs[i].cols[d] => c = d
       /\ \A n \in 1 .. Len(RefName(srcs[i])) : RefName(srcs[i])[n] \notin DOMAIN Hyphened
       /\ \A j \in 1 .. Len(srcs) :
            RefName(srcs[i])[Len(RefName(srcs[i]))] = RefName(srcs[j])[Len(RefName(srcs[j]))]
              => i = j
  /\ \A k \in 1 .. Len(fs) :
       fs[k].kind = "wild" => \E i \in 1 .. Len(srcs) : Takes(srcs, fs[k], i)

\* JustSQL turns no such statement away.
RejectedForCause ==
  phase = "failed" =>
    ~Plain(listed, IF origin = NoOrigin THEN fields ELSE origin.fields)
=============================================================================
