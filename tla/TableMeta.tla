----------------------------- MODULE TableMeta ------------------------------
(***************************************************************************)
(* What JustSQL knows of the tables of a database (context/db_meta.go):    *)
(* NewDBMeta makes one TableMeta after another from TiDB's information,    *)
(* and a foreign key finds the index it refers to when it is rendered.     *)
(*                                                                         *)
(* A name is a sequence of words and of what separates them, as "_" or a   *)
(* digit, for what is made of names by PascalCase.  Columns are numbered   *)
(* from 1.                                                                 *)
(***************************************************************************)
EXTENDS TypeAdapter, FiniteSets, FiniteSetsExt, SequencesExt

CONSTANTS
  Schemas,  \* databases that TiDB may hold: sequences of tables
  Words     \* runs of letters and digits that begin with a letter

VARIABLES
  phase,   \* what is being done: "meta", "render", ..., or "stopped"
  schema,  \* dbInfo.Tables
  tables   \* DBMeta.Tables: name -> TableMeta

IsList(x) == x \in Seq(ToSet(x))

\* What TiDB sees to: names are given once, an index and a key are of columns the
\* table has, a primary index is a unique one, a key has as many columns as it
\* refers to.  It does not look at the table that a key refers to.
ASSUME TableMetaAssumption ==
  \A s \in Schemas : IsList(s) /\ \A m \in DOMAIN s :
    /\ IsList(s[m].name) /\ \A n \in DOMAIN s : s[m].name = s[n].name => m = n
    /\ IsList(s[m].columns)
    /\ \A a, b \in DOMAIN s[m].columns :
         s[m].columns[a].name = s[m].columns[b].name => a = b
    /\ \A c \in DOMAIN s[m].columns :
         /\ IsList(s[m].columns[c].name) /\ IsList(s[m].columns[c].type.elems)
         /\ \A item \in ToSet(s[m].columns[c].type.elems) : IsList(item)
    /\ s[m].handle \in {0} \union DOMAIN s[m].columns
    /\ IsList(s[m].indices)
    /\ \A k \in DOMAIN s[m].indices :
         /\ IsList(s[m].indices[k].name) /\ IsList(s[m].indices[k].columns)
         /\ ToSet(s[m].indices[k].columns) \subseteq DOMAIN s[m].columns
         /\ s[m].indices[k].primary => s[m].indices[k].unique
    /\ IsList(s[m].foreignKeys)
    /\ \A k \in DOMAIN s[m].foreignKeys :
         LET fk == s[m].foreignKeys[k]
         IN  /\ IsList(fk.refTable) /\ IsList(fk.cols) /\ IsList(fk.refCols)
             /\ Len(fk.cols) = Len(fk.refCols)
             /\ ToSet(fk.cols) \subseteq {c.name : c \in ToSet(s[m].columns)}

-----------------------------------------------------------------------------
\* utils.PascalCase: what is left are the words, each with a capital at its head,
\* by which they stay apart.
Pascal(name) == FlattenSeq([i \in DOMAIN name |-> IF name[i] \in Words THEN <<name[i]>> ELSE <<>>])

\* Mutated: the column's number is counted from 0.
NewIndexMetaFromPKHandlerFrom0(info) ==
  IF info.handle = 0 THEN <<>>
  ELSE <<[name |-> <<"primary">>, unique |-> TRUE, primary |-> TRUE, columns |-> <<info.handle - 1>>]>>

\* The column that is the row's own key in TiDB, as an index like the others.
NewIndexMetaFromPKHandler(info) ==
  IF info.handle = 0 THEN <<>>
  ELSE <<[name |-> <<"primary">>, unique |-> TRUE, primary |-> TRUE, columns |-> <<info.handle>>]>>

\* Mutated: the key that TiDB has no index for is left out.
IndicesWithoutHandle(info) == info.indices

Indices(info) == NewIndexMetaFromPKHandler(info) \o info.indices

Primaries(indices) == {k \in DOMAIN indices : indices[k].primary}
AutoIncs(info)     == {c \in DOMAIN info.columns : info.columns[c].autoInc}

\* "Multiple ... found in table" are panics.
Multiple(info) == Cardinality(AutoIncs(info)) > 1 \/ Cardinality(Primaries(Indices(info))) > 1

Only(S) == IF S = {} THEN 0 ELSE CHOOSE n \in S : TRUE

NewTableMeta(info) ==
  [name |-> info.name, columns |-> info.columns, indices |-> Indices(info),
   foreignKeys |-> info.foreignKeys,
   primaryIndex |-> Only(Primaries(Indices(info))), autoIncColumn |-> Only(AutoIncs(info))]

PrimaryColumns(t) == IF t.primaryIndex = 0 THEN <<>> ELSE t.indices[t.primaryIndex].columns

ColumnByName(t, name) == CHOOSE c \in DOMAIN t.columns : t.columns[c].name = name

-----------------------------------------------------------------------------
(* Foreign keys.                                                           *)

ColumnNames(t, index) == [i \in DOMAIN index.columns |-> t.columns[index.columns[i]].name]

\* Two lists of names that do not differ as far as both go.
Alike(names, others) ==
  \A i \in DOMAIN names \intersect DOMAIN others : names[i] = others[i]

\* Mutated: the names are compared as far as the index goes.
RefIndexShort(fk) ==
  IF fk.refTable \notin DOMAIN tables THEN 0
  ELSE LET ref  == tables[fk.refTable]
           Hits == {k \in DOMAIN ref.indices : Alike(fk.refCols, ColumnNames(ref, ref.indices[k]))}
       IN  IF Hits = {} THEN 0 ELSE Min(Hits)

\* The index found, or 0 for a panic: there is no such table or no such index, or
\* one with fewer columns comes first, which is read past its end.
RefIndex(fk) ==
  IF fk.refTable \notin DOMAIN tables THEN 0
  ELSE LET ref  == tables[fk.refTable]
           Hits == {k \in DOMAIN ref.indices : Alike(fk.refCols, ColumnNames(ref, ref.indices[k]))}
       IN  IF Hits = {} \/ Len(ref.indices[Min(Hits)].columns) < Len(fk.refCols) THEN 0
           ELSE Min(Hits)

-----------------------------------------------------------------------------
Put(m, k, v) == [x \in DOMAIN m \union {k} |-> IF x = k THEN v ELSE m[x]]

InitMeta ==
  /\ schema \in Schemas
  /\ options \in [AllNullTypes : BOOLEAN, NoFormat : BOOLEAN]
  /\ phase = "meta" /\ tables = [n \in {} |-> {}]

AddTable ==
  /\ phase = "meta" /\ Cardinality(DOMAIN tables) < Len(schema)
  /\ LET info == schema[Cardinality(DOMAIN tables) + 1]
     IN  /\ ~Multiple(info)
         /\ tables' = Put(tables, info.name, NewTableMeta(info))
  /\ UNCHANGED <<options, schema, phase>>

PanicMultiple ==
  /\ phase = "meta" /\ Cardinality(DOMAIN tables) < Len(schema)
  /\ Multiple(schema[Cardinality(DOMAIN tables) + 1])
  /\ phase' = "stopped"
  /\ UNCHANGED <<options, schema, tables>>

NewDBMeta ==
  /\ phase = "meta" /\ Cardinality(DOMAIN tables) = Len(schema)
  /\ phase' = "render"
  /\ UNCHANGED <<options, schema, tables>>
=============================================================================
