----------------------------- MODULE TableEntry -----------------------------
(***************************************************************************)
(* What the code made of a table does when it is run                       *)
(* (templates/dft/table.go, standalone.go): an entry is inserted, updated, *)
(* deleted and found again, while other clients write to the same table.   *)
(*                                                                         *)
(* The database is external: a row is accepted if its values are those of  *)
(* their columns and no unique index has them yet.  A row is the tuple of  *)
(* its values: an enum's is its item, a set's the set of its items.  An    *)
(* entry is the tuple of its fields: an enum's is an int, a set's the set  *)
(* of its bits, by number.  The text of a set is the set of its parts.     *)
(***************************************************************************)
EXTENDS TableCode

CONSTANTS
  Programs,  \* databases the code of which is run, of those in Schemas
  MaxRows    \* rows in the table at one time

\* NULL is no item, and no text of a set.
ASSUME TableEntryAssumption ==
  \A s \in Schemas : \A m \in DOMAIN s : \A c \in DOMAIN s[m].columns :
    LET items == ToSet(s[m].columns[c].type.elems)
    IN  NULL \notin items /\ \A texts \in SUBSET items : NULL # texts

VARIABLES
  table,   \* the table the program works on
  rows,    \* its rows
  entry,   \* a variable of the table's struct
  result   \* what the last call came to

entryVars == <<table, rows, entry, result>>
vars      == <<options, phase, schema, tables, files, entryVars>>

T     == tables[table]
Cols  == DOMAIN T.columns
Type(c) == T.columns[c].type

\* Tuples with a value of S[c] in place c.
Longer(tuples, values) == {Append(tuple, v) : tuple \in tuples, v \in values}

Tuples(S) ==
  LET upTo[k \in 0 .. Len(S)] == IF k = 0 THEN {<<>>} ELSE Longer(upTo[k - 1], S[k])
  IN  upTo[Len(S)]

-----------------------------------------------------------------------------
(* Enum and set types.                                                     *)

\* Valid, String and Value of an enum.  Mutated: the last item is not valid.
EnumValueShort(c, e) == IF 0 < e /\ e < Len(Elems(T, c)) THEN Elems(T, c)[e] ELSE NULL

EnumValue(c, e) == IF 0 < e /\ e <= Len(Elems(T, c)) THEN Elems(T, c)[e] ELSE NULL

\* Scan of an enum: NULL_ or the item of that text.
EnumScan(c, v) ==
  IF v = NULL THEN 0 ELSE CHOOSE i \in DOMAIN Elems(T, c) : Elems(T, c)[i] = v

\* String of a set: its items joined by commas; of none, the empty text, which is
\* also that of the empty item alone.
SetString(c, s) == IF s = {} THEN {<<>>} ELSE {Elems(T, c)[i] : i \in s}

SetValue(c, s) == IF s = NULL THEN NULL ELSE SetString(c, s)

\* The database takes the empty text for the empty set, and gives it for it.
Stored(parts) == IF parts = {<<>>} THEN {} ELSE parts
Split(v)      == IF v = {} THEN {<<>>} ELSE v

SetReadable(c, v) == v # NULL => Split(v) \subseteq ToSet(Elems(T, c))

SetScan(c, v) ==
  IF v = NULL THEN NULL ELSE {i \in DOMAIN Elems(T, c) : Elems(T, c)[i] \in Split(v)}

-----------------------------------------------------------------------------
(* Fields and columns.                                                     *)

DbValues(c) ==
  CASE c \in Enums(T) -> (IF Type(c).notNull THEN {} ELSE {NULL}) \union ToSet(Elems(T, c))
    [] c \in Sets(T) -> (IF Type(c).notNull THEN {} ELSE {NULL})
                          \union {Stored(parts) : parts \in SUBSET ToSet(Elems(T, c))}
    [] OTHER -> ColumnValues(Type(c))

\* An int may be any for an enum; NewSet drops what is not one of its bits.
FieldValues(c) ==
  CASE c \in Enums(T) -> 0 .. Len(Elems(T, c)) + 1
    [] c \in Sets(T)  -> {NULL} \union SUBSET DOMAIN Elems(T, c)
    [] OTHER          -> GoValues(GoType(T, c))

\* What a field is for the database, which refuses values not its column's.
ToDb(c, f) ==
  CASE c \in Enums(T) -> EnumValue(c, f)
    [] c \in Sets(T)  -> (IF SetValue(c, f) = NULL THEN NULL ELSE Stored(SetValue(c, f)))
    [] OTHER          -> f

Accepts(c, v) ==
  IF v = NULL THEN ~Type(c).notNull
  ELSE c \notin Special(T) /\ IsInt(Type(c)) => In(v, ColumnRange(Type(c)))

\* Scan of a column into its field.
Readable(c, v) ==
  CASE c \in Enums(T) -> TRUE
    [] c \in Sets(T)  -> SetReadable(c, v)
    [] OTHER          -> Holds(GoType(T, c), v)

FromDb(c, v) ==
  CASE c \in Enums(T) -> EnumScan(c, v)
    [] c \in Sets(T)  -> SetScan(c, v)
    [] OTHER          -> v

AsRow(e)       == [c \in Cols |-> ToDb(c, e[c])]
AsEntry(r)     == [c \in Cols |-> FromDb(c, r[c])]
CanScan(r)     == \A c \in Cols : Readable(c, r[c])

Twins(r, q) ==
  \E k \in UniqueIndices(T) :
    \A c \in ToSet(T.indices[k].columns) : r[c] = q[c] /\ r[c] # NULL

Takes(r, others) == (\A c \in Cols : Accepts(c, r[c])) /\ ~\E q \in others : Twins(r, q)

-----------------------------------------------------------------------------
InitEntry ==
  /\ InitCode
  /\ table = <<>> /\ rows = {} /\ entry = <<>> /\ result = "none"

\* A program with all of the code in it is run.  (Numbers given to floats, and the
\* values of a BIT, are left out.)
Start(n) ==
  /\ phase = "rendered" /\ Compiles /\ n \in DOMAIN tables
  /\ schema \in Programs /\ ~options.NoFormat
  /\ \A c \in ToSet(tables[n].columns) : c.type.tp # "bit" /\ (c.autoInc => IsInt(c.type))
  /\ phase' = "run" /\ table' = n
  /\ UNCHANGED <<options, schema, tables, files, rows, entry, result>>

\* Another client's row, NULL or not, in or out of what Go can hold.
ClientInsert ==
  /\ phase = "run" /\ Cardinality(rows) < MaxRows
  /\ \E r \in Tuples([c \in Cols |-> DbValues(c)]) :
       /\ Takes(r, rows)
       /\ rows' = rows \union {r}
  /\ result' = "none"
  /\ UNCHANGED <<options, phase, schema, tables, files, table, entry>>

\* The program fills its variable.
Make ==
  /\ phase = "run"
  /\ entry' \in Tuples([c \in Cols |-> FieldValues(c)])
  /\ result' = "none"
  /\ UNCHANGED <<options, phase, schema, tables, files, table, rows>>

CanCall == phase = "run" /\ entry # <<>>

Came(to) == result' = to /\ UNCHANGED <<options, phase, schema, tables, files, table>>

\* The numbers the database may give to a row that brings none.
Numbered(r) ==
  LET c == T.autoIncColumn
  IN  IF c = 0 \/ r[c] \notin {NULL, 0} THEN {r}
      ELSE {[d \in Cols |-> IF d = c THEN n ELSE r[d]] : n \in {n \in DbValues(c) \ {NULL} : n > 0}}

\* SaveCoerceFromInt64: a target it knows, or a panic.
Coerces == T.autoIncColumn = 0 \/ GoType(T, T.autoIncColumn) \in Ints \union {"NullInt64"}

\* The number comes back as an int64: too large for one, it stays negative in a
\* NullInt64, while a uint64 turns it back.
Saved(n) ==
  IF GoType(T, T.autoIncColumn) = "NullInt64" /\ n > IntRange(FALSE, 64).max THEN n - 2 * Half[64]
  ELSE n

\* The row is in the database before its number is stored in the entry.
Insert ==
  /\ CanCall /\ Cardinality(rows) < MaxRows
  /\ \E r \in Numbered(AsRow(entry)) :
       /\ Takes(r, rows)
       /\ rows' = rows \union {r}
       /\ entry' = IF T.autoIncColumn = 0 \/ ~Coerces THEN entry
                   ELSE [entry EXCEPT ![T.autoIncColumn] = Saved(r[T.autoIncColumn])]
  /\ Came(IF Coerces THEN "saved" ELSE "panic")

InsertRefused ==
  /\ CanCall /\ \A r \in Numbered(AsRow(entry)) : ~Takes(r, rows)
  /\ Came("error") /\ UNCHANGED <<rows, entry>>

\* WHERE: no column is equal to a NULL.
Where(r, cols, key) == \A c \in ToSet(cols) : r[c] = key[c] /\ r[c] # NULL

\* Mutated: the first column of the primary key is taken for the whole.
HitFirst(e) == {r \in rows : Where(r, SubSeq(PrimaryColumns(T), 1, 1), AsRow(e))}

Hit(e) == {r \in rows : Where(r, PrimaryColumns(T), AsRow(e))}

Update ==
  /\ CanCall /\ PrimaryColumns(T) # <<>>
  /\ Hit(entry) # {} => Takes(AsRow(entry), rows \ Hit(entry))
  /\ rows' = (rows \ Hit(entry)) \union (IF Hit(entry) = {} THEN {} ELSE {AsRow(entry)})
  /\ UNCHANGED entry
  /\ Came(IF Hit(entry) = {} THEN "none" ELSE "saved")

UpdateRefused ==
  /\ CanCall /\ PrimaryColumns(T) # <<>>
  /\ Hit(entry) # {} /\ ~Takes(AsRow(entry), rows \ Hit(entry))
  /\ Came("error") /\ UNCHANGED <<rows, entry>>

Delete ==
  /\ CanCall /\ PrimaryColumns(T) # <<>>
  /\ rows' = rows \ Hit(entry)
  /\ UNCHANGED entry /\ Came("none")

\* An entry found by a unique index.
Find(k, r) ==
  /\ phase = "run" /\ k \in UniqueIndices(T) /\ r \in rows
  /\ Where(r, T.indices[k].columns, r) /\ CanScan(r)
  /\ entry' = AsEntry(r)
  /\ UNCHANGED rows /\ Came("found")

FindFails(k, r) ==
  /\ phase = "run" /\ k \in UniqueIndices(T) /\ r \in rows
  /\ Where(r, T.indices[k].columns, r) /\ ~CanScan(r)
  /\ Came("unreadable") /\ UNCHANGED <<rows, entry>>

NextRun ==
  \/ ClientInsert \/ Make \/ Insert \/ InsertRefused \/ Update \/ UpdateRefused \/ Delete
  \/ \E k \in UniqueIndices(T), r \in rows : Find(k, r) \/ FindFails(k, r)

Next ==
  \/ NextCode /\ UNCHANGED entryVars
  \/ \E n \in DOMAIN tables : Start(n)
  \/ phase = "run" /\ NextRun

Spec == InitEntry /\ [][Next]_vars

-----------------------------------------------------------------------------
\* What is known of tables and files is of tables of the schema, an index is of
\* columns of its table, rows are ones the table takes, and an entry has the values
\* its fields can have.
TypeOK ==
  /\ phase \in {"meta", "render", "rendered", "run", "stopped"}
  /\ DOMAIN files \subseteq DOMAIN tables
  /\ \A n \in DOMAIN tables :
       /\ tables[n].columns = Info(n).columns
       /\ tables[n].primaryIndex \in 0 .. Len(tables[n].indices)
       /\ \A k \in DOMAIN tables[n].indices :
            ToSet(tables[n].indices[k].columns) \subseteq DOMAIN tables[n].columns
  /\ phase = "run" =>
       /\ \A r \in rows : \A c \in Cols : Accepts(c, r[c]) /\ (c \in Special(T) => r[c] \in DbValues(c))
       /\ entry # <<>> => \A c \in Cols : IF c \in Special(T) THEN entry[c] \in FieldValues(c)
                                          ELSE Holds(GoType(T, c), entry[c])

\* What was inserted or updated is read back as the same entry, but for an enum that
\* was not valid, which comes back as NULL, a set of no items, which comes back as
\* that of the empty item or not at all, and a number the database gave that is too
\* large for NullInt64, which the entry has as a negative one.
ReadBack ==
  result = "saved" =>
    \E r \in rows :
      \A c \in Cols :
        \/ Readable(c, r[c]) /\ FromDb(c, r[c]) = entry[c]
        \/ c \in Enums(T) /\ entry[c] > Len(Elems(T, c)) /\ FromDb(c, r[c]) = 0
        \/ c \in Sets(T) /\ entry[c] = {}
        \/ c = T.autoIncColumn /\ r[c] # NULL /\ r[c] > IntRange(FALSE, 64).max
             /\ entry[c] = r[c] - 2 * Half[64]

\* Update and Delete touch at most one row, and only if it agrees with the entry in
\* all columns of the primary key.
OwnRowOnly ==
  [][(Update \/ Delete) =>
       \A r \in rows \ rows' :
         /\ \A c \in ToSet(PrimaryColumns(T)) : ToDb(c, entry[c]) = r[c]
         /\ Cardinality(rows \ rows') = 1]_vars

\* A row that any client wrote cannot be read only if it has a YEAR of NULL, an
\* unsigned number too large for NullInt64, a tinyint(1) that is neither 0 nor 1, or
\* a set without items in a column without an empty item; and an insert panics after
\* its row is in only if the number given goes into a bool.
ReadsForCause ==
  /\ result = "unreadable" =>
       \E r \in rows : \E c \in Cols :
         CASE Type(c).tp = "year" -> r[c] = NULL
           [] Type(c).tp = "longlong" -> r[c] # NULL /\ r[c] > IntRange(FALSE, 64).max
           [] Type(c).tp = "tiny" /\ Type(c).flen = 1 -> r[c] \notin {NULL, 0, 1}
           [] c \in Sets(T) -> r[c] = {} /\ <<>> \notin ToSet(Elems(T, c))
           [] OTHER -> FALSE
  /\ result = "panic" => Type(T.autoIncColumn).tp = "tiny" /\ Type(T.autoIncColumn).flen = 1
=============================================================================
