----------------------------- MODULE QueryFunc ------------------------------
(***************************************************************************)
(* The function generated for a SELECT statement, made and called          *)
(* (render/handlers.go, handleSelectStmt; templates/dft/select.go, lines   *)
(* 67-169): the statement is read by SelectMeta, its struct is made by     *)
(* ResultStruct, the types of the fields by TypeAdapter, and a call reads  *)
(* the rows of the database into entries of the struct.                    *)
(*                                                                         *)
(* The database is external.  It gives any number of rows; the sources on  *)
(* the outer side of a join may be missing in a row, with NULL for each of *)
(* their columns, NOT NULL or not.  All values of a column in a row but    *)
(* NULL are one, but for the row they are in; which values a Go type holds *)
(* is TableEntry's.  Making the query of its text and its arguments is     *)
(* left out, and its failing before it is open.                            *)
(***************************************************************************)
EXTENDS ResultStruct, TypeAdapter

CONSTANTS
  ColumnType,    \* column name -> its type, in whatever table
  ExprType,      \* type of an expression
  MaxQueryRows   \* rows of a query

VARIABLES
  style,   \* ReturnStyle, once the statement is handled
  rows,    \* rows received in the call
  ret,     \* entries made of them
  result   \* how the call stands

callVars  == <<rows, ret, result>>
queryVars == <<options, style, callVars>>

\* Database type of a result field.
FieldType(i) ==
  IF Len(executed[i]) = 2 THEN ColumnType[listed[executed[i][1]].cols[executed[i][2]]] ELSE ExprType

InTable(i) == Len(flatten[i]) = 2

\* The pointers among the members that the constructor allocates.
Allocated == {structs[n] : n \in 1 .. Len(structs)}

\* Places an entry has: members, and the columns of those that are structs.
Places ==
  UNION {IF types[m] = <<>> THEN {<<names[m]>>}
         ELSE {<<names[m], listed[types[m][1]].cols[c]>> : c \in 1 .. Len(listed[types[m][1]].cols)} :
           m \in {k \in 1 .. Len(names) : types[k] = <<>> \/ names[k] \in Allocated}}

-----------------------------------------------------------------------------
QueryInit ==
  /\ StructInit
  /\ options = [AllNullTypes |-> FALSE, NoFormat |-> FALSE]
  /\ style = "unknown" /\ rows = <<>> /\ ret = <<>> /\ result = "none"

\* The statement has been read and expanded; by default many entries are returned.
\* The error for any other style cannot come up: Set of a function's annotation
\* takes only one and many.  (The options are chosen here, as nothing before
\* depends on them.)
HandleSelectStmt ==
  /\ phase = "done" /\ style = "unknown"
  /\ \E annotated \in {"unknown", "one", "many"} :
       style' = IF annotated = "unknown" THEN "many" ELSE annotated
  /\ options' \in [AllNullTypes : BOOLEAN, NoFormat : {FALSE}]
  /\ UNCHANGED <<vars, structVars, callVars>>

Made == Rendered /\ style # "unknown"

Came(to) == result' = to /\ UNCHANGED <<vars, structVars, options, style>>

\* QueryRowContext, QueryContext.
Call ==
  /\ Made /\ result = "none"
  /\ UNCHANGED <<rows, ret>>
  /\ Came("open")

\* Column of a row in which the sources missing have none.
Value(i, missing, nulls) ==
  IF \/ Len(executed[i]) = 2 /\ executed[i][1] \in missing
     \/ nulls /\ ~FieldType(i).notNull
  THEN NULL ELSE <<executed[i], Len(rows) + 1>>

\* Scan of a NULL: an enum or a set in a table's struct takes it.
TakesNull(i) ==
  \/ InTable(i) /\ FieldType(i).tp \in {"enum", "set"}
  \/ Holds(AdaptType(FieldType(i)), NULL)

\* newResult: the members allocated, with nothing in them.
Zero == <<>>
New  == [p \in Places |-> Zero]

\* A NULL read is not nothing.
ASSUME QueryFuncAssumption == NULL # Zero

\* The places that Scan writes to, in order, the last one counting.
Scanned(row) ==
  [p \in Places |->
     LET at == {i \in 1 .. Len(flatten) : flatten[i] = p}
     IN  IF at = {} THEN New[p] ELSE row[CHOOSE i \in at : \A j \in at : j <= i]]

\* The address of a field of a pointer that is nil is taken, before Scan is called.
NilPointer == \E i \in 1 .. Len(flatten) : flatten[i] \notin Places

Unreadable(row) ==
  \/ Len(flatten) # Len(executed)
  \/ \E i \in 1 .. Len(flatten) : row[i] = NULL /\ ~TakesNull(i)

\* Another row; of several, QueryRowContext reads the first.
NextRow(row) ==
  /\ result = "open"
  /\ Len(rows) < IF style = "one" THEN 1 ELSE MaxQueryRows
  /\ rows' = Append(rows, row)
  /\ IF NilPointer THEN Came("panic") /\ ret' = <<>>
     ELSE IF Unreadable(row) THEN Came("error") /\ ret' = <<>>
     ELSE Came("open") /\ ret' = Append(ret, Scanned(row))

\* The sources an outer join may give NULLs for: not all at once, if there is a
\* FROM clause.
MissingSources ==
  {missing \in SUBSET (1 .. Len(listed)) : listed = <<>> \/ missing # 1 .. Len(listed)}

ReceiveRow ==
  /\ result = "open"
  /\ \E missing \in MissingSources, nulls \in BOOLEAN :
       NextRow([i \in 1 .. Len(executed) |-> Value(i, missing, nulls)])

\* rows_.Err(): the rows end too early, for the connection is lost.
Break ==
  /\ result = "open" /\ (style = "one" => rows = <<>>)
  /\ UNCHANGED rows /\ ret' = <<>>
  /\ Came("broken")

\* sql.ErrNoRows gives nil for one entry; of many there are none.
Return ==
  /\ result = "open"
  /\ UNCHANGED <<rows, ret>>
  /\ Came(IF style = "one" /\ rows = <<>> THEN "nil" ELSE "returned")

QueryNext ==
  \/ HandleSelectStmt \/ Call \/ ReceiveRow \/ Break \/ Return
  \/ (phase = "done" => style # "unknown") /\ StructNext /\ UNCHANGED queryVars

QuerySpec == QueryInit /\ [][QueryNext]_<<vars, structVars, queryVars>>

-----------------------------------------------------------------------------
Member(name) == CHOOSE m \in 1 .. Len(names) : names[m] = name

\* What is returned is what the statement as the user wrote it reads: an entry for
\* each row, in order, with every value in a place of its own, under the name of its
\* column in a struct of its table if a wildcard took it in, and no place without a
\* value; also if a table is taken in twice.
EntriesFaithful ==
  result = "returned" =>
    /\ Len(ret) = Len(rows)
    /\ \A k \in 1 .. Len(ret) :
         /\ \A i \in 1 .. Len(executed) : ret[k][flatten[i]] = rows[k][i]
         /\ \A p \in DOMAIN ret[k] : ret[k][p] # Zero
    /\ \A i, j \in 1 .. Len(flatten) : i # j => flatten[i] # flatten[j]
    /\ \A i \in 1 .. Len(flatten) : InTable(i) =>
         LET s == types[Member(flatten[i][1])][1]
         IN  /\ origin.executed[i][1] = s
             /\ listed[s].cols[origin.executed[i][2]] = flatten[i][2]

\* A call never takes a field of a nil pointer, and a row that has arrived cannot be
\* read only if it has a NULL where the struct has a plain type: for a YEAR, or for a
\* NOT NULL column of a source missing from the row, unless nullable types are used
\* for all, or the column is an enum or a set in a struct of its table.
QueryFailsForCause ==
  /\ result # "panic"
  /\ result = "error" =>
       \E i \in 1 .. Len(executed) :
         /\ rows[Len(rows)][i] = NULL
         /\ \/ FieldType(i).tp = "year"
            \/ /\ FieldType(i).notNull /\ ~options.AllNullTypes
               /\ ~(InTable(i) /\ FieldType(i).tp \in {"enum", "set"})
=============================================================================
