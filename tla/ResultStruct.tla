---------------------------- MODULE ResultStruct ----------------------------
(***************************************************************************)
(* The struct a generated query function returns (templates/dft/select.go, *)
(* lines 32-56).  For a statement that SelectMeta accepted, the template   *)
(* goes through the result fields of the expanded statement, asks the      *)
(* original one which wildcard each comes from, and collects               *)
(*   - the members of the struct: one for each wildcard of a table of the  *)
(*     current database, a pointer to that table's struct, and one for     *)
(*     each other result field;                                            *)
(*   - the members to allocate, which are the pointers;                    *)
(*   - for each result field the place it is scanned into.                 *)
(***************************************************************************)
EXTENDS SelectMeta

CONSTANTS
  Words,     \* what names of members are made of
  Pascal,    \* reference name or <<column>> -> what PascalCase makes of it
  ExprName   \* name of the result field of an expression

VARIABLES
  rf,        \* the result field the template is at
  names,     \* retFieldNameList
  types,     \* retFieldTypeList: a table's pointer, or what one field needs
  structs,   \* retStructFieldNameList
  flatten    \* retFieldNameFlattenList

structVars == <<rf, names, types, structs, flatten>>

NameList == INSTANCE UniqueStringList
              WITH ss <- names, Stems <- Words, converter <- Pascal,
                   default_ <- [stem |-> "NoNameField", sfx |-> <<>>]

\* PascalCase makes a string of every name there is.
ASSUME ResultStructAssumption ==
  /\ \A item \in DOMAIN Pascal : Pascal[item] \in [stem : Words, sfx : Seq(Nat)]
  /\ AllRefNames \union {ExprName} \subseteq DOMAIN Pascal
  /\ \A src \in AllSources : \A c \in 1 .. Len(src.cols) : <<src.cols[c]>> \in DOMAIN Pascal

\* The table a result field is grouped under, as a set: of none if it is in no
\* wildcard, or in one of a derived table or of another database.
WildcardTable ==
  {s \in Named(listed, OriginFL!WildcardTableRefName(rf)) :
     listed[s].kind = "table" /\ listed[s].db = DBName}

\* A difference is named by its text, as any expression.
FieldName == IF Len(executed[rf]) = 2 THEN <<listed[executed[rf][1]].cols[executed[rf][2]]>>
             ELSE ExprName

Rendering == phase = "done" /\ rf <= Len(executed)

StructInit == Init /\ rf = 1 /\ names = <<>> /\ types = <<>> /\ structs = <<>> /\ flatten = <<>>

\* A result field of its own.
PlainField ==
  /\ Rendering /\ WildcardTable = {}
  /\ NameList!AppendItem(FieldName)
  /\ types' = Append(types, <<>>)
  /\ flatten' = Append(flatten, <<names'[Len(names')]>>)
  /\ rf' = rf + 1
  /\ UNCHANGED <<structs, vars>>

\* Mutated: a struct begins where the name changes.
BeginsStructByName ==
  rf = 1 \/ OriginFL!WildcardTableRefName(rf - 1) # OriginFL!WildcardTableRefName(rf)

BeginsStruct == OriginFL!WildcardColumnOffset(rf) = 1

\* Mutated: the member is allocated under the name it had before it was made unique.
AllocateConverted ==
  structs' = Append(structs, NameList!Converted(OriginFL!WildcardTableRefName(rf)))

Allocate == structs' = Append(structs, names'[Len(names')])

\* A column of a table's struct; the first of a wildcard makes the member.
StructColumn ==
  /\ Rendering
  /\ \E s \in WildcardTable :
       /\ IF BeginsStruct
          THEN /\ NameList!AppendItem(OriginFL!WildcardTableRefName(rf))
               /\ types' = Append(types, <<s>>)
               /\ Allocate
          ELSE UNCHANGED <<names, types, structs>>
       /\ flatten' = Append(flatten, <<names'[Len(names')],
                                       listed[s].cols[OriginFL!WildcardColumnOffset(rf)]>>)
  /\ rf' = rf + 1
  /\ UNCHANGED vars

StructNext == PlainField \/ StructColumn \/ (Next /\ UNCHANGED structVars)

-----------------------------------------------------------------------------
Rendered == phase = "done" /\ rf = Len(executed) + 1

\* The members of the struct have different names, however the names of fields
\* and tables collide with each other and with numbered ones.
MembersUnique == NameList!NoTwoAlike
=============================================================================
