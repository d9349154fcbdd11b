----------------------------- MODULE TableCode ------------------------------
(***************************************************************************)
(* What the default table template makes of the tables, one file each, in  *)
(* any order (templates/dft/table.go): the names a file declares, the      *)
(* parameters of its functions, the packages it mentions, and the calls of *)
(* functions in other tables' files.                                       *)
(*                                                                         *)
(* A declared name is a sequence of words, as PascalCase puts one together *)
(* from the words of table, column and item names.                         *)
(***************************************************************************)
EXTENDS TableMeta

\* A word is of letters and digits.
ASSUME TableCodeAssumption ==
  "primary" \in Words /\ {"NULL_", "Empty_"} \intersect Words = {}

VARIABLE
  files  \* table -> its file, rendered and formatted

-----------------------------------------------------------------------------
(* Struct, enum and set types.                                             *)

Special(t) == {c \in DOMAIN t.columns : t.columns[c].type.tp \in {"enum", "set"}}
Enums(t)   == {c \in Special(t) : t.columns[c].type.tp = "enum"}
Sets(t)    == Special(t) \ Enums(t)
Elems(t, c) == t.columns[c].type.elems

StructName(t)  == Pascal(t.name)
TypeId(t, c)   == StructName(t) \o Pascal(t.columns[c].name)
GoType(t, c)   == AdaptType(t.columns[c].type)
FieldType(t, c) == IF c \in Special(t) THEN "of the column" ELSE GoType(t, c)

\* Mutated: the empty item gets no name of its own.
ItemIdPascal(t, c, item) == TypeId(t, c) \o Pascal(item)

ItemId(t, c, item) == TypeId(t, c) \o (IF item = <<>> THEN <<"Empty_">> ELSE Pascal(item))

Decl(id, kind, c, i) == [id |-> id, of |-> <<kind, c, i>>]

ItemDecls(t, c) ==
  {Decl(ItemId(t, c, Elems(t, c)[i]), "item", c, i) : i \in DOMAIN Elems(t, c)}

EnumDecls(t, c) ==
  {Decl(TypeId(t, c), "type", c, 0), Decl(TypeId(t, c) \o <<"NULL_">>, "null", c, 0)}
    \union ItemDecls(t, c)

SetDecls(t, c) ==
  {Decl(TypeId(t, c), "type", c, 0), Decl(<<"new">> \o TypeId(t, c), "new", c, 0)}
    \union ItemDecls(t, c)

-----------------------------------------------------------------------------
(* Unique indices and foreign keys.                                        *)

UniqueIndices(t) == {k \in DOMAIN t.indices : t.indices[k].unique}

ByIndex(t, k) == StructName(t) \o <<"by">> \o Pascal(t.indices[k].name)

Params(t, k) ==
  [j \in DOMAIN t.indices[k].columns |->
     LET c == t.indices[k].columns[j]
     IN  [name |-> Pascal(t.columns[c].name), type |-> GoType(t, c)]]

\* The keys that are rendered: an index without duplicates is found for them.
Accessors(t) ==
  {f \in DOMAIN t.foreignKeys :
     LET fk == t.foreignKeys[f]
     IN  RefIndex(fk) # 0 /\ tables[fk.refTable].indices[RefIndex(fk)].unique}

AccessorId(t, f) == Pascal(t.foreignKeys[f].refTable)

Cast(t, fk, j) ==
  CastType(GoType(t, ColumnByName(t, fk.cols[j])),
           GoType(tables[fk.refTable], ColumnByName(tables[fk.refTable], fk.refCols[j])))

\* Go type of an argument: the field's own, or that which the cast makes of it.
Args(t, f) ==
  LET fk == t.foreignKeys[f]
  IN  [j \in DOMAIN fk.cols |->
         IF Cast(t, fk, j) = "same" THEN FieldType(t, ColumnByName(t, fk.cols[j]))
         ELSE IF ColumnByName(t, fk.cols[j]) \in Special(t) THEN "not Go"
         ELSE GoType(tables[fk.refTable], ColumnByName(tables[fk.refTable], fk.refCols[j]))]

Casts(t) ==
  UNION {{Cast(t, t.foreignKeys[f], j) : j \in DOMAIN t.foreignKeys[f].cols} : f \in Accessors(t)}

-----------------------------------------------------------------------------
(* A file.                                                                 *)

Decls(t) ==
  {Decl(StructName(t), "struct", 0, 0)}
    \union (UNION {EnumDecls(t, c) : c \in Enums(t)}) \union (UNION {SetDecls(t, c) : c \in Sets(t)})
    \union {Decl(ByIndex(t, k), "index", k, 0) : k \in UniqueIndices(t)}

\* Fields and methods of the struct.
Members(t) ==
  {Decl(Pascal(t.columns[c].name), "field", c, 0) : c \in DOMAIN t.columns}
    \union {Decl(<<"insert">>, "method", 0, 0)}
    \union (IF PrimaryColumns(t) = <<>> THEN {}
            ELSE {Decl(<<"update">>, "method", 0, 1), Decl(<<"delete">>, "method", 0, 2)})
    \union {Decl(AccessorId(t, f), "accessor", f, 0) : f \in Accessors(t)}

PkgOf(go) ==
  CASE go \in {"NullInt64", "NullString", "NullFloat64", "NullBool"} -> {"database/sql"}
    [] go = "NullTime" -> {"mysql"}
    [] go = "Time"     -> {"time"}
    [] OTHER           -> {}

\* Packages that the template prints, part by part; printing imports them by name.
StructPkgs(t) == UNION {PkgOf(FieldType(t, c)) : c \in DOMAIN t.columns}

EnumPkgs(t) == IF Enums(t) = {} THEN {} ELSE {"fmt", "driver"}

SetPkgs(t) == IF Sets(t) = {} THEN {} ELSE {"fmt", "strings"}

\* Insert is made for every table.
MethodPkgs == {"context", "sqlx"}

\* A cast prints the package of the type it wraps a value in.
AccessorPkgs(t) ==
  UNION {UNION {PkgOf(Args(t, f)[j]) : j \in {j \in DOMAIN Args(t, f) : Cast(t, t.foreignKeys[f], j) = "wrap"}} :
           f \in Accessors(t)}

IndexPkgs(t) ==
  UNION {{"database/sql"} \union UNION {PkgOf(Params(t, k)[j].type) : j \in DOMAIN Params(t, k)} :
           k \in UniqueIndices(t)}

Printed(t) ==
  StructPkgs(t) \union EnumPkgs(t) \union SetPkgs(t) \union MethodPkgs
    \union AccessorPkgs(t) \union IndexPkgs(t)

\* And those whose names the template has in its text.
Literal(t) == IF Sets(t) = {} THEN {} ELSE {"strings", "driver"}

File(t) ==
  [decls    |-> Decls(t), members |-> Members(t),
   params   |-> {Params(t, k) : k \in UniqueIndices(t)},
   calls    |-> {[fk |-> f, args |-> Args(t, f)] : f \in Accessors(t)},
   imports  |-> Printed(t), mentions |-> Printed(t) \union Literal(t)]

\* Rendering goes to its end: no key panics, casts are known, parameters have a
\* first letter to make small (CamelCase).
Renders(t) ==
  /\ \A f \in DOMAIN t.foreignKeys : RefIndex(t.foreignKeys[f]) # 0
  /\ "error" \notin Casts(t)
  /\ \A k \in UniqueIndices(t) : \A j \in DOMAIN Params(t, k) : Params(t, k)[j].name # <<>>

GoKeywords ==
  {<<w>> : w \in {"break", "case", "chan", "const", "continue", "default", "defer", "else",
                  "fallthrough", "for", "func", "go", "goto", "if", "import", "interface",
                  "map", "package", "range", "return", "select", "struct", "switch", "type", "var"}}

\* The text is a Go file: no parenthesis too many, no name missing, and no keyword
\* for a parameter.
Parses(t) ==
  /\ "unbalanced" \notin Casts(t)
  /\ StructName(t) # <<>> /\ \A c \in DOMAIN t.columns : Pascal(t.columns[c].name) # <<>>
  /\ \A k \in UniqueIndices(t) : \A j \in DOMAIN Params(t, k) : Params(t, k)[j].name \notin GoKeywords

-----------------------------------------------------------------------------
InitCode ==
  /\ InitMeta
  /\ files = [n \in {} |-> {}]

CanRender(t) == phase = "render" /\ t.name \notin DOMAIN files

RenderTable(t) ==
  /\ CanRender(t) /\ Renders(t) /\ (options.NoFormat \/ Parses(t))
  /\ files' = Put(files, t.name, File(t))
  /\ UNCHANGED <<options, phase, schema, tables>>

\* A panic or an error of the template.
FailTable(t) ==
  /\ CanRender(t) /\ ~Renders(t)
  /\ phase' = "stopped"
  /\ UNCHANGED <<options, schema, tables, files>>

\* format.Source refuses the text.
FailFormat(t) ==
  /\ CanRender(t) /\ Renders(t) /\ ~Parses(t) /\ ~options.NoFormat
  /\ phase' = "stopped"
  /\ UNCHANGED <<options, schema, tables, files>>

EndRender ==
  /\ phase = "render" /\ DOMAIN files = DOMAIN tables
  /\ phase' = "rendered"
  /\ UNCHANGED <<options, schema, tables, files>>

NextMeta == (AddTable \/ PanicMultiple \/ NewDBMeta) /\ UNCHANGED files

NextCode ==
  \/ NextMeta \/ EndRender
  \/ \E n \in DOMAIN tables :
       RenderTable(tables[n]) \/ FailTable(tables[n]) \/ FailFormat(tables[n])

-----------------------------------------------------------------------------
(* What compiles.                                                          *)

\* justsql.go declares these.
StandaloneNames ==
  {<<"bind", "type">>, <<"set", "bind", "type">>, <<"dber">>, <<"is", "value", "valid">>,
   <<"coerce", "from", "int64">>, <<"coerce", "to", "int64">>, <<"coerce", "err">>,
   <<"save", "coerce", "from", "int64">>}

Once(decls) == \A d, e \in decls : d.id = e.id => d = e

DeclaredOnceIn(n) ==
  /\ Once(files[n].decls) /\ Once(files[n].members)
  /\ \A d \in files[n].decls :
       /\ d.id \notin StandaloneNames
       /\ \A m \in DOMAIN files \ {n} : \A e \in files[m].decls : d.id # e.id

\* A parameter hides a name the function's body mentions.
HidingNames == {<<w>> : w \in {"sql", "sqlx", "new", "nil"}}

HidesNothing(n) ==
  \A p \in files[n].params : \A j \in DOMAIN p : p[j].name \notin HidingNames

\* A call has the arguments that the function of the index takes.
CallFits(n, call) ==
  LET fk  == tables[n].foreignKeys[call.fk]
      ref == tables[fk.refTable]
      params == Params(ref, RefIndex(fk))
  IN  /\ Len(call.args) = Len(params)
      /\ \A j \in DOMAIN params : call.args[j] = params[j].type

Compiles ==
  \A n \in DOMAIN files :
    /\ DeclaredOnceIn(n) /\ HidesNothing(n)
    /\ \A call \in files[n].calls : CallFits(n, call)
    /\ files[n].mentions \subseteq files[n].imports
    /\ Parses(tables[n])

-----------------------------------------------------------------------------
(* Causes, from the tables as TiDB has them.                               *)

Info(name) == LET n == CHOOSE n \in DOMAIN schema : schema[n].name = name IN schema[n]
Infos      == ToSet(schema)

TypeIn(info, name) ==
  (CHOOSE c \in ToSet(info.columns) : c.name = name).type

\* The lists of columns that rows of a table can be found by, in order.
Keys(info) ==
  (IF info.handle = 0 THEN <<>> ELSE <<<<info.columns[info.handle].name>>>>)
    \o [k \in DOMAIN info.indices |->
          [j \in DOMAIN info.indices[k].columns |-> info.columns[info.indices[k].columns[j]].name]]

UniqueKey(info, k) ==
  IF info.handle = 0 THEN info.indices[k].unique
  ELSE k = 1 \/ info.indices[k - 1].unique

\* The first key of the table referred to that begins with the foreign key's
\* columns, with none before it that the foreign key goes beyond.
Found(fk) ==
  LET keys == Keys(Info(fk.refTable))
  IN  {k \in DOMAIN keys :
         /\ IsPrefix(fk.refCols, keys[k])
         /\ \A j \in 1 .. k-1 : ~IsPrefix(fk.refCols, keys[j]) /\ ~IsPrefix(keys[j], fk.refCols)}

\* Kinds of Go types that turn into each other.
Kind(go) ==
  CASE go \in Ints \union {"NullInt64"} -> "integer"
    [] go \in {"string", "NullString"} -> "string"
    [] go \in {"float32", "float64", "NullFloat64"} -> "float"
    [] go \in {"bool", "NullBool"} -> "bool"
    [] go \in {"Time", "NullTime"} -> "time"
    [] OTHER -> "bytes"

\* Only types of one kind turn into each other, one of them nullable; a nullable
\* bool or time only in text that is not formatted.
Mismatch(info, fk, j) ==
  LET src == AdaptType(TypeIn(info, fk.cols[j]))
      dst == AdaptType(TypeIn(Info(fk.refTable), fk.refCols[j]))
      nullable == {src, dst} \intersect DOMAIN PlainOf
  IN  /\ src # dst
      /\ \/ Kind(src) # Kind(dst) \/ Cardinality(nullable) # 1
         \/ src \in nullable /\ Kind(src) \in {"bool", "time"} /\ ~options.NoFormat

BadKey(info, fk) ==
  \/ fk.refTable \notin {i.name : i \in Infos}
  \/ Found(fk) = {}
  \/ /\ \E k \in Found(fk) : UniqueKey(Info(fk.refTable), k)
     /\ \E j \in DOMAIN fk.cols : Mismatch(info, fk, j)

ParamNames(info) ==
  UNION {{Pascal(name) : name \in ToSet(Keys(info)[k])} :
           k \in {k \in DOMAIN Keys(info) : UniqueKey(info, k)}}

BadName(info) ==
  \/ <<>> \in ParamNames(info)
  \/ /\ ~options.NoFormat
     /\ \/ Pascal(info.name) = <<>> \/ \E c \in ToSet(info.columns) : Pascal(c.name) = <<>>
        \/ ParamNames(info) \intersect GoKeywords # {}

TwoOf(info) ==
  \/ \E a, b \in DOMAIN info.columns : a # b /\ info.columns[a].autoInc /\ info.columns[b].autoInc
  \/ \E a, b \in 0 .. Len(info.indices) :
       /\ a < b /\ info.indices[b].primary
       /\ IF a = 0 THEN info.handle # 0 ELSE info.indices[a].primary

-----------------------------------------------------------------------------
(* Naming.                                                                 *)

\* A convention for names: each has words, different ones for different things;
\* none begins as another one that may stand beside it; no table's begins with
\* "new", no column's with "by" or as a method is called.
ClearTable(info) ==
  /\ \A a, b \in DOMAIN info.columns :
       a # b => ~IsPrefix(Pascal(info.columns[a].name), Pascal(info.columns[b].name))
  /\ \A c \in ToSet(info.columns) :
       /\ Pascal(c.name) # <<>> /\ Head(Pascal(c.name)) \notin {"by", "insert", "update", "delete"}
       /\ \A i, j \in DOMAIN c.type.elems :
            /\ i # j => Pascal(c.type.elems[i]) # Pascal(c.type.elems[j])
            /\ c.type.elems[i] # <<>> => Pascal(c.type.elems[i]) # <<>>
  /\ \A j, k \in DOMAIN info.indices :
       /\ Pascal(info.indices[j].name) # <<"primary">> \/ info.handle = 0
       /\ j # k => Pascal(info.indices[j].name) # Pascal(info.indices[k].name)
  /\ \A j, k \in DOMAIN info.foreignKeys :
       /\ j # k => Pascal(info.foreignKeys[j].refTable) # Pascal(info.foreignKeys[k].refTable)
       /\ Pascal(info.foreignKeys[j].refTable) \notin
            {Pascal(c.name) : c \in ToSet(info.columns)} \union {<<"insert">>, <<"update">>, <<"delete">>}

ClearNames ==
  /\ \A info \in Infos :
       /\ ClearTable(info) /\ Pascal(info.name) # <<>> /\ Head(Pascal(info.name)) # "new"
       /\ \A name \in StandaloneNames : ~IsPrefix(Pascal(info.name), name)
  /\ \A m, n \in DOMAIN schema : m # n => ~IsPrefix(Pascal(schema[m].name), Pascal(schema[n].name))

-----------------------------------------------------------------------------
\* A key's accessor calls the function of the index it refers to with the arguments
\* that function takes, unless the index goes on after the key, or a column of the
\* key is an enum or a set.
AccessorsFit ==
  \A n \in DOMAIN files : \A call \in files[n].calls :
    LET fk == tables[n].foreignKeys[call.fk]
    IN  \/ CallFits(n, call)
        \/ \E k \in Found(fk) : Len(Keys(Info(fk.refTable))[k]) > Len(fk.refCols)
        \/ \E name \in ToSet(fk.cols) : TypeIn(Info(n), name).tp \in {"enum", "set"}

\* Making the code stops for these causes and no other: two columns or indices
\* where there may be one, a key without an index that begins with it or with a
\* type that does not fit, a name that makes none in Go.
StopsForCause ==
  LET caused == \E info \in Infos :
                  \/ TwoOf(info) \/ BadName(info)
                  \/ \E fk \in ToSet(info.foreignKeys) : BadKey(info, fk)
  IN  /\ phase = "stopped" => caused
      /\ phase \in {"rendered", "run"} => ~caused

\* If names are clear, everything in the code of all tables together is declared
\* once, though names are put together from names without anything between them.
DeclaredOnce == ClearNames => \A n \in DOMAIN files : DeclaredOnceIn(n)

\* "Value implements database/sql/driver.Valuer interface." (table.go:218): what a
\* file mentions is imported by the name it is mentioned by.
MentionsImported == \A n \in DOMAIN files : files[n].mentions \subseteq files[n].imports
=============================================================================
