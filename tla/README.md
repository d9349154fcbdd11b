# Specifications of JustSQL

JustSQL reads DDL and DML files, runs them against an embedded TiDB, and writes Go code: one
file per table, one per DML file, and one for the package. These modules say in TLA+ how its
parts work and what should hold of them. Each module is checked by TLC on small instances, and
nearly all that the runs check of safety is proved by TLAPS for instances of any size.

JustSQL is one sequential process without goroutines of its own. What makes it hard to test is
not concurrency. It is long sequences of legal calls on shared tables (imports, wildcards,
templates), scanners with several loops over one index, statements that look alike to one part
of TiDB and different to another, global state that outlives a file, and runs that stop half
way over an output directory that an earlier run left. The code it writes is run by programs
that are concurrent: other clients write to the tables the generated functions work on.

## The system

| Component | State | Operations | Works with | What makes it correct |
|---|---|---|---|---|
| Pipeline (`justsql/main.go`) | renderer, database, DBMeta cache, output directory | `Initialize`, `LoadTemplate`, `LoadDDL`, `OutputTables`, `LoadAndOutputDML`, `OutputStandalone`, `OutputFile`, `ReadFilesFromGlobs` | calls all others | every source is written whole, with what belongs to it; an interrupted run damages little; a run ends |
| Import scopes (`render/scope.go`) | per file: path -> name, name -> path, which are used; the current file | `ImportPkg`, `UsePkg`, `ListPkg`, `SwitchScope`, `PkgName.String` | called by templates and type names; its list becomes the import block | names are unique, each reference means its package, no file imports what it does not mention |
| Field list meta (`context/dml_meta.go:226-365`) | ranges of wildcards, map from result field to wildcard | `addWildcard`, `WildcardTableRefName`, `WildcardColumnOffset` | filled by `NewFieldListMeta`, read by the select template | map and ranges say the same, and ranges are disjoint |
| SELECT meta (`context/dml_meta.go`) | table sources, field list meta, result fields | `NewSelectStmtMeta`, `NewTableRefsMeta`, `NewFieldListMeta`, `ExpandWildcard` | TiDB executes and compiles each statement | each result field is attributed to its table and column; expansion changes nothing |
| Comment scanner (`annot/comment.go`) | one index, comments found | `ScanComment` | `ParseAnnot` for each comment; `NewAnnotMeta` cuts the text where it says | all comments and only comments are found, at valid places |
| Annotations (`annot/annot.go`, `annots.go`) | text processed so far; globals: placeholder prefix, count of unnamed statements | `ParseAnnot`, `SetPrimary`, `Set`, `NewAnnotMeta` | called by the statement handlers | nothing outside comments and bindings is lost, repeated or moved; what is declared is gathered once |
| Select template (`templates/dft/select.go`) | names used so far; the call's rows and entries | grouping of fields, `UniqueStringList`; the generated function | field list meta, scopes, types; a database | members are unique; each value of a row is read into its own place |
| Database meta (`context/db_meta.go`) | tables, columns, indices, keys | `NewDBMeta`, `NewTableMeta`, `RefIndex` | TiDB's info schema | a key refers to an index that fits it |
| Table template (`templates/dft/table.go`, `standalone.go`) | none; the Go text has entries | structs, enums, sets; `Insert`, `Update`, `Delete`, `ByIndex`, accessors of keys | database meta, type adapter; a database | the files compile together; entries are read back; a row is changed only by its key |
| Renderer, handlers (`render/render.go`, `handlers.go`) | templates by type and set, handlers by type | `AddTemplate`, `Use`, `Render` | pipeline, scopes | the template chosen is the one asked for |
| Type adapter (`render/type_adapter.go`) | table of types | `AdaptType`, `CastType` | TiDB's types, scopes | a column's values fit its Go type; casts exist where keys need them |
| Template functions (`render/funcs.go`, `utils`) | lists | string and list helpers, `PascalCase` | templates | names stay apart |
| Other DML templates (`insert.go`, `update.go`, `delete.go`) | none | one `ExecContext` | annotations | generated code |
| Options (`justsql/options.go`) | options | parse and merge | pipeline | the command line goes before the file |
| Embedded database (`context/embed_db.go`) | TiDB in memory | `Parse`, `Compile`, `Execute` | all meta | external |

## The modules

They are composed along two lines, as data goes. A statement: `SelectMeta` uses `FieldList`
(INSTANCE); `ResultStruct` EXTENDS `SelectMeta`, takes a statement on from where that leaves it, and
uses `FieldList` and `UniqueStringList` (INSTANCE); `QueryFunc` EXTENDS `ResultStruct` and
`TypeAdapter`, and calls what was generated. A table: `TableMeta` EXTENDS `TypeAdapter`, `TableCode`
EXTENDS `TableMeta`, and `TableEntry` EXTENDS `TableCode` and runs what was generated. `Generator`
EXTENDS `Options`. The rest are separate, as in the code, where they meet through plain values: a
comment's place, a package's name, a file's text. Each
`MC...` module EXTENDS its module with values for the constants. Each `...Proofs` module
EXTENDS its module with theorems: `QueryFuncProofs` holds those of `SelectMeta` and `ResultStruct`
too, and `TableEntryProofs` those of `TypeAdapter`, `TableMeta` and `TableCode`. `Inductions` has the
facts about sequences and natural numbers that several of them rest on. Definitions keep the source's names where there is one.
A definition with a comment that begins with "Mutated:" is a plausible bug, used to see that
the properties notice it; no specification refers to one.

**Scopes** (`render/scope.go`). `scopes` is the map of import tables, a `path -> name` with a
`used` set for each file; `currScope` is the file being rendered. The actions are
`SwitchScope` and `PrintPkg`: `imp` and `typeName` make a `PkgName` and import nothing; it resolves
when it is printed, against the file then current. Only that calls `UsePkg`, and only `UsePkg`
calls `ImportPkg`, so that a package is imported and used in one step, and the name `_` that `ListPkg`
has for one imported and not used never comes up. `printed` is a history of what was written into each file. A name is a stem
with suffixes, so that a path whose own name is `sql_1` meets the `_1` of the probing loop.
What makes a Go identifier out of a path is a constant of the module.

**FieldList** (`FieldListMeta`). Any sequence of `addWildcard` calls on a statement of any
length. A failing call leaves the marks it made before it met a taken field, and drops the
object, as its only caller does.

**SelectMeta** (`NewSelectStmtMeta`, `ExpandWildcard`). A FROM tree and a field list go through
execute, collect, scan and check, and, if there are wildcards, through expansion and all of it
again. TiDB is external. It is modelled by the way dml_meta.go and the design note
(docs/implement_note.zh_CN.md) rely on it, in particular with the difference between how a
wildcard is compiled and how it is executed. `CASE 2` and the length checks of the code are
there to reject what falls in between.

**ResultStruct** (`templates/dft/select.go`) and **UniqueStringList** (`render/funcs.go`). Once
`SelectMeta` has accepted a statement, the template's loop goes over the result fields of the
expanded statement, with `PlainField` or `StructColumn` for each, and asks the original
statement's field list where each comes from. `names`, `types`, `structs` and `flatten` are the
template's lists. Composing the two modules, instead of feeding the template made-up ranges, is
the point: the template trusts ranges computed on another statement than the one it renders.

**QueryFunc** (`handleSelectStmt`, the generated function). `HandleSelectStmt` chooses the return style,
`Places` are what the struct's constructor allocates, and `Call`, `ReceiveRow`, `Break` and `Return`
are a call of the function: rows come from the database, in which a source on the outer side of
a join may be missing, and `Scan` writes each value where `flatten` says. So the property
`EntriesFaithful` is about the whole way of a column, from the statement as written through
expansion and grouping to the entry that is returned.

**TypeAdapter** (`AdaptType`, `CastType`). Operators over all column types, with the ranges of
integers. Widths are scaled down to a few bits (`Half`) and keep their order.

**TableMeta** (`db_meta.go`), **TableCode** and **TableEntry** (`table.go`, `standalone.go`). `TableMeta`
makes one table after another from what TiDB knows (`AddTable`), with the index made for a row
key, panics, and `RefIndex`. `TableCode` renders tables in any order (`RenderTable`); a file is the
identifiers it declares, the packages it imports and mentions, the parameters of its functions
and the calls of other files' functions. Names are sequences of words, so that `PascalCase` loses
what it loses in the code: separators. `TableEntry` starts a program with code that compiles. An entry is
filled, inserted, updated, deleted and found while `ClientInsert` writes rows of other clients,
with values the Go types may or may not hold.

**CommentScan** (`ScanComment`). The four loops, byte by byte, over one index `i`. Whether the
annotation in a comment parses is left open, so each comment may end the scan with an error.

**AnnotMeta** (`ParseAnnot`, `NewAnnotMeta`). Statements one after another in one process, with
the two globals. Comments are scanned first, where `$setting` already takes effect; then the
loop, with one action for each type of annotation. A processed text is a sequence of items that
remember their place in the source, which is what the properties are about. The text between
the quotes of a value, and how `annotRe` cuts a pair, are left out.

**Options** (`options.go`) and **Generator** (`main.go`, the choice of templates in `render.go`). A run is
given an invocation, which is a command line and a configuration file; they are merged or
refused (`RefuseOptions`). It is a sequence of
phases, one per function of `main`; within a phase files come from the iterator one by one, and
each output file is rendered, opened (which truncates it) and written in three steps. `Stop`
is `log.Fatalf` for any error of the system, or a kill, between any two steps; `Rerun` starts
a new process on the same output directory with sources that may have changed. What DDL and DML
hold is abstracted to the tables they take, leave and read and the packages and templates they
need.

## The runs

| Run | Checks | States |
|---|---|---|
| `scopes` | unique names, references resolve and are imported, no file imports what it does not mention | 29,000 |
| `field_list` | map and ranges agree, offsets count, calls only add | 23,000 |
| `select` | result fields identified, one source, equivalent expansion, no plain statement refused, implements FieldList; members unique, entries faithful, a call fails only for a NULL its type cannot hold | 148,000 |
| `comment_scan` | slices valid, comments exactly the lexical ones and unfinished ones refused, every scan ends | 509,000 |
| `annot_meta` | text accounted for, one prefix, declarations gathered, numbers distinct, refused for cause | 377,000 |
| `generator` | every source written, at most one file cut, readers after tables, command line first, every run ends | 87,000 |
| `tables` | code made or refused for cause, accessors fit, everything declared once; read back what was written, rows readable but for named causes, own row only | 234,000 |

Bounds, and why they are enough:

- `scopes`: four paths, of which three want the name `sql` and one owns `sql_1`, so that
  the probing loop goes round twice and meets both kinds of taken name; one has no identifier.
  There are three scopes, two files and the one before any: a reference can be printed into one
  file with another in between, or before there is any, and the proofs cover any number of
  paths and files.
- `field_list`: up to five fields, offsets from -1 to 5, lengths from -1 to 4: every position of
  two or three ranges relative to each other and to both ends. The proofs are for any size.
- `select`: every FROM clause of up to two of eight sources that collide in name, alias and
  schema in all ways the code tells apart, and every one of three of three sources, for the
  shape of the tree; field lists of up to two of seven fields. A clash is between two sources and
  a shift of offsets is between two fields, so pairs suffice; longer lists of one table and an
  expression named `user1` make a name's number collide. `MaxResultFields` (16) is beyond
  any statement there is. Two rows (`MaxQueryRows`), each with any of the sources missing and with
  or without NULL in nullable columns, show an error after a row; the columns are of one type for
  each way to take a NULL.
- `comment_scan`: every text of up to five of the nine bytes with a case of their own. Five hold
  the shortest block comment with a byte to spare, an escape in a string, and two comments. That
  comments are found where they are is proved for any length.
- `annot_meta`: every text of up to one comment around all pieces, of two comments of sixteen
  kinds, and of three of the six kinds that depend on their neighbours, so that three bindings
  can stand in a row; three statements (`MaxStmts`), for a setting and a number to be carried
  over twice.
- `generator`: two tables, 50 invocations, two runs (`MaxRuns`), each stopped anywhere or not. Ten
  invocations are projects that differ in what DDL, DML and templates hold; forty are command
  lines with or without a configuration file, agreeing, disagreeing or no good. The damage of a run can be seen by the next, and a third would see nothing that a second does not,
  as a run reads nothing of the output directory.
- `tables`: five families of databases of one or two tables: a foreign key from any type of
  column to any other (nullable or not, unsigned or not, all widths); keys of one or two
  columns with up to two indices in any order; two of what there may be one of; names that are equal, or
  begin as each other, between tables, columns, items and methods; items. Each with `-null`
  and `-nofmt` or not. Two tables suffice, as a key, a call and a clash of names are between two.
  Eleven databases are also run (`Programs`), each for a kind of column or key, on at most two rows
  (`MaxRows`): one's own and another. The proofs are for any number of each.

Fairness. The scanner and `main` are one goroutine each that wait for nobody, so weak fairness
of the whole step relation is what the Go scheduler gives. `Stop` and `Rerun` are the user's or
the system's and are not fair: a run need neither be killed nor repeated. The other runs check no
liveness. Deadlock checking is off for `generator` and `annot_meta`, which end when their
number of runs or statements is used up, and for `tables`, where code that was refused, does not
compile or is not among `Programs` is not run; elsewhere the end states have a step of their own.

### Disagreements

Five more runs each state what a comment or document says, and TLC finds it violated:

- `generator_dir`: the iterator's `continue` for a directory skips the increment. A glob that
  matches a directory hangs the command, though "Skip directories." is what the comment says.
- `generator_same_name`: two DML files of the same base name in different directories share one
  output file, and the second replaces the first. README promises one for each DML file.
- `select_hyphen`: `ExpandWildcard` writes reference names without quotes, so a column of an alias
  such as `a-b` becomes a difference, and the statement is not equivalent.
- `comment_sql`: `--` begins a comment whatever follows it, though the comment says `'-- ...'` and to
  the database `a--1` is a difference; and backquoted identifiers are not skipped, so a `#` in one
  begins a comment and the rest of the line disappears from the query.
- `set_driver`: a set's code says `driver.Value` as text, where an enum's prints the package. A file
  with sets and no enum prints the package nowhere, so that it has no import line for it at all, and
  does not compile.

Two results of `annot_meta` are worth knowing although no document contradicts them. A binding
takes *any* next comment for its end, so of two bindings in a row the second is lost, as are an
argument, a function name or a substitution there; a setting there is not lost, as it took
effect while scanning. And a setting applies to the placeholders before it in the same text.

So are the causes that `tables` and `select` name, as no document rules them out. A YEAR and a binary
column have no nullable type, so that a YEAR of NULL cannot be read, not even with `-null`. A
`tinyint(1)` that holds 2 cannot be read either, nor a BIGINT UNSIGNED beyond the signed range if it is nullable. A set
without items is written as the empty text and read back as the empty item, or not at all. A
cast from a nullable bool or time has a parenthesis too many, so that formatting fails, and with
`-nofmt` the file is written as it is. A NOT NULL
column of a source that an outer join left out cannot be read, unless `-null` is given. An
auto-increment key of `tinyint(1)` panics after its row is in.

## The proofs

Every safety invariant and every action property that a passing run checks is a theorem, for every
value of the constants under the modules' named assumptions: statements, texts, projects, schemas
and runs of any number and size. TLC evaluates the assumptions on each run. A theorem with a
hypothesis beyond them names it: `NoDifferences`, `NoGaps`, `NamesApart`, or that no text has a backquote.
Each is met by a run that TLC evaluates it on, and for all but `NoGaps`, which only lets the output
be told apart, a violation run shows what the code does without it.

Each proof follows one argument. The property is not inductive alone; `IInv` is what is always true
while the component works, in parts with names. There is a lemma for every action, under it a step
for every part the action disturbs, and the property follows from `IInv` at the end.

**Inductions** has what the provers cannot instantiate from the library. `NatInSet` is induction as a
fact about sets of numbers, and `LeastNatural` and `GreatestNatural` come from it. `Iteration` says that a
recursive function exists and obeys its equation. The rest is about `FlattenSeq`: what is at its
end (`FlattenNext`), what it has in it (`FlattenHas`), what remains if parts are left out or mapped
(`FlattenThinned`, `FlattenMapped`), and how long it is (`FlattenSameLength`).

**ScopesProofs.** `IInv` is, for each import table: names and paths are in bijection (`TableInv`),
and, for each reference printed: the path is still imported under the name printed and marked
used (`PrintedInv`). Uniqueness needs that the name -> path map knows every name, and a reference stays
right only since a table never forgets. The heart is `FreshNameIsFree`: among n + 1 candidates one
is not taken (`LeastNatural`, `SuffixedInjective`, a pigeonhole argument over a finite table), and
the probing loop stops at the first. `NothingUnused` needs `UsedInv` on top: what is in a
table is marked as used and has been printed into its file.

**FieldListProofs.** `IInv` adds to the types that map and ranges agree. Disjointness and the
offsets follow from the agreement, as a field has one entry. `AddStep` splits on whether a field
lies in the new range; `FailStep` is trivial since the object is dropped. `CallsOnlyAdd` is an
action property from the same invariant.

**QueryFuncProofs** goes through `SelectMeta`, `ResultStruct` and `QueryFunc`. In `IInv`, `WalkInv` says
that the nodes still to be visited are trees over consecutive sources, so that what is collected is
the FROM clause in order however it is bracketed; `ScanInv` says that map and wildcards are those of
the fields passed (`Marks`, `Filled`), `CountInv` that what the checks of lengths let through has the
same fields executed as compiled, and `OriginInv` what is known of the original while the expanded
statement is read (`Known`). From it come `TypeCorrect`, `OneSource`, the refinement `FieldListImplemented` (each
step of the scan is a step of `FieldList` or a stutter), and, if no name reads as a difference
(`NoDifferences`), `FieldsIdentified` and `Equivalent`: the expanded statement, executed, is the original's
fields, flattened. Without that hypothesis `select_hyphen` is the counterexample. `RefusedForCause` goes
the other way, error by error: each asks for something that `Plain` rules out. `CheckCounts` and the
room for a wildcard need that a plain statement is executed to as many fields as it is compiled to
(`PlainLengths`), and rereading the expanded one that every column written out means the source it
was written for (`TextMeans`, `PlainTexts`).

`QInv` adds `StructInv`, that each result field so far is in a member of its own or in the struct begun
by the first of its wildcard (`Grouped`), and `CallInv`, what was read is what `Scan` stores. From it
`MembersDiffer`, with the pigeonhole argument for numbers after a name; `UnreadForCause`; and
`EntriesReturned`, again under `NoDifferences`. `StatementImplemented` says that a behaviour of the whole
is one of `SelectMeta`, if one looks at its variables only.

**CommentScanProofs.** `IInv` says where `i` can be in each loop (`InLineComment`,
`InBlockComment`), that the comments found lie one after another and end before the
comment being scanned begins, and that contents lie inside. From it `CommentsCanBeCut`: a comment's
slice never panics in `NewAnnotMeta`. `CommentsFound` compares two ways to read one text. `Mode` is the
lexical rules' state before each byte, and `Agreement` says for each loop what mode its index is in
and that the comments found so far are the modes' comments. One loop takes several bytes at a time
and the rules one, so the lemmas are about stretches of a mode. The hypothesis is that the text has
no backquote: the rules quote with it and the scanner does not, as `comment_sql` shows.

**AnnotMetaProofs.** `TextInv`, the part of `IInv` that matters most, says that up to the comment the
loop is at, the text is a `Block`: exactly the items that should be there, in order, and nothing
else. Blocks that meet make a block, so each step adds one. Which items should be there depends on
which comments end a binding, which is a matter of parity among neighbours; the model's
recursive function says it, and the invariant that the loop consumes them the same way. The other
parts say what was gathered (`DeclaredInv`), which prefix there is (`PrefixInv`) and which texts
were refused (`ParseInv`). From them `TypeCorrect`, `AllGathered`, `OnePrefixUsed`, `RefusedOnlyForCause` and
`TextPreserved`. The last assumes `NoGaps`, that what stands for a comment is not itself the gap
between pieces, so that it can be told in the output. `NumbersDistinct` needs `NumberInv`: the global count
is at least every number given.

**GeneratorProofs.** The templates loaded and tables known are those of the files gone through
(`TemplatesInv`, `TablesInv`), the file being made is one source's and its imports are that source's
alone (`OutputInv`), the directory is as it was found but for complete files and one cut (`DirInv`), and
what was gone through is written (`WrittenInv`). The theorems assume `NamesApart`, that no two sources make one
file: the second would be rendered into the first one's import scope and replace its file, as
`generator_same_name` shows. Only `TypeCorrect` is without it.

**TableEntryProofs** goes through `TableMeta`, `TableCode` and `TableEntry`. In `IInv`, each known table is
`NewTableMeta` of one TiDB has (`MetaInv`), each file is what was rendered of it (`FilesInv`), a program
runs on a known table, and has nothing before it runs (`RunInv`), no unique index has two rows of the same values
(`RowsApart`), rows and entry have what their types can have (`DataInv`), and the last result is that
of the call (`ResultInv`). `WrittenIsReadBack` and `UnreadForCause` come down to one column of each type:
either its value fits its Go type and comes back, or it has one of the causes. `TouchesOwnRow`
needs that the index of a row key is unique and of columns there are
(`IndicesOfColumns`, `PrimaryIsUnique`), so rows hit by one key are twins in it and thus one (`HitsOne`).
`AccessorsCall`: the index that `RefIndex` finds is the first whose columns begin with the key's, so
the arguments fit. `StoppedForCause` adds `CauseInv`, that the tables made so far had nothing to stop for.
`DeclaredOnceOnly` is about words: what a table declares begins with its name, and names of which
none begins as another keep their declarations apart.

Model-checked only are liveness, `Terminates` and `EveryRunEnds`, which needs ENABLED; and the
violation runs, which show behaviours rather than exclude them.

## Not modelled

- The text of a Go file beyond what it declares, mentions, imports and calls: layout and comments.
- Parsing of DDL and DML, execution and compilation: TiDB. Registries filled by `init` functions, which
  do not change once `main` runs.
- INSERT, UPDATE and DELETE statements: their meta keeps the statement as it is, and their functions
  are one `ExecContext`. Making a query of its text and arguments at run time (text/template,
  `sqlx.Named`, `sqlx.In`, `Rebind`): libraries, called once each in a row.
- The cutting of a comment into key/value pairs: one regular expression.
- Panics of TiDB or of the runtime on malformed input, other than the slices above.
- Of options: `-h`, `-v`, resolving relative paths, and directories that cannot be made or read
  (`Stop` stands for them). `-ll` only decides what is logged.
- Of values: those of a BIT, numbers given to floats by AUTO_INCREMENT, collations, trailing spaces. That the driver
  reads times as such (`parseTime`) is assumed.
- The one- or two-line list and string functions of `render/funcs.go`, but for `UniqueStringList`.

## The plan

In the order of what matters to users of the generated code. Done: Scopes, FieldList,
SelectMeta, ResultStruct, CommentScan, AnnotMeta, Generator with Options; then TypeAdapter, TableMeta,
TableCode, TableEntry and QueryFunc, which follow generated code to where it is run; and the proofs
named above. Left:

1. Proofs: of safety nothing is left that a run checks. Liveness is out of the prover's reach.
2. The expansion of `IN` bindings at run time, of arguments bound by place.
3. Templates with a nested Render, if the project comes to have any.
