----------------------------- MODULE Generator ------------------------------
(***************************************************************************)
(* A run of the justsql command (justsql/main.go): load the templates and  *)
(* the DDL, then write one Go file per table, one per DML file and one for *)
(* the package, over whatever earlier runs left in the output directory.   *)
(*                                                                         *)
(* A run is sequential, but it may stop between any two of its steps: each *)
(* is surrounded by log.Fatalf, and the process may be killed.  The output *)
(* directory outlives it, and the next run may find other sources.         *)
(*                                                                         *)
(* What the sources hold is abstracted to what the pipeline depends on: a  *)
(* DDL statement to the tables it needs and those it leaves, a DML file to *)
(* the tables and packages its statements mention and the statement types, *)
(* which choose the templates.  A Go file is the source it was made of,    *)
(* the packages its header imports and the templates it was rendered with. *)
(***************************************************************************)
EXTENDS Options, Integers, FiniteSets, SequencesExt

CONSTANTS
  Invocations, \* command lines and configuration files
  Types,      \* what a template renders ("table", "select", ..., "standalone")
  Tables,     \* table names
  TablePkgs,  \* table -> packages its file mentions
  BasePkgs,   \* packages justsql.go mentions
  MaxRuns     \* runs over one output directory

\* What options name: files and directories of any number, a template in a
\* directory that has a name (filepath.Base gives one to all), statements that leave
\* tables, and DML files of statements of their own types.
IsProject(p) ==
  /\ p.t \in Seq(ToSet(p.t)) /\ p.ddl \in Seq(ToSet(p.ddl)) /\ p.dml \in Seq(ToSet(p.dml))
  /\ \A f \in ToSet(p.t) : ~f.dir => f.set # ""
  /\ \A f \in ToSet(p.ddl) : ~f.dir =>
       /\ f.stmts \in Seq(ToSet(f.stmts))
       /\ \A stmt \in ToSet(f.stmts) : stmt.leaves \subseteq Tables
  /\ \A f \in ToSet(p.dml) : ~f.dir => f.types \subseteq Types \ {"table", "standalone"}

ASSUME GeneratorAssumption ==
  /\ MaxRuns \in Nat \ {0}
  /\ {"table", "standalone"} \subseteq Types
  /\ \A i \in Invocations :
       IsProject(i.args) /\ (IsThere(i.conf) => IsProject(i.conf))

VARIABLES
  invocation,   \* command line and configuration file of the current run
  runs,         \* number of runs so far
  phase,        \* function of main that is running
  next,         \* files its iterator has handed out (i of ReadFilesFromGlobs)
  loaded,       \* type -> template set -> file the template came from
  lastSet,      \* lastTemplateSetName
  templateSet,  \* Renderer.TemplateSetName
  tables,       \* tables of the embedded database
  left,         \* tables of the DBMeta still to be rendered
  currScope,    \* scope PkgNames resolve against
  imported,     \* scope -> packages used in it
  output,       \* the file being made: what it holds, and how far it is
  outDir,       \* output directory: file name -> file
  before        \* the output directory when the run began

pointed      == <<invocation, runs>>
templateVars == <<loaded, lastSet, templateSet>>
dbVars       == <<tables, left>>
renderVars   == <<currScope, imported, output>>
dirs         == <<outDir, before>>

memory == <<next, templateVars, dbVars, renderVars>>
vars   == <<pointed, phase, memory, dirs>>

\* The options of the current run, read once.
options == ParseOptions(invocation)

-----------------------------------------------------------------------------
(* Sources, and the file each is made into.                                *)

TableSource(t) ==
  [id |-> t, out |-> t \o ".tb.go", types |-> {"table"}, pkgs |-> TablePkgs[t], reads |-> {t}]

DMLSource(f) ==
  [id |-> f.path, out |-> f.base \o ".go", types |-> f.types, pkgs |-> f.pkgs, reads |-> f.reads]

Standalone ==
  [id |-> "standalone", out |-> "justsql.go", types |-> {"standalone"}, pkgs |-> BasePkgs,
   reads |-> {}]

\* A directory that a glob matches is an entry like any other file's.
DMLFiles(p) == {f \in ToSet(p.dml) : ~f.dir}

AllSources ==
  {TableSource(t) : t \in Tables} \union {Standalone}
    \union UNION {{DMLSource(f) : f \in DMLFiles(ParseOptions(i))} : i \in Invocations}

FileNames == {s.out : s \in AllSources}

Absent == [is |-> "absent"]
Cut    == [is |-> "cut"]       \* truncated, or written in part
NoFile == [step |-> "none"]

\* NewRenderer: the builtin templates.
Builtin == [t \in Types |-> [s \in {"", "default"} |-> "builtin"]]

Put(m, k, v) == [x \in DOMAIN m \union {k} |-> IF x = k THEN v ELSE m[x]]

-----------------------------------------------------------------------------
Init ==
  /\ invocation \in Invocations
  /\ runs = 1
  /\ phase = "init"
  /\ next = 0 /\ loaded = Builtin /\ lastSet = "" /\ templateSet = "default"
  /\ tables = {} /\ left = {}
  /\ currScope = "" /\ imported = [n \in FileNames |-> {}] /\ output = NoFile
  /\ outDir = [n \in FileNames |-> Absent]
  /\ before = outDir

\* ParseOptions prints the usage and exits.
RefuseOptions ==
  /\ phase = "init" /\ Refused(invocation)
  /\ phase' = "fatal"
  /\ UNCHANGED <<pointed, memory, dirs>>

\* The process is new, whatever an earlier one had in memory: NewContext makes an
\* empty database, NewRenderer has the builtin templates and no scopes.
Initialize ==
  /\ phase = "init" /\ ~Refused(invocation)
  /\ phase' = "templates"
  /\ next' = 0 /\ loaded' = Builtin /\ lastSet' = "" /\ templateSet' = "default"
  /\ tables' = {} /\ left' = {}
  /\ currScope' = "" /\ imported' = [n \in FileNames |-> {}] /\ output' = NoFile
  /\ UNCHANGED <<pointed, dirs>>

\* log.Fatalf after an error of the system (a file that cannot be read, opened or
\* written), of a statement or of a template, and the process being killed.
Stop ==
  /\ phase \notin {"done", "fatal"}
  /\ phase' = "fatal"
  /\ UNCHANGED <<pointed, memory, dirs>>

\* The command is run again, with sources that may have changed.
Rerun ==
  /\ phase \in {"done", "fatal"} /\ runs < MaxRuns
  /\ invocation' \in Invocations
  /\ runs' = runs + 1
  /\ phase' = "init"
  /\ before' = outDir
  /\ UNCHANGED <<memory, outDir>>

-----------------------------------------------------------------------------
(* The iterator over the files that the globs of a phase match.            *)

Matched ==
  CASE phase = "templates" -> options.t
    [] phase = "ddl"       -> options.ddl
    [] phase = "dml"       -> options.dml
    [] OTHER               -> <<>>

\* Mutated: a file read is not passed over.
HandsOutStays(f) ==
  /\ output = NoFile
  /\ next < Len(Matched) /\ f = Matched[next + 1] /\ ~f.dir
  /\ next' = next

HandsOut(f) ==
  /\ output = NoFile
  /\ next < Len(Matched) /\ f = Matched[next + 1] /\ ~f.dir
  /\ next' = next + 1

Exhausted ==
  /\ output = NoFile
  /\ next = Len(Matched)
  /\ next' = 0

\* "Skip directories": the loop goes on, with i as it was.
SkipDirectory ==
  /\ output = NoFile
  /\ next < Len(Matched) /\ Matched[next + 1].dir
  /\ UNCHANGED vars

-----------------------------------------------------------------------------
(* LoadTemplate: AddTemplate for each file, then Use.                      *)

AddTemplate(f) ==
  /\ phase = "templates" /\ HandsOut(f) /\ f.type \in Types
  /\ loaded' = [loaded EXCEPT ![f.type] = Put(@, f.set, f.path)]
  /\ lastSet' = f.set
  /\ UNCHANGED <<pointed, phase, templateSet, dbVars, renderVars, dirs>>

RefuseTemplate(f) ==
  /\ phase = "templates" /\ HandsOut(f) /\ f.type \notin Types
  /\ phase' = "fatal"
  /\ UNCHANGED <<pointed, templateVars, dbVars, renderVars, dirs>>

\* Mutated: an explicit set is used only when no directory gave one.
UseLastFirst ==
  /\ phase = "templates" /\ Exhausted
  /\ phase' = "ddl"
  /\ templateSet' = IF lastSet # "" THEN lastSet
                    ELSE IF options.T # "" THEN options.T ELSE templateSet
  /\ UNCHANGED <<pointed, loaded, lastSet, dbVars, renderVars, dirs>>

Use ==
  /\ phase = "templates" /\ Exhausted
  /\ phase' = "ddl"
  /\ templateSet' = IF options.T # "" THEN options.T
                    ELSE IF lastSet # "" THEN lastSet ELSE templateSet
  /\ UNCHANGED <<pointed, loaded, lastSet, dbVars, renderVars, dirs>>

-----------------------------------------------------------------------------
(* LoadDDL: the statements of each file in turn, against the database.     *)

\* A statement runs if it is a DDL statement, the tables it takes away exist and
\* those it leaves do not yet.
Runs(db, stmt) ==
  /\ stmt.allowed
  /\ stmt.takes \subseteq db
  /\ (stmt.leaves \ stmt.takes) \intersect db = {}

AfterStmt(db, stmt) == (db \ stmt.takes) \union stmt.leaves

\* After each of the statements, beginning with none.
Databases(db, stmts) ==
  LET after[n \in 0 .. Len(stmts)] ==
        IF n = 0 THEN db ELSE AfterStmt(after[n-1], stmts[n])
  IN  after

AllRun(db, stmts) ==
  \A n \in 1 .. Len(stmts) : Runs(Databases(db, stmts)[n-1], stmts[n])

RunDDL(f) ==
  /\ phase = "ddl" /\ HandsOut(f) /\ AllRun(tables, f.stmts)
  /\ tables' = Databases(tables, f.stmts)[Len(f.stmts)]
  /\ UNCHANGED <<pointed, phase, templateVars, left, renderVars, dirs>>

RefuseDDL(f) ==
  /\ phase = "ddl" /\ HandsOut(f) /\ ~AllRun(tables, f.stmts)
  /\ phase' = "fatal"
  /\ UNCHANGED <<pointed, templateVars, dbVars, renderVars, dirs>>

\* The DBMeta is built, and cached, once all the DDL has run.
GetDBMeta ==
  /\ phase = "ddl" /\ Exhausted
  /\ phase' = "tables"
  /\ left' = tables
  /\ UNCHANGED <<pointed, templateVars, tables, renderVars, dirs>>

-----------------------------------------------------------------------------
(* Rendering a source in the scope of its file, and writing the file.      *)

\* Renderer.Render: the set in use, else the default, else the root template.
Template(type) ==
  LET sets == loaded[type]
  IN  IF templateSet \in DOMAIN sets THEN sets[templateSet] ELSE sets["default"]

\* Mutated: the scope is not switched to.
RenderUnscoped(source) ==
  /\ output = NoFile
  /\ imported' = [imported EXCEPT ![currScope] = @ \union source.pkgs]
  /\ output' = [step |-> "open", name |-> source.out, source |-> source.id,
                templates |-> [t \in source.types |-> Template(t)]]
  /\ UNCHANGED currScope

Render(source) ==
  /\ output = NoFile
  /\ currScope' = source.out
  /\ imported' = [imported EXCEPT ![source.out] = @ \union source.pkgs]
  /\ output' = [step |-> "open", name |-> source.out, source |-> source.id,
                templates |-> [t \in source.types |-> Template(t)]]

GoFile(o, imports) ==
  [is |-> "complete", source |-> o.source, imports |-> imports, templates |-> o.templates,
   formatted |-> ~options.nofmt, nullTypes |-> options.null]

\* OutputFile: the header is filled from the current scope, and the file opened
\* with O_TRUNC before the text is formatted.
OpenFile ==
  /\ phase \in {"tables", "dml", "standalone"} /\ output.step = "open"
  /\ outDir' = [outDir EXCEPT ![output.name] = Cut]
  /\ output' = [step |-> "write", name |-> output.name,
                file |-> GoFile(output, imported[currScope])]
  /\ UNCHANGED <<pointed, phase, next, templateVars, dbVars, currScope, imported, before>>

\* Mutated: a file that cannot be formatted is left, and the run goes on.
WriteFileOrSkip ==
  /\ phase \in {"tables", "dml", "standalone"} /\ output.step = "write"
  /\ \/ outDir' = [outDir EXCEPT ![output.name] = output.file]
     \/ UNCHANGED outDir
  /\ output' = NoFile
  /\ phase' = IF phase = "standalone" THEN "done" ELSE phase
  /\ UNCHANGED <<pointed, next, templateVars, dbVars, currScope, imported, before>>

\* The rest of OutputFile; the last file ends the run.
WriteFile ==
  /\ phase \in {"tables", "dml", "standalone"} /\ output.step = "write"
  /\ outDir' = [outDir EXCEPT ![output.name] = output.file]
  /\ output' = NoFile
  /\ phase' = IF phase = "standalone" THEN "done" ELSE phase
  /\ UNCHANGED <<pointed, next, templateVars, dbVars, currScope, imported, before>>

-----------------------------------------------------------------------------
(* OutputTables, LoadAndOutputDML, OutputStandalone.                       *)

\* Go ranges over the map of tables in any order.
OutputTable(t) ==
  /\ phase = "tables" /\ t \in left
  /\ Render(TableSource(t))
  /\ left' = left \ {t}
  /\ UNCHANGED <<pointed, phase, next, templateVars, tables, dirs>>

\* Mutated: the last table is forgotten.
EndTablesEarly ==
  /\ phase = "tables" /\ Cardinality(left) <= 1 /\ output = NoFile
  /\ phase' = "dml"
  /\ UNCHANGED <<pointed, memory, dirs>>

EndTables ==
  /\ phase = "tables" /\ left = {} /\ output = NoFile
  /\ phase' = "dml"
  /\ UNCHANGED <<pointed, memory, dirs>>

\* A statement that mentions a table compiles only if the table exists.
OutputDML(f) ==
  /\ phase = "dml" /\ HandsOut(f) /\ f.reads \subseteq tables
  /\ Render(DMLSource(f))
  /\ UNCHANGED <<pointed, phase, templateVars, dbVars, dirs>>

RefuseDML(f) ==
  /\ phase = "dml" /\ HandsOut(f) /\ ~(f.reads \subseteq tables)
  /\ phase' = "fatal"
  /\ UNCHANGED <<pointed, templateVars, dbVars, renderVars, dirs>>

EndDML ==
  /\ phase = "dml" /\ Exhausted
  /\ phase' = "standalone"
  /\ UNCHANGED <<pointed, templateVars, dbVars, renderVars, dirs>>

OutputStandalone ==
  /\ phase = "standalone"
  /\ Render(Standalone)
  /\ UNCHANGED <<pointed, phase, next, templateVars, dbVars, dirs>>

-----------------------------------------------------------------------------
TemplateStep == Use \/ \E f \in ToSet(options.t) : AddTemplate(f) \/ RefuseTemplate(f)

DDLStep == GetDBMeta \/ \E f \in ToSet(options.ddl) : RunDDL(f) \/ RefuseDDL(f)

TableStep == EndTables \/ \E t \in Tables : OutputTable(t)

DMLStep == EndDML \/ \E f \in ToSet(options.dml) : OutputDML(f) \/ RefuseDML(f)

Main ==
  \/ RefuseOptions \/ Initialize \/ SkipDirectory \/ TemplateStep \/ DDLStep \/ TableStep \/ DMLStep
  \/ OutputStandalone \/ OpenFile \/ WriteFile

Next == Main \/ Stop \/ Rerun

Spec == Init /\ [][Next]_vars

\* main is one goroutine that waits for nobody.
FairSpec == Spec /\ WF_vars(Main)

-----------------------------------------------------------------------------
(* What a run should leave behind, from what it was pointed at.            *)

AllStmts(p) == FlattenSeq([n \in 1 .. Len(p.ddl) |-> IF p.ddl[n].dir THEN <<>> ELSE p.ddl[n].stmts])

\* A table is there in the end if the last statement about it leaves it.
Defined(p) ==
  {t \in Tables :
     \E n \in 1 .. Len(AllStmts(p)) :
       /\ t \in AllStmts(p)[n].leaves
       /\ \A m \in n+1 .. Len(AllStmts(p)) :
            t \in AllStmts(p)[m].takes => t \in AllStmts(p)[m].leaves}

Sources(p) ==
  {TableSource(t) : t \in Defined(p)} \union {DMLSource(f) : f \in DMLFiles(p)}
    \union {Standalone}

\* No two sources of a run make the same file.  The program does not see to it: two
\* DML files of one name in two directories are enough.
NamesApart ==
  \A i \in Invocations :
    ~Refused(i) =>
      \A s1, s2 \in Sources(ParseOptions(i)) : s1.out = s2.out => s1 = s2

\* Files of template set s for a type; the last of them counts.
Candidates(p, type, s) ==
  {n \in 1 .. Len(p.t) : /\ ~p.t[n].dir
                                 /\ p.t[n].type = type /\ p.t[n].set = s}

LastCandidate(p, type, s) ==
  p.t[CHOOSE n \in Candidates(p, type, s) : \A m \in Candidates(p, type, s) : m <= n].path

\* -T names the set; without it, the directory given last.
ChosenSet(p) ==
  IF p.T # "" THEN p.T
  ELSE LET read == {n \in 1 .. Len(p.t) : ~p.t[n].dir}
       IN  IF read = {} THEN "default"
           ELSE p.t[CHOOSE n \in read : \A m \in read : m <= n].set

ChosenTemplate(p, type) ==
  IF Candidates(p, type, ChosenSet(p)) # {} THEN LastCandidate(p, type, ChosenSet(p))
  ELSE IF Candidates(p, type, "default") # {} THEN LastCandidate(p, type, "default")
  ELSE "builtin"

Complete(source) ==
  [is |-> "complete", source |-> source.id, imports |-> source.pkgs,
   templates |-> [t \in source.types |-> ChosenTemplate(options, t)],
   formatted |-> ~options.nofmt, nullTypes |-> options.null]

-----------------------------------------------------------------------------
\* The file being made is always the one whose scope is current, and a database
\* and a DBMeta hold only tables.
TypeOK ==
  /\ invocation \in Invocations /\ runs \in 1 .. MaxRuns
  /\ phase \in {"init", "templates", "ddl", "tables", "dml", "standalone", "done", "fatal"}
  /\ phase \notin {"init", "fatal"} => next \in 0 .. Len(Matched)
  /\ DOMAIN loaded = Types
  /\ tables \subseteq Tables /\ left \subseteq tables
  /\ imported \in [FileNames -> SUBSET UNION {s.pkgs : s \in AllSources}]
  /\ output.step \in {"none", "open", "write"}
  /\ output # NoFile => output.name = currScope
  /\ DOMAIN outDir = FileNames /\ DOMAIN before = FileNames

\* A run that ends well leaves a complete file of every source: each table that
\* all the DDL together defines, each DML file and the standalone one, imports
\* that fit and the template chosen, whatever order the map of tables took and
\* whatever an interrupted run left there.
EverySourceWritten ==
  phase = "done" => \A s \in Sources(options) : outDir[s.out] = Complete(s)

\* At any moment, so also after a fatal error or a kill, a file is as the run
\* found it or complete, but for at most one, the file being written.
AtMostOneCut ==
  phase # "init" =>
    LET damaged == {n \in FileNames :
                      /\ outDir[n] # before[n]
                      /\ ~\E s \in Sources(options) : n = s.out /\ outDir[n] = Complete(s)}
    IN  Cardinality(damaged) <= 1 /\ \A n \in damaged : outDir[n] = Cut

\* The code generated of a DML file uses the types generated of its tables: once
\* it is replaced, those are of the same run.
ReadersAfterTables ==
  phase # "init" =>
    \A f \in DMLFiles(options) :
      outDir[DMLSource(f).out] # before[DMLSource(f).out] =>
        \A t \in f.reads : outDir[TableSource(t).out] = Complete(TableSource(t))

\* "Command line override config file." (options.go:131): the command line's -T, or
\* else the file's, names the set; in that set the command line's directories go
\* before the file's; and every DML file that either names is there.
CommandLineFirst ==
  phase = "done" =>
    LET args == invocation.args
        conf == IF IsThere(invocation.conf) THEN invocation.conf ELSE args
        set  == IF args.T # "" THEN args.T ELSE conf.T
        Of(given, type) == {f \in ToSet(given.t) : ~f.dir /\ f.set = set /\ f.type = type}
        Paths(given, type) == {f.path : f \in Of(given, type)}
    IN  \A source \in {DMLSource(f) : f \in DMLFiles(args) \union DMLFiles(conf)} \union {Standalone} :
          /\ outDir[source.out].is = "complete"
          /\ set # "" =>
               \A type \in source.types :
                 LET used == outDir[source.out].templates[type]
                 IN  IF Of(args, type) # {} THEN used \in Paths(args, type)
                     ELSE Of(conf, type) # {} => used \in Paths(conf, type)

NoDirectory(p) ==
  \A f \in ToSet(p.t) \union ToSet(p.ddl) \union ToSet(p.dml) : ~f.dir

Begins == phase = "init"
Ended  == phase \in {"done", "fatal"}

\* Every run ends, in success or with an error, also if nothing stops it, unless
\* a glob matches a directory.
EveryRunEnds == (Begins /\ NoDirectory(options)) ~> Ended

\* "dml.sql.go // One for each dml file." (README.md:73)
OneForEachDML ==
  phase = "done" =>
    \A f \in DMLFiles(options) : outDir[DMLSource(f).out].source = f.path

\* "Skip directories." (main.go:102): those who match a glob are passed over, and
\* the run goes on to its end.
DirectoriesSkipped == Begins ~> Ended
=============================================================================
