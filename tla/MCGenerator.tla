---------------------------- MODULE MCGenerator -----------------------------
(* Small projects: two tables, a few DDL, DML and template files.          *)
EXTENDS Generator

MCTypes  == {"table", "select", "insert", "standalone"}
MCTables == {"user", "blog"}

MCTablePkgs == [t \in MCTables |-> IF t = "user" THEN {"fmt", "time"} ELSE {"fmt"}]
MCBasePkgs  == {"context"}

Directory == [dir |-> TRUE]

Tmpl(path, set, type) == [dir |-> FALSE, path |-> path, set |-> set, type |-> type]

Stmt(takes, leaves) == [allowed |-> TRUE, takes |-> takes, leaves |-> leaves]
CreateUser == Stmt({}, {"user"})
CreateBlog == Stmt({}, {"blog"})
AlterUser  == Stmt({"user"}, {"user"})
DropBlog   == Stmt({"blog"}, {})
RenameUser == Stmt({"user"}, {"blog"})
Insertion  == [allowed |-> FALSE, takes |-> {"user"}, leaves |-> {"user"}]

DDL(stmts) == [dir |-> FALSE, stmts |-> stmts]

DML(path, base, types, pkgs, reads) ==
  [dir |-> FALSE, path |-> path, base |-> base, types |-> types, pkgs |-> pkgs, reads |-> reads]

ReadUser == DML("a/user.sql", "user.sql", {"select"}, {"sql"}, {"user"})
ReadBoth == DML("a/dml.sql", "dml.sql", {"select", "insert"}, {"sql", "fmt"}, {"user", "blog"})

\* With its templates in directories of its own, one of them named as the
\* builtin set, and without.
Templated == <<Tmpl("x/mine/table.tmpl", "mine", "table"),
               Tmpl("x/default/select.tmpl", "default", "select"),
               Tmpl("y/mine/table.tmpl", "mine", "table")>>

Given(t, T, ddl, dml) ==
  [o |-> "gen", ll |-> "", ddl |-> ddl, dml |-> dml, nofmt |-> FALSE, t |-> t, T |-> T, null |-> FALSE]

Alone(args) == [args |-> args, conf |-> NoConf, explicit |-> FALSE]

Nothing == [Given(<<>>, "", <<>>, <<>>) EXCEPT !.o = ""]

\* What one and the same project may be at different times.
PlainInvocations ==
  {Alone(args) : args \in
    {Given(<<>>, "", <<DDL(<<CreateUser, CreateBlog>>)>>, <<ReadUser, ReadBoth>>),
     Given(Templated, "", <<DDL(<<CreateUser>>), DDL(<<CreateBlog, AlterUser>>)>>, <<ReadBoth>>),
     Given(Templated, "default", <<DDL(<<CreateUser, CreateBlog, DropBlog>>)>>, <<ReadUser>>),
     Given(<<Tmpl("x/mine/user.tmpl", "mine", "user")>>, "", <<>>, <<>>),
     Given(<<>>, "none", <<DDL(<<CreateUser>>), DDL(<<RenameUser, CreateUser>>)>>, <<ReadBoth>>),
     Given(<<>>, "", <<DDL(<<CreateBlog, CreateUser, CreateUser>>)>>, <<ReadBoth>>),
     Given(<<>>, "", <<DDL(<<CreateUser, Insertion>>)>>, <<ReadUser>>),
     Given(<<>>, "", <<DDL(<<CreateUser>>)>>, <<ReadUser, ReadBoth>>)}}

\* Command lines beside configuration files, that agree, disagree or are no good.
SelectMine  == Tmpl("z/mine/select.tmpl", "mine", "select")
SelectYours == Tmpl("z/yours/select.tmpl", "yours", "select")
InFile == Given(<<Tmpl("x/mine/select.tmpl", "mine", "select"), SelectYours>>, "yours",
                <<DDL(<<CreateUser>>)>>, <<ReadUser>>)

ConfInvocations ==
  {[args |-> args, conf |-> conf, explicit |-> explicit] :
     args \in {Nothing, [Nothing EXCEPT !.T = "mine", !.nofmt = TRUE],
              [Nothing EXCEPT !.t = <<SelectMine>>, !.ddl = <<DDL(<<CreateBlog>>)>>, !.dml = <<ReadBoth>>],
              [Nothing EXCEPT !.o = "gen", !.ll = "warn"]},
     conf \in {NoConf, BadConf, InFile, [InFile EXCEPT !.T = "", !.null = TRUE],
              [InFile EXCEPT !.o = "2b", !.ll = "loud"]},
     explicit \in BOOLEAN}

\* And with a directory that a glob matches.
MCInvocations ==
  PlainInvocations \union ConfInvocations \union
    {Alone(Given(Templated, "", <<DDL(<<CreateUser>>)>>, <<ReadUser, Directory>>)),
     Alone(Given(<<>>, "", <<Directory, DDL(<<CreateUser>>)>>, <<ReadUser>>))}

OneDirInvocation == {Alone(Given(<<>>, "", <<DDL(<<CreateUser>>)>>, <<Directory, ReadUser>>))}

\* Two DML files of one name, in different directories.
SameNameInvocation ==
  {Alone(Given(<<>>, "", <<DDL(<<CreateUser, CreateBlog>>)>>,
               <<ReadUser, DML("b/user.sql", "user.sql", {"select"}, {"time"}, {"blog"})>>))}

\* Only there do two sources make one file.
ASSUME MCAssumption == NamesApart <=> Invocations # SameNameInvocation
=============================================================================
