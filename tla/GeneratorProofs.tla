-------------------------- MODULE GeneratorProofs ---------------------------
(* That a run leaves what it should behind, for any projects, any number of *)
(* runs over one directory and any moment to stop at.                       *)
EXTENDS Generator, Inductions

\* The run has got through its options and has not failed.
Running == phase \in {"templates", "ddl", "tables", "dml", "standalone", "done"}

\* From here on the templates are there, and from here on the tables are.
HasTemplates == phase \in {"ddl", "tables", "dml", "standalone", "done"}
HasTables == phase \in {"tables", "dml", "standalone", "done"}

TypeInv ==
  /\ TypeOK
  /\ Running => ~Refused(invocation)
  /\ phase \in {"templates", "ddl"} => left = {}

\* No later one of the first k files is of the same type and set.
LastOfItsSet(files, n, k) ==
  \A m \in n+1 .. k : files[m].type = files[n].type => files[m].set # files[n].set

\* The templates are those of the first k files, over the builtin ones.
Loads(templates, files, k) ==
  \A type \in Types :
    /\ {"", "default"} \subseteq DOMAIN templates[type]
    /\ \A s \in DOMAIN templates[type] \ {"", "default"} :
         \E n \in 1 .. k : files[n].type = type /\ files[n].set = s
    /\ \A n \in 1 .. k : files[n].type = type /\ LastOfItsSet(files, n, k) =>
         /\ files[n].set \in DOMAIN templates[type]
         /\ templates[type][files[n].set] = files[n].path
    /\ \A s \in {"", "default"} :
         (\A n \in 1 .. k : files[n].type = type => files[n].set # s)
           => templates[type][s] = "builtin"

TemplatesInv ==
  /\ phase = "templates" =>
       /\ \A n \in 1 .. next : ~options.t[n].dir
       /\ Loads(loaded, options.t, next)
       /\ lastSet = IF next = 0 THEN "" ELSE options.t[next].set
       /\ templateSet = "default"
  /\ HasTemplates =>
       /\ \A n \in 1 .. Len(options.t) : ~options.t[n].dir
       /\ Loads(loaded, options.t, Len(options.t))
       /\ templateSet = ChosenSet(options)

\* The statements of the first k DDL files, and the tables that statements define.
StmtsOf(p, k) == FlattenSeq([n \in 1 .. k |-> IF p.ddl[n].dir THEN <<>> ELSE p.ddl[n].stmts])

DefinedBy(stmts) ==
  {t \in Tables :
     \E n \in 1 .. Len(stmts) :
       /\ t \in stmts[n].leaves
       /\ \A m \in n+1 .. Len(stmts) : t \in stmts[m].takes => t \in stmts[m].leaves}

TablesInv ==
  /\ phase = "templates" => tables = {}
  /\ phase = "ddl" => tables = DefinedBy(StmtsOf(options, next))
  /\ HasTables => tables = Defined(options)
  /\ phase \in {"dml", "standalone", "done"} => left = {}

\* What may be rendered in a phase.
Current ==
  CASE phase = "tables"     -> {TableSource(t) : t \in tables}
    [] phase = "dml"        -> {s \in {DMLSource(f) : f \in DMLFiles(options)} : s.reads \subseteq tables}
    [] phase = "standalone" -> {Standalone}
    [] OTHER                -> {}

\* The file being made is that of a source of the phase.
Making(s) ==
  /\ currScope = s.out /\ imported[s.out] = s.pkgs
  /\ \/ output = [step |-> "open", name |-> s.out, source |-> s.id,
                  templates |-> [t \in s.types |-> ChosenTemplate(options, t)]]
     \/ output = [step |-> "write", name |-> s.out, file |-> Complete(s)]

OutputInv ==
  Running =>
    /\ \A s \in Sources(options) : imported[s.out] \in {{}, s.pkgs}
    /\ output # NoFile => \E s \in Current : Making(s)

\* The output directory is as the run found it, but for what it has written.
DirInv ==
  IF phase = "init" THEN outDir = before
  ELSE \A n \in FileNames :
         \/ outDir[n] = before[n]
         \/ \E s \in Sources(options) : n = s.out /\ outDir[n] = Complete(s)
         \/ outDir[n] = Cut /\ output.step = "write" /\ output.name = n

Written(s) ==
  \/ outDir[s.out] = Complete(s)
  \/ output # NoFile /\ output.name = s.out

\* What has been gone through is written, or being written again.
WrittenInv ==
  /\ HasTables => \A t \in tables \ left : Written(TableSource(t))
  /\ phase = "dml" =>
       \A n \in 1 .. next : ~options.dml[n].dir /\ Written(DMLSource(options.dml[n]))
  /\ phase \in {"standalone", "done"} =>
       \A n \in 1 .. Len(options.dml) : ~options.dml[n].dir /\ Written(DMLSource(options.dml[n]))
  /\ phase = "done" => Written(Standalone)

ReadersInv ==
  /\ phase \in {"templates", "ddl"} => outDir = before
  /\ phase = "tables" =>
       \A f \in DMLFiles(options) : outDir[DMLSource(f).out] = before[DMLSource(f).out]
  /\ phase \in {"dml", "standalone"} =>
       \A f \in DMLFiles(options) :
         outDir[DMLSource(f).out] # before[DMLSource(f).out] => f.reads \subseteq tables
  /\ ReadersAfterTables

IInv ==
  TypeInv /\ TemplatesInv /\ TablesInv /\ OutputInv /\ DirInv /\ WrittenInv /\ ReadersInv

-----------------------------------------------------------------------------
(* What options name.                                                      *)

LEMMA ConcatSets ==
  ASSUME NEW a, NEW b, a \in Seq(ToSet(a)), b \in Seq(ToSet(b))
  PROVE  /\ a \o b \in Seq(ToSet(a \o b))
         /\ ToSet(a \o b) = ToSet(a) \union ToSet(b)
<1>1. /\ DOMAIN (a \o b) = 1 .. Len(a) + Len(b)
      /\ \A n \in 1 .. Len(a) : (a \o b)[n] = a[n]
      /\ \A n \in 1 .. Len(b) : (a \o b)[Len(a) + n] = b[n]
  OBVIOUS
<1>2. ToSet(a \o b) = ToSet(a) \union ToSet(b)
  <2>1. ASSUME NEW n \in DOMAIN (a \o b)
        PROVE  (a \o b)[n] \in ToSet(a) \union ToSet(b)
    <3>1. CASE n <= Len(a)
      BY <1>1, <3>1 DEF ToSet
    <3>2. CASE ~(n <= Len(a))
      <4>1. n - Len(a) \in 1 .. Len(b) /\ n = Len(a) + (n - Len(a))
        BY <1>1, <3>2
      <4> QED BY <1>1, <4>1 DEF ToSet
    <3> QED BY <3>1, <3>2
  <2>2. ASSUME NEW n \in DOMAIN a
        PROVE  a[n] \in ToSet(a \o b)
    BY <1>1 DEF ToSet
  <2>3. ASSUME NEW n \in DOMAIN b
        PROVE  b[n] \in ToSet(a \o b)
    <3>1. Len(a) + n \in DOMAIN (a \o b)
      BY <1>1
    <3> QED BY <1>1, <3>1 DEF ToSet
  <2> QED BY <2>1, <2>2, <2>3 DEF ToSet
<1>3. a \o b \in Seq(ToSet(a) \union ToSet(b))
  OBVIOUS
<1> QED BY <1>2, <1>3

LEMMA ProjectLists ==
  ASSUME NEW p, IsProject(p)
  PROVE  /\ p.t \in Seq(ToSet(p.t)) /\ Len(p.t) \in Nat
         /\ p.ddl \in Seq(ToSet(p.ddl)) /\ Len(p.ddl) \in Nat
         /\ p.dml \in Seq(ToSet(p.dml)) /\ Len(p.dml) \in Nat
<1>1. p.t \in Seq(ToSet(p.t)) /\ p.ddl \in Seq(ToSet(p.ddl)) /\ p.dml \in Seq(ToSet(p.dml))
  BY Zenon DEF IsProject
<1> QED BY <1>1

LEMMA ParsedProject ==
  ASSUME NEW i \in Invocations
  PROVE  IsProject(ParseOptions(i))
<1>1. CASE ~IsThere(i.conf)
  BY <1>1, GeneratorAssumption DEF ParseOptions
<1>2. CASE IsThere(i.conf)
  <2> DEFINE p == Merge(i.args, i.conf)
  <2>1. IsProject(i.args) /\ IsProject(i.conf) /\ ParseOptions(i) = p
    BY <1>2, GeneratorAssumption DEF ParseOptions
  <2>2. /\ p.t = i.conf.t \o i.args.t
        /\ p.ddl = i.conf.ddl \o i.args.ddl
        /\ p.dml = i.conf.dml \o i.args.dml
    BY DEF Merge
  <2> HIDE DEF p
  <2>3. p.t \in Seq(ToSet(p.t)) /\ ToSet(p.t) = ToSet(i.conf.t) \union ToSet(i.args.t)
    <3>1. i.conf.t \in Seq(ToSet(i.conf.t)) /\ i.args.t \in Seq(ToSet(i.args.t))
      BY <2>1, ProjectLists
    <3> QED BY <2>2, <3>1, ConcatSets
  <2>4. p.ddl \in Seq(ToSet(p.ddl)) /\ ToSet(p.ddl) = ToSet(i.conf.ddl) \union ToSet(i.args.ddl)
    <3>1. i.conf.ddl \in Seq(ToSet(i.conf.ddl)) /\ i.args.ddl \in Seq(ToSet(i.args.ddl))
      BY <2>1, ProjectLists
    <3> QED BY <2>2, <3>1, ConcatSets
  <2>5. p.dml \in Seq(ToSet(p.dml)) /\ ToSet(p.dml) = ToSet(i.conf.dml) \union ToSet(i.args.dml)
    <3>1. i.conf.dml \in Seq(ToSet(i.conf.dml)) /\ i.args.dml \in Seq(ToSet(i.args.dml))
      BY <2>1, ProjectLists
    <3> QED BY <2>2, <3>1, ConcatSets
  <2> QED BY <2>1, <2>3, <2>4, <2>5 DEF IsProject
<1> QED BY <1>1, <1>2

\* A file of a list is one of its files.
LEMMA FileOf ==
  ASSUME NEW files, files \in Seq(ToSet(files)), NEW n \in 1 .. Len(files)
  PROVE  files[n] \in ToSet(files)
BY DEF ToSet

LEMMA SourcesKnown ==
  ASSUME NEW i \in Invocations
  PROVE  \A s \in Sources(ParseOptions(i)) : s \in AllSources /\ s.out \in FileNames
BY DEF Sources, Defined, AllSources, FileNames

-----------------------------------------------------------------------------
(* Templates.                                                              *)

LEMMA LastCandidateIs ==
  ASSUME NEW p, NEW type, NEW s, IsProject(p), Candidates(p, type, s) # {}
  PROVE  \E n \in Candidates(p, type, s) :
           /\ \A m \in Candidates(p, type, s) : m <= n
           /\ LastCandidate(p, type, s) = p.t[n].path
<1> DEFINE S == Candidates(p, type, s)
<1>1. Len(p.t) \in Nat
  BY ProjectLists
<1>2. S \in SUBSET (1 .. Len(p.t))
  BY DEF Candidates
<1>3. \E n \in S : \A m \in S : m <= n
  <2> HIDE DEF S
  <2>1. S # {}
    BY DEF S
  <2> QED BY <1>1, <1>2, <2>1, GreatestNatural
<1> DEFINE n == CHOOSE n \in S : \A m \in S : m <= n
<1>4. n \in S /\ \A m \in S : m <= n
  <2> HIDE DEF S
  <2> QED BY <1>3
<1> QED BY <1>4 DEF LastCandidate

\* The last file that was read, if there is one, names the set.
LEMMA LastIs ==
  ASSUME NEW p, IsProject(p), \A n \in 1 .. Len(p.t) : ~p.t[n].dir
  PROVE  ChosenSet(p) = IF p.T # "" THEN p.T
                        ELSE IF Len(p.t) = 0 THEN "default" ELSE p.t[Len(p.t)].set
<1> DEFINE read == {n \in 1 .. Len(p.t) : ~p.t[n].dir}
<1>1. Len(p.t) \in Nat
  BY ProjectLists
<1>2. read = 1 .. Len(p.t)
  OBVIOUS
<1>3. CASE Len(p.t) = 0
  BY <1>2, <1>3 DEF ChosenSet
<1>4. CASE Len(p.t) # 0
  <2>1. Len(p.t) \in read /\ \A m \in read : m <= Len(p.t)
    BY <1>1, <1>2, <1>4
  <2>2. (CHOOSE n \in read : \A m \in read : m <= n) = Len(p.t)
    <3>1. \A n \in read : (\A m \in read : m <= n) => n = Len(p.t)
      BY <1>1, <1>2, <2>1
    <3> HIDE DEF read
    <3> QED BY <2>1, <3>1
  <2>3. read # {}
    BY <2>1
  <2>4. ChosenSet(p) = IF p.T # "" THEN p.T
                       ELSE IF read = {} THEN "default"
                       ELSE p.t[CHOOSE n \in read : \A m \in read : m <= n].set
    BY Zenon DEF ChosenSet
  <2> HIDE DEF read
  <2> QED BY <1>4, <2>2, <2>3, <2>4
<1> QED BY <1>3, <1>4

\* A set that a file is of has the last of its files for the type.
LEMMA LoadedLast ==
  ASSUME IsProject(options), \A n \in 1 .. Len(options.t) : ~options.t[n].dir,
         Loads(loaded, options.t, Len(options.t)), NEW type \in Types, NEW s,
         Candidates(options, type, s) # {}
  PROVE  s \in DOMAIN loaded[type] /\ loaded[type][s] = LastCandidate(options, type, s)
<1> DEFINE t == options.t
<1>1. Len(t) \in Nat
  BY ProjectLists
<1>2. PICK n \in Candidates(options, type, s) :
        /\ \A m \in Candidates(options, type, s) : m <= n
        /\ LastCandidate(options, type, s) = t[n].path
  BY LastCandidateIs
<1>3. n \in 1 .. Len(t) /\ t[n].type = type /\ t[n].set = s
  BY <1>2 DEF Candidates
<1>4. ASSUME NEW m \in n+1 .. Len(t), t[m].type = type
      PROVE  t[m].set # s
  <2> SUFFICES ASSUME t[m].set = s PROVE FALSE
    OBVIOUS
  <2>1. m \in 1 .. Len(t) /\ ~(m <= n)
    BY <1>1, <1>3
  <2>2. m \in Candidates(options, type, s)
    BY <1>4, <2>1 DEF Candidates
  <2> QED BY <1>2, <2>1, <2>2
<1>5. LastOfItsSet(t, n, Len(t))
  BY <1>3, <1>4 DEF LastOfItsSet
<1>6. t[n].set \in DOMAIN loaded[type] /\ loaded[type][t[n].set] = t[n].path
  BY <1>3, <1>5 DEF Loads
<1> QED BY <1>2, <1>3, <1>6

LEMMA TemplateChosen ==
  ASSUME IsProject(options), \A n \in 1 .. Len(options.t) : ~options.t[n].dir,
         Loads(loaded, options.t, Len(options.t)), templateSet = ChosenSet(options), NEW type \in Types
  PROVE  Template(type) = ChosenTemplate(options, type)
<1> DEFINE t == options.t
           set == ChosenSet(options)
<1>1. Len(t) \in Nat /\ \A n \in 1 .. Len(t) : t[n] \in ToSet(t)
  BY ProjectLists, FileOf
<1>2. set # ""
  <2>1. set = IF options.T # "" THEN options.T
              ELSE IF Len(t) = 0 THEN "default" ELSE t[Len(t)].set
    BY LastIs
  <2>2. Len(t) # 0 => t[Len(t)].set # ""
    <3>1. \A f \in ToSet(t) : ~f.dir => f.set # ""
      BY Zenon DEF IsProject
    <3>2. Len(t) # 0 => Len(t) \in 1 .. Len(t)
      BY <1>1
    <3> QED BY <1>1, <3>1, <3>2
  <2> QED BY <2>1, <2>2
<1>3. ASSUME NEW s, Candidates(options, type, s) = {}
      PROVE  /\ \A n \in 1 .. Len(t) : t[n].type = type => t[n].set # s
             /\ s \notin {"", "default"} => s \notin DOMAIN loaded[type]
             /\ s \in {"", "default"} => loaded[type][s] = "builtin"
  <2>1. \A n \in 1 .. Len(t) : t[n].type = type => t[n].set # s
    BY <1>3 DEF Candidates
  <2>2. s \in {"", "default"} => loaded[type][s] = "builtin"
    BY <2>1, Zenon DEF Loads
  <2>3. s \notin {"", "default"} => s \notin DOMAIN loaded[type]
    <3>1. \A r \in DOMAIN loaded[type] \ {"", "default"} :
            \E n \in 1 .. Len(t) : t[n].type = type /\ t[n].set = r
      BY DEF Loads
    <3> QED BY <2>1, <3>1
  <2> QED BY <2>1, <2>2, <2>3
<1>4. {"", "default"} \subseteq DOMAIN loaded[type]
  BY DEF Loads
<1>5. Template(type) = IF set \in DOMAIN loaded[type] THEN loaded[type][set]
                       ELSE loaded[type]["default"]
  BY DEF Template
<1>6. ChosenTemplate(options, type) =
        IF Candidates(options, type, set) # {} THEN LastCandidate(options, type, set)
        ELSE IF Candidates(options, type, "default") # {}
             THEN LastCandidate(options, type, "default")
        ELSE "builtin"
  BY DEF ChosenTemplate
<1>7. CASE Candidates(options, type, set) # {}
  BY <1>5, <1>6, <1>7, LoadedLast
<1>8. CASE Candidates(options, type, set) = {} /\ set = "default"
  BY <1>3, <1>4, <1>5, <1>6, <1>8
<1>9. CASE Candidates(options, type, set) = {} /\ set # "default"
  <2>1. set \notin DOMAIN loaded[type]
    BY <1>2, <1>3, <1>9
  <2>2. CASE Candidates(options, type, "default") # {}
    BY <1>5, <1>6, <1>9, <2>1, <2>2, LoadedLast
  <2>3. CASE Candidates(options, type, "default") = {}
    BY <1>3, <1>5, <1>6, <1>9, <2>1, <2>3
  <2> QED BY <2>2, <2>3
<1> QED BY <1>7, <1>8, <1>9

-----------------------------------------------------------------------------
(* Tables.                                                                 *)

\* What Defined is.
LEMMA DefinedIs ==
  ASSUME NEW p
  PROVE  Defined(p) = DefinedBy(StmtsOf(p, Len(p.ddl)))
BY DEF Defined, DefinedBy, StmtsOf, AllStmts

\* One statement more defines the tables that it would leave of those defined.
LEMMA DefinedByAppend ==
  ASSUME NEW X, NEW stmts \in Seq(X), NEW stmt \in X, stmt.leaves \subseteq Tables
  PROVE  DefinedBy(Append(stmts, stmt)) = AfterStmt(DefinedBy(stmts), stmt)
<1> DEFINE all == Append(stmts, stmt)
           L == Len(stmts)
           LastWrite(s, n, t) == /\ t \in s[n].leaves
                            /\ \A m \in n+1 .. Len(s) : t \in s[m].takes => t \in s[m].leaves
<1>1. /\ L \in Nat /\ Len(all) = L + 1 /\ all[L + 1] = stmt
      /\ \A n \in 1 .. L : all[n] = stmts[n]
  OBVIOUS
<1> HIDE DEF all, L
<1>2. ASSUME NEW t, NEW n \in 1 .. L
      PROVE  LastWrite(all, n, t) <=> LastWrite(stmts, n, t) /\ (t \in stmt.takes => t \in stmt.leaves)
  <2>1. n + 1 .. Len(all) = (n + 1 .. L) \union {L + 1} /\ n + 1 .. L \subseteq 1 .. L
    BY <1>1
  <2>2. Len(stmts) = L
    BY DEF L
  <2> QED BY <1>1, <2>1, <2>2
<1>3. ASSUME NEW t
      PROVE  LastWrite(all, L + 1, t) <=> t \in stmt.leaves
  <2>1. (L + 1) + 1 .. Len(all) = {}
    BY <1>1
  <2> QED BY <1>1, <2>1
<1>4. 1 .. Len(all) = (1 .. L) \union {L + 1}
  BY <1>1
<1>5. ASSUME NEW s, NEW t
      PROVE  t \in DefinedBy(s) <=> t \in Tables /\ \E n \in 1 .. Len(s) : LastWrite(s, n, t)
  BY DEF DefinedBy
<1>6. ASSUME NEW t
      PROVE  t \in DefinedBy(all) <=> t \in AfterStmt(DefinedBy(stmts), stmt)
  <2> HIDE DEF LastWrite
  <2>1. t \in DefinedBy(all) <=> t \in Tables /\ (LastWrite(all, L + 1, t) \/ \E n \in 1 .. L : LastWrite(all, n, t))
    BY <1>4, <1>5
  <2>2. t \in DefinedBy(stmts) <=> t \in Tables /\ \E n \in 1 .. L : LastWrite(stmts, n, t)
    BY <1>5 DEF L
  <2>3. t \in AfterStmt(DefinedBy(stmts), stmt) <=>
          t \in stmt.leaves \/ (t \in DefinedBy(stmts) /\ t \notin stmt.takes)
    BY DEF AfterStmt
  <2> QED BY <1>2, <1>3, <2>1, <2>2, <2>3
<1> QED BY <1>6 DEF all

LEMMA DefinedByNone == DefinedBy(<<>>) = {}
BY DEF DefinedBy

\* Databases does what its recursion says.
LEMMA DatabasesDef ==
  ASSUME NEW X, NEW stmts \in Seq(X), \A x \in X : x.leaves \subseteq Tables,
         NEW db \in SUBSET Tables
  PROVE  /\ Databases(db, stmts)[0] = db
         /\ \A n \in 1 .. Len(stmts) :
              Databases(db, stmts)[n] = AfterStmt(Databases(db, stmts)[n - 1], stmts[n])
<1> DEFINE L == Len(stmts)
           D == SUBSET Tables
           step == [n \in 1 .. L |-> [d \in D |-> AfterStmt(d, stmts[n])]]
           Body(f) == [n \in 0 .. L |-> IF n = 0 THEN db ELSE AfterStmt(f[n-1], stmts[n])]
<1>1. L \in Nat /\ \A n \in 1 .. L : stmts[n] \in X
  OBVIOUS
<1>2. AreSteps(step, L, D)
  <2>1. ASSUME NEW n \in 1 .. L, NEW d \in D
        PROVE  AfterStmt(d, stmts[n]) \in D
    BY <1>1 DEF AfterStmt
  <2> QED BY <2>1 DEF AreSteps
<1>3. PICK g : Iterates(g, db, step, L, D)
  <2> HIDE DEF step
  <2> QED BY <1>1, <1>2, Iteration
<1>4. g = Body(g)
  <2>1. g \in [0 .. L -> D] /\ g[0] = db /\ \A n \in 1 .. L : g[n] = step[n][g[n - 1]]
    <3> HIDE DEF step, D
    <3> QED BY <1>3 DEF Iterates
  <2>2. ASSUME NEW n \in 0 .. L, n # 0
        PROVE  g[n] = AfterStmt(g[n - 1], stmts[n])
    <3>1. n \in 1 .. L /\ n - 1 \in 0 .. L
      BY <1>1, <2>2
    <3>2. g[n - 1] \in D
      BY <2>1, <3>1
    <3> QED BY <2>1, <3>1, <3>2
  <2> QED BY <2>1, <2>2
<1> DEFINE c == CHOOSE f : f = Body(f)
<1>5. c = Body(c)
  <2> HIDE DEF Body
  <2> QED BY <1>4
<1>6. Databases(db, stmts) = c
  BY DEF Databases
<1>7. ASSUME NEW n \in 0 .. L
      PROVE  c[n] = IF n = 0 THEN db ELSE AfterStmt(c[n-1], stmts[n])
  <2> HIDE DEF c
  <2>1. c[n] = Body(c)[n]
    BY <1>5
  <2> QED BY <2>1
<1> HIDE DEF c
<1> QED BY <1>1, <1>6, <1>7

\* The statements of a file lead from the tables that those before it define to the
\* tables that all of them do.
LEMMA DatabasesDefined ==
  ASSUME NEW X, NEW pre \in Seq(X), NEW stmts \in Seq(X), \A x \in X : x.leaves \subseteq Tables
  PROVE  Databases(DefinedBy(pre), stmts)[Len(stmts)] = DefinedBy(pre \o stmts)
<1> DEFINE after == Databases(DefinedBy(pre), stmts)
           upto(n) == pre \o SubSeq(stmts, 1, n)
           Good == {n \in Nat : n <= Len(stmts) => after[n] = DefinedBy(upto(n))}
<1>1. DefinedBy(pre) \in SUBSET Tables
  BY DEF DefinedBy
<1>2. /\ after[0] = DefinedBy(pre)
      /\ \A n \in 1 .. Len(stmts) : after[n] = AfterStmt(after[n - 1], stmts[n])
  <2> HIDE DEF after
  <2> QED BY <1>1, DatabasesDef DEF after
<1> HIDE DEF after
<1>3. 0 \in Good
  <2>1. upto(0) = pre
    OBVIOUS
  <2> QED BY <1>2, <2>1
<1>4. ASSUME NEW n \in Nat, n \in Good
      PROVE  n + 1 \in Good
  <2> SUFFICES ASSUME n + 1 <= Len(stmts) PROVE after[n + 1] = DefinedBy(upto(n + 1))
    OBVIOUS
  <2>1. /\ n + 1 \in 1 .. Len(stmts) /\ (n + 1) - 1 = n /\ n <= Len(stmts)
        /\ stmts[n + 1] \in X
    OBVIOUS
  <2>2. after[n + 1] = AfterStmt(DefinedBy(upto(n)), stmts[n + 1])
    BY <1>2, <1>4, <2>1
  <2>3. upto(n) \in Seq(X)
    BY <2>1
  <2>4. upto(n + 1) = Append(upto(n), stmts[n + 1])
    <3>1. SubSeq(stmts, 1, n + 1) = Append(SubSeq(stmts, 1, n), stmts[n + 1])
      BY <2>1
    <3>2. SubSeq(stmts, 1, n) \in Seq(X)
      BY <2>1
    <3> QED BY <2>1, <3>1, <3>2
  <2> HIDE DEF upto
  <2> QED BY <2>1, <2>2, <2>3, <2>4, DefinedByAppend
<1>5. Len(stmts) \in Good
  <2> HIDE DEF Good
  <2>1. Len(stmts) \in Nat
    OBVIOUS
  <2> QED BY <1>3, <1>4, <2>1, NatInSet
<1>6. upto(Len(stmts)) = pre \o stmts
  OBVIOUS
<1>7. after[Len(stmts)] = DefinedBy(upto(Len(stmts)))
  <2> HIDE DEF upto
  <2> QED BY <1>5
<1> QED BY <1>6, <1>7 DEF after

\* The statements of a project's files.
Statements(p) == UNION {ToSet(f.stmts) : f \in {g \in ToSet(p.ddl) : ~g.dir}}

LEMMA StmtsOfNext ==
  ASSUME NEW p, IsProject(p), NEW k \in Nat, k < Len(p.ddl), ~p.ddl[k + 1].dir
  PROVE  /\ StmtsOf(p, k) \in Seq(Statements(p))
         /\ p.ddl[k + 1].stmts \in Seq(Statements(p))
         /\ StmtsOf(p, k + 1) = StmtsOf(p, k) \o p.ddl[k + 1].stmts
<1> DEFINE S(n) == IF p.ddl[n].dir THEN <<>> ELSE p.ddl[n].stmts
           X == Statements(p)
<1>1. ASSUME NEW n \in 1 .. Len(p.ddl)
      PROVE  S(n) \in Seq(X)
  <2>1. CASE p.ddl[n].dir
    <3>1. <<>> \in Seq(X)
      OBVIOUS
    <3> QED BY <2>1, <3>1
  <2>2. CASE ~p.ddl[n].dir
    <3>1. p.ddl[n] \in ToSet(p.ddl)
      BY ProjectLists, FileOf
    <3>2. p.ddl[n].stmts \in Seq(ToSet(p.ddl[n].stmts))
      BY <2>2, <3>1 DEF IsProject
    <3>3. ToSet(p.ddl[n].stmts) \subseteq X
      BY <2>2, <3>1 DEF Statements
    <3> HIDE DEF X
    <3>4. p.ddl[n].stmts \in Seq(X)
      BY <3>2, <3>3
    <3> QED BY <2>2, <3>4
  <2> QED BY <2>1, <2>2
<1>2. Len(p.ddl) \in Nat
  BY ProjectLists
<1> DEFINE seqs == [n \in 1 .. k |-> S(n)]
           more == [n \in 1 .. k + 1 |-> S(n)]
<1> HIDE DEF S, X
<1>3. seqs \in Seq(Seq(X)) /\ S(k + 1) \in Seq(X)
  <2>1. \A n \in 1 .. k + 1 : n \in 1 .. Len(p.ddl)
    BY <1>2
  <2>2. \A n \in 1 .. k + 1 : S(n) \in Seq(X)
    BY <1>1, <2>1
  <2> QED BY <2>2
<1>4. more = Append(seqs, S(k + 1))
  BY <1>3
<1>5. StmtsOf(p, k) = FlattenSeq(seqs) /\ StmtsOf(p, k + 1) = FlattenSeq(more)
  BY DEF StmtsOf, S
<1>6. S(k + 1) = p.ddl[k + 1].stmts
  BY DEF S
<1> HIDE DEF seqs, more
<1>7. FlattenSeq(more) = FlattenSeq(seqs) \o S(k + 1) /\ FlattenSeq(seqs) \in Seq(X)
  BY <1>3, <1>4, FlattenAppend, FlattenType
<1> QED BY <1>3, <1>5, <1>6, <1>7 DEF X

LEMMA StatementsLeave ==
  ASSUME NEW p, IsProject(p), NEW x \in Statements(p)
  PROVE  x.leaves \subseteq Tables
<1>1. PICK f \in ToSet(p.ddl) : ~f.dir /\ x \in ToSet(f.stmts)
  BY DEF Statements
<1>2. \A g \in ToSet(p.ddl) : ~g.dir => \A stmt \in ToSet(g.stmts) : stmt.leaves \subseteq Tables
  BY Zenon DEF IsProject
<1> QED BY <1>1, <1>2

-----------------------------------------------------------------------------
(* Types.                                                                  *)

\* The steps of main that go through files, and what they leave alone.
LEMMA HandsOutFacts ==
  ASSUME TypeInv, Running, NEW f, HandsOut(f)
  PROVE  /\ next \in Nat /\ next < Len(Matched) /\ Len(Matched) \in Nat /\ next + 1 \in 1 .. Len(Matched)
         /\ f = Matched[next + 1] /\ ~f.dir /\ output = NoFile /\ next' = next + 1
<1>1. IsProject(options)
  BY ParsedProject DEF TypeInv, TypeOK, options
<1>2. Len(Matched) \in Nat
  BY <1>1, ProjectLists DEF Matched
<1>3. next \in 0 .. Len(Matched)
  BY DEF TypeInv, TypeOK, Running
<1> QED BY <1>2, <1>3 DEF HandsOut

LEMMA MatchedIs ==
  ASSUME TypeInv, Running
  PROVE  /\ IsProject(options)
         /\ next \in 0 .. Len(Matched) /\ Len(Matched) \in Nat
         /\ phase = "templates" => Matched = options.t
         /\ phase = "ddl" => Matched = options.ddl
         /\ phase = "dml" => Matched = options.dml
         /\ phase \in {"tables", "standalone", "done"} => next = 0
<1>1. IsProject(options)
  BY ParsedProject DEF TypeInv, TypeOK, options
<1>2. Len(Matched) \in Nat
  BY <1>1, ProjectLists DEF Matched
<1>3. next \in 0 .. Len(Matched)
  BY DEF TypeInv, TypeOK, Running
<1>4. phase \in {"tables", "standalone", "done"} => Matched = <<>>
  BY DEF Matched
<1>5. Len(<<>>) = 0
  OBVIOUS
<1> QED BY <1>1, <1>2, <1>3, <1>4, <1>5 DEF Matched

\* What a run's tables come to is tables.
LEMMA DatabasesType ==
  ASSUME NEW p, IsProject(p), NEW f \in ToSet(p.ddl), ~f.dir, NEW db \in SUBSET Tables
  PROVE  Databases(db, f.stmts)[Len(f.stmts)] \in SUBSET Tables
<1> DEFINE X == ToSet(f.stmts)
           after == Databases(db, f.stmts)
           Good == {n \in Nat : n <= Len(f.stmts) => after[n] \in SUBSET Tables}
<1>1. f.stmts \in Seq(X) /\ \A x \in X : x.leaves \subseteq Tables
  BY DEF IsProject
<1>2. /\ after[0] = db
      /\ \A n \in 1 .. Len(f.stmts) : after[n] = AfterStmt(after[n - 1], f.stmts[n])
  <2> HIDE DEF X
  <2> QED BY <1>1, DatabasesDef
<1>3. Len(f.stmts) \in Nat /\ \A n \in 1 .. Len(f.stmts) : f.stmts[n] \in X
  <2> HIDE DEF X
  <2> QED BY <1>1
<1> HIDE DEF after, X
<1>4. 0 \in Good
  BY <1>2
<1>5. ASSUME NEW n \in Nat, n \in Good
      PROVE  n + 1 \in Good
  <2> SUFFICES ASSUME n + 1 <= Len(f.stmts) PROVE after[n + 1] \in SUBSET Tables
    OBVIOUS
  <2>1. n + 1 \in 1 .. Len(f.stmts) /\ (n + 1) - 1 = n /\ n <= Len(f.stmts)
    BY <1>3
  <2> QED BY <1>1, <1>2, <1>3, <1>5, <2>1 DEF AfterStmt
<1>6. Len(f.stmts) \in Good
  <2> HIDE DEF Good
  <2> QED BY <1>3, <1>4, <1>5, NatInSet
<1> QED BY <1>3, <1>6 DEF after

LEMMA RenderType ==
  ASSUME TypeInv, NEW s \in AllSources, Render(s), UNCHANGED <<invocation>>
  PROVE  /\ imported' \in [FileNames -> SUBSET UNION {r.pkgs : r \in AllSources}]
         /\ output'.step \in {"none", "open", "write"}
         /\ output'.name = currScope'
<1>1. s.out \in FileNames /\ s.pkgs \subseteq UNION {r.pkgs : r \in AllSources}
  BY DEF FileNames
<1>2. imported \in [FileNames -> SUBSET UNION {r.pkgs : r \in AllSources}]
  BY DEF TypeInv, TypeOK
<1>3. imported' = [imported EXCEPT ![s.out] = @ \union s.pkgs]
  BY DEF Render
<1> DEFINE P == UNION {r.pkgs : r \in AllSources}
<1>4. imported' \in [FileNames -> SUBSET P]
  <2> HIDE DEF P
  <2> QED BY <1>1, <1>2, <1>3 DEF P
<1> QED BY <1>4 DEF Render

LEMMA InitType == Init => TypeInv
<1> SUFFICES ASSUME Init PROVE TypeInv
  OBVIOUS
<1>1. /\ invocation \in Invocations /\ runs = 1 /\ phase = "init"
      /\ DOMAIN loaded = Types /\ tables = {} /\ left = {}
      /\ imported = [n \in FileNames |-> {}] /\ output = NoFile
      /\ DOMAIN outDir = FileNames /\ DOMAIN before = FileNames
  BY DEF Init, Builtin
<1>2. 1 \in 1 .. MaxRuns
  BY GeneratorAssumption
<1>3. imported \in [FileNames -> SUBSET UNION {s.pkgs : s \in AllSources}]
  BY <1>1
<1>4. output.step = "none"
  BY <1>1 DEF NoFile
<1> QED BY <1>1, <1>2, <1>3, <1>4 DEF TypeInv, TypeOK, Running

\* The steps that end a run with an error leave everything else as it is.
LEMMA FatalType ==
  ASSUME TypeInv, phase' = "fatal", UNCHANGED <<pointed, templateVars, dbVars, renderVars, dirs>>
  PROVE  TypeInv'
BY DEF TypeInv, TypeOK, Running, pointed, templateVars, dbVars, renderVars, dirs

LEMMA TypeStep == TypeInv /\ [Next]_vars => TypeInv'
<1> SUFFICES ASSUME TypeInv, [Next]_vars PROVE TypeInv'
  OBVIOUS
<1>1. CASE UNCHANGED vars
  BY <1>1 DEF TypeInv, TypeOK, Running, Matched, options, vars, pointed, memory, templateVars,
              dbVars, renderVars, dirs
<1>2. CASE RefuseOptions \/ Stop
  BY <1>2, FatalType DEF RefuseOptions, Stop, memory
<1>3. CASE Initialize
  <2>1. /\ phase' = "templates" /\ next' = 0 /\ loaded' = Builtin /\ tables' = {} /\ left' = {}
        /\ imported' = [n \in FileNames |-> {}] /\ output' = NoFile
        /\ UNCHANGED <<invocation, runs, outDir, before>> /\ ~Refused(invocation)
    BY <1>3 DEF Initialize, pointed, dirs
  <2>2. IsProject(ParseOptions(invocation))
    BY ParsedProject DEF TypeInv, TypeOK
  <2>3. Matched' = ParseOptions(invocation).t
    BY <2>1 DEF Matched, options
  <2>4. next' \in 0 .. Len(Matched')
    <3>1. Len(ParseOptions(invocation).t) \in Nat
      BY <2>2, ProjectLists
    <3> QED BY <2>1, <2>3, <3>1
  <2>5. imported' \in [FileNames -> SUBSET UNION {s.pkgs : s \in AllSources}]
    BY <2>1
  <2>6. output'.step = "none" /\ DOMAIN loaded' = Types
    BY <2>1 DEF NoFile, Builtin
  <2> QED BY <2>1, <2>4, <2>5, <2>6 DEF TypeInv, TypeOK, Running
<1>4. CASE Rerun
  <2>1. runs + 1 \in 1 .. MaxRuns
    BY <1>4, GeneratorAssumption DEF Rerun, TypeInv, TypeOK
  <2>2. /\ invocation' \in Invocations /\ runs' = runs + 1 /\ phase' = "init" /\ before' = outDir
        /\ UNCHANGED <<loaded, tables, left, imported, output, currScope, outDir>>
    BY <1>4 DEF Rerun, memory, templateVars, dbVars, renderVars
  <2> QED BY <2>1, <2>2 DEF TypeInv, TypeOK, Running
<1>5. CASE SkipDirectory
  BY <1>5 DEF SkipDirectory, TypeInv, TypeOK, Running, Matched, options, vars, pointed, memory,
              templateVars, dbVars, renderVars, dirs
<1>6. ASSUME NEW f, RefuseTemplate(f) \/ RefuseDDL(f) \/ RefuseDML(f)
      PROVE  TypeInv'
  BY <1>6, FatalType DEF RefuseTemplate, RefuseDDL, RefuseDML
<1>7. ASSUME NEW f, AddTemplate(f)
      PROVE  TypeInv'
  <2>1. /\ phase = "templates" /\ phase' = phase /\ f.type \in Types /\ HandsOut(f)
        /\ loaded' = [loaded EXCEPT ![f.type] = Put(@, f.set, f.path)]
        /\ UNCHANGED <<invocation, runs, tables, left, currScope, imported, output, outDir, before>>
    BY <1>7 DEF AddTemplate, pointed, dbVars, renderVars, dirs
  <2>2. next' \in 0 .. Len(Matched')
    <3>1. next' = next + 1 /\ next + 1 \in 1 .. Len(Matched)
      BY <2>1, HandsOutFacts DEF Running
    <3>2. Matched' = Matched
      BY <2>1 DEF Matched, options
    <3> QED BY <3>1, <3>2
  <2>3. DOMAIN loaded' = Types
    BY <2>1 DEF TypeInv, TypeOK
  <2> QED BY <2>1, <2>2, <2>3 DEF TypeInv, TypeOK, Running
<1>8. CASE Use
  <2>1. /\ phase = "templates" /\ phase' = "ddl" /\ next' = 0
        /\ UNCHANGED <<invocation, runs, loaded, tables, left, currScope, imported, output, outDir, before>>
    BY <1>8 DEF Use, Exhausted, pointed, dbVars, renderVars, dirs
  <2>2. next' \in 0 .. Len(Matched')
    <3>1. Matched' = options.ddl
      BY <2>1 DEF Matched, options
    <3>2. Len(options.ddl) \in Nat
      BY <2>1, MatchedIs, ProjectLists DEF Running
    <3> QED BY <2>1, <3>1, <3>2
  <2> QED BY <2>1, <2>2 DEF TypeInv, TypeOK, Running
<1>9. ASSUME NEW f \in ToSet(options.ddl), RunDDL(f)
      PROVE  TypeInv'
  <2>1. /\ phase = "ddl" /\ phase' = phase /\ HandsOut(f)
        /\ tables' = Databases(tables, f.stmts)[Len(f.stmts)]
        /\ UNCHANGED <<invocation, runs, loaded, left, currScope, imported, output, outDir, before>>
    BY <1>9 DEF RunDDL, pointed, templateVars, renderVars, dirs
  <2>2. next' \in 0 .. Len(Matched')
    <3>1. next' = next + 1 /\ next + 1 \in 1 .. Len(Matched)
      BY <2>1, HandsOutFacts DEF Running
    <3>2. Matched' = Matched
      BY <2>1 DEF Matched, options
    <3> QED BY <3>1, <3>2
  <2>3. tables' \subseteq Tables
    <3>1. ~f.dir
      BY <2>1 DEF HandsOut
    <3>2. tables \in SUBSET Tables
      BY DEF TypeInv, TypeOK
    <3> QED BY <2>1, <3>1, <3>2, MatchedIs, DatabasesType DEF Running
  <2>4. left' = {}
    BY <2>1 DEF TypeInv
  <2> QED BY <2>1, <2>2, <2>3, <2>4 DEF TypeInv, TypeOK, Running
<1>10. CASE GetDBMeta
  <2>1. /\ phase = "ddl" /\ phase' = "tables" /\ next' = 0 /\ left' = tables
        /\ UNCHANGED <<invocation, runs, loaded, tables, currScope, imported, output, outDir, before>>
    BY <1>10 DEF GetDBMeta, Exhausted, pointed, templateVars, renderVars, dirs
  <2>2. next' \in 0 .. Len(Matched')
    <3>1. Matched' = <<>>
      BY <2>1 DEF Matched
    <3> QED BY <2>1, <3>1
  <2> QED BY <2>1, <2>2 DEF TypeInv, TypeOK, Running
<1>11. CASE EndTables
  <2>1. /\ phase = "tables" /\ phase' = "dml"
        /\ UNCHANGED <<next, invocation, runs, loaded, tables, left, currScope, imported, output, outDir, before>>
    BY <1>11 DEF EndTables, pointed, memory, templateVars, dbVars, renderVars, dirs
  <2>2. next' \in 0 .. Len(Matched')
    <3>1. Matched' = options.dml
      BY <2>1 DEF Matched, options
    <3>2. next = 0 /\ Len(options.dml) \in Nat
      BY <2>1, MatchedIs, ProjectLists DEF Running
    <3> QED BY <2>1, <3>1, <3>2
  <2> QED BY <2>1, <2>2 DEF TypeInv, TypeOK, Running
<1>12. ASSUME NEW t \in Tables, OutputTable(t)
       PROVE  TypeInv'
  <2>1. /\ phase = "tables" /\ phase' = phase /\ left' = left \ {t} /\ Render(TableSource(t))
        /\ UNCHANGED <<next, invocation, runs, loaded, tables, outDir, before>>
    BY <1>12 DEF OutputTable, pointed, templateVars, dirs
  <2>2. TableSource(t) \in AllSources
    BY DEF AllSources
  <2>3. /\ imported' \in [FileNames -> SUBSET UNION {r.pkgs : r \in AllSources}]
        /\ output'.step \in {"none", "open", "write"}
        /\ output'.name = currScope'
    BY <2>1, <2>2, RenderType
  <2>4. next' \in 0 .. Len(Matched')
    BY <2>1 DEF TypeInv, TypeOK, Matched
  <2> QED BY <2>1, <2>3, <2>4 DEF TypeInv, TypeOK, Running
<1>13. ASSUME NEW f \in ToSet(options.dml), OutputDML(f)
       PROVE  TypeInv'
  <2>1. /\ phase = "dml" /\ phase' = phase /\ HandsOut(f) /\ Render(DMLSource(f))
        /\ UNCHANGED <<invocation, runs, loaded, tables, left, outDir, before>>
    BY <1>13 DEF OutputDML, pointed, templateVars, dbVars, dirs
  <2>2. DMLSource(f) \in AllSources
    BY <2>1 DEF AllSources, DMLFiles, HandsOut, options, TypeInv, TypeOK
  <2>3. /\ imported' \in [FileNames -> SUBSET UNION {r.pkgs : r \in AllSources}]
        /\ output'.step \in {"none", "open", "write"}
        /\ output'.name = currScope'
    BY <2>1, <2>2, RenderType
  <2>4. next' \in 0 .. Len(Matched')
    <3>1. next' = next + 1 /\ next + 1 \in 1 .. Len(Matched)
      BY <2>1, HandsOutFacts DEF Running
    <3>2. Matched' = Matched
      BY <2>1 DEF Matched, options
    <3> QED BY <3>1, <3>2
  <2> QED BY <2>1, <2>3, <2>4 DEF TypeInv, TypeOK, Running
<1>14. CASE EndDML
  <2>1. /\ phase = "dml" /\ phase' = "standalone" /\ next' = 0
        /\ UNCHANGED <<invocation, runs, loaded, tables, left, currScope, imported, output, outDir, before>>
    BY <1>14 DEF EndDML, Exhausted, pointed, templateVars, dbVars, renderVars, dirs
  <2>2. next' \in 0 .. Len(Matched')
    <3>1. Matched' = <<>>
      BY <2>1 DEF Matched
    <3> QED BY <2>1, <3>1
  <2> QED BY <2>1, <2>2 DEF TypeInv, TypeOK, Running
<1>15. CASE OutputStandalone
  <2>1. /\ phase = "standalone" /\ phase' = phase /\ Render(Standalone)
        /\ UNCHANGED <<next, invocation, runs, loaded, tables, left, outDir, before>>
    BY <1>15 DEF OutputStandalone, pointed, templateVars, dbVars, dirs
  <2>2. Standalone \in AllSources
    BY DEF AllSources
  <2>3. /\ imported' \in [FileNames -> SUBSET UNION {r.pkgs : r \in AllSources}]
        /\ output'.step \in {"none", "open", "write"}
        /\ output'.name = currScope'
    BY <2>1, <2>2, RenderType
  <2>4. next' \in 0 .. Len(Matched')
    BY <2>1 DEF TypeInv, TypeOK, Matched
  <2> QED BY <2>1, <2>3, <2>4 DEF TypeInv, TypeOK, Running
<1>16. CASE OpenFile
  <2>1. /\ phase \in {"tables", "dml", "standalone"} /\ phase' = phase
        /\ outDir' = [outDir EXCEPT ![output.name] = Cut]
        /\ output'.step = "write" /\ output'.name = output.name /\ output # NoFile
        /\ UNCHANGED <<next, invocation, runs, loaded, tables, left, currScope, imported, before>>
    BY <1>16 DEF OpenFile, NoFile, pointed, templateVars, dbVars
  <2>2. next' \in 0 .. Len(Matched')
    <3>1. Matched' = Matched
      BY <2>1 DEF Matched, options
    <3> QED BY <2>1, <3>1, MatchedIs DEF Running
  <2>3. DOMAIN outDir' = FileNames
    BY <2>1 DEF TypeInv, TypeOK
  <2> QED BY <2>1, <2>2, <2>3 DEF TypeInv, TypeOK, Running
<1>17. CASE WriteFile
  <2>1. /\ phase \in {"tables", "dml", "standalone"}
        /\ phase' = IF phase = "standalone" THEN "done" ELSE phase
        /\ outDir' = [outDir EXCEPT ![output.name] = output.file] /\ output' = NoFile
        /\ UNCHANGED <<next, invocation, runs, loaded, tables, left, currScope, imported, before>>
    BY <1>17 DEF WriteFile, pointed, templateVars, dbVars
  <2>2. next' \in 0 .. Len(Matched')
    <3>1. Matched' = Matched
      BY <2>1 DEF Matched, options
    <3> QED BY <2>1, <3>1, MatchedIs DEF Running
  <2>3. DOMAIN outDir' = FileNames
    BY <2>1 DEF TypeInv, TypeOK
  <2>4. output'.step = "none"
    BY <2>1 DEF NoFile
  <2> QED BY <2>1, <2>2, <2>3, <2>4 DEF TypeInv, TypeOK, Running
<1> QED
  BY <1>1, <1>2, <1>3, <1>4, <1>5, <1>6, <1>7, <1>8, <1>9, <1>10, <1>11, <1>12, <1>13, <1>14,
     <1>15, <1>16, <1>17 DEF Next, Main, TemplateStep, DDLStep, TableStep, DMLStep

\* The file being made is the one whose scope is current, a database holds tables and
\* the files are those of sources, for any projects.
THEOREM TypeCorrect == Spec => []TypeOK
<1>1. TypeInv => TypeOK
  BY DEF TypeInv
<1> QED BY InitType, TypeStep, <1>1, PTL DEF Spec

-----------------------------------------------------------------------------
(* A run's sources.                                                        *)

LEMMA SourceTypes ==
  ASSUME TypeInv, NEW s \in Sources(options)
  PROVE  s.types \subseteq Types
<1>1. IsProject(options)
  BY ParsedProject DEF TypeInv, TypeOK, options
<1>2. \A f \in ToSet(options.dml) : ~f.dir => f.types \subseteq Types \ {"table", "standalone"}
  BY <1>1, Zenon DEF IsProject
<1>3. {"table", "standalone"} \subseteq Types
  BY GeneratorAssumption
<1> QED BY <1>2, <1>3 DEF Sources, TableSource, DMLSource, Standalone, DMLFiles

\* No two kinds of sources have one of a name.
LEMMA KindsApart ==
  ASSUME NamesApart, TypeInv, Running
  PROVE  /\ \A s1, s2 \in Sources(options) : s1.out = s2.out => s1 = s2
         /\ \A t \in Defined(options) : TableSource(t).out # Standalone.out
         /\ \A f \in DMLFiles(options) : DMLSource(f).out # Standalone.out
         /\ \A t \in Defined(options) : \A f \in DMLFiles(options) :
              TableSource(t).out # DMLSource(f).out
<1>1. IsProject(options)
  BY ParsedProject DEF TypeInv, TypeOK, options
<1>2. \A f \in DMLFiles(options) : f.types \subseteq Types \ {"table", "standalone"}
  <2>1. \A f \in ToSet(options.dml) : ~f.dir => f.types \subseteq Types \ {"table", "standalone"}
    BY <1>1, Zenon DEF IsProject
  <2> QED BY <2>1 DEF DMLFiles
<1>3. \A s1, s2 \in Sources(options) : s1.out = s2.out => s1 = s2
  BY DEF NamesApart, TypeInv, TypeOK, options
<1>4. /\ \A t \in Defined(options) : TableSource(t) \in Sources(options)
      /\ \A f \in DMLFiles(options) : DMLSource(f) \in Sources(options)
      /\ Standalone \in Sources(options)
  BY DEF Sources
<1>5. /\ \A t : TableSource(t).types = {"table"}
      /\ \A f : DMLSource(f).types = f.types
      /\ Standalone.types = {"standalone"}
  BY DEF TableSource, DMLSource, Standalone
<1>6. \A t \in Defined(options) : TableSource(t).out # Standalone.out
  BY <1>3, <1>4, <1>5
<1>7. \A f \in DMLFiles(options) : DMLSource(f).out # Standalone.out
  BY <1>2, <1>3, <1>4, <1>5
<1>8. \A t \in Defined(options) : \A f \in DMLFiles(options) :
        TableSource(t).out # DMLSource(f).out
  <2> SUFFICES ASSUME NEW t \in Defined(options), NEW f \in DMLFiles(options),
                      TableSource(t).out = DMLSource(f).out
               PROVE  FALSE
    OBVIOUS
  <2>1. TableSource(t) = DMLSource(f)
    BY <1>3, <1>4
  <2>2. "table" \in f.types
    BY <1>5, <2>1
  <2> QED BY <1>2, <2>2
<1> QED BY <1>3, <1>6, <1>7, <1>8

LEMMA CurrentSources ==
  ASSUME TypeInv, TablesInv, NEW s \in Current
  PROVE  s \in Sources(options) /\ s.out \in FileNames
<1>1. phase \in {"tables", "dml", "standalone"} => tables = Defined(options)
  BY DEF TablesInv, HasTables
<1>2. s \in Sources(options)
  BY <1>1 DEF Current, Sources
<1> QED BY <1>2, SourcesKnown DEF TypeInv, TypeOK, options

-----------------------------------------------------------------------------
(* The invariant is inductive: reading templates and DDL.                  *)

LEMMA LoadsNext ==
  ASSUME NEW templates, NEW files, NEW k \in Nat, Loads(templates, files, k),
         DOMAIN templates = Types, files[k + 1].type \in Types
  PROVE  Loads([templates EXCEPT ![files[k + 1].type] =
                  Put(@, files[k + 1].set, files[k + 1].path)], files, k + 1)
<1> DEFINE f == files[k + 1]
           more == [templates EXCEPT ![f.type] = Put(@, f.set, f.path)]
<1>1. 1 .. k + 1 = (1 .. k) \union {k + 1} /\ k + 1 \in 1 .. k + 1
  OBVIOUS
<1>2. ASSUME NEW n \in 1 .. k, LastOfItsSet(files, n, k + 1)
      PROVE  LastOfItsSet(files, n, k) /\ (f.type = files[n].type => f.set # files[n].set)
  <2>1. n + 1 .. k \subseteq n + 1 .. k + 1 /\ k + 1 \in n + 1 .. k + 1
    OBVIOUS
  <2> QED BY <1>2, <2>1 DEF LastOfItsSet
<1>3. ASSUME NEW type \in Types
      PROVE  /\ {"", "default"} \subseteq DOMAIN more[type]
             /\ \A s \in DOMAIN more[type] \ {"", "default"} :
                  \E n \in 1 .. k + 1 : files[n].type = type /\ files[n].set = s
             /\ \A n \in 1 .. k + 1 : files[n].type = type /\ LastOfItsSet(files, n, k + 1) =>
                  /\ files[n].set \in DOMAIN more[type]
                  /\ more[type][files[n].set] = files[n].path
             /\ \A s \in {"", "default"} :
                  (\A n \in 1 .. k + 1 : files[n].type = type => files[n].set # s)
                    => more[type][s] = "builtin"
  <2> DEFINE old == templates[type]
  <2>1. /\ {"", "default"} \subseteq DOMAIN old
        /\ \A s \in DOMAIN old \ {"", "default"} :
             \E n \in 1 .. k : files[n].type = type /\ files[n].set = s
        /\ \A n \in 1 .. k : files[n].type = type /\ LastOfItsSet(files, n, k) =>
             /\ files[n].set \in DOMAIN old
             /\ old[files[n].set] = files[n].path
        /\ \A s \in {"", "default"} :
             (\A n \in 1 .. k : files[n].type = type => files[n].set # s)
               => old[s] = "builtin"
    BY DEF Loads
  <2>2. CASE type # f.type
    <3>1. more[type] = old
      BY <2>2
    <3> HIDE DEF more, old
    <3> QED BY <1>1, <1>2, <2>1, <2>2, <3>1
  <2>3. CASE type = f.type
    <3>1. more[type] = Put(old, f.set, f.path)
      BY <2>3
    <3>2. /\ DOMAIN more[type] = DOMAIN old \union {f.set}
          /\ more[type][f.set] = f.path
          /\ \A s \in DOMAIN old : s # f.set => more[type][s] = old[s]
      BY <3>1 DEF Put
    <3> HIDE DEF more, old
    <3>3. {"", "default"} \subseteq DOMAIN more[type]
      BY <2>1, <3>2
    <3>4. \A s \in DOMAIN more[type] \ {"", "default"} :
            \E n \in 1 .. k + 1 : files[n].type = type /\ files[n].set = s
      BY <1>1, <2>1, <2>3, <3>2
    <3>5. ASSUME NEW n \in 1 .. k + 1, files[n].type = type, LastOfItsSet(files, n, k + 1)
          PROVE  /\ files[n].set \in DOMAIN more[type]
                 /\ more[type][files[n].set] = files[n].path
      <4>1. CASE n = k + 1
        BY <3>2, <4>1
      <4>2. CASE n \in 1 .. k
        <5>1. LastOfItsSet(files, n, k) /\ files[n].set # f.set
          BY <1>2, <2>3, <3>5, <4>2
        <5> QED BY <2>1, <3>2, <3>5, <4>2, <5>1
      <4> QED BY <1>1, <4>1, <4>2
    <3>6. ASSUME NEW s \in {"", "default"},
                 \A n \in 1 .. k + 1 : files[n].type = type => files[n].set # s
          PROVE  more[type][s] = "builtin"
      <4>1. s # f.set /\ \A n \in 1 .. k : files[n].type = type => files[n].set # s
        BY <1>1, <2>3, <3>6
      <4> QED BY <2>1, <3>2, <4>1
    <3> QED BY <3>3, <3>4, <3>5, <3>6
  <2> QED BY <2>2, <2>3
<1> HIDE DEF more
<1>4. Loads(more, files, k + 1)
  BY <1>3 DEF Loads
<1> QED BY <1>4 DEF more

\* Before the tables are there nothing is made.
LEMMA QuietStep ==
  ASSUME IInv, phase \in {"templates", "ddl"}, phase' \in {"templates", "ddl", "tables"},
         UNCHANGED <<pointed, renderVars, dirs>>, output = NoFile,
         phase' = "tables" => left' = tables'
  PROVE  OutputInv' /\ DirInv' /\ WrittenInv' /\ ReadersInv'
<1>1. /\ outDir = before /\ outDir' = outDir /\ before' = before
      /\ output' = NoFile /\ imported' = imported /\ invocation' = invocation
      /\ \A s \in Sources(options) : imported[s.out] \in {{}, s.pkgs}
  BY DEF IInv, ReadersInv, OutputInv, Running, pointed, renderVars, dirs
<1>2. OutputInv'
  BY <1>1 DEF OutputInv, options
<1>3. DirInv'
  BY <1>1 DEF DirInv
<1>4. WrittenInv'
  <2>1. phase' = "tables" => tables' \ left' = {}
    OBVIOUS
  <2> QED BY <2>1 DEF WrittenInv, HasTables
<1>5. ReadersInv'
  BY <1>1 DEF ReadersInv, ReadersAfterTables
<1> QED BY <1>2, <1>3, <1>4, <1>5

LEMMA AddTemplateInv ==
  ASSUME IInv, NEW f, AddTemplate(f), TypeInv'
  PROVE  IInv'
<1>1. /\ phase = "templates" /\ phase' = phase /\ f.type \in Types /\ HandsOut(f)
      /\ loaded' = [loaded EXCEPT ![f.type] = Put(@, f.set, f.path)]
      /\ lastSet' = f.set /\ invocation' = invocation /\ tables' = tables /\ templateSet' = templateSet
      /\ UNCHANGED <<pointed, renderVars, dirs>>
  BY DEF AddTemplate, pointed, dbVars
<1>2. /\ Matched = options.t /\ next \in Nat /\ f = options.t[next + 1] /\ ~f.dir /\ output = NoFile
      /\ next' = next + 1
  BY <1>1, MatchedIs, HandsOutFacts DEF IInv, Running
<1>3. OutputInv' /\ DirInv' /\ WrittenInv' /\ ReadersInv'
  BY <1>1, <1>2, QuietStep
<1>4. TablesInv'
  BY <1>1 DEF IInv, TablesInv, HasTables
<1>5. TemplatesInv'
  <2>1. /\ \A n \in 1 .. next : ~options.t[n].dir
        /\ Loads(loaded, options.t, next)
        /\ templateSet = "default"
        /\ DOMAIN loaded = Types
    BY <1>1 DEF IInv, TemplatesInv, TypeInv, TypeOK
  <2>2. Loads(loaded', options.t, next + 1)
    BY <1>1, <1>2, <2>1, LoadsNext
  <2>3. options' = options
    BY <1>1 DEF options
  <2>4. \A n \in 1 .. next + 1 : ~options.t[n].dir
    <3>1. 1 .. next + 1 = (1 .. next) \union {next + 1}
      BY <1>2
    <3> QED BY <1>2, <2>1, <3>1
  <2>5. next + 1 # 0
    BY <1>2
  <2> QED BY <1>1, <1>2, <2>1, <2>2, <2>3, <2>4, <2>5 DEF TemplatesInv, HasTemplates
<1> QED BY <1>3, <1>4, <1>5 DEF IInv

LEMMA UseInv ==
  ASSUME IInv, Use, TypeInv'
  PROVE  IInv'
<1>1. /\ phase = "templates" /\ phase' = "ddl" /\ output = NoFile /\ next = Len(Matched) /\ next' = 0
      /\ templateSet' = IF options.T # "" THEN options.T
                        ELSE IF lastSet # "" THEN lastSet ELSE templateSet
      /\ loaded' = loaded /\ invocation' = invocation /\ tables' = tables
      /\ UNCHANGED <<pointed, renderVars, dirs>>
  BY DEF Use, Exhausted, pointed, dbVars
<1>2. Matched = options.t /\ IsProject(options) /\ Len(options.t) \in Nat
  BY <1>1, MatchedIs DEF IInv, Running
<1>3. OutputInv' /\ DirInv' /\ WrittenInv' /\ ReadersInv'
  BY <1>1, QuietStep
<1>4. options' = options
  BY <1>1 DEF options
<1>5. TablesInv'
  <2>1. tables = {}
    BY <1>1 DEF IInv, TablesInv
  <2>2. StmtsOf(options, 0) = <<>>
    BY FlattenEmpty DEF StmtsOf
  <2> QED BY <1>1, <1>4, <2>1, <2>2, DefinedByNone DEF TablesInv, HasTables
<1>6. TemplatesInv'
  <2>1. /\ \A n \in 1 .. Len(options.t) : ~options.t[n].dir
        /\ Loads(loaded, options.t, Len(options.t))
        /\ lastSet = IF Len(options.t) = 0 THEN "" ELSE options.t[Len(options.t)].set
        /\ templateSet = "default"
    BY <1>1, <1>2 DEF IInv, TemplatesInv
  <2>2. Len(options.t) # 0 => options.t[Len(options.t)].set # ""
    <3>1. \A f \in ToSet(options.t) : ~f.dir => f.set # ""
      BY <1>2, Zenon DEF IsProject
    <3>2. \A n \in 1 .. Len(options.t) : options.t[n] \in ToSet(options.t)
      BY <1>2, ProjectLists, FileOf
    <3>3. Len(options.t) # 0 => Len(options.t) \in 1 .. Len(options.t)
      BY <1>2
    <3> QED BY <2>1, <3>1, <3>2, <3>3
  <2>3. templateSet' = ChosenSet(options)
    BY <1>1, <1>2, <2>1, <2>2, LastIs
  <2> QED BY <1>1, <1>4, <2>1, <2>3 DEF TemplatesInv, HasTemplates
<1> QED BY <1>3, <1>5, <1>6 DEF IInv

LEMMA RunDDLInv ==
  ASSUME IInv, NEW f, RunDDL(f), TypeInv'
  PROVE  IInv'
<1>1. /\ phase = "ddl" /\ phase' = phase /\ HandsOut(f)
      /\ tables' = Databases(tables, f.stmts)[Len(f.stmts)]
      /\ loaded' = loaded /\ templateSet' = templateSet /\ invocation' = invocation
      /\ UNCHANGED <<pointed, renderVars, dirs>>
  BY DEF RunDDL, pointed, templateVars
<1>2. /\ IsProject(options) /\ Matched = options.ddl /\ next \in Nat /\ next < Len(options.ddl)
      /\ f = options.ddl[next + 1] /\ ~f.dir /\ output = NoFile /\ next' = next + 1
  BY <1>1, MatchedIs, HandsOutFacts DEF IInv, Running
<1>3. OutputInv' /\ DirInv' /\ WrittenInv' /\ ReadersInv'
  BY <1>1, <1>2, QuietStep
<1>4. options' = options
  BY <1>1 DEF options
<1>5. TablesInv'
  <2> DEFINE X == Statements(options)
             pre == StmtsOf(options, next)
  <2>1. tables = DefinedBy(pre)
    BY <1>1 DEF IInv, TablesInv
  <2>2. pre \in Seq(X) /\ f.stmts \in Seq(X) /\ StmtsOf(options, next + 1) = pre \o f.stmts
    BY <1>2, StmtsOfNext
  <2>3. \A x \in X : x.leaves \subseteq Tables
    BY <1>2, StatementsLeave
  <2>4. tables' = DefinedBy(pre \o f.stmts)
    <3> HIDE DEF X, pre
    <3> QED BY <1>1, <2>1, <2>2, <2>3, DatabasesDefined
  <2> QED BY <1>1, <1>2, <1>4, <2>2, <2>4 DEF TablesInv, HasTables
<1>6. TemplatesInv'
  BY <1>1, <1>4 DEF IInv, TemplatesInv, HasTemplates
<1> QED BY <1>3, <1>5, <1>6 DEF IInv

LEMMA GetDBMetaInv ==
  ASSUME IInv, GetDBMeta, TypeInv'
  PROVE  IInv'
<1>1. /\ phase = "ddl" /\ phase' = "tables" /\ output = NoFile /\ next = Len(Matched)
      /\ left' = tables /\ tables' = tables /\ loaded' = loaded /\ templateSet' = templateSet
      /\ invocation' = invocation /\ UNCHANGED <<pointed, renderVars, dirs>>
  BY DEF GetDBMeta, Exhausted, pointed, templateVars
<1>2. Matched = options.ddl
  BY <1>1, MatchedIs DEF IInv, Running
<1>3. OutputInv' /\ DirInv' /\ WrittenInv' /\ ReadersInv'
  BY <1>1, QuietStep
<1>4. options' = options
  BY <1>1 DEF options
<1>5. TablesInv'
  <2>1. tables = Defined(options)
    BY <1>1, <1>2, DefinedIs DEF IInv, TablesInv
  <2> QED BY <1>1, <1>4, <2>1 DEF TablesInv, HasTables
<1>6. TemplatesInv'
  BY <1>1, <1>4 DEF IInv, TemplatesInv, HasTemplates
<1> QED BY <1>3, <1>5, <1>6 DEF IInv

-----------------------------------------------------------------------------
(* Rendering and writing.                                                  *)

\* From the tables on, templates and tables stay.
LEMMA LaterStep ==
  ASSUME IInv, phase \in {"tables", "dml", "standalone"},
         phase' \in {"tables", "dml", "standalone", "done"},
         UNCHANGED <<invocation, loaded, templateSet, tables>>,
         phase' # "tables" => left' = {}
  PROVE  TemplatesInv' /\ TablesInv'
<1>1. options' = options
  BY DEF options
<1>2. TemplatesInv'
  BY <1>1 DEF IInv, TemplatesInv, HasTemplates
<1>3. TablesInv'
  BY <1>1 DEF IInv, TablesInv, HasTables
<1> QED BY <1>2, <1>3

\* A source of the phase is rendered as its file should be.
LEMMA RenderStep ==
  ASSUME NamesApart, IInv, phase \in {"tables", "dml", "standalone"}, phase' = phase,
         NEW s \in Current, Render(s), UNCHANGED <<pointed, templateVars, tables, dirs>>
  PROVE  OutputInv' /\ DirInv' /\ ReadersInv'
<1>1. /\ output = NoFile /\ currScope' = s.out
      /\ imported' = [imported EXCEPT ![s.out] = @ \union s.pkgs]
      /\ output' = [step |-> "open", name |-> s.out, source |-> s.id,
                    templates |-> [t \in s.types |-> Template(t)]]
      /\ invocation' = invocation /\ outDir' = outDir /\ before' = before /\ tables' = tables
  BY DEF Render, pointed, dirs
<1>2. s \in Sources(options) /\ s.out \in FileNames
  BY CurrentSources DEF IInv
<1>3. options' = options
  BY <1>1 DEF options
<1>4. \A t \in s.types : Template(t) = ChosenTemplate(options, t)
  <2>1. /\ IsProject(options)
        /\ \A n \in 1 .. Len(options.t) : ~options.t[n].dir
        /\ Loads(loaded, options.t, Len(options.t))
        /\ templateSet = ChosenSet(options)
    BY MatchedIs DEF IInv, Running, TemplatesInv, HasTemplates
  <2> QED BY <1>2, <2>1, SourceTypes, TemplateChosen DEF IInv
<1>5. /\ \A r \in Sources(options) : imported'[r.out] \in {{}, r.pkgs}
      /\ imported'[s.out] = s.pkgs
  <2>1. \A r \in Sources(options) : imported[r.out] \in {{}, r.pkgs} /\ r.out \in FileNames
    BY SourcesKnown DEF IInv, OutputInv, Running, TypeInv, TypeOK, options
  <2>2. DOMAIN imported = FileNames
    BY DEF IInv, TypeInv, TypeOK
  <2>3. \A r \in Sources(options) : r.out = s.out => r = s
    BY <1>2, KindsApart DEF IInv, Running
  <2>4. imported'[s.out] = s.pkgs
    BY <1>1, <1>2, <2>1, <2>2
  <2>5. \A r \in Sources(options) : r.out # s.out => imported'[r.out] = imported[r.out]
    BY <1>1, <2>1, <2>2
  <2> QED BY <2>1, <2>3, <2>4, <2>5
<1>6. OutputInv'
  <2>1. s \in Current'
    BY <1>1, <1>3 DEF Current
  <2>2. output' = [step |-> "open", name |-> s.out, source |-> s.id,
                  templates |-> [t \in s.types |-> ChosenTemplate(options, t)]]
    BY <1>1, <1>4
  <2>3. Making(s)'
    BY <1>1, <1>3, <1>5, <2>2 DEF Making
  <2> QED BY <1>3, <1>5, <2>1, <2>3 DEF OutputInv
<1>7. DirInv'
  <2>1. output.step # "write"
    BY <1>1 DEF NoFile
  <2>2. \A n \in FileNames :
          \/ outDir[n] = before[n]
          \/ \E r \in Sources(options) : n = r.out /\ outDir[n] = Complete(r)
    BY <2>1 DEF IInv, DirInv
  <2>3. \A r : Complete(r)' = Complete(r)
    BY <1>3 DEF Complete
  <2> QED BY <1>1, <1>3, <2>2, <2>3 DEF DirInv
<1>8. ReadersInv'
  BY <1>1, <1>3 DEF IInv, ReadersInv, ReadersAfterTables, Complete
<1> QED BY <1>6, <1>7, <1>8

\* Rendering begins when everything so far is written, and touches no file.
LEMMA RenderWritten ==
  ASSUME NEW s, Render(s), UNCHANGED <<pointed, dirs>>, NEW r, Written(r)
  PROVE  Written(r)'
BY DEF Written, Render, pointed, dirs, Complete, options

LEMMA OutputTableInv ==
  ASSUME NamesApart, IInv, NEW t, OutputTable(t), TypeInv'
  PROVE  IInv'
<1>1. /\ phase = "tables" /\ phase' = phase /\ t \in left /\ left' = left \ {t}
      /\ Render(TableSource(t)) /\ next' = next /\ loaded' = loaded /\ templateSet' = templateSet
      /\ invocation' = invocation /\ tables' = tables
      /\ UNCHANGED <<pointed, templateVars, tables, dirs>>
  BY DEF OutputTable, pointed, templateVars
<1>2. TableSource(t) \in Current
  BY <1>1 DEF IInv, TypeInv, TypeOK, Current
<1>3. OutputInv' /\ DirInv' /\ ReadersInv'
  BY <1>1, <1>2, RenderStep
<1>4. TemplatesInv' /\ TablesInv'
  BY <1>1, LaterStep
<1>5. WrittenInv'
  <2>1. \A r \in tables \ left : Written(TableSource(r))
    BY <1>1 DEF IInv, WrittenInv, HasTables
  <2>2. \A r \in tables \ left : Written(TableSource(r))'
    BY <1>1, <2>1, RenderWritten
  <2>3. Written(TableSource(t))'
    BY <1>1 DEF Written, Render, NoFile
  <2>4. \A r \in tables' \ left' : Written(TableSource(r))'
    BY <1>1, <2>2, <2>3
  <2> QED BY <1>1, <2>4 DEF WrittenInv
<1> QED BY <1>3, <1>4, <1>5 DEF IInv

LEMMA OutputDMLInv ==
  ASSUME NamesApart, IInv, NEW f, OutputDML(f), TypeInv'
  PROVE  IInv'
<1>1. /\ phase = "dml" /\ phase' = phase /\ HandsOut(f) /\ f.reads \subseteq tables /\ left' = left
      /\ Render(DMLSource(f)) /\ loaded' = loaded /\ templateSet' = templateSet
      /\ invocation' = invocation /\ tables' = tables
      /\ UNCHANGED <<pointed, templateVars, tables, dirs>>
  BY DEF OutputDML, pointed, templateVars, dbVars
<1>2. /\ Matched = options.dml /\ IsProject(options) /\ next \in Nat /\ next + 1 \in 1 .. Len(options.dml)
      /\ f = options.dml[next + 1] /\ ~f.dir /\ next' = next + 1
  BY <1>1, MatchedIs, HandsOutFacts DEF IInv, Running
<1>3. f \in DMLFiles(options)
  BY <1>2, ProjectLists, FileOf DEF DMLFiles
<1>4. DMLSource(f) \in Current
  BY <1>1, <1>3 DEF Current, DMLSource
<1>5. OutputInv' /\ DirInv' /\ ReadersInv'
  BY <1>1, <1>4, RenderStep
<1>6. left = {}
  BY <1>1 DEF IInv, TablesInv
<1>7. TemplatesInv' /\ TablesInv'
  BY <1>1, <1>6, LaterStep
<1>8. WrittenInv'
  <2>1. /\ \A r \in tables \ left : Written(TableSource(r))
        /\ \A n \in 1 .. next : ~options.dml[n].dir /\ Written(DMLSource(options.dml[n]))
    BY <1>1 DEF IInv, WrittenInv, HasTables
  <2>2. \A r \in tables' \ left' : Written(TableSource(r))'
    BY <1>1, <2>1, RenderWritten
  <2>3. \A r : Written(DMLSource(r)) => Written(DMLSource(r))'
    BY <1>1, RenderWritten
  <2>4. Written(DMLSource(f))'
    BY <1>1 DEF Written, Render, NoFile
  <2>5. options' = options
    BY <1>1 DEF options
  <2>6. 1 .. next + 1 = (1 .. next) \union {next + 1}
    BY <1>2
  <2>7. \A n \in 1 .. next + 1 : ~options.dml[n].dir /\ Written(DMLSource(options.dml[n]))'
    BY <1>2, <2>1, <2>3, <2>4, <2>5, <2>6
  <2> QED BY <1>1, <1>2, <2>2, <2>5, <2>7 DEF WrittenInv
<1> QED BY <1>5, <1>7, <1>8 DEF IInv

LEMMA OutputStandaloneInv ==
  ASSUME NamesApart, IInv, OutputStandalone, TypeInv'
  PROVE  IInv'
<1>1. /\ phase = "standalone" /\ phase' = phase /\ left' = left
      /\ Render(Standalone) /\ loaded' = loaded /\ templateSet' = templateSet
      /\ invocation' = invocation /\ tables' = tables
      /\ UNCHANGED <<pointed, templateVars, tables, dirs>>
  BY DEF OutputStandalone, pointed, templateVars, dbVars
<1>2. Standalone \in Current
  BY <1>1 DEF Current
<1>3. OutputInv' /\ DirInv' /\ ReadersInv'
  BY <1>1, <1>2, RenderStep
<1>4. left = {}
  BY <1>1 DEF IInv, TablesInv
<1>5. TemplatesInv' /\ TablesInv'
  BY <1>1, <1>4, LaterStep
<1>6. WrittenInv'
  <2>1. /\ \A r \in tables \ left : Written(TableSource(r))
        /\ \A n \in 1 .. Len(options.dml) : ~options.dml[n].dir /\ Written(DMLSource(options.dml[n]))
    BY <1>1 DEF IInv, WrittenInv, HasTables
  <2>2. \A r \in tables' \ left' : Written(TableSource(r))'
    BY <1>1, <2>1, RenderWritten
  <2>3. \A r : Written(DMLSource(r)) => Written(DMLSource(r))'
    BY <1>1, RenderWritten
  <2>4. options' = options
    BY <1>1 DEF options
  <2> QED BY <1>1, <2>1, <2>2, <2>3, <2>4 DEF WrittenInv
<1> QED BY <1>3, <1>5, <1>6 DEF IInv

\* Whatever is put in the file of a source of the phase, the files made of DML files
\* do not go before those of the tables.
LEMMA FileStep ==
  ASSUME NamesApart, IInv, phase \in {"tables", "dml", "standalone"},
         NEW s \in Current, output # NoFile, output.name = s.out,
         NEW v, outDir' = [outDir EXCEPT ![s.out] = v],
         UNCHANGED <<pointed, tables, before>>,
         phase' \in {phase, "done"}
  PROVE  ReadersInv'
<1>1. invocation' = invocation /\ options' = options
  BY DEF pointed, options
<1>2. s \in Sources(options) /\ s.out \in FileNames
  BY CurrentSources DEF IInv
<1>3. DOMAIN outDir = FileNames
  BY DEF IInv, TypeInv, TypeOK
<1>4. \A n \in FileNames : n # s.out => outDir'[n] = outDir[n]
  BY <1>2, <1>3
<1>5. tables = Defined(options)
  BY DEF IInv, TablesInv, HasTables
<1>6. /\ \A f \in DMLFiles(options) : DMLSource(f) \in Sources(options)
      /\ \A t \in tables : TableSource(t) \in Sources(options)
      /\ \A r \in Sources(options) : r.out \in FileNames
  BY <1>5, SourcesKnown DEF Sources, IInv, TypeInv, TypeOK, options
<1>7. \A r \in Sources(options) : r.out = s.out => r = s
  BY <1>2, KindsApart DEF IInv, Running
<1>8. CASE phase = "tables"
  <2>1. PICK t \in tables : s = TableSource(t)
    BY <1>8 DEF Current
  <2>2. \A f \in DMLFiles(options) : DMLSource(f).out # s.out
    BY <1>5, <2>1, KindsApart DEF IInv, Running
  <2>3. \A f \in DMLFiles(options) : outDir[DMLSource(f).out] = before[DMLSource(f).out]
    BY <1>8 DEF IInv, ReadersInv
  <2>4. \A f \in DMLFiles(options) : outDir'[DMLSource(f).out] = before'[DMLSource(f).out]
    BY <1>4, <1>6, <2>2, <2>3
  <2> QED BY <1>1, <1>8, <2>4 DEF ReadersInv, ReadersAfterTables
<1>9. CASE phase \in {"dml", "standalone"}
  <2>1. \A t \in tables : TableSource(t).out # s.out
    <3>1. CASE phase = "dml"
      <4>1. PICK f \in DMLFiles(options) : s = DMLSource(f)
        BY <3>1 DEF Current
      <4> QED BY <1>5, <4>1, KindsApart DEF IInv, Running
    <3>2. CASE phase = "standalone"
      <4>1. s = Standalone
        BY <3>2 DEF Current
      <4> QED BY <1>5, <4>1, KindsApart DEF IInv, Running
    <3> QED BY <1>9, <3>1, <3>2
  <2>2. ASSUME NEW t \in tables
        PROVE  outDir'[TableSource(t).out] = Complete(TableSource(t))
    <3>1. Written(TableSource(t))
      BY <1>9 DEF IInv, WrittenInv, TablesInv, HasTables
    <3>2. outDir[TableSource(t).out] = Complete(TableSource(t))
      BY <2>1, <3>1 DEF Written
    <3> QED BY <1>4, <1>6, <2>1, <3>2
  <2>3. ASSUME NEW f \in DMLFiles(options),
               outDir'[DMLSource(f).out] # before[DMLSource(f).out]
        PROVE  f.reads \subseteq tables
    <3>1. CASE DMLSource(f).out = s.out
      <4>1. s = DMLSource(f)
        BY <1>6, <1>7, <3>1
      <4>2. phase = "dml"
        <5>1. phase = "standalone" => s = Standalone
          BY DEF Current
        <5> QED BY <1>9, <4>1, <5>1, KindsApart DEF IInv, Running
      <4>3. s.reads \subseteq tables
        BY <4>2 DEF Current
      <4> QED BY <4>1, <4>3 DEF DMLSource
    <3>2. CASE DMLSource(f).out # s.out
      <4>1. outDir[DMLSource(f).out] # before[DMLSource(f).out]
        BY <1>4, <1>6, <2>3, <3>2
      <4> QED BY <1>9, <4>1 DEF IInv, ReadersInv
    <3> QED BY <3>1, <3>2
  <2>4. \A t \in tables : outDir'[TableSource(t).out] = Complete(TableSource(t))'
    BY <1>1, <2>2 DEF Complete
  <2>5. \A f \in DMLFiles(options) :
          outDir'[DMLSource(f).out] # before'[DMLSource(f).out] =>
            /\ f.reads \subseteq tables
            /\ \A t \in f.reads : outDir'[TableSource(t).out] = Complete(TableSource(t))'
    BY <2>3, <2>4
  <2> QED BY <1>1, <1>9, <2>5 DEF ReadersInv, ReadersAfterTables
<1> QED BY <1>8, <1>9

LEMMA OpenFileInv ==
  ASSUME NamesApart, IInv, OpenFile, TypeInv'
  PROVE  IInv'
<1>1. /\ phase \in {"tables", "dml", "standalone"} /\ phase' = phase /\ output.step = "open"
      /\ outDir' = [outDir EXCEPT ![output.name] = Cut]
      /\ output' = [step |-> "write", name |-> output.name, file |-> GoFile(output, imported[currScope])]
      /\ loaded' = loaded /\ templateSet' = templateSet /\ tables' = tables /\ left' = left
      /\ UNCHANGED <<pointed, next, currScope, imported, before, invocation>>
  BY DEF OpenFile, pointed, templateVars, dbVars
<1>2. output # NoFile
  BY <1>1 DEF NoFile
<1>3. PICK s \in Current : Making(s)
  BY <1>1, <1>2 DEF IInv, OutputInv, Running
<1>4. s \in Sources(options) /\ s.out \in FileNames /\ DOMAIN outDir = FileNames
  BY <1>3, CurrentSources DEF IInv, TypeInv, TypeOK
<1>5. options' = options /\ \A r : Complete(r)' = Complete(r)
  BY <1>1 DEF options, Complete
<1>6. output' = [step |-> "write", name |-> s.out, file |-> Complete(s)]
  <2>1. output = [step |-> "open", name |-> s.out, source |-> s.id,
                  templates |-> [t \in s.types |-> ChosenTemplate(options, t)]]
    BY <1>1, <1>3 DEF Making
  <2>2. imported[currScope] = s.pkgs
    BY <1>3 DEF Making
  <2> QED BY <1>1, <2>1, <2>2 DEF GoFile, Complete
<1>7. output.name = s.out
  BY <1>3 DEF Making
<1>8. /\ outDir'[s.out] = Cut
      /\ \A n \in FileNames : n # s.out => outDir'[n] = outDir[n]
  BY <1>1, <1>4, <1>7
<1>9. OutputInv'
  <2>1. \A r \in Sources(options) : imported[r.out] \in {{}, r.pkgs}
    BY <1>1 DEF IInv, OutputInv, Running
  <2>2. s \in Current'
    BY <1>1, <1>3, <1>5 DEF Current
  <2>3. Making(s)'
    BY <1>1, <1>3, <1>5, <1>6 DEF Making
  <2> QED BY <1>1, <1>5, <2>1, <2>2, <2>3 DEF OutputInv
<1>10. DirInv'
  <2>1. \A n \in FileNames :
          \/ outDir[n] = before[n]
          \/ \E r \in Sources(options) : n = r.out /\ outDir[n] = Complete(r)
    BY <1>1 DEF IInv, DirInv
  <2>2. output'.step = "write" /\ output'.name = s.out
    BY <1>6
  <2>3. \A n \in FileNames :
          \/ outDir'[n] = before'[n]
          \/ \E r \in Sources(options) : n = r.out /\ outDir'[n] = Complete(r)
          \/ outDir'[n] = Cut /\ output'.step = "write" /\ output'.name = n
    BY <1>1, <1>8, <2>1, <2>2
  <2> QED BY <1>1, <1>5, <2>3 DEF DirInv
<1>11. ReadersInv'
  BY <1>1, <1>2, <1>3, <1>7, FileStep
<1>12. left = {} \/ phase = "tables"
  BY <1>1 DEF IInv, TablesInv
<1>13. TemplatesInv' /\ TablesInv'
  BY <1>1, <1>12, LaterStep
<1>14. WrittenInv'
  <2>1. ASSUME NEW r \in Sources(options), Written(r)
        PROVE  Written(r)'
    <3>1. r.out \in FileNames
      BY SourcesKnown DEF IInv, TypeInv, TypeOK, options
    <3>2. CASE r.out = s.out
      BY <1>6, <3>2 DEF Written, NoFile
    <3>3. CASE r.out # s.out
      BY <1>5, <1>7, <1>8, <2>1, <3>1, <3>3 DEF Written
    <3> QED BY <3>2, <3>3
  <2>2. (\A t \in tables : TableSource(t) \in Sources(options))
        /\ \A n \in 1 .. Len(options.dml) : ~options.dml[n].dir =>
             DMLSource(options.dml[n]) \in Sources(options)
    <3>1. tables = Defined(options)
      BY <1>1 DEF IInv, TablesInv, HasTables
    <3>2. \A n \in 1 .. Len(options.dml) : options.dml[n] \in ToSet(options.dml)
      BY <1>1, MatchedIs, ProjectLists, FileOf DEF IInv, Running
    <3> QED BY <3>1, <3>2 DEF Sources, DMLFiles
  <2>3. next \in 0 .. Len(Matched)
    BY <1>1, MatchedIs DEF IInv, Running
  <2>4. phase = "dml" => \A n \in 1 .. next : n \in 1 .. Len(options.dml)
    BY <1>1, <2>3, MatchedIs DEF IInv, Running
  <2>5. \A t \in tables \ left : Written(TableSource(t))'
    BY <1>1, <2>1, <2>2 DEF IInv, WrittenInv, HasTables
  <2>6. \A f : DMLSource(f) \in Sources(options) /\ Written(DMLSource(f)) => Written(DMLSource(f))'
    BY <2>1
  <2>7. phase = "dml" =>
          \A n \in 1 .. next : ~options.dml[n].dir /\ Written(DMLSource(options.dml[n]))'
    BY <1>5, <2>2, <2>4, <2>6 DEF IInv, WrittenInv
  <2>8. phase = "standalone" =>
          \A n \in 1 .. Len(options.dml) : ~options.dml[n].dir /\ Written(DMLSource(options.dml[n]))'
    BY <1>5, <2>2, <2>6 DEF IInv, WrittenInv
  <2> QED BY <1>1, <1>5, <2>5, <2>7, <2>8 DEF WrittenInv
<1> QED BY <1>9, <1>10, <1>11, <1>13, <1>14 DEF IInv

LEMMA WriteFileInv ==
  ASSUME NamesApart, IInv, WriteFile, TypeInv'
  PROVE  IInv'
<1>1. /\ phase \in {"tables", "dml", "standalone"} /\ output.step = "write"
      /\ phase' = IF phase = "standalone" THEN "done" ELSE phase
      /\ outDir' = [outDir EXCEPT ![output.name] = output.file] /\ output' = NoFile
      /\ loaded' = loaded /\ templateSet' = templateSet /\ tables' = tables /\ left' = left
      /\ UNCHANGED <<pointed, next, currScope, imported, before, invocation>>
  BY DEF WriteFile, pointed, templateVars, dbVars
<1>2. output # NoFile
  BY <1>1 DEF NoFile
<1>3. PICK s \in Current : Making(s)
  BY <1>1, <1>2 DEF IInv, OutputInv, Running
<1>4. s \in Sources(options) /\ s.out \in FileNames /\ DOMAIN outDir = FileNames
  BY <1>3, CurrentSources DEF IInv, TypeInv, TypeOK
<1>5. options' = options /\ \A r : Complete(r)' = Complete(r)
  BY <1>1 DEF options, Complete
<1>6. output.name = s.out /\ output.file = Complete(s)
  BY <1>1, <1>3 DEF Making
<1>7. /\ outDir'[s.out] = Complete(s)
      /\ \A n \in FileNames : n # s.out => outDir'[n] = outDir[n]
  BY <1>1, <1>4, <1>6
<1>8. OutputInv'
  <2>1. \A r \in Sources(options) : imported[r.out] \in {{}, r.pkgs}
    BY <1>1 DEF IInv, OutputInv, Running
  <2> QED BY <1>1, <1>5, <2>1 DEF OutputInv
<1>9. DirInv'
  <2>1. \A n \in FileNames :
          \/ outDir[n] = before[n]
          \/ \E r \in Sources(options) : n = r.out /\ outDir[n] = Complete(r)
          \/ n = s.out
    BY <1>1, <1>6 DEF IInv, DirInv
  <2>2. \A n \in FileNames :
          \/ outDir'[n] = before'[n]
          \/ \E r \in Sources(options) : n = r.out /\ outDir'[n] = Complete(r)
    BY <1>1, <1>4, <1>7, <2>1
  <2>3. phase' # "init"
    BY <1>1
  <2> QED BY <1>5, <2>2, <2>3 DEF DirInv
<1>10. ReadersInv'
  <2>1. phase' \in {phase, "done"}
    BY <1>1
  <2> QED BY <1>1, <1>2, <1>3, <1>6, <2>1, FileStep
<1>11. left = {} \/ phase = "tables"
  BY <1>1 DEF IInv, TablesInv
<1>12. TemplatesInv' /\ TablesInv'
  <2>1. phase' \in {"tables", "dml", "standalone", "done"} /\ (phase' # "tables" => left' = {})
    BY <1>1, <1>11
  <2> QED BY <1>1, <2>1, LaterStep
<1>13. WrittenInv'
  <2>1. ASSUME NEW r \in Sources(options), Written(r)
        PROVE  Written(r)'
    <3>1. r.out \in FileNames
      BY SourcesKnown DEF IInv, TypeInv, TypeOK, options
    <3>2. CASE r.out = s.out
      <4>1. r = s
        BY <1>1, <1>4, <3>2, KindsApart DEF IInv, Running
      <4> QED BY <1>5, <1>7, <4>1 DEF Written
    <3>3. CASE r.out # s.out
      BY <1>5, <1>6, <1>7, <2>1, <3>1, <3>3 DEF Written
    <3> QED BY <3>2, <3>3
  <2>2. (\A t \in tables : TableSource(t) \in Sources(options))
        /\ \A n \in 1 .. Len(options.dml) : ~options.dml[n].dir =>
             DMLSource(options.dml[n]) \in Sources(options)
    <3>1. tables = Defined(options)
      BY <1>1 DEF IInv, TablesInv, HasTables
    <3>2. \A n \in 1 .. Len(options.dml) : options.dml[n] \in ToSet(options.dml)
      BY <1>1, MatchedIs, ProjectLists, FileOf DEF IInv, Running
    <3> QED BY <3>1, <3>2 DEF Sources, DMLFiles
  <2>3. next \in 0 .. Len(Matched)
    BY <1>1, MatchedIs DEF IInv, Running
  <2>4. phase = "dml" => \A n \in 1 .. next : n \in 1 .. Len(options.dml)
    BY <1>1, <2>3, MatchedIs DEF IInv, Running
  <2>5. \A t \in tables \ left : Written(TableSource(t))'
    BY <1>1, <2>1, <2>2 DEF IInv, WrittenInv, HasTables
  <2>6. \A f : DMLSource(f) \in Sources(options) /\ Written(DMLSource(f)) => Written(DMLSource(f))'
    BY <2>1
  <2>7. phase = "dml" =>
          \A n \in 1 .. next : ~options.dml[n].dir /\ Written(DMLSource(options.dml[n]))'
    BY <1>5, <2>2, <2>4, <2>6 DEF IInv, WrittenInv
  <2>8. phase = "standalone" =>
          \A n \in 1 .. Len(options.dml) : ~options.dml[n].dir /\ Written(DMLSource(options.dml[n]))'
    BY <1>5, <2>2, <2>6 DEF IInv, WrittenInv
  <2>9. phase = "standalone" => Written(Standalone)'
    <3>1. phase = "standalone" => s = Standalone
      BY DEF Current
    <3> QED BY <1>5, <1>7, <3>1 DEF Written
  <2> QED BY <1>1, <1>5, <2>5, <2>7, <2>8, <2>9 DEF WrittenInv
<1> QED BY <1>8, <1>9, <1>10, <1>12, <1>13 DEF IInv

-----------------------------------------------------------------------------
(* Going from one part of the run to the next, and ending it.              *)

LEMMA EndInv ==
  ASSUME IInv, EndTables \/ EndDML, TypeInv'
  PROVE  IInv'
<1>1. /\ \/ phase = "tables" /\ phase' = "dml" /\ left = {} /\ next' = next
         \/ phase = "dml" /\ phase' = "standalone" /\ next = Len(Matched)
      /\ output = NoFile /\ output' = NoFile
      /\ loaded' = loaded /\ templateSet' = templateSet /\ tables' = tables /\ left' = left
      /\ UNCHANGED <<outDir, before, imported, invocation>>
  BY DEF EndTables, EndDML, Exhausted, pointed, memory, templateVars, dbVars, renderVars, dirs
<1>2. options' = options /\ \A r : Complete(r)' = Complete(r)
  BY <1>1 DEF options, Complete
<1>3. left = {}
  BY <1>1 DEF IInv, TablesInv
<1>4. TemplatesInv' /\ TablesInv'
  BY <1>1, <1>3, LaterStep
<1>5. OutputInv'
  BY <1>1, <1>2 DEF IInv, OutputInv, Running
<1>6. DirInv'
  BY <1>1, <1>2 DEF IInv, DirInv
<1>7. \A r : Written(r) => Written(r)'
  BY <1>1, <1>2 DEF Written
<1>8. WrittenInv'
  <2>1. \A t \in tables \ left : Written(TableSource(t))'
    BY <1>1, <1>7 DEF IInv, WrittenInv, HasTables
  <2>2. phase = "tables" => next = 0
    BY MatchedIs DEF IInv, Running
  <2>3. phase = "dml" => next = Len(options.dml)
    BY <1>1, MatchedIs DEF IInv, Running
  <2>4. \A f : Written(DMLSource(f)) => Written(DMLSource(f))'
    BY <1>7
  <2>5. phase = "dml" =>
          \A n \in 1 .. Len(options.dml) : ~options.dml[n].dir /\ Written(DMLSource(options.dml[n]))'
    BY <1>2, <2>3, <2>4 DEF IInv, WrittenInv
  <2>6. 1 .. 0 = {}
    OBVIOUS
  <2> QED BY <1>1, <1>2, <2>1, <2>2, <2>5, <2>6 DEF WrittenInv
<1>9. ReadersInv'
  BY <1>1, <1>2 DEF IInv, ReadersInv, ReadersAfterTables
<1> QED BY <1>4, <1>5, <1>6, <1>8, <1>9 DEF IInv

LEMMA FatalInv ==
  ASSUME IInv, phase' = "fatal", UNCHANGED <<pointed, renderVars, dirs>>, TypeInv'
  PROVE  IInv'
<1>1. UNCHANGED <<invocation, output, outDir, before>>
  BY DEF pointed, renderVars, dirs
<1>2. options' = options /\ \A r : Complete(r)' = Complete(r)
  BY <1>1 DEF options, Complete
<1>3. DirInv'
  BY <1>1, <1>2 DEF IInv, DirInv
<1>4. ReadersInv'
  BY <1>1, <1>2 DEF IInv, ReadersInv, ReadersAfterTables, DirInv
<1> QED BY <1>3, <1>4 DEF IInv, TemplatesInv, TablesInv, OutputInv, WrittenInv, HasTemplates, HasTables,
                          Running

LEMMA RerunInv ==
  ASSUME Rerun, TypeInv'
  PROVE  IInv'
<1>1. phase' = "init" /\ before' = outDir /\ outDir' = outDir
  BY DEF Rerun
<1> QED BY <1>1 DEF IInv, TemplatesInv, TablesInv, OutputInv, DirInv, WrittenInv, ReadersInv,
                    ReadersAfterTables, HasTemplates, HasTables, Running

LEMMA InitializeInv ==
  ASSUME IInv, Initialize, TypeInv'
  PROVE  IInv'
<1>1. /\ phase = "init" /\ phase' = "templates" /\ next' = 0 /\ loaded' = Builtin /\ lastSet' = ""
      /\ templateSet' = "default" /\ tables' = {} /\ imported' = [n \in FileNames |-> {}]
      /\ output' = NoFile /\ UNCHANGED <<invocation, outDir, before>>
  BY DEF Initialize, pointed, dirs
<1>2. outDir = before
  BY <1>1 DEF IInv, DirInv
<1>3. options' = options
  BY <1>1 DEF options
<1>4. TemplatesInv'
  <2>1. 1 .. 0 = {}
    OBVIOUS
  <2>2. Loads(Builtin, options.t, 0)
    <3>1. \A type \in Types :
            /\ DOMAIN Builtin[type] = {"", "default"}
            /\ \A s \in {"", "default"} : Builtin[type][s] = "builtin"
      BY DEF Builtin
    <3> QED BY <2>1, <3>1 DEF Loads
  <2> QED BY <1>1, <1>3, <2>1, <2>2 DEF TemplatesInv, HasTemplates
<1>5. TablesInv'
  BY <1>1 DEF TablesInv, HasTables
<1>6. OutputInv'
  <2>1. \A s \in Sources(options) : s.out \in FileNames
    BY SourcesKnown DEF IInv, TypeInv, TypeOK, options
  <2> QED BY <1>1, <1>3, <2>1 DEF OutputInv
<1>7. DirInv' /\ WrittenInv' /\ ReadersInv'
  BY <1>1, <1>2 DEF DirInv, WrittenInv, ReadersInv, ReadersAfterTables, HasTables
<1> QED BY <1>4, <1>5, <1>6, <1>7 DEF IInv

LEMMA InitInv == Init => IInv
<1> SUFFICES ASSUME Init PROVE IInv
  OBVIOUS
<1>1. phase = "init" /\ outDir = before
  BY DEF Init
<1> QED BY <1>1, InitType DEF IInv, TemplatesInv, TablesInv, OutputInv, DirInv, WrittenInv, ReadersInv,
                              ReadersAfterTables, HasTemplates, HasTables, Running

LEMMA SameInv ==
  ASSUME IInv, UNCHANGED vars, TypeInv'
  PROVE  IInv'
<1>1. UNCHANGED <<invocation, phase, next, loaded, lastSet, templateSet, tables, left, currScope,
                  imported, output, outDir, before>>
  BY DEF vars, pointed, memory, templateVars, dbVars, renderVars, dirs
<1>2. options' = options /\ \A r : Complete(r)' = Complete(r)
  BY <1>1 DEF options, Complete
<1>3. Current' = Current /\ \A s : Making(s) => Making(s)'
  BY <1>1, <1>2 DEF Current, Making
<1>4. TemplatesInv' /\ TablesInv'
  BY <1>1, <1>2 DEF IInv, TemplatesInv, TablesInv, HasTemplates, HasTables
<1>5. OutputInv'
  BY <1>1, <1>2, <1>3 DEF IInv, OutputInv, Running
<1>6. DirInv'
  BY <1>1, <1>2 DEF IInv, DirInv
<1>7. WrittenInv'
  <2>1. \A r : Written(r) => Written(r)'
    BY <1>1, <1>2 DEF Written
  <2>2. \A r : Written(DMLSource(r)) => Written(DMLSource(r))'
    BY <2>1
  <2>3. \A r : Written(TableSource(r)) => Written(TableSource(r))'
    BY <2>1
  <2> QED BY <1>1, <1>2, <2>1, <2>2, <2>3 DEF IInv, WrittenInv, HasTables
<1>8. ReadersInv'
  BY <1>1, <1>2 DEF IInv, ReadersInv, ReadersAfterTables
<1> QED BY <1>4, <1>5, <1>6, <1>7, <1>8 DEF IInv

LEMMA StepInv == NamesApart /\ IInv /\ [Next]_vars => IInv'
<1> SUFFICES ASSUME NamesApart, IInv, [Next]_vars PROVE IInv'
  OBVIOUS
<1>1. TypeInv'
  BY TypeStep DEF IInv
<1>2. CASE UNCHANGED vars \/ SkipDirectory
  BY <1>1, <1>2, SameInv DEF SkipDirectory
<1>3. CASE RefuseOptions \/ Stop
  BY <1>1, <1>3, FatalInv DEF RefuseOptions, Stop, memory, renderVars
<1>4. ASSUME NEW f, RefuseTemplate(f) \/ RefuseDDL(f) \/ RefuseDML(f)
      PROVE  IInv'
  BY <1>1, <1>4, FatalInv DEF RefuseTemplate, RefuseDDL, RefuseDML
<1>5. CASE Initialize \/ Rerun
  BY <1>1, <1>5, InitializeInv, RerunInv
<1>6. CASE Use \/ GetDBMeta
  BY <1>1, <1>6, UseInv, GetDBMetaInv
<1>7. ASSUME NEW f, AddTemplate(f) \/ RunDDL(f) \/ OutputDML(f)
      PROVE  IInv'
  BY <1>1, <1>7, AddTemplateInv, RunDDLInv, OutputDMLInv
<1>8. ASSUME NEW t, OutputTable(t)
      PROVE  IInv'
  BY <1>1, <1>8, OutputTableInv
<1>9. CASE EndTables \/ EndDML
  BY <1>1, <1>9, EndInv
<1>10. CASE OutputStandalone \/ OpenFile \/ WriteFile
  BY <1>1, <1>10, OutputStandaloneInv, OpenFileInv, WriteFileInv
<1> QED
  BY <1>2, <1>3, <1>4, <1>5, <1>6, <1>7, <1>8, <1>9, <1>10
     DEF Next, Main, TemplateStep, DDLStep, TableStep, DMLStep

-----------------------------------------------------------------------------
(* What follows of it.                                                     *)

LEMMA InvWritten == IInv => EverySourceWritten
<1> SUFFICES ASSUME IInv, phase = "done", NEW s \in Sources(options)
             PROVE  outDir[s.out] = Complete(s)
  BY DEF EverySourceWritten
<1>1. output = NoFile
  <2>1. Current = {}
    BY DEF Current
  <2> QED BY <2>1 DEF IInv, OutputInv, Running
<1>2. tables = Defined(options) /\ left = {}
  BY DEF IInv, TablesInv, HasTables
<1>3. CASE s \in {TableSource(t) : t \in Defined(options)}
  BY <1>1, <1>2, <1>3 DEF IInv, WrittenInv, HasTables, Written
<1>4. CASE s \in {DMLSource(f) : f \in DMLFiles(options)}
  <2>1. PICK f \in DMLFiles(options) : s = DMLSource(f)
    BY <1>4
  <2>2. f \in ToSet(options.dml) /\ DOMAIN options.dml = 1 .. Len(options.dml)
    BY MatchedIs, ProjectLists DEF DMLFiles, IInv, Running
  <2>3. PICK n \in 1 .. Len(options.dml) : f = options.dml[n]
    BY <2>2 DEF ToSet
  <2> QED BY <1>1, <2>1, <2>3 DEF IInv, WrittenInv, Written
<1>5. CASE s = Standalone
  BY <1>1, <1>5 DEF IInv, WrittenInv, Written
<1> QED BY <1>3, <1>4, <1>5 DEF Sources

LEMMA InvCut == IInv => AtMostOneCut
<1> SUFFICES ASSUME IInv, phase # "init" PROVE AtMostOneCut
  BY DEF AtMostOneCut
<1> DEFINE damaged == {n \in FileNames :
                        /\ outDir[n] # before[n]
                        /\ ~\E s \in Sources(options) : n = s.out /\ outDir[n] = Complete(s)}
<1>1. \A n \in damaged : outDir[n] = Cut /\ output.name = n
  BY DEF IInv, DirInv
<1>2. Cardinality(damaged) <= 1
  <2>1. CASE damaged = {}
    BY <2>1, FS_EmptySet
  <2>2. CASE damaged # {}
    <3>1. damaged = {output.name}
      BY <1>1, <2>2
    <3>2. Cardinality({output.name}) = 1
      BY FS_Singleton
    <3> QED BY <3>1, <3>2
  <2> QED BY <2>1, <2>2
<1> QED BY <1>1, <1>2 DEF AtMostOneCut

\* The files of a type and a set.
OfSet(files, type, set) == {f \in ToSet(files) : ~f.dir /\ f.set = set /\ f.type = type}

\* The last file of a type and a set, where one list of files is behind another.
LEMMA LaterFirst ==
  ASSUME NEW p, IsProject(p), NEW a, NEW b, a \in Seq(ToSet(a)), b \in Seq(ToSet(b)), p.t = a \o b,
         NEW type, NEW set, \A f \in ToSet(p.t) : ~f.dir
  PROVE  /\ OfSet(a, type, set) \union OfSet(b, type, set) # {} <=> Candidates(p, type, set) # {}
         /\ OfSet(b, type, set) # {} =>
              LastCandidate(p, type, set) \in {f.path : f \in OfSet(b, type, set)}
         /\ OfSet(b, type, set) = {} /\ OfSet(a, type, set) # {} =>
              LastCandidate(p, type, set) \in {f.path : f \in OfSet(a, type, set)}
<1> DEFINE Of(files) == {f \in ToSet(files) : ~f.dir /\ f.set = set /\ f.type = type}
           C == Candidates(p, type, set)
<1>1. /\ Len(a) \in Nat /\ Len(b) \in Nat /\ Len(p.t) = Len(a) + Len(b)
      /\ DOMAIN a = 1 .. Len(a) /\ DOMAIN b = 1 .. Len(b)
      /\ \A n \in 1 .. Len(a) : p.t[n] = a[n]
      /\ \A n \in 1 .. Len(b) : p.t[Len(a) + n] = b[n]
  OBVIOUS
<1>2. \A n \in 1 .. Len(p.t) : n \in C <=> p.t[n].type = type /\ p.t[n].set = set
  <2>1. \A n \in 1 .. Len(p.t) : ~p.t[n].dir
    BY ProjectLists, FileOf
  <2> QED BY <2>1 DEF Candidates
<1>3. C \subseteq 1 .. Len(p.t)
  BY DEF Candidates
<1> HIDE DEF C
<1>4. ASSUME NEW f \in Of(a)
      PROVE  \E n \in C : n <= Len(a)
  <2>1. PICK n \in 1 .. Len(a) : f = a[n]
    BY <1>1 DEF ToSet
  <2>2. n \in 1 .. Len(p.t) /\ p.t[n] = f
    BY <1>1, <2>1
  <2> QED BY <1>2, <2>1, <2>2
<1>5. ASSUME NEW f \in Of(b)
      PROVE  \E n \in C : n > Len(a)
  <2>1. PICK n \in 1 .. Len(b) : f = b[n]
    BY <1>1 DEF ToSet
  <2>2. Len(a) + n \in 1 .. Len(p.t) /\ p.t[Len(a) + n] = f /\ Len(a) + n > Len(a)
    BY <1>1, <2>1
  <2> QED BY <1>2, <2>1, <2>2
<1>6. ASSUME NEW n \in C
      PROVE  IF n <= Len(a) THEN p.t[n] \in Of(a) ELSE p.t[n] \in Of(b)
  <2>1. n \in 1 .. Len(p.t) /\ p.t[n].type = type /\ p.t[n].set = set /\ ~p.t[n].dir
    BY <1>2, <1>3, ProjectLists, FileOf
  <2>2. CASE n <= Len(a)
    <3>1. n \in DOMAIN a /\ p.t[n] = a[n]
      BY <1>1, <2>1, <2>2
    <3> QED BY <2>1, <2>2, <3>1 DEF ToSet
  <2>3. CASE ~(n <= Len(a))
    <3>1. n - Len(a) \in DOMAIN b /\ n = Len(a) + (n - Len(a))
      BY <1>1, <2>1, <2>3
    <3>2. p.t[n] = b[n - Len(a)]
      BY <1>1, <3>1
    <3> QED BY <2>1, <2>3, <3>1, <3>2 DEF ToSet
  <2> QED BY <2>2, <2>3
<1> HIDE DEF Of
<1>7. Of(a) \union Of(b) # {} <=> C # {}
  BY <1>4, <1>5, <1>6
<1>8. ASSUME C # {}
      PROVE  \E n \in C : (\A m \in C : m <= n) /\ LastCandidate(p, type, set) = p.t[n].path
  BY <1>8, LastCandidateIs DEF C
<1>9. ASSUME Of(b) # {}
      PROVE  LastCandidate(p, type, set) \in {f.path : f \in Of(b)}
  <2>1. PICK n \in C : (\A m \in C : m <= n) /\ LastCandidate(p, type, set) = p.t[n].path
    BY <1>7, <1>8, <1>9
  <2>2. ~(n <= Len(a))
    <3>1. PICK m \in C : m > Len(a)
      BY <1>5, <1>9
    <3>2. m \in Nat /\ n \in Nat /\ m <= n
      BY <1>3, <2>1, <3>1
    <3> QED BY <1>1, <3>1, <3>2
  <2> QED BY <1>6, <2>1, <2>2
<1>10. ASSUME Of(b) = {}, Of(a) # {}
       PROVE  LastCandidate(p, type, set) \in {f.path : f \in Of(a)}
  <2>1. PICK n \in C : LastCandidate(p, type, set) = p.t[n].path
    BY <1>7, <1>8, <1>10
  <2> QED BY <1>6, <1>10, <2>1
<1>11. \A files : OfSet(files, type, set) = Of(files)
  BY DEF OfSet, Of
<1> QED BY <1>7, <1>9, <1>10, <1>11 DEF C

LEMMA InvCommandLine == IInv => CommandLineFirst
<1> SUFFICES ASSUME IInv, phase = "done" PROVE CommandLineFirst
  BY DEF CommandLineFirst
<1> DEFINE args == invocation.args
           conf == IF IsThere(invocation.conf) THEN invocation.conf ELSE args
           set  == IF args.T # "" THEN args.T ELSE conf.T
           Of(given, type) == {f \in ToSet(given.t) : ~f.dir /\ f.set = set /\ f.type = type}
           Paths(given, type) == {f.path : f \in Of(given, type)}
           first == IF IsThere(invocation.conf) THEN conf.t ELSE <<>>
<1>1. /\ IsProject(options) /\ IsProject(args) /\ IsProject(conf)
  BY MatchedIs, GeneratorAssumption DEF IInv, Running, TypeInv, TypeOK
<1>2. options.t = first \o args.t
  <2>1. args.t \in Seq(ToSet(args.t))
    BY <1>1, ProjectLists
  <2>2. <<>> \o args.t = args.t
    BY <2>1
  <2> QED BY <2>2 DEF options, ParseOptions, Merge
<1>3. first \in Seq(ToSet(first)) /\ args.t \in Seq(ToSet(args.t))
  <2>1. conf.t \in Seq(ToSet(conf.t)) /\ args.t \in Seq(ToSet(args.t))
    BY <1>1, ProjectLists
  <2>2. <<>> \in Seq(ToSet(<<>>))
    OBVIOUS
  <2> HIDE DEF conf, args
  <2> QED BY <2>1, <2>2
<1>4. options.T = set
  BY DEF options, ParseOptions, Merge, Either
<1>5. DMLFiles(args) \union DMLFiles(conf) \subseteq DMLFiles(options)
  <2>1. CASE IsThere(invocation.conf)
    <3>1. options.dml = conf.dml \o args.dml
      BY <2>1 DEF options, ParseOptions, Merge
    <3>2. conf.dml \in Seq(ToSet(conf.dml)) /\ args.dml \in Seq(ToSet(args.dml))
      BY <1>1, ProjectLists
    <3>3. ToSet(options.dml) = ToSet(conf.dml) \union ToSet(args.dml)
      <4> HIDE DEF conf, args
      <4> QED BY <3>1, <3>2, ConcatSets
    <3> QED BY <3>3 DEF DMLFiles
  <2>2. CASE ~IsThere(invocation.conf)
    BY <2>2 DEF options, ParseOptions
  <2> QED BY <2>1, <2>2
<1>6. ASSUME NEW s \in {DMLSource(f) : f \in DMLFiles(args) \union DMLFiles(conf)} \union {Standalone}
      PROVE  s \in Sources(options) /\ outDir[s.out] = Complete(s)
  <2>1. s \in Sources(options)
    BY <1>5 DEF Sources
  <2> QED BY <2>1, InvWritten DEF EverySourceWritten
<1>7. \A f \in ToSet(options.t) : ~f.dir
  <2>1. /\ \A n \in 1 .. Len(options.t) : ~options.t[n].dir
        /\ DOMAIN options.t = 1 .. Len(options.t)
    BY <1>1, ProjectLists DEF IInv, TemplatesInv, HasTemplates
  <2> QED BY <2>1 DEF ToSet
<1>8. ASSUME set # "", NEW type
      PROVE  LET used == ChosenTemplate(options, type)
             IN  IF Of(args, type) # {} THEN used \in Paths(args, type)
                 ELSE Of(conf, type) # {} => used \in Paths(conf, type)
  <2>1. ChosenSet(options) = set
    BY <1>4, <1>8 DEF ChosenSet
  <2> DEFINE Among(files) == OfSet(files, type, set)
             used == LastCandidate(options, type, set)
  <2>2. /\ Among(first) \union Among(args.t) # {} <=> Candidates(options, type, set) # {}
        /\ Among(args.t) # {} => used \in {f.path : f \in Among(args.t)}
        /\ Among(args.t) = {} /\ Among(first) # {} => used \in {f.path : f \in Among(first)}
    <3> HIDE DEF first, args, set, conf
    <3> QED BY <1>1, <1>2, <1>3, <1>7, LaterFirst
  <2>3. Candidates(options, type, set) # {} => ChosenTemplate(options, type) = used
    BY <2>1 DEF ChosenTemplate
  <2>4. Of(args, type) = Among(args.t) /\ (IsThere(invocation.conf) => Of(conf, type) = Among(first))
    BY DEF OfSet
  <2>5. ~IsThere(invocation.conf) => Of(conf, type) = Of(args, type)
    OBVIOUS
  <2> HIDE DEF Of, Among, first, args, conf, set, used
  <2> QED BY <2>2, <2>3, <2>4, <2>5 DEF Of, Among
<1>9. ASSUME NEW s \in {DMLSource(f) : f \in DMLFiles(args) \union DMLFiles(conf)} \union {Standalone}
      PROVE  /\ outDir[s.out].is = "complete"
             /\ \A type \in s.types : outDir[s.out].templates[type] = ChosenTemplate(options, type)
  <2>1. outDir[s.out] = Complete(s)
    BY <1>6
  <2> HIDE DEF args, conf
  <2> QED BY <2>1 DEF Complete
<1> HIDE DEF Of, Paths
<1>10. ASSUME NEW s \in {DMLSource(f) : f \in DMLFiles(args) \union DMLFiles(conf)} \union {Standalone}
      PROVE  /\ outDir[s.out].is = "complete"
             /\ set # "" =>
                  \A type \in s.types :
                    LET used == outDir[s.out].templates[type]
                    IN  IF Of(args, type) # {} THEN used \in Paths(args, type)
                        ELSE Of(conf, type) # {} => used \in Paths(conf, type)
  <2> HIDE DEF args, conf, set
  <2> QED BY <1>8, <1>9
<1> QED BY <1>10 DEF CommandLineFirst, Of, Paths

\* What the theorems below share: the invariant holds of every run of every program
\* whose sources make files of different names.
LEMMA Invariant ==
  ASSUME NamesApart
  PROVE  Spec => []IInv
<1>1. IInv /\ [Next]_vars => IInv'
  BY StepInv
<1> QED BY InitInv, <1>1, PTL DEF Spec

\* A run that ends well has written a complete file of every table that all the DDL
\* together defines, of every DML file and the standalone one, each with the imports
\* that fit and the templates chosen (OutputTables, LoadAndOutputDML and
\* OutputStandalone), for any projects and any number of runs, however many of them
\* were interrupted, and wherever.
THEOREM SourcesWritten ==
  ASSUME NamesApart
  PROVE  Spec => []EverySourceWritten
BY Invariant, InvWritten, PTL

\* Wherever a run stops, one file at most is neither as it was nor complete: the one
\* OutputFile truncated before it formatted the text.
THEOREM OneFileCut ==
  ASSUME NamesApart
  PROVE  Spec => []AtMostOneCut
BY Invariant, InvCut, PTL

\* A file made of a DML file is not replaced before those of the tables it mentions.
THEOREM TablesFirst ==
  ASSUME NamesApart
  PROVE  Spec => []ReadersAfterTables
<1>1. IInv => ReadersAfterTables
  BY DEF IInv, ReadersInv
<1> QED BY Invariant, <1>1, PTL

\* The command line's template set and directories go before the configuration
\* file's, and the DML files of both are all rendered.
THEOREM CommandLineWins ==
  ASSUME NamesApart
  PROVE  Spec => []CommandLineFirst
BY Invariant, InvCommandLine, PTL
=============================================================================
