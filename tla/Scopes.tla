------------------------------- MODULE Scopes -------------------------------
(***************************************************************************)
(* The import tables of the files being generated (render/scope.go).       *)
(*                                                                         *)
(* Every output file is a scope: it maps the import path of each package   *)
(* the file mentions to a package name that is unique in the file.         *)
(* Templates hold PkgName objects, which resolve to a name only when they  *)
(* are printed, and then against whichever scope is current.  When a file  *)
(* is complete, ListPkg gives the import block written above its text.     *)
(* The path "" (a builtin type, or the package being generated) prints as  *)
(* "" and touches no scope, so it is left out.                             *)
(*                                                                         *)
(* A package name is modelled by what the naming code can tell apart: a    *)
(* stem and the numbers that follow it, each after an underscore, so       *)
(* "sql_1" is the suffix 1 on the stem "sql" whether it came from a path   *)
(* that ends in sql_1 or from resolving a conflict.                        *)
(***************************************************************************)
EXTENDS Integers, Sequences, FiniteSets

CONSTANTS
  PkgPaths,     \* import paths of packages
  ScopeNames,   \* names of the output files
  Stems,        \* identifiers without a number at the end
  Anonymous,    \* paths whose path.Base does not start with an identifier
  Exact,        \* paths whose path.Base is an identifier in lower case
  LeadIdent     \* path -> identifier path.Base starts with, in lower case

Names == [stem : Stems, sfx : Seq(Nat)]

\* identRe matches a letter first, so no identifier is empty or "_".
ASSUME ScopesAssumption ==
  /\ "pkg" \in Stems
  /\ Stems \intersect {"", "_"} = {}
  /\ Anonymous \subseteq PkgPaths
  /\ Exact \subseteq PkgPaths \ Anonymous
  /\ LeadIdent \in [PkgPaths \ Anonymous -> Names]

VARIABLES
  scopes,      \* scope name -> its import table (created scopes only)
  currScope,   \* name of the scope PkgNames resolve against
  printed      \* scope name -> <<package name, path>> pairs in its text

vars == <<scopes, currScope, printed>>

\* NewScopes switches to the scope "" before any file has one.
AllScopes == ScopeNames \union {""}

EmptyMap == [x \in {} |-> {}]

\* m[k] = v in Go.
Put(m, k, v) == [x \in DOMAIN m \union {k} |-> IF x = k THEN v ELSE m[x]]

NewScope == [pkgPaths |-> EmptyMap, pkgNames |-> EmptyMap]

-----------------------------------------------------------------------------
(* Choosing a name: the identifier the path ends with, or "pkg", made      *)
(* unique in the scope by the first number suffix that is free.            *)

Pkg == [stem |-> "pkg", sfx |-> <<>>]

BaseName(p) == IF p \in Anonymous THEN Pkg ELSE LeadIdent[p]

Suffixed(base, i) ==
  IF i = 0 THEN base ELSE [stem |-> base.stem, sfx |-> Append(base.sfx, i)]

IsFirstFree(i, base, taken) ==
  /\ Suffixed(base, i) \notin taken
  /\ \A j \in 0 .. i-1 : Suffixed(base, j) \in taken

\* Mutated: one conflict is resolved, a second one is not looked for.
FreshNameOneTry(base, taken) ==
  IF base \in taken THEN Suffixed(base, 1) ELSE base

\* One of the Cardinality(taken) + 1 smallest suffixes is free, so the probing
\* loop stops.
FreshName(base, taken) ==
  Suffixed(base, CHOOSE i \in 0 .. Cardinality(taken) : IsFirstFree(i, base, taken))

\* Mutated: the name is not stored as taken.
ImportPkgUnstored(sc, p) ==
  IF p \in DOMAIN sc.pkgPaths THEN sc
  ELSE LET name == FreshName(BaseName(p), DOMAIN sc.pkgNames)
       IN  [pkgPaths |-> Put(sc.pkgPaths, p, name), pkgNames |-> sc.pkgNames]

\* A new import starts out unused.  Nothing in the program calls ImportPkg but
\* UsePkg, which marks it at once.
ImportPkg(sc, p) ==
  IF p \in DOMAIN sc.pkgPaths THEN sc
  ELSE LET name == FreshName(BaseName(p), DOMAIN sc.pkgNames)
       IN  [pkgPaths |-> Put(sc.pkgPaths, p, name),
            pkgNames |-> Put(sc.pkgNames, name, FALSE)]

UsePkg(sc, p) ==
  LET imported == ImportPkg(sc, p)
  IN  [imported EXCEPT !.pkgNames[imported.pkgPaths[p]] = TRUE]

-----------------------------------------------------------------------------
(* The import block: one line <<path, name>> per package.  The name "_" is *)
(* for a package that is imported and not used; no name leaves it to the   *)
(* package itself.                                                         *)

Blank   == [stem |-> "_", sfx |-> <<>>]
Omitted == [stem |-> "",  sfx |-> <<>>]

\* Mutated: the name is left out whenever the path ends in an identifier,
\* though in this file the package may have had to take a suffix.
ListedNameBySuffix(sc, p) ==
  IF ~sc.pkgNames[sc.pkgPaths[p]] THEN Blank
  ELSE IF p \in Exact THEN Omitted ELSE sc.pkgPaths[p]

ListedName(sc, p) ==
  LET name == sc.pkgPaths[p]
  IN  IF ~sc.pkgNames[name] THEN Blank
      ELSE IF p \in Exact /\ name = LeadIdent[p] THEN Omitted
      ELSE name

ListPkg(sc) == {<<p, ListedName(sc, p)>> : p \in DOMAIN sc.pkgPaths}

\* What a line lets the file call the package: Go declares a package under the
\* last element of its path when the line gives no name of its own.
LocalName(line) == IF line[2] = Omitted THEN LeadIdent[line[1]] ELSE line[2]

-----------------------------------------------------------------------------
Init ==
  /\ scopes    = [s \in {""} |-> NewScope]
  /\ currScope = ""
  /\ printed   = [s \in AllScopes |-> {}]

SwitchScope(s) ==
  /\ scopes' = IF s \in DOMAIN scopes THEN scopes ELSE Put(scopes, s, NewScope)
  /\ currScope' = s
  /\ UNCHANGED printed

\* Mutated: the package is imported where its PkgName was made, before any file.
PrintPkgEarly(p) ==
  LET sc == UsePkg(scopes[""], p)
  IN  /\ scopes'  = [scopes EXCEPT ![""] = sc]
      /\ printed' = [printed EXCEPT ![currScope] = @ \union {<<sc.pkgPaths[p], p>>}]
      /\ UNCHANGED currScope

\* PkgName.String: a template prints the name of a package.  The PkgName itself
\* (imp, typeName) touches no scope.
PrintPkg(p) ==
  LET sc == UsePkg(scopes[currScope], p)
  IN  /\ scopes'  = [scopes EXCEPT ![currScope] = sc]
      /\ printed' = [printed EXCEPT ![currScope] = @ \union {<<sc.pkgPaths[p], p>>}]
      /\ UNCHANGED currScope

Next ==
  \/ \E s \in ScopeNames : SwitchScope(s)
  \/ \E p \in PkgPaths : PrintPkg(p)

Spec == Init /\ [][Next]_vars

-----------------------------------------------------------------------------
(* A scope's table: paths and names in step with each other.               *)

ScopeType(sc) ==
  /\ DOMAIN sc = {"pkgPaths", "pkgNames"}
  /\ DOMAIN sc.pkgPaths \subseteq PkgPaths
  /\ sc.pkgPaths \in [DOMAIN sc.pkgPaths -> Names]
  /\ sc.pkgNames \in [DOMAIN sc.pkgNames -> BOOLEAN]
  /\ \A p \in DOMAIN sc.pkgPaths : sc.pkgPaths[p] \in DOMAIN sc.pkgNames
  /\ \A n \in DOMAIN sc.pkgNames : \E p \in DOMAIN sc.pkgPaths : sc.pkgPaths[p] = n

\* Every table has the shape render/scope.go gives it, and the names marked in
\* pkgNames are those pkgPaths hands out, no more and no fewer.
TypeOK ==
  /\ currScope \in DOMAIN scopes
  /\ DOMAIN scopes \subseteq AllScopes
  /\ \A s \in DOMAIN scopes : ScopeType(scopes[s])
  /\ printed \in [AllScopes -> SUBSET (Names \X PkgPaths)]

\* Two packages never share a name in a file, however their paths collide
\* ("sql" twice, next to a path that ends in sql_1).
NamesUnique ==
  \A s \in DOMAIN scopes :
    \A p, q \in DOMAIN scopes[s].pkgPaths :
      scopes[s].pkgPaths[p] = scopes[s].pkgPaths[q] => p = q

\* The import block a file gets when it is written has a line for every reference
\* printed into it so far, and makes it mean the package it was printed for and
\* no other, although references into many files interleave.
ImportsResolve ==
  \A s \in AllScopes : \A ref \in printed[s] :
    /\ s \in DOMAIN scopes
    /\ \E line \in ListPkg(scopes[s]) : line[1] = ref[2]
    /\ \A line \in ListPkg(scopes[s]) : LocalName(line) = ref[1] <=> line[1] = ref[2]

\* The block of a file has no package that its own text does not mention: Go
\* refuses a named import that is not used, and "_" would link a package that
\* only some other file asked for.
NoUnusedImport ==
  \A s \in DOMAIN scopes : \A line \in ListPkg(scopes[s]) :
    line[2] # Blank /\ \E ref \in printed[s] : ref[2] = line[1]
=============================================================================
