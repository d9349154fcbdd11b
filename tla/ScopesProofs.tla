---------------------------- MODULE ScopesProofs ----------------------------
(* Proofs about Scopes for every set of paths and every number of files.   *)
EXTENDS Scopes, Inductions, FiniteSetTheorems, TLAPS

LEMMA SuffixedInjective ==
  ASSUME NEW base \in Names, NEW i \in Nat, NEW j \in Nat,
         Suffixed(base, i) = Suffixed(base, j)
  PROVE  i = j
  BY DEF Suffixed, Names

LEMMA SuffixedType ==
  ASSUME NEW base \in Names, NEW i \in Nat
  PROVE  Suffixed(base, i) \in Names
<1>1. Append(base.sfx, i) \in Seq(Nat)
  BY DEF Names
<1> QED
  BY <1>1 DEF Suffixed, Names

\* The probing loop of ImportPkg stops: among the first Cardinality(taken) + 1
\* candidates one is free, and FreshName is the first such.
LEMMA FreshNameFirstFree ==
  ASSUME NEW base \in Names, NEW taken, IsFiniteSet(taken)
  PROVE  \E i \in 0 .. Cardinality(taken) :
           /\ IsFirstFree(i, base, taken)
           /\ FreshName(base, taken) = Suffixed(base, i)
<1> DEFINE n == Cardinality(taken)
           free == {i \in 0 .. n : Suffixed(base, i) \notin taken}
<1>1. n \in Nat
  BY FS_CardinalityType
<1>2. free # {}
  <2> SUFFICES ASSUME \A i \in 0 .. n : Suffixed(base, i) \in taken
               PROVE  FALSE
    OBVIOUS
  <2> DEFINE f == [i \in 0 .. n |-> Suffixed(base, i)]
  <2>1. f \in [0 .. n -> taken]
    OBVIOUS
  <2>2. IsFiniteSet(0 .. n) /\ Cardinality(0 .. n) = n + 1
    BY <1>1, FS_Interval
  <2>3. PICK i, j \in 0 .. n : i # j /\ f[i] = f[j]
    <3>1. Cardinality(taken) < Cardinality(0 .. n)
      BY <1>1, <2>2
    <3> HIDE DEF f, n
    <3> QED BY <2>1, <2>2, <3>1, FS_PigeonHole
  <2> QED BY <2>3, <1>1, SuffixedInjective
<1>3. PICK i \in free : \A j \in free : i <= j
  <2>1. free \in SUBSET Nat
    BY <1>1
  <2> QED BY <1>2, <2>1, LeastNatural
<1>4. i \in 0 .. n /\ IsFirstFree(i, base, taken)
  BY <1>1, <1>3 DEF IsFirstFree
<1> QED
  BY <1>4 DEF FreshName

LEMMA FreshNameIsFree ==
  ASSUME NEW base \in Names, NEW taken, IsFiniteSet(taken)
  PROVE  FreshName(base, taken) \in Names \ taken
<1>1. PICK i \in 0 .. Cardinality(taken) :
             /\ IsFirstFree(i, base, taken)
             /\ FreshName(base, taken) = Suffixed(base, i)
  BY FreshNameFirstFree
<1>2. i \in Nat
  BY FS_CardinalityType
<1> QED
  BY <1>1, <1>2, SuffixedType DEF IsFirstFree

-----------------------------------------------------------------------------
(* The inductive invariant.  TypeOK does not say that a table is finite,   *)
(* which FreshName needs to exist, nor that its names are unique; and what *)
(* was printed into a file agrees with its table.                          *)

TableInv(sc) ==
  /\ ScopeType(sc)
  /\ IsFiniteSet(DOMAIN sc.pkgNames)
  /\ \A p, q \in DOMAIN sc.pkgPaths : sc.pkgPaths[p] = sc.pkgPaths[q] => p = q

RefInv(sc, ref) ==
  /\ ref[2] \in DOMAIN sc.pkgPaths
  /\ sc.pkgPaths[ref[2]] = ref[1]
  /\ sc.pkgNames[ref[1]] = TRUE

PrintedInv ==
  \A s \in AllScopes : \A ref \in printed[s] :
    s \in DOMAIN scopes /\ RefInv(scopes[s], ref)

IInv ==
  /\ TypeOK
  /\ \A s \in DOMAIN scopes : TableInv(scopes[s])
  /\ PrintedInv

LEMMA BaseNameType ==
  ASSUME NEW p \in PkgPaths
  PROVE  BaseName(p) \in Names
<1>1. ASSUME NEW s \in Seq(Nat)
      PROVE  [stem |-> "pkg", sfx |-> s] \in Names
  BY ScopesAssumption DEF Names
<1>2. Pkg \in Names
  <2>1. <<>> \in Seq(Nat)
    OBVIOUS
  <2> QED BY <1>1, <2>1 DEF Pkg
<1> QED
  BY <1>2, ScopesAssumption DEF BaseName

\* Importing a package keeps the table well formed, gives the package a name,
\* and changes neither the name nor the mark of any package already there.
LEMMA ImportPkgProperties ==
  ASSUME NEW sc, TableInv(sc), NEW p \in PkgPaths
  PROVE  /\ TableInv(ImportPkg(sc, p))
         /\ p \in DOMAIN ImportPkg(sc, p).pkgPaths
         /\ \A q \in DOMAIN sc.pkgPaths :
              /\ q \in DOMAIN ImportPkg(sc, p).pkgPaths
              /\ ImportPkg(sc, p).pkgPaths[q] = sc.pkgPaths[q]
              /\ ImportPkg(sc, p).pkgNames[sc.pkgPaths[q]] = sc.pkgNames[sc.pkgPaths[q]]
<1>1. CASE p \in DOMAIN sc.pkgPaths
  BY <1>1 DEF ImportPkg, TableInv, ScopeType
<1>2. CASE p \notin DOMAIN sc.pkgPaths
  <2> DEFINE name  == FreshName(BaseName(p), DOMAIN sc.pkgNames)
             paths == Put(sc.pkgPaths, p, name)
             names == Put(sc.pkgNames, name, FALSE)
  <2>1. ImportPkg(sc, p) = [pkgPaths |-> paths, pkgNames |-> names]
    BY <1>2 DEF ImportPkg
  <2>2. name \in Names \ DOMAIN sc.pkgNames
    BY BaseNameType, FreshNameIsFree DEF TableInv
  <2> HIDE DEF name
  <2>3. /\ DOMAIN paths = DOMAIN sc.pkgPaths \union {p}
        /\ paths[p] = name
        /\ \A q \in DOMAIN sc.pkgPaths : paths[q] = sc.pkgPaths[q]
    BY <1>2 DEF Put
  <2>4. /\ DOMAIN names = DOMAIN sc.pkgNames \union {name}
        /\ names[name] = FALSE
        /\ \A n \in DOMAIN sc.pkgNames : names[n] = sc.pkgNames[n]
    BY <2>2 DEF Put
  <2>5. paths \in [DOMAIN paths -> Names] /\ names \in [DOMAIN names -> BOOLEAN]
    BY <2>2 DEF Put, TableInv, ScopeType
  <2> HIDE DEF paths, names
  <2>6. ScopeType([pkgPaths |-> paths, pkgNames |-> names])
    <3>1. DOMAIN paths \subseteq PkgPaths
      BY <2>3 DEF TableInv, ScopeType
    <3>2. \A q \in DOMAIN paths : paths[q] \in DOMAIN names
      BY <2>3, <2>4 DEF TableInv, ScopeType
    <3>3. \A n \in DOMAIN names : \E q \in DOMAIN paths : paths[q] = n
      BY <2>3, <2>4 DEF TableInv, ScopeType
    <3> QED BY <2>5, <3>1, <3>2, <3>3 DEF ScopeType
  <2>7. IsFiniteSet(DOMAIN names)
    BY <2>4, FS_AddElement DEF TableInv
  <2>8. \A q \in DOMAIN sc.pkgPaths : sc.pkgPaths[q] \in DOMAIN sc.pkgNames
    BY DEF TableInv, ScopeType
  <2>9. \A q, r \in DOMAIN paths : paths[q] = paths[r] => q = r
    BY <2>2, <2>3, <2>8 DEF TableInv
  <2>10. TableInv([pkgPaths |-> paths, pkgNames |-> names])
    BY <2>6, <2>7, <2>9 DEF TableInv
  <2> QED BY <2>1, <2>3, <2>4, <2>8, <2>10
<1> QED
  BY <1>1, <1>2

\* Using a package also marks it, and only ever sets marks.
LEMMA UsePkgProperties ==
  ASSUME NEW sc, TableInv(sc), NEW p \in PkgPaths
  PROVE  /\ TableInv(UsePkg(sc, p))
         /\ p \in DOMAIN UsePkg(sc, p).pkgPaths
         /\ UsePkg(sc, p).pkgPaths[p] \in Names
         /\ UsePkg(sc, p).pkgNames[UsePkg(sc, p).pkgPaths[p]] = TRUE
         /\ \A ref : RefInv(sc, ref) => RefInv(UsePkg(sc, p), ref)
<1> DEFINE im == ImportPkg(sc, p)
           us == UsePkg(sc, p)
           name == im.pkgPaths[p]
<1>1. TableInv(im) /\ p \in DOMAIN im.pkgPaths
  BY ImportPkgProperties
<1>2. name \in DOMAIN im.pkgNames /\ name \in Names
  BY <1>1 DEF TableInv, ScopeType
<1>3. /\ us = [im EXCEPT !.pkgNames[name] = TRUE]
      /\ DOMAIN im = {"pkgPaths", "pkgNames"}
  BY <1>1 DEF UsePkg, TableInv, ScopeType
<1> HIDE DEF im, us
<1>4. /\ DOMAIN us = {"pkgPaths", "pkgNames"}
      /\ us.pkgPaths = im.pkgPaths
      /\ us.pkgNames = [im.pkgNames EXCEPT ![name] = TRUE]
  BY <1>3
<1>5. im.pkgNames \in [DOMAIN im.pkgNames -> BOOLEAN]
  BY <1>1 DEF TableInv, ScopeType
<1>6. /\ DOMAIN us.pkgNames = DOMAIN im.pkgNames
      /\ us.pkgNames[name] = TRUE
      /\ \A n \in DOMAIN im.pkgNames : im.pkgNames[n] = TRUE => us.pkgNames[n] = TRUE
  BY <1>2, <1>4
<1>7. us.pkgNames \in [DOMAIN us.pkgNames -> BOOLEAN]
  BY <1>4, <1>5
<1>8. TableInv(us)
  <2>1. ScopeType(us)
    BY <1>1, <1>4, <1>6, <1>7 DEF TableInv, ScopeType
  <2> QED BY <1>1, <1>4, <1>6, <1>7, <2>1 DEF TableInv
<1>9. ASSUME NEW ref, RefInv(sc, ref)
      PROVE  RefInv(us, ref)
  <2>1. ref[2] \in DOMAIN sc.pkgPaths /\ sc.pkgPaths[ref[2]] = ref[1] /\ sc.pkgNames[ref[1]] = TRUE
    BY <1>9 DEF RefInv
  <2>2. ref[2] \in DOMAIN im.pkgPaths /\ im.pkgPaths[ref[2]] = ref[1] /\ im.pkgNames[ref[1]] = TRUE
    BY <2>1, ImportPkgProperties DEF im
  <2>3. ref[1] \in DOMAIN im.pkgNames
    BY <1>1, <2>2 DEF TableInv, ScopeType
  <2> QED BY <1>4, <1>6, <2>2, <2>3 DEF RefInv
<1> QED
  BY <1>1, <1>2, <1>4, <1>6, <1>7, <1>8, <1>9 DEF us

-----------------------------------------------------------------------------
LEMMA EmptyScopeInv == TableInv(NewScope)
<1>1. DOMAIN NewScope.pkgPaths = {} /\ DOMAIN NewScope.pkgNames = {}
  BY DEF NewScope, EmptyMap
<1>2. ScopeType(NewScope)
  BY DEF NewScope, EmptyMap, ScopeType
<1> QED
  BY <1>1, <1>2, FS_EmptySet DEF TableInv

LEMMA InitIInv == Init => IInv
<1> SUFFICES ASSUME Init PROVE IInv
  OBVIOUS
<1>1. DOMAIN scopes = {""} /\ scopes[""] = NewScope /\ currScope = ""
  BY DEF Init
<1>2. \A s \in DOMAIN scopes : TableInv(scopes[s])
  BY <1>1, EmptyScopeInv
<1>3. TypeOK
  BY <1>1, <1>2 DEF Init, TypeOK, TableInv, AllScopes
<1>4. PrintedInv
  BY DEF Init, PrintedInv
<1> QED
  BY <1>2, <1>3, <1>4 DEF IInv

\* Switching creates at most one table, an empty one, and nothing was printed
\* into a file that had none.
LEMMA SwitchScopeStep ==
  ASSUME IInv, NEW s \in ScopeNames, SwitchScope(s)
  PROVE  IInv'
<1>1. /\ DOMAIN scopes' = DOMAIN scopes \union {s}
      /\ \A t \in DOMAIN scopes : scopes'[t] = scopes[t]
      /\ s \notin DOMAIN scopes => scopes'[s] = NewScope
      /\ currScope' = s /\ printed' = printed
  BY DEF SwitchScope, Put
<1>2. \A t \in DOMAIN scopes' : TableInv(scopes'[t])
  BY <1>1, EmptyScopeInv DEF IInv
<1>3. TypeOK'
  BY <1>1, <1>2 DEF IInv, TypeOK, TableInv, AllScopes
<1>4. PrintedInv'
  BY <1>1 DEF IInv, PrintedInv
<1> QED
  BY <1>2, <1>3, <1>4 DEF IInv

\* Printing a package touches the current table only, and keeps whatever a
\* reference needs.
LEMMA PrintPkgStep ==
  ASSUME IInv, NEW p \in PkgPaths, PrintPkg(p)
  PROVE  IInv'
<1> DEFINE c   == scopes[currScope]
           us  == UsePkg(c, p)
           new == <<us.pkgPaths[p], p>>
<1>1. currScope \in DOMAIN scopes /\ currScope \in AllScopes /\ TableInv(c)
  BY DEF IInv, TypeOK
<1>2. /\ DOMAIN scopes' = DOMAIN scopes
      /\ scopes'[currScope] = us
      /\ \A t \in DOMAIN scopes : t # currScope => scopes'[t] = scopes[t]
      /\ currScope' = currScope
      /\ printed' = [printed EXCEPT ![currScope] = @ \union {new}]
  BY <1>1 DEF PrintPkg
<1>3. /\ TableInv(us)
      /\ p \in DOMAIN us.pkgPaths /\ us.pkgPaths[p] \in Names
      /\ us.pkgNames[us.pkgPaths[p]] = TRUE
      /\ \A ref : RefInv(c, ref) => RefInv(us, ref)
  BY <1>1, UsePkgProperties
<1>4. RefInv(us, new) /\ new \in Names \X PkgPaths
  BY <1>3 DEF RefInv
<1> HIDE DEF us, new
<1>5. \A t \in DOMAIN scopes' : TableInv(scopes'[t])
  BY <1>2, <1>3 DEF IInv
<1>6. printed' \in [AllScopes -> SUBSET (Names \X PkgPaths)]
  BY <1>1, <1>2, <1>4 DEF IInv, TypeOK
<1>7. TypeOK'
  BY <1>1, <1>2, <1>5, <1>6 DEF IInv, TypeOK, TableInv
<1>8. PrintedInv'
  <2>1. ASSUME NEW t \in AllScopes, NEW ref \in printed'[t]
        PROVE  t \in DOMAIN scopes' /\ RefInv(scopes'[t], ref)
    <3>1. CASE t = currScope /\ ref = new
      BY <1>1, <1>2, <1>4, <3>1
    <3>2. CASE ~ (t = currScope /\ ref = new)
      <4>1. ref \in printed[t]
        BY <1>1, <1>2, <2>1, <3>2 DEF IInv, TypeOK
      <4> QED BY <1>2, <1>3, <4>1 DEF IInv, PrintedInv
    <3> QED BY <3>1, <3>2
  <2> QED BY <2>1 DEF PrintedInv
<1> QED
  BY <1>5, <1>7, <1>8 DEF IInv

\* IInv is an inductive invariant of the import tables.
THEOREM Inductive == Spec => []IInv
<1>1. IInv /\ [Next]_vars => IInv'
  <2> SUFFICES ASSUME IInv, [Next]_vars PROVE IInv'
    OBVIOUS
  <2>1. CASE \E s \in ScopeNames : SwitchScope(s)
    BY <2>1, SwitchScopeStep
  <2>2. CASE \E p \in PkgPaths : PrintPkg(p)
    BY <2>2, PrintPkgStep
  <2>3. CASE UNCHANGED vars
    BY <2>3 DEF vars, IInv, TypeOK, TableInv, ScopeType, PrintedInv, RefInv
  <2> QED BY <2>1, <2>2, <2>3 DEF Next
<1> QED
  BY InitIInv, <1>1, PTL DEF Spec

\* Every table keeps its shape: paths and names in step (scope.go:11-67).
THEOREM TypeCorrect == Spec => []TypeOK
<1>1. IInv => TypeOK
  BY DEF IInv
<1> QED
  BY <1>1, Inductive, PTL

\* Whatever packages are imported into however many files, in whatever order,
\* no two of a file share a name (the loop at scope.go:53-60).
THEOREM UniqueNames == Spec => []NamesUnique
<1>1. IInv => NamesUnique
  BY DEF IInv, TableInv, NamesUnique
<1> QED
  BY <1>1, Inductive, PTL

LEMMA RealNames ==
  /\ \A name \in Names : name # Omitted /\ name # Blank
  /\ Blank # Omitted
<1>1. Blank.stem = "_" /\ Omitted.stem = ""
  BY DEF Blank, Omitted
<1>2. \A name \in Names : name.stem \in Stems
  BY DEF Names
<1> QED
  BY <1>1, <1>2, ScopesAssumption

\* The name a line lets the file use is the name the table holds, or the blank
\* one for a package that is not marked as used.
LEMMA LineName ==
  ASSUME NEW sc, TableInv(sc), NEW p \in DOMAIN sc.pkgPaths
  PROVE  LocalName(<<p, ListedName(sc, p)>>) =
           IF sc.pkgNames[sc.pkgPaths[p]] = TRUE THEN sc.pkgPaths[p] ELSE Blank
<1> DEFINE name == sc.pkgPaths[p]
<1>1. name \in Names /\ name \in DOMAIN sc.pkgNames /\ sc.pkgNames[name] \in BOOLEAN
  BY DEF TableInv, ScopeType
<1>2. name # Omitted /\ Blank # Omitted
  BY <1>1, RealNames
<1> QED
  BY <1>1, <1>2 DEF LocalName, ListedName

\* In every file, at every moment, the import block makes each reference
\* printed so far mean the package it was printed for (scope.go:70-103).
THEOREM ReferencesResolve == Spec => []ImportsResolve
<1>1. IInv => ImportsResolve
  <2> SUFFICES ASSUME IInv, NEW s \in AllScopes, NEW ref \in printed[s]
               PROVE  /\ s \in DOMAIN scopes
                      /\ \E line \in ListPkg(scopes[s]) : line[1] = ref[2]
                      /\ \A p \in DOMAIN scopes[s].pkgPaths :
                           LocalName(<<p, ListedName(scopes[s], p)>>) = ref[1] <=> p = ref[2]
    BY DEF ImportsResolve, ListPkg
  <2> DEFINE sc == scopes[s]
  <2>1. s \in DOMAIN scopes /\ TableInv(sc) /\ RefInv(sc, ref)
    BY DEF IInv, PrintedInv
  <2>2. ref[1] # Blank
    <3>1. ref[1] \in Names
      BY <2>1 DEF RefInv, TableInv, ScopeType
    <3> QED BY <3>1, RealNames
  <2>3. \E line \in ListPkg(sc) : line[1] = ref[2]
    <3> DEFINE line == <<ref[2], ListedName(sc, ref[2])>>
    <3>1. line \in ListPkg(sc)
      BY <2>1 DEF RefInv, ListPkg
    <3> QED BY <3>1
  <2> HIDE DEF sc
  <2>4. ASSUME NEW p \in DOMAIN sc.pkgPaths
        PROVE  LocalName(<<p, ListedName(sc, p)>>) = ref[1] <=> p = ref[2]
    <3>1. CASE sc.pkgNames[sc.pkgPaths[p]] = TRUE
      BY <2>1, <3>1, LineName DEF RefInv, TableInv
    <3>2. CASE sc.pkgNames[sc.pkgPaths[p]] # TRUE
      BY <2>1, <2>2, <3>2, LineName DEF RefInv
    <3> QED BY <3>1, <3>2
  <2> QED BY <2>1, <2>3, <2>4 DEF sc
<1> QED
  BY <1>1, Inductive, PTL

-----------------------------------------------------------------------------
(* Every package in a table is marked as used and has been printed.        *)

UsedIn(sc, refs) ==
  \A q \in DOMAIN sc.pkgPaths :
    sc.pkgNames[sc.pkgPaths[q]] = TRUE /\ \E ref \in refs : ref[2] = q

UsedInv == \A s \in DOMAIN scopes : UsedIn(scopes[s], printed[s])

\* Using a package adds no other.
LEMMA UsePkgAdds ==
  ASSUME NEW sc, TableInv(sc), NEW p \in PkgPaths
  PROVE  DOMAIN UsePkg(sc, p).pkgPaths = DOMAIN sc.pkgPaths \union {p}
<1> DEFINE im == ImportPkg(sc, p)
<1>1. DOMAIN im.pkgPaths = DOMAIN sc.pkgPaths \union {p}
  BY DEF ImportPkg, Put
<1>2. DOMAIN im = {"pkgPaths", "pkgNames"}
  BY ImportPkgProperties DEF TableInv, ScopeType
<1> HIDE DEF im
<1>3. [im EXCEPT !.pkgNames[im.pkgPaths[p]] = TRUE].pkgPaths = im.pkgPaths
  BY <1>2
<1> QED BY <1>1, <1>3 DEF UsePkg, im

\* Using a package leaves it marked, and the others as they were marked.
LEMMA UsePkgMarks ==
  ASSUME NEW sc, TableInv(sc), NEW p \in PkgPaths, NEW q \in DOMAIN UsePkg(sc, p).pkgPaths,
         q # p => q \in DOMAIN sc.pkgPaths /\ sc.pkgNames[sc.pkgPaths[q]] = TRUE
  PROVE  UsePkg(sc, p).pkgNames[UsePkg(sc, p).pkgPaths[q]] = TRUE
<1> DEFINE im == ImportPkg(sc, p)
           us == UsePkg(sc, p)
           name == im.pkgPaths[p]
<1>1. TableInv(im) /\ p \in DOMAIN im.pkgPaths
  BY ImportPkgProperties
<1>2. us = [im EXCEPT !.pkgNames[name] = TRUE] /\ DOMAIN im = {"pkgPaths", "pkgNames"}
  BY <1>1 DEF UsePkg, TableInv, ScopeType
<1>3. q # p => im.pkgNames[im.pkgPaths[q]] = TRUE
  BY ImportPkgProperties
<1> HIDE DEF im, us
<1>4. us.pkgPaths = im.pkgPaths /\ us.pkgNames = [im.pkgNames EXCEPT ![name] = TRUE]
  BY <1>2
<1>5. q \in DOMAIN im.pkgPaths /\ im.pkgPaths[q] \in DOMAIN im.pkgNames
  BY <1>1, <1>4 DEF TableInv, ScopeType, us
<1>6. us.pkgNames[us.pkgPaths[q]] = TRUE
  BY <1>3, <1>4, <1>5
<1> QED BY <1>6 DEF us

LEMMA UsedStep ==
  ASSUME IInv, UsedInv, [Next]_vars
  PROVE  UsedInv'
<1>1. currScope \in DOMAIN scopes /\ currScope \in AllScopes /\ printed \in [AllScopes -> SUBSET (Names \X PkgPaths)]
  BY DEF IInv, TypeOK
<1>2. ASSUME NEW s \in ScopeNames, SwitchScope(s)
      PROVE  UsedInv'
  <2>1. /\ DOMAIN scopes' = DOMAIN scopes \union {s}
        /\ \A t \in DOMAIN scopes : scopes'[t] = scopes[t]
        /\ s \notin DOMAIN scopes => scopes'[s] = NewScope
        /\ printed' = printed
    BY <1>2 DEF SwitchScope, Put
  <2>2. UsedIn(NewScope, printed[s])
    BY DEF UsedIn, NewScope, EmptyMap
  <2> QED BY <2>1, <2>2 DEF UsedInv
<1>3. ASSUME NEW p \in PkgPaths, PrintPkg(p)
      PROVE  UsedInv'
  <2> DEFINE c   == scopes[currScope]
             us  == UsePkg(c, p)
             new == <<us.pkgPaths[p], p>>
  <2>1. TableInv(c) /\ UsedIn(c, printed[currScope])
    BY <1>1 DEF IInv, UsedInv
  <2>2. /\ DOMAIN scopes' = DOMAIN scopes
        /\ scopes'[currScope] = us
        /\ \A t \in DOMAIN scopes : t # currScope => scopes'[t] = scopes[t]
        /\ printed' = [printed EXCEPT ![currScope] = @ \union {new}]
    BY <1>1, <1>3 DEF PrintPkg
  <2>3. printed'[currScope] = printed[currScope] \union {new}
    BY <1>1, <2>2
  <2>4. new[2] = p
    OBVIOUS
  <2>5. DOMAIN us.pkgPaths = DOMAIN c.pkgPaths \union {p}
    BY <2>1, UsePkgAdds
  <2> HIDE DEF c, new
  <2>6. UsedIn(us, printed'[currScope])
    <3>1. ASSUME NEW q \in DOMAIN us.pkgPaths
          PROVE  /\ us.pkgNames[us.pkgPaths[q]] = TRUE
                 /\ \E ref \in printed'[currScope] : ref[2] = q
      <4>1. /\ q = p \/ q \in DOMAIN c.pkgPaths
            /\ q \in DOMAIN c.pkgPaths =>
                 c.pkgNames[c.pkgPaths[q]] = TRUE /\ \E ref \in printed[currScope] : ref[2] = q
        BY <2>1, <2>5, <3>1 DEF UsedIn
      <4>2. us.pkgNames[us.pkgPaths[q]] = TRUE
        BY <2>1, <3>1, <4>1, UsePkgMarks
      <4> QED BY <2>3, <2>4, <4>1, <4>2
    <3> QED BY <3>1 DEF UsedIn
  <2>7. ASSUME NEW t \in DOMAIN scopes, t # currScope
        PROVE  UsedIn(scopes'[t], printed'[t])
    <3>1. printed'[t] = printed[t]
      BY <1>1, <2>2, <2>7 DEF IInv, TypeOK
    <3> QED BY <2>2, <2>7, <3>1 DEF UsedInv
  <2> HIDE DEF us
  <2> QED BY <2>2, <2>6, <2>7 DEF UsedInv
<1>4. CASE UNCHANGED vars
  BY <1>4 DEF vars, UsedInv
<1> QED BY <1>2, <1>3, <1>4 DEF Next

\* No file has a line for a package its text does not mention, neither under a
\* name nor as "_": a package gets into a table by the printing of its name and
\* is marked as used by it (scope.go:64, 77-78, 89, 183-188).
THEOREM NothingUnused == Spec => []NoUnusedImport
<1>1. Init => UsedInv
  <2>1. ASSUME Init
        PROVE  UsedInv
    <3>1. DOMAIN scopes = {""} /\ scopes[""] = NewScope
      BY <2>1 DEF Init
    <3>2. UsedIn(NewScope, printed[""])
      BY DEF UsedIn, NewScope, EmptyMap
    <3> QED BY <3>1, <3>2 DEF UsedInv
  <2> QED BY <2>1
<1>2. IInv /\ UsedInv => NoUnusedImport
  <2>1. ASSUME IInv, UsedInv, NEW s \in DOMAIN scopes, NEW p \in DOMAIN scopes[s].pkgPaths
        PROVE  /\ ListedName(scopes[s], p) # Blank
               /\ \E ref \in printed[s] : ref[2] = p
    <3>1. /\ scopes[s].pkgNames[scopes[s].pkgPaths[p]] = TRUE
          /\ \E ref \in printed[s] : ref[2] = p
      BY <2>1 DEF UsedInv, UsedIn
    <3>2. scopes[s].pkgPaths[p] \in Names
      BY <2>1 DEF IInv, TableInv, ScopeType
    <3> QED BY <3>1, <3>2, RealNames DEF ListedName
  <2> QED BY <2>1 DEF NoUnusedImport, ListPkg
<1> QED BY <1>1, <1>2, Inductive, UsedStep, PTL DEF Spec
=============================================================================
