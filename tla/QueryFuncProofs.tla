-------------------------- MODULE QueryFuncProofs ---------------------------
(* Proofs about the way of a SELECT statement: how SelectMeta reads and     *)
(* expands it, how ResultStruct groups its result fields, and what the      *)
(* function QueryFunc makes of it returns.                                  *)
EXTENDS QueryFunc, Inductions

\* Names that passed the checks of NewTableRefsMeta.
NamesPass(srcs) ==
  /\ \A i \in 1 .. Len(srcs) : Len(RefName(srcs[i])) \in TableParts
  /\ ~NamesClash(srcs)

\* Fields of statements: the user's, and those ExpandWildcard writes.
UserFields == UNION {ToSet(fs) : fs \in FieldLists}
AllFields  == UserFields \union UNION {ToSet(ColumnTexts(src)) : src \in AllSources}

PlainFields == {f \in AllFields : ~IsWild(f)}

Texts(srcs) == [i \in 1 .. Len(srcs) |-> ColumnTexts(srcs[i])]

\* Expanded, for table sources given.
SourcesOf(srcs, f) ==
  IF f.kind = "star" THEN srcs
  ELSE <<srcs[CHOOSE i \in Named(srcs, UniqueTableName(f.db, f.tbl)) : TRUE]>>

ExpandedOver(srcs, f) == IF ~IsWild(f) THEN <<f>> ELSE FlattenSeq(Texts(SourcesOf(srcs, f)))

AllExpanded(srcs, fs) == [k \in 1 .. Len(fs) |-> ExpandedOver(srcs, fs[k])]

\* The expanded fields up to where the scan is.
Passed(srcs, fs, n, star) ==
  FlattenSeq(First(AllExpanded(srcs, fs), n - 1)) \o FlattenSeq(First(Texts(srcs), star - 1))

\* What the map and the wildcards say of the expanded fields is so: a result field in
\* no wildcard is a field of the user's, one in a wildcard is the column of the table
\* source named at the offset that it has there.
Marks(srcs, fs, passed, wcs, map) ==
  \A i \in 1 .. Len(map) :
    \/ map[i] = 0 /\ (i <= Len(passed) => \E k \in 1 .. Len(fs) : passed[i] = fs[k] /\ ~IsWild(fs[k]))
    \/ /\ map[i] \in 1 .. Len(wcs)
       /\ i <= Len(passed)
       /\ \E s \in 1 .. Len(srcs) :
            /\ wcs[map[i]].refName = RefName(srcs[s])
            /\ i - wcs[map[i]].offset \in 1 .. Len(srcs[s].cols)
            /\ passed[i] = ColumnTexts(srcs[s])[i - wcs[map[i]].offset]

\* A qualified wildcard scanned is of a source with columns; one scanned is recorded.
WildsAdd(srcs, fs, n, wcs) ==
  \A k \in 1 .. n - 1 : IsWild(fs[k]) =>
    /\ wcs # <<>>
    /\ fs[k].kind = "wild" => Len(SourcesOf(srcs, fs[k])[1].cols) > 0

\* Each column of a wildcard's table source has its result field.
Fills(srcs, wc, map, w) ==
  /\ wc.offset \in Nat
  /\ \E s \in 1 .. Len(srcs) :
       /\ wc.refName = RefName(srcs[s])
       /\ \A c \in 1 .. Len(srcs[s].cols) :
            wc.offset + c \in 1 .. Len(map) /\ map[wc.offset + c] = w

Filled(srcs, wcs, map) == \A w \in 1 .. Len(wcs) : Fills(srcs, wcs[w], map, w)

\* The tree of the table sources after the first lo up to the hi-th.
Node(srcs, lo, hi, node) ==
  \/ lo = hi /\ node = Nil
  \/ lo < hi /\ node \in Spans(srcs)[hi - lo][lo + 1]
  \/ hi = lo + 1 /\ node = Join(srcs[hi], Nil)

\* The nodes to visit are trees of the table sources from the n-th on, one after the other.
Cuts(cut, srcs, nodes, n) ==
  /\ \A m \in 0 .. Len(nodes) : cut[m] \in 0 .. Len(srcs)
  /\ cut[0] = n /\ cut[Len(nodes)] = Len(srcs)
  /\ \A m \in 1 .. Len(nodes) : Node(srcs, cut[m - 1], cut[m], nodes[m])

Walk(srcs, nodes, n) ==
  /\ \E S : nodes \in Seq(S)
  /\ \E cut : Cuts(cut, srcs, nodes, n)

-----------------------------------------------------------------------------
Reading == phase \in {"fields", "expand", "done"}

TypeInv ==
  /\ phase \in Phases
  /\ listed \in Froms /\ from \in Trees(listed)
  /\ fields \in Seq(AllFields)
  /\ Len(executed) <= MaxResultFields
  /\ rfToWildcard \in Seq(0 .. Len(wildcards)) /\ Len(rfToWildcard) <= MaxResultFields
  /\ wildcards \in Seq(FL!Wildcard)
  /\ tableSources \in Seq(AllSources)
  /\ field \in 1 .. Len(fields) + 1
  /\ starAt \in 1 .. Len(tableSources) + 1
  /\ offset \in Nat

FreshInv ==
  /\ phase = "execute" => executed = <<>> /\ todo = <<>> /\ tableSources = <<>>
  /\ phase \in {"execute", "collect"} =>
       field = 1 /\ starAt = 1 /\ offset = 0 /\ wildcards = <<>> /\ rfToWildcard = <<>>

WalkInv ==
  phase = "collect" =>
    /\ tableSources = First(listed, Len(tableSources)) /\ Len(tableSources) <= Len(listed)
    /\ Walk(listed, todo, Len(tableSources))

RunInv ==
  /\ phase \in {"collect", "fields", "expand", "done"} =>
       Accepts(listed, fields) /\ executed = Executed(listed, fields)
  /\ Reading =>
       /\ tableSources = listed /\ NamesPass(listed)
       /\ Len(rfToWildcard) = Len(Compiled(listed, fields))

ScanInv ==
  Reading =>
    /\ starAt > 1 => field <= Len(fields) /\ fields[field].kind = "star" /\ wildcards # <<>>
    /\ offset = Len(Passed(listed, fields, field, starAt))
    /\ Marks(listed, fields, Passed(listed, fields, field, starAt), wildcards, rfToWildcard)
    /\ WildsAdd(listed, fields, field, wildcards)
    /\ Filled(listed, wildcards, rfToWildcard)

CountInv ==
  phase \in {"expand", "done"} =>
    field = Len(fields) + 1 /\ offset = Len(rfToWildcard) /\ Len(executed) = Len(rfToWildcard)

\* What is known of the original statement.
Known(srcs, o) ==
  /\ o.fields \in FieldLists
  /\ Accepts(srcs, o.fields) /\ o.executed = Executed(srcs, o.fields)
  /\ NamesPass(srcs)
  /\ Len(o.executed) = Len(o.rfToWildcard)
  /\ o.rfToWildcard \in Seq(0 .. Len(o.wildcards))
  /\ o.wildcards \in Seq(FL!Wildcard)
  /\ Len(o.rfToWildcard) = Len(Compiled(srcs, o.fields))
  /\ Len(o.rfToWildcard) = Len(FlattenSeq(AllExpanded(srcs, o.fields)))
  /\ Len(o.rfToWildcard) <= MaxResultFields
  /\ Marks(srcs, o.fields, FlattenSeq(AllExpanded(srcs, o.fields)), o.wildcards, o.rfToWildcard)
  /\ WildsAdd(srcs, o.fields, Len(o.fields) + 1, o.wildcards)
  /\ Filled(srcs, o.wildcards, o.rfToWildcard)

OriginInv ==
  /\ origin = NoOrigin => phase # "done" /\ fields \in FieldLists
  /\ origin # NoOrigin =>
       /\ phase # "expand"
       /\ Known(listed, origin)
       /\ \/ origin.wildcards = <<>> /\ phase = "done"
             /\ fields = origin.fields /\ executed = origin.executed
          \/ origin.wildcards # <<>> /\ wildcards = <<>>
             /\ fields = FlattenSeq(AllExpanded(listed, origin.fields))

IInv == TypeInv /\ FreshInv /\ WalkInv /\ RunInv /\ ScanInv /\ CountInv /\ OriginInv

-----------------------------------------------------------------------------
(* Table sources, fields and what they are expanded to.                    *)

LEMMA ToSetMember ==
  ASSUME NEW X, NEW s \in Seq(X), NEW i \in 1 .. Len(s)
  PROVE  s[i] \in ToSet(s)
BY DEF ToSet

LEMMA SourceFacts ==
  ASSUME NEW src \in AllSources
  PROVE  /\ src.kind \in {"table", "derived"}
         /\ Len(src.cols) \in Nat /\ src.cols \in Seq(ToSet(src.cols)) /\ src.cols # <<>>
         /\ RefName(src) # <<>> /\ \E S : RefName(src) \in Seq(S)
         /\ Len(RefName(src)) \in Nat \ {0}
<1>1. PICK f \in Froms : src \in ToSet(f)
  BY DEF AllSources
<1>2. PICK i \in 1 .. Len(f) : src = f[i]
  BY <1>1, SelectAssumption DEF ToSet
<1>3. IsSource(src)
  BY <1>2, SelectAssumption
<1>4. CASE src.as # <<>>
  <2>1. RefName(src) = src.as
    BY <1>4 DEF RefName
  <2> QED BY <1>3, <1>4, <2>1 DEF IsSource
<1>5. CASE src.as = <<>>
  <2>1. RefName(src) = <<src.db, src.name>> \/ RefName(src) = <<src.name>>
    BY <1>5 DEF RefName, UniqueTableName
  <2>2. ASSUME NEW d, NEW n
        PROVE  /\ <<d, n>> \in Seq({d, n}) /\ <<n>> \in Seq({n})
               /\ Len(<<d, n>>) = 2 /\ Len(<<n>>) = 1 /\ <<d, n>> # <<>> /\ <<n>> # <<>>
    OBVIOUS
  <2>3. /\ \E S : RefName(src) \in Seq(S)
        /\ RefName(src) # <<>> /\ Len(RefName(src)) \in {1, 2}
    BY <2>1, <2>2
  <2> QED BY <1>3, <2>3 DEF IsSource
<1> QED BY <1>4, <1>5

LEMMA ListedFacts ==
  ASSUME NEW srcs \in Froms
  PROVE  srcs \in Seq(AllSources)
<1>1. srcs \in Seq(ToSet(srcs)) /\ ToSet(srcs) \subseteq AllSources
  BY SelectAssumption DEF AllSources
<1> QED BY <1>1

LEMMA UserFieldFacts ==
  ASSUME NEW fs \in FieldLists
  PROVE  /\ fs \in Seq(UserFields) /\ fs # <<>>
         /\ \A k \in 1 .. Len(fs) : fs[k].kind \in {"star", "wild", "expr"}
<1>1. fs \in Seq(ToSet(fs)) /\ ToSet(fs) \subseteq UserFields
  BY SelectAssumption DEF UserFields, IsFieldList
<1> QED BY <1>1, SelectAssumption DEF IsFieldList

LEMMA UserFieldKinds ==
  ASSUME NEW f \in UserFields
  PROVE  f.kind \in {"star", "wild", "expr"}
<1>1. PICK fs \in FieldLists : f \in ToSet(fs)
  BY DEF UserFields
<1> QED BY <1>1, UserFieldFacts DEF ToSet

LEMMA ColumnTextsFacts ==
  ASSUME NEW src \in AllSources
  PROVE  /\ ColumnTexts(src) \in Seq(PlainFields) /\ Len(ColumnTexts(src)) = Len(src.cols)
         /\ \A c \in 1 .. Len(src.cols) :
              /\ ColumnTexts(src)[c] = Text(Append(RefName(src), src.cols[c]))
              /\ ColumnTexts(src)[c].kind = "text"
<1>1. Len(src.cols) \in Nat
  BY SourceFacts
<1>2. ColumnTexts(src) \in Seq({ColumnTexts(src)[c] : c \in 1 .. Len(src.cols)})
  BY <1>1 DEF ColumnTexts
<1>3. Len(ColumnTexts(src)) = Len(src.cols)
  BY <1>1 DEF ColumnTexts
<1>4. ASSUME NEW c \in 1 .. Len(src.cols)
      PROVE  ColumnTexts(src)[c] \in PlainFields
  <2>1. ColumnTexts(src)[c] \in ToSet(ColumnTexts(src))
    BY <1>3 DEF ToSet
  <2>2. ColumnTexts(src)[c].kind = "text"
    BY DEF ColumnTexts, Text
  <2> QED BY <2>1, <2>2 DEF AllFields, PlainFields, IsWild
<1>5. \A c \in 1 .. Len(src.cols) : /\ ColumnTexts(src)[c] = Text(Append(RefName(src), src.cols[c]))
                                    /\ ColumnTexts(src)[c].kind = "text"
  BY DEF ColumnTexts, Text
<1> QED BY <1>2, <1>3, <1>4, <1>5

LEMMA FieldKinds ==
  ASSUME NEW f \in AllFields
  PROVE  f.kind \in {"star", "wild", "expr", "text"}
<1>1. CASE f \in UserFields
  BY <1>1, UserFieldKinds
<1>2. CASE f \notin UserFields
  <2>1. PICK src \in AllSources : f \in ToSet(ColumnTexts(src))
    BY <1>2 DEF AllFields
  <2>2. PICK c \in 1 .. Len(ColumnTexts(src)) : f = ColumnTexts(src)[c]
    BY <2>1 DEF ToSet
  <2> QED BY <2>2, ColumnTextsFacts
<1> QED BY <1>1, <1>2

LEMMA TextsFacts ==
  ASSUME NEW srcs \in Seq(AllSources)
  PROVE  /\ Texts(srcs) \in Seq(Seq(PlainFields)) /\ Len(Texts(srcs)) = Len(srcs)
         /\ \A i \in 1 .. Len(srcs) : Texts(srcs)[i] = ColumnTexts(srcs[i])
<1>1. Len(srcs) \in Nat /\ \A i \in 1 .. Len(srcs) : srcs[i] \in AllSources
  OBVIOUS
<1>2. \A i \in 1 .. Len(srcs) : ColumnTexts(srcs[i]) \in Seq(PlainFields)
  BY <1>1, ColumnTextsFacts
<1> QED BY <1>1, <1>2 DEF Texts

\* The table source of a qualified wildcard: of those of its name, the one chosen.
LEMMA WildSource ==
  ASSUME NEW srcs \in Seq(AllSources), NEW f, f.kind = "wild",
         Named(srcs, UniqueTableName(f.db, f.tbl)) # {}
  PROVE  \E s \in Named(srcs, UniqueTableName(f.db, f.tbl)) :
           /\ s \in 1 .. Len(srcs) /\ RefName(srcs[s]) = UniqueTableName(f.db, f.tbl)
           /\ s = CHOOSE i \in Named(srcs, UniqueTableName(f.db, f.tbl)) : TRUE
           /\ SourcesOf(srcs, f) = <<srcs[s]>>
           /\ ExpandedOver(srcs, f) = ColumnTexts(srcs[s])
<1> DEFINE name == UniqueTableName(f.db, f.tbl)
           s == CHOOSE i \in Named(srcs, name) : TRUE
<1>1. s \in Named(srcs, name)
  OBVIOUS
<1>2. s \in 1 .. Len(srcs) /\ RefName(srcs[s]) = name
  BY <1>1 DEF Named
<1>3. SourcesOf(srcs, f) = <<srcs[s]>>
  BY DEF SourcesOf
<1> HIDE DEF s
<1>4. ExpandedOver(srcs, f) = FlattenSeq(Texts(<<srcs[s]>>))
  BY <1>3 DEF ExpandedOver, IsWild
<1>5. Texts(<<srcs[s]>>) = <<ColumnTexts(srcs[s])>>
  BY DEF Texts
<1>6. ColumnTexts(srcs[s]) \in Seq(PlainFields)
  BY <1>2, ColumnTextsFacts
<1>7. FlattenSeq(<<ColumnTexts(srcs[s])>>) = ColumnTexts(srcs[s])
  BY <1>6, FlattenOne
<1> QED BY <1>1, <1>2, <1>3, <1>4, <1>5, <1>7 DEF s

LEMMA StarExpanded ==
  ASSUME NEW srcs, NEW f, f.kind = "star"
  PROVE  ExpandedOver(srcs, f) = FlattenSeq(Texts(srcs)) /\ SourcesOf(srcs, f) = srcs
BY DEF ExpandedOver, SourcesOf, IsWild

LEMMA PlainExpanded ==
  ASSUME NEW srcs, NEW f, ~IsWild(f)
  PROVE  ExpandedOver(srcs, f) = <<f>>
BY DEF ExpandedOver

\* What the database accepts of wildcards.
LEMMA AcceptedWilds ==
  ASSUME NEW srcs, NEW fs, Accepts(srcs, fs), NEW k \in 1 .. Len(fs)
  PROVE  /\ fs[k].kind = "star" => srcs # <<>>
         /\ fs[k].kind = "wild" => Named(srcs, UniqueTableName(fs[k].db, fs[k].tbl)) # {}
BY DEF Accepts

LEMMA ExpandedType ==
  ASSUME NEW srcs \in Seq(AllSources), NEW f \in AllFields,
         f.kind = "wild" => Named(srcs, UniqueTableName(f.db, f.tbl)) # {}
  PROVE  ExpandedOver(srcs, f) \in Seq(PlainFields)
<1>1. CASE ~IsWild(f)
  <2>1. <<f>> \in Seq(PlainFields)
    BY <1>1 DEF PlainFields
  <2> QED BY <1>1, <2>1, PlainExpanded
<1>2. CASE f.kind = "star"
  BY <1>2, StarExpanded, TextsFacts, FlattenType
<1>3. CASE f.kind = "wild"
  <2>1. PICK s \in 1 .. Len(srcs) : ExpandedOver(srcs, f) = ColumnTexts(srcs[s])
    BY <1>3, WildSource
  <2> QED BY <2>1, ColumnTextsFacts
<1> QED BY <1>1, <1>2, <1>3 DEF IsWild

LEMMA AllExpandedType ==
  ASSUME NEW srcs \in Seq(AllSources), NEW fs \in Seq(AllFields), Accepts(srcs, fs)
  PROVE  /\ AllExpanded(srcs, fs) \in Seq(Seq(PlainFields)) /\ Len(AllExpanded(srcs, fs)) = Len(fs)
         /\ \A k \in 1 .. Len(fs) : AllExpanded(srcs, fs)[k] = ExpandedOver(srcs, fs[k])
<1>1. Len(fs) \in Nat /\ \A k \in 1 .. Len(fs) : fs[k] \in AllFields
  OBVIOUS
<1>2. \A k \in 1 .. Len(fs) : ExpandedOver(srcs, fs[k]) \in Seq(PlainFields)
  BY <1>1, AcceptedWilds, ExpandedType
<1> QED BY <1>1, <1>2 DEF AllExpanded

\* What was passed begins with nothing and grows by a plain field, by a qualified
\* wildcard's columns, and, for an unqualified one, by each table source's columns.
LEMMA PassedType ==
  ASSUME NEW srcs \in Seq(AllSources), NEW fs \in Seq(AllFields), Accepts(srcs, fs),
         NEW n \in 1 .. Len(fs) + 1, NEW star \in 1 .. Len(srcs) + 1
  PROVE  /\ Passed(srcs, fs, n, star) \in Seq(PlainFields)
         /\ FlattenSeq(First(AllExpanded(srcs, fs), n - 1)) \in Seq(PlainFields)
         /\ FlattenSeq(First(Texts(srcs), star - 1)) \in Seq(PlainFields)
<1>1. n - 1 \in 0 .. Len(AllExpanded(srcs, fs)) /\ star - 1 \in 0 .. Len(Texts(srcs))
  BY AllExpandedType, TextsFacts
<1>2. FlattenSeq(First(AllExpanded(srcs, fs), n - 1)) \in Seq(PlainFields)
  BY <1>1, AllExpandedType, FlattenFirstType
<1>3. FlattenSeq(First(Texts(srcs), star - 1)) \in Seq(PlainFields)
  BY <1>1, TextsFacts, FlattenFirstType
<1>4. ASSUME NEW s \in Seq(PlainFields), NEW t \in Seq(PlainFields)
      PROVE  s \o t \in Seq(PlainFields)
  OBVIOUS
<1> QED BY <1>2, <1>3, <1>4 DEF Passed

LEMMA PassedFields ==
  ASSUME NEW srcs \in Seq(AllSources), NEW fs \in Seq(AllFields), Accepts(srcs, fs),
         NEW n \in 1 .. Len(fs) + 1
  PROVE  /\ Passed(srcs, fs, n, 1) = FlattenSeq(First(AllExpanded(srcs, fs), n - 1))
         /\ Passed(srcs, fs, n, 1) \in Seq(PlainFields)
<1>1. 1 \in 1 .. Len(srcs) + 1 /\ 1 - 1 = 0
  OBVIOUS
<1>2. FlattenSeq(First(AllExpanded(srcs, fs), n - 1)) \in Seq(PlainFields)
  BY <1>1, PassedType
<1>3. FlattenSeq(First(Texts(srcs), 1 - 1)) = <<>>
  BY <1>1, FlattenFirstNone
<1>4. ASSUME NEW s \in Seq(PlainFields)
      PROVE  s \o <<>> = s
  OBVIOUS
<1> QED BY <1>2, <1>3, <1>4 DEF Passed

LEMMA PassedNone ==
  ASSUME NEW srcs \in Seq(AllSources), NEW fs \in Seq(AllFields), Accepts(srcs, fs)
  PROVE  Passed(srcs, fs, 1, 1) = <<>>
<1>1. 1 \in 1 .. Len(fs) + 1 /\ 1 - 1 = 0
  OBVIOUS
<1> QED BY <1>1, PassedFields, FlattenFirstNone

LEMMA PassedAll ==
  ASSUME NEW srcs \in Seq(AllSources), NEW fs \in Seq(AllFields), Accepts(srcs, fs)
  PROVE  Passed(srcs, fs, Len(fs) + 1, 1) = FlattenSeq(AllExpanded(srcs, fs))
<1>1. Len(fs) + 1 \in 1 .. Len(fs) + 1 /\ (Len(fs) + 1) - 1 = Len(fs)
  OBVIOUS
<1> QED BY <1>1, PassedFields, AllExpandedType, FirstAll

\* A field is passed.
LEMMA PassedField ==
  ASSUME NEW srcs \in Seq(AllSources), NEW fs \in Seq(AllFields), Accepts(srcs, fs),
         NEW n \in 1 .. Len(fs)
  PROVE  Passed(srcs, fs, n + 1, 1) = Passed(srcs, fs, n, 1) \o ExpandedOver(srcs, fs[n])
<1> DEFINE all == AllExpanded(srcs, fs)
<1>1. /\ n \in 1 .. Len(fs) + 1 /\ n + 1 \in 1 .. Len(fs) + 1
      /\ n - 1 \in Nat /\ (n - 1) + 1 = n /\ (n + 1) - 1 = n
  OBVIOUS
<1>2. all \in Seq(Seq(PlainFields)) /\ Len(all) = Len(fs) /\ all[n] = ExpandedOver(srcs, fs[n])
  BY AllExpandedType
<1>3. n - 1 < Len(all)
  BY <1>2
<1> HIDE DEF all
<1>4. FlattenSeq(First(all, (n - 1) + 1)) = FlattenSeq(First(all, n - 1)) \o all[(n - 1) + 1]
  BY <1>1, <1>2, <1>3, FlattenNext
<1>5. Passed(srcs, fs, n, 1) = FlattenSeq(First(all, n - 1))
  BY <1>1, PassedFields DEF all
<1>6. Passed(srcs, fs, n + 1, 1) = FlattenSeq(First(all, n))
  BY <1>1, PassedFields DEF all
<1> QED BY <1>1, <1>2, <1>4, <1>5, <1>6

\* A table source of an unqualified wildcard is.
LEMMA PassedSource ==
  ASSUME NEW srcs \in Seq(AllSources), NEW fs \in Seq(AllFields), Accepts(srcs, fs),
         NEW n \in 1 .. Len(fs) + 1, NEW star \in 1 .. Len(srcs)
  PROVE  Passed(srcs, fs, n, star + 1) = Passed(srcs, fs, n, star) \o ColumnTexts(srcs[star])
<1> DEFINE a == FlattenSeq(First(AllExpanded(srcs, fs), n - 1))
           b == FlattenSeq(First(Texts(srcs), star - 1))
           c == ColumnTexts(srcs[star])
<1>1. /\ star - 1 \in Nat /\ (star - 1) + 1 = star /\ (star + 1) - 1 = star
      /\ star \in 1 .. Len(srcs) + 1
  OBVIOUS
<1>2. Texts(srcs) \in Seq(Seq(PlainFields)) /\ star - 1 < Len(Texts(srcs)) /\ Texts(srcs)[star] = c
  BY TextsFacts
<1>3. FlattenSeq(First(Texts(srcs), (star - 1) + 1)) = b \o Texts(srcs)[(star - 1) + 1]
  BY <1>1, <1>2, FlattenNext
<1>4. Passed(srcs, fs, n, star) = a \o b /\ Passed(srcs, fs, n, star + 1) = a \o (b \o c)
  BY <1>1, <1>2, <1>3 DEF Passed
<1>5. a \in Seq(PlainFields) /\ b \in Seq(PlainFields) /\ c \in Seq(PlainFields)
  BY <1>1, PassedType, ColumnTextsFacts
<1>6. a \o (b \o c) = (a \o b) \o c
  <2> DEFINE S == PlainFields
  <2>1. a \in Seq(S) /\ b \in Seq(S) /\ c \in Seq(S)
    BY <1>5
  <2> HIDE DEF a, b, c, S
  <2> QED BY ONLY <2>1, ConcatAssoc
<1> HIDE DEF a, b, c
<1> QED BY <1>4, <1>6 DEF c

\* And then the wildcard as a whole.
LEMMA PassedStar ==
  ASSUME NEW srcs \in Seq(AllSources), NEW fs \in Seq(AllFields), Accepts(srcs, fs),
         NEW n \in 1 .. Len(fs), fs[n].kind = "star"
  PROVE  Passed(srcs, fs, n + 1, 1) = Passed(srcs, fs, n, Len(srcs) + 1)
<1>1. ExpandedOver(srcs, fs[n]) = FlattenSeq(Texts(srcs))
  BY StarExpanded
<1>2. n \in 1 .. Len(fs) + 1 /\ (Len(srcs) + 1) - 1 = Len(srcs) /\ Len(Texts(srcs)) = Len(srcs)
  BY TextsFacts
<1>3. Passed(srcs, fs, n, Len(srcs) + 1) = Passed(srcs, fs, n, 1) \o FlattenSeq(Texts(srcs))
  <2>1. First(Texts(srcs), Len(srcs)) = Texts(srcs)
    BY <1>2, TextsFacts, FirstAll
  <2>2. Passed(srcs, fs, n, 1) = FlattenSeq(First(AllExpanded(srcs, fs), n - 1))
    BY <1>2, PassedFields
  <2> QED BY <1>2, <2>1, <2>2 DEF Passed
<1> QED BY <1>1, <1>3, PassedField

-----------------------------------------------------------------------------
(* The result fields of a statement without wildcards.                     *)

FieldReads(srcs, f) == IF f.kind = "text" THEN TextReads(srcs, f.parts) ELSE <<>>

LEMMA PlainResults ==
  ASSUME NEW srcs, NEW fs \in Seq(AllFields), \A k \in 1 .. Len(fs) : ~IsWild(fs[k])
  PROVE  /\ Executed(srcs, fs) = [k \in 1 .. Len(fs) |-> FieldReads(srcs, fs[k])]
         /\ Compiled(srcs, fs) = [k \in 1 .. Len(fs) |-> FieldReads(srcs, fs[k])]
         /\ Len(Executed(srcs, fs)) = Len(fs) /\ Len(Compiled(srcs, fs)) = Len(fs)
<1> DEFINE reads == [k \in 1 .. Len(fs) |-> FieldReads(srcs, fs[k])]
           X == {reads[k] : k \in 1 .. Len(fs)}
           singles == [k \in 1 .. Len(reads) |-> <<reads[k]>>]
<1>1. Len(fs) \in Nat
  OBVIOUS
<1>2. reads \in Seq(X) /\ Len(reads) = Len(fs)
  BY <1>1
<1>3. FlattenSeq(singles) = reads
  <2> HIDE DEF reads, X
  <2> QED BY <1>2, FlattenSingles
<1>4. Executed(srcs, fs) = FlattenSeq(singles)
  <2>1. ASSUME NEW k \in 1 .. Len(fs)
        PROVE  ExpandsTo(srcs, fs[k], LAMBDA i : Takes(srcs, fs[k], i)) = <<reads[k]>>
    BY DEF ExpandsTo, FieldReads, IsWild
  <2>2. [k \in 1 .. Len(fs) |-> ExpandsTo(srcs, fs[k], LAMBDA i : Takes(srcs, fs[k], i))] = singles
    BY <1>2, <2>1
  <2> QED BY <2>2 DEF Executed
<1>5. Compiled(srcs, fs) = FlattenSeq(singles)
  <2> DEFINE E(k) == ExpandsTo(srcs, fs[k],
                       LAMBDA i : \/ fs[k].kind = "star"
                                  \/ i \in Named(srcs, UniqueTableName(fs[k].db, fs[k].tbl)))
  <2>1. ASSUME NEW k \in 1 .. Len(fs)
        PROVE  E(k) = <<reads[k]>>
    BY DEF ExpandsTo, FieldReads, IsWild
  <2>2. [k \in 1 .. Len(fs) |-> E(k)] = singles
    BY <1>2, <2>1
  <2> QED BY <2>2 DEF Compiled
<1> QED BY <1>2, <1>3, <1>4, <1>5

-----------------------------------------------------------------------------
(* The walk over the FROM tree.                                            *)

SpansBody(srcs, spans) ==
  [n \in 1 .. Len(srcs) |->
    [i \in 1 .. Len(srcs) + 1 - n |->
       IF n = 1 THEN {srcs[i]}
       ELSE UNION {{Join(l, r) : l \in spans[m][i], r \in spans[n - m][i + m]} :
                     m \in 1 .. n - 1}]]

\* The trees over n table sources, by those over fewer.
JoinsAt(spans, n, i, m) == {Join(l, r) : l \in spans[m][i], r \in spans[n - m][i + m]}

SpansAt(srcs, spans, n, i) ==
  IF n = 1 THEN {srcs[i]} ELSE UNION {JoinsAt(spans, n, i, m) : m \in 1 .. n - 1}

SpansRow(srcs, spans, n) == [i \in 1 .. Len(srcs) + 1 - n |-> SpansAt(srcs, spans, n, i)]

LEMMA SpansExist ==
  ASSUME NEW srcs, Len(srcs) \in Nat
  PROVE  \E f : f = SpansBody(srcs, f)
<1> DEFINE L == Len(srcs)
           Good == {k \in Nat : k <= L => \E f : f = [n \in 1 .. k |-> SpansRow(srcs, f, n)]}
<1>1. 0 \in Good
  <2> DEFINE g == [n \in 1 .. 0 |-> {}]
  <2>1. g = [n \in 1 .. 0 |-> SpansRow(srcs, g, n)]
    OBVIOUS
  <2> QED BY <2>1
<1>2. ASSUME NEW k \in Nat, k \in Good
      PROVE  k + 1 \in Good
  <2> SUFFICES ASSUME k + 1 <= L
               PROVE  \E f : f = [n \in 1 .. k + 1 |-> SpansRow(srcs, f, n)]
    OBVIOUS
  <2>1. PICK f : f = [n \in 1 .. k |-> SpansRow(srcs, f, n)]
    BY <1>2
  <2> DEFINE g == [n \in 1 .. k + 1 |-> IF n <= k THEN f[n] ELSE SpansRow(srcs, f, k + 1)]
  <2>2. \A n \in 1 .. k : g[n] = f[n]
    BY <1>2
  <2> HIDE DEF g
  <2>3. ASSUME NEW n \in 1 .. k + 1
        PROVE  SpansRow(srcs, g, n) = SpansRow(srcs, f, n)
    <3>1. ASSUME NEW m \in 1 .. n - 1
          PROVE  g[m] = f[m] /\ g[n - m] = f[n - m]
      <4>1. m \in 1 .. k /\ n - m \in 1 .. k
        BY <1>2
      <4> QED BY <2>2, <4>1
    <3>2. ASSUME NEW i, NEW m \in 1 .. n - 1
          PROVE  JoinsAt(g, n, i, m) = JoinsAt(f, n, i, m)
      BY <3>1 DEF JoinsAt
    <3>3. ASSUME NEW i
          PROVE  SpansAt(srcs, g, n, i) = SpansAt(srcs, f, n, i)
      BY <3>2 DEF SpansAt
    <3> QED BY <3>3 DEF SpansRow
  <2>4. ASSUME NEW n \in 1 .. k + 1
        PROVE  g[n] = SpansRow(srcs, g, n)
    <3>1. CASE n <= k
      <4>1. n \in 1 .. k
        BY <3>1
      <4> QED BY <2>1, <2>2, <2>3, <4>1
    <3>2. CASE ~(n <= k)
      <4>1. n = k + 1
        BY <3>2
      <4>2. g[k + 1] = SpansRow(srcs, f, k + 1)
        BY <1>2 DEF g
      <4> QED BY <2>3, <4>1, <4>2
    <3> QED BY <3>1, <3>2
  <2>5. g = [n \in 1 .. k + 1 |-> SpansRow(srcs, g, n)]
    <3>1. g = [n \in 1 .. k + 1 |-> g[n]]
      BY DEF g
    <3> QED BY <2>4, <3>1
  <2> QED BY <2>5
<1>3. L \in Good
  <2> HIDE DEF Good
  <2> QED BY <1>1, <1>2, NatInSet
<1> QED BY <1>3 DEF SpansBody, SpansRow, SpansAt, JoinsAt

LEMMA SpansUnfold ==
  ASSUME NEW srcs, Len(srcs) \in Nat
  PROVE  Spans(srcs) = SpansBody(srcs, Spans(srcs))
<1> DEFINE c == CHOOSE f : f = SpansBody(srcs, f)
<1>1. c = SpansBody(srcs, c)
  BY SpansExist
<1>2. Spans(srcs) = c
  BY DEF Spans, SpansBody
<1> QED BY <1>1, <1>2

LEMMA SpansOne ==
  ASSUME NEW srcs, Len(srcs) \in Nat, NEW i \in 1 .. Len(srcs)
  PROVE  Spans(srcs)[1][i] = {srcs[i]}
<1>1. 1 \in 1 .. Len(srcs) /\ i \in 1 .. Len(srcs) + 1 - 1
  OBVIOUS
<1>2. SpansBody(srcs, Spans(srcs))[1][i] = {srcs[i]}
  BY <1>1 DEF SpansBody
<1> QED BY <1>2, SpansUnfold

Joined(srcs, n, i, node) ==
  \E m \in 1 .. n - 1 : \E l \in Spans(srcs)[m][i] : \E r \in Spans(srcs)[n - m][i + m] :
    node = Join(l, r)

LEMMA SpansMore ==
  ASSUME NEW srcs, Len(srcs) \in Nat, NEW n \in 2 .. Len(srcs), NEW i \in 1 .. Len(srcs) + 1 - n,
         NEW node, node \in Spans(srcs)[n][i]
  PROVE  Joined(srcs, n, i, node)
<1>1. n \in 1 .. Len(srcs) /\ n # 1
  OBVIOUS
<1>2. SpansBody(srcs, Spans(srcs))[n][i] =
        UNION {{Join(l, r) : l \in Spans(srcs)[m][i], r \in Spans(srcs)[n - m][i + m]} :
                 m \in 1 .. n - 1}
  BY <1>1 DEF SpansBody
<1> QED BY <1>2, SpansUnfold DEF Joined

\* A node is nothing, a table source, or two nodes side by side.
LEMMA NodeCases ==
  ASSUME NEW srcs \in Seq(AllSources), NEW lo \in 0 .. Len(srcs), NEW hi \in 0 .. Len(srcs),
         NEW node, Node(srcs, lo, hi, node)
  PROVE  \/ node = Nil /\ hi = lo
         \/ node \in AllSources /\ hi = lo + 1 /\ node = srcs[hi]
         \/ /\ \E l, r : node = Join(l, r)
            /\ \E mid \in 0 .. Len(srcs) : Node(srcs, lo, mid, node.left) /\ Node(srcs, mid, hi, node.right)
<1>0. Len(srcs) \in Nat /\ lo \in Nat /\ hi \in Nat
  OBVIOUS
<1>1. CASE lo = hi /\ node = Nil
  BY <1>1
<1>2. CASE lo < hi /\ node \in Spans(srcs)[hi - lo][lo + 1]
  <2>1. CASE hi = lo + 1
    <3>1. node \in Spans(srcs)[1][lo + 1] /\ lo + 1 \in 1 .. Len(srcs)
      BY <1>2, <2>1
    <3>2. node = srcs[lo + 1]
      BY <1>0, <3>1, SpansOne
    <3> QED BY <2>1, <3>1, <3>2
  <2>2. CASE hi # lo + 1
    <3> DEFINE n == hi - lo
               i == lo + 1
    <3>1. n \in 2 .. Len(srcs) /\ i \in 1 .. Len(srcs) + 1 - n /\ node \in Spans(srcs)[n][i]
      BY <1>0, <1>2, <2>2
    <3> HIDE DEF n, i
    <3>a. Joined(srcs, n, i, node)
      BY <1>0, <3>1, SpansMore
    <3>2. PICK m \in 1 .. n - 1 : \E l \in Spans(srcs)[m][i] : \E r \in Spans(srcs)[n - m][i + m] :
            node = Join(l, r)
      BY <3>a, Zenon DEF Joined
    <3>b. PICK l \in Spans(srcs)[m][i], r \in Spans(srcs)[n - m][i + m] : node = Join(l, r)
      BY <3>2
    <3> USE DEF n, i
    <3>3. /\ lo + m \in 0 .. Len(srcs) /\ lo < lo + m /\ lo + m < hi
          /\ (lo + m) - lo = m /\ hi - (lo + m) = n - m /\ (lo + m) + 1 = i + m
      BY <1>0, <3>2
    <3>4. Node(srcs, lo, lo + m, l) /\ Node(srcs, lo + m, hi, r)
      BY <3>b, <3>3 DEF Node
    <3>5. node.left = l /\ node.right = r
      BY <3>b DEF Join
    <3> QED BY <3>b, <3>3, <3>4, <3>5
  <2> QED BY <2>1, <2>2
<1>3. CASE hi = lo + 1 /\ node = Join(srcs[hi], Nil)
  <2>1. node.left = srcs[hi] /\ node.right = Nil
    BY <1>3 DEF Join
  <2>2. srcs[hi] \in Spans(srcs)[1][hi] /\ hi - lo = 1 /\ lo + 1 = hi /\ lo < hi
    <3>1. hi \in 1 .. Len(srcs)
      BY <1>0, <1>3
    <3> QED BY <1>0, <1>3, <3>1, SpansOne
  <2>3. Node(srcs, lo, hi, srcs[hi]) /\ Node(srcs, hi, hi, Nil)
    BY <2>2 DEF Node
  <2> QED BY <1>3, <2>1, <2>3
<1> QED BY <1>1, <1>2, <1>3 DEF Node

LEMMA WalkStart ==
  ASSUME NEW srcs \in Seq(AllSources), NEW tree \in Trees(srcs)
  PROVE  Walk(srcs, <<tree>>, 0)
<1>0. Len(srcs) \in Nat
  OBVIOUS
<1>1. Node(srcs, 0, Len(srcs), tree)
  <2>1. CASE Len(srcs) = 0
    BY <2>1 DEF Trees, Node
  <2>2. CASE Len(srcs) = 1
    BY <2>2 DEF Trees, Node
  <2>3. CASE Len(srcs) # 0 /\ Len(srcs) # 1
    <3>1. tree \in Spans(srcs)[Len(srcs)][1]
      BY <2>3, Zenon DEF Trees
    <3>2. Len(srcs) - 0 = Len(srcs) /\ 0 + 1 = 1 /\ 0 < Len(srcs)
      BY <1>0, <2>3
    <3> QED BY <3>1, <3>2 DEF Node
  <2> QED BY <1>0, <2>1, <2>2, <2>3
<1> DEFINE cut == [m \in 0 .. 1 |-> IF m = 0 THEN 0 ELSE Len(srcs)]
<1>2. Len(<<tree>>) = 1 /\ <<tree>>[1] = tree /\ <<tree>> \in Seq({tree})
  OBVIOUS
<1>3. cut[0] = 0 /\ cut[1] = Len(srcs)
  OBVIOUS
<1> HIDE DEF cut
<1>4. Cuts(cut, srcs, <<tree>>, 0)
  <2>1. ASSUME NEW m \in 0 .. 1
        PROVE  cut[m] \in 0 .. Len(srcs)
    <3>1. m = 0 \/ m = 1
      OBVIOUS
    <3> QED BY <1>0, <1>3, <3>1
  <2>2. ASSUME NEW m \in 1 .. 1
        PROVE  Node(srcs, cut[m - 1], cut[m], <<tree>>[m])
    <3>1. m = 1 /\ m - 1 = 0
      OBVIOUS
    <3> QED BY <1>1, <1>2, <1>3, <3>1
  <2> QED BY <1>2, <1>3, <2>1, <2>2 DEF Cuts
<1> QED BY <1>2, <1>4 DEF Walk

\* The next node, and the others.
LEMMA WalkHead ==
  ASSUME NEW srcs \in Seq(AllSources), NEW nodes, NEW n, Walk(srcs, nodes, n), nodes # <<>>
  PROVE  /\ n \in 0 .. Len(srcs)
         /\ \E hi \in 0 .. Len(srcs) :
              Node(srcs, n, hi, Head(nodes)) /\ Walk(srcs, Tail(nodes), hi)
<1>1. PICK S : nodes \in Seq(S)
  BY DEF Walk
<1>2. PICK cut : Cuts(cut, srcs, nodes, n)
  BY DEF Walk
<1> DEFINE L == Len(nodes)
           rest == [m \in 0 .. L - 1 |-> cut[m + 1]]
<1>3. /\ L \in Nat /\ L > 0 /\ Head(nodes) = nodes[1]
      /\ Tail(nodes) \in Seq(S) /\ Len(Tail(nodes)) = L - 1
      /\ \A m \in 1 .. L - 1 : Tail(nodes)[m] = nodes[m + 1]
  BY <1>1
<1>4. 0 \in 0 .. L /\ 1 \in 0 .. L /\ 1 \in 1 .. L /\ 1 - 1 = 0
  BY <1>3
<1>5. cut[0] = n /\ cut[0] \in 0 .. Len(srcs) /\ cut[1] \in 0 .. Len(srcs)
  BY <1>2, <1>4 DEF Cuts
<1>6. Node(srcs, n, cut[1], Head(nodes))
  <2>1. Node(srcs, cut[1 - 1], cut[1], nodes[1])
    BY <1>2, <1>4 DEF Cuts
  <2> QED BY <1>3, <1>4, <1>5, <2>1
<1>7. Cuts(rest, srcs, Tail(nodes), cut[1])
  <2>1. ASSUME NEW m \in 0 .. L - 1
        PROVE  rest[m] \in 0 .. Len(srcs)
    <3>1. m + 1 \in 0 .. L
      BY <1>3
    <3> QED BY <1>2, <3>1 DEF Cuts
  <2>2. rest[0] = cut[1] /\ rest[L - 1] = Len(srcs)
    <3>1. 0 \in 0 .. L - 1 /\ L - 1 \in 0 .. L - 1 /\ (L - 1) + 1 = L /\ 0 + 1 = 1
      BY <1>3
    <3> QED BY <1>2, <3>1 DEF Cuts
  <2>3. ASSUME NEW m \in 1 .. L - 1
        PROVE  Node(srcs, rest[m - 1], rest[m], Tail(nodes)[m])
    <3>1. m + 1 \in 1 .. L /\ (m + 1) - 1 = m /\ (m - 1) + 1 = m /\ m - 1 \in 0 .. L - 1 /\ m \in 0 .. L - 1
      BY <1>3
    <3>2. Node(srcs, cut[(m + 1) - 1], cut[m + 1], nodes[m + 1])
      BY <1>2, <3>1 DEF Cuts
    <3>3. rest[m - 1] = cut[m] /\ rest[m] = cut[m + 1]
      BY <3>1
    <3> QED BY <1>3, <3>1, <3>2, <3>3
  <2> HIDE DEF rest
  <2> QED BY <1>3, <2>1, <2>2, <2>3 DEF Cuts
<1>8. Walk(srcs, Tail(nodes), cut[1])
  BY <1>3, <1>7 DEF Walk
<1> QED BY <1>5, <1>6, <1>8

\* A node is put before the others.
LEMMA WalkPut ==
  ASSUME NEW srcs \in Seq(AllSources), NEW nodes, NEW n \in 0 .. Len(srcs), NEW mid,
         Walk(srcs, nodes, mid), NEW node, Node(srcs, n, mid, node)
  PROVE  Walk(srcs, <<node>> \o nodes, n)
<1>1. PICK S : nodes \in Seq(S)
  BY DEF Walk
<1>2. PICK cut : Cuts(cut, srcs, nodes, mid)
  BY DEF Walk
<1> DEFINE L == Len(nodes)
           T == S \union {node}
           more == <<node>> \o nodes
           new == [m \in 0 .. L + 1 |-> IF m = 0 THEN n ELSE cut[m - 1]]
<1>3. /\ L \in Nat /\ more \in Seq(T) /\ Len(more) = L + 1 /\ more[1] = node
      /\ \A m \in 2 .. L + 1 : more[m] = nodes[m - 1]
  <2>1. nodes \in Seq(T) /\ <<node>> \in Seq(T)
    BY <1>1
  <2> QED BY <2>1
<1> HIDE DEF more
<1>4. Cuts(new, srcs, more, n)
  <2>1. ASSUME NEW m \in 0 .. L + 1
        PROVE  new[m] \in 0 .. Len(srcs)
    <3>1. m # 0 => m - 1 \in 0 .. L
      BY <1>3
    <3> QED BY <1>2, <3>1 DEF Cuts
  <2>2. new[0] = n /\ new[L + 1] = Len(srcs)
    <3>1. 0 \in 0 .. L + 1 /\ L + 1 \in 0 .. L + 1 /\ (L + 1) - 1 = L /\ L + 1 # 0
      BY <1>3
    <3> QED BY <1>2, <3>1 DEF Cuts
  <2>3. ASSUME NEW m \in 1 .. L + 1
        PROVE  Node(srcs, new[m - 1], new[m], more[m])
    <3>1. m - 1 \in 0 .. L + 1 /\ m \in 0 .. L + 1 /\ m # 0
      BY <1>3
    <3>2. CASE m = 1
      <4>1. new[m - 1] = n /\ new[m] = cut[0] /\ cut[0] = mid
        BY <1>2, <3>1, <3>2 DEF Cuts
      <4> QED BY <1>3, <3>2, <4>1
    <3>3. CASE m # 1
      <4>1. m - 1 \in 1 .. L /\ m - 1 # 0 /\ m \in 2 .. L + 1
        BY <1>3, <3>3
      <4>2. Node(srcs, cut[(m - 1) - 1], cut[m - 1], nodes[m - 1])
        BY <1>2, <4>1 DEF Cuts
      <4>3. new[m - 1] = cut[(m - 1) - 1] /\ new[m] = cut[m - 1]
        BY <3>1, <4>1
      <4> QED BY <1>3, <4>1, <4>2, <4>3
    <3> QED BY <3>2, <3>3
  <2> HIDE DEF new
  <2> QED BY <1>3, <2>1, <2>2, <2>3 DEF Cuts
<1> QED BY <1>3, <1>4 DEF Walk, more

LEMMA WalkEnd ==
  ASSUME NEW srcs, NEW n, Walk(srcs, <<>>, n)
  PROVE  n = Len(srcs)
<1>1. PICK cut : Cuts(cut, srcs, <<>>, n)
  BY DEF Walk
<1>2. Len(<<>>) = 0
  OBVIOUS
<1> QED BY <1>1, <1>2 DEF Cuts

-----------------------------------------------------------------------------
(* What the map says of the fields passed.                                 *)

\* The entry of one result field.
MarkFits(srcs, fs, passed, wcs, map, i) ==
  \/ map[i] = 0 /\ (i <= Len(passed) => \E k \in 1 .. Len(fs) : passed[i] = fs[k] /\ ~IsWild(fs[k]))
  \/ /\ map[i] \in 1 .. Len(wcs)
     /\ i <= Len(passed)
     /\ \E s \in 1 .. Len(srcs) :
          /\ wcs[map[i]].refName = RefName(srcs[s])
          /\ i - wcs[map[i]].offset \in 1 .. Len(srcs[s].cols)
          /\ passed[i] = ColumnTexts(srcs[s])[i - wcs[map[i]].offset]

LEMMA MarksPlain ==
  ASSUME NEW srcs, NEW fs, NEW passed \in Seq(PlainFields), NEW wcs, NEW map \in Seq(Nat),
         Marks(srcs, fs, passed, wcs, map),
         NEW k \in 1 .. Len(fs), fs[k] \in PlainFields
  PROVE  Marks(srcs, fs, passed \o <<fs[k]>>, wcs, map)
<1> DEFINE more == passed \o <<fs[k]>>
<1>1. /\ Len(more) = Len(passed) + 1 /\ Len(passed) \in Nat /\ more[Len(passed) + 1] = fs[k]
      /\ \A i \in 1 .. Len(passed) : more[i] = passed[i]
  OBVIOUS
<1>2. ~IsWild(fs[k])
  BY DEF PlainFields
<1>3. ASSUME NEW i \in 1 .. Len(map)
      PROVE  MarkFits(srcs, fs, more, wcs, map, i)
  <2>1. MarkFits(srcs, fs, passed, wcs, map, i)
    BY DEF Marks, MarkFits
  <2> HIDE DEF more
  <2>2. CASE i <= Len(passed)
    <3>1. i <= Len(more) /\ more[i] = passed[i]
      BY <1>1, <2>2
    <3> QED BY <2>1, <2>2, <3>1 DEF MarkFits
  <2>3. CASE ~(i <= Len(passed))
    <3>1. map[i] = 0
      BY <2>1, <2>3 DEF MarkFits
    <3>2. i <= Len(more) => i = Len(passed) + 1
      BY <1>1, <2>3
    <3> QED BY <1>1, <1>2, <3>1, <3>2 DEF MarkFits
  <2> QED BY <2>2, <2>3
<1> QED BY <1>3 DEF Marks, MarkFits

LEMMA ConcatFacts ==
  ASSUME NEW X, NEW s \in Seq(X), NEW t \in Seq(X)
  PROVE  /\ Len(s \o t) = Len(s) + Len(t) /\ Len(s) \in Nat
         /\ \A i \in 1 .. Len(s) : (s \o t)[i] = s[i]
         /\ \A i \in Len(s) + 1 .. Len(s) + Len(t) : (s \o t)[i] = t[i - Len(s)]
OBVIOUS

\* A range is marked with the wildcard appended.
LEMMA MarksWild ==
  ASSUME NEW srcs \in Seq(AllSources), NEW fs, NEW passed \in Seq(PlainFields),
         NEW X, NEW wcs \in Seq(X), NEW map \in Seq(Nat), Marks(srcs, fs, passed, wcs, map),
         NEW s \in 1 .. Len(srcs), NEW wc \in X,
         wc.refName = RefName(srcs[s]), wc.offset = Len(passed),
         NEW map2 \in Seq(Nat), Len(map2) = Len(map),
         \A i \in 1 .. Len(map) :
           map2[i] = IF i \in Len(passed) + 1 .. Len(passed) + Len(srcs[s].cols)
                     THEN Len(wcs) + 1 ELSE map[i]
  PROVE  Marks(srcs, fs, passed \o ColumnTexts(srcs[s]), Append(wcs, wc), map2)
<1> DEFINE cols == ColumnTexts(srcs[s])
           more == passed \o cols
           wcs2 == Append(wcs, wc)
           num  == Len(srcs[s].cols)
<1>1. cols \in Seq(PlainFields) /\ Len(cols) = num /\ num \in Nat
  BY ColumnTextsFacts, SourceFacts
<1>2. /\ Len(more) = Len(passed) + num /\ Len(passed) \in Nat
      /\ \A i \in 1 .. Len(passed) : more[i] = passed[i]
      /\ \A i \in Len(passed) + 1 .. Len(passed) + num : more[i] = cols[i - Len(passed)]
  <2>1. /\ Len(passed \o cols) = Len(passed) + Len(cols) /\ Len(passed) \in Nat
        /\ \A i \in 1 .. Len(passed) : (passed \o cols)[i] = passed[i]
        /\ \A i \in Len(passed) + 1 .. Len(passed) + Len(cols) :
             (passed \o cols)[i] = cols[i - Len(passed)]
    <3> HIDE DEF cols, num
    <3> QED BY <1>1, ConcatFacts, Zenon
  <2> HIDE DEF cols, num
  <2> QED BY <1>1, <2>1
<1>3. /\ Len(wcs) \in Nat /\ Len(wcs2) = Len(wcs) + 1 /\ wcs2[Len(wcs) + 1] = wc
      /\ \A w \in 1 .. Len(wcs) : wcs2[w] = wcs[w]
  OBVIOUS
<1> HIDE DEF cols, more, wcs2, num
<1>4. ASSUME NEW i \in 1 .. Len(map)
      PROVE  MarkFits(srcs, fs, more, wcs2, map2, i)
  <2>1. MarkFits(srcs, fs, passed, wcs, map, i)
    BY DEF Marks, MarkFits
  <2>2. CASE i \in Len(passed) + 1 .. Len(passed) + num
    <3>1. map2[i] = Len(wcs) + 1
      BY <2>2, Zenon DEF num
    <3>a. map2[i] \in 1 .. Len(wcs2) /\ wcs2[map2[i]] = wc
      BY <1>3, <3>1
    <3>2. i <= Len(more) /\ i - wc.offset \in 1 .. num /\ more[i] = cols[i - wc.offset]
      BY <1>1, <1>2, <2>2
    <3> QED BY <3>a, <3>2 DEF MarkFits, cols, num
  <2>3. CASE i \notin Len(passed) + 1 .. Len(passed) + num
    <3>1. map2[i] = map[i]
      BY <2>3 DEF num
    <3>2. CASE i <= Len(passed)
      <4>1. i <= Len(more) /\ more[i] = passed[i]
        BY <1>1, <1>2, <3>2
      <4>2. map[i] \in 1 .. Len(wcs) => map[i] \in 1 .. Len(wcs2) /\ wcs2[map[i]] = wcs[map[i]]
        BY <1>3
      <4> QED BY <2>1, <3>1, <3>2, <4>1, <4>2 DEF MarkFits
    <3>3. CASE ~(i <= Len(passed))
      <4>1. map[i] = 0 /\ ~(i <= Len(more))
        BY <1>1, <1>2, <2>1, <2>3, <3>3 DEF MarkFits
      <4> QED BY <3>1, <4>1 DEF MarkFits
    <3> QED BY <3>2, <3>3
  <2> QED BY <2>2, <2>3
<1> QED BY <1>4 DEF Marks, MarkFits, more, wcs2, cols

-----------------------------------------------------------------------------
(* The result fields of a statement, field by field.                       *)

\* The columns of some of the table sources.
Parts(srcs, S) == [i \in 1 .. Len(srcs) |-> IF i \in S THEN Columns(srcs, i) ELSE <<>>]

\* Those a wildcard takes when executed, and when compiled.
Taken(srcs, f) == {i \in 1 .. Len(srcs) : Takes(srcs, f, i)}
Meant(srcs, f) ==
  {i \in 1 .. Len(srcs) : f.kind = "star" \/ i \in Named(srcs, UniqueTableName(f.db, f.tbl))}

FieldResults(srcs, f, S) ==
  IF IsWild(f) THEN FlattenSeq(Parts(srcs, S)) ELSE <<FieldReads(srcs, f)>>

ExecutedBy(srcs, fs) == [k \in 1 .. Len(fs) |-> FieldResults(srcs, fs[k], Taken(srcs, fs[k]))]
CompiledBy(srcs, fs) == [k \in 1 .. Len(fs) |-> FieldResults(srcs, fs[k], Meant(srcs, fs[k]))]

LEMMA ExecutedAs ==
  ASSUME NEW srcs, NEW fs
  PROVE  Executed(srcs, fs) = FlattenSeq(ExecutedBy(srcs, fs))
<1>1. ASSUME NEW f
      PROVE  ExpandsTo(srcs, f, LAMBDA i : Takes(srcs, f, i)) = FieldResults(srcs, f, Taken(srcs, f))
  <2>1. [i \in 1 .. Len(srcs) |-> IF Takes(srcs, f, i) THEN Columns(srcs, i) ELSE <<>>]
          = Parts(srcs, Taken(srcs, f))
    BY DEF Parts, Taken
  <2> QED BY <2>1 DEF ExpandsTo, ColumnsOf, FieldResults, FieldReads, IsWild
<1> QED BY <1>1 DEF Executed, ExecutedBy

LEMMA CompiledAs ==
  ASSUME NEW srcs, NEW fs
  PROVE  Compiled(srcs, fs) = FlattenSeq(CompiledBy(srcs, fs))
<1>1. ASSUME NEW f
      PROVE  ExpandsTo(srcs, f, LAMBDA i : \/ f.kind = "star"
                                           \/ i \in Named(srcs, UniqueTableName(f.db, f.tbl)))
               = FieldResults(srcs, f, Meant(srcs, f))
  <2>1. [i \in 1 .. Len(srcs) |->
           IF f.kind = "star" \/ i \in Named(srcs, UniqueTableName(f.db, f.tbl))
           THEN Columns(srcs, i) ELSE <<>>]
          = Parts(srcs, Meant(srcs, f))
    BY DEF Parts, Meant
  <2> QED BY <2>1 DEF ExpandsTo, ColumnsOf, FieldResults, FieldReads, IsWild
<1> QED BY <1>1 DEF Compiled, CompiledBy

\* What the result fields of a statement may read.
Results(srcs, fs) ==
  {FieldReads(srcs, fs[k]) : k \in 1 .. Len(fs)} \union UNION {ToSet(Columns(srcs, i)) : i \in 1 .. Len(srcs)}

LEMMA ColumnsType ==
  ASSUME NEW srcs \in Seq(AllSources), NEW i \in 1 .. Len(srcs)
  PROVE  /\ Columns(srcs, i) \in Seq(ToSet(Columns(srcs, i)))
         /\ Len(Columns(srcs, i)) = Len(srcs[i].cols)
<1>1. Len(srcs[i].cols) \in Nat
  BY SourceFacts
<1> DEFINE s == Columns(srcs, i)
<1>2. s = [c \in 1 .. Len(srcs[i].cols) |-> s[c]] /\ DOMAIN s = 1 .. Len(srcs[i].cols)
  BY DEF Columns
<1> HIDE DEF s
<1>3. ToSet(s) = {s[c] : c \in 1 .. Len(srcs[i].cols)}
  BY <1>2 DEF ToSet
<1>4. \A c \in 1 .. Len(srcs[i].cols) : s[c] \in ToSet(s)
  BY <1>3
<1>5. s \in Seq(ToSet(s)) /\ Len(s) = Len(srcs[i].cols)
  BY <1>1, <1>2, <1>4
<1> QED BY <1>5 DEF s

LEMMA PartsType ==
  ASSUME NEW srcs \in Seq(AllSources), NEW fs, NEW S
  PROVE  /\ Parts(srcs, S) \in Seq(Seq(Results(srcs, fs))) /\ Len(Parts(srcs, S)) = Len(srcs)
         /\ FlattenSeq(Parts(srcs, S)) \in Seq(Results(srcs, fs))
<1> DEFINE X == Results(srcs, fs)
<1>1. Len(srcs) \in Nat
  OBVIOUS
<1>2. ASSUME NEW i \in 1 .. Len(srcs)
      PROVE  Columns(srcs, i) \in Seq(X)
  <2>1. ToSet(Columns(srcs, i)) \subseteq X
    BY DEF Results
  <2>2. Columns(srcs, i) \in Seq(ToSet(Columns(srcs, i)))
    BY ColumnsType
  <2> HIDE DEF X
  <2> QED BY <2>1, <2>2
<1> HIDE DEF X
<1>3. \A i \in 1 .. Len(srcs) : (IF i \in S THEN Columns(srcs, i) ELSE <<>>) \in Seq(X)
  BY <1>2
<1>4. Parts(srcs, S) \in Seq(Seq(X)) /\ Len(Parts(srcs, S)) = Len(srcs)
  BY <1>1, <1>3 DEF Parts
<1> QED BY <1>4, FlattenType DEF X

LEMMA FieldResultsType ==
  ASSUME NEW srcs \in Seq(AllSources), NEW fs, NEW k \in 1 .. Len(fs), NEW S
  PROVE  FieldResults(srcs, fs[k], S) \in Seq(Results(srcs, fs))
<1>1. FieldReads(srcs, fs[k]) \in Results(srcs, fs)
  BY DEF Results
<1>2. <<FieldReads(srcs, fs[k])>> \in Seq(Results(srcs, fs))
  BY <1>1
<1> QED BY <1>2, PartsType DEF FieldResults

LEMMA ResultsType ==
  ASSUME NEW srcs \in Seq(AllSources), NEW fs, Len(fs) \in Nat
  PROVE  /\ ExecutedBy(srcs, fs) \in Seq(Seq(Results(srcs, fs))) /\ Len(ExecutedBy(srcs, fs)) = Len(fs)
         /\ CompiledBy(srcs, fs) \in Seq(Seq(Results(srcs, fs))) /\ Len(CompiledBy(srcs, fs)) = Len(fs)
         /\ Executed(srcs, fs) \in Seq(Results(srcs, fs)) /\ Len(Executed(srcs, fs)) \in Nat
         /\ Compiled(srcs, fs) \in Seq(Results(srcs, fs)) /\ Len(Compiled(srcs, fs)) \in Nat
<1> DEFINE X == Results(srcs, fs)
<1>1. ExecutedBy(srcs, fs) \in Seq(Seq(X)) /\ Len(ExecutedBy(srcs, fs)) = Len(fs)
  <2>1. \A k \in 1 .. Len(fs) : FieldResults(srcs, fs[k], Taken(srcs, fs[k])) \in Seq(X)
    BY FieldResultsType
  <2> HIDE DEF X
  <2> QED BY <2>1 DEF ExecutedBy
<1>2. CompiledBy(srcs, fs) \in Seq(Seq(X)) /\ Len(CompiledBy(srcs, fs)) = Len(fs)
  <2>1. \A k \in 1 .. Len(fs) : FieldResults(srcs, fs[k], Meant(srcs, fs[k])) \in Seq(X)
    BY FieldResultsType
  <2> HIDE DEF X
  <2> QED BY <2>1 DEF CompiledBy
<1> HIDE DEF X
<1>3. Executed(srcs, fs) \in Seq(X)
  BY <1>1, ExecutedAs, FlattenType
<1>4. Compiled(srcs, fs) \in Seq(X)
  BY <1>2, CompiledAs, FlattenType
<1>5. ASSUME NEW t \in Seq(X)
      PROVE  Len(t) \in Nat
  OBVIOUS
<1> QED BY <1>1, <1>2, <1>3, <1>4, <1>5 DEF X

-----------------------------------------------------------------------------
(* Steps.                                                                  *)

LEMMA ListedType ==
  ASSUME TypeInv
  PROVE  listed \in Seq(AllSources) /\ Len(listed) \in Nat
BY ListedFacts DEF TypeInv

\* The expanded statement has no wildcards, and a result field for each of its fields.
LEMMA SecondRound ==
  ASSUME TypeInv, OriginInv, origin # NoOrigin, phase # "done"
  PROVE  /\ fields \in Seq(PlainFields) /\ \A k \in 1 .. Len(fields) : ~IsWild(fields[k])
         /\ Len(Executed(listed, fields)) <= MaxResultFields
         /\ Len(Compiled(listed, fields)) <= MaxResultFields
<1>1. /\ Known(listed, origin) /\ wildcards = <<>>
      /\ fields = FlattenSeq(AllExpanded(listed, origin.fields))
  BY DEF OriginInv
<1>2. /\ origin.fields \in FieldLists /\ Accepts(listed, origin.fields)
      /\ Len(origin.rfToWildcard) = Len(FlattenSeq(AllExpanded(listed, origin.fields)))
      /\ Len(origin.rfToWildcard) <= MaxResultFields
  BY <1>1 DEF Known
<1>3. origin.fields \in Seq(AllFields)
  <2>1. origin.fields \in Seq(UserFields) /\ UserFields \subseteq AllFields
    BY <1>2, UserFieldFacts DEF AllFields
  <2> QED BY <2>1
<1>4. fields \in Seq(PlainFields)
  BY <1>1, <1>2, <1>3, ListedType, AllExpandedType, FlattenType
<1>5. \A k \in 1 .. Len(fields) : ~IsWild(fields[k])
  <2>1. \A k \in 1 .. Len(fields) : fields[k] \in PlainFields
    BY <1>4
  <2> QED BY <2>1 DEF PlainFields
<1>6. fields \in Seq(AllFields)
  BY DEF TypeInv
<1>7. Len(fields) <= MaxResultFields
  BY <1>1, <1>2
<1> QED BY <1>4, <1>5, <1>6, <1>7, PlainResults

LEMMA Counts ==
  ASSUME TypeInv, OriginInv, phase # "done", Accepts(listed, fields)
  PROVE  /\ Len(Executed(listed, fields)) \in Nat /\ Len(Executed(listed, fields)) <= MaxResultFields
         /\ Len(Compiled(listed, fields)) \in Nat /\ Len(Compiled(listed, fields)) <= MaxResultFields
<1>1. Len(Executed(listed, fields)) \in Nat /\ Len(Compiled(listed, fields)) \in Nat
  <2>1. Len(fields) \in Nat
    BY DEF TypeInv
  <2> QED BY <2>1, ListedType, ResultsType
<1>2. CASE origin = NoOrigin
  <2>1. listed \in Froms /\ fields \in FieldLists
    BY <1>2 DEF TypeInv, OriginInv
  <2> QED BY <1>1, <2>1, SelectAssumption
<1>3. CASE origin # NoOrigin
  BY <1>1, <1>3, SecondRound
<1> QED BY <1>2, <1>3

LEMMA InitStep ==
  ASSUME Init
  PROVE  IInv
<1>1. fields \in Seq(AllFields) /\ Len(fields) \in Nat
  <2>1. fields \in Seq(UserFields) /\ UserFields \subseteq AllFields
    BY UserFieldFacts DEF Init, AllFields
  <2> QED BY <2>1
<1>2. TypeInv
  <2>1. /\ <<>> \in Seq(0 .. 0) /\ <<>> \in Seq(FL!Wildcard) /\ <<>> \in Seq(AllSources) /\ Len(<<>>) = 0
    OBVIOUS
  <2>2. MaxResultFields \in Nat
    BY SelectAssumption
  <2> QED BY <1>1, <2>1, <2>2 DEF Init, TypeInv, Phases
<1>3. FreshInv /\ WalkInv /\ RunInv /\ ScanInv /\ CountInv
  BY DEF Init, FreshInv, WalkInv, RunInv, ScanInv, CountInv, Reading
<1>4. OriginInv
  BY DEF Init, OriginInv
<1> QED BY <1>2, <1>3, <1>4 DEF IInv

LEMMA FailStep ==
  ASSUME IInv, phase # "done", Fail
  PROVE  IInv'
<1>1. /\ phase' = "failed"
      /\ UNCHANGED <<given, executed, todo, tableSources, scanned, origin>>
  BY DEF Fail
<1>2. TypeInv'
  BY <1>1 DEF IInv, TypeInv, given, scanned, Phases
<1>3. FreshInv' /\ WalkInv' /\ RunInv' /\ ScanInv' /\ CountInv'
  BY <1>1 DEF FreshInv, WalkInv, RunInv, ScanInv, CountInv, Reading
<1>4. OriginInv'
  <2>1. OriginInv /\ phase # "done"
    BY DEF IInv
  <2> QED BY <1>1, <2>1 DEF OriginInv, given, scanned
<1> QED BY <1>2, <1>3, <1>4 DEF IInv

LEMMA ExecuteStep ==
  ASSUME IInv, Execute
  PROVE  IInv'
<1>1. CASE ~Accepts(listed, fields)
  <2>1. phase # "done" /\ Fail
    BY <1>1 DEF Execute
  <2> QED BY <2>1, FailStep
<1>2. CASE Accepts(listed, fields)
  <2>0. TypeInv /\ FreshInv /\ OriginInv
    BY DEF IInv
  <2>1. /\ phase = "execute" /\ phase' = "collect"
        /\ executed' = Executed(listed, fields) /\ todo' = <<from>>
        /\ UNCHANGED <<given, tableSources, scanned, origin>>
    BY <1>2 DEF Execute
  <2>2. /\ tableSources = <<>> /\ field = 1 /\ starAt = 1 /\ offset = 0
        /\ wildcards = <<>> /\ rfToWildcard = <<>>
    BY <2>0, <2>1 DEF FreshInv
  <2>3. TypeInv'
    <3>1. Len(executed') <= MaxResultFields
      BY <1>2, <2>0, <2>1, Counts
    <3> QED BY <2>0, <2>1, <3>1 DEF TypeInv, given, scanned, Phases
  <2>4. FreshInv' /\ ScanInv' /\ CountInv'
    BY <2>1, <2>2 DEF FreshInv, ScanInv, CountInv, Reading, scanned
  <2>5. WalkInv'
    <3>1. Walk(listed, <<from>>, 0)
      BY <2>0, ListedType, WalkStart DEF TypeInv
    <3>2. First(listed, 0) = <<>> /\ Len(<<>>) = 0 /\ 0 <= Len(listed)
      BY <2>0, FirstNone, ListedType
    <3> QED BY <2>1, <2>2, <3>1, <3>2 DEF WalkInv, given
  <2>6. RunInv'
    BY <1>2, <2>1 DEF RunInv, Reading, given
  <2>7. OriginInv'
    BY <2>0, <2>1 DEF OriginInv, given, scanned
  <2> QED BY <2>3, <2>4, <2>5, <2>6, <2>7 DEF IInv
<1> QED BY <1>1, <1>2

\* A step of the walk that collects nothing.
LEMMA WalkKept ==
  ASSUME IInv, phase = "collect", UNCHANGED <<given, phase, executed, tableSources, scanned, origin>>,
         Walk(listed, todo', Len(tableSources))
  PROVE  IInv'
<1>1. /\ tableSources = First(listed, Len(tableSources)) /\ Len(tableSources) <= Len(listed)
      /\ TypeInv /\ FreshInv /\ RunInv /\ OriginInv
  BY DEF IInv, WalkInv
<1>2. TypeInv' /\ FreshInv'
  BY <1>1 DEF TypeInv, FreshInv, given, scanned
<1>3. WalkInv'
  BY <1>1 DEF WalkInv, given
<1>4. RunInv' /\ ScanInv' /\ CountInv'
  BY <1>1 DEF RunInv, ScanInv, CountInv, Reading, given
<1>5. OriginInv'
  BY <1>1 DEF OriginInv, given, scanned
<1> QED BY <1>2, <1>3, <1>4, <1>5 DEF IInv

LEMMA TwoBefore ==
  ASSUME NEW S, NEW t \in Seq(S), NEW l, NEW r
  PROVE  <<l, r>> \o t = <<l>> \o (<<r>> \o t)
<1> DEFINE T == S \union {l, r}
<1>1. t \in Seq(T) /\ <<l>> \in Seq(T) /\ <<r>> \in Seq(T) /\ <<l>> \o <<r>> = <<l, r>>
  <2>1. l \in T /\ r \in T /\ S \subseteq T
    OBVIOUS
  <2> HIDE DEF T
  <2>2. <<l>> \in Seq(T) /\ <<r>> \in Seq(T) /\ <<l, r>> \in Seq(T)
    BY <2>1
  <2>3. t \in Seq(T)
    BY <2>1
  <2>4. <<l>> \o <<r>> = <<l, r>>
    <3>1. /\ <<l>> \o <<r>> \in Seq(T) /\ Len(<<l>> \o <<r>>) = 2
          /\ (<<l>> \o <<r>>)[1] = l /\ (<<l>> \o <<r>>)[2] = r
      BY <2>2
    <3>2. Len(<<l, r>>) = 2 /\ <<l, r>>[1] = l /\ <<l, r>>[2] = r /\ \A i \in 1 .. 2 : i = 1 \/ i = 2
      OBVIOUS
    <3>3. \A i \in 1 .. 2 : (<<l>> \o <<r>>)[i] = <<l, r>>[i]
      BY <3>1, <3>2
    <3> QED BY <2>2, <3>1, <3>2, <3>3, SameSeq
  <2> QED BY <2>2, <2>3, <2>4
<1> HIDE DEF T
<1>2. <<l>> \o (<<r>> \o t) = (<<l>> \o <<r>>) \o t
  BY <1>1, ConcatAssoc
<1> QED BY <1>1, <1>2

LEMMA CollectJoinStep ==
  ASSUME IInv, CollectJoin
  PROVE  IInv'
<1> DEFINE n == Len(tableSources)
<1>1. /\ phase = "collect" /\ todo # <<>> /\ Head(todo).kind = "join"
      /\ todo' = <<Head(todo).left, Head(todo).right>> \o Tail(todo)
      /\ UNCHANGED <<given, phase, executed, tableSources, scanned, origin>>
  BY DEF CollectJoin
<1>2. listed \in Seq(AllSources) /\ Walk(listed, todo, n)
  BY <1>1, ListedType DEF IInv, WalkInv
<1> HIDE DEF n
<1>3. n \in 0 .. Len(listed)
  BY <1>1, <1>2, WalkHead
<1>4. PICK hi \in 0 .. Len(listed) : Node(listed, n, hi, Head(todo)) /\ Walk(listed, Tail(todo), hi)
  BY <1>1, <1>2, WalkHead
<1>5. Head(todo) # Nil /\ Head(todo) \notin AllSources
  <2>1. Nil.kind # "join"
    BY DEF Nil
  <2>2. \A src \in AllSources : src.kind # "join"
    BY SourceFacts
  <2> QED BY <1>1, <2>1, <2>2
<1>6. PICK mid \in 0 .. Len(listed) :
        Node(listed, n, mid, Head(todo).left) /\ Node(listed, mid, hi, Head(todo).right)
  BY <1>2, <1>3, <1>4, <1>5, NodeCases
<1>7. Walk(listed, <<Head(todo).right>> \o Tail(todo), mid)
  BY <1>2, <1>4, <1>6, WalkPut
<1>8. Walk(listed, <<Head(todo).left>> \o (<<Head(todo).right>> \o Tail(todo)), n)
  BY <1>2, <1>3, <1>6, <1>7, WalkPut
<1>9. todo' = <<Head(todo).left>> \o (<<Head(todo).right>> \o Tail(todo))
  <2>1. PICK S : Tail(todo) \in Seq(S)
    BY <1>4 DEF Walk
  <2> QED BY <1>1, <2>1, TwoBefore
<1>10. Walk(listed, todo', n)
  BY <1>8, <1>9
<1> QED BY <1>1, <1>10, WalkKept DEF n

LEMMA CollectNilStep ==
  ASSUME IInv, CollectNil
  PROVE  IInv'
<1> DEFINE n == Len(tableSources)
<1>1. /\ phase = "collect" /\ todo # <<>> /\ Head(todo).kind = "nil"
      /\ todo' = Tail(todo)
      /\ UNCHANGED <<given, phase, executed, tableSources, scanned, origin>>
  BY DEF CollectNil
<1>2. listed \in Seq(AllSources) /\ Walk(listed, todo, n)
  BY <1>1, ListedType DEF IInv, WalkInv
<1> HIDE DEF n
<1>3. n \in 0 .. Len(listed)
  BY <1>1, <1>2, WalkHead
<1>4. PICK hi \in 0 .. Len(listed) : Node(listed, n, hi, Head(todo)) /\ Walk(listed, Tail(todo), hi)
  BY <1>1, <1>2, WalkHead
<1>5. Head(todo) \notin AllSources /\ ~ \E l, r : Head(todo) = Join(l, r)
  <2>1. \A l, r : Join(l, r).kind # "nil"
    BY DEF Join
  <2>2. \A src \in AllSources : src.kind # "nil"
    BY SourceFacts
  <2> QED BY <1>1, <2>1, <2>2
<1>6. hi = n
  BY <1>2, <1>3, <1>4, <1>5, NodeCases
<1>7. Walk(listed, todo', n)
  BY <1>1, <1>4, <1>6
<1> QED BY <1>1, <1>7, WalkKept DEF n

LEMMA CollectSourceStep ==
  ASSUME IInv, CollectSource
  PROVE  IInv'
<1>1. CASE RefNameTaken(RefName(Head(todo)))
  <2>1. phase # "done" /\ Fail
    BY <1>1 DEF CollectSource
  <2> QED BY <2>1, FailStep
<1>2. CASE ~RefNameTaken(RefName(Head(todo)))
  <2> DEFINE n == Len(tableSources)
             node == Head(todo)
  <2>1. /\ phase = "collect" /\ todo # <<>> /\ node.kind \in {"table", "derived"}
        /\ tableSources' = Append(tableSources, node) /\ todo' = Tail(todo)
        /\ UNCHANGED <<given, phase, executed, scanned, origin>>
    BY <1>2 DEF CollectSource
  <2>2. /\ listed \in Seq(AllSources) /\ Len(listed) \in Nat /\ Walk(listed, todo, n)
        /\ tableSources = First(listed, n)
        /\ TypeInv /\ FreshInv /\ RunInv /\ OriginInv
    BY <2>1, ListedType DEF IInv, WalkInv
  <2> HIDE DEF n
  <2>3. n \in 0 .. Len(listed)
    BY <2>1, <2>2, WalkHead
  <2>4. PICK hi \in 0 .. Len(listed) : Node(listed, n, hi, node) /\ Walk(listed, Tail(todo), hi)
    BY <2>1, <2>2, WalkHead
  <2>5. node # Nil /\ ~ \E l, r : node = Join(l, r)
    <3>1. Nil.kind \notin {"table", "derived"} /\ \A l, r : Join(l, r).kind \notin {"table", "derived"}
      BY DEF Nil, Join
    <3> QED BY <2>1, <3>1
  <2>6. node \in AllSources /\ hi = n + 1 /\ node = listed[hi]
    <3> HIDE DEF node
    <3> QED BY <2>2, <2>3, <2>4, <2>5, NodeCases
  <2> HIDE DEF node
  <2>7. n \in Nat /\ n < Len(listed) /\ n + 1 <= Len(listed) /\ n + 1 \in 0 .. Len(listed)
    BY <2>2, <2>3, <2>4, <2>6
  <2>8. tableSources' = First(listed, n + 1)
    BY <2>1, <2>2, <2>6, <2>7, FirstNext
  <2>9. Len(tableSources') = n + 1 /\ tableSources' \in Seq(AllSources)
    BY <2>2, <2>7, <2>8, FirstType
  <2>10. TypeInv' /\ FreshInv'
    <3>1. starAt = 1 /\ 1 \in 1 .. (n + 1) + 1
      BY <2>1, <2>2, <2>7 DEF FreshInv
    <3>2. FreshInv'
      BY <2>1, <2>2 DEF FreshInv, scanned
    <3>3. starAt' \in 1 .. Len(tableSources') + 1
      BY <2>1, <2>9, <3>1 DEF scanned
    <3>4. TypeInv'
      BY <2>1, <2>2, <2>9, <3>3 DEF TypeInv, given, scanned
    <3> QED BY <3>2, <3>4
  <2>11. WalkInv'
    <3>1. Walk(listed, todo', n + 1)
      BY <2>1, <2>4, <2>6
    <3> QED BY <2>1, <2>7, <2>8, <2>9, <3>1 DEF WalkInv, given
  <2>12. RunInv' /\ ScanInv' /\ CountInv'
    BY <2>1, <2>2 DEF RunInv, ScanInv, CountInv, Reading, given
  <2>13. OriginInv'
    BY <2>1, <2>2 DEF OriginInv, given, scanned
  <2> QED BY <2>10, <2>11, <2>12, <2>13 DEF IInv
<1> QED BY <1>1, <1>2

LEMMA CheckNamesStep ==
  ASSUME IInv, CheckNames
  PROVE  IInv'
<1> DEFINE unclear == \/ \E i \in 1 .. Len(tableSources) : Len(RefName(tableSources[i])) \notin TableParts
                      \/ NamesClash(tableSources)
<1>1. CASE unclear
  <2>1. phase # "done" /\ Fail
    BY <1>1 DEF CheckNames
  <2> QED BY <2>1, FailStep
<1>2. CASE ~unclear
  <2> DEFINE n == Len(Compiled(listed, fields))
  <2>1. /\ phase = "collect" /\ todo = <<>> /\ phase' = "fields"
        /\ rfToWildcard' = [i \in 1 .. n |-> 0]
        /\ UNCHANGED <<given, executed, todo, tableSources, field, starAt, offset, wildcards, origin>>
    BY <1>2 DEF CheckNames
  <2>2. /\ TypeInv /\ FreshInv /\ WalkInv /\ RunInv /\ OriginInv
        /\ listed \in Seq(AllSources) /\ Len(listed) \in Nat
    BY ListedType DEF IInv
  <2>3. tableSources = listed
    <3>1. tableSources = First(listed, Len(tableSources)) /\ Walk(listed, <<>>, Len(tableSources))
      BY <2>1, <2>2 DEF WalkInv
    <3>2. Len(tableSources) = Len(listed)
      BY <3>1, WalkEnd
    <3> QED BY <2>2, <3>1, <3>2, FirstAll
  <2>4. NamesPass(listed)
    BY <1>2, <2>3 DEF NamesPass
  <2>5. /\ field = 1 /\ starAt = 1 /\ offset = 0 /\ wildcards = <<>>
        /\ Accepts(listed, fields) /\ executed = Executed(listed, fields)
    BY <2>1, <2>2 DEF FreshInv, RunInv
  <2>6. n \in Nat /\ n <= MaxResultFields
    BY <2>1, <2>2, <2>5, Counts
  <2> HIDE DEF n
  <2>7. /\ rfToWildcard' \in Seq(0 .. Len(wildcards')) /\ Len(rfToWildcard') = n
        /\ \A i \in 1 .. n : rfToWildcard'[i] = 0
    BY <2>1, <2>5, <2>6
  <2>8. TypeInv'
    BY <2>1, <2>2, <2>6, <2>7 DEF TypeInv, given, Phases
  <2>9. FreshInv' /\ WalkInv' /\ CountInv'
    BY <2>1 DEF FreshInv, WalkInv, CountInv
  <2>10. RunInv'
    BY <2>1, <2>3, <2>4, <2>5, <2>7 DEF RunInv, given, n
  <2>11. ScanInv'
    <3>1. Passed(listed, fields, 1, 1) = <<>> /\ Len(<<>>) = 0
      BY <2>2, <2>5, PassedNone DEF TypeInv
    <3>2. Marks(listed, fields, <<>>, wildcards, rfToWildcard')
      BY <2>7, <3>1 DEF Marks
    <3>3. WildsAdd(listed, fields, 1, wildcards)
      BY DEF WildsAdd
    <3>4. Filled(listed, wildcards, rfToWildcard')
      <4>1. wildcards = <<>>
        BY <2>1, <2>2 DEF FreshInv
      <4> QED BY <4>1 DEF Filled
    <3> QED BY <2>1, <2>5, <3>1, <3>2, <3>3, <3>4 DEF ScanInv, given
  <2>12. OriginInv'
    BY <2>1, <2>2 DEF OriginInv, given
  <2> QED BY <2>8, <2>9, <2>10, <2>11, <2>12 DEF IInv
<1> QED BY <1>1, <1>2

\* While fields are scanned.
LEMMA ScanFacts ==
  ASSUME IInv, InFields
  PROVE  /\ TypeInv /\ RunInv /\ OriginInv
         /\ listed \in Seq(AllSources) /\ Len(listed) \in Nat
         /\ tableSources = listed /\ NamesPass(listed) /\ Accepts(listed, fields)
         /\ fields \in Seq(AllFields) /\ Len(fields) \in Nat /\ field \in 1 .. Len(fields)
         /\ starAt \in 1 .. Len(listed) + 1
         /\ starAt > 1 => fields[field].kind = "star" /\ wildcards # <<>>
         /\ offset = Len(Passed(listed, fields, field, starAt))
         /\ Passed(listed, fields, field, starAt) \in Seq(PlainFields)
         /\ Marks(listed, fields, Passed(listed, fields, field, starAt), wildcards, rfToWildcard)
         /\ WildsAdd(listed, fields, field, wildcards)
         /\ Filled(listed, wildcards, rfToWildcard)
<1>1. /\ TypeInv /\ RunInv /\ OriginInv /\ ScanInv /\ Reading
      /\ listed \in Seq(AllSources) /\ Len(listed) \in Nat
  BY ListedType DEF IInv, InFields, Reading
<1>2. /\ tableSources = listed /\ NamesPass(listed) /\ Accepts(listed, fields)
      /\ fields \in Seq(AllFields) /\ Len(fields) \in Nat /\ field \in 1 .. Len(fields)
      /\ starAt \in 1 .. Len(listed) + 1
  BY <1>1 DEF RunInv, Reading, TypeInv, InFields
<1>3. Passed(listed, fields, field, starAt) \in Seq(PlainFields)
  <2>1. field \in 1 .. Len(fields) + 1
    BY <1>2
  <2> QED BY <1>1, <1>2, <2>1, PassedType
<1> QED BY <1>1, <1>2, <1>3 DEF ScanInv

\* A scan step: what it moves to is in the state it leads to.
LEMMA Scanning ==
  ASSUME IInv, InFields, UNCHANGED <<given, phase, executed, todo, tableSources, origin>>,
         field' \in 1 .. Len(fields) + 1, starAt' \in 1 .. Len(listed) + 1,
         starAt' > 1 => field' <= Len(fields) /\ fields[field'].kind = "star" /\ wildcards' # <<>>,
         offset' = Len(Passed(listed, fields, field', starAt')),
         wildcards' \in Seq(FL!Wildcard), rfToWildcard' \in Seq(0 .. Len(wildcards')),
         Len(rfToWildcard') = Len(rfToWildcard),
         Marks(listed, fields, Passed(listed, fields, field', starAt'), wildcards', rfToWildcard'),
         WildsAdd(listed, fields, field', wildcards'),
         Filled(listed, wildcards', rfToWildcard'),
         origin # NoOrigin => UNCHANGED wildcards
  PROVE  IInv'
<1>1. /\ phase = "fields" /\ TypeInv /\ RunInv /\ OriginInv /\ tableSources = listed
      /\ listed \in Seq(AllSources) /\ fields \in Seq(AllFields) /\ Accepts(listed, fields)
  BY ScanFacts DEF InFields
<1>2. offset' \in Nat
  <2>1. Passed(listed, fields, field', starAt') \in Seq(PlainFields)
    BY <1>1, PassedType
  <2>2. ASSUME NEW s \in Seq(PlainFields)
        PROVE  Len(s) \in Nat
    OBVIOUS
  <2> QED BY <2>1, <2>2
<1>3. TypeInv'
  BY <1>1, <1>2 DEF TypeInv, given
<1>4. FreshInv' /\ WalkInv' /\ CountInv'
  BY <1>1 DEF FreshInv, WalkInv, CountInv
<1>5. RunInv'
  BY <1>1 DEF RunInv, Reading, given
<1>6. ScanInv'
  BY <1>1 DEF ScanInv, given
<1>7. OriginInv'
  BY <1>1 DEF OriginInv, given
<1> QED BY <1>3, <1>4, <1>5, <1>6, <1>7 DEF IInv

LEMMA ScanPlainStep ==
  ASSUME IInv, ScanPlain
  PROVE  IInv'
<1> DEFINE f == fields[field]
           passed == Passed(listed, fields, field, 1)
<1>1. /\ InFields /\ ~IsWild(f) /\ offset' = offset + 1 /\ field' = field + 1
      /\ UNCHANGED <<given, phase, executed, todo, tableSources, starAt, wildcards, rfToWildcard, origin>>
  BY DEF ScanPlain
<1>2. starAt = 1
  <2>1. f.kind # "star"
    BY <1>1 DEF IsWild
  <2> QED BY <1>1, <2>1, ScanFacts
<1>3. f \in PlainFields /\ field \in 1 .. Len(fields) /\ ExpandedOver(listed, f) = <<f>>
  BY <1>1, ScanFacts, PlainExpanded DEF PlainFields
<1>4. Passed(listed, fields, field + 1, 1) = passed \o <<f>>
  BY <1>1, <1>3, ScanFacts, PassedField
<1>5. passed \in Seq(PlainFields) /\ offset = Len(passed)
  BY <1>1, <1>2, ScanFacts
<1>6. Len(passed \o <<f>>) = Len(passed) + 1
  <2> HIDE DEF passed, f
  <2>1. <<f>> \in Seq(PlainFields) /\ Len(<<f>>) = 1
    BY <1>3
  <2> QED BY <1>5, <2>1
<1>7. Marks(listed, fields, passed \o <<f>>, wildcards, rfToWildcard)
  <2>1. rfToWildcard \in Seq(Nat)
    BY DEF IInv, TypeInv
  <2>2. Marks(listed, fields, passed, wildcards, rfToWildcard)
    BY <1>1, <1>2, ScanFacts
  <2> HIDE DEF passed
  <2> QED BY <1>3, <1>5, <2>1, <2>2, MarksPlain
<1>8. WildsAdd(listed, fields, field + 1, wildcards)
  <2>1. WildsAdd(listed, fields, field, wildcards)
    BY <1>1, ScanFacts
  <2>2. \A k \in 1 .. (field + 1) - 1 : k \in 1 .. field - 1 \/ k = field
    BY <1>3
  <2> QED BY <1>1, <2>1, <2>2 DEF WildsAdd
<1>9. /\ field' \in 1 .. Len(fields) + 1 /\ starAt' = 1 /\ 1 \in 1 .. Len(listed) + 1 /\ ~(1 > 1)
      /\ wildcards' = wildcards /\ rfToWildcard' = rfToWildcard /\ wildcards \in Seq(FL!Wildcard)
      /\ rfToWildcard \in Seq(0 .. Len(wildcards)) /\ Filled(listed, wildcards, rfToWildcard)
  <2>1. Len(fields) \in Nat /\ Len(listed) \in Nat /\ Filled(listed, wildcards, rfToWildcard)
    BY <1>1, ScanFacts
  <2> QED BY <1>1, <1>2, <1>3, <2>1 DEF IInv, TypeInv
<1>10. offset' = Len(Passed(listed, fields, field', starAt'))
  BY <1>1, <1>4, <1>5, <1>6, <1>9
<1> HIDE DEF f, passed
<1> QED BY <1>1, <1>4, <1>7, <1>8, <1>9, <1>10, Scanning

\* The columns of the wildcard appended have the range marked with it.
IsMarked(map, map2, off, num, w) ==
  /\ Len(map2) = Len(map) /\ off + num <= Len(map)
  /\ \A i \in off + 1 .. off + num : map[i] = 0
  /\ \A i \in 1 .. Len(map) : map2[i] = IF i \in off + 1 .. off + num THEN w ELSE map[i]

LEMMA FilledWild ==
  ASSUME NEW srcs, NEW X, NEW wcs \in Seq(X), NEW map \in Seq(Nat), Filled(srcs, wcs, map),
         NEW s \in 1 .. Len(srcs), NEW wc \in X, NEW num \in Nat, wc.offset \in Nat,
         wc.refName = RefName(srcs[s]), num = Len(srcs[s].cols),
         NEW map2 \in Seq(Nat), IsMarked(map, map2, wc.offset, num, Len(wcs) + 1)
  PROVE  Filled(srcs, Append(wcs, wc), map2)
<1> DEFINE wcs2 == Append(wcs, wc)
           last == Len(wcs) + 1
           off == wc.offset
<1>1. /\ Len(wcs) \in Nat /\ Len(wcs2) = last /\ wcs2[last] = wc
      /\ \A w \in 1 .. Len(wcs) : wcs2[w] = wcs[w]
  OBVIOUS
<1>2. Len(map) \in Nat /\ Len(map2) = Len(map) /\ off \in Nat /\ off + num <= Len(map)
  BY DEF IsMarked
<1>3. /\ \A i \in off + 1 .. off + num : map[i] = 0
      /\ \A i \in 1 .. Len(map) : map2[i] = IF i \in off + 1 .. off + num THEN last ELSE map[i]
  BY DEF IsMarked
<1> HIDE DEF wcs2, off
<1>4. ASSUME NEW w \in 1 .. Len(wcs)
      PROVE  Fills(srcs, wcs[w], map2, w)
  <2>1. wcs[w].offset \in Nat /\ w # 0 /\ w \in Nat
    BY DEF Filled, Fills
  <2>2. PICK r \in 1 .. Len(srcs) :
          /\ wcs[w].refName = RefName(srcs[r])
          /\ \A c \in 1 .. Len(srcs[r].cols) :
               wcs[w].offset + c \in 1 .. Len(map) /\ map[wcs[w].offset + c] = w
    BY DEF Filled, Fills
  <2>3. ASSUME NEW i \in 1 .. Len(map), map[i] = w
        PROVE  i \in 1 .. Len(map2) /\ map2[i] = w
    BY <1>2, <1>3, <2>1, <2>3
  <2> QED BY <2>1, <2>2, <2>3 DEF Fills
<1>5. Fills(srcs, wc, map2, last)
  <2>1. ASSUME NEW c \in 1 .. num
        PROVE  off + c \in 1 .. Len(map2) /\ map2[off + c] = last
    <3>1. off + c \in off + 1 .. off + num /\ off + c \in 1 .. Len(map)
      BY <1>2, <2>1
    <3> QED BY <1>2, <1>3, <3>1
  <2> QED BY <1>2, <2>1 DEF Fills, off
<1>6. ASSUME NEW w \in 1 .. Len(wcs2)
      PROVE  Fills(srcs, wcs2[w], map2, w)
  <2>1. w \in 1 .. Len(wcs) \/ w = last
    BY <1>1
  <2> HIDE DEF last
  <2> QED BY <1>1, <1>4, <1>5, <2>1
<1> QED BY <1>6 DEF Filled, wcs2

\* A wildcard of a table source is added.
LEMMA Adding ==
  ASSUME IInv, InFields, NEW s \in 1 .. Len(listed),
         FL!InBounds(offset, Len(listed[s].cols)),
         FL!addWildcard(RefName(listed[s]), offset, Len(listed[s].cols))
  PROVE  /\ Len(listed[s].cols) \in Nat \ {0}
         /\ wildcards' \in Seq(FL!Wildcard) /\ wildcards' # <<>>
         /\ rfToWildcard' \in Seq(0 .. Len(wildcards')) /\ Len(rfToWildcard') = Len(rfToWildcard)
         /\ Passed(listed, fields, field, starAt) \o ColumnTexts(listed[s]) \in Seq(PlainFields)
         /\ offset + Len(listed[s].cols)
              = Len(Passed(listed, fields, field, starAt) \o ColumnTexts(listed[s]))
         /\ Marks(listed, fields, Passed(listed, fields, field, starAt) \o ColumnTexts(listed[s]),
                  wildcards', rfToWildcard')
         /\ Filled(listed, wildcards', rfToWildcard')
<1> DEFINE passed == Passed(listed, fields, field, starAt)
           num == Len(listed[s].cols)
           name == RefName(listed[s])
           wc == [refName |-> name, offset |-> offset, num |-> num]
<1>1. num \in Nat /\ num > 0 /\ listed[s] \in AllSources /\ name \in AllRefNames
  <2>1. listed[s] \in AllSources
    BY ScanFacts
  <2>2. num \in Nat /\ num > 0
    BY <2>1, SourceFacts DEF FL!InBounds
  <2> QED BY <2>1, <2>2 DEF AllRefNames
<1>2. /\ wildcards \in Seq(FL!Wildcard) /\ rfToWildcard \in Seq(0 .. Len(wildcards)) /\ offset \in Nat
      /\ Len(wildcards) \in Nat /\ Len(rfToWildcard) \in Nat
  BY DEF IInv, TypeInv
<1>3. passed \in Seq(PlainFields) /\ offset = Len(passed)
      /\ Marks(listed, fields, passed, wildcards, rfToWildcard)
  BY ScanFacts
<1>4. /\ wildcards' = Append(wildcards, wc)
      /\ rfToWildcard' = [i \in 1 .. Len(rfToWildcard) |->
                            IF i \in offset + 1 .. offset + num THEN Len(wildcards) + 1
                            ELSE rfToWildcard[i]]
  BY DEF FL!addWildcard, FL!Mark, FL!Covers
<1>5. wc \in FL!Wildcard /\ wc.refName = name /\ wc.offset = offset
  BY <1>1, <1>2 DEF FL!Wildcard
<1> HIDE DEF wc, passed, num, name
<1>6. wildcards' \in Seq(FL!Wildcard) /\ Len(wildcards') = Len(wildcards) + 1 /\ wildcards' # <<>>
  BY <1>2, <1>4, <1>5
<1>7. /\ rfToWildcard' \in Seq(0 .. Len(wildcards')) /\ Len(rfToWildcard') = Len(rfToWildcard)
      /\ \A i \in 1 .. Len(rfToWildcard) :
           rfToWildcard'[i] = IF i \in offset + 1 .. offset + num THEN Len(wildcards) + 1 ELSE rfToWildcard[i]
  <2>1. ASSUME NEW i \in 1 .. Len(rfToWildcard)
        PROVE  /\ Len(wildcards) + 1 \in 0 .. Len(wildcards')
               /\ rfToWildcard[i] \in 0 .. Len(wildcards')
    BY <1>2, <1>6
  <2> QED BY <1>2, <1>4, <2>1
<1>8. ColumnTexts(listed[s]) \in Seq(PlainFields) /\ Len(ColumnTexts(listed[s])) = num
  BY <1>1, ColumnTextsFacts DEF num
<1>9. /\ passed \o ColumnTexts(listed[s]) \in Seq(PlainFields)
      /\ Len(passed \o ColumnTexts(listed[s])) = offset + num
  <2> DEFINE cols == ColumnTexts(listed[s])
             X == PlainFields
  <2>1. passed \in Seq(X) /\ cols \in Seq(X) /\ Len(cols) = num
    BY <1>3, <1>8
  <2> HIDE DEF cols, X
  <2>2. passed \o cols \in Seq(X) /\ Len(passed \o cols) = Len(passed) + Len(cols)
    BY <2>1
  <2> QED BY <1>3, <2>1, <2>2 DEF cols, X
<1>10. Marks(listed, fields, passed \o ColumnTexts(listed[s]), wildcards', rfToWildcard')
  <2> DEFINE map2 == rfToWildcard'
  <2>1. map2 \in Seq(Nat) /\ Len(map2) = Len(rfToWildcard) /\ rfToWildcard \in Seq(Nat)
    BY <1>2, <1>7
  <2>2. listed \in Seq(AllSources)
    BY ScanFacts
  <2>3. \A i \in 1 .. Len(rfToWildcard) :
           map2[i] = IF i \in Len(passed) + 1 .. Len(passed) + Len(listed[s].cols)
                     THEN Len(wildcards) + 1 ELSE rfToWildcard[i]
    BY <1>3, <1>7 DEF num
  <2>4. wc.refName = RefName(listed[s]) /\ wc.offset = Len(passed)
    BY <1>3, <1>5 DEF name
  <2> HIDE DEF map2
  <2>5. Marks(listed, fields, passed \o ColumnTexts(listed[s]), Append(wildcards, wc), map2)
    BY <1>2, <1>3, <1>5, <2>1, <2>2, <2>3, <2>4, MarksWild
  <2> QED BY <1>4, <2>5 DEF map2
<1>11. Filled(listed, wildcards', rfToWildcard')
  <2> DEFINE map2 == rfToWildcard'
             X == FL!Wildcard
             last == Len(wildcards) + 1
  <2>1. /\ map2 \in Seq(Nat) /\ rfToWildcard \in Seq(Nat) /\ wildcards \in Seq(X) /\ wc \in X
        /\ wc.offset \in Nat /\ num \in Nat
    BY <1>1, <1>2, <1>5, <1>7
  <2>2. Filled(listed, wildcards, rfToWildcard)
    BY ScanFacts
  <2>3. IsMarked(rfToWildcard, map2, wc.offset, num, last)
    <3>1. Len(rfToWildcard) \in Nat /\ offset + num <= Len(rfToWildcard)
          /\ \A i \in offset + 1 .. offset + num : rfToWildcard[i] = 0
      BY <1>2 DEF FL!addWildcard, FL!InBounds, FL!Overlap, FL!Covers, num
    <3> QED BY <1>5, <1>7, <3>1 DEF IsMarked
  <2>4. wc.refName = RefName(listed[s]) /\ num = Len(listed[s].cols) /\ s \in 1 .. Len(listed)
    BY <1>5 DEF name, num
  <2> HIDE DEF map2, X
  <2>5. Filled(listed, Append(wildcards, wc), map2)
    BY ONLY <2>1, <2>2, <2>3, <2>4, FilledWild
  <2> QED BY <1>4, <2>5 DEF map2
<1> QED BY <1>1, <1>6, <1>7, <1>9, <1>10, <1>11 DEF passed, num

LEMMA ScanQualifiedStep ==
  ASSUME IInv, ScanQualified
  PROVE  IInv'
<1> DEFINE f == fields[field]
           name == UniqueTableName(f.db, f.tbl)
           num == NumResultFields(name)
<1>1. InFields /\ f.kind = "wild" /\ IsWild(f)
  BY DEF ScanQualified, IsWild
<1>2. CASE ~CanAddWildcard(num)
  <2>1. phase # "done" /\ Fail
    BY <1>2 DEF ScanQualified, InFields
  <2> QED BY <2>1, FailStep
<1>3. CASE CanAddWildcard(num)
  <2>1. /\ FL!addWildcard(name, offset, num) /\ FL!InBounds(offset, num)
        /\ offset' = offset + num /\ field' = field + 1
        /\ UNCHANGED <<given, phase, executed, todo, tableSources, starAt, origin>>
    BY <1>3 DEF ScanQualified, CanAddWildcard
  <2>2. /\ field \in 1 .. Len(fields) /\ starAt = 1
        /\ listed \in Seq(AllSources) /\ tableSources = listed /\ Len(listed) \in Nat
        /\ Accepts(listed, fields) /\ fields \in Seq(AllFields) /\ Len(fields) \in Nat
        /\ TypeInv /\ OriginInv
    BY <1>1, ScanFacts
  <2>3. Named(listed, name) # {}
    BY <1>1, <2>2, AcceptedWilds
  <2>4. PICK s \in 1 .. Len(listed) :
          /\ RefName(listed[s]) = name
          /\ s = CHOOSE i \in Named(listed, name) : TRUE
          /\ SourcesOf(listed, f) = <<listed[s]>>
          /\ ExpandedOver(listed, f) = ColumnTexts(listed[s])
    BY <1>1, <2>2, <2>3, WildSource
  <2>5. num = Len(listed[s].cols)
    BY <2>2, <2>3, <2>4 DEF NumResultFields, RefNameTaken
  <2> DEFINE cols == ColumnTexts(listed[s])
  <2>6. Passed(listed, fields, field + 1, 1) = Passed(listed, fields, field, 1) \o cols
    BY <2>2, <2>4, PassedField
  <2> HIDE DEF num, name, f
  <2>7. /\ num \in Nat \ {0}
        /\ wildcards' \in Seq(FL!Wildcard) /\ wildcards' # <<>>
        /\ rfToWildcard' \in Seq(0 .. Len(wildcards')) /\ Len(rfToWildcard') = Len(rfToWildcard)
        /\ offset + num = Len(Passed(listed, fields, field, starAt) \o cols)
        /\ Marks(listed, fields, Passed(listed, fields, field, starAt) \o cols,
                 wildcards', rfToWildcard')
        /\ Filled(listed, wildcards', rfToWildcard')
    BY <1>1, <2>1, <2>4, <2>5, Adding
  <2> HIDE DEF cols
  <2>8. WildsAdd(listed, fields, field + 1, wildcards')
    <3>1. WildsAdd(listed, fields, field, wildcards)
      BY <1>1, ScanFacts
    <3>2. \A k \in 1 .. (field + 1) - 1 : k \in 1 .. field - 1 \/ k = field
      BY <2>2
    <3>3. Len(SourcesOf(listed, fields[field])[1].cols) > 0
      BY <2>4, <2>5, <2>7 DEF f
    <3> QED BY <2>7, <3>1, <3>2, <3>3 DEF WildsAdd
  <2>9. origin = NoOrigin
    <3>1. phase # "done"
      BY <1>1 DEF InFields
    <3> QED BY <1>1, <2>2, <3>1, SecondRound DEF f
  <2>10. field' \in 1 .. Len(fields) + 1 /\ starAt' = 1 /\ 1 \in 1 .. Len(listed) + 1 /\ ~(1 > 1)
    BY <2>1, <2>2
  <2>11. /\ offset' = Len(Passed(listed, fields, field', starAt'))
         /\ Marks(listed, fields, Passed(listed, fields, field', starAt'), wildcards', rfToWildcard')
    BY <2>1, <2>2, <2>6, <2>7, <2>10
  <2> QED BY <1>1, <2>1, <2>7, <2>8, <2>9, <2>10, <2>11, Scanning
<1> QED BY <1>2, <1>3

LEMMA ScanStarStep ==
  ASSUME IInv, ScanStar
  PROVE  IInv'
<1> DEFINE f == fields[field]
           num == Len(tableSources[starAt].cols)
<1>1. InFields /\ f.kind = "star" /\ IsWild(f) /\ starAt <= Len(tableSources)
  BY DEF ScanStar, IsWild
<1>2. CASE ~CanAddWildcard(num)
  <2>1. phase # "done" /\ Fail
    BY <1>2 DEF ScanStar, InFields
  <2> QED BY <2>1, FailStep
<1>3. CASE CanAddWildcard(num)
  <2>1. /\ FL!addWildcard(RefName(tableSources[starAt]), offset, num) /\ FL!InBounds(offset, num)
        /\ offset' = offset + num /\ starAt' = starAt + 1
        /\ UNCHANGED <<given, phase, executed, todo, tableSources, field, origin>>
    BY <1>3 DEF ScanStar, CanAddWildcard
  <2>2. /\ field \in 1 .. Len(fields) /\ starAt \in 1 .. Len(listed) /\ starAt \in Nat
        /\ listed \in Seq(AllSources) /\ tableSources = listed /\ Len(listed) \in Nat
        /\ Accepts(listed, fields) /\ fields \in Seq(AllFields) /\ Len(fields) \in Nat
        /\ TypeInv /\ OriginInv
    BY <1>1, ScanFacts
  <2> DEFINE cols == ColumnTexts(listed[starAt])
  <2>3. Passed(listed, fields, field, starAt + 1) = Passed(listed, fields, field, starAt) \o cols
    <3>1. field \in 1 .. Len(fields) + 1
      BY <2>2
    <3> QED BY <2>2, <3>1, PassedSource
  <2> HIDE DEF f
  <2>4. /\ wildcards' \in Seq(FL!Wildcard) /\ wildcards' # <<>>
        /\ rfToWildcard' \in Seq(0 .. Len(wildcards')) /\ Len(rfToWildcard') = Len(rfToWildcard)
        /\ offset + num = Len(Passed(listed, fields, field, starAt) \o cols)
        /\ Marks(listed, fields, Passed(listed, fields, field, starAt) \o cols,
                 wildcards', rfToWildcard')
        /\ Filled(listed, wildcards', rfToWildcard')
    BY <1>1, <2>1, <2>2, Adding
  <2> HIDE DEF cols, num
  <2>5. WildsAdd(listed, fields, field, wildcards')
    <3>1. WildsAdd(listed, fields, field, wildcards)
      BY <1>1, ScanFacts
    <3> QED BY <2>4, <3>1 DEF WildsAdd
  <2>6. origin = NoOrigin
    <3>1. phase # "done"
      BY <1>1 DEF InFields
    <3> QED BY <1>1, <2>2, <3>1, SecondRound DEF f
  <2>7. /\ field' = field /\ field' \in 1 .. Len(fields) + 1 /\ field' <= Len(fields)
        /\ fields[field'].kind = "star"
        /\ starAt' = starAt + 1 /\ starAt' \in 1 .. Len(listed) + 1
    BY <1>1, <2>1, <2>2 DEF f
  <2>8. /\ offset' = Len(Passed(listed, fields, field', starAt'))
        /\ Marks(listed, fields, Passed(listed, fields, field', starAt'), wildcards', rfToWildcard')
        /\ WildsAdd(listed, fields, field', wildcards')
    BY <2>1, <2>3, <2>4, <2>5, <2>7
  <2> QED BY <1>1, <2>1, <2>4, <2>6, <2>7, <2>8, Scanning
<1> QED BY <1>2, <1>3

LEMMA ScanStarEndStep ==
  ASSUME IInv, ScanStarEnd
  PROVE  IInv'
<1>1. /\ InFields /\ fields[field].kind = "star" /\ starAt > Len(tableSources)
      /\ field' = field + 1 /\ starAt' = 1
      /\ UNCHANGED <<given, phase, executed, todo, tableSources, offset, wildcards, rfToWildcard, origin>>
  BY DEF ScanStarEnd
<1>2. /\ field \in 1 .. Len(fields) /\ starAt = Len(listed) + 1
      /\ listed \in Seq(AllSources) /\ Len(listed) \in Nat /\ TypeInv
      /\ Accepts(listed, fields) /\ fields \in Seq(AllFields) /\ Len(fields) \in Nat
      /\ offset = Len(Passed(listed, fields, field, starAt))
      /\ Marks(listed, fields, Passed(listed, fields, field, starAt), wildcards, rfToWildcard)
      /\ WildsAdd(listed, fields, field, wildcards) /\ Filled(listed, wildcards, rfToWildcard)
  BY <1>1, ScanFacts
<1>3. wildcards # <<>>
  <2>1. listed # <<>>
    BY <1>1, <1>2, AcceptedWilds
  <2>2. Len(listed) > 0
    BY <1>2, <2>1
  <2>3. starAt > 1
    BY <1>2, <2>2
  <2> QED BY <1>1, <2>3, ScanFacts
<1>4. Passed(listed, fields, field + 1, 1) = Passed(listed, fields, field, Len(listed) + 1)
  BY <1>1, <1>2, PassedStar
<1>5. WildsAdd(listed, fields, field + 1, wildcards)
  <2>1. \A k \in 1 .. (field + 1) - 1 : k \in 1 .. field - 1 \/ k = field
    BY <1>2
  <2>2. fields[field].kind # "wild"
    BY <1>1
  <2> QED BY <1>2, <1>3, <2>1, <2>2 DEF WildsAdd
<1>6. /\ field' \in 1 .. Len(fields) + 1 /\ 1 \in 1 .. Len(listed) + 1 /\ ~(1 > 1)
      /\ wildcards' = wildcards /\ rfToWildcard' = rfToWildcard /\ offset' = offset
      /\ Filled(listed, wildcards, rfToWildcard)
      /\ wildcards \in Seq(FL!Wildcard) /\ rfToWildcard \in Seq(0 .. Len(wildcards))
  BY <1>1, <1>2 DEF TypeInv
<1>7. offset' = Len(Passed(listed, fields, field', starAt'))
  BY <1>1, <1>2, <1>4, <1>6
<1>8. Marks(listed, fields, Passed(listed, fields, field', starAt'), wildcards', rfToWildcard')
  BY <1>1, <1>2, <1>4, <1>6
<1> QED BY <1>1, <1>5, <1>6, <1>7, <1>8, Scanning

LEMMA CheckCountsStep ==
  ASSUME IInv, CheckCounts
  PROVE  IInv'
<1> DEFINE differ == \/ offset # Len(rfToWildcard)
                     \/ Len(executed) # Len(rfToWildcard)
                     \/ origin # NoOrigin /\ Len(executed) # Len(origin.executed)
<1>1. CASE differ
  <2>1. phase # "done" /\ Fail
    BY <1>1 DEF CheckCounts
  <2> QED BY <2>1, FailStep
<1>2. CASE ~differ
  <2>1. /\ phase = "fields" /\ field > Len(fields)
        /\ phase' = (IF origin = NoOrigin THEN "expand" ELSE "done")
        /\ UNCHANGED <<given, executed, todo, tableSources, scanned, origin>>
        /\ offset = Len(rfToWildcard) /\ Len(executed) = Len(rfToWildcard)
    BY <1>2 DEF CheckCounts
  <2>2. TypeInv /\ RunInv /\ ScanInv /\ OriginInv
    BY DEF IInv
  <2>3. field = Len(fields) + 1
    BY <2>1, <2>2 DEF TypeInv
  <2>4. phase' \in {"expand", "done"}
    BY <2>1
  <2>5. TypeInv'
    BY <2>1, <2>2, <2>4 DEF TypeInv, given, scanned, Phases
  <2>6. FreshInv' /\ WalkInv' /\ CountInv'
    BY <2>1, <2>3, <2>4 DEF FreshInv, WalkInv, CountInv, given, scanned
  <2>7. RunInv' /\ ScanInv'
    BY <2>1, <2>2, <2>4 DEF RunInv, ScanInv, Reading, given, scanned
  <2>8. OriginInv'
    BY <2>1, <2>2 DEF OriginInv, given, scanned
  <2> QED BY <2>5, <2>6, <2>7, <2>8 DEF IInv
<1> QED BY <1>1, <1>2

\* What was learnt of a statement once its counts agree.
LEMMA LearntFacts ==
  ASSUME IInv, phase = "expand"
  PROVE  /\ origin = NoOrigin /\ Learnt # NoOrigin /\ Known(listed, Learnt)
         /\ Learnt.fields = fields /\ Learnt.executed = executed
         /\ Learnt.wildcards = wildcards /\ Learnt.rfToWildcard = rfToWildcard
         /\ tableSources = listed /\ fields \in FieldLists /\ Accepts(listed, fields)
         /\ field = Len(fields) + 1 /\ starAt = 1
         /\ Passed(listed, fields, field, starAt) = FlattenSeq(AllExpanded(listed, fields))
<1>1. /\ TypeInv /\ RunInv /\ ScanInv /\ CountInv /\ OriginInv /\ Reading
      /\ listed \in Seq(AllSources) /\ Len(listed) \in Nat
  BY ListedType DEF IInv, Reading
<1>2. origin = NoOrigin /\ fields \in FieldLists
  BY <1>1 DEF OriginInv
<1>3. /\ Learnt.fields = fields /\ Learnt.executed = executed
      /\ Learnt.wildcards = wildcards /\ Learnt.rfToWildcard = rfToWildcard
  BY DEF Learnt
<1>4. fields # <<>> /\ Learnt # NoOrigin
  <2>1. fields # <<>>
    BY <1>2, UserFieldFacts
  <2>2. NoOrigin.fields = <<>>
    BY DEF NoOrigin
  <2> QED BY <1>3, <2>1, <2>2
<1>5. /\ tableSources = listed /\ NamesPass(listed)
      /\ Accepts(listed, fields) /\ executed = Executed(listed, fields)
      /\ field = Len(fields) + 1 /\ offset = Len(rfToWildcard) /\ Len(executed) = Len(rfToWildcard)
      /\ Len(rfToWildcard) = Len(Compiled(listed, fields))
  BY <1>1 DEF RunInv, CountInv
<1>6. /\ fields \in Seq(AllFields) /\ Len(fields) \in Nat /\ starAt \in Nat /\ starAt >= 1
      /\ rfToWildcard \in Seq(0 .. Len(wildcards)) /\ Len(rfToWildcard) <= MaxResultFields
      /\ wildcards \in Seq(FL!Wildcard)
  <2>1. /\ fields \in Seq(AllFields) /\ starAt \in 1 .. Len(listed) + 1
        /\ rfToWildcard \in Seq(0 .. Len(wildcards)) /\ Len(rfToWildcard) <= MaxResultFields
        /\ wildcards \in Seq(FL!Wildcard)
    BY <1>1, <1>5 DEF TypeInv
  <2> QED BY <1>1, <2>1
<1>7. starAt = 1
  <2>1. starAt > 1 => field <= Len(fields)
    BY <1>1 DEF ScanInv
  <2> QED BY <1>5, <1>6, <2>1
<1>8. Passed(listed, fields, field, starAt) = FlattenSeq(AllExpanded(listed, fields))
  BY <1>1, <1>5, <1>6, <1>7, PassedAll
<1>9. /\ offset = Len(FlattenSeq(AllExpanded(listed, fields)))
      /\ Marks(listed, fields, FlattenSeq(AllExpanded(listed, fields)), wildcards, rfToWildcard)
      /\ WildsAdd(listed, fields, Len(fields) + 1, wildcards)
      /\ Filled(listed, wildcards, rfToWildcard)
  BY <1>1, <1>5, <1>8 DEF ScanInv
<1>10. Known(listed, Learnt)
  BY <1>2, <1>3, <1>5, <1>6, <1>9 DEF Known
<1> QED BY <1>2, <1>3, <1>4, <1>5, <1>7, <1>8, <1>10

LEMMA ExpandNothingStep ==
  ASSUME IInv, ExpandNothing
  PROVE  IInv'
<1>1. /\ phase = "expand" /\ wildcards = <<>> /\ origin' = Learnt /\ phase' = "done"
      /\ UNCHANGED <<given, executed, todo, tableSources, scanned>>
  BY DEF ExpandNothing
<1>2. TypeInv /\ RunInv /\ ScanInv /\ CountInv
  BY DEF IInv
<1>3. TypeInv'
  BY <1>1, <1>2 DEF TypeInv, given, scanned, Phases
<1>4. FreshInv' /\ WalkInv'
  BY <1>1 DEF FreshInv, WalkInv
<1>5. RunInv' /\ ScanInv' /\ CountInv'
  BY <1>1, <1>2 DEF RunInv, ScanInv, CountInv, Reading, given, scanned
<1>6. OriginInv'
  <2>1. /\ Learnt # NoOrigin /\ Known(listed, Learnt)
        /\ Learnt.fields = fields /\ Learnt.executed = executed /\ Learnt.wildcards = wildcards
    BY <1>1, LearntFacts
  <2> HIDE DEF Learnt
  <2>2. /\ listed' = listed /\ fields' = fields /\ executed' = executed
    BY <1>1 DEF given
  <2> QED BY <1>1, <2>1, <2>2 DEF OriginInv
<1> QED BY <1>3, <1>4, <1>5, <1>6 DEF IInv

LEMMA ExpandStep ==
  ASSUME IInv, Expand
  PROVE  IInv'
<1> DEFINE unwritable == \E k \in 1 .. Len(fields) : ~Writable(fields[k])
<1>1. CASE unwritable
  <2>1. phase # "done" /\ Fail
    BY <1>1 DEF Expand
  <2> QED BY <2>1, FailStep
<1>2. CASE ~unwritable
  <2>1. /\ phase = "expand" /\ wildcards # <<>> /\ origin' = Learnt
        /\ fields' = FlattenSeq([k \in 1 .. Len(fields) |-> Expanded(fields[k])])
        /\ phase' = "execute"
        /\ executed' = <<>> /\ todo' = <<>> /\ tableSources' = <<>>
        /\ field' = 1 /\ starAt' = 1 /\ offset' = 0
        /\ wildcards' = <<>> /\ rfToWildcard' = <<>>
        /\ UNCHANGED <<from, listed>>
    BY <1>2 DEF Expand
  <2>2. /\ Learnt # NoOrigin /\ Known(listed, Learnt)
        /\ Learnt.fields = fields /\ Learnt.wildcards = wildcards
        /\ tableSources = listed /\ fields \in FieldLists /\ Accepts(listed, fields)
    BY <2>1, LearntFacts
  <2>3. TypeInv /\ listed \in Seq(AllSources)
    BY ListedType DEF IInv
  <2>4. fields' = FlattenSeq(AllExpanded(listed, fields))
    <3>1. ASSUME NEW f
          PROVE  Expanded(f) = ExpandedOver(listed, f)
      BY <2>2 DEF Expanded, ExpandedOver, WildSources, SourcesOf, Texts
    <3>2. [k \in 1 .. Len(fields) |-> Expanded(fields[k])] = AllExpanded(listed, fields)
      BY <3>1 DEF AllExpanded
    <3> QED BY <2>1, <3>2
  <2> HIDE DEF Learnt
  <2>5. fields' \in Seq(AllFields) /\ Len(fields') \in Nat
    <3>1. FlattenSeq(AllExpanded(listed, fields)) \in Seq(PlainFields)
      BY <2>2, <2>3, AllExpandedType, FlattenType DEF TypeInv
    <3>2. PlainFields \subseteq AllFields
      BY DEF PlainFields
    <3> QED BY <2>4, <3>1, <3>2
  <2>6. TypeInv'
    <3>1. /\ <<>> \in Seq(0 .. 0) /\ <<>> \in Seq(FL!Wildcard) /\ <<>> \in Seq(AllSources) /\ Len(<<>>) = 0
      OBVIOUS
    <3>2. MaxResultFields \in Nat
      BY SelectAssumption
    <3> QED BY <2>1, <2>3, <2>5, <3>1, <3>2 DEF TypeInv, Phases
  <2>7. FreshInv' /\ WalkInv' /\ RunInv' /\ ScanInv' /\ CountInv'
    BY <2>1 DEF FreshInv, WalkInv, RunInv, ScanInv, CountInv, Reading
  <2>8. OriginInv'
    BY <2>1, <2>2, <2>4 DEF OriginInv
  <2> QED BY <2>6, <2>7, <2>8 DEF IInv
<1> QED BY <1>1, <1>2

LEMMA UnchangedStep ==
  ASSUME IInv, UNCHANGED vars
  PROVE  IInv'
<1>1. UNCHANGED <<given, phase, executed, todo, tableSources, scanned, origin>>
  BY DEF vars
<1> USE <1>1 DEF given, scanned
<1>2. TypeInv' /\ FreshInv'
  BY DEF IInv, TypeInv, FreshInv
<1>3. WalkInv' /\ RunInv'
  BY DEF IInv, WalkInv, RunInv, Reading
<1>4. ScanInv' /\ CountInv'
  BY DEF IInv, ScanInv, CountInv, Reading
<1>5. OriginInv'
  BY DEF IInv, OriginInv
<1> QED BY <1>2, <1>3, <1>4, <1>5 DEF IInv

LEMMA Inductive == IInv /\ [Next]_vars => IInv'
<1> SUFFICES ASSUME IInv, [Next]_vars
             PROVE  IInv'
  OBVIOUS
<1>1. CASE Next
  BY <1>1, ExecuteStep, CollectJoinStep, CollectNilStep, CollectSourceStep, CheckNamesStep,
     ScanPlainStep, ScanQualifiedStep, ScanStarStep, ScanStarEndStep, CheckCountsStep,
     ExpandNothingStep, ExpandStep, UnchangedStep DEF Next, Stop
<1>2. CASE UNCHANGED vars
  BY <1>2, UnchangedStep
<1> QED BY <1>1, <1>2

THEOREM Invariant == Spec => []IInv
<1>1. Init => IInv
  BY InitStep
<1> QED BY <1>1, Inductive, PTL DEF Spec

\* Counters and indices stay within what they index.
THEOREM TypeCorrect == Spec => []TypeOK
<1>1. IInv => TypeOK
  BY DEF IInv, TypeInv, TypeOK
<1> QED BY <1>1, Invariant, PTL

\* Seen from its field list, the statement only ever makes a field list meta and
\* adds wildcards to it (NewFieldListMeta, addWildcard).
THEOREM FieldListImplemented == Spec => ImplementsFieldList
<1>1. Init => FL!Init
  <2>1. /\ 0 \in 0 .. MaxResultFields /\ <<>> = [i \in 1 .. 0 |-> 0]
    BY SelectAssumption
  <2> QED BY <2>1 DEF Init, FL!Init
<1>2. IInv /\ [Next]_vars => [FL!Next]_(FL!flVars)
  <2> SUFFICES ASSUME IInv, [Next]_vars
               PROVE  FL!Next \/ UNCHANGED FL!flVars
    OBVIOUS
  <2> USE DEF FL!flVars
  <2>1. CASE UNCHANGED <<wildcards, rfToWildcard>>
    BY <2>1
  <2>2. CASE CheckNames
    <3>1. CASE Fail
      BY <3>1 DEF Fail, scanned
    <3>2. CASE ~Fail
      <4> DEFINE n == Len(Compiled(listed, fields))
      <4>1. rfToWildcard' = [i \in 1 .. n |-> 0] /\ UNCHANGED wildcards /\ phase = "collect"
        BY <2>2, <3>2 DEF CheckNames
      <4>2. wildcards' = <<>> /\ TypeInv /\ OriginInv /\ Accepts(listed, fields)
        BY <4>1 DEF IInv, FreshInv, RunInv
      <4>3. n \in 0 .. MaxResultFields
        BY <4>1, <4>2, Counts
      <4> HIDE DEF n
      <4> QED BY <4>1, <4>2, <4>3 DEF FL!Next, FL!New
    <3> QED BY <3>1, <3>2
  <2>3. ASSUME NEW name \in AllRefNames, NEW num \in {Len(src.cols) : src \in AllSources},
               FL!addWildcard(name, offset, num)
        PROVE  FL!Next
    <3>1. offset \in 0 .. MaxResultFields
      <4>1. offset \in Nat /\ num \in Nat /\ offset + num <= Len(rfToWildcard)
            /\ Len(rfToWildcard) \in Nat /\ Len(rfToWildcard) <= MaxResultFields
        BY <2>3, SourceFacts DEF IInv, TypeInv, FL!addWildcard, FL!InBounds
      <4> QED BY <4>1, SelectAssumption
    <3> QED BY <2>3, <3>1 DEF FL!Next, FL!Add
  <2>4. ASSUME InFields, NEW s \in 1 .. Len(listed),
               FL!addWildcard(RefName(listed[s]), offset, Len(listed[s].cols))
        PROVE  FL!Next
    <3>1. listed[s] \in AllSources
      BY <2>4, ScanFacts
    <3> QED BY <2>3, <2>4, <3>1 DEF AllRefNames
  <2>5. CASE ScanQualified
    <3> DEFINE name == UniqueTableName(fields[field].db, fields[field].tbl)
               num == NumResultFields(name)
    <3>1. CASE ~CanAddWildcard(num)
      BY <2>5, <3>1, <2>1 DEF ScanQualified, Fail, scanned
    <3>2. CASE CanAddWildcard(num)
      <4>1. /\ InFields /\ fields[field].kind = "wild" /\ FL!addWildcard(name, offset, num)
        BY <2>5, <3>2 DEF ScanQualified
      <4>2. /\ tableSources = listed /\ listed \in Seq(AllSources) /\ field \in 1 .. Len(fields)
            /\ Accepts(listed, fields)
        BY <4>1, ScanFacts
      <4>3. Named(listed, name) # {}
        BY <4>1, <4>2, AcceptedWilds
      <4>4. PICK s \in 1 .. Len(listed) :
              RefName(listed[s]) = name /\ s = CHOOSE i \in Named(listed, name) : TRUE
        BY <4>1, <4>2, <4>3, WildSource
      <4>5. num = Len(listed[s].cols)
        BY <4>2, <4>3, <4>4 DEF NumResultFields, RefNameTaken
      <4> HIDE DEF num, name
      <4> QED BY <2>4, <4>1, <4>4, <4>5
    <3> QED BY <3>1, <3>2
  <2>6. CASE ScanStar
    <3> DEFINE num == Len(tableSources[starAt].cols)
    <3>1. CASE ~CanAddWildcard(num)
      BY <2>6, <3>1, <2>1 DEF ScanStar, Fail, scanned
    <3>2. CASE CanAddWildcard(num)
      <4>1. /\ InFields /\ starAt <= Len(tableSources)
            /\ FL!addWildcard(RefName(tableSources[starAt]), offset, num)
        BY <2>6, <3>2 DEF ScanStar
      <4>2. tableSources = listed /\ starAt \in 1 .. Len(listed)
        BY <4>1, ScanFacts
      <4> QED BY <2>4, <4>1, <4>2
    <3> QED BY <3>1, <3>2
  <2>7. CASE Expand
    <3>1. CASE Fail
      BY <3>1 DEF Fail, scanned
    <3>2. CASE ~Fail
      <4>1. wildcards' = <<>> /\ rfToWildcard' = <<>>
        BY <2>7, <3>2 DEF Expand
      <4>2. 0 \in 0 .. MaxResultFields /\ <<>> = [i \in 1 .. 0 |-> 0]
        BY SelectAssumption
      <4> QED BY <4>1, <4>2 DEF FL!Next, FL!New
    <3> QED BY <3>1, <3>2
  <2>8. CASE Execute
    BY <2>1, <2>8 DEF Execute, Fail, scanned
  <2>9. CASE CollectJoin \/ CollectNil \/ CollectSource
    BY <2>1, <2>9 DEF CollectJoin, CollectNil, CollectSource, Fail, scanned
  <2>10. CASE ScanPlain \/ ScanStarEnd \/ CheckCounts \/ ExpandNothing
    BY <2>1, <2>10 DEF ScanPlain, ScanStarEnd, CheckCounts, ExpandNothing, Fail, scanned
  <2>11. CASE Stop \/ UNCHANGED vars
    BY <2>1, <2>11 DEF Stop, vars, scanned
  <2> QED BY <2>2, <2>5, <2>6, <2>7, <2>8, <2>9, <2>10, <2>11 DEF Next
<1> QED BY <1>1, <1>2, Invariant, PTL DEF Spec, ImplementsFieldList, FL!Spec

-----------------------------------------------------------------------------
(* What the checks of names and of counts leave: executed or compiled, a   *)
(* statement reads the same.                                               *)

LEMMA SameName ==
  ASSUME NEW srcs, NamesPass(srcs), NEW i \in 1 .. Len(srcs), NEW j \in 1 .. Len(srcs),
         NameChecked(RefName(srcs[i])) = NameChecked(RefName(srcs[j]))
  PROVE  i = j
BY DEF NamesPass, NamesClash

LEMMA LastOfTable ==
  ASSUME NEW db, NEW name
  PROVE  NameChecked(UniqueTableName(db, name)) = name
<1>1. Len(<<db, name>>) = 2 /\ Len(<<name>>) = 1 /\ <<db, name>>[2] = name /\ <<name>>[1] = name
  OBVIOUS
<1> QED BY <1>1 DEF NameChecked, UniqueTableName

\* The table sources a qualified wildcard means, and may take: the one of its name.
LEMMA WildTakes ==
  ASSUME NEW srcs, NamesPass(srcs), NEW f, f.kind = "wild",
         NEW s \in 1 .. Len(srcs), RefName(srcs[s]) = UniqueTableName(f.db, f.tbl)
  PROVE  Meant(srcs, f) = {s} /\ (Taken(srcs, f) = {s} \/ Taken(srcs, f) = {})
<1>1. NameChecked(RefName(srcs[s])) = f.tbl
  BY LastOfTable
<1>2. ASSUME NEW i \in Meant(srcs, f)
      PROVE  i = s
  <2>1. i \in 1 .. Len(srcs) /\ RefName(srcs[i]) = UniqueTableName(f.db, f.tbl)
    BY DEF Meant, Named
  <2> QED BY <2>1, SameName
<1>3. s \in Meant(srcs, f)
  BY DEF Meant, Named
<1>4. ASSUME NEW i \in Taken(srcs, f)
      PROVE  i = s
  <2>1. /\ i \in 1 .. Len(srcs)
        /\ <<f.tbl>> = IF srcs[i].as # <<>> THEN srcs[i].as ELSE <<srcs[i].name>>
    BY DEF Taken, Takes
  <2>2. CASE srcs[i].as # <<>>
    <3>1. RefName(srcs[i]) = <<f.tbl>>
      BY <2>1, <2>2 DEF RefName
    <3>2. NameChecked(RefName(srcs[i])) = f.tbl
      BY <3>1 DEF NameChecked
    <3> QED BY <1>1, <2>1, <3>2, SameName
  <2>3. CASE srcs[i].as = <<>>
    <3>1. RefName(srcs[i]) = UniqueTableName(srcs[i].db, f.tbl)
      BY <2>1, <2>3 DEF RefName
    <3> QED BY <1>1, <2>1, <3>1, SameName, LastOfTable
  <2> QED BY <2>2, <2>3
<1> QED BY <1>2, <1>3, <1>4

LEMMA PartsOne ==
  ASSUME NEW srcs \in Seq(AllSources), NEW s \in 1 .. Len(srcs)
  PROVE  FlattenSeq(Parts(srcs, {s})) = Columns(srcs, s) /\ FlattenSeq(Parts(srcs, {})) = <<>>
<1> DEFINE X == Results(srcs, <<>>)
           one == Parts(srcs, {s})
           none == Parts(srcs, {})
<1>1. one \in Seq(Seq(X)) /\ none \in Seq(Seq(X)) /\ Len(one) = Len(srcs) /\ Len(none) = Len(srcs)
  BY PartsType
<1>2. /\ one[s] = Columns(srcs, s)
      /\ \A i \in 1 .. Len(srcs) : (i # s => one[i] = <<>>) /\ none[i] = <<>>
  BY DEF Parts
<1> HIDE DEF X, one, none
<1>3. FlattenSeq(one) = one[s]
  BY <1>1, <1>2, FlattenOnly
<1>4. FlattenSeq(none) = <<>>
  BY <1>1, <1>2, FlattenNothing
<1> QED BY <1>2, <1>3, <1>4 DEF one, none

\* An executed wildcard takes what a compiled one means, or nothing; and nothing not,
\* if the statement has as many result fields.
LEMMA ExecutedAsCompiled ==
  ASSUME NEW srcs \in Seq(AllSources), NamesPass(srcs), NEW fs \in Seq(AllFields), Accepts(srcs, fs),
         Len(Executed(srcs, fs)) = Len(Compiled(srcs, fs))
  PROVE  ExecutedBy(srcs, fs) = CompiledBy(srcs, fs)
<1> DEFINE X == Results(srcs, fs)
           part == ExecutedBy(srcs, fs)
           whole == CompiledBy(srcs, fs)
<1>1. part \in Seq(Seq(X)) /\ whole \in Seq(Seq(X)) /\ Len(part) = Len(fs) /\ Len(whole) = Len(fs)
  <2>1. Len(fs) \in Nat
    OBVIOUS
  <2> QED BY <2>1, ResultsType
<1>2. Len(FlattenSeq(part)) = Len(FlattenSeq(whole))
  BY ExecutedAs, CompiledAs
<1>3. ASSUME NEW k \in 1 .. Len(fs)
      PROVE  part[k] = whole[k] \/ part[k] = <<>>
  <2> DEFINE f == fs[k]
  <2>1. part[k] = FieldResults(srcs, f, Taken(srcs, f)) /\ whole[k] = FieldResults(srcs, f, Meant(srcs, f))
    BY DEF ExecutedBy, CompiledBy
  <2>2. CASE ~IsWild(f)
    BY <2>1, <2>2 DEF FieldResults
  <2>3. CASE f.kind = "star"
    BY <2>1, <2>3 DEF Taken, Meant, Takes
  <2>4. CASE f.kind = "wild"
    <3>1. PICK s \in 1 .. Len(srcs) : RefName(srcs[s]) = UniqueTableName(f.db, f.tbl)
      <4>1. Named(srcs, UniqueTableName(f.db, f.tbl)) # {}
        BY <2>4, AcceptedWilds
      <4> QED BY <2>4, <4>1, WildSource
    <3>2. Meant(srcs, f) = {s} /\ (Taken(srcs, f) = {s} \/ Taken(srcs, f) = {})
      BY <2>4, <3>1, WildTakes
    <3> QED BY <2>1, <2>4, <3>2, PartsOne DEF FieldResults, IsWild
  <2> QED BY <2>2, <2>3, <2>4 DEF IsWild
<1> HIDE DEF X, part, whole
<1>4. Thinned(part, whole)
  BY <1>1, <1>3 DEF Thinned
<1>5. part = whole
  BY <1>1, <1>2, <1>4, FlattenThinned
<1> QED BY <1>5 DEF part, whole

\* What is known of the original statement in the end.
LEMMA OriginFacts ==
  ASSUME NEW srcs \in Seq(AllSources), NEW o, Known(srcs, o)
  PROVE  /\ o.fields \in Seq(AllFields) /\ Len(o.fields) \in Nat
         /\ o.executed = Compiled(srcs, o.fields)
         /\ ExecutedBy(srcs, o.fields) = CompiledBy(srcs, o.fields)
         /\ AllExpanded(srcs, o.fields) \in Seq(Seq(PlainFields))
<1>1. /\ o.fields \in FieldLists /\ Accepts(srcs, o.fields) /\ NamesPass(srcs)
      /\ o.executed = Executed(srcs, o.fields)
      /\ Len(Executed(srcs, o.fields)) = Len(Compiled(srcs, o.fields))
  BY DEF Known
<1>2. o.fields \in Seq(AllFields) /\ Len(o.fields) \in Nat
  <2>1. o.fields \in Seq(UserFields) /\ UserFields \subseteq AllFields
    BY <1>1, UserFieldFacts DEF AllFields
  <2> QED BY <2>1
<1>3. ExecutedBy(srcs, o.fields) = CompiledBy(srcs, o.fields)
  BY <1>1, <1>2, ExecutedAsCompiled
<1> QED BY <1>1, <1>2, <1>3, ExecutedAs, CompiledAs, AllExpandedType

\* "tbl.*" of an accepted statement draws from a single table source (CASE 2 of
\* NewTableRefsMeta and the counts that NewFieldListMeta compares).
THEOREM OneSource == Spec => []SingleSource
<1>1. IInv => SingleSource
  <2> SUFFICES ASSUME IInv, phase = "done", NEW k \in 1 .. Len(origin.fields),
                      origin.fields[k].kind = "wild"
               PROVE  Cardinality({i \in 1 .. Len(listed) : Takes(listed, origin.fields[k], i)}) = 1
    BY DEF SingleSource
  <2> DEFINE f == origin.fields[k]
  <2>1. Known(listed, origin) /\ listed \in Seq(AllSources)
    BY ListedType DEF IInv, OriginInv
  <2>2. /\ Accepts(listed, origin.fields) /\ NamesPass(listed)
        /\ WildsAdd(listed, origin.fields, Len(origin.fields) + 1, origin.wildcards)
        /\ Len(origin.fields) \in Nat
        /\ ExecutedBy(listed, origin.fields) = CompiledBy(listed, origin.fields)
    BY <2>1, OriginFacts DEF Known
  <2>3. PICK s \in 1 .. Len(listed) :
          RefName(listed[s]) = UniqueTableName(f.db, f.tbl) /\ SourcesOf(listed, f) = <<listed[s]>>
    <3>1. Named(listed, UniqueTableName(f.db, f.tbl)) # {}
      BY <2>2, AcceptedWilds
    <3> QED BY <2>1, <3>1, WildSource
  <2>4. Meant(listed, f) = {s} /\ (Taken(listed, f) = {s} \/ Taken(listed, f) = {})
    BY <2>2, <2>3, WildTakes
  <2>5. Len(listed[s].cols) > 0
    <3>1. k \in 1 .. (Len(origin.fields) + 1) - 1
      BY <2>2
    <3>2. Len(SourcesOf(listed, f)[1].cols) > 0
      BY <2>2, <3>1 DEF WildsAdd, IsWild
    <3> QED BY <2>3, <3>2
  <2>6. FieldResults(listed, f, Taken(listed, f)) = FieldResults(listed, f, Meant(listed, f))
    BY <2>2 DEF ExecutedBy, CompiledBy
  <2>7. Columns(listed, s) # <<>>
    <3>1. Len(Columns(listed, s)) = Len(listed[s].cols)
      BY <2>1, ColumnsType
    <3> QED BY <2>5, <3>1
  <2>8. Taken(listed, f) = {s}
    BY <2>1, <2>4, <2>6, <2>7, PartsOne DEF FieldResults, IsWild
  <2> QED BY <2>8, FS_Singleton DEF Taken
<1> QED BY <1>1, Invariant, PTL

-----------------------------------------------------------------------------
(* What a text written by ExpandWildcard means.                            *)

LEMMA ColumnReads ==
  ASSUME NoDifferences, NEW srcs \in Seq(AllSources), NamesPass(srcs), NEW fs, Accepts(srcs, fs),
         NEW s \in 1 .. Len(srcs), NEW c \in 1 .. Len(srcs[s].cols),
         NEW k \in 1 .. Len(fs), fs[k] = ColumnTexts(srcs[s])[c]
  PROVE  FieldReads(srcs, fs[k]) = <<s, c>>
<1> DEFINE ref == RefName(srcs[s])
           col == srcs[s].cols[c]
           parts == Append(ref, col)
           L == Len(ref)
<1>1. srcs[s] \in AllSources
  OBVIOUS
<1>2. L \in {1, 2} /\ \E S : ref \in Seq(S)
  BY <1>1, SourceFacts DEF NamesPass, TableParts
<1>3. /\ Len(parts) = L + 1 /\ parts[L + 1] = col /\ \A n \in 1 .. L : parts[n] = ref[n]
      /\ NameChecked(ref) = parts[L]
  <2>1. PICK S : ref \in Seq(S)
    BY <1>2
  <2>2. ref \in Seq(S \union {col}) /\ col \in S \union {col}
    BY <2>1
  <2> HIDE DEF ref, col
  <2>3. Len(parts) = L + 1 /\ parts[L + 1] = col /\ \A n \in 1 .. L : parts[n] = ref[n]
    BY <2>2
  <2>4. L \in 1 .. L
    <3> HIDE DEF L
    <3> QED BY <1>2
  <2> QED BY <2>3, <2>4 DEF NameChecked
<1>4. fs[k].kind = "text" /\ fs[k].parts = parts
  <2>1. fs[k] = Text(parts)
    BY <1>1, ColumnTextsFacts
  <2> QED BY <2>1 DEF Text
<1> HIDE DEF parts
<1>5. NamesIn(parts) = <<parts>>
  <2>1. ASSUME NEW n \in 1 .. Len(parts)
        PROVE  parts[n] \notin DOMAIN Hyphened
    <3>1. CASE n = L + 1
      BY <1>1, <1>3, <3>1 DEF NoDifferences
    <3>2. CASE n # L + 1
      <4>1. n \in 1 .. L
        BY <1>2, <1>3, <3>2
      <4> QED BY <1>1, <1>3, <4>1 DEF NoDifferences
    <3> QED BY <3>1, <3>2
  <2> QED BY <2>1 DEF NamesIn
<1> DEFINE M == Meanings(srcs, parts)
<1>6. Cardinality(M) = 1
  <2>1. \A n \in 1 .. Len(NamesIn(fs[k].parts)) : Cardinality(Meanings(srcs, NamesIn(fs[k].parts)[n])) = 1
    BY <1>4, Zenon DEF Accepts
  <2>2. Len(<<parts>>) = 1 /\ <<parts>>[1] = parts /\ 1 \in 1 .. 1
    OBVIOUS
  <2> QED BY <1>4, <1>5, <2>1, <2>2
<1> DEFINE qualified(src) ==
             \/ Len(parts) = 2 /\ RefName(src) = <<parts[1]>>
             \/ Len(parts) = 3 /\ RefName(src) = UniqueTableName(parts[1], parts[2])
           those == {j \in 1 .. Len(srcs) : qualified(srcs[j])}
           alike(i) == {d \in 1 .. Len(srcs[i].cols) : srcs[i].cols[d] = col}
<1>7. M = UNION {{<<i, d>> : d \in alike(i)} : i \in those}
  <2>1. Len(parts) \in {2, 3} /\ parts[Len(parts)] = col
    <3> HIDE DEF ref, col, L
    <3> QED BY <1>2, <1>3
  <2>2. CASE Len(parts) = 2
    BY <2>1, <2>2 DEF Meanings
  <2>3. CASE Len(parts) = 3
    BY <2>1, <2>3 DEF Meanings
  <2> QED BY <2>1, <2>2, <2>3
<1>8. ASSUME NEW i \in those
      PROVE  i = s
  <2>1. NameChecked(RefName(srcs[i])) = parts[L]
    <3>1. CASE Len(parts) = 2 /\ RefName(srcs[i]) = <<parts[1]>>
      BY <1>2, <1>3, <3>1 DEF NameChecked
    <3>2. CASE Len(parts) = 3 /\ RefName(srcs[i]) = UniqueTableName(parts[1], parts[2])
      BY <1>2, <1>3, <3>2, LastOfTable
    <3> QED BY <3>1, <3>2
  <2> QED BY <1>3, <2>1, SameName
<1> HIDE DEF qualified, those
<1>9. M \subseteq {<<s, d>> : d \in 1 .. Len(srcs[s].cols)}
  BY <1>7, <1>8
<1>10. IsFiniteSet(M)
  <2> DEFINE D == 1 .. Len(srcs[s].cols)
             f == [d \in D |-> <<s, d>>]
             T == {<<s, d>> : d \in D}
  <2>1. IsFiniteSet(D)
    <3> DEFINE n == Len(srcs[s].cols)
    <3>1. n \in Int /\ 1 \in Int
      BY <1>1, SourceFacts
    <3> HIDE DEF n
    <3>2. IsFiniteSet(1 .. n)
      BY <3>1, FS_Interval
    <3> QED BY <3>2 DEF n
  <2>2. f \in Surjection(D, T)
    BY DEF Surjection
  <2>3. IsFiniteSet(T)
    <3> HIDE DEF D, f, T
    <3> QED BY <2>1, <2>2, FS_Surjection
  <2> QED BY <1>9, <2>3, FS_Subset
<1>11. PICK x : M = {x}
  BY <1>6, <1>10, FS_Singleton
<1>12. x = <<s, c>>
  <2>1. PICK i \in those : \E d \in alike(i) : x = <<i, d>>
    BY <1>7, <1>11
  <2>2. s \in those
    BY <1>8, <2>1
  <2>3. <<s, c>> \in M
    BY <1>7, <2>2
  <2> QED BY <1>11, <2>3
<1>13. TextReads(srcs, parts) = <<s, c>>
  <2>1. (CHOOSE m \in M : TRUE) = <<s, c>>
    BY <1>11, <1>12
  <2>2. [n \in 1 .. 1 |-> CHOOSE m \in Meanings(srcs, <<parts>>[n]) : TRUE] = << <<s, c>> >>
    BY <2>1
  <2>3. <<s, c>> \in Seq({s, c}) /\ Len(<<parts>>) = 1
    OBVIOUS
  <2>4. FlattenSeq(<< <<s, c>> >>) = <<s, c>>
    BY <2>3, FlattenOne
  <2> QED BY <1>5, <2>2, <2>3, <2>4 DEF TextReads
<1> QED BY <1>4, <1>13 DEF FieldReads

\* When a statement is done, its fields are those of the original one expanded.
LEMMA DoneFacts ==
  ASSUME IInv, phase = "done"
  PROVE  /\ listed \in Seq(AllSources) /\ Known(listed, origin) /\ NamesPass(listed)
         /\ Accepts(listed, fields) /\ fields \in Seq(PlainFields)
         /\ \A k \in 1 .. Len(fields) : ~IsWild(fields[k])
         /\ fields = FlattenSeq(AllExpanded(listed, origin.fields))
         /\ executed = [k \in 1 .. Len(fields) |-> FieldReads(listed, fields[k])]
         /\ Len(executed) = Len(fields) /\ Len(executed) = Len(origin.rfToWildcard)
<1>1. TypeInv /\ OriginInv /\ RunInv /\ listed \in Seq(AllSources)
  BY ListedType DEF IInv
<1>2. /\ Known(listed, origin) /\ NamesPass(listed)
      /\ Accepts(listed, fields) /\ executed = Executed(listed, fields)
      /\ fields \in Seq(AllFields)
  BY <1>1 DEF OriginInv, RunInv, Reading, TypeInv
<1>3. /\ origin.fields \in Seq(AllFields) /\ Len(origin.fields) \in Nat
      /\ AllExpanded(listed, origin.fields) \in Seq(Seq(PlainFields))
      /\ Len(origin.rfToWildcard) = Len(FlattenSeq(AllExpanded(listed, origin.fields)))
      /\ WildsAdd(listed, origin.fields, Len(origin.fields) + 1, origin.wildcards)
  BY <1>1, <1>2, OriginFacts DEF Known
<1>4. fields = FlattenSeq(AllExpanded(listed, origin.fields))
  <2>1. CASE origin.wildcards # <<>>
    BY <1>1, <2>1 DEF OriginInv
  <2>2. CASE origin.wildcards = <<>>
    <3>1. fields = origin.fields
      BY <1>1, <2>2 DEF OriginInv
    <3>2. ASSUME NEW k \in 1 .. Len(fields)
          PROVE  ExpandedOver(listed, fields[k]) = <<fields[k]>>
      <4>1. k \in 1 .. (Len(fields) + 1) - 1
        BY <1>3, <3>1
      <4>2. ~IsWild(fields[k])
        BY <1>3, <2>2, <3>1, <4>1 DEF WildsAdd
      <4> QED BY <4>2, PlainExpanded
    <3>3. AllExpanded(listed, fields) = [k \in 1 .. Len(fields) |-> <<fields[k]>>]
      BY <3>2 DEF AllExpanded
    <3> QED BY <1>2, <3>1, <3>3, FlattenSingles
  <2> QED BY <2>1, <2>2
<1>5. fields \in Seq(PlainFields)
  BY <1>3, <1>4, FlattenType
<1>6. \A k \in 1 .. Len(fields) : ~IsWild(fields[k])
  <2>1. \A k \in 1 .. Len(fields) : fields[k] \in PlainFields
    BY <1>5
  <2> QED BY <2>1 DEF PlainFields
<1>7. /\ executed = [k \in 1 .. Len(fields) |-> FieldReads(listed, fields[k])]
      /\ Len(executed) = Len(fields)
  BY <1>2, <1>6, PlainResults
<1> QED BY <1>1, <1>2, <1>3, <1>4, <1>5, <1>6, <1>7

-----------------------------------------------------------------------------
(* What the template learns of a result field.                             *)

TableAt(i) ==
  {s \in Named(listed, OriginFL!WildcardTableRefName(i)) :
     listed[s].kind = "table" /\ listed[s].db = DBName}

MapAt(i)    == origin.rfToWildcard[i]
ColumnAt(i) == OriginFL!WildcardColumnOffset(i)

\* A result field is in a wildcard of the original statement, as the column there.
InWild(i, s) ==
  /\ MapAt(i) # 0
  /\ OriginFL!WildcardTableRefName(i) = RefName(listed[s]) /\ Named(listed, RefName(listed[s])) = {s}
  /\ ColumnAt(i) \in 1 .. Len(listed[s].cols)
  /\ fields[i] = ColumnTexts(listed[s])[ColumnAt(i)]

LEMMA OutsideOrIn ==
  ASSUME IInv, phase = "done", NEW i \in 1 .. Len(executed)
  PROVE  \/ MapAt(i) = 0 /\ TableAt(i) = {} /\ executed[i] = <<>>
         \/ \E s \in 1 .. Len(listed) : InWild(i, s)
<1> DEFINE m == MapAt(i)
<1>1. /\ listed \in Seq(AllSources) /\ Len(listed) \in Nat
      /\ Known(listed, origin) /\ NamesPass(listed)
      /\ fields = FlattenSeq(AllExpanded(listed, origin.fields))
      /\ executed = [k \in 1 .. Len(fields) |-> FieldReads(listed, fields[k])]
      /\ Len(executed) = Len(fields) /\ Len(executed) = Len(origin.rfToWildcard)
  BY DoneFacts, ListedType DEF IInv
<1>2. /\ origin.fields \in FieldLists
      /\ Marks(listed, origin.fields, fields, origin.wildcards, origin.rfToWildcard)
      /\ origin.rfToWildcard \in Seq(0 .. Len(origin.wildcards))
  BY <1>1 DEF Known
<1>3. i \in 1 .. Len(origin.rfToWildcard) /\ i \in 1 .. Len(fields) /\ i <= Len(fields) /\ m \in Nat
  BY <1>1, <1>2 DEF MapAt
<1>4. executed[i] = FieldReads(listed, fields[i])
  BY <1>1, <1>3
<1>5. MarkFits(listed, origin.fields, fields, origin.wildcards, origin.rfToWildcard, i)
  BY <1>2, <1>3 DEF Marks, MarkFits
<1>6. \A s \in 1 .. Len(listed) : RefName(listed[s]) # OriginFL!NoName
  BY <1>1, SourceFacts DEF OriginFL!NoName
<1>7. CASE m = 0
  <2>1. OriginFL!WildcardTableRefName(i) = OriginFL!NoName
    BY <1>7 DEF OriginFL!WildcardTableRefName, OriginFL!InWildcard, MapAt
  <2>2. PICK k \in 1 .. Len(origin.fields) : fields[i] = origin.fields[k]
    BY <1>3, <1>5, <1>7 DEF MarkFits, MapAt
  <2>3. fields[i].kind # "text"
    BY <1>2, <2>2, UserFieldFacts
  <2>4. TableAt(i) = {}
    BY <1>6, <2>1 DEF TableAt, Named
  <2> QED BY <1>4, <1>7, <2>3, <2>4 DEF FieldReads
<1>8. CASE m # 0
  <2> DEFINE wc == origin.wildcards[m]
  <2>1. PICK s \in 1 .. Len(listed) :
          /\ wc.refName = RefName(listed[s])
          /\ i - wc.offset \in 1 .. Len(listed[s].cols)
          /\ fields[i] = ColumnTexts(listed[s])[i - wc.offset]
    BY <1>3, <1>5, <1>8 DEF MarkFits, MapAt
  <2>2. /\ OriginFL!WildcardTableRefName(i) = RefName(listed[s])
        /\ ColumnAt(i) = i - wc.offset
    BY <1>3, <1>8, <2>1
       DEF OriginFL!WildcardTableRefName, OriginFL!WildcardColumnOffset, OriginFL!InWildcard,
           MapAt, ColumnAt
  <2>3. Named(listed, RefName(listed[s])) = {s}
    <3>1. ASSUME NEW j \in 1 .. Len(listed), RefName(listed[j]) = RefName(listed[s])
          PROVE  j = s
      BY <1>1, <3>1, SameName
    <3> QED BY <3>1 DEF Named
  <2> QED BY <1>8, <2>1, <2>2, <2>3 DEF InWild
<1> QED BY <1>7, <1>8

\* The column there is what it reads.
LEMMA InWildReads ==
  ASSUME NoDifferences, IInv, phase = "done", NEW i \in 1 .. Len(executed),
         NEW s \in 1 .. Len(listed), InWild(i, s)
  PROVE  executed[i] = <<s, ColumnAt(i)>>
<1>1. /\ listed \in Seq(AllSources) /\ NamesPass(listed) /\ Accepts(listed, fields)
      /\ executed = [k \in 1 .. Len(fields) |-> FieldReads(listed, fields[k])]
      /\ Len(executed) = Len(fields)
  BY DoneFacts
<1>2. ColumnAt(i) \in 1 .. Len(listed[s].cols) /\ fields[i] = ColumnTexts(listed[s])[ColumnAt(i)]
  BY DEF InWild
<1> QED BY <1>1, <1>2, ColumnReads

\* When a statement is accepted, the template can tell, from what was learnt of the
\* original statement, where each result field of the expanded one comes from
\* (WildcardTableRefName, WildcardColumnOffset).
THEOREM FieldsIdentified ==
  ASSUME NoDifferences
  PROVE  Spec => []ResultFieldsIdentified
<1>1. IInv => ResultFieldsIdentified
  <2> SUFFICES ASSUME IInv, phase = "done"
               PROVE  ResultFieldsIdentified
    BY DEF ResultFieldsIdentified
  <2>1. listed \in Seq(AllSources) /\ Len(executed) = Len(origin.rfToWildcard)
    BY DoneFacts
  <2>2. ASSUME NEW i \in 1 .. Len(executed)
        PROVE  LET name == OriginFL!WildcardTableRefName(i)
               IN  IF name = OriginFL!NoName THEN executed[i] = <<>>
                   ELSE \E s \in 1 .. Len(listed) :
                          /\ Named(listed, name) = {s}
                          /\ executed[i] = <<s, OriginFL!WildcardColumnOffset(i)>>
    <3>1. CASE MapAt(i) = 0 /\ executed[i] = <<>>
      <4>1. OriginFL!WildcardTableRefName(i) = OriginFL!NoName
        BY <3>1 DEF OriginFL!WildcardTableRefName, OriginFL!InWildcard, MapAt
      <4> QED BY <3>1, <4>1
    <3>2. ASSUME NEW s \in 1 .. Len(listed), InWild(i, s)
          PROVE  /\ OriginFL!WildcardTableRefName(i) # OriginFL!NoName
                 /\ Named(listed, OriginFL!WildcardTableRefName(i)) = {s}
                 /\ executed[i] = <<s, OriginFL!WildcardColumnOffset(i)>>
      <4>1. RefName(listed[s]) # OriginFL!NoName
        BY <2>1, SourceFacts DEF OriginFL!NoName
      <4> QED BY <3>2, <4>1, InWildReads DEF InWild, ColumnAt
    <3> QED BY <3>1, <3>2, OutsideOrIn
  <2> QED BY <2>1, <2>2 DEF ResultFieldsIdentified
<1> QED BY <1>1, Invariant, PTL

\* The statement expanded reads what the original one did.
LEMMA SameResults ==
  ASSUME NoDifferences, IInv, phase = "done"
  PROVE  executed = origin.executed
<1> DEFINE of == origin.fields
           all == AllExpanded(listed, of)
           Y == Results(listed, of) \union {FieldReads(listed, f) : f \in PlainFields}
           g == [f \in PlainFields |-> FieldReads(listed, f)]
           whole == CompiledBy(listed, of)
<1>1. /\ listed \in Seq(AllSources) /\ Len(listed) \in Nat
      /\ Known(listed, origin) /\ NamesPass(listed) /\ Accepts(listed, fields)
      /\ fields \in Seq(PlainFields) /\ fields = FlattenSeq(all)
      /\ executed = [k \in 1 .. Len(fields) |-> FieldReads(listed, fields[k])]
  BY DoneFacts, ListedType DEF IInv
<1>2. /\ of \in Seq(AllFields) /\ Len(of) \in Nat /\ Accepts(listed, of)
      /\ origin.executed = FlattenSeq(whole) /\ all \in Seq(Seq(PlainFields)) /\ Len(all) = Len(of)
      /\ \A k \in 1 .. Len(of) : all[k] = ExpandedOver(listed, of[k])
      /\ Len(whole) = Len(of)
      /\ \A k \in 1 .. Len(of) : whole[k] = FieldResults(listed, of[k], Meant(listed, of[k]))
  <2>1. of \in Seq(AllFields) /\ Len(of) \in Nat /\ Accepts(listed, of)
        /\ origin.executed = FlattenSeq(whole)
    BY <1>1, OriginFacts, CompiledAs DEF Known
  <2> QED BY <1>1, <2>1, AllExpandedType, ResultsType DEF CompiledBy
<1>3. IsMap(g, PlainFields, Y)
  BY DEF IsMap
<1>4. executed = Mapped(g, fields)
  <2>1. \A k \in 1 .. Len(fields) : g[fields[k]] = FieldReads(listed, fields[k])
    BY <1>1
  <2> QED BY <1>1, <2>1 DEF Mapped
\* The texts of a table source's columns mean its columns.
<1>5. ASSUME NEW k \in 1 .. Len(of), NEW s \in 1 .. Len(listed),
             \A c \in 1 .. Len(listed[s].cols) :
               \E n \in 1 .. Len(all[k]) : all[k][n] = ColumnTexts(listed[s])[c]
      PROVE  Mapped(g, ColumnTexts(listed[s])) = Columns(listed, s)
  <2> DEFINE texts == ColumnTexts(listed[s])
  <2>1. texts \in Seq(PlainFields) /\ Len(texts) = Len(listed[s].cols)
    BY <1>1, ColumnTextsFacts
  <2>2. ASSUME NEW c \in 1 .. Len(listed[s].cols)
        PROVE  g[texts[c]] = <<s, c>>
    <3>1. PICK n \in 1 .. Len(all[k]) : all[k][n] = texts[c]
      BY <1>5
    <3>2. PICK i \in 1 .. Len(fields) : fields[i] = texts[c]
      <4> DEFINE S == PlainFields
      <4>1. all \in Seq(Seq(S)) /\ k \in 1 .. Len(all) /\ n \in 1 .. Len(all[k])
        BY <1>2
      <4> HIDE DEF texts, all, S
      <4>2. \E i \in 1 .. Len(FlattenSeq(all)) : FlattenSeq(all)[i] = all[k][n]
        BY ONLY <4>1, FlattenHas
      <4> QED BY <1>1, <3>1, <4>2
    <3>3. FieldReads(listed, fields[i]) = <<s, c>>
      BY <1>1, <3>2, ColumnReads
    <3>4. texts[c] \in PlainFields
      BY <2>1
    <3> QED BY <3>2, <3>3, <3>4
  <2> HIDE DEF texts, g
  <2> QED BY <2>1, <2>2 DEF Mapped, Columns, texts
<1>6. ASSUME NEW k \in 1 .. Len(of)
      PROVE  whole[k] = Mapped(g, all[k])
  <2> DEFINE f == of[k]
  <2>1. whole[k] = FieldResults(listed, f, Meant(listed, f)) /\ all[k] = ExpandedOver(listed, f)
    BY <1>2
  <2>2. CASE ~IsWild(f)
    <3>1. all[k] = <<f>> /\ whole[k] = <<FieldReads(listed, f)>>
      BY <2>1, <2>2, PlainExpanded DEF FieldResults
    <3>2. f \in PlainFields
      BY <1>2, <2>2 DEF PlainFields
    <3>3. Mapped(g, <<f>>) = <<g[f]>>
      BY DEF Mapped
    <3> QED BY <3>1, <3>2, <3>3
  <2>3. CASE f.kind = "star"
    <3> DEFINE texts == Texts(listed)
    <3>1. all[k] = FlattenSeq(texts)
      BY <2>1, <2>3, StarExpanded
    <3>2. texts \in Seq(Seq(PlainFields)) /\ Len(texts) = Len(listed)
          /\ \A i \in 1 .. Len(listed) : texts[i] = ColumnTexts(listed[i])
      BY <1>1, TextsFacts
    <3>3. ASSUME NEW i \in 1 .. Len(listed)
          PROVE  Mapped(g, texts[i]) = Columns(listed, i)
      <4>1. ASSUME NEW c \in 1 .. Len(listed[i].cols)
            PROVE  \E n \in 1 .. Len(all[k]) : all[k][n] = ColumnTexts(listed[i])[c]
        <5> DEFINE S == PlainFields
        <5>1. texts \in Seq(Seq(S)) /\ c \in 1 .. Len(texts[i]) /\ i \in 1 .. Len(texts)
          BY <1>1, <3>2, ColumnTextsFacts
        <5> HIDE DEF texts, all, S
        <5>2. \E n \in 1 .. Len(FlattenSeq(texts)) : FlattenSeq(texts)[n] = texts[i][c]
          BY ONLY <5>1, FlattenHas
        <5> QED BY <3>1, <3>2, <5>2
      <4> QED BY <1>5, <3>2, <4>1
    <3>4. Parts(listed, Meant(listed, f)) = [i \in 1 .. Len(texts) |-> Mapped(g, texts[i])]
      <4>1. \A i \in 1 .. Len(listed) : i \in Meant(listed, f)
        BY <2>3 DEF Meant
      <4> HIDE DEF texts, g
      <4> QED BY <3>2, <3>3, <4>1 DEF Parts
    <3>5. FlattenSeq(Parts(listed, Meant(listed, f))) = Mapped(g, FlattenSeq(texts))
      <4> DEFINE images == Parts(listed, Meant(listed, f))
                 S == PlainFields
      <4>1. /\ texts \in Seq(Seq(S)) /\ IsMap(g, S, Y)
            /\ images = [i \in 1 .. Len(texts) |-> Mapped(g, texts[i])]
        BY <1>3, <3>2, <3>4
      <4> HIDE DEF texts, g, Y, images, S
      <4>2. FlattenSeq(images) = Mapped(g, FlattenSeq(texts))
        BY ONLY <4>1, FlattenMapped
      <4> QED BY <4>2 DEF images
    <3> QED BY <2>1, <2>3, <3>1, <3>5 DEF FieldResults, IsWild
  <2>4. CASE f.kind = "wild"
    <3>1. Named(listed, UniqueTableName(f.db, f.tbl)) # {}
      BY <1>2, <2>4, AcceptedWilds
    <3>2. PICK s \in 1 .. Len(listed) :
            /\ RefName(listed[s]) = UniqueTableName(f.db, f.tbl)
            /\ all[k] = ColumnTexts(listed[s])
      BY <1>1, <2>1, <2>4, <3>1, WildSource
    <3>3. whole[k] = Columns(listed, s)
      BY <1>1, <2>1, <2>4, <3>2, WildTakes, PartsOne DEF FieldResults, IsWild
    <3>4. Len(all[k]) = Len(listed[s].cols)
      BY <1>1, <3>2, ColumnTextsFacts
    <3>5. Mapped(g, ColumnTexts(listed[s])) = Columns(listed, s)
      BY <1>5, <3>2, <3>4
    <3> QED BY <3>2, <3>3, <3>5
  <2> QED BY <2>2, <2>3, <2>4 DEF IsWild
<1>7. whole = [k \in 1 .. Len(all) |-> Mapped(g, all[k])]
  <2>1. whole = [k \in 1 .. Len(of) |-> whole[k]]
    BY DEF CompiledBy
  <2> HIDE DEF whole, g, all
  <2> QED BY <1>2, <1>6, <2>1
<1>8. FlattenSeq(whole) = Mapped(g, FlattenSeq(all))
  <2> HIDE DEF whole, g, all, Y
  <2> QED BY <1>2, <1>3, <1>7, FlattenMapped
<1> QED BY <1>1, <1>2, <1>4, <1>8

\* ExpandWildcard returns an equivalent statement without wildcards (dml_meta.go:440).
THEOREM Equivalent ==
  ASSUME NoDifferences
  PROVE  Spec => []ExpandedEquivalent
<1>1. IInv => ExpandedEquivalent
  BY SameResults, DoneFacts DEF ExpandedEquivalent
<1> QED BY <1>1, Invariant, PTL

-----------------------------------------------------------------------------
(* The names of members.                                                   *)

AnyStrings == [stem : Words \union {"NoNameField"}, sfx : Seq(Nat)]

\* Different numbers after a string make different strings.
LEMMA CandidateInjective ==
  ASSUME NEW t \in AnyStrings, NEW i \in Nat, NEW j \in Nat,
         NameList!Candidate(t, i) = NameList!Candidate(t, j)
  PROVE  i = j
<1>1. CASE i = 0 /\ j = 0
  BY <1>1
<1>2. ASSUME NEW n \in Nat
      PROVE  Len(Append(t.sfx, n)) # Len(t.sfx)
  BY DEF AnyStrings
<1>3. CASE i # 0 /\ j = 0
  BY <1>2, <1>3 DEF NameList!Candidate, AnyStrings
<1>4. CASE i = 0 /\ j # 0
  BY <1>2, <1>4 DEF NameList!Candidate, AnyStrings
<1>5. CASE i # 0 /\ j # 0
  <2>1. Append(t.sfx, i) = Append(t.sfx, j)
    BY <1>5 DEF NameList!Candidate, AnyStrings
  <2> QED BY <2>1 DEF AnyStrings
<1> QED
  BY <1>1, <1>3, <1>4, <1>5

LEMMA CandidateType ==
  ASSUME NEW t \in AnyStrings, NEW n \in Nat
  PROVE  NameList!Candidate(t, n) \in AnyStrings
<1>1. Append(t.sfx, n) \in Seq(Nat)
  BY DEF AnyStrings
<1> QED
  BY <1>1 DEF NameList!Candidate, AnyStrings

\* A list has finitely many strings.
LEMMA smapFinite ==
  ASSUME names \in Seq(AnyStrings)
  PROVE  IsFiniteSet(NameList!smap)
<1> DEFINE f == [n \in 1 .. Len(names) |-> names[n]]
<1>1. IsFiniteSet(1 .. Len(names))
  BY FS_Interval
<1>2. f \in Surjection(1 .. Len(names), NameList!smap)
  BY DEF NameList!smap, Surjection
<1> QED
  BY <1>1, <1>2, FS_Surjection

LEMMA SameCardinality ==
  ASSUME NEW S
  PROVE  NameList!Cardinality(S) = Cardinality(S)
BY DEF NameList!Cardinality, Cardinality

\* The loop of Append stops at a string that is not in the list.
LEMMA UniqueIsNew ==
  ASSUME names \in Seq(AnyStrings), NEW t \in AnyStrings
  PROVE  NameList!Unique(t) \in AnyStrings \ NameList!smap
<1> DEFINE c == Cardinality(NameList!smap)
           free == {n \in 0 .. c : NameList!Candidate(t, n) \notin NameList!smap}
<1>1. IsFiniteSet(NameList!smap) /\ c \in Nat
  BY smapFinite, FS_CardinalityType
<1>2. free # {}
  <2> SUFFICES ASSUME \A n \in 0 .. c : NameList!Candidate(t, n) \in NameList!smap
               PROVE  FALSE
    OBVIOUS
  <2> DEFINE f == [n \in 0 .. c |-> NameList!Candidate(t, n)]
  <2>1. f \in [0 .. c -> NameList!smap]
    OBVIOUS
  <2>2. IsFiniteSet(0 .. c) /\ Cardinality(0 .. c) = c + 1
    BY <1>1, FS_Interval
  <2>3. PICK i, j \in 0 .. c : i # j /\ f[i] = f[j]
    <3>1. Cardinality(NameList!smap) < Cardinality(0 .. c)
      BY <1>1, <2>2
    <3> HIDE DEF f, c
    <3> QED BY <1>1, <2>1, <2>2, <3>1, FS_PigeonHole
  <2> QED BY <2>3, <1>1, CandidateInjective
<1>3. PICK n \in free : \A m \in free : n <= m
  <2>1. free \in SUBSET Nat
    BY <1>1
  <2> QED BY <1>2, <2>1, LeastNatural
<1>4. /\ n \in 0 .. c
      /\ NameList!Candidate(t, n) \notin NameList!smap
      /\ \A m \in 0 .. n - 1 : NameList!Candidate(t, m) \in NameList!smap
  BY <1>1, <1>3
<1>5. PICK k \in 0 .. c : /\ NameList!Unique(t) = NameList!Candidate(t, k)
                          /\ NameList!Candidate(t, k) \notin NameList!smap
  BY <1>4, SameCardinality DEF NameList!Unique
<1> QED
  BY <1>1, <1>5, CandidateType

\* A name is appended that no other member has.
LEMMA Appended ==
  ASSUME names \in Seq(AnyStrings), NEW item \in DOMAIN Pascal, NameList!AppendItem(item)
  PROVE  \E t \in AnyStrings :
           /\ names' = Append(names, t) /\ names' \in Seq(AnyStrings)
           /\ Len(names') = Len(names) + 1 /\ names'[Len(names')] = t
           /\ \A n \in 1 .. Len(names) : names'[n] = names[n] /\ names[n] # t
<1> DEFINE t == NameList!Unique(NameList!Converted(item))
<1>1. NameList!Converted(item) \in AnyStrings
  <2>1. Pascal[item] \in AnyStrings
    BY ResultStructAssumption DEF AnyStrings
  <2>2. [stem |-> "NoNameField", sfx |-> <<>>] \in AnyStrings
    <3>1. <<>> \in Seq(Nat)
      OBVIOUS
    <3> QED BY <3>1 DEF AnyStrings
  <2> QED BY <2>1, <2>2 DEF NameList!Converted
<1>2. t \in AnyStrings \ NameList!smap
  BY <1>1, UniqueIsNew
<1>3. names' = Append(names, t)
  BY DEF NameList!AppendItem
<1> HIDE DEF t
<1>4. \A n \in 1 .. Len(names) : names[n] # t
  BY <1>2 DEF NameList!smap
<1> QED BY <1>2, <1>3, <1>4

-----------------------------------------------------------------------------
(* What the template learns of those of a struct.                          *)

\* One in a struct is in the wildcard of a single table.
LEMMA InTableAt ==
  ASSUME IInv, phase = "done", NEW i \in 1 .. Len(executed), NEW s \in TableAt(i)
  PROVE  s \in 1 .. Len(listed) /\ TableAt(i) = {s} /\ InWild(i, s)
<1>1. PICK r \in 1 .. Len(listed) : InWild(i, r)
  BY OutsideOrIn
<1>2. TableAt(i) \subseteq {r}
  BY <1>1 DEF TableAt, InWild
<1> QED BY <1>1, <1>2

\* The other columns of its wildcard are in the same, each at its place.
LEMMA Wildmates ==
  ASSUME IInv, phase = "done", NEW i \in 1 .. Len(executed), NEW s \in 1 .. Len(listed), InWild(i, s),
         NEW c \in 1 .. Len(listed[s].cols)
  PROVE  LET j == i - ColumnAt(i) + c
         IN  j \in 1 .. Len(executed) /\ MapAt(j) = MapAt(i) /\ ColumnAt(j) = c
<1> DEFINE m == MapAt(i)
           wc == origin.wildcards[m]
           map == origin.rfToWildcard
           j == i - ColumnAt(i) + c
<1>1. /\ listed \in Seq(AllSources) /\ Known(listed, origin) /\ NamesPass(listed)
      /\ Len(executed) = Len(map)
  BY DoneFacts
<1>2. map \in Seq(0 .. Len(origin.wildcards)) /\ Filled(listed, origin.wildcards, map)
  BY <1>1 DEF Known
<1>3. i \in 1 .. Len(map) /\ m \in 1 .. Len(origin.wildcards) /\ m # 0
  <2>1. m \in 0 .. Len(origin.wildcards) /\ m # 0
    BY <1>1, <1>2 DEF MapAt, InWild
  <2>2. Len(origin.wildcards) \in Nat
    BY <1>1 DEF Known
  <2> QED BY <1>1, <2>1, <2>2
<1>4. /\ OriginFL!WildcardTableRefName(i) = wc.refName
      /\ ColumnAt(i) = i - wc.offset
  BY <1>3 DEF OriginFL!WildcardTableRefName, OriginFL!WildcardColumnOffset, OriginFL!InWildcard,
              MapAt, ColumnAt
<1>5. Fills(listed, wc, map, m)
  BY <1>2, <1>3 DEF Filled
<1>6. PICK r \in 1 .. Len(listed) :
        /\ wc.refName = RefName(listed[r])
        /\ \A d \in 1 .. Len(listed[r].cols) :
             wc.offset + d \in 1 .. Len(map) /\ map[wc.offset + d] = m
  BY <1>5 DEF Fills
<1>7. r = s
  <2>1. RefName(listed[r]) = RefName(listed[s])
    BY <1>4, <1>6 DEF InWild
  <2> QED BY <1>1, <2>1, SameName
<1>8. wc.offset \in Nat /\ i \in Nat /\ c \in Nat
  BY <1>3, <1>5 DEF Fills
<1>9. wc.offset + c \in 1 .. Len(map) /\ map[wc.offset + c] = m
  BY <1>6, <1>7
<1>10. j = wc.offset + c
  <2> HIDE DEF wc
  <2> QED BY <1>4, <1>8
<1>11. j \in 1 .. Len(map) /\ map[j] = m
  BY <1>9, <1>10
<1>12. ColumnAt(j) = j - wc.offset
  BY <1>3, <1>11 DEF OriginFL!WildcardColumnOffset, OriginFL!InWildcard, ColumnAt
<1>13. j - wc.offset = c
  <2> HIDE DEF wc, j
  <2> QED BY <1>8, <1>10
<1> QED BY <1>1, <1>11, <1>12, <1>13 DEF MapAt

\* Of one wildcard, they are of one table, and as far from each other as their columns.
LEMMA SameWild ==
  ASSUME IInv, phase = "done", NEW i \in 1 .. Len(executed), NEW j \in 1 .. Len(executed),
         MapAt(i) = MapAt(j), MapAt(i) # 0
  PROVE  /\ OriginFL!WildcardTableRefName(i) = OriginFL!WildcardTableRefName(j)
         /\ TableAt(i) = TableAt(j)
         /\ ColumnAt(i) \in Int /\ ColumnAt(j) \in Int /\ i - ColumnAt(i) = j - ColumnAt(j)
<1> DEFINE map == origin.rfToWildcard
           wc == origin.wildcards[map[i]]
<1>1. i \in 1 .. Len(map) /\ j \in 1 .. Len(map) /\ map[i] = map[j] /\ map[i] # 0
  BY DoneFacts DEF MapAt
<1>2. /\ OriginFL!WildcardTableRefName(i) = OriginFL!WildcardTableRefName(j)
      /\ ColumnAt(i) = i - wc.offset /\ ColumnAt(j) = j - wc.offset
  BY <1>1 DEF OriginFL!WildcardTableRefName, OriginFL!WildcardColumnOffset, OriginFL!InWildcard,
              ColumnAt
<1>3. wc.offset \in Nat
  <2>1. Known(listed, origin)
    BY DoneFacts
  <2>2. map \in Seq(0 .. Len(origin.wildcards)) /\ Filled(listed, origin.wildcards, map)
        /\ Len(origin.wildcards) \in Nat
    BY <2>1 DEF Known
  <2>3. map[i] \in 1 .. Len(origin.wildcards)
    <3>1. map[i] \in 0 .. Len(origin.wildcards)
      BY <1>1, <2>2
    <3> QED BY <1>1, <2>2, <3>1
  <2> QED BY <2>2, <2>3 DEF Filled, Fills
<1>4. i - ColumnAt(i) = j - ColumnAt(j) /\ ColumnAt(i) \in Int /\ ColumnAt(j) \in Int
  <2>1. i \in Nat /\ j \in Nat
    OBVIOUS
  <2> HIDE DEF wc
  <2> QED BY <1>2, <1>3, <2>1
<1> QED BY <1>2, <1>4 DEF TableAt

\* A name that means one thing means a column of a table source.
LEMMA MeaningIs ==
  ASSUME NEW srcs, NEW parts, Cardinality(Meanings(srcs, parts)) = 1
  PROVE  \E i \in 1 .. Len(srcs) : \E c \in 1 .. Len(srcs[i].cols) :
           (CHOOSE m \in Meanings(srcs, parts) : TRUE) = <<i, c>>
<1> DEFINE M == Meanings(srcs, parts)
<1>1. M # {}
  <2>1. Cardinality({}) = 0
    BY FS_EmptySet
  <2> HIDE DEF M
  <2>2. Cardinality(M) = 1
    BY DEF M
  <2> QED BY <2>1, <2>2
<1>2. (CHOOSE m \in M : TRUE) \in M
  <2> HIDE DEF M
  <2> QED BY <1>1
<1>3. ASSUME NEW m \in M
      PROVE  \E i \in 1 .. Len(srcs) : \E c \in 1 .. Len(srcs[i].cols) : m = <<i, c>>
  BY DEF Meanings
<1> QED BY <1>2, <1>3

\* A field that reads a column, and no difference of two, reads one there is.
LEMMA ReadsColumn ==
  ASSUME NEW srcs, NEW fs, Accepts(srcs, fs), NEW k \in 1 .. Len(fs),
         Len(FieldReads(srcs, fs[k])) = 2
  PROVE  \E i \in 1 .. Len(srcs) : \E c \in 1 .. Len(srcs[i].cols) :
           FieldReads(srcs, fs[k]) = <<i, c>>
<1> DEFINE parts == fs[k].parts
           texts == NamesIn(parts)
           Meaning(n) == CHOOSE m \in Meanings(srcs, texts[n]) : TRUE
           IsColumn(m) == \E i \in 1 .. Len(srcs) : \E c \in 1 .. Len(srcs[i].cols) : m = <<i, c>>
<1>1. fs[k].kind = "text"
  <2>1. Len(<<>>) # 2
    OBVIOUS
  <2> QED BY <2>1 DEF FieldReads
<1>2. FieldReads(srcs, fs[k]) = FlattenSeq([n \in 1 .. Len(texts) |-> Meaning(n)])
  BY <1>1 DEF FieldReads, TextReads
<1>3. \A n \in 1 .. Len(texts) : Cardinality(Meanings(srcs, texts[n])) = 1
  BY <1>1, Zenon DEF Accepts
<1>4. \A n \in 1 .. Len(texts) : IsColumn(Meaning(n))
  BY <1>3, MeaningIs
<1>5. Len(texts) = 1 \/ Len(texts) = 2
  <2>1. texts = <<parts>> \/ \E a, b : texts = <<a, b>>
    BY DEF NamesIn
  <2> QED BY <2>1
<1> HIDE DEF texts, Meaning
<1>6. CASE Len(texts) = 1
  <2>1. [n \in 1 .. 1 |-> Meaning(n)] = <<Meaning(1)>>
    OBVIOUS
  <2>2. PICK i \in 1 .. Len(srcs) : \E c \in 1 .. Len(srcs[i].cols) : Meaning(1) = <<i, c>>
    BY <1>4, <1>6
  <2>3. PICK c \in 1 .. Len(srcs[i].cols) : Meaning(1) = <<i, c>>
    BY <2>2
  <2>4. <<i, c>> \in Seq({i, c})
    OBVIOUS
  <2>5. FlattenSeq(<<Meaning(1)>>) = <<i, c>>
    BY <2>3, <2>4, FlattenOne
  <2> QED BY <1>2, <1>6, <2>1, <2>5
<1>7. CASE Len(texts) = 2
  <2>1. PICK i \in 1 .. Len(srcs) : \E c \in 1 .. Len(srcs[i].cols) : Meaning(1) = <<i, c>>
    BY <1>4, <1>7
  <2>2. PICK c \in 1 .. Len(srcs[i].cols) : Meaning(1) = <<i, c>>
    BY <2>1
  <2>3. PICK j \in 1 .. Len(srcs) : \E d \in 1 .. Len(srcs[j].cols) : Meaning(2) = <<j, d>>
    BY <1>4, <1>7
  <2>4. PICK d \in 1 .. Len(srcs[j].cols) : Meaning(2) = <<j, d>>
    BY <2>3
  <2> DEFINE X == {i, c, j, d}
             one == << <<i, c>> >>
             two == [n \in 1 .. 2 |-> Meaning(n)]
  <2>5. <<i, c>> \in Seq(X) /\ <<j, d>> \in Seq(X) /\ one \in Seq(Seq(X))
    <3>1. <<i, c>> \in Seq(X) /\ <<j, d>> \in Seq(X)
      OBVIOUS
    <3> HIDE DEF X
    <3> QED BY <3>1
  <2>6. two = Append(one, <<j, d>>)
    BY <2>2, <2>4
  <2>7. FlattenSeq(Append(one, <<j, d>>)) = FlattenSeq(one) \o <<j, d>>
    <3> HIDE DEF one, X
    <3> QED BY <2>5, FlattenAppend
  <2>8. FlattenSeq(one) = <<i, c>>
    <3> HIDE DEF X
    <3> QED BY <2>5, FlattenOne
  <2>9. Len(<<i, c>> \o <<j, d>>) = 4
    OBVIOUS
  <2>10. FieldReads(srcs, fs[k]) = FlattenSeq(two)
    BY <1>2, <1>7
  <2> HIDE DEF two, one, X
  <2>11. FieldReads(srcs, fs[k]) = <<i, c>> \o <<j, d>>
    BY <2>6, <2>7, <2>8, <2>10
  <2> QED BY <2>9, <2>11
<1> QED BY <1>5, <1>6, <1>7

\* PascalCase makes a name of whatever a member is called after.
LEMMA FieldNamed ==
  ASSUME IInv, Rendering, rf \in Nat \ {0}
  PROVE  FieldName \in DOMAIN Pascal
<1>1. CASE Len(executed[rf]) = 2
  <2>1. /\ listed \in Seq(AllSources) /\ Accepts(listed, fields)
        /\ executed = [k \in 1 .. Len(fields) |-> FieldReads(listed, fields[k])]
        /\ Len(executed) = Len(fields) /\ Len(fields) \in Nat
    BY DoneFacts DEF Rendering
  <2>2. rf \in 1 .. Len(fields) /\ executed[rf] = FieldReads(listed, fields[rf])
    BY <2>1 DEF Rendering
  <2>3. PICK i \in 1 .. Len(listed) : \E c \in 1 .. Len(listed[i].cols) : executed[rf] = <<i, c>>
    BY <1>1, <2>1, <2>2, ReadsColumn
  <2>4. PICK c \in 1 .. Len(listed[i].cols) : executed[rf] = <<i, c>>
    BY <2>3
  <2>5. FieldName = <<listed[i].cols[c]>>
    BY <1>1, <2>4 DEF FieldName
  <2>6. listed[i] \in AllSources
    BY <2>1
  <2> QED BY <2>5, <2>6, ResultStructAssumption
<1>2. CASE Len(executed[rf]) # 2
  BY <1>2, ResultStructAssumption DEF FieldName
<1> QED BY <1>1, <1>2

-----------------------------------------------------------------------------
(* The members of the struct.  The result fields the template has been     *)
(* through have a member each, the same one exactly if they are in the same *)
(* wildcard of a table of the current database.                            *)

Together(i, j) == i = j \/ (TableAt(i) # {} /\ MapAt(i) = MapAt(j))

\* A member, its type, and the place in it of the i-th result field.
Fits(i, name, type, allocated, place) ==
  \/ TableAt(i) = {} /\ type = <<>> /\ place = <<name>>
  \/ \E s \in TableAt(i) :
       /\ type = <<s>> /\ name \in allocated
       /\ place = <<name, listed[s].cols[ColumnAt(i)]>>

\* mem gives each result field its member.
Grouped(mem) ==
  /\ \A i \in 1 .. rf - 1 :
       mem[i] \in 1 .. Len(names) /\ Fits(i, names[mem[i]], types[mem[i]], Allocated, flatten[i])
  /\ \A i, j \in 1 .. rf - 1 : mem[i] = mem[j] <=> Together(i, j)
  /\ \A m \in 1 .. Len(names) : \E i \in 1 .. rf - 1 : mem[i] = m
  /\ rf > 1 => mem[rf - 1] = Len(names)

StructType ==
  /\ rf \in Nat \ {0}
  /\ names \in Seq(AnyStrings) /\ structs \in Seq(AnyStrings)
  /\ types \in Seq(Seq(Nat)) /\ Len(types) = Len(names)
  /\ Len(flatten) = rf - 1 /\ \E S : flatten \in Seq(S)
  /\ rf > 1 => phase = "done" /\ rf <= Len(executed) + 1

StructInv == StructType /\ MembersUnique /\ \E mem : Grouped(mem)

LEMMA TogetherFacts ==
  ASSUME IInv, phase = "done", NEW i \in 1 .. Len(executed), NEW j \in 1 .. Len(executed)
  PROVE  /\ Together(i, j) => Together(j, i) /\ TableAt(i) = TableAt(j)
         /\ \A k \in 1 .. Len(executed) : Together(i, j) /\ Together(j, k) => Together(i, k)
<1>1. ASSUME TableAt(i) # {}
      PROVE  MapAt(i) # 0
  BY <1>1, OutsideOrIn, InTableAt DEF InWild
<1>2. Together(i, j) => Together(j, i) /\ TableAt(i) = TableAt(j)
  BY <1>1, SameWild DEF Together
<1> QED BY <1>2 DEF Together

\* The next result field begins a member, or goes on with the last.
LEMMA Newcomer ==
  ASSUME IInv, Rendering, rf \in Nat \ {0}
  PROVE  /\ rf \in 1 .. Len(executed) /\ Len(executed) \in Nat
         /\ TableAt(rf) = {} \/ BeginsStruct => \A i \in 1 .. rf - 1 : ~Together(i, rf)
         /\ TableAt(rf) # {} /\ ~BeginsStruct =>
              rf - 1 \in 1 .. rf - 1 /\ Together(rf - 1, rf)
<1>1. phase = "done" /\ Len(executed) \in Nat /\ rf \in 1 .. Len(executed)
  <2>1. phase = "done" /\ rf <= Len(executed)
    BY DEF Rendering
  <2>2. fields \in Seq(PlainFields) /\ Len(executed) = Len(fields)
    BY <2>1, DoneFacts
  <2>3. Len(executed) \in Nat
    BY <2>2
  <2> QED BY <2>1, <2>3
<1>2. ASSUME NEW i \in 1 .. rf - 1, Together(i, rf), TableAt(rf) = {} \/ BeginsStruct
      PROVE  FALSE
  <2>1. i \in 1 .. Len(executed) /\ i # rf /\ i < rf
    BY <1>1
  <2>2. TableAt(i) # {} /\ MapAt(i) = MapAt(rf) /\ TableAt(i) = TableAt(rf)
    BY <1>1, <1>2, <2>1, TogetherFacts DEF Together
  <2>3. ColumnAt(rf) = 1
    BY <1>2, <2>2 DEF BeginsStruct, ColumnAt
  <2>4. PICK s \in TableAt(i) : TRUE
    BY <2>2
  <2>5. s \in 1 .. Len(listed) /\ InWild(i, s)
    BY <1>1, <2>1, InTableAt
  <2>6. ColumnAt(i) \in Int /\ ColumnAt(i) >= 1
    BY <2>5 DEF InWild
  <2>7. i - ColumnAt(i) = rf - 1
    BY <1>1, <2>1, <2>2, <2>3, <2>5, SameWild DEF InWild
  <2> QED BY <2>1, <2>6, <2>7
<1>3. ASSUME TableAt(rf) # {}, ~BeginsStruct
      PROVE  rf - 1 \in 1 .. rf - 1 /\ Together(rf - 1, rf)
  <2>1. PICK s \in TableAt(rf) : TRUE
    BY <1>3
  <2>2. s \in 1 .. Len(listed) /\ InWild(rf, s)
    BY <1>1, InTableAt
  <2> DEFINE c == ColumnAt(rf) - 1
  <2>3. c \in 1 .. Len(listed[s].cols) /\ rf - ColumnAt(rf) + c = rf - 1
    <3>1. ColumnAt(rf) \in 1 .. Len(listed[s].cols) /\ ColumnAt(rf) # 1
      BY <1>3, <2>2 DEF InWild, BeginsStruct, ColumnAt
    <3>2. Len(listed[s].cols) \in Nat
      BY <1>1, <2>2, DoneFacts, SourceFacts
    <3> QED BY <3>1, <3>2
  <2> HIDE DEF c
  <2>4. rf - 1 \in 1 .. Len(executed) /\ MapAt(rf - 1) = MapAt(rf)
    BY <1>1, <2>2, <2>3, Wildmates
  <2>5. TableAt(rf - 1) = TableAt(rf)
    BY <1>1, <2>2, <2>4, SameWild DEF InWild
  <2> QED BY <1>1, <1>3, <2>4, <2>5 DEF Together
<1> QED BY <1>1, <1>2, <1>3

\* A result field is placed, in a member of its own or in the last.
LEMMA Grow ==
  ASSUME IInv, StructInv, Rendering, UNCHANGED vars, rf' = rf + 1,
         NEW place, flatten' = Append(flatten, place),
         names' \in Seq(AnyStrings), structs' \in Seq(AnyStrings), MembersUnique',
         types' \in Seq(Seq(Nat)), Len(types') = Len(names'), Allocated \subseteq Allocated',
         \A m \in 1 .. Len(names) : names'[m] = names[m] /\ types'[m] = types[m],
         Fits(rf, names'[Len(names')], types'[Len(names')], Allocated', place),
         \/ Len(names') = Len(names) + 1 /\ \A i \in 1 .. rf - 1 : ~Together(i, rf)
         \/ Len(names') = Len(names) /\ rf - 1 \in 1 .. rf - 1 /\ Together(rf - 1, rf)
  PROVE  StructInv'
<1> DEFINE last == Len(names')
<1>1. /\ StructType /\ rf \in Nat \ {0} /\ rf \in 1 .. Len(executed) /\ Len(executed) \in Nat
      /\ phase = "done" /\ Len(names) \in Nat /\ last \in Nat
  BY Newcomer DEF StructInv, StructType, Rendering
<1>2. PICK mem : Grouped(mem)
  BY DEF StructInv
<1>3. ASSUME NEW i
      PROVE  TableAt(i)' = TableAt(i) /\ MapAt(i)' = MapAt(i) /\ ColumnAt(i)' = ColumnAt(i)
  BY DEF vars, given, TableAt, MapAt, ColumnAt, OriginFL!WildcardTableRefName,
         OriginFL!WildcardColumnOffset, OriginFL!InWildcard, Named
<1>4. \A i, j : Together(i, j)' = Together(i, j)
  BY <1>3 DEF Together
<1>6. /\ flatten'[rf] = place /\ Len(flatten') = rf
      /\ \A i \in 1 .. rf - 1 : flatten'[i] = flatten[i]
      /\ \E S : flatten' \in Seq(S)
  <2>1. PICK S : flatten \in Seq(S)
    BY <1>1 DEF StructType
  <2>2. flatten \in Seq(S \union {place}) /\ Len(flatten) = rf - 1
    BY <1>1, <2>1 DEF StructType
  <2>3. flatten' \in Seq(S \union {place})
    BY <2>2
  <2> QED BY <1>1, <2>2, <2>3
<1>5. PICK mem2 : mem2 = [i \in 1 .. rf |-> IF i = rf THEN last ELSE mem[i]]
  OBVIOUS
<1>7. /\ mem2[rf] = last /\ \A i \in 1 .. rf - 1 : mem2[i] = mem[i]
      /\ \A i \in 1 .. rf : i = rf \/ i \in 1 .. rf - 1
  BY <1>1, <1>5
<1>8. \A i \in 1 .. rf - 1 :
        mem[i] \in 1 .. Len(names) /\ mem[i] \in 1 .. last /\ names'[mem[i]] = names[mem[i]]
        /\ types'[mem[i]] = types[mem[i]]
        /\ Fits(i, names[mem[i]], types[mem[i]], Allocated, flatten[i])
  <2>1. ASSUME NEW m \in 1 .. Len(names)
        PROVE  m \in 1 .. last /\ names'[m] = names[m] /\ types'[m] = types[m]
    BY <1>1
  <2> HIDE DEF last
  <2> QED BY <1>2, <2>1 DEF Grouped
<1>9. last \in 1 .. last
  <2>1. Len(names) >= 1 \/ Len(names') = Len(names) + 1
    <3>1. CASE rf - 1 \in 1 .. rf - 1
      <4>1. mem[rf - 1] \in 1 .. Len(names)
        BY <1>8, <3>1
      <4> QED BY <1>1, <4>1
    <3> QED BY <3>1
  <2> QED BY <1>1, <2>1
<1> HIDE DEF last
<1>10. ASSUME NEW i \in 1 .. rf
       PROVE  /\ mem2[i] \in 1 .. last
              /\ Fits(i, names'[mem2[i]], types'[mem2[i]], Allocated', flatten'[i])
  <2>1. CASE i = rf
    BY <1>6, <1>7, <1>9, <2>1 DEF last
  <2>2. CASE i \in 1 .. rf - 1
    <3>1. Fits(i, names[mem[i]], types[mem[i]], Allocated', flatten[i])
      BY <1>8, <2>2 DEF Fits
    <3> QED BY <1>6, <1>7, <1>8, <2>2, <3>1
  <2> QED BY <1>7, <2>1, <2>2
<1>11. ASSUME NEW i \in 1 .. rf, NEW j \in 1 .. rf
       PROVE  mem2[i] = mem2[j] <=> Together(i, j)
  <2>1. i \in 1 .. Len(executed) /\ j \in 1 .. Len(executed)
    BY <1>1
  <2>2. CASE i \in 1 .. rf - 1 /\ j \in 1 .. rf - 1
    BY <1>2, <1>7, <2>2 DEF Grouped
  <2>3. ASSUME NEW k \in 1 .. rf - 1
        PROVE  mem[k] = last <=> Together(k, rf)
    <3>1. k \in 1 .. Len(executed)
      BY <1>1
    <3>2. CASE Len(names') = Len(names) + 1 /\ \A n \in 1 .. rf - 1 : ~Together(n, rf)
      <4>1. mem[k] # last
        BY <1>1, <1>8, <3>2 DEF last
      <4> QED BY <3>2, <4>1
    <3>3. CASE Len(names') = Len(names) /\ rf - 1 \in 1 .. rf - 1 /\ Together(rf - 1, rf)
      <4>1. rf > 1 /\ rf - 1 \in 1 .. Len(executed)
        BY <1>1, <3>3
      <4>2. mem[rf - 1] = last
        BY <1>2, <3>3, <4>1 DEF Grouped, last
      <4>3. mem[k] = mem[rf - 1] <=> Together(k, rf - 1)
        BY <1>2, <3>3 DEF Grouped
      <4>4. Together(rf, rf - 1)
        BY <1>1, <3>3, <4>1, TogetherFacts
      <4>5. Together(k, rf - 1) <=> Together(k, rf)
        BY <1>1, <3>1, <3>3, <4>1, <4>4, TogetherFacts
      <4> QED BY <4>2, <4>3, <4>5
    <3> QED BY <3>2, <3>3
  <2>4. CASE i \in 1 .. rf - 1 /\ j = rf
    BY <1>7, <2>3, <2>4
  <2>5. CASE i = rf /\ j \in 1 .. rf - 1
    <3>1. Together(i, j) <=> Together(j, i)
      BY <1>1, <2>1, TogetherFacts
    <3> QED BY <1>7, <2>3, <2>5, <3>1
  <2>6. CASE i = rf /\ j = rf
    BY <2>6 DEF Together
  <2> QED BY <1>7, <2>2, <2>4, <2>5, <2>6
<1>12. ASSUME NEW m \in 1 .. last
       PROVE  \E i \in 1 .. rf : mem2[i] = m
  <2>1. m \in 1 .. Len(names) \/ m = last
    BY <1>1 DEF last
  <2>2. CASE m = last
    BY <1>1, <1>7, <2>2
  <2>3. CASE m \in 1 .. Len(names)
    <3>1. PICK i \in 1 .. rf - 1 : mem[i] = m
      BY <1>2, <2>3 DEF Grouped
    <3>2. i \in 1 .. rf /\ mem2[i] = m
      BY <1>1, <1>7, <3>1
    <3> QED BY <3>2
  <2> QED BY <2>1, <2>2, <2>3
<1>13. rf' - 1 = rf /\ rf' > 1 /\ rf' \in Nat \ {0} /\ rf' <= Len(executed) + 1
  <2>1. rf' = rf + 1
    OBVIOUS
  <2>2. rf \in Nat /\ rf >= 1 /\ rf <= Len(executed) /\ Len(executed) \in Nat
    BY <1>1
  <2> QED BY ONLY <2>1, <2>2
<1>14. Grouped(mem2)'
  <2>1. \A i \in 1 .. rf' - 1 :
          /\ mem2[i] \in 1 .. Len(names')
          /\ Fits(i, names[mem2[i]], types[mem2[i]], Allocated, flatten[i])'
    <3>1. ASSUME NEW i \in 1 .. rf
          PROVE  Fits(i, names[mem2[i]], types[mem2[i]], Allocated, flatten[i])'
      <4>1. Fits(i, names'[mem2[i]], types'[mem2[i]], Allocated', flatten'[i])
        BY <1>10
      <4>2. listed' = listed /\ TableAt(i)' = TableAt(i) /\ ColumnAt(i)' = ColumnAt(i)
        BY <1>3 DEF vars, given
      <4> QED BY <4>1, <4>2 DEF Fits
    <3> QED BY <1>10, <1>13, <3>1 DEF last
  <2>2. \A i, j \in 1 .. rf' - 1 : mem2[i] = mem2[j] <=> Together(i, j)'
    BY <1>4, <1>11, <1>13
  <2>3. \A m \in 1 .. Len(names') : \E i \in 1 .. rf' - 1 : mem2[i] = m
    BY <1>12, <1>13 DEF last
  <2>4. rf' > 1 => mem2[rf' - 1] = Len(names')
    BY <1>7, <1>13 DEF last
  <2> QED BY <2>1, <2>2, <2>3, <2>4 DEF Grouped
<1>15. StructType'
  BY <1>1, <1>6, <1>13 DEF StructType, vars
<1> QED BY <1>14, <1>15 DEF StructInv

\* A member is appended: its name is new, and it has a type.
LEMMA MemberAppended ==
  ASSUME StructInv, NEW item \in DOMAIN Pascal, NameList!AppendItem(item),
         NEW type \in Seq(Nat), types' = Append(types, type)
  PROVE  /\ names' \in Seq(AnyStrings) /\ Len(names') = Len(names) + 1 /\ Len(names) \in Nat
         /\ names'[Len(names')] \in AnyStrings
         /\ types' \in Seq(Seq(Nat)) /\ Len(types') = Len(names') /\ types'[Len(names')] = type
         /\ \A m \in 1 .. Len(names) : names'[m] = names[m] /\ types'[m] = types[m]
         /\ MembersUnique'
<1>1. /\ names \in Seq(AnyStrings) /\ types \in Seq(Seq(Nat)) /\ Len(types) = Len(names)
      /\ Len(names) \in Nat /\ MembersUnique
  BY DEF StructInv, StructType
<1>2. PICK t \in AnyStrings :
        /\ names' = Append(names, t) /\ names' \in Seq(AnyStrings)
        /\ Len(names') = Len(names) + 1 /\ names'[Len(names')] = t
        /\ \A n \in 1 .. Len(names) : names'[n] = names[n] /\ names[n] # t
  BY <1>1, Appended
<1>3. /\ types' \in Seq(Seq(Nat)) /\ Len(types') = Len(names) + 1 /\ types'[Len(names) + 1] = type
      /\ \A m \in 1 .. Len(names) : types'[m] = types[m]
  BY <1>1
<1>4. MembersUnique'
  BY <1>1, <1>2 DEF MembersUnique, NameList!NoTwoAlike
<1> QED BY <1>1, <1>2, <1>3, <1>4

LEMMA PlainFieldStep ==
  ASSUME IInv, StructInv, PlainField
  PROVE  StructInv'
<1> DEFINE place == <<names'[Len(names')]>>
<1>1. /\ Rendering /\ TableAt(rf) = {} /\ NameList!AppendItem(FieldName)
      /\ types' = Append(types, <<>>) /\ flatten' = Append(flatten, place)
      /\ rf' = rf + 1 /\ UNCHANGED structs /\ UNCHANGED vars
  BY DEF PlainField, WildcardTable, TableAt
<1>2. rf \in Nat \ {0} /\ structs \in Seq(AnyStrings) /\ <<>> \in Seq(Nat)
  BY DEF StructInv, StructType
<1>3. FieldName \in DOMAIN Pascal
  BY <1>1, <1>2, FieldNamed
<1>4. /\ names' \in Seq(AnyStrings) /\ Len(names') = Len(names) + 1
      /\ types' \in Seq(Seq(Nat)) /\ Len(types') = Len(names') /\ types'[Len(names')] = <<>>
      /\ \A m \in 1 .. Len(names) : names'[m] = names[m] /\ types'[m] = types[m]
      /\ MembersUnique'
  BY <1>1, <1>2, <1>3, MemberAppended
<1>5. structs' \in Seq(AnyStrings) /\ Allocated' = Allocated
  BY <1>1, <1>2 DEF Allocated
<1>6. Fits(rf, names'[Len(names')], types'[Len(names')], Allocated', place)
  BY <1>1, <1>4 DEF Fits
<1>7. \A i \in 1 .. rf - 1 : ~Together(i, rf)
  BY <1>1, <1>2, Newcomer
<1> HIDE DEF place
<1> QED BY <1>1, <1>4, <1>5, <1>6, <1>7, Grow

LEMMA StructColumnStep ==
  ASSUME IInv, StructInv, StructColumn
  PROVE  StructInv'
<1> DEFINE ref == OriginFL!WildcardTableRefName(rf)
<1>1. Rendering /\ rf' = rf + 1 /\ UNCHANGED vars
  BY DEF StructColumn
<1>2. PICK s \in TableAt(rf) :
        /\ IF BeginsStruct
           THEN NameList!AppendItem(ref) /\ types' = Append(types, <<s>>) /\ Allocate
           ELSE UNCHANGED <<names, types, structs>>
        /\ flatten' = Append(flatten, <<names'[Len(names')], listed[s].cols[ColumnAt(rf)]>>)
  BY DEF StructColumn, WildcardTable, TableAt, ColumnAt
<1>3. rf \in Nat \ {0} /\ structs \in Seq(AnyStrings)
  BY DEF StructInv, StructType
<1>4. rf \in 1 .. Len(executed) /\ phase = "done"
  BY <1>1, <1>3, Newcomer DEF Rendering
<1>5. s \in 1 .. Len(listed) /\ TableAt(rf) = {s} /\ ref = RefName(listed[s])
  BY <1>4, InTableAt DEF InWild
<1> DEFINE place == <<names'[Len(names')], listed[s].cols[ColumnAt(rf)]>>
<1>6. CASE BeginsStruct
  <2>1. ref \in DOMAIN Pascal /\ <<s>> \in Seq(Nat)
    <3>1. listed[s] \in AllSources
      BY <1>4, <1>5, DoneFacts
    <3>2. ref \in AllRefNames
      BY <1>5, <3>1 DEF AllRefNames
    <3>3. s \in Nat
      BY <1>5
    <3> HIDE DEF ref
    <3> QED BY <3>2, <3>3, ResultStructAssumption
  <2>2. NameList!AppendItem(ref) /\ types' = Append(types, <<s>>) /\ Allocate
    BY <1>2, <1>6
  <2>3. /\ names' \in Seq(AnyStrings) /\ Len(names') = Len(names) + 1
        /\ names'[Len(names')] \in AnyStrings
        /\ types' \in Seq(Seq(Nat)) /\ Len(types') = Len(names') /\ types'[Len(names')] = <<s>>
        /\ \A m \in 1 .. Len(names) : names'[m] = names[m] /\ types'[m] = types[m]
        /\ MembersUnique'
    BY <2>1, <2>2, MemberAppended
  <2>4. structs' = Append(structs, names'[Len(names')])
    BY <2>2 DEF Allocate
  <2>5. /\ structs' \in Seq(AnyStrings) /\ names'[Len(names')] \in Allocated'
        /\ Allocated \subseteq Allocated'
    <3> DEFINE name == names'[Len(names')]
    <3>1. name \in AnyStrings /\ structs' = Append(structs, name)
      BY <2>3, <2>4
    <3> HIDE DEF name
    <3>2. /\ structs' \in Seq(AnyStrings) /\ Len(structs') = Len(structs) + 1 /\ Len(structs) \in Nat
          /\ structs'[Len(structs) + 1] = name
          /\ \A n \in 1 .. Len(structs) : structs'[n] = structs[n]
      BY <1>3, <3>1
    <3>3. name \in Allocated'
      BY <3>2 DEF Allocated
    <3>4. Allocated \subseteq Allocated'
      BY <3>2 DEF Allocated
    <3> QED BY <3>2, <3>3, <3>4 DEF name
  <2>6. Fits(rf, names'[Len(names')], types'[Len(names')], Allocated', place)
    BY <1>5, <2>3, <2>5 DEF Fits
  <2>7. \A i \in 1 .. rf - 1 : ~Together(i, rf)
    BY <1>1, <1>3, <1>6, Newcomer
  <2>8. flatten' = Append(flatten, place)
    BY <1>2
  <2> HIDE DEF place
  <2> QED BY <1>1, <2>3, <2>5, <2>6, <2>7, <2>8, Grow
<1>7. CASE ~BeginsStruct
  <2>1. names' = names /\ types' = types /\ structs' = structs
    BY <1>2, <1>7
  <2>2. rf - 1 \in 1 .. rf - 1 /\ Together(rf - 1, rf)
    BY <1>1, <1>3, <1>5, <1>7, Newcomer
  <2>3. /\ names \in Seq(AnyStrings) /\ types \in Seq(Seq(Nat)) /\ Len(types) = Len(names) /\ MembersUnique
    BY DEF StructInv, StructType
  <2>4. MembersUnique' /\ Allocated' = Allocated
    BY <2>1, <2>3 DEF MembersUnique, NameList!NoTwoAlike, Allocated
  \* The last member is that of the result field before.
  <2>5. types[Len(names)] = <<s>> /\ names[Len(names)] \in Allocated
    <3>1. PICK mem : Grouped(mem)
      BY DEF StructInv
    <3>2. mem[rf - 1] = Len(names)
      BY <1>3, <2>2, <3>1 DEF Grouped
    <3>3. Fits(rf - 1, names[Len(names)], types[Len(names)], Allocated, flatten[rf - 1])
      BY <2>2, <3>1, <3>2 DEF Grouped
    <3>4. TableAt(rf - 1) = {s}
      <4>1. rf - 1 \in 1 .. Len(executed)
        BY <1>4, <2>2
      <4> QED BY <1>4, <1>5, <2>2, <4>1, TogetherFacts
    <3> QED BY <3>3, <3>4 DEF Fits
  <2>6. Fits(rf, names'[Len(names')], types'[Len(names')], Allocated', place)
    BY <1>5, <2>1, <2>4, <2>5 DEF Fits
  <2>7. flatten' = Append(flatten, place)
    BY <1>2
  <2> HIDE DEF place
  <2> QED BY <1>1, <1>3, <2>1, <2>2, <2>3, <2>4, <2>6, <2>7, Grow
<1> QED BY <1>6, <1>7

\* The structs stay as they are while the statement does.
LEMMA StructKept ==
  ASSUME StructInv, UNCHANGED <<vars, structVars>>
  PROVE  StructInv'
<1>1. PICK mem : Grouped(mem)
  BY DEF StructInv
<1>2. ASSUME NEW i
      PROVE  TableAt(i)' = TableAt(i) /\ MapAt(i)' = MapAt(i) /\ ColumnAt(i)' = ColumnAt(i)
  BY DEF vars, given, TableAt, MapAt, ColumnAt, OriginFL!WildcardTableRefName,
         OriginFL!WildcardColumnOffset, OriginFL!InWildcard, Named
<1>3. /\ listed' = listed /\ phase' = phase /\ executed' = executed
      /\ rf' = rf /\ names' = names /\ types' = types /\ structs' = structs /\ flatten' = flatten
  BY DEF vars, given, structVars
<1>4. Allocated' = Allocated
  BY <1>3 DEF Allocated
<1>5. ASSUME NEW i, NEW m, Fits(i, names[m], types[m], Allocated, flatten[i])
      PROVE  Fits(i, names[m], types[m], Allocated, flatten[i])'
  BY <1>2, <1>3, <1>4, <1>5 DEF Fits
<1>6. \A i, j : Together(i, j)' = Together(i, j)
  BY <1>2 DEF Together
<1>7. Grouped(mem)'
  <2>1. \A i \in 1 .. rf' - 1 :
          mem[i] \in 1 .. Len(names') /\ Fits(i, names[mem[i]], types[mem[i]], Allocated, flatten[i])'
    BY <1>1, <1>3, <1>5 DEF Grouped
  <2>2. \A i, j \in 1 .. rf' - 1 : mem[i] = mem[j] <=> Together(i, j)'
    BY <1>1, <1>3, <1>6 DEF Grouped
  <2>3. /\ \A m \in 1 .. Len(names') : \E i \in 1 .. rf' - 1 : mem[i] = m
        /\ rf' > 1 => mem[rf' - 1] = Len(names')
    BY <1>1, <1>3 DEF Grouped
  <2> QED BY <2>1, <2>2, <2>3 DEF Grouped
<1>8. StructType' /\ MembersUnique'
  BY <1>3 DEF StructInv, StructType, MembersUnique, NameList!NoTwoAlike
<1> QED BY <1>7, <1>8 DEF StructInv

\* There are none before the statement is done.
LEMMA StructFresh ==
  ASSUME StructInv, rf = 1, UNCHANGED structVars
  PROVE  StructInv'
<1>1. PICK mem : Grouped(mem)
  BY DEF StructInv
<1>2. /\ rf' = 1 /\ names' = names /\ types' = types /\ structs' = structs /\ flatten' = flatten
  BY DEF structVars
<1>3. 1 .. rf' - 1 = {} /\ 1 .. rf - 1 = {} /\ ~(rf' > 1)
  BY <1>2
<1>4. Grouped(mem)'
  BY <1>1, <1>2, <1>3 DEF Grouped
<1>5. StructType' /\ MembersUnique'
  BY <1>2, <1>3 DEF StructInv, StructType, MembersUnique, NameList!NoTwoAlike
<1> QED BY <1>4, <1>5 DEF StructInv

LEMMA StructInit0 == StructInit => StructInv
<1> SUFFICES ASSUME StructInit
             PROVE  StructInv
  OBVIOUS
<1>1. rf = 1 /\ names = <<>> /\ types = <<>> /\ structs = <<>> /\ flatten = <<>> /\ Len(<<>>) = 0
  BY DEF StructInit
<1>2. StructType
  <2>1. <<>> \in Seq(AnyStrings) /\ <<>> \in Seq(Seq(Nat)) /\ <<>> \in Seq({})
    OBVIOUS
  <2>2. Len(flatten) = rf - 1 /\ rf \in Nat \ {0} /\ ~(rf > 1)
    BY <1>1
  <2> QED BY <1>1, <2>1, <2>2 DEF StructType
<1>3. MembersUnique
  BY <1>1 DEF MembersUnique, NameList!NoTwoAlike
<1>4. Grouped(<<>>)
  BY <1>1 DEF Grouped
<1> QED BY <1>2, <1>3, <1>4 DEF StructInv

\* A step of StructNext, while the statement is not yet handled or is done.
LEMMA StructNextStep ==
  ASSUME IInv, StructInv, StructNext
  PROVE  /\ IInv' /\ StructInv'
         /\ phase = "done" => UNCHANGED vars
         /\ Rendered => UNCHANGED structVars
<1>1. phase = "done" /\ Next => UNCHANGED vars
  BY DEF Next, Execute, CollectJoin, CollectNil, CollectSource, CheckNames, InFields, ScanPlain,
         ScanQualified, ScanStar, ScanStarEnd, CheckCounts, ExpandNothing, Expand, Stop
<1>2. CASE PlainField
  <2>1. UNCHANGED vars /\ Rendering
    BY <1>2 DEF PlainField
  <2>2. ~Rendered
    BY <2>1, Newcomer DEF Rendered, Rendering, StructInv, StructType
  <2> QED BY <1>2, <2>1, <2>2, UnchangedStep, PlainFieldStep
<1>3. CASE StructColumn
  <2>1. UNCHANGED vars /\ Rendering
    BY <1>3 DEF StructColumn
  <2>2. ~Rendered
    BY <2>1, Newcomer DEF Rendered, Rendering, StructInv, StructType
  <2> QED BY <1>3, <2>1, <2>2, UnchangedStep, StructColumnStep
<1>4. CASE Next /\ UNCHANGED structVars
  <2>1. IInv'
    BY <1>4, Inductive
  <2>2. rf = 1 \/ phase = "done"
    BY DEF StructInv, StructType
  <2> QED BY <1>1, <1>4, <2>1, <2>2, StructKept, StructFresh
<1> QED BY <1>2, <1>3, <1>4 DEF StructNext

-----------------------------------------------------------------------------
(* What the template makes of a statement, when it is through.             *)

\* Every result field has a place the constructor makes, and every place a result field.
LEMMA RenderedFacts ==
  ASSUME IInv, StructInv, Rendered
  PROVE  /\ Len(flatten) = Len(executed) /\ Len(executed) \in Nat
         /\ \A i \in 1 .. Len(flatten) : flatten[i] \in Places
         /\ \A p \in Places : \E i \in 1 .. Len(flatten) : flatten[i] = p
<1>1. /\ phase = "done" /\ rf = Len(executed) + 1 /\ Len(flatten) = rf - 1
      /\ Len(executed) \in Nat
  <2>1. phase = "done" /\ rf = Len(executed) + 1 /\ Len(flatten) = rf - 1
    BY DEF Rendered, StructInv, StructType
  <2>2. fields \in Seq(PlainFields) /\ Len(executed) = Len(fields)
    BY <2>1, DoneFacts
  <2>3. Len(executed) \in Nat
    BY <2>2
  <2> QED BY <2>1, <2>3
<1>2. PICK mem : Grouped(mem)
  BY DEF StructInv
<1> DEFINE L == Len(executed)
<1>3. /\ Len(flatten) = L /\ rf - 1 = L
  BY <1>1
<1>4. \A i \in 1 .. L :
        /\ mem[i] \in 1 .. Len(names)
        /\ Fits(i, names[mem[i]], types[mem[i]], Allocated, flatten[i])
  BY <1>2, <1>3 DEF Grouped
<1> HIDE DEF L
<1>5. ASSUME NEW i \in 1 .. L
      PROVE  flatten[i] \in Places
  <2> DEFINE m == mem[i]
  <2>1. m \in 1 .. Len(names) /\ Fits(i, names[m], types[m], Allocated, flatten[i])
    BY <1>4
  <2> HIDE DEF m
  <2>2. CASE types[m] = <<>> /\ flatten[i] = <<names[m]>>
    BY <2>1, <2>2 DEF Places
  <2>3. ASSUME NEW s \in TableAt(i), types[m] = <<s>>, names[m] \in Allocated,
               flatten[i] = <<names[m], listed[s].cols[ColumnAt(i)]>>
        PROVE  flatten[i] \in Places
    <3>1. ColumnAt(i) \in 1 .. Len(listed[s].cols)
      BY <1>1, InTableAt DEF InWild, L
    <3>2. types[m] # <<>> /\ types[m][1] = s
      BY <2>3
    <3> QED BY <2>1, <2>3, <3>1, <3>2 DEF Places
  <2> QED BY <2>1, <2>2, <2>3 DEF Fits
<1>6. ASSUME NEW p \in Places
      PROVE  \E i \in 1 .. L : flatten[i] = p
  <2>1. PICK m \in 1 .. Len(names) :
          /\ types[m] = <<>> \/ names[m] \in Allocated
          /\ p \in (IF types[m] = <<>> THEN {<<names[m]>>}
                    ELSE {<<names[m], listed[types[m][1]].cols[c]>> :
                            c \in 1 .. Len(listed[types[m][1]].cols)})
    BY DEF Places
  <2>2. PICK i \in 1 .. L : mem[i] = m
    BY <1>2, <1>3 DEF Grouped
  <2>3. Fits(i, names[m], types[m], Allocated, flatten[i])
    BY <1>4, <2>2
  <2>4. CASE types[m] = <<>>
    <3>1. p = <<names[m]>>
      BY <2>1, <2>4
    <3>2. \A s : types[m] # <<s>>
      <4>1. ASSUME NEW s
            PROVE  <<s>> # <<>>
        OBVIOUS
      <4> QED BY <2>4, <4>1
    <3> QED BY <2>3, <3>1, <3>2 DEF Fits
  <2>5. CASE types[m] # <<>>
    <3>1. PICK s \in TableAt(i) : types[m] = <<s>>
      BY <2>3, <2>5 DEF Fits
    <3>2. types[m][1] = s
      BY <3>1
    <3>3. PICK c \in 1 .. Len(listed[s].cols) : p = <<names[m], listed[s].cols[c]>>
      BY <2>1, <2>5, <3>2
    <3>4. s \in 1 .. Len(listed) /\ InWild(i, s)
      BY <1>1, InTableAt DEF L
    <3> DEFINE j == i - ColumnAt(i) + c
    <3>5. j \in 1 .. L /\ MapAt(j) = MapAt(i) /\ ColumnAt(j) = c
      BY <1>1, <3>4, Wildmates DEF L
    <3> HIDE DEF j
    <3>6. Together(i, j)
      BY <3>5 DEF Together
    <3>7. mem[j] = m
      BY <1>2, <1>3, <2>2, <3>5, <3>6 DEF Grouped
    <3>8. TableAt(j) = {s}
      BY <1>1, <3>1, <3>5, <3>6, TogetherFacts, InTableAt DEF L
    <3>9. Fits(j, names[m], types[m], Allocated, flatten[j])
      BY <1>4, <3>5, <3>7
    <3>10. flatten[j] = <<names[m], listed[s].cols[c]>>
      BY <3>5, <3>8, <3>9 DEF Fits
    <3> QED BY <3>3, <3>5, <3>10
  <2> QED BY <2>4, <2>5
<1> QED BY <1>1, <1>3, <1>5, <1>6

-----------------------------------------------------------------------------
(* A call.                                                                 *)

\* What has been read of the rows that have arrived.
ReadWell ==
  /\ Len(ret) = Len(rows)
  /\ \A k \in 1 .. Len(ret) :
       /\ ret[k] = Scanned(rows[k])
       /\ \A i \in 1 .. Len(executed) : rows[k][i] # Zero

CallInv ==
  /\ style # "unknown" => phase = "done"
  /\ result # "none" => Rendered /\ style # "unknown"
  /\ result = "none" => rows = <<>> /\ ret = <<>>
  /\ result # "panic"
  /\ (\E S : rows \in Seq(S)) /\ (\E S : ret \in Seq(S))
  /\ result \in {"none", "open", "nil", "returned"} => ReadWell
  /\ result = "error" => rows # <<>> /\ Unreadable(rows[Len(rows)])

QInv == IInv /\ StructInv /\ CallInv

LEMMA QueryInitStep == QueryInit => QInv
<1> SUFFICES ASSUME QueryInit
             PROVE  QInv
  OBVIOUS
<1>1. IInv /\ StructInv
  BY InitStep, StructInit0 DEF QueryInit, StructInit
<1>2. style = "unknown" /\ result = "none" /\ rows = <<>> /\ ret = <<>> /\ Len(<<>>) = 0 /\ <<>> \in Seq({})
  BY DEF QueryInit
<1> QED BY <1>1, <1>2 DEF QInv, CallInv, ReadWell

\* What a row is read into depends on nothing that changes in a call.
LEMMA Steady ==
  ASSUME UNCHANGED <<vars, structVars, options>>
  PROVE  /\ executed' = executed /\ Rendered' = Rendered
         /\ \A row : Scanned(row)' = Scanned(row) /\ (Unreadable(row)' <=> Unreadable(row))
<1> USE DEF vars, given, structVars
<1>1. executed' = executed /\ names' = names /\ flatten' = flatten /\ Places' = Places
  BY DEF Places, Allocated
<1>2. ASSUME NEW row
      PROVE  Scanned(row)' = Scanned(row)
  BY <1>1 DEF Scanned, New
<1>3. ASSUME NEW i
      PROVE  TakesNull(i)' = TakesNull(i)
  <2>1. ASSUME NEW ft
        PROVE  AdaptType(ft)' = AdaptType(ft)
    BY DEF AdaptType
  <2>2. FieldType(i)' = FieldType(i) /\ InTable(i)' = InTable(i)
    BY DEF FieldType, InTable
  <2> QED BY <2>1, <2>2 DEF TakesNull
<1>4. ASSUME NEW row
      PROVE  Unreadable(row)' <=> Unreadable(row)
  BY <1>1, <1>3 DEF Unreadable
<1>5. Rendered' = Rendered
  BY DEF Rendered
<1> QED BY <1>1, <1>2, <1>4, <1>5

\* Whatever goes on around the call.
LEMMA CallKept ==
  ASSUME CallInv, UNCHANGED callVars, result # "none" => UNCHANGED <<vars, structVars, options>>,
         style' # "unknown" => phase' = "done", result # "none" => style' # "unknown"
  PROVE  CallInv'
<1>1. rows' = rows /\ ret' = ret /\ result' = result
  BY DEF callVars
<1>2. CASE result = "none"
  <2>1. rows' = <<>> /\ ret' = <<>> /\ result' = "none" /\ Len(<<>>) = 0
    BY <1>1, <1>2 DEF CallInv
  <2> QED BY <1>1, <2>1 DEF CallInv, ReadWell
<1>3. CASE result # "none"
  <2>1. /\ executed' = executed /\ Rendered' = Rendered
        /\ \A row : Scanned(row)' = Scanned(row) /\ (Unreadable(row)' <=> Unreadable(row))
    BY <1>3, Steady
  <2>2. ReadWell => ReadWell'
    BY <1>1, <2>1 DEF ReadWell
  <2>3. Unreadable(rows[Len(rows)]) => Unreadable(rows[Len(rows)])'
    BY <1>1, <2>1
  <2> QED BY <1>1, <1>3, <2>1, <2>2, <2>3 DEF CallInv
<1> QED BY <1>2, <1>3

LEMMA ReceiveRowStep ==
  ASSUME QInv, ReceiveRow
  PROVE  CallInv' /\ UNCHANGED <<vars, structVars, style>>
<1>1. PICK missing \in MissingSources, nulls \in BOOLEAN :
        NextRow([i \in 1 .. Len(executed) |-> Value(i, missing, nulls)])
  BY DEF ReceiveRow
<1>2. PICK row : row = [i \in 1 .. Len(executed) |-> Value(i, missing, nulls)]
  OBVIOUS
<1>3. NextRow(row) /\ result = "open"
  BY <1>1, <1>2 DEF ReceiveRow
<1>4. \A i \in 1 .. Len(executed) : row[i] # Zero
  <2>1. ASSUME NEW i
        PROVE  Value(i, missing, nulls) # Zero
    <3>1. <<executed[i], Len(rows) + 1>> # <<>>
      OBVIOUS
    <3> QED BY <3>1, QueryFuncAssumption DEF Value, Zero
  <2> QED BY <1>2, <2>1
<1>5. /\ Rendered /\ style # "unknown" /\ ReadWell /\ phase = "done"
      /\ (\E S : rows \in Seq(S)) /\ (\E S : ret \in Seq(S))
  BY <1>3 DEF QInv, CallInv
<1>6. ~NilPointer
  BY <1>5, RenderedFacts DEF QInv, NilPointer
<1>7. /\ rows' \in Seq({rows'[k] : k \in 1 .. Len(rows')}) /\ Len(rows') = Len(rows) + 1
      /\ Len(rows) \in Nat /\ rows'[Len(rows) + 1] = row /\ rows' # <<>>
      /\ \A k \in 1 .. Len(rows) : rows'[k] = rows[k]
  <2>1. PICK S : rows \in Seq(S)
    BY <1>5
  <2>2. rows \in Seq(S \union {row}) /\ rows' = Append(rows, row)
    BY <1>3, <2>1 DEF NextRow
  <2> QED BY <2>2
<1>8. \E S : rows' \in Seq(S)
  BY <1>7
<1>9. CASE Unreadable(row)
  <2>1. Came("error") /\ ret' = <<>>
    BY <1>3, <1>6, <1>9 DEF NextRow
  <2>2. result' = "error" /\ UNCHANGED <<vars, structVars, options>> /\ style' = style
    BY <2>1 DEF Came
  <2>3. Rendered' /\ phase' = "done" /\ Unreadable(row)'
    BY <1>5, <1>9, <2>2, Steady DEF vars
  <2>4. Unreadable(rows[Len(rows)])'
    <3>1. rows'[Len(rows')] = row
      BY <1>7
    <3>2. Unreadable(rows[Len(rows)])' <=> Unreadable(row)'
      BY <3>1 DEF Unreadable
    <3> QED BY <2>3, <3>2
  <2>5. <<>> \in Seq({})
    OBVIOUS
  <2> QED BY <1>5, <1>7, <1>8, <2>1, <2>2, <2>3, <2>4, <2>5 DEF CallInv
<1>10. CASE ~Unreadable(row)
  <2>1. Came("open") /\ ret' = Append(ret, Scanned(row))
    BY <1>3, <1>6, <1>10 DEF NextRow
  <2>2. result' = "open" /\ UNCHANGED <<vars, structVars, options>> /\ style' = style
    BY <2>1 DEF Came
  <2>3. /\ Rendered' /\ phase' = "done" /\ executed' = executed
        /\ \A r : Scanned(r)' = Scanned(r)
    BY <1>5, <2>2, Steady DEF vars
  <2>4. /\ \E S : ret' \in Seq(S)
        /\ Len(ret') = Len(ret) + 1 /\ ret'[Len(ret) + 1] = Scanned(row)
        /\ \A k \in 1 .. Len(ret) : ret'[k] = ret[k]
    <3>1. PICK S : ret \in Seq(S)
      BY <1>5
    <3> DEFINE e == Scanned(row)
    <3>2. ret \in Seq(S \union {e}) /\ ret' = Append(ret, e)
      BY <2>1, <3>1
    <3> HIDE DEF e
    <3>3. ret' \in Seq(S \union {e}) /\ Len(ret') = Len(ret) + 1 /\ ret'[Len(ret) + 1] = e
          /\ \A k \in 1 .. Len(ret) : ret'[k] = ret[k]
      BY <3>2
    <3> QED BY <3>3 DEF e
  <2>5. ReadWell'
    <3>1. Len(ret) = Len(rows)
      BY <1>5 DEF ReadWell
    <3>2. ASSUME NEW k \in 1 .. Len(rows')
          PROVE  ret'[k] = Scanned(rows'[k]) /\ \A i \in 1 .. Len(executed) : rows'[k][i] # Zero
      <4>1. CASE k = Len(rows) + 1
        BY <1>4, <1>7, <2>4, <3>1, <4>1
      <4>2. CASE k \in 1 .. Len(rows)
        BY <1>5, <1>7, <2>4, <3>1, <4>2 DEF ReadWell
      <4> QED BY <1>7, <4>1, <4>2
    <3>3. ASSUME NEW k \in 1 .. Len(rows')
          PROVE  ret'[k] = Scanned(rows[k])'
      <4>1. PICK r : r = rows'[k]
        OBVIOUS
      <4>2. Scanned(rows[k])' = Scanned(r)'
        BY <4>1 DEF Scanned
      <4>3. ret'[k] = Scanned(r)
        BY <3>2, <4>1
      <4> QED BY <2>3, <4>2, <4>3
    <3> QED BY <1>7, <2>3, <2>4, <3>1, <3>2, <3>3 DEF ReadWell
  <2> QED BY <1>5, <1>8, <2>2, <2>3, <2>4, <2>5 DEF CallInv
<1>11. UNCHANGED <<vars, structVars, style>>
  BY <1>3 DEF NextRow, Came
<1> QED BY <1>9, <1>10, <1>11

\* The steps of a call that read no row.
LEMMA CallStep ==
  ASSUME QInv, Call \/ Break \/ Return
  PROVE  CallInv' /\ UNCHANGED <<vars, structVars>>
<1>1. /\ UNCHANGED <<vars, structVars, options, style>> /\ rows' = rows
      /\ ret' = ret \/ ret' = <<>>
  <2>1. CASE Call
    BY <2>1 DEF Call, Came
  <2>2. CASE Break
    BY <2>2 DEF Break, Came
  <2>3. CASE Return
    BY <2>3 DEF Return, Came
  <2> QED BY <2>1, <2>2, <2>3
<1>2. Rendered /\ style # "unknown" /\ phase = "done"
  BY DEF Call, Made, Break, Return, QInv, CallInv
<1>3. ReadWell
  BY DEF Call, Break, Return, QInv, CallInv
<1>4. /\ result' \in {"open", "broken", "nil", "returned"}
      /\ result' # "broken" => ret' = ret
  BY DEF Call, Break, Return, Came
<1>5. /\ Rendered' /\ phase' = "done" /\ executed' = executed
      /\ \A row : Scanned(row)' = Scanned(row)
  BY <1>1, <1>2, Steady DEF vars
<1>6. result' # "broken" => ReadWell'
  BY <1>1, <1>3, <1>4, <1>5 DEF ReadWell
<1>7. (\E S : rows' \in Seq(S)) /\ (\E S : ret' \in Seq(S))
  <2>1. <<>> \in Seq({})
    OBVIOUS
  <2> QED BY <1>1, <2>1 DEF QInv, CallInv
<1> QED BY <1>1, <1>2, <1>4, <1>5, <1>6, <1>7 DEF CallInv

LEMMA QueryInductive == QInv /\ [QueryNext]_<<vars, structVars, queryVars>> => QInv'
<1> SUFFICES ASSUME QInv, [QueryNext]_<<vars, structVars, queryVars>>
             PROVE  QInv'
  OBVIOUS
<1>1. IInv /\ StructInv /\ CallInv
  BY DEF QInv
<1>2. CASE HandleSelectStmt
  <2>1. UNCHANGED <<vars, structVars>> /\ UNCHANGED callVars /\ phase = "done" /\ style = "unknown"
    BY <1>2 DEF HandleSelectStmt
  <2>2. result = "none"
    BY <1>1, <2>1 DEF CallInv
  <2>3. phase' = "done"
    BY <2>1 DEF vars
  <2> QED BY <1>1, <2>1, <2>2, <2>3, UnchangedStep, StructKept, CallKept DEF QInv
<1>3. CASE ReceiveRow
  BY <1>1, <1>3, ReceiveRowStep, UnchangedStep, StructKept DEF QInv
<1>4. CASE Call \/ Break \/ Return
  BY <1>1, <1>4, CallStep, UnchangedStep, StructKept DEF QInv
<1>5. CASE StructNext /\ UNCHANGED queryVars
  <2>1. IInv' /\ StructInv' /\ (phase = "done" => UNCHANGED vars) /\ (Rendered => UNCHANGED structVars)
    BY <1>1, <1>5, StructNextStep
  <2>2. UNCHANGED callVars /\ style' = style /\ UNCHANGED options
    BY <1>5 DEF queryVars
  <2>3. result # "none" => UNCHANGED <<vars, structVars, options>>
    BY <1>1, <2>1, <2>2 DEF CallInv, Rendered
  <2>4. style' # "unknown" => phase' = "done"
    BY <1>1, <2>1, <2>2 DEF CallInv, vars
  <2>5. result # "none" => style' # "unknown"
    BY <1>1, <2>2 DEF CallInv
  <2> QED BY <1>1, <2>1, <2>2, <2>3, <2>4, <2>5, CallKept DEF QInv
<1>6. CASE UNCHANGED <<vars, structVars, queryVars>>
  <2>1. UNCHANGED <<vars, structVars>> /\ UNCHANGED callVars /\ style' = style /\ UNCHANGED options
    BY <1>6 DEF queryVars
  <2>2. style' # "unknown" => phase' = "done"
    BY <1>1, <2>1 DEF CallInv, vars
  <2>3. result # "none" => style' # "unknown"
    BY <1>1, <2>1 DEF CallInv
  <2> QED BY <1>1, <2>1, <2>2, <2>3, UnchangedStep, StructKept, CallKept DEF QInv
<1> QED BY <1>2, <1>3, <1>4, <1>5, <1>6 DEF QueryNext

THEOREM QueryInvariant == QuerySpec => []QInv
BY QueryInitStep, QueryInductive, PTL DEF QuerySpec

\* What reads the statement goes on from NewSelectStmtMeta and ExpandWildcard and takes
\* nothing of theirs back (handleSelectStmt): their part of each behaviour is one of
\* theirs, and what is proved of SelectMeta holds here.
THEOREM StatementImplemented == QuerySpec => Spec
<1>1. QueryInit => Init
  BY DEF QueryInit, StructInit
<1>2. ASSUME [QueryNext]_<<vars, structVars, queryVars>>
      PROVE  [Next]_vars
  <2>1. CASE HandleSelectStmt
    BY <2>1 DEF HandleSelectStmt
  <2>2. CASE Call \/ ReceiveRow \/ Break \/ Return
    <3>1. Call \/ Break \/ Return => UNCHANGED vars
      BY DEF Call, Break, Return, Came
    <3>2. \A row : NextRow(row) => UNCHANGED vars
      BY DEF NextRow, Came
    <3>3. ReceiveRow => \E row : NextRow(row)
      BY Zenon DEF ReceiveRow
    <3> QED BY <2>2, <3>1, <3>2, <3>3
  <2>3. CASE StructNext
    <3>1. PlainField => UNCHANGED vars
      BY DEF PlainField
    <3>2. StructColumn => UNCHANGED vars
      BY DEF StructColumn
    <3> QED BY <2>3, <3>1, <3>2 DEF StructNext
  <2>4. CASE UNCHANGED <<vars, structVars, queryVars>>
    BY <2>4
  <2> QED BY <1>2, <2>1, <2>2, <2>3, <2>4 DEF QueryNext
<1> QED BY <1>1, <1>2, PTL DEF QuerySpec, Spec

\* The members of the struct have different names, however the names of fields and
\* tables collide with each other and with numbered ones (UniqueStringList.Append).
THEOREM MembersDiffer == QuerySpec => []MembersUnique
<1>1. QInv => MembersUnique
  BY DEF QInv, StructInv
<1> QED BY <1>1, QueryInvariant, PTL

-----------------------------------------------------------------------------
(* What is returned.                                                       *)

\* Every result field has a place to itself.
LEMMA PlacesApart ==
  ASSUME NoDifferences, IInv, StructInv, Rendered,
         NEW i \in 1 .. Len(flatten), NEW j \in 1 .. Len(flatten), flatten[i] = flatten[j]
  PROVE  i = j
<1>1. /\ phase = "done" /\ rf - 1 = Len(executed) /\ Len(flatten) = Len(executed)
      /\ Len(executed) \in Nat /\ i \in 1 .. Len(executed) /\ j \in 1 .. Len(executed)
  BY RenderedFacts DEF Rendered
<1>2. PICK mem : Grouped(mem)
  BY DEF StructInv
<1> DEFINE m == mem[i]
           n == mem[j]
<1>3. /\ m \in 1 .. Len(names) /\ Fits(i, names[m], types[m], Allocated, flatten[i])
      /\ n \in 1 .. Len(names) /\ Fits(j, names[n], types[n], Allocated, flatten[j])
      /\ m = n => Together(i, j)
  BY <1>1, <1>2 DEF Grouped
<1> HIDE DEF m, n
<1>4. names[m] = names[n] => Together(i, j)
  BY <1>3 DEF StructInv, MembersUnique, NameList!NoTwoAlike
<1>5. CASE TableAt(i) = {}
  <2>1. flatten[i] = <<names[m]>>
    BY <1>3, <1>5 DEF Fits
  <2>2. flatten[j] = <<names[n]>> \/ \E c : flatten[j] = <<names[n], c>>
    BY <1>3 DEF Fits
  <2>3. names[m] = names[n]
    BY <2>1, <2>2
  <2> QED BY <1>4, <1>5, <2>3 DEF Together
<1>6. ASSUME NEW s \in TableAt(i)
      PROVE  i = j
  <2>1. TableAt(i) = {s} /\ s \in 1 .. Len(listed) /\ InWild(i, s)
    BY <1>1, InTableAt
  <2>2. flatten[i] = <<names[m], listed[s].cols[ColumnAt(i)]>>
    BY <1>3, <2>1 DEF Fits
  <2>3. flatten[j] = <<names[n]>>
        \/ \E r \in TableAt(j) : flatten[j] = <<names[n], listed[r].cols[ColumnAt(j)]>>
    BY <1>3 DEF Fits
  <2>4. names[m] = names[n]
    BY <2>2, <2>3
  <2>5. Together(i, j) /\ TableAt(j) = {s}
    BY <1>1, <1>4, <2>1, <2>4, TogetherFacts
  <2>6. InWild(j, s)
    BY <1>1, <2>5, InTableAt
  <2>7. listed[s].cols[ColumnAt(i)] = listed[s].cols[ColumnAt(j)]
    BY <2>2, <2>3, <2>5
  <2>8. fields[i] = fields[j]
    BY <2>1, <2>6, <2>7 DEF InWild, ColumnTexts
  <2>9. executed[i] = executed[j]
    <3>1. /\ executed = [k \in 1 .. Len(fields) |-> FieldReads(listed, fields[k])]
          /\ Len(executed) = Len(fields)
      BY <1>1, DoneFacts
    <3> QED BY <1>1, <2>8, <3>1
  <2>10. ColumnAt(i) = ColumnAt(j)
    BY <1>1, <2>1, <2>6, <2>9, InWildReads
  <2>11. CASE MapAt(i) = MapAt(j)
    <3>1. ColumnAt(i) \in Int /\ i - ColumnAt(i) = j - ColumnAt(j)
      BY <1>1, <2>1, <2>11, SameWild DEF InWild
    <3> QED BY <1>1, <2>10, <3>1
  <2> QED BY <2>5, <2>11 DEF Together
<1> QED BY <1>5, <1>6

\* A value read is found in its place.
LEMMA ScannedAt ==
  ASSUME NoDifferences, IInv, StructInv, Rendered, NEW row, NEW i \in 1 .. Len(flatten)
  PROVE  Scanned(row)[flatten[i]] = row[i]
<1> DEFINE at(p) == {j \in 1 .. Len(flatten) : flatten[j] = p}
           last(p) == CHOOSE j \in at(p) : \A k \in at(p) : k <= j
<1>1. flatten[i] \in Places
  BY RenderedFacts
<1>2. at(flatten[i]) = {i}
  BY PlacesApart
<1>3. last(flatten[i]) = i
  <2>1. i <= i
    OBVIOUS
  <2> HIDE DEF at
  <2> QED BY <1>2, <2>1
<1>4. Scanned(row)[flatten[i]] =
        IF at(flatten[i]) = {} THEN New[flatten[i]] ELSE row[last(flatten[i])]
  BY <1>1, Zenon DEF Scanned
<1> HIDE DEF at, last
<1> QED BY <1>2, <1>3, <1>4

\* What is returned is what the statement as the user wrote it reads: an entry for each
\* row, in order, with every value in a place of its own, under the name of its column
\* in a struct of its table if a wildcard took it in (templates/dft/select.go).
THEOREM EntriesReturned ==
  ASSUME NoDifferences
  PROVE  QuerySpec => []EntriesFaithful
<1>1. QInv => EntriesFaithful
  <2> SUFFICES ASSUME QInv, result = "returned"
               PROVE  EntriesFaithful
    BY DEF EntriesFaithful
  <2>1. IInv /\ StructInv /\ Rendered /\ ReadWell /\ phase = "done"
    BY DEF QInv, CallInv, Rendered
  <2>2. /\ Len(flatten) = Len(executed)
        /\ \A i \in 1 .. Len(flatten) : flatten[i] \in Places
        /\ \A p \in Places : \E i \in 1 .. Len(flatten) : flatten[i] = p
    BY <2>1, RenderedFacts
  <2>3. ASSUME NEW k \in 1 .. Len(ret)
        PROVE  /\ \A i \in 1 .. Len(executed) : ret[k][flatten[i]] = rows[k][i]
               /\ \A p \in DOMAIN ret[k] : ret[k][p] # Zero
    <3>1. ret[k] = Scanned(rows[k]) /\ \A i \in 1 .. Len(executed) : rows[k][i] # Zero
      BY <2>1 DEF ReadWell
    <3>2. \A i \in 1 .. Len(executed) : ret[k][flatten[i]] = rows[k][i]
      BY <2>1, <2>2, <3>1, ScannedAt
    <3>3. DOMAIN ret[k] = Places
      BY <3>1 DEF Scanned
    <3> QED BY <2>2, <3>1, <3>2, <3>3
  <2>4. \A i, j \in 1 .. Len(flatten) : i # j => flatten[i] # flatten[j]
    BY <2>1, PlacesApart
  <2>5. ASSUME NEW i \in 1 .. Len(flatten), InTable(i)
        PROVE  LET s == types[Member(flatten[i][1])][1]
               IN  /\ origin.executed[i][1] = s
                   /\ listed[s].cols[origin.executed[i][2]] = flatten[i][2]
    <3>1. PICK mem : Grouped(mem)
      BY <2>1 DEF StructInv
    <3> DEFINE m == mem[i]
    <3>2. /\ rf - 1 = Len(executed) /\ i \in 1 .. Len(executed)
      <4>1. Len(executed) \in Nat /\ rf = Len(executed) + 1
        BY <2>1, RenderedFacts DEF Rendered
      <4> QED BY <2>2, <4>1
    <3>3. m \in 1 .. Len(names) /\ Fits(i, names[m], types[m], Allocated, flatten[i])
      BY <3>1, <3>2 DEF Grouped
    <3> HIDE DEF m
    <3>4. PICK s \in TableAt(i) :
            types[m] = <<s>> /\ flatten[i] = <<names[m], listed[s].cols[ColumnAt(i)]>>
      <4>1. flatten[i] # <<names[m]>>
        BY <2>5 DEF InTable
      <4> QED BY <3>3, <4>1 DEF Fits
    <3>5. Member(names[m]) = m
      BY <2>1, <3>3 DEF Member, StructInv, MembersUnique, NameList!NoTwoAlike
    <3>6. s \in 1 .. Len(listed) /\ InWild(i, s)
      BY <2>1, <3>2, InTableAt
    <3>7. origin.executed[i] = <<s, ColumnAt(i)>>
      BY <2>1, <3>2, <3>6, InWildReads, SameResults
    <3> QED BY <3>4, <3>5, <3>7
  <2> QED BY <2>1, <2>3, <2>4, <2>5 DEF EntriesFaithful, ReadWell
<1> QED BY <1>1, QueryInvariant, PTL

\* A nullable type takes a NULL; of the types chosen for a column that may have one,
\* only that of a YEAR is none.
LEMMA NullTaken ==
  ASSUME NEW ft, options.AllNullTypes \/ ~ft.notNull, ft.tp # "year"
  PROVE  Holds(AdaptType(ft), NULL)
<1>1. AdaptType(ft) \in {"NullBool", "NullInt64", "NullFloat64", "NullTime", "NullString", "[]byte"}
  BY DEF AdaptType
<1>2. DOMAIN PlainOf = {"NullInt64", "NullString", "NullFloat64", "NullBool", "NullTime"}
  BY DEF PlainOf
<1> QED BY <1>1, <1>2 DEF Holds

\* A call never takes a field of a nil pointer, and a row that has arrived cannot be
\* read only if it has a NULL where the struct has a plain type.
THEOREM UnreadForCause == QuerySpec => []QueryFailsForCause
<1>1. QInv => QueryFailsForCause
  <2> SUFFICES ASSUME QInv
               PROVE  QueryFailsForCause
    OBVIOUS
  <2>1. result # "panic"
    BY DEF QInv, CallInv
  <2>2. ASSUME result = "error"
        PROVE  \E i \in 1 .. Len(executed) :
                 /\ rows[Len(rows)][i] = NULL
                 /\ \/ FieldType(i).tp = "year"
                    \/ /\ FieldType(i).notNull /\ ~options.AllNullTypes
                       /\ ~(InTable(i) /\ FieldType(i).tp \in {"enum", "set"})
    <3>1. Len(flatten) = Len(executed) /\ Unreadable(rows[Len(rows)])
      BY <2>2, RenderedFacts DEF QInv, CallInv
    <3>2. PICK i \in 1 .. Len(flatten) : rows[Len(rows)][i] = NULL /\ ~TakesNull(i)
      BY <3>1 DEF Unreadable
    <3>3. ~Holds(AdaptType(FieldType(i)), NULL) /\ ~(InTable(i) /\ FieldType(i).tp \in {"enum", "set"})
      BY <3>2 DEF TakesNull
    <3> QED BY <3>1, <3>2, <3>3, NullTaken
  <2> QED BY <2>1, <2>2 DEF QueryFailsForCause
<1> QED BY <1>1, QueryInvariant, PTL
-----------------------------------------------------------------------------
(* What a plain statement is not refused for.                              *)

\* The statement as it was written.
Asked == IF origin = NoOrigin THEN fields ELSE origin.fields

PlainSource(srcs, i) ==
  /\ Len(RefName(srcs[i])) <= 2
  /\ srcs[i].as = <<>> \/ Len(srcs[i].as) = 1
  /\ \A c \in 1 .. Len(srcs[i].cols) :
       /\ srcs[i].cols[c] \notin NotIdent
       /\ \A d \in 1 .. Len(srcs[i].cols) : srcs[i].cols[c] = srcs[i].cols[d] => c = d
  /\ \A n \in 1 .. Len(RefName(srcs[i])) : RefName(srcs[i])[n] \notin DOMAIN Hyphened
  /\ \A j \in 1 .. Len(srcs) : NameChecked(RefName(srcs[i])) = NameChecked(RefName(srcs[j])) => i = j

LEMMA PlainFacts ==
  ASSUME NEW srcs, NEW fs, Plain(srcs, fs)
  PROVE  /\ Accepts(srcs, fs)
         /\ \A i \in 1 .. Len(srcs) : PlainSource(srcs, i)
         /\ \A k \in 1 .. Len(fs) : fs[k].kind = "wild" => Taken(srcs, fs[k]) # {}
<1>1. Accepts(srcs, fs) /\ \A i \in 1 .. Len(srcs) : PlainSource(srcs, i)
  BY DEF Plain, PlainSource, NameChecked
<1>2. \A k \in 1 .. Len(fs) : fs[k].kind = "wild" => \E i \in 1 .. Len(srcs) : Takes(srcs, fs[k], i)
  BY DEF Plain
<1> QED BY <1>1, <1>2 DEF Taken

LEMMA PlainNames ==
  ASSUME NEW srcs \in Seq(AllSources), NEW fs, Plain(srcs, fs)
  PROVE  NamesPass(srcs)
<1>1. ASSUME NEW i \in 1 .. Len(srcs)
      PROVE  Len(RefName(srcs[i])) \in TableParts
  <2>1. srcs[i] \in AllSources
    OBVIOUS
  <2>2. Len(RefName(srcs[i])) \in Nat \ {0} /\ Len(RefName(srcs[i])) <= 2
    BY <2>1, PlainFacts, SourceFacts DEF PlainSource
  <2> DEFINE n == Len(RefName(srcs[i]))
  <2> HIDE DEF n
  <2>3. n \in Nat \ {0} /\ n <= 2
    BY <2>2 DEF n
  <2>4. n \in {1, 2}
    BY <2>3
  <2>5. n \in TableParts
    BY <2>4 DEF TableParts
  <2> QED BY <2>5 DEF n
<1>2. ~NamesClash(srcs)
  BY PlainFacts DEF PlainSource, NamesClash
<1> QED BY <1>1, <1>2 DEF NamesPass

\* Executed or compiled, a plain statement has the same result fields, and as many
\* as its fields are expanded to.
LEMMA PlainLengths ==
  ASSUME NEW srcs \in Seq(AllSources), NEW fs \in Seq(AllFields), Plain(srcs, fs)
  PROVE  /\ Executed(srcs, fs) = Compiled(srcs, fs)
         /\ Len(Compiled(srcs, fs)) = Len(FlattenSeq(AllExpanded(srcs, fs)))
<1>1. NamesPass(srcs) /\ Accepts(srcs, fs) /\ Len(fs) \in Nat /\ Len(srcs) \in Nat
  BY PlainNames, PlainFacts
<1>2. ASSUME NEW k \in 1 .. Len(fs)
      PROVE  /\ FieldResults(srcs, fs[k], Taken(srcs, fs[k])) = FieldResults(srcs, fs[k], Meant(srcs, fs[k]))
             /\ Len(FieldResults(srcs, fs[k], Meant(srcs, fs[k]))) = Len(ExpandedOver(srcs, fs[k]))
  <2> DEFINE f == fs[k]
  <2>1. CASE ~IsWild(f)
    <3>1. FieldResults(srcs, f, Meant(srcs, f)) = <<FieldReads(srcs, f)>> /\ ExpandedOver(srcs, f) = <<f>>
      BY <2>1, PlainExpanded DEF FieldResults
    <3>2. Len(<<FieldReads(srcs, f)>>) = 1 /\ Len(<<f>>) = 1
      OBVIOUS
    <3> QED BY <2>1, <3>1, <3>2 DEF FieldResults
  <2>2. CASE f.kind = "star"
    <3> DEFINE all == Meant(srcs, f)
               parts == Parts(srcs, all)
               X == Results(srcs, fs)
    <3>1. all = 1 .. Len(srcs) /\ Taken(srcs, f) = all
      BY <2>2 DEF Taken, Meant, Takes
    <3>2. FieldResults(srcs, f, all) = FlattenSeq(parts) /\ ExpandedOver(srcs, f) = FlattenSeq(Texts(srcs))
      BY <2>2, StarExpanded DEF FieldResults, IsWild
    <3>3. /\ parts \in Seq(Seq(X)) /\ Len(parts) = Len(srcs)
          /\ Texts(srcs) \in Seq(Seq(PlainFields)) /\ Len(Texts(srcs)) = Len(srcs)
      BY PartsType, TextsFacts
    <3>4. ASSUME NEW i \in 1 .. Len(srcs)
          PROVE  Len(parts[i]) = Len(Texts(srcs)[i])
      <4>1. srcs[i] \in AllSources
        OBVIOUS
      <4>2. parts[i] = Columns(srcs, i) /\ Texts(srcs)[i] = ColumnTexts(srcs[i])
        BY <3>1, TextsFacts DEF Parts
      <4> QED BY <4>1, <4>2, ColumnsType, ColumnTextsFacts
    <3> HIDE DEF parts, X, all
    <3>5. Len(FlattenSeq(parts)) = Len(FlattenSeq(Texts(srcs)))
      BY <3>3, <3>4, FlattenSameLength
    <3> QED BY <3>1, <3>2, <3>5 DEF all
  <2>3. CASE f.kind = "wild"
    <3>1. Named(srcs, UniqueTableName(f.db, f.tbl)) # {}
      BY <1>1, <2>3, AcceptedWilds
    <3>2. PICK s \in 1 .. Len(srcs) :
            RefName(srcs[s]) = UniqueTableName(f.db, f.tbl) /\ ExpandedOver(srcs, f) = ColumnTexts(srcs[s])
      BY <2>3, <3>1, WildSource
    <3>3. Meant(srcs, f) = {s} /\ Taken(srcs, f) = {s}
      <4>1. Taken(srcs, f) # {}
        BY <2>3, PlainFacts
      <4> QED BY <1>1, <2>3, <3>2, <4>1, WildTakes
    <3>4. FieldResults(srcs, f, {s}) = Columns(srcs, s)
      BY <2>3, PartsOne DEF FieldResults, IsWild
    <3>5. srcs[s] \in AllSources
      BY <3>2
    <3> QED BY <3>2, <3>3, <3>4, <3>5, ColumnsType, ColumnTextsFacts
  <2> QED BY <2>1, <2>2, <2>3 DEF IsWild
<1>3. ExecutedBy(srcs, fs) = CompiledBy(srcs, fs)
  BY <1>2 DEF ExecutedBy, CompiledBy
<1>4. Len(FlattenSeq(CompiledBy(srcs, fs))) = Len(FlattenSeq(AllExpanded(srcs, fs)))
  <2> DEFINE X == Results(srcs, fs)
             s == CompiledBy(srcs, fs)
             t == AllExpanded(srcs, fs)
  <2>1. s \in Seq(Seq(X)) /\ t \in Seq(Seq(PlainFields)) /\ Len(s) = Len(fs) /\ Len(t) = Len(fs)
    BY <1>1, ResultsType, AllExpandedType
  <2>2. \A k \in 1 .. Len(fs) : Len(s[k]) = Len(t[k])
    BY <1>2 DEF CompiledBy, AllExpanded
  <2> HIDE DEF X, s, t
  <2> QED BY <2>1, <2>2, FlattenSameLength DEF s, t
<1> QED BY <1>3, <1>4, ExecutedAs, CompiledAs

\* A text that ExpandWildcard writes of a plain statement means one column.
LEMMA TextMeans ==
  ASSUME NEW srcs \in Seq(AllSources), NEW fs, Plain(srcs, fs),
         NEW s \in 1 .. Len(srcs), NEW c \in 1 .. Len(srcs[s].cols)
  PROVE  LET parts == Append(RefName(srcs[s]), srcs[s].cols[c])
         IN  NamesIn(parts) = <<parts>> /\ Meanings(srcs, parts) = {<<s, c>>}
<1> DEFINE ref == RefName(srcs[s])
           col == srcs[s].cols[c]
           parts == Append(ref, col)
           L == Len(ref)
<1>1. srcs[s] \in AllSources /\ PlainSource(srcs, s) /\ NamesPass(srcs)
  BY PlainFacts, PlainNames
<1>2. L \in {1, 2} /\ \E S : ref \in Seq(S)
  BY <1>1, SourceFacts DEF NamesPass, TableParts
<1>3. /\ Len(parts) = L + 1 /\ parts[L + 1] = col /\ \A n \in 1 .. L : parts[n] = ref[n]
      /\ NameChecked(ref) = parts[L]
  <2>1. PICK S : ref \in Seq(S)
    BY <1>2
  <2>2. ref \in Seq(S \union {col}) /\ col \in S \union {col}
    BY <2>1
  <2> HIDE DEF ref, col
  <2>3. Len(parts) = L + 1 /\ parts[L + 1] = col /\ \A n \in 1 .. L : parts[n] = ref[n]
    BY <2>2
  <2>4. L \in 1 .. L
    <3> HIDE DEF L
    <3> QED BY <1>2
  <2> QED BY <2>3, <2>4 DEF NameChecked
<1> HIDE DEF parts
<1>4. NamesIn(parts) = <<parts>>
  <2>1. ASSUME NEW n \in 1 .. Len(parts)
        PROVE  parts[n] \notin DOMAIN Hyphened
    <3>1. CASE n = L + 1
      <4>1. col \notin NotIdent
        BY <1>1 DEF PlainSource
      <4> QED BY <1>3, <3>1, <4>1, HyphenAssumption
    <3>2. CASE n # L + 1
      <4>1. n \in 1 .. L
        BY <1>2, <1>3, <3>2
      <4> QED BY <1>1, <1>3, <4>1 DEF PlainSource
    <3> QED BY <3>1, <3>2
  <2> QED BY <2>1 DEF NamesIn
<1> DEFINE M == Meanings(srcs, parts)
           qualified(src) ==
             \/ Len(parts) = 2 /\ RefName(src) = <<parts[1]>>
             \/ Len(parts) = 3 /\ RefName(src) = UniqueTableName(parts[1], parts[2])
           those == {j \in 1 .. Len(srcs) : qualified(srcs[j])}
           alike(i) == {d \in 1 .. Len(srcs[i].cols) : srcs[i].cols[d] = col}
<1>5. M = UNION {{<<i, d>> : d \in alike(i)} : i \in those}
  <2>1. Len(parts) \in {2, 3} /\ parts[Len(parts)] = col
    <3> HIDE DEF ref, col, L
    <3> QED BY <1>2, <1>3
  <2>2. CASE Len(parts) = 2
    BY <2>1, <2>2 DEF Meanings
  <2>3. CASE Len(parts) = 3
    BY <2>1, <2>3 DEF Meanings
  <2> QED BY <2>1, <2>2, <2>3
<1>6. ASSUME NEW i \in those
      PROVE  i = s
  <2>1. NameChecked(RefName(srcs[i])) = parts[L]
    <3>1. CASE Len(parts) = 2 /\ RefName(srcs[i]) = <<parts[1]>>
      BY <1>2, <1>3, <3>1 DEF NameChecked
    <3>2. CASE Len(parts) = 3 /\ RefName(srcs[i]) = UniqueTableName(parts[1], parts[2])
      BY <1>2, <1>3, <3>2, LastOfTable
    <3> QED BY <3>1, <3>2
  <2> QED BY <1>1, <1>3, <2>1, SameName
<1>7. s \in those
  <2>1. CASE L = 1
    <3>1. ref = <<parts[1]>>
      <4>1. PICK S : ref \in Seq(S)
        BY <1>2
      <4>2. ref[1] = parts[1] /\ Len(ref) = 1
        BY <1>3, <2>1
      <4> HIDE DEF ref
      <4> QED BY <4>1, <4>2
    <3> QED BY <1>3, <2>1, <3>1
  <2>2. CASE L = 2
    <3>1. srcs[s].as = <<>>
      <4>1. srcs[s].as = <<>> \/ Len(srcs[s].as) = 1
        BY <1>1 DEF PlainSource
      <4>2. srcs[s].as # <<>> => ref = srcs[s].as
        BY Zenon DEF RefName
      <4>3. L # 1
        <5> HIDE DEF L
        <5> QED BY <2>2
      <4>4. Len(srcs[s].as) = 1 => ref # srcs[s].as
        BY <4>3, Zenon
      <4> QED BY <4>1, <4>2, <4>4, Zenon
    <3>2. /\ ref = <<srcs[s].db, srcs[s].name>>
          /\ UniqueTableName(srcs[s].db, srcs[s].name) = <<srcs[s].db, srcs[s].name>>
      <4>1. ref = UniqueTableName(srcs[s].db, srcs[s].name)
        BY <3>1 DEF RefName
      <4>2. ASSUME NEW d, NEW n, Len(UniqueTableName(d, n)) = 2
            PROVE  UniqueTableName(d, n) = <<d, n>>
        <5>1. Len(<<n>>) = 1
          OBVIOUS
        <5>2. UniqueTableName(d, n) # <<n>>
          BY <4>2, <5>1
        <5> QED BY <5>2, Zenon DEF UniqueTableName
      <4> QED BY <2>2, <4>1, <4>2
    <3>3. parts[1] = srcs[s].db /\ parts[2] = srcs[s].name
      BY <1>3, <2>2, <3>2
    <3> QED BY <1>3, <2>2, <3>2, <3>3
  <2> QED BY <1>2, <2>1, <2>2
<1>8. alike(s) = {c}
  BY <1>1 DEF PlainSource
<1> HIDE DEF qualified, those
<1>9. those = {s}
  BY <1>6, <1>7
<1>10. M = {<<s, c>>}
  <2> HIDE DEF M, alike
  <2> QED BY <1>5, <1>8, <1>9
<1> QED BY <1>4, <1>10 DEF parts

\* The fields of the statement that ExpandWildcard writes.
PlainTexts(srcs, fs) ==
  {fs[k] : k \in {m \in 1 .. Len(fs) : ~IsWild(fs[m])}}
    \union UNION {ToSet(ColumnTexts(srcs[s])) : s \in 1 .. Len(srcs)}

LEMMA AllWritten ==
  ASSUME NEW srcs \in Seq(AllSources), NEW fs \in Seq(AllFields), Accepts(srcs, fs)
  PROVE  FlattenSeq(AllExpanded(srcs, fs)) \in Seq(PlainTexts(srcs, fs))
<1> DEFINE W == PlainTexts(srcs, fs)
<1>1. ASSUME NEW s \in 1 .. Len(srcs)
      PROVE  ColumnTexts(srcs[s]) \in Seq(W)
  <2> DEFINE t == ColumnTexts(srcs[s])
  <2>1. ToSet(t) \subseteq W
    BY DEF PlainTexts
  <2>2. t \in Seq(PlainFields)
    <3>1. srcs[s] \in AllSources
      OBVIOUS
    <3> QED BY <3>1, ColumnTextsFacts
  <2> HIDE DEF W, t
  <2>3. \A i \in 1 .. Len(t) : t[i] \in W
    BY <2>1, <2>2, ToSetMember
  <2> QED BY <2>2, <2>3 DEF t
<1>2. FlattenSeq(Texts(srcs)) \in Seq(W)
  <2>1. Len(srcs) \in Nat /\ Len(Texts(srcs)) = Len(srcs) /\ \A i \in 1 .. Len(srcs) : ColumnTexts(srcs[i]) \in Seq(W)
    BY <1>1, TextsFacts
  <2> HIDE DEF W
  <2>2. Texts(srcs) \in Seq(Seq(W))
    BY <2>1 DEF Texts
  <2> QED BY <2>2, FlattenType
<1>3. ASSUME NEW k \in 1 .. Len(fs)
      PROVE  ExpandedOver(srcs, fs[k]) \in Seq(W)
  <2>1. CASE ~IsWild(fs[k])
    <3>1. fs[k] \in W
      BY <2>1 DEF PlainTexts
    <3> HIDE DEF W
    <3>2. <<fs[k]>> \in Seq(W)
      BY <3>1
    <3> QED BY <2>1, <3>2, PlainExpanded
  <2>2. CASE fs[k].kind = "star"
    BY <1>2, <2>2, StarExpanded
  <2>3. CASE fs[k].kind = "wild"
    <3>1. Named(srcs, UniqueTableName(fs[k].db, fs[k].tbl)) # {}
      BY <2>3, AcceptedWilds
    <3>2. PICK s \in 1 .. Len(srcs) : ExpandedOver(srcs, fs[k]) = ColumnTexts(srcs[s])
      BY <2>3, <3>1, WildSource
    <3> QED BY <1>1, <3>2
  <2> QED BY <2>1, <2>2, <2>3 DEF IsWild
<1> HIDE DEF W
<1>4. AllExpanded(srcs, fs) \in Seq(Seq(W))
  <2>1. Len(fs) \in Nat
    OBVIOUS
  <2> QED BY <1>3, <2>1 DEF AllExpanded
<1> QED BY <1>4, FlattenType DEF W

\* The database accepts a plain statement, and the one it is expanded to.
LEMMA PlainAccepted ==
  ASSUME IInv, phase = "execute", Plain(listed, Asked)
  PROVE  Accepts(listed, fields)
<1>1. CASE origin = NoOrigin
  BY <1>1, PlainFacts DEF Asked
<1>2. CASE origin # NoOrigin
  <2>1. TypeInv /\ OriginInv /\ listed \in Seq(AllSources) /\ Plain(listed, origin.fields)
    BY <1>2, ListedType DEF IInv, Asked
  <2>2. /\ Known(listed, origin) /\ fields = FlattenSeq(AllExpanded(listed, origin.fields))
        /\ fields \in Seq(PlainFields) /\ \A k \in 1 .. Len(fields) : ~IsWild(fields[k])
    BY <1>2, <2>1, SecondRound DEF OriginInv
  <2>3. /\ origin.fields \in Seq(AllFields) /\ Accepts(listed, origin.fields)
        /\ \A k \in 1 .. Len(origin.fields) : origin.fields[k].kind \in {"star", "wild", "expr"}
    BY <2>1, <2>2, OriginFacts, UserFieldFacts DEF Known
  <2>4. fields \in Seq(PlainTexts(listed, origin.fields))
    BY <2>1, <2>2, <2>3, AllWritten
  <2>5. ASSUME NEW k \in 1 .. Len(fields), fields[k].kind = "text"
        PROVE  \A n \in 1 .. Len(NamesIn(fields[k].parts)) :
                 Cardinality(Meanings(listed, NamesIn(fields[k].parts)[n])) = 1
    <3>1. fields[k] \in PlainTexts(listed, origin.fields)
      BY <2>4
    <3>2. PICK s \in 1 .. Len(listed) : fields[k] \in ToSet(ColumnTexts(listed[s]))
      BY <2>3, <2>5, <3>1 DEF PlainTexts
    <3>3. listed[s] \in AllSources
      BY <2>1
    <3>4. PICK c \in 1 .. Len(listed[s].cols) :
            fields[k] = Text(Append(RefName(listed[s]), listed[s].cols[c]))
      BY <3>2, <3>3, ColumnTextsFacts DEF ToSet
    <3> DEFINE parts == Append(RefName(listed[s]), listed[s].cols[c])
    <3>5. fields[k].parts = parts /\ NamesIn(parts) = <<parts>> /\ Meanings(listed, parts) = {<<s, c>>}
      BY <2>1, <3>4, TextMeans DEF Text
    <3> HIDE DEF parts
    <3>6. Len(<<parts>>) = 1 /\ <<parts>>[1] = parts /\ \A n \in 1 .. 1 : n = 1
      OBVIOUS
    <3>7. Cardinality({<<s, c>>}) = 1
      BY FS_Singleton
    <3> QED BY <3>5, <3>6, <3>7
  <2>6. \A i, j \in 1 .. Len(listed) :
          RefName(listed[i]) = RefName(listed[j]) /\ listed[i].kind = listed[j].kind => i = j
    BY <2>3 DEF Accepts
  <2>7. \A k \in 1 .. Len(fields) : fields[k].kind # "star" /\ fields[k].kind # "wild"
    BY <2>2 DEF IsWild
  <2> QED BY <2>5, <2>6, <2>7 DEF Accepts
<1> QED BY <1>1, <1>2

\* The table source visited next is the next one listed.
LEMMA NextSource ==
  ASSUME IInv, phase = "collect", todo # <<>>, Head(todo).kind \in {"table", "derived"}
  PROVE  /\ listed \in Seq(AllSources) /\ Len(tableSources) \in Nat
         /\ Len(tableSources) + 1 \in 1 .. Len(listed)
         /\ tableSources = First(listed, Len(tableSources))
         /\ Head(todo) = listed[Len(tableSources) + 1]
         /\ Walk(listed, Tail(todo), Len(tableSources) + 1)
<1> DEFINE n == Len(tableSources)
           node == Head(todo)
<1>1. /\ listed \in Seq(AllSources) /\ Len(listed) \in Nat /\ Walk(listed, todo, n)
      /\ tableSources = First(listed, n)
  BY ListedType DEF IInv, WalkInv
<1> HIDE DEF n
<1>2. n \in 0 .. Len(listed)
  BY <1>1, WalkHead
<1>3. PICK hi \in 0 .. Len(listed) : Node(listed, n, hi, node) /\ Walk(listed, Tail(todo), hi)
  BY <1>1, WalkHead
<1>4. node # Nil /\ ~ \E l, r : node = Join(l, r)
  <2>1. Nil.kind \notin {"table", "derived"} /\ \A l, r : Join(l, r).kind \notin {"table", "derived"}
    BY DEF Nil, Join
  <2> QED BY <2>1
<1>5. hi = n + 1 /\ node = listed[hi]
  <2> HIDE DEF node
  <2> QED BY <1>1, <1>2, <1>3, <1>4, NodeCases
<1>6. n \in Nat /\ n + 1 \in 1 .. Len(listed)
  BY <1>2, <1>5
<1> QED BY <1>1, <1>3, <1>5, <1>6 DEF n

\* All table sources are collected when there is nothing left to visit.
LEMMA AllCollected ==
  ASSUME IInv, phase = "collect", todo = <<>>
  PROVE  tableSources = listed /\ listed \in Seq(AllSources)
<1>1. /\ tableSources = First(listed, Len(tableSources)) /\ Walk(listed, <<>>, Len(tableSources))
      /\ listed \in Seq(AllSources)
  BY ListedType DEF IInv, WalkInv
<1>2. Len(tableSources) = Len(listed)
  BY <1>1, WalkEnd
<1> QED BY <1>1, <1>2, FirstAll

\* The names of its table sources pass.
LEMMA PlainCollected ==
  ASSUME IInv, Plain(listed, Asked), CollectSource
  PROVE  ~RefNameTaken(RefName(Head(todo)))
<1> DEFINE n == Len(tableSources)
<1>1. /\ listed \in Seq(AllSources) /\ n \in Nat /\ n + 1 \in 1 .. Len(listed)
      /\ tableSources = First(listed, n) /\ Head(todo) = listed[n + 1]
  BY NextSource DEF CollectSource
<1> HIDE DEF n
<1>2. ASSUME NEW i \in Named(tableSources, RefName(listed[n + 1]))
      PROVE  FALSE
  <2>1. /\ i \in 1 .. Len(tableSources) /\ RefName(tableSources[i]) = RefName(listed[n + 1])
    BY DEF Named
  <2>2. i \in 1 .. n
    BY <2>1 DEF n
  <2>3. i \in 1 .. Len(listed) /\ i # n + 1
    BY <1>1, <2>2
  <2>4. tableSources[i] = listed[i]
    BY <1>1, <2>2 DEF First
  <2> QED BY <1>1, <2>1, <2>3, <2>4, PlainNames, SameName
<1> QED BY <1>1, <1>2 DEF RefNameTaken

LEMMA PlainChecked ==
  ASSUME IInv, Plain(listed, Asked), CheckNames
  PROVE  NamesPass(tableSources)
BY AllCollected, PlainNames DEF CheckNames

\* A statement with a wildcard is the one that was written, and the map has as many
\* result fields as it is expanded to.
LEMMA PlainRoom ==
  ASSUME IInv, Plain(listed, Asked), InFields, IsWild(fields[field])
  PROVE  /\ origin = NoOrigin
         /\ Len(rfToWildcard) = Len(FlattenSeq(AllExpanded(listed, fields)))
<1>1. /\ TypeInv /\ RunInv /\ OriginInv /\ phase = "fields" /\ listed \in Seq(AllSources)
      /\ fields \in Seq(AllFields) /\ field \in 1 .. Len(fields)
  BY ScanFacts DEF InFields
<1>2. origin = NoOrigin
  BY <1>1, SecondRound
<1>3. Len(rfToWildcard) = Len(Compiled(listed, fields))
  BY <1>1 DEF RunInv, Reading
<1> QED BY <1>1, <1>2, <1>3, PlainLengths DEF Asked

\* The result fields after those passed are in no wildcard.
LEMMA RoomLeft ==
  ASSUME IInv, InFields, NEW s \in 1 .. Len(listed),
         offset + Len(listed[s].cols) <= Len(rfToWildcard)
  PROVE  CanAddWildcard(Len(listed[s].cols))
<1> DEFINE num == Len(listed[s].cols)
<1>1. listed[s] \in AllSources
  BY ScanFacts
<1>2. num \in Nat /\ num > 0
  <2>1. listed[s].cols # <<>> /\ listed[s].cols \in Seq(ToSet(listed[s].cols))
    BY <1>1, SourceFacts
  <2> QED BY <2>1
<1>3. /\ offset \in Nat /\ offset = Len(Passed(listed, fields, field, starAt))
      /\ Marks(listed, fields, Passed(listed, fields, field, starAt), wildcards, rfToWildcard)
      /\ Len(rfToWildcard) \in Nat
  BY ScanFacts DEF TypeInv
<1> HIDE DEF num
<1>4. ASSUME NEW i \in offset + 1 .. offset + num
      PROVE  rfToWildcard[i] = 0
  <2>1. i \in 1 .. Len(rfToWildcard) /\ ~(i <= offset)
    BY <1>2, <1>3, <1>4 DEF num
  <2> QED BY <1>3, <2>1 DEF Marks
<1>5. FL!InBounds(offset, num)
  BY <1>2, <1>3 DEF FL!InBounds, num
<1>6. ~FL!Overlap(offset, num)
  BY <1>4 DEF FL!Overlap, FL!Covers
<1> QED BY <1>5, <1>6 DEF CanAddWildcard, num

\* Its wildcards have the room they need in the map.
LEMMA PlainQualified ==
  ASSUME IInv, Plain(listed, Asked), ScanQualified
  PROVE  CanAddWildcard(NumResultFields(UniqueTableName(fields[field].db, fields[field].tbl)))
<1> DEFINE f == fields[field]
           name == UniqueTableName(f.db, f.tbl)
           all == AllExpanded(listed, fields)
<1>1. InFields /\ f.kind = "wild" /\ IsWild(f)
  BY DEF ScanQualified, IsWild
<1>2. /\ field \in 1 .. Len(fields) /\ starAt = 1 /\ Len(fields) \in Nat
      /\ listed \in Seq(AllSources) /\ tableSources = listed
      /\ Accepts(listed, fields) /\ fields \in Seq(AllFields)
      /\ offset = Len(Passed(listed, fields, field, 1))
      /\ Passed(listed, fields, field, 1) \in Seq(PlainFields)
  BY <1>1, ScanFacts
<1>3. Named(listed, name) # {}
  BY <1>1, <1>2, AcceptedWilds
<1>4. PICK s \in 1 .. Len(listed) :
        /\ s = CHOOSE i \in Named(listed, name) : TRUE
        /\ ExpandedOver(listed, f) = ColumnTexts(listed[s])
  BY <1>1, <1>2, <1>3, WildSource
<1>5. NumResultFields(name) = Len(listed[s].cols)
  BY <1>2, <1>3, <1>4 DEF NumResultFields, RefNameTaken
<1>6. Passed(listed, fields, field + 1, 1) = Passed(listed, fields, field, 1) \o ColumnTexts(listed[s])
  BY <1>2, <1>4, PassedField
<1>7. Len(Passed(listed, fields, field + 1, 1)) = offset + Len(listed[s].cols)
  <2> DEFINE a == Passed(listed, fields, field, 1)
             b == ColumnTexts(listed[s])
  <2>1. a \in Seq(PlainFields) /\ b \in Seq(PlainFields) /\ Len(b) = Len(listed[s].cols)
    <3>1. listed[s] \in AllSources
      BY <1>2
    <3> QED BY <1>2, <3>1, ColumnTextsFacts
  <2> HIDE DEF a, b
  <2>2. Len(a \o b) = Len(a) + Len(b)
    BY <2>1
  <2> QED BY <1>2, <1>6, <2>1, <2>2 DEF a, b
<1>8. Len(Passed(listed, fields, field + 1, 1)) <= Len(rfToWildcard)
  <2>1. field + 1 \in 1 .. Len(fields) + 1 /\ (field + 1) - 1 = field /\ field \in 0 .. Len(fields)
    BY <1>2
  <2>2. Passed(listed, fields, field + 1, 1) = FlattenSeq(First(all, field))
    BY <1>2, <2>1, PassedFields
  <2>3. all \in Seq(Seq(PlainFields)) /\ Len(all) = Len(fields)
    BY <1>2, AllExpandedType
  <2> HIDE DEF all
  <2>4. Len(FlattenSeq(First(all, field))) <= Len(FlattenSeq(all))
    BY <2>1, <2>3, FlattenFirstShorter
  <2> QED BY <1>1, <2>2, <2>4, PlainRoom DEF all
<1>9. offset + Len(listed[s].cols) <= Len(rfToWildcard)
  BY <1>7, <1>8
<1> QED BY <1>1, <1>5, <1>9, RoomLeft

LEMMA PlainStar ==
  ASSUME IInv, Plain(listed, Asked), ScanStar
  PROVE  CanAddWildcard(Len(tableSources[starAt].cols))
<1> DEFINE f == fields[field]
           all == AllExpanded(listed, fields)
           head == FlattenSeq(First(all, field - 1))
           star == FlattenSeq(First(Texts(listed), starAt))
           whole == FlattenSeq(Texts(listed))
<1>1. InFields /\ f.kind = "star" /\ IsWild(f) /\ starAt <= Len(tableSources)
  BY DEF ScanStar, IsWild
<1>2. /\ field \in 1 .. Len(fields) /\ starAt \in 1 .. Len(listed) /\ Len(fields) \in Nat /\ Len(listed) \in Nat
      /\ listed \in Seq(AllSources) /\ tableSources = listed
      /\ Accepts(listed, fields) /\ fields \in Seq(AllFields)
      /\ offset = Len(Passed(listed, fields, field, starAt))
      /\ Passed(listed, fields, field, starAt) \in Seq(PlainFields)
  BY <1>1, ScanFacts
<1>3. /\ field \in 1 .. Len(fields) + 1 /\ field - 1 \in 0 .. Len(fields) /\ (field + 1) - 1 = field
      /\ field + 1 \in 1 .. Len(fields) + 1 /\ field \in 0 .. Len(fields)
      /\ starAt + 1 \in 1 .. Len(listed) + 1 /\ (starAt + 1) - 1 = starAt /\ starAt \in 0 .. Len(listed)
      /\ (Len(listed) + 1) - 1 = Len(listed) /\ Len(listed) + 1 \in 1 .. Len(listed) + 1
  BY <1>2
<1>4. all \in Seq(Seq(PlainFields)) /\ Len(all) = Len(fields)
      /\ Texts(listed) \in Seq(Seq(PlainFields)) /\ Len(Texts(listed)) = Len(listed)
  BY <1>2, AllExpandedType, TextsFacts
<1>5. Passed(listed, fields, field, starAt + 1) = head \o star
  BY <1>3 DEF Passed
<1>6. Passed(listed, fields, field + 1, 1) = head \o whole
  <2>1. Passed(listed, fields, field + 1, 1) = Passed(listed, fields, field, Len(listed) + 1)
    BY <1>1, <1>2, PassedStar
  <2>2. First(Texts(listed), Len(listed)) = Texts(listed)
    BY <1>4, FirstAll
  <2> QED BY <1>3, <2>1, <2>2 DEF Passed
<1>7. Passed(listed, fields, field + 1, 1) = FlattenSeq(First(all, field))
  BY <1>2, <1>3, PassedFields
<1>8. Len(Passed(listed, fields, field, starAt + 1)) = offset + Len(listed[starAt].cols)
  <2> DEFINE a == Passed(listed, fields, field, starAt)
             b == ColumnTexts(listed[starAt])
  <2>1. Passed(listed, fields, field, starAt + 1) = a \o b
    BY <1>2, <1>3, PassedSource
  <2>2. a \in Seq(PlainFields) /\ b \in Seq(PlainFields) /\ Len(b) = Len(listed[starAt].cols)
    <3>1. listed[starAt] \in AllSources
      BY <1>2
    <3> QED BY <1>2, <3>1, ColumnTextsFacts
  <2>3. offset = Len(a)
    BY <1>2
  <2> HIDE DEF a, b
  <2>4. Len(a \o b) = Len(a) + Len(b)
    BY <2>2
  <2> QED BY <2>1, <2>2, <2>3, <2>4
<1>9. /\ head \in Seq(PlainFields) /\ star \in Seq(PlainFields) /\ whole \in Seq(PlainFields)
      /\ Len(star) <= Len(whole)
  BY <1>3, <1>4, FlattenFirstType, FlattenType, FlattenFirstShorter
<1>10. Len(FlattenSeq(First(all, field))) <= Len(FlattenSeq(all)) /\ Len(FlattenSeq(all)) \in Nat
  <2> HIDE DEF all
  <2> QED BY <1>3, <1>4, FlattenFirstShorter
<1>11. Len(rfToWildcard) = Len(FlattenSeq(all))
  BY <1>1, PlainRoom
<1>12. Len(head \o star) <= Len(head \o whole)
  <2> HIDE DEF head, star, whole
  <2> QED BY <1>9
<1>13. offset + Len(listed[starAt].cols) <= Len(rfToWildcard)
  <2> DEFINE p == Len(head \o star)
             q == Len(head \o whole)
             r == Len(FlattenSeq(all))
  <2>1. p \in Nat /\ q \in Nat /\ r \in Nat
    <3>1. ASSUME NEW a \in Seq(PlainFields), NEW b \in Seq(PlainFields)
          PROVE  Len(a \o b) \in Nat
      OBVIOUS
    <3> HIDE DEF head, star, whole, all
    <3> QED BY <1>9, <1>10, <3>1
  <2>2. /\ offset + Len(listed[starAt].cols) = p /\ p <= q /\ q <= r /\ r = Len(rfToWildcard)
    BY <1>5, <1>6, <1>7, <1>8, <1>10, <1>11, <1>12
  <2> HIDE DEF p, q, r
  <2> QED BY <2>1, <2>2
<1> QED BY <1>1, <1>2, <1>13, RoomLeft

\* Its counts agree, in both rounds.
LEMMA PlainCounted ==
  ASSUME IInv, Plain(listed, Asked), CheckCounts
  PROVE  /\ offset = Len(rfToWildcard) /\ Len(executed) = Len(rfToWildcard)
         /\ origin # NoOrigin => Len(executed) = Len(origin.executed)
<1>1. /\ phase = "fields" /\ field > Len(fields)
      /\ TypeInv /\ RunInv /\ ScanInv /\ OriginInv /\ Reading
      /\ listed \in Seq(AllSources) /\ Len(listed) \in Nat
  BY ListedType DEF IInv, CheckCounts, Reading
<1>2. /\ fields \in Seq(AllFields) /\ Len(fields) \in Nat /\ field = Len(fields) + 1
      /\ tableSources = listed /\ Accepts(listed, fields) /\ executed = Executed(listed, fields)
      /\ Len(rfToWildcard) = Len(Compiled(listed, fields))
      /\ starAt \in 1 .. Len(listed) + 1
  <2>1. /\ fields \in Seq(AllFields) /\ tableSources = listed /\ Accepts(listed, fields)
        /\ executed = Executed(listed, fields) /\ Len(rfToWildcard) = Len(Compiled(listed, fields))
        /\ field \in 1 .. Len(fields) + 1 /\ starAt \in 1 .. Len(listed) + 1
    BY <1>1 DEF TypeInv, RunInv, Reading
  <2> QED BY <1>1, <2>1
<1>3. starAt = 1
  <2>1. starAt > 1 => field <= Len(fields)
    BY <1>1 DEF ScanInv
  <2> QED BY <1>1, <1>2, <2>1
<1>4. offset = Len(FlattenSeq(AllExpanded(listed, fields)))
  <2>1. Passed(listed, fields, field, starAt) = FlattenSeq(AllExpanded(listed, fields))
    BY <1>1, <1>2, <1>3, PassedAll
  <2> QED BY <1>1, <2>1 DEF ScanInv
<1>5. CASE origin = NoOrigin
  <2>1. Plain(listed, fields)
    BY <1>5 DEF Asked
  <2> QED BY <1>1, <1>2, <1>4, <1>5, <2>1, PlainLengths
<1>6. CASE origin # NoOrigin
  <2>1. /\ Known(listed, origin) /\ fields = FlattenSeq(AllExpanded(listed, origin.fields))
        /\ \A k \in 1 .. Len(fields) : ~IsWild(fields[k])
    BY <1>1, <1>6, SecondRound DEF OriginInv
  <2>2. Len(Executed(listed, fields)) = Len(fields) /\ Len(Compiled(listed, fields)) = Len(fields)
    BY <1>2, <2>1, PlainResults
  <2>3. Len(origin.executed) = Len(fields)
    BY <2>1 DEF Known
  <2>4. FlattenSeq(AllExpanded(listed, fields)) = fields
    <3>1. ASSUME NEW k \in 1 .. Len(fields)
          PROVE  ExpandedOver(listed, fields[k]) = <<fields[k]>>
      BY <2>1, PlainExpanded
    <3>2. AllExpanded(listed, fields) = [k \in 1 .. Len(fields) |-> <<fields[k]>>]
      BY <3>1 DEF AllExpanded
    <3> QED BY <1>2, <3>2, FlattenSingles
  <2> QED BY <1>2, <1>4, <2>2, <2>3, <2>4
<1> QED BY <1>5, <1>6

\* And its wildcards can be written out.
LEMMA PlainWritable ==
  ASSUME IInv, Plain(listed, Asked), Expand, NEW k \in 1 .. Len(fields)
  PROVE  Writable(fields[k])
<1> DEFINE f == fields[k]
<1>1. /\ phase = "expand" /\ origin = NoOrigin /\ tableSources = listed
      /\ Accepts(listed, fields) /\ Plain(listed, fields) /\ listed \in Seq(AllSources)
  BY LearntFacts, ListedType DEF Expand, IInv, Asked
<1>2. ASSUME IsWild(f), NEW i \in 1 .. Len(WildSources(f)), NEW c \in 1 .. Len(WildSources(f)[i].cols)
      PROVE  WildSources(f)[i].cols[c] \notin NotIdent
  <2>1. \E s \in 1 .. Len(listed) : WildSources(f)[i] = listed[s]
    <3>1. CASE f.kind = "star"
      BY <1>1, <1>2, <3>1 DEF WildSources
    <3>2. CASE f.kind = "wild"
      <4> DEFINE name == UniqueTableName(f.db, f.tbl)
      <4>1. Named(listed, name) # {}
        BY <1>1, <3>2, AcceptedWilds
      <4>2. PICK s : s = CHOOSE n \in Named(listed, name) : TRUE
        OBVIOUS
      <4>3. s \in 1 .. Len(listed)
        BY <4>1, <4>2 DEF Named
      <4>4. WildSources(f) = <<listed[s]>>
        BY <1>1, <3>2, <4>2 DEF WildSources
      <4>5. i \in 1 .. Len(<<listed[s]>>)
        BY <1>2, <4>4
      <4>6. <<listed[s]>>[i] = listed[s]
        BY <4>5
      <4> QED BY <4>3, <4>4, <4>6
    <3> QED BY <1>2, <3>1, <3>2 DEF IsWild
  <2>2. PICK s \in 1 .. Len(listed) : WildSources(f)[i] = listed[s]
    BY <2>1
  <2> QED BY <1>1, <1>2, <2>2, PlainFacts DEF PlainSource
<1>3. ASSUME f.kind = "wild"
      PROVE  {f.db, f.tbl} \intersect DOMAIN Hyphened = {}
  <2>1. PICK i \in 1 .. Len(listed) : Takes(listed, f, i)
    BY <1>1, <1>3, PlainFacts DEF Taken
  <2> DEFINE src == listed[i]
  <2>2. /\ f.db \in {"", IF src.as # <<>> THEN "" ELSE src.db}
        /\ <<f.tbl>> = IF src.as # <<>> THEN src.as ELSE <<src.name>>
    BY <1>3, <2>1 DEF Takes
  <2>3. \A n \in 1 .. Len(RefName(src)) : RefName(src)[n] \notin DOMAIN Hyphened
    BY <1>1, PlainFacts DEF PlainSource
  <2>4. {"", DBName} \intersect DOMAIN Hyphened = {}
    BY HyphenAssumption
  <2>5. CASE src.as # <<>>
    <3>1. RefName(src) = <<f.tbl>> /\ f.db = ""
      BY <2>2, <2>5 DEF RefName
    <3>2. Len(<<f.tbl>>) = 1 /\ <<f.tbl>>[1] = f.tbl /\ 1 \in 1 .. 1
      OBVIOUS
    <3>3. f.tbl \notin DOMAIN Hyphened
      BY <2>3, <3>1, <3>2
    <3> QED BY <2>4, <3>1, <3>3
  <2>6. CASE src.as = <<>>
    <3>1. RefName(src) = UniqueTableName(src.db, src.name) /\ f.tbl = src.name /\ f.db \in {"", src.db}
      BY <2>2, <2>6 DEF RefName
    <3>2. /\ Len(<<src.db, src.name>>) = 2 /\ <<src.db, src.name>>[1] = src.db
          /\ <<src.db, src.name>>[2] = src.name /\ 1 \in 1 .. 2 /\ 2 \in 1 .. 2
          /\ Len(<<src.name>>) = 1 /\ <<src.name>>[1] = src.name /\ 1 \in 1 .. 1
      OBVIOUS
    <3>3. CASE src.db \in {"", DBName}
      <4>1. RefName(src) = <<src.name>>
        BY <3>1, <3>3 DEF UniqueTableName
      <4>2. src.name \notin DOMAIN Hyphened
        BY <2>3, <3>2, <4>1
      <4> QED BY <2>4, <3>1, <3>3, <4>2
    <3>4. CASE src.db \notin {"", DBName}
      <4>1. RefName(src) = <<src.db, src.name>>
        BY <3>1, <3>4 DEF UniqueTableName
      <4>2. src.db \notin DOMAIN Hyphened /\ src.name \notin DOMAIN Hyphened
        BY <2>3, <3>2, <4>1
      <4> QED BY <2>4, <3>1, <4>2
    <3> QED BY <3>3, <3>4
  <2> QED BY <2>5, <2>6
<1> QED BY <1>2, <1>3 DEF Writable

\* A statement with nothing peculiar about it is not turned away, neither as it was
\* written nor when it is expanded, whatever its FROM clause and its fields
\* (the errors of NewTableRefsMeta, NewFieldListMeta and ExpandWildcard).
THEOREM RefusedForCause == Spec => []RejectedForCause
<1>1. Init => RejectedForCause
  BY DEF Init, RejectedForCause
<1>2. ASSUME IInv, RejectedForCause, [Next]_vars
      PROVE  RejectedForCause'
  <2>1. ASSUME Fail, ~Plain(listed, Asked)
        PROVE  RejectedForCause'
    <3>1. UNCHANGED <<listed, fields, origin>>
      BY <2>1 DEF Fail, given
    <3> QED BY <2>1, <3>1 DEF RejectedForCause, Asked
  <2>2. ASSUME phase' # "failed"
        PROVE  RejectedForCause'
    BY <2>2 DEF RejectedForCause
  <2>3. CASE UNCHANGED vars
    BY <1>2, <2>3 DEF vars, given, RejectedForCause
  <2>4. CASE Execute
    <3>1. Accepts(listed, fields) => phase' = "collect"
      BY <2>4 DEF Execute
    <3> QED BY <1>2, <2>1, <2>2, <2>4, <3>1, PlainAccepted DEF Execute
  <2>5. CASE CollectJoin \/ CollectNil
    BY <2>2, <2>5 DEF CollectJoin, CollectNil
  <2>6. CASE CollectSource
    BY <1>2, <2>1, <2>2, <2>6, PlainCollected DEF CollectSource
  <2>7. CASE CheckNames
    <3>1. CASE Fail
      <4>1. ~NamesPass(tableSources)
        BY <2>7, <3>1 DEF CheckNames, NamesPass, Fail
      <4> QED BY <1>2, <2>1, <2>7, <3>1, <4>1, PlainChecked
    <3>2. CASE ~Fail
      <4>1. phase' = "fields"
        BY <2>7, <3>2 DEF CheckNames
      <4> QED BY <2>2, <4>1
    <3> QED BY <3>1, <3>2
  <2>8. CASE ScanPlain \/ ScanStarEnd
    BY <2>2, <2>8 DEF ScanPlain, ScanStarEnd, InFields
  <2>9. CASE ScanQualified
    BY <1>2, <2>1, <2>2, <2>9, PlainQualified DEF ScanQualified, InFields
  <2>10. CASE ScanStar
    BY <1>2, <2>1, <2>2, <2>10, PlainStar DEF ScanStar, InFields
  <2>11. CASE CheckCounts
    BY <1>2, <2>1, <2>2, <2>11, PlainCounted DEF CheckCounts
  <2>12. CASE ExpandNothing
    BY <2>2, <2>12 DEF ExpandNothing
  <2>13. CASE Expand
    BY <1>2, <2>1, <2>2, <2>13, PlainWritable DEF Expand
  <2>14. CASE Stop
    BY <2>3, <2>14 DEF Stop
  <2> QED BY <1>2, <2>3, <2>4, <2>5, <2>6, <2>7, <2>8, <2>9, <2>10, <2>11, <2>12, <2>13, <2>14 DEF Next
<1> QED BY <1>1, <1>2, Invariant, PTL DEF Spec
=============================================================================
