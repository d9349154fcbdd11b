--------------------------- MODULE AnnotMetaProofs --------------------------
(* Proofs about AnnotMeta for any texts and any number of statements.      *)
EXTENDS AnnotMeta, Inductions

Texts == Statements \union {NoText}

\* Items of a text that is processed: what is left of its pieces, and what takes the
\* place of its comments.
PieceItem(c, m) == [at |-> 2 * c, n |-> m, is |-> src.pieces[c + 1][m]]

Item(x) ==
  \/ \E c \in 0 .. Len(comments) :
       /\ c = 0 \/ c \notin Of("bind")
       /\ \E m \in 1 .. Len(src.pieces[c + 1]) : x = PieceItem(c, m)
  \/ \E c \in Of("bind") :
       x = [at |-> 2 * c - 1, n |-> 1, is |-> BindNamePrefix \o Name(comments[c])]
  \/ \E c \in Of("subs") :
       comments[c].content # "" /\ x = [at |-> 2 * c - 1, n |-> 1, is |-> comments[c].content]

InOrder(s) == \A l, m \in 1 .. Len(s) : l < m => Before(Place(s[l]), Place(s[m]))

\* The items from one place to another are there, in their order, and nothing else.
Block(s, from, to) ==
  /\ \E S : s \in Seq(S)
  /\ InOrder(s)
  /\ \A m \in 1 .. Len(s) : Item(s[m]) /\ from <= s[m].at /\ s[m].at < to
  /\ \A x : Item(x) /\ from <= x.at /\ x.at < to => \E m \in 1 .. Len(s) : s[m] = x

\* Of the first n comments, those of a type that end no binding.
Upto(type, n) == {c \in Of(type) : c <= n}

HasArgs(n) ==
  Args = [k \in 1 .. Cardinality(Upto("arg", n)) |->
            LET c == comments[Nth(Upto("arg", n), k)]
            IN  [name |-> Name(c), type |-> Option(c, "type")]]

HasFunc(n) ==
  \/ Upto("func", n) = {} /\ FuncName = "" /\ ReturnStyle = ""
  \/ \E c \in Upto("func", n) :
       /\ \A d \in Upto("func", n) : d <= c
       /\ FuncName = Name(comments[c]) /\ ReturnStyle = Option(comments[c], "return")

\* Each key with the value of the last of some comments that has it.
Given(envs, cs, S) ==
  /\ DOMAIN envs = UNION {DOMAIN Options(cs[c]) : c \in S}
  /\ \A k \in DOMAIN envs :
       \E c \in S :
         /\ k \in DOMAIN Options(cs[c]) /\ envs[k] = Options(cs[c])[k]
         /\ \A d \in S : k \in DOMAIN Options(cs[d]) => d <= c

HasEnvs(n) == Given(Envs, comments, Upto("env", n))

Nothing == parts = <<>> /\ FuncName = "" /\ ReturnStyle = "" /\ Args = <<>> /\ Envs = <<>>

PhaseInv ==
  /\ src \in Texts
  /\ phase \in {"idle", "scan", "gather", "done", "failed"}
  /\ phase = "idle" => i = 0 /\ offset = 0 /\ Nothing
  /\ phase = "scan" => i \in 0 .. Len(comments) /\ offset = 0 /\ Nothing
  /\ phase = "gather" => i \in 1 .. End /\ offset = i - 1
  /\ phase = "done" => i = End /\ offset = Len(comments)
  /\ phase = "failed" => i \in 0 .. End /\ offset \in 0 .. Len(comments)

CountInv ==
  /\ stmts \in 0 .. MaxStmts /\ noNameCnt \in Nat
  /\ noNameCnt + (IF phase \in {"scan", "gather", "failed"} THEN 1 ELSE 0) <= stmts

ParseInv ==
  /\ phase = "scan" => \A c \in 1 .. i : Parses(comments[c])
  /\ phase \in {"gather", "done"} => \A c \in 1 .. Len(comments) : Parses(comments[c])
  /\ phase = "gather" => ~Encloses(i)
  /\ phase = "done" => Len(comments) \notin Of("bind")
  /\ phase = "failed" =>
       (\E c \in 1 .. Len(comments) : ~Parses(comments[c])) \/ Len(comments) \in Of("bind")

SetBefore(n) == {c \in Settings : c <= n}

PrefixInv ==
  LET n == IF phase = "scan" THEN i ELSE Len(comments)
  IN  /\ BindNamePrefix \in BindPrefixes
      /\ phase \in {"scan", "gather", "done"} /\ SetBefore(n) # {} =>
           BindNamePrefix = Option(comments[Max(SetBefore(n))], "bindNamePrefix")

DeclaredType ==
  /\ FuncName \in Idents \union {""} /\ ReturnStyle \in {"", "many", "one"}
  /\ (\E S : Args \in Seq(S)) /\ \A n \in 1 .. Len(Args) : Args[n].name \in Idents

Declared(n) == HasArgs(n) /\ HasFunc(n) /\ HasEnvs(n)

DeclaredInv == DeclaredType /\ (phase \in {"gather", "done"} => Declared(i - 1))

TextInv ==
  /\ phase = "gather" => Block(parts, 0, 2 * offset)
  /\ phase = "done" => \E s : Block(s, 0, 2 * End) /\ parts = Trim(s)

IInv == PhaseInv /\ CountInv /\ ParseInv /\ PrefixInv /\ DeclaredInv /\ TextInv

-----------------------------------------------------------------------------
(* Comments and what they say.                                             *)

LEMMA MaxIs ==
  ASSUME NEW L \in Nat, NEW S \in SUBSET (0 .. L), S # {}
  PROVE  Max(S) \in S /\ \A y \in S : y <= Max(S)
<1> DEFINE T == {x + 1 : x \in S}
<1>1. L + 1 \in Nat /\ T \in SUBSET (1 .. L + 1) /\ T # {}
  <2>1. \A x \in S : x + 1 \in 1 .. L + 1
    OBVIOUS
  <2>2. PICK x \in S : TRUE
    OBVIOUS
  <2>3. x + 1 \in T
    OBVIOUS
  <2> QED BY <2>1, <2>3
<1>2. PICK t \in T : \A u \in T : u <= t
  <2> HIDE DEF T
  <2> QED BY <1>1, GreatestNatural
<1>3. PICK x \in S : t = x + 1
  BY <1>2
<1>4. \A y \in S : x >= y
  <2>1. ASSUME NEW y \in S
        PROVE  x >= y
    <3>1. y + 1 \in T
      OBVIOUS
    <3>2. y \in Nat /\ x \in Nat
      OBVIOUS
    <3> HIDE DEF T
    <3>3. y + 1 <= x + 1
      BY <1>2, <1>3, <3>1
    <3> QED BY <3>2, <3>3
  <2> QED BY <2>1
<1>5. Max(S) \in S /\ \A y \in S : Max(S) >= y
  BY <1>4 DEF Max
<1> QED BY <1>5

LEMMA MinIs ==
  ASSUME NEW S \in SUBSET Nat, S # {}
  PROVE  Min(S) \in S /\ \A y \in S : Min(S) <= y
<1>1. PICK x \in S : \A y \in S : x <= y
  BY LeastNatural
<1> QED BY <1>1 DEF Min

LEMMA TextFacts ==
  ASSUME src \in Texts
  PROVE  /\ Len(comments) \in Nat /\ comments \in Seq(ToSet(comments))
         /\ Len(src.pieces) = End /\ src.pieces \in Seq(ToSet(src.pieces))
         /\ \A c \in 1 .. Len(comments) : IsComment(comments[c])
         /\ \A n \in 1 .. End : src.pieces[n] \in Seq(ToSet(src.pieces[n]))
<1>1. IsText(NoText)
  <2>1. NoText.pieces = << <<>> >> /\ NoText.comments = <<>>
    BY DEF NoText
  <2>2. << <<>> >> \in Seq(ToSet(<< <<>> >>)) /\ \A S : <<>> \in Seq(S)
    <3>1. <<>> \in ToSet(<< <<>> >>)
      BY DEF ToSet
    <3> HIDE DEF ToSet
    <3> QED BY <3>1
  <2>3. Len(<< <<>> >>) = 1 /\ Len(<<>>) = 0 /\ << <<>> >>[1] = <<>>
    OBVIOUS
  <2>4. \A n \in 1 .. 1 : << <<>> >>[n] = <<>>
    OBVIOUS
  <2>5. 1 = 0 + 1 /\ 1 .. 0 = {}
    OBVIOUS
  <2> QED BY <2>1, <2>2, <2>3, <2>4, <2>5, Zenon DEF IsText
<1>2. IsText(src)
  BY <1>1, AnnotMetaAssumption DEF Texts
<1>3. Len(comments) \in Nat
  <2>1. src.comments \in Seq(ToSet(src.comments))
    BY <1>2 DEF IsText
  <2> QED BY <2>1 DEF comments
<1> QED BY <1>2, <1>3 DEF IsText, comments, End

LEMMA Annotations ==
  \A k \in DOMAIN annotMap : annotMap[k] \in {"func", "arg", "bind", "env", "setting"}
BY DEF annotMap

LEMMA TakenFacts ==
  ASSUME NEW c, IsComment(c), c.is = "kvs"
  PROVE  /\ Len(c.kvs) \in Nat /\ Taken(c.kvs) \in 0 .. Len(c.kvs)
         /\ Taken(c.kvs) = Len(c.kvs) =>
              /\ AcceptsFirst(c.kvs)
              /\ \A m \in 2 .. Len(c.kvs) : Set(annotMap[c.kvs[1].key], c.kvs[m])
<1> DEFINE L == Len(c.kvs)
           type == annotMap[c.kvs[1].key]
           S == {n \in 1 .. L : \A m \in 2 .. n : Set(type, c.kvs[m])}
<1>1. L \in Nat /\ L # 0
  <2>1. c.kvs # <<>> /\ c.kvs \in Seq(ToSet(c.kvs))
    BY DEF IsComment
  <2> QED BY <2>1
<1>2. CASE ~AcceptsFirst(c.kvs)
  <2>1. Taken(c.kvs) = 0
    BY <1>2, Zenon DEF Taken
  <2> QED BY <1>1, <2>1
<1>3. CASE AcceptsFirst(c.kvs)
  <2>1. Taken(c.kvs) = Max(S)
    BY <1>3, Zenon DEF Taken
  <2>2. S \in SUBSET (0 .. L) /\ 1 \in S
    BY <1>1
  <2>3. Max(S) \in S
    <3> HIDE DEF S
    <3> QED BY <1>1, <2>2, MaxIs
  <2> QED BY <1>1, <1>3, <2>1, <2>3
<1> QED BY <1>2, <1>3

LEMMA OptionIs ==
  ASSUME NEW c, IsComment(c), c.is = "kvs", NEW k \in DOMAIN Options(c)
  PROVE  \E m \in 2 .. Len(c.kvs) : c.kvs[m].key = k /\ Options(c)[k] = c.kvs[m].val
<1> DEFINE given == {m \in 2 .. Taken(c.kvs) : TRUE}
           S == {m \in given : c.kvs[m].key = k}
<1>1. Len(c.kvs) \in Nat /\ Taken(c.kvs) \in 0 .. Len(c.kvs)
  BY TakenFacts
<1>2. /\ k \in {c.kvs[m].key : m \in given}
      /\ Options(c)[k] = c.kvs[Max(S)].val
  BY DEF Options
<1>3. S # {} /\ S \in SUBSET (0 .. Len(c.kvs))
  BY <1>1, <1>2
<1>4. Max(S) \in S
  <2> HIDE DEF S
  <2> QED BY <1>1, <1>3, MaxIs
<1>5. \A m \in S : m \in 2 .. Len(c.kvs) /\ c.kvs[m].key = k
  BY <1>1
<1> HIDE DEF S
<1> QED BY <1>2, <1>4, <1>5

\* What an annotation that parses may be.
LEMMA TypeFacts ==
  ASSUME NEW c, IsComment(c), Parses(c)
  PROVE  /\ Type(c) \in {"", "subs", "func", "arg", "bind", "env", "setting"}
         /\ Type(c) = "subs" <=> c.is = "subs"
         /\ Type(c) \notin {"", "subs"} =>
              c.is = "kvs" /\ Type(c) = annotMap[c.kvs[1].key] /\ c.kvs[1].key \in DOMAIN annotMap
<1>1. CASE c.is = "kvs"
  <2>1. AcceptsFirst(c.kvs)
    BY <1>1, TakenFacts DEF Parses
  <2> QED BY <1>1, <2>1, Annotations DEF Type, AcceptsFirst
<1>2. CASE c.is # "kvs"
  BY <1>2 DEF Type, IsComment
<1> QED BY <1>1, <1>2

LEMMA NameFacts ==
  ASSUME NEW c, IsComment(c), Parses(c), Type(c) \in {"func", "arg", "bind"}
  PROVE  Name(c) \in Idents
<1>1. c.is = "kvs" /\ Type(c) = annotMap[c.kvs[1].key] /\ AcceptsFirst(c.kvs)
  BY TypeFacts, TakenFacts DEF Parses
<1> QED BY <1>1 DEF AcceptsFirst, SetPrimary, Name

LEMMA ReturnFacts ==
  ASSUME NEW c, IsComment(c), Parses(c), Type(c) = "func"
  PROVE  Option(c, "return") \in {"", "many", "one"}
<1>1. /\ c.is = "kvs" /\ annotMap[c.kvs[1].key] = "func"
      /\ \A m \in 2 .. Len(c.kvs) : Set("func", c.kvs[m])
  BY TypeFacts, TakenFacts DEF Parses
<1>2. CASE "return" \in DOMAIN Options(c)
  <2>1. PICK m \in 2 .. Len(c.kvs) : Options(c)["return"] = c.kvs[m].val
    BY <1>1, <1>2, OptionIs
  <2>2. Set("func", c.kvs[m])
    BY <1>1
  <2> QED BY <1>2, <2>1, <2>2 DEF Set, Option
<1> QED BY <1>2 DEF Option

LEMMA SettingFacts ==
  ASSUME src \in Texts, BindNamePrefix \in BindPrefixes, NEW c \in 1 .. Len(comments)
  PROVE  Setting(comments[c]) \in BindPrefixes
<1> DEFINE C == comments[c]
<1>1. CASE C.is = "kvs" /\ "bindNamePrefix" \in DOMAIN Options(C)
  <2>1. IsComment(C)
    BY TextFacts
  <2>2. PICK m \in 2 .. Len(C.kvs) : Options(C)["bindNamePrefix"] = C.kvs[m].val
    BY <1>1, <2>1, OptionIs
  <2>3. C.kvs[m] \in ToSet(C.kvs) /\ C \in ToSet(comments)
    <3>1. C.kvs \in Seq(ToSet(C.kvs)) /\ comments \in Seq(ToSet(comments))
      BY <1>1, <2>1, TextFacts DEF IsComment
    <3> QED BY <3>1 DEF ToSet
  <2>4. src \in Statements
    <3>1. src # NoText
      BY DEF NoText, comments
    <3> QED BY <3>1 DEF Texts
  <2>5. C \in AllComments
    BY <2>3, <2>4 DEF AllComments, comments
  <2>6. Options(C)["bindNamePrefix"] \in BindPrefixes
    BY <1>1, <2>2, <2>3, <2>5 DEF BindPrefixes
  <2> QED BY <2>6 DEF Setting
<1> QED BY <1>1 DEF Setting

-----------------------------------------------------------------------------
(* Which comments end a binding.                                           *)

Starts(c) == {0} \union {m \in 1 .. c - 1 : ~IsBind(m)}

LEMMA ParityFlips == ASSUME NEW n \in Nat PROVE ((n + 1) % 2 = 1) <=> (n % 2 # 1)
OBVIOUS

LEMMA Enclosing ==
  ASSUME NEW c \in Nat \ {0}
  PROVE  /\ ~IsBind(c) => ~Encloses(c + 1)
         /\ IsBind(c) => (Encloses(c + 1) <=> ~Encloses(c))
<1>1. /\ Starts(c) \in SUBSET (0 .. c - 1) /\ Starts(c) # {} /\ c - 1 \in Nat
      /\ Starts(c + 1) \in SUBSET (0 .. c) /\ Starts(c + 1) # {} /\ c \in Nat
  BY DEF Starts
<1>2. /\ Max(Starts(c)) \in Starts(c) /\ Max(Starts(c + 1)) \in Starts(c + 1)
      /\ \A y \in Starts(c + 1) : y <= Max(Starts(c + 1))
  BY <1>1, MaxIs
<1>3. CASE ~IsBind(c)
  <2>1. c \in Starts(c + 1)
    BY <1>3 DEF Starts
  <2>2. Max(Starts(c + 1)) = c
    BY <1>1, <1>2, <2>1
  <2>3. ((c + 1) - 1 - c) % 2 = 0
    <3>1. (c + 1) - 1 - c = 0
      OBVIOUS
    <3> QED BY <3>1
  <2> QED BY <1>3, <2>2, <2>3 DEF Encloses, Starts
<1>4. CASE IsBind(c)
  <2>1. Starts(c + 1) = Starts(c)
    <3>1. ASSUME NEW m \in 1 .. (c + 1) - 1, ~IsBind(m)
          PROVE  m \in 1 .. c - 1
      BY <1>4, <3>1
    <3>2. 1 .. c - 1 \subseteq 1 .. (c + 1) - 1
      OBVIOUS
    <3> QED BY <3>1, <3>2 DEF Starts
  <2>2. PICK s \in 0 .. c - 1 : s = Max(Starts(c))
    BY <1>1, <1>2
  <2>3. c - 1 - s \in Nat /\ (c + 1) - 1 - s = (c - 1 - s) + 1
    BY <2>2
  <2>4. (((c + 1) - 1 - s) % 2 = 1) <=> ((c - 1 - s) % 2 # 1)
    BY <2>3, ParityFlips
  <2>5. Encloses(c) <=> (c - 1 - s) % 2 = 1
    BY <2>2 DEF Encloses, Starts
  <2>6. Encloses(c + 1) <=> ((c + 1) - 1 - s) % 2 = 1
    <3>1. Encloses(c + 1) <=> ((c + 1) - 1 - Max(Starts(c + 1))) % 2 = 1
      BY Zenon DEF Encloses, Starts
    <3> QED BY <2>1, <2>2, <3>1
  <2> QED BY <1>4, <2>4, <2>5, <2>6
<1> QED BY <1>3, <1>4

-----------------------------------------------------------------------------
(* The numbers of unnamed statements.                                      *)

\* The count is never below a number given, which the next number is above.
NumberInv ==
  /\ noNameCnt \in Nat
  /\ unnamed \in Seq(Nat)
  /\ \A n \in 1 .. Len(unnamed) : unnamed[n] <= noNameCnt
  /\ NoNamesDistinct

numberVars == <<noNameCnt, unnamed>>

LEMMA InitNumber == Init => NumberInv
<1>1. << >> \in Seq(Nat) /\ Len(<< >>) = 0
  OBVIOUS
<1>2. Init => noNameCnt = 0 /\ unnamed = << >>
  BY DEF Init
<1> QED
  BY <1>1, <1>2 DEF NumberInv, NoNamesDistinct

LEMMA StutterNumber == NumberInv /\ UNCHANGED numberVars => NumberInv'
  BY DEF NumberInv, NoNamesDistinct, numberVars

\* Only the end of a statement gives a number.
LEMMA OthersKeepNumbers ==
  ASSUME Next, ~Return
  PROVE  UNCHANGED numberVars
<1>1. CASE NewAnnotMeta
  BY <1>1 DEF NewAnnotMeta, numberVars
<1>2. CASE ParseComment
  BY <1>2 DEF ParseComment, numberVars
<1>3. CASE Scanned
  BY <1>3 DEF Scanned, numberVars
<1>4. CASE SubsAnnot
  BY <1>4 DEF SubsAnnot, PassTo, numberVars
<1>5. CASE FuncAnnot
  BY <1>5 DEF FuncAnnot, PassTo, numberVars
<1>6. CASE ArgAnnot
  BY <1>6 DEF ArgAnnot, PassTo, numberVars
<1>7. CASE BindAnnot
  BY <1>7 DEF BindAnnot, PassTo, numberVars
<1>8. CASE MissingEnclosure
  BY <1>8 DEF MissingEnclosure, numberVars
<1>9. CASE EnvAnnot
  BY <1>9 DEF EnvAnnot, PassTo, numberVars
<1>10. CASE NoAnnot
  BY <1>10 DEF NoAnnot, PassTo, numberVars
<1>11. CASE Render
  BY <1>11 DEF Render, numberVars
<1> QED
  BY <1>1, <1>2, <1>3, <1>4, <1>5, <1>6, <1>7, <1>8, <1>9, <1>10, <1>11 DEF Next

LEMMA ReturnNumber ==
  ASSUME NumberInv, Return
  PROVE  NumberInv'
<1>1. CASE FuncName # ""
  <2>1. UNCHANGED numberVars
    BY <1>1 DEF Return, numberVars
  <2> QED BY <2>1, StutterNumber
<1>2. CASE FuncName = ""
  <2>1. noNameCnt' = noNameCnt + 1 /\ unnamed' = Append(unnamed, noNameCnt + 1)
    BY <1>2 DEF Return
  <2>2. /\ noNameCnt' \in Nat
        /\ unnamed' \in Seq(Nat)
        /\ Len(unnamed') = Len(unnamed) + 1
    BY <2>1 DEF NumberInv
  <2>3. /\ unnamed'[Len(unnamed) + 1] = noNameCnt + 1
        /\ \A n \in 1 .. Len(unnamed) : unnamed'[n] = unnamed[n] /\ unnamed[n] \in Nat
    BY <2>1 DEF NumberInv
  <2>4. \A n \in 1 .. Len(unnamed') : unnamed'[n] <= noNameCnt'
    BY <2>1, <2>2, <2>3 DEF NumberInv
  <2>5. NoNamesDistinct'
    BY <2>1, <2>2, <2>3 DEF NumberInv, NoNamesDistinct
  <2> QED BY <2>2, <2>4, <2>5 DEF NumberInv
<1> QED
  BY <1>1, <1>2

\* No two unnamed statements of a run get the same number, whatever statements
\* with names or errors come between them (annots.go:281).
THEOREM NumbersDistinct == Spec => []NoNamesDistinct
<1>1. NumberInv /\ [Next]_vars => NumberInv'
  <2>1. ASSUME NumberInv, Next, ~Return
        PROVE  NumberInv'
    BY <2>1, OthersKeepNumbers, StutterNumber
  <2>2. NumberInv /\ UNCHANGED vars => NumberInv'
    BY StutterNumber DEF vars, numberVars
  <2> QED BY <2>1, <2>2, ReturnNumber
<1>2. NumberInv => NoNamesDistinct
  BY DEF NumberInv
<1> QED
  BY InitNumber, <1>1, <1>2, PTL DEF Spec

-----------------------------------------------------------------------------
(* What the processed text is put together of.                             *)

LEMMA Doubling ==
  ASSUME NEW c \in Nat
  PROVE  /\ (2 * c) % 2 = 0 /\ (2 * c) \div 2 = c
         /\ c # 0 => (2 * c - 1) % 2 = 1 /\ ((2 * c - 1) + 1) \div 2 = c
OBVIOUS

LEMMA OfFacts ==
  ASSUME NEW type
  PROVE  /\ Of(type) \in SUBSET (1 .. Len(comments))
         /\ \A c \in Of(type) : Type(comments[c]) = type
BY DEF Of, Active

LEMMA ItemFacts ==
  ASSUME src \in Texts, NEW x, Item(x)
  PROVE  x.at \in Nat /\ x.n \in Nat
<1>1. Len(comments) \in Nat
  BY TextFacts
<1>2. CASE \E c \in 0 .. Len(comments) : \E m \in 1 .. Len(src.pieces[c + 1]) : x = PieceItem(c, m)
  <2>1. PICK c \in 0 .. Len(comments) : \E m \in 1 .. Len(src.pieces[c + 1]) : x = PieceItem(c, m)
    BY <1>2
  <2>2. PICK m \in 1 .. Len(src.pieces[c + 1]) : x = PieceItem(c, m)
    BY <2>1
  <2>3. c \in Nat /\ 2 * c \in Nat
    BY <1>1
  <2>4. m \in Nat
    <3>1. Len(src.pieces[c + 1]) \in Nat
      <4>1. c + 1 \in 1 .. End
        BY <1>1 DEF End
      <4>2. src.pieces[c + 1] \in Seq(ToSet(src.pieces[c + 1]))
        BY <4>1, TextFacts
      <4> QED BY <4>2
    <3> QED BY <3>1
  <2> QED BY <2>2, <2>3, <2>4 DEF PieceItem
<1>3. CASE \E c \in 1 .. Len(comments) : \E y : x = [at |-> 2 * c - 1, n |-> 1, is |-> y]
  <2>1. PICK c \in 1 .. Len(comments) : \E y : x = [at |-> 2 * c - 1, n |-> 1, is |-> y]
    BY <1>3
  <2>2. x.at = 2 * c - 1 /\ x.n = 1
    BY <2>1
  <2> QED BY <1>1, <2>2
<1> QED BY <1>2, <1>3, OfFacts DEF Item

\* There is one item at most in the place of a comment, and none of them elsewhere.
LEMMA ItemIs ==
  ASSUME src \in Texts, NEW x, Item(x), NEW c \in 0 .. Len(comments)
  PROVE  /\ x.at = 2 * c =>
              (c = 0 \/ c \notin Of("bind")) /\ \E m \in 1 .. Len(src.pieces[c + 1]) : x = PieceItem(c, m)
         /\ x.at = 2 * c - 1 =>
              \/ c \in Of("bind") /\ x = [at |-> 2 * c - 1, n |-> 1, is |-> BindNamePrefix \o Name(comments[c])]
              \/ /\ c \in Of("subs") /\ comments[c].content # ""
                 /\ x = [at |-> 2 * c - 1, n |-> 1, is |-> comments[c].content]
         /\ x.at < 2 * Len(comments) + 1
<1>1. Len(comments) \in Nat
  BY TextFacts
<1>2. \A d \in 0 .. Len(comments) : /\ 2 * d = 2 * c => d = c
                                    /\ 2 * d - 1 = 2 * c - 1 => d = c
                                    /\ 2 * d # 2 * c - 1 /\ 2 * d - 1 # 2 * c
                                    /\ 2 * d < 2 * Len(comments) + 1
  BY <1>1
<1>3. CASE \E d \in 0 .. Len(comments) :
             (d = 0 \/ d \notin Of("bind")) /\ \E m \in 1 .. Len(src.pieces[d + 1]) : x = PieceItem(d, m)
  <2>1. PICK d \in 0 .. Len(comments) :
           (d = 0 \/ d \notin Of("bind")) /\ \E m \in 1 .. Len(src.pieces[d + 1]) : x = PieceItem(d, m)
    BY <1>3
  <2>2. x.at = 2 * d
    BY <2>1 DEF PieceItem
  <2> QED BY <1>2, <2>1, <2>2
<1>4. ASSUME NEW d \in 1 .. Len(comments), NEW y, x = [at |-> 2 * d - 1, n |-> 1, is |-> y]
      PROVE  /\ x.at # 2 * c /\ x.at < 2 * Len(comments) + 1
             /\ x.at = 2 * c - 1 => d = c
  <2>1. x.at = 2 * d - 1 /\ d \in 0 .. Len(comments)
    BY <1>1, <1>4
  <2> QED BY <1>1, <1>2, <2>1
<1>5. CASE \E d \in Of("bind") : x = [at |-> 2 * d - 1, n |-> 1, is |-> BindNamePrefix \o Name(comments[d])]
  <2>1. PICK d \in Of("bind") : x = [at |-> 2 * d - 1, n |-> 1, is |-> BindNamePrefix \o Name(comments[d])]
    BY <1>5
  <2>2. d \in 1 .. Len(comments)
    BY OfFacts
  <2> QED BY <1>4, <2>1, <2>2
<1>6. CASE \E d \in Of("subs") : comments[d].content # "" /\ x = [at |-> 2 * d - 1, n |-> 1, is |-> comments[d].content]
  <2>1. PICK d \in Of("subs") : comments[d].content # "" /\ x = [at |-> 2 * d - 1, n |-> 1, is |-> comments[d].content]
    BY <1>6
  <2>2. d \in 1 .. Len(comments)
    BY OfFacts
  <2> QED BY <1>4, <2>1, <2>2
<1> QED BY <1>3, <1>5, <1>6 DEF Item

\* Blocks that follow each other make one.
LEMMA BlocksJoin ==
  ASSUME src \in Texts, NEW from \in Int, NEW mid \in Int, NEW to \in Int, from <= mid, mid <= to,
         NEW s, NEW t, Block(s, from, mid), Block(t, mid, to)
  PROVE  Block(s \o t, from, to)
<1> DEFINE u == s \o t
           p == Len(s)
           q == Len(t)
<1>1. PICK A : s \in Seq(A)
  BY DEF Block
<1>2. PICK B : t \in Seq(B)
  BY DEF Block
<1>3. /\ u \in Seq(A \union B) /\ Len(u) = p + q /\ p \in Nat /\ q \in Nat
      /\ \A m \in 1 .. p : u[m] = s[m]
      /\ \A m \in 1 .. q : u[p + m] = t[m]
      /\ \A m \in 1 .. p + q : m \in 1 .. p \/ (m - p \in 1 .. q /\ u[m] = t[m - p])
  <2>1. s \in Seq(A \union B) /\ t \in Seq(A \union B)
    BY <1>1, <1>2
  <2>2. p \in Nat /\ q \in Nat
    BY <1>1, <1>2
  <2>3. ASSUME NEW m \in 1 .. p + q, m \notin 1 .. p
        PROVE  m - p \in 1 .. q /\ u[m] = t[m - p]
    BY <2>1, <2>2, <2>3
  <2> QED BY <2>1, <2>2, <2>3
<1> HIDE DEF u, p, q
<1>4. ASSUME NEW m \in 1 .. p
      PROVE  Item(s[m]) /\ from <= s[m].at /\ s[m].at < mid /\ s[m].at \in Nat /\ s[m].n \in Nat
  BY ItemFacts DEF Block, p
<1>5. ASSUME NEW m \in 1 .. q
      PROVE  Item(t[m]) /\ mid <= t[m].at /\ t[m].at < to /\ t[m].at \in Nat /\ t[m].n \in Nat
  BY ItemFacts DEF Block, q
<1>6. ASSUME NEW l \in 1 .. p + q, NEW m \in 1 .. p + q, l < m
      PROVE  Before(Place(u[l]), Place(u[m]))
  <2>1. CASE l \in 1 .. p /\ m \in 1 .. p
    BY <1>3, <1>6, <2>1 DEF Block, InOrder, p
  <2>2. CASE l \notin 1 .. p /\ m \notin 1 .. p
    <3>1. l - p \in 1 .. q /\ m - p \in 1 .. q /\ l - p < m - p /\ u[l] = t[l - p] /\ u[m] = t[m - p]
      BY <1>3, <1>6, <2>2
    <3> QED BY <3>1 DEF Block, InOrder, q
  <2>3. CASE l \in 1 .. p /\ m \notin 1 .. p
    <3>1. u[l] = s[l] /\ m - p \in 1 .. q /\ u[m] = t[m - p]
      BY <1>3, <2>3
    <3>2. u[l].at < u[m].at
      BY <1>4, <1>5, <2>3, <3>1
    <3> QED BY <3>2 DEF Before, Place
  <2>4. m \in 1 .. p => l \in 1 .. p
    BY <1>3, <1>6
  <2> QED BY <2>1, <2>2, <2>3, <2>4
<1>7. ASSUME NEW m \in 1 .. p + q
      PROVE  Item(u[m]) /\ from <= u[m].at /\ u[m].at < to
  BY <1>3, <1>4, <1>5
<1>8. ASSUME NEW x, Item(x), from <= x.at, x.at < to
      PROVE  \E m \in 1 .. p + q : u[m] = x
  <2>1. x.at \in Nat
    BY <1>8, ItemFacts
  <2>2. CASE x.at < mid
    <3>1. PICK m \in 1 .. p : s[m] = x
      BY <1>8, <2>2 DEF Block, p
    <3> QED BY <1>3, <3>1
  <2>3. CASE mid <= x.at
    <3>1. PICK m \in 1 .. q : t[m] = x
      BY <1>8, <2>3 DEF Block, q
    <3>2. p + m \in 1 .. p + q /\ u[p + m] = x
      BY <1>3, <3>1
    <3> QED BY <3>2
  <2> QED BY <2>1, <2>2, <2>3
<1>9. Block(u, from, to)
  BY <1>3, <1>6, <1>7, <1>8 DEF Block, InOrder
<1> QED BY <1>9 DEF u

LEMMA EmptyBlock ==
  ASSUME NEW from, NEW to, \A x : Item(x) => ~(from <= x.at /\ x.at < to)
  PROVE  Block(<<>>, from, to)
<1>1. Len(<<>>) = 0 /\ <<>> \in Seq({})
  OBVIOUS
<1> QED BY <1>1 DEF Block, InOrder

LEMMA BlockWider ==
  ASSUME src \in Texts, NEW from \in Int, NEW mid \in Int, NEW to \in Int, from <= mid, mid <= to,
         NEW s, Block(s, from, mid), \A x : Item(x) => ~(mid <= x.at /\ x.at < to)
  PROVE  Block(s, from, to)
<1>1. PICK S : s \in Seq(S)
  BY DEF Block
<1>2. s \o <<>> = s
  BY <1>1
<1> QED BY <1>2, EmptyBlock, BlocksJoin

\* A single item in the place of a comment.
LEMMA ItemBlock ==
  ASSUME src \in Texts, NEW c \in 1 .. Len(comments), NEW x, Item(x), x.at = 2 * c - 1,
         \A y : Item(y) /\ y.at = 2 * c - 1 => y = x
  PROVE  Block(<<x>>, 2 * c - 1, 2 * c)
<1>1. Len(<<x>>) = 1 /\ <<x>>[1] = x /\ <<x>> \in Seq({x})
  OBVIOUS
<1>2. c \in Nat
  BY TextFacts
<1>3. \A y : Item(y) /\ 2 * c - 1 <= y.at /\ y.at < 2 * c => y = x
  BY <1>2, ItemFacts
<1>4. PICK s : s = <<x>>
  OBVIOUS
<1>5. Len(s) = 1 /\ s[1] = x /\ s \in Seq({x})
  BY <1>1, <1>4
<1>6. \A l \in 1 .. Len(s) : s[l] = x /\ l = 1
  BY <1>5
<1>7. InOrder(s)
  BY <1>6 DEF InOrder
<1>8. \A m \in 1 .. Len(s) : Item(s[m]) /\ 2 * c - 1 <= s[m].at /\ s[m].at < 2 * c
  BY <1>2, <1>6
<1>9. Block(s, 2 * c - 1, 2 * c)
  BY <1>3, <1>5, <1>7, <1>8 DEF Block
<1> QED BY <1>4, <1>9

LEMMA PieceBlock ==
  ASSUME src \in Texts, NEW c \in 0 .. Len(comments), c = 0 \/ c \notin Of("bind")
  PROVE  Block(ItemsAt(2 * c), 2 * c, 2 * c + 1) /\ Slice(c, c + 1) = ItemsAt(2 * c)
<1> DEFINE piece == src.pieces[c + 1]
           s == ItemsAt(2 * c)
           L == Len(piece)
<1>1. c \in Nat /\ c + 1 \in 1 .. End /\ 2 * c \in Nat
  <2>1. Len(comments) \in Nat
    BY TextFacts
  <2> QED BY <2>1 DEF End
<1>2. piece \in Seq(ToSet(piece)) /\ L \in Nat
  <2>1. piece \in Seq(ToSet(piece))
    BY <1>1, TextFacts
  <2> QED BY <2>1
<1>3. s = [m \in 1 .. L |-> PieceItem(c, m)]
  <2>1. (2 * c) % 2 # 1 /\ (2 * c) \div 2 = c
    BY <1>1, Doubling
  <2> HIDE DEF L
  <2> QED BY <2>1 DEF ItemsAt, PieceItem, L
<1>4. Len(s) = L /\ s \in Seq({PieceItem(c, m) : m \in 1 .. L})
  <2> HIDE DEF L
  <2> QED BY <1>2, <1>3
<1> HIDE DEF s
<1>5. ASSUME NEW m \in 1 .. L
      PROVE  s[m] = PieceItem(c, m) /\ s[m].at = 2 * c /\ s[m].n = m /\ Item(s[m])
  BY <1>1, <1>3 DEF PieceItem, Item
<1>6. InOrder(s)
  <2>1. ASSUME NEW l \in 1 .. L, NEW m \in 1 .. L, l < m
        PROVE  Before(Place(s[l]), Place(s[m]))
    BY <1>5, <2>1 DEF Before, Place
  <2> QED BY <1>4, <2>1 DEF InOrder
<1>7. ASSUME NEW x, Item(x), 2 * c <= x.at, x.at < 2 * c + 1
      PROVE  \E m \in 1 .. L : s[m] = x
  <2>1. x.at = 2 * c
    BY <1>1, <1>7, ItemFacts
  <2>2. \E m \in 1 .. Len(src.pieces[c + 1]) : x = PieceItem(c, m)
    BY <1>7, <2>1, ItemIs
  <2>3. PICK m \in 1 .. L : x = PieceItem(c, m)
    BY <2>2
  <2> QED BY <1>5, <2>3
<1>8. Block(s, 2 * c, 2 * c + 1)
  <2>1. ASSUME NEW m \in 1 .. Len(s)
        PROVE  Item(s[m]) /\ 2 * c <= s[m].at /\ s[m].at < 2 * c + 1
    BY <1>1, <1>4, <1>5
  <2> HIDE DEF L
  <2> QED BY <1>4, <1>6, <1>7, <2>1 DEF Block
<1>9. Slice(c, c + 1) = s
  <2>1. 2 * ((c + 1) - c) - 1 = 1 /\ 2 * c + 1 - 1 = 2 * c
    BY <1>1
  <2>2. [m \in 1 .. 1 |-> ItemsAt(2 * c + m - 1)] = <<s>>
    BY <2>1 DEF s
  <2>3. Slice(c, c + 1) = FlattenSeq(<<s>>)
    BY <2>1, <2>2 DEF Slice
  <2> QED BY <1>4, <2>3, FlattenOne
<1> QED BY <1>8, <1>9 DEF s

-----------------------------------------------------------------------------
(* What has been declared up to a comment.                                 *)

LEMMA UptoNext ==
  ASSUME src \in Texts, NEW n \in Nat, NEW type
  PROVE  /\ Upto(type, n) \in SUBSET (1 .. n) /\ IsFiniteSet(Upto(type, n))
         /\ n + 1 \in Of(type) => Upto(type, n + 1) = Upto(type, n) \union {n + 1}
         /\ n + 1 \notin Of(type) => Upto(type, n + 1) = Upto(type, n)
         /\ n = Len(comments) => Upto(type, n) = Of(type)
<1>1. Of(type) \in SUBSET Nat /\ Of(type) \in SUBSET (1 .. Len(comments))
  BY OfFacts, TextFacts
<1>2. Upto(type, n) \in SUBSET (1 .. n)
  <2>1. \A c \in Of(type) : c \in Nat /\ 1 <= c
    BY <1>1
  <2> QED BY <2>1 DEF Upto
<1>3. IsFiniteSet(Upto(type, n))
  <2>1. IsFiniteSet(1 .. n)
    BY FS_Interval
  <2> QED BY <1>2, <2>1, FS_Subset
<1>4. \A c \in Of(type) : c <= n + 1 <=> (c <= n \/ c = n + 1)
  BY <1>1
<1> QED BY <1>1, <1>2, <1>3, <1>4 DEF Upto

LEMMA DeclaredKept ==
  ASSUME src \in Texts, NEW n \in Nat, HasArgs(n), HasFunc(n), HasEnvs(n)
  PROVE  /\ n + 1 \notin Of("arg") => HasArgs(n + 1)
         /\ n + 1 \notin Of("func") => HasFunc(n + 1)
         /\ n + 1 \notin Of("env") => HasEnvs(n + 1)
<1>1. n + 1 \notin Of("arg") => HasArgs(n + 1)
  BY UptoNext DEF HasArgs
<1>2. n + 1 \notin Of("func") => HasFunc(n + 1)
  BY UptoNext DEF HasFunc
<1>3. n + 1 \notin Of("env") => HasEnvs(n + 1)
  BY UptoNext DEF HasEnvs
<1> QED BY <1>1, <1>2, <1>3

\* Whatever does not touch what was gathered.
LEMMA DeclaredFrame ==
  ASSUME UNCHANGED src, NEW n
  PROVE  /\ Args' = Args => (HasArgs(n)' <=> HasArgs(n))
         /\ FuncName' = FuncName /\ ReturnStyle' = ReturnStyle => (HasFunc(n)' <=> HasFunc(n))
         /\ Envs' = Envs => (HasEnvs(n)' <=> HasEnvs(n))
         /\ \A type : Upto(type, n)' = Upto(type, n) /\ Of(type)' = Of(type)
         /\ comments' = comments /\ Settings' = Settings
<1>1. comments' = comments
  BY DEF comments
<1>2. ASSUME NEW c
      PROVE  Encloses(c)' <=> Encloses(c)
  BY <1>1 DEF Encloses, IsBind
<1>3. ASSUME NEW type
      PROVE  Upto(type, n)' = Upto(type, n) /\ Of(type)' = Of(type)
  BY <1>1, <1>2 DEF Upto, Of, Active
<1>4. Args' = Args => (HasArgs(n)' <=> HasArgs(n))
  BY <1>1, <1>3 DEF HasArgs
<1>5. FuncName' = FuncName /\ ReturnStyle' = ReturnStyle => (HasFunc(n)' <=> HasFunc(n))
  <2>1. Upto("func", n)' = Upto("func", n)
    BY <1>3
  <2> QED BY <1>1, <2>1 DEF HasFunc
<1>6. Envs' = Envs => (HasEnvs(n)' <=> HasEnvs(n))
  <2>1. Upto("env", n)' = Upto("env", n)
    BY <1>3
  <2> QED BY <1>1, <2>1 DEF HasEnvs
<1>7. Settings' = Settings
  BY <1>1 DEF Settings
<1> QED BY <1>1, <1>3, <1>4, <1>5, <1>6, <1>7

LEMMA AppendFcn ==
  ASSUME NEW U, NEW a \in Seq(U), NEW e, NEW b,
         b = [k \in 1 .. Len(a) + 1 |-> b[k]],
         \A k \in 1 .. Len(a) + 1 : b[k] = IF k = Len(a) + 1 THEN e ELSE a[k]
  PROVE  b = Append(a, e)
<1>1. a \in Seq(U \union {e})
  OBVIOUS
<1>2. Append(a, e) \in Seq(U \union {e}) /\ Len(Append(a, e)) = Len(a) + 1
  BY <1>1
<1>3. Append(a, e) = [k \in 1 .. Len(a) + 1 |-> Append(a, e)[k]]
  <2>1. PICK d : d = Append(a, e)
    OBVIOUS
  <2>2. d \in Seq(U \union {e}) /\ Len(d) = Len(a) + 1
    BY <1>2, <2>1
  <2>3. d = [k \in 1 .. Len(a) + 1 |-> d[k]]
    BY <2>2
  <2> QED BY <2>1, <2>3
<1>4. \A k \in 1 .. Len(a) + 1 : Append(a, e)[k] = b[k]
  BY <1>1
<1> QED BY <1>3, <1>4

\* The n-th of some numbers, when a greater one joins them.
LEMMA NthJoined ==
  ASSUME NEW n \in Nat, NEW S \in SUBSET (1 .. n)
  PROVE  LET T == S \union {n + 1}
         IN  /\ Cardinality(S) \in Nat /\ Cardinality(T) = Cardinality(S) + 1
             /\ \A k \in 1 .. Cardinality(S) : Nth(T, k) = Nth(S, k)
             /\ Nth(T, Cardinality(S) + 1) = n + 1
<1> DEFINE e == n + 1
           T == S \union {e}
           N == Cardinality(S)
           low(X, d) == {x \in X : x <= d}
           those(X, k) == {d \in X : Cardinality(low(X, d)) = k}
<1>1. IsFiniteSet(S) /\ e \notin S /\ \A x \in S : x \in Nat /\ x < e
  <2>1. IsFiniteSet(1 .. n)
    BY FS_Interval
  <2>2. IsFiniteSet(S)
    BY <2>1, FS_Subset
  <2> QED BY <2>2
<1>2. N \in Nat /\ Cardinality(T) = N + 1
  BY <1>1, FS_CardinalityType, FS_AddElement
<1>3. low(T, e) = T
  <2>1. \A x \in T : x <= e
    BY <1>1
  <2> HIDE DEF T, e
  <2> QED BY <2>1
<1>4. ASSUME NEW d \in S
      PROVE  low(T, d) = low(S, d) /\ Cardinality(low(S, d)) <= N
  <2>1. low(T, d) = low(S, d)
    BY <1>1
  <2>2. low(S, d) \subseteq S
    OBVIOUS
  <2> HIDE DEF low
  <2> QED BY <1>1, <2>1, <2>2, FS_Subset
<1> HIDE DEF low, N
<1>5. ASSUME NEW k \in 1 .. N
      PROVE  those(T, k) = those(S, k)
  <2>1. Cardinality(low(T, e)) # k
    <3>1. Cardinality(low(T, e)) = N + 1
      BY <1>2, <1>3
    <3>2. k <= N /\ k \in Nat
      BY <1>2
    <3> HIDE DEF T, e
    <3> QED BY <1>2, <3>1, <3>2
  <2> QED BY <1>4, <2>1
<1>6. those(T, N + 1) = {e}
  <2>1. Cardinality(low(T, e)) = N + 1
    BY <1>2, <1>3
  <2>2. \A d \in S : Cardinality(low(T, d)) # N + 1
    <3>1. ASSUME NEW d \in S
          PROVE  Cardinality(low(T, d)) # N + 1
      <4>1. IsFiniteSet(low(S, d))
        <5>1. low(S, d) \subseteq S
          BY DEF low
        <5> QED BY <1>1, <5>1, FS_Subset
      <4>2. Cardinality(low(S, d)) \in Nat
        BY <4>1, FS_CardinalityType
      <4> QED BY <1>2, <1>4, <4>2
    <3> QED BY <3>1
  <2> QED BY <2>1, <2>2
<1>7. ASSUME NEW X, NEW k
      PROVE  Nth(X, k) = CHOOSE c \in those(X, k) : TRUE
  BY DEF Nth, low
<1> HIDE DEF those
<1>8. \A k \in 1 .. N : Nth(T, k) = Nth(S, k)
  BY <1>5, <1>7
<1>9. Nth(T, N + 1) = e
  BY <1>6, <1>7
<1> QED BY <1>2, <1>8, <1>9 DEF N

LEMMA ArgAdded ==
  ASSUME src \in Texts, UNCHANGED src, NEW n \in Nat, n + 1 \in Of("arg"), HasArgs(n),
         Args' = Append(Args, [name |-> Name(comments[n + 1]),
                               type |-> Option(comments[n + 1], "type")])
  PROVE  HasArgs(n + 1)'
<1> DEFINE S == Upto("arg", n)
           T == Upto("arg", n + 1)
           N == Cardinality(S)
           arg(c) == [name |-> Name(comments[c]), type |-> Option(comments[c], "type")]
<1>1. S \in SUBSET (1 .. n) /\ T = S \union {n + 1}
  BY UptoNext
<1>2. /\ N \in Nat /\ Cardinality(T) = N + 1
      /\ \A k \in 1 .. N : Nth(T, k) = Nth(S, k)
      /\ Nth(T, N + 1) = n + 1
  <2> HIDE DEF S, T
  <2> QED BY <1>1, NthJoined, Zenon
<1>3. Args = [k \in 1 .. N |-> arg(Nth(S, k))]
  BY DEF HasArgs
<1>4. Args' = [k \in 1 .. N + 1 |-> arg(Nth(T, k))]
  <2> DEFINE e == arg(n + 1)
             a == [k \in 1 .. N |-> arg(Nth(S, k))]
             b == [k \in 1 .. N + 1 |-> arg(Nth(T, k))]
  <2>1. Args' = Append(a, e)
    BY <1>3
  <2>2. \A k \in 1 .. N + 1 : b[k] = (IF k = N + 1 THEN e ELSE a[k])
    <3> HIDE DEF S, T, N, arg
    <3>1. \A k \in 1 .. N + 1 : k = N + 1 \/ k \in 1 .. N
      BY <1>2
    <3> QED BY <1>2, <3>1
  <2>3. b = Append(a, e)
    <3>1. N \in Nat
      BY <1>2
    <3>2. Len(a) = N /\ a \in Seq({arg(Nth(S, k)) : k \in 1 .. N})
      <4> HIDE DEF S, arg, N
      <4> QED BY <3>1
    <3>3. b = [k \in 1 .. N + 1 |-> b[k]]
      <4> HIDE DEF T, arg, N
      <4> QED OBVIOUS
    <3> DEFINE U == {arg(Nth(S, k)) : k \in 1 .. N}
    <3> HIDE DEF a, b, e, S, T, arg, N, U
    <3> QED BY <2>2, <3>2, <3>3, AppendFcn DEF U
  <2> QED BY <2>1, <2>3
<1>5. T' = T /\ comments' = comments
  BY DeclaredFrame
<1> QED BY <1>2, <1>4, <1>5 DEF HasArgs

LEMMA FuncAdded ==
  ASSUME src \in Texts, UNCHANGED src, NEW n \in Nat, n + 1 \in Of("func"), HasFunc(n),
         FuncName' = Name(comments[n + 1]), ReturnStyle' = Option(comments[n + 1], "return")
  PROVE  HasFunc(n + 1)'
<1> DEFINE T == Upto("func", n + 1)
<1>1. T = Upto("func", n) \union {n + 1} /\ Upto("func", n) \in SUBSET (1 .. n)
  BY UptoNext
<1>2. n + 1 \in T /\ \A d \in T : d <= n + 1
  BY <1>1
<1>3. T' = T /\ comments' = comments
  BY DeclaredFrame
<1> HIDE DEF T
<1> QED BY <1>2, <1>3 DEF HasFunc, T

LEMMA EnvAdded ==
  ASSUME src \in Texts, UNCHANGED src, NEW n \in Nat, n + 1 \in Of("env"), HasEnvs(n),
         LET given == Options(comments[n + 1])
         IN  Envs' = [k \in DOMAIN Envs \union DOMAIN given |->
                        IF k \in DOMAIN given THEN given[k] ELSE Envs[k]]
  PROVE  HasEnvs(n + 1)'
<1> DEFINE S == Upto("env", n)
           T == Upto("env", n + 1)
           O(c) == Options(comments[c])
<1>1. S \in SUBSET (1 .. n) /\ T = S \union {n + 1}
  BY UptoNext
<1>2. T' = T /\ comments' = comments
  BY DeclaredFrame
<1>3. /\ DOMAIN Envs = UNION {DOMAIN O(c) : c \in S}
      /\ \A k \in DOMAIN Envs :
           \E c \in S : /\ k \in DOMAIN O(c) /\ Envs[k] = O(c)[k]
                        /\ \A d \in S : k \in DOMAIN O(d) => d <= c
  BY DEF HasEnvs, Given
<1>4. Envs' = [k \in DOMAIN Envs \union DOMAIN O(n + 1) |->
                 IF k \in DOMAIN O(n + 1) THEN O(n + 1)[k] ELSE Envs[k]]
  OBVIOUS
<1> HIDE DEF S, O
<1>5. DOMAIN Envs' = UNION {DOMAIN O(c) : c \in T}
  BY <1>1, <1>3, <1>4
<1>6. ASSUME NEW k \in DOMAIN Envs'
      PROVE  \E c \in T : /\ k \in DOMAIN O(c) /\ Envs'[k] = O(c)[k]
                          /\ \A d \in T : k \in DOMAIN O(d) => d <= c
  <2>1. CASE k \in DOMAIN O(n + 1)
    <3>1. \A d \in T : d <= n + 1
      <4>1. \A d \in S : d <= n + 1
        BY <1>1
      <4> HIDE DEF T
      <4> QED BY ONLY n \in Nat, <1>1, <4>1
    <3> HIDE DEF T
    <3> QED BY <1>1, <1>4, <2>1, <3>1
  <2>2. CASE k \notin DOMAIN O(n + 1)
    <3>1. k \in DOMAIN Envs /\ Envs'[k] = Envs[k]
      BY <1>4, <2>2
    <3>2. PICK c \in S : /\ k \in DOMAIN O(c) /\ Envs[k] = O(c)[k]
                         /\ \A d \in S : k \in DOMAIN O(d) => d <= c
      BY <1>3, <3>1
    <3> QED BY <1>1, <2>2, <3>1, <3>2
  <2> QED BY <2>1, <2>2
<1> HIDE DEF T
<1>8. Given(Envs', comments, T)
  BY <1>5, <1>6 DEF Given, O
<1> QED BY <1>2, <1>8 DEF HasEnvs, T

-----------------------------------------------------------------------------
(* The steps of the loop.                                                  *)

\* What depends on nothing but the text and the prefix.
LEMMA TextFrame ==
  ASSUME UNCHANGED <<src, BindNamePrefix>>, NEW s, NEW from, NEW to
  PROVE  Block(s, from, to)' <=> Block(s, from, to)
<1>1. comments' = comments /\ \A type : Of(type)' = Of(type)
  BY DeclaredFrame
<1>2. ASSUME NEW x
      PROVE  Item(x)' <=> Item(x)
  BY <1>1 DEF Item, PieceItem
<1> QED BY <1>2 DEF Block

\* Up to the comment that the loop is at, the text is what it should be.
LEMMA GatherText ==
  ASSUME IInv, phase = "gather"
  PROVE  Block(parts \o Slice(offset, i), 0, 2 * i - 1)
<1>1. /\ src \in Texts /\ i \in 1 .. End /\ offset = i - 1 /\ ~Encloses(i)
      /\ Block(parts, 0, 2 * offset)
  BY DEF IInv, PhaseInv, ParseInv, TextInv
<1>2. Len(comments) \in Nat
  BY <1>1, TextFacts
<1>3. PICK c \in 0 .. Len(comments) : c = i - 1 /\ i = c + 1 /\ c \in Nat
  BY <1>1, <1>2 DEF End
<1>4. c = 0 \/ c \notin Of("bind")
  <2>1. ASSUME c # 0, c \in Of("bind")
        PROVE  FALSE
    <3>1. c \in Nat \ {0} /\ IsBind(c) /\ ~Encloses(c)
      BY <1>3, <2>1 DEF Of, Active, IsBind
    <3>2. Encloses(c + 1)
      BY <3>1, Enclosing
    <3> QED BY <1>1, <1>3, <3>2
  <2> QED BY <2>1
<1>5. Block(Slice(c, c + 1), 2 * c, 2 * c + 1)
  <2>1. Block(ItemsAt(2 * c), 2 * c, 2 * c + 1) /\ Slice(c, c + 1) = ItemsAt(2 * c)
    BY <1>1, <1>4, PieceBlock
  <2> QED BY <2>1
<1>6. Block(parts, 0, 2 * c)
  BY <1>1, <1>3
<1>7. Block(parts \o Slice(c, c + 1), 0, 2 * c + 1)
  <2>1. 0 \in Int /\ 2 * c \in Int /\ 2 * c + 1 \in Int /\ 0 <= 2 * c /\ 2 * c <= 2 * c + 1
    BY <1>3
  <2> QED BY <1>1, <1>5, <1>6, <2>1, BlocksJoin
<1>8. 2 * i - 1 = 2 * c + 1
  BY <1>3
<1> QED BY <1>1, <1>3, <1>7, <1>8

LEMMA GatherFacts ==
  ASSUME IInv, phase = "gather", i < End
  PROVE  /\ i \in 1 .. Len(comments) /\ i \in Nat \ {0} /\ src \in Texts
         /\ IsComment(comments[i]) /\ Parses(comments[i]) /\ ~Encloses(i)
         /\ \A type : i \in Of(type) <=> Type(comments[i]) = type
         /\ Declared(i - 1)
<1>1. /\ src \in Texts /\ i \in 1 .. End /\ ~Encloses(i)
      /\ \A c \in 1 .. Len(comments) : Parses(comments[c])
      /\ Declared(i - 1)
  BY DEF IInv, PhaseInv, ParseInv, DeclaredInv
<1>2. Len(comments) \in Nat /\ \A c \in 1 .. Len(comments) : IsComment(comments[c])
  BY <1>1, TextFacts
<1>3. i \in 1 .. Len(comments) /\ i \in Nat \ {0}
  BY <1>1, <1>2 DEF End
<1>4. i \in Active
  BY <1>1, <1>3 DEF Active
<1> QED BY <1>1, <1>2, <1>3, <1>4 DEF Of

\* The loop goes on.
LEMMA PassInv ==
  ASSUME IInv, phase = "gather", NEW n \in 1 .. Len(comments), PassTo(n), ~Encloses(n + 1),
         Declared(n)', DeclaredType', Block(parts', 0, 2 * n)
  PROVE  IInv'
<1>1. /\ src \in Texts /\ i' = n + 1 /\ offset' = n /\ phase' = "gather"
      /\ UNCHANGED <<src, phase, BindNamePrefix, noNameCnt, stmts>>
  BY DEF IInv, PhaseInv, PassTo
<1>2. Len(comments) \in Nat /\ n \in Nat /\ (n + 1) - 1 = n
  <2>1. Len(comments) \in Nat
    BY <1>1, TextFacts
  <2> QED BY <2>1
<1>3. /\ comments' = comments /\ Settings' = Settings /\ End' = End
      /\ \A type : Of(type)' = Of(type)
  BY <1>1, DeclaredFrame DEF End
<1>4. PhaseInv'
  BY <1>1, <1>2, <1>3 DEF PhaseInv, End
<1>5. CountInv'
  BY <1>1 DEF IInv, CountInv
<1>6. ParseInv'
  <2>1. ~Encloses(n + 1)'
    BY <1>3 DEF Encloses, IsBind
  <2>2. ~Encloses(i)'
    <3>1. PICK e : e = i'
      OBVIOUS
    <3>2. Encloses(i)' <=> Encloses(e)
      BY <1>3, <3>1 DEF Encloses, IsBind
    <3> QED BY <1>1, <3>1, <3>2
  <2>3. \A c \in 1 .. Len(comments) : Parses(comments[c])
    BY DEF IInv, ParseInv
  <2> QED BY <1>1, <1>3, <2>2, <2>3 DEF ParseInv
<1>7. PrefixInv'
  BY <1>1, <1>3 DEF IInv, PrefixInv, SetBefore
<1>8. DeclaredInv'
  <2>1. Declared(i - 1)'
    <3>1. i' - 1 = n
      BY <1>1, <1>2
    <3> QED BY <3>1 DEF Declared, HasArgs, HasFunc, HasEnvs, Upto
  <2> QED BY <2>1 DEF DeclaredInv
<1>9. TextInv'
  <2>1. PICK s : s = parts'
    OBVIOUS
  <2>2. Block(s, 0, 2 * n)'
    <3>1. Block(s, 0, 2 * n)
      BY <2>1
    <3> QED BY <1>1, <3>1, TextFrame
  <2>3. Block(parts, 0, 2 * offset)'
    <3>1. offset' = n
      BY <1>1
    <3> QED BY <2>1, <2>2, <3>1 DEF Block, InOrder
  <2> QED BY <1>1, <2>3 DEF TextInv
<1> QED BY <1>4, <1>5, <1>6, <1>7, <1>8, <1>9 DEF IInv

\* A comment that nothing takes the place of.
LEMMA NothingThere ==
  ASSUME IInv, phase = "gather", i < End, Type(comments[i]) # "bind",
         Type(comments[i]) = "subs" => comments[i].content = ""
  PROVE  Block(parts \o Slice(offset, i), 0, 2 * i)
<1>1. /\ i \in 1 .. Len(comments) /\ i \in Nat \ {0} /\ src \in Texts
      /\ i \notin Of("bind") /\ (i \in Of("subs") => comments[i].content = "")
  BY GatherFacts
<1>2. i \in 0 .. Len(comments)
  <2>1. Len(comments) \in Nat
    BY <1>1, TextFacts
  <2>2. i \in 1 .. Len(comments)
    BY <1>1
  <2> QED BY ONLY <2>1, <2>2
<1>3. ASSUME NEW x, Item(x)
      PROVE  ~(2 * i - 1 <= x.at /\ x.at < 2 * i)
  <2>1. x.at # 2 * i - 1
    BY <1>1, <1>2, <1>3, ItemIs
  <2>2. x.at \in Nat
    BY <1>1, <1>3, ItemFacts
  <2>3. i \in Nat
    BY <1>1
  <2> QED BY ONLY <2>1, <2>2, <2>3
<1>4. Block(parts \o Slice(offset, i), 0, 2 * i - 1)
  BY GatherText
<1>5. 0 \in Int /\ 2 * i - 1 \in Int /\ 2 * i \in Int /\ 0 <= 2 * i - 1 /\ 2 * i - 1 <= 2 * i
  <2>1. i \in Nat \ {0}
    BY <1>1
  <2> QED BY ONLY <2>1
<1>6. src \in Texts
  BY <1>1
<1> QED BY ONLY <1>3, <1>4, <1>5, <1>6, BlockWider

\* The item that takes the place of a comment.
LEMMA SomethingThere ==
  ASSUME IInv, phase = "gather", i < End, NEW x, Item(x), x.at = 2 * i - 1,
         \A y : Item(y) /\ y.at = 2 * i - 1 => y = x
  PROVE  Block(parts \o Slice(offset, i) \o <<x>>, 0, 2 * i)
<1>1. i \in 1 .. Len(comments) /\ i \in Nat \ {0} /\ src \in Texts
  BY GatherFacts
<1>2. Block(parts \o Slice(offset, i), 0, 2 * i - 1)
  BY GatherText
<1>3. Block(<<x>>, 2 * i - 1, 2 * i)
  BY <1>1, ItemBlock
<1>4. 0 \in Int /\ 2 * i - 1 \in Int /\ 2 * i \in Int /\ 0 <= 2 * i - 1 /\ 2 * i - 1 <= 2 * i
  BY <1>1
<1> QED BY <1>1, <1>2, <1>3, <1>4, BlocksJoin

\* A comment that neither binds nor is bound.
LEMMA PassOver ==
  ASSUME IInv, phase = "gather", NEW n, n = i, n < End, PassTo(n), Type(comments[n]) # "bind",
         Declared(n)', DeclaredType', Block(parts', 0, 2 * n)
  PROVE  IInv'
<1>1. n \in 1 .. Len(comments) /\ n \in Nat \ {0}
  BY GatherFacts
<1>2. ~Encloses(n + 1)
  BY <1>1, GatherFacts, Enclosing DEF IsBind
<1> QED BY <1>1, <1>2, PassInv

\* What comment n does not declare is as it was.
LEMMA DeclaredNext ==
  ASSUME IInv, phase = "gather", NEW n, n = i, n < End, UNCHANGED src
  PROVE  /\ Args' = Args /\ Type(comments[n]) # "arg" => HasArgs(n)'
         /\ FuncName' = FuncName /\ ReturnStyle' = ReturnStyle /\ Type(comments[n]) # "func" => HasFunc(n)'
         /\ Envs' = Envs /\ Type(comments[n]) # "env" => HasEnvs(n)'
<1>1. PICK m \in Nat : m + 1 = n /\ m = n - 1
  BY GatherFacts
<1>2. /\ src \in Texts /\ HasArgs(m) /\ HasFunc(m) /\ HasEnvs(m)
      /\ \A type : n \in Of(type) <=> Type(comments[n]) = type
  BY <1>1, GatherFacts DEF Declared
<1>3. /\ Type(comments[n]) # "arg" => HasArgs(n)
      /\ Type(comments[n]) # "func" => HasFunc(n)
      /\ Type(comments[n]) # "env" => HasEnvs(n)
  BY <1>1, <1>2, DeclaredKept
<1> QED BY <1>3, DeclaredFrame

LEMMA NoAnnotInv ==
  ASSUME IInv, NoAnnot
  PROVE  IInv'
<1>1. /\ phase = "gather" /\ i < End /\ Type(comments[i]) \in {"", "setting"}
      /\ parts' = parts \o Slice(offset, i) /\ PassTo(i)
      /\ UNCHANGED <<FuncName, ReturnStyle, Args, Envs>>
  BY DEF NoAnnot, Reaches
<1>2. PICK n : n = i
  OBVIOUS
<1>3. Declared(n)'
  BY <1>1, <1>2, DeclaredNext DEF Declared, PassTo
<1>4. DeclaredType'
  BY <1>1 DEF IInv, DeclaredInv, DeclaredType
<1>5. Block(parts', 0, 2 * n)
  BY <1>1, <1>2, NothingThere
<1> QED BY <1>1, <1>2, <1>3, <1>4, <1>5, PassOver

LEMMA FuncAnnotInv ==
  ASSUME IInv, FuncAnnot
  PROVE  IInv'
<1>1. /\ phase = "gather" /\ i < End /\ Type(comments[i]) = "func"
      /\ parts' = parts \o Slice(offset, i) /\ PassTo(i) /\ UNCHANGED src
      /\ FuncName' = Name(comments[i]) /\ ReturnStyle' = Option(comments[i], "return")
      /\ UNCHANGED <<Args, Envs>>
  BY DEF FuncAnnot, Reaches, PassTo
<1>2. PICK n : n = i
  OBVIOUS
<1>3. HasFunc(n)'
  <2>1. PICK m \in Nat : m + 1 = n /\ m = n - 1
    BY <1>1, <1>2, GatherFacts
  <2>2. src \in Texts /\ n \in Of("func") /\ HasFunc(m)
    BY <1>1, <1>2, <2>1, GatherFacts DEF Declared
  <2> QED BY <1>1, <1>2, <2>1, <2>2, FuncAdded
<1>4. Declared(n)'
  BY <1>1, <1>2, <1>3, DeclaredNext DEF Declared
<1>5. DeclaredType'
  <2>1. FuncName' \in Idents /\ ReturnStyle' \in {"", "many", "one"}
    BY <1>1, GatherFacts, NameFacts, ReturnFacts
  <2> QED BY <1>1, <2>1 DEF IInv, DeclaredInv, DeclaredType
<1>6. Block(parts', 0, 2 * n)
  BY <1>1, <1>2, NothingThere
<1> QED BY <1>1, <1>2, <1>4, <1>5, <1>6, PassOver

LEMMA ArgAnnotInv ==
  ASSUME IInv, ArgAnnot
  PROVE  IInv'
<1> DEFINE arg == [name |-> Name(comments[i]), type |-> Option(comments[i], "type")]
<1>1. /\ phase = "gather" /\ i < End /\ Type(comments[i]) = "arg"
      /\ parts' = parts \o Slice(offset, i) /\ PassTo(i) /\ UNCHANGED src
      /\ Args' = Append(Args, arg)
      /\ UNCHANGED <<FuncName, ReturnStyle, Envs>>
  BY DEF ArgAnnot, Reaches, PassTo
<1>2. PICK n : n = i
  OBVIOUS
<1>3. HasArgs(n)'
  <2>1. PICK m \in Nat : m + 1 = n /\ m = n - 1
    BY <1>1, <1>2, GatherFacts
  <2>2. src \in Texts /\ n \in Of("arg") /\ HasArgs(m)
    BY <1>1, <1>2, <2>1, GatherFacts DEF Declared
  <2> QED BY <1>1, <1>2, <2>1, <2>2, ArgAdded
<1>4. Declared(n)'
  BY <1>1, <1>2, <1>3, DeclaredNext DEF Declared
<1>5. DeclaredType'
  <2>1. arg.name \in Idents
    BY <1>1, GatherFacts, NameFacts
  <2>2. PICK S : Args \in Seq(S)
    BY DEF IInv, DeclaredInv, DeclaredType
  <2>3. \A k \in 1 .. Len(Args) : Args[k].name \in Idents
    BY DEF IInv, DeclaredInv, DeclaredType
  <2> HIDE DEF arg
  <2>4. Args \in Seq(S \union {arg}) /\ Len(Args) \in Nat
    BY <2>2
  <2>5. Args' \in Seq(S \union {arg}) /\ Len(Args') = Len(Args) + 1
    BY <1>1, <2>4
  <2>6. ASSUME NEW k \in 1 .. Len(Args) + 1
        PROVE  Append(Args, arg)[k] = IF k = Len(Args) + 1 THEN arg ELSE Args[k]
    BY <2>4
  <2>7. \A k \in 1 .. Len(Args') : Args'[k].name \in Idents
    BY <1>1, <2>1, <2>3, <2>4, <2>5, <2>6
  <2> QED BY <1>1, <2>5, <2>7 DEF IInv, DeclaredInv, DeclaredType
<1>6. Block(parts', 0, 2 * n)
  BY <1>1, <1>2, NothingThere
<1> QED BY <1>1, <1>2, <1>4, <1>5, <1>6, PassOver

LEMMA EnvAnnotInv ==
  ASSUME IInv, EnvAnnot
  PROVE  IInv'
<1>1. /\ phase = "gather" /\ i < End /\ Type(comments[i]) = "env"
      /\ parts' = parts \o Slice(offset, i) /\ PassTo(i) /\ UNCHANGED src
      /\ LET given == Options(comments[i])
         IN  Envs' = [k \in DOMAIN Envs \union DOMAIN given |->
                        IF k \in DOMAIN given THEN given[k] ELSE Envs[k]]
      /\ UNCHANGED <<FuncName, ReturnStyle, Args>>
  BY DEF EnvAnnot, Reaches, PassTo
<1>2. PICK n : n = i
  OBVIOUS
<1>3. HasEnvs(n)'
  <2>1. PICK m \in Nat : m + 1 = n /\ m = n - 1
    BY <1>1, <1>2, GatherFacts
  <2>2. src \in Texts /\ n \in Of("env") /\ HasEnvs(m)
    BY <1>1, <1>2, <2>1, GatherFacts DEF Declared
  <2> QED BY <1>1, <1>2, <2>1, <2>2, EnvAdded
<1>4. Declared(n)'
  BY <1>1, <1>2, <1>3, DeclaredNext DEF Declared
<1>5. DeclaredType'
  BY <1>1 DEF IInv, DeclaredInv, DeclaredType
<1>6. Block(parts', 0, 2 * n)
  BY <1>1, <1>2, NothingThere
<1> QED BY <1>1, <1>2, <1>4, <1>5, <1>6, PassOver

LEMMA SubsAnnotInv ==
  ASSUME IInv, SubsAnnot
  PROVE  IInv'
<1>1. /\ phase = "gather" /\ i < End /\ Type(comments[i]) = "subs"
      /\ parts' = parts \o Slice(offset, i) \o Substitute(i) /\ PassTo(i)
      /\ UNCHANGED <<FuncName, ReturnStyle, Args, Envs>>
  BY DEF SubsAnnot, Reaches
<1>2. PICK n : n = i
  OBVIOUS
<1>3. Declared(n)'
  BY <1>1, <1>2, DeclaredNext DEF Declared, PassTo
<1>4. DeclaredType'
  BY <1>1 DEF IInv, DeclaredInv, DeclaredType
<1>5. Block(parts', 0, 2 * n)
  <2>1. CASE comments[i].content = ""
    <3>1. Block(parts \o Slice(offset, i), 0, 2 * n)
      BY <1>1, <1>2, <2>1, NothingThere
    <3>2. parts' = parts \o Slice(offset, i)
      <4>1. PICK S : parts \o Slice(offset, i) \in Seq(S)
        BY <3>1 DEF Block
      <4>2. Substitute(i) = <<>>
        BY <2>1 DEF Substitute
      <4> QED BY <1>1, <4>1, <4>2
    <3> QED BY <3>1, <3>2
  <2>2. CASE comments[i].content # ""
    <3>1. PICK x : x = [at |-> 2 * i - 1, n |-> 1, is |-> comments[i].content]
      OBVIOUS
    <3>2. Substitute(i) = <<x>>
      BY <2>2, <3>1 DEF Substitute
    <3>3. i \in Of("subs") /\ i \notin Of("bind") /\ i \in 0 .. Len(comments) /\ src \in Texts
      <4>1. i \in Of("subs") /\ i \notin Of("bind") /\ i \in 1 .. Len(comments) /\ src \in Texts
        BY <1>1, GatherFacts
      <4>2. Len(comments) \in Nat
        BY <4>1, TextFacts
      <4> QED BY ONLY <4>1, <4>2
    <3>4. Item(x) /\ x.at = 2 * i - 1
      BY <2>2, <3>1, <3>3 DEF Item
    <3>5. \A y : Item(y) /\ y.at = 2 * i - 1 => y = x
      BY <3>1, <3>3, ItemIs
    <3> QED BY <1>1, <1>2, <3>2, <3>4, <3>5, SomethingThere
  <2> QED BY <2>1, <2>2
<1> QED BY <1>1, <1>2, <1>3, <1>4, <1>5, PassOver

LEMMA BindAnnotInv ==
  ASSUME IInv, BindAnnot
  PROVE  IInv'
<1>1. /\ phase = "gather" /\ i < End /\ Type(comments[i]) = "bind" /\ i + 1 < End
      /\ parts' = parts \o Slice(offset, i) \o Placeholder(i) /\ PassTo(i + 1)
      /\ UNCHANGED <<FuncName, ReturnStyle, Args, Envs>> /\ UNCHANGED src
  BY DEF BindAnnot, Reaches, PassTo
<1>2. /\ i \in 1 .. Len(comments) /\ i \in Nat \ {0} /\ src \in Texts /\ ~Encloses(i)
      /\ i \in Of("bind") /\ i \notin Of("subs") /\ Declared(i - 1) /\ Len(comments) \in Nat
  BY <1>1, GatherFacts, TextFacts
<1>3. \A type : i \in Of(type) => type = "bind"
  BY <1>1, GatherFacts
<1>4. PICK n : n = i + 1
  OBVIOUS
<1>5. n \in 1 .. Len(comments) /\ n \in Nat /\ n = i + 1 /\ n - 1 = i
  <2>1. i \in Nat /\ i + 1 < Len(comments) + 1 /\ Len(comments) \in Nat
    BY <1>1, <1>2 DEF End
  <2> QED BY ONLY <1>4, <2>1
\* The enclosure is passed over.
<1>6. Encloses(n) /\ ~Encloses(n + 1) /\ \A type : n \notin Of(type)
  <2>1. Encloses(i + 1)
    BY <1>1, <1>2, Enclosing DEF IsBind
  <2>2. Encloses(n)
    BY <1>5, <2>1
  <2>3. n \in Nat \ {0}
    BY <1>2, <1>5
  <2>4. ~Encloses(n + 1)
    BY <2>2, <2>3, Enclosing
  <2> QED BY <2>2, <2>4 DEF Of, Active
<1>7. Declared(n)'
  <2>1. PICK m \in Nat : m = i - 1 /\ m + 1 = i
    BY <1>2
  <2>2. HasArgs(m) /\ HasFunc(m) /\ HasEnvs(m)
    BY <1>2, <2>1 DEF Declared
  <2>3. PICK k : k = i
    OBVIOUS
  <2>4. HasArgs(k) /\ HasFunc(k) /\ HasEnvs(k)
    BY <1>2, <1>3, <2>1, <2>2, <2>3, DeclaredKept
  <2>5. k \in Nat /\ k + 1 = n
    BY <1>2, <1>5, <2>3
  <2>6. HasArgs(n) /\ HasFunc(n) /\ HasEnvs(n)
    BY <1>2, <1>6, <2>4, <2>5, DeclaredKept
  <2> QED BY <1>1, <2>6, DeclaredFrame DEF Declared
<1>8. DeclaredType'
  BY <1>1 DEF IInv, DeclaredInv, DeclaredType
<1>9. Block(parts', 0, 2 * n)
  <2>1. PICK x : x = [at |-> 2 * i - 1, n |-> 1, is |-> BindNamePrefix \o Name(comments[i])]
    OBVIOUS
  <2>2. Placeholder(i) = <<x>>
    BY <2>1 DEF Placeholder
  <2>3. i \in 0 .. Len(comments)
    BY ONLY <1>2
  <2>4. Item(x) /\ x.at = 2 * i - 1
    BY <1>2, <2>1 DEF Item
  <2>5. \A y : Item(y) /\ y.at = 2 * i - 1 => y = x
    BY <1>2, <2>1, <2>3, ItemIs
  <2>6. Block(parts', 0, 2 * i)
    BY <1>1, <2>2, <2>4, <2>5, SomethingThere
  <2>7. ASSUME NEW y, Item(y)
        PROVE  ~(2 * i <= y.at /\ y.at < 2 * n)
    <3>1. y.at # 2 * i
      BY <1>2, <2>3, <2>7, ItemIs
    <3>2. n \in 0 .. Len(comments)
      BY ONLY <1>2, <1>5
    <3>3. y.at # 2 * n - 1
      BY <1>2, <1>6, <2>7, <3>2, ItemIs
    <3>4. y.at \in Nat
      BY <1>2, <2>7, ItemFacts
    <3>5. i \in Nat
      BY <1>2
    <3> QED BY ONLY <1>5, <3>1, <3>3, <3>4, <3>5
  <2>8. 0 \in Int /\ 2 * i \in Int /\ 2 * n \in Int /\ 0 <= 2 * i /\ 2 * i <= 2 * n
    <3>1. i \in Nat
      BY <1>2
    <3> QED BY ONLY <1>5, <3>1
  <2>9. PICK p : p = parts'
    OBVIOUS
  <2>10. Block(p, 0, 2 * n)
    <3>1. src \in Texts /\ Block(p, 0, 2 * i)
      BY <1>2, <2>6, <2>9
    <3> QED BY ONLY <2>7, <2>8, <3>1, BlockWider
  <2> QED BY <2>9, <2>10
<1>10. PassTo(n)
  BY <1>1, <1>4 DEF PassTo
<1> QED BY <1>1, <1>5, <1>6, <1>7, <1>8, <1>9, <1>10, PassInv

LEMMA MissingEnclosureInv ==
  ASSUME IInv, MissingEnclosure
  PROVE  IInv'
<1>1. /\ phase = "gather" /\ i < End /\ Type(comments[i]) = "bind" /\ i + 1 = End
      /\ phase' = "failed" /\ i' = i + 1
      /\ UNCHANGED <<src, offset, FuncName, ReturnStyle, Args, Envs, BindNamePrefix, noNameCnt, stmts>>
  <2>1. i < i + 1
    BY DEF IInv, PhaseInv, MissingEnclosure, Reaches
  <2> QED BY <2>1 DEF MissingEnclosure, Reaches
<1>2. /\ i \in 1 .. Len(comments) /\ i \in Nat \ {0} /\ src \in Texts /\ i \in Of("bind")
      /\ Len(comments) \in Nat
  BY <1>1, GatherFacts, TextFacts
<1>3. i = Len(comments)
  <2>1. i + 1 = Len(comments) + 1 /\ i \in Nat
    BY <1>1, <1>2 DEF End
  <2> QED BY ONLY <1>2, <2>1
<1>4. /\ comments' = comments /\ Settings' = Settings /\ End' = End
      /\ \A type : Of(type)' = Of(type)
  BY <1>1, DeclaredFrame DEF End
<1>5. PhaseInv'
  <2>1. i' \in 0 .. End /\ offset \in 0 .. Len(comments)
    <3>1. offset = i - 1
      BY <1>1 DEF IInv, PhaseInv
    <3> QED BY ONLY <1>1, <1>2, <3>1 DEF End
  <2> QED BY <1>1, <1>2, <1>4, <2>1 DEF PhaseInv
<1>6. CountInv'
  BY <1>1 DEF IInv, CountInv
<1>7. ParseInv'
  <2>1. Len(comments') \in Of("bind")'
    BY <1>2, <1>3, <1>4
  <2> QED BY <1>1, <2>1 DEF ParseInv
<1>8. PrefixInv'
  BY <1>1 DEF IInv, PrefixInv
<1>9. DeclaredInv'
  BY <1>1 DEF IInv, DeclaredInv, DeclaredType
<1>10. TextInv'
  BY <1>1 DEF TextInv
<1> QED BY <1>5, <1>6, <1>7, <1>8, <1>9, <1>10 DEF IInv

-----------------------------------------------------------------------------
(* The steps before the loop and after it.                                 *)

LEMMA NoElements ==
  ASSUME NEW s, s = <<>>
  PROVE  /\ 1 .. Len(s) = {} /\ (\E S : s \in Seq(S)) /\ DOMAIN s = {}
         /\ \A e : e = [k \in 1 .. 0 |-> e[k]] => s = e
<1>1. Len(s) = 0 /\ s \in Seq({}) /\ DOMAIN s = {}
  OBVIOUS
<1>2. 1 .. Len(s) = {}
  BY ONLY <1>1
<1>3. 1 .. 0 = {}
  OBVIOUS
<1>4. \A e : e = [k \in {} |-> e[k]] => s = e
  BY <1>1
<1> QED BY <1>1, <1>2, <1>3, <1>4

LEMMA Emptiness ==
  /\ NoText \in Texts /\ ":" \in BindPrefixes
  /\ Nothing => DeclaredType
<1>1. ASSUME Nothing
      PROVE  DeclaredType
  <2>1. FuncName = "" /\ ReturnStyle = "" /\ Args = <<>>
    BY <1>1 DEF Nothing
  <2>3. 1 .. Len(Args) = {} /\ \E S : Args \in Seq(S)
    <3>1. PICK a : a = Args
      OBVIOUS
    <3> QED BY <2>1, <3>1, NoElements
  <2> QED BY <2>1, <2>3 DEF DeclaredType
<1> QED BY <1>1 DEF Texts, BindPrefixes

LEMMA InitInv == Init => IInv
<1>1. ASSUME Init
      PROVE  /\ src = NoText /\ phase = "idle" /\ i = 0 /\ offset = 0 /\ Nothing
             /\ BindNamePrefix = ":" /\ noNameCnt = 0 /\ stmts = 0
  BY <1>1 DEF Init, Nothing
<1>2. MaxStmts \in Nat
  BY AnnotMetaAssumption
<1>3. ASSUME Init
      PROVE  IInv
  <2>1. PhaseInv
    BY <1>1, <1>3, Emptiness DEF PhaseInv
  <2>2. CountInv
    <3>1. 0 \in 0 .. MaxStmts /\ 0 \in Nat /\ 0 + 0 <= 0
      BY <1>2
    <3> QED BY <1>1, <1>3, <3>1 DEF CountInv
  <2>3. ParseInv /\ TextInv
    BY <1>1, <1>3 DEF ParseInv, TextInv
  <2>4. PrefixInv
    BY <1>1, <1>3, Emptiness DEF PrefixInv
  <2>5. DeclaredInv
    BY <1>1, <1>3, Emptiness DEF DeclaredInv
  <2> QED BY <2>1, <2>2, <2>3, <2>4, <2>5 DEF IInv
<1> QED BY <1>3

LEMMA NewAnnotMetaInv ==
  ASSUME IInv, NewAnnotMeta
  PROVE  IInv'
<1>1. /\ phase = "idle" /\ stmts < MaxStmts /\ src' \in Statements /\ phase' = "scan"
      /\ stmts' = stmts + 1 /\ i = 0 /\ offset = 0 /\ Nothing
      /\ UNCHANGED <<i, offset, parts, FuncName, ReturnStyle, Args, Envs, BindNamePrefix, noNameCnt>>
  BY DEF NewAnnotMeta, ret, IInv, PhaseInv
<1>2. Len(comments') \in Nat /\ src' \in Texts
  <2>1. IsText(src')
    BY <1>1, AnnotMetaAssumption
  <2>2. comments' \in Seq(ToSet(comments'))
    BY <2>1 DEF IsText, comments
  <2> QED BY <1>1, <2>2 DEF Texts
<1>3. Nothing' /\ 0 \in 0 .. Len(comments')
  <2>1. Nothing'
    BY <1>1 DEF Nothing
  <2>2. 0 \in 0 .. Len(comments')
    BY ONLY <1>2
  <2> QED BY <2>1, <2>2
<1>4. PhaseInv'
  BY <1>1, <1>2, <1>3 DEF PhaseInv
<1>5. CountInv'
  <2>1. stmts \in 0 .. MaxStmts /\ noNameCnt \in Nat /\ noNameCnt + 0 <= stmts /\ MaxStmts \in Nat
    BY <1>1, AnnotMetaAssumption DEF IInv, CountInv
  <2>2. stmts' \in 0 .. MaxStmts /\ noNameCnt' \in Nat /\ noNameCnt' + 1 <= stmts'
    BY <1>1, <2>1
  <2> QED BY <1>1, <2>2 DEF CountInv
<1>6. ParseInv'
  BY <1>1 DEF ParseInv
<1>7. PrefixInv'
  <2>1. SetBefore(i)' = {}
    <3>1. \A c \in 1 .. Len(comments') : ~(c <= 0)
      BY <1>2
    <3> QED BY <1>1, <3>1 DEF SetBefore, Settings
  <2> QED BY <1>1, <2>1 DEF IInv, PrefixInv
<1>8. DeclaredInv'
  BY <1>1 DEF IInv, DeclaredInv, DeclaredType
<1>9. TextInv'
  BY <1>1 DEF TextInv
<1> QED BY <1>4, <1>5, <1>6, <1>7, <1>8, <1>9 DEF IInv

LEMMA SetNext ==
  ASSUME src \in Texts, NEW n \in Nat
  PROVE  /\ SetBefore(n) \in SUBSET (1 .. n)
         /\ n + 1 \in Settings => Max(SetBefore(n + 1)) = n + 1
         /\ n + 1 \notin Settings => SetBefore(n + 1) = SetBefore(n)
         /\ n = Len(comments) => SetBefore(n) = Settings
<1>1. Settings \in SUBSET (1 .. Len(comments)) /\ Len(comments) \in Nat
  BY TextFacts DEF Settings
<1>2. \A c \in Settings : c \in Nat /\ 1 <= c /\ c <= Len(comments)
  BY <1>1
<1>3. \A m \in Nat : SetBefore(m) \in SUBSET (1 .. m)
  BY <1>2 DEF SetBefore
<1>4. \A c \in Settings : c <= n + 1 <=> (c <= n \/ c = n + 1)
  BY <1>2
<1>5. ASSUME n + 1 \in Settings
      PROVE  Max(SetBefore(n + 1)) = n + 1
  <2>1. n + 1 \in SetBefore(n + 1) /\ n + 1 \in Nat /\ SetBefore(n + 1) \in SUBSET (1 .. n + 1)
    BY <1>3, <1>5 DEF SetBefore
  <2>2. SetBefore(n + 1) \in SUBSET (0 .. n + 1) /\ SetBefore(n + 1) # {}
    BY <2>1
  <2>3. Max(SetBefore(n + 1)) \in SetBefore(n + 1) /\ n + 1 <= Max(SetBefore(n + 1))
    BY <2>1, <2>2, MaxIs
  <2> QED BY <2>1, <2>3
<1>6. n = Len(comments) => SetBefore(n) = Settings
  BY <1>2 DEF SetBefore
<1>7. n + 1 \notin Settings => SetBefore(n + 1) = SetBefore(n)
  BY <1>4 DEF SetBefore
<1> QED BY <1>3, <1>5, <1>6, <1>7

LEMMA ParseCommentInv ==
  ASSUME IInv, ParseComment
  PROVE  IInv'
<1>1. PICK n : n = i + 1
  OBVIOUS
<1>2. /\ phase = "scan" /\ i < Len(comments) /\ i' = n
      /\ BindNamePrefix' = Setting(comments[n])
      /\ phase' = (IF Parses(comments[n]) THEN "scan" ELSE "failed")
      /\ UNCHANGED <<src, offset, parts, FuncName, ReturnStyle, Args, Envs, noNameCnt, stmts>>
  BY <1>1 DEF ParseComment, ret
<1>3. src \in Texts /\ i \in 0 .. Len(comments) /\ offset = 0 /\ Nothing
  BY <1>2 DEF IInv, PhaseInv
<1>4. Len(comments) \in Nat /\ i \in Nat
  <2>1. Len(comments) \in Nat
    BY <1>3, TextFacts
  <2> QED BY <1>3, <2>1
<1>5. n \in 1 .. Len(comments) /\ n \in 0 .. End /\ 0 \in 0 .. Len(comments) /\ n \in Nat
  BY ONLY <1>1, <1>2, <1>4 DEF End
<1>6. comments' = comments /\ Settings' = Settings /\ End' = End
  BY <1>2, DeclaredFrame DEF End
<1>7. Nothing' /\ phase' \in {"scan", "failed"}
  BY <1>2, <1>3 DEF Nothing
<1>8. PhaseInv'
  <2>1. n \in 0 .. Len(comments)
    BY ONLY <1>4, <1>5
  <2> QED BY <1>2, <1>3, <1>5, <1>6, <1>7, <2>1 DEF PhaseInv
<1>9. CountInv'
  BY <1>2, <1>7 DEF IInv, CountInv
<1>10. ParseInv'
  <2>1. CASE Parses(comments[n])
    <3>1. \A c \in 1 .. i : Parses(comments[c])
      BY <1>2 DEF IInv, ParseInv
    <3>2. \A c \in 1 .. n : c = n \/ c \in 1 .. i
      BY ONLY <1>1, <1>4
    <3>3. \A c \in 1 .. n : Parses(comments[c])
      BY <2>1, <3>1, <3>2
    <3> QED BY <1>2, <1>6, <2>1, <3>3 DEF ParseInv
  <2>2. CASE ~Parses(comments[n])
    BY <1>2, <1>5, <1>6, <2>2 DEF ParseInv
  <2> QED BY <2>1, <2>2
<1>11. PrefixInv'
  <2>1. BindNamePrefix' \in BindPrefixes
    BY <1>2, <1>3, <1>5, SettingFacts DEF IInv, PrefixInv
  <2>2. CASE n \in Settings
    <3>1. BindNamePrefix' = Option(comments[n], "bindNamePrefix")
      BY <1>2, <2>2 DEF Settings, Setting, Option
    <3>2. Max(SetBefore(n)) = n
      BY <1>1, <1>3, <1>4, <2>2, SetNext
    <3>3. Max(SetBefore(n)) = n /\ SetBefore(n)' = SetBefore(n)
      BY <1>6, <3>2 DEF SetBefore
    <3>4. phase' = "scan" => BindNamePrefix' = Option(comments[Max(SetBefore(i))], "bindNamePrefix")'
      BY <1>2, <1>6, <3>1, <3>3 DEF SetBefore
    <3> QED BY <1>7, <2>1, <3>4 DEF PrefixInv
  <2>3. CASE n \notin Settings
    <3>1. BindNamePrefix' = BindNamePrefix
      BY <1>2, <1>5, <2>3 DEF Settings, Setting
    <3>2. PICK m : m = i
      OBVIOUS
    <3>3. SetBefore(n) = SetBefore(m)
      BY <1>1, <1>3, <1>4, <2>3, <3>2, SetNext
    <3>4. SetBefore(m) # {} => BindNamePrefix = Option(comments[Max(SetBefore(m))], "bindNamePrefix")
      BY <1>2, <3>2 DEF IInv, PrefixInv
    <3>5. SetBefore(i)' = SetBefore(n)
      BY <1>2, <1>6 DEF SetBefore
    <3> QED BY <1>6, <1>7, <2>1, <3>1, <3>3, <3>4, <3>5 DEF PrefixInv
  <2> QED BY <2>2, <2>3
<1>12. DeclaredInv'
  BY <1>2, <1>7 DEF IInv, DeclaredInv, DeclaredType
<1>13. TextInv'
  BY <1>7 DEF TextInv
<1> QED BY <1>8, <1>9, <1>10, <1>11, <1>12, <1>13 DEF IInv

LEMMA ScannedInv ==
  ASSUME IInv, Scanned
  PROVE  IInv'
<1>1. /\ phase = "scan" /\ i = Len(comments) /\ phase' = "gather" /\ i' = 1
      /\ UNCHANGED <<src, offset, parts, FuncName, ReturnStyle, Args, Envs, BindNamePrefix, noNameCnt, stmts>>
  BY DEF Scanned, ret
<1>2. src \in Texts /\ offset = 0 /\ Nothing
  BY <1>1 DEF IInv, PhaseInv
<1>3. Len(comments) \in Nat /\ 1 \in 1 .. End /\ 0 = 1 - 1
  <2>1. Len(comments) \in Nat
    BY <1>2, TextFacts
  <2> QED BY <2>1 DEF End
<1>4. comments' = comments /\ Settings' = Settings /\ End' = End
  BY <1>1, DeclaredFrame DEF End
<1>5. PhaseInv'
  BY <1>1, <1>2, <1>3, <1>4 DEF PhaseInv
<1>6. CountInv'
  BY <1>1 DEF IInv, CountInv
<1>7. ParseInv'
  <2>1. ~Encloses(1)'
    <3>1. Starts(1)' = {0}
      BY DEF Starts
    <3>2. Max({0}) = 0
      <4>1. {0} \in SUBSET (0 .. 0) /\ {0} # {} /\ 0 \in Nat
        OBVIOUS
      <4>2. Max({0}) \in {0}
        BY <4>1, MaxIs
      <4> QED BY <4>2
    <3>3. (1 - 1 - 0) % 2 # 1
      OBVIOUS
    <3> QED BY <3>1, <3>2, <3>3 DEF Encloses, Starts
  <2>2. ~Encloses(i)'
    BY <1>1, <2>1 DEF Encloses
  <2>3. \A c \in 1 .. Len(comments) : Parses(comments[c])
    BY <1>1 DEF IInv, ParseInv
  <2> QED BY <1>1, <1>4, <2>2, <2>3 DEF ParseInv
<1>8. PrefixInv'
  BY <1>1, <1>4 DEF IInv, PrefixInv, SetBefore
<1>9. DeclaredInv'
  <2>1. \A type : Upto(type, 0) = {}
    BY <1>2, UptoNext
  <2>2. /\ Args = <<>> /\ Envs = <<>> /\ FuncName = "" /\ ReturnStyle = ""
    BY <1>2 DEF Nothing
  <2>3. HasArgs(0)
    <3>1. Cardinality({}) = 0
      BY FS_EmptySet
    <3>2. Upto("arg", 0) = {}
      BY <2>1
    <3>3. PICK a : a = Args
      OBVIOUS
    <3> DEFINE e == [k \in 1 .. 0 |->
                      LET c == comments[Nth(Upto("arg", 0), k)]
                      IN  [name |-> Name(c), type |-> Option(c, "type")]]
    <3>4. a = e
      <4>1. e = [k \in 1 .. 0 |-> e[k]]
        OBVIOUS
      <4> HIDE DEF e
      <4> QED BY <2>2, <3>3, <4>1, NoElements
    <3> QED BY <3>1, <3>2, <3>3, <3>4 DEF HasArgs
  <2>4. HasFunc(0)
    BY <2>1, <2>2 DEF HasFunc
  <2>5. HasEnvs(0)
    <3>1. Upto("env", 0) = {} /\ DOMAIN Envs = {}
      <4>1. PICK e : e = Envs
        OBVIOUS
      <4> QED BY <2>1, <2>2, <4>1, NoElements
    <3> QED BY <3>1 DEF HasEnvs, Given
  <2>6. HasArgs(0)' /\ HasFunc(0)' /\ HasEnvs(0)'
    BY <1>1, <2>3, <2>4, <2>5, DeclaredFrame
  <2>7. Declared(i - 1)'
    <3>1. i' - 1 = 0
      BY <1>1
    <3> QED BY <2>6, <3>1 DEF Declared, HasArgs, HasFunc, HasEnvs, Upto
  <2>8. DeclaredType'
    BY <1>1 DEF IInv, DeclaredInv, DeclaredType
  <2> QED BY <2>7, <2>8 DEF DeclaredInv
<1>10. TextInv'
  <2>1. Block(<<>>, 0, 0)
    <3>1. ASSUME NEW x, Item(x)
          PROVE  ~(0 <= x.at /\ x.at < 0)
      <4>1. x.at \in Nat
        BY <1>2, <3>1, ItemFacts
      <4> QED BY ONLY <4>1
    <3> QED BY <3>1, EmptyBlock
  <2>2. Block(<<>>, 0, 0)'
    BY <1>1, <2>1, TextFrame
  <2>3. parts' = <<>> /\ (2 * offset)' = 0
    <3>1. parts' = <<>> /\ offset' = 0
      BY <1>1, <1>2 DEF Nothing
    <3> QED BY ONLY <3>1
  <2>4. Block(parts, 0, 2 * offset)'
    BY <2>2, <2>3 DEF Block, InOrder
  <2> QED BY <1>1, <2>4 DEF TextInv
<1> QED BY <1>5, <1>6, <1>7, <1>8, <1>9, <1>10 DEF IInv

LEMMA ReturnInv ==
  ASSUME IInv, Return
  PROVE  IInv'
<1>1. /\ phase = "gather" /\ i = End /\ phase' = "done"
      /\ parts' = Trim(parts \o Slice(offset, End))
      /\ noNameCnt' = (IF FuncName = "" THEN noNameCnt + 1 ELSE noNameCnt)
      /\ UNCHANGED <<src, i, offset, FuncName, ReturnStyle, Args, Envs, BindNamePrefix, stmts>>
  BY DEF Return
<1>2. src \in Texts /\ offset = i - 1 /\ ~Encloses(i)
  BY <1>1 DEF IInv, PhaseInv, ParseInv
<1>3. Len(comments) \in Nat /\ End = Len(comments) + 1 /\ offset = Len(comments)
  <2>1. Len(comments) \in Nat
    BY <1>2, TextFacts
  <2>2. End = Len(comments) + 1
    BY DEF End
  <2>3. offset = (Len(comments) + 1) - 1
    BY <1>1, <1>2, <2>2
  <2> QED BY ONLY <2>1, <2>2, <2>3
<1>4. /\ comments' = comments /\ Settings' = Settings /\ End' = End
      /\ \A type : Of(type)' = Of(type)
  BY <1>1, DeclaredFrame DEF End
<1>5. PhaseInv'
  BY <1>1, <1>2, <1>3, <1>4 DEF PhaseInv
<1>6. CountInv'
  <2>1. /\ stmts \in 0 .. MaxStmts /\ noNameCnt \in Nat /\ noNameCnt + 1 <= stmts
        /\ noNameCnt' \in {noNameCnt, noNameCnt + 1}
    BY <1>1 DEF IInv, CountInv
  <2>2. noNameCnt \in Nat /\ noNameCnt + 1 <= stmts /\ stmts \in Int
    <3>1. MaxStmts \in Nat
      BY AnnotMetaAssumption
    <3> QED BY ONLY <2>1, <3>1
  <2>3. noNameCnt' \in Nat /\ noNameCnt' + 0 <= stmts
    <3>1. PICK c : c = noNameCnt'
      OBVIOUS
    <3>2. c \in {noNameCnt, noNameCnt + 1}
      BY <2>1, <3>1
    <3>3. c \in Nat /\ c + 0 <= stmts
      BY ONLY <2>2, <3>2
    <3> QED BY <3>1, <3>3
  <2> QED BY <1>1, <2>1, <2>3 DEF CountInv
<1>7. ParseInv'
  <2>1. PICK c : c = Len(comments)
    OBVIOUS
  <2>2. ASSUME c \in Of("bind")
        PROVE  FALSE
    <3>1. c \in 1 .. Len(comments) /\ IsBind(c) /\ ~Encloses(c)
      BY <2>2 DEF Of, Active, IsBind
    <3>2. c \in Nat \ {0}
      BY ONLY <1>3, <3>1
    <3>3. Encloses(c + 1)
      BY <3>1, <3>2, Enclosing
    <3> QED BY <1>1, <1>2, <1>3, <2>1, <3>3
  <2>3. \A d \in 1 .. Len(comments) : Parses(comments[d])
    BY <1>1 DEF IInv, ParseInv
  <2> QED BY <1>1, <1>4, <2>1, <2>2, <2>3 DEF ParseInv
<1>8. PrefixInv'
  BY <1>1, <1>4 DEF IInv, PrefixInv, SetBefore
<1>9. DeclaredInv'
  <2>1. PICK n : n = i - 1
    OBVIOUS
  <2>2. HasArgs(n) /\ HasFunc(n) /\ HasEnvs(n) /\ DeclaredType
    BY <1>1, <2>1 DEF IInv, DeclaredInv, Declared
  <2>3. HasArgs(n)' /\ HasFunc(n)' /\ HasEnvs(n)'
    BY <1>1, <2>2, DeclaredFrame
  <2>4. Declared(i - 1)'
    <3>1. i' - 1 = n
      BY <1>1, <2>1
    <3> QED BY <2>3, <3>1 DEF Declared, HasArgs, HasFunc, HasEnvs, Upto
  <2>5. DeclaredType'
    BY <1>1, <2>2 DEF DeclaredType
  <2> QED BY <2>4, <2>5 DEF DeclaredInv
<1>10. TextInv'
  <2>1. PICK s : s = parts \o Slice(offset, End)
    OBVIOUS
  <2>2. PICK e : e = End
    OBVIOUS
  <2>3. Block(s, 0, 2 * e - 1)
    BY <1>1, <2>1, <2>2, GatherText
  <2>4. ASSUME NEW x, Item(x)
        PROVE  ~(2 * e - 1 <= x.at /\ x.at < 2 * e)
    <3>1. x.at < 2 * Len(comments) + 1
      <4>1. 0 \in 0 .. Len(comments)
        BY ONLY <1>3
      <4> QED BY <1>2, <2>4, <4>1, ItemIs
    <3>2. x.at \in Nat
      BY <1>2, <2>4, ItemFacts
    <3> QED BY ONLY <1>3, <2>2, <3>1, <3>2
  <2>5. 0 \in Int /\ 2 * e - 1 \in Int /\ 2 * e \in Int /\ 0 <= 2 * e - 1 /\ 2 * e - 1 <= 2 * e
    BY ONLY <1>3, <2>2
  <2>6. Block(s, 0, 2 * e)
    <3>1. src \in Texts
      BY <1>2
    <3> QED BY ONLY <2>3, <2>4, <2>5, <3>1, BlockWider
  <2>7. Block(s, 0, 2 * e)'
    BY <1>1, <2>6, TextFrame
  <2>8. Block(s, 0, 2 * End)'
    <3>1. End' = e
      BY <1>4, <2>2
    <3> QED BY <2>7, <3>1 DEF Block, InOrder
  <2>9. parts' = Trim(s)
    BY <1>1, <2>1
  <2> QED BY <1>1, <2>8, <2>9 DEF TextInv
<1> QED BY <1>5, <1>6, <1>7, <1>8, <1>9, <1>10 DEF IInv

LEMMA RenderInv ==
  ASSUME IInv, Render
  PROVE  IInv'
<1>1. /\ phase = "done" /\ src' = NoText /\ phase' = "idle" /\ i' = 0 /\ offset' = 0 /\ Nothing'
      /\ UNCHANGED <<BindNamePrefix, noNameCnt, stmts>>
  BY DEF Render, Nothing
<1>2. PhaseInv'
  BY <1>1, Emptiness DEF PhaseInv
<1>3. CountInv'
  BY <1>1 DEF IInv, CountInv
<1>4. ParseInv' /\ TextInv'
  BY <1>1 DEF ParseInv, TextInv
<1>5. PrefixInv'
  BY <1>1 DEF IInv, PrefixInv
<1>6. DeclaredInv'
  <2>1. DeclaredType'
    <3>1. FuncName' = "" /\ ReturnStyle' = "" /\ Args' = <<>>
      BY <1>1 DEF Nothing
    <3>2. PICK a : a = Args'
      OBVIOUS
    <3>3. 1 .. Len(Args') = {} /\ \E S : Args' \in Seq(S)
      BY <3>1, <3>2, NoElements
    <3> QED BY <3>1, <3>3 DEF DeclaredType
  <2> QED BY <1>1, <2>1 DEF DeclaredInv
<1> QED BY <1>2, <1>3, <1>4, <1>5, <1>6 DEF IInv

LEMMA StutterInv ==
  ASSUME IInv, UNCHANGED vars
  PROVE  IInv'
<1>1. UNCHANGED <<src, phase, i, offset, parts, FuncName, ReturnStyle, Args, Envs, BindNamePrefix, noNameCnt, stmts>>
  BY DEF vars, ret
<1>2. /\ comments' = comments /\ Settings' = Settings /\ End' = End
      /\ \A type : Of(type)' = Of(type)
  BY <1>1, DeclaredFrame DEF End
<1>3. PhaseInv' /\ CountInv' /\ PrefixInv'
  BY <1>1, <1>2 DEF IInv, PhaseInv, CountInv, PrefixInv, SetBefore, Nothing
<1>4. ParseInv'
  BY <1>1, <1>2 DEF IInv, ParseInv, Encloses, IsBind
<1>5. DeclaredInv'
  BY <1>1, <1>2 DEF IInv, DeclaredInv, DeclaredType, Declared, HasArgs, HasFunc, HasEnvs, Upto
<1>6. TextInv'
  <2>1. PICK p, a, e : p = parts /\ a = 2 * offset /\ e = 2 * End
    OBVIOUS
  <2>2. \A s : /\ Block(s, 0, a)' <=> Block(s, 0, a)
               /\ Block(s, 0, e)' <=> Block(s, 0, e)
    BY <1>1, TextFrame
  <2>3. Block(parts, 0, 2 * offset)' <=> Block(p, 0, a)'
    BY <1>1, <2>1 DEF Block, InOrder
  <2>4. ASSUME NEW s
        PROVE  Block(s, 0, 2 * End)' <=> Block(s, 0, e)'
    <3>1. (2 * End)' = e
      BY <1>2, <2>1
    <3> QED BY <3>1 DEF Block
  <2> QED BY <1>1, <2>1, <2>2, <2>3, <2>4 DEF IInv, TextInv
<1> QED BY <1>3, <1>4, <1>5, <1>6 DEF IInv

THEOREM Invariant == Spec => []IInv
<1>1. IInv /\ [Next]_vars => IInv'
  <2>1. ASSUME IInv, Next
        PROVE  IInv'
    BY <2>1, NewAnnotMetaInv, ParseCommentInv, ScannedInv, SubsAnnotInv, FuncAnnotInv, ArgAnnotInv,
       BindAnnotInv, MissingEnclosureInv, EnvAnnotInv, NoAnnotInv, ReturnInv, RenderInv DEF Next
  <2> QED BY <2>1, StutterInv
<1> QED BY InitInv, <1>1, PTL DEF Spec

-----------------------------------------------------------------------------
(* What the invariant shows.                                               *)

\* The state of every run is of its type: the slice that is copied next begins
\* where the last comment ended, and no more numbers are given than there are
\* statements (annots.go:243, 274).
THEOREM TypeCorrect == Spec => []TypeOK
<1>1. ASSUME IInv
      PROVE  TypeOK
  <2>1. src \in Texts
    BY <1>1 DEF IInv, PhaseInv
  <2>2. Len(comments) \in Nat /\ Len(src.pieces) = End /\ End = Len(comments) + 1
    BY <2>1, TextFacts DEF End
  <2>3. phase \in {"idle", "scan", "gather", "done", "failed"} /\ (phase = "gather" => offset = i - 1)
    BY <1>1 DEF IInv, PhaseInv
  <2>4. i \in 0 .. End /\ offset \in 0 .. Len(comments)
    <3>1. CASE phase = "idle"
      <4>1. i = 0 /\ offset = 0
        BY <1>1, <3>1 DEF IInv, PhaseInv
      <4> QED BY ONLY <2>2, <4>1
    <3>2. CASE phase = "scan"
      <4>1. i \in 0 .. Len(comments) /\ offset = 0
        BY <1>1, <3>2 DEF IInv, PhaseInv
      <4> QED BY ONLY <2>2, <4>1
    <3>3. CASE phase = "gather"
      <4>1. i \in 1 .. End /\ offset = i - 1
        BY <1>1, <3>3 DEF IInv, PhaseInv
      <4> QED BY ONLY <2>2, <4>1
    <3>4. CASE phase = "done"
      <4>1. i = End /\ offset = Len(comments)
        BY <1>1, <3>4 DEF IInv, PhaseInv
      <4> QED BY ONLY <2>2, <4>1
    <3>5. CASE phase = "failed"
      BY <1>1, <3>5 DEF IInv, PhaseInv
    <3> QED BY <2>3, <3>1, <3>2, <3>3, <3>4, <3>5
  <2>5. stmts \in 0 .. MaxStmts /\ noNameCnt \in 0 .. stmts
    <3>1. stmts \in 0 .. MaxStmts /\ noNameCnt \in Nat /\ (noNameCnt + 1 <= stmts \/ noNameCnt + 0 <= stmts)
      BY <1>1 DEF IInv, CountInv
    <3>2. MaxStmts \in Nat
      BY AnnotMetaAssumption
    <3> QED BY ONLY <3>1, <3>2
  <2> QED BY <1>1, <2>2, <2>3, <2>4, <2>5 DEF TypeOK, IInv, DeclaredInv, DeclaredType
<1> QED BY <1>1, Invariant, PTL

\* A text that is refused has a comment whose annotation is not well formed, or a
\* binding that nothing encloses, and a text that has one never comes out
\* (annots.go:231, 261).
THEOREM RefusedOnlyForCause == Spec => []RefusedForCause
<1>1. IInv => RefusedForCause
  BY DEF IInv, ParseInv, RefusedForCause
<1> QED BY <1>1, Invariant, PTL

\* Whatever annotations a text has, all of them are gathered that do not end a
\* binding: the arguments in order, the last function, the last value of each
\* key of the environment (annots.go:246-272).
THEOREM AllGathered == Spec => []Gathered
<1>1. ASSUME IInv
      PROVE  Gathered
  <2>1. SUFFICES ASSUME phase = "done"
                 PROVE  /\ Args = [n \in 1 .. Cardinality(Of("arg")) |->
                                     LET c == comments[Nth(Of("arg"), n)]
                                     IN  [name |-> Name(c), type |-> Option(c, "type")]]
                        /\ IF Of("func") = {} THEN FuncName = "" /\ ReturnStyle = ""
                           ELSE LET c == comments[Max(Of("func"))]
                                IN  FuncName = Name(c) /\ ReturnStyle = Option(c, "return")
                        /\ \A k \in DOMAIN Envs \union UNION {DOMAIN Options(comments[c]) : c \in Of("env")} :
                             LET given == {c \in Of("env") : k \in DOMAIN Options(comments[c])}
                             IN  given # {} /\ Envs[k] = Options(comments[Max(given)])[k]
    BY DEF Gathered
  <2>2. src \in Texts /\ i = End
    BY <1>1, <2>1 DEF IInv, PhaseInv
  <2>3. PICK L \in Nat : L = Len(comments) /\ L = i - 1
    <3>1. Len(comments) \in Nat /\ End = Len(comments) + 1
      BY <2>2, TextFacts DEF End
    <3> QED BY <2>2, <3>1
  <2>4. HasArgs(L) /\ HasFunc(L) /\ HasEnvs(L)
    BY <1>1, <2>1, <2>3 DEF IInv, DeclaredInv, Declared
  <2>5. ASSUME NEW type
        PROVE  Upto(type, L) = Of(type) /\ Of(type) \in SUBSET (0 .. L)
    <3>1. Upto(type, L) = Of(type) /\ Of(type) \in SUBSET (1 .. L)
      BY <2>2, <2>3, UptoNext
    <3> QED BY <2>3, <3>1
  <2>6. Args = [n \in 1 .. Cardinality(Of("arg")) |->
                  LET c == comments[Nth(Of("arg"), n)]
                  IN  [name |-> Name(c), type |-> Option(c, "type")]]
    BY <2>4, <2>5 DEF HasArgs
  <2>7. IF Of("func") = {} THEN FuncName = "" /\ ReturnStyle = ""
        ELSE LET c == comments[Max(Of("func"))]
             IN  FuncName = Name(c) /\ ReturnStyle = Option(c, "return")
    <3>1. CASE Of("func") = {}
      BY <2>4, <2>5, <3>1 DEF HasFunc
    <3>2. CASE Of("func") # {}
      <4>1. PICK c \in Of("func") :
              /\ \A d \in Of("func") : d <= c
              /\ FuncName = Name(comments[c]) /\ ReturnStyle = Option(comments[c], "return")
        BY <2>4, <2>5, <3>2 DEF HasFunc
      <4>2. Max(Of("func")) \in Of("func") /\ \A d \in Of("func") : d <= Max(Of("func"))
        BY <2>5, <3>2, MaxIs
      <4>3. Max(Of("func")) = c
        <5>1. \A d \in Of("func") : d \in Nat
          BY <2>5
        <5> QED BY ONLY <4>1, <4>2, <5>1
      <4> QED BY <3>2, <4>1, <4>3
    <3> QED BY <3>1, <3>2
  <2>8. ASSUME NEW k \in DOMAIN Envs \union UNION {DOMAIN Options(comments[c]) : c \in Of("env")}
        PROVE  LET given == {c \in Of("env") : k \in DOMAIN Options(comments[c])}
               IN  given # {} /\ Envs[k] = Options(comments[Max(given)])[k]
    <3> DEFINE given == {c \in Of("env") : k \in DOMAIN Options(comments[c])}
    <3>1. Given(Envs, comments, Of("env"))
      BY <2>4, <2>5 DEF HasEnvs
    <3>2. k \in DOMAIN Envs
      BY <2>8, <3>1 DEF Given
    <3>3. PICK c \in Of("env") :
            /\ k \in DOMAIN Options(comments[c]) /\ Envs[k] = Options(comments[c])[k]
            /\ \A d \in Of("env") : k \in DOMAIN Options(comments[d]) => d <= c
      BY <3>1, <3>2 DEF Given
    <3>4. c \in given /\ given \in SUBSET (0 .. L) /\ \A d \in given : d <= c
      BY <2>5, <3>3
    <3>5. Max(given) = c
      <4> HIDE DEF given
      <4>1. given # {}
        BY <3>4
      <4>2. Max(given) \in given /\ \A d \in given : d <= Max(given)
        BY <3>4, <4>1, MaxIs
      <4>3. \A d \in given : d \in Nat
        BY <3>4
      <4>4. PICK h : h = Max(given)
        OBVIOUS
      <4>5. h \in Nat /\ c \in Nat /\ c <= h /\ h <= c
        BY <3>4, <4>2, <4>3, <4>4
      <4>6. h = c
        BY ONLY <4>5
      <4> QED BY <4>4, <4>6
    <3> QED BY <3>3, <3>4, <3>5
  <2> QED BY <2>6, <2>7, <2>8
<1> QED BY <1>1, Invariant, PTL

\* What Trim leaves is all from one index to another, outside of which are gaps.
Trimmed(s, t, lo, hi) ==
  /\ 1 <= lo /\ lo <= hi + 1 /\ hi <= Len(s)
  /\ Len(t) = hi + 1 - lo
  /\ \A m \in 1 .. Len(t) : lo + m - 1 \in 1 .. Len(s) /\ t[m] = s[lo + m - 1]
  /\ \A m \in 1 .. Len(s) : m < lo \/ hi < m => s[m].is = "gap"
  /\ t # <<>> => s[lo].is # "gap" /\ s[hi].is # "gap"

LEMMA Trimming ==
  ASSUME NEW S, NEW s \in Seq(S)
  PROVE  Trim(s) \in Seq(S) /\ \E lo \in Nat, hi \in Nat : Trimmed(s, Trim(s), lo, hi)
<1> DEFINE kept == {m \in 1 .. Len(s) : s[m].is # "gap"}
           L == Len(s)
<1>1. L \in Nat
  OBVIOUS
<1>2. CASE kept = {}
  <2>1. Trim(s) = <<>>
    BY <1>2 DEF Trim
  <2>2. Len(<<>>) = 0 /\ <<>> \in Seq(S) /\ 1 .. 0 = {}
    OBVIOUS
  <2>3. \A m \in 1 .. Len(s) : s[m].is = "gap"
    BY <1>2
  <2>4. /\ 1 \in Nat /\ 0 \in Nat /\ 1 <= 1 /\ 1 <= 0 + 1 /\ 0 <= Len(s) /\ 0 = 0 + 1 - 1
    BY ONLY <1>1
  <2>5. Trimmed(s, Trim(s), 1, 0)
    BY <2>1, <2>2, <2>3, <2>4 DEF Trimmed
  <2> QED BY <2>1, <2>2, <2>4, <2>5
<1>3. CASE kept # {}
  <2> DEFINE lo == Min(kept)
             hi == Max(kept)
  <2>1. kept \in SUBSET (0 .. L) /\ kept \in SUBSET Nat /\ kept \in SUBSET (1 .. L)
    BY <1>1
  <2>2. /\ lo \in kept /\ \A m \in kept : lo <= m
        /\ hi \in kept /\ \A m \in kept : m <= hi
    <3> HIDE DEF kept
    <3> QED BY <1>1, <1>3, <2>1, MinIs, MaxIs
  <2>3. Trim(s) = SubSeq(s, lo, hi)
    BY <1>3, Zenon DEF Trim
  <2>4. s[lo].is # "gap" /\ s[hi].is # "gap"
    BY <2>2
  <2>5. ASSUME NEW m \in 1 .. Len(s), s[m].is # "gap"
        PROVE  lo <= m /\ m <= hi
    <3>1. m \in kept
      BY <2>5
    <3> HIDE DEF kept
    <3> QED BY <2>2, <3>1
  <2>6. lo \in 1 .. L /\ hi \in 1 .. L /\ lo <= hi
    <3> HIDE DEF kept
    <3> QED BY <2>1, <2>2
  <2> HIDE DEF lo, hi, L
  <2>7. /\ Trim(s) \in Seq(S) /\ Len(Trim(s)) = hi + 1 - lo
        /\ \A m \in 1 .. hi + 1 - lo : Trim(s)[m] = s[lo + m - 1] /\ lo + m - 1 \in 1 .. L
    <3>1. lo \in 1 .. Len(s) /\ hi \in 1 .. Len(s) /\ Len(s) \in Nat
      BY <1>1, <2>6 DEF L
    <3>2. SubSeq(s, lo, hi) \in Seq(S) /\ Len(SubSeq(s, lo, hi)) = hi + 1 - lo
      BY <2>6, <3>1
    <3>3. \A m \in 1 .. hi + 1 - lo : SubSeq(s, lo, hi)[m] = s[lo + m - 1] /\ lo + m - 1 \in 1 .. Len(s)
      BY <2>6, <3>1
    <3> QED BY <2>3, <3>2, <3>3 DEF L
  <2>8. /\ lo \in Nat /\ hi \in Nat /\ 1 <= lo /\ lo <= hi + 1 /\ hi <= L
    BY ONLY <1>1, <2>6
  <2>9. \A m \in 1 .. Len(s) : m < lo \/ hi < m => s[m].is = "gap"
    <3>1. \A m \in 1 .. Len(s) : (m < lo => ~(lo <= m)) /\ (hi < m => ~(m <= hi))
      BY <2>6
    <3> QED BY <2>5, <3>1
  <2>10. Trimmed(s, Trim(s), lo, hi)
    BY <2>4, <2>7, <2>8, <2>9 DEF L, Trimmed
  <2> QED BY <2>7, <2>8, <2>10
<1> QED BY <1>2, <1>3

\* All placeholders begin with the last prefix that the text sets, wherever in it
\* the setting stands, or with that of an earlier text if it sets none
\* (annots.go:32, 263).
THEOREM OnePrefixUsed == Spec => []OnePrefix
<1>1. ASSUME IInv, phase \in {"gather", "done"}, Settings # {}
      PROVE  BindNamePrefix = Option(comments[Max(Settings)], "bindNamePrefix")
  <2>1. src \in Texts
    BY <1>1 DEF IInv, PhaseInv
  <2>2. PICK L \in Nat : L = Len(comments)
    BY <2>1, TextFacts
  <2>3. SetBefore(L) = Settings
    BY <2>1, <2>2, SetNext
  <2> QED BY <1>1, <2>2, <2>3 DEF IInv, PrefixInv
<1>2. ASSUME src \in Texts, NEW x, Item(x), x.at % 2 = 1, IsBind((x.at + 1) \div 2)
      PROVE  x.is = BindNamePrefix \o Name(comments[(x.at + 1) \div 2])
  <2>1. CASE \E c \in 0 .. Len(comments) : \E m \in 1 .. Len(src.pieces[c + 1]) : x = PieceItem(c, m)
    <3>1. PICK c \in 0 .. Len(comments) : x.at = 2 * c
      BY <2>1 DEF PieceItem
    <3>2. c \in Nat
      <4>1. Len(comments) \in Nat
        BY <1>2, TextFacts
      <4> QED BY ONLY <4>1
    <3> QED BY <1>2, <3>1, <3>2, Doubling
  <2>2. ASSUME NEW c \in 1 .. Len(comments), x.at = 2 * c - 1
        PROVE  (x.at + 1) \div 2 = c
    <3>1. c \in Nat /\ c # 0
      <4>1. Len(comments) \in Nat
        BY <1>2, TextFacts
      <4> QED BY ONLY <4>1
    <3> QED BY <2>2, <3>1, Doubling
  <2>3. ASSUME NEW c \in Of("bind"),
               x = [at |-> 2 * c - 1, n |-> 1, is |-> BindNamePrefix \o Name(comments[c])]
        PROVE  x.is = BindNamePrefix \o Name(comments[(x.at + 1) \div 2])
    BY <2>2, <2>3, OfFacts
  <2>4. ASSUME NEW c \in Of("subs"), x = [at |-> 2 * c - 1, n |-> 1, is |-> comments[c].content]
        PROVE  FALSE
    <3>1. (x.at + 1) \div 2 = c /\ Type(comments[c]) = "subs"
      BY <2>2, <2>4, OfFacts
    <3> QED BY <1>2, <3>1 DEF IsBind
  <2> QED BY <1>2, <2>1, <2>3, <2>4 DEF Item
<1>3. ASSUME IInv, phase \in {"gather", "done"}
      PROVE  \A m \in 1 .. Len(parts) : Item(parts[m])
  <2>1. CASE phase = "gather"
    BY <1>3, <2>1 DEF IInv, TextInv, Block
  <2>2. CASE phase = "done"
    <3>1. PICK s : Block(s, 0, 2 * End) /\ parts = Trim(s)
      BY <1>3, <2>2 DEF IInv, TextInv
    <3>2. PICK S : s \in Seq(S)
      BY <3>1 DEF Block
    <3>3. \A m \in 1 .. Len(Trim(s)) : \E l \in 1 .. Len(s) : Trim(s)[m] = s[l]
      <4>1. PICK lo \in Nat, hi \in Nat : Trimmed(s, Trim(s), lo, hi)
        BY <3>2, Trimming
      <4>2. \A m \in 1 .. Len(Trim(s)) : lo + m - 1 \in 1 .. Len(s) /\ Trim(s)[m] = s[lo + m - 1]
        BY <4>1 DEF Trimmed
      <4> QED BY <4>2
    <3> QED BY <3>1, <3>3 DEF Block
  <2> QED BY <1>3, <2>1, <2>2
<1>4. IInv => OnePrefix
  <2>1. IInv => src \in Texts
    BY DEF IInv, PhaseInv
  <2> QED BY <1>1, <1>2, <1>3, <2>1 DEF OnePrefix
<1> QED BY <1>4, Invariant, PTL

\* The items of a text are at the places of what is kept of it.
LEMMA ItemsKept ==
  ASSUME src \in Texts
  PROVE  /\ \A x : Item(x) => Place(x) \in KeptItems
         /\ \A p \in KeptItems : \E x : Item(x) /\ Place(x) = p
<1> DEFINE C == {d \in 0 .. Len(comments) : d = 0 \/ d \notin Of("bind")}
           D == {d \in Of("subs") : comments[d].content # ""}
           A == UNION {{<<2 * c, m>> : m \in 1 .. Len(src.pieces[c + 1])} : c \in C}
           B == {<<2 * c - 1, 1>> : c \in Of("bind")}
           E == {<<2 * c - 1, 1>> : c \in D}
<1>1. KeptItems = A \union B \union E
  BY DEF KeptItems
<1>2. ASSUME NEW x, Item(x)
      PROVE  Place(x) \in A \union B \union E
  <2>1. ASSUME NEW c \in C, NEW m \in 1 .. Len(src.pieces[c + 1]), x = PieceItem(c, m)
        PROVE  Place(x) \in A
    <3>1. Place(x) = <<2 * c, m>>
      BY <2>1 DEF Place, PieceItem
    <3>2. <<2 * c, m>> \in {<<2 * c, k>> : k \in 1 .. Len(src.pieces[c + 1])}
      OBVIOUS
    <3> QED BY <3>1, <3>2
  <2>2. ASSUME NEW c \in Of("bind"),
               x = [at |-> 2 * c - 1, n |-> 1, is |-> BindNamePrefix \o Name(comments[c])]
        PROVE  Place(x) \in B
    <3>1. Place(x) = <<2 * c - 1, 1>>
      BY <2>2 DEF Place
    <3> QED BY <3>1
  <2>3. ASSUME NEW c \in Of("subs"), comments[c].content # "",
               x = [at |-> 2 * c - 1, n |-> 1, is |-> comments[c].content]
        PROVE  Place(x) \in E
    <3>1. Place(x) = <<2 * c - 1, 1>> /\ c \in D
      BY <2>3 DEF Place
    <3> QED BY <3>1
  <2> HIDE DEF A, B, E
  <2> QED BY <1>2, <2>1, <2>2, <2>3 DEF Item
<1>3. ASSUME NEW p \in A \union B \union E
      PROVE  \E x : Item(x) /\ Place(x) = p
  <2>1. CASE p \in A
    <3>1. PICK c \in C : p \in {<<2 * c, m>> : m \in 1 .. Len(src.pieces[c + 1])}
      BY <2>1
    <3>2. PICK m \in 1 .. Len(src.pieces[c + 1]) : p = <<2 * c, m>>
      BY <3>1
    <3>3. Place(PieceItem(c, m)) = p
      BY <3>2 DEF Place, PieceItem
    <3>4. Item(PieceItem(c, m))
      BY <3>1, <3>2 DEF Item
    <3> QED BY <3>3, <3>4
  <2>2. CASE p \in B
    <3>1. PICK c \in Of("bind") : p = <<2 * c - 1, 1>>
      BY <2>2
    <3>2. PICK x : x = [at |-> 2 * c - 1, n |-> 1, is |-> BindNamePrefix \o Name(comments[c])]
      OBVIOUS
    <3>3. Item(x) /\ Place(x) = p
      BY <3>1, <3>2 DEF Item, Place
    <3> QED BY <3>3
  <2>3. CASE p \in E
    <3>1. PICK c \in D : p = <<2 * c - 1, 1>>
      BY <2>3
    <3>2. PICK x : x = [at |-> 2 * c - 1, n |-> 1, is |-> comments[c].content]
      OBVIOUS
    <3>3. Item(x) /\ Place(x) = p
      BY <3>1, <3>2 DEF Item, Place
    <3> QED BY <3>3
  <2> QED BY <1>3, <2>1, <2>2, <2>3
<1> HIDE DEF A, B, E
<1> QED BY <1>1, <1>2, <1>3

\* A gap is never what takes the place of a comment.
LEMMA GapIsOfPiece ==
  ASSUME NoGaps, src \in Texts, BindNamePrefix \in BindPrefixes,
         \A c \in 1 .. Len(comments) : Parses(comments[c]),
         NEW x, Item(x), x.is = "gap"
  PROVE  IsGap(Place(x))
<1>1. ASSUME NEW c \in 1 .. Len(comments)
      PROVE  comments[c] \in AllComments /\ IsComment(comments[c])
  <2>1. comments \in Seq(ToSet(comments)) /\ Len(comments) \in Nat /\ IsComment(comments[c])
    BY TextFacts
  <2>2. comments[c] \in ToSet(comments)
    BY <2>1
  <2>3. src \in Statements
    <3>1. src # NoText
      BY DEF NoText, comments
    <3> QED BY <3>1 DEF Texts
  <2> QED BY <2>1, <2>2, <2>3 DEF AllComments, comments
<1>2. ASSUME NEW c \in Of("bind"),
             x = [at |-> 2 * c - 1, n |-> 1, is |-> BindNamePrefix \o Name(comments[c])]
      PROVE  FALSE
  <2>1. c \in 1 .. Len(comments) /\ Type(comments[c]) = "bind"
    BY OfFacts
  <2>2. comments[c] \in AllComments /\ comments[c].is = "kvs"
    BY <1>1, <2>1, TypeFacts
  <2>3. BindNamePrefix \o Name(comments[c]) # "gap"
    BY <2>2 DEF NoGaps, Name
  <2> QED BY <1>2, <2>3
<1>3. ASSUME NEW c \in Of("subs"), x = [at |-> 2 * c - 1, n |-> 1, is |-> comments[c].content]
      PROVE  FALSE
  <2>1. c \in 1 .. Len(comments) /\ Type(comments[c]) = "subs"
    BY OfFacts
  <2>2. comments[c] \in AllComments /\ comments[c].is = "subs"
    BY <1>1, <2>1, TypeFacts
  <2>3. comments[c].content # "gap"
    BY <2>2 DEF NoGaps
  <2> QED BY <1>3, <2>3
<1>4. PICK c \in 0 .. Len(comments) : \E m \in 1 .. Len(src.pieces[c + 1]) : x = PieceItem(c, m)
  BY <1>2, <1>3 DEF Item
<1>5. PICK m \in 1 .. Len(src.pieces[c + 1]) : x = PieceItem(c, m)
  BY <1>4
<1>6. Place(x) = <<2 * c, m>> /\ src.pieces[c + 1][m] = "gap"
  BY <1>5 DEF Place, PieceItem
<1>7. (2 * c) % 2 = 0 /\ (2 * c) \div 2 = c
  <2>1. Len(comments) \in Nat
    BY TextFacts
  <2>2. c \in Nat
    BY ONLY <1>4, <2>1
  <2> QED BY <2>2, Doubling
<1> QED BY <1>6, <1>7 DEF IsGap

\* Nothing of a text is lost, kept twice or out of order: all that is outside
\* comments and bindings is there, and a placeholder or a substitute in the place
\* of its comment, save for gaps at the ends (annots.go:239-278).
THEOREM TextPreserved ==
  ASSUME NoGaps
  PROVE  Spec => []TextAccounted
<1>1. ASSUME IInv, phase = "done"
      PROVE  LET places == {Place(parts[m]) : m \in 1 .. Len(parts)}
             IN  /\ \A m \in 1 .. Len(parts) - 1 : Before(Place(parts[m]), Place(parts[m + 1]))
                 /\ places \subseteq KeptItems
                 /\ \A p \in KeptItems \ places :
                      IsGap(p) /\ ((\A q \in places : Before(p, q)) \/ (\A q \in places : Before(q, p)))
                 /\ parts # <<>> => parts[1].is # "gap" /\ parts[Len(parts)].is # "gap"
  <2> DEFINE places == {Place(parts[m]) : m \in 1 .. Len(parts)}
  <2>1. /\ src \in Texts /\ BindNamePrefix \in BindPrefixes
        /\ \A c \in 1 .. Len(comments) : Parses(comments[c])
    BY <1>1 DEF IInv, PhaseInv, PrefixInv, ParseInv
  <2>2. PICK s : Block(s, 0, 2 * End) /\ parts = Trim(s)
    BY <1>1 DEF IInv, TextInv
  <2>3. PICK S : s \in Seq(S)
    BY <2>2 DEF Block
  <2>4. PICK lo \in Nat, hi \in Nat : Trimmed(s, parts, lo, hi)
    BY <2>2, <2>3, Trimming
  <2>5. parts \in Seq(S) /\ Len(parts) \in Nat /\ Len(s) \in Nat /\ Len(parts) = hi + 1 - lo
    <3>1. parts \in Seq(S)
      BY <2>2, <2>3, Trimming
    <3> QED BY <2>3, <2>4, <3>1 DEF Trimmed
  <2>6. /\ 1 <= lo /\ lo <= hi + 1 /\ hi <= Len(s)
        /\ \A m \in 1 .. Len(parts) : lo + m - 1 \in 1 .. Len(s) /\ parts[m] = s[lo + m - 1]
        /\ \A m \in 1 .. Len(s) : m < lo \/ hi < m => s[m].is = "gap"
        /\ parts # <<>> => s[lo].is # "gap" /\ s[hi].is # "gap"
    BY <2>4 DEF Trimmed
  <2>7. /\ \A l, m \in 1 .. Len(s) : l < m => Before(Place(s[l]), Place(s[m]))
        /\ \A m \in 1 .. Len(s) : Item(s[m])
    BY <2>2 DEF Block, InOrder
  <2>8. ASSUME NEW m \in 1 .. Len(parts) - 1
        PROVE  Before(Place(parts[m]), Place(parts[m + 1]))
    <3>1. m \in 1 .. Len(parts) /\ m + 1 \in 1 .. Len(parts) /\ m \in Nat
      BY ONLY <2>5, m \in 1 .. Len(parts) - 1
    <3>2. PICK k : k = lo + m - 1
      OBVIOUS
    <3>3. k + 1 = lo + (m + 1) - 1 /\ k \in Int /\ k < k + 1
      BY ONLY <2>4, <3>1, <3>2
    <3>4. /\ k \in 1 .. Len(s) /\ parts[m] = s[k]
          /\ k + 1 \in 1 .. Len(s) /\ parts[m + 1] = s[k + 1]
      BY <2>6, <3>1, <3>2, <3>3
    <3> QED BY <2>7, <3>3, <3>4
  <2>9. places \subseteq KeptItems
    <3>1. \A m \in 1 .. Len(parts) : Item(parts[m])
      BY <2>6, <2>7
    <3> QED BY <2>1, <3>1, ItemsKept
  <2>10. ASSUME NEW p \in KeptItems \ places
         PROVE  IsGap(p) /\ ((\A q \in places : Before(p, q)) \/ (\A q \in places : Before(q, p)))
    <3>1. PICK x : Item(x) /\ Place(x) = p
      BY <2>1, ItemsKept
    <3>2. 0 <= x.at /\ x.at < 2 * End
      <4>1. x.at \in Nat
        BY <2>1, <3>1, ItemFacts
      <4>2. PICK L \in Nat : L = Len(comments) /\ End = L + 1
        BY <2>1, TextFacts DEF End
      <4>3. x.at < 2 * Len(comments) + 1
        <5>1. 0 \in 0 .. Len(comments)
          BY ONLY <4>2
        <5> QED BY <2>1, <3>1, <5>1, ItemIs
      <4> QED BY ONLY <4>1, <4>2, <4>3
    <3>3. PICK k \in 1 .. Len(s) : s[k] = x
      BY <2>2, <3>1, <3>2 DEF Block
    <3>4. k < lo \/ hi < k
      <4>1. ASSUME ~(k < lo), ~(hi < k)
            PROVE  FALSE
        <5>1. PICK m : m = k + 1 - lo
          OBVIOUS
        <5>2. m \in 1 .. Len(parts) /\ lo + m - 1 = k
          BY ONLY <2>4, <2>5, <3>3, <4>1, <5>1
        <5>3. parts[m] = x
          BY <2>6, <3>3, <5>2
        <5>4. p \in places
          BY <3>1, <5>2, <5>3
        <5> QED BY <5>4
      <4> QED BY <4>1
    <3>5. IsGap(p)
      <4>1. x.is = "gap"
        BY <2>6, <3>3, <3>4
      <4> QED BY <2>1, <3>1, <4>1, GapIsOfPiece
    <3>6. \A q \in places : \E m \in 1 .. Len(s) : q = Place(s[m]) /\ lo <= m /\ m <= hi
      <4>1. ASSUME NEW l \in 1 .. Len(parts)
            PROVE  \E m \in 1 .. Len(s) : Place(parts[l]) = Place(s[m]) /\ lo <= m /\ m <= hi
        <5>1. PICK m : m = lo + l - 1
          OBVIOUS
        <5>2. lo <= m /\ m <= hi
          BY ONLY <2>4, <2>5, <5>1, l \in 1 .. Len(parts)
        <5> QED BY <2>6, <5>1, <5>2
      <4> QED BY <4>1
    <3>7. CASE k < lo
      <4>1. \A m \in 1 .. Len(s) : lo <= m => k < m
        BY ONLY <2>4, <2>5, <3>3, <3>7
      <4> HIDE DEF places
      <4>2. \A q \in places : Before(p, q)
        BY <2>7, <3>1, <3>3, <3>6, <4>1
      <4> QED BY <3>5, <4>2
    <3>8. CASE hi < k
      <4>1. \A m \in 1 .. Len(s) : m <= hi => m < k
        BY ONLY <2>4, <2>5, <3>3, <3>8
      <4> HIDE DEF places
      <4>2. \A q \in places : Before(q, p)
        BY <2>7, <3>1, <3>3, <3>6, <4>1
      <4> QED BY <3>5, <4>2
    <3> QED BY <3>4, <3>7, <3>8
  <2>11. parts # <<>> => parts[1].is # "gap" /\ parts[Len(parts)].is # "gap"
    <3>1. ASSUME parts # <<>>
          PROVE  parts[1].is # "gap" /\ parts[Len(parts)].is # "gap"
      <4>1. 1 \in 1 .. Len(parts) /\ Len(parts) \in 1 .. Len(parts)
        BY <2>5, <3>1
      <4>2. lo + 1 - 1 = lo /\ lo + Len(parts) - 1 = hi
        BY ONLY <2>4, <2>5
      <4> QED BY <2>6, <3>1, <4>1, <4>2
    <3> QED BY <3>1
  <2> QED BY <2>8, <2>9, <2>10, <2>11
<1>2. IInv => TextAccounted
  BY <1>1 DEF TextAccounted
<1> QED BY <1>2, Invariant, PTL
=============================================================================
