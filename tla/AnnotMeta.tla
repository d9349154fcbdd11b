----------------------------- MODULE AnnotMeta ------------------------------
(***************************************************************************)
(* What the annotations of SQL texts say and how they change the texts     *)
(* (annot/annot.go and annots.go): ParseAnnot, which ScanComment calls for *)
(* each comment, and NewAnnotMeta, called for one statement after another. *)
(*                                                                         *)
(* Where comments lie is CommentScan's subject.  Here a text is what lies  *)
(* around them: pieces[1] comments[1] pieces[2] ... comments[n]            *)
(* pieces[n+1].  A piece is a sequence of words, and of gaps, what Trim    *)
(* takes away at the ends (blanks and semicolons).  An annotation is the   *)
(* list of its key/value pairs, the primary pair first; a pair that        *)
(* annotRe does not match has the key "malformed".                         *)
(*                                                                         *)
(* An item of a processed text remembers where in the source it is from:   *)
(* comment c is at 2c-1, the piece before it at 2c-2, the one after at 2c. *)
(***************************************************************************)
EXTENDS Integers, Sequences, FiniteSets, SequencesExt

CONSTANTS
  Statements,  \* texts that occur
  Idents,      \* values that are identifiers (utils.IsIdent)
  MaxStmts     \* texts processed by one run

\* What ScanComment makes of a comment, before an annotation is looked for in it.
IsComment(c) ==
  /\ c.is \in {"plain", "subs", "kvs"}
  /\ c.is = "kvs" => c.kvs # <<>> /\ c.kvs \in Seq(ToSet(c.kvs))

IsText(s) ==
  /\ Len(s.pieces) = Len(s.comments) + 1
  /\ s.pieces \in Seq(ToSet(s.pieces)) /\ s.comments \in Seq(ToSet(s.comments))
  /\ \A n \in 1 .. Len(s.pieces) : s.pieces[n] \in Seq(ToSet(s.pieces[n]))
  /\ \A n \in 1 .. Len(s.comments) : IsComment(s.comments[n])

ASSUME AnnotMetaAssumption ==
  /\ "" \notin Idents
  /\ MaxStmts \in Nat
  /\ \A s \in Statements : IsText(s)

VARIABLES
  src,             \* the text of the current statement
  phase,           \* "scan" in ScanComment, "gather" in the loop of NewAnnotMeta
  i,               \* comments scanned; then the comment the loop is at
  offset,          \* the comment whose end the text is processed up to
  parts,           \* items of the processed text
  FuncName, ReturnStyle, Args, Envs,
  BindNamePrefix,  \* global: what a placeholder begins with
  noNameCnt,       \* global: statements without a name so far
  stmts,           \* statements begun
  unnamed          \* numbers given to those without a name

ret  == <<parts, FuncName, ReturnStyle, Args, Envs>>
vars == <<src, phase, i, offset, ret, BindNamePrefix, noNameCnt, stmts, unnamed>>

-----------------------------------------------------------------------------
(* Annotations: RegistAnnot, SetPrimary and Set of each type, ParseAnnot.  *)

annotMap ==
  [func |-> "func", arg |-> "arg", param |-> "arg", bind |-> "bind", env |-> "env",
   setting |-> "setting"]

SetPrimary(type, val) == IF type \in {"setting", "env"} THEN val = "" ELSE val \in Idents

Set(type, kv) ==
  /\ kv.key # "malformed"
  /\ CASE type = "setting" -> kv.key = "bindNamePrefix" /\ kv.val # ""
       [] type = "func"    -> kv.key = "return" /\ kv.val \in {"many", "one"}
       [] type = "arg"     -> kv.key = "type"
       [] type = "bind"    -> FALSE
       [] type = "env"     -> TRUE

AcceptsFirst(kvs) ==
  kvs[1].key \in DOMAIN annotMap /\ SetPrimary(annotMap[kvs[1].key], kvs[1].val)

\* The pairs are taken one by one, up to the first that is refused.
Taken(kvs) ==
  IF ~AcceptsFirst(kvs) THEN 0
  ELSE Max({n \in 1 .. Len(kvs) :
              \A m \in 2 .. n : Set(annotMap[kvs[1].key], kvs[m])})

\* A comment without $ has no annotation, and $$ or a lone $ is for substitution.
Parses(c) == c.is # "kvs" \/ Taken(c.kvs) = Len(c.kvs)

\* Type of the annotation, "" if there is none.
Type(c) ==
  CASE c.is = "plain" -> ""
    [] c.is = "subs"  -> "subs"
    [] OTHER          -> annotMap[c.kvs[1].key]

Name(c) == c.kvs[1].val

\* Options set, each to its last value; of an annotation refused too.
Options(c) ==
  LET given == {m \in 2 .. Taken(c.kvs) : TRUE}
  IN  [k \in {c.kvs[m].key : m \in given} |->
         c.kvs[Max({m \in given : c.kvs[m].key = k})].val]

Option(c, key) == IF key \in DOMAIN Options(c) THEN Options(c)[key] ELSE ""

-----------------------------------------------------------------------------
(* Slices of the text.                                                     *)

comments == src.comments
End      == Len(comments) + 1

ItemsAt(p) ==
  IF p % 2 = 1 THEN <<[at |-> p, n |-> 1, is |-> "comment"]>>
  ELSE LET piece == src.pieces[p \div 2 + 1]
       IN  [m \in 1 .. Len(piece) |-> [at |-> p, n |-> m, is |-> piece[m]]]

\* From the end of comment c, or the beginning, to the beginning of comment d, or
\* the end.
Slice(c, d) == FlattenSeq([m \in 1 .. 2 * (d - c) - 1 |-> ItemsAt(2 * c + m - 1)])

\* Mutated: only the end is trimmed.
TrimRight(items) ==
  LET kept == {m \in 1 .. Len(items) : items[m].is # "gap"}
  IN  IF kept = {} THEN <<>> ELSE SubSeq(items, 1, Max(kept))

Trim(items) ==
  LET kept == {m \in 1 .. Len(items) : items[m].is # "gap"}
  IN  IF kept = {} THEN <<>> ELSE SubSeq(items, Min(kept), Max(kept))

Substitute(c) ==
  IF comments[c].content = "" THEN <<>>
  ELSE <<[at |-> 2 * c - 1, n |-> 1, is |-> comments[c].content]>>

Placeholder(c) == <<[at |-> 2 * c - 1, n |-> 1, is |-> BindNamePrefix \o Name(comments[c])]>>

-----------------------------------------------------------------------------
(* NewAnnotMeta, which begins with ScanComment.                            *)

NoText == [pieces |-> << <<>> >>, comments |-> <<>>]

Init ==
  /\ src = NoText
  /\ phase = "idle" /\ i = 0 /\ offset = 0
  /\ parts = <<>> /\ FuncName = "" /\ ReturnStyle = "" /\ Args = <<>> /\ Envs = <<>>
  /\ BindNamePrefix = ":" /\ noNameCnt = 0
  /\ stmts = 0 /\ unnamed = <<>>

NewAnnotMeta ==
  /\ phase = "idle" /\ stmts < MaxStmts
  /\ src' \in Statements
  /\ phase' = "scan"
  /\ stmts' = stmts + 1
  /\ UNCHANGED <<i, offset, ret, BindNamePrefix, noNameCnt, unnamed>>

\* Mutated: each text begins with the first prefix again.
SettingOfText(c) ==
  IF c.is = "kvs" /\ c.kvs[1].key = "setting" /\ "bindNamePrefix" \in DOMAIN Options(c)
  THEN Options(c)["bindNamePrefix"] ELSE ":"

\* A SettingAnnot takes effect while it is parsed.
Setting(c) ==
  IF c.is = "kvs" /\ c.kvs[1].key = "setting" /\ "bindNamePrefix" \in DOMAIN Options(c)
  THEN Options(c)["bindNamePrefix"] ELSE BindNamePrefix

ParseComment ==
  /\ phase = "scan" /\ i < Len(comments)
  /\ i' = i + 1
  /\ BindNamePrefix' = Setting(comments[i + 1])
  /\ phase' = IF Parses(comments[i + 1]) THEN "scan" ELSE "failed"
  /\ UNCHANGED <<src, offset, ret, noNameCnt, stmts, unnamed>>

Scanned ==
  /\ phase = "scan" /\ i = Len(comments)
  /\ phase' = "gather" /\ i' = 1
  /\ UNCHANGED <<src, offset, ret, BindNamePrefix, noNameCnt, stmts, unnamed>>

-----------------------------------------------------------------------------
(* The loop over the comments: one action for each type of annotation.     *)

Reaches(type) == phase = "gather" /\ i < End /\ Type(comments[i]) = type

\* On to what follows comment c.
PassTo(c) == /\ offset' = c /\ i' = c + 1
             /\ UNCHANGED <<src, phase, BindNamePrefix, noNameCnt, stmts, unnamed>>

SubsAnnot ==
  /\ Reaches("subs")
  /\ parts' = parts \o Slice(offset, i) \o Substitute(i)
  /\ PassTo(i)
  /\ UNCHANGED <<FuncName, ReturnStyle, Args, Envs>>

\* Mutated: the first annotation names the function.
FuncAnnotOnce ==
  /\ Reaches("func")
  /\ parts' = parts \o Slice(offset, i)
  /\ FuncName' = IF FuncName = "" THEN Name(comments[i]) ELSE FuncName
  /\ ReturnStyle' = Option(comments[i], "return")
  /\ PassTo(i)
  /\ UNCHANGED <<Args, Envs>>

FuncAnnot ==
  /\ Reaches("func")
  /\ parts' = parts \o Slice(offset, i)
  /\ FuncName' = Name(comments[i])
  /\ ReturnStyle' = Option(comments[i], "return")
  /\ PassTo(i)
  /\ UNCHANGED <<Args, Envs>>

ArgAnnot ==
  /\ Reaches("arg")
  /\ parts' = parts \o Slice(offset, i)
  /\ Args' = Append(Args, [name |-> Name(comments[i]), type |-> Option(comments[i], "type")])
  /\ PassTo(i)
  /\ UNCHANGED <<FuncName, ReturnStyle, Envs>>

\* Mutated: the loop does not pass over the enclosure.
BindAnnotKeepsEnclosure ==
  /\ Reaches("bind") /\ i + 1 < End
  /\ parts' = parts \o Slice(offset, i) \o Placeholder(i)
  /\ offset' = i + 1 /\ i' = i + 1
  /\ UNCHANGED <<src, phase, FuncName, ReturnStyle, Args, Envs, BindNamePrefix, noNameCnt, stmts,
                 unnamed>>

\* The placeholder stands for all up to the end of the next comment, which is
\* passed over whatever it holds.
BindAnnot ==
  /\ Reaches("bind") /\ i + 1 < End
  /\ parts' = parts \o Slice(offset, i) \o Placeholder(i)
  /\ PassTo(i + 1)
  /\ UNCHANGED <<FuncName, ReturnStyle, Args, Envs>>

\* Mutated: a placeholder may as well end the text.
MissingEnclosureNever ==
  /\ Reaches("bind") /\ i + 1 = End
  /\ parts' = parts \o Slice(offset, i) \o Placeholder(i)
  /\ PassTo(i)
  /\ UNCHANGED <<FuncName, ReturnStyle, Args, Envs>>

MissingEnclosure ==
  /\ Reaches("bind") /\ i + 1 = End
  /\ phase' = "failed"
  /\ parts' = parts \o Slice(offset, i)
  /\ i' = i + 1
  /\ UNCHANGED <<src, offset, FuncName, ReturnStyle, Args, Envs, BindNamePrefix, noNameCnt, stmts,
                 unnamed>>

EnvAnnot ==
  /\ Reaches("env")
  /\ parts' = parts \o Slice(offset, i)
  /\ LET given == Options(comments[i])
     IN  Envs' = [k \in DOMAIN Envs \union DOMAIN given |->
                    IF k \in DOMAIN given THEN given[k] ELSE Envs[k]]
  /\ PassTo(i)
  /\ UNCHANGED <<FuncName, ReturnStyle, Args>>

NoAnnot ==
  /\ Reaches("") \/ Reaches("setting")
  /\ parts' = parts \o Slice(offset, i)
  /\ PassTo(i)
  /\ UNCHANGED <<FuncName, ReturnStyle, Args, Envs>>

\* The number counts only while the name is made of it.
ReturnNumbered ==
  /\ phase = "gather" /\ i = End
  /\ phase' = "done"
  /\ parts' = Trim(parts \o Slice(offset, End))
  /\ noNameCnt' = IF FuncName = "" THEN noNameCnt + 1 ELSE 0
  /\ unnamed' = IF FuncName = "" THEN Append(unnamed, noNameCnt + 1) ELSE unnamed
  /\ UNCHANGED <<src, i, offset, FuncName, ReturnStyle, Args, Envs, BindNamePrefix, stmts>>

\* The rest of the text, trimmed at both ends, and a number for want of a name.
Return ==
  /\ phase = "gather" /\ i = End
  /\ phase' = "done"
  /\ parts' = Trim(parts \o Slice(offset, End))
  /\ noNameCnt' = IF FuncName = "" THEN noNameCnt + 1 ELSE noNameCnt
  /\ unnamed' = IF FuncName = "" THEN Append(unnamed, noNameCnt') ELSE unnamed
  /\ UNCHANGED <<src, i, offset, FuncName, ReturnStyle, Args, Envs, BindNamePrefix, stmts>>

\* The handler has put the result in its template; only the globals stay.
Render ==
  /\ phase = "done"
  /\ src' = NoText /\ phase' = "idle" /\ i' = 0 /\ offset' = 0
  /\ parts' = <<>> /\ FuncName' = "" /\ ReturnStyle' = "" /\ Args' = <<>> /\ Envs' = <<>>
  /\ UNCHANGED <<BindNamePrefix, noNameCnt, stmts, unnamed>>

Next ==
  \/ NewAnnotMeta \/ ParseComment \/ Scanned
  \/ SubsAnnot \/ FuncAnnot \/ ArgAnnot \/ BindAnnot \/ MissingEnclosure \/ EnvAnnot \/ NoAnnot
  \/ Return \/ Render

Spec == Init /\ [][Next]_vars

-----------------------------------------------------------------------------
(* What a text should come to, told from its comments without the loop.    *)

IsBind(c) == Type(comments[c]) = "bind"

\* Comment c ends a binding if the bindings in a row just before it are odd in
\* number: the first is ended by the second, and so on.
Encloses(c) ==
  LET start == Max({0} \union {m \in 1 .. c - 1 : ~IsBind(m)})
  IN  (c - 1 - start) % 2 = 1

Active == {c \in 1 .. Len(comments) : ~Encloses(c)}

Of(type) == {c \in Active : Type(comments[c]) = type}

\* Comments that set the prefix.
Settings ==
  {c \in 1 .. Len(comments) :
     /\ comments[c].is = "kvs" /\ comments[c].kvs[1].key = "setting"
     /\ "bindNamePrefix" \in DOMAIN Options(comments[c])}

\* The n-th comment of some.
Nth(S, n) == CHOOSE c \in {d \in S : Cardinality({e \in S : e <= d}) = n} : TRUE

\* Items of the pieces that are not bound, and those that take a comment's place.
KeptItems ==
  (UNION {{<<2 * c, m>> : m \in 1 .. Len(src.pieces[c + 1])} :
            c \in {d \in 0 .. Len(comments) : d = 0 \/ d \notin Of("bind")}})
    \union {<<2 * c - 1, 1>> : c \in Of("bind")}
    \union {<<2 * c - 1, 1>> : c \in {d \in Of("subs") : comments[d].content # ""}}

Before(a, b) == a[1] < b[1] \/ (a[1] = b[1] /\ a[2] < b[2])

Place(item) == <<item.at, item.n>>

IsGap(p) == p[1] % 2 = 0 /\ src.pieces[p[1] \div 2 + 1][p[2]] = "gap"

AllComments == UNION {ToSet(s.comments) : s \in Statements}

\* Values that options have, and so what a placeholder may begin with.
BindPrefixes == {":"} \union UNION {{kv.val : kv \in ToSet(c.kvs)} : c \in {d \in AllComments : d.is = "kvs"}}

\* Nothing that takes the place of a comment is a gap itself.
NoGaps ==
  \A c \in AllComments :
    /\ c.is = "subs" => c.content # "gap"
    /\ c.is = "kvs" => \A prefix \in BindPrefixes : prefix \o c.kvs[1].val # "gap"

-----------------------------------------------------------------------------
TypeOK ==
  /\ Len(src.pieces) = End
  /\ phase \in {"idle", "scan", "gather", "done", "failed"}
  /\ i \in 0 .. End /\ offset \in 0 .. Len(comments)
  /\ phase = "gather" => offset = i - 1
  /\ FuncName \in Idents \union {""} /\ ReturnStyle \in {"", "many", "one"}
  /\ \A n \in 1 .. Len(Args) : Args[n].name \in Idents
  /\ stmts \in 0 .. MaxStmts /\ noNameCnt \in 0 .. stmts

\* The processed text holds, in the order of the source and each once, all that
\* is outside comments and bindings, and a placeholder or a substitute in the
\* place of its comment; nothing is lost but gaps at its ends, and nothing of a
\* comment or of a bound value is left.
TextAccounted ==
  phase = "done" =>
    LET places == {Place(parts[m]) : m \in 1 .. Len(parts)}
    IN  /\ \A m \in 1 .. Len(parts) - 1 : Before(Place(parts[m]), Place(parts[m + 1]))
        /\ places \subseteq KeptItems
        /\ \A p \in KeptItems \ places :
             IsGap(p) /\ ((\A q \in places : Before(p, q)) \/ (\A q \in places : Before(q, p)))
        /\ parts # <<>> => parts[1].is # "gap" /\ parts[Len(parts)].is # "gap"

\* Settings are made while the text is scanned, so that all placeholders of a text
\* begin with the last prefix it sets, also those that stand before the setting.
OnePrefix ==
  phase \in {"gather", "done"} =>
    /\ Settings # {} => BindNamePrefix = Option(comments[Max(Settings)], "bindNamePrefix")
    /\ \A m \in 1 .. Len(parts) :
         (parts[m].at % 2 = 1 /\ IsBind((parts[m].at + 1) \div 2)) =>
           parts[m].is = BindNamePrefix \o Name(comments[(parts[m].at + 1) \div 2])

\* What the annotations declare is gathered from every one that does not end a
\* binding: all arguments in order, the last function, the last value of each key.
Gathered ==
  phase = "done" =>
    /\ Args = [n \in 1 .. Cardinality(Of("arg")) |->
                 LET c == comments[Nth(Of("arg"), n)]
                 IN  [name |-> Name(c), type |-> Option(c, "type")]]
    /\ IF Of("func") = {} THEN FuncName = "" /\ ReturnStyle = ""
       ELSE LET c == comments[Max(Of("func"))]
            IN  FuncName = Name(c) /\ ReturnStyle = Option(c, "return")
    /\ \A k \in DOMAIN Envs \union UNION {DOMAIN Options(comments[c]) : c \in Of("env")} :
         LET given == {c \in Of("env") : k \in DOMAIN Options(comments[c])}
         IN  given # {} /\ Envs[k] = Options(comments[Max(given)])[k]

\* No two statements get the same number for a name, however named and unnamed
\* statements alternate.
NoNamesDistinct ==
  \A m, n \in 1 .. Len(unnamed) : m # n => unnamed[m] # unnamed[n]

\* A text is refused only for a comment whose annotation is not well formed, or a
\* binding without a comment after it, and such a text never comes out.
RefusedForCause ==
  LET bad == \/ \E c \in 1 .. Len(comments) : ~Parses(comments[c])
             \/ Len(comments) \in Of("bind")
  IN  /\ phase = "failed" => bad
      /\ phase = "done" => ~bad
=============================================================================
