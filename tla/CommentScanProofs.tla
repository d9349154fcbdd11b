-------------------------- MODULE CommentScanProofs --------------------------
(***************************************************************************)
(* Whatever text ScanComment is given, of whatever length, the comments it *)
(* records can be sliced out of it.                                        *)
(***************************************************************************)
EXTENDS CommentScan, SequenceTheorems, Inductions, TLAPS

\* What holds between the index, the comment being scanned and the comments
\* found.  The scanner is past all of these, and once a comment is open it has
\* its opening delimiter behind or before it, whole.
Progress ==
  /\ pc \notin {"string", "failed"} => i <= End
  /\ \A k \in 1 .. Len(comments) : CommentEnd(comments[k]) <= i

InComment ==
  pc \in {"line", "block"} =>
    /\ offset < End /\ offset <= i
    /\ At(offset) # "#" => offset + 1 < End
    /\ \A k \in 1 .. Len(comments) : CommentEnd(comments[k]) <= offset

InLineComment == pc = "line" => At(offset) # "nl"

InBlockComment == pc = "block" => offset + 2 <= i /\ At(offset) # "#"

IInv ==
  /\ src \in Seq(Bytes)
  /\ TypeOK
  /\ Progress
  /\ InComment
  /\ InLineComment
  /\ InBlockComment
  /\ CanBeCut
  /\ ContentInside

-----------------------------------------------------------------------------
LEMMA InitInv == Init => IInv
<1> SUFFICES ASSUME Init PROVE IInv
  OBVIOUS
<1>1. src \in Seq(Bytes)
  <2>1. PICK n \in 0 .. MaxLen : src \in [1 .. n -> Bytes]
    BY DEF Init, Texts
  <2>2. n \in Nat
    BY CommentScanAssumption
  <2> QED
    BY <2>1, <2>2, SeqDef
<1>2. End \in Nat
  BY <1>1 DEF End
<1>3. i = 0 /\ pc = "scan" /\ offset = 0 /\ err = "none"
  BY DEF Init
<1>4. comments = <<>> /\ comments \in Seq(Found)
  <2>1. comments = <<>>
    BY DEF Init
  <2> QED
    BY <2>1, EmptySeq
<1>5. Len(comments) = 0 /\ 1 .. Len(comments) = {}
  BY <1>4
<1>6. TypeOK
  BY <1>2, <1>3, <1>4 DEF TypeOK
<1>7. Progress /\ CanBeCut /\ ContentInside
  BY <1>2, <1>3, <1>5 DEF Progress, CanBeCut, ContentInside
<1>8. InComment /\ InLineComment /\ InBlockComment
  BY <1>3 DEF InComment, InLineComment, InBlockComment
<1> QED
  BY <1>1, <1>6, <1>7, <1>8 DEF IInv

\* Recording a comment that ends at k, behind the delimiter that opened it.
LEMMA RecordInv ==
  ASSUME IInv, pc \in {"line", "block"},
         NEW k \in Nat, NEW from \in Nat, NEW to \in Nat,
         i <= k, k <= End, offset < from, from <= to, to <= k,
         addComment(k, from, to)
  PROVE  IInv'
<1> DEFINE c == [offset |-> offset, length |-> k - offset, from |-> from, to |-> to]
<1>1. End \in Nat /\ End' = End /\ offset \in Nat /\ i \in Nat
  BY DEF IInv, TypeOK, addComment, End
<1>2. i' = k /\ offset' = offset /\ src' = src
  BY DEF addComment
<1>3. c \in Found /\ CommentEnd(c) = k
  BY <1>1 DEF IInv, InComment, Found, CommentEnd
<1>4. comments \in Seq(Found) /\ Found' = Found
  BY <1>1 DEF IInv, TypeOK, Found
<1>5. CASE pc' = "failed"
  <2>1. comments' = comments /\ err' = "annotation"
    BY <1>5 DEF addComment
  <2>2. TypeOK'
    BY <1>1, <1>2, <1>4, <1>5, <2>1 DEF IInv, TypeOK
  <2>3. CanBeCut' /\ ContentInside'
    BY <1>1, <2>1 DEF IInv, CanBeCut, ContentInside, CommentEnd
  <2>4. Progress'
    <3> SUFFICES ASSUME NEW j \in 1 .. Len(comments) PROVE CommentEnd(comments[j]) <= k
      BY <1>2, <1>5, <2>1 DEF Progress, CommentEnd
    <3>1. CommentEnd(comments[j]) <= offset /\ offset <= k
      BY <1>1 DEF IInv, InComment
    <3>2. comments[j] \in Found
      BY <1>4, ElementOfSeq
    <3>3. CommentEnd(comments[j]) \in Int
      BY <3>2, <1>1 DEF Found, CommentEnd
    <3> QED
      BY <3>1, <3>3, <1>1
  <2> QED
    BY <1>2, <1>5, <2>2, <2>3, <2>4 DEF IInv, InComment, InLineComment, InBlockComment
<1>6. CASE pc' = "scan"
  <2>1. comments' = Append(comments, c) /\ err' = err /\ err = "none"
    BY <1>6 DEF addComment, IInv, TypeOK
  <2>2. /\ comments' \in Seq(Found)
        /\ Len(comments) \in Nat /\ Len(comments') = Len(comments) + 1
        /\ \A j \in 1 .. Len(comments) : comments'[j] = comments[j] /\ comments[j] \in Found
        /\ comments'[Len(comments) + 1] = c
    BY <2>1, <1>3, <1>4, AppendProperties, ElementOfSeq
  <2>3. TypeOK'
    BY <1>1, <1>2, <1>4, <1>6, <2>1, <2>2 DEF IInv, TypeOK
  <2>4. \A j \in 1 .. Len(comments) : CommentEnd(comments[j]) <= offset
    BY DEF IInv, InComment
  <2>5. \A j \in 1 .. Len(comments') : j # Len(comments) + 1 => j \in 1 .. Len(comments)
    BY <2>2
  <2>6. \A j \in 1 .. Len(comments') : CommentEnd(comments'[j]) <= k
    <3> TAKE j \in 1 .. Len(comments')
    <3>1. CASE j = Len(comments) + 1
      BY <3>1, <2>2, <1>1, <1>3
    <3>2. CASE j # Len(comments) + 1
      <4> j \in 1 .. Len(comments)
        BY <3>2, <2>5
      <4>1. /\ comments'[j] = comments[j] /\ CommentEnd(comments[j]) <= offset
            /\ comments[j].offset \in Int /\ comments[j].length \in Int
        <5>1. comments'[j] = comments[j] /\ comments[j] \in Found
          BY <2>2
        <5>2. CommentEnd(comments[j]) <= offset
          BY <2>4
        <5> QED
          BY <5>1, <5>2, <1>1 DEF Found
      <4>2. CommentEnd(comments[j]) \in Int
        BY <4>1 DEF CommentEnd
      <4>3. CommentEnd(comments'[j]) = CommentEnd(comments[j])
        BY <4>1
      <4>4. offset <= k
        BY <1>1
      <4> QED
        BY <4>1, <4>2, <4>3, <4>4, <1>1
    <3> QED
      BY <3>1, <3>2
  <2>7. Progress'
    BY <1>1, <1>2, <1>6, <2>6 DEF Progress, CommentEnd
  <2>8. CanBeCut'
    <3>1. \A j, l \in 1 .. Len(comments') :
            j < l => CommentEnd(comments'[j]) <= comments'[l].offset
      <4> SUFFICES ASSUME NEW j \in 1 .. Len(comments'), NEW l \in 1 .. Len(comments'), j < l
                   PROVE  CommentEnd(comments'[j]) <= comments'[l].offset
        OBVIOUS
      <4>1. j \in 1 .. Len(comments)
        BY <2>2
      <4>2. CASE l = Len(comments) + 1
        BY <4>1, <4>2, <2>2, <2>4
      <4>3. CASE l # Len(comments) + 1
        BY <4>1, <4>3, <2>2, <2>5 DEF IInv, CanBeCut
      <4> QED
        BY <4>2, <4>3
    <3>2. \A j \in 1 .. Len(comments') : CommentEnd(comments'[j]) <= End
      <4> TAKE j \in 1 .. Len(comments')
      <4>1. CASE j = Len(comments) + 1
        BY <4>1, <2>2, <1>1, <1>3
      <4>2. CASE j # Len(comments) + 1
        BY <4>2, <2>2, <2>5 DEF IInv, CanBeCut
      <4> QED
        BY <4>1, <4>2
    <3> QED
      BY <3>1, <3>2, <1>1 DEF CanBeCut, CommentEnd
  <2>9. ContentInside'
    <3> SUFFICES ASSUME NEW j \in 1 .. Len(comments')
                 PROVE  /\ comments'[j].offset < comments'[j].from
                        /\ comments'[j].from <= comments'[j].to
                        /\ comments'[j].to <= CommentEnd(comments'[j])
      BY DEF ContentInside, CommentEnd
    <3>1. CASE j = Len(comments) + 1
      BY <3>1, <2>2, <1>1, <1>3
    <3>2. CASE j # Len(comments) + 1
      BY <3>2, <2>2, <2>5 DEF IInv, ContentInside
    <3> QED
      BY <3>1, <3>2
  <2> QED
    BY <1>2, <1>6, <2>3, <2>7, <2>8, <2>9
    DEF IInv, InComment, InLineComment, InBlockComment
<1> QED
  BY <1>5, <1>6 DEF addComment

\* A step that records nothing and moves the index on, not back.
LEMMA AdvanceInv ==
  ASSUME IInv, UNCHANGED <<src, comments>>,
         i' \in Int, i <= i', i' <= End + 1, offset' \in 0 .. End,
         pc' \in {"scan", "string", "line", "block", "done", "failed"},
         err' \in {"none", "string", "block", "annotation"},
         err' # "none" <=> pc' = "failed",
         pc' \notin {"string", "failed"} => i' <= End,
         InComment', InLineComment', InBlockComment'
  PROVE  IInv'
<1>1. End \in Nat /\ End' = End /\ i \in Nat /\ comments \in Seq(Found) /\ Found' = Found
  BY DEF IInv, TypeOK, End, Found
<1>2. TypeOK'
  BY <1>1 DEF TypeOK
<1>3. CanBeCut' /\ ContentInside'
  BY <1>1 DEF IInv, CanBeCut, ContentInside, CommentEnd
<1>4. Progress'
  <2> SUFFICES ASSUME NEW j \in 1 .. Len(comments) PROVE CommentEnd(comments[j]) <= i'
    BY <1>1 DEF Progress, CommentEnd
  <2>1. CommentEnd(comments[j]) <= i
    BY DEF IInv, Progress
  <2>2. comments[j] \in Found
    BY <1>1, ElementOfSeq
  <2>3. CommentEnd(comments[j]) \in Int
    BY <2>2, <1>1 DEF Found, CommentEnd
  <2> QED
    BY <2>1, <2>3, <1>1
<1> QED
  BY <1>2, <1>3, <1>4 DEF IInv

LEMMA ScanInv == IInv /\ Scan => IInv'
<1> SUFFICES ASSUME IInv, Scan PROVE IInv'
  OBVIOUS
<1>1. End \in Nat /\ i \in Nat /\ i <= End + 1 /\ offset \in Nat /\ offset <= End
  BY DEF IInv, TypeOK, End
<1>2. err # "none" <=> pc = "failed"
  BY DEF IInv, TypeOK
<1>3. CASE Skip
  BY <1>1, <1>2, <1>3, AdvanceInv
  DEF Skip, Goto, IInv, TypeOK, InComment, InLineComment, InBlockComment
<1>4. CASE OpenString
  BY <1>1, <1>2, <1>4, AdvanceInv
  DEF OpenString, IInv, TypeOK, InComment, InLineComment, InBlockComment
<1>5. CASE OpenLine
  <2>1. i' = i /\ offset' = i /\ pc' = "line" /\ src' = src /\ comments' = comments /\ err' = err
    BY <1>5 DEF OpenLine
  <2>2. i < End /\ pc = "scan" /\ (At(i) = "#" \/ (i + 1 < End /\ At(i) = "-"))
    BY <1>5 DEF OpenLine, BeginsLine, IsPair
  <2>3. InComment'
    BY <2>1, <2>2, <1>1 DEF InComment, IInv, Progress, At, End, CommentEnd
  <2>4. InLineComment' /\ InBlockComment'
    BY <2>1, <2>2 DEF InLineComment, InBlockComment, At
  <2> QED
    BY <2>1, <2>2, <2>3, <2>4, <1>1, <1>2, AdvanceInv DEF IInv, TypeOK
<1>6. CASE OpenBlock
  <2>1. /\ i' = i + 2 /\ offset' = i /\ pc' = "block"
        /\ src' = src /\ comments' = comments /\ err' = err
    BY <1>6 DEF OpenBlock
  <2>2. i + 1 < End /\ pc = "scan" /\ At(i) = "/"
    BY <1>6 DEF OpenBlock, BeginsBlock, IsPair
  <2>3. InComment'
    BY <2>1, <2>2, <1>1 DEF InComment, IInv, Progress, At, End, CommentEnd
  <2>4. InLineComment' /\ InBlockComment'
    BY <2>1, <2>2, <1>1 DEF InLineComment, InBlockComment, At
  <2> QED
    BY <2>1, <2>2, <2>3, <2>4, <1>1, <1>2, AdvanceInv DEF IInv, TypeOK
<1>7. CASE Return
  BY <1>1, <1>2, <1>7, AdvanceInv
  DEF Return, IInv, TypeOK, Progress, InComment, InLineComment, InBlockComment
<1>8. CASE CloseString
  BY <1>1, <1>2, <1>8, AdvanceInv
  DEF CloseString, IInv, TypeOK, InComment, InLineComment, InBlockComment
<1>9. CASE InString
  BY <1>1, <1>2, <1>9, AdvanceInv
  DEF InString, Goto, IInv, TypeOK, InComment, InLineComment, InBlockComment
<1>10. CASE BadString
  BY <1>1, <1>10, AdvanceInv
  DEF BadString, Error, IInv, TypeOK, InComment, InLineComment, InBlockComment
<1>11. CASE InLine
  <2>1. i' = i + 1 /\ i < End /\ UNCHANGED <<src, pc, offset, comments, err>> /\ pc = "line"
    BY <1>11 DEF InLine, Goto
  <2>2. InComment' /\ InLineComment' /\ InBlockComment'
    BY <2>1, <1>1 DEF IInv, InComment, InLineComment, InBlockComment, At, End, CommentEnd
  <2> QED
    BY <2>1, <2>2, <1>1, <1>2, AdvanceInv DEF IInv, TypeOK
<1>12. CASE CloseLine
  <2>1. pc = "line" /\ i < End /\ At(i) = "nl" /\ offset <= i /\ i + 1 \in Nat
    BY <1>12, <1>1 DEF CloseLine, IInv, InComment
  <2>2. i # offset
    BY <2>1 DEF IInv, InLineComment
  <2>3. Opened \in Nat /\ offset < Opened /\ Opened <= i + 1
    BY <2>1, <2>2, <1>1 DEF Opened
  <2>4. addComment(i + 1, Opened, i + 1)
    BY <1>12 DEF CloseLine
  <2> QED
    BY <2>1, <2>3, <2>4, <1>1, RecordInv
<1>13. CASE EndOfText
  <2>1. pc = "line" /\ i >= End /\ i <= End /\ offset < End /\ (At(offset) # "#" => offset + 1 < End)
    BY <1>13, <1>1 DEF EndOfText, IInv, InComment, Progress
  <2>2. Opened \in Nat /\ offset < Opened /\ Opened <= i
    BY <2>1, <1>1 DEF Opened
  <2>3. addComment(i, Opened, i)
    BY <1>13 DEF EndOfText
  <2> QED
    BY <2>1, <2>2, <2>3, <1>1, RecordInv
<1>14. CASE InBlock
  <2>1. i' = i + 1 /\ i < End /\ UNCHANGED <<src, pc, offset, comments, err>> /\ pc = "block"
    BY <1>14 DEF InBlock, Goto
  <2>2. InComment' /\ InLineComment' /\ InBlockComment'
    BY <2>1, <1>1 DEF IInv, InComment, InLineComment, InBlockComment, At, End, CommentEnd
  <2> QED
    BY <2>1, <2>2, <1>1, <1>2, AdvanceInv DEF IInv, TypeOK
<1>15. CASE CloseBlock
  <2>1. pc = "block" /\ i + 1 < End /\ offset + 2 <= i /\ At(offset) # "#" /\ i + 2 \in Nat
    BY <1>15, <1>1 DEF CloseBlock, ClosesBlock, IsPair, IInv, InBlockComment
  <2>2. Opened \in Nat /\ offset < Opened /\ Opened <= i
    BY <2>1, <1>1 DEF Opened
  <2>3. addComment(i + 2, Opened, i)
    BY <1>15 DEF CloseBlock
  <2> QED
    BY <2>1, <2>2, <2>3, <1>1, RecordInv
<1>16. CASE BadBlock
  BY <1>1, <1>16, AdvanceInv
  DEF BadBlock, Error, IInv, TypeOK, InComment, InLineComment, InBlockComment
<1> QED
  BY <1>3, <1>4, <1>5, <1>6, <1>7, <1>8, <1>9, <1>10, <1>11, <1>12, <1>13, <1>14, <1>15, <1>16
  DEF Scan

\* The invariant is inductive: no step of any loop breaks it.
THEOREM Inductive == Spec => []IInv
<1>1. IInv /\ [Next]_vars => IInv'
  <2> SUFFICES ASSUME IInv, UNCHANGED vars PROVE IInv'
    BY ScanInv DEF Next, Stop
  <2> QED
    BY DEF vars, IInv, TypeOK, Progress, InComment, InLineComment, InBlockComment, CanBeCut,
       ContentInside, CommentEnd, Found, End, At
<1> QED
  BY InitInv, <1>1, PTL DEF Spec

\* The index stays where the loops may put it.
THEOREM TypeCorrect == Spec => []TypeOK
BY Inductive, PTL DEF IInv

\* Every text can be cut at the comments found in it, and every comment at its
\* delimiters: the slices of ScanComment (comment.go:86,98,119) and of NewAnnotMeta
\* (annots.go:243,274,277) never panic.
THEOREM CommentsCanBeCut == Spec => []SlicesValid
BY Inductive, PTL DEF IInv, SlicesValid

-----------------------------------------------------------------------------
(* What the scanner makes of a text, and what the rules make of it.        *)

Modes == Code \union Comment \union Quotes \union {"bquote", "squote escape", "dquote escape"}

LEMMA StepType ==
  ASSUME NEW m \in Modes, NEW c
  PROVE  Step(m, c) \in Modes
<1>1. CASE m \in Code
  <2>1. Step(m, c) = InCode(m, c)
    BY <1>1 DEF Step, Code, Quotes
  <2>2. InCode(m, c) \in Modes
    BY DEF InCode, Modes, Code, Comment, Quotes
  <2> QED BY <2>1, <2>2
<1>2. CASE m \notin Code
  BY <1>2 DEF Step, Modes, Code, Comment, Quotes, Escape
<1> QED BY <1>1, <1>2

\* Mode does what its recursion says.
LEMMA ModeDef ==
  ASSUME src \in Seq(Bytes)
  PROVE  /\ Mode[0] = "code"
         /\ \A n \in 1 .. End : Mode[n] = Step(Mode[n - 1], src[n])
<1> DEFINE step == [n \in 1 .. End |-> [m \in Modes |-> Step(m, src[n])]]
           Body(f) == [n \in 0 .. End |-> IF n = 0 THEN "code" ELSE Step(f[n-1], src[n])]
<1>1. End \in Nat /\ "code" \in Modes
  BY DEF End, Modes, Code
<1>2. AreSteps(step, End, Modes)
  <2>1. ASSUME NEW n \in 1 .. End, NEW m \in Modes
        PROVE  Step(m, src[n]) \in Modes
    BY StepType
  <2> QED BY <2>1 DEF AreSteps
<1>3. PICK g : Iterates(g, "code", step, End, Modes)
  <2> HIDE DEF step
  <2> QED BY <1>1, <1>2, Iteration
<1>4. g = Body(g)
  <2>1. g \in [0 .. End -> Modes] /\ g[0] = "code" /\ \A n \in 1 .. End : g[n] = step[n][g[n - 1]]
    <3> HIDE DEF step
    <3> QED BY <1>3 DEF Iterates
  <2>2. ASSUME NEW n \in 0 .. End, n # 0
        PROVE  g[n] = Step(g[n - 1], src[n])
    <3>1. n \in 1 .. End /\ n - 1 \in 0 .. End
      BY <1>1, <2>2
    <3>2. g[n - 1] \in Modes
      BY <2>1, <3>1
    <3> QED BY <2>1, <3>1, <3>2
  <2> QED BY <2>1, <2>2
<1> DEFINE c == CHOOSE f : f = Body(f)
<1>5. c = Body(c)
  <2> HIDE DEF Body
  <2> QED BY <1>4
<1>6. Mode = c
  BY DEF Mode
<1>7. ASSUME NEW n \in 0 .. End
      PROVE  c[n] = IF n = 0 THEN "code" ELSE Step(c[n-1], src[n])
  <2> HIDE DEF c
  <2>1. c[n] = Body(c)[n]
    BY <1>5
  <2> QED BY <2>1
<1> HIDE DEF c
<1> QED BY <1>1, <1>6, <1>7

\* The comments that begin, and those that end, within the first n bytes.
Begun(n) == Mode[n] \in Comment /\ Mode[n-1] \in Code
Ended(n) == Mode[n-1] \in Comment /\ Mode[n] \in Code

BeginAt(n) == IF src[n] = "#" THEN n - 1 ELSE n - 2

BeginsUpto(n) == {BeginAt(k) : k \in {k \in 1 .. n : Begun(k)}}
EndsUpto(n)   == {k \in 1 .. n : Ended(k)}

\* Where the rules are after n bytes.
Reads(n, m, begins, ends) ==
  n \in 0 .. End /\ Mode[n] = m /\ BeginsUpto(n) = begins /\ EndsUpto(n) = ends

LEMMA ReadsOn ==
  ASSUME src \in Seq(Bytes), NEW n, NEW m, NEW B, NEW E, Reads(n, m, B, E), n < End,
         NEW m2, m2 = Step(m, At(n))
  PROVE  Reads(n + 1, m2,
               B \union (IF m \in Code /\ m2 \in Comment THEN {BeginAt(n + 1)} ELSE {}),
               E \union (IF m \in Comment /\ m2 \in Code THEN {n + 1} ELSE {}))
<1>1. End \in Nat /\ n \in Nat /\ n + 1 \in 1 .. End /\ (n + 1) - 1 = n
  BY DEF End, Reads
<1>2. Mode[n + 1] = m2 /\ Mode[n] = m
  BY <1>1, ModeDef DEF Reads, At
<1>3. Begun(n + 1) <=> m \in Code /\ m2 \in Comment
  BY <1>1, <1>2 DEF Begun
<1>4. Ended(n + 1) <=> m \in Comment /\ m2 \in Code
  BY <1>1, <1>2 DEF Ended
<1>5. \A k : k \in 1 .. n + 1 <=> k \in 1 .. n \/ k = n + 1
  BY <1>1
<1>6. BeginsUpto(n + 1) = BeginsUpto(n) \union (IF Begun(n + 1) THEN {BeginAt(n + 1)} ELSE {})
  BY <1>5 DEF BeginsUpto
<1>7. EndsUpto(n + 1) = EndsUpto(n) \union (IF Ended(n + 1) THEN {n + 1} ELSE {})
  BY <1>5 DEF EndsUpto
<1> QED BY <1>1, <1>2, <1>3, <1>4, <1>6, <1>7 DEF Reads

\* What one byte does, of those the scanner tells apart.
LEMMA StepInCode ==
  ASSUME NEW m \in Code, NEW c
  PROVE  /\ c \in Quotes => Step(m, c) = c
         /\ c = "#" => Step(m, c) = "line"
         /\ c = "-" /\ m # "dash" => Step(m, c) = "dash"
         /\ c = "-" /\ m = "dash" => Step(m, c) = "line"
         /\ c = "/" => Step(m, c) = "slash"
         /\ c = "*" /\ m = "slash" => Step(m, c) = "block"
         /\ /\ c \notin Quotes /\ c # "bquote" /\ c # "#"
            /\ ~(c = "-" /\ m = "dash") /\ ~(c = "*" /\ m = "slash")
            => /\ Step(m, c) \in Code
               /\ Step(m, c) = "dash" => c = "-"
               /\ Step(m, c) = "slash" => c = "/"
<1>1. Step(m, c) = InCode(m, c)
  BY DEF Step, Code, Quotes
<1> QED BY <1>1 DEF InCode, Code, Quotes

LEMMA StepInString ==
  ASSUME NEW q \in Quotes, NEW c
  PROVE  /\ c = q => Step(q, c) = "code"
         /\ c # q /\ c = "escape" => Step(q, c) = Escape(q)
         /\ c # q /\ c # "escape" => Step(q, c) = q
         /\ Step(Escape(q), c) = q
BY DEF Step, Quotes, Code, Escape

LEMMA StepInComment ==
  ASSUME NEW c
  PROVE  /\ c = "nl" => Step("line", c) = "code"
         /\ c # "nl" => Step("line", c) = "line"
         /\ c = "*" => Step("block", c) = "star" /\ Step("star", c) = "star"
         /\ c # "*" => Step("block", c) = "block"
         /\ c # "*" /\ c # "/" => Step("star", c) = "block"
         /\ c = "/" => Step("star", c) = "code"
BY DEF Step, Quotes, Code

-----------------------------------------------------------------------------
(* Where the scanner is, by the rules.  Between comments it is where they    *)
(* are in code, and not within two bytes that begin a comment; only a line   *)
(* comment at the end of the text is not behind it for them.  While a        *)
(* comment is open it has begun and those before it have ended.              *)

Offsets == {comments[k].offset : k \in 1 .. Len(comments)}
Tails   == {CommentEnd(comments[k]) : k \in 1 .. Len(comments)}

Between ==
  \E m \in Code :
    /\ Reads(i, m, Offsets, Tails)
    /\ i < End => (m = "dash" => At(i) # "-") /\ (m = "slash" => At(i) # "*")

AfterLast == i = End /\ \E E : Reads(End, "line", Offsets, E) /\ Tails = E \union {End}

ScanAgrees ==
  /\ pc \in {"scan", "done"} => Between \/ AfterLast
  /\ pc = "done" => i = End

StringAgrees ==
  pc = "string" =>
    /\ quote \in Quotes
    /\ i <= End => Reads(i, quote, Offsets, Tails)
    /\ i > End => Reads(End, Escape(quote), Offsets, Tails)

LineAgrees ==
  pc = "line" =>
    /\ At(offset) = "#" \/ (At(offset) = "-" /\ At(offset + 1) = "-")
    /\ Reads(IF i < Opened THEN Opened ELSE i, "line", Offsets \union {offset}, Tails)

BlockAgrees ==
  pc = "block" =>
    \E m \in {"block", "star"} :
      /\ Reads(i, m, Offsets \union {offset}, Tails)
      /\ i < End /\ m = "star" => At(i) # "/"

ErrorAgrees ==
  /\ err = "string" => Mode[End] \notin Code \union Comment
  /\ err = "block" => Mode[End] \in {"block", "star"}

Agreement == ScanAgrees /\ StringAgrees /\ LineAgrees /\ BlockAgrees /\ ErrorAgrees

\* The text stays, and with it all that the rules make of it.
LEMMA ReadsStay ==
  ASSUME src' = src, NEW n, NEW m, NEW B, NEW E
  PROVE  Reads(n, m, B, E)' <=> Reads(n, m, B, E)
BY DEF Reads, Mode, BeginsUpto, EndsUpto, BeginAt, Begun, Ended, End

LEMMA RulesStay ==
  ASSUME src' = src
  PROVE  /\ End' = End /\ Mode' = Mode /\ \A k : At(k)' = At(k)
         /\ comments' = comments => Offsets' = Offsets /\ Tails' = Tails
BY DEF Mode, End, At, Offsets, Tails, CommentEnd

LEMMA InitAgrees == Init => Agreement
<1> SUFFICES ASSUME Init PROVE Agreement
  OBVIOUS
<1>1. src \in Seq(Bytes) /\ End \in Nat
  BY InitInv DEF IInv, End
<1>2. pc = "scan" /\ i = 0 /\ err = "none" /\ Len(comments) = 0
  BY DEF Init
<1>3. Offsets = {} /\ Tails = {}
  BY <1>2 DEF Offsets, Tails
<1>4. BeginsUpto(0) = {} /\ EndsUpto(0) = {}
  BY DEF BeginsUpto, EndsUpto
<1>5. Reads(0, "code", {}, {})
  BY <1>1, <1>4, ModeDef DEF Reads
<1>6. Between
  BY <1>2, <1>3, <1>5 DEF Between, Code
<1> QED BY <1>2, <1>6 DEF Agreement, ScanAgrees, StringAgrees, LineAgrees, BlockAgrees, ErrorAgrees

\* The outer loop is between comments wherever there is text left.
LEMMA ScanBetween ==
  ASSUME IInv, Agreement, pc = "scan", i < End
  PROVE  Between
BY DEF Agreement, ScanAgrees, AfterLast, IInv, TypeOK, End

LEMMA SkipAgrees ==
  ASSUME IInv, Agreement, Skip, "bquote" \notin Bytes
  PROVE  Agreement'
<1>1. /\ pc = "scan" /\ i < End /\ i' = i + 1 /\ src' = src
      /\ UNCHANGED <<pc, offset, comments, err>>
      /\ At(i) \notin Quotes /\ ~BeginsLine /\ ~BeginsBlock
  BY DEF Skip, Goto
<1>2. src \in Seq(Bytes) /\ End \in Nat /\ i \in Nat
  BY DEF IInv, TypeOK, End
<1>3. PICK m \in Code : /\ Reads(i, m, Offsets, Tails)
                        /\ (m = "dash" => At(i) # "-") /\ (m = "slash" => At(i) # "*")
  BY <1>1, ScanBetween DEF Between
<1>4. At(i) \in Bytes
  BY <1>1, <1>2 DEF At, End
<1>5. PICK m2 : m2 = Step(m, At(i))
  OBVIOUS
<1>6. /\ m2 \in Code
      /\ m2 = "dash" => At(i) = "-"
      /\ m2 = "slash" => At(i) = "/"
  BY <1>1, <1>3, <1>4, <1>5, StepInCode DEF BeginsLine
<1>7. m \notin Comment /\ m2 \notin Comment
  BY <1>3, <1>6 DEF Code, Comment
<1>8. Reads(i + 1, m2, Offsets, Tails)
  <2>1. PICK B, E : B = Offsets /\ E = Tails
    OBVIOUS
  <2>2. Reads(i, m, B, E)
    BY <1>3, <2>1
  <2>3. Reads(i + 1, m2, B \union {}, E \union {})
    BY <1>1, <1>2, <1>5, <1>7, <2>2, ReadsOn
  <2> QED BY <2>1, <2>3
<1>9. i + 1 < End => (m2 = "dash" => At(i + 1) # "-") /\ (m2 = "slash" => At(i + 1) # "*")
  BY <1>1, <1>6 DEF BeginsLine, BeginsBlock, IsPair
<1>10. Between'
  <2>1. PICK n, B, E : n = i + 1 /\ B = Offsets /\ E = Tails
    OBVIOUS
  <2>2. Reads(n, m2, B, E)'
    BY <1>1, <1>8, <2>1, ReadsStay
  <2>3. i' = n /\ Offsets' = B /\ Tails' = E /\ End' = End /\ At(n)' = At(n)
    BY <1>1, <2>1, RulesStay
  <2> QED BY <1>6, <1>9, <2>1, <2>2, <2>3 DEF Between
<1> QED BY <1>1, <1>10, RulesStay DEF Agreement, ScanAgrees, StringAgrees, LineAgrees, BlockAgrees, ErrorAgrees

LEMMA OpenStringAgrees ==
  ASSUME IInv, Agreement, OpenString
  PROVE  Agreement'
<1>1. /\ pc = "scan" /\ i < End /\ i' = i + 1 /\ src' = src /\ pc' = "string"
      /\ UNCHANGED <<comments, err>> /\ quote' = At(i) /\ At(i) \in Quotes
  BY DEF OpenString
<1>2. src \in Seq(Bytes) /\ End \in Nat /\ i \in Nat /\ err = "none"
  BY <1>1 DEF IInv, TypeOK, End
<1>3. PICK m \in Code : Reads(i, m, Offsets, Tails)
  BY <1>1, ScanBetween DEF Between
<1>4. PICK n, q, B, E : n = i + 1 /\ q = At(i) /\ B = Offsets /\ E = Tails
  OBVIOUS
<1>5. Reads(n, q, B, E)
  <2>1. Reads(i, m, B, E) /\ q = Step(m, At(i))
    BY <1>1, <1>3, <1>4, StepInCode
  <2>2. m \notin Comment /\ q \notin Comment
    BY <1>1, <1>4 DEF Code, Comment, Quotes
  <2>3. Reads(i + 1, q, B \union {}, E \union {})
    BY <1>1, <1>2, <2>1, <2>2, ReadsOn
  <2> QED BY <1>4, <2>3
<1>6. StringAgrees'
  <2>1. Reads(n, q, B, E)'
    BY <1>1, <1>5, ReadsStay
  <2>2. i' = n /\ quote' = q /\ Offsets' = B /\ Tails' = E /\ End' = End /\ n <= End
    BY <1>1, <1>2, <1>4, RulesStay
  <2> QED BY <1>1, <1>2, <1>4, <2>1, <2>2 DEF StringAgrees
<1> QED BY <1>1, <1>2, <1>6 DEF Agreement, ScanAgrees, LineAgrees, BlockAgrees, ErrorAgrees

LEMMA OpenLineAgrees ==
  ASSUME IInv, Agreement, OpenLine
  PROVE  Agreement'
<1>1. /\ pc = "scan" /\ i < End /\ i' = i /\ offset' = i /\ src' = src /\ pc' = "line"
      /\ UNCHANGED <<comments, err>>
      /\ At(i) = "#" \/ (i + 1 < End /\ At(i) = "-" /\ At(i + 1) = "-")
  BY DEF OpenLine, BeginsLine, IsPair
<1>2. src \in Seq(Bytes) /\ End \in Nat /\ i \in Nat /\ err = "none"
  BY <1>1 DEF IInv, TypeOK, End
<1>3. PICK m \in Code : Reads(i, m, Offsets, Tails) /\ (m = "dash" => At(i) # "-")
  BY <1>1, ScanBetween DEF Between
<1>4. PICK n, o, B, E : /\ n = IF At(i) = "#" THEN i + 1 ELSE i + 2
                        /\ o = i /\ B = Offsets /\ E = Tails
  OBVIOUS
<1>5. Reads(n, "line", B \union {o}, E)
  <2>1. Reads(i, m, B, E)
    BY <1>3, <1>4
  <2>2. "line" \in Comment /\ "line" \notin Code /\ "dash" \notin Comment /\ "dash" \in Code /\ m \notin Comment
    BY DEF Code, Comment
  <2>3. CASE At(i) = "#"
    <3>1. Step(m, At(i)) = "line"
      BY <2>3, StepInCode
    <3>2. Reads(i + 1, "line", B \union {BeginAt(i + 1)}, E \union {})
      BY <1>1, <1>2, <2>1, <2>2, <3>1, ReadsOn
    <3>3. BeginAt(i + 1) = i
      BY <1>2, <2>3 DEF BeginAt, At
    <3> QED BY <1>4, <2>3, <3>2, <3>3
  <2>4. CASE At(i) # "#"
    <3>1. Step(m, At(i)) = "dash" /\ Step("dash", At(i + 1)) = "line"
      BY <1>1, <1>3, <2>2, <2>4, StepInCode
    <3>2. Reads(i + 1, "dash", B \union {}, E \union {})
      BY <1>1, <1>2, <2>1, <2>2, <3>1, ReadsOn
    <3>3. Reads(i + 1, "dash", B, E) /\ i + 1 < End
      BY <1>1, <2>4, <3>2
    <3>4. Reads((i + 1) + 1, "line", B \union {BeginAt((i + 1) + 1)}, E \union {})
      BY <1>2, <2>2, <3>1, <3>3, ReadsOn
    <3>5. (i + 1) + 1 = i + 2 /\ BeginAt(i + 2) = i
      BY <1>1, <1>2, <2>4 DEF BeginAt, At
    <3> QED BY <1>4, <2>4, <3>4, <3>5
  <2> QED BY <2>3, <2>4
<1>6. LineAgrees'
  <2>1. Reads(n, "line", B \union {o}, E)'
    BY <1>1, <1>5, ReadsStay
  <2>2. At(i)' = At(i) /\ At(i + 1)' = At(i + 1)
    BY <1>1 DEF At
  <2>3. /\ i' = o /\ offset' = o /\ Offsets' = B /\ Tails' = E
        /\ At(offset)' = At(i) /\ At(offset + 1)' = At(i + 1)
        /\ Opened' = n /\ o < n
    <3>1. At(offset)' = At(i) /\ At(offset + 1)' = At(i + 1)
      BY <1>1 DEF At
    <3>2. Opened' = n
      BY <1>1, <1>2, <1>4, <3>1 DEF Opened
    <3> QED BY <1>1, <1>2, <1>4, <3>1, <3>2, RulesStay
  <2> QED BY <1>1, <2>1, <2>3 DEF LineAgrees
<1> QED BY <1>1, <1>2, <1>6 DEF Agreement, ScanAgrees, StringAgrees, BlockAgrees, ErrorAgrees

LEMMA OpenBlockAgrees ==
  ASSUME IInv, Agreement, OpenBlock
  PROVE  Agreement'
<1>1. /\ pc = "scan" /\ i < End /\ i' = i + 2 /\ offset' = i /\ src' = src /\ pc' = "block"
      /\ UNCHANGED <<comments, err>>
      /\ i + 1 < End /\ At(i) = "/" /\ At(i + 1) = "*"
  BY DEF OpenBlock, BeginsBlock, IsPair
<1>2. src \in Seq(Bytes) /\ End \in Nat /\ i \in Nat /\ err = "none"
  BY <1>1 DEF IInv, TypeOK, End
<1>3. PICK m \in Code : Reads(i, m, Offsets, Tails)
  BY <1>1, ScanBetween DEF Between
<1>4. PICK n, o, B, E : n = i + 2 /\ o = i /\ B = Offsets /\ E = Tails
  OBVIOUS
<1>5. Reads(n, "block", B \union {o}, E)
  <2>1. Reads(i, m, B, E)
    BY <1>3, <1>4
  <2>2. "block" \in Comment /\ "block" \notin Code /\ "slash" \notin Comment /\ "slash" \in Code /\ m \notin Comment
    BY DEF Code, Comment
  <2>3. Step(m, At(i)) = "slash" /\ Step("slash", At(i + 1)) = "block"
    BY <1>1, <2>2, StepInCode
  <2>4. Reads(i + 1, "slash", B \union {}, E \union {})
    BY <1>1, <1>2, <2>1, <2>2, <2>3, ReadsOn
  <2>5. Reads(i + 1, "slash", B, E)
    BY <2>4
  <2>6. Reads((i + 1) + 1, "block", B \union {BeginAt((i + 1) + 1)}, E \union {})
    BY <1>1, <1>2, <2>2, <2>3, <2>5, ReadsOn
  <2>7. (i + 1) + 1 = i + 2 /\ BeginAt(i + 2) = i
    BY <1>1, <1>2 DEF BeginAt, At
  <2> QED BY <1>4, <2>6, <2>7
<1>6. BlockAgrees'
  <2>1. Reads(n, "block", B \union {o}, E)'
    BY <1>1, <1>5, ReadsStay
  <2>2. i' = n /\ offset' = o /\ Offsets' = B /\ Tails' = E
    BY <1>1, <1>4, RulesStay
  <2> QED BY <2>1, <2>2 DEF BlockAgrees
<1> QED BY <1>1, <1>2, <1>6 DEF Agreement, ScanAgrees, StringAgrees, LineAgrees, ErrorAgrees

LEMMA BetweenStays ==
  ASSUME UNCHANGED <<src, i, comments>>
  PROVE  (Between' <=> Between) /\ (AfterLast' <=> AfterLast)
<1>1. Between' <=> Between
  <2>1. PICK n, B, E : n = i /\ B = Offsets /\ E = Tails
    OBVIOUS
  <2>2. \A m : Reads(n, m, B, E)' <=> Reads(n, m, B, E)
    BY ReadsStay
  <2>3. i' = n /\ Offsets' = B /\ Tails' = E /\ End' = End /\ At(i)' = At(i)
    BY <2>1, RulesStay DEF At
  <2> QED BY <2>1, <2>2, <2>3 DEF Between
<1>2. AfterLast' <=> AfterLast
  <2>1. PICK n, B : n = End /\ B = Offsets
    OBVIOUS
  <2>2. \A E : Reads(n, "line", B, E)' <=> Reads(n, "line", B, E)
    BY ReadsStay
  <2>3. i' = i /\ Offsets' = B /\ Tails' = Tails /\ End' = n
    BY <2>1, RulesStay
  <2> QED BY <2>1, <2>2, <2>3 DEF AfterLast
<1> QED BY <1>1, <1>2

LEMMA ReturnAgrees ==
  ASSUME IInv, Agreement, Return
  PROVE  Agreement'
<1>1. /\ pc = "scan" /\ pc' = "done" /\ UNCHANGED <<src, i, quote, offset, comments, err>>
      /\ i = End
  BY DEF Return, IInv, TypeOK, Progress, End
<1>2. (Between' <=> Between) /\ (AfterLast' <=> AfterLast)
  BY <1>1, BetweenStays
<1>3. Mode' = Mode /\ End' = End
  BY <1>1, RulesStay
<1> QED BY <1>1, <1>2, <1>3 DEF Agreement, ScanAgrees, StringAgrees, LineAgrees, BlockAgrees, ErrorAgrees

LEMMA CloseStringAgrees ==
  ASSUME IInv, Agreement, CloseString
  PROVE  Agreement'
<1>1. /\ pc = "string" /\ i < End /\ i' = i + 1 /\ src' = src /\ pc' = "scan"
      /\ UNCHANGED <<comments, err>> /\ At(i) = quote
  BY DEF CloseString
<1>2. src \in Seq(Bytes) /\ End \in Nat /\ i \in Nat /\ err = "none"
  BY <1>1 DEF IInv, TypeOK, End
<1>3. quote \in Quotes /\ Reads(i, quote, Offsets, Tails)
  BY <1>1, <1>2 DEF Agreement, StringAgrees
<1>4. PICK n, B, E : n = i + 1 /\ B = Offsets /\ E = Tails
  OBVIOUS
<1>5. Reads(n, "code", B, E)
  <2>1. Reads(i, quote, B, E) /\ Step(quote, At(i)) = "code"
    BY <1>1, <1>3, <1>4, StepInString
  <2>2. quote \notin Comment /\ "code" \notin Comment
    BY <1>3 DEF Comment, Quotes
  <2>3. Reads(i + 1, "code", B \union {}, E \union {})
    BY <1>1, <1>2, <2>1, <2>2, ReadsOn
  <2> QED BY <1>4, <2>3
<1>6. Between'
  <2>1. Reads(n, "code", B, E)'
    BY <1>1, <1>5, ReadsStay
  <2>2. i' = n /\ Offsets' = B /\ Tails' = E
    BY <1>1, <1>4, RulesStay
  <2> QED BY <2>1, <2>2 DEF Between, Code
<1> QED BY <1>1, <1>2, <1>6 DEF Agreement, ScanAgrees, StringAgrees, LineAgrees, BlockAgrees, ErrorAgrees

LEMMA InStringAgrees ==
  ASSUME IInv, Agreement, InString
  PROVE  Agreement'
<1>1. /\ pc = "string" /\ i < End /\ src' = src
      /\ i' = IF At(i) = "escape" THEN i + 2 ELSE i + 1
      /\ UNCHANGED <<pc, quote, comments, err>> /\ At(i) # quote
  BY DEF InString, Goto
<1>2. src \in Seq(Bytes) /\ End \in Nat /\ i \in Nat /\ err = "none"
  BY <1>1 DEF IInv, TypeOK, End
<1>3. quote \in Quotes /\ Reads(i, quote, Offsets, Tails)
  BY <1>1, <1>2 DEF Agreement, StringAgrees
<1>4. PICK n, q, B, E : n = i' /\ q = quote /\ B = Offsets /\ E = Tails
  OBVIOUS
<1>5. Reads(i, q, B, E) /\ q \in Quotes /\ q \notin Comment /\ Escape(q) \notin Comment
  BY <1>3, <1>4 DEF Comment, Quotes, Escape
<1>6. /\ n <= End => Reads(n, q, B, E)
      /\ n > End => Reads(End, Escape(q), B, E)
  <2>1. CASE At(i) = "escape"
    <3>1. Step(q, At(i)) = Escape(q) /\ Step(Escape(q), At(i + 1)) = q
      BY <1>1, <1>4, <1>5, <2>1, StepInString
    <3>2. Reads(i + 1, Escape(q), B \union {}, E \union {})
      BY <1>1, <1>2, <1>5, <3>1, ReadsOn
    <3>3. Reads(i + 1, Escape(q), B, E)
      BY <3>2
    <3>4. CASE i + 1 < End
      <4>1. Reads((i + 1) + 1, q, B \union {}, E \union {})
        BY <1>2, <1>5, <3>1, <3>3, <3>4, ReadsOn
      <4>2. (i + 1) + 1 = n /\ n <= End
        BY <1>1, <1>2, <1>4, <2>1, <3>4
      <4> QED BY <1>2, <4>1, <4>2
    <3>5. CASE ~(i + 1 < End)
      <4>1. i + 1 = End /\ n > End /\ n \in Nat
        BY <1>1, <1>2, <1>4, <2>1, <3>5
      <4> QED BY <1>2, <3>3, <4>1
    <3> QED BY <3>4, <3>5
  <2>2. CASE At(i) # "escape"
    <3>1. Step(q, At(i)) = q
      BY <1>1, <1>4, <1>5, <2>2, StepInString
    <3>2. Reads(i + 1, q, B \union {}, E \union {})
      BY <1>1, <1>2, <1>5, <3>1, ReadsOn
    <3>3. n = i + 1 /\ n <= End
      BY <1>1, <1>2, <1>4, <2>2
    <3> QED BY <1>2, <3>2, <3>3
  <2> QED BY <2>1, <2>2
<1>7. StringAgrees'
  <2>1. PICK e : e = End
    OBVIOUS
  <2>2. /\ Reads(n, q, B, E)' <=> Reads(n, q, B, E)
        /\ Reads(e, Escape(q), B, E)' <=> Reads(e, Escape(q), B, E)
    BY <1>1, ReadsStay
  <2>3. i' = n /\ quote' = q /\ Offsets' = B /\ Tails' = E /\ End' = e
    BY <1>1, <1>4, <2>1, RulesStay
  <2>4. Escape(quote)' = Escape(q)
    BY <2>3 DEF Escape
  <2> QED BY <1>5, <1>6, <2>1, <2>2, <2>3, <2>4 DEF StringAgrees
<1> QED BY <1>1, <1>2, <1>7 DEF Agreement, ScanAgrees, LineAgrees, BlockAgrees, ErrorAgrees

LEMMA BadStringAgrees ==
  ASSUME IInv, Agreement, BadString
  PROVE  Agreement'
<1>1. pc = "string" /\ i >= End /\ pc' = "failed" /\ err' = "string" /\ src' = src
  BY DEF BadString, Error
<1>2. End \in Nat /\ i \in Nat
  BY DEF IInv, TypeOK, End
<1>3. quote \in Quotes /\ (Mode[End] = quote \/ Mode[End] = Escape(quote))
  <2>1. i = End \/ i > End
    BY <1>1, <1>2
  <2> QED BY <1>1, <1>2, <2>1 DEF Agreement, StringAgrees, Reads
<1>4. Mode[End] \notin Code \union Comment
  BY <1>3 DEF Quotes, Escape, Code, Comment
<1>5. Mode' = Mode /\ End' = End
  BY <1>1, RulesStay
<1> QED BY <1>1, <1>4, <1>5 DEF Agreement, ScanAgrees, StringAgrees, LineAgrees, BlockAgrees, ErrorAgrees

LEMMA BadBlockAgrees ==
  ASSUME IInv, Agreement, BadBlock
  PROVE  Agreement'
<1>1. pc = "block" /\ i >= End /\ pc' = "failed" /\ err' = "block" /\ src' = src
  BY DEF BadBlock, Error
<1>2. End \in Nat /\ i \in Nat /\ i <= End
  BY <1>1 DEF IInv, TypeOK, Progress, End
<1>3. i = End
  BY <1>1, <1>2
<1>4. Mode[End] \in {"block", "star"}
  BY <1>1, <1>3 DEF Agreement, BlockAgrees, Reads
<1>5. Mode' = Mode /\ End' = End
  BY <1>1, RulesStay
<1> QED BY <1>1, <1>4, <1>5 DEF Agreement, ScanAgrees, StringAgrees, LineAgrees, BlockAgrees, ErrorAgrees

\* Within a line comment, past its sign: neither of the two dashes ends the line.
LEMMA LineOpened ==
  ASSUME IInv, Agreement, pc = "line", i < Opened
  PROVE  At(i) # "nl"
<1>1. At(offset) = "#" \/ (At(offset) = "-" /\ At(offset + 1) = "-")
  BY DEF Agreement, LineAgrees
<1>2. i \in Nat /\ offset \in Nat /\ offset <= i
  BY DEF IInv, TypeOK, InComment, End
<1>3. i = offset \/ (i = offset + 1 /\ At(offset) # "#")
  BY <1>2 DEF Opened
<1>4. CASE At(offset) = "#"
  BY <1>3, <1>4
<1>5. CASE At(offset) # "#"
  BY <1>1, <1>3, <1>5
<1> QED BY <1>4, <1>5

LEMMA InLineAgrees ==
  ASSUME IInv, Agreement, InLine
  PROVE  Agreement'
<1>1. /\ pc = "line" /\ i < End /\ i' = i + 1 /\ src' = src
      /\ UNCHANGED <<pc, offset, comments, err>> /\ At(i) # "nl"
  BY DEF InLine, Goto
<1>2. src \in Seq(Bytes) /\ End \in Nat /\ i \in Nat /\ err = "none" /\ offset \in Nat
  BY <1>1 DEF IInv, TypeOK, End
<1>3. /\ At(offset) = "#" \/ (At(offset) = "-" /\ At(offset + 1) = "-")
      /\ Reads(IF i < Opened THEN Opened ELSE i, "line", Offsets \union {offset}, Tails)
  BY <1>1 DEF Agreement, LineAgrees
<1>4. PICK n, o, B, E : /\ n = IF i + 1 < Opened THEN Opened ELSE i + 1
                        /\ o = offset /\ B = Offsets /\ E = Tails
  OBVIOUS
<1>5. Opened \in Nat
  BY <1>2 DEF Opened
<1>6. Reads(n, "line", B \union {o}, E)
  <2>1. CASE i < Opened
    <3>1. n = Opened
      BY <1>2, <1>4, <1>5, <2>1
    <3> QED BY <1>3, <1>4, <2>1, <3>1
  <2>2. CASE ~(i < Opened)
    <3>1. Reads(i, "line", B \union {o}, E) /\ n = i + 1
      BY <1>2, <1>3, <1>4, <1>5, <2>2
    <3>2. Step("line", At(i)) = "line" /\ "line" \notin Code
      BY <1>1, StepInComment DEF Code
    <3>3. Reads(i + 1, "line", (B \union {o}) \union {}, E \union {})
      BY <1>1, <1>2, <3>1, <3>2, ReadsOn
    <3> QED BY <3>1, <3>3
  <2> QED BY <2>1, <2>2
<1>7. LineAgrees'
  <2>1. Reads(n, "line", B \union {o}, E)'
    BY <1>1, <1>6, ReadsStay
  <2>2. Opened' = Opened /\ At(offset)' = At(offset) /\ At(offset + 1)' = At(offset + 1)
    BY <1>1 DEF Opened, At
  <2>3. /\ offset' = o /\ Offsets' = B /\ Tails' = E
        /\ (IF i < Opened THEN Opened ELSE i)' = n
    BY <1>1, <1>4, <2>2, RulesStay
  <2> QED BY <1>3, <2>1, <2>2, <2>3 DEF LineAgrees
<1> QED BY <1>1, <1>2, <1>7 DEF Agreement, ScanAgrees, StringAgrees, BlockAgrees, ErrorAgrees

LEMMA InBlockAgrees ==
  ASSUME IInv, Agreement, InBlock
  PROVE  Agreement'
<1>1. /\ pc = "block" /\ i < End /\ i' = i + 1 /\ src' = src
      /\ UNCHANGED <<pc, offset, comments, err>> /\ ~ClosesBlock
  BY DEF InBlock, Goto
<1>2. src \in Seq(Bytes) /\ End \in Nat /\ i \in Nat /\ err = "none"
  BY <1>1 DEF IInv, TypeOK, End
<1>3. PICK m \in {"block", "star"} : /\ Reads(i, m, Offsets \union {offset}, Tails)
                                     /\ m = "star" => At(i) # "/"
  BY <1>1 DEF Agreement, BlockAgrees
<1>4. PICK n, o, B, E : n = i + 1 /\ o = offset /\ B = Offsets /\ E = Tails
  OBVIOUS
<1>5. PICK m2 : m2 = Step(m, At(i))
  OBVIOUS
<1>6. m2 \in {"block", "star"} /\ (m2 = "star" => At(i) = "*")
  BY <1>3, <1>5, StepInComment
<1>7. Reads(n, m2, B \union {o}, E)
  <2>1. Reads(i, m, B \union {o}, E)
    BY <1>3, <1>4
  <2>2. m \notin Code /\ m2 \notin Code
    BY <1>6 DEF Code
  <2>3. Reads(i + 1, m2, (B \union {o}) \union {}, E \union {})
    BY <1>1, <1>2, <1>5, <2>1, <2>2, ReadsOn
  <2> QED BY <1>4, <2>3
<1>8. i + 1 < End /\ m2 = "star" => At(i + 1) # "/"
  BY <1>1, <1>6 DEF ClosesBlock, IsPair
<1>9. BlockAgrees'
  <2>1. Reads(n, m2, B \union {o}, E)'
    BY <1>1, <1>7, ReadsStay
  <2>2. i' = n /\ offset' = o /\ Offsets' = B /\ Tails' = E /\ End' = End /\ At(n)' = At(n)
    BY <1>1, <1>4, RulesStay
  <2> QED BY <1>4, <1>6, <1>8, <2>1, <2>2 DEF BlockAgrees
<1> QED BY <1>1, <1>2, <1>9 DEF Agreement, ScanAgrees, StringAgrees, LineAgrees, ErrorAgrees

\* By the rules the open comment ends at k: there, or as the text does.
Closes(k) ==
  \/ Reads(k, "code", Offsets \union {offset}, Tails \union {k})
  \/ k = End /\ Reads(k, "line", Offsets \union {offset}, Tails)

\* A comment that ends at k has been recorded.
LEMMA Recorded ==
  ASSUME IInv, NEW k \in Nat, NEW from, NEW to, pc \in {"line", "block"}, addComment(k, from, to),
         Closes(k)
  PROVE  Agreement'
<1>1. i' = k /\ src' = src /\ End \in Nat /\ offset \in Nat /\ comments \in Seq(Found) /\ err = "none"
  BY DEF addComment, IInv, TypeOK, End
<1>2. Mode' = Mode /\ End' = End
  BY <1>1, RulesStay
<1>3. CASE pc' = "failed"
  <2>1. err' = "annotation"
    BY <1>3 DEF addComment
  <2> QED BY <1>3, <2>1 DEF Agreement, ScanAgrees, StringAgrees, LineAgrees, BlockAgrees, ErrorAgrees
<1>4. CASE pc' = "scan"
  <2> DEFINE c == [offset |-> offset, length |-> k - offset, from |-> from, to |-> to]
  <2>1. comments' = Append(comments, c) /\ err' = "none"
    BY <1>1, <1>4 DEF addComment
  <2>2. c.offset = offset /\ CommentEnd(c) = k
    BY <1>1 DEF CommentEnd
  <2>3. /\ Len(comments') = Len(comments) + 1 /\ Len(comments) \in Nat
        /\ \A j \in 1 .. Len(comments) : comments'[j] = comments[j]
        /\ comments'[Len(comments) + 1] = c
    BY <1>1, <2>1
  <2>4. \A j : j \in 1 .. Len(comments) + 1 <=> j \in 1 .. Len(comments) \/ j = Len(comments) + 1
    BY <2>3
  <2>5. Offsets' = Offsets \union {offset}
    <3> HIDE DEF c
    <3> QED BY <2>2, <2>3, <2>4 DEF Offsets
  <2>6. Tails' = Tails \union {k}
    <3>1. Tails' = {CommentEnd(comments'[j]) : j \in 1 .. Len(comments')}
      BY DEF Tails, CommentEnd
    <3> HIDE DEF c
    <3> QED BY <2>2, <2>3, <2>4, <3>1 DEF Tails
  <2>7. PICK n, o, B, E : n = k /\ o = offset /\ B = Offsets /\ E = Tails
    OBVIOUS
  <2>8. CASE Reads(k, "code", Offsets \union {offset}, Tails \union {k})
    <3>1. Reads(n, "code", B \union {o}, E \union {n})'
      BY <1>1, <2>7, <2>8, ReadsStay
    <3>2. i' = n /\ Offsets' = B \union {o} /\ Tails' = E \union {n}
      BY <1>1, <2>5, <2>6, <2>7
    <3>3. Between'
      BY <3>1, <3>2 DEF Between, Code
    <3> QED BY <1>4, <2>1, <3>3 DEF Agreement, ScanAgrees, StringAgrees, LineAgrees, BlockAgrees, ErrorAgrees
  <2>9. CASE k = End /\ Reads(k, "line", Offsets \union {offset}, Tails)
    <3>1. Reads(n, "line", B \union {o}, E)'
      BY <1>1, <2>7, <2>9, ReadsStay
    <3>2. i' = n /\ End' = n /\ Offsets' = B \union {o} /\ Tails' = E \union {n}
      BY <1>1, <1>2, <2>5, <2>6, <2>7, <2>9
    <3>3. AfterLast'
      BY <3>1, <3>2 DEF AfterLast
    <3> QED BY <1>4, <2>1, <3>3 DEF Agreement, ScanAgrees, StringAgrees, LineAgrees, BlockAgrees, ErrorAgrees
  <2> QED BY <2>8, <2>9 DEF Closes
<1> QED BY <1>3, <1>4 DEF addComment

LEMMA CloseLineAgrees ==
  ASSUME IInv, Agreement, CloseLine
  PROVE  Agreement'
<1>1. pc = "line" /\ i < End /\ At(i) = "nl" /\ addComment(i + 1, Opened, i + 1)
  BY DEF CloseLine
<1>2. src \in Seq(Bytes) /\ End \in Nat /\ i \in Nat /\ offset \in Nat /\ Opened \in Nat
  BY DEF IInv, TypeOK, End, Opened
<1>3. ~(i < Opened)
  BY <1>1, LineOpened
<1>4. Reads(i, "line", Offsets \union {offset}, Tails)
  BY <1>1, <1>3 DEF Agreement, LineAgrees
<1>5. Step("line", At(i)) = "code" /\ "line" \in Comment /\ "line" \notin Code /\ "code" \in Code
  BY <1>1, StepInComment DEF Code, Comment
<1>6. Reads(i + 1, "code", (Offsets \union {offset}) \union {}, Tails \union {i + 1})
  BY <1>1, <1>2, <1>4, <1>5, ReadsOn
<1>7. Reads(i + 1, "code", Offsets \union {offset}, Tails \union {i + 1})
  BY <1>6
<1>8. PICK k, f : k = i + 1 /\ f = Opened
  OBVIOUS
<1>9. k \in Nat /\ pc \in {"line", "block"} /\ addComment(k, f, k)
  BY <1>1, <1>2, <1>8
<1>10. Closes(k)
  BY <1>7, <1>8 DEF Closes
<1> QED BY <1>9, <1>10, Recorded

LEMMA EndOfTextAgrees ==
  ASSUME IInv, Agreement, EndOfText
  PROVE  Agreement'
<1>1. pc = "line" /\ i >= End /\ addComment(i, Opened, i)
  BY DEF EndOfText
<1>2. End \in Nat /\ i \in Nat /\ offset \in Nat /\ Opened \in Nat /\ i <= End
  BY <1>1 DEF IInv, TypeOK, Progress, End, Opened
<1>3. i = End
  BY <1>1, <1>2
<1>4. Opened <= End
  BY <1>1, <1>2 DEF IInv, InComment, Opened
<1>5. Reads(i, "line", Offsets \union {offset}, Tails)
  <2>1. ~(i < Opened)
    BY <1>2, <1>3, <1>4
  <2> QED BY <1>1, <2>1 DEF Agreement, LineAgrees
<1>6. PICK k, f : k = i /\ f = Opened
  OBVIOUS
<1>7. k \in Nat /\ pc \in {"line", "block"} /\ addComment(k, f, k)
  BY <1>1, <1>2, <1>6
<1>8. Closes(k)
  BY <1>3, <1>5, <1>6 DEF Closes
<1> QED BY <1>7, <1>8, Recorded

LEMMA CloseBlockAgrees ==
  ASSUME IInv, Agreement, CloseBlock
  PROVE  Agreement'
<1>1. /\ pc = "block" /\ i < End /\ i + 1 < End /\ At(i) = "*" /\ At(i + 1) = "/"
      /\ addComment(i + 2, Opened, i)
  BY DEF CloseBlock, ClosesBlock, IsPair
<1>2. src \in Seq(Bytes) /\ End \in Nat /\ i \in Nat
  BY DEF IInv, TypeOK, End
<1>3. PICK m \in {"block", "star"} : Reads(i, m, Offsets \union {offset}, Tails)
  BY <1>1 DEF Agreement, BlockAgrees
<1>4. Step(m, At(i)) = "star" /\ Step("star", At(i + 1)) = "code"
  BY <1>1, <1>3, StepInComment
<1>5. m \notin Code /\ "star" \notin Code /\ "star" \in Comment /\ "code" \notin Comment /\ "code" \in Code
  BY DEF Code, Comment
<1>6. Reads(i + 1, "star", (Offsets \union {offset}) \union {}, Tails \union {})
  BY <1>1, <1>2, <1>3, <1>4, <1>5, ReadsOn
<1>7. Reads(i + 1, "star", Offsets \union {offset}, Tails)
  BY <1>6
<1>8. Reads((i + 1) + 1, "code", (Offsets \union {offset}) \union {}, Tails \union {(i + 1) + 1})
  BY <1>1, <1>2, <1>4, <1>5, <1>7, ReadsOn
<1>9. (i + 1) + 1 = i + 2 /\ i + 2 \in Nat
  BY <1>2
<1>10. Closes(i + 2)
  BY <1>8, <1>9 DEF Closes
<1> QED BY <1>1, <1>9, <1>10, Recorded

LEMMA StutterAgrees ==
  ASSUME Agreement, UNCHANGED vars
  PROVE  Agreement'
<1>1. UNCHANGED <<src, i, pc, quote, offset, comments, err>>
  BY DEF vars
<1>2. PICK B, E, n, e, q, o, l :
        /\ B = Offsets /\ E = Tails /\ n = i /\ e = End /\ q = quote /\ o = offset
        /\ l = IF i < Opened THEN Opened ELSE i
  OBVIOUS
<1>3. /\ Offsets' = B /\ Tails' = E /\ i' = n /\ End' = e /\ quote' = q /\ offset' = o
      /\ Mode' = Mode /\ At(n)' = At(n) /\ At(o)' = At(o) /\ At(o + 1)' = At(o + 1)
  BY <1>1, <1>2, RulesStay
<1>4. \A x, m, b, t : Reads(x, m, b, t)' <=> Reads(x, m, b, t)
  BY <1>1, ReadsStay
<1>5. ScanAgrees'
  BY <1>1, BetweenStays, RulesStay DEF Agreement, ScanAgrees
<1>6. StringAgrees'
  <2>1. Escape(quote)' = Escape(q)
    BY <1>3 DEF Escape
  <2> QED BY <1>1, <1>2, <1>3, <1>4, <2>1 DEF Agreement, StringAgrees
<1>7. LineAgrees'
  <2>1. (IF i < Opened THEN Opened ELSE i)' = l
    BY <1>1, <1>2 DEF Opened, At
  <2>2. At(offset)' = At(o) /\ At(offset + 1)' = At(o + 1)
    BY <1>1, <1>2 DEF At
  <2> QED BY <1>1, <1>2, <1>3, <1>4, <2>1, <2>2 DEF Agreement, LineAgrees
<1>8. BlockAgrees'
  BY <1>1, <1>2, <1>3, <1>4 DEF Agreement, BlockAgrees, At
<1>9. ErrorAgrees'
  BY <1>1, <1>2, <1>3 DEF Agreement, ErrorAgrees
<1> QED BY <1>5, <1>6, <1>7, <1>8, <1>9 DEF Agreement

\* No step of any loop parts the scanner from the rules, in a text without backquotes.
LEMMA Agrees == ASSUME "bquote" \notin Bytes PROVE Spec => []Agreement
<1>1. IInv /\ Agreement /\ [Next]_vars => Agreement'
  <2> SUFFICES ASSUME IInv, Agreement, [Next]_vars PROVE Agreement'
    OBVIOUS
  <2>1. CASE Scan
    BY <2>1, SkipAgrees, OpenStringAgrees, OpenLineAgrees, OpenBlockAgrees, ReturnAgrees,
       CloseStringAgrees, InStringAgrees, BadStringAgrees, InLineAgrees, CloseLineAgrees,
       EndOfTextAgrees, InBlockAgrees, CloseBlockAgrees, BadBlockAgrees
    DEF Scan
  <2>2. CASE UNCHANGED vars
    BY <2>2, StutterAgrees
  <2> QED BY <2>1, <2>2 DEF Next, Stop
<1> QED BY InitAgrees, Inductive, <1>1, PTL DEF Spec

\* In every text without backquotes, of whatever length, ScanComment finds the
\* comments that the lexical rules of SQL know, and no others, and refuses a text
\* only for the string or comment that is open at its end (comment.go:64-125).
THEOREM CommentsFound == ASSUME "bquote" \notin Bytes PROVE Spec => []FindsComments
<1>1. IInv /\ Agreement => FindsComments
  <2> SUFFICES ASSUME IInv, Agreement PROVE FindsComments
    OBVIOUS
  <2>1. End \in Nat /\ i \in Nat
    BY DEF IInv, TypeOK, End
  <2>2. ASSUME pc = "done"
        PROVE  Offsets = Begins /\ Tails = Ends /\ Mode[End] \in Code \union {"line"}
    <3>1. i = End /\ (Between \/ AfterLast)
      BY <2>2 DEF Agreement, ScanAgrees
    <3>2. BeginsUpto(End) = Begins
      BY DEF BeginsUpto, Begins, BeginAt, Begun
    <3>3. Ends = EndsUpto(End) \union (IF Mode[End] = "line" THEN {End} ELSE {})
      BY DEF EndsUpto, Ends, Ended
    <3>4. CASE AfterLast
      BY <3>2, <3>3, <3>4 DEF AfterLast, Reads
    <3>5. CASE Between /\ i = End
      <4>1. Mode[End] \in Code /\ Mode[End] # "line" /\ Offsets = BeginsUpto(End) /\ Tails = EndsUpto(End)
        BY <3>5 DEF Between, Reads, Code
      <4> QED BY <3>2, <3>3, <4>1
    <3> QED BY <3>1, <3>4, <3>5
  <2> QED BY <2>2 DEF FindsComments, Offsets, Tails, Agreement, ErrorAgrees
<1> QED BY Inductive, Agrees, <1>1, PTL
=============================================================================
