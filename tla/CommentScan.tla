---------------------------- MODULE CommentScan -----------------------------
(***************************************************************************)
(* Finding the comments of a SQL text (annot/comment.go, ScanComment).     *)
(*                                                                         *)
(* The scanner walks the bytes of the text with one index, skipping string *)
(* literals, and records where each comment lies.  NewAnnotMeta then cuts  *)
(* the text at the places recorded (annots.go:243,277), with slices that   *)
(* panic if those are out of order or out of range; the content of each    *)
(* comment is sliced out of the text too.                                  *)
(*                                                                         *)
(* A byte is one of the few the scanner tells apart, by its sign or by a   *)
(* name: squote, dquote and bquote, escape (a backslash), nl (a line feed). *)
(* The index i counts from 0 as in the code; src[i] there is src[i+1] here. *)
(* Whether the annotation in a comment is well formed is left open: to     *)
(* record a comment may fail.                                              *)
(***************************************************************************)
EXTENDS Integers, Sequences

CONSTANTS
  Bytes,     \* bytes that occur in texts
  MaxLen     \* length of the texts considered

ASSUME CommentScanAssumption == MaxLen \in Nat

VARIABLES
  src,       \* the text
  i,         \* next byte to look at
  pc,        \* which loop of ScanComment is running
  quote,     \* the quote a string literal began with
  offset,    \* where the comment being scanned began
  comments,  \* comments found: where each begins, its length, its content
  err        \* the error returned, if any

vars == <<src, i, pc, quote, offset, comments, err>>

Quotes == {"squote", "dquote"}

At(k) == src[k + 1]
End   == Len(src)

\* The two bytes at i.
IsPair(a, b) == i + 1 < End /\ At(i) = a /\ At(i + 1) = b

Texts == UNION {[1 .. n -> Bytes] : n \in 0 .. MaxLen}

Init ==
  /\ src \in Texts
  /\ i = 0
  /\ pc = "scan"
  /\ quote = "" /\ offset = 0
  /\ comments = <<>>
  /\ err = "none"

Error(e) ==
  /\ pc' = "failed" /\ err' = e
  /\ UNCHANGED <<src, i, quote, offset, comments>>

\* The scanner is at k, past a comment whose content is src[from:to]: addComment,
\* then back to the outer loop.
addComment(k, from, to) ==
  /\ i' = k
  /\ UNCHANGED <<src, quote, offset>>
  /\ \/ /\ comments' = Append(comments, [offset |-> offset, length |-> k - offset,
                                         from |-> from, to |-> to])
        /\ pc' = "scan"
        /\ UNCHANGED err
     \/ /\ pc' = "failed" /\ err' = "annotation"
        /\ UNCHANGED comments

Goto(k) ==
  /\ i' = k
  /\ UNCHANGED <<src, pc, quote, offset, comments, err>>

-----------------------------------------------------------------------------
(* The outer loop.                                                         *)

BeginsLine  == At(i) = "#" \/ IsPair("-", "-")
BeginsBlock == IsPair("/", "*")

Skip ==
  /\ pc = "scan" /\ i < End
  /\ At(i) \notin Quotes /\ ~BeginsLine /\ ~BeginsBlock
  /\ Goto(i + 1)

OpenString ==
  /\ pc = "scan" /\ i < End /\ At(i) \in Quotes
  /\ quote' = At(i)
  /\ i' = i + 1
  /\ pc' = "string"
  /\ UNCHANGED <<src, offset, comments, err>>

OpenLine ==
  /\ pc = "scan" /\ i < End /\ BeginsLine
  /\ offset' = i
  /\ pc' = "line"
  /\ UNCHANGED <<src, i, quote, comments, err>>

OpenBlock ==
  /\ pc = "scan" /\ i < End /\ BeginsBlock
  /\ offset' = i
  /\ i' = i + 2
  /\ pc' = "block"
  /\ UNCHANGED <<src, quote, comments, err>>

Return ==
  /\ pc = "scan" /\ i >= End
  /\ pc' = "done"
  /\ UNCHANGED <<src, i, quote, offset, comments, err>>

-----------------------------------------------------------------------------
(* The inner loops.                                                        *)

CloseString ==
  /\ pc = "string" /\ i < End /\ At(i) = quote
  /\ i' = i + 1
  /\ pc' = "scan"
  /\ UNCHANGED <<src, quote, offset, comments, err>>

\* A backslash takes the next byte with it.
InString ==
  /\ pc = "string" /\ i < End /\ At(i) # quote
  /\ Goto(IF At(i) = "escape" THEN i + 2 ELSE i + 1)

BadString ==
  /\ pc = "string" /\ i >= End
  /\ Error("string")

InLine ==
  /\ pc = "line" /\ i < End /\ At(i) # "nl"
  /\ Goto(i + 1)

\* Where the content of a comment begins.
Opened == offset + (IF At(offset) = "#" THEN 1 ELSE 2)

\* The end of the line is part of the comment.
CloseLine ==
  /\ pc = "line" /\ i < End /\ At(i) = "nl"
  /\ addComment(i + 1, Opened, i + 1)

\* Mutated: the text is taken to end in a line break.
EndOfTextPast ==
  /\ pc = "line" /\ i >= End
  /\ addComment(i + 1, Opened, i + 1)

EndOfText ==
  /\ pc = "line" /\ i >= End
  /\ addComment(i, Opened, i)

ClosesBlock == IsPair("*", "/")

\* Mutated: the search stays at a star that closes nothing.
InBlockStays ==
  /\ pc = "block" /\ i < End /\ ~ClosesBlock
  /\ Goto(IF At(i) = "*" THEN i ELSE i + 1)

\* After a star that closes nothing, the search goes on from the next byte.
InBlock ==
  /\ pc = "block" /\ i < End /\ ~ClosesBlock
  /\ Goto(i + 1)

\* Mutated: the slash is left to the outer loop.
CloseBlockEarly ==
  /\ pc = "block" /\ i < End /\ ClosesBlock
  /\ addComment(i + 1, Opened, i)

CloseBlock ==
  /\ pc = "block" /\ i < End /\ ClosesBlock
  /\ addComment(i + 2, Opened, i)

BadBlock ==
  /\ pc = "block" /\ i >= End
  /\ Error("block")

Stop == pc \in {"done", "failed"} /\ UNCHANGED vars

Scan ==
  \/ Skip \/ OpenString \/ OpenLine \/ OpenBlock \/ Return
  \/ CloseString \/ InString \/ BadString
  \/ InLine \/ CloseLine \/ EndOfText
  \/ InBlock \/ CloseBlock \/ BadBlock

Next == Scan \/ Stop

Spec == Init /\ [][Next]_vars

\* One goroutine runs the scanner, and nothing blocks it.
FairSpec == Spec /\ WF_vars(Scan)

-----------------------------------------------------------------------------
(* The lexical rules of SQL, one byte at a time: Mode[n] is the state after *)
(* n bytes.  Inside quotes it is the quote, or the quote and an escape.    *)

Code    == {"code", "dash", "slash"}
Comment == {"line", "block", "star"}

InCode(m, c) ==
  CASE c \in Quotes \union {"bquote"} -> c
    [] c = "#"                   -> "line"
    [] c = "-"                   -> IF m = "dash" THEN "line" ELSE "dash"
    [] c = "/"                   -> "slash"
    [] c = "*" /\ m = "slash"    -> "block"
    [] OTHER                     -> "code"

Escape(q) == IF q = "squote" THEN "squote escape" ELSE "dquote escape"

Step(m, c) ==
  CASE m \in Code              -> InCode(m, c)
    [] m \in Quotes            -> IF c = m THEN "code" ELSE IF c = "escape" THEN Escape(m) ELSE m
    [] m = "squote escape"     -> "squote"
    [] m = "dquote escape"     -> "dquote"
    [] m = "bquote"            -> IF c = "bquote" THEN "code" ELSE "bquote"
    [] m = "line"              -> IF c = "nl" THEN "code" ELSE "line"
    [] m = "star" /\ c = "/"   -> "code"
    [] OTHER                   -> IF c = "*" THEN "star" ELSE "block"

Mode ==
  LET mode[n \in 0 .. End] == IF n = 0 THEN "code" ELSE Step(mode[n-1], src[n])
  IN  mode

\* Where comments begin and end by those rules.
Begins ==
  {IF src[n] = "#" THEN n - 1 ELSE n - 2 :
     n \in {k \in 1 .. End : Mode[k] \in Comment /\ Mode[k-1] \in Code}}

Ends ==
  {n \in 1 .. End : Mode[n-1] \in Comment /\ Mode[n] \in Code}
    \union (IF Mode[End] = "line" THEN {End} ELSE {})

-----------------------------------------------------------------------------
CommentEnd(c) == c.offset + c.length

Found == [offset : 0 .. End, length : 1 .. End, from : 0 .. End, to : 0 .. End]

\* The index stays inside the text, but for an escape at its very end, and the
\* error returned tells which loop gave up.
TypeOK ==
  /\ i \in 0 .. End + 1
  /\ pc \in {"scan", "string", "line", "block", "done", "failed"}
  /\ offset \in 0 .. End
  /\ comments \in Seq(Found)
  /\ err \in {"none", "string", "block", "annotation"}
  /\ err # "none" <=> pc = "failed"

\* The comments recorded can be cut out of the text from left to right: they lie
\* inside it, they are in order, and no two overlap (annots.go:243,274,277).
CanBeCut ==
  /\ \A k \in 1 .. Len(comments) : CommentEnd(comments[k]) <= End
  /\ \A j, k \in 1 .. Len(comments) :
       j < k => CommentEnd(comments[j]) <= comments[k].offset

\* The content of a comment lies between its delimiters: the slices of lines
\* 86, 98 and 119 are valid, also for "/**/" and a "#" that ends the text.
ContentInside ==
  \A k \in 1 .. Len(comments) :
    /\ comments[k].offset < comments[k].from
    /\ comments[k].from <= comments[k].to
    /\ comments[k].to <= CommentEnd(comments[k])

\* No slice the scanner or its caller takes can panic.
SlicesValid == CanBeCut /\ ContentInside

\* A scan that succeeds has found the comments of the text, and nothing else; a
\* text is refused for an open string or comment only if it ends in one, and
\* accepted only if it ends in neither.
FindsComments ==
  /\ pc = "done" =>
       /\ {comments[k].offset : k \in 1 .. Len(comments)} = Begins
       /\ {CommentEnd(comments[k]) : k \in 1 .. Len(comments)} = Ends
       /\ Mode[End] \in Code \union {"line"}
  /\ err = "string" => Mode[End] \notin Code \union Comment
  /\ err = "block"  => Mode[End] \in {"block", "star"}

\* Every text is scanned to an end: no branch of the loops leaves i where it is
\* for good.
Terminates == <>(pc \in {"done", "failed"})

\* "Scan SQL comments ('#...', '-- ...', '/*...*/')" (comment.go:20): two dashes
\* begin a comment only before a space, and no comment begins between the
\* backquotes of an identifier, where they are closed.
OnlySQLComments ==
  \A k \in 1 .. Len(comments) :
    LET began == comments[k].offset
    IN  /\ At(began) = "-" /\ began + 2 < End => At(began + 2) \in {" ", "nl"}
        /\ Mode[End] = "code" => Mode[began] # "bquote"
=============================================================================
