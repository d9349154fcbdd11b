--------------------------- MODULE MCCommentScan ----------------------------
(* Every text over the bytes the scanner tells apart, up to MaxLen bytes.  *)
EXTENDS CommentScan

\* One of each byte with a case of its own, and "x" for all the others.
MCBytes == {"squote", "dquote", "escape", "#", "-", "/", "*", "nl", "x"}

\* With the bytes that decide whether a comment begins in SQL.
SQLBytes == {"-", " ", "nl", "bquote", "#", "squote", "x"}
=============================================================================
