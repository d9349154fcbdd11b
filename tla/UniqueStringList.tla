-------------------------- MODULE UniqueStringList --------------------------
(***************************************************************************)
(* A list of strings that are made unique as they are appended             *)
(* (render/funcs.go, UniqueStringList).  The select template keeps the     *)
(* names of a result struct's members in one.                              *)
(*                                                                         *)
(* A string is a stem and the numbers after it, so that "user1" given and  *)
(* "user" with 1 after it are the same string.  Numbers are taken whole: 1 *)
(* after "user1" and 11 after "user" are told apart, though the code only  *)
(* comes to 11 when eleven strings are alike.                              *)
(***************************************************************************)
EXTENDS Naturals, Sequences, FiniteSets

CONSTANTS
  Stems,
  converter,  \* item -> string
  default_    \* string in place of an empty one

VARIABLE ss   \* the list; smap has the same strings as keys

Strings == [stem : Stems, sfx : Seq(Nat)]
Empty   == [stem |-> "", sfx |-> <<>>]

smap == {ss[n] : n \in 1 .. Len(ss)}

Converted(item) == IF converter[item] = Empty THEN default_ ELSE converter[item]

\* The string itself, then with 1, 2, ... after it.
Candidate(s, n) == IF n = 0 THEN s ELSE [s EXCEPT !.sfx = Append(@, n)]

\* Mutated: one number at most is tried.
UniqueOneTry(s) == IF s \notin smap THEN s ELSE Candidate(s, 1)

\* The first candidate that is not in the list, one of Len(ss) + 1.
Unique(s) ==
  Candidate(s, CHOOSE n \in 0 .. Cardinality(smap) :
                 /\ Candidate(s, n) \notin smap
                 /\ \A m \in 0 .. n - 1 : Candidate(s, m) \in smap)

AppendItem(item) == ss' = Append(ss, Unique(Converted(item)))

Init == ss = <<>>

Next == \E item \in DOMAIN converter : AppendItem(item)

Spec == Init /\ [][Next]_ss

\* No two strings of the list are alike, however the items and the strings made of
\* them by numbering collide.
NoTwoAlike == \A m, n \in 1 .. Len(ss) : m # n => ss[m] # ss[n]
=============================================================================
