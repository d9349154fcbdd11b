---------------------------- MODULE MCFieldList -----------------------------
(* Up to five result fields, and calls that are out of bounds on each side *)
(* and overlap in every way.                                               *)
EXTENDS FieldList

MCRefNames == {<<"u">>, <<"mysql", "u">>}
MCLengths == 0 .. 5
MCOffsets == -1 .. 5
MCNums    == -1 .. 4
=============================================================================
