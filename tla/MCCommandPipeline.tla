------------------------- MODULE MCCommandPipeline -------------------------
(***************************************************************************)
(* Inputs for TLC: two pieces each, among them lines that do and do not    *)
(* fit a buffer of four bytes, JSON arrays of zero to two strings, an      *)
(* array cut short, and a byte that no text contains; and a few of three.  *)
(***************************************************************************)
EXTENDS CommandPipeline

Array(n) == <<"open">> \o [k \in 1 .. n |-> "char"] \o <<"close">>

Pieces == {<<>>, <<"char">>, <<"char", "char", "char">>, <<"newline">>,
           <<"binary">>, <<"open">>, Array(0), Array(1)}

SmallTexts ==
  {x \o y : x, y \in Pieces} \cup
  {Array(2), Array(2) \o <<"newline">>, <<"char", "newline", "char">>,
   <<"newline", "newline", "char">>, <<"open", "newline", "char", "close">>,
   <<"binary", "char", "char", "char", "char">>,
   <<"char", "char", "char", "char", "char">>}
=============================================================================
