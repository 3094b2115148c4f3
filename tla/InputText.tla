----------------------------- MODULE InputText -----------------------------
(***************************************************************************)
(* Input of btk that arrives on a pipe, as a sequence of bytes of which    *)
(* only the kind matters: a byte that starts or ends a JSON array, a       *)
(* newline (which is also JSON white space), a byte no text contains, and  *)
(* any other character.  Bytes are told apart by their position, and an    *)
(* input item is the sequence of the positions of its bytes.  In JSON each *)
(* character stands for one string of the array.                           *)
(*                                                                         *)
(* This module says what the input means; CommandPipeline how it is read.  *)
(***************************************************************************)
EXTENDS Integers, Sequences, SequencesExt

Kinds == {"open", "close", "newline", "binary", "char"}

\* The positions a .. b in order.
Positions(a, b) == [k \in 1 .. (b - a + 1) |-> a + k - 1]

\* The kinds of byte that decide about the format of an input (input.c:239-255).
Telling(kind) == kind \in {"binary", "open", "newline"}

FormatOf(t) ==
  LET p == SelectInSeq(t, Telling)
  IN IF p = 0 THEN "list"
     ELSE [binary |-> "binary", open |-> "json", newline |-> "list"][t[p]]

\* A line ends at byte n, and starts behind the newline before it.
LineEndsAt(t, n) == t[n] # "newline" /\ (n = Len(t) \/ t[n + 1] = "newline")

LineStart(t, n) == 1 + SelectLastInSubSeq(t, 1, n, LAMBDA kind : kind = "newline")

\* The lines of t that are not empty, in order.
Lines(t) ==
  LET upTo[n \in 0 .. Len(t)] ==
        IF n = 0 THEN <<>>
        ELSE IF LineEndsAt(t, n) THEN Append(upTo[n - 1], Positions(LineStart(t, n), n))
        ELSE upTo[n - 1]
  IN upTo[Len(t)]

\* The strings of t, in order.
Strings(t) ==
  LET upTo[n \in 0 .. Len(t)] ==
        IF n = 0 THEN <<>>
        ELSE IF t[n] = "char" THEN Append(upTo[n - 1], <<n>>)
        ELSE upTo[n - 1]
  IN upTo[Len(t)]

\* The items a command has to be given, in this order.
Items(t, format) ==
  CASE format = "list"   -> Lines(t)
    [] format = "json"   -> Strings(t)
    [] format = "binary" -> <<Positions(1, Len(t))>>

\* The JSON arrays of t, each by the positions of its brackets.
Documents(t) ==
  {r \in (DOMAIN t) \X (DOMAIN t) :
     /\ r[1] < r[2]
     /\ t[r[1]] = "open" /\ t[r[2]] = "close"
     /\ \A p \in (r[1] + 1) .. (r[2] - 1) : t[p] \in {"char", "newline"}}
=============================================================================
