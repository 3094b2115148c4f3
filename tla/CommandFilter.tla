--------------------------- MODULE CommandFilter ---------------------------
(***************************************************************************)
(* What btk promises as a filter of its input items (btk.c, the loops from *)
(* line 161 on): it takes the items in order, answers each at once with    *)
(* one or more outputs, shows the answers in the order they were given and *)
(* none before its item was taken, with --stream before the next item is   *)
(* taken, and succeeds only when every item was taken and every answer     *)
(* shown.  A run that fails shows nothing more.                            *)
(*                                                                         *)
(* Pipes, reads, buffers and formats are not visible here; CommandPipeline *)
(* is the detailed specification.                                          *)
(***************************************************************************)
EXTENDS Integers, Sequences

CONSTANT MaxOutputs   \* bound: outputs of a command for one item

VARIABLES
  items,     \* the items of the whole input, in order
  attached,  \* an output carries the item it was made of, for --trace
  stream,    \* --stream
  taken,     \* the items handed to the command so far
  waiting,   \* answers not shown yet
  shown,     \* answers printed
  ended      \* "no", "done" or "failed"

given == <<items, attached, stream>>
filterVars == <<given, taken, waiting, shown, ended>>

Answer(item) == [of |-> item, input |-> IF attached THEN item ELSE <<>>]

NextItem == items[Len(taken) + 1]

FilterInit ==
  /\ taken = <<>>
  /\ waiting = <<>>
  /\ shown = <<>>
  /\ ended = "no"

Take ==
  /\ ended = "no"
  /\ Len(taken) < Len(items)
  /\ taken' = Append(taken, NextItem)
  /\ \E n \in 1 .. MaxOutputs :
       LET answers == waiting \o [k \in 1 .. n |-> Answer(NextItem)]
       IN IF stream THEN shown' = shown \o answers /\ waiting' = <<>>
                    ELSE waiting' = answers /\ UNCHANGED shown
  /\ UNCHANGED <<given, ended>>

Show ==
  /\ ended = "no"
  /\ shown' = shown \o waiting
  /\ waiting' = <<>>
  /\ UNCHANGED <<given, taken, ended>>

Complete ==
  /\ ended = "no"
  /\ taken = items
  /\ shown' = shown \o waiting
  /\ waiting' = <<>>
  /\ ended' = "done"
  /\ UNCHANGED <<given, taken>>

\* What waits is lost; the item at hand may be the next one.
Fail ==
  /\ ended = "no"
  /\ \/ UNCHANGED taken
     \/ Len(taken) < Len(items) /\ taken' = Append(taken, NextItem)
  /\ waiting' = <<>>
  /\ ended' = "failed"
  /\ UNCHANGED <<given, shown>>

FilterNext == Take \/ Show \/ Complete \/ Fail

FilterSpec == FilterInit /\ [][FilterNext]_filterVars
=============================================================================
