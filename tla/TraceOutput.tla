----------------------------- MODULE TraceOutput -----------------------------
(***************************************************************************)
(* What btk prints, and the trace object it prints and reads again         *)
(* (btk_print_output in btk.c, json_add_output in mods/json.c,             *)
(* input_parse_from_json in mods/input.c).                                 *)
(*                                                                         *)
(* An output knows the input it was made of, and that input, when it came  *)
(* from an earlier trace, the one before: chain is the row of inputs,      *)
(* nearest first.  A text is a word, and whether it is in capitals.        *)
(***************************************************************************)
EXTENDS Integers, SequencesExt

CONSTANTS
  Greps(_),      \* whether a text matches the --grep expression
  InputListLen   \* 100: keys input_list has room for

TextValue(text)    == [kind |-> "text", text |-> text, parts |-> <<>>]
ArrayValue(parts)  == [kind |-> "array", text |-> <<>>, parts |-> parts]
ObjectValue(parts) == [kind |-> "object", text |-> <<>>, parts |-> parts]

Pair(key, value) == [key |-> key, value |-> value]

SameKey(a, b) == a.word = b.word   \* cJSON_GetObjectItem ignores case

\* The first pair with a key; 0 for none.
Find(pairs, key) == SelectInSeq(pairs, LAMBDA pair : SameKey(pair.key, key))

\* Mutant of Detached: the item stays where it was as well.
DetachedNot(pairs, k) == pairs

Detached(pairs, k) == RemoveAt(pairs, k)

Fails(how) == [outcome |-> how, pairs |-> <<>>]
Gives(pairs) == [outcome |-> "ok", pairs |-> pairs]

(***************************************************************************)
(* json_add_output of a trace.  What is already the input of other outputs *)
(* is moved, with them, under the input it was made of itself; an object   *)
(* cannot be added to as if it were an array.                              *)
(***************************************************************************)
JsonAddOutput(pairs, output, input) ==
  LET own == Find(pairs, output)
      rest == IF own = 0 THEN pairs ELSE Detached(pairs, own)
      at == Find(rest, input)
      moved == Pair(output, pairs[own].value)
      added(part) == [rest EXCEPT ![at].value.parts = Append(@, part)]
  IN  CASE own # 0 /\ at # 0 ->   \* of an array, the item is added without its key
             Gives(added(IF rest[at].value.kind = "array" THEN moved.value ELSE moved))
        [] own # 0 /\ at = 0 -> Gives(Append(rest, Pair(input, ObjectValue(<<moved>>))))
        [] own = 0 /\ at # 0 ->
             IF rest[at].value.kind # "array" THEN Fails("crashed")
             ELSE Gives(added(TextValue(output)))
        [] own = 0 /\ at = 0 ->
             Gives(Append(rest, Pair(input, ArrayValue(<< TextValue(output) >>))))

\* An output, then each input of its chain, is added to what comes before it.
AddTrace(sofar, item) ==
  LET row == << item.output >> \o item.chain
      step[k \in 0 .. Len(item.chain)] ==
        IF k = 0 THEN sofar
        ELSE LET before == step[k - 1]
             IN  IF before.outcome # "ok" THEN before
                 ELSE JsonAddOutput(before.pairs, row[k], row[k + 1])
  IN  step[Len(item.chain)]

\* The outputs --grep leaves; a binary output is not looked at.
Grepped(list, grep) == IF grep THEN SelectSeq(list, LAMBDA item : Greps(item.output)) ELSE list

PrintTrace(list, grep) ==
  LET shown == Grepped(list, grep)
      done[k \in 0 .. Len(shown)] ==
        IF k = 0 THEN Gives(<<>>)
        ELSE LET before == done[k - 1]
             IN  IF before.outcome # "ok" THEN before ELSE AddTrace(before, shown[k])
  IN  done[Len(shown)]

-----------------------------------------------------------------------------
(* input_parse_from_json: the items of an object, each with the keys it is *)
(* under, the nearest first.  An array may hold texts only, and a key that *)
(* has no place in the list is written behind it.                          *)

RECURSIVE Parse(_, _)
Parse(value, keys) ==
  LET parts == value.parts
  IN  IF Len(keys) > InputListLen THEN [outcome |-> "overrun", items |-> <<>>]
      ELSE IF value.kind = "array"
        THEN IF \E k \in DOMAIN parts : "kind" \notin DOMAIN parts[k] \/ parts[k].kind # "text"
               THEN [outcome |-> "failed", items |-> <<>>]
               ELSE [outcome |-> "ok",
                     items |-> [k \in DOMAIN parts |->
                                  [output |-> parts[k].text, chain |-> keys]]]
      ELSE LET inner == [k \in DOMAIN parts |->
                           Parse(parts[k].value, <<parts[k].key>> \o keys)]
               stopped == SelectInSeq(inner, LAMBDA read : read.outcome # "ok")
           IN  IF stopped # 0 THEN inner[stopped]
                 ELSE [outcome |-> "ok",
                       items |-> FlattenSeq([k \in DOMAIN inner |-> inner[k].items])]

InputParseFromJson(pairs) == Parse(ObjectValue(pairs), <<>>)
=============================================================================
