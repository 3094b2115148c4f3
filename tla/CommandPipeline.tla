-------------------------- MODULE CommandPipeline --------------------------
(***************************************************************************)
(* One run of btk: dispatch on the command, the loop that reads input      *)
(* items, hands each to the command and prints its outputs (btk.c), and    *)
(* the readers behind it (mods/input.c, mods/output.c).                    *)
(*                                                                         *)
(* Input comes from the arguments or from a pipe.  Whoever writes to the   *)
(* pipe sends bytes in pieces of any size and may pause for ever; a read   *)
(* takes what has arrived, up to the size it asked for.  BUFSIZ is a small *)
(* number.  What a command computes, the output formats and --grep are     *)
(* left out: an output remembers the item it was made of and the input     *)
(* attached to it for --trace.                                             *)
(***************************************************************************)
EXTENDS InputText, FiniteSetsExt

CONSTANTS
  Texts,         \* the inputs that may arrive
  Bufsiz,        \* BUFSIZ
  MaxOutputs,    \* bound: outputs of a command for one item
  MaxGenerated   \* bound: outputs of a command without input that streams

ASSUME PipelineAssumption ==
  /\ Texts \subseteq Seq(Kinds)
  /\ Bufsiz \in Nat \ {0}
  /\ MaxOutputs \in Nat \ {0}
  /\ MaxGenerated \in Nat

VARIABLES
  opts,      \* the options of the run
  text,      \* the whole input
  sent,      \* number of its bytes written to the pipe so far
  closed,    \* the writer has closed the pipe
  fed,       \* number of bytes read
  format,    \* opts->input_format_*
  pre,       \* pre_buffer of input.c
  buffer,    \* the buffer of input_get or of input_get_json
  room,      \* size of the buffer of input_get
  short,     \* history: input_get has got less than it asked for
  pending,   \* input items not yet handed to the command
  output,    \* the output list
  printed,   \* what was printed
  done,      \* history: the items handed to the command
  pc,        \* what main does next
  outcome    \* how the program ended, if it did

pipeVars   == <<opts, text, sent, closed>>
readerVars == <<fed, format, pre, buffer, room, short>>
vars == <<pipeVars, readerVars, pending, output, printed, done, pc, outcome>>

NoBuffer == <<0>>   \* pre_buffer is NULL: no byte has position 0
NoInput  == <<>>    \* an output without an input attached

Options == [command : {"input", "create", "vanity", "unknown"},
            source  : {"arguments", "pipe"},
            format  : {"none", "binary", "list", "json"},
            stream  : BOOLEAN,
            trace   : BOOLEAN]

Init ==
  /\ opts \in Options
  /\ text \in Texts
  /\ opts.command # "input" => text = <<>> /\ opts.source = "arguments"
  /\ sent = 0
  /\ closed = FALSE
  /\ fed = 0
  /\ format = opts.format
  /\ pre = NoBuffer
  /\ buffer = <<>>
  /\ room = Bufsiz
  /\ short = FALSE
  /\ pending = <<>>
  /\ output = <<>>
  /\ printed = <<>>
  /\ done = <<>>
  /\ pc = "start"
  /\ outcome = "running"

Running == outcome = "running"
At(s)   == Running /\ pc = s

Goes(next) == pc' = next /\ UNCHANGED outcome

\* "rejected": the reader refused the input; "crashed": killed by an assertion
\* or a wild access, or memory is overwritten and nothing more is said.
Ends(how) == outcome' = how /\ UNCHANGED pc

-----------------------------------------------------------------------------
(* The writer of the pipe.                                                 *)

Send ==
  /\ Running
  /\ opts.source = "pipe"
  /\ sent' \in (sent + 1) .. Len(text)
  /\ UNCHANGED <<opts, text, closed, readerVars, pending, output, printed, done,
                 pc, outcome>>

Close ==
  /\ Running
  /\ opts.source = "pipe"
  /\ ~closed
  /\ sent = Len(text)
  /\ closed' = TRUE
  /\ UNCHANGED <<opts, text, sent, readerVars, pending, output, printed, done,
                 pc, outcome>>

-----------------------------------------------------------------------------
(* main up to the label input_formats, and the choice of a loop there.     *)

\* btk_init's check of the options.
BadOptions ==
  opts.trace /\ (opts.format = "binary" \/ opts.command = "create")

\* The vanity command has no command_init: a null pointer is called.
Dispatch ==
  /\ At("start")
  /\ CASE opts.command = "unknown" \/ BadOptions -> Ends("failed")
       [] opts.command = "vanity" /\ ~BadOptions -> Ends("crashed")
       [] opts.command = "create" /\ ~BadOptions -> Goes("generate")
       [] opts.command = "input"  /\ ~BadOptions -> Goes("choose")
  /\ UNCHANGED <<pipeVars, readerVars, pending, output, printed, done>>

\* The arguments of the instance are the lines of text.
Choose ==
  /\ At("choose")
  /\ IF opts.source = "arguments"
       THEN pending' = Lines(text) /\ Goes("process")
       ELSE /\ Goes([none |-> "detect", binary |-> "binary", list |-> "line",
                     json |-> "json"][format])
            /\ UNCHANGED pending
  /\ UNCHANGED <<pipeVars, readerVars, output, printed, done>>

-----------------------------------------------------------------------------
(* The readers.  A read of one byte at a time is one step up to the byte   *)
(* that ends it.                                                           *)

\* input_get_format: pre_buffer has no more than BUFSIZ bytes.
DetectFormat ==
  /\ At("detect")
  /\ LET told == SelectInSubSeq(text, 1, sent, Telling)
         read == IF told = 0 THEN sent ELSE told
     IN /\ told # 0 \/ closed \/ sent > Bufsiz
        /\ fed' = read
        /\ pre' = Positions(1, read)
        /\ format' = FormatOf(SubSeq(text, 1, read))
        /\ IF read > Bufsiz THEN Ends("crashed") ELSE Goes("choose")
  /\ UNCHANGED <<pipeVars, buffer, room, short, pending, output, printed, done>>

\* Mutant of Stripped: the newline stays in the item.
StrippedNot(line) == line

\* The line in pre_buffer, without its newline.
Stripped(line) ==
  IF text[Last(line)] = "newline" THEN Front(line) ELSE line

\* An empty line is ignored.
Line(item) ==
  IF item = <<>> THEN Goes("line") /\ UNCHANGED pending
                 ELSE Goes("process") /\ pending' = <<item>>

(***************************************************************************)
(* input_get_line, with the first line in pre_buffer.  When nothing at all *)
(* was read the byte before the buffer decides: as a newline it makes the  *)
(* length wrap around.                                                     *)
(***************************************************************************)
FirstLine ==
  /\ At("line")
  /\ pre # NoBuffer
  /\ pre' = NoBuffer
  /\ \/ pre # <<>> /\ Line(Stripped(pre))
     \/ pre = <<>> /\ Line(<<>>)
     \/ pre = <<>> /\ Ends("rejected") /\ UNCHANGED pending
  /\ UNCHANGED <<pipeVars, fed, format, buffer, room, short, output, printed, done>>

\* Mutant of TooLong: one byte less fits.
TooLongByOne(n) == n >= Bufsiz - 1

TooLong(n) == n >= Bufsiz

\* Mutant of Exhausted: the end of the input is not noticed.
ExhaustedNever == FALSE

\* Mutant of LineArrived: the line is looked for when all input is there.
LineArrivedLate(e) == closed

\* A read of bytes finds its newline, the end of the input, or no more room.
LineArrived(e) == e # 0 \/ closed \/ TooLong(sent - fed)

Exhausted == closed /\ fed = sent

ReadLine ==
  /\ At("line")
  /\ pre = NoBuffer
  /\ LET e    == SelectInSubSeq(text, fed + 1, sent, LAMBDA k : k = "newline")
         last == IF e = 0 THEN sent ELSE e - 1
     IN /\ LineArrived(e)
        /\ fed' = IF e = 0 THEN sent ELSE e
        /\ IF TooLong(last - fed) THEN Ends("rejected") /\ UNCHANGED pending
           ELSE IF Exhausted THEN Goes("finish") /\ UNCHANGED pending
           ELSE Line(Positions(fed + 1, last))
  /\ UNCHANGED <<pipeVars, format, pre, buffer, room, short, output, printed, done>>

\* The index in b of the first byte from k on that is not white space.
NextInk(b, k) == SelectInSubSeq(b, k, Len(b), LAMBDA p : text[p] # "newline")

\* The index in b of the bracket that ends the array b starts with, or 0.
ArrayEnd(b) ==
  LET k == NextInk(b, 1)
      e == SelectInSubSeq(b, k + 1, Len(b),
                          LAMBDA p : text[p] \notin {"char", "newline"})
  IN IF k # 0 /\ text[b[k]] = "open" /\ e # 0 /\ text[b[e]] = "close"
       THEN e ELSE 0

\* input_parse_from_json: an item for each string of the array.
Parsed(array) ==
  LET upTo[k \in 0 .. Len(array)] ==
        IF k = 0 THEN <<>>
        ELSE IF text[array[k]] = "char" THEN Append(upTo[k - 1], <<array[k]>>)
        ELSE upTo[k - 1]
  IN upTo[Len(array)]

\* What the buffer holds before the read.
Before == IF pre # NoBuffer THEN pre ELSE buffer

\* Mutant of JsonArrived: the read waits for a full buffer.
JsonArrivedLate == closed \/ sent - fed >= Bufsiz - Len(Before)

\* A read blocks unless bytes have arrived, none can, or none is asked for.
JsonArrived == sent > fed \/ closed \/ Len(Before) = Bufsiz

(***************************************************************************)
(* input_get_json: one read, then the array at the start of the buffer,    *)
(* which must be complete; what follows it stays for the next call.        *)
(***************************************************************************)
ReadJson ==
  /\ At("json")
  /\ JsonArrived
  /\ LET asked == Bufsiz - Len(Before)
         read  == IF sent - fed < asked THEN sent - fed ELSE asked
         b     == Before \o Positions(fed + 1, fed + read)
         e     == ArrayEnd(b)
         rest  == NextInk(b, e + 1)
     IN /\ fed' = fed + read
        /\ IF b = <<>> THEN Goes("finish") /\ UNCHANGED <<buffer, pending>>
           ELSE IF e = 0 THEN Ends("rejected") /\ UNCHANGED <<buffer, pending>>
           ELSE /\ buffer' = IF rest = 0 THEN <<>> ELSE SubSeq(b, rest, Len(b))
                /\ pending' = Parsed(SubSeq(b, 1, e))
                /\ Goes("process")
  /\ pre' = NoBuffer
  /\ UNCHANGED <<pipeVars, format, room, short, output, printed, done>>

\* Mutant of Grown: the buffer keeps its size.
GrownNot(read) == room

\* The buffer grows after a read that was filled completely.
Grown(read) == IF read = Bufsiz THEN room + Bufsiz ELSE room

\* input_get, once round its loop: every read asks for BUFSIZ bytes.
ReadBinary ==
  /\ At("binary")
  /\ sent > fed
  /\ LET read == IF sent - fed < Bufsiz THEN sent - fed ELSE Bufsiz
     IN IF Len(buffer) + read > room
          THEN Ends("crashed") /\ UNCHANGED <<fed, buffer, room, short>>
          ELSE /\ fed' = fed + read
               /\ buffer' = buffer \o Positions(fed + 1, fed + read)
               /\ room' = Grown(read)
               /\ short' = (short \/ read < Bufsiz)
               /\ Goes("binary")
  /\ UNCHANGED <<pipeVars, format, pre, pending, output, printed, done>>

\* With no byte at all there is no item, and main follows a null pointer.
EndBinary ==
  /\ At("binary")
  /\ Exhausted
  /\ LET whole == IF pre # NoBuffer THEN pre \o buffer ELSE buffer
     IN IF whole = <<>> THEN Ends("crashed") /\ UNCHANGED pending
                        ELSE Goes("process") /\ pending' = <<whole>>
  /\ pre' = NoBuffer
  /\ UNCHANGED <<pipeVars, fed, format, buffer, room, short, output, printed, done>>

\* read fails, or memory runs out.
ReadFails ==
  /\ Running
  /\ pc \in {"detect", "line", "json", "binary"}
  /\ Ends("failed")
  /\ UNCHANGED <<pipeVars, readerVars, pending, output, printed, done>>

-----------------------------------------------------------------------------
(* The command and its output.                                             *)

\* The n outputs a command makes of an item.
Outputs(item, n) == [k \in 1 .. n |-> [of |-> item, input |-> NoInput]]

\* Mutant of Attached: the input goes to every output of the list.
AttachedToAll(out, item, offset) ==
  [k \in DOMAIN out |-> [out[k] EXCEPT !.input = item]]

\* output_append_input
Attached(out, item, offset) ==
  [k \in DOMAIN out |->
     IF k > offset THEN [out[k] EXCEPT !.input = item] ELSE out[k]]

\* json_add_output insists on an input when it makes a trace object.
Printable(out) ==
  opts.trace => \A k \in DOMAIN out : out[k].input # NoInput

\* btk_print_output and output_free
PrintOutput(out) ==
  /\ output' = <<>>
  /\ IF Printable(out) THEN printed' = printed \o out /\ UNCHANGED outcome
                       ELSE outcome' = "crashed" /\ UNCHANGED printed

FromBinary == opts.source = "pipe" /\ format = "binary"

ProcessItem ==
  /\ At("process")
  /\ pending # <<>>
  /\ done' = Append(done, Head(pending))
  /\ pending' = Tail(pending)
  /\ \E n \in 1 .. MaxOutputs :
       LET item == Head(pending)
           out  == output \o Outputs(item, n)
           all  == IF FromBinary THEN out ELSE Attached(out, item, Len(output))
       IN IF opts.stream THEN PrintOutput(all)
                         ELSE output' = all /\ UNCHANGED <<printed, outcome>>
  /\ UNCHANGED <<pipeVars, readerVars, pc>>

CommandFails ==
  /\ \/ At("generate")
     \/ At("process") /\ pending # <<>>
  /\ Ends("failed")
  /\ UNCHANGED <<pipeVars, readerVars, pending, output, printed, done>>

\* A JSON array's outputs are printed before the next one is read.
NoMoreItems ==
  /\ At("process")
  /\ pending = <<>>
  /\ IF opts.source = "pipe" /\ format = "json"
       THEN PrintOutput(output) ELSE UNCHANGED <<output, printed, outcome>>
  /\ pc' = IF opts.source = "arguments" \/ format = "binary" THEN "finish"
           ELSE IF format = "json" THEN "json" ELSE "line"
  /\ UNCHANGED <<pipeVars, readerVars, pending, done>>

\* Without input: once, or for ever.  balance makes no output here, and
\* btk_print_output insists on one.
Generate ==
  /\ At("generate")
  /\ Len(printed) < MaxGenerated
  /\ \E n \in {0, 1} :
       IF ~opts.stream
         THEN output' = Outputs(<<>>, n) /\ pc' = "finish" /\ UNCHANGED <<printed, outcome>>
         ELSE IF n = 0 THEN Ends("crashed") /\ UNCHANGED <<output, printed>>
         ELSE PrintOutput(Outputs(<<>>, n)) /\ UNCHANGED pc
  /\ UNCHANGED <<pipeVars, readerVars, pending, done>>

\* What is left is printed, and both clean-ups succeed.
Finish ==
  /\ At("finish")
  /\ output' = <<>>
  /\ IF Printable(output) THEN printed' = printed \o output /\ outcome' = "done"
                          ELSE outcome' = "crashed" /\ UNCHANGED printed
  /\ UNCHANGED <<pipeVars, readerVars, pending, done, pc>>

Program == Dispatch \/ Choose \/ DetectFormat \/ FirstLine \/ ReadLine \/ ReadJson
           \/ ReadBinary \/ EndBinary \/ ProcessItem \/ NoMoreItems \/ Generate
           \/ Finish

Next == Send \/ Close \/ Program \/ ReadFails \/ CommandFails

Spec == Init /\ [][Next]_vars

\* The program goes on when it can, and nothing need fail; the writer may stop
\* at any point and never close the pipe.
FairSpec == Spec /\ WF_vars(Program)

-----------------------------------------------------------------------------
(* Properties.                                                             *)

\* What the input is read as, given the options.
Meant == IF opts.source = "arguments" THEN "list"
         ELSE IF opts.format = "none" THEN FormatOf(text) ELSE opts.format

(***************************************************************************)
(* However the input is cut into reads, and whether its format was given   *)
(* or detected, the command is given the items of the input, whole, in     *)
(* order and each once, and all of them when the run succeeds              *)
(* (btk.c:161-310, input.c:23-269).                                        *)
(***************************************************************************)
ItemsInOrder ==
  opts.command = "input" =>
    /\ IsPrefix(done, Items(text, Meant))
    /\ outcome = "done" => done = Items(text, Meant)

Produced == printed \o output

(***************************************************************************)
(* The outputs appear in the order of the items they were made of, those   *)
(* of one item together, and --trace finds with each output the item it    *)
(* was made of, never another's, although outputs of many items share one  *)
(* list (btk.c:168-174, output.c:93-113).                                  *)
(***************************************************************************)
OutputsFollowItems ==
  opts.command = "input" =>
    /\ \A k \in DOMAIN Produced : Produced[k].input \in {NoInput, Produced[k].of}
    /\ ~FromBinary => \A k \in DOMAIN Produced : Produced[k].input # NoInput
    /\ \A j, k \in DOMAIN Produced : j < k =>
         \E x, y \in DOMAIN done :
           x <= y /\ Produced[j].of = done[x] /\ Produced[k].of = done[y]

\* Only a command with input is a filter.
OfInput(list) == IF opts.command = "input" THEN list ELSE <<>>

FilterEnded ==
  IF Running THEN "no" ELSE IF outcome = "done" THEN "done" ELSE "failed"

(***************************************************************************)
(* However the bytes arrive and are cut into reads, and whether its format *)
(* was given or detected, the run answers its items one after the other,   *)
(* each output with its own item for --trace although many share one list, *)
(* loses and repeats none, and a run that succeeds has answered them all   *)
(* (btk.c:161-350, output.c:93-113).                                       *)
(***************************************************************************)
Filter == INSTANCE CommandFilter WITH
  items    <- OfInput(Items(text, Meant)),
  attached <- ~(opts.source = "pipe" /\ Meant = "binary"),
  stream   <- opts.stream,
  taken    <- OfInput(done),
  waiting  <- IF FilterEnded = "failed" THEN <<>> ELSE OfInput(output),
  shown    <- OfInput(printed),
  ended    <- FilterEnded
ImplementsFilter == Filter!FilterSpec

\* A run of bytes that belongs to one line and does not fit the buffer.
LongLine ==
  \E p \in DOMAIN text :
    /\ p + Bufsiz - 1 <= Len(text)
    /\ \A q \in p .. (p + Bufsiz - 1) : text[q] # "newline"

(***************************************************************************)
(* A list is refused only if a line of it does not fit the buffer          *)
(* (input.c:120-124), or if it is empty and its format was not given       *)
(* (input.c:96 reads the byte before the buffer).                          *)
(***************************************************************************)
ListAccepted ==
  outcome = "rejected" =>
    \/ Meant = "json"
    \/ LongLine
    \/ opts.format = "none" /\ text = <<>>

(***************************************************************************)
(* The run dies only of these: the vanity command (btk.c:132, 154); a      *)
(* command without input or output that streams (412); no input where      *)
(* binary input was announced (195); a trace of input that turned out to   *)
(* be binary (json.c:90); more than BUFSIZ bytes that do not tell the      *)
(* format (input.c:236); and a read of binary input that follows a short   *)
(* one (input.c:36-48).  Lines and JSON of a given format never kill it,   *)
(* the assertions inside the trace object apart, which are not modelled.   *)
(***************************************************************************)
CrashCauses ==
  outcome = "crashed" =>
    \/ opts.command = "vanity"
    \/ opts.command = "create" /\ opts.stream
    \/ /\ FromBinary
       /\ text = <<>> \/ opts.trace \/ short
    \/ /\ opts.source = "pipe" /\ opts.format = "none"
       /\ \A p \in 1 .. Bufsiz : ~Telling(text[p])

Answered(p) == \E k \in DOMAIN printed : p \in Range(printed[k].of)

Longest == Max({Len(t) : t \in Texts})

(***************************************************************************)
(* "--stream": a line is answered once its newline has been sent, even if  *)
(* the writer then stops and leaves the pipe open (input.c:93-143).  So is *)
(* a JSON array once it has been sent, or it waits in the buffer behind an *)
(* earlier one because input_get_json reads before it looks there          *)
(* (input.c:173), and no further byte ever comes.                          *)
(***************************************************************************)
StreamAnswered ==
  \A p \in 1 .. Longest :
    LET streamed == opts.stream /\ opts.source = "pipe" /\ p \in DOMAIN text
        behind == Meant = "json" /\ p \in Range(buffer) /\ sent = fed
    IN  (/\ streamed
         /\ \/ /\ Meant = "list" /\ text[p] # "newline"
               /\ \E q \in (p + 1) .. sent : text[q] = "newline"
            \/ /\ Meant = "json" /\ text[p] = "char"
               /\ \E r \in Documents(text) : p \in (r[1] + 1) .. (r[2] - 1) /\ r[2] <= sent)
          ~> (Answered(p) \/ ~Running \/ []behind)

(***************************************************************************)
(* When the pipe is closed, or the items are arguments, the run ends.      *)
(***************************************************************************)
InputEnds ==
  (opts.command = "input" /\ (closed \/ opts.source = "arguments")) ~> ~Running
=============================================================================
