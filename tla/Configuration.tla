--------------------------- MODULE Configuration ---------------------------
(***************************************************************************)
(* The configuration file (mods/config.c), the command that changes it     *)
(* (ctrl_mods/btk_config.c) and the way every run reads it                 *)
(* (opts_set_config in mods/opts.c), for several runs of btk at a time.    *)
(*                                                                         *)
(* A value is named by the length of its text, NotString a value that only *)
(* a file written by hand has.  A JSON object is the sequence of its       *)
(* entries; keys that differ in case only are the same key to cJSON, so    *)
(* that a file written by hand may have a key twice.                       *)
(***************************************************************************)
EXTENDS Integers, SequencesExt, FiniteSetsExt

CONSTANTS
  Run,         \* processes that may run at the same time
  ValidKeys,   \* the keys config_is_valid accepts
  OtherKey,    \* a key it does not accept
  Values,      \* values a user may set
  Bufsiz,      \* BUFSIZ
  Handwritten, \* objects a file written by hand may hold
  MaxRuns      \* bound: runs started

NotString == 0

ASSUME ConfigurationAssumption ==
  /\ OtherKey \notin ValidKeys /\ "torn" \notin ValidKeys
  /\ Values \subseteq Nat \ {NotString}
  /\ Bufsiz \in Nat \ {0}
  /\ Handwritten \subseteq Seq(ValidKeys \X (Values \cup {NotString}))
  /\ MaxRuns \in Nat

VARIABLES
  file,     \* the file: how long its text is, and the object it holds
  pc,       \* what each process does next
  request,  \* the command of each process
  memory,   \* config_json of each process
  used,     \* the options of a balance run, as a function of its keys
  started,  \* number of runs started
  expected, \* history: what the commands that succeeded amount to
  clean     \* history: no run was interrupted, or overlapped, as it wrote,
            \* and no write was cut short

vars == <<file, pc, request, memory, used, started, expected, clean>>

-----------------------------------------------------------------------------
(* Objects and texts.                                                      *)

Torn == << <<"torn", NotString>> >>   \* stands for a text that is not JSON

KeysOf(object) == {object[k][1] : k \in DOMAIN object}

\* cJSON_GetObjectItem: the first entry of that key.
First(object, key) == CHOOSE k \in DOMAIN object :
  object[k][1] = key /\ \A j \in 1 .. (k - 1) : object[j][1] # key

Lookup(object, key) == object[First(object, key)][2]

\* What an object says, as a function.
Meaning(object) == [key \in KeysOf(object) |-> Lookup(object, key)]

Length(object) ==
  FoldLeft(LAMBDA n, entry : n + 1 + entry[2], 1, object)

Text(object) == [length |-> Length(object), object |-> object]

EmptyFile == [length |-> 0, object |-> <<>>]

(***************************************************************************)
(* A write starts at the beginning of the file, and leaves the end of a    *)
(* longer text that another run has written since the file was truncated.  *)
(***************************************************************************)
Overwritten(old, new) ==
  IF new.length >= old.length THEN new
  ELSE [length |-> old.length, object |-> Torn]

\* The buffer of config_load has BUFSIZ - 1 bytes, and half an object is none.
Readable(f) == f.object # Torn /\ f.length < Bufsiz

\* Mutant of Loads: what cannot be read is taken for an object.
LoadsAnything(f) == TRUE

\* config_load
Loads(f) == Readable(f)

\* config_set: every entry of the key is removed, the new one comes last.
Set(object, key, value) ==
  LET Kept(kept, entry) == IF entry[1] = key THEN kept ELSE Append(kept, entry)
  IN  Append(FoldLeft(Kept, <<>>, object), <<key, value>>)

\* config_unset: the first entry of the key is removed.
Unset(object, key) == RemoveAt(object, First(object, key))

-----------------------------------------------------------------------------
Options == UNION {[keys -> Values] : keys \in SUBSET ValidKeys}

Requests ==
  [command : {"set"}, key : ValidKeys \cup {OtherKey}, value : Values]
    \cup [command : {"unset"}, key : ValidKeys \cup {OtherKey}]
    \cup [command : {"dump"}]
    \cup [command : {"balance"}, given : Options]
    \cup [command : {"help"}]

NoRequest == [command |-> "none"]

NoOptions == [keys \in {} |-> NotString]

\* A file written by hand may have a key twice, in two spellings.
HasTwice(object) ==
  \E j, k \in DOMAIN object : j < k /\ object[j][1] = object[k][1]

Init ==
  /\ file \in {EmptyFile} \cup {Text(object) : object \in Handwritten}
  /\ pc = [p \in Run |-> "idle"]
  /\ request = [p \in Run |-> NoRequest]
  /\ memory = [p \in Run |-> <<>>]
  /\ used = [p \in Run |-> NoOptions]
  /\ started = 0
  /\ expected = Meaning(file.object)
  /\ clean = (Readable(file) /\ ~HasTwice(file.object))

At(p, s) == pc[p] = s

Goes(p, next) == pc' = [pc EXCEPT ![p] = next]

\* The command and the memory of a run do not outlive it.
Forgets(p) ==
  /\ request' = [request EXCEPT ![p] = NoRequest]
  /\ memory' = [memory EXCEPT ![p] = <<>>]

Fails(p) == Goes(p, "failed") /\ Forgets(p)

(***************************************************************************)
(* A run that starts.  The user sees how the last run in its place ended   *)
(* before that.                                                            *)
(***************************************************************************)
Start(p) ==
  /\ pc[p] \in {"idle", "success", "failed", "killed"}
  /\ started < MaxRuns
  /\ started' = started + 1
  /\ \E r \in Requests : request' = [request EXCEPT ![p] = r]
  /\ used' = [used EXCEPT ![p] = NoOptions]
  /\ Goes(p, "options")
  /\ UNCHANGED <<file, memory, expected, clean>>

\* Mutant of Merged: the file wins over the command line.
MergedOver(given, object) == Meaning(object) @@ given

\* opts_set_config: the file says what the command line does not.
Merged(given, object) == given @@ Meaning(object)

(***************************************************************************)
(* Every command reads the file before it does anything; only balance      *)
(* takes options from it, and then they must be strings.                   *)
(***************************************************************************)
SetConfig(p) ==
  /\ At(p, "options")
  /\ IF ~Loads(file) THEN Fails(p) /\ UNCHANGED used
     ELSE IF request[p].command # "balance"
       THEN /\ Goes(p, IF request[p].command = "help" THEN "success" ELSE "command")
            /\ UNCHANGED <<request, memory, used>>
     ELSE LET options == Merged(request[p].given, file.object)
          IN IF \E key \in DOMAIN options : options[key] = NotString
               THEN Fails(p) /\ UNCHANGED used
               ELSE /\ used' = [used EXCEPT ![p] = options]
                    /\ Goes(p, "success")
                    /\ UNCHANGED <<request, memory>>
  /\ UNCHANGED <<file, started, expected, clean>>

\* Writers p overlaps with: between their reading of the file and their
\* writing of it.
Writing(q) == pc[q] \in {"truncate", "write"}

OthersWrite(p) == \E q \in Run \ {p} : Writing(q)

\* Only keys that config_is_valid knows are set, only keys in use unset.
Refused(r, object) ==
  \/ r.key \notin ValidKeys
  \/ r.command = "unset" /\ r.key \notin KeysOf(object)

(***************************************************************************)
(* btk_config_main reads the file again and changes the object in memory.  *)
(* The text of a dump is taken from it.                                    *)
(***************************************************************************)
Change(p) ==
  /\ At(p, "command")
  /\ LET r == request[p]
     IN IF ~Loads(file) THEN Fails(p) /\ UNCHANGED clean
        ELSE IF r.command = "dump"
          THEN Goes(p, "success") /\ UNCHANGED <<request, memory, clean>>
        ELSE IF Refused(r, file.object) THEN Fails(p) /\ UNCHANGED clean
        ELSE /\ memory' = [memory EXCEPT ![p] =
                  IF r.command = "set" THEN Set(file.object, r.key, r.value)
                                       ELSE Unset(file.object, r.key)]
             /\ Goes(p, "truncate")
             /\ clean' = (clean /\ ~OthersWrite(p))
             /\ UNCHANGED request
  /\ UNCHANGED <<file, used, started, expected>>

\* Mutant of Truncate: the file is opened without O_TRUNC.
TruncateNot(p) ==
  /\ At(p, "truncate")
  /\ Goes(p, "write")
  /\ UNCHANGED <<file, request, memory, used, started, expected, clean>>

\* config_write opens the file, which empties it.
Truncate(p) ==
  /\ At(p, "truncate")
  /\ file' = EmptyFile
  /\ Goes(p, "write")
  /\ UNCHANGED <<request, memory, used, started, expected, clean>>

OpenFails(p) ==
  /\ At(p, "truncate")
  /\ Fails(p)
  /\ UNCHANGED <<file, used, started, expected, clean>>

\* What the command p runs makes of the settings.
Expected(p) ==
  LET r == request[p]
  IN IF r.command = "set"
       THEN [key \in DOMAIN expected \cup {r.key} |->
               IF key = r.key THEN r.value ELSE expected[key]]
     ELSE [key \in DOMAIN expected \ {r.key} |-> expected[key]]

Write(p) ==
  /\ At(p, "write")
  /\ file' = Overwritten(file, Text(memory[p]))
  /\ expected' = Expected(p)
  /\ clean' = (clean /\ Length(memory[p]) < Bufsiz)
  /\ Goes(p, "success")
  /\ memory' = [memory EXCEPT ![p] = <<>>]
  /\ UNCHANGED <<request, used, started>>

(***************************************************************************)
(* The file system takes a part of the text: config_write does not compare *)
(* the number of bytes written, and "Success" is printed.                  *)
(***************************************************************************)
ShortWrite(p) ==
  /\ At(p, "write")
  /\ \E n \in 1 .. (Length(memory[p]) - 1) :
       file' = Overwritten(file, [length |-> n, object |-> Torn])
  /\ expected' = Expected(p)
  /\ clean' = FALSE
  /\ Goes(p, "success")
  /\ memory' = [memory EXCEPT ![p] = <<>>]
  /\ UNCHANGED <<request, used, started>>

\* write fails: the error is reported, the old text is gone.
WriteFails(p) ==
  /\ At(p, "write")
  /\ Fails(p)
  /\ clean' = FALSE
  /\ UNCHANGED <<file, used, started, expected>>

\* The user or the system ends the run.
Kill(p) ==
  /\ pc[p] \in {"options", "command", "truncate", "write"}
  /\ Goes(p, "killed")
  /\ Forgets(p)
  /\ clean' = (clean /\ ~At(p, "write"))
  /\ UNCHANGED <<file, used, started, expected>>

Step(p) == \/ Start(p) \/ SetConfig(p) \/ Change(p) \/ Truncate(p) \/ OpenFails(p)
           \/ Write(p) \/ ShortWrite(p) \/ WriteFails(p) \/ Kill(p)

Next == \E p \in Run : Step(p)

Spec == Init /\ [][Next]_vars

-----------------------------------------------------------------------------
(* Properties.                                                             *)

(***************************************************************************)
(* Unless a run is interrupted or runs out of space as it writes, overlaps *)
(* with another that writes, or writes more than the buffer of the reader  *)
(* holds, the file says what the commands that succeeded amount to: a set  *)
(* or unset of one key keeps all others.  A file written by hand that has  *)
(* a key twice is excepted, as unset removes one of the two                *)
(* (config.c:117-147, 194-217).                                            *)
(***************************************************************************)
CommandsAddUp ==
  (clean /\ \A p \in Run : ~At(p, "write"))
    => Readable(file) /\ Meaning(file.object) = expected

(***************************************************************************)
(* "When a command is executed requiring this option, the value will be    *)
(* set automatically.  You can still override the default value from the   *)
(* command line" (man/btk-config.1:44): a balance run goes by its command  *)
(* line, and for the rest by the commands that succeeded before it, unless *)
(* it reads the file while it is being written (opts.c:386-441).           *)
(***************************************************************************)
BalanceSettings ==
  [][\A p \in Run :
       (/\ request[p].command = "balance"
        /\ At(p, "options") /\ At(p, "success")'
        /\ clean /\ \A q \in Run : ~At(q, "write"))
         => used'[p] = request[p].given @@ expected]_vars

(***************************************************************************)
(* Once the file cannot be read, and no run that has read it before is     *)
(* still about to write, it stays so: every command fails before it does   *)
(* anything, config --set included (btk.c:76, config.c:98-103).            *)
(***************************************************************************)
UnreadableForGood ==
  [][(~Readable(file) /\ \A p \in Run : ~Writing(p))
       => UNCHANGED file /\ \A p \in Run : ~Writing(p)']_vars
=============================================================================
