------------------------------- MODULE Options -------------------------------
(***************************************************************************)
(* The options of a command line: what opts_get makes of them, what the    *)
(* configuration adds, and what btk_init and the init function of the      *)
(* command then refuse (mods/opts.c, btk.c, ctrl_mods/btk_*.c).            *)
(*                                                                         *)
(* A token is an option as getopt_long returns it: long, with the value    *)
(* that follows it, or a letter.  A flag that is set is the pair of a      *)
(* group of the fields of struct opts and one of its names.                *)
(***************************************************************************)
EXTENDS Integers, FiniteSets, Sequences

Long(name, arg) == [long |-> TRUE, name |-> name, arg |-> arg]
Short(letter, arg) == [long |-> FALSE, name |-> letter, arg |-> arg]

Formats == {"list", "binary", "json"}

\* The options that take one of several words.
Choices == [n \in {"in-format", "in-type", "out-format", "out-type", "compressed"} |->
  CASE n = "in-format"  -> Formats
    [] n = "in-type"    -> {"wif", "hex", "raw", "string", "decimal", "binary", "sbd"}
    [] n = "out-format" -> Formats \cup {"qrcode"}
    [] n = "out-type"   -> {"wif", "hex", "decimal", "raw"}
    [] n = "compressed" -> {"true", "false"}]

\* The options whose value is kept: they may be given once.
Kept == {"grep", "rehash", "hostname", "port", "chainstate-path", "balance-path",
         "rpc-auth", "set", "unset"}

Switches == {"stream", "create", "create-from-chainstate", "update", "legacy", "bech32",
             "bech32m", "testnet", "dump", "trace", "test", "case-insensitive"}

Letters ==
  [l |-> << "in-format", "list" >>, b |-> << "in-format", "binary" >>,
   j |-> << "in-format", "json" >>,
   w |-> << "in-type", "wif" >>, x |-> << "in-type", "hex" >>, r |-> << "in-type", "raw" >>,
   s |-> << "in-type", "string" >>, d |-> << "in-type", "decimal" >>,
   L |-> << "out-format", "list" >>, Q |-> << "out-format", "qrcode" >>,
   B |-> << "out-format", "binary" >>, J |-> << "out-format", "json" >>,
   W |-> << "out-type", "wif" >>, X |-> << "out-type", "hex" >>,
   D |-> << "out-type", "decimal" >>, R |-> << "out-type", "raw" >>,
   C |-> << "compressed", "true" >>, U |-> << "compressed", "false" >>,
   S |-> << "stream", "" >>, G |-> << "grep", "" >>, h |-> << "hostname", "" >>,
   p |-> << "port", "" >>, i |-> << "case-insensitive", "" >>, t |-> << "threads", "" >>]

\* The options opts_get adds for a command.
Reading == {"in-format", "in-type", "out-format", "stream", "grep", "trace"}

Permitted(command) ==
  CASE command = "privkey" -> Reading \cup {"out-type", "create", "compressed", "rehash", "testnet"}
    [] command = "pubkey"  -> Reading \cup {"out-type", "compressed"}
    [] command = "address" -> Reading \cup {"bech32", "bech32m", "legacy"}
    [] command = "balance" ->
         Reading \cup {"hostname", "port", "create", "create-from-chainstate", "update",
                       "chainstate-path", "balance-path", "rpc-auth"}
    [] command = "node"    -> {"in-format", "hostname", "port", "stream"}
    [] command = "config"  -> {"set", "unset", "dump", "test"}
    [] command = "version" -> {"out-format"}
    [] command = "vanity"  -> {"case-insensitive", "threads"}
    [] command = "help"    -> {}

\* Its letters are those of the group; only sbd and binary have none.
NameOf(token) == IF token.long THEN token.name ELSE Letters[token.name][1]

ArgOf(token) ==
  IF token.long \/ NameOf(token) \notin DOMAIN Choices THEN token.arg
  ELSE Letters[token.name][2]

Names == DOMAIN Choices \cup Kept \cup Switches \cup {"threads"}

Commands == {"privkey", "pubkey", "address", "balance", "node", "config", "version", "vanity",
             "help"}

\* What getopt_long returns; of any other option it returns a mark that is refused.
IsToken(token) ==
  /\ token.long \in BOOLEAN
  /\ token.name \in IF token.long THEN Names ELSE DOMAIN Letters
  /\ NameOf(token) = "threads" => token.arg \in Int

-----------------------------------------------------------------------------
(* opts_get.                                                               *)

NoOpts == [flags |-> {}, kept |-> {}, threads |-> 1, refused |-> FALSE]

Refuse(opts) == [opts EXCEPT !.refused = TRUE]

\* Mutant of Implied: a raw type does not set the format.
ImpliedNot(name, arg) ==
  IF <<name, arg>> = <<"in-format", "binary">> THEN {<<"in-type", "binary">>} ELSE {}

\* What an option sets besides itself.
Implied(name, arg) ==
  CASE <<name, arg>> = <<"in-format", "binary">>                       -> {<<"in-type", "binary">>}
    [] <<name, arg>> \in {<<"in-type", "raw">>, <<"in-type", "binary">>} -> {<<"in-format", "binary">>}
    [] <<name, arg>> = <<"out-type", "raw">>                           -> {<<"out-format", "binary">>}
    [] OTHER -> {}

\* opts_process_long, and the switch over the letters: of those of vanity, i and
\* t, the switch does nothing.  The value of threads is a number.
Apply(opts, token) ==
  LET name == NameOf(token)
      arg == ArgOf(token)
  IN  CASE name \in DOMAIN Choices ->
             IF arg \notin Choices[name] THEN Refuse(opts)
             ELSE [opts EXCEPT !.flags = @ \cup {<<name, arg>>} \cup Implied(name, arg)]
        [] name \in Kept ->
             IF name \in opts.kept THEN Refuse(opts) ELSE [opts EXCEPT !.kept = @ \cup {name}]
        [] name \in Switches ->
             IF token = Short("i", "") THEN opts
             ELSE [opts EXCEPT !.flags = @ \cup {<<name, "">>}]
        [] name = "threads" ->
             IF ~token.long THEN opts
             ELSE IF token.arg < 1 THEN Refuse(opts) ELSE [opts EXCEPT !.threads = token.arg]

Of(opts, group) == {arg \in Formats \cup {"qrcode", "wif", "hex", "raw", "string", "decimal",
                                          "sbd", "true", "false"} :
                      <<group, arg>> \in opts.flags}

Is(opts, switch) == <<switch, "">> \in opts.flags

\* Only one input type; what was refused stays so.
OneType(opts) == IF Cardinality(Of(opts, "in-type")) > 1 THEN Refuse(opts) ELSE opts

OptsGet(command, tokens) ==
  LET read[k \in 0 .. Len(tokens)] ==
        IF k = 0 THEN NoOpts
        ELSE LET opts == read[k - 1]
             IN  IF opts.refused THEN opts
                 ELSE IF NameOf(tokens[k]) \notin Permitted(command) THEN Refuse(opts)
                 ELSE Apply(opts, tokens[k])
  IN  OneType(read[Len(tokens)])

-----------------------------------------------------------------------------
(* opts_set_config: a file that can be read; how it comes to what it says, *)
(* and what becomes of the values, is Configuration's subject.             *)

FileKeys == {"hostname", "rpc-auth", "balance-path", "chainstate-path"}

\* A balance has the keys that are configured as if they were given.
OptsSetConfig(command, opts, configured) ==
  IF command = "balance" THEN [opts EXCEPT !.kept = @ \cup configured] ELSE opts

-----------------------------------------------------------------------------
(* btk_init and the init functions.                                        *)

DefaultFormat(opts) ==
  IF Of(opts, "out-format") = {} THEN [opts EXCEPT !.flags = @ \cup {<<"out-format", "json">>}]
  ELSE opts

TraceRefused(opts) ==
  /\ Is(opts, "trace")
  /\ \/ "json" \notin Of(opts, "out-format")
     \/ "binary" \in Of(opts, "in-format")
     \/ Is(opts, "create")

BtkInit(opts) ==
  LET made == DefaultFormat(opts)
  IN  IF \/ opts.refused
         \/ Cardinality(Of(opts, "in-format")) > 1
         \/ Cardinality(Of(opts, "out-format")) > 1
         \/ "binary" \in Of(opts, "out-format") /\ "grep" \in opts.kept
         \/ TraceRefused(made)
      THEN Refuse(opts) ELSE made

Number(opts, switches) == Cardinality({s \in switches : Is(opts, s)})

Sets(opts, group, arg) == [opts EXCEPT !.flags = @ \cup {<<group, arg>>}]

PrivkeyInit(opts) ==
  LET out == Of(opts, "out-type")
  IN  IF "raw" \in out /\ out # {"raw"} THEN Refuse(opts)
      ELSE IF out = {} THEN Sets(opts, "out-type", "wif") ELSE opts

PubkeyInit(opts) == IF Of(opts, "out-type") \ {"hex"} # {} THEN Refuse(opts) ELSE opts

AddressInit(opts) ==
  IF Number(opts, {"legacy", "bech32", "bech32m"}) = 0 THEN Sets(opts, "legacy", "") ELSE opts

\* The databases it opens are BalanceUpdate's subject.
BalanceInit(opts) ==
  IF \/ Number(opts, {"create", "create-from-chainstate", "update"}) > 1
     \/ Number(opts, {"create", "update"}) > 0 /\ ~({"hostname", "rpc-auth"} \subseteq opts.kept)
  THEN Refuse(opts) ELSE opts

\* The connection it makes is NodeClients' subject.
NodeInit(opts) ==
  IF "hostname" \notin opts.kept THEN Refuse(opts) ELSE Sets(opts, "out-format", "list")

ConfigInit(opts) ==
  IF Cardinality(opts.kept \cap {"set", "unset"}) + Number(opts, {"dump"}) # 1
  THEN Refuse(opts) ELSE Sets(opts, "out-format", "list")

HelpInit(opts) == Sets(opts, "out-format", "binary")

CommandInit(command, opts) ==
  CASE command = "privkey" -> PrivkeyInit(opts)
    [] command = "pubkey"  -> PubkeyInit(opts)
    [] command = "address" -> AddressInit(opts)
    [] command = "balance" -> BalanceInit(opts)
    [] command = "node"    -> NodeInit(opts)
    [] command = "config"  -> ConfigInit(opts)
    [] command = "help"    -> HelpInit(opts)
    [] command = "version" -> opts

\* vanity has no init function, and main calls it all the same.
Accept(command, tokens, configured) ==
  LET opts == BtkInit(OptsSetConfig(command, OptsGet(command, tokens), configured))
  IN  IF opts.refused \/ command = "vanity" THEN opts ELSE CommandInit(command, opts)

\* btk_print_output: the first of the formats that are set.
PrintedAs(opts) ==
  LET set == Of(opts, "out-format")
  IN  CASE "list" \in set -> "list"
        [] "list" \notin set /\ "qrcode" \in set -> "qrcode"
        [] set \cap {"list", "qrcode"} = {} /\ "binary" \in set -> "binary"
        [] OTHER -> "json"
=============================================================================
