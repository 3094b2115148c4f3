----------------------------- MODULE KeyCommands -----------------------------
(***************************************************************************)
(* The commands privkey, pubkey, address and the queries of balance, as    *)
(* main hands them one input item after the other                          *)
(* (ctrl_mods/btk_privkey.c, btk_pubkey.c, btk_address.c, btk_balance.c).  *)
(* What one item leaves behind for the next is static memory: the network, *)
(* the input type once it was guessed, the compression flags of btk_pubkey *)
(* and the rehash list that strtok cuts up.                                *)
(***************************************************************************)
EXTENDS Keys

CONSTANTS
  Texts,          \* the items a user may give
  OptionSets,     \* the options of a run
  Numbers(_),     \* the numbers strtol finds in a text, one after the other
  RehashMax,      \* REHASH_MAX_SIZE
  RehashesSize,   \* REHASHES_ARRAY_SIZE
  MaxItems        \* bound: items of a run

Star == -1   \* the wildcard of a rehash list

\* input_type_*, the first of them that is set; output_type_*.
InputTypes  == {"none", "wif", "hex", "raw", "string", "blob", "decimal", "sbd"}
OutputTypes == {"wif", "hex", "decimal", "raw", "p2pkh", "p2wpkh", "p2wpkh-v1"}

Option == [command : {"privkey", "pubkey", "address", "balance"}, type : InputTypes,
           out : SUBSET OutputTypes, on : BOOLEAN, off : BOOLEAN, test : BOOLEAN,
           stream : BOOLEAN, rehash : Seq(Nat \cup {Star})]

\* A second wildcard would go on where the first one stopped; it is left out.
\* Only privkey and pubkey know -C (opts.c:133-187).
ASSUME KeyCommandsAssumption ==
  /\ HexBase \in Nat /\ DecBase \in 2 .. HexBase /\ KeyDigits \in Nat \ {0}
  /\ RehashMax \in Nat /\ RehashesSize \in Nat \ {0} /\ MaxItems \in Nat
  /\ \A text \in Texts : Numbers(text) \in Seq(Nat)
  /\ OptionSets \subseteq Option
  /\ \A o \in OptionSets :
       /\ \A j, k \in DOMAIN o.rehash : o.rehash[j] = Star /\ o.rehash[k] = Star => j = k
       /\ o.command \in {"address", "balance"} => ~o.on /\ ~o.off

VARIABLES
  opts,      \* command, type, out, on, off, test, stream, rehash
  type,      \* input_type_* of btk_privkey
  network,   \* network_type
  on, off,   \* compression_on and compression_off of btk_pubkey
  rehash,    \* the rehash list up to its first NUL
  items,     \* history: the items done
  answers,   \* what was put out for each of them
  nets,      \* history: the network each item was answered for
  outcome

vars == <<opts, type, network, on, off, rehash, items, answers, nets, outcome>>

Init ==
  /\ opts \in OptionSets
  /\ type = opts.type
  /\ network = "main"
  /\ on = FALSE
  /\ off = FALSE
  /\ rehash = opts.rehash
  /\ items = <<>>
  /\ answers = <<>>
  /\ nets = <<>>
  /\ outcome = "running"

Done(text, output) ==
  /\ items' = Append(items, text)
  /\ answers' = Append(answers, output)
  /\ nets' = Append(nets, network')
  /\ UNCHANGED <<opts, outcome>>

\* "failed": the program ends with an error; "overrun": it writes past an array.
Ends(how) ==
  /\ outcome' = how
  /\ UNCHANGED <<opts, type, network, on, off, rehash, items, answers, nets>>

Command(name) == outcome = "running" /\ opts.command = name /\ Len(items) < MaxItems

\* Mutant of NetworkAfter: only the WIF of a test network is noticed.
NetworkAfterTest(text) == IF FromWif(text) # {} /\ text.net = "test" THEN "test" ELSE network

\* The network after a text was tried as a WIF.
NetworkAfter(text) == IF FromWif(text) # {} THEN text.net ELSE network

-----------------------------------------------------------------------------
(* btk privkey.                                                            *)

\* btk_privkey_compression_add: the forms of the key, compressed first.
Passes(key) ==
  CASE opts.on /\ opts.off -> << [key EXCEPT !.compressed = TRUE],
                                 [key EXCEPT !.compressed = FALSE] >>
    [] opts.on /\ ~opts.off -> << [key EXCEPT !.compressed = TRUE] >>
    [] ~opts.on /\ opts.off -> << [key EXCEPT !.compressed = FALSE] >>
    [] OTHER -> <<key>>

\* The outputs of one form; wif is the default of btk_privkey_init.
Forms(key, net) ==
  IF "raw" \in opts.out THEN << ToRaw(key) >>
  ELSE (IF "wif" \in opts.out \/ opts.out = {} THEN << ToWif(key, net) >> ELSE <<>>)
         \o (IF "hex" \in opts.out THEN << ToHex(key, opts.on \/ opts.off) >> ELSE <<>>)
         \o (IF "decimal" \in opts.out THEN << ToDec(key) >> ELSE <<>>)

Outputs(key, net) == FlattenSeq([k \in DOMAIN Passes(key) |-> Forms(Passes(key)[k], net)])

\* privkey_rehash, n times
Rehashed(data, n) ==
  LET hashed[k \in 0 .. n] == IF k = 0 THEN data ELSE HashKey(hashed[k - 1])
  IN  hashed[n]

\* The numbers of an item that are not too large.
Wildcard(text) ==
  FlattenSeq([k \in DOMAIN Numbers(text) |->
                IF Numbers(text)[k] <= RehashMax THEN << Numbers(text)[k] >> ELSE <<>>])

\* One token of the list: "*" needs strings or numbers, and the numbers it
\* stands for are not counted against the size of the array.
Collect(list, token, text, kind) ==
  LET more == IF token = Star THEN Wildcard(text) ELSE <<token>>
      refused == \/ Len(list.counts) >= RehashesSize
                 \/ token = Star /\ kind \notin {"string", "decimal"}
                 \/ token > RehashMax
  IN  CASE list.status # "ok" -> list
        [] list.status = "ok" /\ refused -> [list EXCEPT !.status = "failed"]
        [] OTHER -> IF Len(list.counts) + Len(more) > RehashesSize
                      THEN [list EXCEPT !.status = "overrun"]
                      ELSE [list EXCEPT !.counts = @ \o more]

\* btk_privkey_process_rehash up to the sort
RehashList(tokens, text, kind) ==
  LET list[k \in 0 .. Len(tokens)] ==
        IF k = 0 THEN [counts |-> <<>>, status |-> "ok"]
                 ELSE Collect(list[k - 1], tokens[k], text, kind)
  IN  list[Len(tokens)]

\* How many numbers of a set are not larger than n.
Place(n, all) == Cardinality({m \in all : m <= n})

\* Mutant of Sorted: what is there twice stays.
SortedTwice(counts) == SortSeq(counts, LAMBDA i, j : i < j)

\* qsort, and the loop that removes what is there twice.
Sorted(counts) ==
  LET all == Range(counts)
  IN  [k \in 1 .. Cardinality(all) |-> CHOOSE n \in all : Place(n, all) = k]

\* The key is hashed on from one number of the list to the next.
HashedData(data, counts) ==
  LET row[k \in DOMAIN counts] ==
        IF k = 1 THEN Rehashed(data, counts[1])
                 ELSE Rehashed(row[k - 1], counts[k] - counts[k - 1])
  IN  row

HashedKeys(key, counts) ==
  [k \in DOMAIN counts |-> [key EXCEPT !.data = HashedData(key.data, counts)[k]]]

\* Mutant of Restored: the list stays as strtok has cut it up.
CutUp(tokens) == IF tokens = <<>> THEN <<>> ELSE << Head(tokens) >>

\* The commas strtok has overwritten are put back for the next item.
Restored(tokens) == tokens

\* Whatever privkey_from_guess finds, it returns 1: PRIVKEY_GUESS_DECIMAL.
TypeAfter == IF type = "none" THEN "decimal" ELSE type

PrivkeyItem(text) ==
  /\ Command("privkey")
  /\ \E key \in ReadPrivkey(type, text) :
       /\ ~IsZero(key)
       /\ type' = TypeAfter
       /\ network' = IF opts.test THEN "test" ELSE "main"
       /\ LET list == RehashList(rehash, text, TypeAfter)
              keys == HashedKeys(key, Sorted(list.counts))
          IN  /\ list.status = "ok"
              /\ Done(text, IF opts.rehash = <<>> THEN Outputs(key, network')
                            ELSE FlattenSeq([k \in DOMAIN keys |-> Outputs(keys[k], network')]))
       /\ rehash' = Restored(rehash)
       /\ UNCHANGED <<on, off>>

\* A number too long for its buffer: the program may be lost, also where the
\* number is taken or refused otherwise.
Overruns(text) ==
  /\ DecOverruns(text)
  /\ \/ type \in {"decimal", "sbd"}
     \/ type = "none" /\ FromHex(text) = {}

RefusePrivkey(text) ==
  /\ Command("privkey")
  /\ LET keys == ReadPrivkey(type, text)
         list == RehashList(rehash, text, TypeAfter)
         noKey == keys = {} \/ \E key \in keys : IsZero(key)
     IN  \/ noKey /\ Ends("failed")
         \/ ~noKey /\ list.status # "ok" /\ Ends(list.status)
         \/ Overruns(text) /\ Ends("overrun")

-----------------------------------------------------------------------------
(* btk pubkey.                                                             *)

\* Mutant of Flag: the options are looked at for the first item only.
FlagOnce(static, option) == IF items = <<>> THEN option ELSE static

\* if (opts->compression_on) { compression_on = opts->compression_on; }
Flag(static, option) == option \/ static

PubkeyForms(pubkey, comp, uncomp) ==
  CASE comp /\ uncomp  -> << Compress(pubkey), Uncompress(Compress(pubkey)) >>
    [] comp /\ ~uncomp -> << Compress(pubkey) >>
    [] ~comp /\ uncomp -> << Uncompress(pubkey) >>
    [] OTHER -> <<pubkey>>

\* When both forms were put out, compression_on is 0 again.
PubkeyItem(text) ==
  /\ Command("pubkey")
  /\ \E pubkey \in ReadPubkey(type, text) :
       LET comp == Flag(on, opts.on)
           uncomp == Flag(off, opts.off)
       IN  /\ network' = IF type = "hex" THEN network ELSE NetworkAfter(text)
           /\ on' = (comp /\ ~uncomp)
           /\ off' = uncomp
           /\ Done(text, PubkeyForms(pubkey, comp, uncomp))
  /\ UNCHANGED <<type, rehash>>

-----------------------------------------------------------------------------
(* btk address.                                                            *)

\* Without a stream, or without a legacy address, an uncompressed key has to
\* be refused; otherwise its bech32 addresses are left out.
SkipsBech32(pubkey) ==
  ~pubkey.compressed /\ opts.stream /\ "p2pkh" \in opts.out

Bech32(pubkey, version, net) ==
  IF SkipsBech32(pubkey) THEN <<>> ELSE << P2wpkh(pubkey, net, version) >>

\* p2pkh is the default of btk_address_init.
Addresses(pubkey, net) ==
  (IF "p2wpkh" \in opts.out THEN Bech32(pubkey, 0, net) ELSE <<>>)
    \o (IF "p2wpkh-v1" \in opts.out THEN Bech32(pubkey, 1, net) ELSE <<>>)
    \o (IF "p2pkh" \in opts.out \/ opts.out = {} THEN << P2pkh(pubkey, net) >> ELSE <<>>)

RefusesBech32(pubkey) ==
  ~pubkey.compressed /\ ~SkipsBech32(pubkey) /\ opts.out \cap {"p2wpkh", "p2wpkh-v1"} # {}

AddressItem(text) ==
  /\ Command("address")
  /\ \E pubkey \in ReadPubkey(type, text) :
       /\ ~RefusesBech32(pubkey)
       /\ network' = IF type = "hex" THEN network ELSE NetworkAfter(text)
       /\ Done(text, Addresses(pubkey, network'))
  /\ UNCHANGED <<type, on, off, rehash>>

RefusePubkey(text) ==
  /\ Command("pubkey") \/ Command("address")
  /\ \/ ReadPubkey(type, text) = {}
     \/ opts.command = "address" /\ \E pubkey \in ReadPubkey(type, text) : RefusesBech32(pubkey)
  /\ Ends("failed")

-----------------------------------------------------------------------------
(* The queries of btk balance: the address that is looked up.              *)

AddressOf(keys, net) == UNION {{P2pkh(pubkey, net) : pubkey \in PubkeyOf(key)} : key \in keys}

LookedUp(text) ==
  CASE type = "wif"    -> AddressOf(FromWif(text), NetworkAfter(text))
    [] type = "string" -> AddressOf(FromStr(text), network)
    [] OTHER           -> {text}

BalanceItem(text) ==
  /\ Command("balance")
  /\ network' = IF type = "wif" THEN NetworkAfter(text) ELSE network
  /\ \E address \in LookedUp(text) : Done(text, <<address>>)
  /\ UNCHANGED <<type, on, off, rehash>>

RefuseBalance(text) ==
  /\ Command("balance")
  /\ LookedUp(text) = {}
  /\ Ends("failed")

Next == \E text \in Texts :
  \/ PrivkeyItem(text) \/ RefusePrivkey(text)
  \/ PubkeyItem(text)  \/ AddressItem(text) \/ RefusePubkey(text)
  \/ BalanceItem(text) \/ RefuseBalance(text)

Spec == Init /\ [][Next]_vars

-----------------------------------------------------------------------------
(* Properties.                                                             *)

\* The input type an item is read with: the first item of a run without one
\* decides that the others are decimal numbers.
TypeAt(k) == IF opts.command = "privkey" /\ opts.type = "none" /\ k > 1 THEN "decimal" ELSE opts.type

\* The flag of a key that was made of a string is whatever memory held.
Unsettled(k) ==
  /\ opts.command \in {"privkey", "balance"}
  /\ ~opts.on /\ ~opts.off
  /\ \/ TypeAt(k) \in {"string", "blob"}
     \/ TypeAt(k) = "none" /\ FromStr(items[k]) = FromGuess(items[k])

(***************************************************************************)
(* What is put out for an item depends on the item and the options only:   *)
(* the same item later in the list has the same answer, but for the        *)
(* guessed type, the network a WIF before it has set, and keys made of     *)
(* strings without a compression option (btk_privkey.c lines 84-109,       *)
(* 164-191, 384-392, btk_pubkey.c lines 34-35, 85-115).                    *)
(***************************************************************************)
SameItemSameAnswer ==
  \A j, k \in DOMAIN items :
    items[j] = items[k] /\ TypeAt(j) = TypeAt(k) /\ nets[j] = nets[k] /\ ~Unsettled(j)
      => answers[j] = answers[k]

(***************************************************************************)
(* The network of an address: that of its WIF; for other items that of the *)
(* last WIF before them, and the main one when there was none.  Private    *)
(* keys are written for the network of the options whatever they were read *)
(* from (privkey.c lines 210-222, btk_privkey.c lines 75-82).              *)
(***************************************************************************)
NetworkOfAnswers ==
  \A k \in DOMAIN answers : \A i \in DOMAIN answers[k] :
    LET answer == answers[k][i]
        wifs == {j \in 1 .. k : items[j].kind = "wif"}
        unread == \/ opts.type = "hex"
                  \/ opts.type = "string" /\ opts.command = "balance"
        left == IF wifs = {} \/ unread THEN "main"
                ELSE items[Max(wifs)].net
    IN  CASE opts.command = "privkey" /\ answer.kind = "wif" ->
               answer.net = IF opts.test THEN "test" ELSE "main"
          [] opts.command = "address"
               \/ (opts.command = "balance" /\ opts.type \in {"wif", "string"}) ->
               answer.net = left
          [] OTHER -> TRUE

\* The numbers of hashes a user asked for, for an item.
Requested(text) ==
  UNION {IF token = Star THEN {n \in Range(Numbers(text)) : n <= RehashMax} ELSE {token} :
           token \in Range(opts.rehash)}

(***************************************************************************)
(* With --rehash, every item of the list gives the key hashed as often as  *)
(* each number asked for says, in the order of the numbers, each once: a   *)
(* number given twice, in any order, or for the second item makes no       *)
(* difference (btk_privkey.c lines 84-109 and 289-395).                    *)
(***************************************************************************)
RehashesAsAsked ==
  opts.command = "privkey" /\ opts.rehash # <<>> /\ opts.out = {} /\ ~(opts.on /\ opts.off) =>
    \A k \in DOMAIN answers :
      \E key \in ReadPrivkey(TypeAt(k), items[k]) :
        /\ Len(answers[k]) = Cardinality(Requested(items[k]))
        /\ \A n \in Requested(items[k]) :
             answers[k][Place(n, Requested(items[k]))].data = Rehashed(key.data, n)
=============================================================================
