------------------------------ MODULE Scripts ------------------------------
(***************************************************************************)
(* Blocks, transactions and scripts as bytes, and the records of the       *)
(* chainstate: what is read of them, and the address an output pays, which *)
(* the balance database is built from in two ways (mods/block.c,           *)
(* transaction.c, txinput.c, txoutput.c, script.c, utxokey.c, utxovalue.c, *)
(* chainstate.c, ctrl_mods/btk_balance.c).                                 *)
(***************************************************************************)
EXTENDS Bytes, Bitwise

CONSTANTS
  \* bytes of a script that have a meaning
  OpOne,         \* 0x51
  OpDup,         \* 0x76
  OpEqual,       \* 0x87
  OpEqualVerify, \* 0x88
  OpHash160,     \* 0xa9
  OpCheckSig,    \* 0xac
  OpCoin,        \* 'C', the first byte of a chainstate key
  \* lengths
  TxHashLen,     \* 32: a hash of a transaction or block
  HashLen,       \* 0x14, 20: the hash of a key or script
  ProgramLen,    \* 0x20, 32: the longer witness programs
  CoordinateLen, \* 32: a coordinate of a point
  MaxPush,       \* 0x4b: the longest push a byte alone asks for
  MaxOps,        \* MAX_OPS_PER_SCRIPT
  Unnamed,       \* opcodes that words[] has no word for
  SolveY(_, _)   \* the y of an x and its parity: a set, empty if there is none

Uint32 == 4
Uint64 == 8

\* n fields one after the other: their values, and the place after the last.  The
\* reader is given what has been read before, and the place.
ReadEach(reader(_, _), at, n) ==
  LET done[i \in 0 .. n] ==
        IF i = 0 THEN Read(<<>>, at)
        ELSE LET before == done[i - 1]
             IN  [reader(before.value, before.at) EXCEPT !.value = Append(before.value, @)]
  IN  done[n]

\* One reader as often as the number before says.
ReadSeveral(input, at, reader(_)) ==
  LET count == DeserializeCompuint(input, at, "lit")
  IN  ReadEach(LAMBDA row, p : reader(p), count.at, count.value)

\* A row of bytes that follows its own length.
ReadCounted(input, at) ==
  LET size == DeserializeCompuint(input, at, "lit")
  IN  DeserializeUchar(input, size.at, size.value, "big")

-----------------------------------------------------------------------------
(* Blocks and transactions.                                                *)

TxinputFromRaw(input, at) ==
  LET Field(row, p) ==
        CASE Len(row) = 0       -> DeserializeUchar(input, p, TxHashLen, "lit")
          [] Len(row) \in {1, 3} -> DeserializeUint(input, p, Uint32, "lit")
          [] Len(row) = 2       -> ReadCounted(input, p)
  IN  [ReadEach(Field, at, 4) EXCEPT
         !.value = [tx_hash |-> @[1], index |-> @[2], is_coinbase |-> @[2] = Base ^ Uint32 - 1,
                    script |-> @[3], sequence |-> @[4]]]

TxoutputFromRaw(input, at) ==
  LET amount == DeserializeUint(input, at, Uint64, "lit")
      script == ReadCounted(input, amount.at)
  IN  Read([amount |-> amount.value, script |-> script.value], script.at)

\* Mutant of WitnessCount: one witness for the whole transaction.
WitnessCountOne(inputs) == 1

WitnessCount(inputs) == Len(inputs)

(***************************************************************************)
(* A zero where the number of inputs ought to be is the segwit marker, and *)
(* the flag that follows it decides whether there is a witness to skip.    *)
(* The hash covers everything that was read, the witness as well.          *)
(***************************************************************************)
TransactionFromRaw(input, at) ==
  LET Witness(p) == ReadSeveral(input, p, LAMBDA q : ReadCounted(input, q))
      Field(row, p) ==
        CASE Len(row) \in {0, 5} -> DeserializeUint(input, p, Uint32, "lit")
          [] Len(row) = 1 -> IF input[p] = 0 THEN Read(input[p + 1], p + 2) ELSE Read(0, p)
          [] Len(row) = 2 -> ReadSeveral(input, p, LAMBDA q : TxinputFromRaw(input, q))
          [] Len(row) = 3 -> ReadSeveral(input, p, LAMBDA q : TxoutputFromRaw(input, q))
          [] Len(row) = 4 -> ReadEach(LAMBDA witnesses, q : Witness(q), p,
                                      IF row[2] = 0 THEN 0 ELSE WitnessCount(row[3]))
          [] Len(row) = 6 -> Read(Slice(input, at, p - at), p)
  IN  [ReadEach(Field, at, 7) EXCEPT
         !.value = [version |-> @[1], segwit_flag |-> @[2], inputs |-> @[3], outputs |-> @[4],
                    lock_time |-> @[6], hashed |-> @[7]]]

\* txid: the hash the other way round.
Txid(hash) == Reverse(hash)

BlockFromRaw(input) ==
  LET Field(row, p) ==
        CASE Len(row) \in {1, 2}       -> DeserializeUchar(input, p, TxHashLen, "lit")
          [] Len(row) \in {0, 3, 4, 5} -> DeserializeUint(input, p, Uint32, "lit")
          [] Len(row) = 6 -> ReadSeveral(input, p, LAMBDA q : TransactionFromRaw(input, q))
  IN  [ReadEach(Field, 1, 7) EXCEPT
         !.value = [prev_block |-> @[2], timestamp |-> @[4], transactions |-> @[7]]]

-----------------------------------------------------------------------------
(* Addresses of scripts.                                                   *)

P2pkhOfHash(hash)      == [kind |-> "p2pkh", of |-> "hash", version |-> 0, data |-> hash]
P2pkhOfKey(key)        == [kind |-> "p2pkh", of |-> "key", version |-> 0, data |-> key]
P2shOf(hash)           == [kind |-> "p2sh", of |-> "hash", version |-> 0, data |-> hash]
WitnessOf(program, v)  == [kind |-> "bech32", of |-> "hash", version |-> v, data |-> program]
NoAddressFound         == [kind |-> "none", of |-> "hash", version |-> 0, data |-> <<>>]

ShortKey == CoordinateLen + 1
LongKey  == 2 * CoordinateLen + 1

(***************************************************************************)
(* script_get_output_address.  Only the witness programs, keys and P2SH    *)
(* compare the size first: bytes before and after the script are read too, *)
(* and stray[k] stands for what is found at place k.                       *)
(***************************************************************************)
ScriptGetOutputAddress(script, stray) ==
  LET size == Len(script)
      Byte(k) == IF k \in DOMAIN script THEN script[k] ELSE stray[k]
      Bytes(k, len) == [j \in 1 .. len |-> Byte(k + j - 1)]
      IsWitness(op, len) == Byte(1) = op /\ Byte(2) = len /\ size = 2 + len
      HashFollows == Byte(1) = OpDup /\ Byte(2) = OpHash160
      IsKey(len, marks) == Byte(1) = len /\ size = len + 2 /\ Byte(2) \in marks
      EndsIn(op) == Byte(size) = op
  IN  CASE IsWitness(0, HashLen)       -> WitnessOf(Bytes(3, HashLen), 0)
        [] IsWitness(0, ProgramLen)    -> WitnessOf(Bytes(3, ProgramLen), 0)
        [] IsWitness(OpOne, ProgramLen) -> WitnessOf(Bytes(3, ProgramLen), 1)
        [] EndsIn(OpCheckSig) /\ HashFollows /\ Byte(3) = HashLen ->
             P2pkhOfHash(Bytes(4, HashLen))
        [] EndsIn(OpCheckSig) /\ HashFollows /\ Byte(3) = 0 ->
             P2pkhOfHash([j \in 1 .. HashLen |-> 0])
        [] EndsIn(OpCheckSig) /\ (IsKey(LongKey, {4}) \/ IsKey(ShortKey, {2, 3})) ->
             P2pkhOfKey(Bytes(2, size - 2))
        [] EndsIn(OpEqual) /\ Byte(1) = OpHash160 /\ Byte(2) = HashLen /\ size = HashLen + 3 ->
             P2shOf(Bytes(3, HashLen))
        [] OTHER -> NoAddressFound

(***************************************************************************)
(* script_from_raw: the operations of a script, a push with its bytes.     *)
(* The longer pushes are not known, and an opcode without a word makes     *)
(* strlen follow a null pointer.                                           *)
(***************************************************************************)
ScriptFromRaw(script) ==
  LET Ends(how) == [outcome |-> how, ops |-> <<>>]
      \* what is left to read from place i on, after c operations
      ops[i \in 1 .. (Len(script) + 1), c \in 0 .. MaxOps] ==
        IF i > Len(script) THEN Ends("ok")
        ELSE LET push == IF script[i] \in 1 .. MaxPush THEN script[i] ELSE 0
             IN  IF c = MaxOps \/ i + push > Len(script) THEN Ends("failed")
                 ELSE IF script[i] \in Unnamed THEN Ends("crashed")
                 ELSE [ops[i + push + 1, c + 1] EXCEPT
                         !.ops = << SubSeq(script, i, i + push) >> \o @]
      read == ops[1, 0]
  IN  IF read.outcome = "ok" THEN read ELSE Ends(read.outcome)

-----------------------------------------------------------------------------
(* Records of the chainstate.                                              *)

\* The values are kept under a key that is used over and over.
Obfuscated(bytes, key) == [k \in DOMAIN bytes |-> bytes[k] ^^ key[((k - 1) % Len(key)) + 1]]

UtxokeyFromRaw(input) ==
  LET hash == DeserializeUchar(input, 2, TxHashLen, "lit")
  IN  [type |-> input[1], tx_hash |-> hash.value,
       vout |-> DeserializeVarint(input, hash.at).value]

\* Mutant of KeyMark: the mark of an uncompressed key stays.
KeyMarkKept(mark) == mark

\* The mark of an uncompressed key, 4 or 5, becomes that of the compressed one.
KeyMark(mark) == IF mark \in {4, 5} THEN mark - 2 ELSE mark

(***************************************************************************)
(* utxovalue_from_raw.  The height carries the coinbase flag.  The byte    *)
(* that tells the kind of script is also the first byte of a key.          *)
(***************************************************************************)
UtxovalueFromRaw(input) ==
  LET height == DeserializeVarint(input, 1)
      amount == DeserializeVarint(input, height.at)
      kind   == DeserializeVarint(input, amount.at)
      isKey  == kind.value \in 2 .. 5
      len    == IF kind.value < 2 THEN HashLen ELSE IF isKey THEN ShortKey ELSE kind.value - 6
      script == Slice(input, IF isKey THEN kind.at - 1 ELSE kind.at, len)
  IN  [height |-> height.value \div 2, amount |-> CamountUncompress(amount.value),
       n_size |-> kind.value,
       script |-> IF isKey THEN [script EXCEPT ![1] = KeyMark(@)] ELSE script]

\* chainstate_get_next, without the iterator
ChainstateGetNext(key, value, obfuscation) ==
  [key |-> UtxokeyFromRaw(key), value |-> UtxovalueFromRaw(Obfuscated(value, obfuscation))]

\* pubkey_uncompress: a key without a point stays as it is.
PubkeyUncompress(key) ==
  LET x == Tail(key)
      ys == SolveY(x, key[1] - 2)
  IN  IF ys = {} THEN key ELSE <<4>> \o x \o (CHOOSE y \in ys : TRUE)

\* btk_balance_main: the address of an imported output.
ImportedAddress(value, stray) ==
  CASE value.n_size = 0 -> P2pkhOfHash(value.script)
    [] value.n_size = 1 -> P2shOf(value.script)
    [] value.n_size \in {2, 3} -> P2pkhOfKey(value.script)
    [] value.n_size \in {4, 5} -> P2pkhOfKey(PubkeyUncompress(value.script))
    [] OTHER -> ScriptGetOutputAddress(value.script, stray)

-----------------------------------------------------------------------------
(* The bitcoin node: how it writes blocks, and the outputs it keeps.       *)

Counted(bytes) == SerializeCompuint(Len(bytes), "lit") \o bytes

\* Several things that follow their own number.
Several(rows) == SerializeCompuint(Len(rows), "lit") \o FlattenSeq(rows)

Uint(n) == SerializeUint(n, Uint32, "lit")

TxinputRaw(in) == in.hash \o Uint(in.index) \o Counted(in.script) \o Uint(in.sequence)

TxoutputRaw(out) == SerializeUint(out.amount, Uint64, "lit") \o Counted(out.script)

\* tx.witnesses: for each input the rows of its witness; <<>> if there is none at all.
TransactionRaw(tx) ==
  LET segwit == tx.witnesses # <<>>
      Witness(rows) == Several([k \in DOMAIN rows |-> Counted(rows[k])])
  IN  Uint(tx.version) \o (IF segwit THEN <<0, 1>> ELSE <<>>)
        \o Several([k \in DOMAIN tx.inputs |-> TxinputRaw(tx.inputs[k])])
        \o Several([k \in DOMAIN tx.outputs |-> TxoutputRaw(tx.outputs[k])])
        \o FlattenSeq([k \in DOMAIN tx.witnesses |-> Witness(tx.witnesses[k])])
        \o Uint(tx.lock_time)

BlockRaw(block) ==
  Uint(block.version) \o block.prev \o block.merkel \o Uint(block.time) \o Uint(block.bits)
    \o Uint(block.nonce)
    \o Several([k \in DOMAIN block.txs |-> TransactionRaw(block.txs[k])])

\* The scripts the node shortens; a long key only if it is that of a point.
NodeScript(script) ==
  LET size == Len(script)
      Ends(op) == script[size] = op
      isHash == /\ size = HashLen + 5 /\ Ends(OpCheckSig)
                /\ Slice(script, 1, 3) = <<OpDup, OpHash160, HashLen>>
                /\ script[size - 1] = OpEqualVerify
      isP2sh == /\ size = HashLen + 3 /\ Ends(OpEqual)
                /\ Slice(script, 1, 2) = <<OpHash160, HashLen>>
      isShort == /\ size = ShortKey + 2 /\ script[1] = ShortKey /\ Ends(OpCheckSig)
                 /\ script[2] \in {2, 3}
      x == Slice(script, 3, CoordinateLen)
      y == Slice(script, 3 + CoordinateLen, CoordinateLen)
      signs == {sign \in {0, 1} : y \in SolveY(x, sign)}
      isLong == /\ size = LongKey + 2 /\ script[1] = LongKey /\ Ends(OpCheckSig)
                /\ script[2] = 4 /\ signs # {}
  IN  CASE isHash  -> <<0>> \o Slice(script, 4, HashLen)
        [] isP2sh  -> <<1>> \o Slice(script, 3, HashLen)
        [] isShort -> Slice(script, 2, ShortKey)
        [] isLong  -> <<4 + (CHOOSE sign \in signs : TRUE)>> \o x
        [] OTHER   -> SerializeVarint(size + 6) \o script

NodeKey(hash, position) == <<OpCoin>> \o hash \o SerializeVarint(position)

NodeValue(coin, obfuscation) ==
  Obfuscated(SerializeVarint(2 * coin.height + coin.coinbase)
               \o SerializeVarint(CamountCompress(coin.amount)) \o NodeScript(coin.script),
             obfuscation)
=============================================================================
