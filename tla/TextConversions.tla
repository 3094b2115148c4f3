--------------------------- MODULE TextConversions ---------------------------
(***************************************************************************)
(* What Conversions takes for input and cannot judge by numbers alone:     *)
(* rows of bytes as text, scripts, coins and blocks, and traces.           *)
(***************************************************************************)
EXTENDS Conversions, Scripts, Texts

CONSTANTS
  Strays,       \* what may lie around a script in memory
  Obfuscations, \* keys the values of the chainstate are kept under
  InputListLen  \* 100: inputs of an output a trace is read with

T == INSTANCE TraceOutput WITH Greps <- LAMBDA text : text.word # 1

-----------------------------------------------------------------------------
(* Texts.                                                                  *)

Base58ReadsBack(row) ==
  LET text == Base58Encode(row)
      zeros == LeadingZeros(row)
  IN  /\ Base58Decode(text) = {SubSeq(row, zeros + 1, Len(row))}
      /\ LeadingZeros(text) = zeros
      /\ Base58Decode(Append(text, Wrong)) = {}

\* With the checksum: private keys do not begin with a zero, and addresses
\* have a length.
Base58checkReadsBack(row) ==
  LET text == Base58checkEncode(row)
  IN  /\ row[1] # 0 => Base58checkDecode(text, "none") = {row}
      /\ Len(row) + CheckLen = AddressLen => Base58checkDecode(text, "address") = {row}

\* What a wallet checks: 1 for version 0, 0x2bc830a3 for the later ones.
Accepts(net, version, values) ==
  Polymod(Prefix(net) \o values) = IF version = 0 THEN 1 ELSE 734539939

\* The bits of a program, and no others, are in the groups.
BitsReadBack(program) ==
  LET groups == Base32Encode(program)
      Bits(row, each) == [k \in 1 .. (Len(row) * each) |->
                            (row[((k - 1) \div each) + 1] \div 2 ^ (each - 1 - ((k - 1) % each))) % 2]
      bits == Bits(program, ByteBits)
  IN  /\ SubSeq(Bits(groups, GroupBits), 1, Len(bits)) = bits
      /\ \A k \in (Len(bits) + 1) .. (Len(groups) * GroupBits) : Bits(groups, GroupBits)[k] = 0
      /\ Len(groups) * GroupBits < Len(bits) + GroupBits

\* The address of a witness program is one a wallet takes, for the network and
\* version it was made of only, and the checksum tells when one character is
\* another.
WitnessAddress(program) ==
  \A net \in {"main", "test"}, version \in {0, 1} :
    LET values == Bech32GetAddress(program, version, net).values
        n == Len(values)
    IN  /\ SubSeq(values, 2, n - BechChecksumLen) = Base32Encode(program)
        /\ \A a \in {"main", "test"}, v \in {0, 1} :
             Accepts(a, v, values) <=> a = net /\ v = version
        /\ \A k \in {1, 2, n - BechChecksumLen, n}, c \in {0, 7, 31} :
             c # values[k] => ~Accepts(net, version, [values EXCEPT ![k] = c])

\* Rows of bytes read back from base58, up to the zeros at their start, which
\* only the length of an address brings back (base58.c:21, base58check.c), and
\* the addresses of witness programs are those of the standard (base32.c,
\* bech32.c).
TextsReadBack ==
  /\ input.kind = "row" => Base58ReadsBack(input.value) /\ Base58checkReadsBack(input.value)
  /\ input.kind = "program" => BitsReadBack(input.value) /\ WitnessAddress(input.value)

-----------------------------------------------------------------------------
(* Scripts, coins and blocks.                                              *)

\* Scripts whose address depends on what lies around them.
ReadOutside(script) ==
  \/ script = <<>>
  \/ /\ Len(script) \in 4 .. (HashLen + 2)
     /\ Slice(script, 1, 3) = <<OpDup, OpHash160, HashLen>>
     /\ Last(script) = OpCheckSig

\* The value of a coin of the given script, as the import reads it.
AsImported(script) ==
  UtxovalueFromRaw(SerializeVarint(2) \o SerializeVarint(CamountCompress(1)) \o NodeScript(script))

OneAddress(script) ==
  ~ReadOutside(script) =>
    \A a, b \in Strays :
      ScriptGetOutputAddress(script, a) = ImportedAddress(AsImported(script), b)

\* The operations of a script are all of it, unless it is refused.
WholeScript(script) ==
  LET read == ScriptFromRaw(script)
  IN  read.outcome = "ok" => /\ FlattenSeq(read.ops) = script
                             /\ Len(read.ops) <= MaxOps

\* A coin the node has: height and amount read back, and an input that spends it
\* calls its transaction by the same name as the import and the block do.
CoinReadsBack(coin) ==
  \A obfuscation \in Obfuscations :
    LET record == ChainstateGetNext(NodeKey(coin.hash, coin.position),
                                    NodeValue(coin, obfuscation), obfuscation)
        spending == TxinputRaw([hash |-> coin.hash, index |-> coin.position,
                                script |-> <<>>, sequence |-> 0])
        spent == TxinputFromRaw(<<Base - 1>> \o spending, 2).value
    IN  /\ record.value.height = coin.height /\ record.value.amount = coin.amount
        /\ record.key.tx_hash = Txid(coin.hash) /\ spent.tx_hash = Txid(coin.hash)
        /\ record.key.vout = coin.position /\ spent.index = coin.position

\* A transaction is hashed without its witness only if it has none.
TransactionReadsBack(tx, read) ==
  /\ [k \in DOMAIN read.inputs |-> [index |-> read.inputs[k].index,
                                    hash |-> Txid(read.inputs[k].tx_hash),
                                    script |-> read.inputs[k].script,
                                    sequence |-> read.inputs[k].sequence]] = tx.inputs
  /\ read.outputs = tx.outputs
  /\ read.lock_time = tx.lock_time
  /\ \A k \in DOMAIN tx.inputs :
       read.inputs[k].is_coinbase <=> tx.inputs[k].index = Base ^ Uint32 - 1
  /\ read.hashed = TransactionRaw([tx EXCEPT !.witnesses = <<>>]) <=> tx.witnesses = <<>>

\* Every transaction of a block is found, and the block is read to its end.
BlockReadsBack(block) ==
  \A read \in {BlockFromRaw(BlockRaw(block))} :
    /\ read.at = Len(BlockRaw(block)) + 1
    /\ read.value.timestamp = block.time
    /\ read.value.prev_block = Reverse(block.prev)
    /\ DOMAIN read.value.transactions = DOMAIN block.txs
    /\ \A k \in DOMAIN block.txs :
         \A tx \in {read.value.transactions[k]} : TransactionReadsBack(block.txs[k], tx)

\* An output pays one address, whether it is read in a block or imported from
\* the chainstate, where the node has shortened its script (script.c,
\* btk_balance.c:109-170); coins and blocks read back as the node has them.
\* Excepted are the scripts of which the code reads bytes that are not theirs.
OutputsAgree ==
  /\ input.kind = "script" => OneAddress(input.value) /\ WholeScript(input.value)
  /\ input.kind = "coin" => CoinReadsBack(input.value)
  /\ input.kind = "block" => BlockReadsBack(input.value)

-----------------------------------------------------------------------------
(* Traces.                                                                 *)

\* Outputs that a trace can tell apart: no output is also an input, but for the
\* case of its letters; an input is spelt one way, and made of one input.
Clean(list) ==
  LET items == {list[k] : k \in DOMAIN list}
      Links == UNION {{<<item, d>> : d \in DOMAIN item.chain} : item \in items}
      text(link) == link[1].chain[link[2]]
  IN  /\ \A item \in items, link \in Links : ~T!SameKey(item.output, text(link))
      /\ \A a, b \in Links :
           T!SameKey(text(a), text(b)) =>
             /\ text(a) = text(b)
             /\ SubSeq(a[1].chain, a[2], Len(a[1].chain)) = SubSeq(b[1].chain, b[2], Len(b[1].chain))
             /\ a[2] = 1 <=> b[2] = 1

\* A trace that is printed and read again gives the outputs that were shown, each
\* with the inputs it was made of, unless those are more than input_list holds
\* (json.c:41-77, input.c:271).
TraceFaithful ==
  input.kind = "trace" =>
    \A grep \in BOOLEAN :
      LET shown == T!Grepped(input.value, grep)
          printed == T!PrintTrace(input.value, grep)
          read == T!InputParseFromJson(printed.pairs)
          Count(row, item) == Cardinality({k \in DOMAIN row : row[k] = item})
      IN  Clean(shown) /\ (\A k \in DOMAIN shown : Len(shown[k].chain) <= InputListLen) =>
            /\ printed.outcome = "ok" /\ read.outcome = "ok"
            /\ Len(read.items) = Len(shown)
            /\ \A k \in DOMAIN shown :
                 Count(read.items, shown[k]) = Count(shown, shown[k])
=============================================================================
