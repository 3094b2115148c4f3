----------------------------- MODULE Conversions -----------------------------
(***************************************************************************)
(* What the program converts, one input at a time: numbers, rows of bytes, *)
(* keys, points, scripts, coins, blocks, command lines and traces.  A step *)
(* takes an input, the invariants say what the conversions make of it;     *)
(* those of texts, scripts and traces are in TextConversions.              *)
(***************************************************************************)
EXTENDS Bytes

CONSTANTS
  Numbers,      \* numbers that are written and read
  Amounts,      \* those of them that are amounts
  Rows,         \* rows of bytes that are written as text
  Programs,     \* witness programs
  Messages,     \* rows of bytes that are hashed
  HashBlockLen, \* 64: bytes of a block that is hashed
  HashWordLen,  \* 4: bytes of half the length behind it
  KeyDigits,    \* 64: hexadecimal digits of a private key
  DecBase,      \* 10
  PointKeys,    \* private keys below the number of points
  Given,        \* scripts of outputs
  Coins,        \* [height, coinbase, amount, hash, position]
  Blocks,       \* blocks as the node keeps them
  CommandLines, \* [command, tokens, configured]
  Traces        \* rows of outputs, each with its chain of inputs

VARIABLE input   \* what is converted: its kind and its value

K == INSTANCE Keys WITH HexBase <- HexBase, Hash <- LAMBDA t : 0, HashKey <- LAMBDA d : d

C == INSTANCE Points WITH P <- 43, Generator <- [x |-> 2, y |-> 12], KeyBits <- 5

O == INSTANCE Options

H == INSTANCE Hashes WITH BlockLen <- HashBlockLen, WordLen <- HashWordLen, Bits <- ByteBits

ASSUME ConversionsAssumption ==
  \A line \in CommandLines :
    /\ line.command \in O!Commands
    /\ line.tokens \in Seq(Range(line.tokens))
    /\ line.configured \subseteq O!FileKeys
    /\ \A token \in Range(line.tokens) : O!IsToken(token)

\* Numbers are of 8 bytes, those of the chainstate's amounts too when they are
\* compressed, and a byte has two hexadecimal digits.
ASSUME NumbersAssumption ==
  /\ \A n \in Numbers : n \in Nat /\ n \div Power(Base, 7) < Base
  /\ \A n \in Numbers \cap Amounts : CamountCompress(n) \div Power(Base, 7) < Base
  /\ \E h \in 2 .. Base : h * h = Base

\* Two words of whole bytes fit in a block.
ASSUME HashAssumption ==
  /\ HashBlockLen \in Nat /\ HashWordLen \in Nat \ {0} /\ 2 * HashWordLen <= HashBlockLen
  /\ ByteBits \in Nat \ {0} /\ Power(Base, HashWordLen) % ByteBits = 0
  /\ \A message \in Messages : message \in Seq(Range(message))

Nothing == [kind |-> "nothing", value |-> 0]

Takes(kind, values) ==
  /\ input = Nothing
  /\ \E value \in values : input' = [kind |-> kind, value |-> value]

TakeNumber  == Takes("number", Numbers)
TakeRow     == Takes("row", Rows)
TakeProgram == Takes("program", Programs)
TakeMessage == Takes("message", Messages)
TakeKey     == Takes("key", K!KeyData)
TakePoint   == Takes("point", PointKeys)
TakeScript  == Takes("script", Given)
TakeCoin    == Takes("coin", Coins)
TakeBlock   == Takes("block", Blocks)
TakeOptions == Takes("options", CommandLines)
TakeTrace   == Takes("trace", Traces)
PutBack     == input # Nothing /\ input' = Nothing

Init == input = Nothing

Next == \/ TakeNumber \/ TakeRow \/ TakeProgram \/ TakeMessage \/ TakeKey \/ TakePoint
        \/ TakeScript \/ TakeCoin \/ TakeBlock \/ TakeOptions \/ TakeTrace
        \/ PutBack

Spec == Init /\ [][Next]_input

-----------------------------------------------------------------------------
(* Numbers.                                                                *)

\* Something before it and after it.
Within(bytes) == <<Base - 1>> \o bytes \o <<0, Base - 1>>

Reads(reader(_, _), bytes, value) == reader(Within(bytes), 2) = Read(value, 2 + Len(bytes))

UintReadsBack(n) ==
  \A endian \in Endians, width \in {1, 2, 4, 8} :
    (width = 8 \/ n < Power(Base, width)) =>
      Reads(LAMBDA row, at : DeserializeUint(row, at, width, endian),
            SerializeUint(n, width, endian), n)

\* A compact number that is cut short is refused.
CompuintReadsBack(n) ==
  n # 0 =>
    /\ \A endian \in Endians :
         Reads(LAMBDA row, at : DeserializeCompuint(row, at, endian),
               SerializeCompuint(n, endian), n)
    /\ LET bytes == SerializeCompuint(n, "big")
       IN  \A len \in 1 .. Len(bytes) :
             CompactuintGetValue(SubSeq(bytes, 1, len))
               = IF len = Len(bytes) THEN {Read(n, len + 1)} ELSE {}

\* No two rows stand for one number.
VarintReadsBack(n) ==
  /\ Reads(DeserializeVarint, SerializeVarint(n), n)
  /\ LET rows == {<<n % Base>>, <<(n \div Base) % Base, n % Base>>}
     IN  \A row \in {r \in rows : r[Len(r)] < Half /\ (Len(r) = 2 => r[1] >= Half)} :
           SerializeVarint(DeserializeVarint(row, 1).value) = row

AmountReadsBack(n) == n \in Amounts => CamountUncompress(CamountCompress(n)) = n

HexReadsBack(n) ==
  \A capital \in BOOLEAN :
    LET text == [k \in 1 .. 8 |-> Digit((n \div Power(HexBase, 8 - k)) % HexBase, capital)]
    IN  /\ HexStrToRaw(text) = {BigEndian(n % Power(HexBase, 8), 4)}
        /\ HexStrToRaw(Tail(text)) = {}
        /\ HexStrToRaw([text EXCEPT ![3] = NoDigit]) = {}

\* A number reads back wherever it is written: in each width and byte order, as
\* a compact number, as a number and an amount of the chainstate, in
\* hexadecimal (serialize.c, compactuint.c, camount.c, hex.c).
NumbersReadBack ==
  input.kind = "number" =>
    LET n == input.value
    IN  UintReadsBack(n) /\ CompuintReadsBack(n) /\ VarintReadsBack(n)
          /\ AmountReadsBack(n) /\ HexReadsBack(n)

-----------------------------------------------------------------------------
(* Hashes.                                                                 *)

\* The blocks the standards ask for: the message, a bit that is set, as few zeros
\* as fill the last block, and the length of the message in bits.
StandardBlocks(message, endian) ==
  LET open == Len(message) + 1 + 2 * HashWordLen
      zeros == CHOOSE z \in 0 .. (HashBlockLen - 1) : (open + z) % HashBlockLen = 0
      row == message \o <<Half>> \o Zeroes(zeros)
               \o InOrder(BigEndian(Len(message) * ByteBits, 2 * HashWordLen), endian)
  IN  [b \in 1 .. (Len(row) \div HashBlockLen) |->
         Slice(row, (b - 1) * HashBlockLen + 1, HashBlockLen)]

\* SHA-256 and RIPEMD-160 compress the blocks of the standard, whatever the length
\* of the message, at every boundary of a block and where its length in bits does
\* not fit in one word, and however it is handed over: nothing an earlier part or
\* block left in the buffer gets into the digest (sha256.c:81, rmd160.c:104).
DigestsAgree ==
  input.kind = "message" =>
    LET message == input.value
        size == Len(message)
    IN  \A i \in 0 .. size : \A j \in i .. size :
          LET parts == <<SubSeq(message, 1, i), SubSeq(message, i + 1, j),
                         SubSeq(message, j + 1, size)>>
          IN  /\ H!Sha256(parts) = StandardBlocks(message, "big")
              /\ H!Rmd160(parts) = StandardBlocks(message, "lit")
              /\ H!CryptoGetSha256(message) = H!Sha256(parts)
              /\ size > 0 => H!CryptoGetRmd160(message) = H!Rmd160(parts)

-----------------------------------------------------------------------------
(* Keys.                                                                   *)

\* A private key is read back from each of its texts, with its flag where the
\* text has one; leading zeros are lost in decimal (privkey.c).
PrivkeyReadsBack(data) ==
  \A compressed \in BOOLEAN :
    LET key == K!Key(data, compressed)
    IN  /\ \A net \in {"main", "test"} : K!FromWif(K!ToWif(key, net)) = {key}
        /\ K!FromHex(K!ToHex(key, FALSE)) = {K!Key(data, FALSE)}
        /\ K!FromHex(K!ToHex(key, TRUE)) = (IF compressed THEN {key} ELSE {})
        /\ K!FromDec(K!ToDec(key))
             = (IF data >= HexBase ^ (KeyDigits - 1) THEN {K!Key(data, FALSE)} ELSE {})

\* The public key of k is the generator added to itself k times, and its short
\* form says which of the two points with its x it is (pubkey.c:36, point.c).
PubkeyReadsBack(k) ==
  \A point \in C!PubkeyGet(k) :
    /\ point = C!Multiple(k)
    /\ C!PointVerify(point)
    /\ C!PubkeyUncompress(C!PubkeyCompress(C!Long(point))) = {C!Long(point)}
    /\ C!PubkeyCompress(C!Short(point)) = C!Short(point)
    /\ C!Order > k /\ k > 0

\* An x without a point is refused, whatever the flag.
NoPointRefused ==
  \A x \in 0 .. 42, flag \in {2, 3} :
    C!PubkeyUncompress([flag |-> flag, x |-> x])
      = {C!Long(point) : point \in {a \in C!Curve : a.x = x /\ a.y % 2 = flag % 2}}

\* Keys read back from what they are written as, and a public key is that of its
\* private key, in both forms.
KeysReadBack ==
  /\ input.kind = "key" => PrivkeyReadsBack(input.value)
  /\ input.kind = "point" =>
       /\ C!PubkeyGet(input.value) = {} <=> input.value = 0
       /\ PubkeyReadsBack(input.value)
       /\ input.value = 0 => NoPointRefused

-----------------------------------------------------------------------------
(* Options.                                                                *)

\* Two numbers of threads: the last one counts.
OrderMatters(tokens) ==
  Cardinality({k \in DOMAIN tokens : tokens[k].long /\ tokens[k].name = "threads"}) > 1

Agree(one, other) == one.refused = other.refused /\ (~one.refused => one = other)

\* What is accepted means one thing: at most one type and one format of the
\* input, one format of the output, the same in whatever order the options are;
\* bytes are read as bytes and written as bytes; a trace is of an input that is
\* not declared binary, and printed as JSON (opts.c:134, btk.c:352).
OptionsOneMeaning ==
  input.kind = "options" =>
    LET command == input.value.command
        tokens == input.value.tokens
        configured == input.value.configured
        opts == O!Accept(command, tokens, configured)
        types == O!Of(opts, "in-type")
        out == O!Of(opts, "out-type")
        printed == O!PrintedAs(opts)
    IN  /\ ~OrderMatters(tokens) => Agree(opts, O!Accept(command, Reverse(tokens), configured))
        /\ ~opts.refused =>
             /\ Cardinality(types) <= 1 /\ Cardinality(O!Of(opts, "in-format")) <= 1
             /\ types \cap {"raw", "binary"} # {} <=> O!Of(opts, "in-format") = {"binary"}
             /\ "raw" \in out => out = {"raw"} /\ printed = "binary"
             /\ printed \in
                  (IF command \in {"node", "config"} THEN {"list"}
                   ELSE IF command = "help" THEN {"binary"} ELSE O!Of(opts, "out-format"))
             /\ O!Is(opts, "trace") => /\ printed = "json"
                                       /\ O!Of(opts, "in-format") # {"binary"}
                                       /\ ~O!Is(opts, "create")
=============================================================================
