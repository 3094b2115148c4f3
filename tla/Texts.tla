-------------------------------- MODULE Texts --------------------------------
(***************************************************************************)
(* Bytes as text: base58 with a checksum, and the addresses of witness     *)
(* programs (mods/base58.c, base58check.c, base32.c, bech32.c).            *)
(*                                                                         *)
(* A character is the place it has in its alphabet, so that the zero bytes *)
(* and the first character of base58 are both 0.  The checksum of          *)
(* base58check is the first bytes of a hash: any function that tells the   *)
(* texts of an instance apart.  The one of bech32 is computed.             *)
(***************************************************************************)
EXTENDS Bytes, Bitwise

CONSTANTS
  CodeBase,      \* BASE58_CODE_STRING_LENGTH: 58
  CheckLen,      \* CHECKSUM_LENGTH of base58check: 4
  Checksum(_),   \* crypto_get_checksum
  AddressLen     \* 25: bytes of an address with its checksum

Wrong == CodeBase   \* a character that is not in the alphabet

LeadingZeros(row) ==
  Cardinality({k \in DOMAIN row : \A j \in 1 .. k : row[j] = 0})

\* The digits of a number, and none for zero: mpz_export, and the loop of base58_encode.
DigitsOf(n, base) ==
  LET width == CHOOSE w \in 0 .. 31 :   \* bound: 31 digits
                 n < base ^ w /\ (w = 0 \/ n >= base ^ (w - 1))
  IN  [k \in 1 .. width |-> (n \div base ^ (width - k)) % base]

-----------------------------------------------------------------------------
(* Base58.                                                                 *)

\* base58_encode: an input of zeros only would be read past its end.
Base58Encode(bytes) ==
  Zeroes(LeadingZeros(bytes)) \o DigitsOf(Value(bytes, Base), CodeBase)

\* base58_decode: the zeros at the start are lost; {} is its error.
Base58Decode(text) ==
  IF \E k \in DOMAIN text : text[k] >= CodeBase THEN {}
  ELSE {DigitsOf(Value(text, CodeBase), Base)}

Base58checkEncode(bytes) == Base58Encode(bytes \o Checksum(bytes))

\* Mutant of Padded: no zero is put back.
PaddedNot(bytes, type) == bytes

\* The zeros of a main network address are put back.
Padded(bytes, type) ==
  IF type = "address" THEN Zeroes(AddressLen - Len(bytes)) \o bytes ELSE bytes

\* base58check_decode: data that its checksum follows.  Every caller asks for
\* the type without a padding.
Base58checkDecode(text, type) ==
  LET rows == {Padded(bytes, type) : bytes \in Base58Decode(text)}
      data == {SubSeq(row, 1, Len(row) - CheckLen) : row \in rows}
  IN  {bytes \in data \ {<<>>} : bytes \o Checksum(bytes) \in rows}

-----------------------------------------------------------------------------
(* Bech32.                                                                 *)

GroupBits == 5

\* base32_encode_raw: the bits in groups, the last one filled up with zeros.
Base32Encode(bytes) ==
  LET size == Len(bytes) * ByteBits
      Bit(k) == IF k > size THEN 0
                ELSE (bytes[((k - 1) \div ByteBits) + 1]
                        \div 2 ^ (ByteBits - 1 - ((k - 1) % ByteBits))) % 2
      groups == (size + GroupBits - 1) \div GroupBits
  IN  [g \in 1 .. groups |-> Value([j \in 1 .. GroupBits |-> Bit((g - 1) * GroupBits + j)], 2)]

Generators == << 996825010, 642813549, 513874426, 1027748829, 705979059 >>   \* gen[]

\* bech32_polymod_step
PolymodStep(value, chk) ==
  LET top == chk \div 2 ^ 25
      Gen(i) == IF (top \div 2 ^ (i - 1)) % 2 = 1 THEN Generators[i] ELSE 0
  IN  FoldLeft(LAMBDA a, b : a ^^ b, (chk % 2 ^ 25) * 2 ^ 5,
               << Gen(1), Gen(2), Gen(3), Gen(4), Gen(5), value >>)

Polymod(values) ==
  LET after[k \in 0 .. Len(values)] ==
        IF k = 0 THEN 1 ELSE LET chk == after[k - 1] IN PolymodStep(values[k], chk)
  IN  after[Len(values)]

\* "bc" and "tb": the three high bits of each, a zero, the five low ones.
Prefix(net) == CASE net = "main" -> << 3, 3, 0, 2, 3 >>
                 [] net = "test" -> << 3, 3, 0, 20, 2 >>

\* Mutant of Final: one number for all versions.
FinalOne(version) == 1

\* What the checksum is combined with: 1, or 0x2bc830a3 for the later versions.
Final(version) == IF version = 0 THEN 1 ELSE 734539939

BechChecksumLen == 6

\* bech32_get_address: the prefix, the version, the program and the checksum.
Bech32GetAddress(program, version, net) ==
  LET values == << version >> \o Base32Encode(program)
      chk == Polymod(Prefix(net) \o values \o Zeroes(BechChecksumLen)) ^^ Final(version)
  IN  [net |-> net,
       values |-> values \o [i \in 1 .. BechChecksumLen |->
                               (chk \div 2 ^ (GroupBits * (BechChecksumLen - i))) % 2 ^ GroupBits]]
=============================================================================
