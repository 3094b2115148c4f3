------------------------------- MODULE Hashes -------------------------------
(***************************************************************************)
(* SHA-256 and RIPEMD-160 up to their compression functions: how a message *)
(* is cut into blocks, filled up and given its length                      *)
(* (mods/crypto/sha256.c, mods/crypto/rmd160.c, mods/crypto.c).  The state *)
(* of a hash is the row of blocks that were compressed, so that two        *)
(* digests are equal only if the very same blocks were.                    *)
(***************************************************************************)
EXTENDS Bytes

CONSTANTS
  BlockLen,  \* 64: bytes of a block
  WordLen,   \* 4: bytes of each of the two words of the length
  Bits       \* 8: bits of a byte

Word == Power(Base, WordLen)   \* what an unsigned int counts modulo

\* sha256_init and rmd160_init: total[0] is the low word of the length in bits.
HashInit == [state |-> <<>>, low |-> 0, high |-> 0, num |-> 0, buffer |-> Zeroes(BlockLen)]

\* The first bytes of the buffer are replaced, from place n on.
Copied(buffer, n, data) ==
  [k \in 1 .. BlockLen |-> IF k - n \in DOMAIN data THEN data[k - n] ELSE buffer[k]]

\* As many blocks as data has, one after the other.
Compressed(state, data) ==
  state \o [b \in 1 .. (Len(data) \div BlockLen) |-> Slice(data, (b - 1) * BlockLen + 1, BlockLen)]

\* Mutant of CountedBits: the carry into the high word is forgotten.
CountedLow(ctx, len) ==
  [ctx EXCEPT !.low = (@ + len * Bits) % Word, !.high = (@ + len \div (Word \div Bits)) % Word]

\* The length grows; the sum of the low words may wrap around.
CountedBits(ctx, len) ==
  LET low == (ctx.low + len * Bits) % Word
      carry == IF low < ctx.low THEN 1 ELSE 0
  IN  [ctx EXCEPT !.low = low, !.high = (@ + carry + len \div (Word \div Bits)) % Word]

\* What is left of the data after whole blocks goes to the buffer.
Rest(ctx, data) ==
  LET whole == (Len(data) \div BlockLen) * BlockLen
      rest == SubSeq(data, whole + 1, Len(data))
  IN  [ctx EXCEPT !.state = Compressed(@, data),
                  !.num = IF rest = <<>> THEN @ ELSE Len(rest),
                  !.buffer = Copied(@, 0, rest)]

\* sha256_update, rmd160_update
HashUpdate(ctx, data) ==
  LET counted == CountedBits(ctx, Len(data))
      room == BlockLen - ctx.num
      first == Copied(ctx.buffer, ctx.num, SubSeq(data, 1, room))
      filled == [counted EXCEPT !.state = Compressed(@, first), !.num = 0,
                                !.buffer = Zeroes(BlockLen)]
  IN  CASE data = <<>> -> ctx
        [] data # <<>> /\ ctx.num = 0 -> Rest(counted, data)
        [] data # <<>> /\ ctx.num # 0 /\ Len(data) < room ->
             [counted EXCEPT !.num = @ + Len(data), !.buffer = Copied(@, ctx.num, data)]
        [] OTHER -> Rest(filled, SubSeq(data, room + 1, Len(data)))

EndMark == Half   \* 0x80

\* Mutant of LengthFits: one byte too few is asked for.
LengthFitsAlmost(n) == n <= BlockLen - 2 * WordLen + 1

\* The length fits behind the first n bytes of a block.
LengthFits(n) == n <= BlockLen - 2 * WordLen

\* sha256_final, rmd160_final; what the buffer holds from before is overwritten.
HashFinal(ctx, endian) ==
  LET marked == Copied(ctx.buffer, ctx.num, <<EndMark>>)
      n == ctx.num + 1
      filled(buffer, from) == Copied(buffer, from, Zeroes(BlockLen - from))
      length == IF endian = "big" THEN BigEndian(ctx.high, WordLen) \o BigEndian(ctx.low, WordLen)
                ELSE Reverse(BigEndian(ctx.low, WordLen)) \o Reverse(BigEndian(ctx.high, WordLen))
      room == BlockLen - 2 * WordLen
      last(buffer, from) == SubSeq(Copied(buffer, from, Zeroes(room - from)), 1, room) \o length
  IN  IF LengthFits(n) THEN Compressed(ctx.state, last(marked, n))
      ELSE Compressed(Compressed(ctx.state, filled(marked, n)), last(filled(marked, n), 0))

\* A hash of a message that is handed over in parts.
Digest(parts, endian) ==
  LET ctx[k \in 0 .. Len(parts)] ==
        IF k = 0 THEN HashInit ELSE HashUpdate(ctx[k - 1], parts[k])
  IN  HashFinal(ctx[Len(parts)], endian)

Sha256(parts) == Digest(parts, "big")
Rmd160(parts) == Digest(parts, "lit")

\* The program hands its messages over in one part; for RIPEMD-160 it asserts that
\* there are any bytes.
CryptoGetSha256(message) == Sha256(<<message>>)
CryptoGetRmd160(message) == Rmd160(<<message>>)
=============================================================================
