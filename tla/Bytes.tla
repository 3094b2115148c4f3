-------------------------------- MODULE Bytes --------------------------------
(***************************************************************************)
(* Numbers as bytes (mods/serialize.c, compactuint.c, hex.c, camount.c).   *)
(*                                                                         *)
(* A byte is a number below Base, which is 256 in the code.  A reader      *)
(* takes the bytes and the place it starts at, and returns the value and   *)
(* the place after it.  Inputs are whole: the code trusts their lengths.   *)
(***************************************************************************)
EXTENDS Integers, SequencesExt, FiniteSetsExt

CONSTANTS
  Base,      \* the values of a byte: 256
  ByteBits,  \* 8
  Ten        \* the base of decimal amounts: 10

ASSUME BytesAssumption == Base \in Nat /\ Base > 4 /\ Base % 2 = 0 /\ Ten \in Nat /\ Ten > 1

Half == Base \div 2   \* the first byte with the high bit

Endians == {"big", "lit"}

Read(value, at) == [value |-> value, at |-> at]

\* base ^ e, by its recursion.
Power(base, e) ==
  LET power[k \in Nat] == IF k = 0 THEN 1 ELSE base * power[k - 1]
  IN  power[e]

BigEndian(n, width) == [k \in 1 .. width |-> (n \div Power(Base, width - k)) % Base]

Value(bytes, base) ==
  LET value[k \in 0 .. Len(bytes)] == IF k = 0 THEN 0 ELSE value[k - 1] * base + bytes[k]
  IN  value[Len(bytes)]

InOrder(bytes, endian) == IF endian = "big" THEN bytes ELSE Reverse(bytes)

Zeroes(len) == [k \in 1 .. len |-> 0]

Slice(input, at, len) == SubSeq(input, at, at + len - 1)

-----------------------------------------------------------------------------
(* Numbers of fixed width: 1, 2, 4 and 8 bytes; rows of bytes.             *)

SerializeUint(n, width, endian) == InOrder(BigEndian(n, width), endian)

DeserializeUint(input, at, width, endian) ==
  Read(Value(InOrder(Slice(input, at, width), endian), Base), at + width)

DeserializeUchar(input, at, len, endian) ==
  Read(InOrder(Slice(input, at, len), endian), at + len)

-----------------------------------------------------------------------------
(* Compact numbers: one byte, or a byte that names the width (0xfd, 0xfe   *)
(* and 0xff) and the number.                                               *)

Marks == << Base - 3, Base - 2, Base - 1 >>
Widths == << 2, 4, 8 >>

\* Mutant of Mark: the number the first mark stands for is written in one byte.
MarkLate(n) ==
  CASE n <= Marks[1] -> 0
    [] n > Marks[1] /\ n < Power(Base, 2) -> 1
    [] n >= Power(Base, 2) /\ n < Power(Base, 4) -> 2
    [] OTHER -> 3

\* Which mark a number gets; 0 for none.
Mark(n) == CASE n < Marks[1] -> 0
             [] n >= Marks[1] /\ n < Power(Base, 2) -> 1
             [] n >= Power(Base, 2) /\ n < Power(Base, 4) -> 2
             [] OTHER -> 3

\* serialize_compuint asserts that the number is not 0, as if it were a pointer.
SerializeCompuint(n, endian) ==
  IF Mark(n) = 0 THEN <<n>>
  ELSE << Marks[Mark(n)] >> \o SerializeUint(n, Widths[Mark(n)], endian)

DeserializeCompuint(input, at, endian) ==
  IF input[at] < Marks[1] THEN Read(input[at], at + 1)
  ELSE DeserializeUint(input, at + 1, Widths[input[at] - Marks[1] + 1], endian)

\* compactuint_get_value, of an input whose length it looks at; {} is its error.
CompactuintGetValue(input) ==
  IF Len(input) <= (IF input[1] < Marks[1] THEN 0 ELSE Widths[input[1] - Marks[1] + 1]) THEN {}
  ELSE {DeserializeCompuint(input, 1, "big")}

-----------------------------------------------------------------------------
(* The numbers of the chainstate: seven bits in a byte, the high bit says  *)
(* that more follows, and every further byte takes one off.                *)

Above(n) == n \div Half - 1

SerializeVarint(n) ==
  LET digits[m \in Nat] == IF m < Half THEN <<m>> ELSE Append(digits[Above(m)], m % Half)
      row == digits[n]
  IN  [k \in DOMAIN row |-> IF k < Len(row) THEN row[k] + Half ELSE row[k]]

DeserializeVarint(input, at) ==
  LET last == CHOOSE k \in at .. Len(input) :
                input[k] < Half /\ \A j \in at .. (k - 1) : input[j] >= Half
      value[k \in (at - 1) .. last] ==
        IF k < at THEN 0 ELSE value[k - 1] * Half + (input[k] % Half) + (input[k] \div Half)
  IN  Read(value[last], last + 1)

-----------------------------------------------------------------------------
(* Amounts of the chainstate: how many zeros end the number, its last      *)
(* digit before them, and the rest.                                        *)

Zeros(n) == Max({k \in 0 .. (Ten - 1) : n % Power(Ten, k) = 0})

CamountCompress(n) ==
  IF n = 0 THEN 0
  ELSE LET e == Zeros(n)
           m == n \div Power(Ten, e)
       IN  IF e < Ten - 1 THEN 1 + ((m \div Ten) * (Ten - 1) + (m % Ten) - 1) * Ten + e
           ELSE 1 + (m - 1) * Ten + Ten - 1

LastDigit(n) == (n % (Ten - 1)) + 1

CamountUncompress(n) ==
  IF n = 0 THEN 0
  ELSE LET e == (n - 1) % Ten
           m == (n - 1) \div Ten
       IN  Power(Ten, e) * (IF e < Ten - 1 THEN (m \div (Ten - 1)) * Ten + LastDigit(m) ELSE m + 1)

-----------------------------------------------------------------------------
(* Hexadecimal text: a character is a digit and whether it is a capital.   *)

HexBase == CHOOSE h \in 2 .. Base : h * h = Base

Digit(n, capital) == [digit |-> n, capital |-> capital]

NoDigit == [digit |-> HexBase, capital |-> FALSE]   \* any other character

HexIschar(c) == c.digit < HexBase

\* hex_str_to_raw; {} is its error.
HexStrToRaw(text) ==
  IF Len(text) % 2 # 0 \/ \E k \in DOMAIN text : ~HexIschar(text[k]) THEN {}
  ELSE {[k \in 1 .. (Len(text) \div 2) |->
           text[2 * k - 1].digit * HexBase + text[2 * k].digit]}
=============================================================================
