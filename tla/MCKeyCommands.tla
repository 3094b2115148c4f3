--------------------------- MODULE MCKeyCommands ---------------------------
(***************************************************************************)
(* Private keys of two digits of base 3 (0 to 8), decimal digits 0 and 1:  *)
(* 10 is a key in hexadecimal and too short a number in decimal, 100 a     *)
(* decimal number only (11 in hexadecimal), 101 a hexadecimal key with a   *)
(* flag and a decimal number of its own, 1010 a decimal number with more   *)
(* digits in hexadecimal (101) than a key.                                 *)
(***************************************************************************)
EXTENDS KeyCommands

TestWif   == WifText("test", 5, "one")
MainWif   == WifText("main", 4, "none")
HexKey    == DigitText(<<1, 0>>)
LongKey   == DigitText(<<1, 0, 0>>)
EitherKey == DigitText(<<1, 0, 1>>)
TooLong   == DigitText(<<1, 0, 1, 0>>)
Words     == [kind |-> "words", numbers |-> <<2, 1, 2>>]
ManyWords == [kind |-> "words", numbers |-> <<0, 1, 2, 3>>]
ShortPub  == PubText(7, TRUE, TRUE)
LongPub   == PubText(6, FALSE, TRUE)
NoPoint   == PubText(3, TRUE, FALSE)

AllTexts == {TestWif, MainWif, HexKey, LongKey, EitherKey, TooLong, Words, ManyWords,
             ShortPub, LongPub, NoPoint}

HashOf(text) == IF text = Words THEN 8 ELSE 2
Hashed(data) == (data + 2) % 9

\* A WIF and a public key are taken to start with the number 1.
NumbersOf(text) ==
  CASE text.kind = "words"  -> text.numbers
    [] text.kind = "digits" -> <<Number(text.digits, DecBase)>>
    [] OTHER -> <<1, 0>>

Base == [command |-> "none", type |-> "none", out |-> {}, on |-> FALSE, off |-> FALSE,
         test |-> FALSE, stream |-> FALSE, rehash |-> <<>>]

Privkey ==
  {[Base EXCEPT !.command = "privkey", !.type = t, !.out = o, !.on = c, !.off = u] :
     t \in {"none", "wif", "hex", "string", "decimal"}, o \in {{}, {"raw"}, {"wif", "hex", "decimal"}},
     c \in BOOLEAN, u \in BOOLEAN}
  \cup {[Base EXCEPT !.command = "privkey", !.type = t, !.test = TRUE, !.rehash = r, !.on = c] :
          t \in {"none", "hex", "string", "decimal"}, c \in BOOLEAN,
          r \in {<<>>, <<2, 0, 2>>, <<Star, 1>>, <<3, Star, 0>>, <<1, 4>>, <<0, 1, 2, 3, 0>>}}

Pubkey ==
  {[Base EXCEPT !.command = "pubkey", !.type = t, !.on = c, !.off = u] :
     t \in {"none", "wif", "hex"}, c \in BOOLEAN, u \in BOOLEAN}

Address ==
  {[Base EXCEPT !.command = "address", !.type = t, !.out = o, !.stream = s] :
     t \in {"none", "wif", "hex", "string"}, s \in BOOLEAN,
     o \in {{}, {"p2wpkh"}, {"p2pkh", "p2wpkh"}, {"p2pkh", "p2wpkh-v1"}}}

Balance ==
  {[Base EXCEPT !.command = "balance", !.type = t] : t \in {"none", "wif", "string"}}

AllOptions == Privkey \cup Pubkey \cup Address \cup Balance
=============================================================================
