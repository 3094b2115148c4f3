-------------------------------- MODULE Keys --------------------------------
(***************************************************************************)
(* Private and public keys and the texts they are read from and written    *)
(* to (mods/privkey.c, mods/pubkey.c, mods/address.c, mods/crypto.c).      *)
(*                                                                         *)
(* A private key is a number below HexBase^KeyDigits.  A text is what it   *)
(* is good for: a WIF whose checksum is right, the hex form of a public    *)
(* key, a row of digits (which may be read as hexadecimal or as decimal),  *)
(* or other words.  The public key of a private key is named by it.  The   *)
(* compression flag is one digit.                                          *)
(***************************************************************************)
EXTENDS Integers, SequencesExt, FiniteSetsExt

CONSTANTS
  HexBase,    \* 16
  DecBase,    \* 10: the digits below it are decimal
  KeyDigits,  \* 64: hexadecimal digits of a private key
  Hash(_),    \* SHA-256 of a text, as a private key
  HashKey(_)  \* SHA-256 of a private key, as a private key

KeyData == 0 .. (HexBase ^ KeyDigits - 1)

Number(digits, base) == FoldLeft(LAMBDA n, d : n * base + d, 0, digits)

Width(n, base) ==
  1 + Cardinality({k \in 1 .. (4 * KeyDigits) : n >= base ^ k})   \* bound: digits of a number

\* The digits of n in a row of the given width.
Row(n, base, width) == [k \in 1 .. width |-> (n \div base ^ (width - k)) % base]

\* mpz_get_str: no leading zeros.
Digits(n, base) == Row(n, base, Width(n, base))

DigitText(digits) == [kind |-> "digits", digits |-> digits]

IsDigits(text)  == text.kind = "digits"
IsDecimal(text) == IsDigits(text) /\ \A k \in DOMAIN text.digits : text.digits[k] < DecBase

-----------------------------------------------------------------------------
(* Reading a private key: the set of keys a text may be read as, none when *)
(* it is refused.                                                          *)

Key(data, compressed) == [data |-> data, compressed |-> compressed]

WifText(net, data, flag) == [kind |-> "wif", net |-> net, data |-> data, flag |-> flag]

\* privkey_from_wif; it also sets the network, see KeyCommands.
FromWif(text) ==
  IF text.kind = "wif" /\ text.net \in {"main", "test"} /\ text.flag \in {"none", "one"}
    THEN {Key(text.data, text.flag = "one")} ELSE {}

\* Mutant of FromHex: any flag is taken for that of a compressed key.
FromHexAnyFlag(text) ==
  IF ~IsDigits(text) \/ Len(text.digits) \notin {KeyDigits, KeyDigits + 1} THEN {}
  ELSE {Key(Number(SubSeq(text.digits, 1, KeyDigits), HexBase),
            Len(text.digits) = KeyDigits + 1)}

\* privkey_from_hex
FromHex(text) ==
  IF ~IsDigits(text) \/ Len(text.digits) \notin {KeyDigits, KeyDigits + 1} THEN {}
  ELSE LET data == Number(SubSeq(text.digits, 1, KeyDigits), HexBase)
       IN  CASE Len(text.digits) = KeyDigits -> {Key(data, FALSE)}
             [] Last(text.digits) = 1 -> {Key(data, TRUE)}
             [] OTHER -> {}

\* privkey_from_raw does of bytes what privkey_from_hex does of digits.
FromRaw(text) == FromHex(text)

\* privkey_from_dec and privkey_from_sbd: the number is written in hexadecimal,
\* without leading zeros, and that is read.
FromDec(text) ==
  IF ~IsDecimal(text) THEN {}
  ELSE FromHex(DigitText(Digits(Number(text.digits, DecBase), HexBase)))

\* They write it to a buffer that has room for the digits of a key.
DecOverruns(text) ==
  IsDecimal(text) /\ Width(Number(text.digits, DecBase), HexBase) > KeyDigits

\* privkey_from_str and privkey_from_blob do not set the compression flag of
\* the key, which is memory from malloc.
FromStr(text) == {Key(Hash(text), compressed) : compressed \in BOOLEAN}

FromBlob(text) == FromStr(text)

\* privkey_from_guess; a string is always taken.
FromGuess(text) ==
  CASE FromWif(text) # {} -> FromWif(text)
    [] FromWif(text) = {} /\ FromHex(text) # {} -> FromHex(text)
    [] FromWif(text) = {} /\ FromHex(text) = {} /\ FromDec(text) # {} -> FromDec(text)
    [] OTHER -> FromStr(text)

\* btk_privkey_get
ReadPrivkey(type, text) ==
  CASE type = "wif"    -> FromWif(text)
    [] type = "hex"    -> FromHex(text)
    [] type = "raw"    -> FromRaw(text)
    [] type = "string" -> FromStr(text)
    [] type = "blob"   -> FromBlob(text)
    [] type = "none"   -> FromGuess(text)
    [] type \in {"decimal", "sbd"} -> FromDec(text)

-----------------------------------------------------------------------------
(* Writing a private key.                                                  *)

\* privkey_is_compressed decides the form, in ToWif and ToHex as well.
FlagOf(key, yes, no) == IF key.compressed THEN yes ELSE no

ToWif(key, net) == WifText(net, key.data, FlagOf(key, "one", "none"))

ToHex(key, withFlag) ==
  DigitText(Row(key.data, HexBase, KeyDigits)
              \o IF withFlag THEN <<FlagOf(key, 1, 0)>> ELSE <<>>)

ToRaw(key) == ToHex(key, FALSE)

ToDec(key) == DigitText(Digits(key.data, DecBase))

-----------------------------------------------------------------------------
(* Public keys.  Not every x of a compressed one is that of a point.       *)

PubText(point, compressed, solvable) ==
  [kind |-> "pubhex", point |-> point, compressed |-> compressed, solvable |-> solvable]

IsZero(key) == key.data = 0

\* pubkey_get refuses zero; the flag of the private key decides the form.
PubkeyOf(key) ==
  IF IsZero(key) THEN {} ELSE {PubText(key.data, key.compressed, TRUE)}

\* pubkey_from_hex and pubkey_from_raw do not look whether there is a point.
PubkeyFromHex(text) == IF text.kind = "pubhex" THEN {text} ELSE {}

PubkeyFromWif(text) == UNION {PubkeyOf(key) : key \in FromWif(text)}

PubkeyFromGuess(text) ==
  IF PubkeyFromWif(text) # {} THEN PubkeyFromWif(text) ELSE PubkeyFromHex(text)

ReadPubkey(type, text) ==
  CASE type = "wif"  -> PubkeyFromWif(text)
    [] type = "hex"  -> PubkeyFromHex(text)
    [] OTHER         -> PubkeyFromGuess(text)

Compress(pubkey) == [pubkey EXCEPT !.compressed = TRUE]

\* pubkey_uncompress leaves a key without a point as it is, and nobody looks
\* at what it returns.
Uncompress(pubkey) == IF pubkey.solvable THEN [pubkey EXCEPT !.compressed = FALSE] ELSE pubkey

\* address_get_p2pkh: the address is that of the very bytes of the key.
P2pkh(pubkey, net) == [kind |-> "p2pkh", net |-> net, of |-> pubkey]

P2wpkh(pubkey, net, version) ==
  [kind |-> "p2wpkh", version |-> version, net |-> net, of |-> pubkey]
=============================================================================
