---------------------------- MODULE MCConversions ----------------------------
(***************************************************************************)
(* Inputs for TLC.  A byte has 16 values (four bits) and hexadecimal is    *)
(* base 4; base58 is base 7.  A hash of a key has two bytes, one of a      *)
(* transaction two, a witness program three at most, a coordinate two.     *)
(***************************************************************************)
EXTENDS TextConversions

\* Around every width and every mark, and amounts with zeros at their end.
MCNumbers ==
  0 .. 300 \cup 65530 .. 65540 \cup {4095, 4096, 4097, 2147483647, 2147483646}
    \cup {10 ^ 9, 2 * 10 ^ 9}
    \cup {d * 10 ^ k : d \in {1, 9, 10, 11, 29}, k \in 1 .. 6}
    \cup {Half + Half ^ 2 + d : d \in {-1, 0, 1}}

\* Those TLC's numbers have room for when they are compressed.
MCAmounts == {n \in MCNumbers : n < 10 ^ 8 \/ n % 10 = 0}

Few == {0, 1, 6, 15}

MCRows == UNION {[1 .. n -> Few] : n \in 1 .. 4} \ {[k \in 1 .. n |-> 0] : n \in 1 .. 4}

\* Any function that tells a row from its neighbours.
MCChecksum(bytes) == << (5 * Value(bytes, 3) + Len(bytes) + 1) % Base >>

MCPointKeys == 0 .. 30

\* Up to three blocks, and lengths in bits of two words.
MCMessages == UNION {{[k \in 1 .. n |-> 0], [k \in 1 .. n |-> 1 + ((5 * k + 2) % 15)]} : n \in 0 .. 20}

MCPrograms == {<<0, 0>>, <<15, 1>>, <<6, 9>>, <<1, 2, 3>>, <<15, 15, 15>>}

-----------------------------------------------------------------------------
(* Scripts.                                                                *)

MCSolveY(x, sign) ==
  IF sign \notin {0, 1} \/ Value(x, Base) >= 43 THEN {}
  ELSE {BigEndian(key.y, CoordinateLen) :
          key \in C!PubkeyUncompress([flag |-> 2 + sign, x |-> Value(x, Base)])}

Hash == <<14, 3>>

\* The x of two points, and one that is not.
OnCurve == {BigEndian(2, 2), BigEndian((CHOOSE a \in C!Curve : a.x > 20).x, 2)}
OffCurve == {BigEndian(CHOOSE x \in 0 .. 42 : \A a \in C!Curve : a.x # x, 2)}

P2pkhScript == <<OpDup, OpHash160, HashLen>> \o Hash \o <<OpEqualVerify, OpCheckSig>>
P2shScript == <<OpHash160, HashLen>> \o Hash \o <<OpEqual>>

KeyScripts ==
  {<<ShortKey, mark>> \o x \o <<OpCheckSig>> : mark \in {2, 3}, x \in OnCurve \cup OffCurve}
    \cup {<<LongKey, 4>> \o x \o y \o <<OpCheckSig>> :
            x \in OnCurve \cup OffCurve, y \in UNION {MCSolveY(z, s) : z \in OnCurve, s \in {0, 1}}}

WitnessScripts ==
  {<<0, HashLen>> \o Hash, <<0, ProgramLen, 1, 2, 3>>, <<OpOne, ProgramLen, 9, 2, 3>>}

Templates ==
  {P2pkhScript, P2shScript, <<OpDup, OpHash160, 0, OpEqualVerify, OpCheckSig>>,
   <<OpDup, OpHash160, HashLen, OpCheckSig>>, <<15, 1, 14>>, <<OpCheckSig>>, <<OpEqual>>}
    \cup KeyScripts \cup WitnessScripts

Changed(script) == {[script EXCEPT ![k] = b] : k \in DOMAIN script, b \in {0, 1, 2, 4, 11, 13}}

MCGiven ==
  UNION {Changed(script) \cup {SubSeq(script, 1, k) : k \in 0 .. Len(script)}
           \cup {script \o <<b>> : b \in {0, OpEqual, OpCheckSig}}
           \cup {SubSeq(script, 1, k - 1) \o SubSeq(script, k + 1, Len(script)) : k \in DOMAIN script} :
         script \in Templates}

\* Zeros, the opcodes that end a script, and a script that was there before.
MCStrays ==
  {[k \in 0 .. 9 |-> 0], [k \in 0 .. 9 |-> OpCheckSig],
   [k \in 0 .. 9 |-> IF k \in DOMAIN P2pkhScript THEN P2pkhScript[k] ELSE OpCheckSig]}

MCUnnamed == {13, 14}

MCObfuscations == {<<0>>, <<9, 6, 15>>}

MCCoins ==
  {[height |-> h, coinbase |-> c, amount |-> a, hash |-> hash, position |-> p,
    script |-> P2pkhScript] :
     h \in {0, 3, 4, 500}, c \in {0, 1}, a \in {0, 1, 50, 70001}, hash \in {<<1, 2>>, <<0, 15>>},
     p \in {0, 7, 8, 200}}

Tx(ins, outs, witnesses) ==
  [version |-> 2, inputs |-> ins, outputs |-> outs, witnesses |-> witnesses, lock_time |-> 77]

In(hash, index, script) == [hash |-> hash, index |-> index, script |-> script, sequence |-> 65535]
Paid(amount, script) == [amount |-> amount, script |-> script]

Ins == {<<In(<<0, 0>>, 65535, <<1, 0>>)>>, <<In(<<1, 2>>, 3, <<>>)>>,
        <<In(<<1, 2>>, 0, <<>>), In(<<9, 1>>, 256, [k \in 1 .. 14 |-> 5])>>}
Outs == {<<Paid(5000, P2pkhScript)>>, <<Paid(0, <<>>), Paid(70000, P2shScript)>>}

\* None, or a row of stack items for each input.
Witnesses(n) ==
  {<<>>} \cup {[k \in 1 .. n |-> IF k = 1 THEN first ELSE << <<4>> >>] :
                 first \in {<<>>, << <<1, 2>>, <<>> >>}}

Txs == UNION {{Tx(ins, outs, w) : outs \in Outs, w \in Witnesses(Len(ins))} : ins \in Ins}

MCBlocks ==
  {[version |-> 1, prev |-> <<8, 9>>, merkel |-> <<5, 5>>, time |-> 4321, bits |-> 7,
    nonce |-> n, txs |-> txs] :
     n \in {0, 65535}, txs \in {<<>>} \cup {<<a>> : a \in Txs} \cup {<<a, b>> : a \in Txs, b \in Txs}}

-----------------------------------------------------------------------------
(* Command lines of two options, and some of three.                        *)

ShortOnes == {O!Short(l, IF l \in {"G", "h", "p"} THEN "x" ELSE "") : l \in DOMAIN O!Letters \ {"t"}}
               \cup {O!Short("t", 2)}

LongOnes ==
  UNION {{O!Long(name, arg) : arg \in O!Choices[name] \cup {"other"}} : name \in DOMAIN O!Choices}
    \cup {O!Long(name, "x") : name \in O!Kept} \cup {O!Long(name, "") : name \in O!Switches}
    \cup {O!Long("threads", n) : n \in {0, 2, 3}}

\* The options of a command, and one of no command but balance.
Tokens(command) ==
  {t \in ShortOnes \cup LongOnes : O!NameOf(t) \in O!Permitted(command) \cup {"update"}}

Threes ==
  {O!Long("in-type", "raw"), O!Short("b", ""), O!Short("j", ""), O!Short("J", ""), O!Short("B", ""),
   O!Short("R", ""), O!Short("W", ""), O!Long("trace", ""), O!Long("create", ""), O!Short("G", "x"),
   O!Short("x", ""), O!Short("U", "")}

\* Nothing, one of the two options a node needs, both.
Configured(c) == IF c = "balance" THEN {{}, {"hostname"}, {"hostname", "rpc-auth"}} ELSE {{}}

MCCommandLines ==
  UNION {{[command |-> c, tokens |-> tokens, configured |-> keys] :
            keys \in Configured(c),
            tokens \in {<<>>} \cup {<<t>> : t \in Tokens(c)}
                         \cup {<<t, u>> : t \in Tokens(c), u \in Tokens(c)}} :
         c \in O!Commands}
    \cup {[command |-> "privkey", tokens |-> <<t, u, v>>, configured |-> {}] :
            t \in Threes, u \in Threes, v \in Threes}

-----------------------------------------------------------------------------
(* Traces of two and three outputs; the text 1 does not match the search.  *)

Text(n) == [word |-> n, capital |-> FALSE]

Item(output, chain) == [output |-> output, chain |-> chain]

Names == {Text(1), Text(2), Text(3), [word |-> 3, capital |-> TRUE]}

Items == {Item(o, chain) : o \in Names, chain \in UNION {[1 .. n -> Names] : n \in 1 .. 2}}

Plain == {Item(Text(o), chain) : o \in {1, 2},
            chain \in {<<Text(5)>>, <<Text(6)>>, <<Text(5), Text(7)>>, <<Text(6), Text(7)>>,
                       <<Text(6), Text(8)>>, <<Text(6), Text(7), Text(9)>>}}

\* As many inputs as the list holds are in Plain; here is one more.
Deep == {Item(Text(o), <<Text(6), Text(7), Text(9), Text(4)>>) : o \in {1, 2}}

MCTraces ==
  {<<a, b>> : a \in Items, b \in Items} \cup {<<a, b, c>> : a \in Plain, b \in Plain, c \in Plain}
    \cup {<<a, b>> : a \in Plain \cup Deep, b \in Deep}
=============================================================================
