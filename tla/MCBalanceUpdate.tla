-------------------------- MODULE MCBalanceUpdate --------------------------
(***************************************************************************)
(* Chains for TLC, built one transaction at a time: a spending transaction *)
(* takes one or two outputs that are still unspent, so spends within a     *)
(* block, across blocks, of two outputs of one address and of outputs      *)
(* without an address all occur.  No transaction pays out more than it     *)
(* spends.  Coinbase transactions that pay none of the modelled addresses  *)
(* are left out.                                                           *)
(***************************************************************************)
EXTENDS BalanceUpdate, SequencesExt

CONSTANTS a1, a2

Out(a, v) == [addr |-> a, amt |-> v]

Tx(ins, outs, segwit) == [ins |-> ins, outs |-> outs, segwit |-> segwit]

Available(txs) ==
  (UNION {{m} \X DOMAIN txs[m].outs : m \in DOMAIN txs})
    \ (UNION {Range(txs[m].ins) : m \in DOMAIN txs})

Value(txs, O) == MapThenSumSet(LAMBDA o : txs[o[1]].outs[o[2]].amt, O)

Paid(outs) == MapThenSumSet(LAMBDA j : outs[j].amt, DOMAIN outs)

\* All ways to add a coinbase transaction, or one that spends.
WithCoinbase(T, outLists) ==
  {Append(txs, Tx(<<>>, outs, FALSE)) : txs \in T, outs \in outLists}

WithSpend(T, outLists, segwit) ==
  UNION {UNION {{Append(txs, Tx(SetToSeq(O), outs, w)) :
                   outs \in {l \in outLists : Paid(l) <= Value(txs, O)},
                   w \in segwit} :
                O \in {S \in SUBSET Available(txs) : Cardinality(S) \in {1, 2}}} :
         txs \in T}

CoinbaseOuts == {<<Out(a1, 2), Out(a1, 1)>>, <<Out(a2, 1), Out(a1, 2)>>}
SpendOuts    == {<<Out(a1, 1), Out(a2, 1)>>, <<Out(a2, 1), Out(NoAddress, 0)>>}
DoubleOuts   == {<<Out(a2, 1), Out(a2, 1)>>, <<Out(a1, 1)>>}

\* Block 1 is transaction 1; block 2 is 2 and 3, which may spend 2; block 3 is 4.
Build(first, second, third, segwit) ==
  {[tx |-> txs, end |-> <<1, 3, 4>>] :
     txs \in WithCoinbase(WithSpend(WithSpend(WithCoinbase({<<>>}, first),
                                             second, segwit), third, {FALSE}),
                          {<<Out(a2, 2)>>})}

AllChains == Build(CoinbaseOuts, SpendOuts, DoubleOuts, BOOLEAN)

LegacyChains == Build(CoinbaseOuts, SpendOuts, DoubleOuts, {FALSE})
=============================================================================
