------------------------- MODULE MCChainstateImport -------------------------
(***************************************************************************)
(* The chains of MCBalanceUpdate, imported at any height and then updated, *)
(* and chains whose third block spends what the second one made and leaves *)
(* one output: an import that throws that record away applies both again.  *)
(***************************************************************************)
EXTENDS MCBalanceUpdate, ChainstateImport

SpendingChains ==
  {[tx |-> txs, end |-> <<1, 2, 3, 4>>] :
     txs \in WithCoinbase(WithSpend(WithCoinbase(WithCoinbase({<<>>}, CoinbaseOuts),
                                                 {<<Out(a2, 2)>>}),
                                    {<<Out(a2, 1)>>}, BOOLEAN),
                          {<<Out(a1, 2)>>})}

ImportChains == AllChains \cup SpendingChains
=============================================================================
