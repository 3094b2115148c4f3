CONSTANTS
  a1 = a1
  a2 = a2
  Addr = {a1, a2}
  NoAddress = NoAddress
  Missing = Missing
  NoAmount = NoAmount
  Chains <- AllChains
  MaxInterrupts = 2
SPECIFICATION FairSpec
INVARIANTS TxoaExact BalanceExactElsewhere
PROPERTIES RecordsInOrder CatchesUp
CHECK_DEADLOCK FALSE
