CONSTANTS
  a1 = a1
  a2 = a2
  Addr = {a1, a2}
  NoAddress = NoAddress
  Missing = Missing
  NoAmount = NoAmount
  Chains <- LegacyChains
  MaxInterrupts = 0
SPECIFICATION Spec
INVARIANT BalanceExact
CHECK_DEADLOCK FALSE
