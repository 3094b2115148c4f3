CONSTANTS
  a1 = a1
  a2 = a2
  Addr = {a1, a2}
  NoAddress = NoAddress
  Missing = Missing
  NoAmount = NoAmount
  Chains <- ImportChains
  MaxInterrupts = 1
SPECIFICATION ImportSpec
INVARIANTS ImportLacksOneRecord ImportedExactElsewhere
CHECK_DEADLOCK FALSE
