CONSTANTS
  Run = {r1, r2}
  ValidKeys = {"hostname", "rpc-auth"}
  OtherKey = "port"
  Values = {1, 2}
  Bufsiz = 7
  Handwritten <- HandwrittenFiles
  MaxRuns = 3
SPECIFICATION Spec
INVARIANT CommandsAddUp
PROPERTIES BalanceSettings UnreadableForGood
CHECK_DEADLOCK FALSE
