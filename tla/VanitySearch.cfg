CONSTANTS
  Workers = 3
  Clients = {"btk", "main"}
  MaxSignals = 1
SPECIFICATION FairSpec
INVARIANTS ResultOfOneKey ContextsOutliveWorkers
PROPERTIES FirstResultWins SearchEnds
CHECK_DEADLOCK FALSE
