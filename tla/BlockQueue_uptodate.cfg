CONSTANTS
  LastBlock = 2
  BlockCount = 2
  Cap = 100
  Fresh <- ZeroedMemory
SPECIFICATION FairSpec
PROPERTY UpdateEnds
CHECK_DEADLOCK FALSE
