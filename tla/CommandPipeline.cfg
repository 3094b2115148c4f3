CONSTANTS
  Texts <- SmallTexts
  Bufsiz = 4
  MaxOutputs = 2
  MaxGenerated = 2
SPECIFICATION FairSpec
INVARIANTS ItemsInOrder ListAccepted CrashCauses
PROPERTIES ImplementsFilter StreamAnswered InputEnds
CHECK_DEADLOCK FALSE
