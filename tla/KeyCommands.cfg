CONSTANTS
  HexBase = 3
  DecBase = 2
  KeyDigits = 2
  Hash <- HashOf
  HashKey <- Hashed
  Texts <- AllTexts
  OptionSets <- AllOptions
  Numbers <- NumbersOf
  RehashMax = 3
  RehashesSize = 5
  MaxItems = 3
SPECIFICATION Spec
INVARIANTS SameItemSameAnswer NetworkOfAnswers RehashesAsAsked
CHECK_DEADLOCK FALSE
