CONSTANTS
  P = 43
  Generator <- MCGenerator
  KeyBits = 2
  Workers = {w1, w2}
  Keys = {1, 3}
SPECIFICATION Spec
INVARIANT KeysBelong
CHECK_DEADLOCK FALSE
