CONSTANTS
  Exact = 5
  Bufsiz = 10
  Versions <- Reported
  Missing = {0, 1, 2}
  Lengths = {1, 3}
  InitRoom = 2
SPECIFICATION Spec
INVARIANTS PrintedIsFirstMessage ResultIsWholeAnswer CrashHasCause
PROPERTIES ClientEnds
CHECK_DEADLOCK FALSE
