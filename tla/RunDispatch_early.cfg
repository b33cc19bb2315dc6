SPECIFICATION Spec
CONSTANTS
  Messages = {m1}
  MaxOps = 2
  MaxOrder = 1
  Cleanups = 1
  MaxGen = 5
INVARIANTS
  EarlyCancelKept
CHECK_DEADLOCK FALSE
