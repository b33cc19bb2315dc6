SPECIFICATION Spec
CONSTANTS
  Messages = {m1, m2}
  MaxOps = 2
  MaxOrder = 2
  Cleanups = 0
  MaxGen = 5
INVARIANTS
  NoMessageRefused
CHECK_DEADLOCK FALSE
