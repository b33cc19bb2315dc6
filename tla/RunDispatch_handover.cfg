SPECIFICATION Spec
CONSTANTS
  Messages = {m1, m2}
  MaxOps = 2
  MaxOrder = 2
  Cleanups = 0
  MaxGen = 5
INVARIANTS
  HandoverContinues
CHECK_DEADLOCK FALSE
