SPECIFICATION Spec
CONSTANTS
  Messages = {m1}
  MaxOps = 3
  MaxOrder = 1
  Cleanups = 1
  MaxGen = 5
CHECK_DEADLOCK FALSE
INVARIANTS DeferredOnlyAtInterrupt
