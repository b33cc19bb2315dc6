SPECIFICATION FairSpec
CONSTANTS
  Cancellers = {c1}
  MaxBuffered = 1
  MaxChunks = 2
  LoopMayStop = TRUE
PROPERTIES
  LockReleased
CHECK_DEADLOCK FALSE
