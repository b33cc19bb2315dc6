SPECIFICATION FairSpec
CONSTANTS
  Messages = {m1, m2}
  MaxOps = 2
  MaxOrder = 2
  Cleanups = 0
  MaxGen = 5
CHECK_DEADLOCK FALSE
INVARIANTS NoReservationLeaks CancelledOnlyByUser CancelKept
PROPERTIES CancelSettles
