SPECIFICATION MCSpec
CONSTANTS
  Messages = {m1, m2}
  MaxOrder = 4
  Cancellers = {c1, c2}
  MaxBuffered = 2
  MaxChunks = 3
  LoopMayStop = TRUE
  MaxRetries = 2
  Size = 2
  Tasks = {t1, t2}
INVARIANTS ChunksArrive ClosedMeansReleased OneWholeAnswer ExitAccounts
PROPERTIES OneLineOfMessages NoOvertaking CancelledRequestEnds CancelStopsCall ExitEnds
