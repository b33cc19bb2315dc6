SPECIFICATION Spec
CONSTANTS
  Calls = {c1, c2}
  Async = {c2}
  Cancellable = {c1}
  NoCall = NoCall
INVARIANTS CallsTakeTurns
PROPERTIES CallsEnd
