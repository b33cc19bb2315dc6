SPECIFICATION Spec
CONSTANTS
  Calls = {c1, c2}
  NoCall = NoCall
  MaxConcurrent = 1
  Limit = 2
  Failures = 0
  Parts = {"cut", "split"}
INVARIANT PagesTellAll
CHECK_DEADLOCK FALSE
