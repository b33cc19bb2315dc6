SPECIFICATION Spec
CONSTANTS
  Calls = {"t", "h"}
  Humans = {"h"}
  Tasks = {"t"}
  MaxText = 1
  MaxCalls = 2
  Budget = 2
INVARIANTS SummariesInPlace
CHECK_DEADLOCK FALSE
