SPECIFICATION Spec
CONSTANTS
  Values = {"a"}
  Texts = {"b"}
  MaxFields = 2
  MaxOptions = 1
CHECK_DEADLOCK FALSE
INVARIANTS TypeOK CheckedIsSelected
