SPECIFICATION Spec
CONSTANTS
  Texts = {t1, t2}
  Workers = {1, 2}
  Hasty = FALSE
  MayRaise = FALSE
  NoDraft = {nodraft}
INVARIANTS TypeOK TypedKept ConfirmComesBack WorkingMeansWork
PROPERTIES DraftKept AllowIsConfirmed ConfirmStays
CHECK_DEADLOCK FALSE
