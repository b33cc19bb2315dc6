SPECIFICATION Spec
CONSTANTS
  Calls = {"t", "h"}
  Humans = {"h"}
  Tasks = {"t"}
  MaxText = 1
  MaxCalls = 2
  Budget = 3
CHECK_DEADLOCK FALSE
INVARIANTS TranscriptSettled ReloadShowsTheSame
