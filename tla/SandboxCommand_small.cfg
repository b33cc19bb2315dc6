SPECIFICATION Spec
CONSTANTS
  Commands = {c1, c2}
  Closer = runner
  Sandboxes = {s1, s2}
  QueueSize = 1
  PipeSize = 1
  MaxOutput = 1
  NoSandbox = NoSandbox
  NoOne = NoOne
SYMMETRY Symmetry
CHECK_DEADLOCK FALSE
INVARIANTS CommandsAccounted ExitAfterOutput
