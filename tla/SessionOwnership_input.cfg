SPECIFICATION Spec
CONSTANTS
  Windows = {w1}
  Callers = {a}
  Threads = {t1, t2}
  Saved = {t2}
  MaxCalls = 3
  BusyWindows = {w1}
  Main = a
  NoThread = NoThread
  NoWindow = NoWindow
  NoCaller = NoCaller
CHECK_DEADLOCK FALSE
INVARIANT InputStaysWithSession
