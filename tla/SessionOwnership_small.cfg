SPECIFICATION FairSpec
CONSTANTS
  Windows = {w1, w2}
  Callers = {a, b}
  Threads = {t1, t2, t3}
  Saved = {t3}
  MaxCalls = 4
  BusyWindows = {w1}
  Main = a
  NoThread = NoThread
  NoWindow = NoWindow
  NoCaller = NoCaller
CHECK_DEADLOCK FALSE
INVARIANTS WriterHoldsLock NothingLeftBehind
PROPERTIES StoppedWaitEnds
