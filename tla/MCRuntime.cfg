SYMMETRY Symmetry
SPECIFICATION MCSpec
CONSTANTS
  Names = {s1}
  Threads = {a, b}
  Editors = {a}
  Safe = safe
  Entries = {e1, e2}
  Clients = {c1, c2, c3}
  StoreFails = FALSE
  NoEntry = NoEntry
  NoClient = NoClient
  NoThread = NoThread
  Models = {"m1", "m2"}
  Active = "m1"
  Efforts <- EffortsOf
  Sessions = {"s1", "s2"}
  Failing = {"rebuild", "touch"}
  Budget = 5
  None = None
  Draft = Draft
  Ops = {o1, o2}
  Cmds = {k1, k2}
  PanelBudget = 2
CHECK_DEADLOCK FALSE
INVARIANTS ConnectionsMatchUse CatalogIsCurrent ConfigConsistent PanelIsTrue
PROPERTIES InterruptKeepsGraph
