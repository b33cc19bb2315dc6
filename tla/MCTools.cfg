SYMMETRY Symmetry
SPECIFICATION MCSpec
CONSTANTS
  Workspace <- W
  SkillsDir <- S
  ConfigDir <- C
  SkillsRoot <- MCSkillsRoot
  Install <- MCInstall
  Secrets <- MCSecrets
  Tree <- MCTree
  Virtual <- MCVirtual
  MountLists <- MCMountLists
  LinkAt <- MCLinkAt
  LinkTo <- MCLinkTo
  Steps = 2
  Calls = {c1, c2}
  NoCall = NoCall
  MaxConcurrent = 1
  Limit = 2
  Failures = 1
  Parts = {"cut"}
  Values = {"a", "other"}
  Texts = {"x", "a"}
  MaxFields = 2
  MaxOptions = 1
  Workers = {1, 2}
  Hasty = FALSE
  MayRaise = FALSE
  NoDraft = {nodraft}
CONSTRAINT LogReadAlone
CHECK_DEADLOCK FALSE
INVARIANTS OneView ChildrenCancelled LogIsTrue FormAnswers InputKept
PROPERTIES PromptSteps
