SPECIFICATION Spec
CONSTANTS
  Workspace <- W
  SkillsDir <- S
  ConfigDir <- C
  SkillsRoot <- MCSkillsRoot
  Install <- MCInstall
  Secrets <- MCSecrets
  Tree <- MCTree
  Virtual <- MCVirtual
  MountLists <- MCMountLists
  LinkAt <- MCLinkAt
  LinkTo <- MCLinkTo
  Steps = 2
INVARIANTS SameView MountsStay ToolsLikeCommands
CHECK_DEADLOCK FALSE
