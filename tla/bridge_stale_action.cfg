SPECIFICATION FairBridgeSpec
CONSTANTS
  w1 = w1
  Session = {s1}
  SimpleRun = {}
  Approval = {a1}
  Probe = {}
  Bridge = {b1}
  Worktree = {w1}
  Skill = {}
  Definition <- DefaultOnly
  WorktreeOf <- OneWorktree
  LeaseTicks = 1
  MaxVersion = 1
  MaxFaults = 0
  NoBridge = NoBridge
  NoSession = NoSession
  NoDefinition = NoDefinition
PROPERTIES
  ApprovedActionSettles
