SPECIFICATION FairBridgeSpec
CONSTANTS
  w1 = w1
  Session = {s1}
  SimpleRun = {}
  Approval = {a1, a2}
  Probe = {p1}
  Bridge = {b1}
  Worktree = {w1}
  Skill = {k1}
  Definition <- DefaultOnly
  WorktreeOf <- OneWorktree
  LeaseTicks = 1
  MaxVersion = 1
  MaxFaults = 1
  NoBridge = NoBridge
  NoSession = NoSession
  NoDefinition = NoDefinition
INVARIANTS
  BridgeTypeOK
  EffectsGrantedOnce
  ShownStatesEarned
  MergeIsAccountedFor
PROPERTIES
  RunCommandSettles
