SPECIFICATION Spec
CONSTANTS
  w1 = w1
  Session = {s1}
  SimpleRun = {}
  Approval = {}
  Probe = {}
  Bridge = {b1}
  Worktree = {w1}
  Skill = {k1}
  Definition <- SingleStepOnly
  WorktreeOf <- OneWorktree
  LeaseTicks = 1
  MaxVersion = 1
  NoBridge = NoBridge
  NoSession = NoSession
  NoDefinition = NoDefinition
INVARIANTS
  ReconciliationNotShownCompleted
