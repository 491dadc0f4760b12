SPECIFICATION Spec
CONSTANTS
  w1 = w1
  Session = {s1, s2}
  SimpleRun = {r1}
  Approval = {a1}
  Probe = {}
  Bridge = {b1, b2}
  Worktree = {w1}
  Skill = {k1}
  Definition <- BothTemplates
  WorktreeOf <- OneWorktree
  LeaseTicks = 2
  MaxVersion = 2
  NoBridge = NoBridge
  NoSession = NoSession
  NoDefinition = NoDefinition
CONSTRAINT Instances
SYMMETRY SessionSymmetry
INVARIANTS
  TypeOK
  EpochsDistinct
  SettledRunHoldsNoFence
  CompletedRunSettledItsMerge
  RunAndWorkflowAgree
  QueuedActionIsGranted
  ActiveRunHasCommand
PROPERTIES
  FenceNeverReopens
  GrantConsumedUnderItsFence
  WorkflowPinned
