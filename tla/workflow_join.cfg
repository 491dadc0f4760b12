SPECIFICATION FairSpec
CONSTANT Candidate <- FourStepGraphs
INVARIANTS
  JoinWaitsForEveryBranch
CHECK_DEADLOCK FALSE
