SPECIFICATION Spec
CONSTANTS
  Total = 2
  Plans <- MCForkPlan
  Width = 2
  LoopLimits = {3}
  BranchLimits = {1}
  MaxConcurrency = 2
  MaxAttempts = 1
  MaxRounds = 3
INVARIANTS
  BranchRoundsLimited
CHECK_DEADLOCK FALSE
