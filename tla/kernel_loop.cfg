SPECIFICATION FairSpec
CONSTANTS
  Total = 3
  Plans <- MCPlans
  Width = 2
  LoopLimits = {1, 3}
  BranchLimits = {1, 3}
  MaxConcurrency = 2
  MaxAttempts = 1
  MaxRounds = 2
INVARIANTS
  TypeOK
  RunsInOrder
  RunsOnlyRetried
  NextWaitsForHuman
  LimitSparesRuns
PROPERTIES
  RefinesSegmentOrder
  NeverGoesBack
  EveryExecutionEnds
CHECK_DEADLOCK FALSE
