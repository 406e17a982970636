CONSTANTS
  r1 = r1
  r2 = r2
  r3 = r3
  e1 = e1
  e2 = e2
  e3 = e3
  Requests = {r1, r2, r3}
  Executions = {e1, e2}
  StartAttempts = 2
  None = None
SPECIFICATION FairSpec
INVARIANTS
  TypeOK
  OneStarterUntilFailure
  DuplicatesExplained
  CachedMeansSucceeded
  RunsOnlyNamed
PROPERTIES
  RefinesKeyLease
  KeyFreed
CHECK_DEADLOCK FALSE
