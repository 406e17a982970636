CONSTANTS
  r1 = r1
  r2 = r2
  Requests = {r1, r2}
  MaxPauses = 2
  Contexts = {FALSE}
CHECK_DEADLOCK FALSE
SPECIFICATION Spec
INVARIANTS
  ReportedTokenStored
