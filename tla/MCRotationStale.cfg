SPECIFICATION Spec
CONSTANTS
  i1 = i1  p1 = p1  p2 = p2
  Items = {i1}
  Procs = {p1, p2}
  MaxKey = 3
  BatchSize = 1
  MaxAttempts = 2
  MaxCycles = 2
  MaxJobs = 1
  MaxFaults = 1
INVARIANT SealedAsLabelled
CHECK_DEADLOCK FALSE
