SPECIFICATION FairSpec
CONSTANTS
  j1 = j1  j2 = j2  k1 = k1  k2 = k2  s1 = s1  p1 = p1  p2 = p2  w1 = w1
  Jobs = {j1, j2}
  Keys = {k1, k2}
  Scopes = {s1}
  Procs = {p1}
  WorkerIds = {w1}
  workerId <- MCWorkerId
  priority <- MCPriority
  MaxAttempts = 2
  LeaseTicks = 1
  Backoffs <- MCBackoffs
  TxnLag = 0
  ReclaimLimit = 1
  None = None
PROPERTIES EveryJobSettles
