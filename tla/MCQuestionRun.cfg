SPECIFICATION Spec
CONSTANTS
  r0 = r0  r1 = r1  r2 = r2  k1 = k1  k2 = k2  f1 = f1  q1 = q1
  Requests = {r0, r1, r2}
  Keys = {k1, k2}
  Fragments = {f1}
  Purgers = {q1}
  MaxAttempts = 2
  MaxFaults = 1
  Old = {r0}
  Asks <- MCAsks
  None = None
CHECK_DEADLOCK FALSE
INVARIANTS TypeOK ReplaySame CollisionIsReplay RepeatConflictsOnlyFollowUp AuditMatches StrandedOnlyByLoss LeftByWriters
