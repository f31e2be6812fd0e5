SPECIFICATION Spec
CONSTANTS
  s1 = s1  s2 = s2  o1 = o1  o2 = o2
  Scopes = {s1,s2}
  Objects = {o1}
  MaxRevision = 2
  MaxSyncs = 2
  MaxAttempts = 1
CHECK_DEADLOCK FALSE
INVARIANT OverlapSurvives
