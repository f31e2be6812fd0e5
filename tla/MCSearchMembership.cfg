SPECIFICATION Spec
CONSTANTS
  o1 = o1  o2 = o2  s1 = s1  s2 = s2  w1 = w1  w2 = w2  p1 = p1  p2 = p2
  Objects = {o1}
  Scopes = {s1, s2}
  Chunks = {1}
  Workers = {w1}
  Profiles = {p1}
  FirstProfile = p1
  Changes = {"NEW", "ABSENCE"}
  MaxVersions = 1
  MaxEvents = 2
  MaxRevisions = 1
  MaxLost = 0
  MaxCrashes = 0
  PageSize = 1
  Slice = 1
CHECK_DEADLOCK FALSE
INVARIANTS ReadableIsFound
