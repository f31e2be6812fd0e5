SPECIFICATION Spec
CONSTANTS
  o1 = o1  o2 = o2  s1 = s1  s2 = s2  w1 = w1  w2 = w2  p1 = p1  p2 = p2
  Objects = {o1}
  Scopes = {s1}
  Chunks = {1, 2, 3, 4, 5}
  Workers = {w1}
  Profiles = {p1, p2}
  FirstProfile = p1
  Changes = {"NEW", "PROFILE"}
  MaxVersions = 1
  MaxEvents = 5
  MaxRevisions = 2
  MaxLost = 0
  MaxCrashes = 0
  PageSize = 3
  Slice = 4
SYMMETRY Symmetry
CHECK_DEADLOCK FALSE
INVARIANTS ReadableIsFound
