SPECIFICATION LiveSpec
CONSTANTS
  o1 = o1  o2 = o2  s1 = s1  s2 = s2  w1 = w1  w2 = w2  p1 = p1  p2 = p2
  Objects = {o1}
  Scopes = {s1}
  Chunks = {1, 2}
  Workers = {w1}
  Profiles = {p1, p2}
  FirstProfile = p1
  Changes = {"NEW", "REEXTRACT", "ABSENCE", "CUTOVER", "PURGE", "PROFILE"}
  MaxVersions = 2
  MaxEvents = 2
  MaxRevisions = 2
  MaxLost = 1
  MaxCrashes = 1
  PageSize = 2
  Slice = 1
CHECK_DEADLOCK FALSE
INVARIANTS TypeOK ProjectionComplete OutboxComplete PurgeErases
PROPERTIES Drains StagedActivates
