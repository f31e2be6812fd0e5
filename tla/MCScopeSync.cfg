SPECIFICATION Spec
CONSTANTS
  s1 = s1  s2 = s2  o1 = o1  o2 = o2
  Scopes = {s1}
  Objects = {o1, o2}
  MaxRevision = 2
  MaxSyncs = 2
  MaxAttempts = 2
SYMMETRY Symmetry
CHECK_DEADLOCK FALSE
INVARIANTS TypeOK CatalogCoherent AuthorityEarned AckAfterPublish StrandedOnlyByOpenRun
PROPERTIES SupersededFenced CoverageProtects
