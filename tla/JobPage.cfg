SPECIFICATION Spec
CONSTANTS
  c1 = c1
  Candidates = {c1}
  Uploads = {u1, u2}
  Owner <- MCOwner
  Requests = {q1, q2}
  Reader = c1
  MaxProfile = 2
  MaxRevision = 2
SYMMETRY Symmetry
CONSTRAINT ClosedAfterExpiry
INVARIANTS TypeOK PurgedForGood StrayFilesBeganInTime CachedBesideItsRanking PendingIsBeingWritten ProseBesideItsRanking
PROPERTIES NothingStartsAfterExpiry ReadyLostOnlyToOverlap
CHECK_DEADLOCK FALSE
