SPECIFICATION Spec
CONSTANTS
  Cands = {1, 2}
  Jobs = {1}
  Workers = {w1}
  BatchSize = 1
  MaxJobVersion = 1
  MaxProfileVersion = 1
  Expiring = FALSE
  Parking = FALSE
  MaxFailures = 1
  MaxCrashes = 0
INVARIANT SettledIsCurrent
CHECK_DEADLOCK FALSE
