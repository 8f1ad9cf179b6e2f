SPECIFICATION Spec
CONSTANTS
  Cands = {1}
  Jobs = {1}
  Workers = {w1}
  BatchSize = 1
  MaxJobVersion = 3
  MaxProfileVersion = 1
  Expiring = FALSE
  Parking = FALSE
  MaxFailures = 0
  MaxCrashes = 1
INVARIANT ReplayLosesNoChange
CHECK_DEADLOCK FALSE
