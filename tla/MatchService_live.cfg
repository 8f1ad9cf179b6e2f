SPECIFICATION FairSpec
CONSTANTS
  Cands = {1}
  Jobs = {1}
  Workers = {w1}
  BatchSize = 1
  MaxJobVersion = 2
  MaxProfileVersion = 2
  Expiring = TRUE
  Parking = FALSE
  MaxFailures = 0
  MaxCrashes = 1
PROPERTIES EventuallyCurrent
CHECK_DEADLOCK FALSE
