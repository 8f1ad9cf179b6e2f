SPECIFICATION Spec
CONSTANTS
  Cands = {1, 2}
  Jobs = {1}
  Workers = {w1}
  BatchSize = 1
  MaxJobVersion = 2
  MaxProfileVersion = 1
  Expiring = FALSE
  Parking = TRUE
  MaxFailures = 1
  MaxCrashes = 1
INVARIANTS TypeOK RestartRepairs CheckpointCovers NoChurn
CHECK_DEADLOCK FALSE
