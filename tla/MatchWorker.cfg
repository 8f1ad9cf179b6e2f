SPECIFICATION WorkerFairSpec
CONSTANTS
  j1 = j1
  j2 = j2
  b1 = b1
  b2 = b2
  JobEvents <- MCJobEvents
  BootEvents <- MCBootEvents
  Events <- MCEvents
  BatchSize = 1
  NoEvent = none
  Workers = {w1}
  Nobody = nobody
  Producers = {w1}
  Owned = FALSE
  Purging = TRUE
  MaxCrashes = 1
  Lease = 1
  Backoff = 1
  MaxAttempts = 2
  AttemptCap = 3
INVARIANTS WorkerTypeOK SentWasAccepted
PROPERTIES CommittedIsSettled BootsAnnounced
