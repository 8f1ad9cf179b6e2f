SPECIFICATION FairSpec
CONSTANTS
  Analyses = {a1, a2}
  NoAnalysis = none
  Workers = {w1}
  Nobody = nobody
  Owned = TRUE
  Lease = 1
  Backoff = 1
  MaxAttempts = 2
  AttemptCap = 3
  Lapsing = FALSE
  MaxCrashes = 1
INVARIANTS TypeOK OneRunning WaitingIsAnnounced DoneHasOutcome OneProfileEach FilesAccountedFor
PROPERTIES FinishedIsFinal ReadyIsOwn EveryUploadEnds
CHECK_DEADLOCK FALSE
