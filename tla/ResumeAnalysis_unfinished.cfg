SPECIFICATION Spec
CONSTANTS
  Analyses = {a1, a2}
  NoAnalysis = none
  Workers = {w1}
  Nobody = nobody
  Owned = TRUE
  Lease = 1
  Backoff = 1
  MaxAttempts = 2
  AttemptCap = 3
  Lapsing = TRUE
  MaxCrashes = 0
INVARIANT UnreadableIsTerminal
CHECK_DEADLOCK FALSE
