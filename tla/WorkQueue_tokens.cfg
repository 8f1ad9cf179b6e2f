SPECIFICATION Spec
CONSTANTS
  Events = {e1, e2}
  NoEvent = none
  Workers = {w1, w2}
  Nobody = nobody
  Producers = {p1}
  Owned = TRUE
  Purging = TRUE
  MaxCrashes = 2
  Lease = 2
  Backoff = 1
  MaxAttempts = 2
  AttemptCap = 3
SYMMETRY Symmetry
INVARIANTS TypeOK ExclusiveLease OutcomesAreTrue
PROPERTIES BeyondBudgetOnlyAfterLoss ImplementsContract
