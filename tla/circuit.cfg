SPECIFICATION FairSpec
CONSTANTS
  t1 = t1
  t2 = t2
  t3 = t3
  Caller <- Threads
  FailureThreshold = 2
  HalfOpenAttempts = 1
  BulkheadLimit = 2
  MaxAttempts = 2
  ProviderLimited = TRUE
  MaxFailures = 4
INVARIANTS
  ClosedMeansBelowThreshold
  NoOrphanedReservation
PROPERTY CircuitRecovers
