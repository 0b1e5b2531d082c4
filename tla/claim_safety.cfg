SPECIFICATION Spec
CONSTANTS
  c1 = c1
  c2 = c2
  c3 = c3
  u1 = u1
  u2 = u2
  w1 = w1
  w2 = w2
  User = {u1, u2}
  Claim <- ThreeClaims
  Owner <- OwnerOf
  Worker <- Workers
  TotalStock = 2
  MaxReconsume = 1
  MaxFaults = 2
  DatabaseErrors = {"TransientDataAccess", "NonTransientDataAccess", "CannotCreateTransaction"}
  Disturbances = {"failover", "re-enable", "early check-back"}
SYMMETRY WorkerSymmetry
CHECK_DEADLOCK FALSE
INVARIANTS
  LostOnlyByRollback
  StockConserved
  OneCouponPerUser
  RejectedNeverIssued
PROPERTY IssueSpec
