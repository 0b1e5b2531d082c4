SPECIFICATION Spec
CONSTANTS
  f1 = f1
  c1 = c1
  c2 = c2
  c3 = c3
  u1 = u1
  u2 = u2
  s1 = s1
  s2 = s2
  User = {u1}
  Failure = {f1}
  Claim = {c1}
  ClaimOf <- TheFailure
  Owner <- OwnerAlone
  Scanner = {s1, s2}
  TotalStock = 1
  MaxRepairAttempts = 2
  MaxFaults = 0
CHECK_DEADLOCK FALSE
INVARIANT ConflictMeansOtherClaim
