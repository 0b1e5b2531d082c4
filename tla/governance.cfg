SPECIFICATION FairSpec
CONSTANTS
  f1 = f1
  c1 = c1
  c2 = c2
  c3 = c3
  u1 = u1
  u2 = u2
  s1 = s1
  s2 = s2
  User = {u1, u2}
  Failure = {f1}
  Claim = {c1, c2, c3}
  ClaimOf <- TheFailure
  Owner <- OwnerOf
  Scanner = {s1, s2}
  TotalStock = 2
  MaxRepairAttempts = 2
  MaxFaults = 2
CHECK_DEADLOCK FALSE
INVARIANTS
  ResolvedMeansIssued
  ExhaustionIsEarned
PROPERTIES
  ConclusionStands
  IssueSpec
  EveryFailureConcludes
