SPECIFICATION FairSpec
CONSTANTS
  c1 = c1
  c2 = c2
  c3 = c3
  u1 = u1
  u2 = u2
  w1 = w1
  w2 = w2
  User = {u1, u2}
  Claim <- TwoClaims
  Owner <- OwnerOfTwo
  Worker <- Workers
  TotalStock = 1
  MaxReconsume = 1
  MaxFaults = 3
  DatabaseErrors = {"TransientDataAccess"}
  Disturbances = {}
CHECK_DEADLOCK FALSE
INVARIANTS
  RedisAheadOfMySQL
  ConflictsAreFalseAlarms
  
PROPERTY ClaimsSettle
