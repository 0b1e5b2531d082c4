SPECIFICATION SettlementSpec
CONSTANTS
  c1 = c1
  c2 = c2
  u1 = u1
  u2 = u2
  w1 = w1
  s1 = s1
  s2 = s2
  Claim = {c1, c2}
  User = {u1, u2}
  Owner <- OwnerOf
  Worker = {w1}
  Settler <- Settlers
  TotalStock = 1
  MaxReconsume = 0
  MaxFaults = 2
  DatabaseErrors = {"TransientDataAccess"}
  Disturbances = {"re-enable"}
SYMMETRY Symmetry
CHECK_DEADLOCK FALSE
INVARIANT NoClaimVanishes
INVARIANT CleanupLosesNothing
 
