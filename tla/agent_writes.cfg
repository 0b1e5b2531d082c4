SPECIFICATION FairSpec
CONSTANTS
    r1 = r1
    r2 = r2
    o1 = o1
    k1 = k1
    k2 = k2
    r3 = r3
    Runs = {r1, r2, r3}
    Orders = {o1}
    Keys = {k1, k2}
    Requests <- MCRequests
INVARIANTS
    OneChangePerAction
    ChangesAreReceipted
    OneRefundPerOrder
    ReportsAreTrue
    AuditIsAhead
    NoCircularWait
PROPERTIES
    ShippedStaysShipped
    EffectSpec
    WriteSpec
    EveryRunEnds
CHECK_DEADLOCK FALSE
