SPECIFICATION FairSpec
CONSTANTS
    j1 = j1
    j2 = j2
    s1 = s1
    s2 = s2
    Jobs = {j1, j2}
    Snapshots = {s1, s2}
    Batches = 2
    MaxBuilds = 3
    MaxFaults = 2

    
PROPERTIES
    
    
    EveryJobEnds
CHECK_DEADLOCK FALSE
