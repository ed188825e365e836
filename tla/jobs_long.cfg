SPECIFICATION FairSpec
CONSTANTS
    j1 = j1
    j2 = j2
    j3 = j3
    w1 = w1
    w2 = w2
    NoJob = NoJob
    Jobs = {j1, j2, j3}
    Workers = {w1, w2}
    Orphans = {j2}
    Malformed = {j3}
    Leftover <- LeftoverJ3
    LockTTL = 2
    LeaseTTL = 2
    DedupTTL = 2
    RunMax = 2
    RefreshEvery = 1
    MaxAttempts = 2
    MaxTime = 13
    MaxFaults = 1
INVARIANTS
    RunnersKeepTheirClaim
PROPERTIES
    EveryJobSettles
