SPECIFICATION Spec
CONSTANTS
    j1 = j1
    j2 = j2
    j3 = j3
    w1 = w1
    w2 = w2
    NoJob = NoJob
    Jobs = {j1, j2}
    Workers = {w1, w2}
    Orphans = {}
    Malformed = {}
    Leftover <- NoLeftover
    LockTTL = 2
    LeaseTTL = 2
    DedupTTL = 2
    RunMax = 1
    RefreshEvery = 1
    MaxAttempts = 2
    MaxTime = 4
    MaxFaults = 1
SYMMETRY Symmetry
INVARIANTS
    TypeOK
    OnePlace
    AttemptsCountDeliveries
    AcknowledgedJobsRan
    OneAnalysis
    PendingNamesLiveJob
    NoLeakedLock
    DedupWindow
PROPERTIES
    LeasesEndByTheirHolder
    LedgerImplemented
