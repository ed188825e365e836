SPECIFICATION PromptSpec
CONSTANTS
    j1 = j1
    j2 = j2
    j3 = j3
    w1 = w1
    w2 = w2
    NoJob = NoJob
    Jobs = {j1, j2}
    Workers = {w1, w2}
    Orphans = {}
    Malformed = {}
    Leftover <- NoLeftover
    LockTTL = 3
    LeaseTTL = 3
    DedupTTL = 3
    RunMax = 2
    RefreshEvery = 1
    MaxAttempts = 3
    MaxTime = 12
    MaxFaults = 0
INVARIANTS
    NoJobBuriedUnrun
