SPECIFICATION Spec
CONSTANTS
    api = api
    trigger = trigger
    t1 = t1
    t2 = t2
    Keys = {api, trigger}
    Window <- Windows
    Limit <- Limits
    RedisKeys = {trigger}
    MaxKeys = 1
    StaleAfter = 3
    PerSecond = 2
    Threads = {t1, t2}
    Lag = 2
    MaxCount = 3
    MaxFaults = 1
    MaxTime = 7
INVARIANTS
    GrantsPerWindow
    LocalRate
    CountersEnd
PROPERTIES
    RetryAfterIsKept
SYMMETRY ThreadSymmetry
CHECK_DEADLOCK FALSE
