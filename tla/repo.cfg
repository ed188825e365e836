SPECIFICATION FairSpec
CONSTANTS
    r1 = r1
    r2 = r2
    t1 = t1
    t2 = t2
    t3 = t3
    NoReader = NoReader
    NoFile = NoFile
    Replicas = {r1, r2}
    Readers = {t1, t2, t3}
    Home <- TwoAndOne
    Files = {"current"}
    Current = "current"
    MaxVersion = 2
PROPERTIES
    ReadsAreFresh
    EveryCallReturns
