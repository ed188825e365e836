SPECIFICATION FairSpec
CONSTANTS
    p1 = p1
    p2 = p2
    NoProc = NoProc
    Procs = {p1, p2}
    Faults = {"try", "schedule", "join", "open", "thread", "unlock", "death"}
    MaxFaults = 2
    MaxStarts = 4
INVARIANTS
    TypeOK
    OneScheduler
    SingleFlight
PROPERTIES
    OfficeIsFilled
    FlagIsReturned
CHECK_DEADLOCK FALSE
