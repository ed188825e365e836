SPECIFICATION ExecutionSpec
CONSTANTS
    Papers = {a, b}
    NoPaper = NoPaper
    Attempts = 3
    Files = {"papers", "archive"}
    First = "papers"
    MaxRuns = 3
    MaxLost = 2
    MaxForeign = 1
INVARIANTS
    PublishedInOrder
    PublishedStays
PROPERTIES
    AnalyzeImplemented
CHECK_DEADLOCK FALSE
