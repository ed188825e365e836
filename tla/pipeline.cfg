SPECIFICATION MCSpec
CONSTANTS
    a = a
    b = b
    c = c
    x = x
    y = y
    Papers = {a, b, c}
    Categories = {x, y}
    Worlds <- SmallWorlds
    PerDay = 2
    Cap = 2
    Retention = 1
    FirstWeekday = 5
    LocalShift = 0
    LastDay = 2
    MaxBlind = 1
    MaxSaves = 2
    nolta = nolta
    ieice = ieice
    NeurIPS = NeurIPS
    ml = ml
    nlp = nlp
    Venues = {nolta, ieice, NeurIPS}
    Fields = {ml, nlp}
    Length <- Lengths
    Inside <- Parts
    MaxEntries = 3
INVARIANTS
    TypeOK
    CurrentIsArchived
    FiledAsConfigured
PROPERTIES
    ArchiveKeepsDates
    PapersLeaveForAReason
    CurrentMovesForward
    FilesImplemented
CHECK_DEADLOCK FALSE
