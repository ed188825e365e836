SPECIFICATION MCSpec
CONSTANTS
    a = a
    b = b
    c = c
    x = x
    y = y
    Papers = {a}
    Categories = {x}
    Worlds <- OneWorld
    PerDay = 1
    Cap = 1
    Retention = 1
    FirstWeekday = 6
    LocalShift = 1
    LastDay = 7
    MaxBlind = 1
    MaxSaves = 2
    nolta = nolta
    ieice = ieice
    NeurIPS = NeurIPS
    ml = ml
    nlp = nlp
    Venues = {nolta}
    Fields = {ml}
    Length <- Lengths
    Inside <- Parts
    MaxEntries = 1
INVARIANTS
    NoEveningIsSkipped
CHECK_DEADLOCK FALSE
