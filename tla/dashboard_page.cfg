SPECIFICATION Spec
CONSTANTS
    Dates = {1, 2, 3}
    Words = {"deep", "graph"}
    Categories = {"ML", "CV"}
    Ranks = {"A"}
    MaxChanges = 2
INVARIANTS
    ShownIsSelected
PROPERTIES
    FiltersAreKept
CHECK_DEADLOCK FALSE
