SPECIFICATION CorpusSpec
CONSTANTS
    a = a
    b = b
    acl = acl
    icml = icml
    graph = graph
    tree = tree
    Items <- SmallItems
    Queries <- SmallQueries
    Dates = {1, 2}
    PerDate = 2
    Limits = {1, 8}
INVARIANTS
    NewestCopies
    NoneSurpassed
    CountsAreListed
