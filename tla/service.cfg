SPECIFICATION Spec
CONSTANTS
    t1 = t1
    t2 = t2
    Readers = {t1, t2}
    Files = {"current", "archive"}
    Current = "current"
    MaxVersion = 2
    Mixes = {{"current", "dates"}, {"mcp"}}
    CacheMax = 1
    MemoMax = 2
SYMMETRY ReaderSymmetry
INVARIANTS
    CachesBounded
    McpAnswersAreFresh
