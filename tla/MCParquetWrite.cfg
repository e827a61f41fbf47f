SPECIFICATION MCSpec
CONSTANTS
    a = a
    b = b
    Null = Null
    Vals = {a, b}
    Inputs <- MCInputs
    Dicts <- MCDicts
    Aligned = TRUE
    UseDict = TRUE
    CostFallback = TRUE
    BatchSize = 2
    PageSize = 2
    DictLimit = 2
    MaxCalls = 2
    MaxFaults = 1
CHECK_DEADLOCK FALSE
INVARIANTS Complete RowAligned PagesInOrder BloomComplete     StringsKept
PROPERTY NoFooterAfterFailure
