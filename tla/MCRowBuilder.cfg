SPECIFICATION RowSpec
CONSTANTS
    Schemas <- MCLateRuns
    Scalars = {0, 1}
    MaxList = 2
    BlockSize = 2
    MaxBatches = 1
CHECK_DEADLOCK FALSE
INVARIANT RowsKept
