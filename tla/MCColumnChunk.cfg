SPECIFICATION Spec
CONSTANTS
    Files <- MCRepeatedV1
    LevelBatch = 2
    BatchSizes = {1, 2}
CHECK_DEADLOCK FALSE
INVARIANT ReadsFromRow
