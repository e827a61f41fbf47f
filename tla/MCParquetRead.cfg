SPECIFICATION MCSpec
CONSTANTS
    NumReaders = 3
    NumCols = 2
    NumRows = 3
    Batch = 2
    MaxSeeks = 2
    MaxFaults = 2
INVARIANTS ReadersInUseOpen NoSendOnClosed TableComplete FailureReleasesAll ReadsFromRow   NestedReadBack
PROPERTY EveryCallReturns
CHECK_DEADLOCK FALSE
