CONSTANTS
    NumRows = 3
    Chunks = {0, 1, 2}
    AvroCap = 1
    RecCap = 1
    MaxFiles = 2
    MaxEndpoints = 2
    ChanCap = 1
    UserCancels = TRUE
    MaxTextRows = 4
SPECIFICATION MCSpec
INVARIANTS EveryRowInOrder  NothingHeld
PROPERTY EveryCallReturns
CHECK_DEADLOCK FALSE
