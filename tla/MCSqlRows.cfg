SPECIFICATION Spec
CONSTANTS
    Endpoints <- MCEndpoints
    MaxEndpoints = 2
    ChanCap = 1
    UserCancels = FALSE
CHECK_DEADLOCK FALSE
INVARIANT EofMeansEnd
