CONSTANTS
    w1 = w1
    w2 = w2
    w3 = w3
    Workers <- MCWorkers
    NumBuffers = 4
    None = None
    NumDicts = 2
    Dicts <- MCDicts
    Tolerance = {}
    EmitDeltas = TRUE
    SplitAnywhere = FALSE
    MaxWrites = 3
    MaxBlobs = 2
SPECIFICATION MCSpec
INVARIANTS CleanEnd NoSpuriousError FileReadsBack TypeOK OkMeansAll PayloadOwned
PROPERTIES FailureIsTerminal ImplementsStream EverythingEnds
CHECK_DEADLOCK FALSE
