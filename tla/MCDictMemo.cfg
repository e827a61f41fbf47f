CONSTANTS
    Threads = {"a", "b"}
    NumChunks = 2
    MaxCalls = 1
SPECIFICATION Spec
INVARIANT NothingFreed
CHECK_DEADLOCK FALSE
