SPECIFICATION PageSpec
CONSTANTS
    Group = 2
    MaxGroups = 3
    MaxRun = 5
    Scratch = 2
    Block = 3
    MiniBlock = 2
    MiniBlocks = 2
    Narrow = 3
    Wide = 5
    Codecs = {"booleans"}
    Values <- MCValues
    MaxLevel = 1
    MaxPut <- MCMaxPut
    MaxBatch = 8
    MaxRead <- MCMaxRead
    PageLimit <- MCTwoPages
    EmptyPages = FALSE
CHECK_DEADLOCK FALSE
INVARIANT PagesReadBack
