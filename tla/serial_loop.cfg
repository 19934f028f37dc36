CONSTANTS
    Dirs <- LoopDirs
    Listing <- LoopTree
    RootEntry <- MCRootEntry
    Platform = "other"
    FollowLinks = TRUE
    MaxDepth = 4
    MinDepth = 0
    MaxRetries = 1
    FaultCases <- LoopNoFault
SPECIFICATION Serial
INVARIANT NothingTwice
