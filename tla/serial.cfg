CONSTANTS
    Dirs <- DeepDirs
    Listing <- DeepTree
    RootEntry <- MCRootEntry
    Platform = "other"
    FollowLinks = TRUE
    MaxDepth = 3
    MinDepth = 1
    MaxRetries = 1
    FaultCases <- AnyFaults
SPECIFICATION Serial
INVARIANTS StacksAgree NothingTwice
PROPERTIES KeepsPromise SerialEnds
