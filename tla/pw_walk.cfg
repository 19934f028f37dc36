CONSTANTS
    Dirs <- LinkedDirs
    Listing <- LinkedTree
    RootEntry <- MCRootEntry
    Platform = "linux"
    FollowLinks = TRUE
    MaxDepth = 2
    MinDepth = 1
    MaxRetries = 1
    FaultCases <- MCFaults
    Workers = {w1, w2}
    NoSpec = NoSpec
    ChannelCapacity = 2
    MaxReceiveBufferSize = 2
    StreamingModes = {TRUE, FALSE}
    TimeoutModes = {TRUE}
    SpecSet <- MCSpecSet
SPECIFICATION Par
INVARIANTS NothingLeft ScheduledOnce OwnPaths
PROPERTIES OwnContents KeepsPromise UsesQueue
