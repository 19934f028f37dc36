CONSTANTS
    Dirs <- BreakDirs
    Listing <- BreakTree
    RootEntry <- MCRootEntry
    Platform = "linux"
    FollowLinks = FALSE
    MaxDepth = 9
    MinDepth = 0
    MaxRetries = 1
    FaultCases <- MCBreakA
    Workers = {w1, w2}
    NoSpec = NoSpec
    ChannelCapacity = 4
    MaxReceiveBufferSize = 2
    StreamingModes = {TRUE}
    TimeoutModes = {FALSE}
    SpecSet <- MCSpecSet
SPECIFICATION Par
PROPERTY OwnContents
