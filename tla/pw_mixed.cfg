CONSTANTS
    Dirs <- MixedDirs
    Listing <- MixedTree
    RootEntry <- MCRootEntry
    Platform = "linux"
    FollowLinks = TRUE
    MaxDepth = 9
    MinDepth = 0
    MaxRetries = 1
    FaultCases <- MCNoFault
    Workers = {w1, w2}
    NoSpec = NoSpec
    ChannelCapacity = 4
    MaxReceiveBufferSize = 2
    StreamingModes = {TRUE}
    TimeoutModes = {FALSE}
    SpecSet <- MCSpecSet
SPECIFICATION Par
PROPERTY OwnContents
