CONSTANTS
    Dirs <- SmallDirs
    Listing <- SmallTree
    RootEntry <- MCRootEntry
    Platform = "linux"
    FollowLinks = TRUE
    MaxDepth = 9
    MinDepth = 0
    MaxRetries = 1
    FaultCases <- MCNoFault
    Workers = {w1, w2}
    NoSpec = NoSpec
    ChannelCapacity = 2
    MaxReceiveBufferSize = 1
    StreamingModes = {TRUE, FALSE}
    TimeoutModes = {TRUE}
    SpecSet <- MCSpecSet
SPECIFICATION FairPar
PROPERTIES WalkEnds WorkersFreed
