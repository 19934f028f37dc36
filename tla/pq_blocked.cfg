CONSTANTS
    Workers = {w1, w2}
    Specs <- MCManySpecs
    NoSpec = NoSpec
    RootSpecs <- MCRootSpecs
    ChannelCapacity = 1
SPECIFICATION FairSpec
PROPERTY PushGoesThrough
CHECK_DEADLOCK FALSE
