CONSTANTS
    Workers = {w1, w2, w3}
    Specs <- MCSpecs
    NoSpec = NoSpec
    RootSpecs <- MCRootSpecs
    ChannelCapacity = 1
SPECIFICATION Spec
INVARIANTS TypeOK CountIsExact NoEarlyEnd OnePlace
CHECK_DEADLOCK FALSE
