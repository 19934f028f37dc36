CONSTANTS
    Results <- MCResults
    ResultCapacity = 2
    MaxReceiveBufferSize = 2
SPECIFICATION OQSpec
INVARIANT BufferBounded
