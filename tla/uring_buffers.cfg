CONSTANTS
    Dirs <- MCDirs
    Listing <- MCListing
    FollowLinks = TRUE
    MaxDepth = 9
    MaxRetries = 2
    Device <- MCDevice
    FileSystem <- MCFileSystem
    Platforms = {"linux"}
    OptionCases <- MCOptions
    FaultCases <- MCFaults
    MaxReads = 1
    BufferRecords = 2
    RingSize = 2
    MinBatch = 2
SPECIFICATION Reader
INVARIANT BuffersAlive
CHECK_DEADLOCK FALSE
