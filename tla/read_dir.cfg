CONSTANTS
    Dirs <- MCDirs
    Listing <- MCListing
    FollowLinks = TRUE
    MaxDepth = 9
    MaxRetries = 2
    Device <- MCDevice
    FileSystem <- MCFileSystem
    Platforms = {"linux", "windows", "other"}
    OptionCases <- MCOptions
    FaultCases <- MCFaults
    MaxReads = 2
    BufferRecords = 2
    RingSize = 2
    MinBatch = 2
SPECIFICATION FairReader
INVARIANTS DRTypeOK AsReadDir Reported StreamedMatch SameAsLocalSync OnlyNetwork
PROPERTY ReadEnds
CHECK_DEADLOCK FALSE
