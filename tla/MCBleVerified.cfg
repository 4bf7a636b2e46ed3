\* Two iPhones that meet undisturbed.
SPECIFICATION FairSpec
CONSTANTS
    x = x
    y = y
    Device = {x, y}
    Scenarios <- TwoIPhones
    ChunkSize = 2
    AnnounceLength = 3
    DataLength = 4
PROPERTIES
    VerifiedAtLast
CHECK_DEADLOCK FALSE
