\* Two devices; the scenarios of MCBleMesh.
SPECIFICATION FairSpec
CONSTANTS
    x = x
    y = y
    Device = {x, y}
    Scenarios <- TheScenarios
    ChunkSize = 2
    AnnounceLength = 3
    DataLength = 4
INVARIANTS
    TypeOK
    FramesWhole
    CompleteIsDelivered
    AnswerableLinks
PROPERTIES
    HeardAtLast
CHECK_DEADLOCK FALSE
