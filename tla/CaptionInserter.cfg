CONSTANTS
    Delay = {0, 2}
    Gap = 2
    Lateness = 1
    MaxQueued = 2
    MaxRecent = 2
    MaxScreens = 3
    MaxReceived = 3
    MaxSequence = 5

SPECIFICATION FairSpec

INVARIANTS
    TypeOK
    CaptionsAccountedFor
    ShownInOrder

PROPERTIES
    ScreensSettle
