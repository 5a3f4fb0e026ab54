CONSTANTS
    Slots = 2
    MaxPhrases = 1
    MaxChunks = 2

SPECIFICATION FairSpec

PROPERTIES
    StopReturns

CHECK_DEADLOCK FALSE
