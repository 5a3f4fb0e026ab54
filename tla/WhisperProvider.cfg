CONSTANTS
    Slots = 2
    MaxPhrases = 2
    MaxChunks = 6

SPECIFICATION FairSpec

INVARIANTS
    TypeOK
    RingHoldsChunks
    SleeperIsWoken
    SessionIsWhole

PROPERTIES
    AnalysisStops

CHECK_DEADLOCK FALSE
