CONSTANTS
    Slots = 2
    MaxPhrases = 1
    MaxChunks = 2

SPECIFICATION Spec

INVARIANTS
    NeverAborts
