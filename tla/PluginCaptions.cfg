CONSTANTS
    SlotConfigs <- MCConfigs
    FirstConfig <- On
    EmptyConfig <- Off
    NoOwner = NoOwner

SPECIFICATION FairSpec

INVARIANTS
    TypeOK
    InsertsForOutputs
    AudioFollowsSettings

PROPERTIES
    CaptionsFollowOutputs
