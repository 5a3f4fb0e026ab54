CONSTANTS
    ingest = ingest
    NoEndpoint = NoEndpoint
    NoRole = NoRole
    Endpoint <- MCEndpoint
    Config <- MCConfig
    Delay = {0, 1}
    MaxBacklog = 1
    MaxReconnects = 0

SPECIFICATION Spec

INVARIANTS
    TypeOK
    PendingBackupIsWanted
    OnePathPerSlot
    AuxFollowsSlot
    NoLostWakeup

PROPERTIES
    LiveMeansStreaming
    TrackingFollowsOwner
    ActiveStreamKeepsOwner
