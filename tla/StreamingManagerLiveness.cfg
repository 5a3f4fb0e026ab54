CONSTANTS
    ingest = ingest
    NoEndpoint = NoEndpoint
    NoRole = NoRole
    Endpoint <- MCEndpoint
    Config <- MCSmallConfig
    Delay = {0}
    MaxBacklog = 0
    MaxReconnects = 1

SPECIFICATION FairSpec

PROPERTIES
    PendingBackupResolved
    StopCompletes
    SlotsSpec
