CONSTANTS
    Request = {validate, restore}
    Retries = 2
    NoReply = NoReply

SPECIFICATION FairSpec

INVARIANTS
    TypeOK
    ResultIsOfLastAttempt

PROPERTIES
    CallsSpec

CHECK_DEADLOCK FALSE
