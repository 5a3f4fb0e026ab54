CONSTANTS
    e1 = e1
    e2 = e2
    NoEntry = NoEntry
    u1 = u1
    u2 = u2
    UserServices <- SmallServices
    NoService = NoService
    NoCall = NoCall
    Edits <- SmallEdits
    Entries <- SmallEntries
    Endpoints <- SmallEndpoints
    Projects <- SmallProjects

SYMMETRY Symmetry

SPECIFICATION Spec

INVARIANTS
    TypeOK
    AnswersFollowApply

PROPERTIES
    FirstServiceIsKept
    StreamsKeepRoute
