CONSTANTS
    Sessions = {s1, s2}
    NoSession = NoSession
    Entries = {e1, e2}
    Filters = {f1, f2}
    MaxPages = 2
    MaxOpen = 2
    NoSelection = NoSelection
    NoList = NoList

SPECIFICATION FairSpec

INVARIANTS
    TypeOK
    ListIsWhatItSays
    SelectionIsOfSession
    QuestionIsOfSelection

PROPERTIES
    ListComesBack
