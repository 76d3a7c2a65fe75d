SPECIFICATION FairSpec
CONSTANTS
    Clients = {c1, c2}
    Ids = {i1, i2}
    Names = {"n", "m"}
    Crons = {"x", "y"}
    Categories = {"a", "b"}
    Tags = {"t", "u"}
    Params = {"7days", "30days"}
    Creates <- ThreeCreates
    Updates <- ThreeUpdates
    HistoryLimit = 1
    NoRow = NoRow
    MaxRequests = 3
    MaxRuns = 2
    MaxFaults = 1
INVARIANTS
    TypeOK
    KeepsWhatWasAsked
    GeneratedNamesMarked
    AnswersAreTrue
    HistoryShowsRuns
    FiltersAgree
PROPERTY ChangesAnnounced
CHECK_DEADLOCK FALSE
