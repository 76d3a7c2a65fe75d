CONSTANTS
    Procs = {p, q}
    IdLife = 4
    RefreshLife = 4
    IdTtl = 2
    RefreshTtl = 4
    Soon = 1
    NoToken = NoToken
    MaxTime = 4
    MaxRetries = 3
    BatchSize = 1
    TaskLimit = 2
    Today = 40
    Api <- ApiInstance
    Jobs <- JobsInstance
    MaxEvents = 3
    MonthStarts <- Months
    Calendar <- Dates
SPECIFICATION FairSpec
INVARIANTS
    TypeOK
    PlaceholderNeverSent
    TokenOutlivesTask
    FetchIsWhole
    ListsAgree
    RangesAgree
PROPERTIES
    EveryFetchEnds
CHECK_DEADLOCK FALSE
