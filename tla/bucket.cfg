SPECIFICATION FairSpec
CONSTANTS
    Callers = {c1, c2, c3}
    Capacity = 2
    Period = 5
    TryAmounts = {1, 2}
INVARIANTS
    TypeOK
    Accounted
    WindowBound
    SleepIsRight
PROPERTIES
    IdealSpec
    EveryAcquireEnds
