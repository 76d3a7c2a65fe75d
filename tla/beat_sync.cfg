SPECIFICATION FairSpec
CONSTANTS
    Schedules = {s1, s2, s3}
    Unparsable = {s3}
    MaxChanges = 2
    MaxFaults = 1
INVARIANTS
    TypeOK
    LoneThreadSurvives
    NewestWins
PROPERTY Converges
CHECK_DEADLOCK FALSE
