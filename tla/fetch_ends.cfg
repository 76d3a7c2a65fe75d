SPECIFICATION FairSpec
CONSTANTS
    Tasks = {t1}
    Attempts = {a1, a2, a3}
    Procs = {p1, p2}
    NDates = 1
    NBatches = 1
    MaxRetries = 1
    MaxFaults = 1
    Nobody = nobody
PROPERTY
    EveryTaskEnds
CHECK_DEADLOCK FALSE
