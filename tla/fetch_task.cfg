SPECIFICATION Spec
CONSTANTS
    Tasks = {t1, t2}
    Attempts = {a1, a2}
    Procs = {p1, p2}
    NDates = 2
    NBatches = 2
    MaxRetries = 1
    MaxFaults = 2
    Nobody = nobody
SYMMETRY ProcsAndAttemptsSymmetric
INVARIANTS
    TypeOK
    SuccessMeansSaved
    NothingSavedUnreported
CHECK_DEADLOCK FALSE
