SPECIFICATION Spec
CONSTANTS
    Tasks = {t1}
    Attempts = {a1}
    Procs = {p1}
    NDates = 2
    NBatches = 1
    MaxRetries = 0
    MaxFaults = 1
    Nobody = nobody
INVARIANT
    ErrorsAreCommitted
CHECK_DEADLOCK FALSE
