SPECIFICATION Spec
CONSTANTS
    Procs = {p1}
    MaxCommands = 2
INVARIANT ResetWorks
CHECK_DEADLOCK FALSE
