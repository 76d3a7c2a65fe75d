SPECIFICATION Spec
CONSTANTS
    Procs = {p1, p2}
    MaxCommands = 3
SYMMETRY ProcsSymmetric
INVARIANTS
    TypeOK
    
    UpToDateServesModels
    HeadInReach
CHECK_DEADLOCK FALSE
