SPECIFICATION Spec
CONSTANTS
    Schedules = {s1, s2}
    Unparsable = {}
    MaxChanges = 2
    MaxFaults = 0
INVARIANT IterationSurvives
CHECK_DEADLOCK FALSE
