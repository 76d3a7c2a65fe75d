SPECIFICATION Spec
CONSTANTS
    Schedules = {"a", "b"}
    Cron <- TwoSchedules
    Minute = 2
    Slack = 1
    Horizon = 4
    MaxFaults = 2
INVARIANTS
    TypeOK
    NeverEarly
    SentOrStillDue
    RecordStaysDue
    SentPromptly
CHECK_DEADLOCK FALSE
