SPECIFICATION Spec
CONSTANTS
    Schedules = {"a"}
    Cron <- Once
    Minute = 3
    Slack = 0
    Horizon = 15
    MaxFaults = 0
INVARIANT
    OncePerCronTime
CHECK_DEADLOCK FALSE
