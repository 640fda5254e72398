SPECIFICATION SchedulerSpec
CONSTANTS
    j1 = j1
    j2 = j2
    Jobs = {j1, j2}
    Calendar <- Midnight
    Crons <- Some
    MaxUpsets = 2
INVARIANTS
    MinutesServedOnce
    RunsAreKept
PROPERTIES
    DueByCrontab
CHECK_DEADLOCK FALSE
