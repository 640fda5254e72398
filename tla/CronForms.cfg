SPECIFICATION SchedulerSpec
CONSTANTS
    j1 = j1
    j2 = j2
    Jobs = {j1}
    Calendar <- Midnight
    Crons <- Accepted
    MaxUpsets = 2
INVARIANTS
    DocumentedFire
CHECK_DEADLOCK FALSE
