SPECIFICATION Spec
CONSTANTS
    m1 = m1
    m2 = m2
    h1 = h1
    c1 = c1
    tenant = tenant
    None = None
    pass = pass
    Monitors = {m1, m2}
    Channels = {h1}
    Owner <- OneTenant
    Pass = pass
    Requests = {c1}
    MaxChecks = 4
INVARIANTS
    AlertsTakeTurns
    StatusWasTold
PROPERTIES
    ChecksEnd
CHECK_DEADLOCK FALSE
