SPECIFICATION Spec
CONSTANTS
    r1 = r1
    r2 = r2
    r3 = r3
    r4 = r4
    p1 = p1
    p2 = p2
    none = none
    Requests = {r1, r2, r3, r4}
    Projects = {p1, p2}
    MaxApps = 2
    PlatformScope = FALSE
    NoRequest = none
SYMMETRY Symmetry
INVARIANTS
    QuotaRespected
PROPERTIES
    ImplementsLedger
CHECK_DEADLOCK FALSE
