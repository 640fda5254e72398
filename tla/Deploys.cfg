SPECIFICATION FairSpec
CONSTANTS
    d1 = d1
    d2 = d2
    d3 = d3
    p1 = p1
    none = none
    x1 = x1
    Ids = {d1, d2, d3}
    Projects = {p1}
    Removers = {x1}
    MaxApps = 1
    MaxFaults = 1
    NoId = none
INVARIANTS
    InFlightIsOwned
PROPERTIES
    ImplementsLife
    Settles
    FailureFreesSlot
CHECK_DEADLOCK FALSE
