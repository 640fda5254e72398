SPECIFICATION FairSpec
CONSTANTS
    c1 = c1
    c2 = c2
    t1 = t1
    t2 = t2
    nobody = nobody
    Calls = {c1, c2}
    Topups = {t1, t2}
    Costs = {0, 1, 2}
    Amounts = {1, 3}
    MaxCost = 2
    MaxFaults = 1
    Nobody = nobody
INVARIANTS
    BalanceUnlessRaced
    SoftCapUnlessOverlapped
PROPERTIES
    AnsweredIsBilled
CHECK_DEADLOCK FALSE
