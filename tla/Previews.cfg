SPECIFICATION Spec
CONSTANTS
    b1 = b1
    b2 = b2
    s1 = s1
    s2 = s2
    Branches = {b1, b2}
    Stacks = {s1, s2}
    Slug <- Shared
    MaxPreviews = 1
    MaxEvents = 4
    MaxFaults = 1
INVARIANTS
    CapUnlessRaced
    RowsFollowBranches
    NoOrphanUnlessOvertaken
CHECK_DEADLOCK FALSE
