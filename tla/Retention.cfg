SPECIFICATION RetentionSpec
CONSTANTS
    a = a
    b = b
    none = none
    Commits = {a, b}
    Keep = 1
    MaxDeployments = 3
    NoRef = none
SYMMETRY Symmetry
PROPERTIES
    KeepsQuietWindow
    KeepsForeign
CHECK_DEADLOCK FALSE
