SPECIFICATION Spec
CONSTANTS
  Projects = {blog, shop}
  Name <- MCName
  MaxDeploys = 3
  MaxCommits = 3
  MaxEdits = 1
  Hosts = {www}
  Callers = {v1, v2}
  MaxClaims = 2
  None = None
  Budgets <- MCBudgets
SYMMETRY Symm
INVARIANTS
    TagNamesCode
    LatestIsLive
    PushIsLive
    VouchedIsProven
    ConfigIsCurrent
CHECK_DEADLOCK FALSE
