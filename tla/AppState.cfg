SPECIFICATION MCSpec
CONSTANTS
  Keys <- MCKeys
  Callers = {r1, r2}
  TTL = 1
  CatalogTTL = 2
  Latency = 1
  MaxCalls = 3
  Mailboxes = {m1}
  LoginCodes = {c1, c2}
  AccessTokens = {t1, t2, t3}
  CodeTTL = 1
  TokenTTL = 1
  AuthorizeTime = 1
  NoMailbox = NoMailbox
  Limit = 2
  Window = 2
  MaxTime = 4
  Tenants = {t1, t2, t3}
  Addresses = {c1, c2, e3}
  Offers <- MCOffers
  Share = 1
  MaxPeople = 4
  Budgets <- MCBudgets
  Nobody = Nobody
  NoPlan = NoPlan
  Tokens = {k1}
  Requests = {q1, q2}
  CodesPerSet = 2
  MaxSecrets = 2
  MaxSets = 2
  MaxRequests = 7
  None = None
SYMMETRY Symm
INVARIANTS
    ReadYourWrites
    RecentEnough
    AccessEnds
    WithinLimit
    OperatorsSeeAll
    SharesFit
    CodesOnceUnlessStale
    SecretIsProven
PROPERTIES
    StartsKeepEdits
    RevokedStaysRevoked
CHECK_DEADLOCK FALSE
