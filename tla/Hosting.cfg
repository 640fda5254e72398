SPECIFICATION Spec
CONSTANTS
  t1 = t1  t2 = t2  P = P
  dom = dom  box = box  bkt = bkt  k1 = k1  k2 = k2  zone = zone  plan = plan
  Tenants <- MCTenants
  Platform = P
  Resources <- MCResources
  Kind <- MCKind
  Under <- MCUnder
  BucketOf <- MCBucketOf
  Standing = {zone, bkt}
  Requests = {r1, r2}
  ProviderActions = TRUE
  MaxAttempts = 2
  MaxAsked = 3
  None = None
SYMMETRY Symm
INVARIANTS
    RowsMatchProviders
    OneHolder
PROPERTIES
    ActsForHolder
CHECK_DEADLOCK FALSE
