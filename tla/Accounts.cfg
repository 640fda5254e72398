CONSTANTS
  p1 = p1
  p2 = p2
  e1 = e1
  e2 = e2
  None = None
  Tenants = {t1, t2, t3}
  People = {p1, p2, p3, p4}
  Emails = {e1, e2, e3, e4}
  Invites = {i1, i2}
  Requests = {r1, r2, r3}
  Home = t1
  Founders <- OwnersOf
  Address <- AddressOf
  MaxPending = 1
SPECIFICATION Spec
SYMMETRY Symmetry
INVARIANTS
    InviteJoinsOne
PROPERTIES
    KeepsAnOwner
CHECK_DEADLOCK FALSE
