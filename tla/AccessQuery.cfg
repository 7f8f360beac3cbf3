SPECIFICATION FairSpec
CONSTANTS
  u1 = u1
  t1 = t1
  r1 = r1
  r2 = r2
  r3 = r3
  p1 = p1
  z1 = z1
  k1 = k1
  k2 = k2
  k3 = k3
  Users = {u1}
  Groups = {t1}
  Resources = {r1, r2, r3}
  Zones = {z1}
  Platforms = {p1}
  GrantIDs = {k1, k2, k3}
  Limit = 2
  Filters <- MCFilters
  Start <- MCStart
  MaxChanges = 2
  MaxFaults = 1
INVARIANTS AccessTypeOK NothingMadeUp 
PROPERTY RequestsEnd
CHECK_DEADLOCK FALSE
