SPECIFICATION FairSpec
CONSTANTS
  u1 = u1
  g1 = g1
  g2 = g2
  Users = {u1}
  Groups = {g1}
  NoGroup = NoGroup
  Handlers = {h1}
  Workers = {w1}
  Start <- MCStart
  MaxEvents = 2
  MaxFaults = 1
INVARIANTS DirectoryTypeOK ReconcileConverges
PROPERTIES ImplementsProjection 
CHECK_DEADLOCK FALSE
