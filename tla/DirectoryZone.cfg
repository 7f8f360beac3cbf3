SPECIFICATION Spec
CONSTANTS
  u1 = u1
  g1 = g1
  g2 = g2
  Users = {u1}
  Groups = {g1, g2}
  NoGroup = NoGroup
  Handlers = {h1, h2}
  Workers = {}
  Start <- MCTwoGroups
  MaxEvents = 2
  MaxFaults = 0
INVARIANT ZoneKept
CHECK_DEADLOCK FALSE
