SPECIFICATION GrantsSpec
CONSTANTS
  g1 = g1
  g2 = g2
  r1 = r1
  GrantIDs = {g1}
  Places = {}
  Jobs = {j1}
  ExpireLimit = 1
  Tuples <- MCTuples
  Payloads <- MCPayloads
  Procs = {h1, j1, w1}
  Handlers = {h1, j1}
  Workers = {w1}
  DTMEnabled = FALSE
  MaxEvents = 2
  MaxRetries = 2
  BatchLimit = 2
  MaxFaults = 0
INVARIANT RevokedIsRemoved
CHECK_DEADLOCK FALSE
