SPECIFICATION FairSpec
CONSTANTS
  t1 = t1
  t2 = t2
  Tuples = {t1}
  Payloads <- MCGrantRevoke
  Procs = {h1, w1}
  Handlers = {h1}
  DTMEnabled = FALSE
  Workers = {w1}
  MaxEvents = 1
  MaxRetries = 2
  BatchLimit = 2
  MaxFaults = 1
PROPERTY ProjectingEnds
CHECK_DEADLOCK FALSE
