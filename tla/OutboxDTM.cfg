SPECIFICATION DTMSpec
CONSTANTS
  t1 = t1
  Tuples = {t1}
  Payloads <- MCPayloads
  Procs = {h1, w1, b1, b2}
  Handlers = {h1}
  Workers = {w1}
  Branches = {b1, b2}
  CallCap = 1
  DTMEnabled = TRUE
  MaxEvents = 1
  MaxRetries = 1
  BatchLimit = 2
  MaxFaults = 1
INVARIANTS DTMTypeOK StrandedPerFault
CHECK_DEADLOCK FALSE
SYMMETRY MCSymmetry
