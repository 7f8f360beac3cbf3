SPECIFICATION FairSpec
CONSTANTS
  t1 = t1
  t2 = t2
  Tuples = {t1, t2}
  Payloads <- MCPayloads
  Procs = {h1, w1}
  Handlers = {h1}
  DTMEnabled = FALSE
  Workers = {w1}
  MaxEvents = 2
  MaxRetries = 2
  BatchLimit = 2
  MaxFaults = 1
INVARIANTS TypeOK SyncedEffect StrandedPerFault
PROPERTIES  ImplementsProjection
CHECK_DEADLOCK FALSE
