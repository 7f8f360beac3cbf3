SPECIFICATION LifecycleSpec
CONSTANTS
  Projects = {p1}
  Resources = {r1}
  Bindings = {b1}
  p1 = p1
  r1 = r1
  Nobody = Nobody
  Given = {"active"}
  Start <- MCStart
  Tuples <- MCTuples
  Payloads <- MCPayloads
  Procs = {h1, w1}
  Handlers = {h1}
  Workers = {w1}
  DTMEnabled = FALSE
  MaxEvents = 2
  MaxRetries = 1
  BatchLimit = 2
  MaxFaults = 0
INVARIANTS LifecycleTypeOK CutOff
 
CHECK_DEADLOCK FALSE
CONSTRAINT MCFew
