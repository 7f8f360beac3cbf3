SPECIFICATION RolesSpec
CONSTANTS
  Permissions = {view, edit}
  Reregister = FALSE
  MaxVersion = 3
  Tuples <- MCTuples
  Payloads <- MCPayloads
  Procs = {h1, h2}
  Handlers = {h1, h2}
  Workers = {}
  DTMEnabled = FALSE
  MaxEvents = 3
  MaxRetries = 1
  BatchLimit = 1
  MaxFaults = 0
INVARIANTS RolesTypeOK 
  
CHECK_DEADLOCK FALSE
