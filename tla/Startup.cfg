SPECIFICATION StartupSpec
CONSTANTS
  Paths <- MCAllPaths
  Expressions = {"1", "2"}
  Roles <- MCRoles
  Processes = {i1, i2}
  Releases <- MCReleases
  FirstSchema <- MCFirstSchema
  MaxStarts = 2
INVARIANTS StartupTypeOK 
PROPERTY LossesAllowed
CHECK_DEADLOCK FALSE
