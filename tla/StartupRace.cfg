SPECIFICATION StartupSpec
CONSTANTS
  Paths <- MCAllPaths
  Expressions = {"1", "2"}
  Roles <- MCRoles
  Processes = {i1, i2}
  Releases <- MCAdditive
  FirstSchema <- MCFirstSchema
  MaxStarts = 1
PROPERTY SchemaOnlyGrows
CHECK_DEADLOCK FALSE
