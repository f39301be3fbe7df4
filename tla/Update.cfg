CONSTANTS
  a = a
  b = b
  Versions = {1, 2}
  Portable = FALSE
  MaxMoves = 4
  MaxJobs = 2
  Instances = {a, b}
  Portables = {}
  gateVersions = {1, 2, 3}
  Required = TRUE
  MaxRestages = 2
  MaxMishaps = 2
SPECIFICATION AllSpec
INVARIANTS
  NeverStuck
PROPERTIES
  
  Converges
  
CHECK_DEADLOCK FALSE
