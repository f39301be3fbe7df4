SPECIFICATION AllSpec
CONSTANTS
  MaxOps = 3
  MaxFaults = 1
  MaxPads = 2
  PairPhases = 2
  MaxHostOps = 3
  MaxReplaced = 1
  MaxRestarts = 1
  MaxAsked = 2
  PadSlots = {p, q}
  Numbers = {0, 1}
  MaxPadOps = 2
  MaxReports = 2
  MaxStreams = 1
INVARIANTS
  
  HostsAreHonest
  
PROPERTIES
  AttemptsEnd
CHECK_DEADLOCK FALSE
