SPECIFICATION Spec
CONSTANTS
  MaxUserOps = 1
  MaxDisturbances = 1
  MaxInFlight = 2
  MaxRetries = 1
INVARIANTS
  StateHasItsMeans
PROPERTIES
  Converges
CHECK_DEADLOCK FALSE
