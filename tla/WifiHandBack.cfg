SPECIFICATION Spec
CONSTANTS
  MaxUserOps = 3
  MaxDisturbances = 1
  MaxInFlight = 2
  MaxRetries = 1
PROPERTIES
  HandsBackOnlyEnded
CHECK_DEADLOCK FALSE
