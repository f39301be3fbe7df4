SPECIFICATION Spec
CONSTANTS
  MaxEdits = 6
INVARIANT WholeDraftIsCarried
CHECK_DEADLOCK FALSE
