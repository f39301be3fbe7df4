SPECIFICATION AllSpec
CONSTANTS
  Routes = 2
  Mics = 1
  MaxTables = 2
  Units = 2
  Conns = {11, 12}
  MaxChanges = 2
  MaxMoves = 2
  MaxEdits = 6
  Satellites = {1, 2}
  Pads = {1, 2}
  MaxPageEvents = 4
  Sources = {"a", "b"}
  Values = {0, 1, 2}
  MaxSets = 3
INVARIANTS
  NoUseAfterFree
  BindingsStand
  EditorShowsTheWire
  ViewsAgree
PROPERTIES
  KeepsItsStream
  SlotsSettle
CHECK_DEADLOCK FALSE
