SPECIFICATION AllSpec
CONSTANTS
  main = main
  hid = hid
  pump = pump
  padA = padA
  padB = padB
  Threads <- ThreadsMC
  Ids <- IdsMC
  Requests <- RequestsMC
  Preset <- BAboveTheHole
  Size = 3
  MaxCalls = 2
  Pads = {a, b}
  Joysticks = {b}
  Saved = {a}
  MaxPads = 2
  MaxInputs = 2
  MaxEdits = 1

  
PROPERTIES
  InputSettles
CHECK_DEADLOCK FALSE
