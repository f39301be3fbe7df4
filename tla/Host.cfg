SPECIFICATION AllSpec
CONSTANTS
  Producers = {p1, p2}
  Capacity = 2
  MaxFrames = 2
  MicSlots = {s1, s2}
  Devices = {d1, d2}
  NoDevice = NoDevice
  CaptureDevices = {e1, e2}
  NoCapture = NoCapture
  MaxFacts = 3
  MaxWindows = 2
  MaxChunk = 2
  SeqSpace = 10
  LateRunRestart = 3
  Ceiling = 8
  MaxOpens = 2
  Pads <- SonyPads
  MaxAudioEvents = 3
  MaxFeedbackEvents = 5
  IdleTicks = 2
  MaxPowerEvents = 5
  MaxTrayEvents = 6
INVARIANTS
  MicIsHonest
  
  
PROPERTIES
  ImplementsFifo
  
CHECK_DEADLOCK FALSE
