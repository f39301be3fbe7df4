CONSTANTS
  p = p
  w = w
  receive = receive
  poster = poster
  rumble = rumble
  lamp = lamp
  Pads <- OnePad
  Wireless <- Bluetooth
  Kinds <- ModelKinds
  UndecodedReads = 2
  SilentScans = 3
  DepartedScans = 2
  MaxClaims = 2
  MaxMoves = 4
  Producers <- Posting
  outputKinds <- Surfaces
  NoProducer = NoProducer
  MaxPosts = 2
SPECIFICATION AllSpec

  
PROPERTIES
  WorkingClaimKept
  Settles
  NewestWins
CHECK_DEADLOCK FALSE
