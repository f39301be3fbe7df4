SPECIFICATION AllSpec
CONSTANTS
  Senders = {s1, s2}
  Gui = gui
  NoOwner = none
  kCounterWireMax = 2
  MaxSequence = 3
  MaxRekeys = 1
  MaxDatagrams = 3
  Satellites = {1, 2}
  MaxFetches = 3
  MaxCatalogEvents = 2
  Boxes = {"A", "B"}
  Ips = {"1", "2", "3"}
  MaxRecordEvents = 4
  Named = {"A"}
  Addresses = {1, 2, 3}
  ScanTime = 2
  kMdnsGrace = 1
  MaxScans = 1
  MaxMoves = 1
  MaxHeard = 2
  Lengths = {2, 4, 5}
  Bytes = {0, 1, 2, 3, 192}
  PointerMark = 192
  kTouchpadMoveInterval = 2
  kTouchpadHealResends = 2
  MaxReportGap = 2
  MaxTouchTime = 12
  kMotionMinInterval = 3
  kBatteryReportInterval = 4
  MaxPeriod = 2
  MaxRateTime = 12
  MaxPosts = 2
  Threads = {"t1", "t2"}
  Mutexes = {"m1", "m2", "m3"}
  kMaxLocks = 2
  kMaxHeld = 2
  kPairSlots = 2
  MaxCalls = 4
INVARIANTS
  WireInOrder
  SendsWhole
  AcceptedInOrder
  CatalogueIsTrue
  KeysSurvive
  ListIsHonest
  
  WaitsAreOnRecord
CHECK_DEADLOCK FALSE
