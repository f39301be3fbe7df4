--------------------------- MODULE MCSatelliteLink ----------------------------
(***************************************************************************)
(* Model checking of what stands between Dish and a satellite: the         *)
(* encrypted link with two sending threads beside the GUI's re-key and     *)
(* close and a counter field that is exhausted after two datagrams, its    *)
(* receive thread over a re-key, the gates on touch, motion and            *)
(* battery, discovery with its names, the records and the catalogues of    *)
(* two satellites; and the lock tracker. The parts are checked side by     *)
(* side: a behaviour picks one and runs it alone.                          *)
(***************************************************************************)
EXTENDS SatelliteClient, TLC

CONSTANTS Satellites, MaxFetches, MaxCatalogEvents, Boxes, Ips, MaxRecordEvents,
          Named, Addresses, ScanTime, kMdnsGrace, MaxScans, MaxMoves, MaxHeard, Lengths, Bytes, PointerMark,
          kTouchpadMoveInterval, kTouchpadHealResends, MaxReportGap, MaxTouchTime, kMotionMinInterval,
          kBatteryReportInterval, MaxPeriod, MaxRateTime, MaxPosts, Threads, Mutexes, kMaxLocks, kMaxHeld,
          kPairSlots, MaxCalls

\* Three mutexes of two names.
NameOfMutex == ("m1" :> "router") @@ ("m2" :> "session") @@ ("m3" :> "session")

VARIABLES part, \* the part that this behaviour runs
          runs, linkOf, warmed, cache, fetches, catalogState, snapshot, shown, asks, fetched, catalogEvents,
          whereIs, stable, rows, keys, pins, legacy, list, todo, up, trusted, pinnedOnce, gone, recordEvents,
          addressOf, scanning, at, beacon, mdns, listed, had, scans, moves,
          namesPacket, from, off, steps, consumed, jumped, labels, result,
          now, touch, stillSince, gate, frameLost, host, fresh,
          clock, direct, motion, motionSeen, charge, mirror, posts, card, ticked, beatAt, heard,
          names, naming, edges, blocking, overflows, locksCache, owner, heldBy, locksAt, counted, calls

C == INSTANCE Catalog
K == INSTANCE KnownSatellites
       WITH packet <- namesPacket
T == INSTANCE PadGates
L == INSTANCE LockStats
       WITH NameOf <- NameOfMutex, cache <- locksCache, at <- locksAt

catalogVars == <<runs, linkOf, warmed, cache, fetches, catalogState, snapshot, shown, asks, fetched,
                 catalogEvents>>
recordsVars == <<whereIs, stable, rows, keys, pins, legacy, list, todo, up, trusted, pinnedOnce, gone,
                 recordEvents>>
discoveryVars == <<addressOf, scanning, at, beacon, mdns, listed, had, scans, moves>>
namesVars == <<namesPacket, from, off, steps, consumed, jumped, labels, result>>
touchVars == <<now, touch, stillSince, gate, frameLost, host, fresh>>
ratesVars == <<clock, direct, motion, motionSeen, charge, mirror, posts, card, ticked, beatAt, heard>>
locksVars == <<names, naming, edges, blocking, overflows, locksCache, owner, heldBy, locksAt, counted, calls>>
allVars == <<part, vars, receiveVars, catalogVars, recordsVars, discoveryVars, namesVars, touchVars, ratesVars,
             locksVars>>

\* A part that does not run has no state.
Absent == "absent"

AllInit ==
  /\ part \in {"send", "receive", "catalog", "records", "discovery", "names", "touch", "rates", "locks"}
  /\ Init /\ ReceiveInit
  /\ IF part = "catalog" THEN C!Init
     ELSE runs = Absent /\ linkOf = Absent /\ warmed = Absent /\ cache = Absent /\ fetches = Absent /\
          catalogState = Absent /\ snapshot = Absent /\ shown = Absent /\ asks = Absent /\ fetched = Absent /\
          catalogEvents = Absent
  /\ IF part = "records" THEN K!RecordsInit
     ELSE whereIs = Absent /\ stable = Absent /\ rows = Absent /\ keys = Absent /\ pins = Absent /\
          legacy = Absent /\ list = Absent /\ todo = Absent /\ up = Absent /\ trusted = Absent /\
          pinnedOnce = Absent /\ gone = Absent /\ recordEvents = Absent
  /\ IF part = "discovery" THEN K!ScanInit
     ELSE addressOf = Absent /\ scanning = Absent /\ at = Absent /\ beacon = Absent /\ mdns = Absent /\
          listed = Absent /\ had = Absent /\ scans = Absent /\ moves = Absent
  /\ IF part = "names" THEN K!NameInit
     ELSE namesPacket = Absent /\ from = Absent /\ off = Absent /\ steps = Absent /\ consumed = Absent /\
          jumped = Absent /\ labels = Absent /\ result = Absent
  /\ IF part = "touch" THEN T!TouchInit
     ELSE now = Absent /\ touch = Absent /\ stillSince = Absent /\ gate = Absent /\ frameLost = Absent /\
          host = Absent /\ fresh = Absent
  /\ IF part = "rates" THEN T!RatesInit
     ELSE clock = Absent /\ direct = Absent /\ motion = Absent /\ motionSeen = Absent /\ charge = Absent /\
          mirror = Absent /\ posts = Absent /\ card = Absent /\ ticked = Absent /\ beatAt = Absent /\
          heard = Absent
  /\ IF part = "locks" THEN L!Init
     ELSE names = Absent /\ naming = Absent /\ edges = Absent /\ blocking = Absent /\ overflows = Absent /\
          locksCache = Absent /\ owner = Absent /\ heldBy = Absent /\ locksAt = Absent /\ counted = Absent /\
          calls = Absent

AllNext ==
  \/ part = "send" /\ Next /\ UNCHANGED <<part, receiverVars, hostVars, catalogVars, recordsVars, discoveryVars,
                                          namesVars, touchVars, ratesVars, locksVars>>
  \/ part = "receive" /\ ReceiveNext /\ UNCHANGED <<part, senderVars, socketVars, sendGate, wire, catalogVars,
                                                    recordsVars, discoveryVars, namesVars, touchVars,
                                                    ratesVars, locksVars>>
  \/ part = "catalog" /\ C!Next /\ UNCHANGED <<part, vars, receiveVars, recordsVars, discoveryVars, namesVars,
                                               touchVars, ratesVars, locksVars>>
  \/ part = "records" /\ K!RecordsNext /\ UNCHANGED <<part, vars, receiveVars, catalogVars, discoveryVars, namesVars,
                                               touchVars, ratesVars, locksVars>>
  \/ part = "discovery" /\ K!ScanNext /\ UNCHANGED <<part, vars, receiveVars, catalogVars, recordsVars, namesVars,
                                                 touchVars, ratesVars, locksVars>>
  \/ part = "names" /\ K!NameNext /\ UNCHANGED <<part, vars, receiveVars, catalogVars, recordsVars, discoveryVars,
                                             touchVars, ratesVars, locksVars>>
  \/ part = "touch" /\ T!TouchNext /\ UNCHANGED <<part, vars, receiveVars, catalogVars, recordsVars, discoveryVars,
                                             namesVars, ratesVars, locksVars>>
  \/ part = "rates" /\ T!RatesNext /\ UNCHANGED <<part, vars, receiveVars, catalogVars, recordsVars, discoveryVars,
                                             namesVars, touchVars, locksVars>>
  \/ part = "locks" /\ L!Next /\ UNCHANGED <<part, vars, receiveVars, catalogVars, recordsVars, discoveryVars,
                                             namesVars, touchVars, ratesVars>>

AllSpec == AllInit /\ [][AllNext]_allVars

-----------------------------------------------------------------------------
(* A cached catalogue is, whole and in one schema, what one release of its *)
(* satellite answered under that ETag, however the replies were reordered; *)
(* what the picker calls a success is the catalogue of the release that    *)
(* answered it; and a satellite is asked once in each stretch of its link  *)
(* being live (SatelliteCatalogRepository, catalogPrewarmTargets).          *)
CatalogueIsTrue == part = "catalog" => C!CatalogueIsTrue

(* A pairing is never lost: while a satellite is paired and neither        *)
(* forgotten nor refused, its key and its pin are on file where Dish will  *)
(* look, through older builds' names, a ghost collapsed into its later     *)
(* self, changed addresses, and a death between any two writes; and one    *)
(* that was forgotten has left no key behind once its row is gone          *)
(* (collapseLegacyGhosts, migrateLegacyNamespaces, forgetSatellite).       *)
KeysSurvive == part = "records" => K!KeysSurvive /\ K!NoKeyComesBack

(* The list a scan publishes has a box once, every box that was heard,     *)
(* under an address it had while the scan ran, with the tag of who heard   *)
(* it; the mDNS window closes by its deadline or the grace after the last  *)
(* new answer, however long a box repeats itself (mergeDiscovered,         *)
(* mdnsScan); and the readers of a compressed name accept exactly the      *)
(* names (skipName, readName).                                             *)
ListIsHonest ==
  /\ part = "discovery" => K!ListIsHonest /\ K!WindowCloses
  /\ part = "names" => K!NamesExact

(* The touch a pad came to rest on is the satellite's within a bounded     *)
(* time, unless every copy of its frame was lost, and a repeat is never    *)
(* taken for a new frame (TouchGate).  Motion keeps its rate from both     *)
(* sides and tells true gaps, and the battery beat is never late, though   *)
(* the pad may leave and come back between two runs of it.                 *)
TouchLands ==
  /\ part = "touch" => T!TouchLands
  /\ part = "rates" => T!RatesHold

(* Unless it says that it overflowed, the lock tracker has on record every *)
(* lock that a waiting thread holds, so its snapshot names the locks of a  *)
(* cycle; and threads that probe its tables at once keep them exact: one   *)
(* slot for a pair, one id for a name (LockStats).                         *)
WaitsAreOnRecord == part = "locks" => L!WaitsAreOnRecord /\ L!TablesAreExact
===============================================================================
