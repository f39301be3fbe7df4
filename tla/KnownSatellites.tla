---------------------------- MODULE KnownSatellites ----------------------------
(***************************************************************************)
(* The satellites Dish knows: the ones a scan finds on the network, and    *)
(* what is kept of them between launches.  Three machines that share no    *)
(* variable, each with its own Init and Next.                              *)
(*                                                                         *)
(* One scan: a listener on the beacon port and an mDNS query run side by   *)
(* side, each on its own window of time, and what they heard is merged by  *)
(* identity and handed to the window's thread as the list of satellites.   *)
(* Boxes repeat themselves, send what does not parse, answer from another  *)
(* port and change address while the scan runs.                            *)
(*                                                                         *)
(* Reading a name out of an mDNS datagram: labels in place, or a pointer   *)
(* back to an earlier name.  A pointer only ever goes backward, but the    *)
(* labels after it go forward again, so a datagram can hold a circle; the  *)
(* walk counts its steps and gives up after as many as there are bytes.    *)
(* skipName (how far the name reaches in place) and readName (its text)    *)
(* take the same walk.                                                     *)
(*                                                                         *)
(* The records: the remembered rows, the pairing keys and the certificate  *)
(* pins, each under a setting of its own.  One step is one write to the    *)
(* settings, and the process may die between any two.  A satellite is      *)
(* filed under its machine id; one that advertises none is filed under its *)
(* address, as a ghost that its later self collapses.                      *)
(***************************************************************************)
EXTENDS Naturals, Sequences, SequencesExt, FiniteSets, FiniteSetsExt

CONSTANTS Boxes, Named,    \* Named: the boxes that advertise a machine id
          Addresses,
          ScanTime, kMdnsGrace,  \* in receive timeouts
          MaxScans, MaxMoves, MaxHeard  \* bounds

VARIABLES addressOf, scanning,
          at,       \* time of this scan, in receive timeouts
          beacon,   \* LANDiscovery::discover: its state, the end of its receive, what it found
          mdns,     \* mdnsScan the same, with its deadline and the last new answer (history)
          listed,   \* WifiConnectionManager::discovered_
          had,      \* history: the addresses of each box since the scan began
          scans, moves

discoveryVars == <<addressOf, scanning, at, beacon, mdns, listed, had, scans, moves>>

Ports == {"beacon", "srv"}
Idle == [phase |-> "done", until |-> 0, found |-> <<>>]
IdleMdns == [phase |-> "done", until |-> 0, found |-> <<>>, deadline |-> 0, newAt |-> 0]

\* IdentityKey: a box without a machine id is its address and port.
stableKey(row) == IF row.box \in Named THEN <<row.box>> ELSE <<row.ip, row.port>>

-----------------------------------------------------------------------------
(* The two listeners.                                                      *)

\* A receive returns by its own timeout; the deadline is looked at between two receives.
Receives(l, deadline) ==
  /\ l.phase = "loop"
  /\ at < deadline

ends(l, deadline) == l.phase = "loop" /\ at >= deadline

BeaconReceive ==
  /\ Receives(beacon, ScanTime)
  /\ beacon' = [beacon EXCEPT !.phase = "recv", !.until = at + 1]
  /\ UNCHANGED <<addressOf, scanning, at, mdns, listed, had, scans, moves>>

\* One row per sender address, and the address is seen only once a beacon of it parses.
SeesAnything(ip, parses, row, found) ==
  IF \E n \in 1 .. Len(found) : found[n].ip = ip THEN found
  ELSE IF parses THEN Append(found, row) ELSE Append(found, [row EXCEPT !.port = "none"])
heardBeacon(ip, parses, row, found) ==
  IF ~parses \/ \E n \in 1 .. Len(found) : found[n].ip = ip THEN found ELSE Append(found, row)

BeaconDatagram(b, parses) ==
  /\ beacon.phase = "recv"
  /\ beacon' = [beacon EXCEPT !.phase = "loop",
                  !.found = heardBeacon(addressOf[b], parses, [box |-> b, ip |-> addressOf[b], port |-> "beacon"], @)]
  /\ Len(beacon'.found) <= MaxHeard
  /\ UNCHANGED <<addressOf, scanning, at, mdns, listed, had, scans, moves>>

BeaconTimeout ==
  /\ beacon.phase = "recv" /\ at = beacon.until
  /\ beacon' = [beacon EXCEPT !.phase = "loop"]
  /\ UNCHANGED <<addressOf, scanning, at, mdns, listed, had, scans, moves>>

MdnsReceive ==
  /\ Receives(mdns, mdns.deadline)
  /\ mdns' = [mdns EXCEPT !.phase = "recv", !.until = at + 1]
  /\ UNCHANGED <<addressOf, scanning, at, beacon, listed, had, scans, moves>>

\* An answer is one address and port; a new one shortens the wait to the grace, a repeated one does not.
GraceAlways(new) == Min({ScanTime + kMdnsGrace, at + kMdnsGrace})
Grace(new) == IF new THEN Min({ScanTime, at + kMdnsGrace}) ELSE mdns.deadline

MdnsDatagram(b, usable, port) ==
  LET row == [box |-> b, ip |-> addressOf[b], port |-> port]
      new == usable /\ \A n \in 1 .. Len(mdns.found) : <<mdns.found[n].ip, mdns.found[n].port>> # <<row.ip, row.port>>
  IN /\ mdns.phase = "recv"
     /\ mdns' = [mdns EXCEPT !.phase = "loop",
                   !.found = IF new THEN Append(@, row) ELSE @,
                   !.newAt = IF new THEN at ELSE @,
                   !.deadline = Grace(new)]
     /\ Len(mdns'.found) <= MaxHeard
     /\ UNCHANGED <<addressOf, scanning, at, beacon, listed, had, scans, moves>>

MdnsTimeout ==
  /\ mdns.phase = "recv" /\ at = mdns.until
  /\ mdns' = [mdns EXCEPT !.phase = "loop"]
  /\ UNCHANGED <<addressOf, scanning, at, beacon, listed, had, scans, moves>>

ListenersEnd ==
  /\ ends(beacon, ScanTime) \/ ends(mdns, mdns.deadline)
  /\ beacon' = IF ends(beacon, ScanTime) THEN [beacon EXCEPT !.phase = "done"] ELSE beacon
  /\ mdns' = IF ends(mdns, mdns.deadline) THEN [mdns EXCEPT !.phase = "done"] ELSE mdns
  /\ UNCHANGED <<addressOf, scanning, at, listed, had, scans, moves>>

\* Time: no receive outlasts its timeout, and a listener does not dwell outside one.
Tick ==
  /\ scanning
  /\ \A l \in {beacon.phase, mdns.phase} : l # "loop"
  /\ {beacon.phase, mdns.phase} # {"done"}
  /\ beacon.phase = "recv" => at < beacon.until
  /\ mdns.phase = "recv" => at < mdns.until
  /\ at' = at + 1
  /\ UNCHANGED <<addressOf, scanning, beacon, mdns, listed, had, scans, moves>>

-----------------------------------------------------------------------------
(* The merge, and what the manager does with it.                           *)

LastOf(rows, key) == rows[Max({n \in 1 .. Len(rows) : stableKey(rows[n]) = key})]
Keys(rows) == {stableKey(rows[n]) : n \in 1 .. Len(rows)}

\* By the stable key; of two rows with one key the later counts, and an mDNS answer over a beacon.
ByAddress(bs, ms) ==
  {[row |-> r, source |-> "either"] : r \in {bs[n] : n \in 1 .. Len(bs)} \cup {ms[n] : n \in 1 .. Len(ms)}}
mergeDiscovered(bs, ms) ==
  {[row |-> LastOf(bs, k), source |-> "broadcast"] : k \in Keys(bs) \ Keys(ms)} \cup
  {[row |-> LastOf(ms, k), source |-> IF k \in Keys(bs) THEN "both" ELSE "mdns"] : k \in Keys(ms)}

startDiscovery ==
  /\ ~scanning /\ scans < MaxScans
  /\ scanning' = TRUE
  /\ scans' = scans + 1
  /\ at' = 0
  /\ beacon' = [Idle EXCEPT !.phase = "loop"]
  /\ mdns' = [IdleMdns EXCEPT !.phase = "loop", !.deadline = ScanTime]
  /\ had' = [b \in Boxes |-> {addressOf[b]}]
  /\ UNCHANGED <<addressOf, listed, moves>>

\* The whole list is replaced.  What follows from it is the records' refresh and WifiSession's redial.
onDiscoveryFinished ==
  /\ scanning
  /\ beacon.phase = "done" /\ mdns.phase = "done"
  /\ scanning' = FALSE
  /\ listed' = mergeDiscovered(beacon.found, mdns.found)
  /\ UNCHANGED <<addressOf, at, beacon, mdns, had, scans, moves>>

\* A new lease: an address no other box has.
Moves(b, ip) ==
  /\ moves < MaxMoves
  /\ moves' = moves + 1
  /\ \A c \in Boxes : addressOf[c] # ip
  /\ addressOf' = [addressOf EXCEPT ![b] = ip]
  /\ had' = [had EXCEPT ![b] = @ \cup {ip}]
  /\ UNCHANGED <<scanning, at, beacon, mdns, listed, scans>>

ScanInit ==
  /\ addressOf \in [Boxes -> Addresses] /\ \A b, c \in Boxes : b # c => addressOf[b] # addressOf[c]
  /\ scanning = FALSE /\ at = 0
  /\ beacon = Idle /\ mdns = IdleMdns
  /\ listed = {}
  /\ had = [b \in Boxes |-> {addressOf[b]}]
  /\ scans = 0 /\ moves = 0

ScanNext ==
  \/ startDiscovery \/ onDiscoveryFinished
  \/ BeaconReceive \/ BeaconTimeout \/ MdnsReceive \/ MdnsTimeout \/ ListenersEnd \/ Tick
  \/ \E b \in Boxes :
       \/ \E parses \in BOOLEAN : BeaconDatagram(b, parses)
       \/ \E usable \in BOOLEAN, port \in Ports : MdnsDatagram(b, usable, port)
       \/ \E ip \in Addresses : Moves(b, ip)

ScanSpec == ScanInit /\ [][ScanNext]_discoveryVars

-----------------------------------------------------------------------------
(* Properties.                                                             *)

\* The list a scan would publish: a box with a machine id is in it once and no key twice, every box
\* one of the listeners heard is in it, under an address it had while the scan ran, and the tag says
\* which of the two heard it (mergeDiscovered, whichever answered first, from whichever port and
\* address).
ListIsHonest ==
  LET found == mergeDiscovered(beacon.found, mdns.found)
      heard(l) == {l.found[n].box : n \in 1 .. Len(l.found)}
  IN /\ \A f, g \in found : f # g => stableKey(f.row) # stableKey(g.row)
     /\ \A b \in Named : Cardinality({f \in found : f.row.box = b}) <= 1
     /\ heard(beacon) \cup heard(mdns) = {f.row.box : f \in found}
     /\ \A f \in found : f.row.ip \in had[f.row.box] /\ f.row.port # "none"
     /\ \A f \in found : f.source = "both" => f.row.box \in heard(beacon) \cap heard(mdns)

\* The mDNS window closes a receive after its deadline at the latest: the caller's own, or the grace
\* after the last NEW answer, however long a box keeps repeating itself (mdnsScan).
WindowCloses ==
  mdns.phase # "done" => /\ at <= ScanTime + 1
                         /\ mdns.found # <<>> => at <= mdns.newAt + kMdnsGrace + 1

-----------------------------------------------------------------------------
CONSTANTS Lengths,     \* the datagrams' lengths
          Bytes,       \* the byte values they are made of
          PointerMark  \* the value whose two top bits are set

VARIABLES packet, from,
          off, steps, consumed, jumped,  \* skipName's own
          labels,                        \* readName's text: the offsets of its labels, in order
          result                         \* "walking", "ok", "refused"

nameVars == <<packet, from, off, steps, consumed, jumped, labels, result>>

Size == Cardinality(DOMAIN packet)
Positions(n) == 0 .. n - 1

NameInit ==
  /\ \E n \in Lengths : packet \in [Positions(n) -> Bytes] /\ from \in Positions(n)
  /\ off = from /\ steps = 0 /\ consumed = 0 /\ jumped = FALSE /\ labels = {} /\ result = "walking"

\* The walk's guard: one step per byte of the datagram at the most.
AllowedOneLess == steps + 1 < Size
Allowed == steps < Size

Ends(verdict, more) ==
  /\ result' = verdict
  /\ consumed' = IF jumped THEN consumed ELSE consumed + more
  /\ UNCHANGED <<packet, from, off, jumped, labels>>

Goes(to, more, jumps) ==
  /\ off' = to
  /\ consumed' = IF jumped THEN consumed ELSE consumed + more
  /\ jumped' = (jumped \/ jumps)
  /\ UNCHANGED <<packet, from, result>>

\* One turn of the loop.
Step ==
  /\ result = "walking"
  /\ steps' = steps + 1
  /\ CASE off >= Size \/ ~Allowed -> Ends("refused", 0)
       [] off < Size /\ Allowed /\ packet[off] = 0 -> Ends("ok", 1)
       [] off < Size /\ Allowed /\ packet[off] = PointerMark ->
            IF off + 1 < Size /\ packet[off + 1] < off
            THEN Goes(packet[off + 1], 2, TRUE) /\ UNCHANGED labels
            ELSE Ends("refused", 0)
       [] OTHER ->
            IF off + packet[off] + 1 <= Size
            THEN Goes(off + packet[off] + 1, packet[off] + 1, FALSE) /\ labels' = labels \cup {off}
            ELSE Ends("refused", 0)

NameNext == Step

NameSpec == NameInit /\ [][NameNext]_nameVars

-----------------------------------------------------------------------------
(* Properties.                                                             *)

Nowhere == 1000
Root == 1001

\* Where the name goes on from an offset, by the format alone.
Onward(o) ==
  CASE o \notin DOMAIN packet -> Nowhere
    [] o \in DOMAIN packet /\ packet[o] = 0 -> Root
    [] o \in DOMAIN packet /\ packet[o] = PointerMark ->
         IF o + 1 \in DOMAIN packet /\ packet[o + 1] < o THEN packet[o + 1] ELSE Nowhere
    [] OTHER -> IF o + packet[o] + 1 <= Size THEN o + packet[o] + 1 ELSE Nowhere

\* The offset after n moves.  A name longer than this in moves goes round in a circle.
After[n \in 0 .. 2 * Size] == IF n = 0 THEN from ELSE Onward(After[n - 1])
IsName == \E n \in 1 .. 2 * Size : After[n] = Root

\* The bytes of the name in place: up to its first pointer, or its end.
InPlace ==
  LET first == CHOOSE n \in 0 .. 2 * Size :
                 /\ After[n] \in DOMAIN packet /\ packet[After[n]] \in {0, PointerMark}
                 /\ \A k \in 0 .. n - 1 : packet[After[k]] \notin {0, PointerMark}
  IN After[first] - from + (IF packet[After[first]] = 0 THEN 1 ELSE 2)

\* The readers accept exactly the names: a circle is given up on, and no name is refused because it
\* took too many turns, however its pointers and labels weave.  The record after a name starts where
\* skipName says (skipName, readName: the guard and the backward jumps).
NamesExact ==
  result # "walking" =>
    /\ result = "ok" <=> IsName
    /\ result = "ok" => consumed = InPlace /\ labels = {After[n] : n \in 0 .. 2 * Size} \cap
                          {o \in DOMAIN packet : packet[o] \notin {0, PointerMark}}
    /\ steps <= Size + 1

-----------------------------------------------------------------------------
(* The records.                                                            *)

CONSTANTS Ips,
          MaxRecordEvents  \* bound

VARIABLES whereIs,   \* the address of each satellite
          stable,    \* the satellites that advertise a machine id
          rows, keys, pins, \* the settings
          legacy,    \* the keys under an older build's name
          list,      \* its list of rows, which stays, and whether the present one was ever written
          todo,      \* the writes of the call under way
          up,
          trusted,   \* history: paired, and neither forgotten nor refused since
          pinnedOnce, \* history: its pin taken and neither forgotten nor displaced
          gone,      \* history: the ids whose key or row was dropped and that got no key since
          recordEvents

recordVars == <<whereIs, stable, rows, keys, pins, legacy, list, todo, up, trusted, pinnedOnce, gone, recordEvents>>

Ids == Boxes \cup Ips
None == "none"
NoRow == [ip |-> None, machine |-> None]
NoKey == [box |-> None, wrapped |-> FALSE]

\* An older build's settings may hold keys and rows filed under addresses.
RecordsInit ==
  /\ whereIs \in {w \in [Boxes -> Ips] : \A a, b \in Boxes : w[a] = w[b] => a = b}
  /\ stable \in SUBSET Boxes
  /\ rows = [i \in Ids |-> NoRow]
  /\ keys = [i \in Ids |-> NoKey]
  /\ pins = [i \in Ips |-> None]
  /\ legacy \in {[i \in Ids |-> None]} \cup {[i \in Ids |-> IF i = whereIs[b] THEN b ELSE None] : b \in Boxes \ stable}
  /\ list = [written |-> FALSE, old |-> {i \in Ids : legacy[i] # None}]
  /\ todo = <<>>
  /\ up = FALSE
  /\ trusted = {b \in Boxes : \E i \in Ids : legacy[i] = b}
  /\ pinnedOnce = {}
  /\ gone = {}
  /\ recordEvents = 0

Counted ==
  /\ recordEvents < MaxRecordEvents
  /\ recordEvents' = recordEvents + 1

Rest == up /\ todo = <<>>
machineOf(b) == IF b \in stable THEN b ELSE None
idFor(b) == IF b \in stable THEN b ELSE whereIs[b]

-----------------------------------------------------------------------------
(* The calls: each is the writes it makes, in order.                       *)

\* The launch: an older build's keys move to their new name, and the plain ones are wrapped.
LegacyStays(i) == <<[op |-> "carryLegacy", id |-> i]>>
migrateLegacyNamespaces(i) == <<[op |-> "carryLegacy", id |-> i], [op |-> "dropLegacy", id |-> i]>>

Legacy == {i \in Ids : legacy[i] # None}
Plain == {i \in Ids : keys[i].box # None /\ ~keys[i].wrapped} \cup Legacy

Over(ids, Writes(_)) ==
  LET order == SetToSeq(ids) IN FlattenSeq([n \in 1 .. Len(order) |-> Writes(order[n])])

Launch ==
  /\ ~up
  /\ up' = TRUE
  /\ todo' = (IF ~list.written /\ list.old # {} THEN <<[op |-> "list"]>> ELSE <<>>) \o
             Over(Legacy, migrateLegacyNamespaces) \o Over(Plain, LAMBDA i : <<[op |-> "wrap", id |-> i]>>)
  /\ UNCHANGED <<whereIs, stable, rows, keys, pins, legacy, list, trusted, pinnedOnce, gone, recordEvents>>

\* A pairing: the handshake pins the address it was made to, and the key is filed.
setSatelliteSharedKey(b) ==
  /\ Counted
  /\ Rest
  /\ pins[whereIs[b]] \in {None, b}
  /\ todo' = <<[op |-> "pin", ip |-> whereIs[b], box |-> b], [op |-> "key", id |-> idFor(b), box |-> b]>>
  /\ UNCHANGED <<whereIs, stable, rows, keys, pins, legacy, list, up, trusted, pinnedOnce, gone>>

\* A stable row at the address of a satellite that advertises no id.
KnownBox(b) == {i \in Ids : rows[i].machine # None /\ rows[i].ip = whereIs[b]}
Ghosts(b) == {i \in Ids : rows[i] # NoRow /\ rows[i].machine = None /\ rows[i].ip = whereIs[b]}

CollapsesKeyFirst(i, b) == <<[op |-> "dropKey", id |-> i], [op |-> "carryKey", id |-> i, to |-> b], [op |-> "dropRow", id |-> i]>>
collapseLegacyGhosts(i, b) == <<[op |-> "carryKey", id |-> i, to |-> b], [op |-> "dropKey", id |-> i], [op |-> "dropRow", id |-> i]>>

migratePinOnAddressChange(id, ip) ==
  IF rows[id] = NoRow \/ rows[id].ip = ip THEN <<>>
  ELSE <<[op |-> "carryPin", ip |-> rows[id].ip, to |-> ip], [op |-> "dropPin", ip |-> rows[id].ip]>>

rememberSatellite(b) ==
  IF b \notin stable /\ KnownBox(b) # {} THEN <<>>
  ELSE (IF b \in stable THEN Over(Ghosts(b), LAMBDA i : collapseLegacyGhosts(i, b)) ELSE <<>>)
       \o migratePinOnAddressChange(idFor(b), whereIs[b])
       \o <<[op |-> "row", id |-> idFor(b), row |-> [ip |-> whereIs[b], machine |-> machineOf(b)]]>>

\* A session was accepted.
Remember(b) ==
  /\ Counted
  /\ Rest
  /\ keys[idFor(b)].box = b
  /\ todo' = rememberSatellite(b)
  /\ UNCHANGED <<whereIs, stable, rows, keys, pins, legacy, list, up, trusted, pinnedOnce, gone>>

\* A scan re-points what is remembered, and never by a beacon without an id.
refreshFromDiscovery(b) ==
  /\ Counted
  /\ Rest
  /\ b \in stable
  /\ rows[b] # NoRow \/ Ghosts(b) # {}
  /\ todo' = rememberSatellite(b)
  /\ UNCHANGED <<whereIs, stable, rows, keys, pins, legacy, list, up, trusted, pinnedOnce, gone>>

\* The pin through the row's address, then the key, then the row.
forgetSatellite(i) ==
  /\ Counted
  /\ Rest
  /\ rows[i] # NoRow
  /\ todo' = <<[op |-> "forgetPin", ip |-> rows[i].ip], [op |-> "forgetKey", id |-> i], [op |-> "dropRow", id |-> i]>>
  /\ UNCHANGED <<whereIs, stable, rows, keys, pins, legacy, list, up, trusted, pinnedOnce, gone>>

\* The satellite refused the key for good.
forgetSatelliteSharedKey(i) ==
  /\ Counted
  /\ Rest
  /\ keys[i] # NoKey
  /\ todo' = <<[op |-> "forgetKey", id |-> i]>>
  /\ UNCHANGED <<whereIs, stable, rows, keys, pins, legacy, list, up, trusted, pinnedOnce, gone>>

-----------------------------------------------------------------------------
(* The repositories: one write.                                            *)

put(i, k) ==
  /\ keys' = [keys EXCEPT ![i] = k]
  /\ gone' = IF k = NoKey THEN gone \cup {i} ELSE gone \ {i}

\* The platform may refuse to protect a key, which is then stored as it is.
StoreKey(w) ==
  /\ \E wrapped \in BOOLEAN : put(w.id, [box |-> w.box, wrapped |-> wrapped])
  /\ trusted' = (trusted \ {keys[w.id].box}) \cup {w.box}
  /\ UNCHANGED <<rows, pins, legacy, list, pinnedOnce>>

CarryKey(w) ==
  /\ IF keys[w.to] = NoKey /\ keys[w.id] # NoKey THEN put(w.to, keys[w.id]) ELSE UNCHANGED <<keys, gone>>
  /\ UNCHANGED <<rows, pins, legacy, list, trusted, pinnedOnce>>

DropKey(w) ==
  /\ put(w.id, NoKey)
  /\ trusted' = IF w.op = "forgetKey" THEN trusted \ {keys[w.id].box} ELSE trusted
  /\ UNCHANGED <<rows, pins, legacy, list, pinnedOnce>>

CarryLegacy(w) ==
  /\ legacy' = IF w.op = "dropLegacy" THEN [legacy EXCEPT ![w.id] = None] ELSE legacy
  /\ keys' = IF w.op = "carryLegacy" /\ keys[w.id] = NoKey
             THEN [keys EXCEPT ![w.id] = [box |-> legacy[w.id], wrapped |-> FALSE]] ELSE keys
  /\ UNCHANGED <<rows, pins, list, trusted, pinnedOnce, gone>>

wrapLegacyValues(w) ==
  /\ \/ keys[w.id] # NoKey /\ put(w.id, [keys[w.id] EXCEPT !.wrapped = TRUE])
     \/ UNCHANGED <<keys, gone>>
  /\ UNCHANGED <<rows, pins, legacy, list, trusted, pinnedOnce>>

StoreRow(w) ==
  /\ rows' = IF w.op = "list" THEN [i \in Ids |-> IF i \in list.old THEN [ip |-> i, machine |-> None] ELSE NoRow]
             ELSE [rows EXCEPT ![w.id] = IF w.op = "row" THEN w.row ELSE NoRow]
  /\ list' = [list EXCEPT !.written = TRUE]
  /\ gone' = IF w.op = "dropRow" THEN gone \cup {w.id} ELSE gone
  /\ UNCHANGED <<keys, pins, legacy, trusted, pinnedOnce>>

\* A pin taken at the new address already stands, and the old address loses its own in any case.
StorePin(w) ==
  /\ CASE w.op = "pin" ->
            /\ pins' = [pins EXCEPT ![w.ip] = w.box]
            /\ pinnedOnce' = pinnedOnce \cup {w.box}
       [] w.op = "carryPin" ->
            /\ pins' = IF pins[w.to] = None THEN [pins EXCEPT ![w.to] = pins[w.ip]] ELSE pins
            /\ pinnedOnce' = IF pins[w.to] \in {None, pins[w.ip]} THEN pinnedOnce ELSE pinnedOnce \ {pins[w.ip]}
       [] OTHER ->
            /\ pins' = [pins EXCEPT ![w.ip] = None]
            /\ pinnedOnce' = IF w.op = "forgetPin" THEN pinnedOnce \ {pins[w.ip]} ELSE pinnedOnce
  /\ UNCHANGED <<rows, keys, legacy, list, trusted, gone>>

Write ==
  /\ up
  /\ todo # <<>>
  /\ todo' = Tail(todo)
  /\ LET w == Head(todo) IN
     CASE w.op = "key" -> StoreKey(w)
       [] w.op = "carryKey" -> CarryKey(w)
       [] w.op \in {"dropKey", "forgetKey"} -> DropKey(w)
       [] w.op \in {"carryLegacy", "dropLegacy"} -> CarryLegacy(w)
       [] w.op = "wrap" -> wrapLegacyValues(w)
       [] w.op \in {"row", "dropRow", "list"} -> StoreRow(w)
       [] OTHER -> StorePin(w)
  /\ UNCHANGED <<whereIs, stable, up, recordEvents>>

-----------------------------------------------------------------------------
(* The world.                                                              *)

Crash ==
  /\ Counted
  /\ up
  /\ up' = FALSE
  /\ todo' = <<>>
  /\ UNCHANGED <<whereIs, stable, rows, keys, pins, legacy, list, trusted, pinnedOnce, gone>>

\* A lease moves a satellite to a free address: filed under the old one, it is another to Dish.
Move(b, ip) ==
  /\ Counted
  /\ Rest
  /\ \A a \in Boxes : whereIs[a] # ip
  /\ whereIs' = [whereIs EXCEPT ![b] = ip]
  /\ trusted' = IF keys[b].box = b THEN trusted ELSE trusted \ {b}
  /\ UNCHANGED <<stable, rows, keys, pins, legacy, list, todo, up, pinnedOnce, gone>>

\* A satellite updated to a version that advertises its machine id.
Upgrade(b) ==
  /\ Counted
  /\ b \notin stable
  /\ stable' = stable \cup {b}
  /\ UNCHANGED <<whereIs, rows, keys, pins, legacy, list, todo, up, trusted, pinnedOnce, gone>>

RecordsNext ==
  \/ Launch \/ Write \/ Crash
  \/ \E b \in Boxes :
       \/ setSatelliteSharedKey(b) \/ Remember(b) \/ refreshFromDiscovery(b) \/ Upgrade(b)
       \/ \E ip \in Ips : Move(b, ip)
  \/ \E i \in Ids : forgetSatellite(i) \/ forgetSatelliteSharedKey(i)

RecordsSpec == RecordsInit /\ [][RecordsNext]_recordVars

-----------------------------------------------------------------------------
(* Properties.                                                             *)

\* A pairing is never lost: while a satellite is paired and neither forgotten nor refused, its key
\* is on file where Dish will look, and so is its pin: through an older build's names, a ghost
\* collapsed into its later self, a change of address, and a death between any two of the writes
\* that make these.
KeysSurvive ==
  /\ \A b \in trusted : keys[b].box = b \/ keys[whereIs[b]].box = b \/ legacy[whereIs[b]] = b
  /\ \A b \in pinnedOnce : \E ip \in Ips : pins[ip] = b

\* A satellite that was forgotten has left no key behind once its row is gone, and gets none back
\* at a later launch: a death in the middle of a Forget leaves a row, never a key.
NoKeyComesBack ==
  \A i \in gone : rows[i] = NoRow => keys[i] = NoKey

=============================================================================
