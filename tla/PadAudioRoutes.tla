--------------------------- MODULE PadAudioRoutes ---------------------------
(***************************************************************************)
(* Which of the machine's audio endpoints belong to which pad, and what    *)
(* the microphone and speaker engines are told to open.  The HID side and  *)
(* the audio side of a pad enumerate at their own time; all they share is  *)
(* the product string inside the endpoint's name, so the matcher drops     *)
(* every ambiguity.  Muting a microphone, from its card, the pad's button  *)
(* or for all of them, is folded into the same reconcile.  Pads of a       *)
(* family without an audio function never enter the matcher.               *)
(***************************************************************************)
EXTENDS Naturals, FiniteSets

CONSTANTS Pads,          \* the pads a user may plug in; a slot is named by its pad
          ModelOf, NameOf,  \* a pad's vendor:product, and its product string
          Within,      \* the pairs <<a, b>> of product strings with b inside a
          HapticModels,  \* the models whose endpoint has the actuator lanes
          MaxAudioEvents \* bound

VARIABLES link,       \* "usb", "bt" or "out", by pad
          records,    \* the models the raw-HID gateway lists
          endpoints,  \* the pads whose endpoint is enumerated, by direction
          signalled,  \* an audioDevicesChanged is queued
          audioRoutes, \* the routes by model: the pad name each direction opens, or none
          carried,    \* the slots bound to a streaming host that carries their audio
          muted,      \* micMuteStore_
          captures, voices, \* the endpoint name a slot's engine has open, or none
          armed,      \* armedMicSlotIds_
          audioEvents

audioVars == <<link, records, endpoints, signalled, audioRoutes, carried, muted, captures, voices, armed, audioEvents>>

Models == {ModelOf[p] : p \in Pads}
Directions == {"capture", "playback"}
NoName == "none"
NoEndpoint == [d \in Directions |-> NoName]

-----------------------------------------------------------------------------
(* The matcher.  An endpoint carries its own pad's string.                 *)

containsInsensitive(p, name) == NameOf[p] = name \/ <<NameOf[p], name>> \in Within

\* The strings that identify exactly one listed model.
PadNames(recs) ==
  {n \in {NameOf[p] : p \in Pads} :
     Cardinality({ModelOf[p] : p \in {q \in Pads : NameOf[q] = n}} \cap recs) = 1}

FirstNamed(names, ends, n) == {p \in ends : containsInsensitive(p, n)}

\* An endpoint that names two pads is nobody's, and a pad with two endpoints has none.
matchDirection(names, ends, n) ==
  {p \in ends : containsInsensitive(p, n) /\ \A other \in names \ {n} : ~containsInsensitive(p, other)}

resolvePadAudioRoutes(recs, ends) ==
  [m \in Models |->
     [d \in Directions |->
        LET names == PadNames(recs)
            mine  == {n \in names : m \in recs /\ \E p \in Pads : ModelOf[p] = m /\ NameOf[p] = n}
            found == UNION {matchDirection(names, ends[d], n) : n \in mine}
        IN IF Cardinality(found) = 1 THEN NameOf[CHOOSE p \in found : TRUE] ELSE NoName]]

\* A Bluetooth pad shares its model with a twin on USB, and never routes.
audioRouteForSlot(routes, p) == IF link[p] = "usb" THEN routes[ModelOf[p]] ELSE NoEndpoint

-----------------------------------------------------------------------------
(* The reconcile of the engines, which ends every rebuild.                 *)

\* Mute set aside: a muted slot still has a microphone to find.
Armed(routes, on) == {p \in Pads : p \in on /\ audioRouteForSlot(routes, p)["capture"] # NoName}

micCaptureEligible(routes, on, mutes, p) == p \in Armed(routes, on) /\ p \notin mutes

reconcileAudioEngines(routes, on, mutes) ==
  /\ armed' = Armed(routes, on)
  /\ captures' = [p \in Pads |-> IF micCaptureEligible(routes, on, mutes, p)
                                 THEN audioRouteForSlot(routes, p)["capture"] ELSE NoName]
  /\ voices' = [p \in Pads |->
       IF p \in on /\ audioRouteForSlot(routes, p)["playback"] # NoName
       THEN [device |-> audioRouteForSlot(routes, p)["playback"],
             lanes  |-> {"speaker"} \cup (IF ModelOf[p] \in HapticModels THEN {"haptic"} ELSE {})]
       ELSE [device |-> NoName, lanes |-> {}]]

\* A departed slot forgets its mute, and the binding goes with the pad.
Present(links) == {p \in Pads : links[p] # "out"}

Init ==
  /\ link = [p \in Pads |-> "out"]
  /\ records = {}
  /\ endpoints = [d \in Directions |-> {}]
  /\ signalled = FALSE
  /\ audioRoutes = [m \in Models |-> NoEndpoint]
  /\ carried = {}
  /\ muted = {}
  /\ captures = [p \in Pads |-> NoName]
  /\ voices = [p \in Pads |-> [device |-> NoName, lanes |-> {}]]
  /\ armed = {}
  /\ audioEvents = 0

Counted ==
  /\ audioEvents < MaxAudioEvents
  /\ audioEvents' = audioEvents + 1

\* SDL sees the pad come or go at once; the list's change rebuilds.
Plug(p, how) ==
  /\ Counted
  /\ link[p] = "out" \/ how = "out"
  /\ link[p] # how
  /\ link' = [link EXCEPT ![p] = how]
  /\ carried' = carried \ {p}
  /\ muted' = muted \ {p}
  /\ armed' = armed \ {p}
  /\ captures' = [captures EXCEPT ![p] = NoName]
  /\ voices' = [voices EXCEPT ![p] = [device |-> NoName, lanes |-> {}]]
  /\ UNCHANGED <<records, endpoints, signalled, audioRoutes>>

\* The audio stack follows the plug in its own time, one direction at a time; an endpoint of a
\* plugged pad may also be disabled and enabled by the user.
Enumerate(p, d) ==
  /\ p \in endpoints[d] \/ link[p] = "usb"
  /\ endpoints' = [endpoints EXCEPT ![d] = IF p \in @ THEN @ \ {p} ELSE @ \cup {p}]
  /\ signalled' = TRUE
  /\ UNCHANGED <<link, records, audioRoutes, carried, muted, captures, voices, armed, audioEvents>>

\* The routes, and everything that follows when they moved.
resolved(recs) ==
  LET next == resolvePadAudioRoutes(recs, endpoints) IN
  /\ audioRoutes' = next
  /\ IF next = audioRoutes THEN UNCHANGED <<captures, voices, armed>>
     ELSE reconcileAudioEngines(next, carried, muted)

pollUsbDirect ==
  /\ records # {ModelOf[p] : p \in {q \in Pads : link[q] = "usb"}}
  /\ records' = {ModelOf[p] : p \in {q \in Pads : link[q] = "usb"}}
  /\ resolved(records')
  /\ UNCHANGED <<link, endpoints, signalled, carried, muted, audioEvents>>

\* What sat on a vanished name closes first; then the routes, then the engines whatever the routes say.
onAudioDevicesChanged ==
  /\ signalled
  /\ signalled' = FALSE
  /\ LET next == resolvePadAudioRoutes(records, endpoints) IN
     /\ audioRoutes' = next
     /\ reconcileAudioEngines(next, carried, muted)
  /\ UNCHANGED <<link, records, endpoints, carried, muted, audioEvents>>

\* A binding, its session, its switch or the host's verdict moved: a rebuild.
Carries(p) ==
  /\ Counted
  /\ link[p] # "out"
  /\ carried' = IF p \in carried THEN carried \ {p} ELSE carried \cup {p}
  /\ reconcileAudioEngines(audioRoutes, carried', muted)
  /\ UNCHANGED <<link, records, endpoints, signalled, audioRoutes, muted>>

setSlotMicMuted(slots, to) ==
  /\ muted' = IF to THEN muted \cup slots ELSE muted \ slots
  /\ reconcileAudioEngines(audioRoutes, carried, muted')
  /\ UNCHANGED <<link, records, endpoints, signalled, audioRoutes, carried>>

\* The card's click or the pad's own button.
toggleSlotMicMute(p) ==
  /\ Counted
  /\ link[p] # "out"
  /\ setSlotMicMuted({p}, p \notin muted)

\* One click for every armed microphone: mutes all while any is live.
micToggleAllFor == \E p \in armed : captures[p] # NoName

toggleAllMics ==
  /\ Counted
  /\ armed # {}
  /\ setSlotMicMuted(armed, micToggleAllFor)

Next ==
  \/ \E p \in Pads, how \in {"usb", "bt", "out"} : Plug(p, how)
  \/ \E p \in Pads, d \in Directions : Enumerate(p, d)
  \/ pollUsbDirect \/ onAudioDevicesChanged \/ toggleAllMics
  \/ \E p \in Pads : Carries(p) \/ toggleSlotMicMute(p)

Spec == Init /\ [][Next]_audioVars

-----------------------------------------------------------------------------
(* Properties.                                                             *)

AtRest ==
  /\ ~signalled
  /\ records = {ModelOf[p] : p \in {q \in Pads : link[q] = "usb"}}
  /\ \A d \in Directions : endpoints[d] \subseteq {p \in Pads : link[p] = "usb"}

Held(p, d) == IF d = "capture" THEN captures[p] ELSE voices[p].device

\* Once both sides have been handled, a slot's microphone and speaker engines hold an endpoint only
\* by a name that a single endpoint bears, of a pad of the slot's own model, whatever pads shared its
\* name, stood in for it or had their endpoint disabled on the way; a Bluetooth pad holds none.
OwnEndpointOnly ==
  AtRest => \A p \in Pads, d \in Directions : Held(p, d) # NoName =>
    /\ link[p] = "usb"
    /\ \E q \in endpoints[d] : /\ ModelOf[q] = ModelOf[p]
                               /\ {r \in endpoints[d] : NameOf[r] = Held(p, d)} = {q}

=============================================================================
