---------------------------- MODULE SlotFeedback ----------------------------
(***************************************************************************)
(* What a host may ask of a pad and where it lands: the capabilities a     *)
(* bound slot declares to its satellite, the feedback routes of the        *)
(* published table that the session's receive thread delivers by, the      *)
(* user's rumble switch and the bench's test buzz.                         *)
(*                                                                         *)
(* One DualSense that is a framework slot or, while its claim is live, a   *)
(* synthetic one.  A handler of the GUI thread is a run of steps, held in  *)
(* `todo`; the receive thread holds a route while it delivers, and a       *)
(* publish waits for it.  A post to a path is taken as what the pad does   *)
(* next: the mailboxes keep the newest (UsbOutput, SdlBridge).             *)
(***************************************************************************)
EXTENDS Naturals, Sequences, FiniteSets

CONSTANTS MaxFeedbackEvents  \* bound: events of the user, the pad and the host

VARIABLES framework,  \* SDL shows the pad
          claimed,    \* the claim's generation while it is live, 0 otherwise
          usbPresent, \* the raw-HID gateway lists the pad
          endpoint,   \* the pad's own audio endpoint is there
          audioRoute, \* padAudioRoutes_
          hidapi,     \* SDL's own driver has the pad: it takes the effect body
          bound,      \* the hub's binding of the satellite, or none
          declared,   \* the capabilities the satellite was last told
          switchOn,   \* rumbleEnabledStore_
          feedback,   \* the published route of the connection
          receiver,   \* the receive thread: the route it holds, and the message
          motor,      \* the level last posted for a slot
          buzz,       \* the latest ticket of a slot, and the stops still to come
          todo,       \* the steps left of the GUI thread's handler
          shownSlot,  \* the pad's slot on screen, or none
          feedbackEvents

feedbackVars == <<framework, claimed, usbPresent, endpoint, audioRoute, hidapi, bound, declared, switchOn, feedback,
                  receiver, motor, buzz, todo, shownSlot, feedbackEvents>>

Slots == {"sdl", "usb"}
Kinds == {"rumble", "lightbar", "triggers"}
NoSlot == "none"

NoRoute == [slot |-> NoSlot, targets |-> [k \in Kinds |-> "None"], direct |-> 0, rumbleOn |-> FALSE]
IdleReceiver == [held |-> FALSE, stale |-> FALSE, route |-> NoRoute, kind |-> "rumble", level |-> 0]

-----------------------------------------------------------------------------
(* Routing a kind of feedback.                                             *)

\* Rumble and the light bar are SDL's own calls; the rest goes through the effect body.
standardPathCarries(k) == k \in {"rumble", "lightbar"} \/ hidapi

\* SDL reports the DualSense's light bar only from its own driver.
padHas(s, k) == IF s = "usb" THEN TRUE ELSE framework /\ (k = "lightbar" => hidapi)

resolveFeedbackTarget(s, k) ==
  CASE ~padHas(s, k) -> "None"
    [] padHas(s, k) /\ s = "usb" -> IF claimed # 0 THEN "DirectUsb" ELSE "None"
    [] OTHER -> IF standardPathCarries(k) THEN "Standard" ELSE "None"

slotCarriesFeedback(s) == {k \in Kinds : resolveFeedbackTarget(s, k) # "None"}

\* The audio function belongs to the OS on either path.
slotCarriesSpeakerPlayout == IF audioRoute THEN {"speaker"} ELSE {}

Caps(s) == slotCarriesFeedback(s) \cup slotCarriesSpeakerPlayout

liveRoute(s) ==
  [slot |-> s, targets |-> [k \in Kinds |-> resolveFeedbackTarget(s, k)], direct |-> claimed,
   rumbleOn |-> switchOn[s]]

\* What a route's post does to the pad: nothing on a worker whose claim is over.
Posted(route, level) ==
  CASE route.targets["rumble"] = "Standard" -> [motor EXCEPT !["sdl"] = IF framework THEN level ELSE 0]
    [] route.targets["rumble"] = "DirectUsb" -> [motor EXCEPT !["usb"] = IF route.direct = claimed THEN level ELSE @]
    [] OTHER -> motor

rumbleTheUserAllows(level, on) == IF on THEN level ELSE 0

Init ==
  /\ framework = TRUE
  /\ claimed = 0
  /\ usbPresent = TRUE
  /\ endpoint = FALSE
  /\ audioRoute = FALSE
  /\ hidapi \in BOOLEAN
  /\ bound = NoSlot
  /\ declared = {}
  /\ switchOn = [s \in Slots |-> TRUE]
  /\ feedback = NoRoute
  /\ receiver = IdleReceiver
  /\ motor = [s \in Slots |-> 0]
  /\ buzz = [s \in Slots |-> [latest |-> 0, stops |-> {}]]
  /\ todo = <<>>
  /\ shownSlot = "sdl"
  /\ feedbackEvents = 0

-----------------------------------------------------------------------------
(* The receive thread.                                                     *)

Counted ==
  /\ feedbackEvents < MaxFeedbackEvents
  /\ feedbackEvents' = feedbackEvents + 1

\* The satellite sends what was declared; the handler takes the route inside the grace epoch.
withFeedbackRoute(k, level) ==
  /\ Counted
  /\ ~receiver.held
  /\ k \in declared
  /\ feedback.slot # NoSlot
  /\ receiver' = [held |-> TRUE, stale |-> FALSE, route |-> feedback, kind |-> k, level |-> level]
  /\ UNCHANGED <<framework, claimed, usbPresent, endpoint, audioRoute, hidapi, bound, declared, switchOn, feedback, motor, buzz, todo, shownSlot>>

Deliver ==
  /\ receiver.held
  /\ motor' = IF receiver.kind = "rumble"
              THEN Posted(receiver.route, rumbleTheUserAllows(receiver.level, receiver.route.rumbleOn))
              ELSE motor
  /\ receiver' = IdleReceiver
  /\ UNCHANGED <<framework, claimed, usbPresent, endpoint, audioRoute, hidapi, bound, declared, switchOn, feedback, buzz, todo, shownSlot, feedbackEvents>>

-----------------------------------------------------------------------------
(* The GUI thread's steps.                                                 *)

Step(name) == [do |-> name, slot |-> NoSlot]
At(name, s) == [do |-> name, slot |-> s]

\* The tables are swapped, and the thread goes on once no reader holds the old one.
Publishes == <<Step("republish"), Step("wait")>>
PublishesAtOnce == <<Step("republish")>>
republish == Publishes

\* rebuild: the slots on screen, the routes, then the presence gate.
rebuild == <<Step("slots")>> \o republish \o <<Step("presence")>>

\* The store's subscribers, in the order they subscribed; a switch that did not go off stops nothing.
subscribers(s, off) == republish \o IF off THEN <<At("stop", s)>> ELSE <<>>

Doing(name) == todo # <<>> /\ Head(todo).do = name

StepSlots ==
  /\ Doing("slots")
  /\ shownSlot' = IF claimed # 0 THEN "usb" ELSE IF framework THEN "sdl" ELSE NoSlot
  /\ todo' = Tail(todo)
  /\ UNCHANGED <<framework, claimed, usbPresent, endpoint, audioRoute, hidapi, bound, declared, switchOn, feedback, receiver, motor, buzz, feedbackEvents>>

StepRepublish ==
  /\ Doing("republish")
  /\ feedback' = IF bound = NoSlot THEN NoRoute ELSE liveRoute(bound)
  /\ receiver' = [receiver EXCEPT !.stale = receiver.held]
  /\ todo' = Tail(todo)
  /\ UNCHANGED <<framework, claimed, usbPresent, endpoint, audioRoute, hidapi, bound, declared, switchOn, motor, buzz, shownSlot, feedbackEvents>>

StepWait ==
  /\ Doing("wait")
  /\ ~receiver.stale
  /\ todo' = Tail(todo)
  /\ UNCHANGED <<framework, claimed, usbPresent, endpoint, audioRoute, hidapi, bound, declared, switchOn, feedback, receiver, motor, buzz, shownSlot, feedbackEvents>>

stopMotors ==
  /\ Doing("stop")
  /\ motor' = Posted(liveRoute(Head(todo).slot), 0)
  /\ todo' = Tail(todo)
  /\ UNCHANGED <<framework, claimed, usbPresent, endpoint, audioRoute, hidapi, bound, declared, switchOn, feedback, receiver, buzz, shownSlot, feedbackEvents>>

\* The binding follows the pad to the slot it is on now, with its switches, or goes with the pad.
\* Each unbind and bind rebuilds; the gate itself is not entered again from inside.
applyBindingPresence ==
  /\ Doing("presence")
  /\ todo' = IF bound \in {NoSlot, shownSlot} THEN Tail(todo)
             ELSE <<Step("unbind"), Step("slots")>> \o republish
                  \o (IF shownSlot = NoSlot THEN <<>>
                      ELSE <<[do |-> "carry", slot |-> bound], At("bind", shownSlot), Step("slots")>> \o republish)
                  \o Tail(todo)
  /\ UNCHANGED <<framework, claimed, usbPresent, endpoint, audioRoute, hidapi, bound, declared, switchOn, feedback, receiver, motor, buzz, shownSlot, feedbackEvents>>

StepUnbind ==
  /\ Doing("unbind")
  /\ bound' = NoSlot
  /\ declared' = {}
  /\ todo' = Tail(todo)
  /\ UNCHANGED <<framework, claimed, usbPresent, endpoint, audioRoute, hidapi, switchOn, feedback, receiver, motor, buzz, shownSlot, feedbackEvents>>

\* The other slot takes the switch as it stands, and its subscribers hear of it if it moved.
carrySlotSwitches ==
  /\ Doing("carry")
  /\ LET from == Head(todo).slot
         off  == switchOn[shownSlot] /\ ~switchOn[from]
     IN /\ switchOn' = [switchOn EXCEPT ![shownSlot] = switchOn[from]]
        /\ todo' = IF switchOn[shownSlot] = switchOn[from] THEN Tail(todo)
                   ELSE subscribers(shownSlot, off) \o Tail(todo)
  /\ UNCHANGED <<framework, claimed, usbPresent, endpoint, audioRoute, hidapi, bound, declared, feedback, receiver, motor, buzz, shownSlot, feedbackEvents>>

\* attachSlot folds the capabilities anew; binding the bound slot again re-declares it.
StepBind ==
  /\ Doing("bind")
  /\ bound' = Head(todo).slot
  /\ declared' = Caps(Head(todo).slot)
  /\ todo' = Tail(todo)
  /\ UNCHANGED <<framework, claimed, usbPresent, endpoint, audioRoute, hidapi, switchOn, feedback, receiver, motor, buzz, shownSlot, feedbackEvents>>

\* The caps of every bound slot are declared again when the routes moved.
republishSlotCaps == IF bound = NoSlot THEN <<>> ELSE <<At("bind", bound)>> \o rebuild

resolveAudioRoutes ==
  /\ Doing("audio")
  /\ audioRoute' = (endpoint /\ usbPresent)
  /\ todo' = IF audioRoute' = audioRoute THEN Tail(todo) ELSE republishSlotCaps \o rebuild \o Tail(todo)
  /\ UNCHANGED <<framework, claimed, usbPresent, endpoint, hidapi, bound, declared, switchOn, feedback, receiver, motor, buzz, shownSlot, feedbackEvents>>

-----------------------------------------------------------------------------
(* Events.                                                                 *)

Event == todo = <<>> /\ Counted

onUsbDirectChanged ==
  /\ Event
  /\ IF claimed = 0 THEN /\ usbPresent
                         /\ claimed' = feedbackEvents + 1
                         /\ UNCHANGED motor
                    ELSE /\ claimed' = 0
                         /\ motor' = [motor EXCEPT !["usb"] = 0]
  /\ todo' = rebuild \o <<Step("audio")>>
  /\ UNCHANGED <<framework, usbPresent, endpoint, audioRoute, hidapi, bound, declared, switchOn, feedback, receiver, buzz, shownSlot>>

\* The poll finds the pad or its absence, which ends its claim.
pollUsbDirect ==
  /\ Event
  /\ usbPresent' = ~usbPresent
  /\ claimed' = 0
  /\ motor' = [motor EXCEPT !["usb"] = 0]
  /\ todo' = (IF claimed # 0 THEN rebuild ELSE <<>>) \o <<Step("audio")>>
  /\ UNCHANGED <<framework, endpoint, audioRoute, hidapi, bound, declared, switchOn, feedback, receiver, buzz, shownSlot>>

onBridgeDevicesChanged ==
  /\ Event
  /\ framework' = ~framework
  /\ motor' = [motor EXCEPT !["sdl"] = 0]
  /\ todo' = rebuild
  /\ UNCHANGED <<claimed, usbPresent, endpoint, audioRoute, hidapi, bound, declared, switchOn, feedback, receiver, buzz, shownSlot>>

onAudioDevicesChanged ==
  /\ Event
  /\ endpoint' = ~endpoint
  /\ todo' = <<Step("audio")>>
  /\ UNCHANGED <<framework, claimed, usbPresent, audioRoute, hidapi, bound, declared, switchOn, feedback, receiver, motor, buzz, shownSlot>>

bind ==
  /\ Event
  /\ bound = NoSlot
  /\ shownSlot # NoSlot
  /\ todo' = <<At("bind", shownSlot)>> \o rebuild
  /\ UNCHANGED <<framework, claimed, usbPresent, endpoint, audioRoute, hidapi, bound, declared, switchOn, feedback, receiver, motor, buzz, shownSlot>>

unbind ==
  /\ Event
  /\ bound # NoSlot
  /\ todo' = <<Step("unbind")>> \o rebuild
  /\ UNCHANGED <<framework, claimed, usbPresent, endpoint, audioRoute, hidapi, bound, declared, switchOn, feedback, receiver, motor, buzz, shownSlot>>

setRumbleEnabled ==
  /\ Event
  /\ shownSlot # NoSlot
  /\ switchOn' = [switchOn EXCEPT ![shownSlot] = ~@]
  /\ todo' = subscribers(shownSlot, switchOn[shownSlot])
  /\ UNCHANGED <<framework, claimed, usbPresent, endpoint, audioRoute, hidapi, bound, declared, feedback, receiver, motor, buzz, shownSlot>>

\* A Moonlight host's rumble lands on the GUI thread, by the routes as they stand.
deliverRumble(level) ==
  /\ Event
  /\ shownSlot # NoSlot /\ bound = NoSlot
  /\ motor' = Posted(liveRoute(shownSlot), rumbleTheUserAllows(level, switchOn[shownSlot]))
  /\ UNCHANGED <<framework, claimed, usbPresent, endpoint, audioRoute, hidapi, bound, declared, switchOn, feedback, receiver, buzz, todo, shownSlot>>

\* The bench's buzz ignores the switch and ends with a stop of its own.
testRumble ==
  /\ Event
  /\ shownSlot # NoSlot
  /\ motor' = Posted(liveRoute(shownSlot), 1)
  /\ buzz' = [buzz EXCEPT ![shownSlot] = [latest |-> @.latest + 1, stops |-> @.stops \cup {@.latest + 1}]]
  /\ UNCHANGED <<framework, claimed, usbPresent, endpoint, audioRoute, hidapi, bound, declared, switchOn, feedback, receiver, todo, shownSlot>>

\* The stop of a buzz is honoured while no later one was started.
BuzzEnds(s, ticket) ==
  /\ todo = <<>>
  /\ buzz' = [buzz EXCEPT ![s].stops = @ \ {ticket}]
  /\ motor' = IF ticket = buzz[s].latest THEN Posted(liveRoute(s), 0) ELSE motor
  /\ UNCHANGED <<framework, claimed, usbPresent, endpoint, audioRoute, hidapi, bound, declared, switchOn, feedback, receiver, todo, shownSlot, feedbackEvents>>

Receives == (\E k \in Kinds, level \in 0 .. 1 : withFeedbackRoute(k, level)) \/ Deliver

Steps ==
  \/ StepSlots \/ StepRepublish \/ StepWait \/ stopMotors \/ applyBindingPresence
  \/ StepUnbind \/ carrySlotSwitches \/ StepBind \/ resolveAudioRoutes

Events ==
  \/ onUsbDirectChanged \/ pollUsbDirect \/ onBridgeDevicesChanged \/ onAudioDevicesChanged \/ bind \/ unbind
  \/ setRumbleEnabled \/ testRumble \/ \E level \in 0 .. 1 : deliverRumble(level)
  \/ \E s \in Slots : \E ticket \in buzz[s].stops : BuzzEnds(s, ticket)

Next == Receives \/ Steps \/ Events

Spec == Init /\ [][Next]_feedbackVars

-----------------------------------------------------------------------------
(* Properties.                                                             *)

\* Once the handler that switched a slot's rumble off has returned, the slot's motors are still until
\* it is switched on again, whatever the receive thread was delivering meanwhile and whatever path
\* the pad has moved to since; only the bench's own buzz runs them.
SwitchedOffStaysOff ==
  todo = <<>> => \A s \in Slots : ~switchOn[s] /\ buzz[s].stops = {} => motor[s] = 0

\* Whenever the GUI thread rests, the satellite has been told of exactly what the published route
\* can carry now: every declared kind has a target on a live path, no kind with one goes undeclared,
\* and the speaker is declared while the pad's own endpoint is routed.  Claims that come and go, pads
\* that leave, endpoints and bindings move in any order.
DeclaredIsCarried ==
  todo = <<>> /\ bound # NoSlot =>
    /\ bound = shownSlot /\ feedback.slot = bound
    /\ declared \cap Kinds = {k \in Kinds : feedback.targets[k] # "None"}
    /\ bound = "usb" => feedback.direct = claimed /\ claimed # 0
    /\ "speaker" \in declared <=> audioRoute

=============================================================================
