---------------------------- MODULE MoonlightPads ----------------------------
(***************************************************************************)
(* The pads on one Moonlight session: the controller numbers and routes of *)
(* MoonlightManager, the announcements MoonlightSession remembers and      *)
(* replays, the touch differ, the held click and the host's subscriptions. *)
(*                                                                         *)
(* The input thread of a slot reads its route under routeMtx_ and sends    *)
(* after it has let go of it; the GUI thread changes routes, then          *)
(* announces.  A send is atomic and ordered (sendMtx_, reliable ENet), so  *)
(* what is sent is applied to the host's pads at once.  The host is        *)
(* modelled from what the code relies on: an arrival for a number it holds *)
(* is skipped, a frame with the number's bit dropped unplugs it, a frame   *)
(* for a number it does not hold plugs in a pad nobody described.          *)
(***************************************************************************)
EXTENDS Integers, Sequences, FiniteSets
LOCAL INSTANCE SequencesExt

CONSTANTS PadSlots,    \* the slots that have a pad
          Numbers,     \* controller numbers, 0 to kMaxPads - 1
          MaxPadOps,   \* bound: commands of the user
          MaxReports,  \* bound: reports of the pads and requests of the host
          MaxStreams   \* bound: times the stream comes up

VARIABLES streaming,  \* streaming()
          assigned,   \* padSlots_: the number of a slot, or none
          routes,     \* routes_: the route of a slot, or none
          arrivals,   \* arrivals_: the pad announced under a number, or none
          wanted,     \* the subscriptions of the motion gate
          mix,        \* rumbleMix_
          calls,      \* what an input thread still has to send
          padGui,     \* what the GUI thread does next
          hostPads,   \* the host's pads
          crossed,    \* for the properties: numbers a report crossed a change of
          padOps      \* commands, reports and streams so far

padVars == <<streaming, assigned, routes, arrivals, wanted, mix, calls, padGui, hostPads, crossed, padOps>>

None == "none"
NoNumber == -1
Picks == {"auto", "xbox", "playstation"}

\* What an arrival declares: the pick or the one auto stands for, and motion where the type has it.
NoPad == [type |-> None, motion |-> FALSE]
resolveAutoArrivalType(motion) == IF motion THEN "playstation" ELSE "xbox"
typeCapabilityCeiling(type) == IF type = "playstation" THEN {"motion", "touchpad"} ELSE {}
declared(type, motion) == [type |-> type, motion |-> motion /\ "motion" \in typeCapabilityCeiling(type)]
arrivalForBinding(pick, motion) ==
  declared(IF pick = "auto" THEN resolveAutoArrivalType(motion) ELSE pick, motion)
Pads == {arrivalForBinding(pick, motion) : pick \in Picks, motion \in BOOLEAN}

\* Only the type is compared.
anotherType(held, wantedPad) == held.type # wantedPad.type

hostBuildsAnotherPad(held, wantedPad) == held.type # wantedPad.type \/ held.motion # wantedPad.motion

\* A touch frame has nothing (0), one pointer at two places (1 and 2), or another pointer (3).
Touches == 0 .. 3
pointer(c) == (c + 1) \div 2

\* Touches reach the host as the user picked, on a type that has a touchpad.
touchReachesHost(pad) == {FALSE, "touchpad" \in typeCapabilityCeiling(pad.type)}

IdleGui == [pc |-> "idle", slot |-> None, n |-> NoNumber, pad |-> NoPad]

Quiet == [body |-> 0, trigger |-> 0]

Init ==
  /\ streaming = FALSE
  /\ assigned = [s \in PadSlots |-> NoNumber]
  /\ routes = [s \in PadSlots |-> {}]
  /\ arrivals = [n \in Numbers |-> NoPad]
  /\ wanted = {}
  /\ mix = [n \in Numbers |-> Quiet]
  /\ calls = [s \in PadSlots |-> <<>>]
  /\ padGui = IdleGui
  /\ hostPads = [n \in Numbers |-> {}]
  /\ crossed = {}
  /\ padOps = [user |-> 0, reports |-> 0, streams |-> 0]

-----------------------------------------------------------------------------
(* Frames, and what the host makes of them.                                *)

StateFrame(n, on, click) == [kind |-> "state", n |-> n, on |-> on, click |-> click]
ArrivalFrame(n, pad) == [kind |-> "arrival", n |-> n, pad |-> pad]
TouchFrame(n, event, c) == [kind |-> "touch", n |-> n, event |-> event, at |-> c]
MotionFrame(n) == [kind |-> "motion", n |-> n]

Built(pad) == [pad |-> pad, contact |-> 0, click |-> FALSE]

Touched(pad, f) ==
  CASE f.event = "down" -> [pad EXCEPT !.contact = f.at]
    [] f.event = "up" -> [pad EXCEPT !.contact = IF pointer(@) = pointer(f.at) THEN 0 ELSE @]
    [] f.event = "move" -> [pad EXCEPT !.contact = IF pointer(@) = pointer(f.at) THEN f.at ELSE @]

Applied(pads, f) ==
  [pads EXCEPT ![f.n] =
     CASE f.kind = "state" /\ ~f.on -> {}
       [] f.kind = "state" /\ f.on ->
            {[pad EXCEPT !.click = f.click] : pad \in IF @ = {} THEN {Built(NoPad)} ELSE @}
       [] f.kind = "arrival" -> IF @ = {} THEN {Built(f.pad)} ELSE @
       [] f.kind = "touch" -> {Touched(pad, f) : pad \in @}
       [] OTHER -> @]

\* What goes out of a live session; nothing does of one that is not.
Sent(frames) == IF streaming THEN FoldLeft(Applied, hostPads, frames) ELSE hostPads

-----------------------------------------------------------------------------
(* The input threads.                                                      *)

Reporting(s) ==
  /\ padOps.reports < MaxReports
  /\ padOps' = [padOps EXCEPT !.reports = @ + 1]
  /\ calls[s] = <<>>

\* The frame names its own pad as present: the number is released after the route is gone.
activeMaskLocked(s, r) == assigned[s] = r.n

forwardReport(s) ==
  /\ Reporting(s)
  /\ \E r \in routes[s] : calls' = [calls EXCEPT ![s] = <<StateFrame(r.n, activeMaskLocked(s, r), r.click)>>]
  /\ UNCHANGED <<streaming, assigned, routes, arrivals, wanted, mix, padGui, hostPads, crossed>>

\* A renumbered contact is not told from a moved one.
diffNoRenumber(n, last, c) ==
  CASE last = 0 /\ c # 0 -> <<TouchFrame(n, "down", c)>>
    [] last # 0 /\ c = 0 -> <<TouchFrame(n, "up", last)>>
    [] last # 0 /\ c # 0 /\ last # c -> <<TouchFrame(n, "move", c)>>
    [] OTHER -> <<>>

diff(n, last, c) ==
  CASE last = 0 /\ c # 0 -> <<TouchFrame(n, "down", c)>>
    [] last # 0 /\ c = 0 -> <<TouchFrame(n, "up", last)>>
    [] last # 0 /\ c # 0 /\ pointer(last) # pointer(c) -> <<TouchFrame(n, "up", last), TouchFrame(n, "down", c)>>
    [] last # c /\ pointer(last) = pointer(c) -> <<TouchFrame(n, "move", c)>>
    [] OTHER -> <<>>

\* A click edge is a frame of its own, ahead of the finger that made it.
clickEdgeLocked(s, r, held) ==
  IF held = r.click THEN <<>> ELSE <<StateFrame(r.n, activeMaskLocked(s, r), held)>>

\* A pad whose touches do not reach the host is diffed against nothing touching.
forwardTouch(s, c, pressed) ==
  /\ Reporting(s)
  /\ \E r \in routes[s] :
       LET now  == IF r.reaches THEN c ELSE 0
           held == pressed /\ r.reaches
       IN /\ calls' = [calls EXCEPT ![s] = clickEdgeLocked(s, r, held) \o diff(r.n, r.last, now)]
          /\ routes' = [routes EXCEPT ![s] = {[r EXCEPT !.last = now, !.click = held]}]
  /\ UNCHANGED <<streaming, assigned, arrivals, wanted, mix, padGui, hostPads, crossed>>

forwardMotion(s) ==
  /\ Reporting(s)
  /\ \E r \in routes[s] : r.motion /\ calls' = [calls EXCEPT ![s] = <<MotionFrame(r.n)>>]
  /\ UNCHANGED <<streaming, assigned, routes, arrivals, wanted, mix, padGui, hostPads, crossed>>

\* One send, outside routeMtx_; motion goes out only where the host subscribed, which it does not show here.
SendNext(s) ==
  /\ calls[s] # <<>>
  /\ calls' = [calls EXCEPT ![s] = Tail(@)]
  /\ hostPads' = Sent(<<Head(calls[s])>>)
  /\ UNCHANGED <<streaming, assigned, routes, arrivals, wanted, mix, padGui, crossed, padOps>>

-----------------------------------------------------------------------------
(* The GUI thread.                                                         *)

Command ==
  /\ padGui.pc = "idle"
  /\ padOps.user < MaxPadOps
  /\ padOps' = [padOps EXCEPT !.user = @ + 1]

Free == {n \in Numbers : \A s \in PadSlots : assigned[s] # n}

\* The lowest free number.
assign == CHOOSE n \in Free : \A m \in Free : n <= m

\* A slot that rides the session keeps its number; it is replugged where the host would build another pad.
bindInPlace(s, pad, reaches) ==
  /\ Command
  /\ routes[s] # {}
  /\ routes' = [routes EXCEPT ![s] = {[r EXCEPT !.reaches = reaches] : r \in @}]
  /\ \E r \in routes[s] :
       padGui' = IF hostBuildsAnotherPad(arrivals[r.n], pad)
                 THEN [pc |-> "forgetFrame", slot |-> s, n |-> r.n, pad |-> pad] ELSE IdleGui
  /\ UNCHANGED <<streaming, assigned, arrivals, wanted, mix, calls, hostPads, crossed>>

bindSlot(s, pad, reaches) ==
  /\ Command
  /\ routes[s] = {}
  /\ Free # {}
  /\ assigned' = [assigned EXCEPT ![s] = assign]
  /\ routes' = [routes EXCEPT ![s] =
                  {[n |-> assign, reaches |-> reaches, last |-> 0, click |-> FALSE, motion |-> TRUE]}]
  /\ padGui' = [pc |-> "announce", slot |-> s, n |-> assign, pad |-> pad]
  /\ UNCHANGED <<streaming, arrivals, wanted, mix, calls, hostPads, crossed>>

\* Reports under way for a number, or taken since the differ last started from nothing.
InFlight(n) == \E s \in PadSlots : \E i \in DOMAIN calls[s] : calls[s][i].n = n
Moved(n) == \E s \in PadSlots : \E r \in routes[s] : r.n = n /\ r.last # 0

Crossing(numbers, plugged) ==
  crossed' = (crossed \ numbers) \cup
             {n \in numbers : InFlight(n) \/ (streaming /\ (Moved(n) \/ (plugged /\ hostPads[n] # {})))}

\* sendControllerArrival and sendInitialState.
announced(n, pad) == <<ArrivalFrame(n, pad), StateFrame(n, TRUE, FALSE)>>

Announce ==
  /\ padGui.pc = "announce"
  /\ arrivals' = [arrivals EXCEPT ![padGui.n] = padGui.pad]
  /\ hostPads' = Sent(announced(padGui.n, padGui.pad))
  /\ Crossing({padGui.n}, TRUE)
  /\ padGui' = IdleGui
  /\ UNCHANGED <<streaming, assigned, routes, wanted, mix, calls, padOps>>

forgetTouchFrame(s) == [routes EXCEPT ![s] = {[r EXCEPT !.last = 0] : r \in @}]

ForgetFrame ==
  /\ padGui.pc = "forgetFrame"
  /\ routes' = forgetTouchFrame(padGui.slot)
  /\ padGui' = [padGui EXCEPT !.pc = "replug"]
  /\ UNCHANGED <<streaming, assigned, arrivals, wanted, mix, calls, hostPads, crossed, padOps>>

\* The arrival alone, which the host skips for a number it holds.
replugArrivalOnly(n, pad) == announced(n, pad)

\* The number is unplugged first, under one hold of sendMtx_.
replug(n, pad) == <<StateFrame(n, FALSE, FALSE)>> \o announced(n, pad)

sendControllerReplug ==
  /\ padGui.pc = "replug"
  /\ arrivals' = [arrivals EXCEPT ![padGui.n] = padGui.pad]
  /\ wanted' = wanted \ {padGui.n}
  /\ hostPads' = Sent(replug(padGui.n, padGui.pad))
  /\ Crossing({padGui.n}, FALSE)
  /\ padGui' = IdleGui
  /\ UNCHANGED <<streaming, assigned, routes, mix, calls, padOps>>

unbindSlot(s) ==
  /\ Command
  /\ \E r \in routes[s] : padGui' = [pc |-> "farewell", slot |-> s, n |-> r.n, pad |-> NoPad]
  /\ routes' = [routes EXCEPT ![s] = {}]
  /\ UNCHANGED <<streaming, assigned, arrivals, wanted, mix, calls, hostPads, crossed>>

\* The last pad off the host ends the session.
Farewell ==
  /\ padGui.pc = "farewell"
  /\ assigned' = [assigned EXCEPT ![padGui.slot] = NoNumber]
  /\ arrivals' = [arrivals EXCEPT ![padGui.n] = NoPad]
  /\ LET last == \A s \in PadSlots \ {padGui.slot} : assigned[s] = NoNumber
     IN /\ streaming' = (streaming /\ ~last)
        /\ hostPads' = IF last THEN [n \in Numbers |-> {}] ELSE Sent(<<StateFrame(padGui.n, FALSE, FALSE)>>)
        /\ IF last THEN crossed' = {n \in Numbers : InFlight(n)} ELSE Crossing({padGui.n}, FALSE)
  /\ padGui' = IdleGui
  /\ UNCHANGED <<routes, wanted, mix, calls, padOps>>

\* reduceSession enters Streaming: the phase, then the manager's handler, then the arrivals.
StreamUp ==
  /\ padGui.pc = "idle"
  /\ ~streaming
  /\ \E s \in PadSlots : assigned[s] # NoNumber
  /\ padOps.streams < MaxStreams
  /\ padOps' = [padOps EXCEPT !.streams = @ + 1]
  /\ streaming' = TRUE
  /\ padGui' = [IdleGui EXCEPT !.pc = "fresh"]
  /\ UNCHANGED <<assigned, routes, arrivals, wanted, mix, calls, hostPads, crossed>>

Announced == {n \in Numbers : arrivals[n] # NoPad}

forgetNoTouchFrames == routes

forgetTouchFramesOn == [s \in PadSlots |-> {[r EXCEPT !.last = 0] : r \in routes[s]}]

Fresh ==
  /\ padGui.pc = "fresh"
  /\ routes' = forgetTouchFramesOn
  /\ padGui' = [padGui EXCEPT !.pc = "arrive"]
  /\ UNCHANGED <<streaming, assigned, arrivals, wanted, mix, calls, hostPads, crossed, padOps>>

\* Every remembered pad, in the order of the numbers.
Announcements ==
  FlattenSeq([i \in 1 .. Cardinality(Announced) |->
                LET n == SetToSortSeq(Announced, <)[i] IN announced(n, arrivals[n])])

sendPendingArrivals ==
  /\ padGui.pc = "arrive"
  /\ hostPads' = Sent(Announcements)
  /\ Crossing(Announced, TRUE)
  /\ padGui' = IdleGui
  /\ UNCHANGED <<streaming, assigned, routes, arrivals, wanted, mix, calls, padOps>>

\* The link drops or the host ends the session; its pads go with it.
StreamDown ==
  /\ padGui.pc = "idle"
  /\ streaming
  /\ streaming' = FALSE
  /\ hostPads' = [n \in Numbers |-> {}]
  /\ crossed' = {n \in Numbers : InFlight(n)}
  /\ UNCHANGED <<assigned, routes, arrivals, wanted, mix, calls, padGui, padOps>>

-----------------------------------------------------------------------------
(* The receive thread.                                                     *)

HostSays(n) ==
  /\ streaming
  /\ hostPads[n] # {}
  /\ padOps.reports < MaxReports
  /\ padOps' = [padOps EXCEPT !.reports = @ + 1]

onMotionRequestEvent(n, on) ==
  /\ HostSays(n)
  /\ wanted' = IF on THEN wanted \cup {n} ELSE wanted \ {n}
  /\ on # (n \in wanted)
  /\ UNCHANGED <<streaming, assigned, routes, arrivals, mix, calls, padGui, hostPads, crossed>>

\* Each of the host's two streams has its own level; the motors get the louder.
mixRumble(m) == IF m.body > m.trigger THEN m.body ELSE m.trigger

onRumbleEvent(n, stream, level) ==
  /\ HostSays(n)
  /\ mix[n][stream] # level
  /\ mix' = [mix EXCEPT ![n][stream] = level]
  /\ UNCHANGED <<streaming, assigned, routes, arrivals, wanted, calls, padGui, hostPads, crossed>>

Input == \E s \in PadSlots :
  \/ forwardReport(s)
  \/ \E c \in Touches : \E pressed \in {FALSE, c # 0} : forwardTouch(s, c, pressed)
  \/ forwardMotion(s)
  \/ SendNext(s)

Gui ==
  \/ \E s \in PadSlots, pad \in Pads : \E reaches \in touchReachesHost(pad) :
       bindInPlace(s, pad, reaches) \/ bindSlot(s, pad, reaches)
  \/ \E s \in PadSlots : unbindSlot(s)
  \/ Announce \/ ForgetFrame \/ sendControllerReplug \/ Farewell
  \/ StreamUp \/ Fresh \/ sendPendingArrivals \/ StreamDown

HostSpeaks == \E n \in Numbers :
  \/ \E on \in BOOLEAN : onMotionRequestEvent(n, on)
  \/ \E stream \in {"body", "trigger"}, level \in 0 .. 1 : onRumbleEvent(n, stream, level)

Next == Input \/ Gui \/ HostSpeaks

Spec == Init /\ [][Next]_padVars

-----------------------------------------------------------------------------
(* Properties.                                                             *)

Settled == streaming /\ padGui.pc = "idle" /\ \A s \in PadSlots : calls[s] = <<>>

\* Between the changes, the host of a live stream has a pad for each bound slot and no other, of the
\* kind last announced; it holds the contact the slot's pad last reported and no click that was let
\* go of.  Binds, replugs in place, unbinds and streams that end and come back may come in any order
\* with the reports; a number is left out while a report of it has crossed its announcement.
HostHasThePads ==
  Settled =>
    \A n \in Numbers \ crossed :
      IF arrivals[n] = NoPad THEN hostPads[n] = {}
      ELSE \E s \in PadSlots, pad \in hostPads[n] : \E r \in routes[s] :
             /\ r.n = n
             /\ pad.pad = arrivals[n]
             /\ pad.contact = r.last
             /\ pad.click => r.click

\* Nothing the host asked of a pad is kept once the pad has unbound: "Forget a pad's motion
\* subscriptions when it unbinds", and the rumble mix is "reset when the pad unbinds".
NothingOutlivesItsPad ==
  padGui.pc = "idle" => \A n \in Numbers : arrivals[n] = NoPad => n \notin wanted /\ mixRumble(mix[n]) = 0

=============================================================================
