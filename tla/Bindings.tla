-------------------------------- MODULE Bindings --------------------------------
(***************************************************************************)
(* Which pad drives which satellite: the slots on screen (AppModel's       *)
(* rebuild, with the twins of a raw-HID claim hidden), the hub's table of  *)
(* bindings, what each connection has attached, the gate that migrates or  *)
(* drops a binding whose slot went away, and the sequencer behind Apply.   *)
(*                                                                         *)
(* All of it runs on the GUI thread; what makes it hard is re-entrancy:    *)
(* the hub and the connections announce each change, and each announcement *)
(* rebuilds the slots and runs the gate in the middle of a bind or an      *)
(* unbind, which goes on with what it copied before.                       *)
(*                                                                         *)
(* The pads are of one model.  1 .. Units are SDL's ids, one for each      *)
(* plug; Synthetic is the slot a raw-HID claim of the model publishes.     *)
(***************************************************************************)
EXTENDS Naturals, FiniteSets, FiniteSetsExt, Functions

CONSTANTS Units,        \* SDL ids
          Conns,        \* satellites
          MaxChanges,   \* bound: what the user and the satellites do
          MaxMoves      \* bound: moves between the paths

VARIABLES devices,      \* what the SDL bridge lists, newest
          used,         \* the SDL ids given out
          signal,       \* a devicesChanged is queued
          usb,          \* the model's record: its phase, what is wanted, whether reports come
          present,      \* presentPads_: the slots of the last rebuild
          bindings,     \* bindings_
          attached,     \* each connection's slots_ and boundSlotId_
          live,         \* the connections whose session is Live
          moon,         \* the slots a Moonlight host has
          apply,        \* apply_ and the draft it applies
          bounds        \* bounds: changes, moves

bindVars == <<devices, used, signal, usb, present, bindings, attached, live, moon, apply, bounds>>

Synthetic == Units + 1
Slots == 1 .. Synthetic
Nothing == [s \in {} |-> 0]

Resting == [phase |-> "Idle", slot |-> 0, conn |-> 0, direct |-> FALSE, fellBack |-> FALSE,
            failure |-> "none"]

Init ==
  /\ devices = {} /\ used = {} /\ signal = FALSE
  /\ usb = [phase |-> "None", desired |-> "Standard", reads |-> FALSE]
  /\ present = {}
  /\ bindings = Nothing
  /\ attached = [c \in Conns |-> [slots |-> {}, bound |-> {}]]
  /\ live = {}
  /\ moon = {}
  /\ apply = Resting
  /\ bounds = [changes |-> 0, moves |-> 0]

-----------------------------------------------------------------------------
(* The slots on screen                                                     *)

\* suppressedRoutedIds: as many twins as claims, the first of them.
hidden(devs, phase) == IF phase = "Direct" /\ devs # {} THEN {Min(devs)} ELSE {}

\* appendSdlSlots and appendDirectSlots.
Shown(devs, phase) ==
  (devs \ hidden(devs, phase)) \cup (IF phase = "Direct" THEN {Synthetic} ELSE {})

\* boundPadIdentity: a slot shown, a twin that is hidden, or an id that packs the model; a pad
\* SDL no longer lists has none.
hasIdentity(s, devs) == s \in devs \/ s = Synthetic

-----------------------------------------------------------------------------
(* The hub and the connections, as functions of the world w they change    *)

without(f, s) == Restrict(f, DOMAIN f \ {s})
with(f, s, c) == [x \in DOMAIN f \cup {s} |-> IF x = s THEN c ELSE f[x]]

\* WifiConnection::detachSlot(): the slot the connection is bound to.
detachSlot(w, c) ==
  [w EXCEPT !.attached[c] = [slots |-> @.slots \ @.bound, bound |-> {}]]

\* WifiConnection::attachSlot: boundSlotId_ moves only to a slot that is new to it.
attachSlot(w, s, c) ==
  [w EXCEPT !.attached[c] = IF s \in @.slots THEN @
                            ELSE [slots |-> @.slots \cup {s}, bound |-> {s}]]

priorOf(w, s, c) == {p \in DOMAIN w.bindings : w.bindings[p] = c /\ p # s}

\* bind and unbind while the gate is in flight: no gate runs inside them.
bindInFlight(w, s, c) ==
  LET w1 == IF priorOf(w, s, c) = {} THEN w ELSE detachSlot(w, c)
      kept == Restrict(w.bindings, DOMAIN w.bindings \ priorOf(w, s, c)) IN
  attachSlot([w1 EXCEPT !.bindings = with(kept, s, c)], s, c)

unbindInFlight(w, s) ==
  IF s \notin DOMAIN w.bindings THEN w
  ELSE detachSlot([w EXCEPT !.bindings = without(@, s)], w.bindings[s])

\* A mutant: a binding whose slot went away is always dropped.
migrateNever(w, shown, devs, s) == {}

\* Where a binding goes: the first slot shown of the same model that carries none.
migrateTo(w, shown, devs, s) ==
  IF ~hasIdentity(s, devs) THEN {}
  ELSE LET free == shown \ DOMAIN w.bindings IN IF free = {} THEN {} ELSE {Min(free)}

\* One action of the gate.
applied(w, s, to) ==
  LET w1 == unbindInFlight(w, s) IN
  IF to = {} \/ s \notin DOMAIN w.bindings THEN w1
  ELSE bindInFlight(w1, Min(to), w.bindings[s])

\* A mutant: an identity that is gone keeps its binding.
goneLenient(w, shown, devs) ==
  {s \in DOMAIN w.bindings \ shown : migrateTo(w, shown, devs, s) # {}}

\* The bindings with no slot shown.
gone(w, shown, devs) == DOMAIN w.bindings \ shown

\* applyBindingPresence: what resolveBindingPresence makes of the bindings, in the order of the
\* slots.  The targets are chosen before any action is applied.
applyBindingPresence(w, devs, phase) ==
  LET shown == Shown(devs, phase)
      lost == gone(w, shown, devs)
      run[n \in 0 .. Synthetic] ==
        IF n = 0 THEN w
        ELSE IF n \in lost THEN applied(run[n - 1], n, migrateTo(w, shown, devs, n))
        ELSE run[n - 1] IN
  run[Synthetic]

\* ConnectionHub::bind.  The prior slot's detach, the published table and the attach each lead
\* to a rebuild and so to the gate; the table published is the copy taken first.
bind(w, s, c, devs, phase) ==
  LET w1 == IF priorOf(w, s, c) = {} THEN w
            ELSE applyBindingPresence(detachSlot(w, c), devs, phase)
      kept == Restrict(w.bindings, DOMAIN w.bindings \ priorOf(w, s, c))
      w2 == applyBindingPresence([w1 EXCEPT !.bindings = with(kept, s, c)], devs, phase) IN
  applyBindingPresence(attachSlot(w2, s, c), devs, phase)

\* ConnectionHub::unbind.
unbind(w, s, devs, phase) ==
  IF s \notin DOMAIN w.bindings THEN w
  ELSE applyBindingPresence(
         detachSlot([w EXCEPT !.bindings = without(@, s)], w.bindings[s]), devs, phase)

World == [bindings |-> bindings, attached |-> attached]

\* What a step on the GUI thread leaves: the world, and the slots of its last rebuild.
Rebuilt(w, devs, phase) ==
  /\ \E left \in {w} : bindings' = left.bindings /\ attached' = left.attached
  /\ present' = Shown(devs, phase)

rebuild(w) == Rebuilt(applyBindingPresence(w, devices, usb'.phase), devices, usb'.phase)

-----------------------------------------------------------------------------
(* Pads come, go and change path                                           *)

plug ==
  /\ \E u \in (1 .. Units) \ used :
       /\ \A v \in (1 .. Units) \ used : u <= v
       /\ used' = used \cup {u} /\ devices' = devices \cup {u}
  /\ signal' = TRUE
  /\ UNCHANGED <<usb, present, bindings, attached, live, moon, apply, bounds>>

unplug ==
  /\ \E u \in devices : devices' = devices \ {u}
  /\ signal' = TRUE
  /\ UNCHANGED <<used, usb, present, bindings, attached, live, moon, apply, bounds>>

\* onBridgeDevicesChanged: rebuild from the newest list.
onBridgeDevicesChanged ==
  /\ signal /\ signal' = FALSE
  /\ UNCHANGED <<devices, used, usb, live, moon, apply, bounds>>
  /\ rebuild(World)

\* The gateway's poll finds the model, or finds it gone.
pollUsbDirect ==
  /\ \/ usb.phase = "None" /\ devices # {} /\ usb' = [usb EXCEPT !.phase = "Standard"]
     \/ usb.phase # "None" /\ devices = {}
        /\ usb' = [usb EXCEPT !.phase = "None", !.reads = FALSE]
     \/ usb.phase = "Direct" /\ devices # {} /\ ~usb.reads /\ usb' = [usb EXCEPT !.reads = TRUE]
  /\ UNCHANGED <<devices, used, signal, live, moon, apply, bounds>>
  /\ rebuild(World)

\* A choice of path: what UsbGamepadManager does with it, in the module UsbGamepad, comes down
\* to this for the slots.
Chosen(direct) ==
  IF direct
  THEN usb' = [usb EXCEPT !.desired = "Direct",
                          !.phase = IF @ = "Standard" THEN "Claiming" ELSE @]
  ELSE usb' = [usb EXCEPT !.desired = "Standard", !.reads = FALSE,
                          !.phase = IF @ = "Direct" THEN "Awaiting"
                                    ELSE IF @ = "Claiming" THEN "Standard" ELSE @]

\* onUsbDirectChanged: the claim lands or fails, the framework has the pad back, a claim dies.
onUsbDirectChanged ==
  /\ bounds.moves < MaxMoves
  /\ bounds' = [bounds EXCEPT !.moves = @ + 1]
  /\ \/ usb.phase = "Claiming" /\ usb' = [usb EXCEPT !.phase = "Direct"]
     \/ usb.phase \in {"Claiming", "Direct"}
        /\ usb' = [phase |-> "Standard", desired |-> "Standard", reads |-> FALSE]
     \/ usb.phase = "Awaiting" /\ usb' = [usb EXCEPT !.phase = "Standard"]
  /\ UNCHANGED <<devices, used, signal, live, moon, apply>>
  /\ rebuild(World)

-----------------------------------------------------------------------------
(* Apply                                                                   *)

InFlight == apply.phase \in {"SwitchingPath", "Binding"}
Busy == bounds.changes < MaxChanges /\ bounds' = [bounds EXCEPT !.changes = @ + 1]

\* resolveSlotIdForBind: the claim's slot when the model has one, else the first of SDL's.
resolveSlotIdForBind(s) ==
  IF s \in devices \/ s = Synthetic
  THEN IF Synthetic \in present THEN {Synthetic}
       ELSE IF present = {} THEN {} ELSE {Min(present)}
  ELSE {s} \cap present

\* The bind that starts the Destination step.
beginApplyBind(run) ==
  /\ apply' = run
  /\ Rebuilt(bind(World, run.slot, run.conn, devices, usb'.phase), devices, usb'.phase)

Start(s, c, direct) ==
  [Resting EXCEPT !.slot = s, !.conn = c, !.direct = direct]

\* applyBinding: one run at a time; the path first when it differs, then the bind.
applyBinding(s, c, direct) ==
  /\ ~InFlight /\ s \in present
  /\ Busy
  /\ UNCHANGED <<devices, used, signal, live, moon>>
  /\ LET to == resolveSlotIdForBind(s) IN
       IF to = {}
       THEN apply' = Resting /\ UNCHANGED <<usb, present, bindings, attached>>
       ELSE IF usb.phase # "None" /\ (usb.desired = "Direct") # direct
       THEN /\ apply' = [Start(Min(to), c, direct) EXCEPT !.phase = "SwitchingPath"]
            /\ Chosen(direct)
            /\ rebuild(World)
       ELSE /\ UNCHANGED usb
            /\ beginApplyBind([Start(Min(to), c, direct) EXCEPT !.phase = "Binding"])

\* slotPathSwitching: what the card's spinner shows.
slotPathSwitching(s) ==
  \/ usb.phase \in {"Claiming", "Awaiting"}
  \/ usb.desired = "Direct" /\ (s # Synthetic \/ ~usb.reads)
  \/ usb.desired = "Standard" /\ s = Synthetic

Ended(failure) == apply' = [apply EXCEPT !.phase = "Failed", !.failure = failure]
Quiet == UNCHANGED <<usb, present, bindings, attached>>

\* onApplyTick: did the pad vanish, has the path settled, did the satellite answer.
onApplyTick ==
  /\ InFlight
  /\ UNCHANGED <<devices, used, signal, live, moon, bounds>>
  /\ LET to == resolveSlotIdForBind(apply.slot)
         here == IF to = {} THEN apply.slot ELSE Min(to) IN
       \/ apply.slot \notin present /\ to = {} /\ Ended("SlotGone") /\ Quiet
       \/ /\ apply.slot \in present \/ to # {}
          /\ apply.phase = "SwitchingPath"
          /\ IF here \notin present \/ slotPathSwitching(here)
             THEN apply' = [apply EXCEPT !.slot = here] /\ Quiet
             ELSE /\ UNCHANGED usb
                  /\ beginApplyBind([apply EXCEPT !.slot = here, !.phase = "Binding",
                                       !.fellBack = apply.direct /\ usb.phase # "Direct"])
       \/ /\ apply.slot \in present \/ to # {}
          /\ apply.phase = "Binding"
          /\ Quiet
          /\ IF apply.slot \notin present THEN UNCHANGED apply
             ELSE IF apply.slot \notin DOMAIN bindings \/ bindings[apply.slot] # apply.conn
             THEN Ended("BindRejected")
             ELSE IF apply.conn \in live THEN apply' = [apply EXCEPT !.phase = "Succeeded"]
             ELSE UNCHANGED apply

\* The budgets: 20 s for the path, after which the pad is bound on the path it kept, and 8 s
\* for the bind.
applyPathTimeout ==
  /\ apply.phase = "SwitchingPath"
  /\ UNCHANGED <<devices, used, signal, usb, live, moon, bounds>>
  /\ beginApplyBind([apply EXCEPT !.phase = "Binding", !.fellBack = TRUE])

\* A mutant: the bind's budget is not started when the path took its own.
applyBindTimeoutDirectOnly ==
  /\ apply.phase = "Binding" /\ ~apply.fellBack
  /\ Ended("HostUnreachable")
  /\ UNCHANGED <<devices, used, signal, live, moon, bounds>> /\ Quiet

applyBindTimeout ==
  /\ apply.phase = "Binding"
  /\ Ended("HostUnreachable")
  /\ UNCHANGED <<devices, used, signal, live, moon, bounds>> /\ Quiet

cancelApply ==
  /\ apply.phase = "SwitchingPath"
  /\ apply' = [apply EXCEPT !.phase = "Cancelled", !.failure = "Cancelled"]
  /\ UNCHANGED <<devices, used, signal, live, moon, bounds>> /\ Quiet

-----------------------------------------------------------------------------
(* The other writers of the table                                          *)

\* unbindSlot: of both tables.
unbindSlot(s) ==
  /\ s \in DOMAIN bindings \cup moon /\ Busy
  /\ moon' = moon \ {s}
  /\ UNCHANGED <<devices, used, signal, usb, live, apply>>
  /\ Rebuilt(unbind(World, s, devices, usb.phase), devices, usb.phase)

\* applyMoonlightBinding: the satellite's side is left first.
applyMoonlightBinding(s) ==
  /\ ~InFlight /\ s \in present /\ s \notin moon /\ Busy
  /\ moon' = moon \cup {s}
  /\ apply' = Resting
  /\ UNCHANGED <<devices, used, signal, usb, live>>
  /\ Rebuilt(unbind(World, s, devices, usb.phase), devices, usb.phase)

\* slotRegistrationFailed: the satellite refused the controller, the hub rolls the binding
\* back, and a run that waits for it fails.
slotRegistrationFailed(c) ==
  /\ c \in live /\ Busy
  /\ \E s \in attached[c].slots :
       /\ apply' = IF apply.phase = "Binding" /\ apply.slot = s
                   THEN [apply EXCEPT !.phase = "Failed", !.failure = "BindRejected"] ELSE apply
       /\ Rebuilt(unbind(World, s, devices, usb.phase), devices, usb.phase)
  /\ UNCHANGED <<devices, used, signal, usb, live, moon>>

\* forgetConnection: unbound before it is forgotten, and the connection goes.
forgetConnection(c) ==
  /\ Busy
  /\ LET mine == {s \in DOMAIN bindings : bindings[s] = c}
         w == IF mine = {} THEN World ELSE unbind(World, Min(mine), devices, usb.phase) IN
       Rebuilt([w EXCEPT !.attached[c] = [slots |-> {}, bound |-> {}]], devices, usb.phase)
  /\ live' = live \ {c}
  /\ UNCHANGED <<devices, used, signal, usb, moon, apply>>

\* A session goes up or down, and the pool's change rebuilds.
poolChanged(c) ==
  /\ Busy
  /\ live' = IF c \in live THEN live \ {c} ELSE live \cup {c}
  /\ UNCHANGED <<devices, used, signal, usb, moon, apply>>
  /\ rebuild(World)

-----------------------------------------------------------------------------
Next ==
  \/ plug \/ unplug \/ onBridgeDevicesChanged \/ pollUsbDirect \/ onUsbDirectChanged
  \/ onApplyTick \/ applyPathTimeout \/ applyBindTimeout \/ cancelApply
  \/ \E s \in Slots : unbindSlot(s) \/ applyMoonlightBinding(s)
  \/ \E c \in Conns : slotRegistrationFailed(c) \/ forgetConnection(c) \/ poolChanged(c)
  \/ \E s \in Slots, c \in Conns, direct \in BOOLEAN : applyBinding(s, c, direct)

Spec == Init /\ [][Next]_bindVars /\ WF_bindVars(onBridgeDevicesChanged)
             /\ WF_bindVars(onApplyTick) /\ WF_bindVars(applyPathTimeout)
             /\ WF_bindVars(applyBindTimeout)

-----------------------------------------------------------------------------
(* Properties                                                              *)

\* A binding is a declaration: once the GUI has caught up with the devices, every binding's
\* slot is on screen, no satellite has two, and each is attached to the connection it names.
BindingsStand ==
  /\ ~signal => DOMAIN bindings \subseteq present
  /\ \A s, t \in DOMAIN bindings : bindings[s] = bindings[t] => s = t
  /\ \A s \in DOMAIN bindings : s \in attached[bindings[s]].slots

\* A pad that changes path takes its stream along: the satellite it drove is bound to a slot of
\* the model on the other side.
StreamsMove ==
  onUsbDirectChanged /\ ~signal /\ devices # {} =>
    \A s \in DOMAIN bindings : \E t \in DOMAIN bindings' : bindings'[t] = bindings[s]

\* A slot drives one destination.
OneDestination ==
  \A s \in Slots :
    Cardinality({c \in Conns : s \in attached[c].slots})
      + (IF s \in moon THEN 1 ELSE 0) <= 1

=============================================================================
