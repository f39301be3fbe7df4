------------------------------- MODULE MCSlots --------------------------------
(***************************************************************************)
(* Model checking of the slots: the router's tables under two routes and a *)
(* microphone, and the bindings of two pads and two connections through    *)
(* the device changes and an Apply, the binding editor over two pads, the  *)
(* two pages that show satellites and pads, and the observable stores      *)
(* below them. The parts are checked side by side: a behaviour picks one   *)
(* and runs it alone.                                                      *)
(***************************************************************************)
EXTENDS SlotRouter, TLC

CONSTANTS Units, Conns, MaxChanges, MaxMoves, MaxEdits, Satellites, Pads, MaxPageEvents, Sources, Values,
          MaxSets

\* A store caps the other, whose lowest value resets it; and one that moves itself on.
Following == (<<"a", 2>> :> <<"b", 1>>) @@ (<<"b", 0>> :> <<"a", 0>>) @@ (<<"a", 1>> :> <<"a", 2>>)

VARIABLES part, \* the part that this behaviour runs
          devices, used, signal, usb, present, bindings, attached, live, moon, apply, bounds,
          draft, known, pickOf, typeOf, switches, declared, turnedOff, edits,
          pool, remembered, found, bound, summaries, pagesAttached, snapshot, rowView, home, pageEvents,
          held, output, subscribers, stack, started, applied, sets

B == INSTANCE Bindings
E == INSTANCE BindingDraft
G == INSTANCE ConnectionPages
       WITH attached <- pagesAttached, Follows <- Following

bindVars == <<devices, used, signal, usb, present, bindings, attached, live, moon, apply, bounds>>
draftVars == <<draft, known, pickOf, typeOf, switches, declared, turnedOff, edits>>
pagesVars == <<pool, remembered, found, bound, summaries, pagesAttached, snapshot, rowView, home, pageEvents>>
storesVars == <<held, output, subscribers, stack, started, applied, sets>>
allVars == <<part, vars, bindVars, draftVars, pagesVars, storesVars>>

\* A part that does not run has no state.
Absent == "absent"

AllInit ==
  /\ part \in {"router", "bind", "draft", "pages", "stores"}
  /\ Init
  /\ IF part = "bind" THEN B!Init
     ELSE devices = Absent /\ used = Absent /\ signal = Absent /\ usb = Absent /\ present = Absent /\
          bindings = Absent /\ attached = Absent /\ live = Absent /\ moon = Absent /\ apply = Absent /\
          bounds = Absent
  /\ IF part = "draft" THEN E!Init
     ELSE draft = Absent /\ known = Absent /\ pickOf = Absent /\ typeOf = Absent /\ switches = Absent /\
          declared = Absent /\ turnedOff = Absent /\ edits = Absent
  /\ IF part = "pages" THEN G!PagesInit
     ELSE pool = Absent /\ remembered = Absent /\ found = Absent /\ bound = Absent /\ summaries = Absent /\
          pagesAttached = Absent /\ snapshot = Absent /\ rowView = Absent /\ home = Absent /\
          pageEvents = Absent
  /\ IF part = "stores" THEN G!StoresInit
     ELSE held = Absent /\ output = Absent /\ subscribers = Absent /\ stack = Absent /\ started = Absent /\
          applied = Absent /\ sets = Absent

AllNext ==
  \/ part = "router" /\ Next /\ UNCHANGED <<part, bindVars, draftVars, pagesVars, storesVars>>
  \/ part = "bind" /\ B!Next /\ UNCHANGED <<part, vars, draftVars, pagesVars, storesVars>>
  \/ part = "draft" /\ E!Next /\ UNCHANGED <<part, vars, bindVars, pagesVars, storesVars>>
  \/ part = "pages" /\ G!PagesNext /\ UNCHANGED <<part, vars, bindVars, draftVars, storesVars>>
  \/ part = "stores" /\ G!StoresNext /\ UNCHANGED <<part, vars, bindVars, draftVars, pagesVars>>

AllSpec ==
  /\ AllInit /\ [][AllNext]_allVars
  /\ WF_vars(part = "router" /\ Publisher)
  /\ \A p \in Participants : WF_vars(part = "router" /\ Reader(p))
  /\ WF_bindVars(part = "bind" /\ B!onBridgeDevicesChanged)
  /\ WF_bindVars(part = "bind" /\ B!onApplyTick)
  /\ WF_bindVars(part = "bind" /\ B!applyPathTimeout)
  /\ WF_bindVars(part = "bind" /\ B!applyBindTimeout)

-----------------------------------------------------------------------------
(* A binding is a declaration: once the GUI has caught up with the devices *)
(* every binding's slot is on screen, no satellite has two, and each is    *)
(* attached to the connection it names (SlotBindingStore, ConnectionHub).  *)
BindingsStand == part = "bind" => B!BindingsStand

(* A pad that changes path takes its stream along: the satellite it drove  *)
(* is bound to a slot of the model on the other side (migrateBindings).    *)
KeepsItsStream == [][part = "bind" => B!StreamsMove]_bindVars

(* Everything under way comes to its end: republish and the router's       *)
(* destructor return, however steadily brackets come and go (GraceEpoch.h: *)
(* "a steady stream of brackets cannot starve it"), and an Apply ends,     *)
(* whatever the pad and the satellite do (its tick and its timeouts).      *)
SlotsSettle ==
  <>[](CASE part = "router" -> gui \in {"idle", "gone"} [] part = "bind" -> ~B!InFlight [] OTHER -> TRUE)

(* The editor shows what the wire carries: an Apply with a resolved table  *)
(* declares the pad routing exactly where the touchpad row said Available, *)
(* a binding without a touchpad leaves the host's pick to the others, and  *)
(* table, preview and arrival agree on every draft (BindingDraft.qml,      *)
(* TouchpadModeResolve.h).                                                 *)
EditorShowsTheWire == part = "draft" => E!EditorShowsTheWire

(* A derived store is that of its sources as they are once a set has       *)
(* returned, also when a callback set again inside the notification, and a *)
(* started controller has applied it (Observable, DerivedObservable).  And *)
(* both pages show what there is and say the same of it, though a view     *)
(* re-reads only what its model says has changed (ConnectionListModel,     *)
(* SlotListModel).                                                         *)
ViewsAgree ==
  /\ part = "stores" => G!DerivedAgrees
  /\ part = "pages" => G!PagesAgree
===============================================================================
