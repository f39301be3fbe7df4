------------------------------- MODULE MCInput --------------------------------
(***************************************************************************)
(* Model checking of the way in: the table of device ids with the GUI      *)
(* thread, a raw-HID claim and the SDL thread, and the SDL thread itself   *)
(* over two pads. The two parts are checked side by side: a behaviour      *)
(* picks one and runs it alone.                                            *)
(* In the table the first two threads introduce pad A while the SDL thread *)
(* adds and removes B, which starts above the hole that A is to fill.      *)
(***************************************************************************)
EXTENDS SdlBridge, TLC

CONSTANTS main, hid, pump, padA, padB

ThreadsMC == {main, hid, pump}
IdsMC == {padA, padB}
RequestsMC ==
  [t \in ThreadsMC |->
     IF t = pump THEN [op : {"add", "remove"}, id : {padB}] ELSE {[op |-> "add", id |-> padA]}]
BAboveTheHole == 2 :> padB

VARIABLE part  \* the part that this behaviour runs; the other stays as it began

allVars == <<part, tableVars, sdlVars>>

AllInit ==
  /\ part \in {"registry", "sdl"}
  /\ RegistryInit
  /\ SdlInit

AllNext ==
  \/ part = "registry" /\ RegistryNext /\ UNCHANGED <<part, sdlVars>>
  \/ part = "sdl" /\ SdlNext /\ UNCHANGED <<part, tableVars>>

AllSpec ==
  /\ AllInit /\ [][AllNext]_allVars
  /\ \A t \in Threads : WF_tableVars(part = "registry" /\ Step(t))
  /\ WF_sdlVars(part = "sdl" /\ SdlThread)
  /\ WF_sdlVars(part = "sdl" /\ onBridgeDevicesChanged)

-----------------------------------------------------------------------------
(* Two threads introducing one id end on one index (the comment on add,    *)
(* "both end on the lower index"): when no call is under way an id has one *)
(* record at most, and every index handed out for it is that record.  And  *)
(* feedback left for a device that is gone never moves the pad that took   *)
(* over its index: the SDL thread clears the mailbox when it opens a pad.  *)
InputIsItsOwn ==
  /\ part = "registry" => OneRecordPerId
  /\ part = "sdl" => FeedbackIsItsOwn

(* Every call on the table of ids returns ("A claim never waits on a       *)
(* higher one, so the waits cannot cycle").  And once nothing more         *)
(* happens, every thread has the last word of the other: the GUI lists the *)
(* pads that are open, the SDL thread has the inputs last set, and each    *)
(* pad that is not hidden has its state forwarded.                         *)
InputSettles == <>[](IF part = "registry" THEN Quiet ELSE Settled)
===============================================================================
