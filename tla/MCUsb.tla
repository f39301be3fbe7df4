-------------------------------- MODULE MCUsb ---------------------------------
(***************************************************************************)
(* Model checking of the raw-HID path: the claims of one model of pad, and *)
(* the output worker of one claim. The two parts are checked side by side: *)
(* a behaviour picks one and runs it alone.                                *)
(***************************************************************************)
EXTENDS UsbGamepad, UsbOutput

CONSTANTS p, w, receive, poster, rumble, lamp

(* A DualSense, a generic pad that reports on change, the Steam Controller. *)
ModelKinds == {[framework |-> TRUE, fastLane |-> TRUE, streams |-> TRUE],
               [framework |-> TRUE, fastLane |-> FALSE, streams |-> FALSE],
               [framework |-> FALSE, fastLane |-> FALSE, streams |-> FALSE]}

OnePad == {p, w}
Bluetooth == {w}
Posting == {receive, poster}
Surfaces == {rumble, lamp}

VARIABLE part  \* the part that this behaviour runs; the other stays as it began

allVars == <<part, vars, outputVars>>

AllInit ==
  /\ part \in {"gamepad", "output"}
  /\ Init
  /\ part # "gamepad" => kind = (CHOOSE k \in Kinds : TRUE) /\ stored = "Auto"
  /\ OutputInit

AllNext ==
  \/ part = "gamepad" /\ Next /\ UNCHANGED <<part, outputVars>>
  \/ part = "output" /\ OutputNext /\ UNCHANGED <<part, vars>>

(* The GUI's timers and queued calls run, a reader that failed stops, SDL  *)
(* sees a pad leave; threads that can run do, and a release that began     *)
(* goes on; nobody has to post or to release.                              *)
AllSpec ==
  /\ AllInit /\ [][AllNext]_allVars
  /\ WF_vars(part = "gamepad" /\ pollUsbDirect(bus))
  /\ WF_vars(part = "gamepad" /\ settleAwaitingFrameworkControllers)
  /\ WF_vars(part = "gamepad" /\ onBridgeDevicesChanged)
  /\ WF_vars(part = "gamepad" /\ \E id \in DOMAIN claims : readStops(id))
  /\ WF_vars(part = "gamepad" /\ \E x \in Wired \ bus : SdlDetach(x))
  /\ WF_outputVars(part = "output" /\ worker)
  /\ WF_outputVars(part = "output" /\ stop # "claimed" /\ release)
  /\ \A x \in Producers :
       WF_outputVars(part = "output" /\ place[x] # "idle" /\ (post(x) \/ notify(x)))

-----------------------------------------------------------------------------
(* The claims and the output workers are those of a controller on Direct.  *)
NoClaimLeftBehind ==
    /\ DOMAIN claims = {ctl.synthetic : x \in {y \in {ctl.phase} : y = "Direct"}}
    /\ workers = DOMAIN claims

(* The pad a claim reads is not also routed through SDL (UsbTwinDedup:     *)
(* "so a pad streams over exactly one path").                              *)
OnePathPerPad ==
    \A i \in DOMAIN claims : claims[i].pad \notin view.sdl

(* Every pad streams over exactly one path (UsbTwinDedup): the one a claim *)
(* reads not through SDL too, one that no claim stands in for through SDL, *)
(* and a Bluetooth pad is hidden only when SDL lists no wired twin.  And   *)
(* it is the path that the stored pick and the policy give: a failed       *)
(* claim, a lost SDL twin or a replug never leaves the pad on one path and *)
(* the preference on the other (resolvePathChoice, the SetPref effects).   *)
(* Between two handlers the gateway holds exactly the claim of a           *)
(* controller on the Direct path, with its output worker: no pick, unplug, *)
(* unreadable pad or re-enumeration leaves a handle, a reader or a worker  *)
(* behind (UsbGamepadManager::execute, releaseClaimAndWorker).             *)
ExactlyOnePath ==
    /\ NoClaimLeftBehind
    /\ OnePathPerPad
    /\ ~bridgeMoved =>
        /\ DOMAIN claims = {} => view.sdl = ToSet(sdl)
        /\ Cardinality(ToSet(sdl) \ view.sdl) <= 1
        /\ ToSet(sdl) \cap Wired # {} => ToSet(sdl) \cap Wireless \subseteq view.sdl
    /\ ctl.phase = "Direct" => resolvePath(Now) = "Direct"
    /\ ctl.phase = "Routed" => resolvePath(Now) = "Standard"

(* A claim that decodes its pad is given up only on the user's word, when  *)
(* its pad left, or after DepartedScans scans in a row without it: neither *)
(* a hiccup of the enumeration nor the health judgement ends it            *)
(* (reconcile's sweep, judgeClaimHealth).                                  *)
WorkingClaimKept ==
    [][\A i \in DOMAIN claims :
         (claims[i].open /\ claims[i].decoded /\ i \notin DOMAIN claims') =>
            \/ missed = DepartedScans - 1
            \/ setPathChoice("Standard")
            \/ clearChoice]_vars

(* Nothing of the model is left when no pad is there; otherwise it is      *)
(* tracked, on a path, with a live reader if Direct, unless it waits for a *)
(* framework device that SDL does not list.                                *)
Settled ==
    IF bus = {} THEN ctl = Untracked /\ claims = << >>
    ELSE /\ ctl.phase \in {"Routed", "Direct"} \/ (ctl.phase = "Awaiting" /\ sdl = << >>)
         /\ ctl.phase = "Direct" => claims[ctl.synthetic].alive

(* Once the bus, SDL and the posters are quiet, the model settles for good *)
(* (pollUsbDirect, syncFrameworkPresence, the queued settle); and every    *)
(* post to a claim that stays has been written, or a newer one of its kind *)
(* (no lost wake-up in WorkerWake), while a release that began has closed  *)
(* the handle (its join does not wait for a worker that sleeps).           *)
Settles == <>[](IF part = "gamepad" THEN Settled ELSE Drained)

-----------------------------------------------------------------------------
(* What the code does not keep. *)

(* A controller that waits for its framework device does not wait for ever *)
(* (SlotPathFields: a stuck restore surfaces "an error note rather than a  *)
(* perpetual spinner"; StartTimeout's comment: "owned by the production    *)
(* wiring (a Qt timer fed back through fireTimeout)").                     *)
AwaitingEnds == (ctl.phase = "Awaiting") ~> (ctl.phase # "Awaiting")

(* A claim's health is judged once per scan (UsbGamepadManager.h).         *)
JudgedOncePerScan == [][scans' <= scans + 1]_vars
===============================================================================
