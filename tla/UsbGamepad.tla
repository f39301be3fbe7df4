------------------------------ MODULE UsbGamepad ------------------------------
(***************************************************************************)
(* The USB path of one pad model (one VID:PID): source/usb's manager and   *)
(* raw-HID gateway with each claim's reader thread, the path preference,   *)
(* and AppModel's part, which scans once a second, tells the manager what  *)
(* SDL lists, hides the SDL twin of a claimed pad and routes what is left. *)
(*                                                                         *)
(* Everything the manager does runs on the GUI thread, one handler after   *)
(* another.  What moves in between is the bus, SDL's own list and the      *)
(* readers.  A handler is written as an operator from the state it finds,  *)
(* a record, to the set of states it may leave, because its events nest: a *)
(* claim's outcome is applied inside the event that asked for the claim.   *)
(*                                                                         *)
(* First come core/reducer's UsbPathMachine and UsbClaimHealth: which path a *)
(* USB pad takes, as pure functions.  "Standard" is the framework's (SDL), *)
(* "Direct" the raw-HID claim.  A reduction is the next controller and     *)
(* what the manager does about it.  The code lists that as effects, run in *)
(* order; all but a claim, which is the last, touch different state.       *)
(*                                                                         *)
(* Left out, because nothing under src/ reaches it: the permission events  *)
(* (the manager tracks every pad with permission), a claim that stole the  *)
(* framework's device (the gateway always says it did not), and everything *)
(* behind the transition timeout, RestoreStuck and NeedsReplug (nothing    *)
(* calls fireTimeout; AwaitingEnds of MCUsb is about that).  The           *)
(* holds, marks and notices are left out too: they change no state.        *)
(***************************************************************************)
EXTENDS Integers, Sequences, FiniteSets, SequencesExt

CONSTANTS UndecodedReads,   \* kUndecodedReadsBeforeUnreadable
          SilentScans       \* kSilentScansBeforeUnreadable

NoSynthetic == 0
NoFailure == "none"

Untracked == [phase |-> "Untracked", synthetic |-> NoSynthetic,
              desired |-> "Standard", failure |-> NoFailure]

Controller(phase, synthetic, desired, failure) ==
    [phase |-> phase, synthetic |-> synthetic, desired |-> desired, failure |-> failure]

Keep == "keep"

(* What a reduction has the manager do: close these claims, persist this   *)
(* pick, remember or forget this failure, and last, try to claim the pad.  *)
Reduction(c, drop, pref, mark) ==
    [next |-> c, drop |-> drop, pref |-> pref, mark |-> mark, claim |-> FALSE]
stay(c) == Reduction(c, {}, Keep, Keep)

startClaim(c) ==
    [Reduction(Controller("Claiming", c.synthetic, "Direct", NoFailure), {}, Keep, NoFailure)
        EXCEPT !.claim = TRUE]

routedChoose(c, choice) ==
    IF choice = "Direct" THEN startClaim(c) ELSE stay([c EXCEPT !.desired = "Standard"])

reduceRouted(c, e) ==
    CASE e.type = "FrameworkDown" -> stay([c EXCEPT !.phase = "Awaiting"])
      [] e.type = "Choose" -> routedChoose(c, e.arg)
      [] OTHER -> stay(c)

(* Back on Standard with no claim. *)
onStandard(c, failure) ==
    Reduction(Controller("Routed", NoSynthetic, "Standard", failure), {c.synthetic},
              "Standard", failure)

reduceClaiming(c, e) ==
    CASE e.type = "ClaimSucceeded" ->
            Reduction(Controller("Direct", e.arg, c.desired, NoFailure), {}, Keep, NoFailure)
      [] e.type = "ClaimFailed" -> onStandard(c, e.arg)
      [] OTHER -> stay(c)

(* Release the claim, and wait for SDL to list the pad again. *)
awaitFramework(c, failure) ==
    Reduction([c EXCEPT !.phase = "Awaiting", !.failure = failure], {c.synthetic}, Keep, Keep)

(* Mutant: the pick only moves the phase. *)
directChooseKeepsClaim(c, choice, framework) ==
    IF choice = "Direct" THEN stay([c EXCEPT !.desired = "Direct"])
    ELSE stay([c EXCEPT !.phase = "Awaiting", !.failure = NoFailure])

(* A model with no framework gamepad has nothing to wait for. *)
directChoose(c, choice, framework) ==
    CASE choice = "Direct" -> stay([c EXCEPT !.desired = "Direct"])
      [] choice = "Standard" /\ ~framework -> onStandard(c, NoFailure)
      [] choice = "Standard" /\ framework -> awaitFramework(c, NoFailure)

reduceDirect(c, e, framework) ==
    CASE e.type = "Choose" -> directChoose(c, e.arg, framework)
      [] e.type = "ClaimUnreadable" ->
            IF framework THEN awaitFramework(c, "InitFailed") ELSE onStandard(c, "InitFailed")
      [] OTHER -> stay(c)

(* Mutant: the returned pad is bound without the choice being persisted. *)
bindReturnedFrameworkUnsaved(c) == [onStandard(c, c.failure) EXCEPT !.pref = Keep,
                                    !.next.failure = NoFailure]

bindReturnedFramework(c) == [onStandard(c, c.failure) EXCEPT !.next.failure = NoFailure]

reduceAwaiting(c, e) ==
    IF e.type = "FrameworkUp" THEN bindReturnedFramework(c) ELSE stay(c)

(* An unplug wins from any phase. *)
reduce(c, e, framework) ==
    CASE e.type = "UsbUnplugged" -> Reduction(Untracked, {c.synthetic}, Keep, Keep)
      [] e.type # "UsbUnplugged" /\ c.phase = "Routed" -> reduceRouted(c, e)
      [] e.type # "UsbUnplugged" /\ c.phase = "Claiming" -> reduceClaiming(c, e)
      [] e.type # "UsbUnplugged" /\ c.phase = "Direct" -> reduceDirect(c, e, framework)
      [] e.type # "UsbUnplugged" /\ c.phase = "Awaiting" -> reduceAwaiting(c, e)

shouldSettleAwaitingFramework(phase, present) == phase = "Awaiting" /\ present

(* An explicit stored pick always wins. *)
resolvePathChoice(stored, fastLane, prior) ==
    CASE stored # "Auto" -> stored
      [] stored = "Auto" /\ fastLane /\ prior = NoFailure -> "Direct"
      [] stored = "Auto" /\ ~(fastLane /\ prior = NoFailure) -> "Standard"

(* Mutant: silence is judged before what was decoded. *)
judgeClaimHealthBySilence(reads, decoded, scans, streams) ==
    IF streams /\ scans >= SilentScans THEN "Unreadable"
    ELSE IF decoded THEN "Decoding" ELSE "Undecided"

judgeClaimHealth(reads, decoded, scans, streams) ==
    CASE decoded -> "Decoding"
      [] ~decoded /\ (reads >= UndecodedReads \/ (streams /\ scans >= SilentScans)) -> "Unreadable"
      [] OTHER -> "Undecided"

-----------------------------------------------------------------------------
(* The machine around it.                                                  *)

CONSTANTS Pads,          \* pads of this model
          Wireless,      \* those linked by Bluetooth: SDL lists them, the gateway never does
          Kinds,         \* what models are like, of which this run has one
          DepartedScans, \* kDepartedScanThreshold
          MaxClaims,     \* bound: claims made in a run
          MaxMoves       \* bound: plugs, unplugs, hiccups of a list and picks in a run

ASSUME PadsAssumption == Wireless \subseteq Pads

VARIABLES kind,          \* framework, fastLane, streams: the model's facts
          bus,           \* wired pads the raw-HID enumeration would return
          sdl,           \* the SDL bridge's devices, in the order they attached
          bridgeMoved,   \* a devicesChanged is queued
          last,          \* lastFrameworkVpKeys_ has this model
          ctl,           \* controllers_[key]
          stored,        \* the preference store's pick, "Auto" for none
          prior,         \* priorFailures_[key]
          missed,        \* missedScans_[key]
          scans,         \* directScans_[key]
          claims,        \* the gateway's claimed_: per synthetic id, its pad and reader
          workers,       \* the manager's workers_: synthetic ids with an output worker
          made,          \* claims made so far; ids are handed out in order
          view,          \* what the last rebuild routed: the claim, and pads through SDL
          settle,        \* a settle pass is queued
          moves

vars == << kind, bus, sdl, bridgeMoved, last, ctl, stored, prior, missed, scans,
           claims, workers, made, view, settle, moves >>
world == << kind, bus, sdl >>

PathChoices == {"Direct", "Standard"}
Failures == {"Busy", "PermissionDenied", "InitFailed"}
Wired == Pads \ Wireless

(* What a handler reads and writes. *)
Now == [ctl |-> ctl, stored |-> stored, prior |-> prior, missed |-> missed, scans |-> scans,
        claims |-> claims, workers |-> workers, made |-> made, view |-> view, settle |-> settle]

Become(t) ==
    /\ ctl' = t.ctl
    /\ stored' = t.stored
    /\ prior' = t.prior
    /\ missed' = t.missed
    /\ scans' = t.scans
    /\ claims' = t.claims
    /\ workers' = t.workers
    /\ made' = t.made
    /\ view' = t.view
    /\ settle' = t.settle

-----------------------------------------------------------------------------
(* The gateway. *)

(* Why a claim is refused.  A pad that left since the scan is Busy.  Only  *)
(* the Steam Controller, the model with no framework gamepad, has an init  *)
(* that can fail.                                                          *)
Refusals == {f \in Failures : f = "InitFailed" => ~kind.framework /\ bus # {}}

Claimed(p) == [pad |-> p, open |-> TRUE, alive |-> TRUE, reads |-> 0, decoded |-> FALSE]

(* Open the pad, start its reader. *)
claim(t, p) ==
    [t EXCEPT !.made = t.made + 1,
              !.claims = [i \in DOMAIN t.claims \cup {t.made + 1} |->
                            IF i = t.made + 1 THEN Claimed(p) ELSE t.claims[i]]]

(* Joins the reader and closes the handle; nothing for an id that has none. *)
releaseClaim(t, ids) ==
    [t EXCEPT !.claims = [i \in DOMAIN t.claims \ ids |-> t.claims[i]]]

isClaimAlive(t, id) == id \in DOMAIN t.claims /\ t.claims[id].alive

-----------------------------------------------------------------------------
(* AppModel's view of it. *)

(* USB twins are hidden before a Bluetooth one, the earliest first. *)
hideOrder(devices) ==
    SelectSeq(devices, LAMBDA p : p \in Wired) \o SelectSeq(devices, LAMBDA p : p \in Wireless)

(* Mutant: a released claim's placeholder counts as a claim. *)
suppressedRoutedIdsHeld(t) ==
    IF t.ctl.synthetic # NoSynthetic /\ sdl # << >> THEN {Head(hideOrder(sdl))} ELSE {}

(* One twin per claim that streams, and the manager has one claim per model. *)
suppressedRoutedIds(t) ==
    IF t.ctl.phase = "Direct" /\ sdl # << >> THEN {Head(hideOrder(sdl))} ELSE {}

(* The SDL twin is hidden before the claim's slot is routed. *)
rebuild(t) ==
    [t EXCEPT !.view = [direct |-> t.ctl.phase = "Direct",
                        sdl |-> ToSet(sdl) \ suppressedRoutedIds(t)]]

(* The settle pass is queued, not run: this came from inside applyEvent. *)
onUsbDirectChanged(t) == [rebuild(t) EXCEPT !.settle = TRUE]

-----------------------------------------------------------------------------
(* The manager. *)

(* One step of a handler after another. *)
Then(S, step(_)) == UNION {step(t) : t \in S}

releaseClaimAndWorker(t, ids) == releaseClaim([t EXCEPT !.workers = t.workers \ ids], ids)

startWorker(t) == [t EXCEPT !.workers = t.workers \cup {t.made}]

Unless(keep, v) == IF v = Keep THEN keep ELSE v

(* Every effect of a reduction but a claim. *)
execute(t, red) ==
    [releaseClaimAndWorker(t, red.drop) EXCEPT !.ctl = red.next,
                                               !.stored = Unless(t.stored, red.pref),
                                               !.prior = Unless(t.prior, red.mark)]

(* A reduction and its effects, as a set like every step of a handler. *)
Reduced(t, type, arg) ==
    {onUsbDirectChanged(u) :
        u \in {execute(t, red) : red \in {reduce(t.ctl, [type |-> type, arg |-> arg],
                                                kind.framework)}}}

(* Any wired pad may be the one that opens; its outcome asks for no claim. *)
runClaim(t) ==
    Then({startWorker(claim(t, p)) : p \in {q \in bus : t.made < MaxClaims}},
         LAMBDA u : Reduced(u, "ClaimSucceeded", u.made))
    \cup UNION {Reduced(t, "ClaimFailed", f) : f \in Refusals}

(* Nothing, for a pad that is not tracked. *)
applyEvent(t, type, arg) ==
    IF t.ctl.phase = "Untracked" THEN {t}
    ELSE Then(Reduced(t, type, arg),
              LAMBDA u : IF u.ctl.phase = "Claiming" THEN runClaim(u) ELSE {u})

resolvePath(t) == resolvePathChoice(t.stored, kind.fastLane, t.prior)

ensureTracked(t) ==
    IF t.ctl.phase # "Untracked" THEN {t}
    ELSE LET c == Controller("Routed", NoSynthetic, resolvePath(t), NoFailure)
         IN  applyEvent([t EXCEPT !.ctl = c], "Choose", resolvePath(t))

onUsbGone(t) ==
    {[u EXCEPT !.missed = 0, !.scans = 0, !.prior = NoFailure] :
        u \in applyEvent(t, "UsbUnplugged", NoFailure)}

(* Mutant: the re-enumerated pad is left to the sweep, which never sees it go. *)
claimEndedNever(t) == FALSE

claimEnded(t) == t.ctl.phase = "Direct" /\ ~isClaimAlive(t, t.ctl.synthetic)

judgeClaim(t) ==
    IF t.ctl.phase # "Direct" THEN {[t EXCEPT !.scans = 0]}
    ELSE LET n == IF t.scans < SilentScans THEN t.scans + 1 ELSE t.scans
             c == t.claims[t.ctl.synthetic]
             u == [t EXCEPT !.scans = n]
         IN  IF judgeClaimHealth(c.reads, c.decoded, n, kind.streams) = "Unreadable"
             THEN applyEvent(u, "ClaimUnreadable", NoFailure)
             ELSE {u}

(* One enumerated pad of this model. *)
scanDevice(t) ==
    Then(Then(IF claimEnded(t) THEN onUsbGone(t) ELSE {t}, ensureTracked), judgeClaim)

(* Mutant: one scan more than the threshold. *)
sweepDepartedLate(t, seen) ==
    CASE t.ctl.phase = "Untracked" -> {t}
      [] t.ctl.phase # "Untracked" /\ seen # {} -> {[t EXCEPT !.missed = 0]}
      [] t.ctl.phase # "Untracked" /\ seen = {} ->
            IF t.missed < DepartedScans THEN {[t EXCEPT !.missed = t.missed + 1]} ELSE onUsbGone(t)

sweepDeparted(t, seen) ==
    CASE t.ctl.phase = "Untracked" -> {t}
      [] t.ctl.phase # "Untracked" /\ seen # {} -> {[t EXCEPT !.missed = 0]}
      [] t.ctl.phase # "Untracked" /\ seen = {} ->
            IF t.missed + 1 < DepartedScans THEN {[t EXCEPT !.missed = t.missed + 1]}
                                            ELSE onUsbGone(t)

reconcile(t, seen) ==
    Then(FoldSet(LAMBDA p, S : Then(S, scanDevice), {t}, seen),
         LAMBDA u : sweepDeparted(u, seen))

-----------------------------------------------------------------------------
(* The GUI thread's handlers. *)

moved(n) == moves + n <= MaxMoves /\ moves' = moves + n

(* The scan.  seen is bus but for a hiccup, which the bound counts.  The   *)
(* slots are also rebuilt when a poll rate or a charge reading moved.      *)
pollUsbDirect(seen) ==
    /\ moved(IF seen = bus THEN 0 ELSE 1)
    /\ \E t \in reconcile(Now, seen), readings \in BOOLEAN :
          Become(IF readings THEN rebuild(t) ELSE t)
    /\ UNCHANGED << world, bridgeMoved, last >>

(* There is a card with a path control: the claim's, a wired pad's through *)
(* SDL, or the one a model with no framework gamepad keeps.                *)
HasPathControl ==
    /\ ctl.phase # "Untracked"
    /\ (view.direct \/ view.sdl \cap Wired # {} \/ ~kind.framework)

ensurePresentTracked(t) == IF bus = {} THEN {t} ELSE ensureTracked(t)

setPathChoice(choice) ==
    /\ HasPathControl
    /\ moved(1)
    /\ \E t \in Then(ensurePresentTracked([Now EXCEPT !.stored = choice]),
                     LAMBDA u : applyEvent(u, "Choose", choice)) : Become(t)
    /\ UNCHANGED << world, bridgeMoved, last >>

clearChoice ==
    /\ HasPathControl
    /\ moved(1)
    /\ \E t \in Then(ensurePresentTracked([Now EXCEPT !.stored = "Auto"]),
                     LAMBDA u : applyEvent(u, "Choose", resolvePath(u))) : Become(t)
    /\ UNCHANGED << world, bridgeMoved, last >>

(* Settle what waits, if SDL lists the model now, on whichever link. *)
settleAwaiting(t) ==
    IF shouldSettleAwaitingFramework(t.ctl.phase, sdl # << >>)
    THEN applyEvent(t, "FrameworkUp", NoFailure) ELSE {t}

settleAwaitingFrameworkControllers ==
    /\ settle
    /\ \E t \in settleAwaiting([Now EXCEPT !.settle = FALSE]) : Become(t)
    /\ UNCHANGED << world, bridgeMoved, last, moves >>

(* The appearance and the loss of the model, then the level. *)
syncFrameworkPresence(t) ==
    LET present == sdl # << >>
    IN  Then(IF present = last THEN {t}
             ELSE applyEvent(t, IF present THEN "FrameworkUp" ELSE "FrameworkDown", NoFailure),
             settleAwaiting)

onBridgeDevicesChanged ==
    /\ bridgeMoved
    /\ bridgeMoved' = FALSE
    /\ last' = (sdl # << >>)
    /\ \E t \in syncFrameworkPresence(Now) : Become(rebuild(t))
    /\ UNCHANGED << world, moves >>

-----------------------------------------------------------------------------
(* The readers. *)

(* One completed transfer, decoded or not. *)
readReport(id, ok) ==
    /\ claims[id].alive /\ claims[id].open
    /\ claims' = [claims EXCEPT ![id].reads = IF @ < UndecodedReads THEN @ + 1 ELSE @,
                                ![id].decoded = @ \/ ok]
    /\ claims' # claims
    /\ UNCHANGED << world, bridgeMoved, last, ctl, stored, prior, missed, scans, workers, made,
                    view, settle, moves >>

(* A handle whose pad left fails its next read, and the loop ends. *)
readStops(id) ==
    /\ claims[id].alive /\ ~claims[id].open
    /\ claims' = [claims EXCEPT ![id].alive = FALSE]
    /\ UNCHANGED << world, bridgeMoved, last, ctl, stored, prior, missed, scans, workers, made,
                    view, settle, moves >>

-----------------------------------------------------------------------------
(* The bus and SDL, external. *)

gui == << ctl, stored, prior, missed, scans, workers, made, view, settle, last >>

Plug(p) ==
    /\ p \in Wired \ bus /\ moved(1)
    /\ bus' = bus \cup {p}
    /\ UNCHANGED << kind, sdl, bridgeMoved, claims, gui >>

Unplug(p) ==
    /\ p \in bus /\ moved(1)
    /\ bus' = bus \ {p}
    /\ claims' = [i \in DOMAIN claims |-> IF claims[i].pad = p
                                          THEN [claims[i] EXCEPT !.open = FALSE] ELSE claims[i]]
    /\ UNCHANGED << kind, sdl, bridgeMoved, gui >>

(* A pad SDL can see is listed; a model with no framework gamepad never is. *)
SdlAttach(p) ==
    /\ p \notin ToSet(sdl) /\ kind.framework
    /\ IF p \in bus THEN moves' = moves ELSE p \in Wireless /\ moved(1)
    /\ sdl' = Append(sdl, p)
    /\ bridgeMoved' = TRUE
    /\ UNCHANGED << kind, bus, claims, gui >>

(* SDL drops a pad that left, or one that did not. *)
SdlDetach(p) ==
    /\ p \in ToSet(sdl)
    /\ IF p \in Wired \ bus THEN moves' = moves ELSE moved(1)
    /\ sdl' = SelectSeq(sdl, LAMBDA q : q # p)
    /\ bridgeMoved' = TRUE
    /\ UNCHANGED << kind, bus, claims, gui >>

-----------------------------------------------------------------------------
Init ==
    /\ kind \in Kinds
    /\ bus = {} /\ sdl = << >> /\ bridgeMoved = FALSE /\ last = FALSE
    /\ ctl = Untracked
    /\ stored \in {"Auto"} \cup PathChoices
    /\ prior = NoFailure
    /\ missed = 0 /\ scans = 0
    /\ claims = << >> /\ workers = {} /\ made = 0
    /\ view = [direct |-> FALSE, sdl |-> {}]
    /\ settle = FALSE
    /\ moves = 0

Gui ==
    \/ \E seen \in SUBSET bus : pollUsbDirect(seen)
    \/ \E choice \in PathChoices : setPathChoice(choice)
    \/ clearChoice
    \/ settleAwaitingFrameworkControllers
    \/ onBridgeDevicesChanged

Readers == \E id \in DOMAIN claims : readStops(id) \/ \E ok \in BOOLEAN : readReport(id, ok)

External == \E p \in Pads : Plug(p) \/ Unplug(p) \/ SdlAttach(p) \/ SdlDetach(p)

Next == Gui \/ Readers \/ External

Spec == Init /\ [][Next]_vars

(* The scan's timer keeps firing, Qt delivers what is queued, and a reader *)
(* comes back from its 100 ms wait.  SDL reports what left and what came.  *)
Fairness ==
    /\ WF_vars(pollUsbDirect(bus))
    /\ WF_vars(settleAwaitingFrameworkControllers)
    /\ WF_vars(onBridgeDevicesChanged)
    /\ WF_vars(\E id \in DOMAIN claims : readStops(id))
    /\ WF_vars(\E p \in Wired \ bus : SdlDetach(p))

FairSpec == Spec /\ Fairness
===============================================================================
