-------------------------------- MODULE SdlBridge --------------------------------
(***************************************************************************)
(* The way in, as two machines.                                            *)
(*                                                                         *)
(* The registry: the lock-free table of GamepadInputProcessor, a fixed     *)
(* number of records that add() claims for a device id, find() searches    *)
(* and remove() frees, called by the GUI thread and by the threads that    *)
(* read devices.  Records are numbered from 1 in table order.  An id's     *)
(* text is read and written as a whole: its sequence lock makes a reader   *)
(* retry until it has one write's text.                                    *)
(*                                                                         *)
(* The SDL thread: it opens and closes the pads SDL reports, keeps each    *)
(* one's state, publishes what moved once a cycle and hands feedback to    *)
(* the pads; and the GUI thread, which reads the list of devices, hides    *)
(* the twins of raw-HID claims and sets remaps and dead zones.             *)
(* (SDLGamepadBridge, the publish half of GamepadInputProcessor,           *)
(* ControllerShadow, DirtySet, LatestValue, AppModel's device handler)     *)
(*                                                                         *)
(* A pad is one plug of it: SDL gives every plug an id of its own.  A      *)
(* state is 0 at rest, 1 inside the default dead zone, 2 outside.  A remap *)
(* is whether the saved one is in force.                                   *)
(***************************************************************************)
EXTENDS Naturals, Sequences, SequencesExt, FiniteSets, FiniteSetsExt

-----------------------------------------------------------------------------
(* The registry                                                            *)

CONSTANTS Threads,
          Ids,        \* device ids
          Requests,   \* Requests[t]: the calls thread t may make, as [op, id]
          Preset,     \* Preset[i]: the id record i has at the start
          Size,       \* kMaxDevices
          MaxCalls    \* bound: calls per thread

ASSUME RegistryAssumption ==
  /\ Size \in Nat \ {0}
  /\ MaxCalls \in Nat
  /\ \A t \in Threads : Requests[t] \subseteq [op : {"add", "remove"}, id : Ids]
  /\ \A i \in DOMAIN Preset : i \in 1 .. Size /\ Preset[i] \in Ids

Records == 1 .. Size
NoIndex == 0             \* no index: the table is full, or the id is not there

VARIABLES state,      \* state[i]: "free", "claimed" or "live"
          text,       \* text[i]: the id in record i
          place,      \* place[t]: where thread t is in its call
          call,       \* call[t]: the call it makes, or made last
          cursor,     \* cursor[t]: the record it is at
          mine,       \* mine[t]: the record it claimed
          result,     \* result[t]: the index its last add returned, per id
          calls       \* calls[t]: how many calls it has begun

registryVars == <<state, text>>
tableVars == <<registryVars, place, call, cursor, mine, result, calls>>

NoText == [none |-> TRUE]

RegistryInit ==
  /\ state = [i \in Records |-> IF i \in DOMAIN Preset THEN "live" ELSE "free"]
  /\ text = [i \in Records |-> IF i \in DOMAIN Preset THEN Preset[i] ELSE NoText]
  /\ place = [t \in Threads |-> "idle"]
  /\ call \in [Threads -> [op : {"add"}, id : {CHOOSE id \in Ids : TRUE}]]
  /\ cursor = [t \in Threads |-> 1]
  /\ mine = [t \in Threads |-> NoIndex]
  /\ result = [t \in Threads |-> [id \in Ids |-> NoIndex]]
  /\ calls = [t \in Threads |-> 0]

Go(t, to, at) ==
  /\ place' = [place EXCEPT ![t] = to]
  /\ cursor' = [cursor EXCEPT ![t] = at]

Return(t, index) ==
  /\ Go(t, "idle", 1)
  /\ result' = [result EXCEPT ![t][call[t].id] = index]

\* A call begins with find.
Begin(t) ==
  /\ place[t] = "idle" /\ calls[t] < MaxCalls
  /\ \E r \in Requests[t] : call' = [call EXCEPT ![t] = r]
  /\ Go(t, "findState", 1)
  /\ calls' = [calls EXCEPT ![t] = @ + 1]
  /\ UNCHANGED <<registryVars, mine, result>>

\* find is over without a match: add goes on to claim, remove returns.
FindState(t) ==
  /\ place[t] = "findState"
  /\ IF cursor[t] \notin Records
     THEN IF call[t].op = "add"
          THEN Go(t, "claim", 1) /\ UNCHANGED result
          ELSE Return(t, NoIndex)
     ELSE /\ IF state[cursor[t]] = "live"
             THEN Go(t, "findText", cursor[t])
             ELSE Go(t, "findState", cursor[t] + 1)
          /\ UNCHANGED result
  /\ UNCHANGED <<registryVars, call, mine, calls>>

\* idMatches.
FindText(t) ==
  /\ place[t] = "findText"
  /\ IF text[cursor[t]] = call[t].id
     THEN Go(t, "findAgain", cursor[t])
     ELSE Go(t, "findState", cursor[t] + 1)
  /\ UNCHANGED <<registryVars, call, mine, result, calls>>

\* A match counts while the record is still live.
FindAgain(t) ==
  /\ place[t] = "findAgain"
  /\ IF state[cursor[t]] # "live"
     THEN Go(t, "findState", cursor[t] + 1) /\ UNCHANGED result
     ELSE IF call[t].op = "add"
          THEN Return(t, cursor[t])
          ELSE Go(t, "remove", cursor[t]) /\ UNCHANGED result
  /\ UNCHANGED <<registryVars, call, mine, calls>>

\* remove: counters and dead zones cleared, the generation bumped, and free.
remove(t) ==
  /\ place[t] = "remove"
  /\ state' = [state EXCEPT ![cursor[t]] = "free"]
  /\ Return(t, NoIndex)
  /\ UNCHANGED <<text, call, mine, calls>>

\* The compare-exchange that claims the first free record.
Claim(t) ==
  /\ place[t] = "claim"
  /\ IF cursor[t] \notin Records
     THEN Return(t, NoIndex) /\ UNCHANGED <<state, mine>>
     ELSE IF state[cursor[t]] = "free"
          THEN /\ state' = [state EXCEPT ![cursor[t]] = "claimed"]
               /\ mine' = [mine EXCEPT ![t] = cursor[t]]
               /\ Go(t, "write", cursor[t])
               /\ UNCHANGED result
          ELSE Go(t, "claim", cursor[t] + 1) /\ UNCHANGED <<state, mine, result>>
  /\ UNCHANGED <<text, call, calls>>

WriteText(t) ==
  /\ place[t] = "write"
  /\ text' = [text EXCEPT ![mine[t]] = call[t].id]
  /\ Go(t, "live", mine[t])
  /\ UNCHANGED <<state, call, mine, result, calls>>

GoLive(t) ==
  /\ place[t] = "live"
  /\ state' = [state EXCEPT ![mine[t]] = "live"]
  /\ Go(t, "lower", 1)
  /\ UNCHANGED <<text, call, mine, result, calls>>

\* A mutant: a lower claim is taken for another device's and passed over.
LowerStateNoWait(t) ==
  /\ place[t] = "lower"
  /\ IF cursor[t] = mine[t]
     THEN Return(t, mine[t])
     ELSE /\ IF state[cursor[t]] = "live"
             THEN Go(t, "lowerText", cursor[t])
             ELSE Go(t, "lower", cursor[t] + 1)
          /\ UNCHANGED result
  /\ UNCHANGED <<registryVars, call, mine, calls>>

\* A lower claim is waited out; past the last lower record the claim stands.
LowerState(t) ==
  /\ place[t] = "lower"
  /\ IF cursor[t] = mine[t]
     THEN Return(t, mine[t])
     ELSE /\ state[cursor[t]] # "claimed"
          /\ IF state[cursor[t]] = "live"
             THEN Go(t, "lowerText", cursor[t])
             ELSE Go(t, "lower", cursor[t] + 1)
          /\ UNCHANGED result
  /\ UNCHANGED <<registryVars, call, mine, calls>>

\* The same id lower down: the claim is given back.
LowerText(t) ==
  /\ place[t] = "lowerText"
  /\ IF text[cursor[t]] = call[t].id
     THEN state' = [state EXCEPT ![mine[t]] = "free"] /\ Return(t, cursor[t])
     ELSE Go(t, "lower", cursor[t] + 1) /\ UNCHANGED <<state, result>>
  /\ UNCHANGED <<text, call, mine, calls>>

find(t) == FindState(t) \/ FindText(t) \/ FindAgain(t)
add(t) == Claim(t) \/ WriteText(t) \/ GoLive(t) \/ LowerState(t) \/ LowerText(t)
Step(t) == find(t) \/ add(t) \/ remove(t)

RegistryNext == \E t \in Threads : Begin(t) \/ Step(t)

-----------------------------------------------------------------------------
(* The SDL thread                                                          *)

CONSTANTS Pads,          \* plugs
          Joysticks,     \* the plugs SDL has no mapping for
          Saved,         \* the plugs with dead zones of the user's
          MaxPads,       \* kMaxPads, and kMaxDevices
          MaxInputs,     \* bound: input events
          MaxEdits       \* bound: changes of the inputs the GUI sets

VARIABLES sdl,           \* SDL: the pads plugged and what each is at; its event queue
          pads,          \* pads_
          dirty,         \* dirty_
          loop,          \* where runLoop is
          processor,     \* the records: device, dead zone, latch
          wire,          \* history: what was last forwarded for a plug
          inputs, inputsBox, inputsDraft,
          gui,           \* devices_, devicesBox_, the devicesChanged queued, who was pushed
          mailbox,       \* mailboxes_: the plugs whose feedback is in it
          missed,        \* history: plugs that moved while hidden
          bounds         \* bounds: plugged so far, input events, edits

sdlVars == <<sdl, pads, dirty, loop, processor, wire, inputs, inputsBox, inputsDraft, gui,
             mailbox, missed, bounds>>

Slots == 1 .. MaxPads
Nobody == [none |-> TRUE]
Free == [kind |-> "Free"]
None == {}          \* an empty optional, LatestValue or latch
Only(box) == CHOOSE x \in box : TRUE

Unused == [device |-> Nobody, flat |-> 0, latch |-> None, touch |-> FALSE]

SdlInit ==
  /\ sdl = [plugged |-> {}, at |-> [p \in Pads |-> 0], charge |-> [p \in Pads |-> 1],
            events |-> <<>>]
  /\ pads = [s \in Slots |-> Free]
  /\ dirty = {}
  /\ loop = "adopt"
  /\ processor = [i \in Slots |-> Unused]
  /\ wire = [p \in Pads |-> None]
  /\ inputs = [suppressed |-> {}, remap |-> FALSE]
  /\ inputsBox = None
  /\ inputsDraft = inputs
  /\ gui = [devices |-> {}, box |-> None, signal |-> FALSE, pushed |-> {}]
  /\ mailbox = [i \in Slots |-> {}]
  /\ missed = {}
  /\ bounds = [plugged |-> {}, inputs |-> 0, edits |-> 0]

-----------------------------------------------------------------------------
(* SDL and the world                                                       *)

Raise(e) == [sdl EXCEPT !.events = Append(@, e)]

plug(p) ==
  /\ p \notin bounds.plugged
  /\ bounds' = [bounds EXCEPT !.plugged = @ \cup {p}]
  /\ sdl' = [Raise([kind |-> "added", pad |-> p]) EXCEPT !.plugged = @ \cup {p}]
  /\ UNCHANGED <<pads, dirty, loop, processor, wire, inputs, inputsBox, inputsDraft, gui,
                 mailbox, missed>>

unplug(p) ==
  /\ p \in sdl.plugged
  /\ sdl' = [Raise([kind |-> "removed", pad |-> p]) EXCEPT !.plugged = @ \ {p}]
  /\ UNCHANGED <<pads, dirty, loop, processor, wire, inputs, inputsBox, inputsDraft, gui,
                 mailbox, missed, bounds>>

\* The pad moves, is touched, or its charge falls.
move(p) ==
  /\ p \in sdl.plugged /\ bounds.inputs < MaxInputs
  /\ bounds' = [bounds EXCEPT !.inputs = @ + 1]
  /\ \/ \E v \in 0 .. 2 \ {sdl.at[p]} :
          sdl' = [Raise([kind |-> "moved", pad |-> p, to |-> v]) EXCEPT !.at[p] = v]
     \/ p \notin Joysticks /\ sdl' = Raise([kind |-> "touched", pad |-> p])
     \/ sdl.charge[p] = 1 /\ sdl' = [sdl EXCEPT !.charge[p] = 0]
  /\ UNCHANGED <<pads, dirty, loop, processor, wire, inputs, inputsBox, inputsDraft, gui,
                 mailbox, missed>>

-----------------------------------------------------------------------------
(* The processor                                                           *)

indexOf(p) == CHOOSE i \in Slots : processor[i].device = p
known(p) == \E i \in Slots : processor[i].device = p
room == \E i \in Slots : processor[i].device = Nobody

\* add: the index the device has, else the first free one; its latch starts over.
added(proc, p) ==
  IF \E i \in Slots : proc[i].device = p THEN proc
  ELSE IF \E i \in Slots : proc[i].device = Nobody
  THEN [proc EXCEPT ![Min({i \in Slots : proc[i].device = Nobody})]
                      = [Unused EXCEPT !.device = p]]
  ELSE proc

\* remove: the record is free, its dead zones and its latch gone.
removed(proc, p) == [i \in Slots |-> IF proc[i].device = p THEN Unused ELSE proc[i]]

\* setDeadzones: by id, so the record is made if it is not there.
setDeadzones(proc, p, flat) ==
  [i \in Slots |-> LET record == added(proc, p)[i] IN
                   IF record.device = p THEN [record EXCEPT !.flat = flat] ELSE record]

applyDeadzones(v, flat) == IF v <= flat THEN 0 ELSE v

\* publish: forwarded only when it differs, after the dead zones, from the last forwarded.
\* What the record's latch is after it, and what the wire had last.
published(record, v) == [record EXCEPT !.latch = {applyDeadzones(v, record.flat)}]

-----------------------------------------------------------------------------
(* The SDL thread                                                          *)

Open == {pads[s].pad : s \in {s \in Slots : pads[s].kind # "Free"}}
slotOf(p) == CHOOSE s \in Slots : pads[s].kind # "Free" /\ pads[s].pad = p

Listed(table) ==
  {[pad |-> table[s].pad, charge |-> table[s].charge] :
     s \in {s \in Slots : table[s].kind # "Free"}}

\* publishDevices: the newest list replaces one not taken yet, and the GUI is told.
publishDevices(table) == gui' = [gui EXCEPT !.box = {Listed(table)}, !.signal = TRUE]

applyInputs(pad, in) == [pad EXCEPT !.suppressed = pad.pad \in in.suppressed,
                                    !.remap = in.remap /\ pad.kind = "Joystick"]

adoptInputs ==
  /\ loop = "adopt"
  /\ loop' = "events"
  /\ IF inputsBox = None THEN UNCHANGED <<inputs, inputsBox, pads>>
     ELSE /\ inputs' = Only(inputsBox) /\ inputsBox' = None
          /\ pads' = [s \in Slots |-> IF pads[s].kind = "Free" THEN Free
                                      ELSE applyInputs(pads[s], inputs')]
  /\ UNCHANGED <<sdl, dirty, processor, wire, inputsDraft, gui, mailbox, missed, bounds>>

Event == Head(sdl.events)
Took == sdl' = [sdl EXCEPT !.events = Tail(@)]

\* ControllerShadow: seeded from the hardware when the pad opens, then kept by events.
seed(p) == sdl.at[p]
shadowed(pad, e) == [pad EXCEPT !.shadow = e.to]

\* claimPad and registerPad: a slot, an index, no feedback of its last holder, the default
\* dead zones, and the inputs in force.  A mutant keeps the feedback.
registered(p, proc) ==
  applyInputs([kind |-> IF p \in Joysticks THEN "Joystick" ELSE "Controller", pad |-> p,
               index |-> CHOOSE i \in Slots : proc[i].device = p, suppressed |-> FALSE,
               remap |-> FALSE, shadow |-> seed(p), charge |-> 1], inputs)

clearedNever(i) == mailbox
cleared(i) == [mailbox EXCEPT ![i] = {}]

\* onControllerAdded, onJoystickAdded: a pad that is gone by now does not open, and one there
\* is no slot for is closed.  It is listed, and its first report is a full read.
onAdded ==
  /\ loop = "events" /\ sdl.events # <<>> /\ Event.kind = "added" /\ Took
  /\ LET p == Event.pad
         free == {s \in Slots : pads[s].kind = "Free"} IN
       IF p \in sdl.plugged /\ free # {} /\ (known(p) \/ room)
       THEN \E proc \in {setDeadzones(processor, p, 1)} : \E pad \in {registered(p, proc)} :
              /\ pads' = [pads EXCEPT ![Min(free)] = pad]
              /\ mailbox' = cleared(pad.index)
              /\ publishDevices(pads')
              /\ IF pad.suppressed
                 THEN processor' = proc /\ missed' = missed \cup {p} /\ UNCHANGED wire
                 ELSE /\ processor' = [proc EXCEPT ![pad.index] = published(@, pad.shadow)]
                      /\ wire' = [wire EXCEPT ![p] = processor'[pad.index].latch]
                      /\ UNCHANGED missed
       ELSE UNCHANGED <<pads, processor, gui, mailbox, wire, missed>>
  /\ UNCHANGED <<dirty, loop, inputs, inputsBox, inputsDraft, bounds>>

\* onControllerRemoved, onJoystickRemoved, releasePad.
onRemoved ==
  /\ loop = "events" /\ sdl.events # <<>> /\ Event.kind = "removed" /\ Took
  /\ IF Event.pad \in Open
     THEN /\ pads' = [pads EXCEPT ![slotOf(Event.pad)] = Free]
          /\ processor' = removed(processor, Event.pad)
          /\ publishDevices(pads')
     ELSE UNCHANGED <<pads, processor, gui>>
  /\ UNCHANGED <<dirty, loop, wire, inputs, inputsBox, inputsDraft, mailbox, missed, bounds>>

\* ControllerShadow::apply and markDirty; a raw joystick is read again when it is rebuilt.
onMoved ==
  /\ loop = "events" /\ sdl.events # <<>> /\ Event.kind = "moved" /\ Took
  /\ IF Event.pad \in Open
     THEN /\ pads' = [pads EXCEPT ![slotOf(Event.pad)] = shadowed(@, Event)]
          /\ dirty' = dirty \cup {slotOf(Event.pad)}
     ELSE UNCHANGED <<pads, dirty>>
  /\ UNCHANGED <<loop, processor, wire, inputs, inputsBox, inputsDraft, gui, mailbox, missed,
                 bounds>>

\* handleTouchpadEvent, handleSensorEvent: forwarded as they come, unless the pad is hidden.
onTouched ==
  /\ loop = "events" /\ sdl.events # <<>> /\ Event.kind = "touched" /\ Took
  /\ processor' = IF Event.pad \in Open /\ ~pads[slotOf(Event.pad)].suppressed
                  THEN [processor EXCEPT ![pads[slotOf(Event.pad)].index].touch = TRUE]
                  ELSE processor
  /\ UNCHANGED <<pads, dirty, loop, wire, inputs, inputsBox, inputsDraft, gui, mailbox, missed,
                 bounds>>

\* A mutant: only the lowest of the marked slots is rebuilt.
MarkedFirst == IF dirty = {} THEN {} ELSE {s \in {Min(dirty)} : pads[s].kind # "Free"}
Marked == {s \in dirty : pads[s].kind # "Free"}

\* What rebuildState reads: a game controller's shadow, a raw joystick itself.
stateOf(pad) == IF pad.kind = "Joystick" THEN sdl.at[pad.pad] ELSE pad.shadow

\* rebuildDirty, when the queue has run dry: each marked slot once; a hidden pad publishes
\* nothing.
rebuildDirty ==
  /\ loop = "events" /\ sdl.events = <<>>
  /\ loop' = "mail" /\ dirty' = {}
  /\ LET shown == {s \in Marked : ~pads[s].suppressed}
         of(i) == CHOOSE s \in shown : pads[s].index = i IN
       /\ processor' = [i \in Slots |-> IF \E s \in shown : pads[s].index = i
                                        THEN published(processor[i], stateOf(pads[of(i)]))
                                        ELSE processor[i]]
       /\ wire' = [p \in Pads |-> IF \E s \in shown : pads[s].pad = p
                                  THEN processor'[pads[slotOf(p)].index].latch ELSE wire[p]]
       /\ missed' = (missed \cup {pads[s].pad : s \in Marked}) \ {pads[s].pad : s \in shown}
  /\ UNCHANGED <<sdl, pads, inputs, inputsBox, inputsDraft, gui, mailbox, bounds>>

\* drainMailboxes: a game controller takes what is in its index's; then pollBatteries, whose
\* moved values make one new list.
drainMailboxes ==
  /\ loop = "mail"
  /\ loop' = "adopt"
  /\ mailbox' = [i \in Slots |->
       IF \E s \in Slots : pads[s].kind = "Controller" /\ pads[s].index = i THEN {}
       ELSE mailbox[i]]
  /\ pads' = [s \in Slots |-> IF pads[s].kind = "Free" THEN Free
                              ELSE [pads[s] EXCEPT !.charge = sdl.charge[pads[s].pad]]]
  /\ IF pads' # pads THEN publishDevices(pads') ELSE UNCHANGED gui
  /\ UNCHANGED <<sdl, dirty, processor, wire, inputs, inputsBox, inputsDraft, missed, bounds>>

-----------------------------------------------------------------------------
(* The GUI thread, and the threads that bring feedback                     *)

\* onBridgeDevicesChanged: dead zones of the user's for a device not seen before, and the
\* remaps again.  The list is what devices() took last.
onBridgeDevicesChanged ==
  /\ gui.signal
  /\ LET devices == IF gui.box = None THEN gui.devices ELSE Only(gui.box)
         present == {d.pad : d \in devices} IN
       /\ gui' = [devices |-> devices, box |-> None, signal |-> FALSE, pushed |-> present]
       /\ processor' = LET push[ps \in SUBSET (present \ gui.pushed)] ==
                             IF ps \cap Saved = {} THEN processor
                             ELSE LET p == CHOOSE p \in ps \cap Saved : TRUE IN
                                    setDeadzones(push[ps \ {p}], p, 0)
                       IN push[present \ gui.pushed]
  /\ inputsDraft' = [inputsDraft EXCEPT !.remap = TRUE]
  /\ inputsBox' = {inputsDraft'}
  /\ UNCHANGED <<sdl, pads, dirty, loop, wire, inputs, mailbox, missed, bounds>>

\* setSuppressedDeviceIds, clearJoystickRemap: the draft, published whole.
setInputs ==
  /\ bounds.edits < MaxEdits
  /\ bounds' = [bounds EXCEPT !.edits = @ + 1]
  /\ \/ \E ids \in SUBSET {d.pad : d \in gui.devices} :
          inputsDraft' = [inputsDraft EXCEPT !.suppressed = ids]
     \/ inputsDraft' = [inputsDraft EXCEPT !.remap = FALSE]
  /\ inputsDraft' # inputsDraft
  /\ inputsBox' = {inputsDraft'}
  /\ UNCHANGED <<sdl, pads, dirty, loop, processor, wire, inputs, gui, mailbox, missed>>

\* postRumble and the others, by the index the device has.
post(p) ==
  /\ known(p) /\ p \in Open /\ bounds.inputs < MaxInputs
  /\ bounds' = [bounds EXCEPT !.inputs = @ + 1]
  /\ mailbox' = [mailbox EXCEPT ![indexOf(p)] = @ \cup {p}]
  /\ UNCHANGED <<sdl, pads, dirty, loop, processor, wire, inputs, inputsBox, inputsDraft, gui,
                 missed>>

-----------------------------------------------------------------------------
SdlThread == adoptInputs \/ onAdded \/ onRemoved \/ onMoved \/ onTouched
             \/ rebuildDirty \/ drainMailboxes

SdlNext ==
  \/ SdlThread \/ onBridgeDevicesChanged \/ setInputs
  \/ \E p \in Pads : plug(p) \/ unplug(p) \/ move(p) \/ post(p)

SdlSpec == SdlInit /\ [][SdlNext]_sdlVars /\ WF_sdlVars(SdlThread) /\ WF_sdlVars(onBridgeDevicesChanged)

-----------------------------------------------------------------------------
(* Properties                                                              *)

Quiet == \A t \in Threads : place[t] = "idle"

\* Two threads introducing one id end on one index (the comment on add, "both end
\* on the lower index"): when no call is under way an id has one
\* record at most, and every index handed out for it is that record.
OneRecordPerId ==
  Quiet =>
    /\ \A i, j \in Records :
         state[i] = "live" /\ state[j] = "live" /\ text[i] = text[j] => i = j
    /\ \A t \in Threads, id \in Ids :
         result[t][id] # NoIndex =>
           state[result[t][id]] = "live" /\ text[result[t][id]] = id

\* Feedback left for a device that is gone never moves the pad that took over its index.
FeedbackIsItsOwn ==
  \A s \in Slots : pads[s].kind = "Controller" =>
    mailbox[pads[s].index] \subseteq {pads[s].pad}

\* Once nothing more happens, every thread has the last word: the GUI lists the pads that are
\* open, with their charge; the SDL thread has the inputs last set; and each pad that is not
\* hidden, and last moved when it was not, has its state forwarded.
Settled ==
  /\ gui.devices = Listed(pads) /\ Open = sdl.plugged
  /\ inputs = inputsDraft
  /\ \A s \in Slots : pads[s].kind # "Free" =>
       LET p == pads[s].pad IN
         /\ pads[s].suppressed = (p \in inputsDraft.suppressed)
         /\ ~pads[s].suppressed /\ p \notin missed =>
              wire[p] \in {{applyDeadzones(sdl.at[p], flat)} : flat \in {0, 1}}
         /\ processor[pads[s].index].flat = IF p \in Saved THEN 0 ELSE 1

BridgeSettles == <>[]Settled

=============================================================================
