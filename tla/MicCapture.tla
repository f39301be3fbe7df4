------------------------------- MODULE MicCapture -------------------------------
(***************************************************************************)
(* The microphone of a pad: the facts that make a slot eligible, the mute, *)
(* the app-wide indicator, and the capture engine the main thread          *)
(* converges onto them, against the audio thread that windows, encodes and *)
(* sends.  (AppModel's audio half, MicCaptureEngine, AudioEnginePolicy.h,  *)
(* MicIndicatorState.h, and SdlAudioGateway's capture side)                *)
(*                                                                         *)
(* A chunk of samples is how many whole windows it completes; the          *)
(* windower's carried remainder is inside that choice.                     *)
(***************************************************************************)
EXTENDS Naturals, FiniteSets

CONSTANTS MicSlots,        \* slots
          CaptureDevices,  \* capture endpoints
          NoCapture,       \* none of them
          MaxFacts,        \* bound: changes of the facts
          MaxWindows,      \* bound: windows a slot's captures take
          MaxChunk         \* bound: windows one chunk completes

ASSUME MicAssumption == IsFiniteSet(MicSlots)

VARIABLES facts,       \* AudioSlotFacts of a slot, its route as the endpoint it names
          entries,     \* MicCaptureEngine::entries_, a slot's Entry and Session
          nextSeq,     \* nextSeqBySlot_
          audio,       \* the audio thread of a slot's capture: windows left of its chunk, step
          main,        \* the main thread: idle, or where it is in a reconcile
          indicator,   \* micIndicator_
          armed,       \* armedMicSlotIds_ and capturingMicSlots_
          sent,        \* history: the seqs sent for a slot, newest first
          changes      \* bound: changes so far

micVars == <<facts, entries, nextSeq, audio, main, indicator, armed, sent, changes>>

closed == [device |-> NoCapture, enabled |-> FALSE, seq |-> 0, tail |-> 0]
quiet == [windows |-> 0, pc |-> "idle"]
resting == [pc |-> "idle", targets |-> {}, orders |-> {}, mute |-> FALSE]

MicInit ==
  /\ facts = [s \in MicSlots |-> [streaming |-> FALSE, toggleOn |-> FALSE, route |-> NoCapture,
                               hostCarries |-> FALSE, muted |-> FALSE]]
  /\ entries = [s \in MicSlots |-> closed]
  /\ nextSeq = [s \in MicSlots |-> 0]
  /\ audio = [s \in MicSlots |-> quiet]
  /\ main = resting
  /\ indicator = "Hidden"
  /\ armed = [slots |-> {}, capturing |-> 0]
  /\ sent = [s \in MicSlots |-> <<0, 0>>]
  /\ changes = 0

-----------------------------------------------------------------------------
(* The facts and their policy                                              *)

micArmed(f) == f.streaming /\ f.toggleOn /\ f.route # NoCapture /\ f.hostCarries
micCaptureEligible(f) == micArmed(f) /\ ~f.muted

micIndicatorFor(armedSlots, capturing) ==
  IF armedSlots = {} THEN "Hidden" ELSE IF capturing > 0 THEN "Live" ELSE "Muted"

\* reconcileAudioEngines: the targets of the facts, then the engine's steps below.
reconcileAudioEngines(f, orders, mute) ==
  main' = [pc |-> "close", targets |-> {s \in MicSlots : micCaptureEligible(f[s])},
           orders |-> orders, mute |-> mute]

\* A session, a toggle, a route or a host verdict changed: rebuild reconciles.
factsChange(s) ==
  /\ main.pc = "idle" /\ changes < MaxFacts
  /\ \E f \in {[facts[s] EXCEPT !.streaming = ~@], [facts[s] EXCEPT !.toggleOn = ~@],
               [facts[s] EXCEPT !.hostCarries = ~@]}
              \cup {[facts[s] EXCEPT !.route = d] : d \in CaptureDevices \cup {NoCapture}} :
       /\ f # facts[s]
       /\ facts' = [facts EXCEPT ![s] = f]
       /\ reconcileAudioEngines(facts', {}, FALSE)
  /\ changes' = changes + 1
  /\ UNCHANGED <<entries, nextSeq, audio, indicator, armed, sent>>

\* A slot bound, streaming, routed and welcome at once: the usual way up.
comesUp(s) ==
  /\ main.pc = "idle" /\ changes < MaxFacts
  /\ \E d \in CaptureDevices :
       facts' = [facts EXCEPT ![s] = [streaming |-> TRUE, toggleOn |-> TRUE, route |-> d,
                                      hostCarries |-> TRUE, muted |-> @.muted]]
  /\ facts' # facts
  /\ reconcileAudioEngines(facts', {}, FALSE)
  /\ changes' = changes + 1
  /\ UNCHANGED <<entries, nextSeq, audio, indicator, armed, sent>>

\* micMuteStore_.retainOnly: a departed pad's mute does not outlive it.
departs(s) ==
  /\ main.pc = "idle" /\ changes < MaxFacts
  /\ facts' = [facts EXCEPT ![s].streaming = FALSE, ![s].route = NoCapture, ![s].muted = FALSE]
  /\ facts' # facts
  /\ reconcileAudioEngines(facts', {}, FALSE)
  /\ changes' = changes + 1
  /\ UNCHANGED <<entries, nextSeq, audio, indicator, armed, sent>>

setSlotMicMuted(s, muted, orders) ==
  /\ facts' = [facts EXCEPT ![s].muted = muted]
  /\ reconcileAudioEngines(facts', orders, muted)

\* The pad's button, or its card.
toggleSlotMicMute(s) ==
  /\ main.pc = "idle" /\ changes < MaxFacts
  /\ setSlotMicMuted(s, ~facts[s].muted, {})
  /\ changes' = changes + 1
  /\ UNCHANGED <<entries, nextSeq, audio, indicator, armed, sent>>

\* One value for every armed slot, decided by the fold as it stands before the first write;
\* each of the others follows when the reconcile of the one before is through.
toggleAllMics ==
  /\ main.pc = "idle" /\ changes < MaxFacts
  /\ armed.slots # {}
  /\ \E s \in armed.slots :
       setSlotMicMuted(s, armed.capturing > 0, armed.slots \ {s})
  /\ changes' = changes + 1
  /\ UNCHANGED <<entries, nextSeq, audio, indicator, armed, sent>>

-----------------------------------------------------------------------------
(* MicCaptureEngine::reconcile, on the main thread                         *)

hasDeparted(s) ==
  entries[s].device # NoCapture
    /\ (s \notin main.targets \/ facts[s].route # entries[s].device)

\* close: the flag first.
disable(s) ==
  /\ main.pc = "close" /\ hasDeparted(s) /\ entries[s].enabled
  /\ entries' = [entries EXCEPT ![s].enabled = FALSE]
  /\ main' = [main EXCEPT !.pc = "join"]
  /\ UNCHANGED <<facts, nextSeq, audio, indicator, armed, sent, changes>>

\* closeCapture, for the capture whose flag fell, waits out a callback in flight; then the count
\* is at rest and is kept.
closeCapture(s) ==
  /\ main.pc = "join" /\ hasDeparted(s) /\ ~entries[s].enabled /\ audio[s] = quiet
  /\ nextSeq' = [nextSeq EXCEPT ![s] = entries[s].seq]
  /\ entries' = [entries EXCEPT ![s] = closed]
  /\ main' = [main EXCEPT !.pc = "close"]
  /\ UNCHANGED <<facts, audio, indicator, armed, sent, changes>>

\* openMissing: any of them may fail, for want of a codec, of the device or of a sender.
openMissing ==
  /\ main.pc = "close" /\ \A s \in MicSlots : ~hasDeparted(s)
  /\ \E opened \in SUBSET {s \in main.targets : entries[s].device = NoCapture} :
       entries' = [s \in MicSlots |->
         IF s \in opened
         THEN [device |-> facts[s].route, enabled |-> TRUE, seq |-> nextSeq[s], tail |-> 0]
         ELSE entries[s]]
  /\ main' = [main EXCEPT !.pc = "fold"]
  /\ UNCHANGED <<facts, nextSeq, audio, indicator, armed, sent, changes>>

\* The fold behind the indicator, and the next slot of a toggle over all of them.
fold ==
  /\ main.pc = "fold"
  /\ LET slots == {s \in MicSlots : micArmed(facts[s])}
         capturing == Cardinality({s \in slots : ~facts[s].muted}) IN
       /\ armed' = [slots |-> slots, capturing |-> capturing]
       /\ indicator' = micIndicatorFor(slots, capturing)
  /\ IF main.orders = {} THEN main' = resting /\ UNCHANGED facts
     ELSE \E s \in main.orders : setSlotMicMuted(s, main.mute, main.orders \ {s})
  /\ UNCHANGED <<entries, nextSeq, audio, sent, changes>>

\* onAudioDevicesChanged: an endpoint went, and its captures close before the routes are
\* resolved again without it.
devicesChanged(d) ==
  /\ main.pc = "idle" /\ changes < MaxFacts
  /\ facts' = [s \in MicSlots |-> IF facts[s].route = d THEN [facts[s] EXCEPT !.route = NoCapture]
                               ELSE facts[s]]
  /\ facts' # facts
  /\ reconcileAudioEngines(facts', {}, FALSE)
  /\ changes' = changes + 1
  /\ UNCHANGED <<entries, nextSeq, audio, indicator, armed, sent>>

-----------------------------------------------------------------------------
(* The audio thread                                                        *)

\* captureCallback, WindowPublisher: a chunk, and the check per chunk.
chunk(s) ==
  /\ entries[s].device # NoCapture /\ audio[s] = quiet /\ entries[s].enabled
  /\ \E w \in 1 .. MaxChunk :
       /\ entries[s].seq + w <= MaxWindows
       /\ audio' = [audio EXCEPT ![s] = [windows |-> w, pc |-> "check"]]
  /\ UNCHANGED <<facts, entries, nextSeq, main, indicator, armed, sent, changes>>

Step(s, windows, pc) ==
  audio' = [audio EXCEPT ![s] = IF windows = 0 THEN quiet ELSE [windows |-> windows, pc |-> pc]]

\* A mutant: the flag is checked per chunk only.
checkWindowNever(s) ==
  /\ audio[s].pc = "check"
  /\ Step(s, audio[s].windows, "send")
  /\ UNCHANGED <<facts, entries, nextSeq, main, indicator, armed, sent, changes>>

\* sendWindow's check, per window.
checkWindow(s) ==
  /\ audio[s].pc = "check"
  /\ IF entries[s].enabled THEN Step(s, audio[s].windows, "send")
     ELSE Step(s, audio[s].windows - 1, "check")
  /\ UNCHANGED <<facts, entries, nextSeq, main, indicator, armed, sent, changes>>

\* The seq is spent whether or not the window encoded.
sendWindow(s) ==
  /\ audio[s].pc = "send"
  /\ \E encoded \in BOOLEAN :
       /\ sent' = IF encoded THEN [sent EXCEPT ![s] = <<entries[s].seq + 1, @[1]>>] ELSE sent
       /\ entries' = [entries EXCEPT ![s].seq = @ + 1,
                        ![s].tail = IF encoded /\ ~entries[s].enabled THEN @ + 1 ELSE @]
  /\ Step(s, audio[s].windows - 1, "check")
  /\ UNCHANGED <<facts, nextSeq, main, indicator, armed, changes>>

-----------------------------------------------------------------------------
MicNext ==
  \/ openMissing \/ fold \/ toggleAllMics
  \/ \E s \in MicSlots : factsChange(s) \/ comesUp(s) \/ departs(s) \/ toggleSlotMicMute(s)
                      \/ disable(s) \/ closeCapture(s) \/ chunk(s) \/ checkWindow(s)
                      \/ sendWindow(s)
  \/ \E d \in CaptureDevices : devicesChanged(d)

MicSpec == MicInit /\ [][MicNext]_micVars

-----------------------------------------------------------------------------
(* Properties                                                              *)

\* A microphone that is not eligible is not captured: once the main thread is through, a
\* capture is open only for a slot that streams, is switched on, routed to that endpoint,
\* welcome and not muted; the indicator then says Live; and a close that raced a callback
\* let at most the one window through that was past its check.
MutedIsSilent ==
  /\ main.pc = "idle" =>
       \A s \in MicSlots : entries[s].device # NoCapture =>
         /\ micCaptureEligible(facts[s]) /\ facts[s].route = entries[s].device
         /\ indicator = "Live"
  /\ \A s \in MicSlots : entries[s].tail <= 1
  /\ \A s \in MicSlots : audio[s] # quiet => entries[s].device # NoCapture

\* The seq of a slot's windows only goes up, over every capture it had: the satellite's
\* window would drop a restarted count as late.
SeqOnlyGrows == \A s \in MicSlots : sent[s] = <<0, 0>> \/ sent[s][1] > sent[s][2]

\* Both: what a microphone sends is what its user means it to, told as it is, and in order.
MicIsHonest == MutedIsSilent /\ SeqOnlyGrows

=============================================================================
