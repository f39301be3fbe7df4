------------------------------- MODULE Playout --------------------------------
(***************************************************************************)
(* The speaker's playout, as two machines that share no state: the queue   *)
(* in front of the playout thread, and a voice behind it.                  *)
(*                                                                         *)
(* The hand-off of audio frames from the receive threads to the playout    *)
(* thread: MpscQueue, a bounded lock-free queue whose cells carry a        *)
(* sequence, and WorkerWake, on which the playout thread sleeps.  Each     *)
(* atomic access is a step.  (MpscQueue.h, WorkerWake.h, and the deliver,  *)
(* workerLoop and destructor of SpeakerPlayoutEngine)                      *)
(*                                                                         *)
(* Positions are 64 bits and count up by one a push: they do not wrap.     *)
(*                                                                         *)
(* A voice of the speaker: the device it is open on, the reorder window    *)
(* its frames pass through and the device queue they end in.               *)
(* (SpeakerPlayoutEngine under its mutex, AudioJitter.h,                   *)
(* AudioEnginePolicy.h and SdlAudioGateway's playback side)                *)
(*                                                                         *)
(* A seq is a number modulo SeqSpace, 2^16 in the code; the rules use only *)
(* the signed distance.  A frame is its seq.                               *)
(***************************************************************************)
EXTENDS Integers, Sequences, FiniteSets

CONSTANTS Producers,  \* receive threads
          Capacity,   \* MpscQueue's Capacity
          MaxFrames   \* bound: frames each receive thread delivers

ASSUME CapacityIsAPowerOfTwo == Capacity \in {2 ^ k : k \in 1 .. 16}
ASSUME FramesAreCounted == MaxFrames \in Nat

VARIABLES sequence, item,     \* the cells
          enqueuePos, dequeuePos, dropped,
          producer,           \* a receive thread in push: pc, pos, how many frames so far
          worker, copied,     \* the playout thread's pc; the item it popped
          sleeping, wake,     \* WorkerWake: the flag and the semaphore
          stopping,           \* stopping_
          refused, played     \* history: frames dropped; frames played, in order

queueVars == <<sequence, item, enqueuePos, dequeuePos, dropped, producer, worker, copied, sleeping,
               wake, stopping, refused, played>>

Cells == 0 .. Capacity - 1
cell(pos) == pos % Capacity
Frame(p) == <<p, producer[p].n>>

QueueInit ==
  /\ sequence = [i \in Cells |-> i]
  /\ item = [i \in Cells |-> <<>>]
  /\ enqueuePos = 0 /\ dequeuePos = 0 /\ dropped = 0
  /\ producer = [p \in Producers |-> [pc |-> "idle", pos |-> 0, n |-> 0]]
  /\ worker = "announce" /\ copied = <<>>
  /\ sleeping = FALSE /\ wake = 0
  /\ stopping = FALSE
  /\ refused = {} /\ played = <<>>

-----------------------------------------------------------------------------
(* push                                                                    *)

At(p, pc) == producer[p].pc = pc
To(p, pc) == producer' = [producer EXCEPT ![p].pc = pc]
Go(p, pc, pos) == producer' = [producer EXCEPT ![p] = [pc |-> pc, pos |-> pos, n |-> @.n]]

deliver(p) ==
  /\ At(p, "idle") /\ producer[p].n < MaxFrames /\ ~stopping
  /\ producer' = [producer EXCEPT ![p] = [pc |-> "look", pos |-> enqueuePos, n |-> @.n + 1]]
  /\ UNCHANGED <<sequence, item, enqueuePos, dequeuePos, dropped, worker, sleeping, wake,
                 stopping, refused, played, copied>>

\* The cell's sequence says whose turn it is.
look(p) ==
  /\ At(p, "look")
  /\ LET pos == producer[p].pos
         seen == sequence[cell(pos)] IN
       \/ seen = pos /\ To(p, "claim") /\ UNCHANGED <<dropped, refused>>
       \/ /\ seen < pos /\ To(p, "idle")
          /\ dropped' = dropped + 1 /\ refused' = refused \cup {Frame(p)}
       \/ seen > pos /\ Go(p, "look", enqueuePos) /\ UNCHANGED <<dropped, refused>>
  /\ UNCHANGED <<sequence, item, enqueuePos, dequeuePos, worker, sleeping, wake, stopping,
                 played, copied>>

\* A mutant: the position is stored, not compared and swapped.
claimStore(p) ==
  /\ At(p, "claim")
  /\ enqueuePos' = producer[p].pos + 1 /\ To(p, "fill")
  /\ UNCHANGED <<sequence, item, dequeuePos, dropped, worker, sleeping, wake, stopping,
                 refused, played, copied>>

\* compare_exchange_weak: may fail for no reason; a failure loads the position.
claim(p) ==
  /\ At(p, "claim")
  /\ \/ enqueuePos = producer[p].pos /\ enqueuePos' = enqueuePos + 1 /\ To(p, "fill")
     \/ Go(p, "look", enqueuePos) /\ UNCHANGED enqueuePos
  /\ UNCHANGED <<sequence, item, dequeuePos, dropped, worker, sleeping, wake, stopping,
                 refused, played, copied>>

fill(p) ==
  /\ At(p, "fill")
  /\ item' = [item EXCEPT ![cell(producer[p].pos)] = Frame(p)]
  /\ To(p, "publish")
  /\ UNCHANGED <<sequence, enqueuePos, dequeuePos, dropped, worker, sleeping, wake, stopping,
                 refused, played, copied>>

publish(p) ==
  /\ At(p, "publish")
  /\ sequence' = [sequence EXCEPT ![cell(producer[p].pos)] = producer[p].pos + 1]
  /\ To(p, "notify")
  /\ UNCHANGED <<item, enqueuePos, dequeuePos, dropped, worker, sleeping, wake, stopping,
                 refused, played, copied>>

\* notify: a load, then an exchange that only one notifier wins.
notify(p) ==
  /\ \/ At(p, "notify") /\ To(p, IF sleeping THEN "exchange" ELSE "idle")
        /\ UNCHANGED <<sleeping, wake>>
     \/ At(p, "exchange") /\ To(p, "idle")
        /\ sleeping' = FALSE /\ wake' = IF sleeping THEN wake + 1 ELSE wake
  /\ UNCHANGED <<sequence, item, enqueuePos, dequeuePos, dropped, worker, stopping, refused,
                 played, copied>>

-----------------------------------------------------------------------------
(* The playout thread                                                      *)

Worker(from, to) == worker = from /\ worker' = to

empty == sequence[cell(dequeuePos)] # dequeuePos + 1

\* A mutant: the work is checked for before the worker says it will sleep.
announceLate ==
  /\ \/ Worker("announce", IF stopping \/ ~empty THEN "pop" ELSE "say") /\ UNCHANGED sleeping
     \/ Worker("say", "acquire") /\ sleeping' = TRUE
  /\ UNCHANGED <<sequence, item, enqueuePos, dequeuePos, dropped, producer, wake, stopping,
                 refused, played, copied>>

announce ==
  /\ Worker("announce", "check") /\ sleeping' = TRUE
  /\ UNCHANGED <<sequence, item, enqueuePos, dequeuePos, dropped, producer, wake, stopping,
                 refused, played, copied>>

check ==
  /\ Worker("check", IF stopping \/ ~empty THEN "awake" ELSE "acquire")
  /\ UNCHANGED <<sequence, item, enqueuePos, dequeuePos, dropped, producer, sleeping, wake,
                 stopping, refused, played, copied>>

acquire ==
  /\ wake > 0 /\ wake' = wake - 1
  /\ Worker("acquire", "awake")
  /\ UNCHANGED <<sequence, item, enqueuePos, dequeuePos, dropped, producer, sleeping, stopping,
                 refused, played, copied>>

awake ==
  /\ Worker("awake", "pop") /\ sleeping' = FALSE
  /\ UNCHANGED <<sequence, item, enqueuePos, dequeuePos, dropped, producer, wake, stopping,
                 refused, played, copied>>

\* pop: the item is copied out before its cell is freed.
pop ==
  /\ IF empty THEN Worker("pop", "drained") /\ UNCHANGED copied
     ELSE Worker("pop", "free") /\ copied' = item[cell(dequeuePos)]
  /\ UNCHANGED <<sequence, item, enqueuePos, dequeuePos, dropped, producer, sleeping, wake,
                 stopping, refused, played>>

\* A mutant: the cell is freed first and the item copied after.
freeFirst ==
  /\ \/ Worker("free", "copy") /\ UNCHANGED played
        /\ sequence' = [sequence EXCEPT ![cell(dequeuePos)] = dequeuePos + Capacity]
     \/ Worker("copy", "advance") /\ played' = Append(played, item[cell(dequeuePos)])
        /\ UNCHANGED sequence
  /\ UNCHANGED <<item, enqueuePos, dequeuePos, dropped, producer, sleeping, wake, stopping,
                 refused, copied>>

free ==
  /\ Worker("free", "advance")
  /\ sequence' = [sequence EXCEPT ![cell(dequeuePos)] = dequeuePos + Capacity]
  /\ played' = Append(played, copied)
  /\ UNCHANGED <<item, enqueuePos, dequeuePos, dropped, producer, sleeping, wake, stopping,
                 refused, copied>>

advance ==
  /\ Worker("advance", "pop")
  /\ dequeuePos' = dequeuePos + 1
  /\ UNCHANGED <<sequence, item, enqueuePos, dropped, producer, sleeping, wake, stopping,
                 refused, played, copied>>

drained ==
  /\ Worker("drained", IF stopping /\ empty THEN "ended" ELSE "announce")
  /\ UNCHANGED <<sequence, item, enqueuePos, dequeuePos, dropped, producer, sleeping, wake,
                 stopping, refused, played, copied>>

\* The destructor: stopping_, then notify, once no receive thread delivers any more.
stop ==
  /\ ~stopping /\ \A p \in Producers : At(p, "idle")
  /\ stopping' = TRUE
  /\ sleeping' = FALSE /\ wake' = IF sleeping THEN wake + 1 ELSE wake
  /\ UNCHANGED <<sequence, item, enqueuePos, dequeuePos, dropped, producer, worker, refused,
                 played, copied>>

-----------------------------------------------------------------------------
Push(p) == look(p) \/ claim(p) \/ fill(p) \/ publish(p) \/ notify(p)
Work == announce \/ check \/ acquire \/ awake \/ pop \/ free \/ advance \/ drained

QueueNext == stop \/ Work \/ \E p \in Producers : deliver(p) \/ Push(p)

QueueSpec == QueueInit /\ [][QueueNext]_queueVars /\ WF_queueVars(Work) /\ WF_queueVars(stop)
        /\ \A p \in Producers : WF_queueVars(Push(p))

-----------------------------------------------------------------------------
(* Properties                                                              *)

Taken == dequeuePos + (IF worker = "advance" THEN 1 ELSE 0)

\* The places between the two positions, as the abstract queue has them.
Place(pos) ==
  LET mine == {p \in Producers : producer[p].pc \in {"fill", "publish"} /\ producer[p].pos = pos}
  IN IF mine # {} THEN [frame |-> Frame(CHOOSE p \in mine : TRUE), readable |-> FALSE]
     ELSE [frame |-> item[cell(pos)], readable |-> TRUE]

Fifo == INSTANCE FrameFifo
          WITH Frames <- Producers \X (1 .. MaxFrames),
               queue <- [i \in 1 .. enqueuePos - Taken |-> Place(Taken + i - 1)],
               Capacity <- Capacity

\* The queue of atomics is a bounded first-in first-out queue: no frame is lost,
\* doubled or torn, and a frame is refused only when every place is taken.
ImplementsFifo == Fifo!Spec

\* Every frame taken in has been played, and a thread asked to stop has ended.
Drained ==
  /\ \A i \in Cells : sequence[i] > i => \E k \in DOMAIN played : played[k] = item[i]
  /\ stopping => worker = "ended"

-----------------------------------------------------------------------------
CONSTANTS Devices,          \* playback endpoints
          NoDevice,
          SeqSpace,         \* 2^16
          LateRunRestart,   \* kPlayoutLateRunRestart
          Ceiling,          \* kPlayoutQueueCeilingFrames
          MaxOpens          \* bound: devices opened

Window == 2          \* AUDIO_JITTER_WINDOW_FRAMES
MaxConceal == 2      \* AUDIO_JITTER_MAX_CONCEAL_FRAMES
MaxEvents == Window * (MaxConceal + 1)
StartThreshold == 2  \* kPlayoutStartThresholdFrames
LaneEnd == 4         \* the haptic lane's pair ends at the fourth channel

VARIABLES voice,     \* the voice, or NoVoice
          gateway,   \* the open playback devices, by handle: endpoint, queued, running
          opens,     \* handles given out (and a bound on them)
          heard      \* history: what the last push emitted, after the seq emitted before it

playoutVars == <<voice, gateway, opens, heard>>

Seqs == 0 .. SeqSpace - 1
NoVoice == [handle |-> 0]

\* The signed distance from a to b: int16_t(b - a).
delta(a, b) ==
  LET d == (b - a) % SeqSpace IN IF d >= SeqSpace \div 2 THEN d - SeqSpace ELSE d

fresh == [primed |-> FALSE, next |-> 0, gaps |-> 0, held |-> {}]

VoiceInit == voice = NoVoice /\ gateway = <<>> /\ opens = 0 /\ heard = <<>>

-----------------------------------------------------------------------------
(* The reorder window                                                      *)

Packet(seq) == [kind |-> "Packet", seq |-> seq, fec |-> FALSE]
Gap(seq, w) == [kind |-> "Gap", seq |-> seq, fec |-> (seq + 1) % SeqSpace \in w.held]

maxAhead(w) ==
  LET ahead == {-1} \cup {delta(w.next, s) : s \in w.held}
  IN CHOOSE d \in ahead : \A e \in ahead : e <= d
oldestHeld(w) == CHOOSE s \in w.held : \A t \in w.held : delta(w.next, s) <= delta(w.next, t)
after(w) == (w.next + 1) % SeqSpace

\* A mutant: a resync goes to the newest held frame.
resyncNewest(w) ==
  [w EXCEPT !.next = CHOOSE s \in w.held : \A t \in w.held : delta(w.next, s) >= delta(w.next, t),
            !.gaps = 0]

resync(w) == [w EXCEPT !.next = oldestHeld(w), !.gaps = 0]

\* One round of drain's loop: a frame that is due, nothing, a jump past a long gap, or a gap.
drainOne(s) ==
  LET w == s.w IN
  IF Len(s.events) >= MaxEvents THEN s
  ELSE IF w.next \in w.held
       THEN [w |-> [w EXCEPT !.held = @ \ {w.next}, !.next = after(w), !.gaps = 0],
             events |-> Append(s.events, Packet(w.next))]
  ELSE IF maxAhead(w) < Window THEN s
  ELSE IF w.gaps >= MaxConceal THEN [s EXCEPT !.w = resync(w)]
  ELSE [w |-> [w EXCEPT !.next = after(w), !.gaps = @ + 1], events |-> Append(s.events, Gap(w.next, w))]

\* The loop; a resync is followed by the frame it went to, so two rounds an event are enough.
drain(w) ==
  LET run[n \in 0 .. 2 * MaxEvents] ==
        IF n = 0 THEN [w |-> w, events |-> <<>>] ELSE drainOne(run[n - 1])
  IN run[2 * MaxEvents]

Verdict(accept, w, events) == [accept |-> accept, w |-> w, events |-> events]

\* A mutant: a frame already held is taken again in place of the one due.
pushUnordered(window, seq) ==
  LET w == IF window.primed THEN window ELSE [fresh EXCEPT !.primed = TRUE, !.next = seq] IN
  IF delta(w.next, seq) < 0 THEN Verdict("Late", w, <<>>)
  ELSE IF delta(w.next, seq) <= 1 /\ w.held = {}
       THEN Verdict("Ok", [w EXCEPT !.next = after(w), !.gaps = 0], <<Packet(seq)>>)
  ELSE IF seq \in w.held THEN Verdict("Duplicate", w, <<>>)
  ELSE IF Cardinality(w.held) = Window THEN Verdict("Rejected", w, <<>>)
  ELSE LET d == drain([w EXCEPT !.held = @ \cup {seq}]) IN Verdict("Ok", d.w, d.events)

\* AudioJitterWindow::push, of a packet whose length is in bounds.
push(window, seq) ==
  LET w == IF window.primed THEN window ELSE [fresh EXCEPT !.primed = TRUE, !.next = seq] IN
  IF delta(w.next, seq) < 0 THEN Verdict("Late", w, <<>>)
  ELSE IF delta(w.next, seq) = 0 /\ w.held = {}
       THEN Verdict("Ok", [w EXCEPT !.next = after(w), !.gaps = 0], <<Packet(seq)>>)
  ELSE IF seq \in w.held THEN Verdict("Duplicate", w, <<>>)
  ELSE IF Cardinality(w.held) = Window THEN Verdict("Rejected", w, <<>>)
  ELSE LET d == drain([w EXCEPT !.held = @ \cup {seq}]) IN Verdict("Ok", d.w, d.events)

-----------------------------------------------------------------------------
(* The engine                                                              *)

\* The device's own state of a voice's handle.
Device == gateway[voice.handle]

\* A mutant: a full queue takes the window all the same.
queueWindowAlways(q) ==
  LET refill == IF q.running /\ q.queued = 0 THEN StartThreshold ELSE 0 IN
    [q EXCEPT !.queued = @ + refill + 1, !.running = @ \/ q.queued + refill + 1 >= StartThreshold]

\* One decoded window: dropped when the queue is full, after its cushion of silence when it
\* ran dry; the device starts at the threshold.
queueWindow(q) ==
  LET refill == IF q.running /\ q.queued = 0 THEN StartThreshold ELSE 0 IN
    IF q.queued >= Ceiling THEN q
    ELSE [q EXCEPT !.queued = @ + refill + 1,
                   !.running = @ \/ q.queued + refill + 1 >= StartThreshold]

queueWindows(q, n) ==
  LET run[i \in 0 .. n] == IF i = 0 THEN q ELSE queueWindow(run[i - 1]) IN run[n]

\* decodeAndQueue: a run of late frames is a stream that restarted.
decodeAndQueue(seq) ==
  /\ voice # NoVoice
  /\ LET first == push(voice.window, seq)
         late == first.accept = "Late"
         restart == late /\ voice.lateRun + 1 >= LateRunRestart
         r == IF restart THEN push(fresh, seq) ELSE first IN
       /\ voice' = [voice EXCEPT !.window = r.w,
                      !.lateRun = CASE late /\ ~restart -> @ + 1
                                    [] restart \/ first.accept = "Ok" -> 0
                                    [] OTHER -> @]
       \* A window the decoder could not decode is not queued.
       /\ \E decoded \in {Len(r.events)} \cup (0 .. Len(r.events) - 1) :
            gateway' = [gateway EXCEPT ![voice.handle] = queueWindows(@, decoded)]
       /\ heard' = (IF restart \/ heard = <<>> THEN <<>> ELSE <<heard[Len(heard)]>>)
                     \o [i \in DOMAIN r.events |-> r.events[i].seq]
  /\ UNCHANGED opens

\* A running device plays what is queued.
plays ==
  /\ voice # NoVoice /\ Device.running /\ Device.queued > 0
  /\ gateway' = [gateway EXCEPT ![voice.handle].queued = @ - 1]
  /\ UNCHANGED <<voice, opens, heard>>

Without(h) == [g \in DOMAIN gateway \ {h} |-> gateway[g]]

openPlayback(target, open) ==
  /\ opens < MaxOpens
  /\ opens' = opens + 1
  /\ voice' = [handle |-> opens + 1, device |-> target.device, channels |-> target.channels,
               window |-> fresh, lateRun |-> 0]
  /\ gateway' = [g \in DOMAIN open \cup {opens + 1} |->
                   IF g \in DOMAIN open THEN open[g]
                   ELSE [device |-> target.device, queued |-> 0, running |-> FALSE]]

Targets == [device : Devices \cup {NoDevice}, channels : {2, 4}]

\* A mutant: the voice moves without closing the device it was on.
departedMoved(target) == voice # NoVoice /\ target.device = NoDevice

\* closeDepartedLocked's condition: gone, or another device, or another width of the same.
departed(target) ==
  voice # NoVoice /\ (target.device # voice.device \/ target.channels # voice.channels)

\* reconcile: close the departed, then open the missing, unless the lane has no pair there.
reconcile(target) ==
  LET keeps == voice # NoVoice /\ target.device = voice.device
                 /\ target.channels = voice.channels
      open == IF departed(target) THEN Without(voice.handle) ELSE gateway IN
  /\ ~keeps
  /\ \/ /\ target.device # NoDevice /\ target.channels >= LaneEnd
        /\ openPlayback(target, open)
     \/ voice' = NoVoice /\ gateway' = open /\ UNCHANGED opens
  /\ heard' = <<>>

\* closeOnDevicesAbsent: the platform dropped the device.
closeOnDevicesAbsent ==
  /\ voice # NoVoice
  /\ voice' = NoVoice /\ gateway' = Without(voice.handle) /\ heard' = <<>>
  /\ UNCHANGED opens

VoiceNext ==
  \/ plays \/ closeOnDevicesAbsent
  \/ \E target \in Targets : reconcile(target)
  \/ \E seq \in Seqs : decodeAndQueue(seq)

VoiceSpec == VoiceInit /\ [][VoiceNext]_playoutVars

-----------------------------------------------------------------------------
(* Properties                                                              *)

\* The frames a voice decodes or conceals are in the order of the stream and none twice,
\* over reordering, loss, the wrap of the count and resyncs; and what the window holds after
\* a push is less than a window ahead, so one of its slots is always free for the next.
PlaysInOrder ==
  /\ \A i \in 2 .. Len(heard) : delta(heard[i - 1], heard[i]) > 0
  /\ voice # NoVoice =>
       /\ Cardinality(voice.window.held) < Window
       /\ \A s \in voice.window.held : delta(voice.window.next, s) \in 1 .. Window - 1

\* Queued audio is latency: no device holds more than the ceiling; and the devices open are
\* exactly the one the voice is on, so none plays on after its voice moved.
LatencyBounded ==
  /\ \A h \in DOMAIN gateway : gateway[h].queued <= Ceiling
  /\ DOMAIN gateway = IF voice = NoVoice THEN {} ELSE {voice.handle}
===============================================================================
