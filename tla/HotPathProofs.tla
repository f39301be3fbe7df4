----------------------------- MODULE HotPathProofs -----------------------------
(***************************************************************************)
(* Proofs about the hot threads and the GUI thread that changes what they  *)
(* work on.                                                                *)
(*                                                                         *)
(* The publication of the route table (SlotRouter), for any number of      *)
(* participants and of tables.  The invariant behind it says, for a thread *)
(* with a table in hand, that the table is the one it would load now, or   *)
(* the one being retired with the wait yet to reach the thread.            *)
(*                                                                         *)
(* The capture of a microphone (MicCapture), for any slots and endpoints:  *)
(* what a mute, a move or a departure stops, and what the audio thread may *)
(* still send while it does.                                               *)
(***************************************************************************)
EXTENDS SlotRouter, MicCapture, FiniteSetTheorems, TLAPS

-----------------------------------------------------------------------------
(* The route table.                                                        *)


\* The table that is, or is about to be, retired.
Old == IF gui \in {"idle", "storeMic", "swap"} THEN published ELSE retired

\* The wait for p's bracket lies ahead, or is under way.
Held(p) ==
  \/ gui \in {"storeMic", "swap"}
  \/ gui = "look" /\ cursor <= p
  \/ gui = "spin" /\ cursor < p
  \/ gui = "spin" /\ cursor = p /\ ~moved

\* Where the pointers are at each place of the GUI thread.
PointersInv ==
  /\ gui = "idle" => table = published /\ micTable = published /\ ~dying
  /\ gui = "storeMic" => micTable = published
  /\ gui \in {"storeMic", "swap"} => table = IF dying THEN 0 ELSE published + 1
  /\ gui = "swap" => micTable = table
  /\ gui \in {"look", "spin", "free"} =>
       /\ table = published /\ micTable = published
       /\ published = IF dying THEN 0 ELSE retired + 1
  /\ gui = "gone" => table = 0 /\ micTable = 0 /\ published = 0
  /\ gui = "spin" => cursor \in Participants

\* Only tables older than the one being retired have been freed.
FreedInv == gui # "gone" => \A t \in freed : t = 0 \/ t < Old

\* A bracket is open exactly while its epoch is odd.
OddInv == \A p \in Participants : odd[p] <=> place[p] # "out"

UsingOK(p) ==
  place[p] = "using" =>
    /\ hand[p] # 0
    /\ hand[p] = Pointer(p) \/ (hand[p] = Old /\ Held(p))

\* A free is reached only when no old table is left in any hand.
UsingInv == \A p \in Participants : UsingOK(p)

IInv == TypeOK /\ PointersInv /\ FreedInv /\ OddInv /\ UsingInv

-----------------------------------------------------------------------------

\* The disjuncts of the next-state relation, one per step.
LEMMA NextCases ==
  ASSUME Next
  PROVE  \/ Republish \/ BeginDestroy \/ StoreMicTable \/ SwapPublished
         \/ LookAtEpoch \/ Spin \/ FreeRetired
         \/ \E p \in Participants : Enter(p) \/ LoadTable(p) \/ UseRoute(p) \/ Exit(p)
  BY DEF Next, Publisher, Reader

\* Every step keeps the types.
LEMMA TypeStep ==
  ASSUME TypeOK, PointersInv, Next
  PROVE  TypeOK'
  <1> USE RouterAssumption DEF TypeOK, Participants
  <1>1. CASE Republish
    BY <1>1 DEF Republish, readerVars, waitVars
  <1>2. CASE BeginDestroy
    BY <1>2 DEF BeginDestroy, readerVars, waitVars
  <1>3. CASE StoreMicTable
    BY <1>3 DEF StoreMicTable, readerVars, waitVars
  <1>4. CASE SwapPublished
    BY <1>4 DEF SwapPublished, readerVars
  <1>5. CASE LookAtEpoch
    <2>1. cursor' \in 1 .. Routes + Mics + 1
      BY <1>5 DEF LookAtEpoch, waitVars
    <2>2. moved' \in BOOLEAN /\ gui' \in {"look", "spin", "free"}
      BY <1>5, Zenon DEF LookAtEpoch, waitVars
    <2>3. QED BY <1>5, <2>1, <2>2 DEF LookAtEpoch, tableVars, readerVars
  <1>6. CASE Spin
    BY <1>6 DEF Spin, tableVars, readerVars, PointersInv
  <1>7. CASE FreeRetired
    BY <1>7 DEF FreeRetired, readerVars, waitVars
  <1>8. ASSUME NEW p \in Participants, Enter(p) PROVE TypeOK'
    BY <1>8 DEF Enter, Bump, tableVars
  <1>9. ASSUME NEW p \in Participants, LoadTable(p) PROVE TypeOK'
    BY <1>9 DEF LoadTable, Pointer, tableVars, waitVars
  <1>10. ASSUME NEW p \in Participants, UseRoute(p) PROVE TypeOK'
    BY <1>10 DEF UseRoute, tableVars, waitVars
  <1>11. ASSUME NEW p \in Participants, Exit(p) PROVE TypeOK'
    BY <1>11 DEF Exit, Bump, tableVars
  <1> HIDE DEF TypeOK, Participants
  <1>12. QED
    BY <1>1, <1>2, <1>3, <1>4, <1>5, <1>6, <1>7, <1>8, <1>9, <1>10, <1>11, NextCases

\* A bracket step of one thread: what it leaves to the other threads.
LEMMA BracketStep ==
  ASSUME IInv, NEW p \in Participants, Enter(p) \/ Exit(p)
  PROVE  PointersInv' /\ FreedInv' /\ OddInv' /\ UsingInv'
  <1> USE DEF IInv
  <1>1. /\ UNCHANGED <<tableVars, hand, gui, dying, cursor>>
        /\ Bump(p)
        /\ \A q \in Participants : q # p => place'[q] = place[q] /\ odd'[q] = odd[q]
        /\ place'[p] # "using"
        /\ odd'[p] <=> place'[p] # "out"
    BY ZenonT(60) DEF Enter, Exit, Bump, TypeOK, OddInv
  <1>2. PointersInv' /\ FreedInv'
    BY <1>1 DEF PointersInv, FreedInv, Old, tableVars
  <1>3. OddInv'
    BY <1>1 DEF OddInv
  <1>4. ASSUME NEW q \in Participants PROVE UsingOK(q)'
    <2>1. CASE q = p
      BY <1>1, <2>1 DEF UsingOK
    <2>2. CASE q # p
      <3>1. UsingOK(q)
        BY DEF UsingInv
      <3>2. Held(q) => Held(q)'
        BY Zenon, <1>1, <2>2 DEF Held, Bump
      <3>3. QED
        BY <1>1, <2>2, <3>1, <3>2 DEF UsingOK, Pointer, Old, tableVars
    <2>3. QED BY <2>1, <2>2
  <1>5. QED BY <1>2, <1>3, <1>4 DEF UsingInv

\* The steps inside a bracket.
LEMMA InsideStep ==
  ASSUME IInv, NEW p \in Participants, LoadTable(p) \/ UseRoute(p)
  PROVE  PointersInv' /\ FreedInv' /\ OddInv' /\ UsingInv'
  <1> USE DEF IInv
  <1>1. /\ UNCHANGED <<tableVars, odd, gui, dying, waitVars>>
        /\ \A q \in Participants : q # p => place'[q] = place[q] /\ hand'[q] = hand[q]
        /\ place[p] # "out" /\ place'[p] # "out"
        /\ place'[p] = "using" => hand'[p] = Pointer(p) /\ Pointer(p) # 0
    BY DEF LoadTable, UseRoute, TypeOK
  <1>2. PointersInv' /\ FreedInv'
    BY <1>1 DEF PointersInv, FreedInv, Old, tableVars, waitVars
  <1>3. OddInv'
    BY <1>1 DEF OddInv
  <1>4. ASSUME NEW q \in Participants PROVE UsingOK(q)'
    <2>1. UsingOK(q)
      BY DEF UsingInv
    <2>2. Pointer(q)' = Pointer(q) /\ Old' = Old /\ Held(q)' = Held(q)
      BY <1>1 DEF Pointer, Old, Held, tableVars, waitVars
    <2>3. QED BY <1>1, <2>1, <2>2 DEF UsingOK
  <1>5. QED BY <1>2, <1>3, <1>4 DEF UsingInv

\* A store of the GUI thread: a reader's table stays the current or the old one.
LEMMA StoreStep ==
  ASSUME IInv, Republish \/ BeginDestroy \/ StoreMicTable \/ SwapPublished
  PROVE  PointersInv' /\ FreedInv' /\ OddInv' /\ UsingInv'
  <1> USE DEF IInv
  <1>1. UNCHANGED <<odd, place, hand, freed>>
    BY DEF Republish, BeginDestroy, StoreMicTable, SwapPublished, readerVars
  <1>2. PointersInv'
    BY DEF Republish, BeginDestroy, StoreMicTable, SwapPublished, PointersInv, TypeOK
  <1>3. Old' = Old /\ gui # "gone"
    BY DEF Republish, BeginDestroy, StoreMicTable, SwapPublished, Old
  <1>4. FreedInv'
    BY <1>1, <1>3 DEF FreedInv
  <1>5. OddInv'
    BY <1>1 DEF OddInv
  <1>6. ASSUME NEW p \in Participants PROVE UsingOK(p)'
    <2>1. UsingOK(p) /\ p \in Nat /\ p >= 1
      BY RouterAssumption DEF UsingInv, Participants
    <2>2. Held(p)'
      BY <2>1 DEF Republish, BeginDestroy, StoreMicTable, SwapPublished, Held
    <2>3. Pointer(p) = Old \/ Pointer(p)' = Pointer(p)
      BY DEF Republish, BeginDestroy, StoreMicTable, SwapPublished, Pointer, Old, PointersInv
    <2>4. QED BY <1>1, <1>3, <2>1, <2>2, <2>3 DEF UsingOK
  <1>7. QED BY <1>2, <1>4, <1>5, <1>6 DEF UsingInv

\* The wait moves past a participant only once it holds no old table.
LEMMA WaitStep ==
  ASSUME IInv, LookAtEpoch \/ Spin
  PROVE  PointersInv' /\ FreedInv' /\ OddInv' /\ UsingInv'
  <1> USE DEF IInv
  <1>1. UNCHANGED <<tableVars, odd, readerVars, dying>>
    BY DEF LookAtEpoch, Spin
  <1>2. PointersInv'
    BY <1>1 DEF LookAtEpoch, Spin, PointersInv, tableVars, waitVars
  <1>3. Old' = Old /\ gui # "gone"
    BY <1>1 DEF LookAtEpoch, Spin, Old, tableVars
  <1>4. FreedInv'
    BY <1>1, <1>3 DEF FreedInv, tableVars
  <1>5. OddInv'
    BY <1>1 DEF OddInv, readerVars
  <1>6. ASSUME NEW p \in Participants PROVE UsingOK(p)'
    <2>1. UsingOK(p) /\ p \in Nat /\ p <= Routes + Mics
      BY RouterAssumption DEF UsingInv, Participants
    <2>2. Pointer(p)' = Pointer(p) /\ place' = place /\ hand' = hand
      BY <1>1 DEF Pointer, tableVars, readerVars
    <2>3. place[p] = "using" /\ Held(p) => Held(p)'
      <3> HAVE place[p] = "using" /\ Held(p)
      <3>1. odd[p]
        BY DEF OddInv
      <3>2. CASE LookAtEpoch
        <4>1. gui = "look" /\ cursor <= p /\ cursor \in Nat /\ cursor >= 1
          BY <3>2, RouterAssumption DEF LookAtEpoch, Held, TypeOK
        <4>2. cursor \in Participants
          BY SMTT(60), <2>1, <4>1, RouterAssumption DEF Participants
        <4>3. CASE odd[cursor]
          BY <2>1, <3>2, <4>1, <4>2, <4>3 DEF LookAtEpoch, Held
        <4>4. CASE ~odd[cursor]
          <5>1. cursor # p
            BY <3>1, <4>4
          <5>2. gui' = "look" /\ cursor' = cursor + 1
            BY <3>2, <4>1, <4>2, <4>4 DEF LookAtEpoch
          <5>3. QED BY <2>1, <4>1, <5>1, <5>2 DEF Held
        <4>5. QED BY <4>3, <4>4
      <3>3. CASE Spin
        BY <2>1, <3>3, RouterAssumption DEF Spin, Held, TypeOK
      <3>4. QED BY <3>2, <3>3
    <2>4. QED BY <1>3, <2>1, <2>2, <2>3 DEF UsingOK
  <1>7. QED BY <1>2, <1>4, <1>5, <1>6 DEF UsingInv

\* When a table is freed nobody holds it.
LEMMA FreeStep ==
  ASSUME IInv, FreeRetired
  PROVE  PointersInv' /\ FreedInv' /\ OddInv' /\ UsingInv'
  <1> USE DEF IInv
  <1>1. PointersInv'
    BY DEF FreeRetired, PointersInv
  <1>2. FreedInv'
    BY DEF FreeRetired, FreedInv, Old, PointersInv, TypeOK
  <1>3. OddInv'
    BY DEF FreeRetired, OddInv, readerVars
  <1>4. ASSUME NEW p \in Participants PROVE UsingOK(p)'
    <2>1. UsingOK(p) /\ ~Held(p)
      BY DEF UsingInv, FreeRetired, Held
    <2>2. Pointer(p)' = Pointer(p)
      BY DEF FreeRetired, Pointer
    <2>3. QED BY <2>1, <2>2 DEF UsingOK, FreeRetired, readerVars
  <1>5. QED BY <1>1, <1>2, <1>3, <1>4 DEF UsingInv

\* The inductive invariant holds of every behaviour.
THEOREM RouterInvariant == Spec => []IInv
  <1>1. Init => IInv
    <2> SUFFICES ASSUME Init PROVE IInv
      OBVIOUS
    <2>1. TypeOK
      <3>1. cursor \in 1 .. Routes + Mics + 1
        BY RouterAssumption DEF Init
      <3>2. odd \in [Participants -> BOOLEAN]
        BY DEF Init
      <3>3. QED BY Zenon, <3>1, <3>2 DEF Init, TypeOK
    <2>2. PointersInv /\ FreedInv
      BY DEF Init, PointersInv, FreedInv
    <2>3. OddInv /\ UsingInv
      BY DEF Init, OddInv, UsingInv, UsingOK
    <2>4. QED BY <2>1, <2>2, <2>3 DEF IInv
  <1>2. IInv /\ [Next]_vars => IInv'
    <2> SUFFICES ASSUME IInv, [Next]_vars PROVE IInv'
      OBVIOUS
    <2>1. CASE Next
      <3>1. TypeOK'
        BY <2>1, TypeStep DEF IInv
      <3>2. PointersInv' /\ FreedInv' /\ OddInv' /\ UsingInv'
        BY <2>1, NextCases, BracketStep, InsideStep, StoreStep, WaitStep, FreeStep
      <3>3. QED BY <3>1, <3>2 DEF IInv
    <2>2. CASE UNCHANGED vars
      <3> USE <2>2 DEF vars, tableVars, readerVars, waitVars
      <3>1. TypeOK'
        BY DEF IInv, TypeOK
      <3>2. PointersInv' /\ FreedInv' /\ OddInv'
        BY DEF IInv, PointersInv, FreedInv, OddInv, Old
      <3>3. UsingInv'
        BY DEF IInv, UsingInv, UsingOK, Pointer, Old, Held
      <3>4. QED BY <3>1, <3>2, <3>3 DEF IInv
    <2>3. QED BY <2>1, <2>2
  <1>3. QED BY <1>1, <1>2, PTL DEF Spec

\* No thread ever routes by a freed table (SlotRouter::republish, ~SlotRouter),
\* for any number of device, session and microphone participants.
THEOREM NeverUsedAfterFree == Spec => []NoUseAfterFree
  <1>1. IInv => NoUseAfterFree
    <2> SUFFICES ASSUME IInv PROVE NoUseAfterFree
      OBVIOUS
    <2> USE DEF IInv
    <2>1. published # 0 => published \notin freed
      BY DEF PointersInv, FreedInv, Old, TypeOK
    <2>2. ASSUME NEW p \in Participants, place[p] = "using" PROVE hand[p] \notin freed
      <3>1. /\ hand[p] # 0
            /\ hand[p] \in {table, micTable, Old}
            /\ hand[p] = table \/ hand[p] = micTable \/ gui # "gone"
        BY <2>2 DEF UsingInv, UsingOK, Pointer, Held
      <3>2. gui # "gone"
        BY <3>1 DEF PointersInv
      <3>3. hand[p] = Old \/ hand[p] = Old + 1
        BY <3>1, <3>2 DEF PointersInv, Old, TypeOK
      <3>4. Old \in Nat /\ \A t \in freed : t = 0 \/ t < Old
        BY <3>2 DEF FreedInv, Old, TypeOK
      <3>5. QED BY <3>1, <3>3, <3>4
    <2>3. QED BY <2>1, <2>2 DEF NoUseAfterFree
  <1>2. QED BY <1>1, RouterInvariant, PTL

\* Once ~SlotRouter has returned, a microphone's sender finds no table.
THEOREM NeverSentPastRouter == Spec => []NothingSentPastRouter
  <1>1. IInv => NothingSentPastRouter
    BY DEF IInv, NothingSentPastRouter, PointersInv, UsingInv, UsingOK, Pointer, Held
  <1>2. QED BY <1>1, RouterInvariant, PTL

-----------------------------------------------------------------------------
(* The microphone: the inductive invariant.                                *)

Facts == [streaming : BOOLEAN, toggleOn : BOOLEAN, route : CaptureDevices \cup {NoCapture}, hostCarries : BOOLEAN,
          muted : BOOLEAN]
Entries == [device : CaptureDevices \cup {NoCapture}, enabled : BOOLEAN, seq : Nat, tail : Nat]
Callbacks == {quiet} \cup [windows : Nat \ {0}, pc : {"check", "send"}]
Reconciles == [pc : {"idle", "close", "join", "fold"}, targets : SUBSET MicSlots, orders : SUBSET MicSlots,
               mute : BOOLEAN]
ArmedFolds == [slots : SUBSET MicSlots, capturing : Nat]

MicTypes ==
    /\ facts \in [MicSlots -> Facts]
    /\ entries \in [MicSlots -> Entries]
    /\ nextSeq \in [MicSlots -> Nat]
    /\ audio \in [MicSlots -> Callbacks]
    /\ main \in Reconciles
    /\ armed \in ArmedFolds
    /\ sent \in [MicSlots -> [1..2 -> Nat]]

(* A reconcile works from the facts as they are; behind its closes, what   *)
(* is open is wanted, on the endpoint it is open on; behind its fold, the  *)
(* indicator says so.                                                      *)
MainInv ==
    /\ main.pc # "idle" => main.targets = {s \in MicSlots : micCaptureEligible(facts[s])}
    /\ main.pc \in {"fold", "idle"} =>
          \A s \in MicSlots : entries[s].device # NoCapture =>
             micCaptureEligible(facts[s]) /\ facts[s].route = entries[s].device
    /\ main.pc = "idle" => \A s \in MicSlots : entries[s].device # NoCapture => indicator = "Live"

(* A callback runs only on an open capture; a capture that is enabled has  *)
(* let nothing through late, and one that has let a window through late    *)
(* has no other past its check.                                            *)
CallbackInv ==
    \A s \in MicSlots :
       /\ audio[s] # quiet => entries[s].device # NoCapture
       /\ entries[s].tail <= 1
       /\ entries[s].tail = 1 => ~entries[s].enabled /\ audio[s].pc # "send"

(* What was sent is below the count that goes on: the capture's while it   *)
(* is open, the one kept for the slot when it is not.                      *)
SeqInv ==
    \A s \in MicSlots :
       /\ sent[s][1] <= (IF entries[s].device # NoCapture THEN entries[s].seq ELSE nextSeq[s])
       /\ (sent[s][1] = 0 /\ sent[s][2] = 0) \/ sent[s][1] > sent[s][2]

MicInv == MicTypes /\ MainInv /\ CallbackInv /\ SeqInv

-----------------------------------------------------------------------------
(* The microphone: steps.                                                  *)

\* The facts change and a reconcile begins: it works from the new facts, and nothing is opened or closed yet.
LEMMA ReconcileStep ==
  ASSUME MicInv, NEW orders \in SUBSET MicSlots, NEW mute \in BOOLEAN, facts' \in [MicSlots -> Facts],
         reconcileAudioEngines(facts', orders, mute), armed' \in ArmedFolds,
         UNCHANGED <<entries, nextSeq, audio, sent>>
  PROVE  MicInv'
<1>1. main' = [pc |-> "close", targets |-> {s \in MicSlots : micCaptureEligible(facts'[s])}, orders |-> orders,
               mute |-> mute]
  BY DEF reconcileAudioEngines
<1>2. MicTypes'
  <2>1. {s \in MicSlots : micCaptureEligible(facts'[s])} \in SUBSET MicSlots
    OBVIOUS
  <2>2. main' \in Reconciles
    BY Zenon, <1>1, <2>1 DEF Reconciles
  <2> QED
    BY <2>2 DEF MicInv, MicTypes
<1>3. MainInv'
  <2>1. main'.pc = "close" /\ main'.targets = {s \in MicSlots : micCaptureEligible(facts'[s])}
    BY <1>1
  <2>2. {s \in MicSlots : micCaptureEligible(facts'[s])} = {s \in MicSlots : micCaptureEligible(facts[s])'}
    BY SMTT(60) DEF micCaptureEligible, micArmed
  <2> QED
    BY Zenon, <2>1, <2>2 DEF MainInv
<1>4. CallbackInv' /\ SeqInv'
  BY DEF MicInv, CallbackInv, SeqInv
<1> QED
  BY <1>2, <1>3, <1>4 DEF MicInv

\* One fact of a slot at a time.
LEMMA FactsKept ==
  ASSUME NEW f \in Facts, NEW b \in BOOLEAN, NEW d \in CaptureDevices \cup {NoCapture}
  PROVE  /\ [f EXCEPT !.streaming = b] \in Facts /\ [f EXCEPT !.toggleOn = b] \in Facts
         /\ [f EXCEPT !.hostCarries = b] \in Facts /\ [f EXCEPT !.muted = b] \in Facts
         /\ [f EXCEPT !.route = d] \in Facts
  BY DEF Facts

\* Setting one slot's mute keeps the facts' type.
LEMMA MutedFacts ==
  ASSUME NEW s \in MicSlots, NEW m \in BOOLEAN, facts \in [MicSlots -> Facts]
  PROVE  [facts EXCEPT ![s].muted = m] \in [MicSlots -> Facts]
<1>1. facts[s] \in Facts
  OBVIOUS
<1>2. [facts[s] EXCEPT !.muted = m] \in Facts
  BY Zenon, <1>1, FactsKept
<1> QED
  BY Zenon, <1>2

\* A user, a session or a device changes the facts of a slot.
LEMMA FactsStep ==
  ASSUME MicInv, NEW s \in MicSlots, factsChange(s) \/ comesUp(s) \/ departs(s) \/ toggleSlotMicMute(s)
  PROVE  MicInv'
<1>t. facts \in [MicSlots -> Facts] /\ armed \in ArmedFolds
  BY DEF MicInv, MicTypes
<1>s. facts[s] \in Facts
  BY <1>t
<1>1. CASE factsChange(s)
  <2>1. PICK f \in {[facts[s] EXCEPT !.streaming = ~@], [facts[s] EXCEPT !.toggleOn = ~@],
                    [facts[s] EXCEPT !.hostCarries = ~@]}
                   \cup {[facts[s] EXCEPT !.route = d] : d \in CaptureDevices \cup {NoCapture}} :
             facts' = [facts EXCEPT ![s] = f] /\ reconcileAudioEngines(facts', {}, FALSE)
    BY Zenon, <1>1 DEF factsChange
  <2>2. f \in Facts
    <3>1. (~facts[s].streaming) \in BOOLEAN /\ (~facts[s].toggleOn) \in BOOLEAN /\ (~facts[s].hostCarries) \in BOOLEAN
      OBVIOUS
    <3>2. /\ [facts[s] EXCEPT !.streaming = ~facts[s].streaming] \in Facts
          /\ [facts[s] EXCEPT !.toggleOn = ~facts[s].toggleOn] \in Facts
          /\ [facts[s] EXCEPT !.hostCarries = ~facts[s].hostCarries] \in Facts
          /\ \A d \in CaptureDevices \cup {NoCapture} : [facts[s] EXCEPT !.route = d] \in Facts
      BY Zenon, <1>s, <3>1, FactsKept
    <3> QED
      BY Zenon, <2>1, <3>2
  <2>3. facts' \in [MicSlots -> Facts]
    BY <1>t, <2>1, <2>2
  <2>4. UNCHANGED <<entries, nextSeq, audio, armed, sent>>
    BY Zenon, <1>1 DEF factsChange
  <2> QED
    BY Zenon, <1>t, <2>1, <2>3, <2>4, ReconcileStep
<1>2. CASE comesUp(s)
  <2>1. PICK d \in CaptureDevices :
             facts' = [facts EXCEPT ![s] = [streaming |-> TRUE, toggleOn |-> TRUE, route |-> d, hostCarries |-> TRUE,
                                            muted |-> facts[s].muted]]
    BY Zenon, <1>2, <1>t DEF comesUp
  <2>2. facts' \in [MicSlots -> Facts]
    BY <1>t, <1>s, <2>1 DEF Facts
  <2>3. UNCHANGED <<entries, nextSeq, audio, armed, sent>> /\ reconcileAudioEngines(facts', {}, FALSE)
    BY Zenon, <1>2 DEF comesUp
  <2> QED
    BY Zenon, <1>t, <2>2, <2>3, ReconcileStep
<1>3. CASE departs(s)
  <2>1. facts' = [facts EXCEPT ![s].streaming = FALSE, ![s].route = NoCapture, ![s].muted = FALSE]
    BY Zenon, <1>3 DEF departs
  <2>2. facts' \in [MicSlots -> Facts]
    BY Zenon, <1>t, <1>s, <2>1 DEF Facts
  <2>3. UNCHANGED <<entries, nextSeq, audio, armed, sent>> /\ reconcileAudioEngines(facts', {}, FALSE)
    BY Zenon, <1>3 DEF departs
  <2> QED
    BY Zenon, <1>t, <2>2, <2>3, ReconcileStep
<1>4. CASE toggleSlotMicMute(s)
  <2>1. facts' = [facts EXCEPT ![s].muted = ~facts[s].muted]
        /\ reconcileAudioEngines(facts', {}, ~facts[s].muted)
    BY Zenon, <1>4 DEF toggleSlotMicMute, setSlotMicMuted
  <2>2. (~facts[s].muted) \in BOOLEAN
    OBVIOUS
  <2>3. facts' \in [MicSlots -> Facts]
    BY Zenon, <1>t, <2>1, <2>2, MutedFacts
  <2>4. UNCHANGED <<entries, nextSeq, audio, armed, sent>>
    BY Zenon, <1>4 DEF toggleSlotMicMute
  <2> QED
    BY Zenon, <1>t, <2>1, <2>2, <2>3, <2>4, ReconcileStep
<1> QED
  BY <1>1, <1>2, <1>3, <1>4

\* The toggle over all slots, and an endpoint that went.
LEMMA AllSlotsStep ==
  ASSUME MicInv, toggleAllMics \/ \E d \in CaptureDevices : devicesChanged(d)
  PROVE  MicInv'
<1>t. facts \in [MicSlots -> Facts] /\ armed \in ArmedFolds
  BY DEF MicInv, MicTypes
<1>1. CASE toggleAllMics
  <2>1. PICK s \in armed.slots : setSlotMicMuted(s, armed.capturing > 0, armed.slots \ {s})
    BY Zenon, <1>1 DEF toggleAllMics
  <2>2. s \in MicSlots /\ armed.slots \ {s} \in SUBSET MicSlots /\ (armed.capturing > 0) \in BOOLEAN
    BY <1>t DEF ArmedFolds
  <2>3. facts' = [facts EXCEPT ![s].muted = armed.capturing > 0]
        /\ reconcileAudioEngines(facts', armed.slots \ {s}, armed.capturing > 0)
    BY Zenon, <2>1 DEF setSlotMicMuted
  <2>4. facts' \in [MicSlots -> Facts]
    BY Zenon, <1>t, <2>2, <2>3, MutedFacts
  <2>5. UNCHANGED <<entries, nextSeq, audio, armed, sent>>
    BY Zenon, <1>1 DEF toggleAllMics
  <2> QED
    BY Zenon, <1>t, <2>2, <2>3, <2>4, <2>5, ReconcileStep
<1>2. ASSUME NEW d \in CaptureDevices, devicesChanged(d) PROVE MicInv'
  <2>1. facts' = [s \in MicSlots |-> IF facts[s].route = d THEN [facts[s] EXCEPT !.route = NoCapture] ELSE facts[s]]
    BY Zenon, <1>2 DEF devicesChanged
  <2>2. ASSUME NEW s \in MicSlots PROVE [facts[s] EXCEPT !.route = NoCapture] \in Facts /\ facts[s] \in Facts
    BY Zenon, <1>t, FactsKept
  <2>3. facts' \in [MicSlots -> Facts]
    BY Zenon, <2>1, <2>2
  <2>4. UNCHANGED <<entries, nextSeq, audio, armed, sent>> /\ reconcileAudioEngines(facts', {}, FALSE)
    BY Zenon, <1>2 DEF devicesChanged
  <2> QED
    BY Zenon, <1>t, <2>3, <2>4, ReconcileStep
<1> QED
  BY <1>1, <1>2

\* close, its flag first: the capture's tail may now grow, by the window that is past its check.
LEMMA DisableStep ==
  ASSUME MicInv, NEW s \in MicSlots, disable(s)
  PROVE  MicInv'
<1>t. entries \in [MicSlots -> Entries] /\ entries[s] \in Entries
  BY DEF MicInv, MicTypes
<1>u. main \in Reconciles
  BY DEF MicInv, MicTypes
<1>1. entries' = [entries EXCEPT ![s].enabled = FALSE] /\ entries[s].enabled
  BY Zenon DEF disable
<1>2. main.pc = "close" /\ main' = [main EXCEPT !.pc = "join"]
  BY Zenon DEF disable
<1>3. UNCHANGED <<facts, nextSeq, audio, armed, sent>>
  BY Zenon DEF disable
<1>4. entries' \in [MicSlots -> Entries]
  BY Zenon, <1>t, <1>1 DEF Entries
<1>5. \A r \in MicSlots : /\ entries'[r].device = entries[r].device /\ entries'[r].seq = entries[r].seq
                         /\ entries'[r].tail = entries[r].tail
  BY <1>t, <1>1 DEF Entries
<1>6. entries'[s].enabled = FALSE /\ \A r \in MicSlots : r # s => entries'[r].enabled = entries[r].enabled
  BY <1>t, <1>1 DEF Entries
<1>7. main'.pc = "join" /\ main'.targets = main.targets /\ main'.orders = main.orders /\ main'.mute = main.mute
  BY <1>u, <1>2 DEF Reconciles
<1>8. main' \in Reconciles
  BY <1>u, <1>2 DEF Reconciles
<1>9. MicTypes'
  BY <1>3, <1>4, <1>8 DEF MicInv, MicTypes
<1>10. MainInv'
  BY <1>2, <1>3, <1>7 DEF MicInv, MainInv, micCaptureEligible, micArmed
<1>11. CallbackInv'
  BY SMTT(60), <1>1, <1>3, <1>5, <1>6 DEF MicInv, CallbackInv
<1>12. SeqInv'
  BY <1>3, <1>5 DEF MicInv, SeqInv
<1> QED
  BY <1>9, <1>10, <1>11, <1>12 DEF MicInv

\* The rest of close: the callback is over, so the count kept for the slot is the capture's last.
LEMMA CloseStep ==
  ASSUME MicInv, NEW s \in MicSlots, closeCapture(s)
  PROVE  MicInv'
<1>t. entries \in [MicSlots -> Entries] /\ entries[s] \in Entries /\ nextSeq \in [MicSlots -> Nat]
  BY DEF MicInv, MicTypes
<1>u. main \in Reconciles
  BY DEF MicInv, MicTypes
<1>1. entries' = [entries EXCEPT ![s] = closed] /\ nextSeq' = [nextSeq EXCEPT ![s] = entries[s].seq]
  BY Zenon DEF closeCapture
<1>2. main.pc = "join" /\ main' = [main EXCEPT !.pc = "close"]
  BY Zenon DEF closeCapture
<1>3. UNCHANGED <<facts, audio, armed, sent>> /\ audio[s] = quiet /\ entries[s].device # NoCapture
  BY Zenon DEF closeCapture, hasDeparted
<1>4. closed \in Entries /\ closed.device = NoCapture /\ closed.tail = 0
  BY DEF closed, Entries
<1>5. entries' \in [MicSlots -> Entries] /\ nextSeq' \in [MicSlots -> Nat]
  BY <1>t, <1>1, <1>4 DEF Entries
<1>6. /\ entries'[s] = closed /\ nextSeq'[s] = entries[s].seq
      /\ \A r \in MicSlots : r # s => entries'[r] = entries[r] /\ nextSeq'[r] = nextSeq[r]
  BY <1>t, <1>1
<1>7. main'.pc = "close" /\ main'.targets = main.targets
  BY <1>u, <1>2 DEF Reconciles
<1>8. main' \in Reconciles
  BY <1>u, <1>2 DEF Reconciles
<1>9. MicTypes'
  BY <1>3, <1>5, <1>8 DEF MicInv, MicTypes
<1>10. MainInv'
  BY <1>2, <1>3, <1>7 DEF MicInv, MainInv, micCaptureEligible, micArmed
<1>11. CallbackInv'
  BY SMTT(60), <1>3, <1>4, <1>6 DEF MicInv, CallbackInv
<1>12. SeqInv'
  BY <1>3, <1>4, <1>6 DEF MicInv, SeqInv
<1> QED
  BY <1>9, <1>10, <1>11, <1>12 DEF MicInv

\* openMissing: behind the closes what is open is wanted, and what is opened is wanted and goes on from the count kept.
LEMMA OpenStep ==
  ASSUME MicInv, openMissing
  PROVE  MicInv'
<1>t. entries \in [MicSlots -> Entries] /\ nextSeq \in [MicSlots -> Nat] /\ facts \in [MicSlots -> Facts]
  BY DEF MicInv, MicTypes
<1>u. main \in Reconciles
  BY DEF MicInv, MicTypes
<1> DEFINE New(s) == [device |-> facts[s].route, enabled |-> TRUE, seq |-> nextSeq[s], tail |-> 0]
<1>1. PICK opened \in SUBSET {s \in main.targets : entries[s].device = NoCapture} :
           entries' = [s \in MicSlots |-> IF s \in opened THEN New(s) ELSE entries[s]]
  BY Zenon DEF openMissing
<1>2. main.pc = "close" /\ main' = [main EXCEPT !.pc = "fold"] /\ \A s \in MicSlots : ~hasDeparted(s)
  BY Zenon DEF openMissing
<1>3. UNCHANGED <<facts, nextSeq, audio, armed, sent>>
  BY Zenon DEF openMissing
<1>4. \A s \in opened : s \in MicSlots /\ s \in main.targets /\ entries[s].device = NoCapture
  BY SMTT(60), <1>1, <1>u DEF Reconciles
<1>5. \A s \in MicSlots : /\ New(s) \in Entries /\ New(s).device = facts[s].route /\ New(s).seq = nextSeq[s]
                         /\ New(s).tail = 0
  BY <1>t DEF Entries, Facts
<1>6. \A s \in MicSlots : entries'[s] = IF s \in opened THEN New(s) ELSE entries[s]
  BY <1>1
<1> HIDE DEF New
<1>7. entries' \in [MicSlots -> Entries]
  BY <1>t, <1>1, <1>5
<1>8. main'.pc = "fold" /\ main'.targets = main.targets
  BY <1>u, <1>2 DEF Reconciles
<1>9. main' \in Reconciles
  BY <1>u, <1>2 DEF Reconciles
<1>10. MicTypes'
  BY <1>3, <1>7, <1>9 DEF MicInv, MicTypes
<1>11. main.targets = {s \in MicSlots : micCaptureEligible(facts[s])}
  BY <1>2 DEF MicInv, MainInv
<1>12. ASSUME NEW s \in MicSlots, entries'[s].device # NoCapture
       PROVE  s \in main.targets /\ facts[s].route = entries'[s].device
  <2>1. CASE s \in opened
    BY <1>4, <1>5, <1>6, <2>1
  <2>2. CASE s \notin opened
    BY <1>2, <1>6, <1>12, <2>2 DEF hasDeparted
  <2> QED
    BY <2>1, <2>2
<1>13. MainInv'
  <2>1. \A s \in MicSlots : micCaptureEligible(facts[s])' = micCaptureEligible(facts[s])
    BY <1>3 DEF micCaptureEligible, micArmed
  <2>2. main'.targets = {s \in MicSlots : micCaptureEligible(facts[s])'}
    BY <1>8, <1>11, <2>1
  <2> QED
    BY <1>3, <1>8, <1>11, <1>12, <2>1, <2>2 DEF MainInv
<1>14. CallbackInv'
  BY SMTT(60), <1>3, <1>4, <1>5, <1>6 DEF MicInv, CallbackInv
<1>15. SeqInv'
  BY <1>3, <1>4, <1>5, <1>6 DEF MicInv, SeqInv
<1> QED
  BY <1>10, <1>13, <1>14, <1>15 DEF MicInv

\* The fold: with a capture open, its slot is armed and not muted, so the indicator says Live.
LEMMA FoldStep ==
  ASSUME MicInv, fold
  PROVE  MicInv'
<1> DEFINE slots == {s \in MicSlots : micArmed(facts[s])}
           live == {s \in slots : ~facts[s].muted}
<1>t. /\ entries \in [MicSlots -> Entries] /\ facts \in [MicSlots -> Facts]
      /\ main \in Reconciles
  BY DEF MicInv, MicTypes
<1>1. /\ armed' = [slots |-> slots, capturing |-> Cardinality(live)]
      /\ indicator' = micIndicatorFor(slots, Cardinality(live))
  BY Zenon DEF fold
<1>2. main.pc = "fold" /\ UNCHANGED <<entries, nextSeq, audio, sent>>
  BY Zenon DEF fold
<1>3. IsFiniteSet(live) /\ Cardinality(live) \in Nat /\ (Cardinality(live) = 0 <=> live = {})
  <2>1. live \subseteq MicSlots
    OBVIOUS
  <2> HIDE DEF live
  <2> QED
    BY <2>1, MicAssumption, FS_Subset, FS_CardinalityType, FS_EmptySet
<1>4. armed' \in ArmedFolds
  <2>1. slots \in SUBSET MicSlots
    OBVIOUS
  <2> HIDE DEF slots, live
  <2> QED
    BY <1>1, <1>3, <2>1 DEF ArmedFolds
<1>5. CASE main.orders = {}
  <2>1. main' = resting /\ UNCHANGED facts
    BY Zenon, <1>5 DEF fold
  <2>2. main'.pc = "idle" /\ main' \in Reconciles
    BY <2>1 DEF resting, Reconciles
  <2>3. MicTypes'
    BY <1>2, <1>4, <2>1, <2>2 DEF MicInv, MicTypes
  <2>4. ASSUME NEW s \in MicSlots, entries[s].device # NoCapture PROVE indicator' = "Live"
    <3>1. micArmed(facts[s]) /\ ~facts[s].muted
      BY <1>2, <2>4 DEF MicInv, MainInv, micCaptureEligible
    <3>2. s \in slots /\ s \in live
      BY <3>1
    <3> HIDE DEF slots, live
    <3> QED
      BY <1>1, <1>3, <3>2 DEF micIndicatorFor
  <2>5. MainInv'
    <3>1. \A s \in MicSlots : micCaptureEligible(facts[s])' = micCaptureEligible(facts[s])
      BY <2>1 DEF micCaptureEligible, micArmed
    <3> QED
      BY <1>2, <2>1, <2>2, <2>4, <3>1 DEF MicInv, MainInv
  <2>6. CallbackInv' /\ SeqInv'
    BY <1>2 DEF MicInv, CallbackInv, SeqInv
  <2> QED
    BY <2>3, <2>5, <2>6 DEF MicInv
<1>6. CASE main.orders # {}
  <2>1. PICK s \in main.orders : setSlotMicMuted(s, main.mute, main.orders \ {s})
    BY Zenon, <1>6 DEF fold
  <2>2. s \in MicSlots /\ main.orders \ {s} \in SUBSET MicSlots /\ main.mute \in BOOLEAN
    BY <1>t DEF Reconciles
  <2>3. facts' = [facts EXCEPT ![s].muted = main.mute] /\ reconcileAudioEngines(facts', main.orders \ {s}, main.mute)
    BY Zenon, <2>1 DEF setSlotMicMuted
  <2>4. facts' \in [MicSlots -> Facts]
    BY Zenon, <1>t, <2>2, <2>3, MutedFacts
  <2> QED
    BY Zenon, <1>2, <1>4, <2>2, <2>3, <2>4, ReconcileStep
<1> QED
  BY <1>5, <1>6

\* A chunk of an enabled capture starts a callback.
LEMMA ChunkStep ==
  ASSUME MicInv, NEW s \in MicSlots, chunk(s)
  PROVE  MicInv'
<1>t. audio \in [MicSlots -> Callbacks]
  BY DEF MicInv, MicTypes
<1>1. PICK w \in 1 .. MaxChunk : audio' = [audio EXCEPT ![s] = [windows |-> w, pc |-> "check"]]
  BY Zenon DEF chunk
<1>2. entries[s].device # NoCapture /\ UNCHANGED <<facts, entries, nextSeq, main, indicator, armed, sent>>
  BY Zenon DEF chunk
<1>3. w \in Nat \ {0}
  OBVIOUS
<1>4. [windows |-> w, pc |-> "check"] \in Callbacks
  BY <1>3 DEF Callbacks
<1>5. audio' \in [MicSlots -> Callbacks]
  BY <1>t, <1>1, <1>4
<1>6. audio'[s].pc = "check" /\ \A r \in MicSlots : r # s => audio'[r] = audio[r]
  BY <1>t, <1>1
<1>7. MicTypes'
  BY SMTT(60), <1>2, <1>5 DEF MicInv, MicTypes
<1>8. MainInv' /\ SeqInv'
  BY SMTT(60), <1>2 DEF MicInv, MainInv, SeqInv, micCaptureEligible, micArmed
<1>9. CallbackInv'
  BY <1>2, <1>6 DEF MicInv, CallbackInv
<1> QED
  BY <1>7, <1>8, <1>9 DEF MicInv

\* What is left of a chunk: the callback ends, or goes on at its next step.
LEMMA StepEffect ==
  ASSUME NEW s \in MicSlots, NEW n \in Nat, NEW pc \in {"check", "send"}, Step(s, n, pc),
         audio \in [MicSlots -> Callbacks]
  PROVE  /\ audio' \in [MicSlots -> Callbacks]
         /\ audio'[s] = quiet \/ audio'[s].pc = pc
         /\ \A r \in MicSlots : r # s => audio'[r] = audio[r]
<1> DEFINE a == IF n = 0 THEN quiet ELSE [windows |-> n, pc |-> pc]
<1>1. audio' = [audio EXCEPT ![s] = a]
  BY Zenon DEF Step
<1>2. a \in Callbacks /\ (a = quiet \/ a.pc = pc)
  BY DEF Callbacks
<1> HIDE DEF a
<1> QED
  BY <1>1, <1>2

\* The check before a window: it goes on to the send only while the capture is enabled.
LEMMA CheckStep ==
  ASSUME MicInv, NEW s \in MicSlots, checkWindow(s)
  PROVE  MicInv'
<1>t. audio \in [MicSlots -> Callbacks] /\ audio[s] \in Callbacks
  BY DEF MicInv, MicTypes
<1>1. audio[s].pc = "check" /\ UNCHANGED <<facts, entries, nextSeq, main, indicator, armed, sent>>
  BY Zenon DEF checkWindow
<1>2. audio[s] # quiet /\ audio[s].windows \in Nat /\ audio[s].windows - 1 \in Nat
  BY <1>t, <1>1 DEF Callbacks, quiet
<1>3. /\ audio' \in [MicSlots -> Callbacks]
      /\ \A r \in MicSlots : r # s => audio'[r] = audio[r]
      /\ entries[s].enabled \/ audio'[s].pc # "send"
  <2>1. CASE entries[s].enabled
    <3>1. Step(s, audio[s].windows, "send")
      BY Zenon, <2>1 DEF checkWindow
    <3> QED
      BY Zenon, <1>t, <1>2, <2>1, <3>1, StepEffect
  <2>2. CASE ~entries[s].enabled
    <3>1. Step(s, audio[s].windows - 1, "check")
      BY Zenon, <2>2 DEF checkWindow
    <3>2. audio' \in [MicSlots -> Callbacks] /\ (audio'[s] = quiet \/ audio'[s].pc = "check")
          /\ \A r \in MicSlots : r # s => audio'[r] = audio[r]
      BY <1>t, <1>2, <3>1, StepEffect
    <3> QED
      BY <3>2 DEF quiet
  <2> QED
    BY <2>1, <2>2
<1>4. MicTypes'
  BY <1>1, <1>3 DEF MicInv, MicTypes
<1>5. MainInv' /\ SeqInv'
  BY <1>1 DEF MicInv, MainInv, SeqInv, micCaptureEligible, micArmed
<1>6. CallbackInv'
  BY <1>1, <1>2, <1>3 DEF MicInv, CallbackInv
<1> QED
  BY <1>4, <1>5, <1>6 DEF MicInv

\* What a send writes into a slot's entry.
Advanced(r, n, m) == [r EXCEPT !.seq = n, !.tail = m]

\* Neither its device nor its flag.
LEMMA EntryAdvanced ==
  ASSUME NEW r \in Entries, NEW n \in Nat, NEW m \in Nat
  PROVE  /\ Advanced(r, n, m) \in Entries
         /\ Advanced(r, n, m).device = r.device /\ Advanced(r, n, m).enabled = r.enabled
         /\ Advanced(r, n, m).seq = n /\ Advanced(r, n, m).tail = m
  BY Zenon DEF Entries, Advanced

\* The send of a window: its seq is above all before it, and a late one is the last.
LEMMA SendStep ==
  ASSUME MicInv, NEW s \in MicSlots, sendWindow(s)
  PROVE  MicInv'
<1>t. /\ audio \in [MicSlots -> Callbacks] /\ audio[s] \in Callbacks
      /\ entries \in [MicSlots -> Entries] /\ entries[s] \in Entries
      /\ sent \in [MicSlots -> [1..2 -> Nat]] /\ sent[s] \in [1..2 -> Nat]
  BY DEF MicInv, MicTypes
<1>p. audio[s].pc = "send"
  BY Zenon DEF sendWindow
<1>1. Step(s, audio[s].windows - 1, "check") /\ UNCHANGED <<facts, nextSeq, main, indicator, armed>>
  BY Zenon DEF sendWindow
<1>2. audio[s] # quiet /\ audio[s].windows \in Nat /\ audio[s].windows - 1 \in Nat
  BY <1>t, <1>p DEF Callbacks, quiet
<1>3. /\ audio' \in [MicSlots -> Callbacks] /\ (audio'[s] = quiet \/ audio'[s].pc = "check")
      /\ \A r \in MicSlots : r # s => audio'[r] = audio[r]
  BY <1>t, <1>1, <1>2, StepEffect
<1>4. PICK encoded \in BOOLEAN :
           /\ sent' = IF encoded THEN [sent EXCEPT ![s] = <<entries[s].seq + 1, sent[s][1]>>] ELSE sent
           /\ entries' = [entries EXCEPT ![s].seq = entries[s].seq + 1,
                            ![s].tail = IF encoded /\ ~entries[s].enabled THEN entries[s].tail + 1 ELSE entries[s].tail]
  BY Zenon, <1>t DEF sendWindow
<1> DEFINE late == IF encoded /\ ~entries[s].enabled THEN entries[s].tail + 1 ELSE entries[s].tail
           e == Advanced(entries[s], entries[s].seq + 1, late)
<1>l. late \in Nat /\ (late = entries[s].tail \/ (~entries[s].enabled /\ late = entries[s].tail + 1))
  BY <1>t DEF Entries
<1>m. entries' = [entries EXCEPT ![s].seq = entries[s].seq + 1, ![s].tail = late]
  BY Zenon, <1>4
<1> HIDE DEF late
<1>5. entries' = [entries EXCEPT ![s] = e]
  BY Zenon, <1>t, <1>m DEF Advanced
<1>n. entries[s].seq + 1 \in Nat
  BY <1>t DEF Entries
<1>6. /\ e \in Entries /\ e.device = entries[s].device /\ e.enabled = entries[s].enabled
      /\ e.seq = entries[s].seq + 1 /\ e.tail = late
  <2> DEFINE x == entries[s]
             n == x.seq + 1
  <2>1. x \in Entries /\ n \in Nat /\ late \in Nat
    BY <1>t, <1>l, <1>n
  <2> HIDE DEF n
  <2>2. /\ Advanced(x, n, late) \in Entries
        /\ Advanced(x, n, late).device = x.device /\ Advanced(x, n, late).enabled = x.enabled
        /\ Advanced(x, n, late).seq = n /\ Advanced(x, n, late).tail = late
    <3> HIDE DEF x
    <3> QED
      BY <2>1, EntryAdvanced
  <2> QED
    BY Zenon, <2>2 DEF n
<1> HIDE DEF e
<1>7. entries' \in [MicSlots -> Entries] /\ entries'[s] = e /\ \A r \in MicSlots : r # s => entries'[r] = entries[r]
  BY <1>t, <1>5, <1>6
<1>8. /\ entries'[s].device = entries[s].device /\ entries'[s].enabled = entries[s].enabled
      /\ entries'[s].seq = entries[s].seq + 1
      /\ entries'[s].tail = entries[s].tail \/ (~entries[s].enabled /\ entries'[s].tail = entries[s].tail + 1)
  BY Zenon, <1>l, <1>6, <1>7
<1>9. <<entries[s].seq + 1, sent[s][1]>> \in [1..2 -> Nat]
  BY <1>t DEF Entries
<1>10. sent' \in [MicSlots -> [1..2 -> Nat]] /\ \A r \in MicSlots : r # s => sent'[r] = sent[r]
  BY <1>t, <1>4, <1>9
<1>11. (sent'[s][1] = entries[s].seq + 1 /\ sent'[s][2] = sent[s][1]) \/ sent'[s] = sent[s]
  BY <1>t, <1>4
<1>12. entries[s].device # NoCapture
  BY <1>2 DEF MicInv, CallbackInv
<1>13. MicTypes'
  BY <1>1, <1>3, <1>7, <1>10 DEF MicInv, MicTypes
<1>14. MainInv'
  <2>1. \A r \in MicSlots : entries'[r].device = entries[r].device
    BY <1>7, <1>8
  <2> QED
    BY <1>1, <2>1 DEF MicInv, MainInv, micCaptureEligible, micArmed
<1>15. CallbackInv'
  <2>0. entries[s].tail \in Nat /\ entries[s].tail <= 1 /\ (entries[s].tail = 1 => audio[s].pc # "send")
    BY <1>t DEF MicInv, CallbackInv, Entries
  <2>1. entries[s].tail = 0
    BY <1>p, <2>0
  <2>2. audio'[s].pc # "send"
    BY <1>3 DEF quiet
  <2> QED
    BY <1>3, <1>7, <1>8, <1>12, <2>1, <2>2 DEF MicInv, CallbackInv
<1>16. SeqInv'
  <2>1. sent[s][1] <= entries[s].seq /\ entries[s].seq \in Nat /\ sent[s][1] \in Nat
    BY <1>t, <1>12 DEF MicInv, SeqInv, Entries
  <2>2. /\ sent'[s][1] <= entries'[s].seq /\ entries'[s].device # NoCapture
        /\ (sent'[s][1] = 0 /\ sent'[s][2] = 0) \/ sent'[s][1] > sent'[s][2]
    BY <1>8, <1>11, <1>12, <2>1 DEF MicInv, SeqInv
  <2> QED
    BY <1>1, <1>7, <1>10, <2>2 DEF MicInv, SeqInv
<1> QED
  BY <1>13, <1>14, <1>15, <1>16 DEF MicInv

-----------------------------------------------------------------------------
(* The microphone: results.                                                *)

\* The invariant behind a microphone's capture, for any slots and endpoints.
THEOREM MicInvariant == MicSpec => []MicInv
<1>1. MicInit => MicInv
  <2> SUFFICES ASSUME MicInit PROVE MicInv
    OBVIOUS
  <2>1. closed \in Entries /\ closed.device = NoCapture /\ closed.tail = 0
    BY DEF closed, Entries
  <2>2. MicTypes
    <3>1. facts \in [MicSlots -> Facts]
      BY DEF MicInit, Facts
    <3>2. entries \in [MicSlots -> Entries] /\ audio \in [MicSlots -> Callbacks] /\ nextSeq \in [MicSlots -> Nat]
      BY <2>1 DEF MicInit, Callbacks
    <3>3. main \in Reconciles
      BY DEF MicInit, resting, Reconciles
    <3>4. armed \in ArmedFolds
      BY DEF MicInit, ArmedFolds
    <3>5. sent \in [MicSlots -> [1..2 -> Nat]]
      BY DEF MicInit
    <3> QED
      BY <3>1, <3>2, <3>3, <3>4, <3>5 DEF MicTypes
  <2>3. \A s \in MicSlots : entries[s] = closed /\ audio[s] = quiet /\ sent[s] = <<0, 0>> /\ nextSeq[s] = 0
    BY DEF MicInit
  <2>4. MainInv
    BY <2>1, <2>3 DEF MicInit, MainInv, resting
  <2>5. CallbackInv
    BY <2>1, <2>3 DEF CallbackInv, quiet
  <2>6. SeqInv
    BY <2>1, <2>3 DEF SeqInv
  <2> QED
    BY <2>2, <2>4, <2>5, <2>6 DEF MicInv
<1>2. MicInv /\ [MicNext]_micVars => MicInv'
  <2> SUFFICES ASSUME MicInv, [MicNext]_micVars PROVE MicInv'
    OBVIOUS
  <2>1. CASE UNCHANGED micVars
    <3>1. UNCHANGED <<facts, entries, nextSeq, audio, main, indicator, armed, sent>>
      BY <2>1 DEF micVars
    <3>2. MicTypes'
      BY <3>1 DEF MicInv, MicTypes
    <3>3. MainInv' /\ CallbackInv' /\ SeqInv'
      BY <3>1 DEF MicInv, MainInv, CallbackInv, SeqInv, micCaptureEligible, micArmed
    <3> QED
      BY <3>2, <3>3 DEF MicInv
  <2>2. CASE MicNext
    BY Zenon, <2>2, FactsStep, AllSlotsStep, DisableStep, CloseStep, OpenStep, FoldStep, ChunkStep, CheckStep, SendStep
       DEF MicNext
  <2> QED
    BY <2>1, <2>2
<1> QED
  BY <1>1, <1>2, PTL DEF MicSpec

\* A microphone that is not eligible is not captured, the indicator says Live while one is, and a close that raced a
\* callback let at most one window through (MicCaptureEngine::close, WindowPublisher), for any slots, endpoints and
\* chunks.
THEOREM MutedIsSilentAlways == MicSpec => []MutedIsSilent
<1>1. MicInv => MutedIsSilent
  BY DEF MicInv, MainInv, CallbackInv, MutedIsSilent
<1> QED
  BY <1>1, MicInvariant, PTL

\* The seq of a slot's windows rises over all its captures (nextSeqBySlot_).
THEOREM SeqOnlyGrowsAlways == MicSpec => []SeqOnlyGrows
<1>1. MicInv => SeqOnlyGrows
  <2> SUFFICES ASSUME MicInv, NEW s \in MicSlots PROVE sent[s] = <<0, 0>> \/ sent[s][1] > sent[s][2]
    BY DEF SeqOnlyGrows
  <2>1. sent[s] \in [1..2 -> Nat]
    BY DEF MicInv, MicTypes
  <2>2. (sent[s][1] = 0 /\ sent[s][2] = 0) \/ sent[s][1] > sent[s][2]
    BY DEF MicInv, SeqInv
  <2>3. ASSUME sent[s][1] = 0, sent[s][2] = 0 PROVE sent[s] = <<0, 0>>
    BY <2>1, <2>3
  <2> QED
    BY <2>2, <2>3
<1> QED
  BY <1>1, MicInvariant, PTL

\* Both together, as the model is checked for them.
THEOREM MicIsHonestAlways == MicSpec => []MicIsHonest
  BY MutedIsSilentAlways, SeqOnlyGrowsAlways, PTL DEF MicIsHonest

=============================================================================
