---------------------------- MODULE SatelliteClient ----------------------------
(***************************************************************************)
(* Network/SatelliteClient: the encrypted link of one session with a       *)
(* satellite.  Two machines, each with its own Init and Next, over the     *)
(* session material that both read and a re-key replaces: the send path,   *)
(* and the receive path below it.                                          *)
(*                                                                         *)
(* The material is the token and the key of the wire session, atomic words *)
(* behind a sequence lock (core/thread/Seqlock.h), and the two counters    *)
(* that a re-key restarts with them.                                       *)
(*                                                                         *)
(* The writer is the GUI thread in setConnectionParams; readers are every  *)
(* sending thread and the receive thread.  A session PUT mints a fresh     *)
(* token and salt, so the material of two writes never coincides: a write  *)
(* is identified with the even generation it completes with.  The 36 bytes *)
(* of material take several words; two, which a reader can catch with      *)
(* values of different writes, stand for them: "token" is the first word,  *)
(* "key" the last.                                                         *)
(*                                                                         *)
(* Memory is sequentially consistent here.  The code's fences make it so   *)
(* for these variables: the release fence of beginWrite orders the odd     *)
(* generation before every store of the write, and the acquire fence of    *)
(* read orders the loads before the second look at the generation.         *)
(***************************************************************************)
EXTENDS Integers, Sequences, FiniteSets

CONSTANT MaxRekeys      \* bound: how often the GUI re-keys the session

ASSUME MaxRekeysAssumption == MaxRekeys \in Nat

VARIABLES gen,          \* Seqlock::gen_, odd while a write is open
          words,        \* material_: the write each word was stored by
          sendCounter,  \* sendCounter_, the next sequence to send
          recvMark,     \* recvMark_: generation in the high half, counter in the low
          writer        \* where the GUI thread is in setConnectionParams

materialVars == <<gen, words, sendCounter, recvMark, writer>>

WriterPlaces == {"idle", "token", "key", "counter", "mark", "end", "reset"}

\* A client is handed out only after its first setConnectionParams.
MaterialInit ==
  /\ gen = 2
  /\ words = [token |-> 2, key |-> 2]
  /\ sendCounter = 1
  /\ recvMark = [gen |-> 2, last |-> 0]
  /\ writer = "idle"

\* materialSeq_.beginWrite() under materialMtx_.
BeginWrite ==
  /\ writer = "idle"
  /\ gen < 2 * (MaxRekeys + 1)
  /\ gen' = gen + 1
  /\ writer' = "token"
  /\ UNCHANGED <<words, sendCounter, recvMark>>

\* material_.store, one word at a time.
StoreToken ==
  /\ writer = "token"
  /\ words' = [token |-> gen + 1, key |-> words.key]
  /\ writer' = "key"
  /\ UNCHANGED <<gen, sendCounter, recvMark>>

StoreKey ==
  /\ writer = "key"
  /\ words' = [token |-> words.token, key |-> gen + 1]
  /\ writer' = "counter"
  /\ UNCHANGED <<gen, sendCounter, recvMark>>

\* sendCounter_.store(1): the key rotated, so the nonces restart.
RestartSendCounter ==
  /\ writer = "counter"
  /\ sendCounter' = 1
  /\ writer' = "mark"
  /\ UNCHANGED <<gen, words, recvMark>>

\* recvMark_.store(written << 32): no packet of the new session seen yet.
RestartRecvMark ==
  /\ writer = "mark"
  /\ recvMark' = [gen |-> gen + 1, last |-> 0]
  /\ writer' = "end"
  /\ UNCHANGED <<gen, words, sendCounter>>

\* materialSeq_.endWrite().
EndWrite ==
  /\ writer = "end"
  /\ gen' = gen + 1
  /\ writer' = "reset"
  /\ UNCHANGED <<words, sendCounter, recvMark>>

WriteMaterial ==
  \/ BeginWrite \/ StoreToken \/ StoreKey
  \/ RestartSendCounter \/ RestartRecvMark \/ EndWrite

-----------------------------------------------------------------------------
(***************************************************************************)
(* The send path of SatelliteClient: sendEncrypted called concurrently by  *)
(* the input, heartbeat and microphone threads, against a re-key and a     *)
(* close of the socket on the GUI thread.                                  *)
(*                                                                         *)
(* Each sender copies the material under the sequence lock, and seals and  *)
(* sends inside the send gate.  The copy is validated twice: by the        *)
(* sequence lock when it is taken, and against the generation inside the   *)
(* gate, after the counter that makes the nonce was drawn.                 *)
(***************************************************************************)
CONSTANTS Senders,          \* threads that call sendEncrypted
          Gui,              \* the thread of setConnectionParams and closeSocket
          NoOwner,          \* the send gate is free
          kCounterWireMax,  \* the largest counter the wire field carries
          MaxSequence       \* bound: no send starts past this sequence

ASSUME SendAssumption ==
  /\ Gui \notin Senders
  /\ NoOwner \notin Senders \cup {Gui}
  /\ kCounterWireMax \in Nat \ {0}
  /\ MaxSequence \in Nat

VARIABLES sendGate,   \* the holder of sendGate_
          sock,       \* sock_: TRUE while it holds the handle
          handleOpen, \* the handle has not been given to closesocket
          place,      \* place[s]: where thread s is in sendEncrypted
          generation, \* generation[s]: the generation s loaded first
          before,     \* before[s]: the generation at the start of its seqlock read
          copy,       \* copy[s]: the words s copied
          ctr,        \* ctr[s]: the sequence s drew from sendCounter_
          closing,    \* where the GUI thread is in closeSocket
          wire        \* history: the datagrams handed to sendto, in order

senderVars == <<place, generation, before, copy, ctr>>
socketVars == <<sock, handleOpen, closing>>
vars == <<materialVars, senderVars, socketVars, sendGate, wire>>

SenderPlaces ==
  {"idle", "read", "token", "key", "validate", "gate", "draw", "check",
   "sendto", "release"}

GatePlaces == {"draw", "check", "sendto", "release"}

Init ==
  /\ MaterialInit
  /\ sendGate = NoOwner
  /\ sock = TRUE
  /\ handleOpen = TRUE
  /\ place = [s \in Senders |-> "idle"]
  /\ generation = [s \in Senders |-> 0]
  /\ before = [s \in Senders |-> 0]
  /\ copy = [s \in Senders |-> [token |-> 0, key |-> 0]]
  /\ ctr = [s \in Senders |-> 0]
  /\ closing = "open"
  /\ wire = <<>>

Step(s, from, to) ==
  /\ place[s] = from
  /\ place' = [place EXCEPT ![s] = to]

\* The early return without a socket, then readMaterial's first load.
LoadGeneration(s) ==
  /\ Step(s, "idle", "read")
  /\ sock
  /\ sendCounter <= MaxSequence
  /\ generation' = [generation EXCEPT ![s] = gen]
  /\ UNCHANGED <<materialVars, socketVars, before, copy, ctr, sendGate, wire>>

\* Seqlock::read: an open write fails the read and drops the message.
StartRead(s) ==
  /\ Step(s, "read", IF gen % 2 = 1 THEN "idle" ELSE "token")
  /\ before' = [before EXCEPT ![s] = gen]
  /\ UNCHANGED <<materialVars, socketVars, generation, copy, ctr, sendGate, wire>>

CopyToken(s) ==
  /\ Step(s, "token", "key")
  /\ copy' = [copy EXCEPT ![s] = [token |-> words.token, key |-> 0]]
  /\ UNCHANGED <<materialVars, socketVars, generation, before, ctr, sendGate, wire>>

CopyKey(s) ==
  /\ Step(s, "key", "validate")
  /\ copy' = [copy EXCEPT ![s] = [token |-> copy[s].token, key |-> words.key]]
  /\ UNCHANGED <<materialVars, socketVars, generation, before, ctr, sendGate, wire>>

\* The read's second look at the generation: a torn copy is dropped.
ValidateRead(s) ==
  /\ Step(s, "validate", IF gen = before[s] THEN "gate" ELSE "idle")
  /\ UNCHANGED <<materialVars, socketVars, generation, before, copy, ctr, sendGate, wire>>

\* holdSendGate: the compare-exchange spins until the gate is free.
HoldGate(s) ==
  /\ Step(s, "gate", "draw")
  /\ sendGate = NoOwner
  /\ sendGate' = s
  /\ UNCHANGED <<materialVars, socketVars, generation, before, copy, ctr, wire>>

\* sendCounter_.fetch_add, and wireSendCounter: past the largest counter the
\* wire carries there is none, and nothing is sent.
DrawCounter(s) ==
  /\ Step(s, "draw", IF sendCounter <= kCounterWireMax THEN "check" ELSE "release")
  /\ ctr' = [ctr EXCEPT ![s] = sendCounter]
  /\ sendCounter' = sendCounter + 1
  /\ UNCHANGED <<gen, words, recvMark, writer, socketVars, generation, before,
                 copy, sendGate, wire>>

\* A mutant: the material is not compared again after the draw.
CheckInGateSkipped(s) ==
  /\ Step(s, "check", IF sock THEN "sendto" ELSE "release")
  /\ UNCHANGED <<materialVars, socketVars, generation, before, copy, ctr, sendGate, wire>>

\* The handle loaded inside the gate, and the material still the one copied.
CheckInGate(s) ==
  /\ Step(s, "check", IF sock /\ gen = generation[s] THEN "sendto" ELSE "release")
  /\ UNCHANGED <<materialVars, socketVars, generation, before, copy, ctr, sendGate, wire>>

\* encryptPacket under the copied key with the drawn counter, then sendto.  A
\* full send buffer drops the datagram, as the network may.
Send(s) ==
  /\ Step(s, "sendto", "release")
  /\ wire' = Append(wire, [token |-> copy[s].token, key |-> copy[s].key, ctr |-> ctr[s]])
  /\ UNCHANGED <<materialVars, socketVars, generation, before, copy, ctr, sendGate>>

ReleaseGate(s) ==
  /\ Step(s, "release", "idle")
  /\ sendGate' = NoOwner
  /\ UNCHANGED <<materialVars, socketVars, generation, before, copy, ctr, wire>>

-----------------------------------------------------------------------------
(* The GUI thread: one operation at a time, a re-key or the close.         *)

Rekey ==
  /\ closing = "open"
  /\ WriteMaterial
  /\ UNCHANGED <<senderVars, socketVars, sendGate, wire>>

\* The stores that follow the write touch nothing the send path reads.
FinishRekey ==
  /\ writer = "reset"
  /\ writer' = "idle"
  /\ UNCHANGED <<gen, words, sendCounter, recvMark, senderVars, socketVars, sendGate, wire>>

\* A mutant: the handle is swapped out without holding the send gate.
CloseHoldGateSkipped ==
  /\ closing = "open" /\ writer = "idle"
  /\ closing' = "swap"
  /\ UNCHANGED <<materialVars, senderVars, sock, handleOpen, sendGate, wire>>

CloseHoldGate ==
  /\ closing = "open" /\ writer = "idle"
  /\ sendGate = NoOwner
  /\ sendGate' = Gui
  /\ closing' = "swap"
  /\ UNCHANGED <<materialVars, senderVars, sock, handleOpen, wire>>

CloseSwap ==
  /\ closing = "swap"
  /\ sock' = FALSE
  /\ closing' = "release"
  /\ UNCHANGED <<materialVars, senderVars, handleOpen, sendGate, wire>>

CloseReleaseGate ==
  /\ closing = "release"
  /\ sendGate' = NoOwner
  /\ closing' = "closesocket"
  /\ UNCHANGED <<materialVars, senderVars, sock, handleOpen, wire>>

CloseHandle ==
  /\ closing = "closesocket"
  /\ handleOpen' = FALSE
  /\ closing' = "closed"
  /\ UNCHANGED <<materialVars, senderVars, sock, sendGate, wire>>

closeSocket == CloseHoldGate \/ CloseSwap \/ CloseReleaseGate \/ CloseHandle

sendEncrypted(s) ==
  \/ LoadGeneration(s) \/ StartRead(s) \/ CopyToken(s) \/ CopyKey(s) \/ ValidateRead(s)
  \/ HoldGate(s) \/ DrawCounter(s) \/ CheckInGate(s) \/ Send(s) \/ ReleaseGate(s)

Next ==
  \/ Rekey \/ FinishRekey \/ closeSocket
  \/ \E s \in Senders : sendEncrypted(s)

Spec == Init /\ [][Next]_vars

-----------------------------------------------------------------------------
(* Properties                                                              *)

Datagram == [token : Nat, key : Nat, ctr : Nat]

\* The type invariant: generations, counters and the places of the threads.
TypeOK ==
  /\ gen \in Nat
  /\ words \in [token : Nat, key : Nat]
  /\ sendCounter \in Nat \ {0}
  /\ recvMark \in [gen : Nat, last : Nat]
  /\ writer \in WriterPlaces
  /\ sendGate \in Senders \cup {Gui, NoOwner}
  /\ sock \in BOOLEAN
  /\ handleOpen \in BOOLEAN
  /\ place \in [Senders -> SenderPlaces]
  /\ generation \in [Senders -> Nat]
  /\ before \in [Senders -> Nat]
  /\ copy \in [Senders -> [token : Nat, key : Nat]]
  /\ ctr \in [Senders -> Nat]
  /\ closing \in {"open", "swap", "release", "closesocket", "closed"}
  /\ wire \in Seq(Datagram)

\* Order of datagrams: by session key, then by counter.
Precedes(d, e) == d.key < e.key \/ (d.key = e.key /\ d.ctr < e.ctr)

\* Every datagram on the wire comes strictly after all the earlier ones in
\* (key, counter) order.  So no (key, counter) pair, which is the AEAD nonce,
\* is ever used twice, and the satellite's replay window never sees a counter
\* go back within a session, whatever re-keys race the sending threads.
WireInOrder ==
  \A i, j \in 1 .. Len(wire) : i < j => Precedes(wire[i], wire[j])

\* A datagram is headed by the token and sealed under the key of one and the
\* same write of the material: a send that raced a re-key is dropped, never
\* sealed under a mix of two sessions.
SealedUnderOneWrite ==
  \A i \in 1 .. Len(wire) : wire[i].token = wire[i].key

\* The counter on the wire fits its field: past exhaustion the session goes
\* silent rather than wrap.
NeverWraps ==
  \A i \in 1 .. Len(wire) : wire[i].ctr \in 1 .. kCounterWireMax

\* No thread is about to call sendto on a handle already given to closesocket,
\* which Windows may have reused for something else by then.
NoSendOnClosedHandle ==
  \A s \in Senders : place[s] = "sendto" => handleOpen

\* What sendto is given, in a race with a re-key and with a close: a datagram sealed
\* whole, with a counter that fits, on a handle that is open.
SendsWhole == SealedUnderOneWrite /\ NeverWraps /\ NoSendOnClosedHandle

-----------------------------------------------------------------------------
(***************************************************************************)
(* Opening what the satellite sends: decryptIncoming on the receive thread *)
(* of SatelliteClient, against a re-key on the GUI thread.                 *)
(*                                                                         *)
(* The network may lose, reorder and duplicate: the receive thread may     *)
(* take any datagram of `sent', any number of times.  A session of the     *)
(* satellite is named by the generation of the write that installs it      *)
(* here.  What an accepted datagram then does is SatelliteHeartbeat's.     *)
(***************************************************************************)
CONSTANT MaxDatagrams   \* bound: datagrams the satellite sends per session

ASSUME ReceiveAssumption == MaxDatagrams \in Nat

VARIABLES hostSession,        \* the session the satellite sends under
          sent,               \* the datagrams it has sent
          receivePlace,       \* where the receive thread is in decryptIncoming
          packet,             \* the datagram in its buffer
          receiveGeneration,  \* its `generation', of readMaterial
          receiveBefore,      \* the generation at the start of its seqlock read
          receiveCopy,        \* the words it copied
          mark,               \* its `mark', the recvMark_ it loaded
          accepted            \* history: the datagrams that passed decryptIncoming

receiverVars == <<receivePlace, packet, receiveGeneration, receiveBefore, receiveCopy, mark, accepted>>
hostVars == <<hostSession, sent>>
receiveVars == <<materialVars, receiverVars, hostVars>>

ReceiveInit ==
  /\ MaterialInit
  /\ hostSession = gen
  /\ sent = {}
  /\ receivePlace = "idle"
  /\ packet = [session |-> 0, ctr |-> 0]
  /\ receiveGeneration = 0
  /\ receiveBefore = 0
  /\ receiveCopy = [token |-> 0, key |-> 0]
  /\ mark = [gen |-> 0, last |-> 0]
  /\ accepted = <<>>

-----------------------------------------------------------------------------
(* The satellite (external): a PUT moves it to a fresh session, and its    *)
(* counter counts up from 1 within one.                                    *)

HostRekey ==
  /\ writer = "idle" /\ hostSession = gen
  /\ gen < 2 * (MaxRekeys + 1)
  /\ hostSession' = gen + 2
  /\ UNCHANGED <<materialVars, receiverVars, sent>>

HostSend ==
  LET ofSession == {p \in sent : p.session = hostSession}
  IN /\ Cardinality(ofSession) < MaxDatagrams
     /\ sent' = sent \cup {[session |-> hostSession, ctr |-> Cardinality(ofSession) + 1]}
     /\ UNCHANGED <<materialVars, receiverVars, hostSession>>

-----------------------------------------------------------------------------
(* The receive thread                                                      *)

ReceiveStep(from, to) == receivePlace = from /\ receivePlace' = to

\* recvfrom, and readMaterial's load of the generation.
ReceiveDatagram ==
  /\ ReceiveStep("idle", "read")
  /\ \E p \in sent : packet' = p
  /\ receiveGeneration' = gen
  /\ UNCHANGED <<materialVars, receiveBefore, receiveCopy, mark, accepted, hostVars>>

\* Seqlock::read: an open write fails the read and drops the datagram.
ReceiveStart ==
  /\ ReceiveStep("read", IF gen % 2 = 1 THEN "idle" ELSE "token")
  /\ receiveBefore' = gen
  /\ UNCHANGED <<materialVars, packet, receiveGeneration, receiveCopy, mark, accepted, hostVars>>

ReceiveToken ==
  /\ ReceiveStep("token", "key")
  /\ receiveCopy' = [token |-> words.token, key |-> 0]
  /\ UNCHANGED <<materialVars, packet, receiveGeneration, receiveBefore, mark, accepted, hostVars>>

ReceiveKey ==
  /\ ReceiveStep("key", "validate")
  /\ receiveCopy' = [token |-> receiveCopy.token, key |-> words.key]
  /\ UNCHANGED <<materialVars, packet, receiveGeneration, receiveBefore, mark, accepted, hostVars>>

\* The read's second look at the generation, then the comparison of tokens.
ReceiveValidate ==
  /\ ReceiveStep("validate", IF gen = receiveBefore /\ packet.session = receiveCopy.token THEN "mark" ELSE "idle")
  /\ UNCHANGED <<materialVars, packet, receiveGeneration, receiveBefore, receiveCopy, mark, accepted, hostVars>>

\* The mark is of the generation read, the counter is past it, and the body
\* authenticates, which it does under its own session's key alone.
LoadMark ==
  /\ ReceiveStep("mark",
          IF /\ recvMark.gen = receiveGeneration
             /\ recvMark.last = 0 \/ packet.ctr > recvMark.last
             /\ packet.session = receiveCopy.key
          THEN "accept" ELSE "idle")
  /\ mark' = recvMark
  /\ UNCHANGED <<materialVars, packet, receiveGeneration, receiveBefore, receiveCopy, accepted, hostVars>>

\* A mutant: the exchange compares the counter half of the mark only.
AcceptMarkByCounter ==
  /\ ReceiveStep("accept", "idle")
  /\ IF recvMark.last = mark.last
     THEN /\ recvMark' = [gen |-> recvMark.gen, last |-> packet.ctr]
          /\ accepted' = Append(accepted, packet)
     ELSE UNCHANGED <<recvMark, accepted>>
  /\ UNCHANGED <<gen, words, sendCounter, writer, packet, receiveGeneration, receiveBefore, receiveCopy,
                 mark, hostVars>>

\* The compare-exchange of recvMark_: a re-key since the load drops the datagram.
AcceptMark ==
  /\ ReceiveStep("accept", "idle")
  /\ IF recvMark = mark
     THEN /\ recvMark' = [gen |-> receiveGeneration, last |-> packet.ctr]
          /\ accepted' = Append(accepted, packet)
     ELSE UNCHANGED <<recvMark, accepted>>
  /\ UNCHANGED <<gen, words, sendCounter, writer, packet, receiveGeneration, receiveBefore, receiveCopy,
                 mark, hostVars>>

decryptIncoming ==
  ReceiveStart \/ ReceiveToken \/ ReceiveKey \/ ReceiveValidate \/ LoadMark \/ AcceptMark

-----------------------------------------------------------------------------
(* The GUI thread: adoptRekey calls setConnectionParams with the receive   *)
(* thread running, on the reply of the PUT that re-keyed the satellite.    *)

AdoptRekey ==
  /\ writer = "idle" => hostSession = gen + 2
  /\ WriteMaterial
  /\ UNCHANGED <<receiverVars, hostVars>>

\* The stores that follow the write are SatelliteHeartbeat's.
FinishAdopt ==
  /\ writer = "reset"
  /\ writer' = "idle"
  /\ UNCHANGED <<gen, words, sendCounter, recvMark, receiverVars, hostVars>>

ReceiveNext ==
  \/ HostRekey \/ HostSend
  \/ ReceiveDatagram \/ decryptIncoming
  \/ AdoptRekey \/ FinishAdopt

ReceiveSpec == ReceiveInit /\ [][ReceiveNext]_receiveVars

-----------------------------------------------------------------------------
(* Properties                                                              *)

\* Order of datagrams: by session, then by counter.
Earlier(p, q) == p.session < q.session \/ (p.session = q.session /\ p.ctr < q.ctr)

\* Datagrams are accepted in strictly rising (session, counter) order, so none is
\* acted on twice, and none of a replaced session after one of its successor,
\* whatever the network does.
Rising == \A i, j \in 1 .. Len(accepted) : i < j => Earlier(accepted[i], accepted[j])

\* The replay mark only ever holds a counter that the satellite used in the
\* mark's own session: a datagram of the session left behind, still being opened
\* when the re-key lands, cannot raise the fresh session's mark and deafen it.
MarkOfItsSession ==
  recvMark.last # 0 => [session |-> recvMark.gen, ctr |-> recvMark.last] \in sent

\* Replay protection across re-keys, both halves of what decryptIncoming's
\* compare-exchange of recvMark_ is for.
AcceptedInOrder == Rising /\ MarkOfItsSession

===============================================================================
