-------------------------- MODULE SatelliteHeartbeat --------------------------
(***************************************************************************)
(* What SatelliteClient tells the GUI about its session: misses counted    *)
(* and pings timed by the heartbeat thread, acks and SESSION_CLOSE applied *)
(* by the receive thread, and every field reset by setConnectionParams on  *)
(* the GUI thread while both run.  The fields are independent relaxed      *)
(* atomics: each store is a step of its own.                               *)
(*                                                                         *)
(* SatelliteClient says which datagrams are accepted: each once, and only  *)
(* under the session of the replay mark.  So here a re-key is one step     *)
(* that moves `session', and an accepted datagram is of the session it is  *)
(* accepted under.  Its dispatch comes later.                              *)
(***************************************************************************)
EXTENDS Naturals

CONSTANTS kHeartbeatMissMax,  \* misses in a row that declare the session dead
          MaxDatagrams,       \* bound: datagrams accepted
          MaxRekeys           \* bound: re-keys

VARIABLES session,      \* the session of the material and of the replay mark
          arrived,      \* datagrams accepted so far
          writer,       \* where the GUI thread is in setConnectionParams
          rplace,       \* where the receive thread is in dispatchIncoming
          rsession,     \* the session of the datagram it dispatches
          stamp,        \* its `sent', the ping stamp taken by recordAckLatency
          hplace,       \* where the heartbeat thread is in heartbeatLoop
          hsession,     \* the session its last ping was sent under
          missedAcks, connectionAlive,
          ackState,     \* serverEpoch_ and its kin: the session of the ack, or None
          closeReason,  \* sessionCloseReason_: the session of the close, or None
          pingSent,     \* pingSentUs_: the session of the ping it times, or None
          samples       \* latencySamples_ and latencyWindow_, as [ping, ack] sessions

receiverVars == <<rplace, rsession, stamp>>
heartbeatVars == <<hplace, hsession>>
guiVars == <<session, arrived, writer>>
statusVars == <<missedAcks, connectionAlive, ackState, closeReason, pingSent, samples>>
vars == <<guiVars, receiverVars, heartbeatVars, statusVars>>

None == 0               \* -1 in the code, or 0 for the ping stamp

\* After the first setConnectionParams, startHeartbeat and startReceiveLoop.
Init ==
  /\ session = 1
  /\ arrived = 0
  /\ writer = "idle"
  /\ rplace = "idle"
  /\ rsession = None
  /\ stamp = None
  /\ hplace = "ping"
  /\ hsession = None
  /\ missedAcks = 0
  /\ connectionAlive = TRUE
  /\ ackState = None
  /\ closeReason = None
  /\ pingSent = None
  /\ samples = {}

-----------------------------------------------------------------------------
(* The receive thread                                                      *)

\* A datagram passes decryptIncoming; the kind decides which handler runs.
Accept(kind) ==
  /\ rplace = "idle"
  /\ arrived < MaxDatagrams
  /\ arrived' = arrived + 1
  /\ rplace' = kind
  /\ rsession' = session
  /\ UNCHANGED <<session, writer, stamp, heartbeatVars, statusVars>>

RStep(from, to) ==
  /\ rplace = from /\ rplace' = to
  /\ UNCHANGED <<guiVars, rsession, heartbeatVars>>

\* recordAckLatency: the stamp is exchanged for none.
TakeStamp ==
  /\ RStep("ack", IF pingSent = None THEN "missed" ELSE "sample")
  /\ stamp' = pingSent
  /\ pingSent' = None
  /\ UNCHANGED <<missedAcks, connectionAlive, ackState, closeReason, samples>>

\* The sample joins the ring; one past the loss cap is dropped by the window.
PushSample ==
  /\ RStep("sample", "missed")
  /\ samples' \in {samples, samples \cup {[ping |-> stamp, ack |-> rsession]}}
  /\ UNCHANGED <<stamp, missedAcks, connectionAlive, ackState, closeReason, pingSent>>

AckClearsMisses ==
  /\ RStep("missed", "alive")
  /\ missedAcks' = 0
  /\ UNCHANGED <<stamp, connectionAlive, ackState, closeReason, pingSent, samples>>

AckRevives ==
  /\ RStep("alive", "state")
  /\ connectionAlive' = TRUE
  /\ UNCHANGED <<stamp, missedAcks, ackState, closeReason, pingSent, samples>>

\* Epoch, bitmap, backend and controller count of an enriched ack; a bare one
\* does not parse and is only proof of life.
AckState ==
  /\ RStep("state", "idle")
  /\ ackState' \in {ackState, rsession}
  /\ UNCHANGED <<stamp, missedAcks, connectionAlive, closeReason, pingSent, samples>>

CloseStoresReason ==
  /\ RStep("close", "dead")
  /\ closeReason' = rsession
  /\ UNCHANGED <<stamp, missedAcks, connectionAlive, ackState, pingSent, samples>>

CloseEndsLife ==
  /\ RStep("dead", "idle")
  /\ connectionAlive' = FALSE
  /\ UNCHANGED <<stamp, missedAcks, ackState, closeReason, pingSent, samples>>

onHeartbeatAck == TakeStamp \/ PushSample \/ AckClearsMisses \/ AckRevives \/ AckState

onSessionClose == CloseStoresReason \/ CloseEndsLife

dispatchIncoming == onHeartbeatAck \/ onSessionClose

-----------------------------------------------------------------------------
(* The heartbeat thread                                                    *)

HStep(from, to) ==
  /\ hplace = from /\ hplace' = to
  /\ UNCHANGED <<guiVars, receiverVars>>

\* sendEncrypted of the ping.
SendPing ==
  /\ HStep("ping", "look")
  /\ hsession' = session
  /\ UNCHANGED statusVars

\* shouldArmPing on the loaded stamp: none in flight, or one past the loss cap.
LookAtStamp ==
  /\ \/ HStep("look", "arm")
     \/ pingSent # None /\ HStep("look", "count")
  /\ UNCHANGED <<hsession, statusVars>>

ArmPing ==
  /\ HStep("arm", "count")
  /\ pingSent' = hsession
  /\ UNCHANGED <<hsession, missedAcks, connectionAlive, ackState, closeReason, samples>>

\* missedAcks_.fetch_add, capped here at the largest value it is compared with.
CountMiss ==
  LET missed == IF missedAcks < kHeartbeatMissMax THEN missedAcks + 1 ELSE missedAcks
  IN /\ HStep("count", IF missed >= kHeartbeatMissMax THEN "dead" ELSE "ping")
     /\ missedAcks' = missed
     /\ UNCHANGED <<hsession, connectionAlive, ackState, closeReason, pingSent, samples>>

\* A mutant: only a session without a ping in flight is declared dead.
DeclareDeadUnlessTimed ==
  /\ HStep("dead", "ping")
  /\ connectionAlive' = (connectionAlive /\ pingSent # None)
  /\ UNCHANGED <<hsession, missedAcks, ackState, closeReason, pingSent, samples>>

DeclareDead ==
  /\ HStep("dead", "ping")
  /\ connectionAlive' = FALSE
  /\ UNCHANGED <<hsession, missedAcks, ackState, closeReason, pingSent, samples>>

heartbeatLoop == SendPing \/ LookAtStamp \/ ArmPing \/ CountMiss \/ DeclareDead

-----------------------------------------------------------------------------
(* The GUI thread: adoptRekey calls setConnectionParams.                   *)

WriteMaterial ==
  /\ writer = "idle" /\ session <= MaxRekeys
  /\ session' = session + 1
  /\ UNCHANGED arrived
  /\ writer' = "misses"
  /\ UNCHANGED <<receiverVars, heartbeatVars, statusVars>>

WStep(from, to) ==
  /\ writer = from /\ writer' = to
  /\ UNCHANGED <<session, arrived, receiverVars, heartbeatVars>>

ResetMisses ==
  /\ WStep("misses", "alive")
  /\ missedAcks' = 0
  /\ UNCHANGED <<connectionAlive, ackState, closeReason, pingSent, samples>>

ResetAlive ==
  /\ WStep("alive", "ack")
  /\ connectionAlive' = TRUE
  /\ UNCHANGED <<missedAcks, ackState, closeReason, pingSent, samples>>

ResetAck ==
  /\ WStep("ack", "close")
  /\ ackState' = None
  /\ UNCHANGED <<missedAcks, connectionAlive, closeReason, pingSent, samples>>

ResetClose ==
  /\ WStep("close", "ping")
  /\ closeReason' = None
  /\ UNCHANGED <<missedAcks, connectionAlive, ackState, pingSent, samples>>

ResetPing ==
  /\ WStep("ping", "window")
  /\ pingSent' = None
  /\ UNCHANGED <<missedAcks, connectionAlive, ackState, closeReason, samples>>

\* The ring is drained into the window and the window reset, under latencyMtx_.
ResetWindow ==
  /\ WStep("window", "idle")
  /\ samples' = {}
  /\ UNCHANGED <<missedAcks, connectionAlive, ackState, closeReason, pingSent>>

setConnectionParams ==
  \/ WriteMaterial \/ ResetMisses \/ ResetAlive \/ ResetAck \/ ResetClose \/ ResetPing
  \/ ResetWindow

-----------------------------------------------------------------------------

Next ==
  \/ \E kind \in {"ack", "close"} : Accept(kind)
  \/ dispatchIncoming
  \/ heartbeatLoop
  \/ setConnectionParams

\* The operating system schedules the three threads; a re-key once begun is
\* finished.  Datagrams need not arrive, nor re-keys begin.
Fairness ==
  /\ WF_vars(dispatchIncoming)
  /\ WF_vars(heartbeatLoop)
  /\ WF_vars(setConnectionParams /\ writer # "idle")

Spec == Init /\ [][Next]_vars /\ Fairness

-----------------------------------------------------------------------------
(* Properties                                                              *)

\* The GUI's poll: re-key finished, heartbeat asleep, nothing in dispatch.
Settled == writer = "idle" /\ rplace = "idle" /\ hplace = "ping"

-----------------------------------------------------------------------------
(* What the code does not keep: TLC refutes each of these (README.md,     *)
(* Departures).                                                            *)

\* SatelliteClient.cpp:129, "A stale in-flight stamp must not pair with the new
\* session's first ack": once the re-key is over, no sample times a ping of the replaced
\* session by an ack of the new one.
StampOfTheAck == writer = "idle" => \A s \in samples : s.ping >= s.ack

\* README.md:233, "dead at 5": outside a close, the session reads dead only
\* when that many acks in a row are missing.
DeadOnlyAfterMisses ==
  Settled /\ ~connectionAlive /\ closeReason = None => missedAcks >= kHeartbeatMissMax

\* SatelliteClient.h:370, "-1 if no SESSION_CLOSE arrived": a re-keyed session
\* does not read closed by the SESSION_CLOSE of the one it replaced.
ClosedByOwnSession == Settled => closeReason \in {None, session}

=============================================================================
