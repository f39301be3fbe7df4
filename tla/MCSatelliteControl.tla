-------------------------- MODULE MCSatelliteControl --------------------------
(***************************************************************************)
(* Model checking of what controls a satellite's session: the approval of  *)
(* a pairing by the operator, the session's state machine under every late *)
(* event, two HTTP exchanges with the satellite, and the heartbeat over    *)
(* one re-key. The parts are checked side by side: a behaviour picks one   *)
(* and runs it alone.                                                      *)
(***************************************************************************)
EXTENDS SatelliteSession

CONSTANTS Exchanges, Answers, kHeartbeatMissMax, MaxDatagrams, MaxRekeys

ASSUME HeartbeatAssumption ==
  kHeartbeatMissMax \in Nat \ {0} /\ MaxDatagrams \in Nat /\ MaxRekeys \in Nat

\* A length, chunks, no body after an interim response, and a body that the close ends.
SomeAnswers ==
  {[interim |-> FALSE, status |-> "200", framing |-> "length", body |-> <<"x", "LF">>],
   [interim |-> FALSE, status |-> "200", framing |-> "chunked", body |-> <<"x", "LF">>],
   [interim |-> TRUE, status |-> "204", framing |-> "none", body |-> <<>>],
   [interim |-> FALSE, status |-> "200", framing |-> "close", body |-> <<"LF", "x">>]}

VARIABLES part, \* the part that this behaviour runs
          ex, pin, paired, stands,
          heartbeatSession, arrived, writer, rplace, rsession, stamp, hplace, hsession, missedAcks,
          connectionAlive, ackState, closeReason, pingSent, samples

X == INSTANCE HttpExchange
T == INSTANCE SatelliteHeartbeat
       WITH session <- heartbeatSession

httpVars == <<ex, pin, paired, stands>>
heartbeatVars == <<heartbeatSession, arrived, writer, rplace, rsession, stamp, hplace, hsession, missedAcks,
                   connectionAlive, ackState, closeReason, pingSent, samples>>
allVars == <<part, approvalVars, sessionVars, httpVars, heartbeatVars>>

\* A part that does not run has no state.
Absent == "absent"

AllInit ==
  /\ part \in {"pairing", "machine", "http", "heartbeat"}
  /\ PairingInit
  /\ SessionInit /\ (part # "machine" => key)
  /\ IF part = "http" THEN X!Init
     ELSE ex = Absent /\ pin = Absent /\ paired = Absent /\ stands = Absent
  /\ IF part = "heartbeat" THEN T!Init
     ELSE heartbeatSession = Absent /\ arrived = Absent /\ writer = Absent /\ rplace = Absent /\
          rsession = Absent /\ stamp = Absent /\ hplace = Absent /\ hsession = Absent /\ missedAcks = Absent /\
          connectionAlive = Absent /\ ackState = Absent /\ closeReason = Absent /\ pingSent = Absent /\
          samples = Absent

AllNext ==
  \/ part = "pairing" /\ PairingNext /\ UNCHANGED <<part, sessionVars, httpVars, heartbeatVars>>
  \/ part = "machine" /\ SessionNext /\ UNCHANGED <<part, approvalVars, httpVars, heartbeatVars>>
  \/ part = "http" /\ X!Next /\ UNCHANGED <<part, approvalVars, sessionVars, heartbeatVars>>
  \/ part = "heartbeat" /\ T!Next /\ UNCHANGED <<part, approvalVars, sessionVars, httpVars>>

AllSpec ==
  /\ AllInit /\ [][AllNext]_allVars
  /\ WF_approvalVars(part = "pairing" /\ pollReverseStatus)
  /\ \A p \in 1 .. MaxRequests :
       /\ WF_approvalVars(part = "pairing" /\ Progress("post", p, 0))
       /\ \A n \in 1 .. Deadline : WF_approvalVars(part = "pairing" /\ Progress("get", p, n))
  /\ \A e \in Exchanges : WF_httpVars(part = "http" /\ X!Ending(e))
  /\ WF_heartbeatVars(part = "heartbeat" /\ T!dispatchIncoming)
  /\ WF_heartbeatVars(part = "heartbeat" /\ T!heartbeatLoop)
  /\ WF_heartbeatVars(part = "heartbeat" /\ T!setConnectionParams /\ writer # "idle")

-----------------------------------------------------------------------------
(* However the answer is cut into reads, an exchange that says Complete    *)
(* says what the peer meant; it calls its caller back once; and it is      *)
(* written only to a peer whose certificate was accepted (HttpExchange,    *)
(* parseHttpResponse).                                                     *)
AnsweredByThePinned == [][part = "http" => X!AnsweredByThePinned]_httpVars

(* Waits end.  Every attempt leaves AwaitingApproval (the operator         *)
(* answers, the polls run out or it fails) and the spinner of a pairing    *)
(* request goes out with its last call; every exchange that starts calls   *)
(* its caller back; and in whatever order acks, closes and re-keys raced   *)
(* the heartbeat, once datagrams stop arriving the session is declared     *)
(* dead.                                                                   *)
ControlSettles ==
  <>[](CASE part = "pairing" -> phase # Waiting /\ pairing = {}
         [] part = "machine" -> TRUE
         [] part = "http" -> X!Ended
         [] part = "heartbeat" -> ~connectionAlive)
===============================================================================
