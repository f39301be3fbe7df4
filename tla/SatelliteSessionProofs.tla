------------------------ MODULE SatelliteSessionProofs ------------------------
(***************************************************************************)
(* Proofs about how a session with a satellite comes about and is kept,    *)
(* for any set of satellites, any deadline and any number of attempts.     *)
(***************************************************************************)
EXTENDS SatelliteSession, Integers, TLAPS

Rows == {"none", "pending", "approved"}
PostAnswers == {"out", "pending"} \cup Refusals
Calls == [kind : {"post", "get"}, server : Servers, pin : Nat, on : Nat,
          answer : PostAnswers \cup Rows]

PairingTypes ==
  /\ shown \in Nat /\ elapsed \in Nat /\ requests \in Nat
  /\ conn \in [Servers -> Nat]
  /\ row \in [Servers -> Rows]
  /\ wire \subseteq Calls
  /\ \A c \in wire : c.kind = "post" => c.answer \in PostAnswers

\* The attempt on screen is the one the user waits for.
AskedInv == phase = Waiting => aim \in Servers /\ aim \in asked

PairingInv == PairingTypes /\ AskedInv

\* What a step may do to the keys.
Asked == \A s \in Servers : s \in keyed' \ keyed => s \in asked /\ phase = Waiting

-----------------------------------------------------------------------------
\* A call's answer takes the place of the call.
LEMMA AnswerTypes ==
  ASSUME PairingTypes, NEW c \in wire, NEW a \in PostAnswers \cup Rows, Answer(c, a),
         c.kind = "post" => a \in PostAnswers
  PROVE  wire' \subseteq Calls /\ \A d \in wire' : d.kind = "post" => d.answer \in PostAnswers
<1> DEFINE d == [c EXCEPT !.answer = a]
<1>1. c \in Calls
  BY DEF PairingTypes
<1>2. d \in Calls /\ d.kind = c.kind /\ d.answer = a
  BY <1>1 DEF Calls
<1>3. wire' = (wire \ {c}) \cup {d}
  BY DEF Answer
<1> HIDE DEF d
<1> QED
  BY <1>2, <1>3 DEF PairingTypes

\* A reply that finds its attempt over changes no key; one that does not is the user's.
LEMMA ReplyStep ==
  ASSUME PairingInv, NEW c \in wire, Reply(c)
  PROVE  PairingInv' /\ Asked
<1>1. c \in Calls /\ (c.kind = "post" => c.answer \in PostAnswers)
  BY DEF PairingInv, PairingTypes
<1>2. /\ wire' = wire \ {c}
      /\ UNCHANGED <<aim, shown, elapsed, row, asked, requests, forgets>>
  BY DEF Reply, onReversePairReply, onReverseStatusReply
<1> DEFINE current == phase = Waiting /\ aim = c.server
<1>3. \/ Nothing
      \/ current /\ adoptReverseGrant(c.server)
      \/ current /\ \E t : finishReverse(t) /\ t # Waiting
      \/ current /\ UNCHANGED <<phase, conn, keyed>>
  <2>1. CASE onReversePairReply(c)
    <3>1. CASE ~reverseAttemptIsCurrent(c)
      BY <2>1, <3>1 DEF onReversePairReply
    <3>2. CASE reverseAttemptIsCurrent(c)
      <4>1. current /\ applyReverseOutcome(c.server, c.answer) /\ c.answer \in {"pending"} \cup Refusals
        BY <1>1, <2>1, <3>2 DEF onReversePairReply, reverseAttemptIsCurrent, PostAnswers
      <4>2. CASE c.answer = "key"
        BY <4>1, <4>2 DEF applyReverseOutcome
      <4>3. CASE c.answer = "pending"
        BY <4>1, <4>3 DEF applyReverseOutcome
      <4>4. CASE c.answer = "version"
        <5>1. finishReverse("VersionMismatch")
          BY <4>1, <4>4 DEF applyReverseOutcome
        <5> QED
          BY <4>1, <5>1 DEF Waiting
      <4>5. CASE c.answer = "identity"
        <5>1. finishReverse("IdentityChanged")
          BY <4>1, <4>5 DEF applyReverseOutcome
        <5> QED
          BY <4>1, <5>1 DEF Waiting
      <4>6. CASE c.answer \in {"unreachable", "auth"}
        <5>1. finishReverse("TimedOut")
          BY Zenon, <4>1, <4>6 DEF applyReverseOutcome
        <5> QED
          BY <4>1, <5>1 DEF Waiting
      <4> QED
        BY <4>1, <4>2, <4>3, <4>4, <4>5, <4>6 DEF Refusals
    <3> QED
      BY <3>1, <3>2
  <2>2. CASE onReverseStatusReply(c)
    <3>1. CASE ~current
      BY <2>2, <3>1 DEF onReverseStatusReply
    <3>2. CASE current /\ c.answer = "identity"
      <4>1. finishReverse("IdentityChanged")
        BY <2>2, <3>2 DEF onReverseStatusReply
      <4> QED
        BY <3>2, <4>1 DEF Waiting
    <3>3. CASE current /\ c.answer # "identity"
      <4> DEFINE action == nextReversePairingAction(classifyApproval(c.answer))
      <4>1. applyReverseAction(c.server, action)
        BY <2>2, <3>3 DEF onReverseStatusReply
      <4>2. action \in {"Approve", "Decline", "TimeOut", "KeepPolling"}
        BY DEF nextReversePairingAction
      <4> HIDE DEF action
      <4>3. CASE action = "Approve"
        BY <3>3, <4>1, <4>3 DEF applyReverseAction
      <4>4. CASE action = "Decline"
        <5>1. finishReverse("Declined")
          BY <4>1, <4>4 DEF applyReverseAction
        <5> QED
          BY <3>3, <5>1 DEF Waiting
      <4>5. CASE action = "TimeOut"
        <5>1. finishReverse("TimedOut")
          BY <4>1, <4>5 DEF applyReverseAction
        <5> QED
          BY <3>3, <5>1 DEF Waiting
      <4>6. CASE action = "KeepPolling"
        BY <4>1, <4>6 DEF applyReverseAction
      <4> QED
        BY <4>2, <4>3, <4>4, <4>5, <4>6
    <3> QED
      BY <3>1, <3>2, <3>3
  <2> QED
    BY <2>1, <2>2 DEF Reply
<1>4. conn' \in [Servers -> Nat]
  BY <1>1, <1>3 DEF Nothing, adoptReverseGrant, finishReverse, PairingInv, PairingTypes, Calls
<1>5. PairingTypes'
  BY <1>2, <1>4 DEF PairingInv, PairingTypes
<1>6. AskedInv'
  BY <1>2, <1>3 DEF Nothing, adoptReverseGrant, finishReverse, PairingInv, AskedInv, Waiting
<1>7. Asked
  BY <1>3 DEF Nothing, adoptReverseGrant, finishReverse, PairingInv, AskedInv, Asked
<1> QED
  BY <1>5, <1>6, <1>7 DEF PairingInv

\* Every step of the pairing keeps the invariant and adopts only what was asked for.
LEMMA PairingStep == PairingInv /\ [PairingNext]_approvalVars => PairingInv' /\ [Asked]_approvalVars
<1> SUFFICES ASSUME PairingInv, [PairingNext]_approvalVars PROVE PairingInv' /\ [Asked]_approvalVars
  OBVIOUS
<1>1. ASSUME NEW s \in Servers, requestReversePairing(s) PROVE PairingInv' /\ Asked
  <2> DEFINE c == [kind |-> "post", server |-> s, pin |-> shown', on |-> conn'[s], answer |-> "out"]
  <2>1. /\ requests' = requests + 1 /\ phase' = Waiting /\ aim' = s /\ shown' = requests'
        /\ elapsed' = 0 /\ asked' = {s} /\ UNCHANGED <<keyed, row>>
        /\ conn' = IF conn[s] = 0 THEN [conn EXCEPT ![s] = requests'] ELSE conn
        /\ wire' = wire \cup {c}
    BY <1>1 DEF requestReversePairing
  <2>2. requests' \in Nat /\ conn' \in [Servers -> Nat] /\ shown' \in Nat
    BY <2>1 DEF PairingInv, PairingTypes
  <2>3. c \in Calls /\ c.kind = "post" /\ c.answer \in PostAnswers
    BY <2>2 DEF Calls, PostAnswers
  <2> HIDE DEF c
  <2>4. PairingTypes'
    BY <2>1, <2>2, <2>3 DEF PairingInv, PairingTypes
  <2>5. AskedInv' /\ Asked
    BY <2>1 DEF AskedInv, Asked
  <2> QED
    BY <2>4, <2>5 DEF PairingInv
<1>2. ASSUME NEW s \in Servers, forget(s) PROVE PairingInv' /\ Asked
  <2>1. /\ conn' = [conn EXCEPT ![s] = 0] /\ keyed' = keyed \ {s}
        /\ UNCHANGED <<wire, row, requests>>
        /\ \/ phase' = "Idle" /\ shown' = 0 /\ elapsed' = 0
           \/ UNCHANGED <<phase, aim, shown, elapsed, asked>>
    BY <1>2 DEF forget, Cancelled
  <2>2. PairingTypes'
    BY <2>1 DEF PairingInv, PairingTypes
  <2> QED
    BY <2>1, <2>2 DEF PairingInv, AskedInv, Asked, Waiting
<1>3. CASE cancelReversePairing
  BY <1>3 DEF cancelReversePairing, Cancelled, PairingInv, PairingTypes, AskedInv, Asked, Waiting
<1>4. CASE pollReverseStatus
  <2> DEFINE c == [kind |-> "get", server |-> aim, pin |-> shown, on |-> elapsed', answer |-> "out"]
  <2>1. /\ phase = Waiting /\ elapsed' = elapsed + 1 /\ wire' = wire \cup {c}
        /\ UNCHANGED <<phase, aim, shown, conn, keyed, row, asked, requests>>
    BY <1>4 DEF pollReverseStatus
  <2>2. elapsed' \in Nat /\ aim \in Servers /\ shown \in Nat
    BY <2>1 DEF PairingInv, PairingTypes, AskedInv
  <2>3. c \in Calls /\ c.kind # "post"
    BY <2>2 DEF Calls, PostAnswers
  <2> HIDE DEF c
  <2> QED
    BY <2>1, <2>2, <2>3 DEF PairingInv, PairingTypes, AskedInv, Asked
<1>5. ASSUME NEW s \in Servers, NEW a \in {"approved", "none"}, Operator(s, a) PROVE PairingInv' /\ Asked
  BY <1>5 DEF Operator, App, PairingInv, PairingTypes, Rows, AskedInv, Asked
<1>6. ASSUME NEW c \in wire, Serve(c) PROVE PairingInv' /\ Asked
  <2>1. c \in Calls
    BY DEF PairingInv, PairingTypes
  <2>2. UNCHANGED App
    BY <1>6 DEF Serve, Stage, StageNot, Status
  <2>3. row' \in [Servers -> Rows]
    BY <1>6, <2>1 DEF Serve, Stage, StageNot, Status, PairingInv, PairingTypes, Calls, Rows
  <2>4. \E a \in PostAnswers \cup Rows : Answer(c, a) /\ (c.kind = "post" => a \in PostAnswers)
    <3>1. row[c.server] \in Rows
      BY <2>1 DEF PairingInv, PairingTypes, Calls
    <3> QED
      BY <1>6, <3>1 DEF Serve, Stage, StageNot, Status, PostAnswers, Rows, Refusals
  <2>5. wire' \subseteq Calls /\ \A d \in wire' : d.kind = "post" => d.answer \in PostAnswers
    BY <2>4, AnswerTypes DEF PairingInv
  <2> QED
    BY <2>2, <2>3, <2>5 DEF App, PairingInv, PairingTypes, AskedInv, Asked
<1>7. CASE UNCHANGED approvalVars
  BY <1>7 DEF approvalVars, PairingInv, PairingTypes, AskedInv
<1> QED
  BY <1>1, <1>2, <1>3, <1>4, <1>5, <1>6, <1>7, ReplyStep DEF PairingNext

\* A key is stored and a connection made only for the approval the user still waits for,
\* however late the replies to cancelled, replaced and forgotten attempts come.
THEOREM AdoptedOnlyIfAskedAlways == PairingSpec => AdoptedOnlyIfAsked
<1>1. PairingInit => PairingInv
  BY DEF PairingInit, PairingInv, PairingTypes, AskedInv, Rows, Waiting
<1> QED
  BY <1>1, PairingStep, PTL DEF PairingSpec, AdoptedOnlyIfAsked, Asked

-----------------------------------------------------------------------------
(* The session machine.                                                    *)

Phases == {"Discovered", "Pairing", "Linking", "Live", "Faltering", "Reconnecting", "Stale",
           "Failed"}

\* The five fields of SessionModel; of what they hold, the argument needs the phase.
IsSession(s) ==
  /\ s = [phase |-> s.phase, failure |-> s.failure, retry |-> s.retry, missed |-> s.missed,
          loud |-> s.loud]
  /\ s.phase \in Phases

SessionTypes ==
  /\ IsSession(session)
  /\ heartbeat \in BOOLEAN
  /\ timers \in Nat /\ puts \in Nat /\ pairs \in Nat /\ links \in Nat

SessionInv == SessionTypes /\ HasItsMeans

\* What every reduction owes its coordinator: the heartbeat effects follow the phase,
\* and a phase that waits is entered with the effect that makes it end.
Sound(s, r) ==
  /\ IsSession(r.next)
  /\ sessionIsLive(r.next) <=> \/ "StartHeartbeat" \in r.fx
                               \/ sessionIsLive(s) /\ "StopHeartbeat" \notin r.fx
  /\ r.next.phase = "Pairing" => "Pair" \in r.fx \/ s.phase = "Pairing"
  /\ r.next.phase = "Linking" => "OpenSession" \in r.fx \/ s.phase = "Linking"
  /\ r.next.phase = "Reconnecting" => "ScheduleRetry" \in r.fx \/ s.phase = "Reconnecting"

\* The two ways down from a session, with their effects.
LEMMA WaysDown ==
  ASSUME NEW s, IsSession(s), NEW v, NEW drop
  PROVE  /\ Sound(s, toReconnecting(s, v)) /\ toReconnecting(s, v).next.phase = "Reconnecting"
         /\ Sound(s, toFailed(s, v, drop)) /\ toFailed(s, v, drop).next.phase = "Failed"
BY Zenon DEF Sound, toReconnecting, toFailed, StopIfLive, sessionIsLive, IsSession, Phases

\* A reduction that ignores its event.
LEMMA Ignored ==
  ASSUME NEW s, IsSession(s)
  PROVE  Sound(s, Stay(s))
BY DEF Sound, Stay, sessionIsLive

\* The reducer of a link that came up, of a drift and of a retry.
LEMMA WaysUp ==
  ASSUME NEW s, IsSession(s)
  PROVE  /\ Sound(s, onLinked(s)) /\ Sound(s, onReconcileDrift(s))
         /\ Sound(s, onRetryTimerFired(s)) /\ onRetryTimerFired(s).next.phase # "Reconnecting"
<1>1. Sound(s, onLinked(s))
  BY ZenonT(60), Ignored DEF Sound, onLinked, sessionIsLive, IsSession, Phases
<1>2. Sound(s, onReconcileDrift(s))
  BY ZenonT(60), Ignored DEF Sound, onReconcileDrift, sessionIsLive, IsSession, Phases
<1>3. Sound(s, onRetryTimerFired(s))
  BY Ignored DEF Sound, onRetryTimerFired, sessionIsLive, IsSession, Phases
<1>4. onRetryTimerFired(s).next.phase # "Reconnecting"
  BY SMTT(60) DEF onRetryTimerFired, Stay, IsSession
<1> QED
  BY <1>1, <1>2, <1>3, <1>4

\* The reducer of a connect, by hand or by itself.
LEMMA Connecting ==
  ASSUME NEW s, IsSession(s), NEW loud, NEW needsPair
  PROVE  Sound(s, onConnect(s, loud, needsPair))
BY Ignored DEF Sound, onConnect, sessionIsLive, IsSession, Phases

\* The reducer of a disconnect, a Forget and a close by the satellite.
LEMMA Leaving ==
  ASSUME NEW s, IsSession(s)
  PROVE  /\ Sound(s, onDisconnect(s)) /\ Sound(s, onForget(s))
         /\ \A a \in {"DropKeyRePair", "StayDown", "RetryBackoff"} : Sound(s, onClosed(s, a))
<1>1. Sound(s, onDisconnect(s))
  BY Zenon DEF Sound, onDisconnect, Down, StopIfLive, sessionIsLive, IsSession, Phases
<1>2. Sound(s, onForget(s))
  BY DEF Sound, onForget, Discovered, StopIfLive, sessionIsLive, IsSession, Phases
<1>3. ASSUME NEW a \in {"DropKeyRePair", "StayDown", "RetryBackoff"} PROVE Sound(s, onClosed(s, a))
  <2>1. CASE ~sessionIsLive(s)
    BY <2>1, Ignored DEF onClosed
  <2>2. CASE sessionIsLive(s) /\ a = "RetryBackoff"
    BY <2>2, WaysDown DEF onClosed
  <2>3. CASE sessionIsLive(s) /\ a = "StayDown"
    BY Zenon, <2>3 DEF Sound, onClosed, Down, sessionIsLive, IsSession, Phases
  <2>4. CASE sessionIsLive(s) /\ a = "DropKeyRePair"
    BY Zenon, <2>4 DEF Sound, onClosed, Down, sessionIsLive, IsSession, Phases
  <2> QED
    BY <1>3, <2>1, <2>2, <2>3, <2>4
<1> QED
  BY <1>1, <1>2, <1>3

\* The reducer of a beat, answered or missed.
LEMMA Beating ==
  ASSUME NEW s, IsSession(s), NEW n
  PROVE  Sound(s, onHeartbeatMiss(s, n)) /\ Sound(s, onHeartbeatOk(s))
<1>1. Sound(s, onHeartbeatOk(s))
  BY Zenon, Ignored DEF Sound, onHeartbeatOk, Stay, sessionIsLive, IsSession, Phases
<1>2. Sound(s, onHeartbeatMiss(s, n))
  <2> DEFINE m == [s EXCEPT !.missed = n]
  <2>1. IsSession(m) /\ m.phase = s.phase
    BY DEF IsSession
  <2>2. CASE ~sessionIsLive(s)
    BY <2>2, Ignored DEF onHeartbeatMiss
  <2>3. CASE sessionIsLive(s) /\ n >= Dead
    <3>1. Sound(m, toReconnecting(m, "Unreachable"))
      BY <2>1, WaysDown
    <3> QED
      BY <2>1, <2>3, <3>1 DEF onHeartbeatMiss, Sound, sessionIsLive
  <2>4. CASE sessionIsLive(s) /\ ~(n >= Dead)
    BY Zenon, <2>4 DEF Sound, onHeartbeatMiss, Stay, sessionIsLive, IsSession, Phases
  <2> QED
    BY <2>2, <2>3, <2>4
<1> QED
  BY <1>1, <1>2

\* The reducer of a verdict on the pair POST: it ends the pairing unless it is Pending.
LEMMA PairVerdict ==
  ASSUME NEW s, IsSession(s), NEW v \in PairVerdicts
  PROVE  /\ Sound(s, onPairClassified(s, v))
         /\ v # "Pending" => onPairClassified(s, v).next.phase # "Pairing"
         /\ v = "Success" /\ s.phase = "Pairing" => onPairClassified(s, v).next.phase = "Linking"
<1>1. CASE s.phase # "Pairing" \/ v = "Pending"
  BY Zenon, <1>1, Ignored DEF onPairClassified, Stay
<1>2. CASE s.phase = "Pairing" /\ v = "Success"
  BY <1>2 DEF Sound, onPairClassified, sessionIsLive, IsSession, Phases
<1>3. CASE s.phase = "Pairing" /\ v = "Unreachable"
  BY <1>3, WaysDown DEF onPairClassified
<1>4. CASE s.phase = "Pairing" /\ v \notin {"Pending", "Success", "Unreachable"}
  BY Zenon, <1>4, WaysDown DEF onPairClassified
<1> QED
  BY <1>1, <1>2, <1>3, <1>4

\* The reducer of a verdict on the session PUT: any but Ok ends the linking.
LEMMA RestVerdict ==
  ASSUME NEW s, IsSession(s), NEW v \in RestVerdicts
  PROVE  /\ Sound(s, onRestClassified(s, v))
         /\ v # "Ok" => onRestClassified(s, v).next.phase # "Linking"
         /\ "OpenSession" \notin onRestClassified(s, v).fx
<1>1. CASE s.phase \notin {"Linking", "Reconnecting"} \/ v = "Ok"
  BY Zenon, <1>1, Ignored DEF onRestClassified, Stay
<1> DEFINE waits == s.phase \in {"Linking", "Reconnecting"}
<1>2. \A cause, drop :
        "OpenSession" \notin toReconnecting(s, cause).fx \cup toFailed(s, cause, drop).fx
  BY DEF toReconnecting, toFailed, StopIfLive
<1>3. CASE waits /\ v = "Unauthorized"
  BY Zenon, <1>2, <1>3, WaysDown DEF onRestClassified
<1>4. CASE waits /\ v \in {"VersionMismatch", "IdentityChanged"}
  BY Zenon, <1>2, <1>4, WaysDown DEF onRestClassified
<1>5. CASE waits /\ v \notin {"Ok", "Unauthorized", "VersionMismatch", "IdentityChanged"}
  BY Zenon, <1>2, <1>5, WaysDown DEF onRestClassified
<1> QED
  BY <1>1, <1>3, <1>4, <1>5

-----------------------------------------------------------------------------
\* A count of outstanding items that loses one it has, or none, and gains one, or none.
LEMMA CountKept ==
  ASSUME NEW n \in Nat, NEW used \in {0, 1}, NEW more \in {0, 1}, n >= used
  PROVE  n - used + more \in Nat /\ (more = 1 \/ (used = 0 /\ n > 0) => n - used + more > 0)
<1>1. CASE used = 0
  BY <1>1
<1>2. CASE used = 1
  BY <1>2
<1> QED
  BY <1>1, <1>2

\* A sound reduction, carried out, leaves every phase its means, unless the event used up
\* the very thing the phase waits for.
LEMMA CarriedOut ==
  ASSUME SessionInv, NEW r, NEW less, Sound(session, r), Run(r, less), links' \in Nat,
         less = "timer" => timers > 0 /\ r.next.phase # "Reconnecting",
         less = "pair" => pairs > 0 /\ r.next.phase # "Pairing",
         less = "put" => puts > 0,
         \/ r.next.phase # "Linking" \/ links' > 0
         \/ "OpenSession" \in r.fx \/ (less # "put" /\ links' = links)
  PROVE  SessionInv'
<1>1. session' = r.next /\ IsSession(r.next)
  BY DEF Run, Sound
<1>2. timers' \in Nat /\ (session'.phase = "Reconnecting" => timers' > 0)
  <2> DEFINE used == IF less = "timer" THEN 1 ELSE 0
             more == IF "ScheduleRetry" \in r.fx THEN 1 ELSE 0
  <2>1. timers' = timers - used + more
    BY DEF Run, One
  <2>2. timers \in Nat
    BY DEF SessionInv, SessionTypes
  <2>3. used \in {0, 1} /\ more \in {0, 1} /\ timers >= used
    BY <2>2
  <2>4. session'.phase = "Reconnecting" => more = 1 \/ (used = 0 /\ timers > 0)
    BY <1>1 DEF Sound, SessionInv, HasItsMeans
  <2> HIDE DEF used, more
  <2>5. timers - used + more \in Nat /\ (more = 1 \/ (used = 0 /\ timers > 0) => timers - used + more > 0)
    BY <2>2, <2>3, CountKept
  <2> QED
    BY <2>1, <2>4, <2>5
<1>3. pairs' \in Nat /\ (session'.phase = "Pairing" => pairs' > 0)
  <2> DEFINE used == IF less = "pair" THEN 1 ELSE 0
             more == IF "Pair" \in r.fx THEN 1 ELSE 0
  <2>1. pairs' = pairs - used + more
    BY DEF Run, One
  <2>2. pairs \in Nat
    BY DEF SessionInv, SessionTypes
  <2>3. used \in {0, 1} /\ more \in {0, 1} /\ pairs >= used
    BY <2>2
  <2>4. session'.phase = "Pairing" => more = 1 \/ (used = 0 /\ pairs > 0)
    BY <1>1 DEF Sound, SessionInv, HasItsMeans
  <2> HIDE DEF used, more
  <2>5. pairs - used + more \in Nat /\ (more = 1 \/ (used = 0 /\ pairs > 0) => pairs - used + more > 0)
    BY <2>2, <2>3, CountKept
  <2> QED
    BY <2>1, <2>4, <2>5
<1>4. puts' \in Nat /\ (session'.phase = "Linking" => puts' + links' > 0)
  <2> DEFINE used == IF less = "put" THEN 1 ELSE 0
             more == IF "OpenSession" \in r.fx THEN 1 ELSE 0
  <2>1. puts' = puts - used + more
    BY DEF Run, One
  <2>2. puts \in Nat /\ links \in Nat
    BY DEF SessionInv, SessionTypes
  <2>3. used \in 0 .. 1 /\ more \in 0 .. 1 /\ puts >= used
    BY <2>2
  <2>4. session'.phase = "Linking" =>
          links' > 0 \/ more = 1 \/ (used = 0 /\ links' = links /\ puts + links > 0)
    BY <1>1 DEF Sound, SessionInv, HasItsMeans
  <2> HIDE DEF used, more
  <2>5. used \in Int /\ more \in Int /\ 0 <= used /\ used <= 1 /\ 0 <= more /\ more <= 1
    BY <2>3
  <2>6. puts' \in Nat /\ puts' = puts - used + more
    BY <2>1, <2>2, <2>3, <2>5
  <2>7. CASE links' > 0
    BY <2>6, <2>7
  <2>8. CASE more = 1
    <3>1. puts - used >= 0
      BY <2>2, <2>3, <2>5
    <3>2. puts' >= 1
      BY <2>2, <2>5, <2>6, <2>8, <3>1
    <3> QED
      BY <2>6, <3>2
  <2>9. CASE used = 0 /\ links' = links /\ puts + links > 0
    BY <2>2, <2>5, <2>6, <2>9
  <2> QED
    BY <2>4, <2>6, <2>7, <2>8, <2>9
<1>5. heartbeat' \in BOOLEAN /\ (heartbeat' <=> sessionIsLive(session)')
  <2>1. heartbeat' \in BOOLEAN
    BY Zenon DEF Run
  <2>2. heartbeat' <=> \/ "StartHeartbeat" \in r.fx
                       \/ heartbeat /\ "StopHeartbeat" \notin r.fx
    BY Zenon DEF Run
  <2>3. heartbeat <=> sessionIsLive(session)
    BY DEF SessionInv, HasItsMeans
  <2>4. sessionIsLive(session)' <=> sessionIsLive(r.next)
    BY <1>1 DEF sessionIsLive
  <2> QED
    BY <2>1, <2>2, <2>3, <2>4 DEF Sound
<1> QED
  BY Zenon, <1>1, <1>2, <1>3, <1>4, <1>5 DEF SessionInv, SessionTypes, HasItsMeans

\* Every event, late or not, keeps the invariant.
LEMMA SessionStep == SessionInv /\ [SessionNext]_sessionVars => SessionInv'
<1> SUFFICES ASSUME SessionInv, [SessionNext]_sessionVars PROVE SessionInv'
  OBVIOUS
<1>0. IsSession(session) /\ links \in Nat /\ puts \in Nat /\ pairs \in Nat
  BY DEF SessionInv, SessionTypes
<1>1. ASSUME NEW loud \in BOOLEAN, Connect(loud) PROVE SessionInv'
  <2>1. Sound(session, onConnect(session, loud, ~key))
    BY <1>0, Connecting
  <2> QED
    BY Zenon, <1>0, <1>1, <2>1, CarriedOut DEF Connect
<1>2. ASSUME NEW v \in PairVerdicts, PairClassified(v) PROVE SessionInv'
  <2> DEFINE r == onPairClassified(session, v)
  <2>1. /\ Sound(session, r) /\ (v # "Pending" => r.next.phase # "Pairing")
        /\ v = "Success" /\ session.phase = "Pairing" => r.next.phase = "Linking"
    BY <1>0, PairVerdict
  <2>2. pairs > 0 /\ links' = links
    BY <1>2 DEF PairClassified
  <2>3. CASE ~(v = "Success" /\ session.phase = "Pairing")
    <3>1. Run(r, IF v = "Pending" THEN "none" ELSE "pair")
      BY <1>2, <2>3 DEF PairClassified
    <3> HIDE DEF r
    <3> QED
      BY <1>0, <2>1, <2>2, <3>1, CarriedOut
  <2>4. CASE v = "Success" /\ session.phase = "Pairing"
    <3>1. /\ session' = r.next /\ pairs' = pairs - 1 /\ puts' = puts + 1
          /\ UNCHANGED <<heartbeat, timers>>
      BY <1>2, <2>4 DEF PairClassified
    <3>2. IsSession(r.next) /\ r.next.phase = "Linking"
      BY <2>1, <2>4 DEF Sound
    <3> HIDE DEF r
    <3>3. ~heartbeat
      BY <2>4 DEF SessionInv, HasItsMeans, sessionIsLive
    <3> QED
      BY <1>0, <2>2, <3>1, <3>2, <3>3 DEF SessionInv, SessionTypes, HasItsMeans, sessionIsLive
  <2> QED
    BY <2>3, <2>4
<1>3. ASSUME NEW v \in RestVerdicts, RestClassified(v) PROVE SessionInv'
  <2>1. /\ Sound(session, onRestClassified(session, v))
        /\ v # "Ok" => onRestClassified(session, v).next.phase # "Linking"
    BY <1>0, RestVerdict
  <2>2. links' \in Nat /\ (v = "Ok" => links' > 0)
    BY <1>0, <1>3 DEF RestClassified
  <2> QED
    BY <1>3, <2>1, <2>2, CarriedOut DEF RestClassified
<1>4. ASSUME NEW a \in {"DropKeyRePair", "StayDown", "RetryBackoff"}, Closed(a) PROVE SessionInv'
  BY <1>0, <1>4, Leaving, CarriedOut DEF Closed
<1>5. CASE Linked
  <2>1. Sound(session, onLinked(session))
    BY <1>0, WaysUp
  <2>2. links' \in Nat
    <3>1. links > 0 /\ links' = links - 1
      BY Zenon, <1>5 DEF Linked
    <3> QED
      BY <1>0, <3>1
  <2>3. onLinked(session).next.phase # "Linking"
    BY <1>0 DEF onLinked, Stay, IsSession
  <2> QED
    BY Zenon, <1>5, <2>1, <2>2, <2>3, CarriedOut DEF Linked
<1>6. CASE Beat
  <2>2. /\ Sound(session, onHeartbeatMiss(session, session.missed + 1))
        /\ Sound(session, onHeartbeatOk(session))
    BY <1>0, Beating
  <2> QED
    BY <1>0, <1>6, <2>2, CarriedOut DEF Beat
<1>7. CASE ReconcileDrift
  BY <1>0, <1>7, WaysUp, CarriedOut DEF ReconcileDrift
<1>8. CASE RetryTimerFired
  BY <1>0, <1>8, WaysUp, CarriedOut DEF RetryTimerFired
<1>9. CASE Disconnect
  BY <1>0, <1>9, Leaving, CarriedOut DEF Disconnect
<1>10. CASE Forget
  BY <1>0, <1>10, Leaving, CarriedOut DEF Forget
<1>11. CASE CancelSheet
  BY Zenon, <1>11 DEF CancelSheet, SessionInv, SessionTypes, HasItsMeans, sessionIsLive
<1>12. CASE UNCHANGED sessionVars
  BY <1>12 DEF sessionVars, SessionInv, SessionTypes, HasItsMeans, sessionIsLive
<1> QED
  BY <1>1, <1>2, <1>3, <1>4, <1>5, <1>6, <1>7, <1>8, <1>9, <1>10, <1>11, <1>12 DEF SessionNext

\* Whatever timer, reply or report of a superseded attempt arrives, and however many are out,
\* the heartbeat runs exactly while the session is up and no phase waits for nothing.
THEOREM HasItsMeansAlways == SessionSpec => []HasItsMeans
<1>1. SessionInit => SessionInv
  <2> SUFFICES ASSUME SessionInit PROVE SessionInv
    OBVIOUS
  <2>1. IsSession(session) /\ session.phase = "Discovered"
    BY DEF SessionInit, Discovered, IsSession, Phases
  <2>2. heartbeat \in BOOLEAN /\ ~heartbeat
    BY Zenon DEF SessionInit
  <2>3. timers \in Nat /\ puts \in Nat /\ pairs \in Nat /\ links \in Nat
    BY DEF SessionInit
  <2> QED
    BY <2>1, <2>2, <2>3 DEF SessionInv, SessionTypes, HasItsMeans, sessionIsLive
<1>2. SessionInv => HasItsMeans
  BY DEF SessionInv
<1> QED
  BY <1>1, <1>2, SessionStep, PTL DEF SessionSpec

=============================================================================
