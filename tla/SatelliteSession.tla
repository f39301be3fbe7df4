--------------------------- MODULE SatelliteSession ---------------------------
(***************************************************************************)
(* How a session with a satellite comes about and is kept: two machines    *)
(* that share no state, each with its own Init and Next.                   *)
(*                                                                         *)
(* Pairing by approval: the app shows a PIN, stages a request at the       *)
(* satellite (POST) and polls (GET, once a second, up to a deadline) until *)
(* the operator approves or denies it there.  One attempt is on screen at  *)
(* a time; a cancel, a new request or a Forget overtakes it while its      *)
(* calls are still out.  (WifiConnectionManager's reverse pairing,         *)
(* ReversePairing.h, RestOutcome.h)                                        *)
(*                                                                         *)
(* SatelliteSessionMachine.h: the reducer of one satellite session, and    *)
(* PairingMachine.h, the pairing sheet's, closed under a coordinator that  *)
(* carries their effects out: it starts and stops the heartbeat, arms      *)
(* retry timers, sends the session PUT and the pair POST, drops the key,   *)
(* and feeds back what those report.  Nothing is cancelled: a timer or a   *)
(* reply of a superseded attempt still arrives.                            *)
(***************************************************************************)
EXTENDS Naturals, FiniteSets

CONSTANTS Servers,      \* satellites
          Deadline,     \* kReverseDeadlineMs, in polls
          MaxRequests,  \* bound: attempts the user starts
          MaxForgets    \* bound: satellites forgotten

ASSUME DeadlineIsPositive == Deadline \in Nat \ {0}

VARIABLES phase,     \* reversePhase_
          aim,       \* reverseServer_, or None
          shown,     \* reversePin_: the attempt on screen
          elapsed,   \* reverseElapsedMs_, in polls
          saw,       \* reverseSawPending_
          timer,     \* reverseTimer_ is running
          polling,   \* reversePollInFlight_
          pairing,   \* pairingInFlight_
          conn,      \* connections_: the connection object of a server, 0 for none
          keyed,     \* servers with a shared key in the store
          wire,      \* calls out, and answers on their way back
          row,       \* the satellite's pending row: "none", "pending", "approved"
          asked,     \* servers whose approval the user is waiting for
          requests, forgets

approvalVars == <<phase, aim, shown, elapsed, saw, timer, polling, pairing, conn, keyed,
                  wire, row, asked, requests, forgets>>

None == 0
Waiting == "AwaitingApproval"
Ended == {"Approved", "Declined", "TimedOut", "VersionMismatch", "IdentityChanged"}

PairingInit ==
  /\ phase = "Idle" /\ aim = None /\ shown = 0
  /\ elapsed = 0 /\ saw = FALSE /\ timer = FALSE /\ polling = FALSE
  /\ pairing = {}
  /\ conn = [s \in Servers |-> 0]
  /\ keyed = {}
  /\ wire = {}
  /\ row = [s \in Servers |-> "none"]
  /\ asked = {}
  /\ requests = 0 /\ forgets = 0

-----------------------------------------------------------------------------
(* The user                                                                *)

\* requestReversePairing: cancels whatever was on screen, arms the attempt with a
\* PIN of its own, and posts it.
requestReversePairing(s) ==
  /\ requests < MaxRequests
  /\ requests' = requests + 1
  /\ phase' = Waiting /\ aim' = s /\ shown' = requests'
  /\ elapsed' = 0 /\ saw' = FALSE /\ timer' = FALSE /\ polling' = FALSE
  /\ conn' = IF conn[s] = 0 THEN [conn EXCEPT ![s] = requests'] ELSE conn
  /\ pairing' = pairing \cup {s}
  /\ wire' = wire \cup {[kind |-> "post", server |-> s, pin |-> shown', on |-> conn'[s],
                         answer |-> "out"]}
  /\ asked' = {s}
  /\ UNCHANGED <<keyed, row, forgets>>

\* cancelReversePairing
Cancelled ==
  /\ phase' = "Idle" /\ aim' = None /\ shown' = 0 /\ elapsed' = 0
  /\ timer' = FALSE /\ polling' = FALSE
  /\ asked' = {}
  /\ UNCHANGED saw

cancelReversePairing ==
  /\ phase # "Idle"
  /\ Cancelled
  /\ UNCHANGED <<pairing, conn, keyed, wire, row, requests, forgets>>

\* A mutant: the approval request lives on.
forgetOnly(s) ==
  /\ forgets < MaxForgets /\ forgets' = forgets + 1
  /\ conn[s] # 0
  /\ asked' = asked \ {s}
  /\ conn' = [conn EXCEPT ![s] = 0]
  /\ keyed' = keyed \ {s}
  /\ UNCHANGED <<phase, aim, shown, elapsed, saw, timer, polling, pairing, wire, row, requests>>

\* forget: an approval request aimed at the satellite is cancelled first.
forget(s) ==
  /\ forgets < MaxForgets /\ forgets' = forgets + 1
  /\ conn[s] # 0
  /\ IF aim = s THEN Cancelled
     ELSE UNCHANGED <<phase, aim, shown, elapsed, saw, timer, polling, asked>>
  /\ conn' = [conn EXCEPT ![s] = 0]
  /\ keyed' = keyed \ {s}
  /\ UNCHANGED <<pairing, wire, row, requests>>

-----------------------------------------------------------------------------
(* Replies and the poll timer                                              *)

\* adoptReverseGrant: the connection is found or made, keyed and opened.
adoptReverseGrant(s) ==
  /\ conn' = IF conn[s] = 0 THEN [conn EXCEPT ![s] = shown] ELSE conn
  /\ keyed' = keyed \cup {s}
  /\ timer' = FALSE
  /\ phase' = "Approved"

\* finishReverse, which also frees the poll slot.
finishReverse(terminal) ==
  /\ timer' = FALSE
  /\ phase' = terminal
  /\ UNCHANGED <<conn, keyed>>

Nothing == UNCHANGED <<phase, timer, conn, keyed>>

applyReverseOutcome(s, answer) ==
  CASE answer = "key"      -> adoptReverseGrant(s)
    [] answer = "pending"  -> timer' = TRUE /\ UNCHANGED <<phase, conn, keyed>>
    [] answer = "version"  -> finishReverse("VersionMismatch")
    [] answer = "identity" -> finishReverse("IdentityChanged")
    [] answer \in {"unreachable", "auth"} -> finishReverse("TimedOut")

reverseAttemptIsCurrent(c) == phase = Waiting /\ aim = c.server /\ shown = c.pin

\* A mutant: the flag is dropped only while the connection it went out on lives.
endPairingRequestLive(c) == IF conn[c.server] = c.on THEN pairing \ {c.server} ELSE pairing

\* endPairingRequest: unless a newer connection owns the flag.
endPairingRequest(c) ==
  IF conn[c.server] # 0 /\ conn[c.server] # c.on THEN pairing ELSE pairing \ {c.server}

onReversePairReply(c) ==
  /\ c.kind = "post" /\ c.answer # "out"
  /\ wire' = wire \ {c}
  /\ pairing' = endPairingRequest(c)
  /\ IF reverseAttemptIsCurrent(c) THEN applyReverseOutcome(c.server, c.answer) ELSE Nothing
  /\ polling' = (polling /\ ~(reverseAttemptIsCurrent(c) /\ c.answer \notin {"key", "pending"}))
  /\ UNCHANGED <<aim, shown, elapsed, saw, row, asked, requests, forgets>>

classifyApproval(answer) ==
  CASE answer = "unreachable" -> "Unreachable"
    [] answer = "approved" -> "Approved"
    [] answer = "denied" -> "Declined"
    [] answer = "none" /\ saw -> "Declined"
    [] OTHER -> "Pending"

\* A mutant: an unreachable satellite is polled for ever.
nextActionPatient(approval) ==
  CASE approval = "Approved" -> "Approve"
    [] approval = "Declined" -> "Decline"
    [] approval = "Unreachable" -> "KeepPolling"
    [] OTHER -> IF elapsed >= Deadline THEN "TimeOut" ELSE "KeepPolling"

nextReversePairingAction(approval) ==
  CASE approval = "Approved" -> "Approve"
    [] approval = "Declined" -> "Decline"
    [] OTHER -> IF elapsed >= Deadline THEN "TimeOut" ELSE "KeepPolling"

applyReverseAction(s, action) ==
  CASE action = "Approve" -> adoptReverseGrant(s)
    [] action = "Decline" -> finishReverse("Declined")
    [] action = "TimeOut" -> finishReverse("TimedOut")
    [] action = "KeepPolling" -> Nothing

\* onReverseStatusReply: the poll slot is free at once; the PIN is not compared.
onReverseStatusReply(c) ==
  /\ c.kind = "get" /\ c.answer # "out"
  /\ wire' = wire \ {c}
  /\ polling' = FALSE
  /\ IF phase # Waiting \/ aim # c.server THEN Nothing /\ UNCHANGED saw
     ELSE IF c.answer = "identity" THEN finishReverse("IdentityChanged") /\ UNCHANGED saw
     ELSE /\ saw' = (saw \/ c.answer = "pending")
          /\ applyReverseAction(c.server, nextReversePairingAction(classifyApproval(c.answer)))
  /\ UNCHANGED <<aim, shown, elapsed, pairing, row, asked, requests, forgets>>

\* pollReverseStatus: the 1 s timer; a slow GET is not stacked upon.
pollReverseStatus ==
  /\ timer /\ phase = Waiting /\ ~polling
  /\ polling' = TRUE
  /\ elapsed' = elapsed + 1
  /\ wire' = wire \cup {[kind |-> "get", server |-> aim, pin |-> shown, on |-> elapsed',
                         answer |-> "out"]}
  /\ UNCHANGED <<phase, aim, shown, saw, timer, pairing, conn, keyed, row, asked, requests,
                 forgets>>

-----------------------------------------------------------------------------
(* The satellite and the operator                                          *)

Answer(c, a) == wire' = (wire \ {c}) \cup {[c EXCEPT !.answer = a]}

App == <<phase, aim, shown, elapsed, saw, timer, polling, pairing, conn, keyed, asked,
         requests, forgets>>

Stage(c) ==
  /\ c.kind = "post" /\ c.answer = "out"
  /\ row' = [row EXCEPT ![c.server] = "pending"]
  /\ Answer(c, "pending")
  /\ UNCHANGED App

\* The request is granted outright, refused, or not answered by the deadline (with
\* or without having been staged).
StageNot(c, a) ==
  /\ c.kind = "post" /\ c.answer = "out"
  /\ Answer(c, a)
  /\ \/ UNCHANGED row
     \/ a = "unreachable" /\ row' = [row EXCEPT ![c.server] = "pending"]
  /\ UNCHANGED App

Status(c) ==
  /\ c.kind = "get" /\ c.answer = "out"
  /\ \E a \in {row[c.server], "unreachable", "identity"} : Answer(c, a)
  /\ UNCHANGED <<row, App>>

Operator(s, a) ==
  /\ row[s] = "pending" /\ row' = [row EXCEPT ![s] = a]
  /\ UNCHANGED <<wire, App>>

-----------------------------------------------------------------------------
Refusals == {"key", "version", "identity", "unreachable", "auth"}

Serve(c) == Stage(c) \/ Status(c) \/ \E a \in Refusals : StageNot(c, a)

Reply(c) == onReversePairReply(c) \/ onReverseStatusReply(c)

PairingNext ==
  \/ \E s \in Servers : requestReversePairing(s) \/ forget(s)
  \/ \E s \in Servers, a \in {"approved", "none"} : Operator(s, a)
  \/ cancelReversePairing \/ pollReverseStatus
  \/ \E c \in wire : Serve(c) \/ Reply(c)

Progress(kind, pin, n) ==
  \E c \in wire : c.kind = kind /\ c.pin = pin /\ (kind = "get" => c.on = n)
                  /\ (Serve(c) \/ Reply(c))

\* The timer fires while it runs, and every call is answered or ends at its deadline.
ApprovalFairness ==
  /\ WF_approvalVars(pollReverseStatus)
  /\ \A p \in 1 .. MaxRequests :
       /\ WF_approvalVars(Progress("post", p, 0))
       /\ \A n \in 1 .. Deadline : WF_approvalVars(Progress("get", p, n))

PairingSpec == PairingInit /\ [][PairingNext]_approvalVars /\ ApprovalFairness

-----------------------------------------------------------------------------
(* Properties                                                              *)

\* A satellite is keyed, and its connection made, only for an approval the user still
\* waits for: never by a late reply to an attempt cancelled, replaced by one aimed at
\* another satellite, or dropped by a Forget.
AdoptedOnlyIfAsked ==
  [][\A s \in Servers : s \in keyed' \ keyed => s \in asked /\ phase = Waiting]_approvalVars

-----------------------------------------------------------------------------
(* The session machine.                                                    *)

CONSTANTS NotResponding,   \* kHeartbeatMissNotResponding
          Dead,            \* kHeartbeatMissDead
          MaxOutstanding   \* bound: calls and timers out at a time

VARIABLES session,    \* SessionModel: phase, failure, retryAttempt, missed, loud
          sheet,      \* PairingState: phase and whether the pin is retained
          heartbeat,  \* the heartbeat is running
          timers,     \* retry timers armed and not yet fired
          puts,       \* session PUTs out
          pairs,      \* pair POSTs out
          links,      \* links that came up and are not yet reported
          key         \* a key is held

sessionVars == <<session, sheet, heartbeat, timers, puts, pairs, links, key>>

Discovered == [phase |-> "Discovered", failure |-> "none", retry |-> 0, missed |-> 0,
               loud |-> FALSE]
NoSheet == [phase |-> "Idle", pin |-> FALSE]

SessionInit ==
  /\ session = Discovered /\ sheet = NoSheet
  /\ heartbeat = FALSE
  /\ timers = 0 /\ puts = 0 /\ pairs = 0 /\ links = 0
  /\ key \in BOOLEAN

-----------------------------------------------------------------------------
(* The reducer                                                             *)

sessionIsLive(s) == s.phase \in {"Live", "Faltering"}

Stay(s) == [next |-> s, fx |-> {}]

StopIfLive(s) == IF sessionIsLive(s) THEN {"StopHeartbeat"} ELSE {}

\* backoffDelayMs saturates at its seventh attempt; so does the count kept here.
Saturation == 7
Later(n) == IF n < Saturation THEN n + 1 ELSE n

toReconnecting(s, cause) ==
  [next |-> [s EXCEPT !.phase = "Reconnecting", !.retry = Later(s.retry), !.failure = cause],
   fx |-> StopIfLive(s) \cup {"ScheduleRetry"}]

toFailed(s, cause, dropKey) ==
  [next |-> [s EXCEPT !.phase = "Failed", !.failure = cause],
   fx |-> StopIfLive(s) \cup (IF dropKey THEN {"DropKey"} ELSE {})]

onConnect(s, loud, needsPair) ==
  IF sessionIsLive(s) THEN Stay(s)
  ELSE [next |-> [phase |-> IF needsPair THEN "Pairing" ELSE "Linking", failure |-> "none",
                  retry |-> IF loud THEN 0 ELSE s.retry, missed |-> 0, loud |-> loud],
        fx |-> {IF needsPair THEN "Pair" ELSE "OpenSession"}]

onPairClassified(s, v) ==
  IF s.phase # "Pairing" \/ v = "Pending" THEN Stay(s)
  ELSE CASE v = "Success" -> [next |-> [s EXCEPT !.phase = "Linking"], fx |-> {"OpenSession"}]
         [] v = "Unreachable" -> toReconnecting(s, v)
         [] OTHER -> toFailed(s, v, FALSE)

onRestClassified(s, v) ==
  IF s.phase \notin {"Linking", "Reconnecting"} \/ v = "Ok" THEN Stay(s)
  ELSE CASE v = "Unauthorized" -> toFailed(s, v, TRUE)
         [] v \in {"VersionMismatch", "IdentityChanged"} -> toFailed(s, v, FALSE)
         [] OTHER -> toReconnecting(s, v)

onLinked(s) ==
  IF s.phase \in {"Discovered", "Stale", "Failed"} THEN Stay(s)
  ELSE [next |-> [s EXCEPT !.phase = "Live", !.failure = "none", !.retry = 0, !.missed = 0],
        fx |-> {"StartHeartbeat"}]

onHeartbeatMiss(s, count) ==
  IF ~sessionIsLive(s) THEN Stay(s)
  ELSE IF count >= Dead
       THEN toReconnecting([s EXCEPT !.missed = count], "Unreachable")
       ELSE Stay([s EXCEPT !.missed = count,
                           !.phase = IF count >= NotResponding THEN "Faltering" ELSE @])

onHeartbeatOk(s) ==
  IF sessionIsLive(s) THEN Stay([s EXCEPT !.phase = "Live", !.missed = 0]) ELSE Stay(s)

Down(s, cause) ==
  [s EXCEPT !.phase = "Stale", !.failure = cause, !.retry = 0, !.missed = 0]

onClosed(s, action) ==
  IF ~sessionIsLive(s) THEN Stay(s)
  ELSE CASE action = "DropKeyRePair" -> [next |-> Down(s, "AuthRejected"),
                                         fx |-> {"StopHeartbeat", "DropKey"}]
         [] action = "StayDown" -> [next |-> Down(s, "none"), fx |-> {"StopHeartbeat"}]
         [] action = "RetryBackoff" -> toReconnecting(s, "Unreachable")

\* A mutant: the re-PUT leaves the heartbeat of the torn-down session running.
onReconcileDriftBeating(s) ==
  IF ~sessionIsLive(s) THEN Stay(s)
  ELSE [next |-> [s EXCEPT !.phase = "Linking", !.missed = 0, !.failure = "none"],
        fx |-> {"OpenSession"}]

onReconcileDrift(s) ==
  IF ~sessionIsLive(s) THEN Stay(s)
  ELSE [next |-> [s EXCEPT !.phase = "Linking", !.missed = 0, !.failure = "none"],
        fx |-> {"StopHeartbeat", "OpenSession"}]

onRetryTimerFired(s) ==
  IF s.phase # "Reconnecting" THEN Stay(s)
  ELSE [next |-> [s EXCEPT !.phase = "Linking"], fx |-> {"OpenSession"}]

onDisconnect(s) == [next |-> Down(s, "none"), fx |-> StopIfLive(s)]

\* The session leaves tracking; a host seen again starts over.
onForget(s) == [next |-> Discovered, fx |-> StopIfLive(s) \cup {"DropKey"}]

-----------------------------------------------------------------------------
(* The pairing sheet                                                       *)

reducePairing(p, event, v) ==
  CASE event = "Submit" -> [phase |-> "Submitting", pin |-> TRUE]
    [] event = "Cancel" -> NoSheet
    [] event = "Reply" /\ p.phase = "Submitting" /\ v \notin {"Success", "Pending"} ->
         [p EXCEPT !.phase = "Failed"]
    [] event = "Live" /\ p.phase = "Submitting" -> [phase |-> "Succeeded", pin |-> FALSE]
    [] OTHER -> p

-----------------------------------------------------------------------------
(* The coordinator: what each effect does, and the events                  *)

One(r, e) == IF e \in r.fx THEN 1 ELSE 0

\* reduce, and its effects, with `less` saying which outstanding item was used up.
Run(r, less) ==
  /\ session' = r.next
  /\ heartbeat' = IF "StartHeartbeat" \in r.fx THEN TRUE
                  ELSE heartbeat /\ "StopHeartbeat" \notin r.fx
  /\ key' = (key /\ "DropKey" \notin r.fx)
  /\ timers' = timers - (IF less = "timer" THEN 1 ELSE 0) + One(r, "ScheduleRetry")
  /\ puts' = puts - (IF less = "put" THEN 1 ELSE 0) + One(r, "OpenSession")
  /\ pairs' = pairs - (IF less = "pair" THEN 1 ELSE 0) + One(r, "Pair")

Room == timers + puts + pairs + links < MaxOutstanding

Connect(loud) ==
  /\ Room
  /\ Run(onConnect(session, loud, ~key), "none")
  /\ sheet' = IF ~key /\ ~sessionIsLive(session) THEN reducePairing(sheet, "Submit", "")
              ELSE sheet
  /\ UNCHANGED links

PairVerdicts == {"Success", "Pending", "AuthRequired", "VersionMismatch", "Unreachable",
                 "IdentityChanged"}

\* A reply to the pair POST; Pending leaves it to be asked again.
PairClassified(v) ==
  /\ pairs > 0
  /\ LET r == onPairClassified(session, v)
         grant == v = "Success" /\ session.phase = "Pairing" IN
       /\ Run(r, IF v = "Pending" THEN "none" ELSE "pair") /\ ~grant
       \/ /\ grant
          /\ session' = r.next /\ key' = TRUE
          /\ pairs' = pairs - 1 /\ puts' = puts + 1
          /\ UNCHANGED <<heartbeat, timers>>
  /\ sheet' = reducePairing(sheet, "Reply", v)
  /\ UNCHANGED links

RestVerdicts == {"Ok", "Unauthorized", "VersionMismatch", "ShuttingDown", "ServerError",
                 "Unreachable", "IdentityChanged"}

RestClassified(v) ==
  /\ puts > 0
  /\ Run(onRestClassified(session, v), "put")
  /\ links' = IF v = "Ok" THEN links + 1 ELSE links
  /\ UNCHANGED sheet

Linked ==
  /\ links > 0 /\ links' = links - 1
  /\ Run(onLinked(session), "none")
  /\ sheet' = reducePairing(sheet, "Live", "")

Beat ==
  /\ Room
  /\ \/ session.missed < Dead /\ Run(onHeartbeatMiss(session, session.missed + 1), "none")
     \/ Run(onHeartbeatOk(session), "none")
  /\ UNCHANGED <<sheet, links>>

Closed(action) == Room /\ Run(onClosed(session, action), "none") /\ UNCHANGED <<sheet, links>>

ReconcileDrift == Room /\ Run(onReconcileDrift(session), "none") /\ UNCHANGED <<sheet, links>>

RetryTimerFired ==
  timers > 0 /\ Run(onRetryTimerFired(session), "timer") /\ UNCHANGED <<sheet, links>>

Disconnect == Run(onDisconnect(session), "none") /\ UNCHANGED <<sheet, links>>

Forget == Run(onForget(session), "none") /\ UNCHANGED <<sheet, links>>

CancelSheet == sheet' = reducePairing(sheet, "Cancel", "")
               /\ UNCHANGED <<session, heartbeat, timers, puts, pairs, links, key>>

SessionNext ==
  \/ \E loud \in BOOLEAN : Connect(loud)
  \/ \E v \in PairVerdicts : PairClassified(v)
  \/ \E v \in RestVerdicts : RestClassified(v)
  \/ \E a \in {"DropKeyRePair", "StayDown", "RetryBackoff"} : Closed(a)
  \/ Linked \/ Beat \/ ReconcileDrift \/ RetryTimerFired \/ Disconnect \/ Forget \/ CancelSheet

SessionSpec == SessionInit /\ [][SessionNext]_sessionVars

-----------------------------------------------------------------------------
(* Properties                                                              *)

\* Whatever arrives late, the heartbeat runs exactly while the session is up or
\* faltering, and every phase that waits has something to wait for: a pairing its
\* POST, a link its PUT or the report that it came up, a retry its timer
\* (SatelliteSessionMachine's reduce).
HasItsMeans ==
  /\ heartbeat <=> sessionIsLive(session)
  /\ session.phase = "Pairing" => pairs > 0
  /\ session.phase = "Linking" => puts + links > 0
  /\ session.phase = "Reconnecting" => timers > 0
===============================================================================
