------------------------------ MODULE WifiSession ------------------------------
(***************************************************************************)
(* The life of the session with one satellite: WifiConnectionManager and   *)
(* its WifiConnection on the GUI thread, against requests whose replies    *)
(* come late, in any order or not at all, and a satellite that kicks,      *)
(* restarts and unpairs.                                                   *)
(*                                                                         *)
(* The satellite is modelled from what the manager relies on: a PUT with   *)
(* the paired key makes a session or keeps the one there is, under the     *)
(* same connection id, and gives it a new token; datagrams under any other *)
(* token are not acknowledged.  Keys, tokens, connection ids, clients and  *)
(* connection objects are drawn fresh: never one that is still in use.     *)
(***************************************************************************)
EXTENDS Naturals, FiniteSets

CONSTANTS MaxUserOps,       \* bound: what the user does
          MaxDisturbances,  \* bound: losses, kicks, outages, drifts, re-keys
          MaxInFlight,      \* bound: requests out when another attempt starts
          MaxRetries        \* bound: silent retries waiting at a time

ASSUME WifiAssumption ==
  {MaxUserOps, MaxDisturbances, MaxInFlight, MaxRetries} \subseteq Nat

None == 0
Fresh(used) == CHOOSE n \in 1 .. Cardinality(used) + 1 :
                 /\ n \notin used
                 /\ \A k \in 1 .. n - 1 : k \in used

VARIABLES conn,        \* the WifiConnection filed under the satellite's id
          key,         \* the pairing key on file
          remembered,  \* the satellite is in the remembered list
          held,        \* userDisconnected_
          reconciling, \* reconcileInFlight_
          retries,     \* silent retries armed under the satellite's scope
          net,         \* the requests out and the replies on their way back
          srv,         \* the satellite's session: connection id and token
          srvKey,      \* the key the satellite has this dish paired under
          userOps,     \* what the user has done
          disturbances \* what has gone wrong; above the bound nothing more does

managerVars == <<key, remembered, held, reconciling, retries>>
satelliteVars == <<srv, srvKey>>
boundVars == <<userOps, disturbances>>
vars == <<conn, managerVars, net, satelliteVars, boundVars>>

-----------------------------------------------------------------------------
(* WifiConnection                                                          *)

\* obj: the object, client: its SatelliteClient, notice: the close reason the
\* client has received, lowered: an older protocol version is offered.
NoConnection ==
  [obj |-> None, state |-> "None", client |-> None, tok |-> None, cid |-> None,
   notice |-> "none", rekeyRequested |-> FALSE, lowered |-> FALSE]

NewConnection(obj) == [NoConnection EXCEPT !.obj = obj, !.state = "Idle"]

teardownClient(c) ==
  [c EXCEPT !.client = None, !.tok = None, !.cid = None, !.notice = "none",
            !.rekeyRequested = FALSE]

markConnecting(c) == IF c.state = "Live" THEN c ELSE [c EXCEPT !.state = "Linking"]

markConnected(c, client, tok, cid) ==
  IF c.state # "Linking" THEN c
  ELSE [c EXCEPT !.client = client, !.tok = tok, !.cid = cid, !.notice = "none",
                 !.rekeyRequested = FALSE, !.state = "Live"]

markDisconnected(c) == [teardownClient(c) EXCEPT !.state = "Idle"]

markStale(c) == [teardownClient(c) EXCEPT !.state = "Stale"]

-----------------------------------------------------------------------------
(* Requests                                                                *)

\* answer is "out" until the satellite, or the lack of one, has answered:
\* "ok", "auth" (401), "lower" and "refused" (a version or an identity that does
\* not match), "fail" (unreachable, shutting down, malformed).
Request(kind, on, quiet, k) ==
  [kind |-> kind, on |-> on, quiet |-> quiet, key |-> k, client |-> None,
   cid |-> None, tok |-> None, answer |-> "out", id |-> None]

Send(base, r) ==
  base \cup {[r EXCEPT !.id = Fresh({n.id : n \in {x \in base : x.kind = r.kind}})]}

Release(base, cid, k) ==
  Send(base, [Request("delete", None, TRUE, k) EXCEPT !.cid = cid])

\* The connection a reply may act on is still the one its request went out on.
replyTarget(m) == conn.obj # None /\ conn.obj = m.on

Init ==
  /\ conn = NoConnection
  /\ remembered \in BOOLEAN
  /\ key = IF remembered THEN 1 ELSE None
  /\ srvKey = key
  /\ srv = [cid |-> None, tok |-> None]
  /\ held = FALSE /\ reconciling = FALSE
  /\ retries = 0
  /\ net = {}
  /\ userOps = 0 /\ disturbances = 0

CountUserOp ==
  /\ userOps < MaxUserOps
  /\ userOps' = userOps + 1
  /\ UNCHANGED disturbances

Disturb ==
  /\ disturbances < MaxDisturbances
  /\ disturbances' = disturbances + 1
  /\ UNCHANGED userOps

\* From some time on nothing more goes wrong, and round trips are shorter than
\* the timers, the least of which is a second.
Calm == disturbances > MaxDisturbances
Prompt == Calm => net = {}

CalmDown ==
  /\ ~Calm
  /\ disturbances' = MaxDisturbances + 1
  /\ UNCHANGED <<conn, managerVars, net, satelliteVars, userOps>>

-----------------------------------------------------------------------------
(* The manager: connecting                                                 *)

ensureConnection ==
  IF conn.obj # None THEN conn ELSE NewConnection(Fresh({m.on : m \in net} \ {None}))

onTerminalAuthFailure(c) == conn' = markStale(c) /\ key' = None

openSession(c, quiet, k, base) ==
  IF k = None
  THEN onTerminalAuthFailure(c) /\ net' = base
  ELSE conn' = c /\ key' = k /\ net' = Send(base, Request("put", c.obj, quiet, k))

\* connectTo past its refusals: with a key on file straight to the session.
connectTo(quiet) ==
  LET c == ensureConnection IN
    IF c.state \in {"Live", "Linking"}
    THEN conn' = c /\ UNCHANGED <<key, net>>
    ELSE IF key # None
         THEN openSession(markConnecting(c), quiet, key, net)
         ELSE /\ conn' = markConnecting(c)
              /\ net' = Send(net, Request("pair", c.obj, quiet, None))
              /\ UNCHANGED key

Room == Cardinality(net) < MaxInFlight

UserConnect ==
  /\ Room /\ CountUserOp
  /\ held' = FALSE
  /\ connectTo(FALSE)
  /\ UNCHANGED <<remembered, reconciling, retries, satelliteVars>>

\* The periodic reconnect, a finished scan, a resume: connectTo for a remembered
\* satellite that is not live, unless the user holds it.
autoReconnectAll ==
  /\ Room /\ Prompt
  /\ remembered /\ conn.state # "Live" /\ ~held
  /\ connectTo(TRUE)
  /\ UNCHANGED <<remembered, held, reconciling, retries, satelliteVars, boundVars>>

onRetryDue ==
  /\ Room /\ Prompt
  /\ retries > 0
  /\ retries' = retries - 1
  /\ IF conn.state \in {"Idle", "Stale"} /\ ~held
     THEN connectTo(TRUE)
     ELSE UNCHANGED <<conn, key, net>>
  /\ UNCHANGED <<remembered, held, reconciling, satelliteVars, boundVars>>

pairWithPin ==
  /\ Room /\ CountUserOp
  /\ held' = FALSE
  /\ LET c == ensureConnection IN
       IF c.state = "Live"
       THEN conn' = c /\ UNCHANGED net
       ELSE /\ conn' = markConnecting(c)
            /\ net' = Send(net, Request("pinPair", c.obj, FALSE, None))
  /\ UNCHANGED <<key, remembered, reconciling, retries, satelliteVars>>

scheduleRetry(quiet, from) ==
  retries' = IF quiet /\ from < MaxRetries THEN from + 1 ELSE from

\* A failed attempt parks: a silent one stale, a user's idle.
Park(c, quiet) == conn' = IF quiet THEN markStale(c) ELSE markDisconnected(c)

\* onConnectPairReply and onPinPairReply.
onPairReply(m) ==
  /\ m \in net /\ m.kind \in {"pair", "pinPair"} /\ m.answer # "out"
  /\ IF ~replyTarget(m)
     THEN conn' = conn /\ net' = net \ {m} /\ UNCHANGED key
     ELSE CASE m.answer = "ok" -> openSession(conn, m.quiet, m.key, net \ {m})
            [] m.answer \in {"auth", "fail"} ->
                 Park(conn, m.quiet) /\ net' = net \ {m} /\ UNCHANGED key
            [] OTHER -> conn' = markDisconnected(conn) /\ net' = net \ {m} /\ UNCHANGED key
  /\ UNCHANGED <<remembered, held, reconciling, retries, satelliteVars, boundVars>>

\* A usable grant starts the session on a client of its own.
startSession(m) ==
  /\ conn' = markConnected(conn, Fresh(({conn.client} \cup {n.client : n \in net}) \ {None}),
                           m.tok, m.cid)
  /\ remembered' = TRUE
  /\ net' = net \ {m}
  /\ UNCHANGED <<key, retries>>

\* A mutant: a grant that cannot be used is handed back and nothing else.
releaseUnusableGrantOnly(m) ==
  /\ net' = Release(net \ {m}, m.cid, m.key)
  /\ Disturb
  /\ UNCHANGED <<conn, key, remembered, retries>>

\* The material or the socket is no use: the grant goes back.
releaseUnusableGrant(m) ==
  /\ conn' = markDisconnected(conn)
  /\ net' = Release(net \ {m}, m.cid, m.key)
  /\ Disturb
  /\ UNCHANGED <<key, remembered, retries>>

onSessionRefused(m) ==
  CASE m.answer = "auth" ->
         onTerminalAuthFailure(conn) /\ net' = net \ {m} /\ UNCHANGED retries
    [] m.answer = "lower" ->
         /\ IF conn.lowered
            THEN conn' = markDisconnected(conn) /\ net' = net \ {m} /\ UNCHANGED key
            ELSE openSession([conn EXCEPT !.lowered = TRUE], m.quiet, key, net \ {m})
         /\ UNCHANGED retries
    [] m.answer = "refused" ->
         conn' = markDisconnected(conn) /\ net' = net \ {m} /\ UNCHANGED <<key, retries>>
    [] OTHER ->
         /\ Park(conn, m.quiet)
         /\ scheduleRetry(m.quiet, retries)
         /\ net' = net \ {m}
         /\ UNCHANGED key

\* A mutant: a late grant is adopted whatever the connection has become.
handBackLateGrantAdopts(m) ==
  IF m.answer = "ok"
  THEN /\ conn' = [conn EXCEPT !.state = "Live", !.tok = m.tok, !.cid = m.cid,
                               !.client = Fresh({conn.client} \ {None})]
       /\ net' = net \ {m}
       /\ UNCHANGED <<key, remembered, retries>>
  ELSE net' = net \ {m} /\ UNCHANGED <<conn, key, remembered, retries>>

\* The attempt is not under way any more.
handBackLateGrant(m) ==
  /\ net' = IF m.answer = "ok" THEN Release(net \ {m}, m.cid, m.key) ELSE net \ {m}
  /\ UNCHANGED <<conn, key, remembered, retries>>

onSessionReply(m) ==
  /\ m \in net /\ m.kind = "put" /\ m.answer # "out"
  /\ \/ /\ ~replyTarget(m)
        /\ net' = net \ {m}
        /\ UNCHANGED <<conn, key, remembered, retries, boundVars>>
     \/ /\ replyTarget(m) /\ conn.state # "Linking"
        /\ handBackLateGrant(m)
        /\ UNCHANGED boundVars
     \/ /\ replyTarget(m) /\ conn.state = "Linking" /\ m.answer = "ok"
        /\ (startSession(m) /\ UNCHANGED boundVars) \/ releaseUnusableGrant(m)
     \/ /\ replyTarget(m) /\ conn.state = "Linking" /\ m.answer # "ok"
        /\ onSessionRefused(m)
        /\ UNCHANGED <<remembered, boundVars>>
  /\ UNCHANGED <<held, reconciling, satelliteVars>>

-----------------------------------------------------------------------------
(* The manager: a session under way                                        *)

Acked == srv.tok # None /\ srv.tok = conn.tok

\* A mutant: the connection is marked without asking whether there is one.
closeSessionUnchecked(c, base) ==
  /\ conn' = markDisconnected(c)
  /\ net' = IF c.cid # None /\ key # None THEN Release(base, c.cid, key) ELSE base

closeSession(c, base) ==
  /\ conn' = IF c.obj = None THEN c ELSE markDisconnected(c)
  /\ net' = IF c.cid # None /\ key # None THEN Release(base, c.cid, key) ELSE base

\* onAliveTick finds the close notice: handleServerClose.
TickClosed ==
  /\ conn.client # None /\ conn.notice # "none"
  /\ CASE conn.notice = "unpaired" ->
            conn' = markStale(conn) /\ key' = None /\ UNCHANGED retries
       [] conn.notice = "replaced" ->
            conn' = markDisconnected(conn) /\ UNCHANGED <<key, retries>>
       [] OTHER ->
            /\ conn' = markDisconnected(conn)
            /\ scheduleRetry(TRUE, retries)
            /\ UNCHANGED key
  /\ UNCHANGED <<remembered, held, reconciling, net, satelliteVars, boundVars>>

\* A mutant: a retry is armed, the session is left as it is.
TickDeadRetriesOnly ==
  /\ Prompt
  /\ conn.client # None /\ conn.notice = "none"
  /\ IF Acked THEN Disturb ELSE UNCHANGED boundVars
  /\ scheduleRetry(TRUE, 0)
  /\ UNCHANGED <<conn, net, key, remembered, held, reconciling, satelliteVars>>

\* onAliveTick finds the client dead: the session is closed, which cancels the
\* retries waiting, and a fresh one is armed.
TickDead ==
  /\ Prompt
  /\ conn.client # None /\ conn.notice = "none"
  /\ IF Acked THEN Disturb ELSE UNCHANGED boundVars
  /\ closeSession(conn, net)
  /\ scheduleRetry(TRUE, 0)
  /\ UNCHANGED <<key, remembered, held, reconciling, satelliteVars>>

\* onAliveTick otherwise: applySteadyState, then reconcile when the ack has
\* drifted, then a re-key when the counter runs out.
TickSteady(faltering, drift, exhausting) ==
  /\ Room
  /\ conn.client # None /\ conn.notice = "none"
  /\ IF (faltering /\ Acked) \/ drift \/ exhausting THEN Disturb ELSE UNCHANGED boundVars
  /\ LET steady == IF conn.state \notin {"Live", "Faltering"} THEN conn.state
                   ELSE IF faltering THEN "Faltering" ELSE "Live"
         get == drift /\ steady = "Live" /\ ~reconciling /\ key # None
         put == exhausting /\ ~conn.rekeyRequested /\ steady = "Live" /\ key # None
         got == IF get THEN Send(net, [Request("get", conn.obj, TRUE, key) EXCEPT !.cid = conn.cid])
                ELSE net
     IN /\ conn' = [conn EXCEPT !.state = steady, !.rekeyRequested = exhausting]
        /\ reconciling' = (reconciling \/ get)
        /\ net' = IF put
                  THEN Send(got, [Request("rekey", conn.obj, TRUE, key)
                                    EXCEPT !.client = conn.client])
                  ELSE got
  /\ UNCHANGED <<key, remembered, held, retries, satelliteVars>>

\* reconcile's reply.  A view that does not match is converged by a fresh PUT.
onReconcileReply(m, matches) ==
  /\ m \in net /\ m.kind = "get" /\ m.answer # "out"
  /\ reconciling' = FALSE
  /\ IF conn.state # "Live" \/ m.answer \notin {"ok", "auth"}
     THEN net' = net \ {m} /\ UNCHANGED <<conn, key>>
     ELSE IF m.answer = "auth"
          THEN onTerminalAuthFailure(conn) /\ net' = net \ {m}
          ELSE IF matches /\ m.cid = conn.cid
               THEN net' = net \ {m} /\ UNCHANGED <<conn, key>>
               ELSE openSession(markConnecting(markDisconnected(conn)), TRUE, key, net \ {m})
  /\ UNCHANGED <<remembered, held, retries, satelliteVars, boundVars>>

onRekeyReply(m, usable) ==
  /\ m \in net /\ m.kind = "rekey" /\ m.answer # "out"
  /\ net' = net \ {m}
  /\ IF conn.obj # None /\ m.answer = "auth"
     THEN onTerminalAuthFailure(conn)
     ELSE /\ conn' = IF /\ conn.state = "Live" /\ conn.client = m.client
                        /\ m.answer = "ok" /\ usable
                     THEN [conn EXCEPT !.tok = m.tok] ELSE conn
          /\ UNCHANGED key
  /\ UNCHANGED <<remembered, held, reconciling, retries, satelliteVars, boundVars>>

-----------------------------------------------------------------------------
(* The manager: ending                                                     *)

disconnect ==
  /\ CountUserOp
  /\ held' = TRUE
  /\ retries' = 0
  /\ closeSession(conn, net)
  /\ UNCHANGED <<key, remembered, reconciling, satelliteVars>>

\* Requests that went out on the object lose it with the object.
forget ==
  /\ CountUserOp /\ conn.obj # None
  /\ LET unpaired == IF key = None THEN net
                     ELSE Send(net, Request("unpair", None, TRUE, key))
         orphaned == {[m EXCEPT !.on = IF m.on = conn.obj THEN None ELSE m.on] :
                        m \in unpaired}
     IN net' = IF conn.cid # None /\ key # None THEN Release(orphaned, conn.cid, key)
               ELSE orphaned
  /\ conn' = NoConnection
  /\ key' = None /\ remembered' = FALSE /\ held' = FALSE /\ reconciling' = FALSE
  /\ retries' = 0
  /\ UNCHANGED satelliteVars

prepareForSleep ==
  /\ CountUserOp /\ conn.obj # None
  /\ retries' = 0
  /\ closeSession(conn, net)
  /\ UNCHANGED <<key, remembered, held, reconciling, satelliteVars>>

-----------------------------------------------------------------------------
(* The satellite and the network                                           *)

\* An answer that grants nothing carries nothing.
Answer(m, a) ==
  net' = (net \ {m}) \cup {[m EXCEPT !.answer = a, !.key = None, !.tok = None, !.cid = None]}

\* A pair is granted with a key of its own, or wants a PIN or another one.
ServePair(m) ==
  /\ m.kind \in {"pair", "pinPair"}
  /\ \/ Answer(m, "auth") /\ UNCHANGED satelliteVars
     \/ /\ srvKey' = Fresh(({key, srvKey} \cup {n.key : n \in net}) \ {None})
        /\ net' = (net \ {m}) \cup {[m EXCEPT !.answer = "ok", !.key = srvKey']}
        /\ UNCHANGED srv

ServePut(m) ==
  /\ m.kind \in {"put", "rekey"}
  /\ IF m.key # srvKey
     THEN Answer(m, "auth") /\ UNCHANGED satelliteVars
     ELSE /\ srv' = [tok |-> Fresh(({srv.tok, conn.tok} \cup {n.tok : n \in net}) \ {None}),
                     cid |-> IF srv.cid # None THEN srv.cid
                             ELSE Fresh(({conn.cid} \cup {n.cid : n \in net}) \ {None})]
          /\ net' = (net \ {m}) \cup
                      {[m EXCEPT !.answer = "ok", !.tok = srv'.tok, !.cid = srv'.cid]}
          /\ UNCHANGED srvKey

ServeGet(m) ==
  /\ m.kind = "get"
  /\ IF m.key = srvKey /\ m.cid = srv.cid
     THEN net' = (net \ {m}) \cup {[m EXCEPT !.answer = "ok", !.key = None]}
     ELSE Answer(m, IF m.key # srvKey THEN "auth" ELSE "fail")
  /\ UNCHANGED satelliteVars

NoSession == [cid |-> None, tok |-> None]

ServeEnd(m) ==
  /\ m.kind \in {"delete", "unpair"}
  /\ net' = net \ {m}
  /\ srv' = IF m.key = srvKey /\ (m.kind = "unpair" \/ m.cid = srv.cid) THEN NoSession ELSE srv
  /\ srvKey' = IF m.key = srvKey /\ m.kind = "unpair" THEN None ELSE srvKey

Serve(m) ==
  /\ m \in net /\ m.answer = "out"
  /\ ServePair(m) \/ ServePut(m) \/ ServeGet(m) \/ ServeEnd(m)
  /\ UNCHANGED <<conn, managerVars, boundVars>>

\* A request or its reply is lost, or the satellite cannot serve it.
Lose(m) ==
  /\ m \in net /\ Disturb
  /\ \/ m.kind \in {"delete", "unpair"} /\ net' = net \ {m}
     \/ m.kind \notin {"delete", "unpair"} /\ m.answer # "fail" /\ Answer(m, "fail")
     \/ m.kind \in {"put", "pair", "pinPair"} /\ m.answer = "out" /\ Answer(m, "refused")
     \/ m.kind = "put" /\ m.answer = "out" /\ ~conn.lowered /\ Answer(m, "lower")
  /\ UNCHANGED <<conn, managerVars, satelliteVars>>

\* The satellite ends the session and says so; the notice may not arrive.
EndByServer(reason) ==
  /\ Disturb
  /\ srv # NoSession
  /\ srv' = NoSession
  /\ srvKey' = IF reason = "unpaired" THEN None ELSE srvKey
  /\ \/ conn' = conn
     \/ Acked /\ conn.notice = "none" /\ conn' = [conn EXCEPT !.notice = reason]
  /\ UNCHANGED <<managerVars, net>>

Reasons == {"unpaired", "replaced", "kicked"}

-----------------------------------------------------------------------------
(* The specification                                                       *)

Handle(m) ==
  \/ onPairReply(m) \/ onSessionReply(m)
  \/ \E b \in BOOLEAN : onReconcileReply(m, b) \/ onRekeyReply(m, b)

User == UserConnect \/ pairWithPin \/ disconnect \/ forget \/ prepareForSleep

Next ==
  \/ User \/ CalmDown
  \/ autoReconnectAll \/ onRetryDue
  \/ TickClosed \/ TickDead
  \/ \E f, d, e \in BOOLEAN : TickSteady(f, d, e)
  \/ \E m \in net : Serve(m) \/ Handle(m) \/ Lose(m)
  \/ \E r \in Reasons : EndByServer(r)

Kinds == {"pair", "pinPair", "put", "rekey", "get", "delete", "unpair"}

Progress(kind, id) ==
  \E m \in net : m.kind = kind /\ m.id = id /\ (Serve(m) \/ Handle(m))

\* Timers fire, the satellite serves what reaches it and replies are delivered.
Fairness ==
  /\ WF_vars(CalmDown)
  /\ WF_vars(autoReconnectAll) /\ WF_vars(onRetryDue)
  /\ WF_vars(TickClosed) /\ WF_vars(TickDead)
  /\ WF_vars(TickSteady(FALSE, FALSE, FALSE))
  /\ \A kind \in Kinds, id \in 1 .. MaxInFlight + 2 : WF_vars(Progress(kind, id))

Spec == Init /\ [][Next]_vars /\ Fairness

-----------------------------------------------------------------------------
(* Properties                                                              *)

States == {"None", "Idle", "Linking", "Live", "Faltering", "Stale"}

\* The type invariant.
TypeOK ==
  /\ conn.state \in States
  /\ (conn.obj = None) = (conn.state = "None")
  /\ {conn.obj, conn.client, conn.tok, conn.cid, key, srvKey} \subseteq Nat
  /\ {remembered, held, reconciling} \subseteq BOOLEAN
  /\ retries \in 0 .. MaxRetries
  /\ \A m \in net :
       m.kind \in Kinds /\ m.answer \in {"out", "ok", "auth", "lower", "refused", "fail"}

\* A connection has what its state needs and nothing of another: an attempt under
\* way has a request out that will end it (connectTo turns away from a connection
\* that is linking, so one without a request would link for ever), a session that
\* is up can send and be released, and one that is down keeps nothing of it.  And
\* "A user's Disconnect holds until the user connects again ... none of them may
\* undo it" (heldByUser): whatever replies, retries and reconnects are still on
\* their way, a satellite the user disconnected is not connected to.
StateHasItsMeans ==
  /\ held => conn.state \notin {"Linking", "Live", "Faltering"}
  /\ conn.state = "Linking" =>
       \E m \in net : m.kind \in {"pair", "pinPair", "put"} /\ m.on = conn.obj
  /\ conn.state \in {"Live", "Faltering"} => conn.client # None /\ conn.cid # None
  /\ conn.state \in {"None", "Idle", "Stale"} => conn.client = None /\ conn.cid = None

\* Once nothing more goes wrong a remembered satellite ends up connected, under
\* the token the satellite acknowledges, unless the user holds it down or it has
\* to be paired again.
Converges ==
  <>[](held \/ ~remembered \/ key = None \/ key # srvKey \/ (conn.state = "Live" /\ Acked))

-----------------------------------------------------------------------------
(* What the code does not keep: TLC refutes each of these as a property of *)
(* WifiSession (README.md, Departures).                                   *)

\* "A reply ... acts on it only if it is still the object the request went out on
\* ... a Forget followed by a fresh pair files a new object under the same id, which
\* a reply from before the Forget must not reach" (WifiConnectionManager.h).
ReplyActsOnItsConnection ==
  [][\A m \in net \ net' :
       m.answer # "out" /\ <<conn, key>>' # <<conn, key>> => m.on = conn.obj]_vars

\* "The attempt a PUT answers already ended here, by a user's Disconnect or a
\* sleep" (WifiConnectionManager.h on handBackLateGrant): the connection id that
\* is handed back is not that of the session under way.
HandsBackOnlyEnded ==
  [][\A m \in net' \ net :
       m.kind = "delete" /\ m.answer = "out" /\ conn' = conn => m.cid # conn.cid]_vars

\* "A session the machine slept through comes back Faltering, which slips past
\* ... autoReconnectAll's 'not Live' guard" (WifiConnectionManager.h): the
\* periodic reconnect leaves a faltering session alone.
ReconnectLeavesFaltering ==
  [][conn.state = "Faltering" /\ conn'.state = "Linking" => userOps' # userOps]_vars

\* "Each participant has exactly one thread writing it at a time" (GraceEpoch.h),
\* and a connection's receive threads share its participant: a session's client
\* is stopped before the next one starts.
OneReceiveThread ==
  [][conn.client # None /\ conn'.client # None => conn'.client = conn.client]_vars

=============================================================================
