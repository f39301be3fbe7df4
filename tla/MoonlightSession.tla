--------------------------- MODULE MoonlightSession ---------------------------
(***************************************************************************)
(* One Moonlight host and the session with it: the commands of             *)
(* MoonlightManager and the callbacks of MoonlightSession on the GUI       *)
(* thread, the worker that runs the RTSP handshake and the ENet connect,   *)
(* the receive thread of the control channel, and the host.                *)
(*                                                                         *)
(* The GUI thread, the worker and the receive thread meet in               *)
(* MoonlightControlChannel, whose connect and disconnect are modelled lock *)
(* by lock; the GUI thread waits in two joins.  Results reach it through   *)
(* one queue, in order; HTTP replies come late, in any order or not at     *)
(* all.                                                                    *)
(*                                                                         *)
(* The host is modelled from what the session relies on: /launch starts an *)
(* app unless one runs, /resume hands back one this client started,        *)
(* /cancel closes whatever runs, and the control stream ends with its app. *)
(* Controller frames and announcements are in MoonlightPads.               *)
(*                                                                         *)
(* First comes the reducer of a session (core/moonlight/                   *)
(* MoonlightSessionMachine.h): a phase and an event give a phase, a reason *)
(* and the effects to perform.  The two events no code raises,             *)
(* PingsMissed and PingsRecovered, are left out, and Faltering with them.  *)
(***************************************************************************)
EXTENDS Naturals, Integers, Sequences, FiniteSets

SessionPhase ==
  {"Idle", "Pairing", "Paired", "Launching", "RtspHandshake", "ControlConnecting", "Streaming",
   "Closed", "Failed"}

SessionFailure ==
  {"None", "PairRejected", "Unreachable", "LaunchRejected", "AppAlreadyRunning", "ResumeRejected",
   "RtspFailed", "ControlFailed", "LinkDropped", "ServerTerminated"}

hostHoldsOurApp(phase) == phase \in {"RtspHandshake", "ControlConnecting", "Streaming"}

sessionAttemptInFlight(phase) == phase = "Launching" \/ hostHoldsOurApp(phase)

\* A reduction.  The effects that matter here: "BeginLaunch", "BeginRtsp",
\* "SendArrival", "Teardown" and "CancelOnHost"; the code performs them in the
\* order Teardown, CancelOnHost.
to(phase, failure, effects) == [phase |-> phase, failure |-> failure, effects |-> effects]

noop(s) == to(s.phase, s.failure, {})

\* An event that applies in some phases only.
inPhases(s, phases, reduction) == IF s.phase \in phases THEN reduction ELSE noop(s)

onStartPairing(s) == inPhases(s, {"Idle", "Closed", "Failed"}, to("Pairing", "None", {}))

onPairSucceeded(s) == inPhases(s, {"Pairing"}, to("Paired", "None", {}))

onPairFailed(s) == inPhases(s, {"Pairing"}, to("Failed", "PairRejected", {}))

onStartLaunch(s) ==
  inPhases(s, {"Idle", "Paired", "Closed", "Failed"}, to("Launching", "None", {"BeginLaunch"}))

\* A mutant: the launch that was walked away from is left running.
onLaunchSucceededIgnored(s) ==
  inPhases(s, {"Launching"}, to("RtspHandshake", "None", {"BeginRtsp"}))

onLaunchSucceeded(s) ==
  CASE s.phase = "Launching" -> to("RtspHandshake", "None", {"BeginRtsp"})
    [] s.phase = "Closed"    -> to("Closed", s.failure, {"CancelOnHost"})
    [] OTHER                 -> noop(s)

\* LaunchFailed, LaunchRefusedBusy and ResumeRefused.
onLaunchRefused(s, failure) == inPhases(s, {"Launching"}, to("Failed", failure, {}))

onRtspSucceeded(s) == inPhases(s, {"RtspHandshake"}, to("ControlConnecting", "None", {}))

onRtspFailed(s) ==
  inPhases(s, {"RtspHandshake"}, to("Failed", "RtspFailed", {"Teardown", "CancelOnHost"}))

onControlConnected(s) ==
  inPhases(s, {"ControlConnecting"}, to("Streaming", "None", {"SendArrival"}))

onControlConnectFailed(s) ==
  inPhases(s, {"ControlConnecting"}, to("Failed", "ControlFailed", {"Teardown", "CancelOnHost"}))

onServerTerminated(s) ==
  inPhases(s, {"Streaming", "ControlConnecting"}, to("Failed", "ServerTerminated", {"Teardown"}))

onControlDropped(s) ==
  inPhases(s, {"Streaming"}, to("Failed", "LinkDropped", {"Teardown"}))

onUnreachable(s) ==
  inPhases(s, {"Pairing", "Launching", "RtspHandshake"}, to("Failed", "Unreachable", {}))

\* A mutant: a launch nobody has answered is cancelled too.
onUserQuitSpeculative(s) ==
  CASE s.phase \in {"Idle", "Closed", "Failed"} -> noop(s)
    [] OTHER -> to("Closed", "None", {"Teardown", "CancelOnHost"})

onUserQuit(s) ==
  CASE s.phase \in {"Idle", "Closed", "Failed"} -> noop(s)
    [] hostHoldsOurApp(s.phase)                 -> to("Closed", "None", {"Teardown", "CancelOnHost"})
    [] OTHER                                    -> to("Closed", "None", {"Teardown"})

-----------------------------------------------------------------------------
(* The machine around it.                                                  *)

CONSTANTS MaxOps,     \* bound: commands of the user
          MaxFaults,  \* bound: timeouts, lost links, apps ended or started at the host
          MaxPads,    \* bound: pads bound to the host at a time
          PairPhases  \* phases of the pairing exchange; five in the code

ASSUME MoonlightAssumption ==
  {MaxOps, MaxFaults, MaxPads} \subseteq Nat /\ PairPhases \in Nat \ {0}

VARIABLES ses,      \* the MoonlightSession object
          pads,     \* how many pads are routed at the host
          reqs,     \* HTTP requests out, with the reply once the host has answered
          chains,   \* pairing exchanges under way
          gui,      \* where the GUI thread is inside a handler
          worker,   \* worker_
          ctl,      \* MoonlightControlChannel
          rx,       \* the receive thread of every link there has been
          queue,    \* what was posted to the GUI thread
          app,      \* what the host runs
          wire,     \* the host's end of every link
          history,  \* for the properties: what was heard and what went wrong
          ops       \* commands so far

vars == <<ses, pads, reqs, chains, gui, worker, ctl, rx, queue, app, wire, history, ops>>

Attempts == 1 .. MaxOps
None == 0
Other == MaxOps + 1

\* at: "kept" in sessions_, "retired" by a forget, "leaving" after deleteLater.
FirstSession ==
  [phase |-> "Idle", failure |-> "None", rikey |-> None, handshakes |-> 0, cancels |-> 0,
   sent |-> 0, generation |-> 0, at |-> "kept"]

Idle == [pc |-> "idle", cancel |-> FALSE, then |-> "nothing"]

NoWorker == [pc |-> "none", n |-> None, key |-> None, ok |-> FALSE]

DownChannel == [cancelled |-> FALSE, running |-> FALSE, connected |-> FALSE, link |-> None]

Init ==
  /\ ses = FirstSession /\ pads = 0 /\ reqs = {} /\ chains = {} /\ gui = Idle
  /\ worker = NoWorker /\ ctl = DownChannel /\ queue = <<>> /\ ops = 0
  /\ rx = [l \in Attempts |-> "none"] /\ wire = [l \in Attempts |-> "none"]
  /\ app = [of |-> None, key |-> None]
  /\ history = [heard |-> {}, credit |-> 0, lossless |-> TRUE, crossed |-> FALSE, faults |-> 0]

-----------------------------------------------------------------------------
(* Requests                                                                *)

Launch(n) == [kind |-> "launch", n |-> n, key |-> n, reply |-> "out", of |-> None]
Resume(n, key) == [kind |-> "resume", n |-> n, key |-> key, reply |-> "out", of |-> None]
Cancel(n) == [kind |-> "cancel", n |-> n, key |-> None, reply |-> "out", of |-> None]

\* dispatch and runEffects.  rs: the requests out once the event's own is consumed;
\* next: what the handler goes on with after a teardown; h: the history.  A
\* teardown and a join of the worker leave the GUI thread inside the handler.
Dispatch(r, rs, next, h) ==
  LET launches == "BeginLaunch" \in r.effects
      tears    == "Teardown" \in r.effects
      cancels  == "CancelOnHost" \in r.effects
      now      == cancels /\ ~tears
  IN  /\ ses' = [ses EXCEPT !.phase = r.phase, !.failure = r.failure,
                            !.rikey = IF launches THEN @ + 1 ELSE @,
                            !.cancels = IF now THEN @ + 1 ELSE @,
                            !.sent = IF now THEN @ + 1 ELSE @]
      /\ reqs' = rs \cup (IF launches THEN {Launch(ses.rikey + 1)} ELSE {})
                    \cup (IF now THEN {Cancel(ses.sent + 1)} ELSE {})
      /\ gui' = CASE tears -> [pc |-> "flag", cancel |-> cancels, then |-> next]
                  [] "BeginRtsp" \in r.effects -> [Idle EXCEPT !.pc = "join", !.then = "begin"]
                  [] OTHER -> Idle
      /\ history' = [h EXCEPT !.credit = IF cancels THEN @ - 1 ELSE @]

GuiFree == gui.pc = "idle" /\ ses.at # "deleted"

threadVars == <<worker, ctl, rx>>
hostVars == <<app, wire>>

-----------------------------------------------------------------------------
(* The user's commands, as the manager carries them out.                   *)

Command == GuiFree /\ ses.at = "kept" /\ ops < MaxOps /\ ops' = ops + 1

\* launchPick and launch; listed is false when the host no longer lists the app
\* picked for it, and nothing starts.
launch(listed) ==
  IF listed THEN Dispatch(onStartLaunch(ses), reqs, "nothing", history)
            ELSE UNCHANGED <<ses, reqs, gui, history>>

\* The first pad on a host starts its session, and so does one bound again; another
\* joins what there is.
bindSlot ==
  /\ Command
  /\ \E again \in BOOLEAN, listed \in BOOLEAN :
       /\ IF again THEN pads > 0 /\ pads' = pads ELSE pads < MaxPads /\ pads' = pads + 1
       /\ IF again \/ pads = 0 THEN launch(listed) ELSE UNCHANGED <<ses, reqs, gui, history>>
  /\ UNCHANGED <<chains, queue, threadVars, hostVars>>

\* The last pad off the host ends the session.
unbindSlot ==
  /\ Command
  /\ pads > 0 /\ pads' = pads - 1
  /\ IF pads = 1 THEN Dispatch(onUserQuit(ses), reqs, "nothing", history)
                 ELSE UNCHANGED <<ses, reqs, gui, history>>
  /\ UNCHANGED <<chains, queue, threadVars, hostVars>>

connectHost ==
  /\ Command
  /\ launch(TRUE)
  /\ UNCHANGED <<pads, chains, queue, threadVars, hostVars>>

disconnectHost ==
  /\ Command
  /\ Dispatch(onUserQuit(ses), reqs, "nothing", history)
  /\ UNCHANGED <<pads, chains, queue, threadVars, hostVars>>

\* A mutant: the bare /cancel is not counted, and its reply is.
cancelHostAppUncounted ==
  /\ Command
  /\ IF sessionAttemptInFlight(ses.phase)
     THEN Dispatch(onUserQuit(ses), reqs, "nothing", history)
     ELSE /\ ses' = [ses EXCEPT !.sent = @ + 1]
          /\ reqs' = reqs \cup {Cancel(ses.sent + 1)}
          /\ UNCHANGED <<gui, history>>
  /\ UNCHANGED <<pads, chains, queue, threadVars, hostVars>>

\* The user asks for the host's app to be closed: ours by a quit, another's by a
\* bare /cancel.
cancelHostApp ==
  /\ Command
  /\ IF sessionAttemptInFlight(ses.phase)
     THEN Dispatch(onUserQuit(ses), reqs, "nothing", history)
     ELSE /\ ses' = [ses EXCEPT !.cancels = @ + 1, !.sent = @ + 1]
          /\ reqs' = reqs \cup {Cancel(ses.sent + 1)}
          /\ UNCHANGED <<gui, history>>
  /\ UNCHANGED <<pads, chains, queue, threadVars, hostVars>>

\* pairHost: a pairing that waits for its PIN is dropped first.  The exchange runs
\* whether or not the reducer took the event.
pairHost ==
  /\ Command
  /\ LET cancelled == onPairFailed(ses)
         gen == IF ses.phase = "Pairing" THEN ses.generation + 1 ELSE ses.generation
         r == onStartPairing(cancelled)
     IN  /\ ses' = [ses EXCEPT !.phase = r.phase, !.failure = r.failure, !.generation = gen]
         /\ chains' = chains \cup {[n |-> ops + 1, generation |-> gen, left |-> PairPhases]}
  /\ UNCHANGED <<pads, reqs, gui, queue, threadVars, hostVars, history>>

cancelPairing ==
  /\ Command
  /\ ses.phase = "Pairing"
  /\ ses' = [ses EXCEPT !.phase = onPairFailed(ses).phase, !.failure = onPairFailed(ses).failure,
                        !.generation = @ + 1]
  /\ UNCHANGED <<pads, reqs, chains, gui, queue, threadVars, hostVars, history>>

\* retireSession after its quit.
retire(s) == [s EXCEPT !.at = IF s.cancels = 0 THEN "leaving" ELSE "retired"]

\* forgetHost: the pairing is dropped, the pads are released, the last of them or
\* retireSession quits, and the session goes when its /cancel has been answered.
forgetHost ==
  /\ Command
  /\ pads' = 0
  /\ LET pairing == ses.phase = "Pairing"
         r == onUserQuit(IF pairing THEN onPairFailed(ses) ELSE ses)
         gen == IF pairing THEN ses.generation + 1 ELSE ses.generation
     IN  IF r.effects = {}
         THEN /\ ses' = retire([ses EXCEPT !.phase = r.phase, !.failure = r.failure,
                                           !.generation = gen])
              /\ UNCHANGED <<reqs, gui, history>>
         ELSE Dispatch(r, reqs, "retire", history)
  /\ UNCHANGED <<chains, queue, threadVars, hostVars>>

Commands ==
  \/ bindSlot \/ unbindSlot \/ connectHost \/ disconnectHost
  \/ cancelHostApp \/ pairHost \/ cancelPairing \/ forgetHost

-----------------------------------------------------------------------------
(* Replies                                                                 *)

\* The reply to a pairing phase: dropped when the generation has moved on, else the
\* next phase, or the end.
onPairPhase(c, ok) ==
  /\ GuiFree /\ c \in chains
  /\ LET rest == chains \ {c}
         abandoned == c.generation # ses.generation
         r == IF ok THEN onPairSucceeded(ses) ELSE onPairFailed(ses)
         goesOn == ~abandoned /\ ok /\ c.left > 1
     IN  /\ chains' = IF goesOn THEN rest \cup {[c EXCEPT !.left = @ - 1]} ELSE rest
         /\ ses' = IF abandoned \/ goesOn THEN ses
                   ELSE [ses EXCEPT !.phase = r.phase, !.failure = r.failure]
  /\ UNCHANGED <<pads, reqs, gui, queue, threadVars, hostVars, history, ops>>

\* An acceptance has been read; the app is this session's to quit unless the session
\* is about to go, or had turned to something else.
Heard(of) ==
  LET owes == ses.phase \in {"Launching", "Closed"} /\ ses.at # "leaving"
  IN  [history EXCEPT !.credit = @ + 1, !.heard = IF owes THEN @ \cup {of} ELSE @]

\* onLaunchReply for a reply the host gave.
onLaunchReply(q) ==
  /\ GuiFree /\ q \in reqs /\ q.kind # "cancel" /\ q.reply \notin {"out", "late"}
  /\ LET rest == reqs \ {q}
         refusal == CASE q.kind = "resume" -> "ResumeRejected"
                      [] q.kind = "launch" /\ q.reply = "busy" -> "AppAlreadyRunning"
                      [] OTHER -> "LaunchRejected"
     IN  CASE q.reply = "ok" -> Dispatch(onLaunchSucceeded(ses), rest, "nothing", Heard(q.of))
           [] q.reply = "resumable" ->
                /\ reqs' = rest \cup {Resume(q.n, ses.rikey)}
                /\ UNCHANGED <<ses, gui, history>>
           [] OTHER -> Dispatch(onLaunchRefused(ses, refusal), rest, "nothing", history)
  /\ UNCHANGED <<pads, chains, queue, threadVars, hostVars, ops>>

\* The callback of cancelHostApp.
onCancelReply(q, rest, h) ==
  /\ ses' = [ses EXCEPT !.cancels = @ - 1,
                        !.at = IF @ = "retired" /\ ses.cancels = 1 THEN "leaving" ELSE @]
  /\ reqs' = rest /\ history' = h /\ UNCHANGED gui

CancelAnswered(q) ==
  /\ GuiFree /\ q \in reqs /\ q.kind = "cancel" /\ q.reply \notin {"out", "late"}
  /\ onCancelReply(q, reqs \ {q}, history)
  /\ UNCHANGED <<pads, chains, queue, threadVars, hostVars, ops>>

Fault == history.faults < MaxFaults
Faulted == [history EXCEPT !.faults = @ + 1]

\* A request's deadline passes.  The host may have it already, or get it yet.
RequestTimesOut(q) ==
  /\ GuiFree /\ q \in reqs /\ q.reply # "late" /\ Fault
  /\ LET rest == (reqs \ {q}) \cup (IF q.reply = "out" THEN {[q EXCEPT !.reply = "late"]} ELSE {})
         h == [Faulted EXCEPT !.lossless = FALSE]
     IN  IF q.kind = "cancel" THEN onCancelReply(q, rest, h)
         ELSE Dispatch(onUnreachable(ses), rest, "nothing", h)
  /\ UNCHANGED <<pads, chains, queue, threadVars, hostVars, ops>>

\* The grace of a forget runs out.
GraceEnds ==
  /\ GuiFree /\ ses.at = "retired" /\ Fault
  /\ ses' = [ses EXCEPT !.at = "leaving"]
  /\ history' = [Faulted EXCEPT !.lossless = FALSE]
  /\ UNCHANGED <<pads, reqs, chains, gui, queue, threadVars, hostVars, ops>>

\* deleteLater: the destructor joins the worker and cuts the channel.
DeleteSession ==
  /\ GuiFree /\ ses.at = "leaving"
  /\ gui' = [Idle EXCEPT !.pc = "join", !.then = "delete"]
  /\ UNCHANGED <<ses, pads, reqs, chains, queue, threadVars, hostVars, history, ops>>

-----------------------------------------------------------------------------
(* Posted results                                                          *)

Take(r, h) ==
  /\ GuiFree /\ queue # <<>> /\ queue' = Tail(queue)
  /\ Dispatch(r, reqs, "nothing", h)
  /\ UNCHANGED <<pads, chains, threadVars, hostVars, ops>>

onRtspFinished ==
  /\ queue # <<>> /\ Head(queue).of = "handshake"
  /\ LET m == Head(queue)
         named == onRtspSucceeded(ses)
     IN  Take(CASE m.result = "noRtsp"    -> onRtspFailed(ses)
                [] m.result = "noControl" -> onControlConnectFailed(named)
                [] m.result = "up"        -> onControlConnected(named),
              [history EXCEPT !.crossed = @ \/ m.n # ses.handshakes])

onControlDisconnect ==
  /\ queue # <<>> /\ Head(queue).of = "link"
  /\ LET r == IF Head(queue).result = "terminated" THEN onServerTerminated(ses)
                                                   ELSE onControlDropped(ses)
     IN  Take(r, IF r.phase = ses.phase THEN history
                 ELSE [history EXCEPT !.heard = {}, !.credit = 0])

-----------------------------------------------------------------------------
(* MoonlightControlChannel                                                 *)

\* disconnect, one step of it for a thread at pc: the flag, under the lock; the
\* stop; the join of the receive thread; the teardown, under the lock.
disconnectAfter == [flag |-> "stop", stop |-> "joinRx", joinRx |-> "cut", cut |-> "over"]

\* A mutant: nobody tells the receive thread to stop.
disconnectRunsOn(pc) ==
  CASE pc = "flag" -> ctl' = [ctl EXCEPT !.cancelled = TRUE] /\ UNCHANGED <<rx, wire>>
    [] pc = "stop" -> UNCHANGED <<ctl, rx, wire>>
    [] pc = "joinRx" -> /\ \A l \in Attempts : rx[l] # "run"
                        /\ rx' = [l \in Attempts |-> "none"] /\ UNCHANGED <<ctl, wire>>
    [] pc = "cut" -> /\ ctl' = [ctl EXCEPT !.connected = FALSE, !.link = None]
                     /\ wire' = [l \in Attempts |-> IF l = ctl.link THEN "none" ELSE wire[l]]
                     /\ UNCHANGED rx

disconnect(pc) ==
  CASE pc = "flag" -> ctl' = [ctl EXCEPT !.cancelled = TRUE] /\ UNCHANGED <<rx, wire>>
    [] pc = "stop" -> ctl' = [ctl EXCEPT !.running = FALSE] /\ UNCHANGED <<rx, wire>>
    [] pc = "joinRx" -> /\ \A l \in Attempts : rx[l] # "run"
                        /\ rx' = [l \in Attempts |-> "none"] /\ UNCHANGED <<ctl, wire>>
    [] pc = "cut" -> /\ ctl' = [ctl EXCEPT !.connected = FALSE, !.link = None]
                     /\ wire' = [l \in Attempts |-> IF l = ctl.link THEN "none" ELSE wire[l]]
                     /\ UNCHANGED rx

\* The GUI thread inside a teardown or the destructor.
GuiDisconnects ==
  /\ gui.pc \in {"flag", "stop", "joinRx"}
  /\ disconnect(gui.pc)
  /\ gui' = [gui EXCEPT !.pc = disconnectAfter[@]]
  /\ UNCHANGED <<ses, pads, reqs, chains, worker, queue, app, history, ops>>

\* The last step, and the rest of the handler: the /cancel, retireSession, or the
\* end of the object with its requests and what was posted to it.
GuiCuts ==
  /\ gui.pc = "cut" /\ disconnect("cut") /\ gui' = Idle
  /\ LET s == IF gui.cancel THEN [ses EXCEPT !.cancels = @ + 1, !.sent = @ + 1] ELSE ses
     IN  IF gui.then = "delete"
         THEN /\ ses' = [ses EXCEPT !.at = "deleted"] /\ queue' = <<>> /\ chains' = {}
              /\ reqs' = {[q EXCEPT !.reply = "late"] : q \in {p \in reqs : p.reply \in {"out", "late"}}}
         ELSE /\ ses' = IF gui.then = "retire" THEN retire(s) ELSE s
              /\ reqs' = reqs \cup (IF gui.cancel THEN {Cancel(s.sent)} ELSE {})
              /\ UNCHANGED <<queue, chains>>
  /\ UNCHANGED <<pads, worker, app, history, ops>>

\* beginRtspAndControl and the destructor wait for the worker before.
GuiJoins ==
  /\ gui.pc = "join" /\ worker.pc \in {"none", "done"}
  /\ IF gui.then = "begin"
     THEN /\ worker' = [pc |-> "rtsp", n |-> ses.handshakes + 1, key |-> ses.rikey, ok |-> FALSE]
          /\ ses' = [ses EXCEPT !.handshakes = @ + 1]
          /\ gui' = Idle
     ELSE /\ gui' = [gui EXCEPT !.pc = "flag"]
          /\ UNCHANGED <<worker, ses>>
  /\ UNCHANGED <<pads, reqs, chains, ctl, rx, queue, hostVars, history, ops>>

-----------------------------------------------------------------------------
(* The worker                                                              *)

Post(m) == queue' = Append(queue, m)

WorkerElse == UNCHANGED <<ses, pads, reqs, chains, gui, app, history, ops>>

HandshakeRtsp ==
  /\ worker.pc = "rtsp"
  /\ \/ worker' = [worker EXCEPT !.pc = "flag"] /\ UNCHANGED queue
     \/ /\ worker' = [worker EXCEPT !.pc = "done"]
        /\ Post([of |-> "handshake", n |-> worker.n, result |-> "noRtsp"])
  /\ UNCHANGED <<ctl, rx, wire>> /\ WorkerElse

\* connect begins with a disconnect.
WorkerDisconnects ==
  /\ worker.pc \in DOMAIN disconnectAfter
  /\ disconnect(worker.pc)
  /\ worker' = [worker EXCEPT !.pc = disconnectAfter[@]]
  /\ UNCHANGED queue /\ WorkerElse

\* The key, the sealer and the cleared flag, under the lock.
WorkerArms ==
  /\ worker.pc = "over"
  /\ ctl' = [ctl EXCEPT !.cancelled = FALSE]
  /\ worker' = [worker EXCEPT !.pc = "shake"]
  /\ UNCHANGED <<rx, wire, queue>> /\ WorkerElse

\* The ENet handshake: the host takes a peer for a session it holds.
HandshakeControl ==
  /\ worker.pc = "shake"
  /\ \/ /\ app.of \in Attempts
        /\ wire' = [wire EXCEPT ![worker.n] = "up"]
        /\ worker' = [worker EXCEPT !.pc = "publish"]
     \/ /\ worker' = [worker EXCEPT !.pc = "post"] /\ UNCHANGED wire
  /\ UNCHANGED <<ctl, rx, queue>> /\ WorkerElse

\* A link that is up is published and its receive thread started, under the lock,
\* unless a disconnect came meanwhile.
WorkerPublishes ==
  /\ worker.pc = "publish"
  /\ worker' = [worker EXCEPT !.pc = "post", !.ok = ~ctl.cancelled]
  /\ IF ctl.cancelled
     THEN wire' = [wire EXCEPT ![worker.n] = "none"] /\ UNCHANGED <<ctl, rx>>
     ELSE /\ ctl' = [ctl EXCEPT !.link = worker.n, !.connected = TRUE, !.running = TRUE]
          /\ rx' = [rx EXCEPT ![worker.n] = "run"] /\ UNCHANGED wire
  /\ UNCHANGED queue /\ WorkerElse

WorkerPosts ==
  /\ worker.pc = "post"
  /\ worker' = [worker EXCEPT !.pc = "done"]
  /\ Post([of |-> "handshake", n |-> worker.n, result |-> IF worker.ok THEN "up" ELSE "noControl"])
  /\ UNCHANGED <<ctl, rx, wire>> /\ WorkerElse

-----------------------------------------------------------------------------
(* The receive thread of link l                                            *)

\* It ends when it is told to or when its host object is gone.
ReceiveEnds(l) ==
  /\ rx[l] = "run" /\ (~ctl.running \/ ctl.link # l)
  /\ rx' = [rx EXCEPT ![l] = "done"]
  /\ UNCHANGED <<ctl, wire, worker, queue>> /\ WorkerElse

\* The DISCONNECT of the peer, with or without a TERMINATION before it.
ReceiveDisconnect(l) ==
  /\ rx[l] = "run" /\ ctl.link = l /\ wire[l] \in {"lost", "terminated"}
  /\ ctl' = [ctl EXCEPT !.connected = FALSE]
  /\ rx' = [rx EXCEPT ![l] = "done"]
  /\ Post([of |-> "link", n |-> l, result |-> wire[l]])
  /\ history' = [history EXCEPT !.crossed = @ \/ (worker.pc = "post" /\ worker.n = l)]
  /\ UNCHANGED <<ses, pads, reqs, chains, gui, worker, app, wire, ops>>

-----------------------------------------------------------------------------
(* The host                                                                *)

HostElse == UNCHANGED <<ses, pads, chains, gui, worker, ctl, rx, queue, ops>>

\* The host's end of the streams when its app goes.
Ended == [l \in Attempts |-> IF wire[l] = "up" THEN "terminated" ELSE wire[l]]

\* A request reaches the host; nobody waits for the answer of a late one.
Answer(q, reply, of) ==
  reqs' = (reqs \ {q}) \cup
          (IF q.reply = "late" THEN {} ELSE {[q EXCEPT !.reply = reply, !.of = of]})

HostLaunches(q) ==
  /\ q \in reqs /\ q.reply \in {"out", "late"} /\ q.kind = "launch"
  /\ CASE app.of = None -> app' = [of |-> q.n, key |-> q.key] /\ Answer(q, "ok", q.n)
       [] app.of = Other -> Answer(q, "busy", None) /\ UNCHANGED app
       [] OTHER -> Answer(q, "resumable", None) /\ UNCHANGED app
  /\ UNCHANGED <<wire, history>> /\ HostElse

HostResumes(q) ==
  /\ q \in reqs /\ q.reply \in {"out", "late"} /\ q.kind = "resume"
  /\ app.of \in Attempts
  /\ app' = [app EXCEPT !.key = q.key] /\ Answer(q, "ok", app.of)
  /\ UNCHANGED <<wire, history>> /\ HostElse

HostRefuses(q) ==
  /\ q \in reqs /\ q.reply \in {"out", "late"} /\ q.kind # "cancel"
  /\ Answer(q, "refused", None)
  /\ UNCHANGED <<app, wire, history>> /\ HostElse

HostCancels(q) ==
  /\ q \in reqs /\ q.reply \in {"out", "late"} /\ q.kind = "cancel"
  /\ app' = [of |-> None, key |-> None] /\ wire' = Ended /\ Answer(q, "ok", None)
  /\ UNCHANGED history /\ HostElse

LateRequestLost(q) ==
  /\ q \in reqs /\ q.reply = "late" /\ reqs' = reqs \ {q}
  /\ UNCHANGED <<app, wire, history>> /\ HostElse

\* The app is closed at the host, where another client's may follow at once, or another
\* client starts one.
HostEndsApp ==
  /\ app.of # None /\ Fault /\ history' = Faulted
  /\ \E of \in {None, Other} : app' = [of |-> of, key |-> None]
  /\ wire' = Ended
  /\ UNCHANGED reqs /\ HostElse

OtherStartsApp ==
  /\ app.of = None /\ Fault /\ history' = Faulted
  /\ app' = [of |-> Other, key |-> None]
  /\ UNCHANGED <<wire, reqs>> /\ HostElse

LinkLost(l) ==
  /\ wire[l] = "up" /\ Fault /\ history' = Faulted
  /\ wire' = [wire EXCEPT ![l] = "lost"]
  /\ UNCHANGED <<app, reqs>> /\ HostElse

-----------------------------------------------------------------------------

\* Everything but the user and what goes wrong.
System ==
  \/ \E c \in chains, ok \in BOOLEAN : onPairPhase(c, ok)
  \/ \E q \in reqs : \/ onLaunchReply(q) \/ CancelAnswered(q)
                     \/ HostLaunches(q) \/ HostResumes(q) \/ HostRefuses(q) \/ HostCancels(q)
                     \/ LateRequestLost(q)
  \/ onRtspFinished \/ onControlDisconnect \/ DeleteSession
  \/ GuiDisconnects \/ GuiCuts \/ GuiJoins
  \/ HandshakeRtsp \/ WorkerDisconnects \/ WorkerArms \/ HandshakeControl
  \/ WorkerPublishes \/ WorkerPosts
  \/ \E l \in Attempts : ReceiveEnds(l) \/ ReceiveDisconnect(l)

Faults ==
  \/ \E q \in reqs : RequestTimesOut(q)
  \/ GraceEnds \/ HostEndsApp \/ OtherStartsApp
  \/ \E l \in Attempts : LinkLost(l)

Next == Commands \/ System \/ Faults

\* Threads run, a request is answered or its deadline passes, a pairing ends.
Spec == Init /\ [][Next]_vars /\ WF_vars(System)
===============================================================================
