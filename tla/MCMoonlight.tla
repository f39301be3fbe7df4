----------------------------- MODULE MCMoonlight ------------------------------
(***************************************************************************)
(* Model checking of Moonlight: the streaming session of one host with its *)
(* threads and requests, what Dish remembers of a host and asks of it, and *)
(* the pads as the host of a stream has them. The parts are checked side   *)
(* by side: a behaviour picks one and runs it alone.                       *)
(***************************************************************************)
EXTENDS MoonlightSession

CONSTANTS MaxHostOps, MaxReplaced, MaxRestarts, MaxAsked, PadSlots, Numbers, MaxPadOps, MaxReports, MaxStreams

VARIABLES part, \* the part that this behaviour runs
          host, remembered, pin, intent, discovered, scanning, hostSes, probe, asks, asked, hostOps,
          streaming, assigned, routes, arrivals, wanted, mix, calls, padGui, hostPads, crossed, padOps

H == INSTANCE MoonlightHosts
P == INSTANCE MoonlightPads

hostsVars == <<host, remembered, pin, intent, discovered, scanning, hostSes, probe, asks, asked, hostOps>>
padsVars == <<streaming, assigned, routes, arrivals, wanted, mix, calls, padGui, hostPads, crossed, padOps>>
allVars == <<part, vars, hostsVars, padsVars>>

\* A part that does not run has no state.
Absent == "absent"

AllInit ==
  /\ part \in {"session", "hosts", "pads"}
  /\ Init
  /\ IF part = "hosts" THEN H!Init
     ELSE host = Absent /\ remembered = Absent /\ pin = Absent /\ intent = Absent /\ discovered = Absent /\
          scanning = Absent /\ hostSes = Absent /\ probe = Absent /\ asks = Absent /\ asked = Absent /\
          hostOps = Absent
  /\ IF part = "pads" THEN P!Init
     ELSE streaming = Absent /\ assigned = Absent /\ routes = Absent /\ arrivals = Absent /\ wanted = Absent /\
          mix = Absent /\ calls = Absent /\ padGui = Absent /\ hostPads = Absent /\ crossed = Absent /\
          padOps = Absent

AllNext ==
  \/ part = "session" /\ Next /\ UNCHANGED <<part, hostsVars, padsVars>>
  \/ part = "hosts" /\ H!Next /\ UNCHANGED <<part, vars, padsVars>>
  \/ part = "pads" /\ P!Next /\ UNCHANGED <<part, vars, hostsVars>>

AllSpec ==
  /\ AllInit /\ [][AllNext]_allVars
  /\ WF_vars(part = "session" /\ System)
  /\ WF_hostsVars(part = "hosts" /\ H!Answered)
  /\ WF_hostsVars(part = "hosts" /\ H!applyDiscoverySweep)

-----------------------------------------------------------------------------
\* Nothing is under way: no handler, no posted result, no handshake, no request.
Quiet ==
  /\ gui.pc = "idle" /\ queue = <<>> /\ reqs = {} /\ worker.pc \in {"none", "done"}

\* The session quits what it started and nothing else.  When the replies have arrived and
\* no attempt is under way, an app whose acceptance was read has been quit, also when the
\* acceptance came after the last pad had left (LaunchSucceeded in Closed) and when the host
\* is being forgotten, whose session waits for its /cancel (retireSession); let go on purpose
\* are an app whose link dropped or whose host ended it, and any once the host has stopped
\* answering.  And the session's own /cancel always answers an acceptance it has read, one
\* each, so a launch nobody answered, a second quit or a dropped link never ends another
\* client's app; the user's explicit request to close the host's app is not the session's own.
StartedIsQuit ==
  /\ (Quiet /\ history.lossless /\ ~sessionAttemptInFlight(ses.phase)) => app.of \notin history.heard
  /\ history.credit >= 0

\* After MoonlightManager::forgetHost, and until the user asks something of the host again,
\* no late answer, handshake or pairing writes a record, a pinned certificate, a binding or
\* a probe entry.  And whatever the session came to, a section of MoonlightSessionUi that
\* promises a session agrees with the row: none is shown for a host that is not paired.
HostsAreHonest == part = "hosts" => H!ForgottenStaysForgotten /\ H!PromisesOnlyThePaired

\* Between the changes, the host of a live stream has a pad for each bound slot and no
\* other, of the kind last announced, holding the contact the slot's pad last reported and no
\* click that was let go of, however binds, replugs, unbinds, reports and streams are ordered
\* (MoonlightPadSlots, announcePad).
HostHasThePads == part = "pads" => P!HostHasThePads

\* The GUI thread waits for a receive thread that a connect has started behind its back,
\* between the flag and the join of its disconnect.
Overtaken == gui.pc = "joinRx" /\ ctl.running

\* Every attempt ends and the threads come to rest, with the GUI thread joining the worker
\* and the receive thread and the worker joining the receive thread: no handler waits for
\* ever, except one that was overtaken, and no session is left Streaming over a link that is
\* down, unless the reports crossed: a link's end before its beginning, or a handshake's
\* result taken in a later attempt.  And each of the four things the section shows as under
\* way for a host comes to its end, through forgets, restarts and repeated commands.
AttemptsEnd ==
  \/ <>[](IF part = "session"
          THEN /\ Quiet /\ ses.phase \notin {"Launching", "RtspHandshake", "ControlConnecting"}
               /\ ses.phase = "Streaming" => ctl.connected \/ history.crossed
          ELSE part = "hosts" => H!Answerable)
  \/ <>[](part = "session" /\ Overtaken)

-----------------------------------------------------------------------------
(* What the code does not keep: TLC refutes each of these as an invariant  *)
(* of the configuration (README.md, Departures).                           *)

\* MoonlightSessionMachine.h:28, "control stream live, forwarding input".
StreamingIsLive == Quiet /\ ses.phase = "Streaming" => ctl.connected

\* MoonlightControlChannel.cpp:79, "the link it would have cut is torn down here
\* instead of outliving it": no link comes up for a session that was quit.
QuitCutsTheLink ==
  gui.pc = "idle" /\ ses.phase = "Closed" /\ worker.pc = "done" => ~ctl.connected
===============================================================================
