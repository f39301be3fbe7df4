------------------------------ MODULE HostWindow ------------------------------
(***************************************************************************)
(* What Windows tells the window of, as two machines that share no state:  *)
(* the machine's sleep, and the notification area.                         *)
(*                                                                         *)
(* The machine's sleep and the hold Dish puts on it: the power broadcasts  *)
(* with the lid's own message, the teardown and reconnect around a sleep,  *)
(* the one notice a lid-closed sleep earns, and the wake inhibitor derived *)
(* from the streaming count, the controllers' activity and the user's      *)
(* preferences.  A sleep clears what the OS holds for the process, without *)
(* telling the process.                                                    *)
(*                                                                         *)
(* Running without a window: the close that hides to the notification      *)
(* area, the tray item with the shell that may refuse it, crash and come   *)
(* back, and the ways back and out.                                        *)
(***************************************************************************)
EXTENDS Naturals, Sequences

CONSTANTS IdleTicks,       \* the idle window, in samples
          MaxPowerEvents   \* bound: sleeps, lids, sessions, inputs, preferences

VARIABLES machine,   \* "awake" or "asleep"
          lidIs,     \* the lid itself
          broadcasts, \* the power messages on their way to the window
          phase,     \* SleepCoordinator::phase_
          lid,       \* SleepCoordinator::lid_
          streaming, \* streamingSlotCount_
          moved,     \* the actuation counter moved since the last sample
          idle,      \* samples since the last stamp; the window and over is idle
          active,    \* the published activity
          prefs,     \* the preferences
          held,      \* WakeInhibitor::held_
          osHeld,    \* what the OS holds for the process
          refused,   \* the last change was refused by the OS
          told,      \* history: of the sleep under way or last over, whether a stream was open when its
                     \* first edge was handled, the lid known shut before its resume, and the notices
          powerEvents

powerVars == <<machine, lidIs, broadcasts, phase, lid, streaming, moved, idle, active, prefs, held, osHeld,
               refused, told, powerEvents>>

Modes == {"off", "active", "connected"}

PowerInit ==
  /\ machine = "awake"
  /\ lidIs = "open"
  /\ broadcasts = <<>>
  /\ phase = "awake"
  /\ lid = [at |-> "unknown", asleep |-> FALSE, streamed |-> FALSE, closed |-> FALSE]
  /\ streaming = 0
  /\ moved = FALSE
  /\ idle = IdleTicks
  /\ active = FALSE
  /\ prefs \in [mode : Modes, display : BOOLEAN]
  /\ held = "none"
  /\ osHeld = "none"
  /\ refused = FALSE
  /\ told = [edge |-> "none", paused |-> FALSE, shut |-> FALSE, notices |-> 0]
  /\ powerEvents = 0

PowerCounted ==
  /\ powerEvents < MaxPowerEvents
  /\ powerEvents' = powerEvents + 1

-----------------------------------------------------------------------------
(* The hold.                                                               *)

deriveKeepAwakeReach(p, count, isActive) ==
  CASE p.mode = "off" \/ count = 0 \/ (p.mode = "active" /\ ~isActive) -> "none"
    [] OTHER -> IF p.display THEN "display" ELSE "system"

\* The composer is distinct-until-changed on the reach and the count, and the inhibitor on the reach;
\* the OS may refuse the call, which changes nothing.
apply(p, count, isActive) ==
  LET reach == deriveKeepAwakeReach(p, count, isActive)
      \* the composed value moved, so the controller runs
      runs  == <<reach, count>> # <<deriveKeepAwakeReach(prefs, streaming, active), streaming>>
  IN IF ~runs \/ reach = held THEN UNCHANGED <<held, osHeld, refused>>
     ELSE \/ held' = reach /\ osHeld' = reach /\ refused' = FALSE
          \/ UNCHANGED <<held, osHeld>> /\ refused' = TRUE

\* The preference stores: persisted, then republished.
setPreferences(p) ==
  /\ PowerCounted
  /\ machine = "awake"
  /\ p # prefs
  /\ prefs' = p
  /\ apply(p, streaming, active)
  /\ UNCHANGED <<machine, lidIs, broadcasts, phase, lid, streaming, moved, idle, active, told>>

Input ==
  /\ PowerCounted
  /\ machine = "awake"
  /\ ~moved
  /\ moved' = TRUE
  /\ UNCHANGED <<machine, lidIs, broadcasts, phase, lid, streaming, idle, active, prefs, held, osHeld, refused, told>>

\* A sample takes a moved counter for activity, and any other for time gone by.
StampsAlways == 0
stamped == IF moved THEN 0 ELSE IF idle < IdleTicks THEN idle + 1 ELSE idle

sampleAt ==
  /\ machine = "awake"
  /\ moved \/ idle < IdleTicks \/ active
  /\ idle' = stamped
  /\ moved' = FALSE
  /\ active' = (idle' < IdleTicks)
  /\ apply(prefs, streaming, active')
  /\ UNCHANGED <<machine, lidIs, broadcasts, phase, lid, streaming, prefs, told, powerEvents>>

\* A session opens, which is activity of its own, or one ends.
republishStreamingCount(n) ==
  /\ PowerCounted
  /\ machine = "awake" /\ phase = "awake"
  /\ n # streaming
  /\ streaming' = n
  /\ idle' = IF n > streaming THEN 0 ELSE idle
  /\ active' = (active \/ n > streaming)
  /\ apply(prefs, n, active')
  /\ UNCHANGED <<machine, lidIs, broadcasts, phase, lid, moved, prefs, told>>

-----------------------------------------------------------------------------
(* The sleep.                                                              *)

\* The suspend is sent while the machine goes down; a suspend that escalates is sent again.
\* The going down clears the process's hold.
Suspend ==
  /\ PowerCounted
  /\ machine = "awake" /\ phase = "awake"
  /\ \A i \in 1 .. Len(broadcasts) : broadcasts[i] \in {"open", "closed"}
  /\ \E times \in 1 .. 2, first \in BOOLEAN :
       broadcasts' = IF first THEN [i \in 1 .. times |-> "suspend"] \o broadcasts
                     ELSE broadcasts \o [i \in 1 .. times |-> "suspend"]
  /\ told' = [edge |-> "none", paused |-> FALSE, shut |-> FALSE, notices |-> 0]
  /\ UNCHANGED <<machine, lidIs, phase, lid, streaming, moved, idle, active, prefs, held, osHeld, refused>>

\* Down once the window has been told; what is still on its way arrives after the wake.
GoDown ==
  /\ machine = "awake"
  /\ phase = "suspending"
  /\ \A i \in 1 .. Len(broadcasts) : broadcasts[i] # "resume"
  /\ machine' = "asleep"
  /\ osHeld' = "none"
  /\ UNCHANGED <<lidIs, broadcasts, phase, lid, streaming, moved, idle, active, prefs, held, refused, told, powerEvents>>

\* One resume event, and a second when a user woke it.
Wake ==
  /\ machine = "asleep"
  /\ machine' = "awake"
  /\ \E times \in 1 .. 2 : broadcasts' = broadcasts \o [i \in 1 .. times |-> "resume"]
  /\ UNCHANGED <<lidIs, phase, lid, streaming, moved, idle, active, prefs, held, osHeld, refused, told, powerEvents>>

\* The lid moves at any time; its message is one more broadcast.
MoveLid ==
  /\ PowerCounted
  /\ lidIs' = IF lidIs = "open" THEN "closed" ELSE "open"
  /\ broadcasts' = Append(broadcasts, lidIs')
  /\ UNCHANGED <<machine, phase, lid, streaming, moved, idle, active, prefs, held, osHeld, refused, told>>

\* The suspend/resume edge: repeats and unpaired edges are inert.
EveryEdge(starting) == TRUE
reduceSleepCycle(starting) == (phase = "awake") = starting

reduceSleepBegan == [lid EXCEPT !.asleep = TRUE, !.streamed = streaming > 0, !.closed = lid.at = "closed"]
theLidPausedIt == lid.asleep /\ lid.streamed /\ lid.closed
reduceSleepEnded == [lid EXCEPT !.asleep = FALSE, !.streamed = FALSE, !.closed = FALSE]

\* prepareForSleep closes every session inside the handler, and the count follows.
TearDownKeeps == streaming
TearDown == 0

onPreparingForSleep(starting) ==
  IF ~reduceSleepCycle(starting)
  THEN UNCHANGED <<phase, lid, streaming, held, osHeld, refused>>
  ELSE /\ phase' = IF starting THEN "suspending" ELSE "awake"
       /\ lid' = IF starting THEN reduceSleepBegan ELSE reduceSleepEnded
       /\ streaming' = IF starting THEN TearDown ELSE streaming
       /\ apply(prefs, streaming', active)

onLidPositionChanged(position) ==
  /\ lid' = [lid EXCEPT !.at = position, !.closed = @ \/ (lid.asleep /\ position = "closed")]
  /\ UNCHANGED <<phase, streaming, held, osHeld, refused>>

Noted(message) ==
  LET shut == message = "closed" \/ (message = "suspend" /\ lid.at = "closed")
      open == told.edge = "suspend" \/ message = "suspend"
  IN [told EXCEPT !.edge = IF message \in {"suspend", "resume"} THEN message ELSE @,
                  !.paused = @ \/ (message = "suspend" /\ streaming > 0),
                  !.shut = @ \/ (open /\ shut),
                  !.notices = IF message = "resume" /\ reduceSleepCycle(FALSE) /\ theLidPausedIt THEN @ + 1 ELSE @]

\* The window's message loop, which stands still with the machine.
onPowerBroadcast ==
  /\ machine = "awake"
  /\ broadcasts # <<>>
  /\ broadcasts' = Tail(broadcasts)
  /\ CASE Head(broadcasts) \in {"open", "closed"} -> onLidPositionChanged(Head(broadcasts))
       [] OTHER -> onPreparingForSleep(Head(broadcasts) = "suspend")
  /\ told' = Noted(Head(broadcasts))
  /\ UNCHANGED <<machine, lidIs, moved, idle, active, prefs, powerEvents>>

PowerNext ==
  \/ \E p \in [mode : Modes, display : BOOLEAN] : setPreferences(p)
  \/ \E n \in 0 .. 2 : republishStreamingCount(n)
  \/ Input \/ sampleAt \/ Suspend \/ GoDown \/ Wake \/ MoveLid \/ onPowerBroadcast

\* The timer fires, the messages are delivered and the machine wakes.
PowerFairness == WF_powerVars(sampleAt) /\ WF_powerVars(onPowerBroadcast) /\ WF_powerVars(Wake)

PowerSpec == PowerInit /\ [][PowerNext]_powerVars /\ PowerFairness

-----------------------------------------------------------------------------
(* Properties.                                                             *)

\* While the machine is up and the messages are handled, the OS really holds what the preferences,
\* the streams and the activity call for: the hold a sleep cleared behind Dish's back is taken
\* again for the streams that come back, and none outlives them.  A call the OS refused is made
\* again only when the composed state moves.
HoldIsReal ==
  machine = "awake" /\ broadcasts = <<>> /\ phase = "awake" /\ ~refused =>
    osHeld = deriveKeepAwakeReach(prefs, streaming, active)

\* A sleep that paused a stream behind a lid known to be shut is announced, once, by its resume, and
\* no other sleep is: however often its edges are broadcast, and whichever of the lid's message and
\* the suspend comes first.
PauseIsToldOnce ==
  told.edge = "resume" => told.notices = IF told.paused /\ told.shut THEN 1 ELSE 0

\* Nothing holds the machine for an active controller.
LetGo == prefs.mode = "active" /\ ~refused => osHeld = "none"

-----------------------------------------------------------------------------
CONSTANTS MaxTrayEvents  \* bound

VARIABLES explorer,   \* the shell runs
          created,    \* its TaskbarCreated broadcast is on its way to the tray's window
          icon,       \* what the shell draws: nothing, or the activity of the item
          trayShown,  \* Win32TrayIcon::shown_
          available,  \* Win32TrayIcon::available_
          presentation, \* Win32TrayIcon::presentation_
          visible,    \* the window
          confirming, \* the confirmation before a stream is dropped is up
          background, \* BackgroundPreferences
          streams,    \* a slot streams
          running,
          trayEvents

trayVars == <<explorer, created, icon, trayShown, available, presentation, visible, confirming, background, streams,
              running, trayEvents>>

NoIcon == "none"

TrayInit ==
  /\ explorer \in BOOLEAN
  /\ created = FALSE
  /\ icon = NoIcon
  /\ trayShown = FALSE
  /\ available = FALSE
  /\ presentation = "idle"
  /\ visible = TRUE
  /\ confirming = FALSE
  /\ background = [run |-> TRUE, announced |-> FALSE]
  /\ streams = FALSE
  /\ running = TRUE
  /\ trayEvents = 0

TrayCounted ==
  /\ running
  /\ trayEvents < MaxTrayEvents
  /\ trayEvents' = trayEvents + 1

-----------------------------------------------------------------------------
(* The item.                                                               *)

\* The panel died with the window hidden: the window comes back instead.
onAvailabilityIgnored(now) == UNCHANGED visible
onAvailabilityChanged(now) == visible' = (visible \/ ~now)

setAvailable(now) ==
  /\ available' = now
  /\ IF now = available THEN UNCHANGED visible ELSE onAvailabilityChanged(now)

\* The shell takes the item if it is up and not too busy, as it is presented now; an item that is
\* there already is modified instead.
addIcon(as) ==
  \/ explorer /\ icon' = as /\ setAvailable(TRUE)
  \/ icon = NoIcon /\ UNCHANGED icon /\ setAvailable(FALSE)

\* TrayController::start.
show ==
  /\ running
  /\ ~trayShown
  /\ trayShown' = TRUE
  /\ presentation' = IF streams THEN "streaming" ELSE "idle"
  /\ addIcon(presentation')
  /\ UNCHANGED <<explorer, created, confirming, background, streams, running, trayEvents>>

\* Explorer came back and has forgotten every icon.
taskbarCreated ==
  /\ running
  /\ created
  /\ created' = FALSE
  /\ IF trayShown THEN addIcon(presentation) ELSE UNCHANGED <<icon, available, visible>>
  /\ UNCHANGED <<explorer, trayShown, presentation, confirming, background, streams, running, trayEvents>>

\* Kept for the next add even while no item can be drawn.
PresentedIfDrawn(now) == IF trayShown /\ available THEN now ELSE presentation
Presented(now) == now

setPresentation ==
  /\ TrayCounted
  /\ streams' = ~streams
  /\ LET now == IF streams' THEN "streaming" ELSE "idle" IN
     /\ presentation' = Presented(now)
     /\ icon' = IF trayShown /\ available /\ icon # NoIcon THEN now ELSE icon
  /\ UNCHANGED <<explorer, created, trayShown, available, visible, confirming, background, running>>

-----------------------------------------------------------------------------
(* The window.                                                             *)

decideWindowCloseAction == IF background.run /\ available THEN "hide" ELSE "quit"

\* The item is taken down with the application.
Quits ==
  /\ running' = FALSE
  /\ icon' = NoIcon
  /\ trayShown' = FALSE
  /\ available' = FALSE
  /\ confirming' = FALSE

\* A hide discards nothing; a quit that would drop a stream is confirmed first.
closeRequested ==
  /\ TrayCounted
  /\ visible
  /\ \/ /\ decideWindowCloseAction = "hide"
        /\ visible' = FALSE
        /\ background' = [background EXCEPT !.announced = TRUE]
        /\ UNCHANGED <<icon, trayShown, available, confirming, running>>
     \/ /\ decideWindowCloseAction = "quit" /\ streams
        /\ confirming' = TRUE
        /\ UNCHANGED <<icon, trayShown, available, visible, background, running>>
     \/ /\ decideWindowCloseAction = "quit" /\ ~streams
        /\ Quits
        /\ UNCHANGED <<visible, background>>
  /\ UNCHANGED <<explorer, created, presentation, streams>>

Confirm ==
  /\ running
  /\ confirming
  /\ \/ Quits
     \/ confirming' = FALSE /\ UNCHANGED <<icon, trayShown, available, running>>
  /\ UNCHANGED <<explorer, created, presentation, visible, background, streams, trayEvents>>

\* A click on a drawn item, or its menu's two commands.
runCommand ==
  /\ TrayCounted
  /\ icon # NoIcon
  /\ \/ visible' = TRUE /\ UNCHANGED <<icon, trayShown, available, confirming, running>>
     \/ Quits /\ UNCHANGED visible
  /\ UNCHANGED <<explorer, created, presentation, background, streams>>

setRunInBackground ==
  /\ TrayCounted
  /\ visible
  /\ background' = [background EXCEPT !.run = ~@]
  /\ UNCHANGED <<explorer, created, icon, trayShown, available, presentation, visible, confirming, streams, running>>

ExplorerStops ==
  /\ TrayCounted
  /\ explorer
  /\ explorer' = FALSE
  /\ icon' = NoIcon
  /\ UNCHANGED <<created, trayShown, available, presentation, visible, confirming, background, streams, running>>

ExplorerStarts ==
  /\ ~explorer
  /\ explorer' = TRUE
  /\ created' = TRUE
  /\ UNCHANGED <<icon, trayShown, available, presentation, visible, confirming, background, streams, running, trayEvents>>

TrayNext ==
  \/ show \/ taskbarCreated \/ setPresentation \/ closeRequested \/ Confirm \/ runCommand
  \/ setRunInBackground \/ ExplorerStops \/ ExplorerStarts

TraySpec == TrayInit /\ [][TrayNext]_trayVars

-----------------------------------------------------------------------------
(* Properties.                                                             *)

\* While the shell is up and has been answered, a running Dish is reachable: its window shows, or its
\* item is drawn, with the activity there is now; and a Dish that quit leaves no item.  The shell may
\* refuse the item at logon, crash under a hidden window, or come back and refuse it then.
NeverStranded ==
  /\ running /\ explorer /\ ~created => /\ visible \/ icon # NoIcon
                                        /\ icon # NoIcon => icon = (IF streams THEN "streaming" ELSE "idle")
  /\ ~running => icon = NoIcon
===============================================================================
