-------------------------------- MODULE MCHost --------------------------------
(***************************************************************************)
(* Model checking of what Dish does for the pads' audio and feedback and   *)
(* on the PC itself: the hand-off of audio frames to the playout thread,   *)
(* the jitter window and the devices behind it, the microphones, the audio *)
(* endpoints' routes, the feedback a slot declares, the hold on the        *)
(* machine's sleep, and the tray item. The parts are checked side by side: *)
(* a behaviour picks one and runs it alone.                                *)
(***************************************************************************)
EXTENDS Playout, MicCapture

CONSTANTS Pads, MaxAudioEvents, MaxFeedbackEvents, IdleTicks, MaxPowerEvents, MaxTrayEvents

\* Two pads of a model that share a name, another model of that name, and one whose name holds it.
SonyPads == {"ds1", "ds2", "ds4", "edge"}
ModelOfPad ==
  [p \in SonyPads |-> CASE p \in {"ds1", "ds2"} -> "dualsense" [] p = "ds4" -> "dualshock" [] OTHER -> "edge"]
NameOfPad == [p \in SonyPads |-> IF p = "edge" THEN "dwc" ELSE "wc"]
NamesWithin == {<<"dwc", "wc">>}
Haptic == {"dualsense", "edge"}

VARIABLES part, \* the part that this behaviour runs
          link, records, endpoints, signalled, audioRoutes, carried, muted, captures, voices, routesArmed,
          audioEvents,
          framework, claimed, usbPresent, endpoint, audioRoute, hidapi, bound, declared, switchOn, feedback,
          receiver, motor, buzz, todo, shownSlot, feedbackEvents,
          machine, lidIs, broadcasts, phase, lid, streaming, moved, idle, active, prefs, held, osHeld,
          powerRefused, told, powerEvents,
          explorer, created, icon, trayShown, available, presentation, visible, confirming, background, streams,
          running, trayEvents

E == INSTANCE PadAudioRoutes
       WITH ModelOf <- ModelOfPad, NameOf <- NameOfPad, Within <- NamesWithin, HapticModels <- Haptic,
            armed <- routesArmed
F == INSTANCE SlotFeedback
P == INSTANCE HostWindow
       WITH refused <- powerRefused

routesVars == <<link, records, endpoints, signalled, audioRoutes, carried, muted, captures, voices, routesArmed,
                audioEvents>>
feedbackVars == <<framework, claimed, usbPresent, endpoint, audioRoute, hidapi, bound, declared, switchOn,
                  feedback, receiver, motor, buzz, todo, shownSlot, feedbackEvents>>
powerVars == <<machine, lidIs, broadcasts, phase, lid, streaming, moved, idle, active, prefs, held, osHeld,
               powerRefused, told, powerEvents>>
trayVars == <<explorer, created, icon, trayShown, available, presentation, visible, confirming, background,
              streams, running, trayEvents>>
allVars == <<part, queueVars, micVars, playoutVars, routesVars, feedbackVars, powerVars, trayVars>>

\* A part that does not run has no state, or (the queue, the microphones) stays as it began.
Absent == "absent"

AllInit ==
  /\ part \in {"queue", "mic", "voice", "routes", "feedback", "power", "tray"}
  /\ QueueInit
  /\ MicInit
  /\ IF part = "voice" THEN VoiceInit
     ELSE voice = Absent /\ gateway = Absent /\ opens = Absent /\ heard = Absent
  /\ IF part = "routes" THEN E!Init
     ELSE link = Absent /\ records = Absent /\ endpoints = Absent /\ signalled = Absent /\
          audioRoutes = Absent /\ carried = Absent /\ muted = Absent /\ captures = Absent /\ voices = Absent /\
          routesArmed = Absent /\ audioEvents = Absent
  /\ IF part = "feedback" THEN F!Init
     ELSE framework = Absent /\ claimed = Absent /\ usbPresent = Absent /\ endpoint = Absent /\
          audioRoute = Absent /\ hidapi = Absent /\ bound = Absent /\ declared = Absent /\ switchOn = Absent /\
          feedback = Absent /\ receiver = Absent /\ motor = Absent /\ buzz = Absent /\ todo = Absent /\
          shownSlot = Absent /\ feedbackEvents = Absent
  /\ IF part = "power" THEN P!PowerInit
     ELSE machine = Absent /\ lidIs = Absent /\ broadcasts = Absent /\ phase = Absent /\ lid = Absent /\
          streaming = Absent /\ moved = Absent /\ idle = Absent /\ active = Absent /\ prefs = Absent /\
          held = Absent /\ osHeld = Absent /\ powerRefused = Absent /\ told = Absent /\ powerEvents = Absent
  /\ IF part = "tray" THEN P!TrayInit
     ELSE explorer = Absent /\ created = Absent /\ icon = Absent /\ trayShown = Absent /\ available = Absent /\
          presentation = Absent /\ visible = Absent /\ confirming = Absent /\ background = Absent /\
          streams = Absent /\ running = Absent /\ trayEvents = Absent

AllNext ==
  \/ part = "queue" /\ QueueNext /\ UNCHANGED <<part, micVars, playoutVars, routesVars, feedbackVars, powerVars,
                                           trayVars>>
  \/ part = "mic" /\ MicNext /\ UNCHANGED <<part, queueVars, playoutVars, routesVars, feedbackVars, powerVars,
                                           trayVars>>
  \/ part = "voice" /\ VoiceNext /\ UNCHANGED <<part, queueVars, micVars, routesVars, feedbackVars, powerVars,
                                             trayVars>>
  \/ part = "routes" /\ E!Next /\ UNCHANGED <<part, queueVars, micVars, playoutVars, feedbackVars, powerVars,
                                              trayVars>>
  \/ part = "feedback" /\ F!Next /\ UNCHANGED <<part, queueVars, micVars, playoutVars, routesVars, powerVars,
                                                trayVars>>
  \/ part = "power" /\ P!PowerNext /\ UNCHANGED <<part, queueVars, micVars, playoutVars, routesVars, feedbackVars,
                                             trayVars>>
  \/ part = "tray" /\ P!TrayNext /\ UNCHANGED <<part, queueVars, micVars, playoutVars, routesVars, feedbackVars,
                                            powerVars>>

AllSpec ==
  /\ AllInit /\ [][AllNext]_allVars
  /\ WF_queueVars(part = "queue" /\ Work) /\ WF_queueVars(part = "queue" /\ stop)
  /\ \A x \in Producers : WF_queueVars(part = "queue" /\ Push(x))
  /\ WF_powerVars(part = "power" /\ P!sampleAt)
  /\ WF_powerVars(part = "power" /\ P!onPowerBroadcast)
  /\ WF_powerVars(part = "power" /\ P!Wake)

-----------------------------------------------------------------------------
ASSUME AudioAssumption ==
  /\ MaxChunk \in Nat \ {0}
  /\ Ceiling >= StartThreshold + MaxEvents
  /\ SeqSpace \in Nat /\ SeqSpace % 2 = 0 /\ SeqSpace > 4 * Window

(* What comes back to a pad is its own.  The frames a voice plays or       *)
(* conceals are in the order of the stream and none twice, over            *)
(* reordering, loss, the wrap of the count and resyncs, with no device     *)
(* holding more than the ceiling or playing on after its voice moved.      *)
(* Once the USB and the audio side have been handled, a slot's engines     *)
(* hold an endpoint only by a name that a single endpoint bears, of a pad  *)
(* of the slot's own model, whatever pads shared its name or had their     *)
(* endpoint disabled (matchDirection).  A slot whose rumble was switched   *)
(* off is still until it is switched on again, whatever was being          *)
(* delivered meanwhile; and whenever the GUI thread rests, the satellite   *)
(* has been told of exactly what the published route can carry now         *)
(* (republish, republishSlotCaps).                                         *)
FeedbackIsItsOwn ==
  /\ part = "voice" => PlaysInOrder /\ LatencyBounded
  /\ part = "routes" => E!OwnEndpointOnly
  /\ part = "feedback" => F!SwitchedOffStaysOff /\ F!DeclaredIsCarried

(* While the machine is up and its messages are handled, the OS really     *)
(* holds what the preferences, the streams and the activity call for; and  *)
(* a sleep that paused a stream behind a shut lid is announced once, by    *)
(* its resume (KeepAwakeController, reduceSleepCycle).  A running Dish is  *)
(* reachable by its window or its tray item, which a Dish that quit leaves *)
(* no trace of.                                                            *)
HostIsHonest ==
  /\ part = "power" => P!HoldIsReal /\ P!PauseIsToldOnce
  /\ part = "tray" => P!NeverStranded

(* Once nothing more happens, every frame taken in has been played,        *)
(* whatever the order of its notify and the worker's going to sleep, and a *)
(* stopping engine's thread has ended; and a machine held for an active    *)
(* controller is let go, whether or not the pad that fell silent still has *)
(* its session.                                                            *)
HostSettles ==
  <>[](CASE part = "queue" -> Drained
         [] part = "power" -> P!LetGo
         [] OTHER -> TRUE)
===============================================================================
