--------------------------- MODULE UpdateCoordinator ---------------------------
(***************************************************************************)
(* The auto-updater of one installed copy: the reducer on the main thread, *)
(* the worker thread that downloads and stages, the timer and the manifest *)
(* fetch, the staging tree and the settings that outlive the process, and  *)
(* the boot gate that hands a stage to the installer.                      *)
(*                                                                         *)
(* Each thread has a queue: the reducer posts jobs to the worker, and the  *)
(* worker posts what came of them back to the main thread.  Both are FIFO. *)
(* The worker may lag behind the main thread for as long as its disk work  *)
(* takes; the main thread delivers what is posted to it between two native *)
(* events, so at most one of those overtakes it.                           *)
(***************************************************************************)
EXTENDS UpdateMachine

CONSTANTS Versions,   \* the releases, 1 the one installed first
          Portable,   \* no uninstaller beside the exe
          MaxMoves,   \* bound: what the user, the publisher and bad luck do
          MaxJobs     \* bound: worker jobs waiting when a check starts

ASSUME UpdateAssumption ==
  /\ Versions \subseteq Nat \ {None} /\ 1 \in Versions
  /\ Portable \in BOOLEAN
  /\ MaxMoves \in Nat /\ MaxJobs \in Nat

VARIABLES main,      \* [status, timer, fetch, jobs]: the coordinator
          events,    \* what is posted to the main thread
          overtaken, \* a native event has been handled before them
          popover,   \* the popover of the update pill is open
          gateway,   \* the version the download gateway is streaming
          promoting, \* the promote the worker is in the middle of
          disk, prefs, handoff,
          proc,      \* "off", "on", or "applying" while the installer runs
          installed, \* the version of the installed exe
          manifest,  \* what the release permalink answers
          seen,      \* the version of the last manifest the reducer accepted
          moves

diskVars == <<disk, prefs, handoff, installed>>
vars == <<main, events, overtaken, popover, gateway, promoting, diskVars, proc, manifest, seen, moves>>

status == main.status
Running == proc = "on"
Move == moves < MaxMoves /\ moves' = moves + 1

NoPromote == [v |-> None, at |-> "check"]

-----------------------------------------------------------------------------
(* dispatch: the state moves before the effects run, and the effects that  *)
(* belong to the worker are posted in order.                               *)

WorkerOps == {"StartDownload", "AbortDownload", "VerifyAndPromote", "DiscardStaged",
              "SweepStaging", "ScanStaging"}
Has(effects, op) == \E i \in DOMAIN effects : effects[i].op = op

dispatch(m, r) ==
  [status |-> r.next,
   timer |-> m.timer \/ (Has(r.effects, "ScheduleNextCheck") /\ r.next.checksEnabled),
   fetch |-> m.fetch \/ Has(r.effects, "FetchManifest"),
   jobs |-> m.jobs \o SelectSeq(r.effects, LAMBDA e : e.op \in WorkerOps)]

Dispatch(r) == main' = dispatch(main, r)

Queued(op) == Has(main.jobs, op)
Posted(op) == Has(events, op)

PrefsChanged(m, p) ==
  dispatch(m, onPrefsChanged(m.status, p.checksEnabled, p.autoDownload, p.skipped))

-----------------------------------------------------------------------------
(* Start and stop                                                          *)

ScanStaging == Effect("ScanStaging", None)

initialStatus(current, p, h) ==
  withQuarantinedHandoff(
    [phase |-> IF p.checksEnabled THEN "Idle" ELSE "Disabled", error |-> "None",
     current |-> current, available |-> None, asset |-> None, staged |-> None,
     skipped |-> p.skipped, checksEnabled |-> p.checksEnabled,
     autoDownload |-> p.autoDownload, required |-> FALSE, meteredDeferred |-> FALSE,
     portable |-> Portable, metered |-> FALSE, online |-> TRUE],
    h.version, h.attempts, kMaxApplyAttemptsPerVersion)

\* construct and start, with the connectivity the process finds.
started(current, p, h, online, metered) ==
  LET s == initialStatus(current, p, h)
  IN  [status |-> onMeteredChanged(onReachabilityChanged(s, online).next, metered).next,
       timer |-> p.checksEnabled, fetch |-> FALSE, jobs |-> <<SweepStaging, ScanStaging>>]

stopped == [main EXCEPT !.timer = FALSE, !.fetch = FALSE, !.jobs = <<>>]

Down(p) ==
  /\ proc' = p
  /\ main' = stopped
  /\ events' = <<>> /\ overtaken' = FALSE /\ popover' = FALSE
  /\ gateway' = None /\ promoting' = NoPromote

Up(d, p, h) ==
  /\ proc' = "on"
  /\ disk' = d /\ prefs' = p
  /\ handoff' = reconciled(h, installed)
  /\ \E online, metered \in BOOLEAN : main' = started(installed, p, h, online, metered)
  /\ UNCHANGED <<events, overtaken, popover, gateway, promoting>>

Spawns(h) ==
  /\ proc' = "applying" /\ handoff' = h
  /\ UNCHANGED <<main, events, overtaken, popover, gateway, promoting, disk, prefs>>

\* runStartupHandoff and, unless it hands over, the rest of main.  flagged:
\* started with --no-update-handoff.
Boot(flagged) ==
  LET v == findStaged(disk)
      verdict == verifiedStageForApply(disk, handoff, installed)
      discarded == discard(disk, v, None)
      recorded == recordAttempt(handoff, v)
  IN  /\ proc = "off" /\ Move
      /\ \/ (flagged \/ verdict = "none") /\ Up(disk, prefs, handoff)
         \/ ~flagged /\ verdict = "discard" /\ Up(discarded, prefs, handoff)
         \/ /\ ~flagged /\ verdict = "quarantine"
            /\ Up(discarded, [prefs EXCEPT !.skipped = v], handoff)
         \/ ~flagged /\ verdict = "apply" /\ (Spawns(recorded) \/ Up(disk, prefs, recorded))
      /\ UNCHANGED <<installed, manifest, seen>>

\* A mutant: the version is taken from a record that is already spent.
InstallerEndsSpent ==
  /\ proc = "applying" /\ proc' = "off"
  /\ installed' = reconciled(handoff, handoff.version).version
  /\ UNCHANGED <<main, events, overtaken, popover, gateway, promoting, disk, prefs, handoff,
                 manifest, seen, moves>>

\* External: the installer replaces the exe, or rolls back.
InstallerEnds ==
  /\ proc = "applying" /\ proc' = "off"
  /\ \/ installed' = handoff.version
     \/ UNCHANGED installed
  /\ UNCHANGED <<main, events, overtaken, popover, gateway, promoting, disk, prefs, handoff, manifest, seen, moves>>

\* Also the loss of power: nothing that was not on disk is left.
Crash ==
  /\ Running /\ Move
  /\ Down("off")
  /\ UNCHANGED <<diskVars, manifest, seen>>

\* onAboutToQuit, on the main thread while the worker may be promoting.
Quit(pendingRestart) ==
  LET v == findStaged(disk)
      verdict == verifiedStageForApply(disk, handoff, installed)
      discarded == discard(disk, v, gateway)
  IN  /\ Running /\ Move
      /\ \/ /\ ~pendingRestart \/ verdict = "none"
            /\ Down("off") /\ UNCHANGED <<disk, prefs, handoff>>
         \/ /\ pendingRestart /\ verdict = "discard"
            /\ Down("off") /\ disk' = discarded /\ UNCHANGED <<prefs, handoff>>
         \/ /\ pendingRestart /\ verdict = "quarantine"
            /\ Down("off") /\ disk' = discarded
            /\ prefs' = [prefs EXCEPT !.skipped = v] /\ UNCHANGED handoff
         \/ /\ pendingRestart /\ verdict = "apply"
            /\ \/ Down("applying") \/ Down("off")
            /\ handoff' = recordAttempt(handoff, v) /\ UNCHANGED <<disk, prefs>>
      /\ UNCHANGED <<installed, manifest, seen>>

-----------------------------------------------------------------------------
(* The main thread                                                         *)

mainOnly == <<gateway, promoting, disk, handoff, installed, proc, manifest>>

\* A native event: an input, a timer, a notification.
Native ==
  /\ Running /\ ~overtaken
  /\ overtaken' = (events # <<>>)
  /\ UNCHANGED <<mainOnly, events, seen>>

Check == main' = dispatch([main EXCEPT !.timer = FALSE], onCheckRequested(status))

timeout ==
  /\ Native /\ main.timer /\ Len(main.jobs) <= MaxJobs
  /\ Check /\ UNCHANGED <<popover, prefs, moves>>

openPopover ==
  /\ Native /\ status.phase = "Available" /\ ~popover /\ popover' = TRUE
  /\ UNCHANGED <<main, prefs, moves>>

\* The user presses something, which closes the popover.
Press == Native /\ Move /\ popover' = FALSE

checkNow == Press /\ Len(main.jobs) <= MaxJobs /\ Check /\ UNCHANGED prefs

downloadNow ==
  /\ Press /\ status.phase = "Available"
  /\ Dispatch(onDownloadRequested(status)) /\ UNCHANGED prefs

\* The popover, which stays open through a check, has the button unless a
\* transfer runs or a stage is ready.  The preference is written first, and
\* republishes.
skipAvailableVersion ==
  LET v == status.available
      p == [prefs EXCEPT !.skipped = v]
      m == IF prefs.skipped = v THEN main ELSE PrefsChanged(main, p)
  IN  /\ Press /\ popover /\ status.phase \notin {"Downloading", "Verifying", "Ready"}
      /\ v # None /\ ~status.required
      /\ prefs' = p
      /\ main' = dispatch(m, onSkipRequested(m.status, v))

setPreference(p) ==
  /\ Press /\ p # prefs
  /\ prefs' = p
  /\ main' = PrefsChanged(main, p)

setChecksEnabled == setPreference([prefs EXCEPT !.checksEnabled = ~@])
setAutoDownload == setPreference([prefs EXCEPT !.autoDownload = ~@])

connectivityChanges ==
  /\ Native /\ Move
  /\ \/ Dispatch(onReachabilityChanged(status, ~status.online))
     \/ Dispatch(onMeteredChanged(status, ~status.metered))
  /\ UNCHANGED <<popover, prefs>>

\* minimum and error have a meaning in the reply to a check only.
event(op, v) == [op |-> op, v |-> v, minimum |-> None, error |-> "None"]
post(op, v) == events' = Append(events, event(op, v))

\* External: the release permalink answers, or does not.
manifestReply ==
  /\ Running /\ main.fetch /\ ~Posted("ManifestArrived") /\ ~Posted("CheckFailed")
  /\ \/ /\ events' = Append(events, [event("ManifestArrived", manifest.version)
                                       EXCEPT !.minimum = manifest.minimum])
        /\ UNCHANGED moves
     \/ Move /\ \E e \in {"Offline", "Http"} :
                  events' = Append(events, [event("CheckFailed", None) EXCEPT !.error = e])
  /\ UNCHANGED <<mainOnly, main, overtaken, popover, prefs, seen>>

reduceEvent(s, e) ==
  CASE e.op = "ManifestArrived" -> onManifestArrived(s, [version |-> e.v, minimum |-> e.minimum])
    [] e.op = "CheckFailed" -> onCheckFailed(s, e.error)
    [] e.op = "DownloadFinished" -> onDownloadFinished(s)
    [] e.op = "DownloadFailed" -> onDownloadFailed(s, "Io")
    [] e.op = "VerifyOk" -> onVerifyOk(s)
    [] e.op = "VerifyFailed" -> onVerifyFailed(s)
    [] e.op = "StagedFound" -> onStagedFound(s, e.v)

\* A reply ends the fetch in whatever phase it finds the reducer.
mainEvent ==
  LET e == Head(events)
      reply == e.op \in {"ManifestArrived", "CheckFailed"}
  IN  /\ Running /\ events # <<>>
      /\ main' = dispatch([main EXCEPT !.fetch = @ /\ ~reply], reduceEvent(status, e))
      /\ events' = Tail(events)
      /\ overtaken' = (overtaken /\ Tail(events) # <<>>)
      /\ seen' = IF e.op = "ManifestArrived" /\ status.phase = "Checking" THEN e.v
                 ELSE seen
      /\ UNCHANGED <<mainOnly, popover, prefs, moves>>

-----------------------------------------------------------------------------
(* The worker                                                              *)

workerOnly == <<overtaken, popover, prefs, handoff, installed, proc, manifest, seen>>

WorkerFree == Running /\ promoting.v = None
Job(op) == WorkerFree /\ main.jobs # <<>> /\ Head(main.jobs).op = op
Done == main' = [main EXCEPT !.jobs = Tail(@)]
v_ == Head(main.jobs).v

\* prepareDownload and start: no room or no file, a gateway still busy, or
\* the .part truncated and the transfer begun.
startDownload ==
  /\ Job("StartDownload") /\ Done
  /\ \/ /\ Move
        /\ post("DownloadFailed", None) /\ UNCHANGED <<gateway, disk>>
     \/ /\ gateway # None
        /\ UNCHANGED <<gateway, disk, events, moves>>
     \/ /\ gateway = None
        /\ gateway' = v_ /\ disk' = [disk EXCEPT ![v_].part = "partial"]
        /\ UNCHANGED <<events, moves>>
  /\ UNCHANGED <<workerOnly, promoting>>

abortDownload ==
  /\ Job("AbortDownload") /\ Done
  /\ gateway' = None
  /\ disk' = IF gateway = None THEN disk ELSE removePart(disk, gateway)
  /\ UNCHANGED <<workerOnly, promoting, events, moves>>

\* onFinished and fail, from the worker's event loop.
downloadEnds ==
  /\ WorkerFree /\ gateway # None
  /\ gateway' = None
  /\ \/ /\ disk' = [disk EXCEPT ![gateway].part = "full"]
        /\ post("DownloadFinished", None) /\ UNCHANGED moves
     \/ /\ Move
        /\ disk' = removePart(disk, gateway)
        /\ post("DownloadFailed", None)
  /\ UNCHANGED <<workerOnly, main, promoting>>

sweepStaging ==
  /\ Job("SweepStaging") /\ Done
  /\ \E old \in SUBSET {v \in Versions \ {gateway} : disk[v].part = "partial"} :
       disk' = sweep(disk, status.current, old)
  /\ UNCHANGED <<workerOnly, promoting, events, gateway, moves>>

scanStaging ==
  /\ Job("ScanStaging") /\ Done
  /\ IF findStaged(disk) = None THEN UNCHANGED events
     ELSE post("StagedFound", findStaged(disk))
  /\ UNCHANGED <<workerOnly, promoting, disk, gateway, moves>>

discardStaged ==
  /\ Job("DiscardStaged") /\ Done
  /\ disk' = discard(disk, v_, gateway)
  /\ UNCHANGED <<workerOnly, promoting, events, gateway, moves>>

PromoteEnds(op, d) ==
  /\ disk' = d /\ promoting' = NoPromote
  /\ post(op, None)

promoteBegins ==
  /\ Job("VerifyAndPromote") /\ Done
  /\ promoting' = [v |-> v_, at |-> "check"]
  /\ UNCHANGED <<workerOnly, disk, events, gateway, moves>>

promoteCheck(v) ==
  /\ promoting = [v |-> v, at |-> "check"]
  /\ \/ /\ partVerifies(disk, v)
        /\ disk' = promoteClear(disk, v) /\ promoting' = [v |-> v, at |-> "rename"]
        /\ UNCHANGED <<events, moves>>
     \/ /\ ~partVerifies(disk, v)
        /\ PromoteEnds("VerifyFailed", promoteReject(disk, v)) /\ UNCHANGED moves
     \/ /\ partVerifies(disk, v) /\ Move
        /\ PromoteEnds("VerifyFailed", disk)

promoteRenames(v) ==
  /\ promoting = [v |-> v, at |-> "rename"]
  /\ \/ /\ disk' = promoteRename(disk, v) /\ promoting' = [v |-> v, at |-> "mark"]
        /\ UNCHANGED <<events, moves>>
     \/ Move /\ PromoteEnds("VerifyFailed", removeTree(disk, v))

promoteMarks(v) ==
  /\ promoting = [v |-> v, at |-> "mark"]
  /\ \/ PromoteEnds("VerifyOk", promoteMark(disk, v)) /\ UNCHANGED moves
     \/ Move /\ PromoteEnds("VerifyFailed", removeTree(disk, v))

promote ==
  /\ Running
  /\ \E v \in Versions : promoteCheck(v) \/ promoteRenames(v) \/ promoteMarks(v)
  /\ UNCHANGED <<workerOnly, main, gateway>>

-----------------------------------------------------------------------------
(* External: the publisher, and a disk that loses bytes.                   *)

Publish ==
  /\ Move
  /\ \E m \in Manifest(Versions) : m.minimum <= m.version /\ m # manifest /\ manifest' = m
  /\ UNCHANGED <<main, events, overtaken, popover, gateway, promoting, diskVars, proc, seen>>

Rot ==
  /\ Move
  /\ \E v \in Versions :
       \/ disk[v].part = "full" /\ disk' = [disk EXCEPT ![v].part = "rotten"]
       \/ disk[v].exe = "good" /\ disk' = [disk EXCEPT ![v].exe = "rotten"]
  /\ UNCHANGED <<main, events, overtaken, popover, gateway, promoting, prefs, handoff, installed, proc, manifest, seen>>

-----------------------------------------------------------------------------

FirstPrefs == [checksEnabled |-> TRUE, autoDownload |-> TRUE, skipped |-> None]

Init ==
  /\ main = started(1, FirstPrefs, NoHandoff, TRUE, FALSE)
  /\ events = <<>> /\ overtaken = FALSE /\ popover = FALSE
  /\ gateway = None /\ promoting = NoPromote
  /\ disk = EmptyDisk(Versions) /\ prefs = FirstPrefs /\ handoff = NoHandoff
  /\ proc = "on" /\ installed = 1
  /\ manifest \in {m \in Manifest(Versions) : m.minimum = 1}
  /\ seen = None /\ moves = 0

Worker ==
  \/ startDownload \/ abortDownload \/ downloadEnds \/ sweepStaging \/ scanStaging
  \/ discardStaged \/ promoteBegins \/ promote

User ==
  \/ openPopover \/ checkNow \/ downloadNow \/ skipAvailableVersion \/ setChecksEnabled \/ setAutoDownload
  \/ \E b \in BOOLEAN : Quit(b)
  \/ \E b \in BOOLEAN : Boot(b)

Next ==
  \/ timeout \/ manifestReply \/ mainEvent \/ connectivityChanges
  \/ Worker \/ User \/ Crash \/ InstallerEnds \/ Publish \/ Rot

\* The event loops run, the timer fires, replies and transfers end.
Fairness ==
  /\ WF_vars(timeout) /\ WF_vars(manifestReply) /\ WF_vars(mainEvent)
  /\ WF_vars(Worker)

Spec == Init /\ [][Next]_vars
FairSpec == Spec /\ Fairness
=============================================================================
