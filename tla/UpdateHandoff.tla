----------------------------- MODULE UpdateHandoff -----------------------------
(***************************************************************************)
(* The boot gate and restart-now, for several instances of Dish that start *)
(* and quit as they like over one staging tree and one set of settings,    *)
(* and the installers they spawn.                                          *)
(*                                                                         *)
(* The rest of the updater is reduced to Restage: a running instance puts  *)
(* the verified bytes of the offered version on disk, unless the user or a *)
(* quarantine muted it and the build is still supported.  Releases only    *)
(* move forward here: a yanked one is UpdateCoordinator's.  From the       *)
(* re-read of a stage to the spawn is an instant: no download ends and no  *)
(* byte rots in it.                                                        *)
(***************************************************************************)
EXTENDS UpdateMachine, SequencesExt

CONSTANTS Instances,     \* the processes of Dish there can be
          Portables,     \* the ones started from the portable bundle
          Versions,      \* the releases, 1 the one installed first
          Required,      \* the running build is below the supported minimum
          MaxRestages,   \* bound: downloads that are staged
          MaxMishaps     \* bound: crashes, spawns that fail, rot, locked trees

VARIABLES pc,         \* where each instance is
          ver,        \* the version each one was built as
          pick,       \* the stage each one is about to apply
          disk, handoff, skipped,
          installed,  \* the version of the installed exe
          installers, \* the versions being applied, in order
          spawned,    \* [version, n]: how often the last version spawned was, in a row
          quarantined,\* the versions quarantined since they were last attempted
          offered,    \* the version the newest manifest offers
          restages, mishaps

settings == <<handoff, skipped>>
ghosts == <<spawned, quarantined>>
bounds == <<offered, restages, mishaps>>
vars == <<pc, ver, pick, disk, settings, installed, installers, ghosts, bounds>>

At == {"off", "probe", "verify", "record", "spawn", "enter", "running", "quitting",
       "quitRecord", "quitSpawn"}

Goto(i, at) == pc' = [pc EXCEPT ![i] = at]
NothingPicked == \A i \in Instances : pick[i] = None
Mishap == mishaps < MaxMishaps /\ mishaps' = mishaps + 1

\* The mutex is held from the end of the gate to the end of the process.
RunningInstance(i) == pc[i] \in {"running", "quitting", "quitRecord", "quitSpawn"}
anotherInstanceRunning(i) == \E j \in Instances \ {i} : RunningInstance(j)

-----------------------------------------------------------------------------
(* main                                                                    *)

\* flagged: started with --no-update-handoff.
Starts(i, version, flagged) ==
  /\ pc[i] = "off"
  /\ Goto(i, IF flagged THEN "enter" ELSE "probe")
  /\ ver' = [ver EXCEPT ![i] = version]

Launch(i, flagged) ==
  /\ \E v \in IF i \in Portables THEN {1} ELSE {installed} : Starts(i, v, flagged)
  /\ UNCHANGED <<pick, disk, settings, installed, installers, ghosts, bounds>>

probe(i) ==
  /\ pc[i] = "probe"
  /\ Goto(i, IF anotherInstanceRunning(i) THEN "enter" ELSE "verify")
  /\ UNCHANGED <<ver, pick, disk, settings, installed, installers, ghosts, bounds>>

\* A tree that is locked stays where it is for the next pass.
Discard(v) ==
  \/ disk' = discard(disk, v, None) /\ UNCHANGED mishaps
  \/ Mishap /\ UNCHANGED disk

\* A mutant: the process ends, and the stage is left for the next one.
quarantineStops(i, v, next) ==
  /\ Goto(i, "off")
  /\ UNCHANGED <<disk, settings, ghosts, mishaps>>

quarantine(i, v, next) ==
  /\ Discard(v) /\ Goto(i, next)
  /\ skipped' = v /\ quarantined' = quarantined \cup {v}
  /\ UNCHANGED <<handoff, spawned>>

verifyStage(i, from, applied, otherwise) ==
  LET v == findStaged(disk)
      verdict == verifiedStageForApply(disk, handoff, ver[i])
  IN  /\ pc[i] = from
      /\ \/ /\ verdict = "none" /\ Goto(i, otherwise)
            /\ UNCHANGED <<pick, disk, settings, ghosts, mishaps>>
         \/ /\ verdict = "discard" /\ Goto(i, otherwise)
            /\ Discard(v) /\ UNCHANGED <<pick, settings, ghosts>>
         \/ /\ verdict = "quarantine"
            /\ quarantine(i, v, otherwise) /\ UNCHANGED pick
         \/ /\ verdict = "apply" /\ Goto(i, applied)
            /\ pick' = [pick EXCEPT ![i] = v]
            /\ UNCHANGED <<disk, settings, ghosts, mishaps>>
      /\ UNCHANGED <<ver, installed, installers, offered, restages>>

record(i, from, recorded, otherwise) ==
  LET v == pick[i]
  IN  /\ pc[i] = from
      /\ IF attemptsFor(handoff, v) >= kMaxApplyAttemptsPerVersion
         THEN quarantine(i, v, otherwise)
         ELSE /\ handoff' = recordAttempt(handoff, v) /\ Goto(i, recorded)
              /\ quarantined' = quarantined \ {v}
              /\ UNCHANGED <<disk, skipped, spawned, mishaps>>
      /\ UNCHANGED <<ver, pick, installed, installers, offered, restages>>

\* The count saturates one past what it may reach.
Counted == Min({spawned.n, kMaxApplyAttemptsPerVersion}) + 1

\* A spawned installer ends the process; one that does not start leaves it.
spawn(i, from, otherwise) ==
  LET v == pick[i]
  IN  /\ pc[i] = from
      /\ pick' = [pick EXCEPT ![i] = None]
      /\ \/ /\ disk[v].exe # "none"
            /\ installers' = Append(installers, v) /\ Goto(i, "off")
            /\ spawned' = [version |-> v, n |-> IF spawned.version = v THEN Counted ELSE 1]
            /\ UNCHANGED mishaps
         \/ /\ disk[v].exe = "none" /\ Goto(i, otherwise)
            /\ UNCHANGED <<installers, spawned, mishaps>>
         \/ /\ Mishap /\ Goto(i, otherwise) /\ UNCHANGED <<installers, spawned>>
      /\ UNCHANGED <<ver, disk, settings, installed, quarantined, offered, restages>>

\* The mutex, then start(): the janitor and reconcileAfterApply.
enter(i) ==
  /\ pc[i] = "enter" /\ Goto(i, "running")
  /\ disk' = sweep(disk, ver[i], {})
  /\ handoff' = reconciled(handoff, ver[i])
  /\ UNCHANGED <<ver, pick, skipped, installed, installers, ghosts, bounds>>

Gate(i) ==
  \/ probe(i)
  \/ verifyStage(i, "verify", "record", "enter")
  \/ record(i, "record", "spawn", "enter")
  \/ spawn(i, "spawn", "enter")
  \/ enter(i)

-----------------------------------------------------------------------------
(* A running instance                                                      *)

Restage(i) ==
  /\ pc[i] = "running" /\ i \notin Portables /\ NothingPicked
  /\ restages < MaxRestages /\ restages' = restages + 1
  /\ \E v \in Versions :
       /\ v >= offered /\ offered' = v
       /\ isStrictlyNewer(v, ver[i]) /\ (v = skipped => Required)
       /\ disk' = sweep([disk EXCEPT ![v].exe = "good", ![v].marker = TRUE], ver[i], {})
  /\ UNCHANGED <<pc, ver, pick, settings, installed, installers, ghosts, mishaps>>

\* restart: armPendingRestart before the window closed.
Quit(i, restart) ==
  /\ pc[i] = "running"
  /\ Goto(i, IF restart THEN "quitting" ELSE "off")
  /\ UNCHANGED <<ver, pick, disk, settings, installed, installers, ghosts, bounds>>

\* onAboutToQuit
AboutToQuit(i) ==
  \/ verifyStage(i, "quitting", "quitRecord", "off")
  \/ record(i, "quitRecord", "quitSpawn", "off")
  \/ spawn(i, "quitSpawn", "off")

Crash(i) ==
  /\ pc[i] # "off" /\ Mishap
  /\ Goto(i, "off") /\ pick' = [pick EXCEPT ![i] = None]
  /\ UNCHANGED <<ver, disk, settings, installed, installers, ghosts, offered, restages>>

-----------------------------------------------------------------------------
(* External: the setups, one at a time.                                    *)

NoneUp == \A i \in Instances \ Portables : pc[i] = "off"

\* A staged setup waits for the mutex, replaces the exe once nobody uses it
\* and starts it; or it fails, rolls back and starts the old one, flagged.
InstallerEnds(i, ok) ==
  LET after == IF ok THEN Head(installers) ELSE installed
  IN  /\ installers # <<>> /\ installers' = Tail(installers)
      /\ i \notin Portables /\ (ok => NoneUp)
      /\ installed' = after /\ Starts(i, after, ~ok)
      /\ UNCHANGED <<pick, disk, settings, ghosts, bounds>>

\* A staged setup is killed, or the machine goes down.
InstallerDies ==
  /\ installers # <<>> /\ installers' = Tail(installers)
  /\ UNCHANGED <<pc, ver, pick, disk, settings, installed, ghosts, bounds>>

\* The user runs a setup of their own.
ManualInstall(v) ==
  /\ installers = <<>> /\ NoneUp
  /\ isStrictlyNewer(v, installed) /\ installed' = v
  /\ UNCHANGED <<pc, ver, pick, disk, settings, installers, ghosts, bounds>>

Rot ==
  /\ Mishap /\ NothingPicked
  /\ \E v \in Versions : disk[v].exe = "good" /\ disk' = [disk EXCEPT ![v].exe = "rotten"]
  /\ UNCHANGED <<pc, ver, pick, settings, installed, installers, ghosts, offered, restages>>

-----------------------------------------------------------------------------

Init ==
  /\ pc = [i \in Instances |-> "off"]
  /\ ver = [i \in Instances |-> 1] /\ pick = [i \in Instances |-> None]
  /\ disk = EmptyDisk(Versions) /\ handoff = NoHandoff /\ skipped = None
  /\ installed = 1 /\ installers = <<>>
  /\ spawned = [version |-> None, n |-> 0] /\ quarantined = {}
  /\ offered = 1 /\ restages = 0 /\ mishaps = 0

Next ==
  \/ \E i \in Instances, b \in BOOLEAN : Launch(i, b) \/ Quit(i, b) \/ InstallerEnds(i, b)
  \/ \E i \in Instances :
       Gate(i) \/ AboutToQuit(i) \/ Restage(i) \/ Crash(i)
  \/ InstallerDies \/ (\E v \in Versions : ManualInstall(v)) \/ Rot

Spec == Init /\ [][Next]_vars

-----------------------------------------------------------------------------
(* Properties.                                                             *)

\* Whatever was staged, quarantined, applied by hand or left behind in between, over
\* crashes, failed setups, restarts from either end of the process and instances that
\* race through the gate: no staged setup ever replaces a newer Dish, since
\* verifiedStageForApply compares the stage with the exe that runs, and none is started
\* a third time in a row, since recordAttempt counts a start before it happens.
SetupGoesForward == installed' >= installed /\ spawned'.n <= kMaxApplyAttemptsPerVersion

-----------------------------------------------------------------------------
(* What the code does not keep: TLC refutes each of these as a property of *)
(* the configurations (README.md, Departures).                             *)

\* A second instance's boot gate declines to hand off while one runs, so
\* exactly one instance ever owns an apply.
OneOwner == Len(installers) <= 1

\* A required version overrides the skip that quarantine sets, and retrying is
\* then the right answer: the gate does not quarantine it again before it has
\* been attempted again.
RequiredIsRetried ==
  Required =>
    \A i \in Instances :
      /\ pc[i] = "verify"
      /\ verifiedStageForApply(disk, handoff, ver[i]) = "quarantine"
      => findStaged(disk) \notin quarantined

\* A portable copy never applies an update.
PortableNeverApplies == \A i \in Portables : pc[i] \notin {"spawn", "quitSpawn"}
=============================================================================
