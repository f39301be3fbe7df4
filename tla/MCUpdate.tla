------------------------------- MODULE MCUpdate -------------------------------
(***************************************************************************)
(* Model checking of the auto-updater: the coordinator of one installed    *)
(* copy, and the boot gate of several instances. The two parts are checked *)
(* side by side: a behaviour picks one and runs it alone.                  *)
(***************************************************************************)
EXTENDS UpdateCoordinator

CONSTANTS a, b, Instances, Portables, gateVersions, Required, MaxRestages, MaxMishaps

\* Two instances over three releases; the gate's bounds.
ASSUME GateAssumption ==
  /\ gateVersions \subseteq Nat \ {None} /\ 1 \in gateVersions
  /\ Portables \subseteq Instances
  /\ Required \in BOOLEAN
  /\ MaxRestages \in Nat /\ MaxMishaps \in Nat

VARIABLES part, \* the part that this behaviour runs
          pc, ver, pick, gateDisk, gateHandoff, skipped, gateInstalled, installers, spawned, quarantined,
          offered, restages, mishaps

G == INSTANCE UpdateHandoff
       WITH Versions <- gateVersions, disk <- gateDisk, handoff <- gateHandoff, installed <- gateInstalled

gateVars == <<pc, ver, pick, gateDisk, gateHandoff, skipped, gateInstalled, installers, spawned, quarantined,
              offered, restages, mishaps>>
allVars == <<part, vars, gateVars>>

\* A part that does not run has no state.
Absent == "absent"

AllInit ==
  /\ part \in {"coordinator", "gate"}
  /\ Init
  /\ part # "coordinator" => manifest = (CHOOSE x \in Manifest(Versions) : x.minimum = 1)
  /\ IF part = "gate" THEN G!Init
     ELSE pc = Absent /\ ver = Absent /\ pick = Absent /\ gateDisk = Absent /\ gateHandoff = Absent /\
          skipped = Absent /\ gateInstalled = Absent /\ installers = Absent /\ spawned = Absent /\
          quarantined = Absent /\ offered = Absent /\ restages = Absent /\ mishaps = Absent

AllNext ==
  \/ part = "coordinator" /\ Next /\ UNCHANGED <<part, gateVars>>
  \/ part = "gate" /\ G!Next /\ UNCHANGED <<part, vars>>

AllSpec ==
  /\ AllInit /\ [][AllNext]_allVars
  /\ WF_vars(part = "coordinator" /\ timeout) /\ WF_vars(part = "coordinator" /\ manifestReply)
  /\ WF_vars(part = "coordinator" /\ mainEvent) /\ WF_vars(part = "coordinator" /\ Worker)

-----------------------------------------------------------------------------
\* The worker has done and reported all that was asked of it.
Drained == Running /\ events = <<>> /\ main.jobs = <<>> /\ promoting.v = None

\* docs/INSTALLER.md: "15 seconds after launch, then every 4 hours while
\* running": with the checks on, the timer is armed or a check that will arm it is
\* under way, after any sequence of presses, replies and results.
CadenceKept ==
  Running /\ status.checksEnabled => main.timer \/ (status.phase = "Checking" /\ main.fetch)

\* The updater is never stuck.  Until the user skips a version the cadence is kept.
\* The reducer leaves Checking, Downloading and Verifying only on a result, and a
\* periodic check only re-arms the timer there: so in each of them a result, or
\* the job that will give it, is on its way, whatever was aborted, dropped by a
\* busy gateway or overtaken in the two queues.  And when Dish says it is ready, a
\* complete stage newer than the running build is on disk for the next start.
NeverStuck ==
  Running =>
    /\ Drained /\ status.phase = "Ready" => isStrictlyNewer(findStaged(disk), status.current)
    /\ prefs.skipped = None => CadenceKept
    /\ status.phase = "Checking" => main.fetch
    /\ status.phase = "Downloading" =>
         \/ Queued("StartDownload") \/ gateway # None
         \/ Posted("DownloadFinished") \/ Posted("DownloadFailed")
    /\ status.phase = "Verifying" =>
         \/ Queued("VerifyAndPromote") \/ promoting.v # None
         \/ Posted("VerifyOk") \/ Posted("VerifyFailed")

\* The installer is only ever started on bytes that still match their marker, to
\* go forward, and no third time on a version: through crashes in the middle of a
\* promote, rot on the disk, and a restart pressed while the worker promotes.
AppliesOnlyVerified ==
  [][proc # "applying" /\ proc' = "applying" =>
       /\ disk[handoff'.version].exe = "good"
       /\ handoff'.version > installed
       /\ handoff'.attempts <= kMaxApplyAttemptsPerVersion]_vars

-----------------------------------------------------------------------------

Favourable == Running /\ prefs = FirstPrefs /\ status.online /\ ~status.metered

Settled ==
  \/ status.phase = "UpToDate" /\ ~isStrictlyNewer(manifest.version, installed)
  \/ status.phase = "Ready" /\ status.staged = manifest.version

\* In the end no check starts while a transfer runs.
Unhurried == <>[][timeout => gateway = None]_vars

\* However the updater was disturbed, once it is left alone with the checks and
\* automatic downloads on and a network, it comes again and again to be up to
\* date or ready with what the publisher offers.
Converges == part = "coordinator" /\ <>[]Favourable /\ Unhurried => []<>Settled

\* Over crashes, failed setups, restarts and instances that race through the gate, no staged setup
\* replaces a newer Dish (verifiedStageForApply) or is started a third time in a row (recordAttempt).
SetupsGoForward == [][part = "gate" => G!SetupGoesForward]_gateVars

-----------------------------------------------------------------------------
(* What the code does not keep: after the checks have been turned off and  *)
(* on again while the worker promotes, a stage is left on disk that the    *)
(* reducer does not know of.                                               *)

\* UpdateMachine.h: "Ready, verified bytes are staged and will apply at the next
\* start": the version announced is the one on disk.
ReadyIsOnDisk == Drained /\ status.phase = "Ready" => Staged(disk, status.staged)

\* UpdateCoordinator.h, skipAvailableVersion: "Mutes status().availableVersion,
\* discards any stage of it": a skipped version is not on disk for the boot gate,
\* which does not ask what was skipped.
SkippedIsUnstaged ==
  Drained /\ prefs.skipped # None /\ ~status.required => ~Staged(disk, prefs.skipped)

\* UpdateMachine.h: "A stage is kept only when it IS the version the newest
\* manifest offers": what a manifest settled leaves on disk is what it offered.
OnlyTheOfferIsStaged ==
  Drained /\ status.phase \in {"UpToDate", "Available"} => findStaged(disk) \in {None, seen}
===============================================================================
