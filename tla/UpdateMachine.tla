---------------------------- MODULE UpdateMachine -----------------------------
(***************************************************************************)
(* The auto-updater's reducer: one operator per event, taking the status   *)
(* and giving the next status with the effects to execute, in order.       *)
(*                                                                         *)
(* Versions are naturals in the order of their parsed triples, None is the *)
(* empty string.  Byte counts, delays, the failure count and the notices   *)
(* are left out: no guard reads them.                                      *)
(*                                                                         *)
(* After it, the staging tree on disk and the settings the gate keeps, as  *)
(* operators on the disk d and on the handoff record h.                    *)
(*                                                                         *)
(* For each version the disk has the .part file of its download and the    *)
(* ready directory with the setup exe and the marker.  A "rotten" file has *)
(* its size but not its bytes.                                             *)
(***************************************************************************)
EXTENDS Naturals, Sequences, FiniteSetsExt

None == 0

isStrictlyNewer(v, w) == v # None /\ w # None /\ v > w

Phases == {"Disabled", "Idle", "Checking", "UpToDate", "Available",
           "Downloading", "Verifying", "Ready", "Failed"}
Errors == {"None", "Offline", "Http", "Corrupt", "Io", "ApplyFailed"}

\* asset: the version whose setup asset the newest manifest described.
UpdateStatus(Versions) ==
  [phase : Phases, error : Errors, current : Versions,
   available : Versions \cup {None}, asset : Versions \cup {None},
   staged : Versions \cup {None}, skipped : Versions \cup {None},
   checksEnabled : BOOLEAN, autoDownload : BOOLEAN, required : BOOLEAN,
   meteredDeferred : BOOLEAN, portable : BOOLEAN, metered : BOOLEAN, online : BOOLEAN]

\* What version a manifest offers and the oldest one it still supports.
Manifest(Versions) == [version : Versions, minimum : Versions]

Effect(op, v) == [op |-> op, v |-> v]
FetchManifest == Effect("FetchManifest", None)
ScheduleNextCheck == Effect("ScheduleNextCheck", None)
StartDownload(v) == Effect("StartDownload", v)
AbortDownload == Effect("AbortDownload", None)
VerifyAndPromote(v) == Effect("VerifyAndPromote", v)
DiscardStaged(v) == Effect("DiscardStaged", v)
SweepStaging == Effect("SweepStaging", None)

Reduction(next, effects) == [next |-> next, effects |-> effects]
stay(s) == Reduction(s, <<>>)

When(b, effects) == IF b THEN effects ELSE <<>>

-----------------------------------------------------------------------------

hasApplicableStage(s) == s.staged # None /\ isStrictlyNewer(s.staged, s.current)

stageSurvivesManifest(s, v) ==
  s.staged # None /\ s.staged = v /\ isStrictlyNewer(v, s.current)

settleFailure(s, error, before) ==
  LET kept == hasApplicableStage(s)
  IN  Reduction([s EXCEPT !.phase = IF kept THEN "Ready" ELSE "Failed",
                          !.error = IF kept THEN "None" ELSE error,
                          !.meteredDeferred = FALSE],
                Append(before, ScheduleNextCheck))

\* A mutant: the phase moves and the transfer is forgotten.
beginDownloadForgotten(s) ==
  stay([s EXCEPT !.phase = "Downloading", !.meteredDeferred = FALSE])

beginDownload(s) ==
  Reduction([s EXCEPT !.phase = "Downloading", !.meteredDeferred = FALSE],
            <<StartDownload(s.available)>>)

withdrawOffer(s) ==
  [s EXCEPT !.phase = "UpToDate", !.available = None, !.asset = None,
            !.meteredDeferred = FALSE]

onPrefsChanged(s, enabled, auto, skipped) ==
  LET n == [s EXCEPT !.checksEnabled = enabled, !.autoDownload = auto, !.skipped = skipped]
      canStart == /\ auto /\ ~s.metered /\ ~s.portable
                  /\ s.phase = "Available" /\ s.asset # None
                  /\ s.available # skipped
  IN  CASE ~enabled ->
             Reduction([n EXCEPT !.phase = "Disabled", !.error = "None",
                                 !.meteredDeferred = FALSE],
                       When(s.phase = "Downloading", <<AbortDownload>>))
        [] enabled /\ s.phase = "Disabled" ->
             Reduction([n EXCEPT !.phase = "Idle"], <<SweepStaging, ScheduleNextCheck>>)
        [] enabled /\ canStart -> beginDownload(n)
        [] OTHER -> stay(n)

onCheckRequested(s) ==
  CASE s.phase \in {"Disabled", "Checking"} -> stay(s)
    [] s.phase \in {"Downloading", "Verifying"} -> Reduction(s, <<ScheduleNextCheck>>)
    [] OTHER ->
         IF ~s.online THEN settleFailure(s, "Offline", <<>>)
         ELSE Reduction([s EXCEPT !.phase = "Checking"], <<SweepStaging, FetchManifest>>)

applyManifestFacts(s, m) ==
  [s EXCEPT !.required = isStrictlyNewer(m.minimum, s.current), !.error = "None"]

\* A mutant: the test of a metered network is the wrong way round.
autoStartsMetered(s) == s.autoDownload /\ s.metered /\ ~s.portable

autoStarts(s) == s.autoDownload /\ ~s.metered /\ ~s.portable

onManifestArrived(s, m) ==
  LET dropped == s.staged # None /\ ~stageSurvivesManifest(s, m.version)
      f == [applyManifestFacts(s, m) EXCEPT !.staged = IF dropped THEN None ELSE @]
      discard == When(dropped, <<DiscardStaged(s.staged)>>)
      offered == /\ isStrictlyNewer(m.version, s.current)
                 /\ m.version = s.skipped => f.required
      n == [f EXCEPT !.available = m.version, !.asset = m.version, !.meteredDeferred = FALSE]
  IN  IF s.phase # "Checking" THEN stay(s)
      ELSE CASE ~offered ->
                  Reduction(withdrawOffer(f), discard \o <<ScheduleNextCheck>>)
             [] offered /\ n.staged = m.version ->
                  Reduction([n EXCEPT !.phase = "Ready"], discard \o <<ScheduleNextCheck>>)
             [] offered /\ n.staged # m.version /\ autoStarts(s) ->
                  Reduction([n EXCEPT !.phase = "Downloading"],
                            discard \o <<StartDownload(m.version), ScheduleNextCheck>>)
             [] OTHER ->
                  Reduction([n EXCEPT !.phase = "Available",
                                      !.meteredDeferred = s.metered /\ s.autoDownload
                                                          /\ ~s.portable],
                            discard \o <<ScheduleNextCheck>>)

onCheckFailed(s, error) ==
  IF s.phase # "Checking" THEN stay(s) ELSE settleFailure(s, error, <<>>)

onDownloadRequested(s) ==
  IF s.phase # "Available" \/ s.portable \/ s.asset = None THEN stay(s)
  ELSE beginDownload([s EXCEPT !.error = "None"])

onDownloadFinished(s) ==
  IF s.phase # "Downloading" THEN stay(s)
  ELSE Reduction([s EXCEPT !.phase = "Verifying"], <<VerifyAndPromote(s.available)>>)

onDownloadFailed(s, error) ==
  IF s.phase # "Downloading" THEN stay(s) ELSE settleFailure(s, error, <<>>)

onVerifyOk(s) ==
  IF s.phase # "Verifying" THEN stay(s)
  ELSE Reduction([s EXCEPT !.phase = "Ready", !.staged = s.available, !.error = "None"],
                 <<SweepStaging>>)

\* A mutant: a stage that failed its check is still called staged.
onVerifyFailedKeepsStage(s) ==
  IF s.phase # "Verifying" THEN stay(s)
  ELSE settleFailure([s EXCEPT !.staged = s.available], "Corrupt", <<DiscardStaged(s.available)>>)

onVerifyFailed(s) ==
  IF s.phase # "Verifying" THEN stay(s)
  ELSE settleFailure([s EXCEPT !.staged = None], "Corrupt", <<DiscardStaged(s.available)>>)

onStagedFound(s, v) ==
  LET usable == isStrictlyNewer(v, s.current) /\ v # s.skipped
      n == [s EXCEPT !.staged = v]
  IN  CASE ~usable -> Reduction([s EXCEPT !.staged = None], <<DiscardStaged(v)>>)
        [] usable /\ s.phase \in {"Idle", "UpToDate", "Failed"} ->
             stay([n EXCEPT !.phase = "Ready", !.available = v, !.error = "None"])
        [] OTHER -> stay(n)

onSkipRequested(s, v) ==
  LET staged == s.staged = v
      n == [s EXCEPT !.skipped = v, !.staged = IF staged THEN None ELSE @]
  IN  IF s.required \/ v = None THEN stay(s)
      ELSE Reduction(IF s.available = v THEN withdrawOffer(n) ELSE n,
                     When(s.phase = "Downloading", <<AbortDownload>>)
                     \o When(staged, <<DiscardStaged(v)>>))

onMeteredChanged(s, metered) ==
  LET n == [s EXCEPT !.metered = metered]
      resumes == /\ ~metered /\ s.meteredDeferred /\ s.phase = "Available"
                 /\ s.autoDownload /\ ~s.portable /\ s.asset # None
  IN  IF resumes THEN beginDownload(n)
      ELSE stay([n EXCEPT !.meteredDeferred = s.meteredDeferred /\ metered])

onReachabilityChanged(s, online) ==
  LET gated == s.phase = "Failed" /\ s.error = "Offline" /\ s.checksEnabled
  IN  Reduction([s EXCEPT !.online = online],
                When(online /\ gated, <<ScheduleNextCheck>>))

withQuarantinedHandoff(s, v, attempts, cap) ==
  IF ~isStrictlyNewer(v, s.current) \/ attempts < cap THEN s
  ELSE [s EXCEPT !.phase = IF s.checksEnabled THEN "Failed" ELSE @,
                 !.error = "ApplyFailed", !.available = v]

-----------------------------------------------------------------------------
(* The staging tree.                                                       *)

kMaxApplyAttemptsPerVersion == 2

Parts == {"none", "partial", "full", "rotten"}
Exes == {"none", "good", "rotten"}
Disk(Versions) == [Versions -> [part : Parts, exe : Exes, marker : BOOLEAN]]
EmptyDisk(Versions) == [v \in Versions |-> [part |-> "none", exe |-> "none", marker |-> FALSE]]

\* readStagedDir: a marker that parses beside an exe of the size it names.
Staged(d, v) == d[v].marker /\ d[v].exe # "none"

findStaged(d) ==
  LET found == {v \in DOMAIN d : Staged(d, v)}
  IN  IF found = {} THEN None ELSE Max(found)

removeTree(d, v) == [d EXCEPT ![v].exe = "none", ![v].marker = FALSE]
removePart(d, v) == [d EXCEPT ![v].part = "none"]

\* An open .part cannot be removed: the download has no share-delete handle.
discard(d, v, open) == IF v = open THEN removeTree(d, v) ELSE removePart(removeTree(d, v), v)

\* old: the versions whose .part is over a day old.
sweep(d, current, old) ==
  LET kept == {v \in DOMAIN d : Staged(d, v) /\ isStrictlyNewer(v, current)}
  IN  [v \in DOMAIN d |->
         [part |-> IF v \in old THEN "none" ELSE d[v].part,
          exe |-> IF v \in kept /\ v = Max(kept) THEN d[v].exe ELSE "none",
          marker |-> v \in kept /\ v = Max(kept)]]

\* promote, in the steps a crash can fall between: the re-read of the .part
\* and the clearing of the target, the rename, the marker.
partVerifies(d, v) == d[v].part = "full"
promoteClear(d, v) == removeTree(d, v)
promoteReject(d, v) == IF d[v].part = "rotten" THEN removePart(d, v) ELSE d
promoteRename(d, v) ==
  [d EXCEPT ![v].exe = IF d[v].part = "full" THEN "good" ELSE "rotten", ![v].part = "none"]
promoteMark(d, v) == [d EXCEPT ![v].marker = TRUE]

-----------------------------------------------------------------------------
(* The boot gate                                                           *)

HandoffRecord(Versions) == [version : Versions \cup {None}, attempts : Nat]
NoHandoff == [version |-> None, attempts |-> 0]

attemptsFor(h, v) == IF h.version = v THEN h.attempts ELSE 0

\* A mutant: the bytes are not read again before they are run.
verifiedStageForApplyUnread(d, h, current) ==
  LET v == findStaged(d)
  IN  IF v = None THEN "none"
      ELSE IF ~isStrictlyNewer(v, current) THEN "discard"
      ELSE IF attemptsFor(h, v) >= kMaxApplyAttemptsPerVersion THEN "quarantine"
      ELSE "apply"

\* A mutant: the stage is not compared with the build that runs.
verifiedStageForApplyAnyVersion(d, h, current) ==
  LET v == findStaged(d)
  IN  IF v = None THEN "none"
      ELSE IF attemptsFor(h, v) >= kMaxApplyAttemptsPerVersion THEN "quarantine"
      ELSE IF d[v].exe = "rotten" THEN "discard"
      ELSE "apply"

\* What is to be done with the highest stage.
verifiedStageForApply(d, h, current) ==
  LET v == findStaged(d)
  IN  IF v = None THEN "none"
      ELSE IF ~isStrictlyNewer(v, current) THEN "discard"
      ELSE IF attemptsFor(h, v) >= kMaxApplyAttemptsPerVersion THEN "quarantine"
      ELSE IF d[v].exe = "rotten" THEN "discard"
      ELSE "apply"

recordAttempt(h, v) == [version |-> v, attempts |-> attemptsFor(h, v) + 1]

\* A mutant: every start forgets the attempts.
reconciledAlways(h, current) == NoHandoff

\* reconcileAfterApply: a record this build has caught up with is spent.
reconciled(h, current) ==
  IF h.version # None /\ ~isStrictlyNewer(h.version, current) THEN NoHandoff ELSE h
===============================================================================
