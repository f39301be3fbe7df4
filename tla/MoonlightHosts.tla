--------------------------- MODULE MoonlightHosts ---------------------------
(***************************************************************************)
(* What MoonlightManager knows about one host: the record and the pinned   *)
(* certificate in MoonlightHostRepository, the standing binding, the       *)
(* discovery sweep, and the probe flags that the session section and the   *)
(* host's row are drawn from.  Requests are answered late, in any order,   *)
(* or not at all, and a forget or a restart may come before the answer.    *)
(*                                                                         *)
(* The host is modelled from what the client relies on: it has an identity *)
(* and a certificate, which a reinstall replaces, and it either holds this *)
(* client's pairing or refuses every mutual-TLS call.  The launch and the  *)
(* stream itself are in MoonlightSession.                                  *)
(***************************************************************************)
EXTENDS Naturals, FiniteSets

CONSTANTS MaxHostOps,   \* bound: commands of the user
          MaxReplaced,  \* bound: reinstalls of the host
          MaxRestarts,  \* bound: restarts of the program
          MaxAsked      \* bound: requests out at a time

VARIABLES host,        \* the machine at the address
          remembered,  \* its record in the repository: none or one
          pin,         \* its server certificate in the repository; 0 is none
          intent,      \* whether a standing binding names it
          discovered,  \* whether the last sweep listed it
          scanning,    \* scanning_
          hostSes,     \* its MoonlightSession
          probe,       \* probes_[id]
          asks,        \* requests out
          asked,       \* for the properties: something was asked of the host since the last forget
          hostOps      \* commands, reinstalls and restarts so far

hostVars == <<host, remembered, pin, intent, discovered, scanning, hostSes, probe, asks, asked, hostOps>>

\* Identities and certificates are numbered by the host's reinstalls; 0 is not known.
NewRecord == [uuid |-> 0, paired |-> FALSE, app |-> FALSE]

Blank ==
  [inFlight |-> FALSE, answered |-> FALSE, timedOut |-> FALSE, trustInFlight |-> FALSE,
   mtlsVerified |-> FALSE, unauthorized |-> FALSE, uniqueIdChanged |-> FALSE,
   pairingActive |-> FALSE, pairingRefused |-> FALSE,
   appsInFlight |-> FALSE, appsFetched |-> FALSE, appsFailed |-> FALSE]

\* phase: the phases of the session that decide what the commands here do.
NoSession == [n |-> 0, on |-> FALSE, record |-> NewRecord, mismatch |-> FALSE, generation |-> 0, phase |-> "Idle"]

\* The program starts on a fresh install, or with a host it paired with in an earlier run.
Init ==
  /\ remembered \in {{}, {[NewRecord EXCEPT !.uuid = 1, !.paired = TRUE]}}
  /\ host = [up |-> TRUE, version |-> 1, knows |-> remembered # {}]
  /\ pin = IF remembered = {} THEN 0 ELSE 1
  /\ intent = FALSE
  /\ discovered = FALSE
  /\ scanning = FALSE
  /\ hostSes = NoSession
  /\ probe = Blank
  /\ asks = {}
  /\ asked = (remembered # {})
  /\ hostOps = [user |-> 0, replaced |-> 0, restarts |-> 0]

-----------------------------------------------------------------------------
(* Helpers of the manager.                                                 *)

hostById == IF remembered # {} THEN remembered ELSE IF discovered THEN {NewRecord} ELSE {}

holdsPairing(rec, cert) == (\E r \in rec : r.paired) /\ cert # 0

\* The session a command uses: the one there is, or a new one with a copy of the record.
ensureSession ==
  IF hostSes.on THEN hostSes
  ELSE [NoSession EXCEPT !.n = hostSes.n + 1, !.on = TRUE, !.record = CHOOSE r \in hostById : TRUE]

\* at: the command that asked; 0 for the call a probe goes on to make.
Ask(kind, ses, at) == [kind |-> kind, n |-> ses.n, generation |-> ses.generation, trusted |-> 0, at |-> at]

CanAsk == Cardinality(asks) < MaxAsked

\* probeHost as a part of a command: what is asked, and the flags.
probed(ses, p) ==
  IF p.inFlight \/ p.trustInFlight THEN [probe |-> p, asks |-> {}]
  ELSE [probe |-> [p EXCEPT !.inFlight = TRUE, !.answered = FALSE, !.timedOut = FALSE], asks |-> {Ask("probe", ses, hostOps.user + 1)}]

refreshed(p) == [p EXCEPT !.appsInFlight = TRUE, !.appsFetched = FALSE, !.appsFailed = FALSE, !.unauthorized = FALSE]

\* A mutual-TLS answer proves the pairing, and the record says so from then on.
rememberProvenTrust(rec, found) ==
  IF rec # {} THEN {[r EXCEPT !.paired = TRUE] : r \in rec}
  ELSE IF found THEN {[NewRecord EXCEPT !.paired = TRUE]} ELSE {}

-----------------------------------------------------------------------------
(* Commands of the user.                                                   *)

Command == hostOps.user < MaxHostOps /\ hostOps' = [hostOps EXCEPT !.user = @ + 1]

startDiscovery ==
  /\ Command
  /\ ~scanning
  /\ scanning' = TRUE
  /\ UNCHANGED <<host, remembered, pin, intent, discovered, hostSes, probe, asks, asked>>

\* A sweep that found nothing keeps what the last one found.
applyDiscoverySweep ==
  /\ scanning
  /\ scanning' = FALSE
  /\ \E found \in {FALSE, host.up} : discovered' = (found \/ discovered)
  /\ UNCHANGED <<host, remembered, pin, intent, hostSes, probe, asks, asked, hostOps>>

\* The record is written as new, over one there is.
addManualHost ==
  /\ Command
  /\ CanAsk
  /\ LET ses == IF hostSes.on THEN hostSes
                ELSE [NoSession EXCEPT !.n = hostSes.n + 1, !.on = TRUE]
         p   == probed(ses, probe)
     IN hostSes' = ses /\ probe' = p.probe /\ asks' = asks \cup p.asks
  /\ remembered' = {NewRecord}
  /\ asked' = TRUE
  /\ UNCHANGED <<host, pin, intent, discovered, scanning>>

probeHost ==
  /\ Command
  /\ CanAsk
  /\ hostById # {}
  /\ hostSes' = ensureSession
  /\ LET p == probed(ensureSession, probe) IN probe' = p.probe /\ asks' = asks \cup p.asks
  /\ asked' = TRUE
  /\ UNCHANGED <<host, remembered, pin, intent, discovered, scanning>>

refreshApps ==
  /\ Command
  /\ CanAsk
  /\ hostById # {}
  /\ hostSes' = ensureSession
  /\ probe' = refreshed(probe)
  /\ asks' = asks \cup {Ask("apps", ensureSession, hostOps.user + 1)}
  /\ asked' = TRUE
  /\ UNCHANGED <<host, remembered, pin, intent, discovered, scanning>>

\* MoonlightSession::cancelPairing
cancelled(ses) ==
  IF ses.phase = "Pairing" THEN [ses EXCEPT !.generation = @ + 1, !.phase = "Failed"] ELSE ses

\* pair() asks the host even where the session's phase refuses the event.
pairHost ==
  /\ Command
  /\ CanAsk
  /\ hostById # {}
  /\ LET moved == probe.uniqueIdChanged \/ ensureSession.mismatch
         ses   == IF probe.pairingActive THEN cancelled(ensureSession) ELSE ensureSession
         now   == [ses EXCEPT !.phase = IF @ = "Launching" THEN @ ELSE "Pairing", !.mismatch = @ /\ ~moved]
     IN /\ hostSes' = now
        /\ pin' = IF moved THEN 0 ELSE pin
        /\ probe' = [probe EXCEPT !.uniqueIdChanged = @ /\ ~moved, !.pairingActive = TRUE, !.pairingRefused = FALSE]
        /\ asks' = asks \cup {Ask("pair", now, hostOps.user + 1)}
  /\ asked' = TRUE
  /\ UNCHANGED <<host, remembered, intent, discovered, scanning>>

cancelPairing ==
  /\ Command
  /\ hostSes.on
  /\ hostSes' = cancelled(hostSes)
  /\ probe' = [probe EXCEPT !.pairingActive = FALSE, !.pairingRefused = FALSE]
  /\ UNCHANGED <<host, remembered, pin, intent, discovered, scanning, asks, asked>>

\* A connect or a first pad: /launch goes out over mutual TLS.
launch ==
  /\ Command
  /\ CanAsk
  /\ hostById # {}
  /\ ensureSession.phase \notin {"Pairing", "Launching"}
  /\ hostSes' = [ensureSession EXCEPT !.phase = "Launching"]
  /\ asks' = asks \cup {Ask("launch", ensureSession, hostOps.user + 1)}
  /\ asked' = TRUE
  /\ UNCHANGED <<host, remembered, pin, intent, discovered, scanning, probe>>

setHostApp ==
  /\ Command
  /\ hostById # {}
  /\ remembered' = {[r EXCEPT !.app = TRUE] : r \in hostById}
  /\ asked' = TRUE
  /\ UNCHANGED <<host, pin, intent, discovered, scanning, hostSes, probe, asks>>

\* The host goes with the binding that names it.
rememberBinding ==
  /\ Command
  /\ remembered' = hostById
  /\ intent' = TRUE
  /\ asked' = TRUE
  /\ UNCHANGED <<host, pin, discovered, scanning, hostSes, probe, asks>>

forgetBinding ==
  /\ Command
  /\ intent
  /\ intent' = FALSE
  /\ UNCHANGED <<host, remembered, pin, discovered, scanning, hostSes, probe, asks, asked>>

detachNothing(ses) == ses

\* The session leaves sessions_ and the store; what it still asks is answered into nothing.
detachSessionFromStore(ses) == [NoSession EXCEPT !.n = ses.n]

forgetLearnedState == Blank

forgetHost ==
  /\ Command
  /\ hostSes' = detachSessionFromStore(hostSes)
  /\ probe' = forgetLearnedState
  /\ intent' = FALSE
  /\ remembered' = {}
  /\ pin' = 0
  /\ asked' = FALSE
  /\ UNCHANGED <<host, discovered, scanning, asks>>

-----------------------------------------------------------------------------
(* Answers.  A request belongs to the session object that made it.         *)

Heard(a) == hostSes.on /\ a.n = hostSes.n

\* The pin verifier, when the handshake reached the host: first sight is pinned, a change refused.
verified(a) ==
  IF ~Heard(a) THEN [pin |-> pin, mismatch |-> hostSes.mismatch, ok |-> TRUE]
  ELSE IF pin = 0 THEN [pin |-> host.version, mismatch |-> FALSE, ok |-> TRUE]
  ELSE [pin |-> pin, mismatch |-> pin # host.version, ok |-> pin = host.version]

onSessionProbeFinished(a, answered) ==
  LET moved   == answered /\ \E r \in remembered : r.uuid \notin {0, host.version}
      learned == IF answered THEN {[r EXCEPT !.uuid = IF @ = 0 THEN host.version ELSE @] : r \in remembered}
                 ELSE remembered
      heard   == [probe EXCEPT !.inFlight = FALSE, !.answered = answered, !.timedOut = ~answered,
                               !.uniqueIdChanged = moved]
      trusts  == answered /\ ~moved /\ holdsPairing(remembered, pin)
  IN /\ remembered' = learned
     /\ probe' = IF trusts THEN [refreshed(heard) EXCEPT !.trustInFlight = TRUE] ELSE heard
     /\ asks' = (asks \ {a}) \cup (IF trusts THEN {Ask("apps", hostSes, 0)} ELSE {})
     /\ UNCHANGED <<pin, hostSes>>

recordAppListProbeHalf(ok, unauthorized) ==
  [probe EXCEPT !.appsInFlight = FALSE, !.appsFetched = ok, !.appsFailed = ~ok, !.unauthorized = unauthorized,
                !.trustInFlight = @ /\ ~ok]

recordAppListProbe(ok, unauthorized) ==
  LET p == [probe EXCEPT !.trustInFlight = FALSE, !.appsInFlight = FALSE, !.appsFetched = ok,
                         !.appsFailed = ~ok, !.unauthorized = unauthorized]
  IN IF ok THEN [p EXCEPT !.answered = TRUE, !.timedOut = FALSE, !.mtlsVerified = TRUE]
     ELSE [p EXCEPT !.mtlsVerified = @ /\ ~unauthorized]

onProbeReply(a) ==
  /\ a.kind = "probe"
  /\ \E answered \in {FALSE, host.up} :
       IF Heard(a) THEN onSessionProbeFinished(a, answered)
       ELSE asks' = asks \ {a} /\ UNCHANGED <<remembered, pin, hostSes, probe>>
  /\ UNCHANGED <<host, intent, discovered, scanning, asked, hostOps>>

\* reached: the handshake took place; heard: an answer came back on it.
onAppListReply(a) ==
  /\ a.kind = "apps"
  /\ \E reached \in {FALSE, host.up} : \E heard \in {FALSE, reached /\ verified(a).ok} :
       LET v == IF reached THEN verified(a) ELSE [pin |-> pin, mismatch |-> hostSes.mismatch, ok |-> FALSE]
           ok == heard /\ host.knows
       IN /\ pin' = v.pin
          /\ hostSes' = [hostSes EXCEPT !.mismatch = v.mismatch]
          /\ probe' = IF Heard(a) THEN recordAppListProbe(ok, heard /\ ~host.knows) ELSE probe
          /\ remembered' = IF Heard(a) /\ ok THEN rememberProvenTrust(remembered, discovered) ELSE remembered
  /\ asks' = asks \ {a}
  /\ UNCHANGED <<host, intent, discovered, scanning, asked, hostOps>>

\* An accepted /launch enters the handshake phase, which proves the pairing as well.
onLaunchAnswer(a) ==
  /\ a.kind = "launch"
  /\ \E reached \in {FALSE, host.up} : \E heard \in {FALSE, reached /\ verified(a).ok} :
       LET v == IF reached THEN verified(a) ELSE [pin |-> pin, mismatch |-> hostSes.mismatch, ok |-> FALSE]
           ok == heard /\ host.knows
       IN /\ pin' = v.pin
          /\ hostSes' = IF Heard(a) THEN [hostSes EXCEPT !.mismatch = v.mismatch, !.phase = "Failed"]
                        ELSE hostSes
          /\ remembered' = IF Heard(a) /\ ok THEN rememberProvenTrust(remembered, discovered) ELSE remembered
  /\ asks' = asks \ {a}
  /\ UNCHANGED <<host, intent, discovered, scanning, probe, asked, hostOps>>

\* MoonlightSession reports, and the manager's onSessionPairingFinished runs in the same call.
onSessionPairingFinished(ok) ==
  LET p == [probe EXCEPT !.pairingActive = FALSE, !.pairingRefused = ~ok]
  IN IF ok THEN [p EXCEPT !.answered = TRUE, !.timedOut = FALSE, !.mtlsVerified = TRUE,
                          !.unauthorized = FALSE, !.uniqueIdChanged = FALSE]
     ELSE p

pairAbandoned(a) == Heard(a) /\ a.generation # hostSes.generation

ended(ses, phase) == [ses EXCEPT !.phase = IF @ = "Pairing" THEN phase ELSE @]

\* Phases 1 to 4, in which the host takes this client's certificate, or refuses.
onPairPhase4(a) ==
  /\ a.kind = "pair"
  /\ \E ok \in {FALSE, host.up} :
       /\ host' = [host EXCEPT !.knows = @ \/ ok]
       /\ IF pairAbandoned(a) THEN asks' = asks \ {a} /\ UNCHANGED <<hostSes, probe>>
          ELSE IF ok
          THEN /\ asks' = (asks \ {a}) \cup {[a EXCEPT !.kind = "challenge", !.trusted = host.version]}
               /\ UNCHANGED <<hostSes, probe>>
          ELSE /\ asks' = asks \ {a}
               /\ hostSes' = IF Heard(a) THEN ended(hostSes, "Failed") ELSE hostSes
               /\ probe' = IF Heard(a) THEN onSessionPairingFinished(FALSE) ELSE probe
  /\ UNCHANGED <<remembered, pin, intent, discovered, scanning, asked, hostOps>>

\* Phase 5 trusts the certificate the first four proved; the session writes its own copy of the record.
onPairPhase5(a) ==
  /\ a.kind = "challenge"
  /\ asks' = asks \ {a}
  /\ IF ~Heard(a) \/ pairAbandoned(a) THEN UNCHANGED <<pin, remembered, hostSes, probe>>
     ELSE \E ok \in {FALSE, host.up /\ host.version = a.trusted /\ host.knows} :
            /\ pin' = IF ok THEN a.trusted ELSE pin
            /\ remembered' = IF ok THEN {[hostSes.record EXCEPT !.paired = TRUE]} ELSE remembered
            /\ hostSes' = [ended(hostSes, IF ok THEN "Paired" ELSE "Failed") EXCEPT
                             !.mismatch = @ /\ ~ok, !.record.paired = @ \/ ok]
            /\ probe' = onSessionPairingFinished(ok)
  /\ UNCHANGED <<host, intent, discovered, scanning, asked, hostOps>>

Answered == \E a \in asks :
  onProbeReply(a) \/ onAppListReply(a) \/ onLaunchAnswer(a) \/ onPairPhase4(a) \/ onPairPhase5(a)

-----------------------------------------------------------------------------
(* The host, and the program's restarts.                                   *)

HostReinstalled ==
  /\ hostOps.replaced < MaxReplaced
  /\ hostOps' = [hostOps EXCEPT !.replaced = @ + 1]
  /\ host' = [host EXCEPT !.version = @ + 1, !.knows = FALSE]
  /\ UNCHANGED <<remembered, pin, intent, discovered, scanning, hostSes, probe, asks, asked>>

HostDropsPairing ==
  /\ host.knows
  /\ hostOps.replaced < MaxReplaced
  /\ hostOps' = [hostOps EXCEPT !.replaced = @ + 1]
  /\ host' = [host EXCEPT !.knows = FALSE]
  /\ UNCHANGED <<remembered, pin, intent, discovered, scanning, hostSes, probe, asks, asked>>

\* Only the repository survives.
Restart ==
  /\ hostOps.restarts < MaxRestarts
  /\ hostOps' = [hostOps EXCEPT !.restarts = @ + 1]
  /\ hostSes' = [NoSession EXCEPT !.n = hostSes.n]
  /\ probe' = Blank
  /\ discovered' = FALSE
  /\ scanning' = FALSE
  /\ asks' = {}
  /\ UNCHANGED <<host, remembered, pin, intent, asked>>

User ==
  \/ startDiscovery \/ addManualHost \/ probeHost \/ refreshApps \/ pairHost \/ cancelPairing
  \/ launch \/ setHostApp \/ rememberBinding \/ forgetBinding \/ forgetHost

Next == User \/ Answered \/ applyDiscoverySweep \/ HostReinstalled \/ HostDropsPairing \/ Restart

\* Every request has a deadline, and a sweep ends by itself.
Spec == Init /\ [][Next]_hostVars /\ WF_hostVars(Answered) /\ WF_hostVars(applyDiscoverySweep)

-----------------------------------------------------------------------------
(* What the row and the session section say.                               *)

Outcomes == {"None", "BusyOther", "ResumeFailed", "Refused", "SetupFailed", "Live", "Dropped", "EndedByHost"}

SessionUiInputs(outcome, full, riding) ==
  [probeAnswered |-> probe.answered /\ ~probe.trustInFlight, timedOut |-> probe.timedOut,
   hostPairStatus |-> probe.mtlsVerified, pairingHeld |-> holdsPairing(remembered, pin),
   unauthorized |-> probe.unauthorized,
   identityChanged |-> probe.uniqueIdChanged \/ hostSes.mismatch,
   pairingActive |-> probe.pairingActive, pairingRefused |-> probe.pairingRefused,
   appsInFlight |-> probe.appsInFlight, appsFetched |-> probe.appsFetched, appsFailed |-> probe.appsFailed,
   live |-> outcome = "Live", bindingLive |-> outcome = "Live" /\ riding, full |-> full, outcome |-> outcome]

notPaired(in) == in.unauthorized \/ (in.probeAnswered /\ ~(in.hostPairStatus /\ in.pairingHeld))

trustFor(in) ==
  IF in.identityChanged \/ notPaired(in) THEN "NotPaired"
  ELSE IF in.hostPairStatus /\ in.pairingHeld THEN "Paired"
  ELSE IF in.pairingHeld THEN "Remembered" ELSE "NotPaired"

unanswered(in) ==
  CASE ~in.timedOut -> "Checking"
    [] in.timedOut /\ in.outcome # "None" -> in.outcome
    [] OTHER -> IF in.pairingHeld THEN "Remembered" ELSE "Unreachable"

appsState(in) ==
  CASE in.appsInFlight -> "AppsLoading"
    [] ~in.appsInFlight /\ in.appsFailed -> "AppsFailed"
    [] ~in.appsInFlight /\ ~in.appsFailed /\ in.appsFetched -> "NewSession"
    [] OTHER -> "Checking"

\* The silence is judged before the refusal.
sessionUiStateLate(in) ==
  CASE in.pairingActive -> "PairingPin"
    [] ~in.pairingActive /\ in.pairingRefused -> "PairingRefused"
    [] OTHER ->
         IF in.identityChanged THEN "HostReplaced"
         ELSE IF in.full THEN "HostFull"
         ELSE IF ~in.probeAnswered /\ ~in.live THEN unanswered(in)
         ELSE IF notPaired(in) THEN (IF in.pairingHeld THEN "TrustLost" ELSE "NotPaired")
         ELSE IF in.bindingLive THEN "Live"
         ELSE IF in.outcome \notin {"None", "Live"} THEN in.outcome
         ELSE IF in.live THEN "Joining" ELSE appsState(in)

\* The order of the tests is the rule.  An empty list and a removed pick are forms of NewSession.
sessionUiState(in) ==
  CASE in.pairingActive -> "PairingPin"
    [] ~in.pairingActive /\ in.pairingRefused -> "PairingRefused"
    [] OTHER ->
         IF in.identityChanged THEN "HostReplaced"
         ELSE IF in.full THEN "HostFull"
         ELSE IF notPaired(in) THEN (IF in.pairingHeld THEN "TrustLost" ELSE "NotPaired")
         ELSE IF ~in.probeAnswered /\ ~in.live THEN unanswered(in)
         ELSE IF in.bindingLive THEN "Live"
         ELSE IF in.outcome \notin {"None", "Live"} THEN in.outcome
         ELSE IF in.live THEN "Joining" ELSE appsState(in)

-----------------------------------------------------------------------------
(* Properties.                                                             *)

\* After MoonlightManager::forgetHost, and until the user asks something of the host again, no late
\* answer, handshake or pairing writes a record, a pinned certificate, a binding or a probe entry.
ForgottenStaysForgotten ==
  ~asked => remembered = {} /\ pin = 0 /\ ~intent /\ probe = Blank

\* Whatever the session came to, a section of MoonlightSessionUi that promises a session agrees
\* with the row: it is never shown for a host whose row says that it is not paired.
PromisesOnlyThePaired ==
  \A outcome \in Outcomes, full, riding \in BOOLEAN :
    LET in == SessionUiInputs(outcome, full, riding) IN
    sessionUiState(in) \in {"Remembered", "AppsLoading", "NewSession", "AppsFailed"} => trustFor(in) # "NotPaired"

\* None of the four things the section shows as under way is, although probeHost refuses to ask
\* again while one is.
Answerable ==
  ~(probe.inFlight \/ probe.trustInFlight \/ probe.appsInFlight \/ probe.pairingActive)

\* A host that was paired with again after it announced a new identity is not reported as replaced:
\* "Asking to pair again IS the decision to trust what this host presents next."
RepairedIsAccepted ==
  (holdsPairing(remembered, pin) /\ pin = host.version /\ host.knows /\ asks = {}) => ~probe.uniqueIdChanged

=============================================================================
