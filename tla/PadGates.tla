------------------------------- MODULE PadGates -------------------------------
(***************************************************************************)
(* What of a claimed pad's report stream reaches the wire: the gate on its *)
(* touchpad, and the rates of its motion and its battery.  They share no   *)
(* state, and each has its own Init and Next.                              *)
(*                                                                         *)
(* What a claimed pad's touchpad lets onto the wire: an edge at once, a    *)
(* move once an interval, and the last frame a few times more, because a   *)
(* lost lift would leave a finger down for good.  Datagrams may be lost.   *)
(*                                                                         *)
(* How often a claimed pad's motion and battery go out.  Motion at most    *)
(* once an interval, told with the time since the one before; the pad's    *)
(* own charge to the card, on its edge and by a queued call; the host's    *)
(* battery to the wire, on a beat of the window's timer.                   *)
(***************************************************************************)
EXTENDS Naturals, Sequences, FiniteSets

CONSTANTS kTouchpadMoveInterval,  \* in ticks
          kTouchpadHealResends,
          MaxReportGap,  \* ticks between two reports of a pad
          MaxTouchTime   \* bound

VARIABLES now,
          touch,       \* what the pad reports
          stillSince,  \* history: when that last changed
          gate,        \* the claim's TouchGate
          frameLost,   \* history: how often the gate's frame was sent and lost
          host,        \* what the satellite makes of it, and the frames it took
          fresh        \* history: the frames sent as new

touchVars == <<now, touch, stillSince, gate, frameLost, host, fresh>>

Touches == {"up", "left", "right"}

-----------------------------------------------------------------------------
(* The touchpad gate.                                                      *)

FreshGate == [last |-> "up", sentAt |-> 0, eventTime |-> 0, healsLeft |-> 0]

Skips(g) == [gate |-> g, send |-> "skip"]
isTouchpadEdge(last, sample) == (last = "up") # (sample = "up")

changeTakesSkipped(g, sample) ==
  IF ~isTouchpadEdge(g.last, sample) /\ now' - g.sentAt < kTouchpadMoveInterval
  THEN Skips([g EXCEPT !.last = sample])
  ELSE [gate |-> [last |-> sample, sentAt |-> now', eventTime |-> now', healsLeft |-> kTouchpadHealResends],
        send |-> "fresh"]
change(g, sample) ==
  IF ~isTouchpadEdge(g.last, sample) /\ now' - g.sentAt < kTouchpadMoveInterval
  THEN Skips(g)
  ELSE [gate |-> [last |-> sample, sentAt |-> now', eventTime |-> now', healsLeft |-> kTouchpadHealResends],
        send |-> "fresh"]

heal(g) ==
  IF g.healsLeft = 0 \/ now' - g.sentAt < kTouchpadMoveInterval
  THEN Skips(g)
  ELSE [gate |-> [g EXCEPT !.healsLeft = @ - 1, !.sentAt = now'], send |-> "heal"]

decide(g, sample) == IF sample = g.last THEN heal(g) ELSE change(g, sample)

\* The satellite drops a frame whose event time it has.
HostTakes(g) ==
  host' = IF g.eventTime = host.time THEN host
          ELSE [touch |-> g.last, time |-> g.eventTime, taken |-> host.taken + 1]

publishTouchpad(t, arrives) ==
  LET verdict == decide(gate, t) IN
  /\ touch' = t
  /\ stillSince' = IF t = touch THEN stillSince ELSE now'
  /\ gate' = verdict.gate
  /\ fresh' = IF verdict.send = "fresh" THEN fresh + 1 ELSE fresh
  /\ frameLost' = CASE verdict.send = "skip" -> frameLost
                    [] verdict.send = "fresh" -> IF arrives THEN 0 ELSE 1
                    [] OTHER -> IF arrives THEN frameLost ELSE frameLost + 1
  /\ IF verdict.send # "skip" /\ arrives THEN HostTakes(verdict.gate) ELSE UNCHANGED host

-----------------------------------------------------------------------------
(* The claim and its reports.                                              *)

TouchInit ==
  /\ now = 1
  /\ touch = "up" /\ stillSince = 1
  /\ gate = FreshGate /\ frameLost = 0 /\ fresh = 0
  /\ host = [touch |-> "up", time |-> 0, taken |-> 0]

\* One report decoded on the read thread, some ticks after the last.
TouchReport(t, arrives) ==
  /\ \E d \in 1 .. MaxReportGap : now + d <= MaxTouchTime /\ now' = now + d
  /\ publishTouchpad(t, arrives)

TouchNext == \E t \in Touches, arrives \in BOOLEAN : TouchReport(t, arrives)

TouchSpec == TouchInit /\ [][TouchNext]_touchVars

-----------------------------------------------------------------------------
(* Properties.                                                             *)

\* The longest a pad at rest may wait for its touch to be sent as often as it ever will be.
AtRest == (kTouchpadHealResends + 1) * (kTouchpadMoveInterval + MaxReportGap - 1)

\* The touch a pad came to rest on is the satellite's within a bounded time, whatever was skipped on
\* the way and unless every copy of its frame was lost; and the satellite never takes a repeat for a
\* new frame (TouchGate.h).
TouchLands ==
  /\ now - stillSince >= AtRest => host.touch = touch \/ frameLost = kTouchpadHealResends + 1
  /\ host.taken <= fresh

-----------------------------------------------------------------------------
CONSTANTS kMotionMinInterval, kBatteryReportInterval,  \* in ticks
          MaxPeriod,    \* ticks between two reports, and between two runs of the window's timer
          MaxRateTime,  \* bound
          MaxPosts      \* bound: calls queued to the window

VARIABLES clock,
          direct,      \* the pad is claimed
          motion,      \* the processor record's MotionGate
          motionSeen,  \* history: when motion last went out, the delta it told and the true gap
          charge,      \* the pad's own, as last reported
          mirror, posts, card,  \* lastBattery_, the queued calls, usbPadBattery_
          ticked,      \* when the window's timer last ran
          beatAt,      \* usbBatterySentAt_
          heard        \* history: when the claim began or the beat last went out, and with what

rateVars == <<clock, direct, motion, motionSeen, charge, mirror, posts, card, ticked, beatAt, heard>>

NoCharge == 2
Charges == {0, 1}
HostCharge == 5
NeverSent == MaxRateTime + 1

FreshMotion == [hasEmitted |-> FALSE, last |-> 0]

\* Time moves, and the window's timer keeps its period.
Passes(d) ==
  /\ clock + d <= MaxRateTime
  /\ clock + d - ticked <= MaxPeriod
  /\ clock' = clock + d

\* A dropped sample leaves the gate where it is.  The delta is from the last one sent.
GateAfterDropAdvances(at) == [motion EXCEPT !.last = at]
GateAfterDrop(at) == motion

publishMotionAt(at) ==
  LET dropped == motion.hasEmitted /\ at - motion.last < kMotionMinInterval IN
  /\ motion' = IF dropped THEN GateAfterDrop(at) ELSE [hasEmitted |-> TRUE, last |-> at]
  /\ motionSeen' = IF dropped THEN motionSeen
                   ELSE [at |-> at, delta |-> IF motion.hasEmitted THEN at - motion.last ELSE 0,
                         gap |-> IF motion.hasEmitted THEN at - motionSeen.at ELSE 0]

\* The observer is told on the edge, by a call queued to the window's thread.
mirrorBattery(c) ==
  /\ charge' = c
  /\ mirror' = c
  /\ posts' = IF c # mirror THEN Append(posts, c) ELSE posts

\* One report decoded on the read thread; a pad may not tell its charge in every one.
Report(c) ==
  /\ direct
  /\ \E d \in 1 .. MaxPeriod : Passes(d)
  /\ Len(posts) < MaxPosts
  /\ IF c = NoCharge THEN UNCHANGED <<charge, mirror, posts>> ELSE mirrorBattery(c)
  /\ publishMotionAt(clock')
  /\ UNCHANGED <<direct, card, ticked, beatAt, heard>>

onPadBatteryChanged ==
  /\ posts # <<>>
  /\ card' = Head(posts)
  /\ posts' = Tail(posts)
  /\ UNCHANGED <<clock, direct, motion, motionSeen, charge, mirror, ticked, beatAt, heard>>

\* A wired pad puts the host's battery on the wire whatever its own says; a wireless one the lower.
resolveBattery(padWired, pad, machine) ==
  IF pad = NoCharge \/ padWired THEN machine ELSE IF machine < pad THEN machine ELSE pad

\* On the window's timer.  A pad no longer claimed loses its stamp.
heartbeatDirectBatteries ==
  /\ ticked < clock
  /\ ticked' = clock
  /\ LET due == direct /\ (beatAt = NeverSent \/ clock - beatAt >= kBatteryReportInterval) IN
     /\ beatAt' = CASE ~direct -> NeverSent [] due -> clock [] OTHER -> beatAt
     /\ heard' = IF due THEN [at |-> clock, level |-> resolveBattery(TRUE, card, HostCharge)] ELSE heard
  /\ UNCHANGED <<clock, direct, motion, motionSeen, charge, mirror, posts, card>>

\* Claimed anew: the record's gate and the mirrors start over.
ClaimedPadPublisher ==
  /\ ~direct
  /\ direct' = TRUE
  /\ motion' = FreshMotion
  /\ motionSeen' = [at |-> clock, delta |-> 0, gap |-> 0]
  /\ mirror' = NoCharge
  /\ heard' = [heard EXCEPT !.at = clock]
  /\ UNCHANGED <<clock, charge, posts, card, ticked, beatAt>>

Released ==
  /\ direct
  /\ direct' = FALSE
  /\ UNCHANGED <<clock, motion, motionSeen, charge, mirror, posts, card, ticked, beatAt, heard>>

Unclaimed ==
  /\ ~direct
  /\ Passes(1)
  /\ UNCHANGED <<direct, motion, motionSeen, charge, mirror, posts, card, ticked, beatAt, heard>>

RatesInit ==
  /\ clock = 1
  /\ direct = FALSE
  /\ motion = FreshMotion
  /\ motionSeen = [at |-> 0, delta |-> 0, gap |-> 0]
  /\ charge = NoCharge /\ mirror = NoCharge /\ posts = <<>> /\ card = NoCharge
  /\ ticked = 1 /\ beatAt = NeverSent
  /\ heard = [at |-> 0, level |-> HostCharge]

RatesNext ==
  \/ \E c \in Charges \cup {NoCharge} : Report(c)
  \/ onPadBatteryChanged
  \/ heartbeatDirectBatteries
  \/ ClaimedPadPublisher
  \/ Released
  \/ Unclaimed

RatesSpec == RatesInit /\ [][RatesNext]_rateVars

-----------------------------------------------------------------------------
(* Properties.                                                             *)

\* Motion keeps its rate from both sides and tells true gaps, though samples are dropped in between
\* (publishMotionAt); the card shows the charge last reported once the window has caught up; and the
\* battery beat of a claimed pad is never later than its interval and a period of the window's timer,
\* though the pad may leave and come back between two runs of it (heartbeatDirectBatteries).
RatesHold ==
  /\ direct /\ motion.hasEmitted => clock - motionSeen.at < kMotionMinInterval + MaxPeriod
  /\ motionSeen.delta = motionSeen.gap /\ (motionSeen.gap # 0 => motionSeen.gap >= kMotionMinInterval)
  /\ posts = <<>> => card = charge
  /\ direct => clock - heard.at < kBatteryReportInterval + MaxPeriod + 1
  /\ heard.level = HostCharge
===============================================================================
