--------------------------- MODULE ConnectionPages ----------------------------
(***************************************************************************)
(* From the satellites to the two lists the pages show, and the stores     *)
(* they are wired with: two machines that share no state, each with its    *)
(* own Init and Next.                                                      *)
(*                                                                         *)
(* The pages.  The coordinator copies the session pool, the remembered     *)
(* satellites, the last scan and the bindings when each says it changed,   *)
(* the composer derives the rows, and the list models tell the views which *)
(* rows came, went or changed and which fields of them: a view re-reads    *)
(* nothing else.                                                           *)
(*                                                                         *)
(* The stores.  A source's set notifies a copy of its subscribers outside  *)
(* the lock, so a callback may set again inside the notification; a        *)
(* combiner derives one value from several sources and an actuator applies *)
(* it.  One frame of the call stack is one notification under way.         *)
(***************************************************************************)
EXTENDS Naturals, Sequences, FiniteSets, FiniteSetsExt, SequencesExt

CONSTANTS Satellites,  \* numbers, in the order of their labels
          Pads,
          MaxPageEvents  \* bound

VARIABLES pool,      \* WifiConnectionManager::connections_: each session's presence and latency
          remembered, found,
          bound,     \* ConnectionHub's bindings
          summaries, \* ConnectionHub's own list, the one the header's counts are read from
          attached,  \* the pads of AppModel's slot list, in order
          snapshot,  \* the coordinator's five Observables
          rowView,   \* what the connections page shows
          home,      \* SlotListModel's slots_ and connectionRows_, and what the home page shows of them
          pageEvents

pageVars == <<pool, remembered, found, bound, summaries, attached, snapshot, rowView, home, pageEvents>>

NoSession == [presence |-> "none", ms |-> 0]
Sessions == [presence : {"idle", "linking", "live", "faltering", "stale"}, ms : {0, 1}]
NoSatellite == 0

\* presenceOf and satelliteLinkState: a session speaks for itself; an idle one or none, the marks.
satelliteLinkState(presence, isStale, isDiscovered) ==
  CASE presence = "live" -> "connected"
    [] presence = "linking" -> "connecting"
    [] presence = "faltering" -> "unstable"
    [] presence = "stale" \/ isStale -> "stale"
    [] OTHER -> IF isDiscovered THEN "ready" ELSE "saved"

\* The coordinator hands the bindings over sorted: the first one wins.
boundSlotFor(id, bindings) ==
  LET to == {p \in Pads : bindings[p] = id} IN IF to = {} THEN NoSatellite ELSE Min(to)

Ascending(S) == SetToSortSeq(S, LAMBDA a, b : a < b)

\* One row per satellite remembered or with a session, in the order of the labels.
buildConnectionSummaries(s) ==
  LET ids == Ascending({id \in Satellites : s.sessions[id] # NoSession} \cup s.remembered)
  IN [n \in 1 .. Len(ids) |->
        [id |-> ids[n], slot |-> boundSlotFor(ids[n], s.bindings), ms |-> s.sessions[ids[n]].ms,
         live |-> satelliteLinkState(s.sessions[ids[n]].presence, ids[n] \in s.stale, ids[n] \in s.found)]]

\* What is below, in one reading.
StaleIds(p) == {id \in Satellites : p[id].presence = "stale"}
Reading(p, known, seen, bindings) ==
  [sessions |-> p, stale |-> StaleIds(p), remembered |-> known, found |-> seen, bindings |-> bindings]

refreshSessions(s, p) == [s EXCEPT !.sessions = p, !.stale = StaleIds(p)]
refreshRemembered(s, known) == [s EXCEPT !.remembered = known]
refreshDiscovered(s, seen) == [s EXCEPT !.found = seen]
refreshBindings(s, bindings) == [s EXCEPT !.bindings = bindings]

\* The hub's list has no latency: the telemetry tick does not rebuild it.
hubSummaries(p, known, seen, bindings) ==
  {[id |-> r.id, slot |-> r.slot, live |-> r.live] :
     r \in Range(buildConnectionSummaries(Reading(p, known, seen, bindings)))}

-----------------------------------------------------------------------------
(* The list models.                                                        *)

\* Rows come or go at the tail, and the ones both lists have are told to have changed.
PatchedTailOnly(view, fresh) ==
  [n \in 1 .. Len(fresh) |-> IF n <= Len(view) /\ Len(view) # Len(fresh) THEN view[n] ELSE fresh[n]]
Patched(view, fresh) ==
  LET common == Min({Len(view), Len(fresh)})
  IN [n \in 1 .. common |-> fresh[n]] \o SubSeq(fresh, common + 1, Len(fresh))

rowForSlot(slot, rows) ==
  LET joined == {n \in 1 .. Len(rows) : rows[n].id = slot.bound}
  IN IF joined = {} THEN <<>> ELSE <<rows[Min(joined)].live, rows[Min(joined)].ms>>

\* A slot's own roles and the roles joined from its satellite's row.
SlotData(slots, rows) ==
  [n \in 1 .. Len(slots) |-> [slot |-> slots[n], sat |-> rowForSlot(slots[n], rows)]]

setState(h, slots) ==
  [slots |-> slots, rows |-> h.rows, view |-> Patched(h.view, SlotData(slots, h.rows))]

\* Scoped to the joined roles.
setConnectionRowsUnjoined(h, rows) ==
  [h EXCEPT !.rows = rows]
setConnectionRows(h, rows) ==
  [h EXCEPT !.rows = rows,
            !.view = [n \in 1 .. Len(h.slots) |-> [h.view[n] EXCEPT !.sat = rowForSlot(h.slots[n], rows)]]]

SlotList(pads, bindings) == [n \in 1 .. Len(pads) |-> [pad |-> pads[n], bound |-> bindings[pads[n]]]]

\* onConnectionsChanged, when the composer's rows moved.
onConnectionsChanged(s) ==
  LET rows == buildConnectionSummaries(s) IN
  /\ snapshot' = s
  /\ rowView' = IF rows # buildConnectionSummaries(snapshot) THEN Patched(rowView, rows) ELSE rowView

\* The home page after the composer's rows and, where AppModel rebuilt, the slot list.
Home(s, slots) ==
  LET rows == buildConnectionSummaries(s)
      joined == IF rows # buildConnectionSummaries(snapshot) THEN setConnectionRows(home, rows) ELSE home
  IN setState(joined, slots)

PagesInit ==
  /\ pool = [id \in Satellites |-> NoSession]
  /\ remembered \in SUBSET Satellites
  /\ found = {}
  /\ bound = [p \in Pads |-> NoSatellite]
  /\ summaries = hubSummaries(pool, remembered, found, bound)
  /\ attached = <<>>
  /\ snapshot = Reading(pool, remembered, found, bound)
  /\ rowView = buildConnectionSummaries(snapshot)
  /\ home = [slots |-> <<>>, rows |-> rowView, view |-> <<>>]
  /\ pageEvents = 0

Counted ==
  /\ pageEvents < MaxPageEvents
  /\ pageEvents' = pageEvents + 1

-----------------------------------------------------------------------------
(* What changes below, each with all its signals have done.                *)

\* A session comes to be or moves: the hub rebuilds its list and AppModel its slots, and the
\* coordinator copies the sessions and the remembered.
poolChanged(id, session) ==
  /\ Counted
  /\ pool' = [pool EXCEPT ![id] = session]
  /\ remembered' = IF session.presence = "live" THEN remembered \cup {id} ELSE remembered
  /\ summaries' = hubSummaries(pool', remembered', found, bound)
  /\ LET s == refreshRemembered(refreshSessions(snapshot, pool'), remembered')
     IN onConnectionsChanged(s) /\ home' = Home(s, SlotList(attached, bound))
  /\ UNCHANGED <<found, bound, attached>>

\* The tick of the latency readout: the sessions alone, and no rebuild.
poolTelemetryChanged(id, ms) ==
  /\ Counted
  /\ pool[id].presence \in {"live", "faltering"}
  /\ pool' = [pool EXCEPT ![id].ms = ms]
  /\ LET s == refreshSessions(snapshot, pool')
         rows == buildConnectionSummaries(s)
     IN /\ onConnectionsChanged(s)
        /\ home' = IF rows # buildConnectionSummaries(snapshot) THEN setConnectionRows(home, rows) ELSE home
  /\ UNCHANGED <<remembered, found, bound, summaries, attached>>

discoveredChanged(ids) ==
  /\ Counted
  /\ found' = ids
  /\ summaries' = hubSummaries(pool, remembered, ids, bound)
  /\ LET s == refreshRemembered(refreshDiscovered(snapshot, ids), remembered)
     IN onConnectionsChanged(s) /\ home' = Home(s, SlotList(attached, bound))
  /\ UNCHANGED <<pool, remembered, bound, attached>>

\* bind takes the satellite from the slot that had it; the hub tells both readers.
bind(p, id) ==
  /\ Counted
  /\ p \in Range(attached)
  /\ bound' = [q \in Pads |-> IF q = p THEN id ELSE IF bound[q] = id THEN NoSatellite ELSE bound[q]]
  /\ summaries' = hubSummaries(pool, remembered, found, bound')
  /\ LET s == refreshBindings(snapshot, bound')
     IN onConnectionsChanged(s) /\ home' = Home(s, SlotList(attached, bound'))
  /\ UNCHANGED <<pool, remembered, found, attached>>

\* Forgetting tells of itself only where there was a session to drop: the coordinator copies again
\* what may have been forgotten quietly.  The hub's list then keeps the satellite.
ForgottenQuietly(s, known, p) == s
Recopied(s, known, p) == refreshSessions(refreshRemembered(s, known), p)

forgetConnection(id) ==
  /\ Counted
  /\ id \in remembered \/ pool[id] # NoSession
  /\ bound' = [p \in Pads |-> IF bound[p] = id THEN NoSatellite ELSE bound[p]]
  /\ remembered' = remembered \ {id}
  /\ pool' = [pool EXCEPT ![id] = NoSession]
  /\ summaries' =
       CASE pool[id] # NoSession -> hubSummaries(pool', remembered', found, bound')
         [] pool[id] = NoSession /\ bound' # bound -> hubSummaries(pool, remembered, found, bound')
         [] OTHER -> summaries
  /\ LET told == refreshBindings(snapshot, bound')
         dropped == IF pool[id] # NoSession THEN Recopied(told, remembered', pool') ELSE told
         s == Recopied(dropped, remembered', pool')
     IN onConnectionsChanged(s) /\ home' = Home(s, SlotList(attached, bound'))
  /\ UNCHANGED <<found, attached>>

\* Pads come and go: the rows below a gone one move up, and its binding goes with it.
rebuild(pads) ==
  /\ Counted
  /\ pads # attached
  /\ attached' = pads
  /\ bound' = [p \in Pads |-> IF p \in Range(pads) THEN bound[p] ELSE NoSatellite]
  /\ summaries' = IF bound' # bound THEN hubSummaries(pool, remembered, found, bound') ELSE summaries
  /\ LET s == refreshBindings(snapshot, bound')
     IN onConnectionsChanged(s) /\ home' = Home(s, SlotList(pads, bound'))
  /\ UNCHANGED <<pool, remembered, found>>

PagesNext ==
  \/ \E id \in Satellites :
       \/ \E session \in Sessions : poolChanged(id, session)
       \/ \E ms \in {0, 1} : poolTelemetryChanged(id, ms)
       \/ forgetConnection(id)
  \/ \E ids \in SUBSET Satellites : discoveredChanged(ids)
  \/ \E p \in Pads, id \in Satellites : bind(p, id)
  \/ \E pads \in SUBSET Pads : rebuild(Ascending(pads))

PagesSpec == PagesInit /\ [][PagesNext]_pageVars

-----------------------------------------------------------------------------
(* Properties.                                                             *)

\* Both pages show what there is, and say the same of it: every row, field by field, though a view
\* re-reads only what a list model tells it has changed, the models are told only when one of their
\* sources says so, and the latency tick goes past the hub.  The hub's own list, from which the
\* header counts, agrees on every satellite that is still known.
PagesAgree ==
  /\ rowView = buildConnectionSummaries(Reading(pool, remembered, found, bound))
  /\ home.view = SlotData(SlotList(attached, bound), rowView)
  /\ hubSummaries(pool, remembered, found, bound) \subseteq summaries

-----------------------------------------------------------------------------
(* The stores.                                                             *)

CONSTANTS Sources,  \* the combiner's upstreams
          Values,
          Follows,  \* the value a subscriber of one source sets on another when it hears it
          MaxSets   \* bound

VARIABLES held,        \* Observable::value_ of each source
          output,      \* the combiner's own
          subscribers, \* of each source, in the order of their tokens
          stack,
          started,     \* Controller::started_
          applied,     \* what the controller last applied
          sets

observableVars == <<held, output, subscribers, stack, started, applied, sets>>

Nothing == [s \in {} |-> 0]

\* The transform: the values themselves tell every difference apart.
Transform(of) == of

\* The combiner and the follower subscribe in either order.
StoresInit ==
  /\ held \in [Sources -> Values]
  /\ output = Transform(held)
  /\ subscribers \in [Sources -> {<<"combiner", "follower">>, <<"follower", "combiner">>}]
  /\ stack = <<>>
  /\ started = FALSE
  /\ applied = Nothing
  /\ sets = 0

\* Equal is inert; a change is stored first and then told, with the value it had, to the subscribers there were.
Told(on, value, to) == <<[on |-> on, snapshot |-> value, to |-> to]>>

setOn(source, next, rest) ==
  IF held[source] = next
  THEN /\ stack' = rest
       /\ UNCHANGED held
  ELSE /\ held' = [held EXCEPT ![source] = next]
       /\ stack' = Told(source, next, subscribers[source]) \o rest

set(source, next) ==
  /\ stack = <<>>
  /\ sets < MaxSets
  /\ sets' = sets + 1
  /\ setOn(source, next, stack)
  /\ UNCHANGED <<output, subscribers, started, applied>>

\* Pulls every upstream as it is now, whichever change it was told of.
PulledLate(frame) == [held EXCEPT ![frame.on] = frame.snapshot]
Pulled(frame) == held

Popped == IF Len(Head(stack).to) = 1 THEN Tail(stack) ELSE [stack EXCEPT ![1].to = Tail(@)]

recompute ==
  /\ stack # <<>>
  /\ Head(stack).to[1] = "combiner"
  /\ LET now == Transform(Pulled(Head(stack))) IN
     /\ output' = now
     /\ stack' = IF now # output /\ started THEN Told("output", now, <<"controller">>) \o Popped ELSE Popped
  /\ UNCHANGED <<held, subscribers, started, applied, sets>>

\* A subscriber that answers one source's value by setting another.
Follow ==
  /\ stack # <<>>
  /\ Head(stack).to[1] = "follower"
  /\ LET heard == <<Head(stack).on, Head(stack).snapshot>> IN
     IF heard \in DOMAIN Follows THEN setOn(Follows[heard][1], Follows[heard][2], Popped)
     ELSE stack' = Popped /\ UNCHANGED held
  /\ UNCHANGED <<output, subscribers, started, applied, sets>>

\* The controller takes the snapshot it is passed.
apply ==
  /\ stack # <<>>
  /\ Head(stack).to[1] = "controller"
  /\ applied' = Head(stack).snapshot
  /\ stack' = Popped
  /\ UNCHANGED <<held, output, subscribers, started, sets>>

\* start subscribes and is told the current value at once; stop ends it.
start ==
  /\ stack = <<>>
  /\ ~started
  /\ started' = TRUE
  /\ stack' = Told("output", output, <<"controller">>)
  /\ UNCHANGED <<held, output, subscribers, applied, sets>>

stop ==
  /\ stack = <<>>
  /\ started
  /\ started' = FALSE
  /\ UNCHANGED <<held, output, subscribers, stack, applied, sets>>

StoresNext ==
  \/ \E source \in Sources, next \in Values : set(source, next)
  \/ recompute \/ Follow \/ apply \/ start \/ stop

StoresSpec == StoresInit /\ [][StoresNext]_observableVars /\ WF_observableVars(recompute \/ Follow \/ apply)

-----------------------------------------------------------------------------
(* Properties.                                                             *)

\* Once a set has returned, the derived value is that of the sources as they are, and a started
\* controller has applied it: also when a callback set again inside the notification, so that the
\* outer call goes on telling an older value after the newer one was told.
DerivedAgrees ==
  stack = <<>> => output = Transform(held) /\ (started => applied = output)
===============================================================================
