------------------------------- MODULE Catalog -------------------------------
(***************************************************************************)
(* The controller types a satellite can emulate: the client's cache of     *)
(* each satellite's catalogue under its ETag, the picker's request and the *)
(* background one made when a link comes up.                               *)
(*                                                                         *)
(* A request keeps the copy that was cached when it was made.  A satellite *)
(* answers by the release it runs at that moment; answers arrive in any    *)
(* order, or not at all.                                                   *)
(***************************************************************************)
EXTENDS Capabilities

CONSTANTS Satellites,
          MaxFetches,  \* bound: requests
          MaxCatalogEvents \* bound: upgrades of a satellite and changes of a link

VARIABLES runs,     \* the release each satellite runs
          linkOf,   \* each satellite's connection: gone, idle or live
          warmed,   \* prewarmedCatalogs_
          cache,    \* cache_: the ETag and the catalogue of each satellite
          fetches,  \* the requests in flight
          catalogState, \* the picker's asynchronous value
          snapshot, \* catalogSnapshot_: the last catalogue received
          shown,    \* history: the release that the picker's value was answered from
          asks,     \* history: background requests since a pass saw the link down
          fetched, catalogEvents

catalogVars == <<runs, linkOf, warmed, cache, fetches, catalogState, snapshot, shown, asks, fetched, catalogEvents>>

-----------------------------------------------------------------------------
(* The asynchronous value: `data` outlives a refresh and a failure.        *)

asyncIdle == [phase |-> "Idle", data |-> NoCatalog, error |-> "none", stale |-> FALSE]
toLoading(prev) == [phase |-> "Loading", data |-> prev.data, error |-> "none", stale |-> prev.data # NoCatalog]
toSuccess(c) == [phase |-> "Success", data |-> c, error |-> "none", stale |-> FALSE]
toRevalidated(prev) == [phase |-> "Success", data |-> prev.data, error |-> "none", stale |-> TRUE]
toError(prev, reason) == [phase |-> "Error", data |-> prev.data, error |-> reason, stale |-> prev.data # NoCatalog]

Init ==
  /\ runs = [s \in Satellites |-> 1]
  /\ linkOf = [s \in Satellites |-> "idle"]
  /\ warmed = {}
  /\ cache = [s \in Satellites |-> NoCatalog]
  /\ fetches = {}
  /\ catalogState = asyncIdle
  /\ snapshot = NoCatalog
  /\ shown = NoCatalog
  /\ asks = [s \in Satellites |-> 0]
  /\ fetched = 0
  /\ catalogEvents = 0

-----------------------------------------------------------------------------
(* Requests.                                                               *)

NotAnswered == [status |-> 0, body |-> NoCatalog]

\* catalogFor: the request keeps the cached copy as its baseline.
Request(n, s, picker) ==
  [n |-> n, satellite |-> s, picker |-> picker, baseline |-> cache[s], from |-> 0, reply |-> NotAnswered]

refreshCatalogForConnection(s) ==
  /\ linkOf[s] # "gone"
  /\ fetched < MaxFetches
  /\ fetched' = fetched + 1
  /\ catalogState' = toLoading(catalogState)
  /\ shown' = shown
  /\ fetches' = fetches \cup {Request(fetched', s, TRUE)}
  /\ UNCHANGED <<runs, linkOf, warmed, cache, snapshot, asks, catalogEvents>>

Live == {s \in Satellites : linkOf[s] = "live"}
ReArmed == warmed \cap Live
NeverReArmed == warmed
StillWarm == ReArmed
catalogPrewarmTargets == Live \ StillWarm

\* One pass of rebuild: every satellite whose link came up since a pass last saw it down is asked.
prewarmCatalogs ==
  /\ fetched + Cardinality(catalogPrewarmTargets) <= MaxFetches
  /\ warmed' = StillWarm \cup Live
  /\ fetched' = fetched + Cardinality(catalogPrewarmTargets)
  /\ fetches' = fetches \cup {Request(fetched + Cardinality({t \in catalogPrewarmTargets : t <= s}), s, FALSE)
                              : s \in catalogPrewarmTargets}
  /\ asks' = [s \in Satellites |-> IF s \notin Live THEN 0
                                   ELSE IF s \in catalogPrewarmTargets THEN asks[s] + 1 ELSE asks[s]]
  /\ UNCHANGED <<runs, linkOf, cache, catalogState, snapshot, shown, catalogEvents>>

\* The satellite answers by the release it runs.
Answer(f) ==
  /\ f.from = 0
  /\ LET body == Body(runs[f.satellite])
         reply == IF f.baseline.etag = body.etag THEN [NotAnswered EXCEPT !.status = 304]
                  ELSE [status |-> 200, body |-> body]
     IN fetches' = (fetches \ {f}) \cup {[f EXCEPT !.from = runs[f.satellite], !.reply = reply]}
  /\ UNCHANGED <<runs, linkOf, warmed, cache, catalogState, snapshot, shown, asks, fetched, catalogEvents>>

isValidFill(reply) == reply.status = 200 /\ reply.body # NoCatalog
classifyCatalogError(reply) ==
  CASE reply.status = 0 -> "Unreachable"
    [] reply.status \notin {0, 200} -> "ServerError"
    [] OTHER -> "Malformed"

\* A re-validated copy is the one the request was conditional on.
Baseline(f) == f.baseline
CachedNow(f) == cache[f.satellite]
Revalidated(f) == Baseline(f)

Outcome(f, reply) ==
  LET prev == IF f.baseline = NoCatalog THEN asyncIdle ELSE toSuccess(Revalidated(f)) IN
    CASE reply.status = 304 ->
           IF f.baseline # NoCatalog THEN toRevalidated(prev) ELSE toError(prev, "ServerError")
      [] reply.status # 304 /\ ~isValidFill(reply) -> toError(prev, classifyCatalogError(reply))
      [] OTHER -> toSuccess(normalizeCatalog(reply.body))

\* The reply's closure; a background request leaves the picker's value alone.
Closure(f, reply) ==
  LET state == Outcome(f, reply) IN
  /\ fetches' = fetches \ {f}
  /\ cache' = IF isValidFill(reply) THEN [cache EXCEPT ![f.satellite] = normalizeCatalog(reply.body)] ELSE cache
  /\ catalogState' = IF f.picker THEN state ELSE catalogState
  /\ shown' = IF f.picker /\ state.phase = "Success" THEN normalizeCatalog(Body(f.from)) ELSE shown
  /\ snapshot' = IF state.data # NoCatalog THEN state.data ELSE snapshot
  /\ UNCHANGED <<runs, linkOf, warmed, asks, fetched, catalogEvents>>

Deliver(f) == f.from # 0 /\ Closure(f, f.reply)

\* The exchange fails: no answer, an error of the server, or a body that is no catalogue.
Fail(f) == f.from = 0 /\ \E status \in {0, 500, 200} : Closure(f, [NotAnswered EXCEPT !.status = status])

-----------------------------------------------------------------------------
(* The satellites.                                                         *)

Counted ==
  /\ catalogEvents < MaxCatalogEvents
  /\ catalogEvents' = catalogEvents + 1

Upgrade(s) ==
  /\ Counted
  /\ \E r \in Releases \ {runs[s]} : runs' = [runs EXCEPT ![s] = r]
  /\ UNCHANGED <<linkOf, warmed, cache, fetches, catalogState, snapshot, shown, asks, fetched>>

LinkChanges(s) ==
  /\ Counted
  /\ \E l \in {"gone", "idle", "live"} \ {linkOf[s]} : linkOf' = [linkOf EXCEPT ![s] = l]
  /\ UNCHANGED <<runs, warmed, cache, fetches, catalogState, snapshot, shown, asks, fetched>>

Next ==
  \/ prewarmCatalogs
  \/ \E s \in Satellites : refreshCatalogForConnection(s) \/ Upgrade(s) \/ LinkChanges(s)
  \/ \E f \in fetches : Answer(f) \/ Deliver(f) \/ Fail(f)

Spec == Init /\ [][Next]_catalogVars

-----------------------------------------------------------------------------
(* Properties.                                                             *)

\* A satellite's cached catalogue is, whole and in one schema, what one of its releases answered under that ETag, however
\* the replies were reordered (SatelliteCatalogRepository.cpp: normalised before it is cached, under the server's ETag);
\* what the picker calls a success is the catalogue of the release that answered it, so a 304 that a newer answer
\* overtook re-serves its own baseline; and a satellite is asked once in each stretch of its link being live that a pass
\* saw (CatalogPrewarm.h), whatever came between the passes.
CatalogueIsTrue ==
  /\ \A s \in Satellites : cache[s] # NoCatalog => cache[s] = normalizeCatalog(Body(cache[s].etag))
  /\ catalogState.phase = "Success" => catalogState.data = shown
  /\ \A s \in Satellites : asks[s] = IF s \in warmed THEN 1 ELSE 0
==============================================================================
