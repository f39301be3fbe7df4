----------------------------- MODULE LockStats -----------------------------
(***************************************************************************)
(* The lock tracker of an instrumented build: names interned into a table  *)
(* of fixed size, the locks each thread holds, and the two lock-free       *)
(* tables of pairs, which lock was asked for under which and which region  *)
(* blocked under which.  The threads lock in any order: the tracker has to *)
(* be right about programs that are wrong.  Waiting times and histograms   *)
(* are left out.                                                           *)
(***************************************************************************)
EXTENDS Naturals, Sequences, SequencesExt, FiniteSets

CONSTANTS Threads, Mutexes, NameOf,
          kMaxLocks, kMaxHeld, kPairSlots,
          MaxCalls  \* bound

VARIABLES names,     \* registry.locks: the interned names
          naming,    \* registry.naming: the thread interning, or none
          edges, blocking, \* PairTable: of each slot its key and count
          overflows,
          cache,     \* TrackedMutex::id_
          owner,     \* the mutexes themselves
          heldBy,    \* ThreadState::held
          at,        \* where each thread is
          counted,   \* history: how often each pair was to be counted
          calls

lockVars == <<names, naming, edges, blocking, overflows, cache, owner, heldBy, at, counted, calls>>

kNoId == 0
NoKey == <<0, 0>>
Nobody == "nobody"
Slots == 0 .. kPairSlots - 1
Keys == (1 .. kMaxLocks + 1) \X (1 .. kMaxLocks)
Idle == [pc |-> "idle", mutex |-> Nobody, id |-> kNoId, todo |-> <<>>, slot |-> 0, tried |-> 0, seen |-> NoKey]

Init ==
  /\ names = <<>>
  /\ naming = Nobody
  /\ edges = [s \in Slots |-> [key |-> NoKey, count |-> 0]]
  /\ blocking = edges
  /\ overflows = 0
  /\ cache = [m \in Mutexes |-> kNoId]
  /\ owner = [m \in Mutexes |-> Nobody]
  /\ heldBy = [t \in Threads |-> <<>>]
  /\ at = [t \in Threads |-> Idle]
  /\ counted = [k \in Keys \X {"edges", "blocking"} |-> 0]
  /\ calls = 0

\* The region's own table of names is taken as filled: its one name has this id.
RegionId == kMaxLocks + 1

\* What countPair has still to count, with the slot its first key hashes to.
Home(key) == (key[1] + 2 * key[2]) % kPairSlots
Counting(t, todo, then) ==
  [at[t] EXCEPT !.pc = IF todo = <<>> THEN then ELSE "load", !.todo = todo, !.tried = 0, !.seen = NoKey,
                !.slot = IF todo = <<>> THEN 0 ELSE Home(todo[1].key)]

PairsUnder(t, first, table) ==
  LET known == SelectSeq(heldBy[t], LAMBDA id : id # kNoId)
  IN [i \in 1 .. Len(known) |-> [table |-> table, key |-> IF table = "edges" THEN <<known[i], first>> ELSE <<first, known[i]>>]]

Ask(t) ==
  /\ at[t].pc = "idle"
  /\ calls < MaxCalls
  /\ calls' = calls + 1

-----------------------------------------------------------------------------
(* TrackedMutex::lock.                                                     *)

\* The cached id, or the published names; else the thread queues for the naming guard.
lockId(t, m) ==
  /\ Ask(t)
  /\ owner[m] # t
  /\ LET known == SelectInSeq(names, LAMBDA n : n = NameOf[m])
         id == IF cache[m] # kNoId THEN cache[m] ELSE known
     IN /\ cache' = [cache EXCEPT ![m] = id]
        /\ at' = [at EXCEPT ![t] = [Idle EXCEPT !.mutex = m, !.id = id, !.pc = IF id = kNoId THEN "name" ELSE "named"]]
  /\ UNCHANGED <<names, naming, edges, blocking, overflows, owner, heldBy, counted>>

\* Another thread may have published the name while this one waited for the guard.
RacedNever(name) == 0
Raced(name) == SelectInSeq(names, LAMBDA n : n = name)

NameGuard(t) ==
  /\ at[t].pc = "name"
  /\ naming = Nobody
  /\ naming' = t
  /\ at' = [at EXCEPT ![t].pc = "naming"]
  /\ UNCHANGED <<names, edges, blocking, overflows, cache, owner, heldBy, counted, calls>>

internName(t) ==
  /\ at[t].pc = "naming"
  /\ naming' = Nobody
  /\ LET name == NameOf[at[t].mutex]
         full == Raced(name) = 0 /\ Len(names) >= kMaxLocks
         id == IF Raced(name) # 0 THEN Raced(name) ELSE IF full THEN kNoId ELSE Len(names) + 1
     IN /\ names' = IF Raced(name) = 0 /\ ~full THEN Append(names, name) ELSE names
        /\ overflows' = IF full THEN overflows + 1 ELSE overflows
        /\ cache' = [cache EXCEPT ![at[t].mutex] = id]
        /\ at' = [at EXCEPT ![t].id = id, ![t].pc = "named"]
  /\ UNCHANGED <<edges, blocking, owner, heldBy, counted, calls>>

\* The edges are put on record before the thread may block on the mutex.
NotedAfterwards(t) == <<>>
Noted(t) == IF at[t].id = kNoId THEN <<>> ELSE PairsUnder(t, at[t].id, "edges")

noteBlockingAttempt(t) ==
  /\ at[t].pc = "named"
  /\ at' = [at EXCEPT ![t] = Counting(t, Noted(t), "wait")]
  /\ UNCHANGED <<names, naming, edges, blocking, overflows, cache, owner, heldBy, counted, calls>>

-----------------------------------------------------------------------------
(* countPair: linear probing over slots claimed by compare-and-swap.       *)

TableOf(pair) == IF pair.table = "edges" THEN edges ELSE blocking
Stored(pair, table) ==
  IF pair.table = "edges" THEN edges' = table /\ UNCHANGED blocking ELSE blocking' = table /\ UNCHANGED edges

LoadSlot(t) ==
  /\ at[t].pc = "load"
  /\ LET pair == Head(at[t].todo) IN
     at' = [at EXCEPT ![t].seen = TableOf(pair)[at[t].slot].key,
                      ![t].pc = IF TableOf(pair)[at[t].slot].key = NoKey THEN "claim" ELSE "compare"]
  /\ UNCHANGED <<names, naming, edges, blocking, overflows, cache, owner, heldBy, counted, calls>>

StoresOver(now, key) == TRUE
Swaps(now, key) == now = NoKey

ClaimSlot(t) ==
  /\ at[t].pc = "claim"
  /\ LET pair == Head(at[t].todo)
         now == TableOf(pair)[at[t].slot].key
     IN /\ at' = [at EXCEPT ![t].pc = "compare", ![t].seen = IF Swaps(now, pair.key) THEN pair.key ELSE now]
        /\ Stored(pair, IF Swaps(now, pair.key) THEN [TableOf(pair) EXCEPT ![at[t].slot].key = pair.key] ELSE TableOf(pair))
  /\ UNCHANGED <<names, naming, overflows, cache, owner, heldBy, counted, calls>>

\* The pair's slot is bumped; another's is passed by, and a table seen to its end has overflowed.
CompareSlot(t) ==
  /\ at[t].pc = "compare"
  /\ LET pair == Head(at[t].todo)
         then == IF at[t].mutex = Nobody THEN "idle" ELSE "wait"
         mine == at[t].seen = pair.key
         last == at[t].tried + 1 = kPairSlots
         next == Counting(t, Tail(at[t].todo), then)
     IN /\ IF mine
           THEN /\ Stored(pair, [TableOf(pair) EXCEPT ![at[t].slot].count = @ + 1])
                /\ counted' = [counted EXCEPT ![<<pair.key, pair.table>>] = @ + 1]
           ELSE UNCHANGED <<edges, blocking, counted>>
        /\ overflows' = IF ~mine /\ last THEN overflows + 1 ELSE overflows
        /\ at' = [at EXCEPT ![t] = IF ~mine /\ ~last
                                   THEN [@ EXCEPT !.pc = "load", !.tried = @ + 1, !.slot = (@ + 1) % kPairSlots]
                                   ELSE IF next.pc = "idle" THEN Idle ELSE next]
  /\ UNCHANGED <<names, naming, cache, owner, heldBy, calls>>

-----------------------------------------------------------------------------

Entered(t, id) ==
  IF id = kNoId THEN UNCHANGED <<heldBy, overflows>>
  ELSE IF Len(heldBy[t]) >= kMaxHeld THEN overflows' = overflows + 1 /\ UNCHANGED heldBy
  ELSE heldBy' = [heldBy EXCEPT ![t] = Append(@, id)] /\ UNCHANGED overflows

noteAcquired(t) ==
  /\ at[t].pc = "wait"
  /\ owner[at[t].mutex] = Nobody
  /\ owner' = [owner EXCEPT ![at[t].mutex] = t]
  /\ Entered(t, at[t].id)
  /\ at' = [at EXCEPT ![t] = Idle]
  /\ UNCHANGED <<names, naming, edges, blocking, cache, counted, calls>>

\* No edge for what does not block; a mutex not named yet is named as in lock.
try_lock(t, m) ==
  /\ Ask(t)
  /\ owner[m] = Nobody
  /\ cache[m] # kNoId
  /\ owner' = [owner EXCEPT ![m] = t]
  /\ Entered(t, cache[m])
  /\ UNCHANGED <<names, naming, edges, blocking, cache, at, counted>>

\* The newest entry of the id goes, wherever it is in the stack.
Dropped(ids, id) ==
  LET i == SelectLastInSeq(ids, LAMBDA x : x = id) IN IF i = 0 THEN ids ELSE RemoveAt(ids, i)

noteReleased(t, m) ==
  /\ at[t].pc = "idle"
  /\ owner[m] = t
  /\ heldBy' = [heldBy EXCEPT ![t] = IF cache[m] = kNoId THEN @ ELSE Dropped(@, cache[m])]
  /\ owner' = [owner EXCEPT ![m] = Nobody]
  /\ UNCHANGED <<names, naming, edges, blocking, overflows, cache, at, counted, calls>>

blockingRegion(t) ==
  /\ Ask(t)
  /\ heldBy[t] # <<>>
  /\ at' = [at EXCEPT ![t] = Counting(t, PairsUnder(t, RegionId, "blocking"), "idle")]
  /\ UNCHANGED <<names, naming, edges, blocking, overflows, cache, owner, heldBy, counted>>

\* What a snapshot shows of a table: a slot claimed and not yet bumped is passed over.
readPairs(table) == {table[s].key : s \in {s \in Slots : table[s].key # NoKey /\ table[s].count > 0}}

Next ==
  \E t \in Threads :
    \/ \E m \in Mutexes : lockId(t, m) \/ try_lock(t, m) \/ noteReleased(t, m)
    \/ NameGuard(t) \/ internName(t) \/ noteBlockingAttempt(t)
    \/ LoadSlot(t) \/ ClaimSlot(t) \/ CompareSlot(t) \/ noteAcquired(t) \/ blockingRegion(t)

Spec == Init /\ [][Next]_lockVars

-----------------------------------------------------------------------------
(* Properties.                                                             *)

\* Unless the tracker says it overflowed, a thread that waits for a mutex is on record with every
\* lock it holds: the snapshot of a program that hangs, or nearly did, names the locks of the cycle.
WaitsAreOnRecord ==
  overflows = 0 =>
    \A t \in Threads, m \in Mutexes : at[t].pc = "wait" /\ owner[m] = t =>
      \E pair \in readPairs(edges) : names[pair[1]] = NameOf[m] /\ names[pair[2]] = NameOf[at[t].mutex]

\* Threads that probe the tables at once keep them exact: a pair has one slot, whose count is the
\* number of times it was counted, and a name has one id.
TablesAreExact ==
  /\ \A i, j \in 1 .. Len(names) : names[i] = names[j] => i = j
  /\ \A k \in Keys, kind \in {"edges", "blocking"} :
       LET table == IF kind = "edges" THEN edges ELSE blocking
           slots == {s \in Slots : table[s].key = k}
       IN /\ Cardinality(slots) <= 1
          /\ counted[<<k, kind>>] > 0 => \E s \in slots : table[s].count = counted[<<k, kind>>]

=============================================================================
