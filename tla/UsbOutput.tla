------------------------------ MODULE UsbOutput ------------------------------
(***************************************************************************)
(* One claimed pad's feedback: producers (a session's receive thread, the  *)
(* GUI's own actuation) post the newest value of a kind to the mailbox,    *)
(* the claim's worker takes what is pending and writes it to the pad, and  *)
(* the GUI stops the worker before it closes the handle.  Every access to  *)
(* a shared word is a step; the x64 build's locked instructions make the   *)
(* accesses this relies on sequentially consistent.                        *)
(*                                                                         *)
(* A value is the number of its post.  It fills two words, so a copy that  *)
(* races a store can be torn.                                              *)
(***************************************************************************)
EXTENDS Integers

CONSTANTS Producers, outputKinds, NoProducer,
          MaxPosts            \* bound: posts in a run

ASSUME OutputAssumption == NoProducer \notin Producers /\ outputKinds # {}

VARIABLES writer,             \* writer_: the producer whose turn it is
          gen,                \* seq_: odd while a post is stored
          state,              \* state_: per kind its two words
          pending,            \* pending_
          sleeping, wake,     \* WorkerWake's flag and semaphore
          stopping,           \* stopping_
          handle,             \* the claim's handle is open
          place, outputKind, next,  \* per producer: where, what it posts, the state it prepared
          at, kinds, before, taken,  \* the worker: where, Taken, the generation it read
          stop,               \* the GUI in releaseClaimAndWorker
          posts,              \* posts begun
          landed,             \* per kind, the last post whose pending bit was set
          shown               \* per kind, the words last written to the pad

mailbox == << writer, gen, state, pending >>
waking == << sleeping, wake >>
producing == << place, outputKind, next, posts, landed >>
working == << at, kinds, before, taken, shown >>
outputVars == << mailbox, waking, stopping, handle, producing, working, stop >>

Word == 0..MaxPosts
Blank == [k \in outputKinds |-> << 0, 0 >>]
NoKind == CHOOSE k \in outputKinds : TRUE

OutputInit ==
    /\ writer = NoProducer /\ gen = 0 /\ state = Blank /\ pending = {}
    /\ sleeping = FALSE /\ wake = 0
    /\ stopping = FALSE /\ handle = TRUE
    /\ place = [p \in Producers |-> "idle"]
    /\ outputKind = [p \in Producers |-> NoKind]
    /\ next = [p \in Producers |-> Blank]
    /\ at = "check" /\ kinds = {} /\ before = 0 /\ taken = Blank
    /\ stop = "claimed"
    /\ posts = 0
    /\ landed = [k \in outputKinds |-> 0]
    /\ shown = Blank

-----------------------------------------------------------------------------
(* Producers.  A route table keeps the worker past its stop, so they post  *)
(* to a stopped worker too.                                                *)

Go(p, from, to) == place[p] = from /\ place' = [place EXCEPT ![p] = to]

(* writer_ is free: take it, and prepare the state with the edit. *)
takeTurn(p) ==
    /\ posts < MaxPosts
    /\ Go(p, "idle", "begin")
    /\ writer = NoProducer /\ writer' = p
    /\ posts' = posts + 1
    /\ \E k \in outputKinds :
          /\ outputKind' = [outputKind EXCEPT ![p] = k]
          /\ next' = [next EXCEPT ![p] = [state EXCEPT ![k] = << posts', posts' >>]]
    /\ UNCHANGED << gen, state, pending, waking, stopping, handle, landed, working, stop >>

beginWrite(p) ==
    /\ Go(p, "begin", "first")
    /\ gen' = gen + 1
    /\ UNCHANGED << writer, state, pending, waking, stopping, handle, outputKind, next, posts, landed,
                    working, stop >>

store(p, w, from, to) ==
    /\ Go(p, from, to)
    /\ state' = [k \in outputKinds |-> [state[k] EXCEPT ![w] = next[p][k][w]]]
    /\ UNCHANGED << writer, gen, pending, waking, stopping, handle, outputKind, next, posts, landed,
                    working, stop >>

endWrite(p) ==
    /\ Go(p, "end", "pend")
    /\ gen' = gen + 1
    /\ UNCHANGED << writer, state, pending, waking, stopping, handle, outputKind, next, posts, landed,
                    working, stop >>

setPending(p) ==
    /\ Go(p, "pend", "free")
    /\ pending' = pending \cup {outputKind[p]}
    /\ landed' = [landed EXCEPT ![outputKind[p]] = next[p][outputKind[p]][1]]
    /\ UNCHANGED << writer, gen, state, waking, stopping, handle, outputKind, next, posts, working, stop >>

giveTurn(p) ==
    /\ Go(p, "free", "look")
    /\ writer' = NoProducer
    /\ outputKind' = [outputKind EXCEPT ![p] = NoKind]
    /\ next' = [next EXCEPT ![p] = Blank]
    /\ UNCHANGED << gen, state, pending, waking, stopping, handle, posts, landed, working, stop >>

post(p) == \/ takeTurn(p) \/ beginWrite(p)
           \/ store(p, 1, "first", "second") \/ store(p, 2, "second", "end")
           \/ endWrite(p) \/ setPending(p) \/ giveTurn(p)

(* notify: look, then swap, then release, each only if the one before says. *)
notify(p) ==
    /\ \/ Go(p, "look", IF sleeping THEN "swap" ELSE "idle") /\ UNCHANGED waking
       \/ Go(p, "swap", IF sleeping THEN "release" ELSE "idle") /\ sleeping' = FALSE /\ UNCHANGED wake
       \/ Go(p, "release", "idle") /\ wake' = wake + 1 /\ UNCHANGED sleeping
    /\ UNCHANGED << mailbox, stopping, handle, outputKind, next, posts, landed, working, stop >>

-----------------------------------------------------------------------------
(* The worker. *)

Turn(from, to) == at = from /\ at' = to

(* Mutant: the loop ends when there is nothing to do. *)
runningWhilePending ==
    /\ Turn("check", IF stopping \/ pending = {} THEN "ended" ELSE "announce")
    /\ UNCHANGED << mailbox, waking, stopping, handle, producing, kinds, before, taken, shown, stop >>

running ==
    /\ Turn("check", IF stopping THEN "ended" ELSE "announce")
    /\ UNCHANGED << mailbox, waking, stopping, handle, producing, kinds, before, taken, shown, stop >>

announce ==
    /\ Turn("announce", "lookStop")
    /\ sleeping' = TRUE
    /\ UNCHANGED << mailbox, wake, stopping, handle, producing, kinds, before, taken, shown, stop >>

(* Mutant: only the mailbox is looked at. *)
hasWorkPendingOnly ==
    /\ \/ Turn("lookStop", "lookPending")
       \/ Turn("lookPending", IF pending # {} THEN "awake" ELSE "asleep")
    /\ UNCHANGED << mailbox, waking, stopping, handle, producing, kinds, before, taken, shown, stop >>

hasWork ==
    /\ \/ Turn("lookStop", IF stopping THEN "awake" ELSE "lookPending")
       \/ Turn("lookPending", IF pending # {} THEN "awake" ELSE "asleep")
    /\ UNCHANGED << mailbox, waking, stopping, handle, producing, kinds, before, taken, shown, stop >>

(* Mutant: the count is taken without waiting for it. *)
acquireAnyway ==
    /\ Turn("asleep", "awake")
    /\ wake' = wake - 1
    /\ UNCHANGED << mailbox, sleeping, stopping, handle, producing, kinds, before, taken, shown, stop >>

acquire ==
    /\ Turn("asleep", "awake")
    /\ wake > 0 /\ wake' = wake - 1
    /\ UNCHANGED << mailbox, sleeping, stopping, handle, producing, kinds, before, taken, shown, stop >>

awake ==
    /\ Turn("awake", "take")
    /\ sleeping' = FALSE
    /\ UNCHANGED << mailbox, wake, stopping, handle, producing, kinds, before, taken, shown, stop >>

take ==
    /\ Turn("take", IF pending = {} THEN "check" ELSE "generation")
    /\ kinds' = pending
    /\ pending' = {}
    /\ UNCHANGED << writer, gen, state, waking, stopping, handle, producing, before, taken, shown, stop >>

(* Mutant: an even generation is taken for an open write. *)
readGenerationInverted ==
    /\ Turn("generation", IF gen % 2 = 0 THEN "repend" ELSE "copyFirst")
    /\ before' = gen
    /\ UNCHANGED << mailbox, waking, stopping, handle, producing, kinds, taken, shown, stop >>

readGeneration ==
    /\ Turn("generation", IF gen % 2 = 1 THEN "repend" ELSE "copyFirst")
    /\ before' = gen
    /\ UNCHANGED << mailbox, waking, stopping, handle, producing, kinds, taken, shown, stop >>

copy(w, from, to) ==
    /\ Turn(from, to)
    /\ taken' = [k \in outputKinds |-> [taken[k] EXCEPT ![w] = state[k][w]]]
    /\ UNCHANGED << mailbox, waking, stopping, handle, producing, kinds, before, shown, stop >>

validate ==
    /\ Turn("validate", IF gen = before THEN "write" ELSE "repend")
    /\ UNCHANGED << mailbox, waking, stopping, handle, producing, kinds, before, taken, shown, stop >>

repend ==
    /\ Turn("repend", "check")
    /\ pending' = pending \cup kinds
    /\ kinds' = {} /\ before' = 0 /\ taken' = Blank
    /\ UNCHANGED << writer, gen, state, waking, stopping, handle, producing, shown, stop >>

(* One kind's report, taken by the pad or given up at the timeout. *)
writeTaken ==
    /\ at = "write"
    /\ \E k \in kinds :
          /\ kinds' = kinds \ {k}
          /\ shown' = [shown EXCEPT ![k] = taken[k]]
    /\ IF kinds' # {} THEN UNCHANGED << at, before, taken >>
                      ELSE at' = "check" /\ before' = 0 /\ taken' = Blank
    /\ UNCHANGED << mailbox, waking, stopping, handle, producing, stop >>

worker ==
    \/ running \/ announce \/ hasWork \/ acquire \/ awake
    \/ take \/ readGeneration \/ copy(1, "copyFirst", "copySecond") \/ copy(2, "copySecond", "validate")
    \/ validate \/ repend \/ writeTaken

-----------------------------------------------------------------------------
(* The GUI releases the claim. *)

Stop(from, to) == stop = from /\ stop' = to

(* Mutant: the worker is asked to stop, and not waited for. *)
joinNever ==
    /\ Stop("join", "close")
    /\ UNCHANGED << mailbox, waking, stopping, handle, producing, working >>

join ==
    /\ Stop("join", "close")
    /\ at = "ended"
    /\ UNCHANGED << mailbox, waking, stopping, handle, producing, working >>

release ==
    \/ /\ Stop("claimed", "look")
       /\ stopping' = TRUE
       /\ UNCHANGED << mailbox, waking, handle, producing, working >>
    \/ /\ \/ Stop("look", IF sleeping THEN "swap" ELSE "join") /\ UNCHANGED waking
          \/ Stop("swap", IF sleeping THEN "release" ELSE "join") /\ sleeping' = FALSE /\ UNCHANGED wake
          \/ Stop("release", "join") /\ wake' = wake + 1 /\ UNCHANGED sleeping
       /\ UNCHANGED << mailbox, stopping, handle, producing, working >>
    \/ join
    \/ /\ Stop("close", "closed")
       /\ handle' = FALSE
       /\ UNCHANGED << mailbox, waking, stopping, producing, working >>

-----------------------------------------------------------------------------
OutputNext == worker \/ release \/ \E p \in Producers : post(p) \/ notify(p)

OutputSpec == OutputInit /\ [][OutputNext]_outputVars

-----------------------------------------------------------------------------
(* What is written to the pad is one post's value, whole, through a handle *)
(* that is open (releaseClaimAndWorker stops the worker before the claim   *)
(* is released), and for no kind does an older value follow a newer one    *)
(* (OutputMailbox: a burst "collapses to its last value").                 *)
WritesTheNewest ==
    \A k \in outputKinds :
        /\ shown'[k][1] = shown'[k][2] /\ shown'[k][1] >= shown[k][1]
        /\ shown'[k] # shown[k] => handle

NewestWins == [][WritesTheNewest]_outputVars

(* A worker that sleeps with a value pending, or with its stop asked for,  *)
(* is going to be woken: its semaphore has been released, or a thread is   *)
(* about to release it, or its flag still says that it sleeps and a thread *)
(* has yet to look at that flag (WorkerWake::notify and sleepUnless, which *)
(* hold no lock).                                                          *)
NoWakeIsLost ==
    at = "asleep" /\ (pending # {} \/ stopping) =>
        \/ wake > 0
        \/ stop = "release" \/ \E p \in Producers : place[p] = "release"
        \/ sleeping /\ (stop \in {"look", "swap"} \/ \E p \in Producers : place[p] \in {"free", "look", "swap"})

(* Every post has been written or superseded, or the claim is released:    *)
(* no release is under way.                                                *)
Drained == IF stopping THEN ~handle ELSE \A k \in outputKinds : landed[k] <= shown[k][1]
=============================================================================
