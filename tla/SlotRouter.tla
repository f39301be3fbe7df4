------------------------------ MODULE SlotRouter ------------------------------
(***************************************************************************)
(* Publication of the route table (SlotRouter) under grace epochs          *)
(* (core/thread/GraceEpoch.h).  The hot threads (a device's input thread,  *)
(* a session's receive thread, a microphone's capture thread) read the     *)
(* published table inside a bracket on a participant of their own; the GUI *)
(* thread publishes a fresh table, waits until every bracket that may have *)
(* seen the old one has closed, and frees it.                              *)
(*                                                                         *)
(* The participants are numbered as the waits visit them: those of grace_  *)
(* (1 .. Routes: devices, then sessions), which read table_, then those of *)
(* the microphones (up to Routes + Mics), which read mics_->table and      *)
(* outlive the router.  Tables are numbered in publication order, 0 is the *)
(* null pointer.                                                           *)
(*                                                                         *)
(* An epoch is told apart by its parity, and, while the writer waits on    *)
(* it, by whether it has moved since the writer's load: 64 bits do not     *)
(* come round again.  Memory is sequentially consistent, as the two full   *)
(* fences make the bracket's store-then-load and the writer's.             *)
(***************************************************************************)
EXTENDS Naturals

CONSTANTS Routes,     \* how many participants read table_
          Mics,       \* how many read mics_->table
          MaxTables   \* bound: tables published

ASSUME RouterAssumption == Routes \in Nat /\ Mics \in Nat /\ MaxTables \in Nat

Participants == 1 .. Routes + Mics

VARIABLES table,      \* table_
          micTable,   \* mics_->table
          published,  \* published_, the table the router owns
          retired,    \* the table republish took out
          freed,      \* the tables destroyed
          odd,        \* odd[p]: the epoch of p is odd, a bracket is open
          place,      \* place[p]: where p's thread is in its bracket
          hand,       \* hand[p]: the table pointer p's thread loaded
          gui,        \* where the GUI thread is in republish or the destructor
          dying,      \* the destructor is running, or has run
          cursor,     \* the participant waitQuiescent is at
          moved       \* the epoch the writer waits on differs from the one it saw

tableVars == <<table, micTable, published, retired, freed>>
readerVars == <<place, hand>>
waitVars == <<cursor, moved>>
vars == <<tableVars, odd, readerVars, gui, dying, waitVars>>

Waiting == {"look", "spin"}

Init ==
  /\ table = 0 /\ micTable = 0
  /\ published = 0 /\ retired = 0
  /\ freed = {}
  /\ odd = [p \in Participants |-> FALSE]
  /\ place = [p \in Participants |-> "out"]
  /\ hand = [p \in Participants |-> 0]
  /\ gui = "idle"
  /\ dying = FALSE
  /\ cursor = 1
  /\ moved = FALSE

Pointer(p) == IF p <= Routes THEN table ELSE micTable

-----------------------------------------------------------------------------
(* The hot threads                                                         *)

\* The epoch moves, under the eyes of a writer that waits on it.
Bump(p) ==
  /\ odd' = [odd EXCEPT ![p] = ~@]
  /\ moved' = (moved \/ (gui = "spin" /\ cursor = p))

\* GraceGuard's constructor.  Input and receive threads are joined before the
\* router goes; a microphone's sender may be kept past it.
Enter(p) ==
  /\ place[p] = "out"
  /\ p <= Routes => gui # "gone"
  /\ Bump(p)
  /\ place' = [place EXCEPT ![p] = "entered"]
  /\ UNCHANGED <<tableVars, hand, gui, dying, cursor>>

\* The acquire load of the table; without one there is nothing to route by.
LoadTable(p) ==
  /\ place[p] = "entered"
  /\ hand' = [hand EXCEPT ![p] = Pointer(p)]
  /\ place' = [place EXCEPT ![p] = IF Pointer(p) = 0 THEN "done" ELSE "using"]
  /\ UNCHANGED <<tableVars, odd, gui, dying, waitVars>>

\* The send or the delivery through the route, all of it inside the bracket.
UseRoute(p) ==
  /\ place[p] = "using"
  /\ place' = [place EXCEPT ![p] = "done"]
  /\ UNCHANGED <<tableVars, odd, hand, gui, dying, waitVars>>

\* GraceGuard's destructor.
Exit(p) ==
  /\ place[p] = "done"
  /\ Bump(p)
  /\ place' = [place EXCEPT ![p] = "out"]
  /\ UNCHANGED <<tableVars, hand, gui, dying, cursor>>

Reader(p) == LoadTable(p) \/ UseRoute(p) \/ Exit(p)

-----------------------------------------------------------------------------
(* The GUI thread                                                          *)

\* build, and the store of table_ under routesMtx_.
Republish ==
  /\ gui = "idle"
  /\ published < MaxTables
  /\ table' = published + 1
  /\ gui' = "storeMic"
  /\ UNCHANGED <<micTable, published, retired, freed, odd, readerVars, dying, waitVars>>

\* The destructor's first store.
BeginDestroy ==
  /\ gui = "idle"
  /\ table' = 0
  /\ dying' = TRUE
  /\ gui' = "storeMic"
  /\ UNCHANGED <<micTable, published, retired, freed, odd, readerVars, waitVars>>

\* A mutant: the destructor leaves the microphones their table.
StoreMicTableUnlessDying ==
  /\ gui = "storeMic"
  /\ micTable' = IF dying THEN micTable ELSE table
  /\ gui' = "swap"
  /\ UNCHANGED <<table, published, retired, freed, odd, readerVars, dying, waitVars>>

StoreMicTable ==
  /\ gui = "storeMic"
  /\ micTable' = table
  /\ gui' = "swap"
  /\ UNCHANGED <<table, published, retired, freed, odd, readerVars, dying, waitVars>>

\* A mutant: the retired table is freed without a wait.
SwapPublishedNoWait ==
  /\ gui = "swap"
  /\ retired' = published
  /\ published' = table
  /\ gui' = "free"
  /\ UNCHANGED <<table, micTable, freed, odd, readerVars, dying, waitVars>>

\* std::exchange of published_; the destructor leaves it to the member's own.
SwapPublished ==
  /\ gui = "swap"
  /\ retired' = published
  /\ published' = table
  /\ cursor' = 1
  /\ gui' = "look"
  /\ UNCHANGED <<table, micTable, freed, odd, readerVars, dying, moved>>

\* waitQuiescent's load of one participant's epoch; past the last one it is over.
LookAtEpoch ==
  /\ gui = "look"
  /\ IF cursor \notin Participants
     THEN gui' = "free" /\ UNCHANGED waitVars
     ELSE IF odd[cursor]
          THEN gui' = "spin" /\ moved' = FALSE /\ UNCHANGED cursor
          ELSE gui' = gui /\ cursor' = cursor + 1 /\ UNCHANGED moved
  /\ UNCHANGED <<tableVars, odd, readerVars, dying>>

\* A mutant: the wait is for the epoch to turn even.
SpinUntilEven ==
  /\ gui = "spin"
  /\ ~odd[cursor]
  /\ cursor' = cursor + 1
  /\ gui' = "look"
  /\ UNCHANGED <<tableVars, odd, readerVars, dying, moved>>

\* A mutant: the wait steps past the participant on top of the loop's increment.
SpinSkips ==
  /\ gui = "spin"
  /\ moved
  /\ cursor' = cursor + 2
  /\ gui' = "look"
  /\ UNCHANGED <<tableVars, odd, readerVars, dying, moved>>

\* The wait is over when the epoch has changed.
Spin ==
  /\ gui = "spin"
  /\ moved
  /\ cursor' = cursor + 1
  /\ gui' = "look"
  /\ UNCHANGED <<tableVars, odd, readerVars, dying, moved>>

\* The retired table is destroyed once the lock is released, or with the router.
FreeRetired ==
  /\ gui = "free"
  /\ freed' = freed \cup {retired}
  /\ gui' = IF dying THEN "gone" ELSE "idle"
  /\ UNCHANGED <<table, micTable, published, retired, odd, readerVars, dying, waitVars>>

Publisher ==
  \/ StoreMicTable \/ SwapPublished \/ LookAtEpoch \/ Spin \/ FreeRetired

Next ==
  \/ Republish \/ BeginDestroy \/ Publisher
  \/ \E p \in Participants : Enter(p) \/ Reader(p)

\* A bracket once opened is closed: nothing inside it waits.  The GUI thread
\* runs on; nobody need open brackets or publish.
Fairness ==
  /\ WF_vars(Publisher)
  /\ \A p \in Participants : WF_vars(Reader(p))

Spec == Init /\ [][Next]_vars /\ Fairness

-----------------------------------------------------------------------------
(* Properties                                                              *)

\* The type invariant.
TypeOK ==
  /\ table \in Nat /\ micTable \in Nat /\ published \in Nat /\ retired \in Nat
  /\ freed \in SUBSET Nat
  /\ odd \in [Participants -> BOOLEAN]
  /\ place \in [Participants -> {"out", "entered", "using", "done"}]
  /\ hand \in [Participants -> Nat]
  /\ gui \in {"idle", "storeMic", "swap", "look", "spin", "free", "gone"}
  /\ dying \in BOOLEAN
  /\ cursor \in 1 .. Routes + Mics + 1
  /\ moved \in BOOLEAN

\* No thread routes by a table that has been freed, neither after a republish
\* nor after the router is gone.  The GUI's own battery heartbeat reads
\* published_ under the lock, so that is never freed either.
NoUseAfterFree ==
  /\ \A p \in Participants : place[p] = "using" => hand[p] \notin freed
  /\ published # 0 => published \notin freed

\* "Kept past the router, a sender sends nothing" (SlotRouter.h): once the
\* destructor has returned no thread holds a table, or can load one.
NothingSentPastRouter ==
  gui = "gone" => \A p \in Participants : place[p] # "using" /\ Pointer(p) = 0

\* republish and the destructor return, however steadily brackets come and go
\* (GraceEpoch.h: "a steady stream of brackets cannot starve it").
PublishReturns == (gui # "idle") ~> (gui \in {"idle", "gone"})

=============================================================================
