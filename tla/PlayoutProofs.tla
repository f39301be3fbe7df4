------------------------------ MODULE PlayoutProofs ------------------------------
(***************************************************************************)
(* Proofs about the hand-off to the playout thread, for any number of      *)
(* receive threads, any capacity and any number of frames: the inductive   *)
(* invariant of the ring of sequenced cells.                               *)
(***************************************************************************)
EXTENDS Playout, TLAPS

PushPlaces == {"idle", "look", "claim", "fill", "publish", "notify", "exchange"}
WorkPlaces == {"announce", "check", "acquire", "awake", "pop", "free", "advance", "drained", "ended"}
Frames == Producers \X (1 .. MaxFrames)

\* The receive thread has claimed a position and not yet published it.
Holding(p) == producer[p].pc \in {"fill", "publish"}
Claimed(q) == \E p \in Producers : Holding(p) /\ producer[p].pos = q

QueueTypes ==
  /\ sequence \in [Cells -> Nat]
  /\ item \in [Cells -> Frames \cup {<<>>}]
  /\ enqueuePos \in Nat /\ dequeuePos \in Nat
  /\ producer \in [Producers -> [pc : PushPlaces, pos : Nat, n : 0 .. MaxFrames]]
  /\ worker \in WorkPlaces
  /\ \A p \in Producers : producer[p].pc # "idle" => producer[p].n # 0

\* The positions in use are a window of at most Capacity, from the one the worker takes next.
WindowInv == Taken <= enqueuePos /\ enqueuePos <= Taken + Capacity

\* What a cell's sequence says: published, claimed, or free for the position to come.
CellInv ==
  /\ \A q \in Taken .. enqueuePos - 1 : ~Claimed(q) => sequence[cell(q)] = q + 1
  /\ \A p \in Producers : Holding(p) => sequence[cell(producer[p].pos)] = producer[p].pos
  /\ \A q \in enqueuePos .. Taken + Capacity - 1 : sequence[cell(q)] = q

\* A claimed position is in the window and one thread's, and a filled one holds its frame.
HolderInv ==
  /\ \A p \in Producers : Holding(p) => producer[p].pos \in Taken .. enqueuePos - 1
  /\ \A p, r \in Producers :
       Holding(p) /\ Holding(r) /\ producer[p].pos = producer[r].pos => p = r
  /\ \A p \in Producers :
       producer[p].pc = "publish" => item[cell(producer[p].pos)] = Frame(p)

\* A position that was loaded and has been passed by has a sequence not below it; one that
\* looked free and has not been passed by is.
LookInv ==
  \A p \in Producers : producer[p].pc \in {"look", "claim"} =>
    /\ producer[p].pos <= enqueuePos
    /\ producer[p].pos < enqueuePos => sequence[cell(producer[p].pos)] >= producer[p].pos
    /\ producer[p].pc = "claim" /\ producer[p].pos = enqueuePos => enqueuePos < Taken + Capacity

\* The worker frees a published cell, having copied its frame.
WorkerInv ==
  worker = "free" =>
    /\ dequeuePos < enqueuePos
    /\ ~Claimed(dequeuePos)
    /\ copied = item[cell(dequeuePos)]

QueueInv == QueueTypes /\ WindowInv /\ CellInv /\ HolderInv /\ LookInv /\ WorkerInv

-----------------------------------------------------------------------------
(* Positions and cells                                                     *)

\* A ring has two cells at least.
LEMMA CapacityType == Capacity \in Nat /\ Capacity >= 2
BY CapacityIsAPowerOfTwo

\* Every position has a cell.
LEMMA CellType == \A q \in Nat : cell(q) \in Cells
BY CapacityType DEF cell, Cells

\* Quotient and remainder.
LEMMA Division ==
  ASSUME NEW a \in Nat, NEW c \in Nat \ {0}
  PROVE  \E k \in Nat, r \in 0 .. c - 1 : a = k * c + r
<1> WITNESS a \div c \in Nat, a % c \in 0 .. c - 1
<1> QED
  OBVIOUS

\* A position's cell is used again one round later.
LEMMA CellAgain == \A q \in Nat : cell(q + Capacity) = cell(q)
<1> SUFFICES ASSUME NEW q \in Nat PROVE cell(q + Capacity) = cell(q)
  OBVIOUS
<1>1. PICK k \in Nat, r \in 0 .. Capacity - 1 : q = k * Capacity + r
  <2> Capacity \in Nat \ {0}
    BY CapacityType
  <2> QED
    BY Division
<1>2. q % Capacity = r
  BY <1>1, CapacityType
<1>3. q + Capacity = (k + 1) * Capacity + r
  BY <1>1, CapacityType
<1>4. (q + Capacity) % Capacity = r
  BY <1>1, <1>3, CapacityType
<1> QED
  BY <1>2, <1>4 DEF cell

\* Two positions less than a round apart have different cells.
LEMMA CellsApart ==
  ASSUME NEW a \in Nat, NEW b \in Nat, a < b, b < a + Capacity
  PROVE  cell(a) # cell(b)
<1> SUFFICES ASSUME a % Capacity = b % Capacity PROVE FALSE
  BY DEF cell
<1> DEFINE k == (b \div Capacity) - (a \div Capacity)
<1>1. /\ a % Capacity = a - Capacity * (a \div Capacity)
      /\ b % Capacity = b - Capacity * (b \div Capacity)
      /\ a \div Capacity \in Int /\ b \div Capacity \in Int
  BY CapacityType
<1>2. k \in Int /\ b - a = Capacity * k
  BY <1>1, CapacityType
<1>3. Capacity * k < Capacity /\ Capacity * k > 0
  BY <1>2, CapacityType
<1> HIDE DEF k
<1> QED
  BY <1>2, <1>3, CapacityType

-----------------------------------------------------------------------------
(* The invariant is inductive                                              *)

\* Two positions of the window have two cells.
LEMMA WindowCells ==
  ASSUME QueueInv, NEW a \in Taken .. Taken + Capacity - 1, NEW b \in Taken .. Taken + Capacity - 1,
         a # b
  PROVE  cell(a) # cell(b)
<1>1. Taken \in Nat /\ Capacity \in Nat
  BY CapacityType DEF Taken, QueueInv, QueueTypes
<1>2. a \in Nat /\ b \in Nat
  BY <1>1
<1>3. CASE a < b
  BY <1>1, <1>2, <1>3, CellsApart
<1>4. CASE b < a
  BY <1>1, <1>2, <1>4, CellsApart
<1> QED
  BY <1>2, <1>3, <1>4

\* A step that only moves the worker between places without a cell in hand, or sleeps, wakes or
\* stops, leaves everything the invariant speaks of.
Aside ==
  /\ UNCHANGED <<sequence, item, enqueuePos, dequeuePos, producer, copied>>
  /\ worker' \in WorkPlaces
  /\ worker' = worker \/ {worker, worker'} \cap {"free", "advance"} = {}

\* Such a step takes no frame.
LEMMA AsideTaken == Aside => Taken' = Taken
BY Zenon DEF Aside, Taken

\* Such a step keeps the invariant.
LEMMA AsideStep == QueueInv /\ Aside => QueueInv'
<1> SUFFICES ASSUME QueueInv, Aside PROVE QueueInv'
  OBVIOUS
<1>1. /\ Taken' = Taken
      /\ UNCHANGED <<sequence, item, enqueuePos, dequeuePos, producer, copied>>
  BY AsideTaken DEF Aside
<1>2. QueueTypes'
  BY DEF QueueInv, QueueTypes, Aside
<1>3. WindowInv'
  BY <1>1 DEF QueueInv, WindowInv
<1>4. CellInv' /\ HolderInv'
  BY <1>1 DEF QueueInv, CellInv, HolderInv, Claimed, Holding, Frame
<1>5. LookInv'
  BY <1>1 DEF QueueInv, LookInv
<1>6. WorkerInv'
  BY <1>1 DEF QueueInv, WorkerInv, Claimed, Holding, Aside
<1> QED
  BY <1>2, <1>3, <1>4, <1>5, <1>6 DEF QueueInv

\* A receive thread between two places at which it holds no position.
Elsewhere(p, to) ==
  /\ to \in [pc : PushPlaces, pos : Nat, n : 0 .. MaxFrames]
  /\ ~Holding(p) /\ to.pc \notin {"fill", "publish"}
  /\ to.pc # "idle" => to.n # 0
  /\ to.pc \in {"look", "claim"} =>
       /\ to.pos <= enqueuePos
       /\ to.pos < enqueuePos => sequence[cell(to.pos)] >= to.pos
       /\ to.pc = "claim" /\ to.pos = enqueuePos => enqueuePos < Taken + Capacity
  /\ producer' = [producer EXCEPT ![p] = to]
  /\ UNCHANGED <<sequence, item, enqueuePos, dequeuePos, worker, copied>>

\* The holders are the same ones.
LEMMA ElsewhereHolders ==
  ASSUME QueueTypes, NEW p \in Producers, NEW to, Elsewhere(p, to)
  PROVE  /\ Taken' = Taken
         /\ \A r \in Producers : Holding(r)' <=> Holding(r)
         /\ \A r \in Producers : Holding(r) => producer'[r] = producer[r]
         /\ \A q : Claimed(q)' <=> Claimed(q)
<1>1. Taken' = Taken
  BY DEF Elsewhere, Taken
<1>2. \A r \in Producers : (Holding(r)' <=> Holding(r)) /\ (Holding(r) => producer'[r] = producer[r])
  BY DEF QueueTypes, Elsewhere, Holding
<1>3. \A q : Claimed(q)' <=> Claimed(q)
  BY <1>2 DEF Claimed
<1> QED
  BY <1>1, <1>2, <1>3

\* So the invariant is kept.
LEMMA ElsewhereStep ==
  ASSUME QueueInv, NEW p \in Producers, NEW to, Elsewhere(p, to)
  PROVE  QueueInv'
<1>1. /\ Taken' = Taken
      /\ \A r \in Producers : Holding(r)' <=> Holding(r)
      /\ \A r \in Producers : Holding(r) => producer'[r] = producer[r]
      /\ \A q : Claimed(q)' <=> Claimed(q)
  BY ElsewhereHolders DEF QueueInv
<1>2. QueueTypes'
  BY DEF QueueInv, QueueTypes, Elsewhere
<1>3. UNCHANGED <<sequence, item, enqueuePos, dequeuePos, worker, copied>>
  BY DEF Elsewhere
<1>4. WindowInv'
  BY <1>1, <1>3 DEF QueueInv, WindowInv
<1>5. CellInv'
  BY <1>1, <1>3 DEF QueueInv, CellInv
<1>6. HolderInv'
  <2>1. \A r \in Producers : producer'[r].pc = "publish" => Holding(r)
    BY <1>1 DEF Holding
  <2>2. \A r \in Producers : Holding(r) => Frame(r)' = Frame(r)
    BY <1>1 DEF Frame
  <2> QED
    BY <1>1, <1>3, <2>1, <2>2 DEF QueueInv, HolderInv
<1>7. LookInv'
  <2>1. \A r \in Producers : producer'[r] = IF r = p THEN to ELSE producer[r]
    BY DEF QueueInv, QueueTypes, Elsewhere
  <2> QED
    BY <1>1, <1>3, <2>1 DEF QueueInv, LookInv, Elsewhere
<1>8. WorkerInv'
  BY <1>1, <1>3 DEF QueueInv, WorkerInv
<1> QED
  BY <1>2, <1>4, <1>5, <1>6, <1>7, <1>8 DEF QueueInv

\* The compare-exchange of the position succeeds.
Claims(p) == claim(p) /\ enqueuePos = producer[p].pos /\ enqueuePos' = enqueuePos + 1 /\ To(p, "fill")

\* A claimed position leaves the free ones and becomes one thread's.
LEMMA ClaimStep ==
  ASSUME QueueInv, NEW p \in Producers, Claims(p)
  PROVE  QueueInv'
<1>1. /\ producer[p].pc = "claim" /\ producer[p].pos = enqueuePos /\ ~Holding(p)
      /\ producer' = [producer EXCEPT ![p].pc = "fill"]
      /\ enqueuePos' = enqueuePos + 1
      /\ UNCHANGED <<sequence, item, dequeuePos, worker, copied>>
  BY DEF Claims, claim, At, To, Holding
<1>2. \A r \in Producers : /\ r # p => producer'[r] = producer[r]
                          /\ producer'[r].pos = producer[r].pos /\ producer'[r].n = producer[r].n
      /\ producer'[p].pc = "fill"
  BY <1>1 DEF QueueInv, QueueTypes
<1>3. /\ \A r \in Producers : r # p => (Holding(r)' <=> Holding(r))
      /\ Holding(p)'
      /\ \A r \in Producers : Frame(r)' = Frame(r)
  BY <1>2 DEF Holding, Frame
<1>4. \A q : Claimed(q)' <=> Claimed(q) \/ q = enqueuePos
  BY <1>1, <1>2, <1>3 DEF Claimed
<1>5. Taken' = Taken /\ Taken \in Nat
  BY <1>1 DEF Taken, QueueInv, QueueTypes
<1>6. enqueuePos < Taken + Capacity
  BY <1>1 DEF QueueInv, LookInv
<1>7. enqueuePos \in Nat /\ Capacity \in Nat
  BY CapacityType DEF QueueInv, QueueTypes
<1>8. sequence[cell(enqueuePos)] = enqueuePos
  BY <1>5, <1>6, <1>7 DEF QueueInv, CellInv, WindowInv
<1>9. QueueTypes'
  BY <1>1 DEF QueueInv, QueueTypes, PushPlaces
<1>10. WindowInv'
  BY <1>1, <1>5, <1>6, <1>7 DEF QueueInv, WindowInv
<1>11. CellInv'
  <2>1. \A q \in Taken' .. enqueuePos' - 1 : ~Claimed(q)' => sequence'[cell(q)] = q + 1
    BY <1>1, <1>4, <1>5, <1>7 DEF QueueInv, CellInv
  <2>2. \A r \in Producers : Holding(r)' => sequence'[cell(producer'[r].pos)] = producer'[r].pos
    BY <1>1, <1>2, <1>3, <1>8 DEF QueueInv, CellInv
  <2>3. \A q \in enqueuePos' .. Taken' + Capacity - 1 : sequence'[cell(q)] = q
    BY <1>1, <1>5, <1>7 DEF QueueInv, CellInv
  <2> QED
    BY <2>1, <2>2, <2>3 DEF CellInv, cell
<1>12. HolderInv'
  <2>1. \A r \in Producers : Holding(r)' => producer'[r].pos \in Taken' .. enqueuePos' - 1
    BY <1>1, <1>2, <1>3, <1>5, <1>7 DEF QueueInv, HolderInv, WindowInv
  <2>2. \A r, t \in Producers :
          Holding(r)' /\ Holding(t)' /\ producer'[r].pos = producer'[t].pos => r = t
    <3>1. \A r \in Producers : Holding(r) => producer[r].pos # enqueuePos
      BY <1>5, <1>7 DEF QueueInv, HolderInv
    <3> QED
      BY <1>1, <1>2, <1>3, <3>1 DEF QueueInv, HolderInv
  <2>3. \A r \in Producers : producer'[r].pc = "publish" => item'[cell(producer'[r].pos)] = Frame(r)'
    BY <1>1, <1>2, <1>3 DEF QueueInv, HolderInv
  <2> QED
    BY <2>1, <2>2, <2>3 DEF HolderInv, cell
<1>13. LookInv'
  <2> SUFFICES ASSUME NEW r \in Producers, producer'[r].pc \in {"look", "claim"}
               PROVE  /\ producer'[r].pos <= enqueuePos'
                      /\ producer'[r].pos < enqueuePos' =>
                           sequence'[cell(producer'[r].pos)] >= producer'[r].pos
                      /\ producer'[r].pc = "claim" /\ producer'[r].pos = enqueuePos' =>
                           enqueuePos' < Taken' + Capacity
    BY DEF LookInv, cell
  <2>1. r # p /\ producer'[r] = producer[r]
    BY <1>2
  <2>2. producer[r].pos \in Nat
    BY DEF QueueInv, QueueTypes
  <2> QED
    BY <1>1, <1>5, <1>7, <1>8, <2>1, <2>2 DEF QueueInv, LookInv
<1>14. WorkerInv'
  BY <1>1, <1>4, <1>7 DEF QueueInv, WorkerInv, cell, QueueTypes
<1> QED
  BY <1>9, <1>10, <1>11, <1>12, <1>13, <1>14 DEF QueueInv

\* A frame is written into its position's own cell and no other.
LEMMA FillStep ==
  ASSUME QueueInv, NEW p \in Producers, fill(p)
  PROVE  QueueInv'
<1> DEFINE c == cell(producer[p].pos)
<1>1. /\ producer[p].pc = "fill" /\ Holding(p)
      /\ producer' = [producer EXCEPT ![p].pc = "publish"]
      /\ item' = [item EXCEPT ![c] = Frame(p)]
      /\ UNCHANGED <<sequence, enqueuePos, dequeuePos, worker, copied>>
  BY DEF fill, At, To, Holding
<1>2. \A r \in Producers : /\ r # p => producer'[r] = producer[r]
                          /\ producer'[r].pos = producer[r].pos /\ producer'[r].n = producer[r].n
      /\ producer'[p].pc = "publish"
  BY <1>1 DEF QueueInv, QueueTypes
<1>3. \A r \in Producers : (Holding(r)' <=> Holding(r)) /\ Frame(r)' = Frame(r)
  BY <1>1, <1>2 DEF Holding, Frame
<1>4. \A q : Claimed(q)' <=> Claimed(q)
  BY <1>2, <1>3 DEF Claimed
<1>5. Taken' = Taken /\ Taken \in Nat /\ enqueuePos \in Nat /\ Capacity \in Nat
  BY <1>1, CapacityType DEF Taken, QueueInv, QueueTypes
<1>6. producer[p].pos \in Nat /\ producer[p].n \in 1 .. MaxFrames
  BY <1>1 DEF QueueInv, QueueTypes
<1>7. QueueTypes'
  <2>1. Frame(p) \in Frames
    BY <1>6 DEF Frame, Frames
  <2>2. item' \in [Cells -> Frames \cup {<<>>}]
    BY Zenon, <1>1, <2>1 DEF QueueInv, QueueTypes
  <2> QED
    BY <1>1, <2>2 DEF QueueInv, QueueTypes, PushPlaces
<1>8. WindowInv'
  BY <1>1, <1>5 DEF QueueInv, WindowInv
<1>9. CellInv'
  BY <1>1, <1>2, <1>3, <1>4, <1>5 DEF QueueInv, CellInv, cell
\* Another position of the window has another cell.
<1>10. \A q \in Taken .. enqueuePos - 1 : q # producer[p].pos => cell(q) # c
  <2> SUFFICES ASSUME NEW q \in Taken .. enqueuePos - 1, q # producer[p].pos PROVE cell(q) # c
    OBVIOUS
  <2>1. producer[p].pos \in Taken .. enqueuePos - 1 /\ enqueuePos <= Taken + Capacity
    BY <1>1 DEF QueueInv, HolderInv, WindowInv
  <2>2. {q, producer[p].pos} \subseteq Taken .. Taken + Capacity - 1
    BY <1>5, <2>1
  <2> QED
    BY <2>2, WindowCells
<1>11. c \in Cells
  BY <1>6, CellType
<1>12. \A q \in Taken .. enqueuePos - 1 : q # producer[p].pos => item'[cell(q)] = item[cell(q)]
  <2> SUFFICES ASSUME NEW q \in Taken .. enqueuePos - 1, q # producer[p].pos
               PROVE  item'[cell(q)] = item[cell(q)]
    OBVIOUS
  <2>1. cell(q) \in Cells /\ cell(q) # c
    BY <1>5, <1>10, CellType
  <2> QED
    BY <1>1, <2>1 DEF QueueInv, QueueTypes
<1>13. HolderInv'
  <2>1. \A r \in Producers : Holding(r)' => producer'[r].pos \in Taken' .. enqueuePos' - 1
    BY <1>1, <1>2, <1>3, <1>5 DEF QueueInv, HolderInv
  <2>2. \A r, t \in Producers :
          Holding(r)' /\ Holding(t)' /\ producer'[r].pos = producer'[t].pos => r = t
    BY <1>2, <1>3 DEF QueueInv, HolderInv
  <2>3. ASSUME NEW r \in Producers, producer'[r].pc = "publish"
        PROVE  item'[cell(producer'[r].pos)] = Frame(r)'
    <3>1. CASE r = p
      BY SMTT(60), <1>1, <1>2, <1>3, <1>11, <3>1 DEF QueueInv, QueueTypes
    <3>2. CASE r # p
      <4>1. producer[r].pc = "publish" /\ Holding(r)
        BY <1>2, <2>3, <3>2 DEF Holding
      <4>2. producer[r].pos \in Taken .. enqueuePos - 1 /\ producer[r].pos # producer[p].pos
        BY <1>1, <3>2, <4>1 DEF QueueInv, HolderInv
      <4> QED
        BY <1>2, <1>3, <1>12, <4>1, <4>2 DEF QueueInv, HolderInv
    <3> QED
      BY <3>1, <3>2
  <2> QED
    BY <2>1, <2>2, <2>3 DEF HolderInv, cell
<1>14. LookInv'
  BY <1>1, <1>2, <1>5 DEF QueueInv, LookInv, cell
<1>15. WorkerInv'
  <2> SUFFICES ASSUME worker = "free"
               PROVE  dequeuePos < enqueuePos /\ ~Claimed(dequeuePos)' /\ copied = item'[cell(dequeuePos)]
    BY <1>1 DEF WorkerInv, Claimed, cell
  <2>1. dequeuePos < enqueuePos /\ ~Claimed(dequeuePos) /\ copied = item[cell(dequeuePos)]
    BY DEF QueueInv, WorkerInv
  <2>2. Taken = dequeuePos /\ dequeuePos \in Nat
    BY DEF Taken, QueueInv, QueueTypes
  <2>3. dequeuePos \in Taken .. enqueuePos - 1
    BY <1>5, <2>1, <2>2
  <2>4. dequeuePos # producer[p].pos
    BY <1>1, <2>1 DEF Claimed
  <2> QED
    BY <1>1, <1>4, <1>12, <2>1, <2>3, <2>4
<1> QED
  BY <1>7, <1>8, <1>9, <1>13, <1>14, <1>15 DEF QueueInv

\* The stored sequence says that the position is readable, and no sequence goes back.
LEMMA PublishStep ==
  ASSUME QueueInv, NEW p \in Producers, publish(p)
  PROVE  QueueInv'
<1> DEFINE pos == producer[p].pos
           c == cell(pos)
<1>1. /\ producer[p].pc = "publish" /\ Holding(p)
      /\ producer' = [producer EXCEPT ![p].pc = "notify"]
      /\ sequence' = [sequence EXCEPT ![c] = pos + 1]
      /\ UNCHANGED <<item, enqueuePos, dequeuePos, worker, copied>>
  BY DEF publish, At, To, Holding
<1>2. \A r \in Producers : /\ r # p => producer'[r] = producer[r]
                          /\ producer'[r].pos = producer[r].pos /\ producer'[r].n = producer[r].n
      /\ producer'[p].pc = "notify"
  BY <1>1 DEF QueueInv, QueueTypes
<1>3. /\ \A r \in Producers : Holding(r)' <=> Holding(r) /\ r # p
      /\ \A r \in Producers : Frame(r)' = Frame(r)
  BY <1>1, <1>2 DEF Holding, Frame
<1>4. Taken' = Taken /\ Taken \in Nat /\ enqueuePos \in Nat /\ Capacity \in Nat /\ pos \in Nat
  BY <1>1, CapacityType DEF Taken, QueueInv, QueueTypes
<1>5. pos \in Taken .. enqueuePos - 1 /\ enqueuePos <= Taken + Capacity
  BY <1>1 DEF QueueInv, HolderInv, WindowInv
<1>6. \A q : Claimed(q)' <=> Claimed(q) /\ q # pos
  BY <1>1, <1>2, <1>3 DEF Claimed, QueueInv, HolderInv
<1>7. c \in Cells /\ sequence[c] = pos
  BY <1>1, <1>4, CellType DEF QueueInv, CellInv
<1>8. sequence'[c] = pos + 1
  BY <1>1, <1>7 DEF QueueInv, QueueTypes
<1>9. \A q \in Taken .. Taken + Capacity - 1 : q # pos => sequence'[cell(q)] = sequence[cell(q)]
  <2> SUFFICES ASSUME NEW q \in Taken .. Taken + Capacity - 1, q # pos
               PROVE  sequence'[cell(q)] = sequence[cell(q)]
    OBVIOUS
  <2>1. q \in Nat /\ cell(q) \in Cells
    BY <1>4, CellType
  <2>2. cell(q) # c
    <3>1. pos \in Taken .. Taken + Capacity - 1
      BY <1>4, <1>5
    <3> QED
      BY <3>1, WindowCells
  <2> QED
    BY <1>1, <2>1, <2>2 DEF QueueInv, QueueTypes
<1>10. \A q \in Nat : sequence'[cell(q)] >= sequence[cell(q)]
  <2> SUFFICES ASSUME NEW q \in Nat PROVE sequence'[cell(q)] >= sequence[cell(q)]
    OBVIOUS
  <2>1. cell(q) \in Cells /\ sequence[cell(q)] \in Nat
    BY CellType DEF QueueInv, QueueTypes
  <2>2. CASE cell(q) = c
    BY <1>4, <1>7, <1>8, <2>2
  <2>3. CASE cell(q) # c
    BY <1>1, <2>1, <2>3 DEF QueueInv, QueueTypes
  <2> QED
    BY <2>2, <2>3
<1>11. QueueTypes'
  <2>1. sequence' \in [Cells -> Nat]
    <3>1. pos + 1 \in Nat /\ sequence \in [Cells -> Nat] /\ sequence' = [sequence EXCEPT ![c] = pos + 1]
      BY <1>1, <1>4 DEF QueueInv, QueueTypes
    <3> HIDE DEF pos, c
    <3> QED
      BY Zenon, <3>1
  <2>2. producer' \in [Producers -> [pc : PushPlaces, pos : Nat, n : 0 .. MaxFrames]]
    BY ZenonT(60), <1>1 DEF QueueInv, QueueTypes, PushPlaces
  <2>3. \A r \in Producers : producer'[r].pc # "idle" => producer'[r].n # 0
    BY <1>1, <1>2 DEF QueueInv, QueueTypes
  <2> QED
    BY SMTT(60), <1>1, <2>1, <2>2, <2>3 DEF QueueInv, QueueTypes
<1>12. WindowInv'
  BY <1>1, <1>4 DEF QueueInv, WindowInv
<1>13. CellInv'
  <2>1. \A q \in Taken .. enqueuePos - 1 : ~Claimed(q)' => sequence'[cell(q)] = q + 1
    BY <1>4, <1>5, <1>6, <1>8, <1>9 DEF QueueInv, CellInv
  <2>2. \A r \in Producers : Holding(r)' => sequence'[cell(producer'[r].pos)] = producer'[r].pos
    <3> SUFFICES ASSUME NEW r \in Producers, Holding(r)'
                 PROVE  sequence'[cell(producer'[r].pos)] = producer'[r].pos
      OBVIOUS
    <3>1. Holding(r) /\ r # p /\ producer'[r].pos = producer[r].pos
      BY <1>2, <1>3
    <3>2. producer[r].pos \in Taken .. enqueuePos - 1 /\ producer[r].pos # pos
      BY <1>1, <3>1 DEF QueueInv, HolderInv
    <3>3. sequence[cell(producer[r].pos)] = producer[r].pos
      BY <3>1 DEF QueueInv, CellInv
    <3>4. producer[r].pos \in Taken .. Taken + Capacity - 1
      BY <1>4, <1>5, <3>2
    <3> QED
      BY <1>9, <3>1, <3>2, <3>3, <3>4
  <2>3. \A q \in enqueuePos .. Taken + Capacity - 1 : sequence'[cell(q)] = q
    BY <1>4, <1>5, <1>9 DEF QueueInv, CellInv
  <2> QED
    BY <1>1, <1>4, <2>1, <2>2, <2>3 DEF CellInv, cell
<1>14. HolderInv'
  <2>1. \A r \in Producers : Holding(r)' => producer'[r].pos \in Taken' .. enqueuePos' - 1
    BY SMTT(60), <1>1, <1>2, <1>3, <1>4 DEF QueueInv, HolderInv
  <2>2. \A r, t \in Producers :
          Holding(r)' /\ Holding(t)' /\ producer'[r].pos = producer'[t].pos => r = t
    BY <1>2, <1>3 DEF QueueInv, HolderInv
  <2>3. \A r \in Producers : producer'[r].pc = "publish" => item'[cell(producer'[r].pos)] = Frame(r)'
    BY <1>1, <1>2, <1>3 DEF QueueInv, HolderInv
  <2> QED
    BY <2>1, <2>2, <2>3 DEF HolderInv, cell
<1>15. LookInv'
  <2> SUFFICES ASSUME NEW r \in Producers, producer'[r].pc \in {"look", "claim"}
               PROVE  /\ producer'[r].pos <= enqueuePos'
                      /\ producer'[r].pos < enqueuePos' =>
                           sequence'[cell(producer'[r].pos)] >= producer'[r].pos
                      /\ producer'[r].pc = "claim" /\ producer'[r].pos = enqueuePos' =>
                           enqueuePos' < Taken' + Capacity
    BY DEF LookInv, cell
  <2>1. r # p /\ producer'[r] = producer[r]
    BY <1>2
  <2>2. producer[r].pos \in Nat /\ sequence[cell(producer[r].pos)] \in Nat
        /\ sequence'[cell(producer[r].pos)] \in Nat
    BY Zenon, <1>11, CellType DEF QueueInv, QueueTypes
  <2> QED
    BY <1>1, <1>4, <1>10, <2>1, <2>2 DEF QueueInv, LookInv
<1>16. WorkerInv'
  BY <1>1, <1>6 DEF QueueInv, WorkerInv, cell
<1> QED
  BY <1>11, <1>12, <1>13, <1>14, <1>15, <1>16 DEF QueueInv

\* The sequence the worker compares says that its position is taken and published.
LEMMA PopStep ==
  ASSUME QueueInv, pop
  PROVE  QueueInv'
<1>1. CASE empty
  BY <1>1, AsideStep DEF pop, Aside, Worker, WorkPlaces
<1>2. CASE ~empty
  <2>1. /\ worker = "pop" /\ worker' = "free" /\ copied' = item[cell(dequeuePos)]
        /\ UNCHANGED <<sequence, item, enqueuePos, dequeuePos, producer>>
    BY <1>2 DEF pop, Worker
  <2>2. sequence[cell(dequeuePos)] = dequeuePos + 1
    BY <1>2 DEF empty
  <2>3. /\ Taken = dequeuePos /\ Taken' = Taken /\ dequeuePos \in Nat /\ enqueuePos \in Nat
        /\ Capacity \in Nat /\ Capacity >= 2
    BY <2>1, CapacityType DEF Taken, QueueInv, QueueTypes
  <2>4. dequeuePos < enqueuePos
    <3> SUFFICES ASSUME enqueuePos = dequeuePos PROVE FALSE
      BY <2>3 DEF QueueInv, WindowInv
    <3>1. sequence[cell(dequeuePos)] = dequeuePos
      BY <2>3 DEF QueueInv, CellInv
    <3> QED
      BY <2>2, <2>3, <3>1
  <2>5. ~Claimed(dequeuePos)
    BY <2>2, <2>3 DEF Claimed, QueueInv, CellInv
  <2>6. (\A r \in Producers : (Holding(r)' <=> Holding(r)) /\ Frame(r)' = Frame(r))
        /\ \A q : Claimed(q)' <=> Claimed(q)
    BY <2>1 DEF Holding, Frame, Claimed
  <2>7. QueueTypes' /\ WindowInv'
    BY <2>1, <2>3 DEF QueueInv, QueueTypes, WorkPlaces, WindowInv
  <2>8. CellInv' /\ HolderInv' /\ LookInv'
    BY Zenon, <2>1, <2>3, <2>6 DEF QueueInv, CellInv, HolderInv, LookInv, cell
  <2>9. WorkerInv'
    BY <2>1, <2>4, <2>5, <2>6 DEF WorkerInv, cell
  <2> QED
    BY <2>7, <2>8, <2>9 DEF QueueInv
<1> QED
  BY <1>1, <1>2

\* The stored sequence hands the cell to the position one round later.
LEMMA FreeStep ==
  ASSUME QueueInv, free
  PROVE  QueueInv'
<1> DEFINE d == dequeuePos
           c == cell(d)
<1>1. /\ worker = "free" /\ worker' = "advance"
      /\ sequence' = [sequence EXCEPT ![c] = d + Capacity]
      /\ UNCHANGED <<item, enqueuePos, dequeuePos, producer, copied>>
  BY DEF free, Worker
<1>2. /\ Taken = d /\ Taken' = d + 1 /\ d \in Nat /\ enqueuePos \in Nat
      /\ Capacity \in Nat /\ Capacity >= 2
  BY <1>1, CapacityType DEF Taken, QueueInv, QueueTypes
<1>3. d < enqueuePos /\ ~Claimed(d) /\ enqueuePos <= d + Capacity
  BY <1>1, <1>2 DEF QueueInv, WorkerInv, WindowInv
<1>4. c \in Cells /\ sequence[c] = d + 1 /\ sequence'[c] = d + Capacity
  <2>1. c \in Cells
    BY <1>2, CellType
  <2>2. sequence[c] = d + 1
    BY <1>2, <1>3 DEF QueueInv, CellInv
  <2> QED
    BY <1>1, <2>1, <2>2 DEF QueueInv, QueueTypes
<1>5. /\ \A r \in Producers : (Holding(r)' <=> Holding(r)) /\ Frame(r)' = Frame(r)
      /\ \A q : Claimed(q)' <=> Claimed(q)
  BY <1>1 DEF Holding, Frame, Claimed
<1>6. \A q \in d + 1 .. d + Capacity - 1 : sequence'[cell(q)] = sequence[cell(q)]
  <2> SUFFICES ASSUME NEW q \in d + 1 .. d + Capacity - 1
               PROVE  sequence'[cell(q)] = sequence[cell(q)]
    OBVIOUS
  <2>1. q \in Nat /\ cell(q) \in Cells
    BY <1>2, CellType
  <2>2. cell(q) # c
    BY <1>2, <2>1, CellsApart
  <2> QED
    BY <1>1, <2>1, <2>2 DEF QueueInv, QueueTypes
<1>7. \A q \in Nat : sequence'[cell(q)] >= sequence[cell(q)]
  <2> SUFFICES ASSUME NEW q \in Nat PROVE sequence'[cell(q)] >= sequence[cell(q)]
    OBVIOUS
  <2>1. cell(q) \in Cells /\ sequence[cell(q)] \in Nat
    BY CellType DEF QueueInv, QueueTypes
  <2>2. CASE cell(q) = c
    BY <1>2, <1>4, <2>2
  <2>3. CASE cell(q) # c
    BY <1>1, <2>1, <2>3 DEF QueueInv, QueueTypes
  <2> QED
    BY <2>2, <2>3
<1>8. QueueTypes'
  <2>1. sequence' \in [Cells -> Nat]
    <3>1. /\ d + Capacity \in Nat /\ sequence \in [Cells -> Nat]
          /\ sequence' = [sequence EXCEPT ![c] = d + Capacity]
      BY <1>1, <1>2 DEF QueueInv, QueueTypes
    <3> HIDE DEF d, c
    <3> QED
      BY Zenon, <3>1
  <2> QED
    BY <1>1, <2>1 DEF QueueInv, QueueTypes, WorkPlaces
<1>9. WindowInv'
  BY <1>1, <1>2, <1>3 DEF WindowInv
<1>10. \A r \in Producers : Holding(r) => producer[r].pos \in d + 1 .. enqueuePos - 1
  BY SMTT(60), <1>2, <1>3 DEF QueueInv, HolderInv, Claimed
<1>11. CellInv'
  <2>1. \A q \in d + 1 .. enqueuePos - 1 : ~Claimed(q) => sequence'[cell(q)] = q + 1
    BY SMTT(60), <1>2, <1>3, <1>6 DEF QueueInv, CellInv
  <2>2. \A r \in Producers : Holding(r) => sequence'[cell(producer[r].pos)] = producer[r].pos
    <3> SUFFICES ASSUME NEW r \in Producers, Holding(r)
                 PROVE  sequence'[cell(producer[r].pos)] = producer[r].pos
      OBVIOUS
    <3>1. producer[r].pos \in d + 1 .. d + Capacity - 1
      BY <1>2, <1>3, <1>10
    <3> QED
      BY <1>6, <3>1 DEF QueueInv, CellInv
  <2>3. \A q \in enqueuePos .. d + Capacity : sequence'[cell(q)] = q
    <3> SUFFICES ASSUME NEW q \in enqueuePos .. d + Capacity PROVE sequence'[cell(q)] = q
      OBVIOUS
    <3>1. CASE q = d + Capacity
      BY <1>2, <1>4, <3>1, CellAgain
    <3>2. CASE q # d + Capacity
      <4>1. q \in d + 1 .. d + Capacity - 1 /\ q \in enqueuePos .. Taken + Capacity - 1
        BY <1>2, <1>3, <3>2
      <4> QED
        BY <1>6, <4>1 DEF QueueInv, CellInv
    <3> QED
      BY <3>1, <3>2
  <2>4. Taken' + Capacity - 1 = d + Capacity
    BY <1>2
  <2> QED
    BY <1>1, <1>2, <1>5, <2>1, <2>2, <2>3, <2>4 DEF CellInv, cell
<1>12. HolderInv'
  BY <1>1, <1>2, <1>5, <1>10 DEF QueueInv, HolderInv, cell
<1>13. LookInv'
  <2> SUFFICES ASSUME NEW r \in Producers, producer[r].pc \in {"look", "claim"}
               PROVE  /\ producer[r].pos <= enqueuePos
                      /\ producer[r].pos < enqueuePos =>
                           sequence'[cell(producer[r].pos)] >= producer[r].pos
                      /\ producer[r].pc = "claim" /\ producer[r].pos = enqueuePos =>
                           enqueuePos < Taken' + Capacity
    BY <1>1 DEF LookInv, cell
  <2>1. producer[r].pos \in Nat /\ sequence[cell(producer[r].pos)] \in Nat
        /\ sequence'[cell(producer[r].pos)] \in Nat
    BY Zenon, <1>8, CellType DEF QueueInv, QueueTypes
  <2> QED
    BY <1>2, <1>7, <2>1 DEF QueueInv, LookInv
<1>14. WorkerInv'
  BY <1>1 DEF WorkerInv
<1> QED
  BY <1>8, <1>9, <1>11, <1>12, <1>13, <1>14 DEF QueueInv

\* The position taken is counted from the freeing of its cell on.
LEMMA AdvanceStep ==
  ASSUME QueueInv, advance
  PROVE  QueueInv'
<1>1. /\ worker = "advance" /\ worker' = "pop" /\ dequeuePos' = dequeuePos + 1
      /\ UNCHANGED <<sequence, item, enqueuePos, producer, copied>>
  BY DEF advance, Worker
<1>2. Taken' = Taken /\ dequeuePos' \in Nat
  BY <1>1 DEF Taken, QueueInv, QueueTypes
<1>3. /\ \A r \in Producers : (Holding(r)' <=> Holding(r)) /\ Frame(r)' = Frame(r)
      /\ \A q : Claimed(q)' <=> Claimed(q)
  BY <1>1 DEF Holding, Frame, Claimed
<1>4. QueueTypes' /\ WindowInv' /\ WorkerInv'
  BY SMTT(60), <1>1, <1>2 DEF QueueInv, QueueTypes, WorkPlaces, WindowInv, WorkerInv
<1>5. CellInv' /\ HolderInv' /\ LookInv'
  BY ZenonT(60), <1>1, <1>2, <1>3 DEF QueueInv, CellInv, HolderInv, LookInv, cell
<1> QED
  BY <1>4, <1>5 DEF QueueInv

\* A receive thread's record with another place.
LEMMA Replaced ==
  ASSUME QueueTypes, NEW p \in Producers, NEW pc
  PROVE  [producer EXCEPT ![p].pc = pc]
           = [producer EXCEPT ![p] = [pc |-> pc, pos |-> producer[p].pos, n |-> producer[p].n]]
<1>1. producer[p] \in [pc : PushPlaces, pos : Nat, n : 0 .. MaxFrames]
  BY DEF QueueTypes
<1>2. [producer[p] EXCEPT !.pc = pc] = [pc |-> pc, pos |-> producer[p].pos, n |-> producer[p].n]
  BY <1>1
<1>3. [producer EXCEPT ![p].pc = pc] = [producer EXCEPT ![p] = [producer[p] EXCEPT !.pc = pc]]
  BY DEF QueueTypes
<1> QED
  BY Zenon, <1>2, <1>3

\* A push that starts loads the position.
LEMMA DeliverStep ==
  ASSUME QueueInv, NEW p \in Producers, deliver(p)
  PROVE  QueueInv'
<1> DEFINE to == [pc |-> "look", pos |-> enqueuePos, n |-> producer[p].n + 1]
<1>1. producer[p].pc = "idle" /\ producer[p].n \in 0 .. MaxFrames /\ producer[p].n < MaxFrames
  BY DEF deliver, At, QueueInv, QueueTypes
<1>2. producer' = [producer EXCEPT ![p] = to]
      /\ UNCHANGED <<sequence, item, enqueuePos, dequeuePos, worker, copied>>
  BY DEF deliver
<1>3. to.n \in 0 .. MaxFrames /\ to.n # 0
  BY <1>1, FramesAreCounted
<1>4. enqueuePos \in Nat
  BY DEF QueueInv, QueueTypes
<1>5. Elsewhere(p, to)
  BY <1>1, <1>2, <1>3, <1>4 DEF Elsewhere, Holding, PushPlaces
<1> QED
  BY <1>5, ElsewhereStep

\* A load that sees the position's own number finds its cell free: it claims, gives up or
\* loads the position again.
LEMMA LookStep ==
  ASSUME QueueInv, NEW p \in Producers, look(p)
  PROVE  QueueInv'
<1> DEFINE pos == producer[p].pos
           seen == sequence[cell(pos)]
           at(pc, q) == [pc |-> pc, pos |-> q, n |-> producer[p].n]
<1>1. /\ producer[p].pc = "look" /\ pos \in Nat /\ producer[p].n \in 0 .. MaxFrames
      /\ producer[p].n # 0 /\ producer[p] = at("look", pos)
  BY DEF look, At, QueueInv, QueueTypes
<1>2. enqueuePos \in Nat /\ seen \in Nat /\ Taken \in Nat /\ Capacity \in Nat
  BY SMTT(60), <1>1, CellType, CapacityType DEF QueueInv, QueueTypes, Taken
<1>3. pos <= enqueuePos /\ (pos < enqueuePos => seen >= pos)
  BY ZenonT(60), <1>1 DEF QueueInv, LookInv
<1>4. UNCHANGED <<sequence, item, enqueuePos, dequeuePos, worker, copied>>
  BY DEF look
<1>5. CASE seen = pos
  <2>1. producer' = [producer EXCEPT ![p] = at("claim", pos)]
    <3>1. producer' = [producer EXCEPT ![p].pc = "claim"]
      BY <1>2, <1>5 DEF look, To
    <3> QED
      BY Zenon, <3>1, Replaced DEF QueueInv
  \* A cell that is free for the position to come is not the worker's yet to free.
  <2>2. pos = enqueuePos => enqueuePos < Taken + Capacity
    <3> SUFFICES ASSUME pos = enqueuePos, enqueuePos = Taken + Capacity PROVE FALSE
      BY <1>2 DEF QueueInv, WindowInv
    <3>1. Taken \in Taken .. enqueuePos - 1
      BY <1>2, CapacityType
    <3>2. cell(pos) = cell(Taken)
      BY <1>2, CellAgain
    <3>3. CASE Claimed(Taken)
      <4>1. seen = Taken
        BY <3>2, <3>3 DEF Claimed, QueueInv, CellInv
      <4> QED
        BY <1>2, <1>5, <4>1, CapacityType
    <3>4. CASE ~Claimed(Taken)
      <4>1. seen = Taken + 1
        BY <3>1, <3>2, <3>4 DEF QueueInv, CellInv
      <4> QED
        BY <1>2, <1>5, <4>1, CapacityType
    <3> QED
      BY <3>3, <3>4
  <2>3. Elsewhere(p, at("claim", pos))
    BY <1>1, <1>3, <1>4, <2>1, <2>2 DEF Elsewhere, Holding, PushPlaces
  <2> QED
    BY <2>3, ElsewhereStep
<1>6. CASE seen < pos
  <2>1. producer' = [producer EXCEPT ![p] = at("idle", pos)]
    <3>1. producer' = [producer EXCEPT ![p].pc = "idle"]
      BY <1>1, <1>2, <1>6 DEF look, To
    <3> QED
      BY Zenon, <3>1, Replaced DEF QueueInv
  <2>2. Elsewhere(p, at("idle", pos))
    BY <1>1, <1>4, <2>1 DEF Elsewhere, Holding, PushPlaces
  <2> QED
    BY <2>2, ElsewhereStep
<1>7. CASE seen > pos
  <2>1. producer' = [producer EXCEPT ![p] = at("look", enqueuePos)]
    BY <1>1, <1>2, <1>7 DEF look, Go
  <2>2. Elsewhere(p, at("look", enqueuePos))
    BY <1>1, <1>2, <1>4, <2>1 DEF Elsewhere, Holding, PushPlaces
  <2> QED
    BY <2>2, ElsewhereStep
<1>8. seen = pos \/ seen < pos \/ seen > pos
  <2>1. seen \in Nat /\ pos \in Nat
    BY Zenon, <1>1, <1>2
  <2> HIDE DEF seen, pos
  <2> QED
    BY <2>1
<1> QED
  BY Zenon, <1>5, <1>6, <1>7, <1>8

\* A compare-exchange that fails loads the position again.
LEMMA ReloadStep ==
  ASSUME QueueInv, NEW p \in Producers, claim(p), ~Claims(p)
  PROVE  QueueInv'
<1> DEFINE to == [pc |-> "look", pos |-> enqueuePos, n |-> producer[p].n]
<1>1. /\ producer[p].pc = "claim" /\ producer[p].n \in 0 .. MaxFrames /\ producer[p].n # 0
      /\ enqueuePos \in Nat
  BY DEF claim, At, QueueInv, QueueTypes
<1>2. producer' = [producer EXCEPT ![p] = to]
      /\ UNCHANGED <<sequence, item, enqueuePos, dequeuePos, worker, copied>>
  BY DEF claim, Claims, Go
<1>3. Elsewhere(p, to)
  BY <1>1, <1>2 DEF Elsewhere, Holding, PushPlaces
<1> QED
  BY <1>3, ElsewhereStep

\* A notifier holds no position.
LEMMA NotifyStep ==
  ASSUME QueueInv, NEW p \in Producers, notify(p)
  PROVE  QueueInv'
<1> DEFINE at(pc) == [pc |-> pc, pos |-> producer[p].pos, n |-> producer[p].n]
<1>1. PICK pc \in {"exchange", "idle"} : producer' = [producer EXCEPT ![p].pc = pc]
  BY DEF notify, To
<1>2. /\ producer[p].pc \in {"notify", "exchange"}
      /\ UNCHANGED <<sequence, item, enqueuePos, dequeuePos, worker, copied>>
  BY DEF notify, At
<1>3. producer[p].pos \in Nat /\ producer[p].n \in 0 .. MaxFrames /\ producer[p].n # 0
  BY <1>2 DEF QueueInv, QueueTypes
<1>4. producer' = [producer EXCEPT ![p] = at(pc)]
  BY Zenon, <1>1, Replaced DEF QueueInv
<1>5. Elsewhere(p, at(pc))
  BY <1>2, <1>3, <1>4 DEF Elsewhere, Holding, PushPlaces
<1> QED
  BY <1>5, ElsewhereStep

\* The steps that leave the cells and the positions alone.
LEMMA SleepSteps ==
  ASSUME QueueInv, announce \/ check \/ acquire \/ awake \/ drained \/ stop \/ UNCHANGED queueVars
  PROVE  QueueInv'
<1>1. worker \in WorkPlaces
  BY DEF QueueInv, QueueTypes
<1>2. announce \/ check \/ acquire \/ awake => Aside
  BY DEF announce, check, acquire, awake, Worker, Aside, WorkPlaces
<1>3. drained \/ stop \/ UNCHANGED queueVars => Aside
  BY <1>1 DEF drained, stop, queueVars, Worker, Aside, WorkPlaces
<1> QED
  BY <1>2, <1>3, AsideStep

\* The invariant is inductive.
LEMMA QueueStep == QueueInv /\ [QueueNext]_queueVars => QueueInv'
<1> SUFFICES ASSUME QueueInv, [QueueNext]_queueVars PROVE QueueInv'
  OBVIOUS
<1>1. ASSUME NEW p \in Producers, deliver(p) \/ Push(p) PROVE QueueInv'
  BY <1>1, DeliverStep, LookStep, ClaimStep, ReloadStep, FillStep, PublishStep, NotifyStep DEF Push
<1>2. CASE Work
  BY <1>2, SleepSteps, PopStep, FreeStep, AdvanceStep DEF Work
<1>3. CASE stop \/ UNCHANGED queueVars
  BY <1>3, SleepSteps
<1> QED
  BY <1>1, <1>2, <1>3 DEF QueueNext

\* The ring is empty, every cell free for the position of its own number.
LEMMA QueueStart == QueueInit => QueueInv
<1> SUFFICES ASSUME QueueInit PROVE QueueInv
  OBVIOUS
<1> USE CapacityType DEF QueueInit
<1>1. Taken = 0 /\ \A p \in Producers : ~Holding(p) /\ producer[p].pc = "idle"
  BY DEF Taken, Holding
<1>2. QueueTypes
  <2>1. sequence \in [Cells -> Nat]
    BY DEF Cells
  <2> QED
    BY <2>1, FramesAreCounted DEF QueueTypes, PushPlaces, WorkPlaces
<1>3. WindowInv /\ WorkerInv /\ LookInv /\ HolderInv
  BY <1>1 DEF WindowInv, WorkerInv, LookInv, HolderInv
<1>4. CellInv
  <2>1. \A q \in 0 .. Capacity - 1 : cell(q) = q
    BY DEF cell
  <2> QED
    BY <1>1, <2>1 DEF CellInv, Cells
<1> QED
  BY <1>2, <1>3, <1>4 DEF QueueInv

-----------------------------------------------------------------------------
\* The ring's invariant holds throughout: the sequence of every cell says whose turn it is,
\* whatever the receive threads and the worker do between their atomic accesses.
THEOREM QueueInvariant == QueueSpec => []QueueInv
BY QueueStart, QueueStep, PTL DEF QueueSpec

=============================================================================
