---------------------------- MODULE PlayoutFifoProofs ----------------------------
(***************************************************************************)
(* The ring of sequenced cells implements the bounded queue of FrameFifo,  *)
(* for any number of receive threads, any capacity and any number of       *)
(* frames: every step of it is a step of that queue, or none.              *)
(***************************************************************************)
EXTENDS PlayoutProofs, SequenceTheorems

(* The ring implements the bounded queue                                   *)

\* The abstract queue, as ImplementsFifo has it.
Queue == [i \in 1 .. enqueuePos - Taken |-> Place(Taken + i - 1)]
Held == Frames \cup {<<>>}
Places == [frame : Held, readable : BOOLEAN]

\* What a claimed position and an unclaimed one show.
PlacesShow ==
  /\ \A p \in Producers :
       Holding(p) => Place(producer[p].pos) = [frame |-> Frame(p), readable |-> FALSE]
  /\ \A q : ~Claimed(q) => Place(q) = [frame |-> item[cell(q)], readable |-> TRUE]

\* The abstract queue is a sequence of the window's places.
QueueShows ==
  /\ Queue \in Seq(Places)
  /\ Len(Queue) = enqueuePos - Taken
  /\ \A i \in 1 .. enqueuePos - Taken : Queue[i] = Place(Taken + i - 1)

\* The holder of a position is the one thread that has claimed it.
LEMMA PlaceOf == QueueInv => PlacesShow
<1> SUFFICES ASSUME QueueInv PROVE PlacesShow
  OBVIOUS
<1>1. ASSUME NEW p \in Producers, Holding(p)
      PROVE  Place(producer[p].pos) = [frame |-> Frame(p), readable |-> FALSE]
  <2> DEFINE mine == {r \in Producers : producer[r].pc \in {"fill", "publish"}
                                         /\ producer[r].pos = producer[p].pos}
  <2>1. mine = {p}
    BY <1>1 DEF QueueInv, HolderInv, Holding
  <2>2. (CHOOSE r \in mine : TRUE) = p
    BY <2>1
  <2>3. mine # {}
    BY <2>1
  <2>4. Place(producer[p].pos) = [frame |-> Frame(CHOOSE r \in mine : TRUE), readable |-> FALSE]
    BY <2>3 DEF Place
  <2> HIDE DEF mine
  <2> QED
    BY Zenon, <2>2, <2>4
<1>2. ASSUME NEW q, ~Claimed(q)
      PROVE  Place(q) = [frame |-> item[cell(q)], readable |-> TRUE]
  <2>1. {r \in Producers : producer[r].pc \in {"fill", "publish"} /\ producer[r].pos = q} = {}
    BY <1>2 DEF Claimed, Holding
  <2> QED
    BY <2>1 DEF Place
<1> QED
  BY <1>1, <1>2 DEF PlacesShow

\* Every place of the window is a place of the abstract queue.
LEMMA QueueOf == QueueInv => QueueShows
<1> SUFFICES ASSUME QueueInv PROVE QueueShows
  OBVIOUS
<1>1. Taken \in Nat /\ enqueuePos \in Nat /\ Taken <= enqueuePos
  BY DEF Taken, QueueInv, QueueTypes, WindowInv
<1>2. PlacesShow
  BY PlaceOf
<1>3. ASSUME NEW q \in Nat PROVE Place(q) \in Places
  <2>1. CASE Claimed(q)
    <3>1. PICK p \in Producers : Holding(p) /\ producer[p].pos = q
      BY <2>1 DEF Claimed
    <3>2. Frame(p) \in Held
      BY <3>1 DEF Frame, Frames, Held, Holding, QueueInv, QueueTypes
    <3>3. Place(q) = [frame |-> Frame(p), readable |-> FALSE]
      BY Zenon, <1>2, <3>1 DEF PlacesShow
    <3> QED
      BY <3>2, <3>3 DEF Places
  <2>2. CASE ~Claimed(q)
    <3>1. item[cell(q)] \in Held
      BY CellType DEF QueueInv, QueueTypes, Held
    <3>2. Place(q) = [frame |-> item[cell(q)], readable |-> TRUE]
      BY <1>2, <2>2 DEF PlacesShow
    <3> QED
      BY <3>1, <3>2 DEF Places
  <2> QED
    BY <2>1, <2>2
<1> DEFINE n == enqueuePos - Taken
<1>4. n \in Nat
  BY <1>1
<1>5. \A i \in 1 .. n : Taken + i - 1 \in Nat
  BY <1>1
<1>6. \A i \in 1 .. n : Place(Taken + i - 1) \in Places
  BY <1>3, <1>5
<1>7. Queue \in [1 .. n -> Places] /\ \A i \in 1 .. n : Queue[i] = Place(Taken + i - 1)
  BY <1>6 DEF Queue
<1> HIDE DEF n
<1>8. Queue \in Seq(Places)
  BY <1>4, <1>7
<1>9. Len(Queue) = n
  BY <1>4, <1>7, <1>8
<1> QED
  BY <1>7, <1>8, <1>9 DEF QueueShows, n

\* A step that moves no place of the window is invisible in the abstract queue.
LEMMA SameQueue ==
  ASSUME QueueInv, QueueInv', Taken' = Taken, enqueuePos' = enqueuePos,
         \A r \in Producers : Holding(r)' <=> Holding(r),
         \A r \in Producers : Holding(r) => producer'[r].pos = producer[r].pos /\ Frame(r)' = Frame(r),
         \A q \in Taken .. enqueuePos - 1 : ~Claimed(q) => item'[cell(q)] = item[cell(q)]
  PROVE  Queue' = Queue
<1>1. PlacesShow /\ PlacesShow'
  BY PlaceOf, PTL
<1>2. \A q : Claimed(q)' <=> Claimed(q)
  BY DEF Claimed
<1>3. ASSUME NEW q \in Taken .. enqueuePos - 1 PROVE Place(q)' = Place(q)
  <2>1. CASE Claimed(q)
    <3>1. PICK p \in Producers : Holding(p) /\ producer[p].pos = q
      BY <2>1 DEF Claimed
    <3> QED
      BY Zenon, <1>1, <3>1 DEF PlacesShow
  <2>2. CASE ~Claimed(q)
    BY ZenonT(60), <1>1, <1>2, <2>2 DEF PlacesShow, cell
  <2> QED
    BY <2>1, <2>2
<1>4. \A i \in 1 .. enqueuePos - Taken : Taken + i - 1 \in Taken .. enqueuePos - 1
  BY DEF QueueInv, QueueTypes, Taken
<1> QED
  BY <1>3, <1>4 DEF Queue

\* A push that claims a position takes a place at the back of a queue that has one.
LEMMA ClaimPushes ==
  ASSUME QueueInv, QueueInv', NEW p \in Producers, Claims(p)
  PROVE  /\ Len(Queue) < Capacity
         /\ Queue' = Append(Queue, [frame |-> Frame(p), readable |-> FALSE])
<1> DEFINE n == enqueuePos - Taken
           back == [frame |-> Frame(p), readable |-> FALSE]
<1>1. PlacesShow /\ PlacesShow' /\ QueueShows /\ QueueShows'
  BY PlaceOf, QueueOf, PTL
<1>2. /\ producer[p].pc = "claim" /\ producer[p].pos = enqueuePos
      /\ producer' = [producer EXCEPT ![p].pc = "fill"]
      /\ enqueuePos' = enqueuePos + 1 /\ UNCHANGED <<item, dequeuePos, worker>>
  BY DEF Claims, claim, At, To
<1>3. \A r \in Producers : /\ r # p => producer'[r] = producer[r]
                          /\ producer'[r].pos = producer[r].pos /\ Frame(r)' = Frame(r)
      /\ producer'[p].pc = "fill"
  BY <1>2 DEF QueueInv, QueueTypes, Frame
<1>4. Taken' = Taken /\ Taken \in Nat /\ enqueuePos \in Nat /\ Capacity \in Nat
  BY SMTT(60), <1>2, CapacityType DEF Taken, QueueInv, QueueTypes
<1>5. enqueuePos < Taken + Capacity /\ Taken <= enqueuePos
  BY <1>2 DEF QueueInv, LookInv, WindowInv
<1>6. \A q \in Taken .. enqueuePos - 1 : Place(q)' = Place(q)
  <2> SUFFICES ASSUME NEW q \in Taken .. enqueuePos - 1 PROVE Place(q)' = Place(q)
    OBVIOUS
  <2>1. q # enqueuePos
    BY <1>4
  <2>2. CASE Claimed(q)
    <3>1. PICK r \in Producers : Holding(r) /\ producer[r].pos = q
      BY <2>2 DEF Claimed
    <3>2. Holding(r)'
      BY <1>2, <1>3, <2>1, <3>1 DEF Holding
    <3> QED
      BY Zenon, <1>1, <1>3, <3>1, <3>2 DEF PlacesShow
  <2>3. CASE ~Claimed(q)
    <3>1. ~Claimed(q)'
      BY <1>2, <1>3, <2>1, <2>3 DEF Claimed, Holding
    <3> QED
      BY ZenonT(60), <1>1, <1>2, <2>3, <3>1 DEF PlacesShow, cell
  <2> QED
    BY <2>2, <2>3
<1>7. (\A q : q = enqueuePos => Place(q)' = back) /\ back \in Places
  <2>1. Holding(p)' /\ producer'[p].pos = enqueuePos
    BY <1>2, <1>3 DEF Holding
  <2>2. Frame(p) \in Frames
    BY <1>2 DEF Frame, Frames, QueueInv, QueueTypes
  <2> QED
    BY Zenon, <1>1, <1>3, <2>1, <2>2 DEF PlacesShow, Places, Held
<1>8. Len(Queue) = n /\ n \in Nat /\ n < Capacity /\ enqueuePos' - Taken' = n + 1
  BY <1>1, <1>2, <1>4, <1>5 DEF QueueShows
<1>9. Queue' \in Seq(Places) /\ Queue \in Seq(Places) /\ Len(Queue') = n + 1
  BY <1>1, <1>8 DEF QueueShows
<1>10. ASSUME NEW i \in 1 .. n + 1 PROVE Queue'[i] = Append(Queue, back)[i]
  <2> DEFINE q == Taken + i - 1
  <2>1. \A k : k = q => Queue'[i] = Place(k)'
    BY <1>1, <1>4, <1>8 DEF QueueShows
  <2>2. CASE i = n + 1
    <3>1. q = enqueuePos
      BY <1>4, <2>2
    <3>2. Append(Queue, back)[i] = back
      <4>1. Append(Queue, back)[Len(Queue) + 1] = back
        BY <1>7, <1>9, AppendProperties
      <4> QED
        BY <1>8, <2>2, <4>1
    <3> QED
      BY Zenon, <1>7, <2>1, <3>1, <3>2
  <2>3. CASE i # n + 1
    <3>1. i \in 1 .. n /\ q \in Taken .. enqueuePos - 1
      BY <1>4, <1>8, <2>3
    <3>2. Queue[i] = Place(q)
      BY <1>1, <3>1 DEF QueueShows
    <3>3. Append(Queue, back)[i] = Queue[i]
      BY SMTT(60), <1>7, <1>8, <1>9, <3>1, AppendProperties
    <3> QED
      BY ZenonT(60), <1>6, <2>1, <3>1, <3>2, <3>3
  <2> QED
    BY Zenon, <2>2, <2>3
<1>11. Queue' = Append(Queue, back)
  <2> HIDE DEF n, back
  <2>1. Append(Queue, back) \in Seq(Places) /\ Len(Append(Queue, back)) = n + 1
    BY <1>7, <1>8, <1>9, AppendProperties
  <2> QED
    BY SMTT(60), <1>9, <1>10, <2>1, SeqEqual
<1> QED
  BY <1>8, <1>11

\* A place with its mark replaced.
LEMMA Marked ==
  \A r \in Places : [r EXCEPT !.readable = TRUE] = [frame |-> r.frame, readable |-> TRUE]
<1>1. \A F, M, m : \A r \in [frame : F, readable : M] :
        [r EXCEPT !.readable = m] = [frame |-> r.frame, readable |-> m]
  OBVIOUS
<1>2. \A F, m : \A r \in [frame : F, readable : BOOLEAN] :
        [r EXCEPT !.readable = m] = [frame |-> r.frame, readable |-> m]
  BY <1>1, ZenonT(60)
<1>3. \A F : \A r \in [frame : F, readable : BOOLEAN] :
        [r EXCEPT !.readable = TRUE] = [frame |-> r.frame, readable |-> TRUE]
  BY <1>2, Zenon
<1> QED
  BY <1>3, Zenon DEF Places

\* A published position becomes readable, and none else.
LEMMA PublishReveals ==
  ASSUME QueueInv, QueueInv', NEW p \in Producers, publish(p)
  PROVE  \E i \in DOMAIN Queue : Queue' = [Queue EXCEPT ![i].readable = TRUE]
<1> DEFINE pos == producer[p].pos
           n == enqueuePos - Taken
           i == pos - Taken + 1
           shown == [frame |-> Frame(p), readable |-> TRUE]
<1>1. PlacesShow /\ PlacesShow' /\ QueueShows /\ QueueShows'
  BY PlaceOf, QueueOf, PTL
<1>2. /\ producer[p].pc = "publish" /\ Holding(p)
      /\ producer' = [producer EXCEPT ![p].pc = "notify"]
      /\ UNCHANGED <<item, enqueuePos, dequeuePos, worker>>
  BY DEF publish, At, To, Holding
<1>3. \A r \in Producers : /\ r # p => producer'[r] = producer[r]
                          /\ producer'[r].pos = producer[r].pos /\ Frame(r)' = Frame(r)
      /\ producer'[p].pc = "notify"
  BY <1>2 DEF QueueInv, QueueTypes, Frame
<1>4. \A r \in Producers : Holding(r)' <=> Holding(r) /\ r # p
  BY <1>2, <1>3 DEF Holding
<1>5. \A q : Claimed(q)' <=> Claimed(q) /\ q # pos
  BY <1>2, <1>3, <1>4 DEF Claimed, QueueInv, HolderInv
<1>6. Taken' = Taken /\ Taken \in Nat /\ enqueuePos \in Nat /\ pos \in Taken .. enqueuePos - 1
  BY <1>2 DEF Taken, QueueInv, QueueTypes, HolderInv
<1>7. n \in Nat /\ i \in 1 .. n /\ Taken + i - 1 = pos
  BY <1>6
<1>8. \A q : q # pos => Place(q)' = Place(q)
  <2> SUFFICES ASSUME NEW q, q # pos PROVE Place(q)' = Place(q)
    OBVIOUS
  <2>1. CASE Claimed(q)
    <3>1. PICK r \in Producers : Holding(r) /\ producer[r].pos = q
      BY <2>1 DEF Claimed
    <3> QED
      BY ZenonT(60), <1>1, <1>3, <1>4, <3>1 DEF PlacesShow
  <2>2. CASE ~Claimed(q)
    BY ZenonT(60), <1>1, <1>2, <1>5, <2>2 DEF PlacesShow, cell
  <2> QED
    BY <2>1, <2>2
<1>9. \A q : q = pos => Place(q)' = shown /\ Place(q) = [frame |-> Frame(p), readable |-> FALSE]
  <2>1. item[cell(pos)] = Frame(p)
    BY <1>2 DEF QueueInv, HolderInv
  <2> QED
    BY ZenonT(60), <1>1, <1>2, <1>5, <2>1 DEF PlacesShow, cell
<1>10. /\ Queue \in [1 .. n -> Places] /\ Queue' \in [1 .. n -> Places]
  BY <1>1, <1>2, <1>6, LenProperties DEF QueueShows
<1>11. [Queue[i] EXCEPT !.readable = TRUE] = shown
  <2>1. Queue[i] = [frame |-> Frame(p), readable |-> FALSE]
    BY ZenonT(60), <1>1, <1>7, <1>9 DEF QueueShows
  <2> HIDE DEF i, n
  <2>2. Queue[i] \in Places
    BY <1>7, <1>10
  <2>3. Queue[i].frame = Frame(p)
    BY <2>1
  <2> QED
    BY <2>2, <2>3, Marked
<1>12. \A k \in 1 .. n : Queue'[k] = IF k = i THEN shown ELSE Queue[k]
  <2> SUFFICES ASSUME NEW k \in 1 .. n PROVE Queue'[k] = IF k = i THEN shown ELSE Queue[k]
    BY Zenon
  <2> DEFINE q == Taken + k - 1
  <2>1. \A x : x = q => Queue'[k] = Place(x)' /\ Queue[k] = Place(x)
    BY <1>1, <1>2, <1>6 DEF QueueShows
  <2>2. q = pos <=> k = i
    <3>1. Taken \in Int /\ pos \in Int /\ k \in Int
      BY <1>6
    <3> HIDE DEF pos
    <3> QED
      BY <3>1
  <2> QED
    BY Zenon, <1>8, <1>9, <2>1, <2>2
<1> HIDE DEF i, n, shown
<1>13. Queue' = [Queue EXCEPT ![i] = shown]
  BY <1>7, <1>10, <1>12
<1>14. [Queue EXCEPT ![i].readable = TRUE] = [Queue EXCEPT ![i] = [Queue[i] EXCEPT !.readable = TRUE]]
  BY <1>7, <1>10
<1>15. i \in DOMAIN Queue
  BY <1>7, <1>10
<1> QED
  BY Zenon, <1>11, <1>13, <1>14, <1>15

\* The cell the worker frees is the front of the queue, readable, and its frame the one copied.
LEMMA FreePops ==
  ASSUME QueueInv, QueueInv', free
  PROVE  /\ Queue # <<>> /\ Queue[1].readable
         /\ played' = Append(played, Queue[1].frame)
         /\ Queue' = Tail(Queue)
<1> DEFINE n == enqueuePos - Taken
<1>1. PlacesShow /\ PlacesShow' /\ QueueShows /\ QueueShows'
  BY PlaceOf, QueueOf, PTL
<1>2. /\ worker = "free" /\ worker' = "advance" /\ played' = Append(played, copied)
      /\ UNCHANGED <<item, enqueuePos, dequeuePos, producer>>
  BY DEF free, Worker
<1>3. Taken = dequeuePos /\ Taken' = Taken + 1 /\ Taken \in Nat /\ enqueuePos \in Nat
  BY <1>2 DEF Taken, QueueInv, QueueTypes
<1>4. Taken < enqueuePos /\ ~Claimed(Taken) /\ copied = item[cell(Taken)]
  BY <1>2, <1>3 DEF QueueInv, WorkerInv
<1>5. n \in Nat /\ n > 0 /\ enqueuePos' - Taken' = n - 1 /\ Taken + 1 - 1 = Taken
  BY <1>2, <1>3, <1>4
<1>6. Queue[1] = [frame |-> copied, readable |-> TRUE]
  <2>1. 1 \in 1 .. n
    BY <1>5
  <2>2. Queue[1] = Place(Taken)
    BY <1>1, <1>5, <2>1 DEF QueueShows
  <2> QED
    BY <1>1, <1>4, <2>2 DEF PlacesShow
<1>7. \A q : Place(q)' = Place(q)
  BY <1>2 DEF Place, Frame, cell
<1>8. Queue \in Seq(Places) /\ Len(Queue) = n /\ Queue' \in Seq(Places) /\ Len(Queue') = n - 1
  BY <1>1, <1>5 DEF QueueShows
<1>9. Queue # <<>>
  BY <1>5, <1>8
<1>10. Tail(Queue) \in Seq(Places) /\ Len(Tail(Queue)) = n - 1
       /\ \A k \in 1 .. n - 1 : Tail(Queue)[k] = Queue[k + 1]
  BY <1>8, <1>9, HeadTailProperties
<1>11. \A k \in 1 .. n - 1 : Queue'[k] = Queue[k + 1]
  <2> SUFFICES ASSUME NEW k \in 1 .. n - 1 PROVE Queue'[k] = Queue[k + 1]
    OBVIOUS
  <2> DEFINE q == Taken + k
  <2>1. k + 1 \in 1 .. n /\ Taken + (k + 1) - 1 = q /\ Taken' + k - 1 = q
    BY <1>3, <1>5
  <2>2. \A x : x = q => Queue'[k] = Place(x)'
    BY <1>1, <1>5, <2>1 DEF QueueShows
  <2>3. Queue[k + 1] = Place(q)
    BY <1>1, <2>1 DEF QueueShows
  <2> QED
    BY <1>7, <2>2, <2>3
<1>12. Queue' = Tail(Queue)
  <2> HIDE DEF n
  <2> QED
    BY <1>8, <1>10, <1>11, SeqEqual
<1> QED
  BY <1>2, <1>6, <1>9, <1>12

\* A frame is refused only when every place is taken.
LEMMA RefusedIsFull ==
  ASSUME QueueInv, NEW p \in Producers, producer[p].pc = "look",
         sequence[cell(producer[p].pos)] < producer[p].pos
  PROVE  Len(Queue) = Capacity
<1> DEFINE pos == producer[p].pos
<1>1. Taken \in Nat /\ enqueuePos \in Nat /\ Capacity \in Nat /\ pos \in Nat
      /\ sequence[cell(pos)] \in Nat
  BY CapacityType, CellType DEF Taken, QueueInv, QueueTypes
<1>2. pos = enqueuePos
  BY <1>1 DEF QueueInv, LookInv
<1>3. Taken <= enqueuePos /\ enqueuePos <= Taken + Capacity
  BY DEF QueueInv, WindowInv
<1>4. enqueuePos \notin enqueuePos .. Taken + Capacity - 1
  BY <1>1, <1>2 DEF QueueInv, CellInv
<1>5. enqueuePos = Taken + Capacity
  BY <1>1, <1>3, <1>4
<1> QED
  BY <1>1, <1>5, QueueOf DEF QueueShows

-----------------------------------------------------------------------------
\* A step of the ring that the abstract queue does not see.
Unseen == UNCHANGED <<Queue, refused, played>>

\* A step of a push other than the claim and the publication.
Between(p) == deliver(p) \/ fill(p) \/ notify(p) \/ look(p) \/ (claim(p) /\ ~Claims(p))

\* Such a step leaves the queue.
LEMMA PushKeepsQueue ==
  ASSUME QueueInv, QueueInv', NEW p \in Producers, Between(p)
  PROVE  Queue' = Queue
<1> USE DEF Between
<1>1. UNCHANGED <<enqueuePos, dequeuePos, worker>> /\ Taken' = Taken
  BY Zenon DEF deliver, fill, notify, look, claim, Claims, Taken
<1>2. CASE fill(p)
  <2>1. /\ producer[p].pc = "fill" /\ Holding(p)
        /\ producer' = [producer EXCEPT ![p].pc = "publish"]
        /\ item' = [item EXCEPT ![cell(producer[p].pos)] = Frame(p)]
    BY <1>2 DEF fill, At, To, Holding
  <2>2. \A r \in Producers : /\ Holding(r)' <=> Holding(r)
                            /\ producer'[r].pos = producer[r].pos /\ Frame(r)' = Frame(r)
    BY SMTT(60), <2>1 DEF QueueInv, QueueTypes, Holding, Frame
  <2>3. ASSUME NEW q \in Taken .. enqueuePos - 1, ~Claimed(q) PROVE item'[cell(q)] = item[cell(q)]
    <3>1. q # producer[p].pos /\ producer[p].pos \in Taken .. enqueuePos - 1
      BY <2>1, <2>3 DEF Claimed, QueueInv, HolderInv
    <3>2. Taken \in Nat /\ enqueuePos \in Nat /\ Capacity \in Nat /\ enqueuePos <= Taken + Capacity
      BY CapacityType DEF Taken, QueueInv, QueueTypes, WindowInv
    <3>3. {q, producer[p].pos} \subseteq Taken .. Taken + Capacity - 1 /\ q \in Nat
      BY <3>1, <3>2
    <3>4. cell(q) # cell(producer[p].pos) /\ cell(q) \in Cells
      BY SMTT(60), <3>1, <3>3, WindowCells, CellType
    <3> QED
      BY <2>1, <3>4 DEF QueueInv, QueueTypes
  <2> QED
    BY Zenon, <1>1, <2>2, <2>3, SameQueue
<1>3. CASE ~fill(p)
  <2>1. item' = item /\ \A r \in Producers : r # p => producer'[r] = producer[r]
    BY SMTT(60), <1>3 DEF deliver, notify, look, claim, Claims, To, Go, QueueInv, QueueTypes
  <2>2. ~Holding(p) /\ ~Holding(p)'
    <3>1. ~Holding(p)
      BY Zenon, <1>3 DEF deliver, notify, look, claim, At, Holding
    <3>2. producer'[p].pc \in {"look", "claim", "exchange", "idle"}
      <4>1. CASE deliver(p)
        BY <4>1 DEF deliver, QueueInv, QueueTypes
      <4>2. CASE notify(p)
        BY <4>2 DEF notify, To, QueueInv, QueueTypes
      <4>3. CASE look(p) \/ (claim(p) /\ ~Claims(p))
        <5>1. To(p, "claim") \/ To(p, "idle") \/ Go(p, "look", enqueuePos)
          BY Zenon, <4>3 DEF look, claim, Claims
        <5> QED
          BY <5>1 DEF To, Go, QueueInv, QueueTypes
      <4> QED
        BY <1>3, <4>1, <4>2, <4>3, ZenonT(60)
    <3> QED
      BY <3>1, <3>2 DEF Holding
  <2>3. /\ \A r \in Producers : Holding(r)' <=> Holding(r)
        /\ \A r \in Producers :
             Holding(r) => producer'[r].pos = producer[r].pos /\ Frame(r)' = Frame(r)
    BY <2>1, <2>2 DEF Holding, Frame
  <2>4. \A q \in Taken .. enqueuePos - 1 : ~Claimed(q) => item'[cell(q)] = item[cell(q)]
    BY <2>1
  <2> QED
    BY SMTT(60), <1>1, <2>3, <2>4, SameQueue
<1> QED
  BY <1>2, <1>3

\* The steps of the worker but for the freeing of a cell, the destructor's, and none at all.
LEMMA WorkUnseen ==
  ASSUME QueueInv, QueueInv',
         \/ announce \/ check \/ acquire \/ awake \/ pop \/ advance \/ drained \/ stop
         \/ UNCHANGED queueVars
  PROVE  Unseen
<1>1. UNCHANGED <<item, enqueuePos, producer, refused, played>>
  BY DEF announce, check, acquire, awake, pop, advance, drained, stop, queueVars
<1>2. Taken' = Taken
  <2>1. CASE advance
    BY <2>1 DEF advance, Worker, Taken, QueueInv, QueueTypes
  <2>2. CASE ~advance
    BY <2>2 DEF announce, check, acquire, awake, pop, drained, stop, queueVars, Worker, Taken
  <2> QED
    BY <2>1, <2>2
<1>3. \A r \in Producers : /\ Holding(r)' <=> Holding(r)
                          /\ producer'[r].pos = producer[r].pos /\ Frame(r)' = Frame(r)
  BY <1>1 DEF Holding, Frame
<1> QED
  BY <1>1, <1>2, <1>3, SameQueue DEF Unseen

\* What the ring does is what the abstract queue may do.
LEMMA FifoStep == QueueInv /\ QueueInv' /\ [QueueNext]_queueVars => [Fifo!Next]_(Fifo!fifoVars)
<1> SUFFICES ASSUME QueueInv, QueueInv', [QueueNext]_queueVars PROVE [Fifo!Next]_(Fifo!fifoVars)
  OBVIOUS
<1>1. Unseen => UNCHANGED Fifo!fifoVars
  BY DEF Unseen, Queue, Fifo!fifoVars
<1>2. ASSUME NEW p \in Producers, Claims(p) PROVE Fifo!Next
  <2>1. Frame(p) \in Producers \X (1 .. MaxFrames)
    BY <1>2 DEF Claims, claim, At, Frame, QueueInv, QueueTypes
  <2>2. UNCHANGED <<refused, played>>
    BY Zenon, <1>2 DEF Claims, claim
  <2>3. Fifo!Push(Frame(p))
    BY Zenon, <1>2, <2>2, ClaimPushes DEF Fifo!Push, Queue
  <2> QED
    BY <2>1, <2>3 DEF Fifo!Next
<1>3. ASSUME NEW p \in Producers, look(p), sequence[cell(producer[p].pos)] < producer[p].pos
      PROVE  Fifo!Next
  <2>1. Frame(p) \in Producers \X (1 .. MaxFrames)
    <3>1. producer[p].n \in 1 .. MaxFrames
      BY <1>3 DEF look, At, QueueInv, QueueTypes
    <3> QED
      BY <3>1 DEF Frame
  <2>2. refused' = refused \cup {Frame(p)} /\ played' = played
    <3>1. producer[p].pos \in Nat /\ sequence[cell(producer[p].pos)] \in Nat
      BY Zenon, CellType DEF QueueInv, QueueTypes
    <3>2. ~(sequence[cell(producer[p].pos)] = producer[p].pos)
          /\ ~(sequence[cell(producer[p].pos)] > producer[p].pos)
      BY <1>3, <3>1
    <3> QED
      BY <1>3, <3>2 DEF look
  <2>3. Queue' = Queue
    <3>1. Between(p)
      BY <1>3 DEF Between
    <3> QED
      BY <3>1, PushKeepsQueue
  <2>4. Len(Queue) = Capacity
    BY <1>3, RefusedIsFull DEF look, At
  <2>5. Fifo!Refuse(Frame(p))
    BY Zenon, <2>2, <2>3, <2>4 DEF Fifo!Refuse, Queue
  <2> QED
    BY <2>1, <2>5 DEF Fifo!Next
<1>4. ASSUME NEW p \in Producers, publish(p) PROVE Fifo!Next
  <2>1. UNCHANGED <<refused, played>>
    BY <1>4 DEF publish
  <2>2. PICK i \in DOMAIN Queue : Queue' = [Queue EXCEPT ![i].readable = TRUE]
    BY <1>4, PublishReveals
  <2>3. Fifo!Reveal(i)
    BY <2>1, <2>2 DEF Fifo!Reveal, Queue
  <2> QED
    BY <2>2, <2>3 DEF Fifo!Next, Queue
<1>5. CASE free
  <2>1. UNCHANGED refused
    BY <1>5 DEF free
  <2>2. Fifo!Pop
    BY Zenon, <1>5, <2>1, FreePops DEF Fifo!Pop, Queue
  <2> QED
    BY <2>2 DEF Fifo!Next
<1>6. ASSUME NEW p \in Producers,
             \/ deliver(p) \/ fill(p) \/ notify(p)
             \/ claim(p) /\ ~Claims(p)
             \/ look(p) /\ ~(sequence[cell(producer[p].pos)] < producer[p].pos)
      PROVE  Unseen
  <2>1. UNCHANGED <<refused, played>>
    BY Zenon, <1>6 DEF deliver, fill, notify, claim, look
  <2>2. Queue' = Queue
    <3>1. Between(p)
      BY Zenon, <1>6 DEF Between
    <3> QED
      BY <3>1, PushKeepsQueue
  <2> QED
    BY <2>1, <2>2 DEF Unseen
<1>7. ASSUME NEW p \in Producers, deliver(p) \/ Push(p) PROVE [Fifo!Next]_(Fifo!fifoVars)
  BY <1>1, <1>2, <1>3, <1>4, <1>6, <1>7 DEF Push
<1>8. CASE Work
  BY <1>1, <1>5, <1>8, WorkUnseen DEF Work
<1>9. CASE stop \/ UNCHANGED queueVars
  BY <1>1, <1>9, WorkUnseen
<1> QED
  BY <1>7, <1>8, <1>9 DEF QueueNext

\* The ring starts as the empty queue.
LEMMA FifoStart == QueueInit => Fifo!Init
<1> SUFFICES ASSUME QueueInit PROVE Fifo!Init
  OBVIOUS
<1>1. QueueShows
  BY QueueStart, QueueOf
<1>2. enqueuePos = 0 /\ Taken = 0 /\ refused = {} /\ played = <<>>
  BY DEF QueueInit, Taken
<1>3. Queue = <<>>
  BY <1>1, <1>2 DEF QueueShows
<1> QED
  BY <1>2, <1>3 DEF Fifo!Init, Queue

\* MpscQueue is a bounded first-in first-out queue for any number of receive threads, any
\* capacity and however their atomic accesses interleave: a frame is taken in at the back or
\* refused when every place is taken, none is lost, doubled or torn, and the playout thread
\* takes them in the order of their places.
THEOREM RingImplementsFifo == QueueSpec => ImplementsFifo
<1>1. QueueInv /\ QueueInv' /\ [QueueNext]_queueVars => [Fifo!Next]_(Fifo!fifoVars)
  BY FifoStep
<1> QED
  BY <1>1, FifoStart, QueueInvariant, PTL DEF QueueSpec, ImplementsFifo, Fifo!Spec

=============================================================================
