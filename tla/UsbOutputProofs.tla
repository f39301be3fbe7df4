--------------------------- MODULE UsbOutputProofs ----------------------------
(***************************************************************************)
(* Proofs about a claimed pad's feedback (UsbOutput), for any number of    *)
(* producers and of kinds: what reaches the pad is whole, in order and     *)
(* through an open handle, and no wake-up is lost.                         *)
(***************************************************************************)
EXTENDS UsbOutput, TLAPS

-----------------------------------------------------------------------------
(* The inductive invariant.                                                *)

Words == [1..2 -> Nat]
Values == [outputKinds -> Words]

InTurn == {"begin", "first", "second", "end", "pend", "free"}
Writing == {"first", "second", "end"}
Places == InTurn \cup {"idle", "look", "swap", "release"}
Stops == {"claimed", "look", "swap", "release", "join", "close", "closed"}
Copying == {"copyFirst", "copySecond", "validate"}
Ats == Copying \cup {"check", "announce", "lookStop", "lookPending", "asleep", "awake", "take", "generation",
                     "write", "repend", "ended"}

ThreadTypes ==
    /\ writer \in Producers \cup {NoProducer}
    /\ sleeping \in BOOLEAN /\ stopping \in BOOLEAN /\ handle \in BOOLEAN
    /\ place \in [Producers -> Places] /\ at \in Ats /\ stop \in Stops
    /\ pending \subseteq outputKinds /\ kinds \subseteq outputKinds
    /\ outputKind \in [Producers -> outputKinds]

DataTypes ==
    /\ gen \in Nat /\ before \in Nat /\ wake \in Nat /\ posts \in Nat
    /\ state \in Values /\ taken \in Values /\ shown \in Values
    /\ next \in [Producers -> Values]

Whole(v) == \A k \in outputKinds : v[k][1] = v[k][2]
Below(u, v) == \A k \in outputKinds, w \in 1..2 : u[k][w] <= v[k][w]

(* The turn is one producer's, and the generation is odd exactly while it  *)
(* stores.                                                                 *)
TurnInv ==
    /\ \A p \in Producers : place[p] \in InTurn <=> writer = p
    /\ \A p \in Producers : place[p] \in InTurn => (place[p] \in Writing <=> gen % 2 = 1)
    /\ writer = NoProducer => gen % 2 = 0

(* The state is whole while the generation is even; what the turn's holder *)
(* prepared is whole, and newer in every word than what it replaces.       *)
StateInv ==
    /\ gen % 2 = 0 => Whole(state)
    /\ \A k \in outputKinds, w \in 1..2 : state[k][w] <= posts
    /\ \A p \in Producers : place[p] \in InTurn =>
          /\ Whole(next[p]) /\ Below(state, next[p])
          /\ \A k \in outputKinds, w \in 1..2 : next[p][k][w] <= posts
          /\ place[p] \in {"second", "end"} => \A k \in outputKinds : state[k][1] = next[p][k][1]
          /\ place[p] = "end" => \A k \in outputKinds : state[k][2] = next[p][k][2]

(* A copy made under a generation that has not moved is the state, as far  *)
(* as it got; one that passed validation is whole, no newer than the state *)
(* and no older than what the pad shows.                                   *)
TakenInv ==
    /\ Whole(shown) /\ Below(shown, state)
    /\ at \in Copying => before % 2 = 0 /\ before <= gen
    /\ at \in {"copySecond", "validate"} /\ gen = before => \A k \in outputKinds : taken[k][1] = state[k][1]
    /\ at = "validate" /\ gen = before => \A k \in outputKinds : taken[k][2] = state[k][2]
    /\ at = "write" => Whole(taken) /\ Below(shown, taken) /\ Below(taken, state)

(* The handle is closed last, after the worker has ended.                  *)
ReleaseInv ==
    /\ stopping <=> stop # "claimed"
    /\ handle <=> stop # "closed"
    /\ stop \in {"close", "closed"} => at = "ended"

Releasing == stop = "release" \/ \E p \in Producers : place[p] = "release"
Notifying == \E p \in Producers : place[p] \in {"free", "look", "swap"}

(* Whoever cleared the flag of a worker on its way to sleep releases the   *)
(* semaphore; what came after the worker's looks has its notify ahead.     *)
WakeInv ==
    /\ at \in {"lookStop", "lookPending", "asleep"} /\ ~sleeping => wake > 0 \/ Releasing
    /\ at = "asleep" /\ pending # {} /\ sleeping => Notifying
    /\ at \in {"lookPending", "asleep"} /\ stopping /\ sleeping => stop \in {"look", "swap"}

OutputInv == ThreadTypes /\ DataTypes /\ TurnInv /\ StateInv /\ TakenInv /\ ReleaseInv /\ WakeInv

-----------------------------------------------------------------------------
(* Operators.                                                              *)

\* The pair of one number twice is a value's two words.
LEMMA PairIsWords == ASSUME NEW a \in Nat PROVE <<a, a>> \in Words /\ <<a, a>>[1] = a /\ <<a, a>>[2] = a
  BY DEF Words

LEMMA BlankIsValues == Blank \in Values /\ \A k \in outputKinds, w \in 1..2 : Blank[k][w] = 0
  BY PairIsWords DEF Blank, Values

\* What storing one word of every kind makes of a state, or copying one of a copy.
WithWord(s, n, w) == [k \in outputKinds |-> [s[k] EXCEPT ![w] = n[k][w]]]

LEMMA StoreWord ==
  ASSUME NEW s \in Values, NEW n \in Values, NEW w \in 1..2
  PROVE  /\ WithWord(s, n, w) \in Values
         /\ \A k \in outputKinds : WithWord(s, n, w)[k][w] = n[k][w]
         /\ \A k \in outputKinds, v \in 1..2 : v # w => WithWord(s, n, w)[k][v] = s[k][v]
  BY DEF Values, Words, WithWord

\* What editing one kind makes of a state.
WithKind(s, k, a) == [s EXCEPT ![k] = <<a, a>>]

LEMMA EditKind ==
  ASSUME NEW s \in Values, NEW k \in outputKinds, NEW a \in Nat
  PROVE  /\ WithKind(s, k, a) \in Values
         /\ \A w \in 1..2 : WithKind(s, k, a)[k][w] = a
         /\ \A h \in outputKinds : h # k => WithKind(s, k, a)[h] = s[h]
  BY PairIsWords DEF Values, WithKind

-----------------------------------------------------------------------------
(* Steps.                                                                  *)

USE DEF Go, Turn, Stop, mailbox, waking, producing, working

LEMMA ThreadTypesStep == ThreadTypes /\ [OutputNext]_outputVars => ThreadTypes'
<1> SUFFICES ASSUME ThreadTypes, [OutputNext]_outputVars PROVE ThreadTypes'
  OBVIOUS
<1> USE DEF ThreadTypes, Places, InTurn, Ats, Copying, Stops
<1>0. NoKind \in outputKinds
  BY OutputAssumption DEF NoKind
<1>1. ASSUME NEW p \in Producers, takeTurn(p) PROVE ThreadTypes'
  BY <1>1 DEF takeTurn
<1>2. ASSUME NEW p \in Producers, beginWrite(p) \/ endWrite(p) PROVE ThreadTypes'
  BY <1>2 DEF beginWrite, endWrite
<1>3. ASSUME NEW p \in Producers, store(p, 1, "first", "second") \/ store(p, 2, "second", "end")
      PROVE  ThreadTypes'
  BY <1>3 DEF store
<1>4. ASSUME NEW p \in Producers, setPending(p) PROVE ThreadTypes'
  BY <1>4 DEF setPending
<1>5. ASSUME NEW p \in Producers, giveTurn(p) PROVE ThreadTypes'
  BY <1>0, <1>5 DEF giveTurn
<1>6. ASSUME NEW p \in Producers, notify(p) PROVE ThreadTypes'
  <2>1. place' \in [Producers -> Places]
    BY <1>6 DEF notify
  <2>2. sleeping' \in BOOLEAN
    BY Zenon, <1>6 DEF notify
  <2> QED
    BY ZenonT(60), <1>6, <2>1, <2>2 DEF notify
<1>7. CASE running \/ announce \/ hasWork \/ acquire \/ awake
  BY ZenonT(60), <1>7 DEF running, announce, hasWork, acquire, awake
<1>8. CASE take \/ repend
  BY <1>8 DEF take, repend
<1>9. CASE readGeneration \/ copy(1, "copyFirst", "copySecond") \/ copy(2, "copySecond", "validate") \/ validate
  BY <1>9 DEF readGeneration, copy, validate
<1>10. CASE writeTaken
  BY <1>10 DEF writeTaken
<1>11. CASE release
  BY ZenonT(60), <1>11 DEF release, join
<1>12. CASE UNCHANGED outputVars
  BY <1>12 DEF outputVars
<1> QED
  BY <1>1, <1>2, <1>3, <1>4, <1>5, <1>6, <1>7, <1>8, <1>9, <1>10, <1>11, <1>12
     DEF OutputNext, worker, post

LEMMA DataTypesStep == ThreadTypes /\ DataTypes /\ [OutputNext]_outputVars => DataTypes'
<1> SUFFICES ASSUME ThreadTypes, DataTypes, [OutputNext]_outputVars PROVE DataTypes'
  OBVIOUS
<1> USE DEF DataTypes
<1>1. ASSUME NEW p \in Producers, takeTurn(p) PROVE DataTypes'
  <2>1. PICK k \in outputKinds : next' = [next EXCEPT ![p] = WithKind(state, k, posts + 1)]
    BY Zenon, <1>1 DEF takeTurn, WithKind
  <2>2. WithKind(state, k, posts + 1) \in Values
    BY EditKind
  <2>3. next' \in [Producers -> Values]
    BY <2>1, <2>2
  <2> QED
    BY <1>1, <2>3 DEF takeTurn
<1>2. ASSUME NEW p \in Producers, beginWrite(p) \/ endWrite(p) PROVE DataTypes'
  BY <1>2 DEF beginWrite, endWrite
<1>3. ASSUME NEW p \in Producers, NEW w \in 1..2, NEW from, NEW to, store(p, w, from, to) PROVE DataTypes'
  <2>1. next[p] \in Values
    OBVIOUS
  <2>2. state' = WithWord(state, next[p], w)
    BY Zenon, <1>3 DEF store, WithWord
  <2>3. state' \in Values
    BY <2>1, <2>2, StoreWord
  <2> QED
    BY <1>3, <2>3 DEF store
<1>4. ASSUME NEW p \in Producers, setPending(p) PROVE DataTypes'
  BY <1>4 DEF setPending
<1>5. ASSUME NEW p \in Producers, giveTurn(p) PROVE DataTypes'
  BY <1>5, BlankIsValues DEF giveTurn
<1>6. ASSUME NEW p \in Producers, notify(p) PROVE DataTypes'
  BY <1>6 DEF notify
<1>7. CASE running \/ announce \/ hasWork \/ acquire \/ awake
  BY SMTT(60), <1>7 DEF running, announce, hasWork, acquire, awake
<1>8. CASE take \/ repend
  BY <1>8, BlankIsValues DEF take, repend
<1>9. CASE readGeneration \/ validate
  BY <1>9 DEF readGeneration, validate
<1>10. ASSUME NEW w \in 1..2, NEW from, NEW to, copy(w, from, to) PROVE DataTypes'
  <2>1. taken' = WithWord(taken, state, w)
    BY Zenon, <1>10 DEF copy, WithWord
  <2>2. taken' \in Values
    BY <2>1, StoreWord
  <2> QED
    BY <1>10, <2>2 DEF copy
<1>11. CASE writeTaken
  <2>1. PICK k \in kinds : shown' = [shown EXCEPT ![k] = taken[k]]
    BY Zenon, <1>11 DEF writeTaken
  <2>2. k \in outputKinds /\ taken[k] \in Words
    BY DEF ThreadTypes, Values
  <2>3. shown' \in Values
    BY <2>1, <2>2 DEF Values
  <2>4. before' \in Nat /\ taken' \in Values
    BY <1>11, BlankIsValues DEF writeTaken
  <2> QED
    BY <1>11, <2>3, <2>4 DEF writeTaken
<1>12. CASE release
  BY <1>12 DEF release, join
<1>13. CASE UNCHANGED outputVars
  BY <1>13 DEF outputVars
<1> QED
  BY <1>1, <1>2, <1>3, <1>4, <1>5, <1>6, <1>7, <1>8, <1>9, <1>10, <1>11, <1>12, <1>13
     DEF OutputNext, worker, post

\* The worker and the release leave the mailbox's turn, generation and state to the producers.
LEMMA ProducersOnly ==
  worker \/ release \/ UNCHANGED outputVars => UNCHANGED <<writer, gen, state, place, next, posts>>
<1>1. CASE running \/ announce \/ hasWork \/ acquire \/ awake \/ take \/ repend
  BY <1>1 DEF running, announce, hasWork, acquire, awake, take, repend
<1>2. CASE readGeneration \/ copy(1, "copyFirst", "copySecond") \/ copy(2, "copySecond", "validate")
           \/ validate \/ writeTaken
  BY <1>2 DEF readGeneration, copy, validate, writeTaken
<1>3. CASE release \/ UNCHANGED outputVars
  BY <1>3 DEF release, join, outputVars
<1> QED
  BY <1>1, <1>2, <1>3 DEF worker

LEMMA TurnStep == ThreadTypes /\ DataTypes /\ TurnInv /\ [OutputNext]_outputVars => TurnInv'
<1> SUFFICES ASSUME ThreadTypes, DataTypes, TurnInv, [OutputNext]_outputVars PROVE TurnInv'
  OBVIOUS
<1>t. /\ place \in [Producers -> Places] /\ gen \in Nat /\ NoProducer \notin Producers
      /\ \A p \in Producers : place[p] \in InTurn <=> writer = p
      /\ \A p \in Producers : place[p] \in InTurn => (place[p] \in Writing <=> gen % 2 = 1)
      /\ writer = NoProducer => gen % 2 = 0
  BY OutputAssumption DEF ThreadTypes, DataTypes, TurnInv
<1>1. ASSUME NEW p \in Producers, takeTurn(p) PROVE TurnInv'
  BY <1>t, <1>1 DEF takeTurn, TurnInv, InTurn, Writing
<1>2. ASSUME NEW p \in Producers, beginWrite(p) \/ endWrite(p) PROVE TurnInv'
  <2>1. /\ gen' = gen + 1 /\ writer' = writer
        /\ \/ place[p] = "begin" /\ place' = [place EXCEPT ![p] = "first"]
           \/ place[p] = "end" /\ place' = [place EXCEPT ![p] = "pend"]
    BY <1>2 DEF beginWrite, endWrite
  <2>2. writer = p /\ p # NoProducer
    BY <1>t, <2>1 DEF InTurn
  <2> QED
    BY <1>t, <2>1, <2>2 DEF TurnInv, InTurn, Writing
<1>3. ASSUME NEW p \in Producers, store(p, 1, "first", "second") \/ store(p, 2, "second", "end")
      PROVE  TurnInv'
  BY SMTT(60), <1>t, <1>3 DEF store, TurnInv, InTurn, Writing
<1>4. ASSUME NEW p \in Producers, setPending(p) PROVE TurnInv'
  BY <1>t, <1>4 DEF setPending, TurnInv, InTurn, Writing
<1>5. ASSUME NEW p \in Producers, giveTurn(p) PROVE TurnInv'
  BY <1>t, <1>5 DEF giveTurn, TurnInv, InTurn, Writing
<1>6. ASSUME NEW p \in Producers, notify(p) PROVE TurnInv'
  <2>1. /\ UNCHANGED <<writer, gen>> /\ place[p] \notin InTurn
        /\ \E to \in {"idle", "swap", "release"} : place' = [place EXCEPT ![p] = to]
    BY <1>6 DEF notify, InTurn
  <2> QED
    BY <1>t, <2>1 DEF TurnInv, InTurn, Writing
<1>7. CASE worker \/ release \/ UNCHANGED outputVars
  BY <1>7, ProducersOnly DEF TurnInv
<1> QED
  BY <1>1, <1>2, <1>3, <1>4, <1>5, <1>6, <1>7 DEF OutputNext, post

LEMMA StateStep ==
  ThreadTypes /\ DataTypes /\ TurnInv /\ StateInv /\ [OutputNext]_outputVars => StateInv' /\ Below(state, state')
<1> SUFFICES ASSUME ThreadTypes, DataTypes, TurnInv, StateInv, [OutputNext]_outputVars
             PROVE  StateInv' /\ Below(state, state')
  OBVIOUS
<1>t. /\ place \in [Producers -> Places] /\ gen \in Nat /\ posts \in Nat
      /\ state \in Values /\ next \in [Producers -> Values]
  BY DEF ThreadTypes, DataTypes
<1>n. /\ \A k \in outputKinds, w \in 1..2 : state[k][w] \in Nat
      /\ \A p \in Producers, k \in outputKinds, w \in 1..2 : next[p][k][w] \in Nat
  BY <1>t DEF Values, Words
<1>s. state' = state => Below(state, state')
  BY <1>n DEF Below
<1>1. ASSUME NEW p \in Producers, takeTurn(p) PROVE StateInv' /\ Below(state, state')
  <2>1. PICK k \in outputKinds : next' = [next EXCEPT ![p] = WithKind(state, k, posts + 1)]
    BY Zenon, <1>1 DEF takeTurn, WithKind
  <2>2. /\ UNCHANGED <<gen, state>> /\ posts' = posts + 1 /\ writer = NoProducer
        /\ place' = [place EXCEPT ![p] = "begin"]
    BY <1>1 DEF takeTurn
  <2>3. Whole(state) /\ \A h \in outputKinds, w \in 1..2 : state[h][w] <= posts
    BY <2>2 DEF TurnInv, StateInv
  <2>4. next'[p] = WithKind(state, k, posts + 1)
    BY <1>t, <2>1
  <2>5. /\ \A w \in 1..2 : next'[p][k][w] = posts + 1
        /\ \A h \in outputKinds : h # k => next'[p][h] = state[h]
    BY <1>t, <2>4, EditKind
  <2>6. Whole(next'[p]) /\ Below(state, next'[p])
    BY <1>t, <1>n, <2>3, <2>5 DEF Whole, Below
  <2>7. \A h \in outputKinds, w \in 1..2 : next'[p][h][w] <= posts'
    BY <1>t, <1>n, <2>2, <2>3, <2>5
  <2>8. \A q \in Producers : place'[q] \in InTurn => q = p
    BY <1>t, <2>2, OutputAssumption DEF TurnInv
  <2>9. \A h \in outputKinds, w \in 1..2 : state'[h][w] <= posts'
    BY <1>t, <1>n, <2>2, <2>3
  <2>10. place'[p] = "begin"
    BY <1>t, <2>2
  <2>11. StateInv'
    BY ZenonT(60), <2>2, <2>3, <2>6, <2>7, <2>8, <2>9, <2>10 DEF StateInv, Whole, Below
  <2> QED
    BY <1>s, <2>2, <2>11
<1>2. ASSUME NEW p \in Producers, beginWrite(p) PROVE StateInv' /\ Below(state, state')
  <2>1. /\ gen' = gen + 1 /\ UNCHANGED <<state, next, posts>> /\ place[p] = "begin"
        /\ place' = [place EXCEPT ![p] = "first"]
    BY <1>2 DEF beginWrite
  <2>2. gen' % 2 # 0
    BY <1>t, <2>1 DEF TurnInv, InTurn, Writing
  <2> QED
    BY <1>t, <1>s, <2>1, <2>2 DEF StateInv, InTurn
<1>3. ASSUME NEW p \in Producers, store(p, 1, "first", "second") PROVE StateInv' /\ Below(state, state')
  <2>1. /\ UNCHANGED <<gen, next, posts>> /\ place[p] = "first" /\ place' = [place EXCEPT ![p] = "second"]
        /\ state' = WithWord(state, next[p], 1)
    BY Zenon, <1>3 DEF store, WithWord
  <2>2. \A k \in outputKinds : state'[k][1] = next[p][k][1] /\ state'[k][2] = state[k][2]
    BY SMTT(60), <1>t, <2>1, StoreWord
  <2>3. /\ gen % 2 # 0 /\ Whole(next[p]) /\ Below(state, next[p])
        /\ \A k \in outputKinds, w \in 1..2 : state[k][w] <= posts /\ next[p][k][w] <= posts
    BY <1>t, <2>1 DEF TurnInv, StateInv, InTurn, Writing
  <2>4. Below(state, state') /\ Below(state', next[p]) /\ \A k \in outputKinds, w \in 1..2 : state'[k][w] <= posts
    BY <1>n, <2>2, <2>3 DEF Below
  <2>5. \A q \in Producers : place'[q] \in InTurn => q = p
    BY <1>t, <2>1 DEF TurnInv, InTurn
  <2>6. place'[p] = "second"
    BY SMTT(60), <1>t, <2>1
  <2>7. StateInv'
    <3>1. gen' % 2 # 0 /\ \A k \in outputKinds, w \in 1..2 : state'[k][w] <= posts'
      BY Zenon, <2>1, <2>3, <2>4
    <3>2. ASSUME NEW q \in Producers, place'[q] \in InTurn
          PROVE  /\ Whole(next'[q]) /\ Below(state', next'[q])
                 /\ \A k \in outputKinds, w \in 1..2 : next'[q][k][w] <= posts'
                 /\ place'[q] \in {"second", "end"} => \A k \in outputKinds : state'[k][1] = next'[q][k][1]
                 /\ place'[q] = "end" => \A k \in outputKinds : state'[k][2] = next'[q][k][2]
      <4>1. q = p /\ next' = next /\ posts' = posts
        BY Zenon, <2>1, <2>5, <3>2
      <4> QED
        BY <2>2, <2>3, <2>4, <2>6, <4>1
    <3> QED
      BY Zenon, <3>1, <3>2 DEF StateInv, Whole, Below
  <2> QED
    BY <2>4, <2>7
<1>4. ASSUME NEW p \in Producers, store(p, 2, "second", "end") PROVE StateInv' /\ Below(state, state')
  <2>1. /\ UNCHANGED <<gen, next, posts>> /\ place[p] = "second" /\ place' = [place EXCEPT ![p] = "end"]
        /\ state' = WithWord(state, next[p], 2)
    BY Zenon, <1>4 DEF store, WithWord
  <2>2. \A k \in outputKinds : state'[k][1] = state[k][1] /\ state'[k][2] = next[p][k][2]
    BY <1>t, <2>1, StoreWord
  <2>3. /\ gen % 2 # 0 /\ Whole(next[p]) /\ Below(state, next[p])
        /\ \A k \in outputKinds, w \in 1..2 : state[k][w] <= posts /\ next[p][k][w] <= posts
        /\ \A k \in outputKinds : state[k][1] = next[p][k][1]
    BY <1>t, <2>1 DEF TurnInv, StateInv, InTurn, Writing
  <2>4. Below(state, state') /\ Below(state', next[p]) /\ \A k \in outputKinds, w \in 1..2 : state'[k][w] <= posts
    BY <1>n, <2>2, <2>3 DEF Below
  <2>5. \A q \in Producers : place'[q] \in InTurn => q = p
    BY <1>t, <2>1 DEF TurnInv, InTurn
  <2>6. place'[p] = "end"
    BY SMTT(60), <1>t, <2>1
  <2>7. StateInv'
    <3>1. gen' % 2 # 0 /\ \A k \in outputKinds, w \in 1..2 : state'[k][w] <= posts'
      BY Zenon, <2>1, <2>3, <2>4
    <3>2. ASSUME NEW q \in Producers, place'[q] \in InTurn
          PROVE  /\ Whole(next'[q]) /\ Below(state', next'[q])
                 /\ \A k \in outputKinds, w \in 1..2 : next'[q][k][w] <= posts'
                 /\ place'[q] \in {"second", "end"} => \A k \in outputKinds : state'[k][1] = next'[q][k][1]
                 /\ place'[q] = "end" => \A k \in outputKinds : state'[k][2] = next'[q][k][2]
      <4>1. q = p /\ next' = next /\ posts' = posts
        BY Zenon, <2>1, <2>5, <3>2
      <4> QED
        BY <2>2, <2>3, <2>4, <2>6, <4>1
    <3> QED
      BY Zenon, <3>1, <3>2 DEF StateInv, Whole, Below
  <2> QED
    BY <2>4, <2>7
<1>5. ASSUME NEW p \in Producers, endWrite(p) PROVE StateInv' /\ Below(state, state')
  <2>1. /\ UNCHANGED <<state, next, posts>> /\ place[p] = "end" /\ place' = [place EXCEPT ![p] = "pend"]
    BY SMTT(60), <1>5 DEF endWrite
  <2>2. Whole(state)
    BY SMTT(60), <2>1 DEF StateInv, InTurn, Whole
  <2>3. \A q \in Producers : place'[q] \in InTurn => q = p
    BY <1>t, <2>1 DEF TurnInv, InTurn
  <2>4. place'[p] = "pend"
    BY <1>t, <2>1
  <2> QED
    BY ZenonT(60), <1>s, <2>1, <2>2, <2>3, <2>4 DEF StateInv, InTurn, Whole, Below
<1>6. ASSUME NEW p \in Producers, setPending(p) PROVE StateInv' /\ Below(state, state')
  <2>1. /\ UNCHANGED <<gen, state, next, posts>> /\ place[p] = "pend" /\ place' = [place EXCEPT ![p] = "free"]
    BY ZenonT(60), <1>6 DEF setPending
  <2> QED
    BY <1>t, <1>s, <2>1 DEF StateInv, InTurn
<1>7. ASSUME NEW p \in Producers, giveTurn(p) PROVE StateInv' /\ Below(state, state')
  <2>1. /\ UNCHANGED <<gen, state, posts>> /\ place' = [place EXCEPT ![p] = "look"] /\ place[p] = "free"
    BY <1>7 DEF giveTurn
  <2>2. \A q \in Producers : place'[q] \notin InTurn
    BY SMTT(60), <1>t, <2>1 DEF TurnInv, InTurn
  <2> QED
    BY <1>s, <2>1, <2>2 DEF StateInv, Whole
<1>8. ASSUME NEW p \in Producers, notify(p) PROVE StateInv' /\ Below(state, state')
  <2>1. /\ UNCHANGED <<gen, state, next, posts>>
        /\ \E to \in {"idle", "swap", "release"} : place' = [place EXCEPT ![p] = to]
    BY SMTT(60), <1>8 DEF notify
  <2> QED
    BY <1>t, <1>s, <2>1 DEF StateInv, InTurn
<1>9. CASE worker \/ release \/ UNCHANGED outputVars
  BY <1>9, <1>s, ProducersOnly DEF StateInv
<1> QED
  BY <1>1, <1>2, <1>3, <1>4, <1>5, <1>6, <1>7, <1>8, <1>9 DEF OutputNext, post

\* A producer moves the generation on, or changes the state while the generation is odd.
LEMMA ProducerMoves ==
  ASSUME ThreadTypes, DataTypes, TurnInv, NEW p \in Producers, post(p) \/ notify(p)
  PROVE  /\ UNCHANGED <<at, kinds, before, taken, shown, stopping, handle, stop>>
         /\ gen' = gen \/ gen' = gen + 1
         /\ gen' = gen /\ gen % 2 = 0 => state' = state
<1>1. CASE takeTurn(p) \/ setPending(p) \/ giveTurn(p) \/ notify(p)
  BY ZenonT(60), <1>1 DEF takeTurn, setPending, giveTurn, notify
<1>2. CASE beginWrite(p) \/ endWrite(p)
  BY <1>2 DEF beginWrite, endWrite, DataTypes
<1>3. CASE store(p, 1, "first", "second") \/ store(p, 2, "second", "end")
  <2>1. place[p] \in Writing /\ place[p] \in InTurn
    BY <1>3 DEF store, Writing, InTurn
  <2>2. gen % 2 = 1
    BY <2>1 DEF TurnInv
  <2> QED
    BY <1>3, <2>2 DEF store
<1> QED
  BY SMTT(60), <1>1, <1>2, <1>3 DEF post

LEMMA TakenStep ==
  ThreadTypes /\ DataTypes /\ TurnInv /\ StateInv /\ TakenInv /\ [OutputNext]_outputVars => TakenInv'
<1> SUFFICES ASSUME ThreadTypes, DataTypes, TurnInv, StateInv, TakenInv, [OutputNext]_outputVars
             PROVE  TakenInv'
  OBVIOUS
<1>t. /\ gen \in Nat /\ before \in Nat /\ state \in Values /\ taken \in Values /\ shown \in Values
      /\ state' \in Values
  BY DataTypesStep DEF DataTypes
<1>n. \A k \in outputKinds, w \in 1..2 :
         state[k][w] \in Nat /\ taken[k][w] \in Nat /\ shown[k][w] \in Nat /\ state'[k][w] \in Nat
  BY SMTT(60), <1>t DEF Values, Words
<1>1. ASSUME NEW p \in Producers, post(p) \/ notify(p) PROVE TakenInv'
  <2>1. /\ UNCHANGED <<at, before, taken, shown>> /\ (gen' = gen \/ gen' = gen + 1)
        /\ gen' = gen /\ gen % 2 = 0 => state' = state
    BY <1>1, ProducerMoves
  <2>2. Below(state, state')
    BY SMTT(60), StateStep
  <2>3. Below(shown, state')
    BY <1>n, <2>2 DEF TakenInv, Below
  <2>4. at = "write" => Below(taken, state')
    BY <1>n, <2>2 DEF TakenInv, Below
  <2>5. at \in Copying => before % 2 = 0 /\ before <= gen'
    BY <1>t, <2>1 DEF TakenInv
  <2>6. at \in Copying /\ gen' = before => gen = before /\ state' = state
    BY SMTT(60), <1>t, <2>1 DEF TakenInv
  <2> QED
    BY <2>1, <2>3, <2>4, <2>5, <2>6 DEF TakenInv, Copying, Whole, Below
<1>2. CASE running \/ announce \/ hasWork \/ acquire \/ awake \/ take
  <2>1. UNCHANGED <<gen, state, before, taken, shown>> /\ at' \notin Copying \cup {"write"}
    BY <1>2 DEF running, announce, hasWork, acquire, awake, take, Copying
  <2> QED
    BY <2>1 DEF TakenInv, Copying, Whole, Below
<1>3. CASE readGeneration
  <2>1. UNCHANGED <<gen, state, taken, shown>> /\ before' = gen
        /\ (at' = "repend" \/ (at' = "copyFirst" /\ gen % 2 # 1))
    BY <1>3 DEF readGeneration
  <2>2. gen % 2 # 1 => gen % 2 = 0
    BY SMTT(60), <1>t
  <2> QED
    BY <1>t, <2>1, <2>2 DEF TakenInv, Copying, Whole, Below
<1>4. CASE copy(1, "copyFirst", "copySecond")
  <2>1. /\ UNCHANGED <<gen, state, before, shown>> /\ at = "copyFirst" /\ at' = "copySecond"
        /\ taken' = WithWord(taken, state, 1)
    BY Zenon, <1>4 DEF copy, WithWord
  <2>2. \A k \in outputKinds : taken'[k][1] = state[k][1]
    BY SMTT(60), <1>t, <2>1, StoreWord
  <2> QED
    BY <2>1, <2>2 DEF TakenInv, Copying, Whole, Below
<1>5. CASE copy(2, "copySecond", "validate")
  <2>1. /\ UNCHANGED <<gen, state, before, shown>> /\ at = "copySecond" /\ at' = "validate"
        /\ taken' = WithWord(taken, state, 2)
    BY Zenon, <1>5 DEF copy, WithWord
  <2>2. \A k \in outputKinds : taken'[k][1] = taken[k][1] /\ taken'[k][2] = state[k][2]
    BY <1>t, <2>1, StoreWord
  <2> QED
    BY <2>1, <2>2 DEF TakenInv, Copying, Whole, Below
<1>6. CASE validate
  <2>1. /\ UNCHANGED <<gen, state, before, taken, shown>> /\ at = "validate"
        /\ (at' = "repend" \/ (at' = "write" /\ gen = before))
    BY <1>6 DEF validate
  <2>2. CASE at' = "write" /\ gen = before
    <3>1. Whole(state)
      BY SMTT(60), <2>1, <2>2 DEF TakenInv, StateInv, Copying
    <3>2. \A k \in outputKinds : taken[k][1] = state[k][1] /\ taken[k][2] = state[k][2]
      BY <2>1, <2>2 DEF TakenInv
    <3>3. \A k \in outputKinds, w \in 1..2 : taken[k][w] = state[k][w]
      BY SMTT(60), <3>2
    <3>4. Whole(taken) /\ Below(shown, taken) /\ Below(taken, state)
      <4>1. Whole(taken)
        BY Zenon, <3>1, <3>2 DEF Whole
      <4>2. Below(shown, state)
        BY Zenon DEF TakenInv
      <4>3. Below(shown, taken)
        BY Zenon, <3>3, <4>2 DEF Below
      <4>4. Below(taken, state)
        BY <1>n, <3>3 DEF Below
      <4> QED
        BY <4>1, <4>3, <4>4
    <3> QED
      BY SMTT(60), <2>1, <2>2, <3>4 DEF TakenInv, Copying, Whole, Below
  <2>3. CASE at' = "repend"
    BY <2>1, <2>3 DEF TakenInv, Copying, Whole, Below
  <2> QED
    BY <2>1, <2>2, <2>3
<1>7. CASE repend
  <2>1. UNCHANGED <<gen, state, shown>> /\ at' = "check"
    BY <1>7 DEF repend
  <2> QED
    BY <2>1 DEF TakenInv, Copying, Whole, Below
<1>8. CASE writeTaken
  <2>1. PICK k \in kinds : shown' = [shown EXCEPT ![k] = taken[k]]
    BY Zenon, <1>8 DEF writeTaken
  <2>2. /\ UNCHANGED <<gen, state>> /\ at = "write"
        /\ (UNCHANGED <<at, taken>> \/ at' = "check")
    BY Zenon, <1>8 DEF writeTaken
  <2>3. \A h \in outputKinds : shown'[h] = shown[h] \/ shown'[h] = taken[h]
    BY <1>t, <2>1 DEF Values
  <2>4. Whole(shown')
    BY SMTT(60), <2>2, <2>3 DEF TakenInv, Whole
  <2>5. Below(shown', state) /\ Below(shown', taken)
    BY <1>n, <2>2, <2>3 DEF TakenInv, Below
  <2> QED
    BY <2>2, <2>4, <2>5 DEF TakenInv, Copying, Whole, Below
<1>9. CASE release \/ UNCHANGED outputVars
  <2>1. UNCHANGED <<gen, state, at, before, taken, shown>>
    BY <1>9 DEF release, join, outputVars
  <2> QED
    BY <2>1 DEF TakenInv, Whole, Below
<1> QED
  BY <1>1, <1>2, <1>3, <1>4, <1>5, <1>6, <1>7, <1>8, <1>9 DEF OutputNext, worker

LEMMA ReleaseStep ==
  ThreadTypes /\ DataTypes /\ TurnInv /\ ReleaseInv /\ [OutputNext]_outputVars => ReleaseInv'
<1> SUFFICES ASSUME ThreadTypes, DataTypes, TurnInv, ReleaseInv, [OutputNext]_outputVars PROVE ReleaseInv'
  OBVIOUS
<1>1. ASSUME NEW p \in Producers, post(p) \/ notify(p) PROVE ReleaseInv'
  BY <1>1, ProducerMoves DEF ReleaseInv
<1>2. CASE worker
  <2>1. UNCHANGED <<stopping, handle, stop>> /\ at # "ended"
    <3>1. CASE running \/ announce \/ hasWork \/ acquire \/ awake \/ take \/ repend
      BY <3>1 DEF running, announce, hasWork, acquire, awake, take, repend
    <3>2. CASE readGeneration \/ copy(1, "copyFirst", "copySecond") \/ copy(2, "copySecond", "validate")
               \/ validate \/ writeTaken
      BY <3>2 DEF readGeneration, copy, validate, writeTaken
    <3> QED
      BY <1>2, <3>1, <3>2 DEF worker
  <2> QED
    BY <2>1 DEF ReleaseInv
<1>3. CASE release
  BY <1>3 DEF release, join, ReleaseInv
<1>4. CASE UNCHANGED outputVars
  BY <1>4 DEF outputVars, ReleaseInv
<1> QED
  BY <1>1, <1>2, <1>3, <1>4 DEF OutputNext

LEMMA WakeStep ==
  ThreadTypes /\ DataTypes /\ ReleaseInv /\ WakeInv /\ [OutputNext]_outputVars => WakeInv'
<1> SUFFICES ASSUME ThreadTypes, DataTypes, ReleaseInv, WakeInv, [OutputNext]_outputVars PROVE WakeInv'
  OBVIOUS
<1>t. place \in [Producers -> Places] /\ wake \in Nat
  BY DEF ThreadTypes, DataTypes
<1>1. ASSUME NEW p \in Producers,
             \/ takeTurn(p) \/ beginWrite(p) \/ endWrite(p)
             \/ store(p, 1, "first", "second") \/ store(p, 2, "second", "end")
      PROVE  WakeInv'
  <2>1. /\ UNCHANGED <<at, sleeping, wake, stop, stopping, pending>>
        /\ place[p] \notin {"free", "look", "swap", "release"}
        /\ \A q \in Producers \ {p} : place'[q] = place[q]
    BY <1>t, <1>1 DEF takeTurn, beginWrite, endWrite, store
  <2>2. (Releasing => Releasing') /\ (Notifying => Notifying')
    BY <2>1 DEF Releasing, Notifying
  <2> QED
    BY <2>1, <2>2 DEF WakeInv
<1>2. ASSUME NEW p \in Producers, setPending(p) \/ giveTurn(p) PROVE WakeInv'
  <2>1. /\ UNCHANGED <<at, sleeping, wake, stop, stopping>>
        /\ place[p] # "release" /\ place'[p] \in {"free", "look"}
        /\ \A q \in Producers \ {p} : place'[q] = place[q]
    BY <1>t, <1>2 DEF setPending, giveTurn
  <2>2. (Releasing => Releasing') /\ Notifying'
    BY <2>1 DEF Releasing, Notifying
  <2> QED
    BY SMTT(60), <2>1, <2>2 DEF WakeInv
<1>3. ASSUME NEW p \in Producers, notify(p) PROVE WakeInv'
  <2>0. UNCHANGED <<at, stop, stopping, pending>> /\ \A q \in Producers \ {p} : place'[q] = place[q]
    BY <1>t, <1>3 DEF notify
  <2>1. CASE sleeping /\ place[p] = "look" /\ place'[p] = "swap" /\ UNCHANGED <<sleeping, wake>>
    <3>1. Notifying'
      BY <2>1 DEF Notifying
    <3> QED
      BY <2>0, <2>1, <3>1 DEF WakeInv
  <2>2. CASE ~sleeping /\ place[p] \in {"look", "swap"} /\ sleeping' = FALSE /\ wake' = wake
    <3>1. Releasing => Releasing'
      BY <2>0, <2>2 DEF Releasing
    <3> QED
      BY <2>0, <2>2, <3>1 DEF WakeInv
  <2>3. CASE place'[p] = "release" /\ sleeping' = FALSE
    <3>1. Releasing'
      BY <2>3 DEF Releasing
    <3> QED
      BY <2>3, <3>1 DEF WakeInv
  <2>4. CASE place[p] = "release" /\ wake' = wake + 1 /\ sleeping' = sleeping
    <3>1. wake' > 0 /\ (Notifying => Notifying')
      BY <1>t, <2>0, <2>4 DEF Notifying
    <3> QED
      BY <2>0, <2>4, <3>1 DEF WakeInv
  <2> QED
    BY Zenon, <1>t, <1>3, <2>1, <2>2, <2>3, <2>4 DEF notify, ThreadTypes
<1>4. CASE worker
  <2>0. UNCHANGED <<place, stop, stopping>>
    <3>1. CASE running \/ announce \/ hasWork \/ acquire \/ awake \/ take \/ repend
      BY <3>1 DEF running, announce, hasWork, acquire, awake, take, repend
    <3>2. CASE readGeneration \/ copy(1, "copyFirst", "copySecond") \/ copy(2, "copySecond", "validate")
               \/ validate \/ writeTaken
      BY <3>2 DEF readGeneration, copy, validate, writeTaken
    <3> QED
      BY <1>4, <3>1, <3>2 DEF worker
  <2>1. CASE announce
    BY <2>1 DEF announce, WakeInv
  <2>2. CASE hasWork
    <3>1. /\ UNCHANGED <<sleeping, wake, pending>>
          /\ \/ at' = "awake"
             \/ at = "lookStop" /\ at' = "lookPending" /\ ~stopping
             \/ at = "lookPending" /\ at' = "asleep" /\ pending = {}
      BY <2>2 DEF hasWork
    <3> QED
      BY <2>0, <3>1 DEF WakeInv, Releasing
  <2>3. CASE at' \notin {"lookStop", "lookPending", "asleep"}
    BY <2>3 DEF WakeInv
  <2>4. ~announce /\ ~hasWork => at' \notin {"lookStop", "lookPending", "asleep"}
    <3>1. CASE running \/ acquire \/ awake \/ take \/ repend
      BY <3>1 DEF running, acquire, awake, take, repend
    <3>2. CASE readGeneration \/ copy(1, "copyFirst", "copySecond") \/ copy(2, "copySecond", "validate")
               \/ validate \/ writeTaken
      BY <3>2 DEF readGeneration, copy, validate, writeTaken
    <3> QED
      BY <1>4, <3>1, <3>2 DEF worker
  <2> QED
    BY <2>1, <2>2, <2>3, <2>4
<1>5. CASE release
  <2>0. UNCHANGED <<at, pending, place>>
    BY <1>5 DEF release, join
  <2>1. CASE Stop("claimed", "look") /\ UNCHANGED <<sleeping, wake>>
    BY <2>0, <2>1 DEF WakeInv, Releasing, Notifying
  <2>2. CASE stop = "look" /\ UNCHANGED <<sleeping, wake>> /\ stop' = IF sleeping THEN "swap" ELSE "join"
    BY <2>0, <2>2 DEF WakeInv, Releasing, Notifying
  <2>3. CASE stop = "swap" /\ wake' = wake /\ sleeping' = FALSE /\ stop' = IF sleeping THEN "release" ELSE "join"
    BY <2>0, <2>3 DEF WakeInv, Releasing
  <2>4. CASE Stop("release", "join") /\ wake' = wake + 1 /\ UNCHANGED <<sleeping, stopping>>
    <3>1. wake' > 0
      BY <1>t, <2>4
    <3> QED
      BY <2>0, <2>4, <3>1 DEF WakeInv, Notifying
  <2>5. CASE (Stop("join", "close") \/ Stop("close", "closed")) /\ UNCHANGED <<sleeping, wake, stopping>>
    BY <2>0, <2>5 DEF WakeInv, Releasing, Notifying
  <2> QED
    BY Zenon, <1>5, <2>1, <2>2, <2>3, <2>4, <2>5 DEF release, join
<1>6. CASE UNCHANGED outputVars
  BY <1>6 DEF outputVars, WakeInv, Releasing, Notifying
<1> QED
  BY <1>1, <1>2, <1>3, <1>4, <1>5, <1>6 DEF OutputNext, post

-----------------------------------------------------------------------------
(* Results.                                                                *)

\* The invariant behind the mailbox and the wake-up, for any number of producers and kinds: whose turn it is, what
\* the generation says of the words in the state and in the worker's copy, when the handle may close, and who is
\* going to wake the worker (OutputMailbox, Seqlock, WorkerWake, OutputWorker::stop).
THEOREM OutputInvariant == OutputSpec => []OutputInv
<1>1. OutputInit => OutputInv
  <2> SUFFICES ASSUME OutputInit PROVE OutputInv
    OBVIOUS
  <2>0. NoKind \in outputKinds
    BY OutputAssumption DEF NoKind
  <2>1. ThreadTypes
    BY Zenon, <2>0 DEF OutputInit, ThreadTypes, Places, Ats, Stops
  <2>2. DataTypes
    BY BlankIsValues DEF OutputInit, DataTypes
  <2>3. TurnInv
    BY OutputAssumption DEF OutputInit, TurnInv, InTurn
  <2>4. StateInv
    BY BlankIsValues DEF OutputInit, StateInv, InTurn, Whole
  <2>5. TakenInv
    BY BlankIsValues DEF OutputInit, TakenInv, Copying, Whole, Below
  <2>6. ReleaseInv /\ WakeInv
    BY DEF OutputInit, ReleaseInv, WakeInv
  <2> QED
    BY <2>1, <2>2, <2>3, <2>4, <2>5, <2>6 DEF OutputInv
<1>2. OutputInv /\ [OutputNext]_outputVars => OutputInv'
  BY ThreadTypesStep, DataTypesStep, TurnStep, StateStep, TakenStep, ReleaseStep, WakeStep DEF OutputInv
<1> QED
  BY <1>1, <1>2, PTL DEF OutputSpec

\* What the pad is given is one post's value, whole, never older than what it has, and through an open handle,
\* however many threads post and whenever the claim is released.
THEOREM NewestWinsAlways == OutputSpec => NewestWins
<1>1. OutputInv /\ OutputInv' /\ [OutputNext]_outputVars => [WritesTheNewest]_outputVars
  <2> SUFFICES ASSUME OutputInv, OutputInv', [OutputNext]_outputVars, NEW k \in outputKinds
               PROVE  /\ shown'[k][1] = shown'[k][2] /\ shown'[k][1] >= shown[k][1]
                      /\ shown'[k] # shown[k] => handle
    BY DEF WritesTheNewest
  <2>1. shown'[k][1] = shown'[k][2]
    BY DEF OutputInv, TakenInv, Whole
  <2>2. shown[k][1] \in Nat /\ taken[k][1] \in Nat
    BY DEF OutputInv, DataTypes, Values, Words
  <2>3. CASE writeTaken
    <3>1. at = "write" /\ \E h \in kinds : shown' = [shown EXCEPT ![h] = taken[h]]
      BY Zenon, <2>3 DEF writeTaken
    <3>2. shown'[k] = shown[k] \/ shown'[k] = taken[k]
      BY <3>1 DEF OutputInv, DataTypes, Values
    <3>3. shown[k][1] <= taken[k][1]
      BY <3>1 DEF OutputInv, TakenInv, Below
    <3>4. handle
      BY <3>1 DEF OutputInv, ReleaseInv
    <3> QED
      BY <2>1, <2>2, <3>2, <3>3, <3>4
  <2>4. CASE ~writeTaken
    <3>1. shown' = shown
      <4>1. ASSUME NEW p \in Producers, post(p) \/ notify(p) PROVE shown' = shown
        BY <4>1, ProducerMoves DEF OutputInv
      <4>2. CASE running \/ announce \/ hasWork \/ acquire \/ awake \/ take \/ repend
        BY <4>2 DEF running, announce, hasWork, acquire, awake, take, repend
      <4>3. CASE readGeneration \/ copy(1, "copyFirst", "copySecond") \/ copy(2, "copySecond", "validate")
                 \/ validate
        BY <4>3 DEF readGeneration, copy, validate
      <4>4. CASE release \/ UNCHANGED outputVars
        BY <4>4 DEF release, join, outputVars
      <4> QED
        BY <2>4, <4>1, <4>2, <4>3, <4>4 DEF OutputNext, worker
    <3> QED
      BY <2>1, <2>2, <3>1
  <2> QED
    BY <2>3, <2>4
<1> QED
  BY <1>1, OutputInvariant, PTL DEF OutputSpec, NewestWins

\* A worker that sleeps on a post or on its stop is always going to be woken: there is no order of the looks, swaps
\* and releases of WorkerWake's notify and sleepUnless in which a wake-up is lost.
THEOREM WakesAreNeverLost == OutputSpec => []NoWakeIsLost
<1>1. OutputInv => NoWakeIsLost
  BY DEF OutputInv, ThreadTypes, WakeInv, NoWakeIsLost, Releasing, Notifying
<1> QED
  BY <1>1, OutputInvariant, PTL

===============================================================================
