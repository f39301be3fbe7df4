------------------------- MODULE SatelliteSendProofs -------------------------
(***************************************************************************)
(* Proofs about the send path, for any set of sending threads, any number  *)
(* of re-keys and any width of the wire counter.                           *)
(***************************************************************************)
EXTENDS SatelliteClient, TLAPS

\* The session whose datagrams sendCounter counts.  It changes at the store of
\* the restarted counter, in the middle of the write.
Session ==
  CASE writer \in {"token", "key", "counter"} -> gen - 1
    [] writer \in {"mark", "end"} -> gen + 1
    [] OTHER -> gen

\* The generation is odd exactly while a write is open, and each word holds the
\* value of the last write that reached it.
WriterInv ==
  /\ gen % 2 = IF writer \in {"idle", "reset"} THEN 0 ELSE 1
  /\ words.token = CASE writer \in {"idle", "reset"} -> gen
                     [] writer = "token" -> gen - 1
                     [] OTHER -> gen + 1
  /\ words.key = CASE writer \in {"idle", "reset"} -> gen
                   [] writer \in {"token", "key"} -> gen - 1
                   [] OTHER -> gen + 1

\* Only the holder is inside the gate, and a closed handle is out of sock.
GateInv ==
  /\ \A s \in Senders : place[s] \in GatePlaces => sendGate = s
  /\ closing \in {"swap", "release"} => sendGate = Gui
  /\ sock <=> closing \in {"open", "swap"}
  /\ handleOpen <=> closing # "closed"
  /\ \A s \in Senders : place[s] = "sendto" => sock

\* What a sender's copy is worth: until it is validated, it is the current
\* material if the generation has not moved; afterwards it is one write's.
ReadOK(s) ==
  /\ place[s] # "idle" => generation[s] <= gen
  /\ place[s] \notin {"idle", "read"} =>
       /\ before[s] % 2 = 0
       /\ generation[s] <= before[s]
       /\ before[s] <= gen
  /\ place[s] \in {"key", "validate"} /\ gen = before[s] => copy[s].token = before[s]
  /\ place[s] = "validate" /\ gen = before[s] => copy[s].key = before[s]
  /\ place[s] \in {"gate"} \cup GatePlaces =>
       copy[s].token = before[s] /\ copy[s].key = before[s]
  /\ place[s] = "sendto" => generation[s] = before[s]

ReadInv == \A s \in Senders : ReadOK(s)

\* The sequences used so far: all below the next one of the session.
Used(d) == d.key < Session \/ (d.key = Session /\ d.ctr < sendCounter)

WireInv ==
  \A i \in 1 .. Len(wire) :
    /\ Used(wire[i])
    /\ wire[i].token = wire[i].key
    /\ wire[i].ctr \in 1 .. kCounterWireMax

Drawn(s) == [key |-> generation[s], ctr |-> ctr[s]]

\* A sender that passes, or is about to pass, the check in the gate has drawn a
\* sequence past everything on the wire.
DrawnOK(s) ==
  /\ place[s] \in {"check", "sendto"} => ctr[s] \in 1 .. kCounterWireMax
  /\ \/ place[s] = "sendto"
     \/ place[s] = "check" /\ gen = generation[s]
     => /\ Used(Drawn(s))
        /\ \A i \in 1 .. Len(wire) : Precedes(wire[i], Drawn(s))

DrawnInv == \A s \in Senders : DrawnOK(s)

IInv ==
  /\ TypeOK
  /\ WriterInv
  /\ GateInv
  /\ ReadInv
  /\ WireInv
  /\ DrawnInv
  /\ WireInOrder

-----------------------------------------------------------------------------
\* The generation's parity flips with every begin and end of a write.
LEMMA Parity ==
  ASSUME NEW n \in Nat
  PROVE  /\ n % 2 \in {0, 1}
         /\ n % 2 = 0 => (n + 1) % 2 = 1
         /\ n % 2 = 1 => (n + 1) % 2 = 0
OBVIOUS

\* A step is one of the threads' atomic steps.
LEMMA NextCases ==
  ASSUME [Next]_vars
  PROVE  \/ BeginWrite /\ UNCHANGED <<senderVars, socketVars, sendGate, wire>>
         \/ StoreToken /\ UNCHANGED <<senderVars, socketVars, sendGate, wire>>
         \/ StoreKey /\ UNCHANGED <<senderVars, socketVars, sendGate, wire>>
         \/ RestartSendCounter /\ UNCHANGED <<senderVars, socketVars, sendGate, wire>>
         \/ RestartRecvMark /\ UNCHANGED <<senderVars, socketVars, sendGate, wire>>
         \/ EndWrite /\ UNCHANGED <<senderVars, socketVars, sendGate, wire>>
         \/ FinishRekey
         \/ CloseHoldGate \/ CloseSwap \/ CloseReleaseGate \/ CloseHandle
         \/ \E s \in Senders :
              \/ LoadGeneration(s) \/ StartRead(s) \/ CopyToken(s) \/ CopyKey(s)
              \/ ValidateRead(s) \/ HoldGate(s) \/ DrawCounter(s) \/ CheckInGate(s)
              \/ Send(s) \/ ReleaseGate(s)
         \/ UNCHANGED vars
BY DEF Next, Rekey, WriteMaterial, closeSocket, sendEncrypted

\* The variables keep their types.
LEMMA TypeStep == TypeOK /\ [Next]_vars => TypeOK'
<1> SUFFICES ASSUME TypeOK, [Next]_vars PROVE TypeOK'
  OBVIOUS
<1> USE DEF TypeOK, materialVars, senderVars, socketVars, SenderPlaces, WriterPlaces, Step
<1>1. CASE BeginWrite /\ UNCHANGED <<senderVars, socketVars, sendGate, wire>>
  <2>1. gen' \in Nat /\ writer' \in WriterPlaces
    BY <1>1 DEF BeginWrite
  <2>2. UNCHANGED <<words, sendCounter, recvMark, senderVars, socketVars, sendGate, wire>>
    BY <1>1 DEF BeginWrite
  <2> HIDE DEF SenderPlaces, WriterPlaces
  <2> QED
    BY Zenon, <2>1, <2>2
<1>2. CASE StoreToken /\ UNCHANGED <<senderVars, socketVars, sendGate, wire>>
  BY SMTT(60), <1>2 DEF StoreToken
<1>3. CASE StoreKey /\ UNCHANGED <<senderVars, socketVars, sendGate, wire>>
  BY SMTT(60), <1>3 DEF StoreKey
<1>4. CASE RestartSendCounter /\ UNCHANGED <<senderVars, socketVars, sendGate, wire>>
  BY SMTT(60), <1>4 DEF RestartSendCounter
<1>5. CASE RestartRecvMark /\ UNCHANGED <<senderVars, socketVars, sendGate, wire>>
  <2>1. recvMark' \in [gen : Nat, last : Nat] /\ writer' \in WriterPlaces
    BY <1>5 DEF RestartRecvMark
  <2>2. UNCHANGED <<gen, words, sendCounter, senderVars, socketVars, sendGate, wire>>
    BY <1>5 DEF RestartRecvMark
  <2> HIDE DEF SenderPlaces, WriterPlaces
  <2> QED
    BY Zenon, <2>1, <2>2
<1>6. CASE EndWrite /\ UNCHANGED <<senderVars, socketVars, sendGate, wire>>
  BY SMTT(60), <1>6 DEF EndWrite
<1>7. CASE FinishRekey
  BY SMTT(60), <1>7 DEF FinishRekey
<1>8. CASE CloseHoldGate \/ CloseSwap \/ CloseReleaseGate \/ CloseHandle
  BY ZenonT(60), <1>8 DEF CloseHoldGate, CloseSwap, CloseReleaseGate, CloseHandle
<1>9. ASSUME NEW s \in Senders, LoadGeneration(s) PROVE TypeOK'
  BY ZenonT(60), <1>9 DEF LoadGeneration
<1>10. ASSUME NEW s \in Senders, StartRead(s) PROVE TypeOK'
  BY ZenonT(60), <1>10 DEF StartRead
<1>11. ASSUME NEW s \in Senders, CopyToken(s) PROVE TypeOK'
  BY ZenonT(60), <1>11 DEF CopyToken
<1>12. ASSUME NEW s \in Senders, CopyKey(s) PROVE TypeOK'
  BY ZenonT(60), <1>12 DEF CopyKey
<1>13. ASSUME NEW s \in Senders, ValidateRead(s) PROVE TypeOK'
  BY ZenonT(60), <1>13 DEF ValidateRead
<1>14. ASSUME NEW s \in Senders, HoldGate(s) PROVE TypeOK'
  BY ZenonT(60), <1>14 DEF HoldGate
<1>15. ASSUME NEW s \in Senders, DrawCounter(s) PROVE TypeOK'
  <2>1. /\ place' \in [Senders -> SenderPlaces]
        /\ ctr' \in [Senders -> Nat]
        /\ sendCounter' \in Nat \ {0}
    <3>1. place' \in [Senders -> SenderPlaces]
      BY <1>15 DEF DrawCounter
    <3>2. ctr' \in [Senders -> Nat]
      BY <1>15 DEF DrawCounter
    <3>3. sendCounter' \in Nat \ {0}
      BY <1>15 DEF DrawCounter
    <3> QED
      BY Zenon, <3>1, <3>2, <3>3
  <2> QED
    BY ZenonT(60), <1>15, <2>1 DEF DrawCounter
<1>16. ASSUME NEW s \in Senders, CheckInGate(s) PROVE TypeOK'
  BY ZenonT(60), <1>16 DEF CheckInGate
<1>17. ASSUME NEW s \in Senders, Send(s) PROVE TypeOK'
  <2> DEFINE d == [token |-> copy[s].token, key |-> copy[s].key, ctr |-> ctr[s]]
  <2>1. d \in Datagram
    BY Zenon DEF Datagram
  <2>2. wire' \in Seq(Datagram)
    BY <1>17, <2>1 DEF Send
  <2>3. place' \in [Senders -> SenderPlaces]
    BY <1>17 DEF Send
  <2> QED
    BY ZenonT(60), <1>17, <2>2, <2>3 DEF Send
<1>18. ASSUME NEW s \in Senders, ReleaseGate(s) PROVE TypeOK'
  BY Zenon, <1>18 DEF ReleaseGate
<1>19. CASE UNCHANGED vars
  BY <1>19, ZenonT(60) DEF vars
<1> QED
  BY Zenon, NextCases, <1>1, <1>2, <1>3, <1>4, <1>5, <1>6, <1>7, <1>8, <1>9, <1>10, <1>11,
     <1>12, <1>13, <1>14, <1>15, <1>16, <1>17, <1>18, <1>19

\* The writer's bookkeeping: parity and words.
LEMMA WriterStep == TypeOK /\ WriterInv /\ [Next]_vars => WriterInv'
<1> SUFFICES ASSUME TypeOK, WriterInv, [Next]_vars PROVE WriterInv'
  OBVIOUS
<1>0. gen \in Nat
  BY DEF TypeOK
<1> USE <1>0 DEF materialVars, WriterInv
<1>1. CASE BeginWrite /\ UNCHANGED <<senderVars, socketVars, sendGate, wire>>
  <2>1. gen % 2 = 0 /\ words.token = gen /\ words.key = gen
    BY <1>1 DEF BeginWrite
  <2>2. gen' = gen + 1 /\ words' = words /\ writer' = "token"
    BY <1>1 DEF BeginWrite
  <2>3. gen' % 2 = 1
    BY <2>1, <2>2, Parity
  <2> QED
    BY <2>1, <2>2, <2>3
<1>2. CASE StoreToken /\ UNCHANGED <<senderVars, socketVars, sendGate, wire>>
  BY <1>2 DEF StoreToken
<1>3. CASE StoreKey /\ UNCHANGED <<senderVars, socketVars, sendGate, wire>>
  BY <1>3 DEF StoreKey
<1>4. CASE RestartSendCounter /\ UNCHANGED <<senderVars, socketVars, sendGate, wire>>
  BY <1>4 DEF RestartSendCounter
<1>5. CASE RestartRecvMark /\ UNCHANGED <<senderVars, socketVars, sendGate, wire>>
  BY <1>5 DEF RestartRecvMark
<1>6. CASE EndWrite /\ UNCHANGED <<senderVars, socketVars, sendGate, wire>>
  <2>1. gen % 2 = 1 /\ words.token = gen + 1 /\ words.key = gen + 1
    BY <1>6 DEF EndWrite
  <2>2. gen' = gen + 1 /\ words' = words /\ writer' = "reset"
    BY <1>6 DEF EndWrite
  <2>3. gen' % 2 = 0
    BY <2>1, <2>2, Parity
  <2> QED
    BY <2>1, <2>2, <2>3
<1>7. CASE FinishRekey
  BY <1>7 DEF FinishRekey
<1>8. CASE CloseHoldGate
  BY <1>8 DEF CloseHoldGate
<1>9. CASE CloseSwap
  BY <1>9 DEF CloseSwap
<1>10. CASE CloseReleaseGate
  BY <1>10 DEF CloseReleaseGate
<1>11. CASE CloseHandle
  BY <1>11 DEF CloseHandle
<1>12. ASSUME NEW s \in Senders, LoadGeneration(s) PROVE WriterInv'
  BY <1>12 DEF LoadGeneration
<1>13. ASSUME NEW s \in Senders, StartRead(s) PROVE WriterInv'
  BY <1>13 DEF StartRead
<1>14. ASSUME NEW s \in Senders, CopyToken(s) PROVE WriterInv'
  BY <1>14 DEF CopyToken
<1>15. ASSUME NEW s \in Senders, CopyKey(s) PROVE WriterInv'
  BY <1>15 DEF CopyKey
<1>16. ASSUME NEW s \in Senders, ValidateRead(s) PROVE WriterInv'
  BY <1>16 DEF ValidateRead
<1>17. ASSUME NEW s \in Senders, HoldGate(s) PROVE WriterInv'
  BY <1>17 DEF HoldGate
<1>18. ASSUME NEW s \in Senders, DrawCounter(s) PROVE WriterInv'
  BY <1>18 DEF DrawCounter
<1>19. ASSUME NEW s \in Senders, CheckInGate(s) PROVE WriterInv'
  BY <1>19 DEF CheckInGate
<1>20. ASSUME NEW s \in Senders, Send(s) PROVE WriterInv'
  BY <1>20 DEF Send
<1>21. ASSUME NEW s \in Senders, ReleaseGate(s) PROVE WriterInv'
  BY <1>21 DEF ReleaseGate
<1>22. CASE UNCHANGED vars
  BY <1>22 DEF vars
<1> QED
  BY Zenon, NextCases, <1>1, <1>2, <1>3, <1>4, <1>5, <1>6, <1>7, <1>8, <1>9, <1>10, <1>11,
     <1>12, <1>13, <1>14, <1>15, <1>16, <1>17, <1>18, <1>19, <1>20, <1>21, <1>22

\* Mutual exclusion in the gate, and the handle closed only after it left sock_.
LEMMA GateStep == TypeOK /\ GateInv /\ [Next]_vars => GateInv'
<1> SUFFICES ASSUME TypeOK, GateInv, [Next]_vars PROVE GateInv'
  OBVIOUS
<1> USE SendAssumption
<1> USE DEF materialVars, senderVars, socketVars, Step, TypeOK, GateInv, GatePlaces, SenderPlaces
<1>1. CASE BeginWrite /\ UNCHANGED <<senderVars, socketVars, sendGate, wire>>
  BY <1>1 DEF BeginWrite
<1>2. CASE StoreToken /\ UNCHANGED <<senderVars, socketVars, sendGate, wire>>
  BY <1>2 DEF StoreToken
<1>3. CASE StoreKey /\ UNCHANGED <<senderVars, socketVars, sendGate, wire>>
  BY <1>3 DEF StoreKey
<1>4. CASE RestartSendCounter /\ UNCHANGED <<senderVars, socketVars, sendGate, wire>>
  BY <1>4 DEF RestartSendCounter
<1>5. CASE RestartRecvMark /\ UNCHANGED <<senderVars, socketVars, sendGate, wire>>
  BY <1>5 DEF RestartRecvMark
<1>6. CASE EndWrite /\ UNCHANGED <<senderVars, socketVars, sendGate, wire>>
  BY <1>6 DEF EndWrite
<1>7. CASE FinishRekey
  BY <1>7 DEF FinishRekey
<1>8. CASE CloseHoldGate
  BY <1>8 DEF CloseHoldGate
<1>9. CASE CloseSwap
  BY <1>9 DEF CloseSwap
<1>10. CASE CloseReleaseGate
  BY <1>10 DEF CloseReleaseGate
<1>11. CASE CloseHandle
  BY <1>11 DEF CloseHandle
<1>12. ASSUME NEW s \in Senders, LoadGeneration(s) PROVE GateInv'
  BY <1>12 DEF LoadGeneration
<1>13. ASSUME NEW s \in Senders, StartRead(s) PROVE GateInv'
  BY SMTT(60), <1>13 DEF StartRead
<1>14. ASSUME NEW s \in Senders, CopyToken(s) PROVE GateInv'
  BY SMTT(60), <1>14 DEF CopyToken
<1>15. ASSUME NEW s \in Senders, CopyKey(s) PROVE GateInv'
  BY <1>15 DEF CopyKey
<1>16. ASSUME NEW s \in Senders, ValidateRead(s) PROVE GateInv'
  BY SMTT(60), <1>16 DEF ValidateRead
<1>17. ASSUME NEW s \in Senders, HoldGate(s) PROVE GateInv'
  <2>1. /\ place' = [place EXCEPT ![s] = "draw"]
        /\ sendGate = NoOwner /\ sendGate' = s
        /\ UNCHANGED <<sock, handleOpen, closing>>
    BY <1>17 DEF HoldGate
  <2>2. place \in [Senders -> SenderPlaces]
    OBVIOUS
  <2> HIDE DEF TypeOK, SenderPlaces
  <2>3. \A x \in Senders : place[x] \notin GatePlaces
    BY <2>1
  <2>4. \A x \in Senders : x # s => place'[x] = place[x]
    BY <2>1, <2>2
  <2>5. place'[s] = "draw"
    BY <2>1, <2>2
  <2>6. \A x \in Senders : place'[x] \in GatePlaces => x = s
    BY <2>3, <2>4
  <2>7. closing' \notin {"swap", "release"}
    BY <2>1
  <2>8. \A x \in Senders : place'[x] # "sendto"
    BY <2>3, <2>4, <2>5
  <2> QED
    BY <2>1, <2>6, <2>7, <2>8
<1>18. ASSUME NEW s \in Senders, DrawCounter(s) PROVE GateInv'
  BY SMTT(60), <1>18 DEF DrawCounter
<1>19. ASSUME NEW s \in Senders, CheckInGate(s) PROVE GateInv'
  BY SMTT(60), <1>19 DEF CheckInGate
<1>20. ASSUME NEW s \in Senders, Send(s) PROVE GateInv'
  BY <1>20 DEF Send
<1>21. ASSUME NEW s \in Senders, ReleaseGate(s) PROVE GateInv'
  BY <1>21 DEF ReleaseGate
<1>22. CASE UNCHANGED vars
  BY <1>22 DEF vars
<1> QED
  BY ZenonT(60), NextCases, <1>1, <1>2, <1>3, <1>4, <1>5, <1>6, <1>7, <1>8, <1>9, <1>10, <1>11,
     <1>12, <1>13, <1>14, <1>15, <1>16, <1>17, <1>18, <1>19, <1>20, <1>21, <1>22

\* A validated copy comes from one write.
LEMMA ReadStep ==
  TypeOK /\ WriterInv /\ GateInv /\ ReadInv /\ [Next]_vars => ReadInv'
<1> SUFFICES ASSUME TypeOK, WriterInv, ReadInv, [Next]_vars PROVE ReadInv'
  OBVIOUS
<1> SUFFICES ASSUME NEW t \in Senders PROVE ReadOK(t)'
  BY DEF ReadInv
<1>0. ReadOK(t)
  BY DEF ReadInv
<1>a. gen % 2 = 0 => words.token = gen /\ words.key = gen
  <2>1. gen % 2 = 0 => writer \in {"idle", "reset"}
    BY DEF WriterInv
  <2>2. writer \in {"idle", "reset"} => words.token = gen /\ words.key = gen
    BY DEF WriterInv
  <2> QED
    BY <2>1, <2>2
<1>b. /\ gen \in Nat
      /\ generation[t] \in Nat /\ before[t] \in Nat
      /\ place \in [Senders -> SenderPlaces]
      /\ generation \in [Senders -> Nat]
      /\ before \in [Senders -> Nat]
      /\ copy \in [Senders -> [token : Nat, key : Nat]]
  BY Zenon DEF TypeOK
<1> USE <1>0, <1>b
<1> USE DEF materialVars, senderVars, socketVars, Step, ReadOK, GatePlaces
<1>1. CASE BeginWrite /\ UNCHANGED <<senderVars, socketVars, sendGate, wire>>
  BY <1>1 DEF BeginWrite
<1>2. CASE StoreToken /\ UNCHANGED <<senderVars, socketVars, sendGate, wire>>
  BY <1>2 DEF StoreToken
<1>3. CASE StoreKey /\ UNCHANGED <<senderVars, socketVars, sendGate, wire>>
  BY <1>3 DEF StoreKey
<1>4. CASE RestartSendCounter /\ UNCHANGED <<senderVars, socketVars, sendGate, wire>>
  BY <1>4 DEF RestartSendCounter
<1>5. CASE RestartRecvMark /\ UNCHANGED <<senderVars, socketVars, sendGate, wire>>
  BY <1>5 DEF RestartRecvMark
<1>6. CASE EndWrite /\ UNCHANGED <<senderVars, socketVars, sendGate, wire>>
  BY <1>6 DEF EndWrite
<1>7. CASE FinishRekey
  BY <1>7 DEF FinishRekey
<1>8. CASE CloseHoldGate
  BY <1>8 DEF CloseHoldGate
<1>9. CASE CloseSwap
  BY <1>9 DEF CloseSwap
<1>10. CASE CloseReleaseGate
  BY <1>10 DEF CloseReleaseGate
<1>11. CASE CloseHandle
  BY <1>11 DEF CloseHandle
<1>12. ASSUME NEW s \in Senders, LoadGeneration(s) PROVE ReadOK(t)'
  BY <1>12 DEF LoadGeneration
<1>13. ASSUME NEW s \in Senders, StartRead(s) PROVE ReadOK(t)'
  BY <1>13, <1>a DEF StartRead
<1>14. ASSUME NEW s \in Senders, CopyToken(s) PROVE ReadOK(t)'
  BY SMTT(60), <1>14, <1>a DEF CopyToken
<1>15. ASSUME NEW s \in Senders, CopyKey(s) PROVE ReadOK(t)'
  BY <1>15, <1>a DEF CopyKey
<1>16. ASSUME NEW s \in Senders, ValidateRead(s) PROVE ReadOK(t)'
  BY <1>16 DEF ValidateRead
<1>17. ASSUME NEW s \in Senders, HoldGate(s) PROVE ReadOK(t)'
  BY <1>17 DEF HoldGate
<1>18. ASSUME NEW s \in Senders, DrawCounter(s) PROVE ReadOK(t)'
  BY <1>18 DEF DrawCounter
<1>19. ASSUME NEW s \in Senders, CheckInGate(s) PROVE ReadOK(t)'
  BY <1>19 DEF CheckInGate
<1>20. ASSUME NEW s \in Senders, Send(s) PROVE ReadOK(t)'
  BY SMTT(60), <1>20 DEF Send
<1>21. ASSUME NEW s \in Senders, ReleaseGate(s) PROVE ReadOK(t)'
  BY <1>21 DEF ReleaseGate
<1>22. CASE UNCHANGED vars
  BY <1>22 DEF vars
<1> QED
  BY ZenonT(60), NextCases, <1>1, <1>2, <1>3, <1>4, <1>5, <1>6, <1>7, <1>8, <1>9, <1>10, <1>11,
     <1>12, <1>13, <1>14, <1>15, <1>16, <1>17, <1>18, <1>19, <1>20, <1>21, <1>22


\* The session and its counter only move forward: what is used stays used.
LEMMA UsedStays ==
  ASSUME TypeOK, WriterInv, [Next]_vars,
         NEW d, d.key \in Nat, d.ctr \in Nat, Used(d)
  PROVE  Used(d)'
<1> USE DEF TypeOK, Used, Session, WriterPlaces
<1> USE DEF materialVars, senderVars, socketVars, Step
<1>1. CASE BeginWrite /\ UNCHANGED <<senderVars, socketVars, sendGate, wire>>
  BY <1>1 DEF BeginWrite
<1>2. CASE StoreToken /\ UNCHANGED <<senderVars, socketVars, sendGate, wire>>
  BY <1>2 DEF StoreToken
<1>3. CASE StoreKey /\ UNCHANGED <<senderVars, socketVars, sendGate, wire>>
  BY <1>3 DEF StoreKey
<1>4. CASE RestartSendCounter /\ UNCHANGED <<senderVars, socketVars, sendGate, wire>>
  BY <1>4 DEF RestartSendCounter
<1>5. CASE RestartRecvMark /\ UNCHANGED <<senderVars, socketVars, sendGate, wire>>
  BY <1>5 DEF RestartRecvMark
<1>6. CASE EndWrite /\ UNCHANGED <<senderVars, socketVars, sendGate, wire>>
  BY <1>6 DEF EndWrite
<1>7. CASE FinishRekey
  BY <1>7 DEF FinishRekey
<1>8. CASE CloseHoldGate
  BY <1>8 DEF CloseHoldGate
<1>9. CASE CloseSwap
  BY <1>9 DEF CloseSwap
<1>10. CASE CloseReleaseGate
  BY <1>10 DEF CloseReleaseGate
<1>11. CASE CloseHandle
  BY <1>11 DEF CloseHandle
<1>12. ASSUME NEW s \in Senders, LoadGeneration(s) PROVE Used(d)'
  BY <1>12 DEF LoadGeneration
<1>13. ASSUME NEW s \in Senders, StartRead(s) PROVE Used(d)'
  BY <1>13 DEF StartRead
<1>14. ASSUME NEW s \in Senders, CopyToken(s) PROVE Used(d)'
  BY <1>14 DEF CopyToken
<1>15. ASSUME NEW s \in Senders, CopyKey(s) PROVE Used(d)'
  BY <1>15 DEF CopyKey
<1>16. ASSUME NEW s \in Senders, ValidateRead(s) PROVE Used(d)'
  BY <1>16 DEF ValidateRead
<1>17. ASSUME NEW s \in Senders, HoldGate(s) PROVE Used(d)'
  BY <1>17 DEF HoldGate
<1>18. ASSUME NEW s \in Senders, DrawCounter(s) PROVE Used(d)'
  BY SMTT(60), <1>18 DEF DrawCounter
<1>19. ASSUME NEW s \in Senders, CheckInGate(s) PROVE Used(d)'
  BY <1>19 DEF CheckInGate
<1>20. ASSUME NEW s \in Senders, Send(s) PROVE Used(d)'
  BY <1>20 DEF Send
<1>21. ASSUME NEW s \in Senders, ReleaseGate(s) PROVE Used(d)'
  BY <1>21 DEF ReleaseGate
<1>22. CASE UNCHANGED vars
  BY <1>22 DEF vars
<1> QED
  BY Zenon, NextCases, <1>1, <1>2, <1>3, <1>4, <1>5, <1>6, <1>7, <1>8, <1>9, <1>10, <1>11,
     <1>12, <1>13, <1>14, <1>15, <1>16, <1>17, <1>18, <1>19, <1>20, <1>21, <1>22

\* Only Send puts a datagram on the wire.
LEMMA WireUnchanged ==
  ASSUME [Next]_vars, \A s \in Senders : ~Send(s)
  PROVE  wire' = wire
<1> USE DEF senderVars, socketVars, materialVars, vars
<1>1. CASE UNCHANGED <<senderVars, socketVars, sendGate, wire>>
  BY <1>1
<1> QED
  BY Zenon, NextCases, <1>1
     DEF FinishRekey, CloseHoldGate, CloseSwap, CloseReleaseGate, CloseHandle,
         LoadGeneration, StartRead, CopyToken, CopyKey, ValidateRead, HoldGate,
         DrawCounter, CheckInGate, ReleaseGate

\* The generation never goes back.
LEMMA GenSteps == ASSUME [Next]_vars PROVE gen' = gen \/ gen' = gen + 1
<1> USE DEF materialVars, vars
<1>1. CASE UNCHANGED vars
  BY <1>1
<1>2. CASE BeginWrite \/ StoreToken \/ StoreKey \/ RestartSendCounter \/ RestartRecvMark
           \/ EndWrite
  BY <1>2 DEF BeginWrite, StoreToken, StoreKey, RestartSendCounter, RestartRecvMark, EndWrite
<1>3. CASE FinishRekey \/ CloseHoldGate \/ CloseSwap \/ CloseReleaseGate \/ CloseHandle
  BY <1>3 DEF FinishRekey, CloseHoldGate, CloseSwap, CloseReleaseGate, CloseHandle
<1>4. ASSUME NEW s \in Senders, sendEncrypted(s) PROVE gen' = gen
  BY <1>4 DEF sendEncrypted, LoadGeneration, StartRead, CopyToken, CopyKey, ValidateRead,
              HoldGate, DrawCounter, CheckInGate, Send, ReleaseGate
<1> QED
  BY <1>1, <1>2, <1>3, <1>4 DEF Next, Rekey, WriteMaterial, closeSocket

\* The wire grows in order and by well-sealed datagrams.
LEMMA WireStep == IInv /\ [Next]_vars => WireInv' /\ WireInOrder'
<1> SUFFICES ASSUME IInv, [Next]_vars PROVE WireInv' /\ WireInOrder'
  OBVIOUS
<1>0. \A i \in 1 .. Len(wire) : wire[i].key \in Nat /\ wire[i].ctr \in Nat
  <2>1. wire \in Seq(Datagram)
    BY DEF IInv, TypeOK
  <2>2. \A i \in 1 .. Len(wire) : wire[i] \in Datagram
    BY <2>1
  <2> QED
    BY <2>2 DEF Datagram
<1>1. \A i \in 1 .. Len(wire) : Used(wire[i])
  BY DEF IInv, WireInv
<1>2. \A d : d.key \in Nat /\ d.ctr \in Nat /\ Used(d) => Used(d)'
  BY UsedStays DEF IInv
<1>3. CASE \A s \in Senders : ~Send(s)
  <2>1. wire' = wire
    BY <1>3, WireUnchanged
  <2>2. WireInv'
    <3>1. \A i \in 1 .. Len(wire) : Used(wire[i])'
      BY <2>1, <1>0, <1>1, <1>2
    <3> QED
      BY Zenon, <2>1, <3>1 DEF IInv, WireInv
  <2>3. WireInOrder'
    BY ZenonT(60), <2>1 DEF IInv, WireInOrder, Precedes
  <2> QED
    BY <2>2, <2>3
<1>4. ASSUME NEW s \in Senders, Send(s) PROVE WireInv' /\ WireInOrder'
  <2> DEFINE D == [token |-> copy[s].token, key |-> copy[s].key, ctr |-> ctr[s]]
  <2>1. /\ Len(wire') = Len(wire) + 1
        /\ \A i \in 1 .. Len(wire) : wire'[i] = wire[i]
        /\ wire'[Len(wire) + 1] = D
        /\ Len(wire) \in Nat
    <3>1. wire \in Seq(Datagram)
      BY DEF IInv, TypeOK
    <3>2. wire' = Append(wire, D)
      BY <1>4 DEF Send
    <3> HIDE DEF D
    <3> QED
      BY <3>1, <3>2
  <2>2. /\ D.token = D.key
        /\ D.key = generation[s]
        /\ D.ctr = ctr[s]
        /\ D.key \in Nat /\ D.ctr \in 1 .. kCounterWireMax
    <3>1. place[s] = "sendto"
      BY <1>4 DEF Send, Step
    <3>2. ReadOK(s)
      BY DEF IInv, ReadInv
    <3>3. D.token = before[s] /\ D.key = before[s] /\ before[s] = generation[s]
      BY SMTT(60), <3>1, <3>2 DEF ReadOK, GatePlaces
    <3>4. D.ctr \in 1 .. kCounterWireMax
      BY <3>1 DEF IInv, DrawnInv, DrawnOK
    <3>5. generation[s] \in Nat
      BY SMTT(60) DEF IInv, TypeOK
    <3> QED
      BY <3>3, <3>4, <3>5
  <2>3. /\ Used(D)
        /\ \A i \in 1 .. Len(wire) : Precedes(wire[i], D)
    BY <1>4, <2>2 DEF Send, Step, IInv, DrawnInv, DrawnOK, Drawn, Used, Precedes
  <2>4. Session' = Session /\ sendCounter' = sendCounter
    BY <1>4 DEF Send, Session, materialVars
  <2>5. \A i \in 1 .. Len(wire') :
          /\ Used(wire'[i])
          /\ wire'[i].token = wire'[i].key
          /\ wire'[i].ctr \in 1 .. kCounterWireMax
    <3> SUFFICES ASSUME NEW i \in 1 .. Len(wire')
                 PROVE  /\ Used(wire'[i])
                        /\ wire'[i].token = wire'[i].key
                        /\ wire'[i].ctr \in 1 .. kCounterWireMax
      BY SMTT(60)
    <3>1. CASE i = Len(wire) + 1
      BY <3>1, <2>1, <2>2, <2>3
    <3>2. CASE i \in 1 .. Len(wire)
      BY <3>2, <2>1 DEF IInv, WireInv
    <3> QED
      BY <3>1, <3>2, <2>1
  <2>6. WireInv'
    BY <2>4, <2>5 DEF WireInv, Used
  <2>7. WireInOrder'
    <3> SUFFICES ASSUME NEW i \in 1 .. Len(wire'), NEW j \in 1 .. Len(wire'), i < j
                 PROVE  Precedes(wire'[i], wire'[j])
      BY DEF WireInOrder, Precedes
    <3>1. i \in 1 .. Len(wire)
      BY SMTT(60), <2>1
    <3>2. CASE j = Len(wire) + 1
      BY SMTT(60), <3>1, <3>2, <2>1, <2>3
    <3>3. CASE j \in 1 .. Len(wire)
      BY <3>1, <3>3, <2>1 DEF IInv, WireInOrder
    <3> QED
      BY <3>2, <3>3, <2>1
  <2> QED
    BY <2>6, <2>7
<1> QED
  BY <1>3, <1>4

\* A thread in the gate, past its draw, is past everything on the wire.
LEMMA DrawnStep == IInv /\ [Next]_vars => DrawnInv'
<1> SUFFICES ASSUME IInv, [Next]_vars, NEW t \in Senders
             PROVE  DrawnOK(t)'
  BY DEF DrawnInv
<1>0. DrawnOK(t) /\ ReadOK(t)
  BY DEF IInv, DrawnInv, ReadInv
<1>1. \A d : d.key \in Nat /\ d.ctr \in Nat /\ Used(d) => Used(d)'
  BY UsedStays DEF IInv
<1>2. generation[t] \in Nat /\ before[t] \in Nat /\ ctr[t] \in Nat /\ gen \in Nat
  BY SMTT(60) DEF IInv, TypeOK
<1>3. gen' \in Nat /\ gen <= gen'
  BY SMTT(60), <1>2, GenSteps
\* Whatever leaves t, its draw and the wire alone leaves its claim true.
<1>4. ASSUME UNCHANGED <<generation, ctr, wire>>, place'[t] = place[t]
      PROVE  DrawnOK(t)'
  <2>1. place[t] = "check" /\ gen' = generation[t] => gen = generation[t]
    BY SMTT(60), <1>0, <1>2, <1>3 DEF ReadOK
  <2>2. Used(Drawn(t)) => Used(Drawn(t))'
    <3> DEFINE v == [key |-> generation[t], ctr |-> ctr[t]]
    <3>1. v.key \in Nat /\ v.ctr \in Nat
      BY <1>2
    <3>2. Used(Drawn(t)) => v.key < Session' \/ (v.key = Session' /\ v.ctr < sendCounter')
      BY Zenon, <3>1, <1>1 DEF Drawn, Used
    <3> QED
      BY ZenonT(60), <3>2, <1>4 DEF Drawn, Used
  <2> QED
    BY ZenonT(60), <1>0, <1>4, <2>1, <2>2 DEF DrawnOK, Drawn, Precedes
\* Two threads are never past their draws together.
<1>5. ASSUME NEW s \in Senders, s # t, place[s] \in GatePlaces
      PROVE  place[t] \notin GatePlaces
  BY <1>5 DEF IInv, GateInv
<1>6. ASSUME NEW s \in Senders, DrawCounter(s) PROVE DrawnOK(t)'
  <2>1. CASE s = t
    <3>1. /\ gen' = gen /\ generation' = generation /\ wire' = wire
          /\ ctr'[t] = sendCounter /\ sendCounter' = sendCounter + 1
          /\ place'[t] = "check" => sendCounter \in 1 .. kCounterWireMax
          /\ place'[t] # "sendto"
          /\ writer' = writer
      BY <1>6, <2>1, SendAssumption DEF DrawCounter, Step, IInv, TypeOK, WriterInv
    <3>2. place[t] = "draw"
      BY <1>6, <2>1 DEF DrawCounter, Step
    <3>3. gen = generation[t] => Session = gen /\ Session' = gen
      <4>1. gen = generation[t] => gen % 2 = 0
        BY <3>2, <1>0, <1>2 DEF ReadOK
      <4> QED
        BY <4>1, <3>1 DEF IInv, WriterInv, Session
    <3>4. \A i \in 1 .. Len(wire) : Used(wire[i])
      BY DEF IInv, WireInv
    <3>5. sendCounter \in Nat
      BY DEF IInv, TypeOK
    <3> QED
      BY <3>1, <3>3, <3>4, <3>5, <1>2 DEF DrawnOK, Drawn, Used, Precedes
  <2>2. CASE s # t
    BY <1>5, <1>6, <2>2 DEF DrawCounter, Step, GatePlaces, DrawnOK, IInv, TypeOK
  <2> QED
    BY <2>1, <2>2
<1>7. ASSUME NEW s \in Senders, Send(s) PROVE DrawnOK(t)'
  <2>1. CASE s = t
    BY <1>7, <2>1 DEF Send, Step, DrawnOK, IInv, TypeOK
  <2>2. CASE s # t
    BY <1>5, <1>7, <2>2 DEF Send, Step, GatePlaces, DrawnOK, IInv, TypeOK
  <2> QED
    BY <2>1, <2>2
<1>8. ASSUME NEW s \in Senders, CheckInGate(s) PROVE DrawnOK(t)'
  BY Zenon, <1>0, <1>4, <1>8
     DEF CheckInGate, Step, DrawnOK, Drawn, Used, Precedes, Session, materialVars, IInv, TypeOK
<1>9. ASSUME NEW s \in Senders,
             \/ LoadGeneration(s) \/ StartRead(s) \/ CopyToken(s) \/ CopyKey(s)
             \/ ValidateRead(s) \/ HoldGate(s) \/ ReleaseGate(s)
      PROVE  DrawnOK(t)'
  <2>1. CASE s = t
    <3>1. place'[t] \notin {"check", "sendto"}
      BY <1>9, <2>1 DEF LoadGeneration, StartRead, CopyToken, CopyKey, ValidateRead,
                        HoldGate, ReleaseGate, Step, IInv, TypeOK
    <3> QED
      BY <3>1 DEF DrawnOK
  <2>2. CASE s # t
    <3>1. /\ place'[t] = place[t] /\ generation'[t] = generation[t]
          /\ ctr' = ctr /\ wire' = wire /\ gen' = gen
          /\ sendCounter' = sendCounter /\ writer' = writer
      BY Zenon, <1>9, <2>2 DEF LoadGeneration, StartRead, CopyToken, CopyKey, ValidateRead,
                        HoldGate, ReleaseGate, Step, IInv, TypeOK, materialVars
    <3> QED
      BY <3>1, <1>0 DEF DrawnOK, Drawn, Used, Precedes, Session
  <2> QED
    BY <2>1, <2>2
<1> QED
  BY Zenon, NextCases, <1>4, <1>6, <1>7, <1>8, <1>9
     DEF vars, senderVars, FinishRekey, CloseHoldGate, CloseSwap, CloseReleaseGate, CloseHandle

-----------------------------------------------------------------------------
\* The send path keeps the inductive invariant, whatever the threads do.
LEMMA IInvHolds == Spec => []IInv
<1>1. Init => IInv
  <2> SUFFICES ASSUME Init PROVE IInv
    OBVIOUS
  <2> USE DEF Init, MaterialInit
  <2>1. TypeOK
    BY DEF TypeOK, WriterPlaces, SenderPlaces
  <2>2. WriterInv
    BY DEF WriterInv
  <2>3. GateInv /\ ReadInv /\ DrawnInv
    BY DEF GateInv, ReadInv, ReadOK, DrawnInv, DrawnOK, GatePlaces
  <2>4. WireInv /\ WireInOrder
    BY DEF WireInv, WireInOrder
  <2> QED
    BY <2>1, <2>2, <2>3, <2>4 DEF IInv
<1>2. IInv /\ [Next]_vars => IInv'
  BY TypeStep, WriterStep, GateStep, ReadStep, WireStep, DrawnStep DEF IInv
<1> QED
  BY <1>1, <1>2, PTL DEF Spec

\* Type correctness of the send path.
THEOREM SendTypes == Spec => []TypeOK
<1>1. IInv => TypeOK
  BY DEF IInv
<1> QED
  BY <1>1, IInvHolds, PTL

\* No (key, counter) pair, the nonce of the AEAD, is ever used for two
\* datagrams, and the counters of a session leave in increasing order: for any
\* number of threads in sendEncrypted and any number of re-keys under them.
THEOREM NoncesNeverReused == Spec => []WireInOrder
<1>1. IInv => WireInOrder
  BY DEF IInv
<1> QED
  BY <1>1, IInvHolds, PTL

\* Every datagram is sealed under the key that belongs to its token, the counter on
\* the wire never wraps, whatever the width of its field, and closeSocket never closes
\* the handle under a thread about to send on it.
THEOREM SendsWholeAlways == Spec => []SendsWhole
<1>1. IInv => SealedUnderOneWrite
  BY DEF IInv, WireInv, SealedUnderOneWrite
<1>2. IInv => NeverWraps
  BY DEF IInv, WireInv, NeverWraps
<1>3. IInv => NoSendOnClosedHandle
  BY DEF IInv, GateInv, NoSendOnClosedHandle, TypeOK
<1>4. IInv => SendsWhole
  BY <1>1, <1>2, <1>3 DEF SendsWhole
<1> QED
  BY <1>4, IInvHolds, PTL

=============================================================================
