------------------------ MODULE SatelliteReceiveProofs ------------------------
(***************************************************************************)
(* Proofs about the receive path, for any number of re-keys and any number *)
(* of datagrams, lost, repeated and reordered in any way.                  *)
(***************************************************************************)
EXTENDS SatelliteClient, FiniteSetTheorems, TLAPS

ReceiverPlaces == {"idle", "read", "token", "key", "validate", "mark", "accept"}
Datagrams == [session : Nat, ctr : Nat]

Types ==
  /\ gen \in Nat
  /\ words \in [token : Nat, key : Nat]
  /\ sendCounter \in Nat
  /\ recvMark \in [gen : Nat, last : Nat]
  /\ writer \in WriterPlaces
  /\ hostSession \in Nat
  /\ sent \subseteq [session : Nat, ctr : Nat \ {0}]
  /\ IsFiniteSet(sent)
  /\ receivePlace \in ReceiverPlaces
  /\ packet \in Datagrams
  /\ receiveGeneration \in Nat
  /\ receiveBefore \in Nat
  /\ receiveCopy \in [token : Nat, key : Nat]
  /\ mark \in [gen : Nat, last : Nat]
  /\ accepted \in Seq(Datagrams)

\* The generation is odd exactly while a write is open, each word holds the value of
\* the last write that reached it, and so does the generation half of the mark.
WriterInv ==
  /\ gen % 2 = IF writer \in {"idle", "reset"} THEN 0 ELSE 1
  /\ words.token = CASE writer \in {"idle", "reset"} -> gen
                     [] writer = "token" -> gen - 1
                     [] OTHER -> gen + 1
  /\ words.key = CASE writer \in {"idle", "reset"} -> gen
                   [] writer \in {"token", "key"} -> gen - 1
                   [] OTHER -> gen + 1
  /\ recvMark.gen = CASE writer \in {"idle", "reset"} -> gen
                      [] writer = "end" -> gen + 1
                      [] OTHER -> gen - 1

\* What the receive thread's copy is worth: until it is validated, it is the
\* current material if the generation has not moved; afterwards it is one write's,
\* and the datagram's own.
ReadInv ==
  /\ receivePlace # "idle" => packet \in sent /\ receiveGeneration <= gen
  /\ receivePlace \notin {"idle", "read"} =>
       receiveBefore % 2 = 0 /\ receiveGeneration <= receiveBefore /\ receiveBefore <= gen
  /\ receivePlace \in {"key", "validate"} /\ gen = receiveBefore => receiveCopy.token = receiveBefore
  /\ receivePlace = "validate" /\ gen = receiveBefore => receiveCopy.key = receiveBefore
  /\ receivePlace \in {"mark", "accept"} =>
       receiveCopy.token = receiveBefore /\ receiveCopy.key = receiveBefore /\ packet.session = receiveBefore

\* A datagram about to be accepted is of the session of the mark it was compared
\* with, and past it.
AcceptInv ==
  receivePlace = "accept" =>
    mark.gen = receiveGeneration /\ receiveBefore = receiveGeneration /\ mark.last < packet.ctr

\* The mark is the last datagram accepted in its session, and nothing accepted is
\* past it.
Covers(m, p) == p.session < m.gen \/ (p.session = m.gen /\ p.ctr <= m.last)

MarkInv == \A i \in 1 .. Len(accepted) : Covers(recvMark, accepted[i])

ReceiveInv ==
  /\ Types
  /\ WriterInv
  /\ ReadInv
  /\ AcceptInv
  /\ MarkInv
  /\ Rising
  /\ MarkOfItsSession

-----------------------------------------------------------------------------
\* The generation's parity flips with every begin and end of a write.
LEMMA Parity ==
  ASSUME NEW n \in Nat
  PROVE  /\ n % 2 \in {0, 1}
         /\ n % 2 = 0 => (n + 1) % 2 = 1
         /\ n % 2 = 1 => (n + 1) % 2 = 0
OBVIOUS

\* A step is the satellite's, one of the receive thread, or one of the writer.
LEMMA NextCases ==
  ASSUME [ReceiveNext]_receiveVars
  PROVE  \/ HostRekey \/ HostSend \/ ReceiveDatagram
         \/ ReceiveStart \/ ReceiveToken \/ ReceiveKey \/ ReceiveValidate \/ LoadMark \/ AcceptMark
         \/ BeginWrite /\ UNCHANGED <<receiverVars, hostVars>>
         \/ StoreToken /\ UNCHANGED <<receiverVars, hostVars>>
         \/ StoreKey /\ UNCHANGED <<receiverVars, hostVars>>
         \/ RestartSendCounter /\ UNCHANGED <<receiverVars, hostVars>>
         \/ RestartRecvMark /\ UNCHANGED <<receiverVars, hostVars>>
         \/ EndWrite /\ UNCHANGED <<receiverVars, hostVars>>
         \/ FinishAdopt
         \/ UNCHANGED receiveVars
BY DEF ReceiveNext, AdoptRekey, WriteMaterial, decryptIncoming

\* The satellite's datagrams of a session are finitely many, so the next has a number.
LEMMA HostSendTypes ==
  ASSUME Types, HostSend
  PROVE  sent' \subseteq [session : Nat, ctr : Nat \ {0}] /\ IsFiniteSet(sent')
<1> DEFINE ofSession == {p \in sent : p.session = hostSession}
           fresh == [session |-> hostSession, ctr |-> Cardinality(ofSession) + 1]
<1>1. IsFiniteSet(ofSession)
  BY FS_Subset DEF Types
<1>2. Cardinality(ofSession) \in Nat
  BY <1>1, FS_CardinalityType
<1>3. fresh \in [session : Nat, ctr : Nat \ {0}]
  BY SMTT(60), <1>2 DEF Types
<1>4. sent' = sent \cup {fresh}
  BY DEF HostSend
<1>5. IsFiniteSet(sent \cup {fresh})
  BY Zenon, FS_AddElement DEF Types
<1> QED
  BY Zenon, <1>3, <1>4, <1>5 DEF Types

\* The variables keep their types.
LEMMA TypeStep == Types /\ [ReceiveNext]_receiveVars => Types'
<1> SUFFICES ASSUME Types, [ReceiveNext]_receiveVars PROVE Types'
  OBVIOUS
<1> USE DEF Types, materialVars, receiverVars, hostVars, WriterPlaces, ReceiverPlaces, Datagrams,
            ReceiveStep
<1>1. CASE HostRekey
  BY <1>1 DEF HostRekey
<1>2. CASE HostSend
  <2>1. UNCHANGED <<materialVars, receiverVars, hostSession>>
    BY <1>2 DEF HostSend
  <2> QED
    BY SMTT(60), <1>2, <2>1, HostSendTypes
<1>3. CASE ReceiveDatagram
  BY SMTT(60), <1>3 DEF ReceiveDatagram
<1>4. CASE ReceiveStart
  BY <1>4 DEF ReceiveStart
<1>5. CASE ReceiveToken
  BY <1>5 DEF ReceiveToken
<1>6. CASE ReceiveKey
  BY <1>6 DEF ReceiveKey
<1>7. CASE ReceiveValidate
  BY <1>7 DEF ReceiveValidate
<1>8. CASE LoadMark
  BY <1>8 DEF LoadMark
<1>9. CASE AcceptMark
  <2>1. recvMark' \in [gen : Nat, last : Nat]
    <3>1. recvMark \in [gen : Nat, last : Nat] /\ receiveGeneration \in Nat /\ packet.ctr \in Nat
      OBVIOUS
    <3> HIDE DEF Types, Datagrams, WriterPlaces, ReceiverPlaces
    <3> QED
      BY <1>9, <3>1 DEF AcceptMark
  <2>2. accepted' \in Seq(Datagrams)
    <3> HIDE DEF Datagrams, Types
    <3>1. accepted \in Seq(Datagrams) /\ packet \in Datagrams
      BY DEF Types
    <3>2. accepted' = accepted \/ accepted' = Append(accepted, packet)
      BY <1>9 DEF AcceptMark
    <3> QED
      BY <3>1, <3>2
  <2>3. /\ receivePlace' = "idle"
        /\ UNCHANGED <<gen, words, sendCounter, writer, packet, receiveGeneration, receiveBefore, receiveCopy, mark,
                      hostSession, sent>>
    BY <1>9 DEF AcceptMark
  <2> QED
    BY <2>1, <2>2, <2>3
<1>10. CASE BeginWrite /\ UNCHANGED <<receiverVars, hostVars>>
  BY <1>10 DEF BeginWrite
<1>11. CASE StoreToken /\ UNCHANGED <<receiverVars, hostVars>>
  BY <1>11 DEF StoreToken
<1>12. CASE StoreKey /\ UNCHANGED <<receiverVars, hostVars>>
  BY <1>12 DEF StoreKey
<1>13. CASE RestartSendCounter /\ UNCHANGED <<receiverVars, hostVars>>
  BY <1>13 DEF RestartSendCounter
<1>14. CASE RestartRecvMark /\ UNCHANGED <<receiverVars, hostVars>>
  BY <1>14 DEF RestartRecvMark
<1>15. CASE EndWrite /\ UNCHANGED <<receiverVars, hostVars>>
  BY <1>15 DEF EndWrite
<1>16. CASE FinishAdopt
  BY <1>16 DEF FinishAdopt
<1>17. CASE UNCHANGED receiveVars
  BY <1>17 DEF receiveVars
<1> QED
  BY Zenon, NextCases, <1>1, <1>2, <1>3, <1>4, <1>5, <1>6, <1>7, <1>8, <1>9, <1>10, <1>11, <1>12,
     <1>13, <1>14, <1>15, <1>16, <1>17

\* The words and the mark follow the write, the generation before and after it.
LEMMA WriterStep == Types /\ WriterInv /\ ReadInv /\ AcceptInv /\ [ReceiveNext]_receiveVars => WriterInv'
<1> SUFFICES ASSUME Types, WriterInv, ReadInv, AcceptInv, [ReceiveNext]_receiveVars PROVE WriterInv'
  OBVIOUS
<1> USE DEF Types, WriterInv, materialVars, receiverVars, hostVars, WriterPlaces, ReceiveStep
<1>1. CASE HostRekey \/ HostSend \/ ReceiveDatagram \/ ReceiveStart \/ ReceiveToken \/ ReceiveKey
           \/ ReceiveValidate \/ LoadMark \/ UNCHANGED receiveVars
  <2>1. UNCHANGED materialVars
    BY Zenon, <1>1 DEF HostRekey, HostSend, ReceiveDatagram, ReceiveStart, ReceiveToken, ReceiveKey,
                ReceiveValidate, LoadMark, receiveVars
  <2> QED
    BY <2>1
<1>2. CASE AcceptMark
  <2> HIDE DEF Types, WriterInv
  <2>1. UNCHANGED <<gen, words, writer>>
    BY <1>2 DEF AcceptMark
  <2>2. recvMark'.gen = recvMark.gen
    <3>1. CASE recvMark = mark
      BY <1>2, <3>1 DEF AcceptMark, AcceptInv
    <3>2. CASE recvMark # mark
      BY <1>2, <3>2 DEF AcceptMark
    <3> QED
      BY <3>1, <3>2
  <2> QED
    BY <2>1, <2>2 DEF WriterInv
<1>3. CASE BeginWrite /\ UNCHANGED <<receiverVars, hostVars>>
  <2>1. gen % 2 = 0 /\ words.token = gen /\ words.key = gen /\ recvMark.gen = gen
    BY <1>3 DEF BeginWrite
  <2>2. gen' = gen + 1 /\ words' = words /\ recvMark' = recvMark /\ writer' = "token"
    BY <1>3 DEF BeginWrite
  <2>3. gen' % 2 = 1 /\ gen' - 1 = gen
    BY SMTT(60), <2>1, <2>2, Parity
  <2> HIDE DEF Types, WriterPlaces
  <2> QED
    BY <2>1, <2>2, <2>3
<1>4. CASE StoreToken /\ UNCHANGED <<receiverVars, hostVars>>
  BY <1>4 DEF StoreToken
<1>5. CASE StoreKey /\ UNCHANGED <<receiverVars, hostVars>>
  BY <1>5 DEF StoreKey
<1>6. CASE RestartSendCounter /\ UNCHANGED <<receiverVars, hostVars>>
  BY <1>6 DEF RestartSendCounter
<1>7. CASE RestartRecvMark /\ UNCHANGED <<receiverVars, hostVars>>
  BY <1>7 DEF RestartRecvMark
<1>8. CASE EndWrite /\ UNCHANGED <<receiverVars, hostVars>>
  <2>1. gen % 2 = 1 /\ words.token = gen + 1 /\ words.key = gen + 1 /\ recvMark.gen = gen + 1
    BY <1>8 DEF EndWrite
  <2>2. gen' = gen + 1 /\ words' = words /\ recvMark' = recvMark /\ writer' = "reset"
    BY <1>8 DEF EndWrite
  <2>3. gen' % 2 = 0
    BY <2>1, <2>2, Parity
  <2> HIDE DEF Types, WriterPlaces
  <2> QED
    BY <2>1, <2>2, <2>3
<1>9. CASE FinishAdopt
  BY <1>9 DEF FinishAdopt
<1> QED
  BY ZenonT(60), NextCases, <1>1, <1>2, <1>3, <1>4, <1>5, <1>6, <1>7, <1>8, <1>9

\* What the receive thread works on keeps its worth: a write only moves the generation on.
LEMMA ReadStep == Types /\ WriterInv /\ ReadInv /\ [ReceiveNext]_receiveVars => ReadInv'
<1> SUFFICES ASSUME Types, WriterInv, ReadInv, [ReceiveNext]_receiveVars PROVE ReadInv'
  OBVIOUS
<1>a. gen % 2 = 0 => words.token = gen /\ words.key = gen
  <2>1. gen % 2 = 0 => writer \in {"idle", "reset"}
    BY DEF WriterInv
  <2> QED
    BY <2>1 DEF WriterInv
<1>b. gen \in Nat /\ receiveGeneration \in Nat /\ receiveBefore \in Nat /\ receivePlace \in ReceiverPlaces
      /\ receiveCopy \in [token : Nat, key : Nat]
  BY DEF Types
<1> USE <1>b DEF ReadInv, materialVars, receiverVars, hostVars, ReceiverPlaces, ReceiveStep
<1>1. CASE HostRekey
  BY <1>1 DEF HostRekey
<1>2. CASE HostSend
  BY <1>2 DEF HostSend
<1>3. CASE ReceiveDatagram
  BY <1>3 DEF ReceiveDatagram
<1>4. CASE ReceiveStart
  <2>1. gen % 2 \in {0, 1}
    BY Parity
  <2> QED
    BY <1>4, <2>1 DEF ReceiveStart
<1>5. CASE ReceiveToken
  BY <1>5, <1>a DEF ReceiveToken
<1>6. CASE ReceiveKey
  BY <1>6, <1>a DEF ReceiveKey
<1>7. CASE ReceiveValidate
  BY <1>7 DEF ReceiveValidate
<1>8. CASE LoadMark
  BY <1>8 DEF LoadMark
<1>9. CASE AcceptMark
  BY <1>9 DEF AcceptMark
<1>10. CASE BeginWrite /\ UNCHANGED <<receiverVars, hostVars>>
  BY <1>10 DEF BeginWrite
<1>11. CASE StoreToken /\ UNCHANGED <<receiverVars, hostVars>>
  BY <1>11 DEF StoreToken
<1>12. CASE StoreKey /\ UNCHANGED <<receiverVars, hostVars>>
  BY <1>12 DEF StoreKey
<1>13. CASE RestartSendCounter /\ UNCHANGED <<receiverVars, hostVars>>
  BY <1>13 DEF RestartSendCounter
<1>14. CASE RestartRecvMark /\ UNCHANGED <<receiverVars, hostVars>>
  BY <1>14 DEF RestartRecvMark
<1>15. CASE EndWrite /\ UNCHANGED <<receiverVars, hostVars>>
  BY <1>15 DEF EndWrite
<1>16. CASE FinishAdopt
  BY <1>16 DEF FinishAdopt
<1>17. CASE UNCHANGED receiveVars
  BY <1>17 DEF receiveVars
<1> QED
  BY ZenonT(60), NextCases, <1>1, <1>2, <1>3, <1>4, <1>5, <1>6, <1>7, <1>8, <1>9, <1>10, <1>11, <1>12,
     <1>13, <1>14, <1>15, <1>16, <1>17

\* The generation of the mark is even and at most one behind Seqlock::gen_.  So a mark of the
\* generation that readMaterial loaded is of the session that the copy came from.
LEMMA MarkOfTheRead ==
  ASSUME Types, WriterInv, ReadInv, receivePlace = "mark", recvMark.gen = receiveGeneration
  PROVE  receiveBefore = receiveGeneration
<1>1. gen \in Nat /\ receiveGeneration \in Nat /\ receiveBefore \in Nat
  BY DEF Types
<1>2. receiveGeneration <= receiveBefore /\ receiveBefore <= gen /\ receiveBefore % 2 = 0
  BY DEF ReadInv
<1>3. CASE writer \in {"idle", "reset"}
  BY <1>1, <1>2, <1>3 DEF WriterInv
<1>4. CASE writer = "end"
  BY <1>1, <1>2, <1>4 DEF WriterInv
<1>5. CASE writer \notin {"idle", "reset", "end"}
  <2>1. receiveGeneration = gen - 1 /\ gen % 2 = 1
    BY <1>5 DEF WriterInv
  <2>2. receiveBefore \in {gen - 1, gen}
    BY <1>1, <1>2, <2>1
  <2>3. receiveBefore # gen
    BY SMTT(60), <1>2, <2>1
  <2> QED
    BY <2>1, <2>2, <2>3
<1> QED
  BY <1>3, <1>4, <1>5

\* LoadMark establishes it, and nothing but the receive thread changes what it is about.
LEMMA AcceptStep ==
  Types /\ WriterInv /\ ReadInv /\ AcceptInv /\ [ReceiveNext]_receiveVars => AcceptInv'
<1> SUFFICES ASSUME Types, WriterInv, ReadInv, AcceptInv, [ReceiveNext]_receiveVars PROVE AcceptInv'
  OBVIOUS
<1> USE DEF AcceptInv, receiverVars, ReceiveStep
<1>1. CASE LoadMark
  <2> SUFFICES ASSUME receivePlace' = "accept" PROVE AcceptInv'
    OBVIOUS
  <2>1. /\ receivePlace = "mark" /\ recvMark.gen = receiveGeneration
        /\ recvMark.last = 0 \/ packet.ctr > recvMark.last
        /\ mark' = recvMark /\ UNCHANGED <<packet, receiveGeneration, receiveBefore>>
    BY <1>1 DEF LoadMark
  <2>2. receiveBefore = receiveGeneration
    BY <2>1, MarkOfTheRead
  <2>3. packet \in sent
    BY <2>1 DEF ReadInv
  <2>4. packet.ctr \in Nat \ {0} /\ recvMark.last \in Nat
    BY SMTT(60), <2>3 DEF Types
  <2> QED
    BY <2>1, <2>2, <2>4
<1>2. CASE ReceiveStart \/ ReceiveToken \/ ReceiveKey \/ ReceiveValidate \/ AcceptMark \/ ReceiveDatagram
  BY <1>2 DEF ReceiveStart, ReceiveToken, ReceiveKey, ReceiveValidate, AcceptMark, ReceiveDatagram
<1>3. CASE UNCHANGED receiverVars
  BY <1>3
<1> QED
  BY ZenonT(60), NextCases, <1>1, <1>2, <1>3 DEF HostRekey, HostSend, FinishAdopt, receiveVars

\* The order of what is accepted, and the mark that holds its last.
LEMMA OrderStep ==
  Types /\ WriterInv /\ ReadInv /\ AcceptInv /\ MarkInv /\ Rising /\ [ReceiveNext]_receiveVars
    => MarkInv' /\ Rising'
<1> SUFFICES ASSUME Types, WriterInv, ReadInv, AcceptInv, MarkInv, Rising, [ReceiveNext]_receiveVars
             PROVE  MarkInv' /\ Rising'
  OBVIOUS
<1>t. \A i \in 1 .. Len(accepted) : accepted[i].session \in Nat /\ accepted[i].ctr \in Nat
  <2>1. accepted \in Seq(Datagrams)
    BY DEF Types
  <2>2. \A i \in 1 .. Len(accepted) : accepted[i] \in Datagrams
    BY <2>1
  <2> QED
    BY <2>2 DEF Datagrams
<1>1. CASE AcceptMark /\ recvMark = mark
  <2>1. /\ recvMark' = [gen |-> receiveGeneration, last |-> packet.ctr]
        /\ accepted' = Append(accepted, packet)
    BY <1>1 DEF AcceptMark
  <2>2. /\ recvMark.gen = receiveGeneration /\ packet.session = receiveGeneration
        /\ recvMark.last < packet.ctr
    BY <1>1 DEF AcceptMark, AcceptInv, ReadInv, ReceiveStep
  <2>3. packet \in Datagrams /\ accepted \in Seq(Datagrams) /\ recvMark \in [gen : Nat, last : Nat]
    BY DEF Types
  <2>4. /\ Len(accepted') = Len(accepted) + 1
        /\ accepted'[Len(accepted) + 1] = packet
        /\ \A i \in 1 .. Len(accepted) : accepted'[i] = accepted[i]
    BY <2>1, <2>3
  <2>5. Len(accepted) \in Nat
    BY <2>3
  <2>6. /\ packet.session \in Nat /\ packet.ctr \in Nat
        /\ recvMark.gen \in Nat /\ recvMark.last \in Nat
        /\ recvMark'.gen = recvMark.gen /\ recvMark'.last = packet.ctr
    BY <2>1, <2>2, <2>3 DEF Datagrams
  <2>7. ASSUME NEW i \in 1 .. Len(accepted)
        PROVE  Earlier(accepted[i], packet) /\ Covers(recvMark', accepted[i])
    <3>1. Covers(recvMark, accepted[i])
      BY DEF MarkInv
    <3>2. accepted[i].session \in Nat /\ accepted[i].ctr \in Nat
      BY <1>t
    <3> QED
      BY <2>2, <2>6, <3>1, <3>2 DEF Covers, Earlier
  <2>8. Covers(recvMark', packet)
    BY <2>2, <2>6 DEF Covers
  <2>9. MarkInv'
    BY SMTT(60), <2>4, <2>5, <2>7, <2>8 DEF MarkInv, Covers
  <2>10. Rising'
    BY <2>4, <2>5, <2>7 DEF Rising, Earlier
  <2> QED
    BY <2>9, <2>10
<1>2. CASE RestartRecvMark /\ UNCHANGED <<receiverVars, hostVars>>
  <2>1. UNCHANGED accepted /\ recvMark' = [gen |-> gen + 1, last |-> 0] /\ recvMark.gen = gen - 1
    BY <1>2 DEF RestartRecvMark, receiverVars, WriterInv
  <2>2. gen \in Nat
    BY DEF Types
  <2> QED
    BY <2>1, <2>2, <1>t DEF MarkInv, Rising, Covers
<1>3. CASE UNCHANGED <<recvMark, accepted>>
  BY <1>3 DEF MarkInv, Rising
<1>4. AcceptMark /\ recvMark # mark => UNCHANGED <<recvMark, accepted>>
  BY DEF AcceptMark
<1> QED
  BY Zenon, NextCases, <1>1, <1>2, <1>3, <1>4
     DEF HostRekey, HostSend, ReceiveDatagram, ReceiveStart, ReceiveToken, ReceiveKey, ReceiveValidate, LoadMark,
         BeginWrite, StoreToken, StoreKey, RestartSendCounter, EndWrite, FinishAdopt, receiveVars,
         materialVars, receiverVars

\* The mark holds no counter but one of its own session's datagrams.
LEMMA MarkSessionStep ==
  Types /\ ReadInv /\ AcceptInv /\ MarkOfItsSession /\ [ReceiveNext]_receiveVars => MarkOfItsSession'
<1> SUFFICES ASSUME Types, ReadInv, AcceptInv, MarkOfItsSession, [ReceiveNext]_receiveVars
             PROVE  MarkOfItsSession'
  OBVIOUS
<1>1. CASE AcceptMark /\ recvMark = mark
  <2>1. recvMark' = [gen |-> receiveGeneration, last |-> packet.ctr] /\ sent' = sent
    BY <1>1 DEF AcceptMark, hostVars
  <2>2. packet \in sent /\ packet.session = receiveGeneration
    BY <1>1 DEF AcceptMark, AcceptInv, ReadInv, ReceiveStep
  <2>3. packet = [session |-> packet.session, ctr |-> packet.ctr]
    BY DEF Types, Datagrams
  <2> QED
    BY <2>1, <2>2, <2>3 DEF MarkOfItsSession
<1>2. CASE RestartRecvMark /\ UNCHANGED <<receiverVars, hostVars>>
  BY <1>2 DEF RestartRecvMark, MarkOfItsSession
<1>3. CASE recvMark' = recvMark /\ sent \subseteq sent'
  BY <1>3 DEF MarkOfItsSession
<1>4. AcceptMark /\ recvMark # mark => UNCHANGED <<recvMark, sent>>
  BY DEF AcceptMark, hostVars
<1> QED
  BY Zenon, NextCases, <1>1, <1>2, <1>3, <1>4
     DEF HostRekey, HostSend, ReceiveDatagram, ReceiveStart, ReceiveToken, ReceiveKey, ReceiveValidate, LoadMark,
         BeginWrite, StoreToken, StoreKey, RestartSendCounter, EndWrite, FinishAdopt, receiveVars,
         materialVars, hostVars

-----------------------------------------------------------------------------
\* The invariant of the receive path holds throughout: seqlock, copy, mark and history agree.
THEOREM ReceiveInvariant == ReceiveSpec => []ReceiveInv
<1>1. ReceiveInit => ReceiveInv
  <2> SUFFICES ASSUME ReceiveInit PROVE ReceiveInv
    OBVIOUS
  <2>1. IsFiniteSet({})
    BY FS_EmptySet
  <2>2. accepted = <<>> /\ Len(accepted) = 0
    BY DEF ReceiveInit
  <2> USE DEF ReceiveInit, MaterialInit
  <2>3. Types
    BY <2>1 DEF Types, WriterPlaces, ReceiverPlaces, Datagrams
  <2>4. WriterInv
    BY DEF WriterInv
  <2>5. ReadInv /\ AcceptInv /\ MarkOfItsSession
    BY DEF ReadInv, AcceptInv, MarkOfItsSession
  <2>6. MarkInv /\ Rising
    BY <2>2 DEF MarkInv, Rising
  <2> QED
    BY <2>3, <2>4, <2>5, <2>6 DEF ReceiveInv
<1>2. ReceiveInv /\ [ReceiveNext]_receiveVars => ReceiveInv'
  BY TypeStep, WriterStep, ReadStep, AcceptStep, OrderStep, MarkSessionStep DEF ReceiveInv
<1> QED
  BY <1>1, <1>2, PTL DEF ReceiveSpec

\* Replay protection for any number of re-keys: whatever the network and the interleaving with
\* setConnectionParams do, datagrams are accepted in strictly rising order of session and counter,
\* and one still being opened when the re-key lands never raises the fresh session's mark.
THEOREM AcceptedInOrderAlways == ReceiveSpec => []AcceptedInOrder
<1>1. ReceiveInv => AcceptedInOrder
  BY DEF ReceiveInv, AcceptedInOrder
<1> QED
  BY <1>1, ReceiveInvariant, PTL

=============================================================================
