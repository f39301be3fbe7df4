-------------------------- MODULE WifiSessionProofs ---------------------------
(***************************************************************************)
(* Proofs about the life of the session with one satellite, for any number *)
(* of user operations, of losses and disturbances, of requests out and of  *)
(* retries armed.                                                          *)
(***************************************************************************)
EXTENDS WifiSession, Integers, FiniteSetTheorems, WellFoundedInduction, TLAPS

\* Kinds of request that end an attempt to connect.
Attempts == {"pair", "pinPair", "put"}
Up == {"Linking", "Live", "Faltering"}

\* A connection is a record that has these fields among others.
IsConnection(c) == {"obj", "state", "client", "cid"} \subseteq DOMAIN c

\* A connection has what its own state needs.
ConnectionInv(c) ==
  /\ IsConnection(c) /\ c.state \in States
  /\ c.obj = None <=> c.state = "None"
  /\ c.state \in {"Live", "Faltering"} => c.client # None /\ c.cid # None
  /\ c.state \in {"None", "Idle", "Stale"} => c.client = None /\ c.cid = None

\* So is a request.
IsRequest(m) == {"kind", "on", "cid", "answer"} \subseteq DOMAIN m

\* A PUT that was granted names its session.
Grants(m) == m.kind = "put" /\ m.answer = "ok" => m.cid # None

NetInv(n) == IsFiniteSet(n) /\ \A m \in n : IsRequest(m) /\ Grants(m)

\* A connection that links has a request out.
Awaited(c, n) == c.state = "Linking" => \E m \in n : m.kind \in Attempts /\ m.on = c.obj

LifeInv ==
  /\ ConnectionInv(conn) /\ NetInv(net) /\ Awaited(conn, net)
  /\ held => conn.state \notin Up

-----------------------------------------------------------------------------
(* Numbers drawn fresh                                                     *)

\* A set of natural numbers that is not empty has a least element.
LEMMA LeastNatural ==
  ASSUME NEW T, T \subseteq Nat, T # {}
  PROVE  \E n \in T : \A k \in T : n <= k
<1>1. PICK n \in T : \A k \in T : ~(<<k, n>> \in OpToRel(<, Nat))
  BY Zenon, NatLessThanWellFounded, WFMin
<1>2. \A k \in T : ~(k < n)
  BY Zenon, <1>1 DEF OpToRel
<1> QED
  BY <1>2

\* However many are in use, there is a fresh one, and it is not None.
LEMMA FreshIsNew ==
  ASSUME NEW used, IsFiniteSet(used)
  PROVE  Fresh(used) \in Nat \ {None} /\ Fresh(used) \notin used
<1> DEFINE all == 1 .. Cardinality(used) + 1
           free == all \ used
<1>1. Cardinality(used) \in Nat
  BY FS_CardinalityType
<1>2. IsFiniteSet(all) /\ Cardinality(all) = Cardinality(used) + 1
  <2>1. 1 \in Int /\ Cardinality(used) + 1 \in Int /\ ~(1 > Cardinality(used) + 1)
        /\ (Cardinality(used) + 1) - 1 + 1 = Cardinality(used) + 1
    BY <1>1
  <2> QED
    BY Zenon, <2>1, FS_Interval
<1>3. free # {}
  <2> SUFFICES ASSUME free = {} PROVE FALSE
    OBVIOUS
  <2>1. all \in SUBSET used
    OBVIOUS
  <2>2. Cardinality(all) <= Cardinality(used)
    BY Zenon, <2>1, FS_Subset
  <2> HIDE DEF all
  <2> QED
    BY <1>1, <1>2, <2>2
<1>4. PICK n \in free : \A k \in free : n <= k
  <2>1. free \subseteq Nat
    BY <1>1
  <2> HIDE DEF free
  <2> QED
    BY Zenon, <1>3, <2>1, LeastNatural
<1>5. \A k \in 1 .. n - 1 : k \in used
  BY <1>1, <1>4
<1>6. \E m \in all : m \notin used /\ \A k \in 1 .. m - 1 : k \in used
  BY <1>4, <1>5
<1>7. Fresh(used) \in all /\ Fresh(used) \notin used
  BY <1>6 DEF Fresh
<1> QED
  BY <1>1, <1>7 DEF None

\* The values of a function with a finite domain are finitely many.
LEMMA FiniteValues ==
  ASSUME NEW f, IsFiniteSet(DOMAIN f)
  PROVE  IsFiniteSet({f[x] : x \in DOMAIN f})
<1> DEFINE T == {f[x] : x \in DOMAIN f}
           g == [x \in DOMAIN f |-> f[x]]
<1>1. g \in Surjection(DOMAIN f, T)
  BY DEF Surjection
<1> QED
  BY <1>1, FS_Surjection

\* So each field of the requests out takes finitely many values.
LEMMA FiniteFields ==
  ASSUME NEW n, IsFiniteSet(n)
  PROVE  /\ IsFiniteSet({m.on : m \in n}) /\ IsFiniteSet({m.client : m \in n})
         /\ IsFiniteSet({m.cid : m \in n}) /\ IsFiniteSet({m.id : m \in n})
<1>1. IsFiniteSet({m.on : m \in n})
  <2> DEFINE f == [m \in n |-> m.on]
  <2>1. {m.on : m \in n} = {f[x] : x \in DOMAIN f} /\ DOMAIN f = n
    OBVIOUS
  <2> HIDE DEF f
  <2> QED
    BY <2>1, FiniteValues
<1>2. IsFiniteSet({m.client : m \in n})
  <2> DEFINE f == [m \in n |-> m.client]
  <2>1. {m.client : m \in n} = {f[x] : x \in DOMAIN f} /\ DOMAIN f = n
    OBVIOUS
  <2> HIDE DEF f
  <2> QED
    BY <2>1, FiniteValues
<1>3. IsFiniteSet({m.cid : m \in n})
  <2> DEFINE f == [m \in n |-> m.cid]
  <2>1. {m.cid : m \in n} = {f[x] : x \in DOMAIN f} /\ DOMAIN f = n
    OBVIOUS
  <2> HIDE DEF f
  <2> QED
    BY <2>1, FiniteValues
<1>4. IsFiniteSet({m.id : m \in n})
  <2> DEFINE f == [m \in n |-> m.id]
  <2>1. {m.id : m \in n} = {f[x] : x \in DOMAIN f} /\ DOMAIN f = n
    OBVIOUS
  <2> HIDE DEF f
  <2> QED
    BY <2>1, FiniteValues
<1> QED
  BY <1>1, <1>2, <1>3, <1>4

-----------------------------------------------------------------------------
(* Connections                                                             *)

\* What the four marks make of a connection.
LEMMA Marks ==
  ASSUME NEW c, ConnectionInv(c), c.obj # None
  PROVE  /\ ConnectionInv(markStale(c)) /\ markStale(c).obj = c.obj /\ markStale(c).state = "Stale"
         /\ ConnectionInv(markDisconnected(c)) /\ markDisconnected(c).obj = c.obj
         /\ markDisconnected(c).state = "Idle"
         /\ ConnectionInv(markConnecting(c)) /\ markConnecting(c).obj = c.obj
         /\ \A client, tok, cid : client # None /\ cid # None =>
              ConnectionInv(markConnected(c, client, tok, cid))
<1>1. /\ IsConnection(teardownClient(c)) /\ teardownClient(c).obj = c.obj
      /\ teardownClient(c).client = None /\ teardownClient(c).cid = None
  BY DEF teardownClient, ConnectionInv, IsConnection
<1>2. ConnectionInv(markStale(c)) /\ markStale(c).obj = c.obj /\ markStale(c).state = "Stale"
  BY <1>1 DEF markStale, ConnectionInv, IsConnection, States
<1>3. /\ ConnectionInv(markDisconnected(c)) /\ markDisconnected(c).obj = c.obj
      /\ markDisconnected(c).state = "Idle"
  BY <1>1 DEF markDisconnected, ConnectionInv, IsConnection, States
<1>4. ConnectionInv(markConnecting(c)) /\ markConnecting(c).obj = c.obj
  BY DEF markConnecting, ConnectionInv, IsConnection, States
<1>5. ASSUME NEW client, NEW tok, NEW cid, client # None, cid # None
      PROVE  ConnectionInv(markConnected(c, client, tok, cid))
  BY <1>5 DEF markConnected, ConnectionInv, IsConnection, States
<1> QED
  BY <1>2, <1>3, <1>4, <1>5

\* A connection just made is idle.
LEMMA NewIsIdle ==
  ASSUME NEW o, o # None
  PROVE  ConnectionInv(NewConnection(o)) /\ NewConnection(o).state = "Idle" /\ NewConnection(o).obj = o
BY DEF NewConnection, NoConnection, ConnectionInv, IsConnection, States

-----------------------------------------------------------------------------
(* Requests                                                                *)

\* A request joins the others under an id of its own.
LEMMA SendJoins ==
  ASSUME NEW base, NetInv(base), NEW r, IsRequest(r), Grants(r)
  PROVE  /\ NetInv(Send(base, r)) /\ base \subseteq Send(base, r)
         /\ \E m \in Send(base, r) : m.kind = r.kind /\ m.on = r.on
<1> DEFINE i == Fresh({n.id : n \in {x \in base : x.kind = r.kind}})
           s == [r EXCEPT !.id = i]
<1>1. Send(base, r) = base \cup {s}
  BY DEF Send
<1> HIDE DEF i
<1>3. IsRequest(s) /\ Grants(s) /\ s.kind = r.kind /\ s.on = r.on
  BY DEF IsRequest, Grants
<1> HIDE DEF s
<1>4. IsFiniteSet(base \cup {s})
  BY FS_AddElement DEF NetInv
<1> QED
  BY <1>1, <1>3, <1>4 DEF NetInv

\* What Request makes is a request.
LEMMA Requested ==
  ASSUME NEW kind, NEW on, NEW quiet, NEW k
  PROVE  /\ IsRequest(Request(kind, on, quiet, k)) /\ Grants(Request(kind, on, quiet, k))
         /\ Request(kind, on, quiet, k).kind = kind /\ Request(kind, on, quiet, k).on = on
BY DEF Request, IsRequest, Grants

\* A session is handed back by a request of its own.
LEMMA ReleaseJoins ==
  ASSUME NEW base, NetInv(base), NEW cid, NEW k
  PROVE  NetInv(Release(base, cid, k)) /\ base \subseteq Release(base, cid, k)
<1> DEFINE r == [Request("delete", None, TRUE, k) EXCEPT !.cid = cid]
<1>1. IsRequest(r) /\ Grants(r)
  BY DEF Request, IsRequest, Grants
<1>2. Release(base, cid, k) = Send(base, r)
  BY DEF Release
<1> HIDE DEF r
<1> QED
  BY <1>1, <1>2, SendJoins

\* A request goes: a connection that it was not an attempt of still has its own.
LEMMA Removed ==
  ASSUME NEW n, NetInv(n), NEW m
  PROVE  /\ NetInv(n \ {m})
         /\ \A c : Awaited(c, n) /\ (m.on # c.obj \/ m.kind \notin Attempts) => Awaited(c, n \ {m})
<1>1. IsFiniteSet(n \ {m})
  BY FS_RemoveElement DEF NetInv
<1> QED
  BY <1>1 DEF NetInv, Awaited

\* An answer takes the place of the request.
LEMMA Answered ==
  ASSUME NEW n, NetInv(n), NEW m \in n, NEW a, IsRequest(a), Grants(a), a.kind = m.kind, a.on = m.on
  PROVE  /\ NetInv((n \ {m}) \cup {a})
         /\ \A c : Awaited(c, n) => Awaited(c, (n \ {m}) \cup {a})
<1>1. IsFiniteSet(n \ {m})
  BY FS_RemoveElement DEF NetInv
<1>2. IsFiniteSet((n \ {m}) \cup {a})
  BY <1>1, FS_AddElement
<1> QED
  BY <1>2 DEF NetInv, Awaited

\* More requests out leave a connection with its own.
LEMMA More ==
  ASSUME NEW c, NEW n, NEW p, n \subseteq p, Awaited(c, n)
  PROVE  Awaited(c, p)
BY DEF Awaited

-----------------------------------------------------------------------------
(* The manager's steps                                                     *)

\* openSession: a PUT goes out on the connection, or the connection is stale.
LEMMA Opened ==
  ASSUME NEW c, ConnectionInv(c), c.obj # None, NEW base, NetInv(base), NEW quiet, NEW k,
         openSession(c, quiet, k, base)
  PROVE  /\ ConnectionInv(conn') /\ NetInv(net') /\ Awaited(conn', net')
         /\ conn' = c \/ conn'.state = "Stale"
<1>1. CASE k = None
  <2>1. conn' = markStale(c) /\ net' = base
    BY <1>1 DEF openSession, onTerminalAuthFailure
  <2> QED
    BY <2>1, Marks DEF Awaited
<1>2. CASE k # None
  <2> DEFINE r == Request("put", c.obj, quiet, k)
  <2>1. conn' = c /\ net' = Send(base, r)
    BY <1>2 DEF openSession
  <2>2. IsRequest(r) /\ Grants(r) /\ r.kind = "put" /\ r.on = c.obj
    BY Requested
  <2> HIDE DEF r
  <2>3. NetInv(net') /\ \E m \in net' : m.kind = "put" /\ m.on = c.obj
    BY <2>1, <2>2, SendJoins
  <2> QED
    BY <2>1, <2>3 DEF Awaited, Attempts
<1> QED
  BY <1>1, <1>2

\* ensureConnection finds the connection or makes an idle one.
LEMMA Ensured ==
  ASSUME LifeInv
  PROVE  /\ ConnectionInv(ensureConnection) /\ ensureConnection.obj # None
         /\ ensureConnection = conn \/ ensureConnection.state = "Idle"
<1> DEFINE used == {m.on : m \in net} \ {None}
<1>1. IsFiniteSet(used)
  <2>1. IsFiniteSet({m.on : m \in net})
    BY Zenon, FiniteFields DEF LifeInv, NetInv
  <2> QED
    BY <2>1, FS_RemoveElement
<1>2. ensureConnection = IF conn.obj # None THEN conn ELSE NewConnection(Fresh(used))
  BY DEF ensureConnection
<1> HIDE DEF used
<1>3. Fresh(used) # None
  BY <1>1, FreshIsNew
<1> QED
  BY <1>2, <1>3, NewIsIdle DEF LifeInv

\* connectTo: an attempt that it starts has its request, one that is under way keeps it.
LEMMA Connects ==
  ASSUME LifeInv, NEW quiet, connectTo(quiet)
  PROVE  ConnectionInv(conn') /\ NetInv(net') /\ Awaited(conn', net')
<1> DEFINE c == ensureConnection
<1>1. ConnectionInv(c) /\ c.obj # None /\ (c = conn \/ c.state = "Idle")
  BY Ensured
<1>2. NetInv(net) /\ Awaited(conn, net)
  BY DEF LifeInv
<1>3. ConnectionInv(markConnecting(c)) /\ markConnecting(c).obj = c.obj
  BY <1>1, Marks
<1>4. CASE c.state \in {"Live", "Linking"}
  <2>1. conn' = c /\ net' = net
    BY <1>4 DEF connectTo
  <2> QED
    BY <1>1, <1>2, <2>1 DEF Awaited
<1>5. CASE c.state \notin {"Live", "Linking"} /\ key # None
  <2>1. openSession(markConnecting(c), quiet, key, net)
    BY <1>5 DEF connectTo
  <2> HIDE DEF c
  <2> QED
    BY SMTT(60), <1>1, <1>2, <1>3, <2>1, Opened
<1>6. CASE c.state \notin {"Live", "Linking"} /\ key = None
  <2> DEFINE r == Request("pair", c.obj, quiet, None)
  <2>1. conn' = markConnecting(c) /\ net' = Send(net, r)
    BY <1>6 DEF connectTo
  <2>2. IsRequest(r) /\ Grants(r) /\ r.kind = "pair" /\ r.on = c.obj
    BY Requested
  <2> HIDE DEF c, r
  <2>3. NetInv(net') /\ \E m \in net' : m.kind = "pair" /\ m.on = c.obj
    BY <1>2, <2>1, <2>2, SendJoins
  <2> QED
    BY <1>3, <2>1, <2>3 DEF Awaited, Attempts
<1> QED
  BY <1>4, <1>5, <1>6

\* pairWithPin does the same with a request of its own.
LEMMA PairsWithPin ==
  ASSUME LifeInv, pairWithPin
  PROVE  LifeInv'
<1> DEFINE c == ensureConnection
           r == Request("pinPair", c.obj, FALSE, None)
<1>1. ConnectionInv(c) /\ c.obj # None /\ (c = conn \/ c.state = "Idle")
  BY Ensured
<1>2. NetInv(net) /\ Awaited(conn, net)
  BY DEF LifeInv
<1>3. ConnectionInv(markConnecting(c)) /\ markConnecting(c).obj = c.obj
  BY <1>1, Marks
<1>4. ~held'
  BY DEF pairWithPin
<1>5. CASE c.state = "Live"
  <2>1. conn' = c /\ net' = net
    BY <1>5 DEF pairWithPin
  <2> QED
    BY <1>1, <1>2, <1>4, <1>5, <2>1 DEF LifeInv, Awaited
<1>6. CASE c.state # "Live"
  <2>1. conn' = markConnecting(c) /\ net' = Send(net, r)
    BY <1>6 DEF pairWithPin
  <2>2. IsRequest(r) /\ Grants(r) /\ r.kind = "pinPair" /\ r.on = c.obj
    BY DEF Request, IsRequest, Grants
  <2> HIDE DEF c, r
  <2>3. NetInv(net') /\ \E m \in net' : m.kind = "pinPair" /\ m.on = c.obj
    BY <1>2, <2>1, <2>2, SendJoins
  <2> QED
    BY <1>3, <1>4, <2>1, <2>3 DEF LifeInv, Awaited, Attempts
<1> QED
  BY <1>5, <1>6

\* closeSession leaves the connection down.
LEMMA Closes ==
  ASSUME LifeInv, closeSession(conn, net)
  PROVE  ConnectionInv(conn') /\ NetInv(net') /\ conn'.state \notin Up
<1>1. ConnectionInv(conn') /\ conn'.state \notin Up
  <2>1. CASE conn.obj = None
    BY <2>1 DEF closeSession, LifeInv, ConnectionInv, Up
  <2>2. CASE conn.obj # None
    BY <2>2, Marks DEF closeSession, LifeInv, Up
  <2> QED
    BY <2>1, <2>2
<1>2. NetInv(net')
  BY ReleaseJoins DEF closeSession, LifeInv
<1> QED
  BY <1>1, <1>2

\* A connection that is down, or still there as it was, with the requests it may need.
LEMMA Settles ==
  ASSUME LifeInv, ConnectionInv(conn'), NetInv(net'),
         conn'.state \notin Up \/ (Awaited(conn', net') /\ (held' => conn'.state \notin Up))
  PROVE  LifeInv'
BY DEF LifeInv, Awaited, Up

\* onPairReply: the reply to an attempt opens the session or ends the attempt.
LEMMA PairReplied ==
  ASSUME LifeInv, NEW m, onPairReply(m)
  PROVE  LifeInv'
<1>1. m \in net /\ m.answer # "out" /\ held' = held
  BY DEF onPairReply
<1>2. NetInv(net \ {m}) /\ (m.on # conn.obj => Awaited(conn, net \ {m}))
  BY Removed DEF LifeInv
<1>3. CASE ~replyTarget(m)
  <2>1. conn' = conn /\ net' = net \ {m}
    BY <1>3 DEF onPairReply
  <2>2. m.on # conn.obj \/ conn.obj = None
    BY <1>3 DEF replyTarget
  <2>3. Awaited(conn, net \ {m})
    BY <1>2, <2>2 DEF Awaited, LifeInv, ConnectionInv
  <2> QED
    BY <1>1, <1>2, <2>1, <2>3 DEF LifeInv
<1>4. CASE replyTarget(m)
  <2>0. ConnectionInv(conn) /\ conn.obj # None
    BY <1>4 DEF replyTarget, LifeInv
  <2>1. CASE m.answer = "ok"
    <3>1. openSession(conn, m.quiet, m.key, net \ {m})
      BY <1>4, <2>1 DEF onPairReply
    <3>2. /\ ConnectionInv(conn') /\ NetInv(net') /\ Awaited(conn', net')
          /\ conn' = conn \/ conn'.state = "Stale"
      BY <1>2, <2>0, <3>1, Opened
    <3> QED
      BY <1>1, <3>2 DEF LifeInv, Up
  <2>2. CASE m.answer # "ok"
    <3>1. net' = net \ {m} /\ conn' \in {markStale(conn), markDisconnected(conn)}
      BY <1>4, <2>2 DEF onPairReply, Park
    <3>2. ConnectionInv(conn') /\ conn'.state \notin Up
      BY SMTT(60), <2>0, <3>1, Marks DEF Up
    <3> QED
      BY <1>2, <3>1, <3>2, Settles
  <2> QED
    BY <2>1, <2>2
<1> QED
  BY <1>3, <1>4

\* onSessionReply: a grant makes the session, a refusal ends the attempt or repeats it.
LEMMA SessionReplied ==
  ASSUME LifeInv, NEW m, onSessionReply(m)
  PROVE  LifeInv'
<1>1. m \in net /\ m.kind = "put" /\ m.answer # "out" /\ held' = held
  BY DEF onSessionReply
<1>2. NetInv(net \ {m}) /\ (m.on # conn.obj => Awaited(conn, net \ {m}))
  BY Removed DEF LifeInv
<1>3. ASSUME ~replyTarget(m), net' = net \ {m}, conn' = conn PROVE LifeInv'
  <2>2. m.on # conn.obj \/ conn.obj = None
    BY <1>3 DEF replyTarget
  <2>3. Awaited(conn, net \ {m})
    BY <1>2, <2>2 DEF Awaited, LifeInv, ConnectionInv
  <2> QED
    BY <1>1, <1>2, <1>3, <2>3 DEF LifeInv
<1>4. ASSUME conn.state # "Linking", handBackLateGrant(m) PROVE LifeInv'
  <2>1. NetInv(net') /\ conn' = conn
    BY <1>2, <1>4, ReleaseJoins DEF handBackLateGrant
  <2> QED
    BY <1>1, <1>4, <2>1 DEF LifeInv, Awaited
<1>5. ASSUME replyTarget(m), conn.state = "Linking" PROVE ConnectionInv(conn) /\ conn.obj # None /\ ~held
  BY <1>5 DEF replyTarget, LifeInv, Up
<1>6. ASSUME replyTarget(m), conn.state = "Linking", m.answer = "ok", startSession(m) PROVE LifeInv'
  <2> DEFINE used == ({conn.client} \cup {n.client : n \in net}) \ {None}
  <2>1. IsFiniteSet(used)
    <3>1. IsFiniteSet({n.client : n \in net})
      BY Zenon, FiniteFields DEF LifeInv, NetInv
    <3>2. IsFiniteSet({n.client : n \in net} \cup {conn.client})
      BY <3>1, FS_AddElement
    <3>3. {n.client : n \in net} \cup {conn.client} = {conn.client} \cup {n.client : n \in net}
      OBVIOUS
    <3> QED
      BY <3>2, <3>3, FS_RemoveElement
  <2>2. conn' = markConnected(conn, Fresh(used), m.tok, m.cid) /\ net' = net \ {m}
    BY <1>6 DEF startSession
  <2> HIDE DEF used
  <2>3. Fresh(used) # None /\ m.cid # None
    BY SMTT(60), <1>1, <1>6, <2>1, FreshIsNew DEF LifeInv, NetInv, Grants
  <2>4. ConnectionInv(conn')
    BY <1>5, <1>6, <2>2, <2>3, Marks
  <2>5. conn'.state = "Live"
    BY <1>5, <1>6, <2>2 DEF markConnected, ConnectionInv, IsConnection
  <2> QED
    BY SMTT(60), <1>1, <1>2, <1>5, <1>6, <2>2, <2>4, <2>5 DEF LifeInv, Awaited
<1>7. ASSUME replyTarget(m), conn.state = "Linking", releaseUnusableGrant(m) PROVE LifeInv'
  <2>1. conn' = markDisconnected(conn) /\ net' = Release(net \ {m}, m.cid, m.key)
    BY <1>7 DEF releaseUnusableGrant
  <2>2. ConnectionInv(conn') /\ conn'.state \notin Up
    BY <1>5, <1>7, <2>1, Marks DEF Up
  <2> QED
    BY <1>2, <2>1, <2>2, ReleaseJoins, Settles
<1>8. ASSUME replyTarget(m), conn.state = "Linking", onSessionRefused(m) PROVE LifeInv'
  <2>0. ConnectionInv(conn) /\ conn.obj # None /\ ~held
    BY <1>5, <1>8
  <2>1. CASE m.answer = "lower" /\ ~conn.lowered
    <3> DEFINE c == [conn EXCEPT !.lowered = TRUE]
    <3>1. openSession(c, m.quiet, key, net \ {m})
      BY <1>8, <2>1 DEF onSessionRefused
    <3>2. ConnectionInv(c) /\ c.obj # None
      BY <2>0 DEF ConnectionInv, IsConnection
    <3> HIDE DEF c
    <3>3. ConnectionInv(conn') /\ NetInv(net') /\ Awaited(conn', net')
      BY SMTT(60), <1>2, <3>1, <3>2, Opened
    <3> QED
      BY <1>1, <2>0, <3>3 DEF LifeInv
  <2>2. CASE ~(m.answer = "lower" /\ ~conn.lowered)
    <3>1. net' = net \ {m} /\ conn' \in {markStale(conn), markDisconnected(conn)}
      BY <1>8, <2>2 DEF onSessionRefused, onTerminalAuthFailure, Park
    <3>2. ConnectionInv(conn') /\ conn'.state \notin Up
      BY <2>0, <3>1, Marks DEF Up
    <3> QED
      BY <1>2, <3>1, <3>2, Settles
  <2> QED
    BY <2>1, <2>2
<1> QED
  BY SMTT(60), <1>3, <1>4, <1>6, <1>7, <1>8 DEF onSessionReply

\* The tick of a live client: the state stays among those of a session, or is left alone.
LEMMA Ticks ==
  ASSUME LifeInv, NEW f, NEW d, NEW e, TickSteady(f, d, e)
  PROVE  LifeInv'
<1> DEFINE steady == IF conn.state \notin {"Live", "Faltering"} THEN conn.state
                     ELSE IF f THEN "Faltering" ELSE "Live"
           get == d /\ steady = "Live" /\ ~reconciling /\ key # None
           put == e /\ ~conn.rekeyRequested /\ steady = "Live" /\ key # None
           g == [Request("get", conn.obj, TRUE, key) EXCEPT !.cid = conn.cid]
           p == [Request("rekey", conn.obj, TRUE, key) EXCEPT !.client = conn.client]
           got == IF get THEN Send(net, g) ELSE net
<1>1. /\ conn' = [conn EXCEPT !.state = steady, !.rekeyRequested = e]
      /\ net' = IF put THEN Send(got, p) ELSE got
      /\ held' = held
  BY DEF TickSteady
<1>2. steady = conn.state \/ (conn.state \in {"Live", "Faltering"} /\ steady \in {"Live", "Faltering"})
  OBVIOUS
<1>3. IsRequest(g) /\ Grants(g) /\ IsRequest(p) /\ Grants(p)
  BY DEF Request, IsRequest, Grants
<1> HIDE DEF steady, g, p, get, put
<1>4. NetInv(got) /\ net \subseteq got
  BY <1>3, SendJoins DEF LifeInv
<1> HIDE DEF got
<1>5. NetInv(net') /\ net \subseteq net'
  BY <1>1, <1>3, <1>4, SendJoins
<1>6. ConnectionInv(conn') /\ conn'.state = steady /\ conn'.obj = conn.obj
  BY <1>1, <1>2 DEF LifeInv, ConnectionInv, IsConnection, States
<1>7. Awaited(conn', net')
  BY <1>2, <1>5, <1>6 DEF LifeInv, Awaited
<1> QED
  BY <1>1, <1>2, <1>5, <1>6, <1>7 DEF LifeInv, Up

\* A tick that finds the session ended takes the connection down.
LEMMA TicksEnd ==
  ASSUME LifeInv, TickClosed \/ TickDead
  PROVE  LifeInv'
<1>1. ConnectionInv(conn) /\ NetInv(net) /\ conn.client # None /\ conn.obj # None
  BY Zenon DEF TickClosed, TickDead, LifeInv, ConnectionInv
<1>2. CASE TickClosed
  <2>1. net' = net /\ conn' \in {markStale(conn), markDisconnected(conn)}
    BY Zenon, <1>2 DEF TickClosed
  <2>2. ConnectionInv(conn') /\ conn'.state \notin Up
    BY <1>1, <2>1, Marks DEF Up
  <2> QED
    BY <1>1, <2>1, <2>2, Settles
<1>3. CASE TickDead
  <2>1. closeSession(conn, net)
    BY <1>3 DEF TickDead
  <2> QED
    BY <2>1, Closes, Settles
<1> QED
  BY <1>2, <1>3

\* onReconcileReply acts on a live connection alone; it may put it down and link it anew.
LEMMA Reconciled ==
  ASSUME LifeInv, NEW m, NEW b, onReconcileReply(m, b)
  PROVE  LifeInv'
<1>1. m \in net /\ m.kind = "get" /\ held' = held
  BY DEF onReconcileReply
<1>2. NetInv(net \ {m}) /\ Awaited(conn, net \ {m})
  <2>1. m.kind \notin Attempts
    BY <1>1 DEF Attempts
  <2> QED
    BY <2>1, Removed DEF LifeInv
<1>3. CASE conn' = conn /\ net' = net \ {m}
  BY <1>1, <1>2, <1>3 DEF LifeInv
<1>4. CASE conn.state = "Live" /\ conn' = markStale(conn) /\ net' = net \ {m}
  <2>1. ConnectionInv(conn) /\ conn.obj # None
    BY <1>4 DEF LifeInv, ConnectionInv
  <2>2. ConnectionInv(conn') /\ conn'.state \notin Up
    BY <1>4, <2>1, Marks DEF Up
  <2> QED
    BY <1>2, <1>4, <2>2, Settles
<1>5. CASE /\ conn.state = "Live"
           /\ openSession(markConnecting(markDisconnected(conn)), TRUE, key, net \ {m})
  <2> DEFINE c == markConnecting(markDisconnected(conn))
  <2>1. ConnectionInv(conn) /\ conn.obj # None /\ ~held
    BY <1>5 DEF LifeInv, ConnectionInv, Up
  <2>2. ConnectionInv(markDisconnected(conn)) /\ markDisconnected(conn).obj # None
    BY <2>1, Marks
  <2>3. ConnectionInv(c) /\ c.obj # None
    BY <2>2, Marks
  <2>4. \E quiet : openSession(c, quiet, key, net \ {m})
    BY Zenon, <1>5
  <2> HIDE DEF c
  <2>5. ConnectionInv(conn') /\ NetInv(net') /\ Awaited(conn', net')
    BY <1>2, <2>3, <2>4, Opened
  <2> QED
    BY <1>1, <2>1, <2>5 DEF LifeInv
<1> QED
  BY Zenon, <1>3, <1>4, <1>5 DEF onReconcileReply, onTerminalAuthFailure

\* onRekeyReply changes the token of the session, or ends it with the key.
LEMMA Rekeyed ==
  ASSUME LifeInv, NEW m, NEW b, onRekeyReply(m, b)
  PROVE  LifeInv'
<1>1. m \in net /\ m.kind = "rekey" /\ held' = held /\ net' = net \ {m}
  BY DEF onRekeyReply
<1>2. NetInv(net \ {m}) /\ Awaited(conn, net \ {m})
  <2>1. m.kind \notin Attempts
    BY <1>1 DEF Attempts
  <2> QED
    BY <2>1, Removed DEF LifeInv
<1>3. CASE conn.obj # None /\ m.answer = "auth"
  <2>1. conn' = markStale(conn)
    BY <1>3 DEF onRekeyReply, onTerminalAuthFailure
  <2>2. ConnectionInv(conn') /\ conn'.state \notin Up
    BY <1>3, <2>1, Marks DEF LifeInv, Up
  <2> QED
    BY <1>1, <1>2, <2>2, Settles
<1>4. CASE ~(conn.obj # None /\ m.answer = "auth")
  <2>1. conn' = conn \/ conn' = [conn EXCEPT !.tok = m.tok]
    BY <1>4 DEF onRekeyReply
  <2>2. ConnectionInv(conn') /\ conn'.state = conn.state /\ conn'.obj = conn.obj
    BY <2>1 DEF LifeInv, ConnectionInv, IsConnection
  <2> QED
    BY <1>1, <1>2, <2>2 DEF LifeInv, Awaited
<1> QED
  BY <1>3, <1>4

\* forget leaves no connection, and requests that have lost theirs.
LEMMA Forgets ==
  ASSUME LifeInv, forget
  PROVE  LifeInv'
<1> DEFINE unpaired == IF key = None THEN net ELSE Send(net, Request("unpair", None, TRUE, key))
           orphan(m) == [m EXCEPT !.on = IF m.on = conn.obj THEN None ELSE m.on]
           orphaned == {orphan(m) : m \in unpaired}
<1>1. /\ conn' = NoConnection
      /\ net' = IF conn.cid # None /\ key # None THEN Release(orphaned, conn.cid, key) ELSE orphaned
  BY DEF forget
<1>2. NetInv(unpaired)
  <2> DEFINE r == Request("unpair", None, TRUE, key)
  <2>1. IsRequest(r) /\ Grants(r)
    BY DEF Request, IsRequest, Grants
  <2>2. unpaired = IF key = None THEN net ELSE Send(net, r)
    OBVIOUS
  <2> HIDE DEF r, unpaired
  <2> QED
    BY <2>1, <2>2, SendJoins DEF LifeInv
<1>3. NetInv(orphaned)
  <2> HIDE DEF unpaired
  <2>1. \A m \in unpaired : IsRequest(orphan(m)) /\ Grants(orphan(m))
    BY <1>2 DEF NetInv, IsRequest, Grants
  <2> DEFINE h == [m \in unpaired |-> orphan(m)]
  <2>2. orphaned = {h[x] : x \in DOMAIN h} /\ DOMAIN h = unpaired
    OBVIOUS
  <2> HIDE DEF h
  <2>3. IsFiniteSet(orphaned)
    BY <1>2, <2>2, FiniteValues DEF NetInv
  <2> QED
    BY <2>1, <2>3 DEF NetInv
<1> HIDE DEF orphaned
<1>4. NetInv(net')
  BY <1>1, <1>3, ReleaseJoins
<1>5. ConnectionInv(conn') /\ conn'.state \notin Up
  BY <1>1 DEF NoConnection, ConnectionInv, IsConnection, States, Up
<1> QED
  BY <1>4, <1>5, Settles

-----------------------------------------------------------------------------
(* The satellite's steps                                                   *)

\* An answer that grants nothing keeps the request's kind and connection.
LEMMA AnswersKeep ==
  ASSUME LifeInv, NEW m \in net, NEW a, a # "ok", Answer(m, a)
  PROVE  NetInv(net') /\ Awaited(conn, net')
<1> DEFINE r == [m EXCEPT !.answer = a, !.key = None, !.tok = None, !.cid = None]
<1>1. IsRequest(r) /\ Grants(r) /\ r.kind = m.kind /\ r.on = m.on
  BY DEF LifeInv, NetInv, IsRequest, Grants
<1>2. net' = (net \ {m}) \cup {r}
  BY DEF Answer
<1> HIDE DEF r
<1> QED
  BY <1>1, <1>2, Answered DEF LifeInv

\* Serving a request: a grant of a PUT names the session that it made or kept.
LEMMA Serves ==
  ASSUME LifeInv, NEW m, Serve(m)
  PROVE  LifeInv'
<1>1. m \in net /\ IsRequest(m) /\ conn' = conn /\ held' = held
  BY DEF Serve, LifeInv, NetInv, managerVars
<1>2. SUFFICES NetInv(net') /\ Awaited(conn, net')
  BY <1>1 DEF LifeInv
<1>3. CASE ServePair(m)
  <2>1. ASSUME Answer(m, "auth") PROVE NetInv(net') /\ Awaited(conn, net')
    BY <1>1, <2>1, AnswersKeep
  <2>2. ASSUME NEW k, net' = (net \ {m}) \cup {[m EXCEPT !.answer = "ok", !.key = k]}
        PROVE  NetInv(net') /\ Awaited(conn, net')
    <3> DEFINE r == [m EXCEPT !.answer = "ok", !.key = k]
    <3>1. m.kind # "put"
      BY <1>3 DEF ServePair
    <3>2. IsRequest(r) /\ Grants(r) /\ r.kind = m.kind /\ r.on = m.on
      BY <1>1, <3>1 DEF IsRequest, Grants
    <3>3. net' = (net \ {m}) \cup {r}
      BY <2>2
    <3> HIDE DEF r
    <3> QED
      BY <1>1, <3>2, <3>3, Answered DEF LifeInv
  <2> QED
    BY Zenon, <1>3, <2>1, <2>2 DEF ServePair
<1>4. CASE ServePut(m)
  <2>1. CASE m.key # srvKey
    BY <1>1, <1>4, <2>1, AnswersKeep DEF ServePut
  <2>2. CASE m.key = srvKey
    <3> DEFINE used == ({conn.cid} \cup {n.cid : n \in net}) \ {None}
               cid == IF srv.cid # None THEN srv.cid ELSE Fresh(used)
    <3>1. /\ srv' = [tok |-> Fresh(({srv.tok, conn.tok} \cup {n.tok : n \in net}) \ {None}),
                     cid |-> cid]
          /\ net' = (net \ {m}) \cup
                      {[m EXCEPT !.answer = "ok", !.tok = srv'.tok, !.cid = srv'.cid]}
      BY <1>4, <2>2 DEF ServePut
    <3>2. IsFiniteSet(used)
      <4>1. IsFiniteSet({n.cid : n \in net})
        BY Zenon, FiniteFields DEF LifeInv, NetInv
      <4>2. IsFiniteSet({n.cid : n \in net} \cup {conn.cid})
        BY <4>1, FS_AddElement
      <4>3. {n.cid : n \in net} \cup {conn.cid} = {conn.cid} \cup {n.cid : n \in net}
        OBVIOUS
      <4> QED
        BY <4>2, <4>3, FS_RemoveElement
    <3> HIDE DEF used
    <3>3. cid # None
      BY <3>2, FreshIsNew
    <3> HIDE DEF cid
    <3> DEFINE r == [m EXCEPT !.answer = "ok", !.tok = srv'.tok, !.cid = srv'.cid]
    <3>4. srv'.cid # None
      BY Zenon, <3>1, <3>3
    <3>5. IsRequest(r) /\ Grants(r) /\ r.kind = m.kind /\ r.on = m.on
      BY <1>1, <3>4 DEF IsRequest, Grants
    <3>6. net' = (net \ {m}) \cup {r}
      BY Zenon, <3>1
    <3> HIDE DEF r
    <3> QED
      BY <1>1, <3>5, <3>6, Answered DEF LifeInv
  <2> QED
    BY <2>1, <2>2
<1>5. CASE ServeGet(m)
  <2>1. m.kind = "get"
    BY <1>5 DEF ServeGet
  <2>2. CASE m.key = srvKey /\ m.cid = srv.cid
    <3> DEFINE r == [m EXCEPT !.answer = "ok", !.key = None]
    <3>1. IsRequest(r) /\ Grants(r) /\ r.kind = m.kind /\ r.on = m.on
      BY <1>1, <2>1 DEF IsRequest, Grants
    <3>2. net' = (net \ {m}) \cup {r}
      BY <1>5, <2>2 DEF ServeGet
    <3> HIDE DEF r
    <3> QED
      BY <1>1, <3>1, <3>2, Answered DEF LifeInv
  <2>3. CASE ~(m.key = srvKey /\ m.cid = srv.cid)
    <3>1. \E a \in {"auth", "fail"} : Answer(m, a)
      BY <1>5, <2>3 DEF ServeGet
    <3> QED
      BY <1>1, <3>1, AnswersKeep
  <2> QED
    BY <2>2, <2>3
<1>6. CASE ServeEnd(m)
  <2>1. m.kind \notin Attempts /\ net' = net \ {m}
    BY <1>6 DEF ServeEnd, Attempts
  <2> QED
    BY <2>1, Removed DEF LifeInv
<1> QED
  BY <1>3, <1>4, <1>5, <1>6 DEF Serve

\* Losing a request, or the satellite refusing it, leaves its attempt an answer.
LEMMA Loses ==
  ASSUME LifeInv, NEW m, Lose(m)
  PROVE  LifeInv'
<1>1. m \in net /\ conn' = conn /\ held' = held
  BY DEF Lose, managerVars
<1>2. CASE m.kind \in {"delete", "unpair"} /\ net' = net \ {m}
  <2>1. m.kind \notin Attempts
    BY <1>2 DEF Attempts
  <2> QED
    BY <1>1, <1>2, <2>1, Removed DEF LifeInv
<1>3. ASSUME NEW a \in {"fail", "refused", "lower"}, Answer(m, a) PROVE LifeInv'
  <2>1. NetInv(net') /\ Awaited(conn, net')
    BY <1>1, <1>3, AnswersKeep
  <2> QED
    BY <1>1, <2>1 DEF LifeInv
<1> QED
  BY <1>2, <1>3 DEF Lose

\* Every step keeps the invariant.
LEMMA LifeStep == LifeInv /\ [Next]_vars => LifeInv'
<1> SUFFICES ASSUME LifeInv, [Next]_vars PROVE LifeInv'
  OBVIOUS
<1>1. CASE UserConnect
  <2>1. ~held' /\ \E quiet : connectTo(quiet)
    BY Zenon, <1>1 DEF UserConnect
  <2> QED
    BY <2>1, Connects DEF LifeInv
<1>2. CASE autoReconnectAll
  <2>1. ~held' /\ \E quiet : connectTo(quiet)
    BY Zenon, <1>2 DEF autoReconnectAll
  <2> QED
    BY <2>1, Connects DEF LifeInv
<1>3. CASE onRetryDue
  <2>1. CASE conn.state \in {"Idle", "Stale"} /\ ~held
    <3>1. ~held' /\ \E quiet : connectTo(quiet)
      BY Zenon, <1>3, <2>1 DEF onRetryDue
    <3> QED
      BY <3>1, Connects DEF LifeInv
  <2>2. CASE ~(conn.state \in {"Idle", "Stale"} /\ ~held)
    BY Zenon, <1>3, <2>2 DEF onRetryDue, LifeInv
  <2> QED
    BY <2>1, <2>2
<1>4. CASE disconnect \/ prepareForSleep
  <2>1. closeSession(conn, net)
    BY <1>4 DEF disconnect, prepareForSleep
  <2> QED
    BY <2>1, Closes, Settles
<1>5. CASE CalmDown
  BY <1>5 DEF CalmDown, managerVars, LifeInv
<1>6. ASSUME NEW r, EndByServer(r) PROVE LifeInv'
  <2>1. /\ net' = net /\ held' = held
        /\ conn' = conn \/ conn' = [conn EXCEPT !.notice = r]
    BY <1>6 DEF EndByServer, managerVars
  <2>2. ConnectionInv(conn') /\ conn'.state = conn.state /\ conn'.obj = conn.obj
    BY <2>1 DEF LifeInv, ConnectionInv, IsConnection
  <2> QED
    BY <2>1, <2>2 DEF LifeInv, Awaited
<1>7. CASE UNCHANGED vars
  BY <1>7 DEF vars, managerVars, LifeInv
<1> QED
  BY <1>1, <1>2, <1>3, <1>4, <1>5, <1>6, <1>7, PairsWithPin, Forgets, Ticks, TicksEnd, PairReplied,
     SessionReplied, Reconciled, Rekeyed, Serves, Loses
  DEF Next, User, Handle

\* Whatever the user does and the network loses, delays or reorders, a connection has what its
\* state needs, and a satellite the user disconnected is not connected to until the user asks.
THEOREM StateHasItsMeansAlways == Spec => []StateHasItsMeans
<1>1. Init => LifeInv
  <2> SUFFICES ASSUME Init PROVE LifeInv
    OBVIOUS
  <2>1. ConnectionInv(conn) /\ conn.state \notin Up
    BY DEF Init, NoConnection, ConnectionInv, IsConnection, States, Up
  <2>2. NetInv(net)
    BY FS_EmptySet DEF Init, NetInv
  <2> QED
    BY <2>1, <2>2 DEF LifeInv, Awaited, Up
<1>2. LifeInv => StateHasItsMeans
  BY DEF LifeInv, ConnectionInv, Awaited, Attempts, Up, StateHasItsMeans
<1> QED
  BY <1>1, <1>2, LifeStep, PTL DEF Spec

=============================================================================
