-------------------------------- MODULE SlotSync --------------------------------
(***************************************************************************)
(* The controllers of one satellite session: WifiConnection's slots as the *)
(* user wants them, the satellite's virtual pads as it applied them, and   *)
(* the requests by which WifiConnectionManager brings the one to the other:*)
(* the session PUT with all descriptors, one PUT or DELETE per changed     *)
(* controller, and the GET that a drifted heartbeat ack asks for.  Every   *)
(* request has a socket of its own (HttpExchange), so requests and replies *)
(* overtake each other.                                                    *)
(*                                                                         *)
(* How a session is reached and lost is WifiSession's; here it is dropped  *)
(* and dialled again, one session PUT at a time.  Of a descriptor the      *)
(* model keeps its type and whether its touchpad asks for the mouse.       *)
(***************************************************************************)
EXTENDS Naturals, FiniteSets, FiniteSetsExt

CONSTANTS Slots,          \* slot ids
          MaxEdits,       \* bound: what the user does to the slots
          MaxSlotFaults,  \* bound: drops, lost calls, refused controllers
          MaxCalls        \* bound: calls out when the user edits a slot

VARIABLES slots,     \* slots_: the binding of every slot, or NotBound
          link,      \* state_: "Idle", "Linking" or "Live"
          applied,   \* connectionId_, lastAppliedEpoch_, mouseControlGranted_
          viewing,   \* reconcileInFlight_
          calls,     \* the requests out and the replies on their way back
          pads,      \* the satellite's session: id, epoch, controllers, grant
          ack,       \* serverEpoch and serverBitmap of the last enriched ack
          lostPut,   \* a controller PUT was seen to fail since the session was put
          edits, slotFaults

slotVars == <<slots, link, applied, viewing, calls, pads, ack, lostPut, edits, slotFaults>>

NotBound == [idx |-> 0, desc |-> "none", registered |-> FALSE]
Descs == {"xbox", "ps", "xboxMouse"}
typeOf(d) == IF d = "xboxMouse" THEN "xbox" ELSE d
mouse(ds) == "xboxMouse" \in ds

Indices == 0 .. Cardinality(Slots) - 1
NoPads == [i \in Indices |-> "none"]
NoGrant == [cid |-> 0, epoch |-> 0, granted |-> FALSE]

Bound == {s \in Slots : slots[s] # NotBound}
Registered == {slots[s].idx : s \in {t \in Bound : slots[t].registered}}
Plugged(p) == {i \in Indices : p[i] # "none"}

Least(S) == CHOOSE n \in S : \A k \in S : n <= k
Unused(used) == Least((1 .. Cardinality(used) + 1) \ used)

\* The descriptors a session PUT carries: desiredDescriptors, by index.
desired(b) ==
  [i \in Indices |->
     IF \E s \in Slots : b[s] # NotBound /\ b[s].idx = i
     THEN b[CHOOSE s \in Slots : b[s] # NotBound /\ b[s].idx = i].desc ELSE "none"]

wantsMouseControl(b) == mouse({b[s].desc : s \in Slots})

Init ==
  /\ slots = [s \in Slots |-> NotBound]
  /\ link = "Idle"
  /\ applied = NoGrant
  /\ viewing = FALSE
  /\ calls = {}
  /\ pads = [cid |-> 0, epoch |-> 0, on |-> NoPads, granted |-> FALSE]
  /\ ack = [epoch |-> 0, on |-> {}]
  /\ lostPut = FALSE
  /\ edits = 0 /\ slotFaults = 0

-----------------------------------------------------------------------------
(* Requests                                                                *)

Call(kind, idx, sent, wants) ==
  [kind |-> kind, idx |-> idx, sent |-> sent, wants |-> wants, cid |-> applied.cid,
   state |-> "out", refused |-> FALSE, epoch |-> 0, n |-> 0]

Out(base, c) ==
  base \cup {[c EXCEPT !.n = Least((1 .. Cardinality(base) + 1)
                                     \ {d.n : d \in {x \in base : x.kind = c.kind}})]}

OneDesc(i, d) == [NoPads EXCEPT ![i] = d]

\* syncSlot: PUT the controller of a slot, when the session is up.
syncSlot(base, b, s) ==
  IF link # "Live" \/ b[s] = NotBound THEN base
  ELSE Out(base, Call("put", b[s].idx, OneDesc(b[s].idx, b[s].desc), FALSE))

deleteSlot(base, i) == Out(base, Call("delete", i, NoPads, FALSE))

openSession(b) ==
  Out(calls, [Call("session", 0, desired(b), wantsMouseControl(b)) EXCEPT !.cid = 0])

-----------------------------------------------------------------------------
(* The user's slots                                                        *)

Edit ==
  /\ edits < MaxEdits /\ Cardinality(calls) < MaxCalls
  /\ edits' = edits + 1
  /\ UNCHANGED <<slotFaults, lostPut>>

lowestFreeIndex == Least(Indices \ {slots[s].idx : s \in Bound})

attachSlot(s, d) ==
  /\ Edit
  /\ slots[s].desc # d
  /\ slots' = [slots EXCEPT ![s] =
                 IF slots[s] = NotBound
                 THEN [idx |-> lowestFreeIndex, desc |-> d, registered |-> FALSE]
                 ELSE [slots[s] EXCEPT !.desc = d]]
  /\ calls' = syncSlot(calls, slots', s)
  /\ UNCHANGED <<link, applied, viewing, pads, ack>>

detachSlot(s) ==
  /\ Edit
  /\ s \in Bound
  /\ slots' = [slots EXCEPT ![s] = NotBound]
  /\ calls' = IF link = "Live" /\ slots[s].registered THEN deleteSlot(calls, slots[s].idx)
              ELSE calls
  /\ UNCHANGED <<link, applied, viewing, pads, ack>>

-----------------------------------------------------------------------------
(* The session                                                             *)

Fault == slotFaults < MaxSlotFaults /\ slotFaults' = slotFaults + 1 /\ UNCHANGED edits

teardown(b) == [s \in Slots |-> [b[s] EXCEPT !.registered = FALSE]]

\* The session ends on both sides: a death, a close notice, a Disconnect.
Drop ==
  /\ Fault
  /\ link = "Live"
  /\ link' = "Idle"
  /\ slots' = teardown(slots)
  /\ applied' = NoGrant
  /\ pads' = [cid |-> 0, epoch |-> 0, on |-> NoPads, granted |-> FALSE]
  /\ UNCHANGED <<viewing, calls, ack, lostPut>>

Dial ==
  /\ link = "Idle"
  /\ link' = "Linking"
  /\ calls' = openSession(slots)
  /\ UNCHANGED <<slots, applied, viewing, pads, ack, edits, slotFaults, lostPut>>

\* applyResults: a controller the reply names is registered iff its pad is plugged.
applyResults(b, named, on) ==
  [s \in Slots |-> IF b[s] # NotBound /\ b[s].idx \in named
                   THEN [b[s] EXCEPT !.registered = on[b[s].idx] # "none"] ELSE b[s]]

\* A mutant: nothing is done about what changed while the PUT was out.
convergeNothing(base, b, sent) == base

\* convergeLateSlots: what changed while the PUT was out, by index and type alone,
\* goes out on its own.  (lateSlotConverge)
convergeLateSlots(base, b, sent) ==
  LET want == desired(b)
      removes == {i \in Indices : sent[i] # "none" /\ want[i] = "none"}
      resyncs == {i \in Indices : want[i] # "none" /\ typeOf(want[i]) # typeOf(sent[i])}
      Deleted == FoldSet(LAMBDA i, acc : deleteSlot(acc, i), base, removes)
  IN FoldSet(LAMBDA i, acc : Out(acc, Call("put", i, OneDesc(i, want[i]), FALSE)),
             Deleted, resyncs)

\* onSessionReply: startSession (markConnected, applyResults), convergeLateSlots.
onSessionReply(c) ==
  /\ c.kind = "session" /\ c.state # "out"
  /\ IF c.state = "fail"
     THEN link' = "Idle" /\ calls' = calls \ {c} /\ UNCHANGED <<slots, applied, ack, lostPut>>
     ELSE LET named == Plugged(c.sent)
              b == applyResults(slots, named, c.sent)
              fresh == [cid |-> c.cid, epoch |-> c.epoch, granted |-> c.wants]
              late == convergeLateSlots(calls \ {c}, b, c.sent)
          IN /\ link' = "Live"
             /\ slots' = b
             /\ applied' = fresh
             /\ calls' = {[d EXCEPT !.cid = IF d \in late \ calls THEN c.cid ELSE d.cid] :
                            d \in late}
             /\ ack' = [epoch |-> 0, on |-> {}]
             /\ lostPut' = FALSE
  /\ UNCHANGED <<viewing, pads, edits, slotFaults>>

\* reconcileNeeded, on the client's last enriched ack.
reconcileNeeded(epoch, b) ==
  /\ ack.epoch # 0
  /\ \/ ack.epoch # epoch
     \/ ack.on # {b[s].idx : s \in {t \in Slots : b[t].registered}}

\* reconcile: GET the applied view, one at a time.
reconcile(base, epoch, b) ==
  IF link = "Live" /\ reconcileNeeded(epoch, b) /\ ~viewing
  THEN calls' = Out(base, Call("get", 0, NoPads, FALSE)) /\ viewing' = TRUE
  ELSE calls' = base /\ UNCHANGED viewing

\* A mutant: only the epoch is compared.
onAliveTickEpochOnly ==
  /\ link = "Live" /\ ~viewing
  /\ ack.epoch # 0 /\ ack.epoch # applied.epoch
  /\ calls' = Out(calls, Call("get", 0, NoPads, FALSE)) /\ viewing' = TRUE
  /\ UNCHANGED <<slots, link, applied, pads, ack, edits, slotFaults, lostPut>>

\* onAliveTick, once a second.
onAliveTick ==
  /\ link = "Live" /\ reconcileNeeded(applied.epoch, slots) /\ ~viewing
  /\ reconcile(calls, applied.epoch, slots)
  /\ UNCHANGED <<slots, link, applied, pads, ack, edits, slotFaults, lostPut>>

\* putController's reply: adoptEpoch, applyResults and, when the mouse is wanted
\* otherwise than granted, reconcile.
onPutReply(c) ==
  /\ c.kind = "put" /\ c.state # "out"
  /\ IF c.state = "fail"
     THEN calls' = calls \ {c} /\ UNCHANGED <<slots, applied, viewing>>
     ELSE LET b == applyResults(slots, {c.idx}, c.sent) IN
            /\ slots' = b
            /\ applied' = [applied EXCEPT !.epoch = c.epoch]
            /\ IF wantsMouseControl(b) # applied.granted
               THEN reconcile(calls \ {c}, c.epoch, b)
               ELSE calls' = calls \ {c} /\ UNCHANGED viewing
  /\ lostPut' = (lostPut \/ (c.cid = applied.cid /\ (c.state = "fail" \/ c.refused)))
  /\ UNCHANGED <<link, pads, ack, edits, slotFaults>>

onDeleteReply(c) ==
  /\ c.kind = "delete" /\ c.state # "out"
  /\ calls' = calls \ {c}
  /\ applied' = IF c.state = "fail" THEN applied ELSE [applied EXCEPT !.epoch = c.epoch]
  /\ UNCHANGED <<slots, link, viewing, pads, ack, edits, slotFaults, lostPut>>

\* appliedMatchesDesired, with the mouse grant.
matchesAppliedView(c) ==
  /\ c.wants = wantsMouseControl(slots)
  /\ c.sent = desired(slots)

\* getSession's reply: a view that is not the one wanted is put again, as a whole.
onViewReply(c) ==
  /\ c.kind = "get" /\ c.state # "out"
  /\ viewing' = FALSE
  /\ IF link # "Live" \/ c.state = "fail"
     THEN calls' = calls \ {c} /\ UNCHANGED <<slots, link, applied>>
     ELSE IF c.cid = applied.cid /\ matchesAppliedView(c)
          THEN /\ applied' = [applied EXCEPT !.epoch = c.epoch]
               /\ calls' = calls \ {c}
               /\ UNCHANGED <<slots, link>>
          ELSE /\ slots' = teardown(slots)
               /\ link' = "Linking"
               /\ applied' = NoGrant
               /\ calls' = openSession(slots) \ {c}
  /\ UNCHANGED <<pads, ack, edits, slotFaults, lostPut>>

-----------------------------------------------------------------------------
(* The satellite, and the acks it sends                                    *)

Epochs == {pads.epoch, applied.epoch, ack.epoch} \cup {c.epoch : c \in calls}
NewEpoch == Unused(Epochs \ {0})
NewCid == IF pads.cid # 0 THEN pads.cid
          ELSE Unused(({applied.cid} \cup {c.cid : c \in calls}) \ {0})

Replace(c, d) == calls' = (calls \ {c}) \cup {d}

\* A session PUT makes the pads what it carries; a controller PUT or DELETE changes
\* one; either moves the epoch.  A session that is gone is a 404.
Serve(c) ==
  /\ c.state = "out"
  /\ IF c.kind = "session"
     THEN /\ pads' = [cid |-> NewCid, epoch |-> NewEpoch, on |-> c.sent, granted |-> c.wants]
          /\ Replace(c, [c EXCEPT !.state = "back", !.cid = NewCid, !.epoch = NewEpoch])
     ELSE IF pads.cid = 0 \/ c.cid # pads.cid
          THEN Replace(c, [c EXCEPT !.state = "fail"]) /\ UNCHANGED pads
          ELSE IF c.kind = "get"
               THEN /\ Replace(c, [c EXCEPT !.state = "back", !.sent = pads.on,
                                            !.wants = pads.granted, !.epoch = pads.epoch])
                    /\ UNCHANGED pads
               ELSE /\ pads' = [pads EXCEPT !.epoch = NewEpoch, !.on[c.idx] = c.sent[c.idx]]
                    /\ Replace(c, [c EXCEPT !.state = "back", !.epoch = NewEpoch])
  /\ UNCHANGED <<slots, link, applied, viewing, ack, edits, slotFaults, lostPut>>

\* The driver will not plug the pad: the one that was there, if any, stays.
RefusePut(c) ==
  /\ Fault
  /\ c.state = "out" /\ c.kind = "put" /\ pads.cid # 0 /\ c.cid = pads.cid
  /\ Replace(c, [c EXCEPT !.state = "back", !.refused = TRUE, !.sent = pads.on, !.epoch = pads.epoch])
  /\ UNCHANGED <<slots, link, applied, viewing, pads, ack, lostPut>>

\* A request or its reply is lost; the exchange ends at its deadline.
Lose(c) ==
  /\ Fault
  /\ c.state # "fail"
  /\ Replace(c, [c EXCEPT !.state = "fail"])
  /\ UNCHANGED <<slots, link, applied, viewing, pads, ack, lostPut>>

\* An enriched heartbeat ack arrives.
Ack ==
  /\ link = "Live" /\ pads.cid # 0 /\ pads.cid = applied.cid
  /\ ack # [epoch |-> pads.epoch, on |-> Plugged(pads.on)]
  /\ ack' = [epoch |-> pads.epoch, on |-> Plugged(pads.on)]
  /\ UNCHANGED <<slots, link, applied, viewing, calls, pads, edits, slotFaults, lostPut>>

-----------------------------------------------------------------------------
Handle(c) == onSessionReply(c) \/ onPutReply(c) \/ onDeleteReply(c) \/ onViewReply(c)

Next ==
  \/ \E s \in Slots : detachSlot(s) \/ \E d \in Descs : attachSlot(s, d)
  \/ Drop \/ Dial \/ onAliveTick \/ Ack
  \/ \E c \in calls : Serve(c) \/ Handle(c) \/ RefusePut(c) \/ Lose(c)

Kinds == {"session", "put", "delete", "get"}
Numbers == 1 .. MaxCalls + Cardinality(Slots)

Advance(kind, n) == \E c \in calls : c.kind = kind /\ c.n = n /\ (Serve(c) \/ Handle(c))

\* The redial timer and the alive tick fire, acks keep coming while the session is
\* up, and every exchange ends.
SlotFairness ==
  /\ WF_slotVars(Dial) /\ WF_slotVars(onAliveTick) /\ WF_slotVars(Ack)
  /\ \A kind \in Kinds, n \in Numbers : WF_slotVars(Advance(kind, n))

Spec == Init /\ [][Next]_slotVars /\ SlotFairness

-----------------------------------------------------------------------------
(* Properties                                                              *)

\* No two slots share a controller index.
IndicesDistinct == \A s, t \in Bound : s # t => slots[s].idx # slots[t].idx

\* Whatever is dropped, overtaken or changed meanwhile, every controller counted as
\* registered (one that may stream) ends up one the satellite has plugged, through
\* the ack's epoch and bitmap; and unless a controller PUT was lost or refused since
\* the session was put, the registered, the plugged and the bound are the same.
Converged ==
  /\ link = "Live"
  /\ Registered \subseteq Plugged(pads.on)
  /\ ~lostPut => /\ Registered = Plugged(pads.on)
                 /\ Registered = {slots[s].idx : s \in Bound}

SlotsConverge == <>[]Converged

=============================================================================
