-------------------------------- MODULE FrameFifo --------------------------------
(***************************************************************************)
(* What the playout hand-off promises: a bounded first-in first-out queue  *)
(* of frames.  A producer takes a place at the back, or is refused because *)
(* every place is taken; its frame becomes readable a little later; the    *)
(* one consumer takes frames from the front, in the order of their places. *)
(***************************************************************************)
EXTENDS Naturals, Sequences

CONSTANTS Frames,    \* frames
          Capacity   \* places

VARIABLES queue,     \* the places taken, oldest first: frame and whether it is readable
          refused,   \* frames that were refused
          played     \* frames the consumer took, in order

fifoVars == <<queue, refused, played>>

Init == queue = <<>> /\ refused = {} /\ played = <<>>

Push(f) ==
  /\ Len(queue) < Capacity
  /\ queue' = Append(queue, [frame |-> f, readable |-> FALSE])
  /\ UNCHANGED <<refused, played>>

Refuse(f) ==
  /\ Len(queue) = Capacity
  /\ refused' = refused \cup {f}
  /\ UNCHANGED <<queue, played>>

Reveal(i) ==
  /\ queue' = [queue EXCEPT ![i].readable = TRUE]
  /\ UNCHANGED <<refused, played>>

Pop ==
  /\ queue # <<>> /\ queue[1].readable
  /\ played' = Append(played, queue[1].frame)
  /\ queue' = Tail(queue)
  /\ UNCHANGED refused

Next == Pop \/ (\E f \in Frames : Push(f) \/ Refuse(f)) \/ \E i \in DOMAIN queue : Reveal(i)

Spec == Init /\ [][Next]_fifoVars

=============================================================================
