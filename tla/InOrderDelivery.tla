-------------------------- MODULE InOrderDelivery --------------------------
(***************************************************************************)
(* What a reassembler promises its consumer, whatever order the bearers    *)
(* deliver frames in: the frames it hands over were handed to it, and each *)
(* starts at the byte at which the one before it ended, from byte 0 on.    *)
(*                                                                         *)
(* A frame is a record with a seq (the byte offset GlobalSeq) and a len    *)
(* (the bytes of its payload); other fields tell equal frames apart.       *)
(***************************************************************************)
EXTENDS Naturals, Sequences

CONSTANT Frames

VARIABLES offered,    \* the frames given to the reassembler so far
          delivered   \* the frames its consumer has received, in order

vars == <<offered, delivered>>

\* The first byte the consumer has not received.
NextByte ==
  IF delivered = <<>> THEN 0
  ELSE delivered[Len(delivered)].seq + delivered[Len(delivered)].len

Init == offered = {} /\ delivered = <<>>

Offer(f) ==
  /\ offered' = offered \cup {f}
  /\ UNCHANGED delivered

Deliver(f) ==
  /\ f \in offered
  /\ f.len > 0
  /\ f.seq = NextByte
  /\ delivered' = Append(delivered, f)
  /\ UNCHANGED offered

Next == \E f \in Frames : Offer(f) \/ Deliver(f)

Spec == Init /\ [][Next]_vars

\* A frame that carries the next byte does not wait forever.
FairSpec == Spec /\ WF_vars(\E f \in Frames : Deliver(f))
=============================================================================
