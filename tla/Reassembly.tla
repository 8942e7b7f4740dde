----------------------------- MODULE Reassembly -----------------------------
(***************************************************************************)
(* The decisions of Reassembler.Push and flush (reassembler.go), as        *)
(* operators on a reassembler's two pieces of state: expected, the next    *)
(* byte to emit, and held, the out-of-order frames in the min-heap.        *)
(*                                                                         *)
(* held is a set: frames that carry the same bytes differ in another field *)
(* (a frame arrives at most once).  What the code reads of the heap is its *)
(* root, a frame of the lowest seq; among equal seqs any may be the root.  *)
(***************************************************************************)
EXTENDS Naturals, FiniteSets

\* The byte after the last one of a frame.
End(f) == f.seq + f.len

\* Push drops an empty payload and a frame below the next byte.
IsIgnored(f, expected) == f.len = 0 \/ f.seq < expected

\* Fault: Push emits whatever was not emitted yet.
IsNextOrEarly(f, expected) == f.len > 0 /\ f.seq >= expected

\* Push emits a frame that carries the next byte.
IsNext(f, expected) == f.len > 0 /\ f.seq = expected

\* Push keeps any other frame.
IsEarly(f, expected) == f.len > 0 /\ f.seq > expected

\* Fault: the cap is checked off by one.
IsFullLate(held, maxBuffer) == maxBuffer > 0 /\ Cardinality(held) > maxBuffer

\* The heap is full; a maxBuffer of 0 is no limit.
IsFull(held, maxBuffer) == maxBuffer > 0 /\ Cardinality(held) >= maxBuffer

\* The frames that can be the root of the heap.
Roots(held) == {f \in held : \A g \in held : f.seq <= g.seq}

\* Fault: flush does not look for a gap.
FlushableOverGap(held, expected) == Roots(held)

\* flush goes on as long as the root carries the next byte.
Flushable(held, expected) == {f \in Roots(held) : f.seq = expected}
=============================================================================
