------------------------------ MODULE BytePipes ------------------------------
(***************************************************************************)
(* What the overlay promises for one direction of every stream, however    *)
(* the units of data travel: what comes out of a stream are the units that *)
(* went into it, each once, in order and without a gap.  The units of a    *)
(* stream are numbered from 0.                                             *)
(***************************************************************************)
EXTENDS Naturals, Sequences

CONSTANT Streams

VARIABLES entered,   \* how many units have gone into each stream
          left       \* the units that have come out of it

vars == <<entered, left>>

Init ==
  /\ entered = [s \in Streams |-> 0]
  /\ left = [s \in Streams |-> <<>>]

Enter(s) ==
  /\ entered' = [entered EXCEPT ![s] = @ + 1]
  /\ UNCHANGED left

Leave(s) ==
  /\ Len(left[s]) < entered[s]
  /\ left' = [left EXCEPT ![s] = Append(@, Len(@))]
  /\ UNCHANGED entered

Next == \E s \in Streams : Enter(s) \/ Leave(s)

Spec == Init /\ [][Next]_vars
=============================================================================
