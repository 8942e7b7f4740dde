---------------------------- MODULE MCTunnelPool ----------------------------
(***************************************************************************)
(* Values for the constants of TunnelPool.                                 *)
(***************************************************************************)
EXTENDS TunnelPool, TLC

\* The example of pool.go, with a weight left at its zero value.
MixedWeights == <<2, 0, 1>>
AnyPicker == Permutations(Pickers)
=============================================================================
