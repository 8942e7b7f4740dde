------------------------------ MODULE MCOverlay ------------------------------
(***************************************************************************)
(* Overlay for TLC.  The two programs treat all bearers alike, and the     *)
(* properties checked with this symmetry are safety properties.            *)
(***************************************************************************)
EXTENDS Overlay, TLC

BearerSymmetry == Permutations(Bearers)
=============================================================================
