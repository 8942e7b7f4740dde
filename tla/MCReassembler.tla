---------------------------- MODULE MCReassembler ----------------------------
(***************************************************************************)
(* Values for the constants of Reassembler.                                *)
(***************************************************************************)
EXTENDS Reassembler

Chunk(seq, len) == [seq |-> seq, len |-> len]

\* A stream of nine bytes cut into six chunks, each of them sent once, and an
\* empty payload.
Chunks ==
  {Chunk(0, 2), Chunk(2, 1), Chunk(3, 2), Chunk(5, 1), Chunk(6, 2), Chunk(8, 1),
   Chunk(4, 0)}
=============================================================================
