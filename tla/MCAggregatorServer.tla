------------------------- MODULE MCAggregatorServer -------------------------
(***************************************************************************)
(* Values for the constants of AggregatorServer.                           *)
(***************************************************************************)
EXTENDS AggregatorServer, TLC

Frame(id, session, flag, seq, len) ==
  [id |-> id, session |-> session, flag |-> flag, seq |-> seq, len |-> len]
Syn(id, session) == Frame(id, session, "SYN", 0, 0)
Chunk(id, session, seq) == Frame(id, session, "DATA", seq, 1)
Fin(id, session, seq) == Frame(id, session, "FIN", seq, 0)

\* One stream of three chunks, left open by its client.
OneStream == {Syn(1, 1), Chunk(1, 1, 0), Chunk(1, 1, 1), Chunk(1, 1, 2)}

\* Two chunks and no FIN; an ID used again by a client that restarted.
TwoChunks == {Syn(1, 1), Chunk(1, 1, 0), Chunk(1, 1, 1)}
Restarted == {Syn(1, 1), Syn(1, 2)}

\* Two streams that want the one place there is.
TwoStreams == {Syn(1, 1), Fin(1, 1, 0), Syn(2, 1)}

NoTargets == {}
AnyBearer == Permutations(Bearers)
=============================================================================
