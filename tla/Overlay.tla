------------------------------- MODULE Overlay -------------------------------
(***************************************************************************)
(* Client and aggregator together: the streams of ClientStreams, the       *)
(* aggregator of AggregatorServer, and between them the bearers, each a    *)
(* connection that keeps the order of what is written to it and delivers   *)
(* it some time later.  A frame takes whatever bearer the pool picks.      *)
(*                                                                         *)
(* Both programs' constants and variables keep their names, except that    *)
(* ClientStreams' Streams are Ids here, as AggregatorServer calls them,    *)
(* and clientClosing is the client's closing, which both have.  No bearer  *)
(* fails here and nobody stops either program.                             *)
(***************************************************************************)
EXTENDS Integers, Sequences, FiniteSets

CONSTANTS Ids, Chunks, Responses, QueueDepth, InboundDepth,
          Bearers, FrameDepth, OutDepth, MaxBuffer, None,
          Units     \* bound: chunks and responses, taken together, per stream

VARIABLES handler, registry, done, out, in, offset, sent, queue, got, app,
          reply, inboundCh, demux, clientClosing, stop, ranging,
          bearer, via, sticky, frameCh, route, table, count, expected, held,
          outCh, written, conn, pump, resp, tries, closing, replies, read,
          failures, cancelled, main,
          up,     \* the frames in flight to the aggregator over each bearer
          down    \* the answers in flight to the client over each bearer

\* A frame of stream s as the aggregator reads it.
Wire(s, f) ==
  [id |-> s, session |-> 1, flag |-> IF f.flag = "data" THEN "DATA" ELSE f.flag,
   seq |-> f.seq, len |-> IF f.flag = "data" THEN 1 ELSE 0]

Syn(s) == Wire(s, [flag |-> "SYN", seq |-> 0])
Chunk(s, i) == Wire(s, [flag |-> "data", seq |-> i])
Fin(s, n) == Wire(s, [flag |-> "FIN", seq |-> n])

Frames ==
  {Syn(s) : s \in Ids}
    \cup {Chunk(s, i) : s \in Ids, i \in 0..(Chunks - 1)}
    \cup {Fin(s, n) : s \in Ids, n \in 0..Chunks}

ASSUME OverlayBounds ==
  /\ Chunks \in Nat /\ Responses \in Nat /\ MaxBuffer \in Nat
  /\ QueueDepth \in Nat \ {0} /\ InboundDepth \in Nat \ {0}
  /\ FrameDepth \in Nat \ {0} /\ OutDepth \in Nat \ {0}
ASSUME OverlayNone == None \notin Bearers \cup Frames

Client == INSTANCE ClientStreams WITH
  Streams <- Ids, closing <- clientClosing
Server == INSTANCE AggregatorServer WITH
  BadTargets <- {}, MaxStreams <- 0, MaxAttempts <- 1,
  Failures <- 0, Cancels <- 0

client == <<handler, registry, done, out, in, offset, sent, queue, got, app,
            inboundCh, demux, clientClosing, stop, ranging>>
server == <<bearer, via, sticky, frameCh, route, table, count, expected, held,
            outCh, written, conn, pump, resp, tries, closing, replies, read,
            failures, cancelled, main>>
links == <<up, down>>
vars == <<client, reply, server, links>>

\* The aggregator has accepted all bearers.
Init ==
  /\ Client!Init
  /\ Server!Initially("live")
  /\ up = [b \in Bearers |-> <<>>]
  /\ down = [b \in Bearers |-> <<>>]

-----------------------------------------------------------------------------

\* dispatchWithRetry finds a bearer, as none fails, and the frame is on its way.
Dispatched(s) ==
  IF out[s] \in {"syn", "chunk", "fin"} /\ out'[s] # out[s]
  THEN /\ sent' # sent
       /\ \E b \in Bearers :
            up' = [up EXCEPT ![b] = Append(@, Wire(s, sent'[s][Len(sent'[s])]))]
  ELSE UNCHANGED up

\* A goroutine of the client, or its application, takes a step for stream s.
ClientStep(s, step) ==
  /\ step
  /\ Dispatched(s)
  /\ UNCHANGED <<server, down>>

\* The chunks and responses read so far are not too many.
Bounded(s) == offset'[s] + read'[Syn(s)] <= Units

NewStream(s) == ClientStep(s, Client!NewStream(s))
RunReturns(s) == ClientStep(s, Client!RunReturns(s))
OutStep(s) == ClientStep(s, Client!OutStep(s)) /\ Bounded(s)
InStep(s) == ClientStep(s, Client!InStep(s))
AppEnds(s) == ClientStep(s, Client!AppEnds(s))

DemuxStep ==
  /\ Client!RouteData \/ Client!RouteEnd \/ Client!DemuxClose
  /\ UNCHANGED <<server, links>>

\* The aggregator's readLoop of a bearer reads what comes next over it.
Arrive(b) ==
  /\ up[b] # <<>>
  /\ Server!ReadFrame(b, Head(up[b]))
  /\ up' = [up EXCEPT ![b] = Tail(@)]
  /\ UNCHANGED <<client, reply, down>>

\* A frame the aggregator sent, as the client reads it; data carries the number
\* of the response chunk in hand.
AnswerOf(s, flag) ==
  [stream |-> s,
   kind   |-> CASE flag = "DATA" -> "data" [] flag = "FIN" -> "fin"
                [] flag = "RST" -> "rst",
   n      |-> IF flag = "DATA" THEN read[Syn(s)] - 1 ELSE 0]

Replied ==
  IF replies' = replies THEN UNCHANGED down
  ELSE \E s \in Ids :
         LET r == replies'[Syn(s)][Len(replies'[Syn(s)])]
         IN  /\ replies'[Syn(s)] # replies[Syn(s)]
             /\ down' = [down EXCEPT ![r.via] = Append(@, AnswerOf(s, r.flag))]

\* A goroutine of the aggregator takes a step.
ServerStep(step) ==
  /\ step
  /\ Replied
  /\ UNCHANGED <<client, reply, up>>

RouteStep == ServerStep(Server!RouteStep)
PumpStep(s) == ServerStep(Server!PumpStep(Syn(s)))
RespStep(s) == ServerStep(Server!RespStep(Syn(s))) /\ Bounded(s)
CloseStep(s) == ServerStep(Server!CloseStep(Syn(s)))

\* The client's readLoop of a bearer puts the next answer into inboundCh.
Return(b) ==
  LET a == Head(down[b])
      s == a.stream
  IN  /\ down[b] # <<>>
      /\ Client!Receive(a)
      /\ reply' = IF a.kind = "data" THEN [reply EXCEPT ![s].n = @ + 1]
                                     ELSE [reply EXCEPT ![s].end = a.kind]
      /\ down' = [down EXCEPT ![b] = Tail(@)]
      /\ UNCHANGED <<server, up>>

Next ==
  \/ \E s \in Ids :
       \/ NewStream(s) \/ RunReturns(s) \/ OutStep(s) \/ InStep(s) \/ AppEnds(s)
       \/ PumpStep(s) \/ RespStep(s) \/ CloseStep(s)
  \/ \E b \in Bearers : Arrive(b) \/ Return(b)
  \/ DemuxStep \/ RouteStep

Spec == Init /\ [][Next]_vars

\* The steps that the fairness of the two modules is about, and the bearers',
\* which deliver what is in flight.
Progress ==
  \/ DemuxStep \/ RouteStep
  \/ \E b \in Bearers : Arrive(b) \/ Return(b)
  \/ \E s \in Ids :
       \/ OutStep(s) \/ RunReturns(s) \/ PumpStep(s) \/ CloseStep(s)
       \/ ClientStep(s, Client!SeeDone(s) \/ Client!InExit(s))
       \/ ServerStep(Server!RespReady(Syn(s)) \/ Server!RespDone(Syn(s))
                       \/ Server!Respond(Syn(s)) \/ Server!RespExit(Syn(s)))
       \/ conn[Syn(s)] = "closed" /\ ServerStep(Server!ReadEnd(Syn(s)))

\* Something can still go on.  Each of these steps uses up something that is
\* bounded, so that if one is taken whenever one can be, there is an end to it.
Moving == ENABLED Progress

-----------------------------------------------------------------------------
(* Properties *)

Exited(s) == pump[Syn(s)] = "exited" /\ resp[Syn(s)] = "exited"

\* The upstream gets what the application sent, whatever bearer each frame took.
Requests == INSTANCE BytePipes WITH
  Streams <- Ids,
  entered <- offset,
  left <- [s \in Ids |->
            [i \in 1..Len(written[Syn(s)]) |-> written[Syn(s)][i].seq]]
RequestPipe == Requests!Spec

\* The application gets what the upstream answered, each chunk once and in order,
\* without a gap if the client's queue has room for it, and a FIN comes after all
\* of it, though the client does not reorder: as long as the aggregator has not
\* closed a stream, its answers keep to one bearer.
Answered(s) == {i \in 1..Len(replies[Syn(s)]) : replies[Syn(s)][i].flag = "DATA"}
Rising(q) == \A i, j \in 1..Len(q) : i < j => q[i] < q[j]
Counting(q) == \A i \in 1..Len(q) : q[i] = i - 1
AnswersInOrder ==
  \A s \in Ids : closing[Syn(s)] = "open" =>
    /\ Rising(got[s])
    /\ Responses <= QueueDepth => Counting(got[s])
    /\ reply[s].end = "fin" => reply[s].n = Cardinality(Answered(s))

\* A stream that the aggregator ended with FIN or RST is gone from the client.
Told(s) == \E i \in 1..Len(replies[Syn(s)]) : replies[Syn(s)][i].flag # "DATA"
EndsTogether == \A s \in Ids : Told(s) => handler[s] = "gone"

\* One whose FIN took the bearer of its SYN is gone from the aggregator.
FinEnds ==
  \A s \in Ids, n \in 0..Chunks :
    via[Fin(s, n)] # None /\ via[Fin(s, n)] = via[Syn(s)] => Exited(s)

\* Every chunk that a bearer took was written to the upstream, unless the stream
\* is closed, or it or an earlier one took another bearer than the SYN, overtook
\* it and was ignored.
Lost(s, i) ==
  /\ via[Chunk(s, i)] # via[Syn(s)]
  /\ Chunk(s, i) \notin held[Syn(s)]
ChunksArrive ==
  \A s \in Ids : \A i \in 1..Len(sent[s]) :
    sent[s][i].flag = "data" /\ closing[Syn(s)] = "open" =>
      \/ sent[s][i].seq < Len(written[Syn(s)])
      \/ \E n \in Len(written[Syn(s)])..sent[s][i].seq : Lost(s, n)

\* This is what the overlay comes to when nothing moves any more, on whatever
\* ways the frames went: no stream hangs at one end that the other has ended,
\* and no chunk is stuck.
Settled == Moving \/ (EndsTogether /\ FinEnds /\ ChunksArrive)

\* GUIDE.md: the aggregator "collects chunks from all five bearers, reorders them
\* using the sequence numbers, and delivers a clean byte stream", the response
\* "travels back in reverse", and FIN is a "clean close".  So when a FIN closes
\* an open stream, the upstream has got every chunk before it; and when one ends
\* a stream whose application goes on reading, that has got every answer.
FinCloses(s) ==
  /\ route.at = "idle" /\ route'.at = "close" /\ route'.s = Syn(s)
  /\ Head(frameCh).flag = "FIN"
  /\ closing[Syn(s)] = "open" /\ ~Server!IsClosing(Syn(s))
FinEnded(s) == handler[s] = "gone" /\ reply[s].end = "fin" /\ app[s] = "open"
CleanTransfer ==
  [][\A s \in Ids :
       /\ FinCloses(s) => Len(written[Syn(s)]) = Head(frameCh).seq
       /\ FinEnded(s)' => Len(got'[s]) = Cardinality(Answered(s)')]_vars
=============================================================================
