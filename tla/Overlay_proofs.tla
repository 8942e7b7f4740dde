---------------------------- MODULE Overlay_proofs ----------------------------
(***************************************************************************)
(* Proofs about Overlay, for any streams, chunks, bearers and capacities.  *)
(* What the aggregator does by itself is taken from the theorems about     *)
(* AggregatorServer, of which Overlay's aggregator is an instance.         *)
(***************************************************************************)
EXTENDS Overlay, SequenceTheorems, FiniteSetTheorems, TLAPS

S == INSTANCE AggregatorServer_proofs WITH
  BadTargets <- {}, MaxStreams <- 0, MaxAttempts <- 1,
  Failures <- 0, Cancels <- 0

-----------------------------------------------------------------------------
(* The frames *)

LEMMA FrameFields ==
  ASSUME NEW s, NEW i
  PROVE  /\ Syn(s) = [id |-> s, session |-> 1, flag |-> "SYN", seq |-> 0, len |-> 0]
         /\ Chunk(s, i) = [id |-> s, session |-> 1, flag |-> "DATA", seq |-> i, len |-> 1]
         /\ Fin(s, i) = [id |-> s, session |-> 1, flag |-> "FIN", seq |-> i, len |-> 0]
  BY DEF Syn, Chunk, Fin, Wire

LEMMA SynDiffers == ASSUME NEW s, NEW t, Syn(s) = Syn(t) PROVE s = t
<1>1. Syn(s).id = s /\ Syn(t).id = t
  BY FrameFields
<1> QED
  BY <1>1

LEMMA FrameCases ==
  ASSUME NEW f \in Frames
  PROVE  \E s \in Ids : \/ f = Syn(s)
                        \/ \E i \in 0..(Chunks - 1) : f = Chunk(s, i)
                        \/ \E n \in 0..Chunks : f = Fin(s, n)
  BY DEF Frames

LEMMA StreamsAre ==
  /\ S!Streams = {Syn(s) : s \in Ids}
  /\ Server!Streams = S!Streams
<1>1. ASSUME NEW f \in Frames PROVE f.flag = "SYN" <=> \E s \in Ids : f = Syn(s)
  BY FrameCases, FrameFields
<1>2. \A s \in Ids : Syn(s) \in Frames
  BY DEF Frames
<1>3. S!Streams = {Syn(s) : s \in Ids}
  BY <1>1, <1>2 DEF S!Streams
<1> QED
  BY <1>3 DEF S!Streams, Server!Streams

\* Overlay's constants satisfy the assumptions of AggregatorServer, and one client
\* uses each ID once.
LEMMA ServerAssumptions ==
  /\ S!FramesAssumption /\ S!PayloadAssumption /\ S!BadTargetsAssumption
  /\ S!BoundsAssumption /\ S!NoneAssumption /\ S!UsedOnce
<1>1. ASSUME NEW f \in Frames
      PROVE  /\ f = [id |-> f.id, session |-> f.session, flag |-> f.flag,
                     seq |-> f.seq, len |-> f.len]
             /\ f.id \in Ids /\ f.flag \in {"SYN", "DATA", "FIN"}
             /\ f.seq \in Nat /\ f.len \in Nat
             /\ f.len > 0 => f.flag = "DATA"
             /\ f.session = 1
  <2> PICK s \in Ids : \/ f = Syn(s)
                       \/ \E i \in 0..(Chunks - 1) : f = Chunk(s, i)
                       \/ \E n \in 0..Chunks : f = Fin(s, n)
    BY FrameCases
  <2>1. CASE f = Syn(s)
    BY <2>1, FrameFields
  <2>2. CASE \E i \in 0..(Chunks - 1) : f = Chunk(s, i)
    BY <2>2, FrameFields, OverlayBounds
  <2>3. CASE \E n \in 0..Chunks : f = Fin(s, n)
    BY <2>3, FrameFields, OverlayBounds
  <2> QED
    BY <2>1, <2>2, <2>3
<1>2. S!FramesAssumption
  BY <1>1 DEF S!FramesAssumption
<1>3. S!PayloadAssumption
  BY <1>1 DEF S!PayloadAssumption
<1>4. S!BadTargetsAssumption /\ S!BoundsAssumption /\ S!NoneAssumption
  BY OverlayBounds, OverlayNone
  DEF S!BadTargetsAssumption, S!BoundsAssumption, S!NoneAssumption
<1>5. S!UsedOnce
  <2>1. ASSUME NEW s \in S!Streams PROVE s = Syn(s.id)
    <3> PICK a \in Ids : s = Syn(a)
      BY StreamsAre
    <3> QED
      BY FrameFields
  <2> QED
    BY <1>1, <2>1 DEF S!UsedOnce
<1> QED
  BY <1>2, <1>3, <1>4, <1>5

-----------------------------------------------------------------------------
(* The aggregator of Overlay takes the steps of AggregatorServer *)

\* The definitions of AggregatorServer are the same in both its instances.
LEMMA SameSteps ==
  /\ \A b \in Bearers, f \in Frames : Server!ReadFrame(b, f) => S!ReadFrame(b, f)
  /\ Server!RouteStep => S!RouteStep
  /\ \A s : Server!PumpStep(s) => S!PumpStep(s)
  /\ \A s : Server!RespStep(s) => S!RespStep(s)
  /\ \A s : Server!CloseStep(s) => S!CloseStep(s)
<1>1. \A b \in Bearers, f \in Frames : Server!ReadFrame(b, f) => S!ReadFrame(b, f)
  BY Zenon
  DEF Server!ReadFrame, S!ReadFrame, Server!Before, S!Before, Server!Reading,
      S!Reading, Server!RouterShim, S!RouterShim, Server!inbound, S!inbound,
      Server!registry, S!registry, Server!router, S!router, Server!feed, S!feed,
      Server!life, S!life, Server!reply, S!reply, Server!control, S!control
<1>2. Server!RouteStep => S!RouteStep
  BY Zenon
  DEF Server!RouteStep, S!RouteStep, Server!RefuseSYN, S!RefuseSYN, Server!Live,
      S!Live, Server!Dequeue, S!Dequeue, Server!Streams, S!Streams,
      Server!AtLimit, S!AtLimit, Server!SendRST, S!SendRST, Server!SendFrame,
      S!SendFrame, Server!SendLost, S!SendLost, Server!Lost, S!Lost,
      Server!MarkClosed, S!MarkClosed, Server!Fail, S!Fail,
      Server!PushOverflow, S!PushOverflow, Server!PickFor, S!PickFor,
      Server!Data, S!Data, Server!IsFull, S!IsFull, Server!IsEarly, S!IsEarly,
      Server!RouteClose, S!RouteClose, Server!RouteExit, S!RouteExit,
      Server!Idle, S!Idle, Server!RouteIgnored, S!RouteIgnored, Server!Ignored,
      S!Ignored, Server!IsIgnored, S!IsIgnored, Server!RouteClosed,
      S!RouteClosed, Server!PushNext, S!PushNext, Server!IsNext, S!IsNext,
      Server!PushEarly, S!PushEarly, Server!HandleSYN, S!HandleSYN,
      Server!RouteSend, S!RouteSend, Server!OutHasRoom, S!OutHasRoom, Server!End,
      S!End, Server!Flushable, S!Flushable, Server!Roots, S!Roots,
      Server!Cardinality, S!Cardinality, Server!inbound, S!inbound,
      Server!registry, S!registry, Server!router, S!router, Server!feed, S!feed,
      Server!life, S!life, Server!reply, S!reply, Server!control, S!control
<1>3. \A s : Server!PumpStep(s) => S!PumpStep(s)
  BY Zenon
  DEF Server!PumpStep, S!PumpStep, Server!PumpExit, S!PumpExit, Server!PumpDone,
      S!PumpDone, Server!LeavePump, S!LeavePump, Server!Done, S!Done,
      Server!Write, S!Write, Server!DialFail, S!DialFail, Server!PickFor,
      S!PickFor, Server!Live, S!Live, Server!SendRST, S!SendRST,
      Server!SendFrame, S!SendFrame, Server!SendLost, S!SendLost, Server!Lost,
      S!Lost, Server!Cardinality, S!Cardinality, Server!MarkClosed, S!MarkClosed,
      Server!Fail, S!Fail, Server!WriteFail, S!WriteFail, Server!DialOK,
      S!DialOK, Server!inbound, S!inbound, Server!registry, S!registry,
      Server!router, S!router, Server!feed, S!feed, Server!life, S!life,
      Server!reply, S!reply, Server!control, S!control
<1>4. \A s : Server!RespStep(s) => S!RespStep(s)
  BY Zenon
  DEF Server!RespStep, S!RespStep, Server!RespDone, S!RespDone, Server!Done,
      S!Done, Server!RespReady, S!RespReady, Server!Respond, S!Respond,
      Server!SendFrame, S!SendFrame, Server!SendLost, S!SendLost, Server!Lost,
      S!Lost, Server!Cardinality, S!Cardinality, Server!Live, S!Live, Server!PickFor,
      S!PickFor, Server!MarkClosed, S!MarkClosed, Server!Fail, S!Fail,
      Server!Continue, S!Continue, Server!ReadEnd, S!ReadEnd, Server!RespExit,
      S!RespExit, Server!ReadChunk, S!ReadChunk, Server!inbound, S!inbound,
      Server!registry, S!registry, Server!router, S!router, Server!feed, S!feed,
      Server!life, S!life, Server!reply, S!reply, Server!control, S!control
<1>5. \A s : Server!CloseStep(s) => S!CloseStep(s)
  BY Zenon
  DEF Server!CloseStep, S!CloseStep, Server!BeginClose, S!BeginClose,
      Server!IsClosing, S!IsClosing, Server!FinishClose, S!FinishClose,
      Server!Live, S!Live, Server!inbound, S!inbound, Server!registry,
      S!registry, Server!router, S!router, Server!feed, S!feed, Server!life,
      S!life, Server!reply, S!reply, Server!control, S!control
<1> QED
  BY <1>1, <1>2, <1>3, <1>4, <1>5

LEMMA StartsAs == Init => S!Starts
<1> SUFFICES ASSUME Init PROVE S!Initially("live")
  BY DEF S!Starts
<1> QED
  BY Zenon DEF Init, Server!Initially, S!Initially, Server!Idle, S!Idle,
               Server!Streams, S!Streams

LEMMA ServerMoves ==
  up \in [Bearers -> Seq(Frames)] /\ [Next]_vars => [S!Next]_(S!vars)
<1> SUFFICES ASSUME up \in [Bearers -> Seq(Frames)], [Next]_vars
             PROVE  S!Next \/ UNCHANGED S!vars
  OBVIOUS
<1>1. ASSUME UNCHANGED server
      PROVE  UNCHANGED S!vars
  BY <1>1 DEF server, S!vars, S!inbound, S!registry, S!router, S!feed, S!life,
              S!reply, S!control
<1>2. ASSUME NEW s \in Ids
      PROVE  Syn(s) \in S!Streams
  BY StreamsAre
<1>3. ASSUME NEW s \in Ids,
             NewStream(s) \/ RunReturns(s) \/ OutStep(s) \/ InStep(s) \/ AppEnds(s)
      PROVE  UNCHANGED server
  BY <1>3 DEF NewStream, RunReturns, OutStep, InStep, AppEnds, ClientStep
<1>4. ASSUME NEW s \in Ids, PumpStep(s) \/ RespStep(s) \/ CloseStep(s)
      PROVE  S!Next
  <2>1. S!PumpStep(Syn(s)) \/ S!RespStep(Syn(s)) \/ S!CloseStep(Syn(s))
    BY <1>4, SameSteps DEF PumpStep, RespStep, CloseStep, ServerStep
  <2> QED
    BY <1>2, <2>1, Zenon DEF S!Next
<1>5. ASSUME NEW b \in Bearers, Arrive(b)
      PROVE  S!Next
  <2>1. Head(up[b]) \in Frames
    BY <1>5, HeadTailProperties DEF Arrive
  <2>2. S!ReadFrame(b, Head(up[b]))
    BY <1>5, <2>1, SameSteps DEF Arrive
  <2> QED
    BY <2>1, <2>2, Zenon DEF S!Next
<1>6. ASSUME NEW b \in Bearers, Return(b)
      PROVE  UNCHANGED server
  BY <1>6 DEF Return
<1>7. CASE DemuxStep
  BY <1>1, <1>7 DEF DemuxStep
<1>8. CASE RouteStep
  <2>1. S!RouteStep
    BY <1>8, SameSteps DEF RouteStep, ServerStep
  <2> QED
    BY <2>1, Zenon DEF S!Next
<1>9. CASE UNCHANGED vars
  BY <1>1, <1>9 DEF vars
<1> QED
  BY <1>1, <1>3, <1>4, <1>5, <1>6, <1>7, <1>8, <1>9 DEF Next

\* Only Arrive reads a frame, and only a pump writes to an upstream.
LEMMA ServerKeeps ==
  /\ RouteStep => UNCHANGED <<via, written, offset, sent, out, up>>
  /\ \A s \in Ids : RespStep(s) \/ CloseStep(s)
                      => UNCHANGED <<via, written, offset, sent, out, up>>
  /\ \A s \in Ids : PumpStep(s)
                      => /\ UNCHANGED <<via, offset, sent, out, up>>
                         /\ S!Write(Syn(s)) \/ UNCHANGED written
<1>1. ASSUME RouteStep
      PROVE  UNCHANGED <<via, written, offset, sent, out, up>>
  <2>1. S!RouteStep /\ UNCHANGED <<offset, sent, out, up>>
    BY <1>1, SameSteps DEF RouteStep, ServerStep, client
  <2>2. UNCHANGED <<via, written>>
    BY <2>1 DEF S!RouteStep, S!RouteClose, S!RouteIgnored, S!HandleSYN, S!RefuseSYN,
                S!PushNext, S!PushEarly, S!PushOverflow, S!RouteSend, S!RouteClosed,
                S!RouteExit, S!inbound
  <2> QED
    BY <2>1, <2>2
<1>2. ASSUME NEW s \in Ids, RespStep(s) \/ CloseStep(s)
      PROVE  UNCHANGED <<via, written, offset, sent, out, up>>
  <2>1. /\ S!RespStep(Syn(s)) \/ S!CloseStep(Syn(s))
        /\ UNCHANGED <<offset, sent, out, up>>
    BY <1>2, SameSteps DEF RespStep, CloseStep, ServerStep, client
  <2>2. UNCHANGED <<via, written>>
    BY <2>1 DEF S!RespStep, S!RespReady, S!RespDone, S!ReadChunk, S!ReadEnd, S!Respond,
                S!RespExit, S!CloseStep, S!BeginClose, S!FinishClose, S!inbound
  <2> QED
    BY <2>1, <2>2
<1>3. ASSUME NEW s \in Ids, PumpStep(s)
      PROVE  /\ UNCHANGED <<via, offset, sent, out, up>>
             /\ S!Write(Syn(s)) \/ UNCHANGED written
  <2>1. S!PumpStep(Syn(s)) /\ UNCHANGED <<offset, sent, out, up>>
    BY <1>3, SameSteps DEF PumpStep, ServerStep, client
  <2>2. via' = via /\ (S!Write(Syn(s)) \/ UNCHANGED written)
    BY <2>1 DEF S!PumpStep, S!DialOK, S!DialFail, S!Write, S!WriteFail, S!PumpDone,
                S!PumpExit, S!LeavePump, S!inbound
  <2> QED
    BY <2>1, <2>2
<1> QED
  BY <1>1, <1>2, <1>3

-----------------------------------------------------------------------------
(* What is in flight to the aggregator *)

ClientTypes ==
  /\ offset \in [Ids -> 0..Chunks]
  /\ out \in [Ids -> {"idle", "syn", "read", "chunk", "fin", "closing", "exited"}]
  /\ \A s \in Ids : out[s] = "chunk" => offset[s] > 0
  /\ sent \in [Ids -> Seq(Client!Frames)]
  /\ up \in [Bearers -> Seq(Frames)]

\* Data carries the number of a chunk that was read from the application.
Entered(f) == f.flag = "DATA" => f.seq < offset[f.id]

FlightInv ==
  /\ \A b \in Bearers : \A i \in 1..Len(up[b]) : Entered(up[b][i])
  /\ \A f \in Frames : via[f] # None => Entered(f)

LEMMA InitFlight == Init => ClientTypes /\ FlightInv
<1> SUFFICES ASSUME Init PROVE ClientTypes /\ FlightInv
  OBVIOUS
<1>1. /\ offset = [s \in Ids |-> 0] /\ out = [s \in Ids |-> "idle"]
      /\ sent = [s \in Ids |-> <<>>] /\ up = [b \in Bearers |-> <<>>]
  BY DEF Init, Client!Init
<1>2. \A f \in Frames : via[f] = None
  BY DEF Init, Server!Initially
<1> QED
  BY <1>1, <1>2, OverlayBounds DEF ClientTypes, FlightInv

LEMMA EnteredStays ==
  ASSUME NEW f \in Frames, Entered(f), ClientTypes,
         \A s \in Ids : offset'[s] \in Nat /\ offset[s] <= offset'[s]
  PROVE  Entered(f)'
<1>1. f.id \in Ids /\ f.seq \in Nat
  BY ServerAssumptions DEF S!FramesAssumption
<1> QED
  BY <1>1 DEF Entered, ClientTypes

\* A step of runOutbound: a chunk is read, or a frame is dispatched, or neither.
Dispatches(s) ==
  \E b \in Bearers, f \in Frames :
    /\ f.id = s /\ Entered(f)
    /\ up' = [up EXCEPT ![b] = Append(@, f)]
    /\ UNCHANGED offset
Reads(s) ==
  /\ offset[s] < Chunks
  /\ offset' = [offset EXCEPT ![s] = @ + 1]
  /\ out' = [out EXCEPT ![s] = "chunk"]
  /\ UNCHANGED <<sent, up>>

LEMMA OutSteps ==
  ASSUME ClientTypes, NEW s \in Ids, OutStep(s)
  PROVE  /\ Reads(s) \/ Dispatches(s) \/ UNCHANGED <<offset, up>>
         /\ ~Reads(s) =>
              /\ sent' \in [Ids -> Seq(Client!Frames)]
              /\ \E to \in {"read", "fin", "closing", "exited"} :
                   out' = [out EXCEPT ![s] = to]
<1>1. Client!OutStep(s) /\ Dispatched(s)
  BY DEF OutStep, ClientStep
<1>2. CASE Client!ReadChunk(s)
  <2>1. Reads(s)
    BY <1>1, <1>2, OverlayBounds
    DEF Client!ReadChunk, Client!table, Client!inbound, Reads, Dispatched, ClientTypes
  <2> QED
    BY <2>1
<1>3. CASE Client!ReadEnd(s) \/ Client!OutExit(s)
  <2>1. /\ UNCHANGED <<offset, sent, up>>
        /\ \E to \in {"fin", "exited"} : out' = [out EXCEPT ![s] = to]
    BY <1>1, <1>3 DEF Client!ReadEnd, Client!OutExit, Dispatched
  <2> QED
    BY <2>1 DEF ClientTypes
<1>4. ASSUME NEW f, NEW to \in {"read", "closing"},
             out[s] \in {"syn", "chunk", "fin"},
             f \in Client!Frames, Wire(s, f) \in Frames, Entered(Wire(s, f)),
             Client!Dispatched(s, f, to), UNCHANGED offset
      PROVE  /\ Dispatches(s)
             /\ sent' \in [Ids -> Seq(Client!Frames)]
             /\ \E t \in {"read", "closing"} : out' = [out EXCEPT ![s] = t]
  <2>1. \E t \in {"read", "closing"} : out' = [out EXCEPT ![s] = t]
    BY <1>4 DEF Client!Dispatched
  <2>2. out'[s] # out[s]
    BY <1>4, <2>1 DEF ClientTypes
  <2>3. sent' = [sent EXCEPT ![s] = Append(@, f)]
    BY <1>1, <1>4, <2>2 DEF Dispatched, Client!Dispatched
  <2>4. sent[s] \in Seq(Client!Frames)
    BY DEF ClientTypes
  <2>5. /\ Append(sent[s], f) \in Seq(Client!Frames)
        /\ Append(sent[s], f)[Len(Append(sent[s], f))] = f
    BY <1>4, <2>4, AppendProperties
  <2>6. sent' \in [Ids -> Seq(Client!Frames)] /\ sent'[s][Len(sent'[s])] = f
    BY <2>3, <2>5 DEF ClientTypes
  <2>i. Wire(s, f).id = s
    BY DEF Wire
  <2>7. Dispatches(s)
    BY <1>1, <1>4, <2>2, <2>6, <2>i DEF Dispatched, Dispatches
  <2> QED
    BY <2>1, <2>6, <2>7
<1>5. CASE Client!SendSYN(s)
  <2> DEFINE f == [flag |-> "SYN", seq |-> 0]
  <2>1. f \in Client!Frames /\ Wire(s, f) \in Frames /\ Entered(Wire(s, f))
    BY OverlayBounds DEF Client!Frames, Frames, Syn, Wire, Entered
  <2>2. /\ out[s] = "syn" /\ Client!Dispatched(s, f, "read")
        /\ UNCHANGED offset
    BY <1>5 DEF Client!SendSYN
  <2> QED
    BY <1>4, <2>1, <2>2
<1>6. CASE Client!SendChunk(s)
  <2> DEFINE f == [flag |-> "data", seq |-> offset[s] - 1]
  <2>1. /\ out[s] = "chunk" /\ Client!Dispatched(s, f, "read")
        /\ UNCHANGED offset
    BY <1>6 DEF Client!SendChunk
  <2>2. offset[s] - 1 \in 0..(Chunks - 1) /\ offset[s] - 1 \in 0..Chunks
        /\ offset[s] - 1 < offset[s]
    BY <2>1, OverlayBounds DEF ClientTypes
  <2>3. f \in Client!Frames /\ Wire(s, f) = Chunk(s, offset[s] - 1)
    BY <2>2 DEF Client!Frames, Chunk
  <2>4. Wire(s, f) \in Frames /\ Entered(Wire(s, f))
    BY <2>2, <2>3, FrameFields DEF Frames, Entered
  <2> QED
    BY <1>4, <2>1, <2>3, <2>4
<1>7. CASE Client!SendFIN(s)
  <2> DEFINE f == [flag |-> "FIN", seq |-> offset[s]]
  <2>1. offset[s] \in 0..Chunks
    BY DEF ClientTypes
  <2>2. f \in Client!Frames /\ Wire(s, f) = Fin(s, offset[s])
    BY <2>1 DEF Client!Frames, Fin
  <2>3. Wire(s, f) \in Frames /\ Entered(Wire(s, f))
    BY <2>1, <2>2, FrameFields DEF Frames, Entered
  <2>4. /\ out[s] = "fin" /\ Client!Dispatched(s, f, "closing")
        /\ UNCHANGED offset
    BY <1>7 DEF Client!SendFIN
  <2> QED
    BY <1>4, <2>2, <2>3, <2>4
<1> QED
  BY <1>1, <1>2, <1>3, <1>5, <1>6, <1>7 DEF Client!OutStep

\* What the other steps of the client, and the bearers, leave alone.
LEMMA OtherSteps ==
  /\ \A s \in Ids : NewStream(s) => /\ UNCHANGED <<offset, sent, up, via, written>>
                                     /\ out' = [out EXCEPT ![s] = "syn"]
  /\ \A s \in Ids : RunReturns(s) \/ InStep(s) \/ AppEnds(s)
                      => UNCHANGED <<offset, sent, out, up, via, written>>
  /\ \A s \in Ids : OutStep(s) => UNCHANGED <<via, written>>
  /\ \A b \in Bearers : Return(b) => UNCHANGED <<offset, sent, out, up, via, written>>
  /\ DemuxStep => UNCHANGED <<offset, sent, out, up, via, written>>
<1> USE DEF server, Client!outbound, Client!streams, Client!beyond, Client!table,
            Client!inbound
<1>1. ASSUME NEW s \in Ids, NewStream(s)
      PROVE  /\ UNCHANGED <<offset, sent, up, via, written>>
             /\ out' = [out EXCEPT ![s] = "syn"]
  BY <1>1 DEF NewStream, ClientStep, Client!NewStream, Dispatched
<1>2. ASSUME NEW s \in Ids, RunReturns(s) \/ InStep(s) \/ AppEnds(s)
      PROVE  UNCHANGED <<offset, sent, out, up, via, written>>
  BY <1>2 DEF RunReturns, InStep, AppEnds, ClientStep, Dispatched, Client!RunReturns,
              Client!InStep, Client!WriteLocal, Client!WriteFail, Client!SeeDone,
              Client!InExit, Client!AppEnds
<1>3. ASSUME NEW s \in Ids, OutStep(s)
      PROVE  UNCHANGED <<via, written>>
  BY <1>3 DEF OutStep, ClientStep
<1>4. ASSUME NEW b \in Bearers, Return(b)
      PROVE  UNCHANGED <<offset, sent, out, up, via, written>>
  BY <1>4 DEF Return, Client!Receive
<1>5. ASSUME DemuxStep
      PROVE  UNCHANGED <<offset, sent, out, up, via, written>>
  BY <1>5 DEF DemuxStep, links, Client!RouteData, Client!RouteEnd, Client!DemuxClose
<1> QED
  BY <1>1, <1>2, <1>3, <1>4, <1>5

LEMMA ArriveFlight ==
  ASSUME ClientTypes, FlightInv, NEW b \in Bearers, Arrive(b)
  PROVE  /\ UNCHANGED <<offset, sent, out, written>>
         /\ up' \in [Bearers -> Seq(Frames)]
         /\ FlightInv'
<1>1. up[b] \in Seq(Frames) /\ up[b] # <<>> /\ up' = [up EXCEPT ![b] = Tail(@)]
  BY DEF ClientTypes, Arrive
<1>2. /\ Head(up[b]) = up[b][1] /\ 1 \in 1..Len(up[b]) /\ Head(up[b]) \in Frames
      /\ Tail(up[b]) \in Seq(Frames)
      /\ \A i \in 1..Len(Tail(up[b])) :
           i + 1 \in 1..Len(up[b]) /\ Tail(up[b])[i] = up[b][i + 1]
  BY <1>1
<1>3. /\ UNCHANGED <<offset, sent, out, written>>
      /\ via' = [via EXCEPT ![Head(up[b])] = b]
  BY DEF Arrive, Server!ReadFrame, client
<1>4. up' \in [Bearers -> Seq(Frames)]
  BY <1>1, <1>2 DEF ClientTypes
<1>5. \A f \in Frames : Entered(f)' <=> Entered(f)
  BY <1>3 DEF Entered
<1>6. \A f \in Frames : via'[f] # None => via[f] # None \/ f = Head(up[b])
  BY <1>3
<1>7. Entered(Head(up[b]))
  BY <1>2 DEF FlightInv
<1>8. \A f \in Frames : via'[f] # None => Entered(f)
  BY <1>6, <1>7 DEF FlightInv
<1>9. \A c \in Bearers : \A i \in 1..Len(up'[c]) : Entered(up'[c][i])
  BY <1>1, <1>2 DEF FlightInv, ClientTypes
<1>10. \A c \in Bearers : \A i \in 1..Len(up'[c]) : up'[c][i] \in Frames
  BY <1>4
<1> QED
  BY <1>3, <1>4, <1>5, <1>8, <1>9, <1>10 DEF FlightInv

LEMMA OutFlight ==
  ASSUME ClientTypes, FlightInv, NEW s \in Ids, OutStep(s)
  PROVE  ClientTypes' /\ FlightInv'
<1>1. via' = via
  BY OtherSteps
<1>2. CASE Reads(s)
  <2>1. /\ offset' = [offset EXCEPT ![s] = @ + 1] /\ UNCHANGED <<sent, up>>
        /\ out' = [out EXCEPT ![s] = "chunk"]
        /\ offset[s] < Chunks /\ offset[s] \in 0..Chunks
    BY <1>2 DEF Reads, ClientTypes
  <2>2. ClientTypes'
    BY <2>1, OverlayBounds DEF ClientTypes
  <2>3. \A t \in Ids : offset'[t] \in Nat /\ offset[t] <= offset'[t]
    BY <2>1, OverlayBounds DEF ClientTypes
  <2>4. \A f \in Frames : Entered(f) => Entered(f)'
    BY <2>3, EnteredStays
  <2>5. \A c \in Bearers : \A i \in 1..Len(up[c]) : up[c][i] \in Frames
    BY DEF ClientTypes
  <2> QED
    BY <1>1, <2>1, <2>2, <2>4, <2>5 DEF FlightInv
<1>3. ASSUME Dispatches(s) \/ UNCHANGED <<offset, up>>, ~Reads(s)
      PROVE  ClientTypes' /\ FlightInv'
  <2>1. /\ sent' \in [Ids -> Seq(Client!Frames)]
        /\ \E to \in {"read", "fin", "closing", "exited"} :
             out' = [out EXCEPT ![s] = to]
    BY <1>3, OutSteps
  <2>2. offset' = offset /\ \A f : Entered(f)' <=> Entered(f)
    BY <1>3 DEF Dispatches, Entered
  <2>3. CASE UNCHANGED up
    BY <1>1, <2>1, <2>2, <2>3 DEF ClientTypes, FlightInv
  <2>4. ASSUME NEW b \in Bearers, NEW f \in Frames, Entered(f),
               up' = [up EXCEPT ![b] = Append(@, f)]
        PROVE  ClientTypes' /\ FlightInv'
    <3>1. up[b] \in Seq(Frames)
      BY DEF ClientTypes
    <3>2. /\ Append(up[b], f) \in Seq(Frames)
          /\ Len(Append(up[b], f)) = Len(up[b]) + 1
          /\ Append(up[b], f)[Len(up[b]) + 1] = f
          /\ \A i \in 1..Len(up[b]) : Append(up[b], f)[i] = up[b][i]
          /\ Len(up[b]) \in Nat
      BY <2>4, <3>1, AppendProperties
    <3>3. up' \in [Bearers -> Seq(Frames)]
      BY <2>4, <3>2 DEF ClientTypes
    <3>4. \A i \in 1..Len(up'[b]) : Entered(up'[b][i])
      <4>1. up'[b] = Append(up[b], f)
        BY <2>4 DEF ClientTypes
      <4>2. \A i \in 1..Len(up'[b]) : i \in 1..Len(up[b]) \/ i = Len(up[b]) + 1
        BY <3>2, <4>1
      <4> QED
        BY <2>4, <3>2, <4>1, <4>2 DEF FlightInv
    <3>5. \A c \in Bearers \ {b} : up'[c] = up[c]
      BY <2>4 DEF ClientTypes
    <3>6. \A c \in Bearers : \A i \in 1..Len(up'[c]) : Entered(up'[c][i])
      BY <3>4, <3>5 DEF FlightInv
    <3>7. ClientTypes'
      BY <2>1, <2>2, <3>3 DEF ClientTypes
    <3> QED
      BY <1>1, <2>2, <3>6, <3>7 DEF FlightInv
  <2> QED
    BY <1>3, <2>3, <2>4 DEF Dispatches
<1> QED
  BY <1>2, <1>3, OutSteps

LEMMA NextFlight == ClientTypes /\ FlightInv /\ [Next]_vars => ClientTypes' /\ FlightInv'
<1> SUFFICES ASSUME ClientTypes, FlightInv, [Next]_vars
             PROVE  ClientTypes' /\ FlightInv'
  OBVIOUS
<1>1. ASSUME UNCHANGED <<offset, sent, up, via>>,
             out' = out \/ \E s \in Ids : out' = [out EXCEPT ![s] = "syn"]
      PROVE  ClientTypes' /\ FlightInv'
  <2>1. ClientTypes'
    BY <1>1 DEF ClientTypes
  <2>2. FlightInv'
    BY <1>1 DEF FlightInv, Entered
  <2> QED
    BY <2>1, <2>2
<1>2. ASSUME NEW s \in Ids,
             \/ NewStream(s) \/ RunReturns(s) \/ InStep(s) \/ AppEnds(s)
             \/ PumpStep(s) \/ RespStep(s) \/ CloseStep(s)
      PROVE  ClientTypes' /\ FlightInv'
  <2>1. /\ UNCHANGED <<offset, sent, up, via>>
        /\ out' = out \/ out' = [out EXCEPT ![s] = "syn"]
    BY <1>2, OtherSteps, ServerKeeps
  <2> QED
    BY <1>1, <2>1
<1>3. ASSUME NEW b \in Bearers, Arrive(b)
      PROVE  ClientTypes' /\ FlightInv'
  BY <1>3, ArriveFlight DEF ClientTypes
<1>4. CASE DemuxStep \/ RouteStep \/ \E b \in Bearers : Return(b)
  BY <1>1, <1>4, OtherSteps, ServerKeeps
<1>5. CASE UNCHANGED vars
  BY <1>1, <1>5 DEF vars, client, server, links
<1> QED
  BY <1>2, <1>3, <1>4, <1>5, OutFlight DEF Next

-----------------------------------------------------------------------------
(* The requests are a pipe *)

\* The chunks a stream's upstream got are numbered from 0 on.
NumberInv ==
  \A s \in Ids : \A i \in 1..Len(written[Syn(s)]) : written[Syn(s)][i].seq = i - 1

RequestInv ==
  S!HandsInv /\ S!FeedInv /\ S!OrderInv /\ ClientTypes /\ FlightInv /\ NumberInv

LEMMA DataFrame ==
  ASSUME NEW s \in Ids, NEW f \in S!Of(Syn(s)), FlightInv
  PROVE  /\ f \in Frames /\ f.len = 1 /\ f.seq \in Nat /\ S!End(f) = f.seq + 1
         /\ f.seq < offset[s]
<1>1. f \in Frames /\ f.id = s /\ f.flag = "DATA" /\ via[f] # None
  BY FrameFields DEF S!Of
<1>2. f.len = 1
  BY <1>1, FrameCases, FrameFields
<1>3. f.seq \in Nat
  BY <1>1, ServerAssumptions DEF S!FramesAssumption
<1>4. f.seq < offset[s]
  BY <1>1 DEF FlightInv, Entered
<1> QED
  BY <1>1, <1>2, <1>3, <1>4 DEF S!End

\* A chunk that is written has the number of those written before, and was read
\* from the application.
LEMMA WriteNext ==
  ASSUME RequestInv, NEW s \in Ids, S!Write(Syn(s))
  PROVE  LET w == written[Syn(s)]
             h == Head(outCh[Syn(s)])
         IN  /\ w \in Seq(Frames) /\ h \in Frames
             /\ written' = [written EXCEPT ![Syn(s)] = Append(@, h)]
             /\ h.seq = Len(w) /\ Len(w) < offset[s]
<1> DEFINE x == Syn(s)
           w == written[x]
           q == outCh[x]
<1>1. x \in S!Streams
  BY StreamsAre
<1>2. /\ w \in Seq(Frames) /\ q # <<>> /\ pump[x] = "writing"
      /\ w \in Seq(S!Of(x)) /\ q \in Seq(S!Of(x))
      /\ written' = [written EXCEPT ![x] = Append(@, Head(q))]
  BY <1>1 DEF RequestInv, S!HandsInv, S!TypeOK, S!FeedInv, S!Write
<1>3. S!Chain(q, S!EndOf(w, 0))
  BY <1>1, <1>2 DEF RequestInv, S!OrderInv, S!ChainInv
<1> HIDE DEF x, w, q
<1>4. /\ Head(q) = q[1] /\ 1 \in 1..Len(q) /\ Head(q) \in S!Of(x)
  BY <1>2
<1>5. Head(q).seq = S!EndOf(w, 0)
  BY <1>3, <1>4 DEF S!Chain
<1>6. Head(q) \in Frames /\ Head(q).seq < offset[s]
  BY <1>4, DataFrame DEF x, RequestInv
<1>7. S!EndOf(w, 0) = Len(w)
  <2>1. CASE w = <<>>
    BY <2>1 DEF S!EndOf
  <2>2. CASE w # <<>>
    <3>1. Len(w) \in 1..Len(w) /\ w[Len(w)] \in S!Of(x) /\ Len(w) \in Nat
      BY <1>2, <2>2
    <3>2. w[Len(w)].seq = Len(w) - 1
      BY <3>1 DEF RequestInv, NumberInv, w, x
    <3>3. S!End(w[Len(w)]) = w[Len(w)].seq + 1
      BY <3>1, DataFrame DEF x, RequestInv
    <3> QED
      BY <2>2, <3>1, <3>2, <3>3 DEF S!EndOf
  <2> QED
    BY <2>1, <2>2
<1> QED
  BY <1>2, <1>5, <1>6, <1>7 DEF x, w, q

LEMMA NextNumber == RequestInv /\ [Next]_vars => NumberInv'
<1> SUFFICES ASSUME RequestInv, [Next]_vars PROVE NumberInv'
  OBVIOUS
<1>1. CASE UNCHANGED written
  BY <1>1 DEF RequestInv, NumberInv
<1>2. ASSUME NEW s \in Ids, S!Write(Syn(s))
      PROVE  NumberInv'
  <2> DEFINE w == written[Syn(s)]
             h == Head(outCh[Syn(s)])
  <2>1. /\ w \in Seq(Frames) /\ h \in Frames /\ h.seq = Len(w)
        /\ written' = [written EXCEPT ![Syn(s)] = Append(@, h)]
    BY <1>2, WriteNext
  <2>2. written \in [S!Streams -> Seq(Frames)] /\ Syn(s) \in S!Streams
    BY StreamsAre DEF RequestInv, S!HandsInv, S!TypeOK
  <2>3. \A t \in Ids : t # s => Syn(t) # Syn(s)
    BY FrameFields
  <2>4. /\ written'[Syn(s)] = Append(w, h)
        /\ \A t \in Ids : t # s => written'[Syn(t)] = written[Syn(t)]
    BY <2>1, <2>2, <2>3
  <2>5. \A i \in 1..Len(w) : w[i].seq = i - 1
    BY DEF RequestInv, NumberInv
  <2> HIDE DEF w, h
  <2>6. \A i \in 1..Len(Append(w, h)) : Append(w, h)[i].seq = i - 1
    <3>1. /\ Len(w) \in Nat /\ Len(Append(w, h)) = Len(w) + 1
          /\ Append(w, h)[Len(w) + 1] = h
          /\ \A i \in 1..Len(w) : Append(w, h)[i] = w[i]
      BY <2>1, AppendProperties
    <3>2. \A i \in 1..Len(Append(w, h)) : i \in 1..Len(w) \/ i = Len(w) + 1
      BY <3>1
    <3> QED
      BY <2>1, <2>5, <3>1, <3>2
  <2>7. ASSUME NEW t \in Ids, NEW i \in 1..Len(written'[Syn(t)])
        PROVE  written'[Syn(t)][i].seq = i - 1
    <3>1. CASE t = s
      BY <2>4, <2>6, <2>7, <3>1
    <3>2. CASE t # s
      BY <2>4, <2>7, <3>2 DEF RequestInv, NumberInv
    <3> QED
      BY <3>1, <3>2
  <2>8. Syn(s)' = Syn(s) /\ \A t \in Ids : Syn(t)' = Syn(t)
    OBVIOUS
  <2> QED
    BY <2>7, <2>8 DEF NumberInv
<1>3. UNCHANGED written \/ \E s \in Ids : S!Write(Syn(s))
  <2>1. \A b \in Bearers : Arrive(b) => UNCHANGED written
    BY ArriveFlight DEF RequestInv
  <2>2. CASE UNCHANGED vars
    BY <2>2 DEF vars, server
  <2> QED
    BY <2>1, <2>2, OtherSteps, ServerKeeps DEF Next
<1> QED
  BY <1>1, <1>2, <1>3

LEMMA InitRequestInv == Init => RequestInv
<1> SUFFICES ASSUME Init PROVE RequestInv
  OBVIOUS
<1>1. S!HandsInv /\ S!FeedInv /\ S!OrderInv
  BY StartsAs, ServerAssumptions, S!StartHandsInv, S!StartOrderInv
<1>2. \A s \in Ids : written[Syn(s)] = <<>>
  BY StreamsAre DEF Init, Server!Initially
<1>3. NumberInv
  BY <1>2 DEF NumberInv
<1> QED
  BY <1>1, <1>3, InitFlight DEF RequestInv

LEMMA NextRequestInv == RequestInv /\ [Next]_vars => RequestInv'
<1> SUFFICES ASSUME RequestInv, [Next]_vars PROVE RequestInv'
  OBVIOUS
<1>1. [S!Next]_(S!vars)
  BY ServerMoves DEF RequestInv, ClientTypes
<1>2. S!HandsInv' /\ S!FeedInv' /\ S!OrderInv'
  BY <1>1, ServerAssumptions, S!NextOrderInv DEF RequestInv
<1>3. ClientTypes' /\ FlightInv'
  BY NextFlight DEF RequestInv
<1>4. NumberInv'
  BY NextNumber
<1> QED
  BY <1>2, <1>3, <1>4 DEF RequestInv

\* The numbers of some frames, as RequestPipe sees them.
Numbers(q) == [i \in 1..Len(q) |-> q[i].seq]

LEMMA NumbersType ==
  ASSUME NEW q \in Seq(Frames)
  PROVE  /\ Numbers(q) \in Seq(Nat) /\ Len(Numbers(q)) = Len(q)
         /\ \A i \in 1..Len(q) : Numbers(q)[i] = q[i].seq
<1>1. Len(q) \in Nat /\ \A i \in 1..Len(q) : q[i] \in Frames
  OBVIOUS
<1>2. \A f \in Frames : f.seq \in Nat
  BY ServerAssumptions DEF S!FramesAssumption
<1>3. Numbers(q) \in [1..Len(q) -> Nat] /\ DOMAIN Numbers(q) = 1..Len(q)
  BY <1>1, <1>2 DEF Numbers
<1>4. Numbers(q) \in Seq(Nat)
  BY <1>1, <1>3, SeqDef
<1>5. DOMAIN Numbers(q) = 1..Len(Numbers(q)) /\ Len(Numbers(q)) \in Nat
  BY <1>4, LenProperties
<1>6. \A m, n \in Nat : 1..m = 1..n => m = n
  <2> SUFFICES ASSUME NEW m \in Nat, NEW n \in Nat, 1..m = 1..n, m < n PROVE FALSE
    OBVIOUS
  <2> QED
    OBVIOUS
<1> QED
  BY <1>1, <1>3, <1>4, <1>5, <1>6 DEF Numbers

LEMMA NumbersEmpty == Numbers(<<>>) = <<>>
<1>1. <<>> \in Seq(Frames) /\ Len(<<>>) = 0
  BY EmptySeq
<1>2. Numbers(<<>>) \in Seq(Nat) /\ Len(Numbers(<<>>)) = 0
  BY <1>1, NumbersType
<1> QED
  BY <1>2, EmptySeq

LEMMA NumbersAppend ==
  ASSUME NEW q \in Seq(Frames), NEW f \in Frames
  PROVE  Numbers(Append(q, f)) = Append(Numbers(q), f.seq)
<1>1. f.seq \in Nat
  BY ServerAssumptions DEF S!FramesAssumption
<1>2. /\ Append(q, f) \in Seq(Frames) /\ Len(q) \in Nat
      /\ Len(Append(q, f)) = Len(q) + 1 /\ Append(q, f)[Len(q) + 1] = f
      /\ \A i \in 1..Len(q) : Append(q, f)[i] = q[i]
  BY AppendProperties
<1>3. /\ Numbers(q) \in Seq(Nat) /\ Len(Numbers(q)) = Len(q)
      /\ \A i \in 1..Len(q) : Numbers(q)[i] = q[i].seq
      /\ Numbers(Append(q, f)) \in Seq(Nat)
      /\ Len(Numbers(Append(q, f))) = Len(q) + 1
      /\ \A i \in 1..(Len(q) + 1) : Numbers(Append(q, f))[i] = Append(q, f)[i].seq
  BY <1>2, NumbersType
<1> DEFINE m == Numbers(q)
           n == Numbers(Append(q, f))
<1> HIDE DEF m, n
<1>4. /\ Append(m, f.seq) \in Seq(Nat) /\ Len(Append(m, f.seq)) = Len(q) + 1
      /\ Append(m, f.seq)[Len(q) + 1] = f.seq
      /\ \A i \in 1..Len(q) : Append(m, f.seq)[i] = m[i]
  BY <1>1, <1>3, AppendProperties DEF m
<1>5. \A i \in 1..(Len(q) + 1) : i \in 1..Len(q) \/ i = Len(q) + 1
  BY <1>2
<1>6. \A i \in 1..(Len(q) + 1) : n[i] = Append(m, f.seq)[i]
  BY <1>2, <1>3, <1>4, <1>5 DEF m, n
<1>7. n = Append(m, f.seq)
  BY <1>3, <1>4, <1>6, SeqEqual DEF n
<1> QED
  BY <1>7 DEF m, n

THEOREM RequestsRefined == Spec => RequestPipe
<1> DEFINE Left == [s \in Ids |-> Numbers(written[Syn(s)])]
<1>l. /\ Left = [s \in Ids |->
                  [i \in 1..Len(written[Syn(s)]) |-> written[Syn(s)][i].seq]]
      /\ Left' = [s \in Ids |->
                   [i \in 1..Len(written'[Syn(s)]) |-> written'[Syn(s)][i].seq]]
  BY DEF Numbers
<1>1. Init => Requests!Init
  <2> SUFFICES ASSUME Init PROVE Requests!Init
    OBVIOUS
  <2>1. offset = [s \in Ids |-> 0]
    BY DEF Init, Client!Init
  <2>2. \A s \in Ids : written[Syn(s)] = <<>>
    BY StreamsAre DEF Init, Server!Initially
  <2>3. Left = [s \in Ids |-> <<>>]
    BY <2>2, NumbersEmpty
  <2> QED
    BY <1>l, <2>1, <2>3 DEF Requests!Init
<1>2. RequestInv /\ [Next]_vars => [Requests!Next]_(Requests!vars)
  <2> SUFFICES ASSUME RequestInv, [Next]_vars
               PROVE  Requests!Next \/ UNCHANGED <<offset, Left>>
    BY <1>l DEF Requests!vars
  <2>1. CASE UNCHANGED <<offset, written>>
    BY <2>1
  <2>2. ASSUME NEW s \in Ids, Reads(s), UNCHANGED written
        PROVE  Requests!Enter(s)
    BY <2>2 DEF Reads, Requests!Enter
  <2>3. ASSUME NEW s \in Ids, S!Write(Syn(s)), UNCHANGED offset
        PROVE  Requests!Leave(s)
    <3> DEFINE w == written[Syn(s)]
               h == Head(outCh[Syn(s)])
    <3>1. /\ w \in Seq(Frames) /\ h \in Frames /\ h.seq = Len(w) /\ Len(w) < offset[s]
          /\ written' = [written EXCEPT ![Syn(s)] = Append(@, h)]
      BY <2>3, WriteNext
    <3>2. /\ written'[Syn(s)] = Append(w, h)
          /\ \A t \in Ids : t # s => written'[Syn(t)] = written[Syn(t)]
      <4>1. written \in [S!Streams -> Seq(Frames)] /\ Syn(s) \in S!Streams
        BY StreamsAre DEF RequestInv, S!HandsInv, S!TypeOK
      <4>2. \A t \in Ids : t # s => Syn(t) # Syn(s)
        BY FrameFields
      <4> QED
        BY <3>1, <4>1, <4>2
    <3>3. Left[s] = Numbers(w) /\ Len(Numbers(w)) = Len(w)
      BY <3>1, NumbersType
    <3>4. Numbers(Append(w, h)) = Append(Numbers(w), Len(w))
      BY <3>1, NumbersAppend
    <3>5. Left' = [Left EXCEPT ![s] = Append(@, Len(@))]
      BY <3>2, <3>3, <3>4
    <3> QED
      BY <1>l, <2>3, <3>1, <3>3, <3>5 DEF Requests!Leave
  <2>4. \/ UNCHANGED <<offset, written>>
        \/ \E s \in Ids : Reads(s) /\ UNCHANGED written
        \/ \E s \in Ids : S!Write(Syn(s)) /\ UNCHANGED offset
    <3>1. CASE UNCHANGED vars
      BY <3>1 DEF vars, client, server
    <3>2. ASSUME NEW s \in Ids, OutStep(s)
          PROVE  UNCHANGED written /\ (Reads(s) \/ UNCHANGED offset)
      BY <3>2, OutSteps, OtherSteps DEF RequestInv, Dispatches
    <3>3. \A b \in Bearers : Arrive(b) => UNCHANGED <<offset, written>>
      BY ArriveFlight DEF RequestInv
    <3> QED
      BY <3>1, <3>2, <3>3, OtherSteps, ServerKeeps DEF Next
  <2> QED
    BY <2>1, <2>2, <2>3, <2>4 DEF Requests!Next
<1> QED
  BY <1>1, <1>2, InitRequestInv, NextRequestInv, PTL
  DEF Spec, RequestPipe, Requests!Spec

-----------------------------------------------------------------------------
(* Sequences of answers *)

IsData(a, s) == a.stream = s /\ a.kind = "data"

\* The data of stream s in q are the chunks from lo on, up to hi, in order.
Carries(q, s, lo, hi) ==
  /\ lo <= hi
  /\ \A i \in 1..Len(q) : IsData(q[i], s) => lo <= q[i].n /\ q[i].n < hi
  /\ \A i, j \in 1..Len(q) :
       i < j /\ IsData(q[i], s) /\ IsData(q[j], s) => q[i].n < q[j].n
  /\ \A k \in Nat :
       lo <= k /\ k < hi => \E i \in 1..Len(q) : IsData(q[i], s) /\ q[i].n = k

LEMMA AnswerFields ==
  ASSUME NEW a \in Client!Answers
  PROVE  a.stream \in Ids /\ a.kind \in {"data", "fin", "rst"} /\ a.n \in Nat
<1>1. 0..Responses \subseteq Nat
  BY OverlayBounds
<1> QED
  BY <1>1 DEF Client!Answers, Client!Ends

LEMMA AppendIs ==
  ASSUME NEW A, NEW q \in Seq(A), NEW a \in A
  PROVE  /\ Append(q, a) \in Seq(A)
         /\ Len(q) \in Nat /\ Len(Append(q, a)) = Len(q) + 1
         /\ Append(q, a)[Len(q) + 1] = a
         /\ \A i \in 1..Len(q) : Append(q, a)[i] = q[i]
         /\ \A i \in 1..Len(Append(q, a)) : i \in 1..Len(q) \/ i = Len(q) + 1
<1>1. /\ Append(q, a) \in Seq(A)
      /\ Len(q) \in Nat /\ Len(Append(q, a)) = Len(q) + 1
      /\ Append(q, a)[Len(q) + 1] = a
      /\ \A i \in 1..Len(q) : Append(q, a)[i] = q[i]
  BY AppendProperties
<1>2. \A i \in 1..Len(Append(q, a)) : i \in 1..Len(q) \/ i = Len(q) + 1
  BY <1>1
<1> QED
  BY <1>1, <1>2

LEMMA TailIs ==
  ASSUME NEW A, NEW q \in Seq(A), q # <<>>
  PROVE  /\ Head(q) = q[1] /\ Head(q) \in A /\ Tail(q) \in Seq(A)
         /\ Len(q) \in Nat /\ 1 \in 1..Len(q) /\ Len(Tail(q)) = Len(q) - 1
         /\ \A i \in 1..Len(Tail(q)) : i + 1 \in 1..Len(q) /\ Tail(q)[i] = q[i + 1]
         /\ \A i \in 1..Len(q) : i # 1 => i - 1 \in 1..Len(Tail(q)) /\ Tail(q)[i - 1] = q[i]
<1>1. /\ Head(q) = q[1] /\ Head(q) \in A /\ Tail(q) \in Seq(A)
      /\ Len(q) \in Nat /\ Len(q) > 0 /\ Len(Tail(q)) = Len(q) - 1
      /\ \A i \in 1..Len(Tail(q)) : Tail(q)[i] = q[i + 1]
  BY HeadTailProperties
<1>2. \A i \in 1..Len(Tail(q)) : i + 1 \in 1..Len(q)
  BY <1>1
<1>3. \A i \in 1..Len(q) : i # 1 => i - 1 \in 1..Len(Tail(q)) /\ (i - 1) + 1 = i
  BY <1>1
<1>4. \A i \in 1..Len(q) : i # 1 => Tail(q)[i - 1] = q[i]
  BY <1>1, <1>3
<1> QED
  BY <1>1, <1>2, <1>3, <1>4

LEMMA CarriesData ==
  ASSUME NEW q \in Seq(Client!Answers), NEW s, NEW a \in Client!Answers, IsData(a, s),
         NEW lo \in Nat, NEW hi \in Nat, Carries(q, s, lo, hi), a.n = hi
  PROVE  Carries(Append(q, a), s, lo, hi + 1)
<1> DEFINE r == Append(q, a)
<1>1. /\ Len(q) \in Nat /\ Len(r) = Len(q) + 1 /\ r[Len(q) + 1] = a
      /\ \A i \in 1..Len(q) : r[i] = q[i]
      /\ \A i \in 1..Len(r) : i \in 1..Len(q) \/ i = Len(q) + 1
  BY AppendIs
<1>2. \A i \in 1..Len(q) : q[i].n \in Nat
  BY AnswerFields, ElementOfSeq
<1> HIDE DEF r
<1>3. \A i \in 1..Len(r) : IsData(r[i], s) => lo <= r[i].n /\ r[i].n < hi + 1
  BY <1>1, <1>2 DEF Carries
<1>4. ASSUME NEW i \in 1..Len(r), NEW j \in 1..Len(r),
             i < j, IsData(r[i], s), IsData(r[j], s)
      PROVE  r[i].n < r[j].n
  <2>1. i \in 1..Len(q)
    BY <1>1, <1>4
  <2> QED
    BY <1>1, <1>4, <2>1 DEF Carries
<1>5. ASSUME NEW k \in Nat, lo <= k, k < hi + 1
      PROVE  \E i \in 1..Len(r) : IsData(r[i], s) /\ r[i].n = k
  <2>1. CASE k = hi
    BY <1>1, <2>1
  <2>2. CASE k # hi
    <3>1. k < hi
      BY <1>5, <2>2
    <3>2. PICK i \in 1..Len(q) : IsData(q[i], s) /\ q[i].n = k
      BY <1>5, <3>1 DEF Carries
    <3>3. i \in 1..Len(r) /\ r[i] = q[i]
      BY <1>1
    <3> QED
      BY <3>2, <3>3
  <2> QED
    BY <2>1, <2>2
<1>6. lo <= hi + 1
  BY DEF Carries
<1>7. Carries(r, s, lo, hi + 1)
  BY <1>3, <1>4, <1>5, <1>6 DEF Carries
<1> QED
  BY <1>7 DEF r

LEMMA CarriesOther ==
  ASSUME NEW q \in Seq(Client!Answers), NEW s, NEW a \in Client!Answers, ~IsData(a, s),
         NEW lo \in Nat, NEW hi \in Nat, Carries(q, s, lo, hi)
  PROVE  Carries(Append(q, a), s, lo, hi)
<1> DEFINE r == Append(q, a)
<1>1. /\ Len(q) \in Nat /\ Len(r) = Len(q) + 1 /\ r[Len(q) + 1] = a
      /\ \A i \in 1..Len(q) : r[i] = q[i] /\ i \in 1..Len(r)
      /\ \A i \in 1..Len(r) : i \in 1..Len(q) \/ i = Len(q) + 1
  BY AppendIs
<1> HIDE DEF r
<1>2. \A i \in 1..Len(r) : IsData(r[i], s) => i \in 1..Len(q) /\ r[i] = q[i]
  BY <1>1
<1> QED
  BY <1>1, <1>2 DEF Carries, r

LEMMA CarriesTail ==
  ASSUME NEW q \in Seq(Client!Answers), NEW s, q # <<>>,
         NEW lo \in Nat, NEW hi \in Nat, Carries(q, s, lo, hi)
  PROVE  /\ IsData(Head(q), s) =>
              Head(q).n = lo /\ lo < hi /\ Carries(Tail(q), s, lo + 1, hi)
         /\ ~IsData(Head(q), s) => Carries(Tail(q), s, lo, hi)
<1> DEFINE r == Tail(q)
<1>1. /\ Head(q) = q[1] /\ Len(q) \in Nat /\ 1 \in 1..Len(q) /\ Len(r) = Len(q) - 1
      /\ \A i \in 1..Len(r) : i + 1 \in 1..Len(q) /\ r[i] = q[i + 1]
      /\ \A i \in 1..Len(q) : i # 1 => i - 1 \in 1..Len(r) /\ r[i - 1] = q[i]
  BY TailIs
<1>2. \A i \in 1..Len(q) : q[i].n \in Nat
  BY AnswerFields, ElementOfSeq
<1> HIDE DEF r
<1>3. \A i, j \in 1..Len(r) :
        i < j /\ IsData(r[i], s) /\ IsData(r[j], s) => r[i].n < r[j].n
  BY <1>1 DEF Carries
<1>4. ASSUME NEW k \in Nat, lo <= k, k < hi, IsData(q[1], s) => q[1].n # k
      PROVE  \E i \in 1..Len(r) : IsData(r[i], s) /\ r[i].n = k
  <2>1. PICK i \in 1..Len(q) : IsData(q[i], s) /\ q[i].n = k
    BY <1>4 DEF Carries
  <2>2. i - 1 \in 1..Len(r) /\ r[i - 1] = q[i]
    BY <1>1, <1>4, <2>1
  <2> QED
    BY <2>1, <2>2
<1>5. CASE IsData(q[1], s)
  <2>1. /\ lo <= q[1].n /\ q[1].n < hi /\ q[1].n \in Nat
        /\ \A i \in 1..Len(q) : i # 1 /\ IsData(q[i], s) => q[1].n < q[i].n
    BY <1>1, <1>2, <1>5 DEF Carries
  <2>2. q[1].n = lo
    <3>1. PICK i \in 1..Len(q) : IsData(q[i], s) /\ q[i].n = lo
      BY <2>1 DEF Carries
    <3> QED
      BY <2>1, <3>1
  <2>3. \A i \in 1..Len(r) : IsData(r[i], s) => lo + 1 <= r[i].n /\ r[i].n < hi
    <3> SUFFICES ASSUME NEW i \in 1..Len(r), IsData(r[i], s)
                 PROVE  lo + 1 <= r[i].n /\ r[i].n < hi
      OBVIOUS
    <3>1. i + 1 \in 1..Len(q) /\ r[i] = q[i + 1] /\ i + 1 # 1
      BY <1>1
    <3>2. q[1].n < q[i + 1].n /\ q[i + 1].n < hi /\ q[i + 1].n \in Nat
      BY <1>2, <2>1, <3>1 DEF Carries
    <3> QED
      BY <2>2, <3>1, <3>2
  <2>4. \A k \in Nat : lo + 1 <= k /\ k < hi =>
          \E i \in 1..Len(r) : IsData(r[i], s) /\ r[i].n = k
    BY <1>4, <2>2
  <2>5. lo + 1 <= hi
    BY <2>1, <2>2
  <2> QED
    BY <1>1, <1>3, <1>5, <2>1, <2>2, <2>3, <2>4, <2>5 DEF Carries, r
<1>6. CASE ~IsData(q[1], s)
  <2>1. \A i \in 1..Len(r) : IsData(r[i], s) => lo <= r[i].n /\ r[i].n < hi
    BY <1>1 DEF Carries
  <2>2. \A k \in Nat : lo <= k /\ k < hi =>
          \E i \in 1..Len(r) : IsData(r[i], s) /\ r[i].n = k
    BY <1>4, <1>6
  <2>3. Carries(r, s, lo, hi)
    BY <1>3, <2>1, <2>2 DEF Carries
  <2> QED
    BY <1>1, <1>6, <2>3 DEF r
<1> QED
  BY <1>5, <1>6

\* What the application gets, followed by what is queued for it.
LEMMA TakenGrows ==
  ASSUME NEW g \in Seq(Nat), NEW q \in Seq(Nat), NEW n \in Nat
  PROVE  g \o Append(q, n) = Append(g \o q, n)
<1>1. /\ Append(q, n) \in Seq(Nat) /\ Len(Append(q, n)) = Len(q) + 1
      /\ Append(q, n)[Len(q) + 1] = n
      /\ \A i \in 1..Len(q) : Append(q, n)[i] = q[i]
      /\ Len(q) \in Nat /\ Len(g) \in Nat
  BY AppendIs
<1>2. /\ g \o q \in Seq(Nat) /\ Len(g \o q) = Len(g) + Len(q)
      /\ \A i \in 1..(Len(g) + Len(q)) :
           (g \o q)[i] = IF i <= Len(g) THEN g[i] ELSE q[i - Len(g)]
  BY ConcatProperties
<1>3. /\ g \o Append(q, n) \in Seq(Nat) /\ Len(g \o Append(q, n)) = Len(g) + Len(q) + 1
      /\ \A i \in 1..(Len(g) + Len(q) + 1) :
           (g \o Append(q, n))[i] = IF i <= Len(g) THEN g[i] ELSE Append(q, n)[i - Len(g)]
  <2> DEFINE x == Append(q, n)
  <2>1. x \in Seq(Nat) /\ Len(g) + Len(x) = Len(g) + Len(q) + 1
    BY <1>1
  <2> HIDE DEF x
  <2>2. /\ g \o x \in Seq(Nat) /\ Len(g \o x) = Len(g) + Len(x)
        /\ \A i \in 1..(Len(g) + Len(x)) :
             (g \o x)[i] = IF i <= Len(g) THEN g[i] ELSE x[i - Len(g)]
    BY <2>1, ConcatProperties
  <2>3. /\ g \o x \in Seq(Nat) /\ Len(g \o x) = Len(g) + Len(q) + 1
        /\ \A i \in 1..(Len(g) + Len(q) + 1) :
             (g \o x)[i] = IF i <= Len(g) THEN g[i] ELSE x[i - Len(g)]
    BY <2>1, <2>2, Zenon
  <2> QED
    BY <2>3 DEF x
<1>4. /\ Append(g \o q, n) \in Seq(Nat) /\ Len(Append(g \o q, n)) = Len(g) + Len(q) + 1
      /\ Append(g \o q, n)[Len(g) + Len(q) + 1] = n
      /\ \A i \in 1..(Len(g) + Len(q)) : Append(g \o q, n)[i] = (g \o q)[i]
  BY <1>1, <1>2, AppendIs
<1> DEFINE u == g \o Append(q, n)
           v == Append(g \o q, n)
           w == g \o q
           x == Append(q, n)
<1>5. \A i \in 1..(Len(g) + Len(q) + 1) : u[i] = v[i]
  <2> HIDE DEF u, v, w, x
  <2> SUFFICES ASSUME NEW i \in 1..(Len(g) + Len(q) + 1) PROVE u[i] = v[i]
    OBVIOUS
  <2>1. CASE i = Len(g) + Len(q) + 1
    <3>1. u[i] = x[Len(q) + 1]
      BY <1>1, <1>3, <2>1 DEF u, x
    <3> QED
      BY <1>1, <1>4, <2>1, <3>1 DEF v, x
  <2>2. CASE i # Len(g) + Len(q) + 1
    <3> DEFINE m == Len(g)
               k == Len(q)
    <3>a. m \in Nat /\ k \in Nat /\ i \in 1..(m + k + 1) /\ i # m + k + 1
      BY <1>1, <2>2
    <3>b. i \in 1..(m + k) /\ (i > m => i - m \in 1..k)
      <4> HIDE DEF m, k
      <4> QED
        BY <3>a
    <3>1. i \in 1..(Len(g) + Len(q)) /\ (i > Len(g) => i - Len(g) \in 1..Len(q))
      BY <3>b
    <3>2. v[i] = w[i]
      BY <1>4, <3>1 DEF v, w
    <3>3. w[i] = IF i <= Len(g) THEN g[i] ELSE q[i - Len(g)]
      BY <1>2, <3>1 DEF w
    <3>4. u[i] = IF i <= Len(g) THEN g[i] ELSE x[i - Len(g)]
      BY <1>3 DEF u, x
    <3>5. i > Len(g) => x[i - Len(g)] = q[i - Len(g)]
      BY <1>1, <3>1 DEF x
    <3> QED
      BY <1>1, <3>2, <3>3, <3>4, <3>5
  <2> QED
    BY <2>1, <2>2
<1> QED
  BY <1>3, <1>4, <1>5, SeqEqual

LEMMA TakenMoves ==
  ASSUME NEW g \in Seq(Nat), NEW q \in Seq(Nat), q # <<>>
  PROVE  Append(g, Head(q)) \o Tail(q) = g \o q
<1>1. /\ Head(q) = q[1] /\ Head(q) \in Nat /\ Tail(q) \in Seq(Nat)
      /\ Len(q) \in Nat /\ Len(q) > 0 /\ Len(Tail(q)) = Len(q) - 1
      /\ \A i \in 1..Len(Tail(q)) : Tail(q)[i] = q[i + 1]
      /\ Len(g) \in Nat
  BY HeadTailProperties
<1>2. /\ Append(g, Head(q)) \in Seq(Nat) /\ Len(Append(g, Head(q))) = Len(g) + 1
      /\ Append(g, Head(q))[Len(g) + 1] = q[1]
      /\ \A i \in 1..Len(g) : Append(g, Head(q))[i] = g[i]
  BY <1>1, AppendProperties
<1> DEFINE x == Append(g, Head(q))
           y == Tail(q)
           u == x \o y
           w == g \o q
<1>3. /\ w \in Seq(Nat) /\ Len(w) = Len(g) + Len(q)
      /\ \A i \in 1..(Len(g) + Len(q)) :
           w[i] = IF i <= Len(g) THEN g[i] ELSE q[i - Len(g)]
  BY ConcatProperties
<1>4. /\ u \in Seq(Nat) /\ Len(u) = Len(x) + Len(y)
      /\ \A i \in 1..(Len(x) + Len(y)) :
           u[i] = IF i <= Len(x) THEN x[i] ELSE y[i - Len(x)]
  BY <1>1, <1>2, ConcatProperties
<1>5. Len(x) = Len(g) + 1 /\ Len(y) = Len(q) - 1 /\ Len(x) + Len(y) = Len(g) + Len(q)
  BY <1>1, <1>2
<1>x. x[Len(g) + 1] = q[1] /\ \A i \in 1..Len(g) : x[i] = g[i]
  BY <1>2
<1>y. \A i \in 1..Len(y) : y[i] = q[i + 1]
  BY <1>1
<1>6. \A i \in 1..(Len(g) + Len(q)) : u[i] = w[i]
  <2> HIDE DEF x, y, u, w
  <2> SUFFICES ASSUME NEW i \in 1..(Len(g) + Len(q)) PROVE u[i] = w[i]
    OBVIOUS
  <2>a. /\ u[i] = IF i <= Len(x) THEN x[i] ELSE y[i - Len(x)]
        /\ w[i] = IF i <= Len(g) THEN g[i] ELSE q[i - Len(g)]
        /\ Len(g) \in Nat /\ Len(q) \in Nat
    BY <1>1, <1>3, <1>4, <1>5
  <2>1. CASE i <= Len(g)
    BY <1>x, <1>5, <2>a, <2>1
  <2>2. CASE i = Len(g) + 1
    BY <1>x, <1>5, <2>a, <2>2
  <2>3. CASE i > Len(g) + 1
    <3>1. i - Len(x) \in 1..Len(y) /\ (i - Len(x)) + 1 = i - Len(g)
      BY <1>5, <2>a, <2>3
    <3>2. y[i - Len(x)] = q[i - Len(g)]
      BY <1>y, <3>1
    <3> QED
      BY <1>5, <2>a, <2>3, <3>2
  <2> QED
    BY <2>a, <2>1, <2>2, <2>3
<1> QED
  BY <1>3, <1>4, <1>5, <1>6, SeqEqual DEF u, w

-----------------------------------------------------------------------------
(* What the steps do to the answers *)

AnswerTypes ==
  /\ down \in [Bearers -> Seq(Client!Answers)]
  /\ inboundCh \in Seq(Client!Answers)
  /\ in \in [Ids -> {"idle", "select", "closing", "exited"}]
  /\ queue \in [Ids -> Seq(Nat)]
  /\ got \in [Ids -> Seq(Nat)]
  /\ reply \in [Ids -> [n : Nat, end : {"none", "fin", "rst"}]]

\* The application is still given what comes for the stream.
Delivers(s) == in[s] \notin {"closing", "exited"} /\ s \notin done

\* A step that moves no answer of any stream, at the client,
ClientAside ==
  /\ UNCHANGED <<queue, got, inboundCh, reply>>
  /\ registry' \subseteq registry
  /\ \A s \in Ids : Delivers(s)' => Delivers(s)
\* or on the way there.
DownAside == UNCHANGED <<down, reply, via, replies, bearer, closing, resp, read>>

LEMMA ClientSteps ==
  ASSUME AnswerTypes
  PROVE
  /\ \A s \in Ids : RunReturns(s) \/ OutStep(s) \/ AppEnds(s) => ClientAside /\ DownAside
  /\ \A s \in Ids : NewStream(s) =>
       /\ DownAside /\ UNCHANGED <<queue, got, inboundCh, done>>
       /\ handler[s] = "handshake" /\ registry' = registry \cup {s}
       /\ in' = [in EXCEPT ![s] = "select"]
  /\ \A s \in Ids : InStep(s) =>
       /\ DownAside /\ UNCHANGED <<inboundCh, registry>>
       /\ ClientAside \/ Client!WriteLocal(s) \/ Client!WriteFail(s)
  /\ DemuxStep => DownAside /\ (ClientAside \/ Client!RouteData \/ Client!RouteEnd)
  /\ \A b \in Bearers : Arrive(b) =>
       ClientAside /\ UNCHANGED <<down, replies, bearer, closing, resp, read>>
<1> USE DEF server, client, ClientStep, links, Client!outbound, Client!streams,
            Client!beyond, Client!table, Client!inbound, Client!outside, Client!routing,
            Client!stopping, Delivers, ClientAside, DownAside
<1>1. ASSUME NEW s \in Ids, RunReturns(s) \/ OutStep(s) \/ AppEnds(s)
      PROVE  ClientAside /\ DownAside
  <2>1. CASE RunReturns(s)
    BY <2>1 DEF RunReturns, Client!RunReturns
  <2>2. CASE OutStep(s)
    BY <2>2 DEF OutStep, Client!OutStep, Client!SendSYN, Client!ReadChunk,
                Client!SendChunk, Client!ReadEnd, Client!SendFIN, Client!OutExit
  <2>3. CASE AppEnds(s)
    BY <2>3 DEF AppEnds, Client!AppEnds
  <2> QED
    BY <1>1, <2>1, <2>2, <2>3
<1>2. ASSUME NEW s \in Ids, NewStream(s)
      PROVE  /\ DownAside /\ UNCHANGED <<queue, got, inboundCh, done>>
             /\ handler[s] = "handshake" /\ registry' = registry \cup {s}
             /\ in' = [in EXCEPT ![s] = "select"]
  BY <1>2 DEF NewStream, Client!NewStream
<1>3. ASSUME NEW s \in Ids, InStep(s)
      PROVE  /\ DownAside /\ UNCHANGED <<inboundCh, registry>>
             /\ ClientAside \/ Client!WriteLocal(s) \/ Client!WriteFail(s)
  <2>1. DownAside /\ UNCHANGED <<inboundCh, registry>>
    BY <1>3 DEF InStep, Client!InStep, Client!WriteLocal, Client!WriteFail,
                Client!SeeDone, Client!InExit
  <2>2. CASE Client!SeeDone(s) \/ Client!InExit(s)
    BY <2>1, <2>2 DEF Client!SeeDone, Client!InExit, AnswerTypes
  <2> QED
    BY <1>3, <2>1, <2>2 DEF InStep, Client!InStep
<1>4. ASSUME DemuxStep
      PROVE  DownAside /\ (ClientAside \/ Client!RouteData \/ Client!RouteEnd)
  <2>1. DownAside
    BY <1>4 DEF DemuxStep, Client!RouteData, Client!RouteEnd, Client!DemuxClose
  <2>2. CASE Client!DemuxClose
    BY <2>1, <2>2 DEF Client!DemuxClose
  <2> QED
    BY <1>4, <2>1, <2>2 DEF DemuxStep
<1>5. ASSUME NEW b \in Bearers, Arrive(b)
      PROVE  ClientAside /\ UNCHANGED <<down, replies, bearer, closing, resp, read>>
  BY <1>5 DEF Arrive, Server!ReadFrame, Server!life, Server!reply
<1> QED
  BY <1>1, <1>2, <1>3, <1>4, <1>5

\* Nothing of a connection was sent before its handshake was over.
FreshInv ==
  /\ handler \in [Ids -> {"handshake", "running", "gone"}]
  /\ \A s \in Ids : handler[s] = "handshake" =>
       /\ out[s] = "idle" /\ in[s] = "idle"
       /\ \A f \in Frames : f.id = s => via[f] = None
       /\ \A b \in Bearers : \A i \in 1..Len(up[b]) : up[b][i].id # s

BaseInv ==
  RequestInv /\ S!StickyInv /\ S!ReadInv /\ S!AllLive /\ AnswerTypes /\ FreshInv

ServerMove ==
  RouteStep \/ \E s \in Ids : PumpStep(s) \/ RespStep(s) \/ CloseStep(s)

Sends(t, flag, b) ==
  /\ S!Replies(Syn(t), flag, b)
  /\ down' = [down EXCEPT ![b] = Append(@, AnswerOf(t, flag))]

LEMMA ServerAnswers ==
  ASSUME BaseInv, ServerMove
  PROVE  /\ UNCHANGED <<client, reply, up, via, bearer>> /\ S!Onwards
         /\ \/ S!Quiet /\ UNCHANGED down
            \/ \E t \in Ids, flag \in {"DATA", "FIN", "RST"}, b \in Bearers :
                 Sends(t, flag, b)
<1> USE DEF BaseInv, RequestInv
<1>1. /\ UNCHANGED <<client, reply, up, via>> /\ Replied
      /\ \/ S!RouteStep
         \/ \E x \in S!Streams : S!PumpStep(x) \/ S!RespStep(x) \/ S!CloseStep(x)
  <2>1. \A s \in Ids : Syn(s) \in S!Streams
    BY StreamsAre
  <2>2. UNCHANGED via
    BY ServerKeeps DEF ServerMove
  <2>3. CASE RouteStep
    BY <2>2, <2>3, SameSteps DEF RouteStep, ServerStep
  <2>4. ASSUME NEW s \in Ids, PumpStep(s) \/ RespStep(s) \/ CloseStep(s)
        PROVE  /\ UNCHANGED <<client, reply, up>> /\ Replied
               /\ \E x \in S!Streams : S!PumpStep(x) \/ S!RespStep(x) \/ S!CloseStep(x)
    BY <2>1, <2>4, SameSteps DEF PumpStep, RespStep, CloseStep, ServerStep
  <2> QED
    BY <2>2, <2>3, <2>4 DEF ServerMove
<1>2. S!Smooth
  BY DEF S!Smooth
<1>3. S!Answers /\ S!Onwards /\ UNCHANGED bearer
  BY <1>1, <1>2, ServerAssumptions, S!SmoothSteps
<1>4. CASE S!Quiet
  BY <1>1, <1>3, <1>4 DEF S!Quiet, Replied
<1>5. ASSUME NEW x \in S!Streams, NEW flag \in {"DATA", "FIN", "RST"}, NEW b \in Bearers,
             S!Replies(x, flag, b)
      PROVE  \E t \in Ids : Sends(t, flag, b)
  <2>1. PICK t \in Ids : x = Syn(t)
    BY StreamsAre
  <2> DEFINE r == [flag |-> flag, via |-> b]
  <2>2. /\ replies \in [S!Streams -> Seq([flag : {"DATA", "FIN", "RST"}, via : Bearers])]
        /\ replies' = [replies EXCEPT ![x] = Append(@, r)]
    BY <1>5 DEF S!HandsInv, S!TypeOK, S!Replies
  <2>3. r \in [flag : {"DATA", "FIN", "RST"}, via : Bearers] /\ r.flag = flag /\ r.via = b
    OBVIOUS
  <2> HIDE DEF r
  <2>4. /\ replies'[x] = Append(replies[x], r) /\ replies[x] \in Seq({r} \cup [flag : {"DATA", "FIN", "RST"}, via : Bearers])
        /\ \A y \in S!Streams : y # x => replies'[y] = replies[y]
    BY <2>2, <2>3
  <2>5. replies'[x] # replies[x] /\ replies'[x][Len(replies'[x])] = r
    BY <2>3, <2>4, AppendIs
  <2>6. PICK s \in Ids :
          LET q == replies'[Syn(s)][Len(replies'[Syn(s)])]
          IN  /\ replies'[Syn(s)] # replies[Syn(s)]
              /\ down' = [down EXCEPT ![q.via] = Append(@, AnswerOf(s, q.flag))]
    BY <1>1, <2>5 DEF Replied
  <2>7. Syn(s) = x
    BY <2>4, <2>6, StreamsAre
  <2>8. s = t
    BY <2>1, <2>7, FrameFields
  <2> QED
    BY <1>5, <2>1, <2>3, <2>5, <2>6, <2>7, <2>8 DEF Sends
<1> QED
  BY <1>1, <1>3, <1>4, <1>5 DEF S!Answers

LEMMA AnswerOfTypes ==
  ASSUME BaseInv, NEW t \in Ids, NEW flag \in {"DATA", "FIN", "RST"},
         flag = "DATA" => resp[Syn(t)] = "DATA"
  PROVE  /\ AnswerOf(t, flag) \in Client!Answers
         /\ AnswerOf(t, flag).stream = t
         /\ AnswerOf(t, flag).kind = CASE flag = "DATA" -> "data" [] flag = "FIN" -> "fin"
                                       [] flag = "RST" -> "rst"
         /\ flag = "DATA" => AnswerOf(t, flag).n = read[Syn(t)] - 1
<1>1. flag = "DATA" => read[Syn(t)] - 1 \in 0..Responses
  BY ServerAssumptions, StreamsAre, S!GivenTypes DEF BaseInv, RequestInv
<1>2. 0 \in 0..Responses
  BY OverlayBounds
<1> QED
  BY <1>1, <1>2 DEF AnswerOf, Client!Answers, Client!Ends

LEMMA SendsFacts ==
  ASSUME BaseInv, NEW t \in Ids, NEW flag \in {"DATA", "FIN", "RST"}, NEW b \in Bearers,
         Sends(t, flag, b)
  PROVE  /\ AnswerOf(t, flag) \in Client!Answers
         /\ AnswerOf(t, flag).stream = t
         /\ IsData(AnswerOf(t, flag), t) <=> flag = "DATA"
         /\ AnswerOf(t, flag).kind = "fin" <=> flag = "FIN"
         /\ AnswerOf(t, flag).kind = "rst" <=> flag = "RST"
         /\ flag = "DATA" => AnswerOf(t, flag).n = S!Given(Syn(t))
<1>1. flag = "DATA" => S!Given(Syn(t)) = read[Syn(t)] - 1 /\ read[Syn(t)] \in Nat
  BY StreamsAre, OverlayBounds DEF Sends, S!Replies, BaseInv, RequestInv, S!HandsInv, S!TypeOK
<1>2. flag = "DATA" => resp[Syn(t)] = "DATA"
  BY <1>1 DEF S!Given
<1> QED
  BY <1>1, <1>2, AnswerOfTypes DEF IsData

LEMMA InitTypes == Init => AnswerTypes /\ FreshInv /\ S!AllLive
<1> SUFFICES ASSUME Init PROVE AnswerTypes /\ FreshInv /\ S!AllLive
  OBVIOUS
<1>1. AnswerTypes
  BY DEF Init, Client!Init, AnswerTypes
<1>2. FreshInv
  BY DEF Init, Client!Init, Server!Initially, FreshInv
<1>3. S!AllLive
  BY DEF Init, Server!Initially, S!AllLive
<1> QED
  BY <1>1, <1>2, <1>3

LEMMA ReturnFacts ==
  ASSUME AnswerTypes, NEW b \in Bearers, Return(b)
  PROVE  LET a == Head(down[b])
         IN  /\ down[b] # <<>> /\ a \in Client!Answers
             /\ inboundCh' = Append(inboundCh, a)
             /\ reply' = IF a.kind = "data" THEN [reply EXCEPT ![a.stream].n = @ + 1]
                                             ELSE [reply EXCEPT ![a.stream].end = a.kind]
             /\ down' = [down EXCEPT ![b] = Tail(@)]
             /\ UNCHANGED <<queue, got, in, done, registry, handler, via, replies,
                            bearer, closing, resp, read>>
<1>1. down[b] # <<>> /\ down[b] \in Seq(Client!Answers)
  BY DEF Return, AnswerTypes
<1>2. Head(down[b]) \in Client!Answers
  BY <1>1, TailIs
<1> QED
  BY <1>1, <1>2 DEF Return, server, Client!Receive, Client!table, Client!streams,
                    Client!outbound, Client!inbound

LEMMA NextTypes == BaseInv /\ [Next]_vars => AnswerTypes'
<1> SUFFICES ASSUME BaseInv, [Next]_vars PROVE AnswerTypes'
  OBVIOUS
<1> USE DEF BaseInv
<1>i. /\ \A s \in Ids : \A to \in {"select", "closing", "exited"} :
           [in EXCEPT ![s] = to] \in [Ids -> {"idle", "select", "closing", "exited"}]
  BY DEF AnswerTypes
<1>1. ASSUME UNCHANGED <<down, inboundCh, queue, got, reply>>,
             \/ in' = in
             \/ \E s \in Ids, to \in {"select", "closing", "exited"} : in' = [in EXCEPT ![s] = to]
      PROVE  AnswerTypes'
  BY <1>i, <1>1 DEF AnswerTypes
<1>2. ASSUME NEW s \in Ids, RunReturns(s) \/ OutStep(s) \/ AppEnds(s)
      PROVE  AnswerTypes'
  <2>1. in' = in
    BY <1>2 DEF RunReturns, OutStep, AppEnds, ClientStep, Client!RunReturns, Client!OutStep,
                Client!SendSYN, Client!ReadChunk, Client!SendChunk, Client!ReadEnd,
                Client!SendFIN, Client!OutExit, Client!AppEnds, Client!inbound, Client!streams
  <2> QED
    BY <1>1, <1>2, <2>1, ClientSteps DEF ClientAside, DownAside
<1>3. ASSUME NEW s \in Ids, NewStream(s)
      PROVE  AnswerTypes'
  BY <1>1, <1>3, ClientSteps DEF DownAside
<1>4. ASSUME NEW s \in Ids, InStep(s)
      PROVE  AnswerTypes'
  <2>1. DownAside /\ UNCHANGED inboundCh
    BY <1>4, ClientSteps
  <2>2. CASE Client!SeeDone(s) \/ Client!InExit(s)
    <3>1. UNCHANGED <<queue, got>>
          /\ \E to \in {"closing", "exited"} : in' = [in EXCEPT ![s] = to]
      BY <2>2 DEF Client!SeeDone, Client!InExit
    <3> QED
      BY <1>1, <2>1, <3>1 DEF DownAside
  <2>3. CASE Client!WriteLocal(s) \/ Client!WriteFail(s)
    <3>1. /\ queue[s] # <<>> /\ queue' = [queue EXCEPT ![s] = Tail(@)]
          /\ got' = got \/ got' = [got EXCEPT ![s] = Append(@, Head(queue[s]))]
          /\ in' = in \/ in' = [in EXCEPT ![s] = "closing"]
      BY <2>3 DEF Client!WriteLocal, Client!WriteFail
    <3>2. queue[s] \in Seq(Nat) /\ got[s] \in Seq(Nat)
      BY DEF AnswerTypes
    <3>3. Tail(queue[s]) \in Seq(Nat) /\ Append(got[s], Head(queue[s])) \in Seq(Nat)
      BY <3>1, <3>2, TailIs, AppendIs
    <3>4. queue' \in [Ids -> Seq(Nat)] /\ got' \in [Ids -> Seq(Nat)]
      BY <3>1, <3>3 DEF AnswerTypes
    <3>5. in' \in [Ids -> {"idle", "select", "closing", "exited"}]
      BY <1>i, <3>1 DEF AnswerTypes
    <3> QED
      BY <2>1, <3>4, <3>5 DEF DownAside, AnswerTypes
  <2> QED
    BY <1>4, <2>2, <2>3 DEF InStep, ClientStep, Client!InStep
<1>5. CASE DemuxStep
  <2>1. DownAside /\ UNCHANGED <<in, got>>
    BY <1>5, ClientSteps DEF DemuxStep, Client!RouteData, Client!RouteEnd, Client!DemuxClose,
                             Client!inbound, Client!streams
  <2>2. CASE ClientAside
    BY <1>1, <2>1, <2>2 DEF ClientAside, DownAside
  <2>3. CASE Client!RouteData \/ Client!RouteEnd
    <3> DEFINE a == Head(inboundCh)
    <3>1. /\ inboundCh # <<>> /\ inboundCh' = Tail(inboundCh)
          /\ \/ UNCHANGED queue
             \/ queue' = [queue EXCEPT ![a.stream] = Append(@, a.n)]
      BY <2>3 DEF Client!RouteData, Client!RouteEnd, Client!Receives, Client!DeliverInbound,
                  Client!streams
    <3>2. a \in Client!Answers /\ inboundCh' \in Seq(Client!Answers)
      BY <3>1, TailIs DEF AnswerTypes
    <3>3. a.stream \in Ids /\ a.n \in Nat /\ queue[a.stream] \in Seq(Nat)
      BY <3>2, AnswerFields DEF AnswerTypes
    <3> HIDE DEF a
    <3>4. Append(queue[a.stream], a.n) \in Seq(Nat)
      BY <3>3, AppendIs
    <3>5. queue' \in [Ids -> Seq(Nat)]
      BY <3>1, <3>4 DEF AnswerTypes
    <3> QED
      BY <2>1, <3>2, <3>5 DEF DownAside, AnswerTypes
  <2> QED
    BY <1>5, <2>2, <2>3, ClientSteps
<1>6. ASSUME NEW b \in Bearers, Arrive(b)
      PROVE  AnswerTypes'
  BY <1>1, <1>6 DEF Arrive, client
<1>7. ASSUME NEW b \in Bearers, Return(b)
      PROVE  AnswerTypes'
  <2> DEFINE a == Head(down[b])
  <2>1. /\ down[b] # <<>> /\ a \in Client!Answers
        /\ inboundCh' = Append(inboundCh, a)
        /\ reply' = IF a.kind = "data" THEN [reply EXCEPT ![a.stream].n = @ + 1]
                                        ELSE [reply EXCEPT ![a.stream].end = a.kind]
        /\ down' = [down EXCEPT ![b] = Tail(@)]
        /\ UNCHANGED <<queue, got, in>>
    BY <1>7, ReturnFacts
  <2>2. Tail(down[b]) \in Seq(Client!Answers) /\ inboundCh' \in Seq(Client!Answers)
    BY <2>1, TailIs, AppendIs DEF AnswerTypes
  <2>3. down' \in [Bearers -> Seq(Client!Answers)]
    BY <2>1, <2>2 DEF AnswerTypes
  <2>4. a.stream \in Ids /\ a.kind \in {"data", "fin", "rst"}
    BY <2>1, AnswerFields
  <2> HIDE DEF a
  <2>5. reply' \in [Ids -> [n : Nat, end : {"none", "fin", "rst"}]]
    <3>1. \A s \in Ids : reply[s].n + 1 \in Nat
      BY DEF AnswerTypes
    <3> QED
      BY <2>1, <2>4, <3>1 DEF AnswerTypes
  <2> QED
    BY <2>1, <2>2, <2>3, <2>5 DEF AnswerTypes
<1>8. CASE ServerMove
  <2>1. UNCHANGED <<inboundCh, queue, got, reply, in>>
    BY <1>8, ServerAnswers DEF client
  <2>2. ASSUME NEW t \in Ids, NEW flag \in {"DATA", "FIN", "RST"}, NEW b \in Bearers,
               Sends(t, flag, b)
        PROVE  AnswerTypes'
    <3>1. /\ AnswerOf(t, flag) \in Client!Answers
          /\ down' = [down EXCEPT ![b] = Append(@, AnswerOf(t, flag))]
      BY <2>2, SendsFacts DEF Sends
    <3>2. Append(down[b], AnswerOf(t, flag)) \in Seq(Client!Answers)
      BY <3>1, AppendIs DEF AnswerTypes
    <3>3. down' \in [Bearers -> Seq(Client!Answers)]
      BY <3>1, <3>2 DEF AnswerTypes
    <3> QED
      BY <2>1, <3>3 DEF AnswerTypes
  <2> QED
    BY <1>1, <1>8, <2>1, <2>2, ServerAnswers
<1>9. CASE UNCHANGED vars
  BY <1>1, <1>9 DEF vars, client, links
<1> QED
  BY <1>2, <1>3, <1>4, <1>5, <1>6, <1>7, <1>8, <1>9 DEF Next, ServerMove

LEMMA NextFresh == BaseInv /\ [Next]_vars => FreshInv'
<1> SUFFICES ASSUME BaseInv, [Next]_vars PROVE FreshInv'
  OBVIOUS
<1> USE DEF BaseInv
<1>1. ASSUME UNCHANGED <<handler, out, in, via, up>>
      PROVE  FreshInv'
  BY <1>1 DEF FreshInv
<1>2. ASSUME NEW s \in Ids, handler[s] # "handshake" \/ handler'[s] # "handshake",
             handler' \in [Ids -> {"handshake", "running", "gone"}],
             via' = via,
             \A t \in Ids : t # s => /\ handler'[t] = handler[t] /\ out'[t] = out[t]
                                      /\ in'[t] = in[t],
             handler[s] # "handshake" => handler'[s] # "handshake",
             \/ up' = up
             \/ \E b \in Bearers, f \in Frames : /\ f.id = s
                                               /\ up' = [up EXCEPT ![b] = Append(@, f)]
      PROVE  FreshInv'
  <2> SUFFICES ASSUME NEW t \in Ids, handler'[t] = "handshake"
               PROVE  /\ out'[t] = "idle" /\ in'[t] = "idle"
                      /\ \A f \in Frames : f.id = t => via'[f] = None
                      /\ \A b \in Bearers : \A i \in 1..Len(up'[b]) : up'[b][i].id # t
    BY <1>2 DEF FreshInv
  <2>1. t # s /\ handler[t] = "handshake"
    BY <1>2
  <2>2. /\ out'[t] = "idle" /\ in'[t] = "idle"
        /\ \A f \in Frames : f.id = t => via'[f] = None
        /\ \A b \in Bearers : \A i \in 1..Len(up[b]) : up[b][i].id # t
    BY <1>2, <2>1 DEF FreshInv
  <2>3. ASSUME NEW b \in Bearers, NEW f \in Frames, f.id = s,
               up' = [up EXCEPT ![b] = Append(@, f)],
               NEW c \in Bearers, NEW i \in 1..Len(up'[c])
        PROVE  up'[c][i].id # t
    <3>1. up \in [Bearers -> Seq(Frames)]
      BY DEF RequestInv, ClientTypes
    <3>2. CASE c = b
      <4>1. up'[c] = Append(up[b], f) /\ up[b] \in Seq(Frames)
        BY <2>3, <3>1, <3>2
      <4>2. \/ i \in 1..Len(up[b]) /\ up'[c][i] = up[b][i]
            \/ up'[c][i] = f
        BY <2>3, <4>1, AppendIs
      <4> QED
        BY <2>1, <2>2, <2>3, <4>2
    <3>3. CASE c # b
      BY <2>2, <2>3, <3>1, <3>3
    <3> QED
      BY <3>2, <3>3
  <2> QED
    BY <1>2, <2>2, <2>3
<1>h. handler \in [Ids -> {"handshake", "running", "gone"}]
  BY DEF FreshInv
<1>t. /\ out \in [Ids -> {"idle", "syn", "read", "chunk", "fin", "closing", "exited"}]
      /\ in \in [Ids -> {"idle", "select", "closing", "exited"}]
  BY DEF RequestInv, ClientTypes, AnswerTypes
<1>3. ASSUME NEW s \in Ids, NewStream(s)
      PROVE  FreshInv'
  <2>1. /\ handler' = [handler EXCEPT ![s] = "running"]
        /\ out' = [out EXCEPT ![s] = "syn"] /\ in' = [in EXCEPT ![s] = "select"]
    BY <1>3 DEF NewStream, ClientStep, Client!NewStream
  <2>2. via' = via /\ up' = up
    BY <1>3, OtherSteps
  <2> QED
    BY <1>2, <1>h, <1>t, <2>1, <2>2
<1>4. ASSUME NEW s \in Ids, RunReturns(s)
      PROVE  FreshInv'
  <2>1. /\ handler' = [handler EXCEPT ![s] = "gone"] /\ UNCHANGED in
    BY <1>4 DEF RunReturns, ClientStep, Client!RunReturns, Client!inbound
  <2>2. UNCHANGED <<via, up, out>>
    BY <1>4, OtherSteps
  <2> QED
    BY <1>2, <1>h, <2>1, <2>2
<1>5. ASSUME NEW s \in Ids, OutStep(s)
      PROVE  FreshInv'
  <2>1. /\ UNCHANGED <<handler, in>> /\ out[s] # "idle"
        /\ \E to \in {"read", "chunk", "fin", "closing", "exited"} : out' = [out EXCEPT ![s] = to]
    BY <1>5 DEF OutStep, ClientStep, Client!OutStep, Client!SendSYN, Client!ReadChunk,
                Client!SendChunk, Client!ReadEnd, Client!SendFIN, Client!OutExit,
                Client!Dispatched, Client!inbound, Client!table
  <2>2. handler[s] # "handshake"
    BY <2>1 DEF FreshInv
  <2>3. via' = via
    BY <1>5, OtherSteps
  <2>4. \/ up' = up
        \/ \E b \in Bearers, f \in Frames : f.id = s /\ up' = [up EXCEPT ![b] = Append(@, f)]
    BY <1>5, OutSteps DEF RequestInv, Reads, Dispatches
  <2> QED
    BY <1>2, <1>h, <1>t, <2>1, <2>2, <2>3, <2>4
<1>6. ASSUME NEW s \in Ids, InStep(s)
      PROVE  FreshInv'
  <2>1. /\ handler' = handler /\ in[s] # "idle"
        /\ in' = in \/ \E to \in {"closing", "exited"} : in' = [in EXCEPT ![s] = to]
    BY <1>6 DEF InStep, ClientStep, Client!InStep, Client!WriteLocal, Client!WriteFail,
                Client!SeeDone, Client!InExit, Client!table
  <2>2. handler[s] # "handshake"
    BY <2>1 DEF FreshInv
  <2>3. UNCHANGED <<via, up, out>>
    BY <1>6, OtherSteps
  <2> QED
    BY <1>2, <1>h, <1>t, <2>1, <2>2, <2>3
<1>7. ASSUME NEW s \in Ids, AppEnds(s)
      PROVE  FreshInv'
  <2>1. UNCHANGED <<handler, in>>
    BY <1>7 DEF AppEnds, ClientStep, Client!AppEnds, Client!table, Client!streams, Client!inbound
  <2> QED
    BY <1>1, <1>7, <2>1, OtherSteps
<1>8. CASE DemuxStep
  <2>1. UNCHANGED <<handler, in>>
    BY <1>8 DEF DemuxStep, Client!RouteData, Client!RouteEnd, Client!DemuxClose,
                Client!table, Client!streams, Client!inbound
  <2> QED
    BY <1>1, <1>8, <2>1, OtherSteps
<1>9. ASSUME NEW b \in Bearers, Return(b)
      PROVE  FreshInv'
  BY <1>1, <1>9, ReturnFacts, OtherSteps
<1>10. ASSUME NEW b \in Bearers, Arrive(b)
       PROVE  FreshInv'
  <2>1. /\ UNCHANGED <<handler, in, out>> /\ up[b] # <<>>
        /\ via' = [via EXCEPT ![Head(up[b])] = b] /\ up' = [up EXCEPT ![b] = Tail(@)]
    BY <1>10 DEF Arrive, client, Server!ReadFrame
  <2>2. up \in [Bearers -> Seq(Frames)]
    BY DEF RequestInv, ClientTypes
  <2>3. /\ Head(up[b]) = up[b][1] /\ 1 \in 1..Len(up[b])
        /\ \A i \in 1..Len(Tail(up[b])) : i + 1 \in 1..Len(up[b]) /\ Tail(up[b])[i] = up[b][i + 1]
    BY <2>1, <2>2, TailIs
  <2>4. \A c \in Bearers : \A i \in 1..Len(up'[c]) :
          \E j \in 1..Len(up[c]) : up'[c][i] = up[c][j]
    <3> SUFFICES ASSUME NEW c \in Bearers, NEW i \in 1..Len(up'[c])
                 PROVE  \E j \in 1..Len(up[c]) : up'[c][i] = up[c][j]
      OBVIOUS
    <3>1. CASE c = b
      BY <2>1, <2>2, <2>3, <3>1
    <3>2. CASE c # b
      BY <2>1, <2>2, <3>2
    <3> QED
      BY <3>1, <3>2
  <2>5. ASSUME NEW s \in Ids, handler[s] = "handshake", NEW f \in Frames, f.id = s
        PROVE  via'[f] = None
    <3>1. f # Head(up[b])
      BY <2>3, <2>5 DEF FreshInv
    <3>2. via[f] = None
      BY <2>5 DEF FreshInv
    <3> QED
      BY <2>1, <3>1, <3>2
  <2> QED
    BY <2>1, <2>4, <2>5 DEF FreshInv
<1>11. CASE ServerMove
  BY <1>1, <1>11, ServerAnswers DEF client
<1>12. CASE UNCHANGED vars
  BY <1>1, <1>12 DEF vars, client, server, links
<1> QED
  BY <1>3, <1>4, <1>5, <1>6, <1>7, <1>8, <1>9, <1>10, <1>11, <1>12 DEF Next, ServerMove

LEMMA InitBaseInv == Init => BaseInv
<1> SUFFICES ASSUME Init PROVE BaseInv
  OBVIOUS
<1>1. S!StickyInv /\ S!ReadInv
  BY StartsAs, ServerAssumptions, S!StartStickyInv, S!StartReadInv
<1> QED
  BY <1>1, InitRequestInv, InitTypes DEF BaseInv

LEMMA NextBaseInv == BaseInv /\ [Next]_vars => BaseInv'
<1> SUFFICES ASSUME BaseInv, [Next]_vars PROVE BaseInv'
  OBVIOUS
<1>1. RequestInv'
  BY NextRequestInv DEF BaseInv
<1>2. [S!Next]_(S!vars)
  BY ServerMoves DEF BaseInv, RequestInv, ClientTypes
<1>3. S!StickyInv' /\ S!ReadInv'
  BY <1>2, ServerAssumptions, S!StepStickyInv, S!NextReadInv DEF BaseInv, RequestInv
<1>4. bearer' = bearer
  <2>1. AnswerTypes
    BY DEF BaseInv
  <2>2. \A b \in Bearers : Return(b) => bearer' = bearer
    BY <2>1, ReturnFacts
  <2>3. CASE UNCHANGED vars
    BY <2>3 DEF vars, server
  <2> QED
    BY <2>1, <2>2, <2>3, ClientSteps, ServerAnswers DEF Next, ServerMove, DownAside
<1>5. S!AllLive'
  BY <1>4 DEF BaseInv, S!AllLive
<1> QED
  BY <1>1, <1>3, <1>5, NextTypes, NextFresh DEF BaseInv

-----------------------------------------------------------------------------
(* The answers in flight of a stream that the aggregator has not closed *)

Open(s) == closing[Syn(s)] = "open"
Given(s) == S!Given(Syn(s))
Over(s) == S!Over(Syn(s))

\* They keep to the bearer of the SYN, which carries what the client has yet to
\* read, and a FIN comes after all data and when nothing more is to come.
DownInv(s) ==
  LET own == via[Syn(s)]
      n == reply[s].n
  IN  /\ n <= Given(s)
      /\ reply[s].end = "fin" => Over(s) /\ n = Given(s)
      /\ own # None => Carries(down[own], s, n, Given(s))
      /\ \A b \in Bearers : \A i \in 1..Len(down[b]) :
           down[b][i].stream = s /\ down[b][i].kind # "rst" => b = own
      /\ \A b \in Bearers : \A i \in 1..Len(down[b]) :
           down[b][i].stream = s /\ down[b][i].kind = "fin" =>
             Over(s) /\ \A j \in 1..Len(down[b]) : i < j => ~IsData(down[b][j], s)

LEMMA GivenIs ==
  ASSUME BaseInv, NEW s \in Ids
  PROVE  /\ Given(s) \in Nat /\ Given(s) <= Responses /\ Responses \in Nat
         /\ via[Syn(s)] = None => Given(s) = 0
         /\ Syn(s) \in Frames /\ Syn(s) \in S!Streams
         /\ via \in [Frames -> Bearers \cup {None}]
<1>1. Syn(s) \in S!Streams /\ Syn(s) \in Frames
  BY StreamsAre DEF Frames
<1>2. Given(s) \in 0..Responses /\ (via[Syn(s)] = None => Given(s) = 0)
  BY <1>1, ServerAssumptions, S!GivenTypes DEF Given, BaseInv, RequestInv
<1>3. via \in [Frames -> Bearers \cup {None}]
  BY DEF BaseInv, RequestInv, S!HandsInv, S!TypeOK
<1> QED
  BY <1>1, <1>2, <1>3, OverlayBounds

\* A step after which as many answers were given and are in flight as before.
LEMMA DownStays ==
  ASSUME NEW s \in Ids, DownInv(s), UNCHANGED <<down, reply>>,
         via'[Syn(s)] = via[Syn(s)], Given(s)' = Given(s), Over(s) => Over(s)'
  PROVE  DownInv(s)'
<1>1. Syn(s)' = Syn(s)
  OBVIOUS
<1> QED
  BY <1>1 DEF DownInv, Carries, IsData

\* An answer is sent.
LEMMA DownAppend ==
  ASSUME BaseInv, NEW s \in Ids, DownInv(s),
         NEW b \in Bearers, NEW a \in Client!Answers,
         down' = [down EXCEPT ![b] = Append(@, a)], UNCHANGED <<reply, via>>,
         Over(s) => Over(s)',
         a.stream = s /\ a.kind # "rst" => b = via[Syn(s)],
         IsData(a, s) => ~Over(s) /\ a.n = Given(s) /\ Given(s)' = Given(s) + 1,
         ~IsData(a, s) => Given(s)' = Given(s),
         a.stream = s /\ a.kind = "fin" => Over(s)'
  PROVE  DownInv(s)'
<1> DEFINE own == via[Syn(s)]
           n == reply[s].n
           g == Given(s)
<1>s. Syn(s)' = Syn(s)
  OBVIOUS
<1>1. /\ down \in [Bearers -> Seq(Client!Answers)] /\ n \in Nat /\ g \in Nat
      /\ own \in Bearers \cup {None}
  BY GivenIs DEF BaseInv, AnswerTypes
<1>2. /\ down'[b] = Append(down[b], a) /\ down[b] \in Seq(Client!Answers)
      /\ \A c \in Bearers : c # b => down'[c] = down[c]
  BY <1>1
<1>3. /\ Len(down[b]) \in Nat /\ Len(down'[b]) = Len(down[b]) + 1
      /\ down'[b][Len(down[b]) + 1] = a
      /\ \A i \in 1..Len(down[b]) : down'[b][i] = down[b][i]
      /\ \A i \in 1..Len(down'[b]) : i \in 1..Len(down[b]) \/ i = Len(down[b]) + 1
  BY <1>2, AppendIs
<1>4. /\ n <= g /\ (reply[s].end = "fin" => Over(s) /\ n = g)
      /\ own # None => Carries(down[own], s, n, g)
      /\ \A c \in Bearers : \A i \in 1..Len(down[c]) :
           down[c][i].stream = s /\ down[c][i].kind # "rst" => c = own
      /\ \A c \in Bearers : \A i \in 1..Len(down[c]) :
           down[c][i].stream = s /\ down[c][i].kind = "fin" =>
             Over(s) /\ \A j \in 1..Len(down[c]) : i < j => ~IsData(down[c][j], s)
  BY DEF DownInv
<1>5. /\ g' \in Nat /\ n' = n /\ own' = own /\ n <= g'
      /\ (IsData(a, s) => g' = g + 1) /\ (~IsData(a, s) => g' = g)
  BY <1>1, <1>4
<1>6. reply'[s].end = "fin" => Over(s)' /\ n = g'
  BY <1>4, <1>5
<1>7. ASSUME own # None
      PROVE  Carries(down'[own], s, n, g')
  <2>1. CASE own # b
    <3>1. ~IsData(a, s)
      BY <2>1 DEF IsData
    <3> QED
      BY <1>1, <1>2, <1>4, <1>5, <1>7, <2>1, <3>1
  <2>2. CASE own = b
    <3>1. Carries(down[b], s, n, g)
      BY <1>4, <1>7, <2>2
    <3>2. CASE IsData(a, s)
      BY <1>1, <1>2, <1>5, <2>2, <3>1, <3>2, CarriesData
    <3>3. CASE ~IsData(a, s)
      BY <1>1, <1>2, <1>5, <2>2, <3>1, <3>3, CarriesOther
    <3> QED
      BY <3>2, <3>3
  <2> QED
    BY <2>1, <2>2
<1>8. ASSUME NEW c \in Bearers, NEW i \in 1..Len(down'[c]),
             down'[c][i].stream = s, down'[c][i].kind # "rst"
      PROVE  c = own
  <2>1. CASE c # b
    BY <1>2, <1>4, <1>8, <2>1
  <2>2. CASE c = b
    BY <1>3, <1>4, <1>8, <2>2
  <2> QED
    BY <2>1, <2>2
<1>9. ASSUME NEW c \in Bearers, NEW i \in 1..Len(down'[c]),
             down'[c][i].stream = s, down'[c][i].kind = "fin"
      PROVE  Over(s)' /\ \A j \in 1..Len(down'[c]) : i < j => ~IsData(down'[c][j], s)
  <2>1. CASE c # b
    BY <1>2, <1>4, <1>9, <2>1
  <2>2. CASE c = b /\ i \in 1..Len(down[b])
    <3>1. /\ down[b][i].stream = s /\ down[b][i].kind = "fin"
      BY <1>3, <1>9, <2>2
    <3>2. Over(s) /\ \A j \in 1..Len(down[b]) : i < j => ~IsData(down[b][j], s)
      BY <1>4, <2>2, <3>1
    <3>3. ~IsData(a, s)
      BY <3>2
    <3> QED
      BY <1>3, <2>2, <3>2, <3>3
  <2>3. CASE c = b /\ i = Len(down[b]) + 1
    <3>1. Over(s)'
      BY <1>3, <1>9, <2>3
    <3>2. \A j \in 1..Len(down'[b]) : ~(i < j)
      BY <1>3, <2>3
    <3> QED
      BY <2>3, <3>1, <3>2
  <2> QED
    BY <1>3, <2>1, <2>2, <2>3
<1> HIDE DEF own, n, g
<1>10. /\ n' <= g' /\ (reply'[s].end = "fin" => Over(s)' /\ n' = g')
       /\ own' # None => Carries(down'[own'], s, n', g')
       /\ \A c \in Bearers : \A i \in 1..Len(down'[c]) :
            down'[c][i].stream = s /\ down'[c][i].kind # "rst" => c = own'
       /\ \A c \in Bearers : \A i \in 1..Len(down'[c]) :
            down'[c][i].stream = s /\ down'[c][i].kind = "fin" =>
              Over(s)' /\ \A j \in 1..Len(down'[c]) : i < j => ~IsData(down'[c][j], s)
  BY <1>5, <1>6, <1>7, <1>8, <1>9
<1> QED
  BY <1>s, <1>10 DEF DownInv, Carries, IsData, own, n, g

\* The client reads an answer.
LEMMA DownReturn ==
  ASSUME BaseInv, NEW s \in Ids, DownInv(s), NEW b \in Bearers, Return(b)
  PROVE  /\ DownInv(s)'
         /\ IsData(Head(down[b]), s) => /\ Head(down[b]).n = reply[s].n
                                        /\ reply'[s].n = reply[s].n + 1
         /\ ~IsData(Head(down[b]), s) => reply'[s].n = reply[s].n
<1> DEFINE own == via[Syn(s)]
           n == reply[s].n
           g == Given(s)
           q == down[b]
           a == Head(q)
<1>t. AnswerTypes
  BY DEF BaseInv
<1>1. /\ q # <<>> /\ a \in Client!Answers
      /\ reply' = IF a.kind = "data" THEN [reply EXCEPT ![a.stream].n = @ + 1]
                                      ELSE [reply EXCEPT ![a.stream].end = a.kind]
      /\ down' = [down EXCEPT ![b] = Tail(@)]
      /\ UNCHANGED <<via, resp, read>>
  BY <1>t, ReturnFacts
<1>2. Syn(s)' = Syn(s) /\ own' = own /\ g' = g /\ (Over(s)' <=> Over(s))
  BY <1>1 DEF Given, Over, S!Given, S!Over
<1>3. /\ down \in [Bearers -> Seq(Client!Answers)] /\ n \in Nat /\ g \in Nat
      /\ reply \in [Ids -> [n : Nat, end : {"none", "fin", "rst"}]]
      /\ own \in Bearers \cup {None} /\ q \in Seq(Client!Answers) /\ None \notin Bearers
  BY GivenIs, OverlayNone DEF BaseInv, AnswerTypes
<1>4. /\ a = q[1] /\ 1 \in 1..Len(q) /\ Len(q) \in Nat
      /\ \A i \in 1..Len(Tail(q)) : i + 1 \in 1..Len(q) /\ Tail(q)[i] = q[i + 1]
      /\ \A i \in 1..Len(q) : i # 1 => i - 1 \in 1..Len(Tail(q)) /\ Tail(q)[i - 1] = q[i]
      /\ a.stream \in Ids /\ a.kind \in {"data", "fin", "rst"}
  BY <1>1, <1>3, TailIs, AnswerFields
<1>5. /\ n <= g /\ (reply[s].end = "fin" => Over(s) /\ n = g)
      /\ own # None => Carries(down[own], s, n, g)
      /\ \A c \in Bearers : \A i \in 1..Len(down[c]) :
           down[c][i].stream = s /\ down[c][i].kind # "rst" => c = own
      /\ \A c \in Bearers : \A i \in 1..Len(down[c]) :
           down[c][i].stream = s /\ down[c][i].kind = "fin" =>
             Over(s) /\ \A j \in 1..Len(down[c]) : i < j => ~IsData(down[c][j], s)
  BY DEF DownInv
<1>6. /\ down'[b] = Tail(q) /\ \A c \in Bearers : c # b => down'[c] = down[c]
      /\ \A c \in Bearers : \A i \in 1..Len(down'[c]) :
           \E j \in 1..Len(down[c]) : down'[c][i] = down[c][j]
  <2>1. down'[b] = Tail(q) /\ \A c \in Bearers : c # b => down'[c] = down[c]
    BY <1>1, <1>3
  <2>2. ASSUME NEW c \in Bearers, NEW i \in 1..Len(down'[c])
        PROVE  \E j \in 1..Len(down[c]) : down'[c][i] = down[c][j]
    <3>1. CASE c # b
      BY <2>1, <2>2, <3>1
    <3>2. CASE c = b
      <4>1. i \in 1..Len(Tail(q)) /\ down'[c][i] = Tail(q)[i]
        BY <2>1, <2>2, <3>2
      <4> QED
        BY <1>4, <3>2, <4>1
    <3> QED
      BY <3>1, <3>2
  <2> QED
    BY <2>1, <2>2
<1>7. /\ IsData(a, s) => reply'[s].n = n + 1 /\ reply'[s].end = reply[s].end
      /\ ~IsData(a, s) => reply'[s].n = n
      /\ a.stream = s /\ a.kind # "data" => reply'[s].end = a.kind
      /\ a.stream # s => reply'[s] = reply[s]
  <2>1. CASE a.kind = "data"
    BY <1>1, <1>3, <1>4, <2>1 DEF IsData
  <2>2. CASE a.kind # "data"
    BY <1>1, <1>3, <1>4, <2>2 DEF IsData
  <2> QED
    BY <2>1, <2>2
<1>8. IsData(a, s) => own = b /\ a.n = n /\ n < g /\ Carries(Tail(q), s, n + 1, g)
  <2> SUFFICES ASSUME IsData(a, s)
               PROVE  own = b /\ a.n = n /\ n < g /\ Carries(Tail(q), s, n + 1, g)
    OBVIOUS
  <2>1. own = b
    BY <1>4, <1>5 DEF IsData
  <2>2. Carries(q, s, n, g)
    BY <1>3, <1>5, <2>1
  <2> QED
    BY <1>1, <1>3, <2>1, <2>2, CarriesTail
<1>9. own # None => Carries(down'[own], s, reply'[s].n, g)
  <2> SUFFICES ASSUME own # None PROVE Carries(down'[own], s, reply'[s].n, g)
    OBVIOUS
  <2>1. CASE own # b
    BY <1>3, <1>5, <1>6, <1>7, <1>8, <2>1
  <2>2. CASE own = b /\ ~IsData(a, s)
    <3>1. Carries(q, s, n, g)
      BY <1>5, <2>2
    <3>2. Carries(Tail(q), s, n, g)
      BY <1>1, <1>3, <2>2, <3>1, CarriesTail
    <3> QED
      BY <1>6, <1>7, <2>2, <3>2
  <2>3. CASE own = b /\ IsData(a, s)
    BY <1>6, <1>7, <1>8, <2>3
  <2> QED
    BY <2>1, <2>2, <2>3
<1>10. reply'[s].n <= g
  BY <1>3, <1>5, <1>7, <1>8
<1>11. ASSUME reply'[s].end = "fin"
       PROVE  Over(s) /\ reply'[s].n = g
  <2>1. CASE a.stream = s /\ a.kind = "fin"
    <3>1. own = b /\ Over(s) /\ \A j \in 1..Len(q) : 1 < j => ~IsData(q[j], s)
      BY <1>4, <1>5, <2>1
    <3>2. \A j \in 1..Len(q) : ~IsData(q[j], s)
      BY <1>4, <2>1, <3>1 DEF IsData
    <3>3. Carries(q, s, n, g)
      BY <1>3, <1>5, <3>1
    <3>4. ~(n < g)
      BY <1>3, <3>2, <3>3 DEF Carries
    <3>5. reply'[s].n = n
      BY <1>7, <2>1 DEF IsData
    <3> QED
      BY <1>3, <1>5, <3>1, <3>4, <3>5
  <2>2. CASE ~(a.stream = s /\ a.kind = "fin")
    <3>1. reply[s].end = "fin"
      BY <1>4, <1>7, <1>11, <2>2 DEF IsData
    <3>2. ~IsData(a, s)
      BY <1>3, <1>5, <1>8, <3>1
    <3> QED
      BY <1>5, <1>7, <3>1, <3>2
  <2> QED
    BY <2>1, <2>2
<1>12. \A c \in Bearers : \A i \in 1..Len(down'[c]) :
         down'[c][i].stream = s /\ down'[c][i].kind # "rst" => c = own
  BY <1>5, <1>6
<1>13. ASSUME NEW c \in Bearers, NEW i \in 1..Len(down'[c]),
              down'[c][i].stream = s, down'[c][i].kind = "fin"
       PROVE  Over(s) /\ \A j \in 1..Len(down'[c]) : i < j => ~IsData(down'[c][j], s)
  <2>1. CASE c # b
    BY <1>5, <1>6, <1>13, <2>1
  <2>2. CASE c = b
    <3>1. /\ i + 1 \in 1..Len(q) /\ q[i + 1].stream = s /\ q[i + 1].kind = "fin"
      <4>1. i \in 1..Len(Tail(q)) /\ down'[c][i] = Tail(q)[i]
        BY <1>6, <1>13, <2>2
      <4>2. i + 1 \in 1..Len(q) /\ q[i + 1] = Tail(q)[i]
        BY <1>4, <4>1
      <4> QED
        BY <1>13, <4>1, <4>2
    <3>2. Over(s) /\ \A j \in 1..Len(q) : i + 1 < j => ~IsData(q[j], s)
      BY <1>5, <3>1
    <3>3. ASSUME NEW j \in 1..Len(Tail(q)), i < j
          PROVE  ~IsData(Tail(q)[j], s)
      <4>1. i + 1 < j + 1 /\ j + 1 \in 1..Len(q) /\ Tail(q)[j] = q[j + 1]
        BY <1>4, <1>6, <2>2, <3>3
      <4> QED
        BY <3>2, <4>1
    <3> QED
      BY <1>6, <2>2, <3>2, <3>3
  <2> QED
    BY <2>1, <2>2
<1> HIDE DEF own, n, g, q, a
<1>14. DownInv(s)'
  <2> DEFINE N == reply'[s].n
             G == g'
             O == own'
  <2>1. /\ N <= G /\ (reply'[s].end = "fin" => Over(s)' /\ N = G)
        /\ O # None => Carries(down'[O], s, N, G)
        /\ \A c \in Bearers : \A i \in 1..Len(down'[c]) :
             down'[c][i].stream = s /\ down'[c][i].kind # "rst" => c = O
        /\ \A c \in Bearers : \A i \in 1..Len(down'[c]) :
             down'[c][i].stream = s /\ down'[c][i].kind = "fin" =>
               Over(s)' /\ \A j \in 1..Len(down'[c]) : i < j => ~IsData(down'[c][j], s)
    BY <1>2, <1>9, <1>10, <1>11, <1>12, <1>13
  <2> QED
    BY <1>2, <2>1 DEF DownInv, Carries, IsData, own, g
<1> QED
  BY <1>7, <1>8, <1>14 DEF n, a, q

\* The aggregator reads a frame: before it reads the SYN, nothing was answered.
LEMMA DownArrive ==
  ASSUME BaseInv, NEW s \in Ids, DownInv(s), NEW b \in Bearers, Arrive(b)
  PROVE  DownInv(s)'
<1>1. UNCHANGED <<down, reply, resp, read>>
  BY ClientSteps DEF BaseInv, ClientAside
<1>2. via' = [via EXCEPT ![Head(up[b])] = b] /\ via[Head(up[b])] = None
  BY DEF Arrive, Server!ReadFrame
<1>3. Syn(s)' = Syn(s) /\ Given(s)' = Given(s) /\ (Over(s)' <=> Over(s))
  BY <1>1 DEF Given, Over, S!Given, S!Over
<1>4. CASE Head(up[b]) # Syn(s)
  BY <1>1, <1>2, <1>3, <1>4, DownStays, GivenIs
<1>5. CASE Head(up[b]) = Syn(s)
  <2>1. via[Syn(s)] = None /\ via'[Syn(s)] = b /\ Given(s) = 0 /\ None \notin Bearers
    BY <1>2, <1>5, GivenIs, OverlayNone
  <2>2. reply[s].n = 0
    <3>1. reply[s].n \in Nat
      BY DEF BaseInv, AnswerTypes
    <3> QED
      BY <2>1, <3>1 DEF DownInv
  <2>3. \A c \in Bearers : \A i \in 1..Len(down[c]) :
          ~(down[c][i].stream = s /\ down[c][i].kind # "rst")
    BY <2>1 DEF DownInv
  <2>4. Carries(down[b], s, 0, 0)
    BY <2>3 DEF Carries, IsData
  <2>5. reply[s].end = "fin" => Over(s)
    BY DEF DownInv
  <2> QED
    BY <1>1, <1>3, <2>1, <2>2, <2>3, <2>4, <2>5 DEF DownInv, Carries, IsData
<1> QED
  BY <1>4, <1>5

-----------------------------------------------------------------------------
(* The answers that the client has read *)

\* The client's queue has room for all answers of a stream.
Roomy == Responses <= QueueDepth

\* What the application got and what is queued for it are of the chunks below lo,
\* all of them if the queue has room and the stream was registered all the time.
TakesUp(q, lo, all) ==
  /\ Rising(q)
  /\ \A i \in 1..Len(q) : q[i] < lo
  /\ Roomy => Counting(q) /\ (all => Len(q) = lo)

\* inboundCh has the chunks from some one on, up to those yet to be read, and
\* the application is given only the ones before.
InInv(s) ==
  \E lo \in Nat :
    /\ Carries(inboundCh, s, lo, reply[s].n)
    /\ Delivers(s) => TakesUp(got[s] \o queue[s], lo, s \in registry)

GotInv(s) == Rising(got[s]) /\ (Roomy => Counting(got[s]))

AnswerInv == \A s \in Ids : Open(s) => DownInv(s) /\ InInv(s) /\ GotInv(s)

LEMMA TakesNext ==
  ASSUME NEW q \in Seq(Nat), NEW lo \in Nat, TakesUp(q, lo, TRUE)
  PROVE  TakesUp(Append(q, lo), lo + 1, TRUE)
<1> DEFINE r == Append(q, lo)
<1>1. /\ Len(q) \in Nat /\ Len(r) = Len(q) + 1 /\ r[Len(q) + 1] = lo
      /\ \A i \in 1..Len(q) : r[i] = q[i]
      /\ \A i \in 1..Len(r) : i \in 1..Len(q) \/ i = Len(q) + 1
  BY AppendIs
<1>2. \A i \in 1..Len(q) : q[i] \in Nat
  BY ElementOfSeq
<1> HIDE DEF r
<1>3. ASSUME NEW i \in 1..Len(r), NEW j \in 1..Len(r), i < j
      PROVE  r[i] < r[j]
  <2>1. i \in 1..Len(q)
    BY <1>1, <1>3
  <2> QED
    BY <1>1, <1>3, <2>1 DEF TakesUp, Rising
<1>4. \A i \in 1..Len(r) : r[i] < lo + 1
  BY <1>1, <1>2 DEF TakesUp
<1>5. Roomy => Counting(r) /\ Len(r) = lo + 1
  BY <1>1 DEF TakesUp, Counting
<1> QED
  BY <1>3, <1>4, <1>5 DEF TakesUp, Rising, r

LEMMA TakesLess ==
  ASSUME NEW q \in Seq(Nat), NEW lo \in Nat, NEW all \in BOOLEAN, TakesUp(q, lo, all)
  PROVE  /\ TakesUp(q, lo, FALSE)
         /\ ~Roomy \/ ~all => TakesUp(q, lo + 1, all)
<1>1. \A i \in 1..Len(q) : q[i] \in Nat
  BY ElementOfSeq
<1> QED
  BY <1>1 DEF TakesUp

LEMMA TakesPrefix ==
  ASSUME NEW g \in Seq(Nat), NEW q \in Seq(Nat), NEW lo, NEW all, TakesUp(g \o q, lo, all)
  PROVE  /\ Rising(g) /\ (Roomy => Counting(g))
         /\ Roomy /\ all => Len(q) <= lo
<1> DEFINE w == g \o q
<1>1. /\ Len(w) = Len(g) + Len(q) /\ Len(g) \in Nat /\ Len(q) \in Nat
      /\ \A i \in 1..(Len(g) + Len(q)) :
           w[i] = IF i <= Len(g) THEN g[i] ELSE q[i - Len(g)]
  BY ConcatProperties
<1> HIDE DEF w
<1>2. \A i \in 1..Len(g) : i \in 1..Len(w) /\ w[i] = g[i]
  BY <1>1
<1>3. TakesUp(w, lo, all)
  BY DEF w
<1> QED
  BY <1>1, <1>2, <1>3 DEF TakesUp, Rising, Counting

\* A step that moves no answer at the client.
LEMMA InStays ==
  ASSUME AnswerTypes, NEW s \in Ids, InInv(s), GotInv(s), ClientAside
  PROVE  InInv(s)' /\ GotInv(s)'
<1>1. PICK lo \in Nat : /\ Carries(inboundCh, s, lo, reply[s].n)
                        /\ Delivers(s) => TakesUp(got[s] \o queue[s], lo, s \in registry)
  BY DEF InInv
<1>2. got[s] \o queue[s] \in Seq(Nat)
  BY ConcatProperties DEF AnswerTypes
<1>3. s \in registry' => s \in registry
  BY DEF ClientAside
<1> DEFINE w == got[s] \o queue[s]
<1>4. w' = w /\ Carries(inboundCh, s, lo, reply[s].n)'
  BY <1>1 DEF ClientAside, Carries, IsData
<1> HIDE DEF w
<1>5. Delivers(s)' => TakesUp(w, lo, s \in registry')
  <2> SUFFICES ASSUME Delivers(s)' PROVE TakesUp(w, lo, s \in registry')
    OBVIOUS
  <2>1. TakesUp(w, lo, s \in registry)
    BY <1>1 DEF ClientAside, w
  <2> QED
    BY <1>3, <2>1 DEF TakesUp
<1>6. InInv(s)'
  <2>1. Carries(inboundCh', s, lo, reply'[s].n)
    BY <1>4
  <2>2. Delivers(s)' => TakesUp(got'[s] \o queue'[s], lo, s \in registry')
    BY <1>4, <1>5 DEF w
  <2> QED
    BY <2>1, <2>2 DEF InInv, Carries, IsData, TakesUp, Rising, Counting, Roomy
<1>7. GotInv(s)'
  BY DEF ClientAside, GotInv, Rising, Counting, Roomy
<1> QED
  BY <1>6, <1>7

\* The inbound invariant after a step, from what is left of inboundCh.
LEMMA InNext ==
  ASSUME NEW s \in Ids, NEW lo \in Nat,
         Carries(inboundCh', s, lo, reply'[s].n),
         Delivers(s)' => TakesUp(got'[s] \o queue'[s], lo, s \in registry')
  PROVE  InInv(s)'
  BY DEF InInv, Carries, IsData, TakesUp, Rising, Counting, Roomy

\* A stream starts: none of its answers has come.
LEMMA InStarts ==
  ASSUME BaseInv, NEW t \in Ids, NewStream(t), NEW s \in Ids, DownInv(s), InInv(s), GotInv(s)
  PROVE  InInv(s)' /\ GotInv(s)'
<1>1. /\ DownAside /\ UNCHANGED <<queue, got, inboundCh, done>>
      /\ handler[t] = "handshake" /\ registry' = registry \cup {t}
      /\ in' = [in EXCEPT ![t] = "select"]
  BY ClientSteps DEF BaseInv
<1>2. GotInv(s)'
  BY <1>1 DEF GotInv, Rising, Counting, Roomy
<1>3. PICK lo \in Nat : /\ Carries(inboundCh, s, lo, reply[s].n)
                        /\ Delivers(s) => TakesUp(got[s] \o queue[s], lo, s \in registry)
  BY DEF InInv
<1>4. /\ in \in [Ids -> {"idle", "select", "closing", "exited"}]
      /\ reply[s].n \in Nat /\ UNCHANGED reply
  BY <1>1 DEF BaseInv, AnswerTypes, DownAside
<1>5. CASE s # t
  <2>1. in'[s] = in[s] /\ (s \in registry' <=> s \in registry)
    BY <1>1, <1>4, <1>5
  <2>2. Delivers(s)' => TakesUp(got[s] \o queue[s], lo, s \in registry')
    BY <1>1, <1>3, <2>1 DEF Delivers, TakesUp
  <2> QED
    BY <1>1, <1>2, <1>3, <1>4, <2>2, InNext
<1>6. CASE s = t
  <2>1. in[s] = "idle" /\ \A f \in Frames : f.id = s => via[f] = None
    BY <1>1, <1>6 DEF BaseInv, FreshInv
  <2>2. via[Syn(s)] = None
    <3>1. Syn(s) \in Frames
      BY GivenIs
    <3>2. Syn(s).id = s
      BY FrameFields
    <3> QED
      BY <2>1, <3>1, <3>2
  <2>3. reply[s].n = 0
    BY <1>4, <2>2, GivenIs DEF DownInv
  <2>4. lo = 0
    BY <1>3, <2>3 DEF Carries
  <2> DEFINE w == got[s] \o queue[s]
  <2>5. w \in Seq(Nat)
    BY ConcatProperties DEF BaseInv, AnswerTypes
  <2> HIDE DEF w
  <2>6. Delivers(s)' => TakesUp(w, 0, s \in registry)
    BY <1>1, <1>3, <2>1, <2>4 DEF Delivers, w
  <2>7. Delivers(s)' => TakesUp(w, 0, TRUE)
    <3>1. ASSUME TakesUp(w, 0, s \in registry)
          PROVE  Len(w) = 0
      <4>1. Len(w) \in Nat /\ \A i \in 1..Len(w) : w[i] \in Nat /\ w[i] < 0
        BY <2>5, <3>1, ElementOfSeq DEF TakesUp
      <4> QED
        BY <4>1
    <3> QED
      BY <2>6, <3>1 DEF TakesUp
  <2>8. Delivers(s)' => TakesUp(w, 0, s \in registry')
    BY <2>7 DEF TakesUp
  <2> QED
    BY <1>1, <1>2, <1>3, <1>4, <2>4, <2>8, InNext DEF w
<1> QED
  BY <1>5, <1>6

\* runInbound takes what is queued.
LEMMA InWrites ==
  ASSUME BaseInv, NEW t \in Ids, InStep(t), NEW s \in Ids, InInv(s), GotInv(s)
  PROVE  InInv(s)' /\ GotInv(s)'
<1>t. AnswerTypes
  BY DEF BaseInv
<1>1. DownAside /\ UNCHANGED <<inboundCh, registry>>
  BY <1>t, ClientSteps
<1>2. PICK lo \in Nat : /\ Carries(inboundCh, s, lo, reply[s].n)
                        /\ Delivers(s) => TakesUp(got[s] \o queue[s], lo, s \in registry)
  BY DEF InInv
<1>3. Carries(inboundCh', s, lo, reply'[s].n)
  BY <1>1, <1>2 DEF DownAside
<1>4. queue[t] \in Seq(Nat) /\ got[t] \in Seq(Nat)
  BY <1>t DEF AnswerTypes
<1>5. CASE ClientAside
  BY <1>t, <1>5, InStays
<1>6. CASE Client!WriteLocal(t) \/ Client!WriteFail(t)
  <2>1. /\ in[t] = "select" /\ queue[t] # <<>>
        /\ queue' = [queue EXCEPT ![t] = Tail(@)] /\ UNCHANGED done
        /\ \/ /\ got' = [got EXCEPT ![t] = Append(@, Head(queue[t]))] /\ in' = in
              /\ t \notin done
           \/ got' = got /\ in' = [in EXCEPT ![t] = "closing"]
    BY <1>6 DEF Client!WriteLocal, Client!WriteFail
  <2>2. CASE s # t
    <3>1. queue'[s] = queue[s] /\ got'[s] = got[s] /\ in'[s] = in[s]
      BY <1>t, <2>1, <2>2 DEF AnswerTypes
    <3>2. GotInv(s)'
      BY <3>1 DEF GotInv, Rising, Counting, Roomy
    <3>3. Delivers(s)' => TakesUp(got'[s] \o queue'[s], lo, s \in registry')
      BY <1>1, <1>2, <2>1, <3>1 DEF Delivers
    <3> QED
      BY <1>3, <3>2, <3>3, InNext
  <2>3. CASE s = t /\ got' = [got EXCEPT ![t] = Append(@, Head(queue[t]))] /\ in' = in /\ t \notin done
    <3>1. got'[s] = Append(got[s], Head(queue[s])) /\ queue'[s] = Tail(queue[s])
      BY <1>t, <2>1, <2>3 DEF AnswerTypes
    <3>2. /\ got'[s] \in Seq(Nat) /\ queue'[s] \in Seq(Nat)
      BY <1>4, <2>1, <2>3, <3>1, TailIs, AppendIs
    <3>3. got'[s] \o queue'[s] = got[s] \o queue[s]
      <4>1. queue[s] # <<>> /\ queue[s] \in Seq(Nat) /\ got[s] \in Seq(Nat)
        BY <1>4, <2>1, <2>3
      <4>2. Append(got[s], Head(queue[s])) \o Tail(queue[s]) = got[s] \o queue[s]
        BY <4>1, TakenMoves
      <4> QED
        BY <3>1, <4>2
    <3>4. TakesUp(got[s] \o queue[s], lo, s \in registry)
      BY <1>2, <2>1, <2>3 DEF Delivers
    <3>5. TakesUp(got'[s] \o queue'[s], lo, s \in registry')
      BY <1>1, <3>3, <3>4
    <3>6. Rising(got'[s]) /\ (Roomy => Counting(got'[s]))
      BY <3>2, <3>5, TakesPrefix
    <3>7. GotInv(s)'
      BY <3>6 DEF GotInv, Rising, Counting, Roomy
    <3> QED
      BY <1>3, <3>5, <3>7, InNext
  <2>4. CASE s = t /\ got' = got /\ in' = [in EXCEPT ![t] = "closing"]
    <3>1. ~Delivers(s)'
      BY <1>t, <2>4 DEF Delivers, AnswerTypes
    <3>2. GotInv(s)'
      BY <2>4 DEF GotInv, Rising, Counting, Roomy
    <3> QED
      BY <1>3, <3>1, <3>2, InNext
  <2> QED
    BY <2>1, <2>2, <2>3, <2>4
<1> QED
  BY <1>t, <1>5, <1>6, ClientSteps

\* demuxLoop takes the next answer; the queue of its stream has room for it if
\* it has room for all.
LEMMA InRoutes ==
  ASSUME BaseInv, DemuxStep, NEW s \in Ids, DownInv(s), InInv(s), GotInv(s)
  PROVE  InInv(s)' /\ GotInv(s)'
<1> DEFINE a == Head(inboundCh)
           n == reply[s].n
           w == got[s] \o queue[s]
<1>t. AnswerTypes
  BY DEF BaseInv
<1>1. PICK lo \in Nat : Carries(inboundCh, s, lo, n) /\ (Delivers(s) => TakesUp(w, lo, s \in registry))
  BY DEF InInv
<1>2. DownAside /\ (ClientAside \/ Client!RouteData \/ Client!RouteEnd)
  BY <1>t, ClientSteps
<1>3. CASE ClientAside
  BY <1>t, <1>3, InStays
<1>4. CASE Client!RouteData \/ Client!RouteEnd
  <2>1. /\ inboundCh # <<>> /\ inboundCh' = Tail(inboundCh) /\ UNCHANGED <<got, in, done>>
        /\ registry' \subseteq registry
    BY <1>4 DEF Client!RouteData, Client!RouteEnd, Client!Receives, Client!streams,
                Client!table, Client!inbound
  <2>2. /\ inboundCh \in Seq(Client!Answers) /\ n \in Nat /\ reply' = reply
        /\ queue[s] \in Seq(Nat) /\ got[s] \in Seq(Nat) /\ w \in Seq(Nat)
    BY <1>t, <1>2, ConcatProperties DEF AnswerTypes, DownAside
  <2>3. GotInv(s)'
    BY <2>1 DEF GotInv, Rising, Counting, Roomy
  <2>4. /\ IsData(a, s) => a.n = lo /\ lo < n /\ Carries(inboundCh', s, lo + 1, n)
        /\ ~IsData(a, s) => Carries(inboundCh', s, lo, n)
    BY <1>1, <2>1, <2>2, CarriesTail
  <2>5. CASE ~IsData(a, s)
    <3>1. queue'[s] = queue[s]
      BY <1>4, <1>t, <2>5
      DEF Client!RouteData, Client!RouteEnd, Client!Receives, Client!DeliverInbound,
          Client!streams, AnswerTypes, IsData
    <3>2. Delivers(s)' => TakesUp(w, lo, s \in registry)
      BY <1>1, <2>1 DEF Delivers
    <3> HIDE DEF w
    <3>3. Delivers(s)' => TakesUp(w, lo, s \in registry')
      BY <2>1, <3>2 DEF TakesUp
    <3> QED
      BY <2>1, <2>2, <2>3, <2>4, <2>5, <3>1, <3>3, InNext DEF w
  <2>6. CASE IsData(a, s)
    <3>1. Client!RouteData
      BY <1>4, <2>6 DEF Client!RouteEnd, Client!Receives, Client!Ends, IsData
    <3>2. /\ registry' = registry
          /\ \/ s \notin registry /\ queue' = queue
             \/ /\ s \in registry
                /\ \/ queue' = [queue EXCEPT ![s] = Append(@, lo)]
                   \/ (Len(queue[s]) >= QueueDepth \/ s \in done) /\ queue' = queue
      <4>1. Len(queue[s]) \in Nat /\ QueueDepth \in Nat
        BY <2>2, OverlayBounds
      <4> QED
        BY <2>4, <2>6, <3>1, <4>1
        DEF Client!RouteData, Client!DeliverInbound, Client!HasRoom, Client!table, IsData
    <3>3. ASSUME Delivers(s)'
          PROVE  TakesUp(got'[s] \o queue'[s], lo + 1, s \in registry')
      <4>1. TakesUp(w, lo, s \in registry) /\ s \notin done
        BY <1>1, <2>1, <3>3 DEF Delivers
      <4>2. CASE s \notin registry
        <5> HIDE DEF w
        <5>1. TakesUp(w, lo, FALSE)
          BY <4>1, <4>2 DEF TakesUp
        <5>2. TakesUp(w, lo + 1, FALSE)
          BY <2>2, <5>1, TakesLess
        <5>3. TakesUp(w, lo + 1, s \in registry')
          BY <3>2, <4>2, <5>2 DEF TakesUp
        <5> QED
          BY <2>1, <3>2, <4>2, <5>3 DEF w
      <4>3. CASE s \in registry /\ queue' = [queue EXCEPT ![s] = Append(@, lo)]
        <5>1. queue'[s] = Append(queue[s], lo) /\ got'[s] = got[s]
          BY <1>t, <2>1, <4>3 DEF AnswerTypes
        <5>2. got'[s] \o queue'[s] = Append(w, lo)
          <6>1. got[s] \o Append(queue[s], lo) = Append(got[s] \o queue[s], lo)
            BY <2>2, TakenGrows
          <6> QED
            BY <5>1, <6>1
        <5>3. TakesUp(w, lo, TRUE) /\ (s \in registry') = TRUE
          BY <3>2, <4>1, <4>3
        <5> HIDE DEF w
        <5>4. TakesUp(Append(w, lo), lo + 1, TRUE)
          BY <2>2, <5>3, TakesNext
        <5> QED
          BY <5>2, <5>3, <5>4
      <4>4. CASE s \in registry /\ queue' = queue /\ Len(queue[s]) >= QueueDepth
        <5>1. TakesUp(w, lo, TRUE) /\ (s \in registry') = TRUE
          BY <3>2, <4>1, <4>4
        <5>2. ~Roomy
          <6>1. Roomy => Len(queue[s]) <= lo
            BY <2>2, <5>1, TakesPrefix
          <6>2. lo < n /\ n <= Given(s) /\ Given(s) <= Responses
            BY <2>4, <2>6, GivenIs DEF DownInv
          <6>3. /\ Len(queue[s]) \in Nat /\ QueueDepth \in Nat /\ Given(s) \in Nat
                /\ Responses \in Nat
            BY <2>2, OverlayBounds, GivenIs
          <6> HIDE DEF n
          <6>4. n \in Nat
            BY <2>2
          <6> QED
            BY <4>4, <6>1, <6>2, <6>3, <6>4 DEF Roomy
        <5> HIDE DEF w
        <5>3. TakesUp(w, lo + 1, TRUE)
          BY <2>2, <5>1, <5>2, TakesLess
        <5> QED
          BY <2>1, <4>4, <5>1, <5>3 DEF w
      <4> QED
        BY <3>2, <4>1, <4>2, <4>3, <4>4
    <3>4. lo + 1 \in Nat /\ Carries(inboundCh', s, lo + 1, reply'[s].n)
      BY <2>2, <2>4, <2>6
    <3> QED
      BY <2>3, <3>3, <3>4, InNext
  <2> QED
    BY <2>5, <2>6
<1> QED
  BY <1>2, <1>3, <1>4

\* The readLoop of a bearer puts an answer into inboundCh.
LEMMA InReturns ==
  ASSUME BaseInv, NEW b \in Bearers, Return(b), NEW s \in Ids,
         DownInv(s), InInv(s), GotInv(s)
  PROVE  InInv(s)' /\ GotInv(s)'
<1> DEFINE a == Head(down[b])
           n == reply[s].n
<1>t. AnswerTypes
  BY DEF BaseInv
<1>1. /\ a \in Client!Answers /\ inboundCh' = Append(inboundCh, a)
      /\ UNCHANGED <<queue, got, in, done, registry>>
  BY <1>t, ReturnFacts
<1>2. /\ IsData(a, s) => a.n = n /\ reply'[s].n = n + 1
      /\ ~IsData(a, s) => reply'[s].n = n
  BY DownReturn
<1>3. inboundCh \in Seq(Client!Answers) /\ n \in Nat
  BY <1>t DEF AnswerTypes
<1>4. PICK lo \in Nat : /\ Carries(inboundCh, s, lo, n)
                        /\ Delivers(s) => TakesUp(got[s] \o queue[s], lo, s \in registry)
  BY DEF InInv
<1>5. Carries(inboundCh', s, lo, reply'[s].n)
  <2> HIDE DEF a, n
  <2>1. CASE IsData(a, s)
    BY <1>1, <1>2, <1>3, <1>4, <2>1, CarriesData
  <2>2. CASE ~IsData(a, s)
    BY <1>1, <1>2, <1>3, <1>4, <2>2, CarriesOther
  <2> QED
    BY <2>1, <2>2
<1>6. Delivers(s)' => TakesUp(got'[s] \o queue'[s], lo, s \in registry')
  BY <1>1, <1>4 DEF Delivers
<1>7. GotInv(s)'
  BY <1>1 DEF GotInv, Rising, Counting, Roomy
<1> QED
  BY <1>5, <1>6, <1>7, InNext

-----------------------------------------------------------------------------
(* The answers keep their order *)

LEMMA InitAnswerInv == Init => AnswerInv
<1> SUFFICES ASSUME Init, NEW s \in Ids PROVE DownInv(s) /\ InInv(s) /\ GotInv(s)
  BY DEF AnswerInv
<1>1. /\ reply[s] = [n |-> 0, end |-> "none"] /\ inboundCh = <<>>
      /\ queue[s] = <<>> /\ got[s] = <<>> /\ registry = {}
      /\ down = [b \in Bearers |-> <<>>]
  BY DEF Init, Client!Init
<1>2. resp[Syn(s)] = "none" /\ read[Syn(s)] = 0 /\ via[Syn(s)] = None
  BY StreamsAre DEF Init, Server!Initially, Frames
<1>3. Given(s) = 0
  BY <1>2 DEF Given, S!Given
<1>4. DownInv(s)
  BY <1>1, <1>2, <1>3 DEF DownInv
<1>5. <<>> \o <<>> = <<>>
  BY ConcatEmptySeq, EmptySeq
<1>6. InInv(s)
  BY <1>1, <1>5 DEF InInv, Carries, TakesUp, Rising, Counting
<1>7. GotInv(s)
  BY <1>1 DEF GotInv, Rising, Counting
<1> QED
  BY <1>4, <1>6, <1>7

LEMMA SendsDown ==
  ASSUME BaseInv, S!Onwards, NEW t \in Ids, NEW flag \in {"DATA", "FIN", "RST"},
         NEW b \in Bearers, Sends(t, flag, b), UNCHANGED <<reply, via>>,
         NEW s \in Ids, Open(s), DownInv(s)
  PROVE  DownInv(s)'
<1> DEFINE a == AnswerOf(t, flag)
<1>1. /\ a \in Client!Answers /\ a.stream = t
      /\ (IsData(a, t) <=> flag = "DATA")
      /\ (a.kind = "fin" <=> flag = "FIN") /\ (a.kind = "rst" <=> flag = "RST")
      /\ flag = "DATA" => a.n = Given(t)
  BY SendsFacts DEF Given
<1>2. down' = [down EXCEPT ![b] = Append(@, a)] /\ S!Replies(Syn(t), flag, b)
  BY DEF Sends
<1>s. Syn(s)' = Syn(s) /\ Syn(t)' = Syn(t)
  OBVIOUS
<1>3. /\ Syn(s) \in S!Streams /\ Syn(t) \in S!Streams
      /\ s # t => Syn(s) # Syn(t)
  BY StreamsAre, SynDiffers
<1>4. Over(s) => Over(s)'
  BY <1>s, <1>3 DEF S!Onwards, Over
<1>5. s # t \/ flag # "DATA" => Given(s)' = Given(s)
  BY <1>s, <1>2, <1>3 DEF S!Replies, Given
<1>6. s = t /\ flag = "DATA" => ~Over(s) /\ Given(s)' = Given(s) + 1
  BY <1>s, <1>2, <1>3 DEF S!Replies, Given, Over
<1>7. s = t /\ flag = "FIN" => Over(s)'
  BY <1>s, <1>2, <1>3 DEF S!Replies, Over
<1>8. s = t /\ flag # "RST" => b = via[Syn(s)]
  <2>1. ~S!Done(Syn(s))
    BY DEF Open, S!Done
  <2> QED
    BY <1>2, <1>3, <2>1, ServerAssumptions, S!AnswerKeeps DEF BaseInv, RequestInv
<1>9. IsData(a, s) <=> s = t /\ flag = "DATA"
  BY <1>1 DEF IsData
<1> HIDE DEF a
<1>10. a.stream = s /\ a.kind # "rst" => b = via[Syn(s)]
  BY <1>1, <1>8
<1>11. IsData(a, s) => ~Over(s) /\ a.n = Given(s) /\ Given(s)' = Given(s) + 1
  BY <1>1, <1>6, <1>9
<1>12. ~IsData(a, s) => Given(s)' = Given(s)
  BY <1>5, <1>9
<1>13. a.stream = s /\ a.kind = "fin" => Over(s)'
  BY <1>1, <1>7
<1> QED
  BY <1>1, <1>2, <1>4, <1>10, <1>11, <1>12, <1>13, DownAppend

LEMMA NextAnswerInv == BaseInv /\ AnswerInv /\ [Next]_vars => AnswerInv'
<1> SUFFICES ASSUME BaseInv, AnswerInv, [Next]_vars, NEW s \in Ids, Open(s)'
             PROVE  DownInv(s)' /\ InInv(s)' /\ GotInv(s)'
  BY DEF AnswerInv
<1>t. AnswerTypes
  BY DEF BaseInv
<1>s. Syn(s) \in S!Streams /\ Syn(s)' = Syn(s)
  BY StreamsAre
<1>i. Open(s) => DownInv(s) /\ InInv(s) /\ GotInv(s)
  BY DEF AnswerInv
<1>1. ASSUME UNCHANGED <<down, reply, via, closing, resp, read>>
      PROVE  DownInv(s)'
  <2>1. Given(s)' = Given(s) /\ (Over(s) => Over(s)') /\ Open(s)
    BY <1>1 DEF Given, Over, S!Given, S!Over, Open
  <2> QED
    BY <1>1, <1>i, <2>1, DownStays
<1>2. ASSUME UNCHANGED closing
      PROVE  Open(s) /\ DownInv(s) /\ InInv(s) /\ GotInv(s)
  BY <1>2, <1>i DEF Open
<1>3. ASSUME ClientAside, DownAside
      PROVE  DownInv(s)' /\ InInv(s)' /\ GotInv(s)'
  BY <1>1, <1>2, <1>3, <1>t, InStays DEF DownAside
<1>4. ASSUME NEW t \in Ids, RunReturns(t) \/ OutStep(t) \/ AppEnds(t)
      PROVE  DownInv(s)' /\ InInv(s)' /\ GotInv(s)'
  BY <1>3, <1>4, <1>t, ClientSteps
<1>5. ASSUME NEW t \in Ids, NewStream(t)
      PROVE  DownInv(s)' /\ InInv(s)' /\ GotInv(s)'
  <2>1. DownAside
    BY <1>5, <1>t, ClientSteps
  <2> QED
    BY <1>1, <1>2, <1>5, <2>1, InStarts DEF DownAside
<1>6. ASSUME NEW t \in Ids, InStep(t)
      PROVE  DownInv(s)' /\ InInv(s)' /\ GotInv(s)'
  <2>1. DownAside
    BY <1>6, <1>t, ClientSteps
  <2> QED
    BY <1>1, <1>2, <1>6, <2>1, InWrites DEF DownAside
<1>7. CASE DemuxStep
  <2>1. DownAside
    BY <1>7, <1>t, ClientSteps
  <2> QED
    BY <1>1, <1>2, <1>7, <2>1, InRoutes DEF DownAside
<1>8. ASSUME NEW b \in Bearers, Return(b)
      PROVE  DownInv(s)' /\ InInv(s)' /\ GotInv(s)'
  <2>1. UNCHANGED closing
    BY <1>8, <1>t, ReturnFacts
  <2> QED
    BY <1>2, <1>8, <2>1, DownReturn, InReturns
<1>9. ASSUME NEW b \in Bearers, Arrive(b)
      PROVE  DownInv(s)' /\ InInv(s)' /\ GotInv(s)'
  <2>1. ClientAside /\ UNCHANGED closing
    BY <1>9, <1>t, ClientSteps
  <2> QED
    BY <1>2, <1>9, <1>t, <2>1, DownArrive, InStays
<1>10. CASE ServerMove
  <2>1. /\ UNCHANGED <<client, reply, via>> /\ S!Onwards
        /\ \/ S!Quiet /\ UNCHANGED down
           \/ \E t \in Ids, flag \in {"DATA", "FIN", "RST"}, b \in Bearers : Sends(t, flag, b)
    BY <1>10, ServerAnswers
  <2>2. ClientAside
    BY <2>1 DEF ClientAside, Delivers, client
  <2>3. Open(s) /\ (Over(s) => Over(s)')
    BY <1>s, <2>1 DEF S!Onwards, S!Done, Open, Over
  <2>4. InInv(s)' /\ GotInv(s)'
    BY <1>t, <1>i, <2>2, <2>3, InStays
  <2>5. CASE S!Quiet /\ UNCHANGED down
    <3>1. Given(s)' = Given(s)
      BY <1>s, <2>5 DEF S!Quiet, Given
    <3>2. DownInv(s)'
      BY <1>i, <2>1, <2>3, <2>5, <3>1, DownStays
    <3> QED
      BY <2>4, <3>2
  <2>6. ASSUME NEW t \in Ids, NEW flag \in {"DATA", "FIN", "RST"}, NEW b \in Bearers,
               Sends(t, flag, b)
        PROVE  DownInv(s)'
    BY <1>i, <2>1, <2>3, <2>6, SendsDown
  <2> QED
    BY <2>1, <2>4, <2>5, <2>6
<1>11. CASE UNCHANGED vars
  <2>1. ClientAside /\ DownAside
    BY <1>11 DEF vars, client, server, links, ClientAside, DownAside, Delivers
  <2> QED
    BY <1>3, <2>1
<1> QED
  BY <1>4, <1>5, <1>6, <1>7, <1>8, <1>9, <1>10, <1>11 DEF Next, ServerMove

\* Every chunk that was read, but the one in hand, has been sent.
AnsweredInv == \A s \in Ids : Cardinality(Answered(s)) = Given(s)

LEMMA InitAnswered == Init => AnsweredInv
<1> SUFFICES ASSUME Init, NEW s \in Ids PROVE Cardinality(Answered(s)) = Given(s)
  BY DEF AnsweredInv
<1>1. resp[Syn(s)] = "none" /\ read[Syn(s)] = 0 /\ replies[Syn(s)] = <<>>
  BY StreamsAre DEF Init, Server!Initially
<1>2. Answered(s) = {} /\ Given(s) = 0
  BY <1>1 DEF Answered, Given, S!Given
<1> QED
  BY <1>2, FS_EmptySet

LEMMA NextAnswered == BaseInv /\ AnsweredInv /\ [Next]_vars => AnsweredInv'
<1> SUFFICES ASSUME BaseInv, AnsweredInv, [Next]_vars, NEW s \in Ids
             PROVE  Cardinality(Answered(s)') = Given(s)'
  BY DEF AnsweredInv
<1>t. AnswerTypes
  BY DEF BaseInv
<1>s. Syn(s) \in S!Streams /\ Syn(s)' = Syn(s)
  BY StreamsAre
<1>1. ASSUME replies' = replies, Given(s)' = Given(s)
      PROVE  Cardinality(Answered(s)') = Given(s)'
  BY <1>1 DEF Answered, AnsweredInv
<1>2. ASSUME UNCHANGED <<replies, resp, read>>
      PROVE  Cardinality(Answered(s)') = Given(s)'
  BY <1>1, <1>2 DEF Given, S!Given
<1>3. ASSUME NEW t \in Ids, NEW flag \in {"DATA", "FIN", "RST"}, NEW b \in Bearers,
             Sends(t, flag, b)
      PROVE  Cardinality(Answered(s)') = Given(s)'
  <2> DEFINE r == [flag |-> flag, via |-> b]
             R == [flag : {"DATA", "FIN", "RST"}, via : Bearers]
             q == replies[Syn(s)]
  <2>1. replies \in [S!Streams -> Seq(R)] /\ r \in R /\ r.flag = flag
    BY DEF BaseInv, RequestInv, S!HandsInv, S!TypeOK
  <2>2. Syn(t) \in S!Streams /\ (s # t => Syn(s) # Syn(t))
    BY StreamsAre, SynDiffers
  <2>3. /\ replies' = [replies EXCEPT ![Syn(t)] = Append(@, r)]
        /\ s # t \/ flag # "DATA" => Given(s)' = Given(s)
        /\ s = t /\ flag = "DATA" => Given(s)' = Given(s) + 1
    BY <1>3, <1>s, <2>2 DEF Sends, S!Replies, Given
  <2>4. q \in Seq(R) /\ Cardinality(Answered(s)) = Given(s)
    BY <1>s, <2>1 DEF AnsweredInv
  <2> HIDE DEF r, R
  <2>5. CASE s # t
    <3>1. replies'[Syn(s)] = q
      BY <1>s, <2>1, <2>3, <2>2, <2>5
    <3>2. Answered(s)' = Answered(s)
      BY <1>s, <3>1 DEF Answered
    <3> QED
      BY <2>3, <2>4, <2>5, <3>2
  <2>6. CASE s = t
    <3>1. replies'[Syn(s)] = Append(q, r)
      BY <1>s, <2>1, <2>3, <2>6
    <3>2. /\ Len(q) \in Nat /\ Len(Append(q, r)) = Len(q) + 1
          /\ Append(q, r)[Len(q) + 1] = r
          /\ \A i \in 1..Len(q) : Append(q, r)[i] = q[i]
          /\ \A i \in 1..Len(Append(q, r)) : i \in 1..Len(q) \/ i = Len(q) + 1
      BY <2>1, <2>4, AppendIs
    <3>3. Answered(s)' = {i \in 1..Len(Append(q, r)) : Append(q, r)[i].flag = "DATA"}
      BY <1>s, <3>1 DEF Answered
    <3>4. /\ Answered(s) = {i \in 1..Len(q) : q[i].flag = "DATA"}
          /\ Len(q) + 1 \notin Answered(s)
      BY <3>2 DEF Answered
    <3>5. IsFiniteSet(Answered(s))
      <4>1. IsFiniteSet(1..Len(q))
        <5>1. 1 \in Int /\ Len(q) \in Int
          BY <3>2
        <5> QED
          BY <5>1, FS_Interval
      <4> QED
        BY <3>4, <4>1, FS_Subset
    <3>6. CASE flag = "DATA"
      <4>1. Answered(s)' = Answered(s) \cup {Len(q) + 1}
        BY <2>1, <3>2, <3>3, <3>4, <3>6
      <4>2. Cardinality(Answered(s)') = Cardinality(Answered(s)) + 1
        BY <3>4, <3>5, <4>1, FS_AddElement
      <4> QED
        BY <2>3, <2>4, <2>6, <3>6, <4>2
    <3>7. CASE flag # "DATA"
      <4>1. Answered(s)' = Answered(s)
        BY <2>1, <3>2, <3>3, <3>4, <3>7
      <4> QED
        BY <2>3, <2>4, <3>7, <4>1
    <3> QED
      BY <3>6, <3>7
  <2> QED
    BY <2>5, <2>6
<1>4. CASE ServerMove
  <2>1. CASE S!Quiet
    BY <1>1, <1>s, <2>1 DEF S!Quiet, Given
  <2> QED
    BY <1>3, <1>4, <2>1, ServerAnswers
<1>5. CASE UNCHANGED vars
  BY <1>2, <1>5 DEF vars, server
<1>6. UNCHANGED <<replies, resp, read>> \/ ServerMove
  <2>1. \A b \in Bearers : Return(b) => UNCHANGED <<replies, resp, read>>
    BY <1>t, ReturnFacts
  <2>2. CASE UNCHANGED vars
    BY <2>2 DEF vars, server
  <2> QED
    BY <1>t, <2>1, <2>2, ClientSteps DEF Next, ServerMove, DownAside
<1> QED
  BY <1>2, <1>4, <1>6

\* Whatever bearers requests take and however the steps of both programs overlap,
\* as long as the aggregator has not closed a stream its application gets the
\* answers in order, without a gap if QueueDepth is no less than their number, and
\* the client takes in a FIN only after all of them.
THEOREM AnswersOrdered == Spec => []AnswersInOrder
<1>1. AnswerInv /\ AnsweredInv => AnswersInOrder
  <2> SUFFICES ASSUME AnswerInv, AnsweredInv, NEW s \in Ids, closing[Syn(s)] = "open"
               PROVE  /\ Rising(got[s])
                      /\ Responses <= QueueDepth => Counting(got[s])
                      /\ reply[s].end = "fin" => reply[s].n = Cardinality(Answered(s))
    BY DEF AnswersInOrder
  <2>1. DownInv(s) /\ GotInv(s)
    BY DEF AnswerInv, Open
  <2>2. reply[s].end = "fin" => reply[s].n = Given(s)
    BY <2>1 DEF DownInv
  <2> QED
    BY <2>1, <2>2 DEF GotInv, Roomy, AnsweredInv
<1> QED
  BY <1>1, InitBaseInv, NextBaseInv, InitAnswerInv, NextAnswerInv, InitAnswered,
     NextAnswered, PTL DEF Spec

=============================================================================
