---------------------------- MODULE ClientStreams ----------------------------
(***************************************************************************)
(* The client's streams: MultipathDispatcher's handlers, LogicalStream's   *)
(* two goroutines, and MultipathManager with its registry, demuxLoop and   *)
(* Stop (internal/multipath/dispatcher.go, stream.go, manager.go).         *)
(*                                                                         *)
(* dispatchWithRetry either hands a frame to one bearer or fails, in any   *)
(* state of the pool (TunnelPool and BearerTunnel say more of it).  The    *)
(* aggregator is external: after the SYN it answers with data in order,    *)
(* and FIN or RST, over the bearer the stream sticks to.  So is the        *)
(* application on the other end of localConn.  A chunk is one unit long.   *)
(***************************************************************************)
EXTENDS Integers, Sequences

CONSTANTS Streams,
          Chunks,         \* bound: reads from the application, per stream
          Responses,      \* bound: answers, per stream
          QueueDepth,     \* of LogicalStream.inbound; 256 in the code
          InboundDepth    \* cfg.InboundChannelDepth

ASSUME ClientBounds ==
  /\ Chunks \in Nat /\ Responses \in Nat
  /\ QueueDepth \in Nat \ {0} /\ InboundDepth \in Nat \ {0}

VARIABLES handler,    \* handleConn of each connection
          registry,   \* the streams in streamRegistry
          done,       \* the streams closed: done, and with it localConn
          out, in,    \* where runOutbound and runInbound are
          offset,     \* seq.Current()
          sent,       \* the frames handed to bearers
          queue,      \* LogicalStream.inbound
          got,        \* what was written to localConn
          app,        \* the application: "open", or "ended" its side
          reply,      \* the aggregator: answers sent and how they ended
          inboundCh,
          demux,      \* where demuxLoop is
          closing,    \* the stream demuxLoop has yet to close, if any
          stop,       \* where the caller of Stop is
          ranging     \* the streams Stop's Range has to visit

vars == <<handler, registry, done, out, in, offset, sent, queue, got, app,
          reply, inboundCh, demux, closing, stop, ranging>>

outbound == <<out, offset, sent>>
inbound == <<in, got>>
table == <<handler, registry>>
routing == <<inboundCh, demux, closing>>
stopping == <<stop, ranging>>
outside == <<app, reply>>
streams == <<outbound, inbound, queue>>
beyond == <<outside, routing, stopping>>

Frames == [flag : {"SYN", "data", "FIN"}, seq : 0..Chunks]
Ends == {"fin", "rst"}
Answers == [stream : Streams, kind : Ends \cup {"data"}, n : 0..Responses]

Init ==
  /\ handler = [s \in Streams |-> "handshake"]
  /\ registry = {}
  /\ done = {}
  /\ out = [s \in Streams |-> "idle"]
  /\ in = [s \in Streams |-> "idle"]
  /\ offset = [s \in Streams |-> 0]
  /\ sent = [s \in Streams |-> <<>>]
  /\ queue = [s \in Streams |-> <<>>]
  /\ got = [s \in Streams |-> <<>>]
  /\ app = [s \in Streams |-> "open"]
  /\ reply = [s \in Streams |-> [n |-> 0, end |-> "none"]]
  /\ inboundCh = <<>>
  /\ demux = "select"
  /\ closing = {}
  /\ stop = "none"
  /\ ranging = {}

-----------------------------------------------------------------------------
(* handleConn *)

\* After the handshake, NewStream registers the stream and Run starts its
\* goroutines.
NewStream(s) ==
  /\ handler[s] = "handshake"
  /\ handler' = [handler EXCEPT ![s] = "running"]
  /\ registry' = registry \cup {s}
  /\ out' = [out EXCEPT ![s] = "syn"]
  /\ in' = [in EXCEPT ![s] = "select"]
  /\ UNCHANGED <<done, offset, sent, queue, got, beyond>>

\* Run returns when both have exited, and CloseStream follows.
RunReturns(s) ==
  /\ handler[s] = "running"
  /\ out[s] = "exited" /\ in[s] = "exited"
  /\ handler' = [handler EXCEPT ![s] = "gone"]
  /\ registry' = registry \ {s}
  /\ done' = IF s \in registry THEN done \cup {s} ELSE done
  /\ UNCHANGED <<outbound, inbound, queue, beyond>>

-----------------------------------------------------------------------------
(* runOutbound *)

\* dispatchWithRetry of frame f, then on to `to`, or out of the loop.
Dispatched(s, f, to) ==
  \/ sent' = [sent EXCEPT ![s] = Append(@, f)] /\ out' = [out EXCEPT ![s] = to]
  \/ out' = [out EXCEPT ![s] = "closing"] /\ UNCHANGED sent

SendSYN(s) ==
  /\ out[s] = "syn"
  /\ Dispatched(s, [flag |-> "SYN", seq |-> 0], "read")
  /\ UNCHANGED <<offset, table, done, inbound, queue, beyond>>

\* A chunk is read and its offset reserved,
ReadChunk(s) ==
  /\ out[s] = "read"
  /\ s \notin done /\ app[s] = "open"
  /\ offset[s] < Chunks
  /\ offset' = [offset EXCEPT ![s] = @ + 1]
  /\ out' = [out EXCEPT ![s] = "chunk"]
  /\ UNCHANGED <<sent, table, done, inbound, queue, beyond>>

\* Fault: a chunk that no bearer takes ends the loop, but not the stream.
SendChunkBreaks(s) ==
  LET f == [flag |-> "data", seq |-> offset[s] - 1]
  IN  /\ out[s] = "chunk"
      /\ \/ /\ sent' = [sent EXCEPT ![s] = Append(@, f)]
            /\ out' = [out EXCEPT ![s] = "read"]
         \/ out' = [out EXCEPT ![s] = "fin"] /\ UNCHANGED sent
      /\ UNCHANGED <<offset, table, done, inbound, queue, beyond>>

\* and sent at that offset;
SendChunk(s) ==
  /\ out[s] = "chunk"
  /\ Dispatched(s, [flag |-> "data", seq |-> offset[s] - 1], "read")
  /\ UNCHANGED <<offset, table, done, inbound, queue, beyond>>

\* or the read ends, by the application or because the stream was closed,
ReadEnd(s) ==
  /\ out[s] = "read"
  /\ s \in done \/ app[s] = "ended"
  /\ out' = [out EXCEPT ![s] = "fin"]
  /\ UNCHANGED <<offset, sent, table, done, inbound, queue, beyond>>

\* and FIN carries the final offset, if a bearer takes it.
SendFIN(s) ==
  /\ out[s] = "fin"
  /\ Dispatched(s, [flag |-> "FIN", seq |-> offset[s]], "closing")
  /\ UNCHANGED <<offset, table, done, inbound, queue, beyond>>

\* Fault: only runInbound closes the stream when it exits.
OutExitOpen(s) ==
  /\ out[s] = "closing"
  /\ out' = [out EXCEPT ![s] = "exited"]
  /\ UNCHANGED <<offset, sent, table, done, inbound, queue, beyond>>

\* The deferred Close.
OutExit(s) ==
  /\ out[s] = "closing"
  /\ out' = [out EXCEPT ![s] = "exited"]
  /\ done' = done \cup {s}
  /\ UNCHANGED <<offset, sent, table, inbound, queue, beyond>>

OutStep(s) ==
  \/ SendSYN(s) \/ ReadChunk(s) \/ SendChunk(s) \/ ReadEnd(s) \/ SendFIN(s)
  \/ OutExit(s)

-----------------------------------------------------------------------------
(* runInbound *)

\* An answer is taken and written to localConn,
WriteLocal(s) ==
  /\ in[s] = "select"
  /\ queue[s] # <<>> /\ s \notin done
  /\ got' = [got EXCEPT ![s] = Append(@, Head(queue[s]))]
  /\ queue' = [queue EXCEPT ![s] = Tail(@)]
  /\ UNCHANGED <<in, table, done, outbound, beyond>>

\* or the write fails;
WriteFail(s) ==
  /\ in[s] = "select"
  /\ queue[s] # <<>> /\ (s \in done \/ app[s] = "ended")
  /\ queue' = [queue EXCEPT ![s] = Tail(@)]
  /\ in' = [in EXCEPT ![s] = "closing"]
  /\ UNCHANGED <<got, table, done, outbound, beyond>>

\* or done is seen, whatever is queued.
SeeDone(s) ==
  /\ in[s] = "select"
  /\ s \in done
  /\ in' = [in EXCEPT ![s] = "closing"]
  /\ UNCHANGED <<got, queue, table, done, outbound, beyond>>

InExit(s) ==
  /\ in[s] = "closing"
  /\ in' = [in EXCEPT ![s] = "exited"]
  /\ done' = done \cup {s}
  /\ UNCHANGED <<got, queue, table, outbound, beyond>>

InStep(s) == WriteLocal(s) \/ WriteFail(s) \/ SeeDone(s) \/ InExit(s)

-----------------------------------------------------------------------------
(* demuxLoop *)

\* Fault: DeliverInbound does not look whether there is room.
RoomAlways(s) == TRUE

HasRoom(s) == Len(queue[s]) < QueueDepth

\* Fault: DeliverInbound waits for room.
DeliverWaits(s, n) ==
  \/ HasRoom(s) /\ queue' = [queue EXCEPT ![s] = Append(@, n)]
  \/ s \in done /\ UNCHANGED queue

\* DeliverInbound queues an answer, or drops it when the queue is full or the
\* stream is closed.
DeliverInbound(s, n) ==
  \/ HasRoom(s) /\ queue' = [queue EXCEPT ![s] = Append(@, n)]
  \/ (~HasRoom(s) \/ s \in done) /\ UNCHANGED queue

Receives(kinds) ==
  /\ demux = "select"
  /\ inboundCh # <<>>
  /\ Head(inboundCh).kind \in kinds
  /\ inboundCh' = Tail(inboundCh)

\* An answer for a stream that is not in the registry is dropped.
RouteData ==
  LET f == Head(inboundCh)
  IN  /\ Receives({"data"})
      /\ IF f.stream \in registry THEN DeliverInbound(f.stream, f.n)
                                  ELSE UNCHANGED queue
      /\ UNCHANGED <<table, done, outbound, inbound, outside, demux, closing,
                     stopping>>

\* FIN and RST: CloseStream takes the stream out of the registry ...
RouteEnd ==
  /\ Receives(Ends)
  /\ demux' = "closing"
  /\ closing' = registry \cap {Head(inboundCh).stream}
  /\ registry' = registry \ closing'
  /\ UNCHANGED <<handler, done, streams, outside, stopping>>

\* Fault: a stream that left the registry is not closed.
DemuxForgets ==
  /\ demux = "closing"
  /\ demux' = "select"
  /\ closing' = {}
  /\ UNCHANGED <<table, done, streams, outside, inboundCh, stopping>>

\* ... and closes it.
DemuxClose ==
  /\ demux = "closing"
  /\ done' = done \cup closing
  /\ demux' = "select"
  /\ closing' = {}
  /\ UNCHANGED <<table, streams, outside, inboundCh, stopping>>

\* Fault: demuxLoop looks at the context only when a frame came.
DemuxExitLate ==
  /\ demux = "select"
  /\ stop # "none" /\ inboundCh # <<>>
  /\ demux' = "exited"
  /\ UNCHANGED <<table, done, streams, outside, inboundCh, closing, stopping>>

\* The context was cancelled.
DemuxExit ==
  /\ demux = "select"
  /\ stop # "none"
  /\ demux' = "exited"
  /\ UNCHANGED <<table, done, streams, outside, inboundCh,
                 closing, stopping>>

DemuxStep == RouteData \/ RouteEnd \/ DemuxClose \/ DemuxExit

-----------------------------------------------------------------------------
(* Stop *)

\* The context is cancelled, and the bearers are stopped;
StopCancel ==
  /\ stop = "none"
  /\ stop' = "waiting"
  /\ UNCHANGED <<table, done, streams, outside, routing, ranging>>

\* when demuxLoop has returned, Range goes through the registry:
StopRange ==
  /\ stop = "waiting"
  /\ demux = "exited"
  /\ stop' = "ranging"
  /\ ranging' = registry
  /\ UNCHANGED <<table, done, streams, outside, routing>>

\* Fault: the streams are dropped, not closed.
StopEntryOpen(s) ==
  /\ stop = "ranging"
  /\ s \in registry
  /\ registry' = registry \ {s}
  /\ ranging' = ranging \ {s}
  /\ UNCHANGED <<handler, done, streams, outside, routing, stop>>

\* each is closed and deleted, one that came meanwhile perhaps too,
StopEntry(s) ==
  /\ stop = "ranging"
  /\ s \in registry
  /\ done' = done \cup {s}
  /\ registry' = registry \ {s}
  /\ ranging' = ranging \ {s}
  /\ UNCHANGED <<handler, streams, outside, routing, stop>>

\* and Stop returns.
StopReturn ==
  /\ stop = "ranging"
  /\ ranging \cap registry = {}
  /\ stop' = "returned"
  /\ UNCHANGED <<table, done, streams, outside, routing, ranging>>

StopStep == StopRange \/ (\E s \in ranging : StopEntry(s)) \/ StopReturn

-----------------------------------------------------------------------------
(* The application and the aggregator *)

\* The application closes its side of localConn, or both.
AppEnds(s) ==
  /\ app[s] = "open" /\ handler[s] = "running"
  /\ app' = [app EXCEPT ![s] = "ended"]
  /\ UNCHANGED <<table, done, streams, reply, routing, stopping>>

\* readLoop puts an answer into inboundCh.
Receive(a) ==
  /\ Len(inboundCh) < InboundDepth
  /\ inboundCh' = Append(inboundCh, a)
  /\ UNCHANGED <<table, done, streams, app, demux, closing, stopping>>

\* The aggregator answers a stream it has a SYN of;
Answer(s) ==
  /\ sent[s] # <<>>
  /\ reply[s].n < Responses
  /\ reply' = [reply EXCEPT ![s].n = @ + 1]
  /\ Receive([stream |-> s, kind |-> "data", n |-> reply[s].n])

\* it ends the stream when the upstream has nothing more to say, or fails.
EndAnswer(s) ==
  \E kind \in Ends :
    /\ sent[s] # <<>>
    /\ reply[s].end = "none"
    /\ reply' = [reply EXCEPT ![s].end = kind]
    /\ Receive([stream |-> s, kind |-> kind, n |-> 0])

-----------------------------------------------------------------------------

Next ==
  \/ DemuxStep \/ StopCancel \/ StopStep
  \/ \E s \in Streams :
       \/ NewStream(s) \/ RunReturns(s) \/ OutStep(s) \/ InStep(s)
       \/ StopEntry(s) \/ AppEnds(s) \/ Answer(s) \/ EndAnswer(s)

Spec == Init /\ [][Next]_vars

\* The client's goroutines go on when they can.  A read of localConn returns
\* when it is closed or has something; a write returns when localConn is
\* closed, but the application may never read what is written to it.  Nobody
\* need connect, answer or call Stop.
FairSpec ==
  /\ Spec
  /\ WF_vars(DemuxStep)
  /\ WF_vars(StopStep)
  /\ \A s \in Streams :
       /\ WF_vars(OutStep(s))
       /\ WF_vars(SeeDone(s) \/ InExit(s))
       /\ WF_vars(RunReturns(s))

-----------------------------------------------------------------------------
(* Properties *)

TypeOK ==
  /\ handler \in [Streams -> {"handshake", "running", "gone"}]
  /\ registry \subseteq Streams
  /\ done \subseteq Streams
  /\ out \in [Streams -> {"idle", "syn", "read", "chunk", "fin", "closing",
                         "exited"}]
  /\ in \in [Streams -> {"idle", "select", "closing", "exited"}]
  /\ offset \in [Streams -> 0..Chunks]
  /\ \A s \in Streams : out[s] = "chunk" => offset[s] > 0
  /\ sent \in [Streams -> Seq(Frames)]
  /\ queue \in [Streams -> Seq(0..Responses)]
  /\ got \in [Streams -> Seq(0..Responses)]
  /\ app \in [Streams -> {"open", "ended"}]
  /\ reply \in [Streams -> [n : 0..Responses, end : Ends \cup {"none"}]]
  /\ inboundCh \in Seq(Answers)
  /\ \A s \in Streams : Len(queue[s]) <= QueueDepth
  /\ Len(inboundCh) <= InboundDepth
  /\ demux \in {"select", "closing", "exited"}
  /\ closing \subseteq Streams
  /\ stop \in {"none", "waiting", "ranging", "returned"}
  /\ ranging \subseteq Streams

\* What bearers got of a stream is its SYN, its chunks without a gap and, last,
\* perhaps FIN, whose offset is the length of them all: the aggregator is never
\* told that a stream is complete of which a chunk found no bearer.
FinTellsAll ==
  \A s \in Streams : \A i \in 1..Len(sent[s]) :
    /\ sent[s][i].flag = "SYN" <=> i = 1
    /\ i > 1 => sent[s][i].seq = i - 2
    /\ sent[s][i].flag = "FIN" => i = Len(sent[s])

\* As long as it is not closed, a stream that runs can be found by Stop and by
\* the frames that end it, or one of these is closing it.
LiveIsRegistered ==
  \A s \in Streams : handler[s] = "running" =>
    s \in registry \cup closing \cup done

\* When a stream was closed, by whomever, or one of its goroutines gives up, the
\* other one gives up too, and the handler returns.
StreamEnds ==
  \A s \in Streams :
    s \in done \/ out[s] = "closing" \/ in[s] = "closing" ~> handler[s] = "gone"

\* The aggregator's FIN or RST ends its stream, whatever the application leaves
\* unread, unless Stop comes first.
EndReaches ==
  \A s \in Streams :
    reply[s].end # "none" ~> handler[s] = "gone" \/ stop # "none"

\* Stop returns, whatever the streams and the aggregator do.
StopReturns == stop = "waiting" ~> stop = "returned"
=============================================================================
