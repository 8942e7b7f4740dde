--------------------------- MODULE AggregatorServer ---------------------------
(***************************************************************************)
(* The aggregator: bearers read frames and queue them for the one route    *)
(* loop; the route loop opens, feeds and closes streams; each stream has a *)
(* goroutine that dials the upstream and writes to it and one that reads   *)
(* from it and replies over the bearers; Run stops them all.               *)
(*                                                                         *)
(* A stream object is named by the SYN frame that made it: IDs may be used *)
(* again, by a client that restarted, and objects with one ID are distinct.*)
(* A frame is a record [id, session, flag, seq, len]; session tells which  *)
(* of the ID's uses the client sent it for (the wire does not).            *)
(***************************************************************************)
EXTENDS Integers, Sequences, FiniteSets, Reassembly

CONSTANTS Bearers,      \* the connections that clients may make
          Ids,          \* stream IDs
          Frames,       \* the frames clients send, each at most once
          BadTargets,   \* the SYN frames whose target does not decode
          FrameDepth,   \* the capacity of frameCh
          OutDepth,     \* the capacity of a reassembler's outCh
          MaxBuffer,    \* MaxReassemblyBuffer, 0 for no limit
          MaxStreams,   \* 0 for no limit
          MaxAttempts,  \* the attempts of sendFrame
          Responses,    \* bound: response chunks an upstream sends
          Failures,     \* bound: how often a bearer, or Accept, fails
          Cancels,      \* bound: 0 when nobody stops the server
          None

Streams == {f \in Frames : f.flag = "SYN"}

ASSUME FramesAssumption ==
  \A f \in Frames :
    f = [id |-> f.id, session |-> f.session, flag |-> f.flag,
         seq |-> f.seq, len |-> f.len]
    /\ f.id \in Ids /\ f.flag \in {"SYN", "DATA", "FIN", "RST"}
    /\ f.seq \in Nat /\ f.len \in Nat
\* The builders of the other frames give them no stream data.
ASSUME PayloadAssumption ==
  \A f \in Frames : f.len > 0 => f.flag = "DATA"
ASSUME BadTargetsAssumption == BadTargets \subseteq Streams
ASSUME BoundsAssumption ==
  /\ FrameDepth \in Nat \ {0} /\ OutDepth \in Nat \ {0}
  /\ MaxAttempts \in Nat \ {0}
  /\ MaxBuffer \in Nat /\ MaxStreams \in Nat /\ Responses \in Nat
  /\ Failures \in Nat /\ Cancels \in 0..1
ASSUME NoneAssumption == None \notin Bearers \cup Frames

VARIABLES
  bearer,     \* each bearer: "new", "live" (registered), "marked" (markClosed),
              \* "closed" (Stop), "leaked" (markClosed, its read loop ended)
  via,        \* the bearer each frame was read from, or None
  sticky,     \* streamIDs of each bearer
  frameCh,    \* the frames queued for the route loop
  route,      \* the route loop: [at, s, f]
  table,      \* streams: the stream object of each ID, or None
  count,      \* streamCount
  expected, held, outCh,   \* the reassembler of each stream
  written,    \* the frames each stream has written to its upstream
  conn,       \* upstream: "none" before the dial returned, "open", "closed"
  pump,       \* where dialAndPumpUpstream is
  resp,       \* where pumpResponse is
  tries,      \* sendFrame's failed attempts at the frame in hand
  closing,    \* Close: "open", "closing" (done is closed), "closed"
  replies,    \* the frames sent to the client for each stream
  read,       \* the response chunks read from each upstream
  failures,   \* how many of the Failures have happened
  cancelled,  \* ctx is done
  main        \* Run: [at, s]

inbound  == <<via, frameCh>>
registry == <<bearer, failures, sticky>>
router   == <<table, count>>
feed     == <<expected, held, outCh>>
life     == <<conn, closing>>
reply    == <<replies, tries, read>>
control  == <<cancelled, main>>
vars == <<inbound, registry, route, router, feed, written, life, pump, resp,
          reply, control>>

-----------------------------------------------------------------------------

Live == {b \in Bearers : bearer[b] = "live"}
Reading == {b \in Bearers : bearer[b] \in {"live", "marked"}}
Lost == {b \in Bearers : bearer[b] \in {"marked", "closed", "leaked"}}
Arrived == {f \in Frames : via[f] # None}
Started == {s \in Streams : pump[s] # "none"}
Registered == {i \in Ids : table[i] # None}

Done(s) == closing[s] # "open"

Idle == [at |-> "idle", s |-> None, f |-> None]

\* Nothing has come over any bearer.
Initially(state) ==
  /\ bearer = [b \in Bearers |-> state]
  /\ via = [f \in Frames |-> None]
  /\ sticky = [b \in Bearers |-> {}]
  /\ frameCh = <<>>
  /\ route = Idle
  /\ table = [i \in Ids |-> None]
  /\ count = 0
  /\ expected = [s \in Streams |-> 0]
  /\ held = [s \in Streams |-> {}]
  /\ outCh = [s \in Streams |-> <<>>]
  /\ written = [s \in Streams |-> <<>>]
  /\ conn = [s \in Streams |-> "none"]
  /\ pump = [s \in Streams |-> "none"]
  /\ resp = [s \in Streams |-> "none"]
  /\ tries = [s \in Streams |-> 0]
  /\ closing = [s \in Streams |-> "open"]
  /\ replies = [s \in Streams |-> <<>>]
  /\ read = [s \in Streams |-> 0]
  /\ failures = 0
  /\ cancelled = FALSE
  /\ main = [at |-> "accepting", s |-> None]

Init == Initially("new")

-----------------------------------------------------------------------------
(* Bearers *)

\* Run accepts a connection and spawns a bearer, which registers itself.
Accept(b) ==
  /\ main.at = "accepting"
  /\ bearer[b] = "new"
  /\ bearer' = [bearer EXCEPT ![b] = "live"]
  /\ UNCHANGED <<inbound, failures, sticky, route, router, feed, written, life, pump,
                 resp, reply, control>>

\* The client sends the frames of a session in this order, each over a bearer
\* of its choice.
Before(f, g) ==
  /\ f.id = g.id /\ f.session = g.session
  /\ \/ f.flag = "SYN" /\ g.flag # "SYN"
     \/ f.flag = "DATA" /\ g.flag = "DATA" /\ f.seq < g.seq
     \/ f.flag = "DATA" /\ g.flag \in {"FIN", "RST"}

\* Fault: a queue that takes every frame.
UnboundedShim(f) == Append(frameCh, f)

\* routerShim.Route drops a frame that finds frameCh full.
RouterShim(f) ==
  IF Len(frameCh) < FrameDepth THEN Append(frameCh, f) ELSE frameCh

\* readLoop reads a frame, records the stream of a SYN and passes the frame on.
\* A bearer is a TCP connection: it delivers in order what was sent over it.
ReadFrame(b, f) ==
  /\ b \in Reading
  /\ via[f] = None
  /\ \A g \in Frames : via[g] = b => ~Before(f, g)
  /\ via' = [via EXCEPT ![f] = b]
  /\ sticky' = IF f.flag = "SYN" THEN [sticky EXCEPT ![b] = @ \cup {f.id}]
                                 ELSE sticky
  /\ frameCh' = RouterShim(f)
  /\ UNCHANGED <<bearer, failures, route, router, feed, written, life, pump, resp,
                 reply, control>>

Fail == failures < Failures /\ failures' = failures + 1

\* readLoop fails to read, and its deferred Stop closes the connection and
\* deregisters the bearer, unless markClosed already set the closed flag.
ReadError(b) ==
  /\ b \in Reading
  /\ Fail
  /\ bearer' = [bearer EXCEPT ![b] = IF @ = "live" THEN "closed" ELSE "leaked"]
  /\ UNCHANGED <<inbound, sticky, route, router, feed, written, life, pump,
                 resp, reply, control>>

-----------------------------------------------------------------------------
(* Sending to the client *)

\* Fault: replies go round all bearers.
PickAny(id) == Live

\* PickFor: a live bearer that read the stream's SYN, else any live one (Pick
\* goes round all of them, from a position that other calls move).
PickFor(id) ==
  LET own == {b \in Live : id \in sticky[b]}
  IN  IF own # {} THEN own ELSE Live

\* SendFrame of a frame of s over b, written to the connection or failing.  A
\* sender that found closed unset may wait for writeMu, and write though the
\* bearer was marked meanwhile: its frame counts from that test.
SendFrame(s, flag, b) ==
  /\ replies' = [replies EXCEPT ![s] = Append(@, [flag |-> flag, via |-> b])]
  /\ UNCHANGED <<bearer, failures>>
MarkClosed(b) ==
  /\ Fail
  /\ bearer' = [bearer EXCEPT ![b] = "marked"]
  /\ UNCHANGED replies

\* The picked bearer was lost before SendFrame's test, or while it waited for
\* writeMu; PickFor picks none twice, so a lost one for each of the tries.
SendLost(failed) ==
  /\ failed < Cardinality(Lost)
  /\ UNCHANGED <<bearer, failures, replies>>

\* sendRST and sendRSTViaBearers: one attempt, over one of some bearers.
SendRST(s, candidates) ==
  \/ candidates = {} /\ UNCHANGED <<bearer, failures, replies>>
  \/ SendLost(0)
  \/ \E b \in candidates : SendFrame(s, "RST", b) \/ MarkClosed(b)

-----------------------------------------------------------------------------
(* Closing a stream *)

\* Who has called Close: a goroutine of the stream on its way out, the route
\* loop, or CloseAll.  Each goes on when closing[s] is "closed": sync.Once makes
\* later calls wait for the first.
IsClosing(s) ==
  \/ pump[s] = "leaving" \/ resp[s] = "leaving"
  \/ route.at = "close" /\ route.s = s
  \/ main.at = "waiting" /\ main.s = s

\* The first call closes done and, if the dial has set it, the upstream.
BeginClose(s) ==
  /\ IsClosing(s)
  /\ closing[s] = "open"
  /\ closing' = [closing EXCEPT ![s] = "closing"]
  /\ conn' = [conn EXCEPT ![s] = IF @ = "open" THEN "closed" ELSE @]
  /\ UNCHANGED <<inbound, registry, route, router, feed, written, pump, resp,
                 reply, control>>

\* Fault: onStreamClose counts down whether or not it found the entry.
FinishCloseCountsAlways(s) ==
  /\ closing[s] = "closing"
  /\ closing' = [closing EXCEPT ![s] = "closed"]
  /\ table' = [table EXCEPT ![s.id] = None]
  /\ count' = count - 1
  /\ sticky' = [b \in Bearers |->
                 IF b \in Live THEN sticky[b] \ {s.id} ELSE sticky[b]]
  /\ UNCHANGED <<inbound, bearer, failures, route, feed, written, conn, pump,
                 resp, reply, control>>

\* It goes on with onStreamClose: whatever object has the ID leaves
\* the table, and the registered bearers forget the ID.
FinishClose(s) ==
  /\ closing[s] = "closing"
  /\ closing' = [closing EXCEPT ![s] = "closed"]
  /\ table' = [table EXCEPT ![s.id] = None]
  /\ count' = IF table[s.id] # None THEN count - 1 ELSE count
  /\ sticky' = [b \in Bearers |->
                 IF b \in Live THEN sticky[b] \ {s.id} ELSE sticky[b]]
  /\ UNCHANGED <<inbound, bearer, failures, route, feed, written, conn, pump, resp,
                 reply, control>>

CloseStep(s) == BeginClose(s) \/ FinishClose(s)

-----------------------------------------------------------------------------
(* The route loop *)

\* The route loop receives the next frame.
Dequeue(f) ==
  /\ route.at = "idle"
  /\ frameCh # <<>>
  /\ f = Head(frameCh)
  /\ frameCh' = Tail(frameCh)

\* Fault: closeStream forgets to call Close.
RouteCloseDropsOnly ==
  \E f \in Frames, s \in Streams :
    /\ Dequeue(f)
    /\ f.flag \in {"RST", "FIN"}
    /\ s = table[f.id]
    /\ table' = [table EXCEPT ![f.id] = None]
    /\ count' = count - 1
    /\ UNCHANGED <<via, registry, route, feed, written, life, pump, resp, reply,
                   control>>

\* closeStream, for a RST or a FIN: the object leaves the table and is closed.
RouteClose ==
  \E f \in Frames, s \in Streams :
    /\ Dequeue(f)
    /\ f.flag \in {"RST", "FIN"}
    /\ s = table[f.id]
    /\ table' = [table EXCEPT ![f.id] = None]
    /\ count' = count - 1
    /\ route' = [at |-> "close", s |-> s, f |-> None]
    /\ UNCHANGED <<via, registry, feed, written, life, pump, resp, reply,
                   control>>

\* Data or a FIN for a stream that is not registered changes nothing, and no
\* more does a RST, or data that the stream's reassembler ignores.
Ignored(f) ==
  IF table[f.id] = None
  THEN f.flag # "SYN"
  ELSE f.flag = "DATA" /\ IsIgnored(f, expected[table[f.id]])

RouteIgnored ==
  \E f \in Frames :
    /\ Dequeue(f)
    /\ Ignored(f)
    /\ UNCHANGED <<via, registry, route, router, feed, written, life, pump,
                   resp, reply, control>>

\* Fault: the limit is checked off by one.
AtLimitLate == MaxStreams > 0 /\ count > MaxStreams

AtLimit == MaxStreams > 0 /\ count >= MaxStreams

\* handleSYN registers and starts a new stream, in place of any old one.
HandleSYN ==
  \E f \in Streams \ BadTargets :
    /\ Dequeue(f)
    /\ ~AtLimit
    /\ table' = [table EXCEPT ![f.id] = f]
    /\ count' = count + 1
    /\ pump' = [pump EXCEPT ![f] = "dialing"]
    /\ resp' = [resp EXCEPT ![f] = "waiting"]
    /\ UNCHANGED <<via, registry, route, feed, written, life, reply, control>>

\* handleSYN refuses one, with a RST over the SYN's bearer if it is open.
RefuseSYN ==
  \E f \in Streams :
    /\ Dequeue(f)
    /\ AtLimit \/ f \in BadTargets
    /\ SendRST(f, IF via[f] \in Live THEN {via[f]} ELSE Live)
    /\ UNCHANGED <<via, sticky, route, router, feed, written, life, pump, resp,
                   tries, read, control>>

\* Data for a registered stream, open or not: Push of its reassembler.
Data(f, s) ==
  /\ Dequeue(f)
  /\ f.flag = "DATA"
  /\ s = table[f.id]

PushNext ==
  \E f \in Frames, s \in Streams :
    /\ Data(f, s)
    /\ IsNext(f, expected[s])
    /\ route' = [at |-> "send", s |-> s, f |-> f]
    /\ UNCHANGED <<via, registry, router, feed, written, life, pump, resp,
                   reply, control>>

PushEarly ==
  \E f \in Frames, s \in Streams :
    /\ Data(f, s)
    /\ IsEarly(f, expected[s])
    /\ ~IsFull(held[s], MaxBuffer)
    /\ held' = [held EXCEPT ![s] = @ \cup {f}]
    /\ UNCHANGED <<via, registry, route, router, expected, outCh, written,
                   life, pump, resp, reply, control>>

\* The heap is full: AggregatorStream.Push sends a RST and closes the stream.
PushOverflow ==
  \E f \in Frames, s \in Streams :
    /\ Data(f, s)
    /\ IsEarly(f, expected[s])
    /\ IsFull(held[s], MaxBuffer)
    /\ SendRST(s, PickFor(s.id))
    /\ route' = [at |-> "close", s |-> s, f |-> None]
    /\ UNCHANGED <<via, sticky, router, feed, written, life, pump, resp, tries, read,
                   control>>

OutHasRoom(s) == Len(outCh[s]) < OutDepth

\* The send to outCh completes and flush pops the next frame to send, or Push
\* returns.
RouteSend ==
  LET s    == route.s
      next == End(route.f)
  IN  /\ route.at = "send"
      /\ OutHasRoom(s)
      /\ outCh' = [outCh EXCEPT ![s] = Append(@, route.f)]
      /\ expected' = [expected EXCEPT ![s] = next]
      /\ \/ \E g \in Flushable(held[s], next) :
              /\ held' = [held EXCEPT ![s] = @ \ {g}]
              /\ route' = [route EXCEPT !.f = g]
         \/ /\ Flushable(held[s], next) = {}
            /\ route' = Idle
            /\ UNCHANGED held
      /\ UNCHANGED <<inbound, registry, router, written, life, pump, resp,
                     reply, control>>

\* The Close that the route loop called, or waited for, has returned.
RouteClosed ==
  /\ route.at = "close"
  /\ closing[route.s] = "closed"
  /\ route' = Idle
  /\ UNCHANGED <<inbound, registry, router, feed, written, life, pump, resp,
                 reply, control>>

\* ctx is done and the drain finds frameCh empty.
RouteExit ==
  /\ cancelled
  /\ route.at = "idle"
  /\ frameCh = <<>>
  /\ route' = [Idle EXCEPT !.at = "exited"]
  /\ UNCHANGED <<inbound, registry, router, feed, written, life, pump, resp,
                 reply, control>>

RouteStep ==
  \/ RouteClose \/ RouteIgnored \/ HandleSYN \/ RefuseSYN
  \/ PushNext \/ PushEarly \/ PushOverflow
  \/ RouteSend \/ RouteClosed \/ RouteExit

-----------------------------------------------------------------------------
(* dialAndPumpUpstream *)

\* The dial succeeds, whether or not the stream was closed meanwhile.
DialOK(s) ==
  /\ pump[s] = "dialing"
  /\ conn' = [conn EXCEPT ![s] = "open"]
  /\ pump' = [pump EXCEPT ![s] = "writing"]
  /\ UNCHANGED <<inbound, registry, route, router, feed, written, closing,
                 resp, reply, control>>

\* The dial fails: a RST, and the goroutine leaves.
DialFail(s) ==
  /\ pump[s] = "dialing"
  /\ SendRST(s, PickFor(s.id))
  /\ pump' = [pump EXCEPT ![s] = "leaving"]
  /\ UNCHANGED <<inbound, sticky, route, router, feed, written, life, resp,
                 tries, read, control>>

\* A chunk from Out() is written to the upstream connection.
Write(s) ==
  /\ pump[s] = "writing"
  /\ outCh[s] # <<>>
  /\ conn[s] = "open"
  /\ outCh' = [outCh EXCEPT ![s] = Tail(@)]
  /\ written' = [written EXCEPT ![s] = Append(@, Head(outCh[s]))]
  /\ UNCHANGED <<inbound, registry, route, router, expected, held, life, pump,
                 resp, reply, control>>

\* The deferred conn.Close of a pump that leaves its loop.
LeavePump(s) ==
  /\ pump' = [pump EXCEPT ![s] = "leaving"]
  /\ conn' = [conn EXCEPT ![s] = "closed"]
  /\ UNCHANGED closing

\* The write fails, by itself or because the connection was closed.
WriteFail(s) ==
  /\ pump[s] = "writing"
  /\ outCh[s] # <<>>
  /\ outCh' = [outCh EXCEPT ![s] = Tail(@)]
  /\ LeavePump(s)
  /\ UNCHANGED <<inbound, registry, route, router, expected, held, written,
                 resp, reply, control>>

\* select sees done; it may as well take a chunk that is there.
PumpDone(s) ==
  /\ pump[s] = "writing"
  /\ Done(s)
  /\ LeavePump(s)
  /\ UNCHANGED <<inbound, registry, route, router, feed, written, resp, reply,
                 control>>

\* The deferred Close returns.
PumpExit(s) ==
  /\ pump[s] = "leaving"
  /\ closing[s] = "closed"
  /\ pump' = [pump EXCEPT ![s] = "exited"]
  /\ UNCHANGED <<inbound, registry, route, router, feed, written, life, resp,
                 reply, control>>

PumpStep(s) ==
  \/ DialOK(s) \/ DialFail(s) \/ Write(s) \/ WriteFail(s)
  \/ PumpDone(s) \/ PumpExit(s)

-----------------------------------------------------------------------------
(* pumpResponse *)

\* The select on upstreamReady and done.
RespReady(s) ==
  /\ resp[s] = "waiting"
  /\ conn[s] # "none"
  /\ resp' = [resp EXCEPT ![s] = "reading"]
  /\ UNCHANGED <<inbound, registry, route, router, feed, written, life, pump,
                 reply, control>>

\* Fault: pumpResponse waits for the upstream only.
RespDoneDialled(s) ==
  /\ resp[s] = "waiting"
  /\ Done(s)
  /\ conn[s] # "none"
  /\ resp' = [resp EXCEPT ![s] = "leaving"]
  /\ UNCHANGED <<inbound, registry, route, router, feed, written, life, pump,
                 reply, control>>

RespDone(s) ==
  /\ resp[s] = "waiting"
  /\ Done(s)
  /\ resp' = [resp EXCEPT ![s] = "leaving"]
  /\ UNCHANGED <<inbound, registry, route, router, feed, written, life, pump,
                 reply, control>>

\* Read returns bytes, and the goroutine has a chunk to send.
ReadChunk(s) ==
  /\ resp[s] = "reading"
  /\ conn[s] = "open"
  /\ read[s] < Responses
  /\ read' = [read EXCEPT ![s] = @ + 1]
  /\ resp' = [resp EXCEPT ![s] = "DATA"]
  /\ UNCHANGED <<inbound, registry, route, router, feed, written, life, pump,
                 replies, tries, control>>

\* Read fails, at the upstream's end of stream, for an error, or because the
\* connection was closed here: the goroutine has a FIN to send.
ReadEnd(s) ==
  /\ resp[s] = "reading"
  /\ resp' = [resp EXCEPT ![s] = "FIN"]
  /\ UNCHANGED <<inbound, registry, route, router, feed, written, life, pump,
                 reply, control>>

\* Fault: pumpResponse ignores the error of sendFrame.
ContinueAnyway(s, sent) ==
  /\ tries' = [tries EXCEPT ![s] = 0]
  /\ resp' = [resp EXCEPT ![s] = IF @ = "DATA" THEN "reading" ELSE "leaving"]

\* sendFrame returns: after a chunk the goroutine reads on, after a FIN or an
\* error it leaves.
Continue(s, sent) ==
  /\ tries' = [tries EXCEPT ![s] = 0]
  /\ resp' = [resp EXCEPT ![s] =
                IF sent /\ @ = "DATA" THEN "reading" ELSE "leaving"]

\* One attempt of sendFrame: written, failed, or no bearer to pick.
Respond(s) ==
  /\ resp[s] \in {"DATA", "FIN"}
  /\ \/ \E b \in PickFor(s.id) : SendFrame(s, resp[s], b) /\ Continue(s, TRUE)
     \/ /\ SendLost(tries[s]) \/ \E b \in PickFor(s.id) : MarkClosed(b)
        /\ IF tries[s] + 1 < MaxAttempts
           THEN /\ tries' = [tries EXCEPT ![s] = @ + 1]
                /\ UNCHANGED resp
           ELSE Continue(s, FALSE)
     \/ Live = {} /\ Continue(s, FALSE) /\ UNCHANGED <<bearer, failures, replies>>
  /\ UNCHANGED <<inbound, sticky, route, router, feed, written, life, pump,
                 read, control>>

\* The deferred Close returns.
RespExit(s) ==
  /\ resp[s] = "leaving"
  /\ closing[s] = "closed"
  /\ resp' = [resp EXCEPT ![s] = "exited"]
  /\ UNCHANGED <<inbound, registry, route, router, feed, written, life, pump,
                 reply, control>>

RespStep(s) ==
  \/ RespReady(s) \/ RespDone(s) \/ ReadChunk(s) \/ ReadEnd(s)
  \/ Respond(s) \/ RespExit(s)

-----------------------------------------------------------------------------
(* Run and shutdown *)

Cancel ==
  /\ Cancels > 0
  /\ ~cancelled
  /\ cancelled' = TRUE
  /\ UNCHANGED <<inbound, registry, route, router, feed, written, life, pump,
                 resp, reply, main>>

MainStep(at, s) ==
  /\ main' = [at |-> at, s |-> s]
  /\ UNCHANGED <<inbound, bearer, sticky, route, feed, written, life, pump,
                 resp, reply, cancelled>>

\* Accept fails: Stop closed the listener, or the system had no descriptor.
AcceptError ==
  /\ main.at = "accepting"
  /\ (cancelled /\ UNCHANGED failures) \/ Fail
  /\ MainStep("joining", None)
  /\ UNCHANGED router

\* Fault: Run does not wait for the route loop.
JoinNobody ==
  /\ main.at = "joining"
  /\ MainStep("closing", None)
  /\ UNCHANGED <<router, failures>>

\* wg.Wait returns when the route loop has.
Join ==
  /\ main.at = "joining"
  /\ route.at = "exited"
  /\ MainStep("closing", None)
  /\ UNCHANGED <<router, failures>>

\* CloseAll: Range loads an entry, ...
LoadEntry ==
  \E i \in Registered :
    /\ main.at = "closing"
    /\ MainStep("loaded", table[i])
    /\ UNCHANGED <<router, failures>>

\* ... the entry is deleted and counted down, there or not, and closed.
DropEntry ==
  /\ main.at = "loaded"
  /\ table' = [table EXCEPT ![main.s.id] = None]
  /\ count' = count - 1
  /\ MainStep("waiting", main.s)
  /\ UNCHANGED failures

EntryClosed ==
  /\ main.at = "waiting"
  /\ closing[main.s] = "closed"
  /\ MainStep("closing", None)
  /\ UNCHANGED <<router, failures>>

Stopped ==
  /\ main.at = "closing"
  /\ Registered = {}
  /\ MainStep("stopped", None)
  /\ UNCHANGED <<router, failures>>

CloseAll == LoadEntry \/ DropEntry \/ EntryClosed \/ Stopped

-----------------------------------------------------------------------------

Next ==
  \/ \E b \in Bearers : Accept(b) \/ ReadError(b)
  \/ \E b \in Bearers, f \in Frames : ReadFrame(b, f)
  \/ RouteStep
  \/ \E s \in Streams : PumpStep(s) \/ RespStep(s) \/ CloseStep(s)
  \/ Cancel \/ AcceptError \/ Join \/ CloseAll

Spec == Init /\ [][Next]_vars

\* While a goroutine can go on, one does: each of these steps uses up something
\* that is bounded, so that in the end all have gone on as far as they can.  A
\* dial ends at the latest by its timeout; a Read ends when the connection is
\* closed; an upstream takes what is written to it, or the write fails.  Nothing
\* is assumed of clients, their bearers, what upstreams answer, or that anyone
\* stops the server.
Progress ==
  \/ RouteStep
  \/ \E s \in Streams :
       \/ PumpStep(s) \/ CloseStep(s)
       \/ RespReady(s) \/ RespDone(s) \/ Respond(s) \/ RespExit(s)
       \/ conn[s] = "closed" /\ ReadEnd(s)
  \/ cancelled /\ AcceptError
  \/ Join \/ CloseAll

Fairness == WF_vars(Progress)

FairSpec == Spec /\ Fairness

-----------------------------------------------------------------------------
(* Properties *)

TypeOK ==
  /\ bearer \in [Bearers -> {"new", "live", "marked", "closed", "leaked"}]
  /\ via \in [Frames -> Bearers \cup {None}]
  /\ sticky \in [Bearers -> SUBSET Ids]
  /\ frameCh \in Seq(Frames) /\ Len(frameCh) <= FrameDepth
  /\ route \in [at : {"idle", "send", "close", "exited"},
                s : Streams \cup {None}, f : Frames \cup {None}]
  /\ route.s # None <=> route.at \in {"send", "close"}
  /\ route.f # None <=> route.at = "send"
  /\ table \in [Ids -> Streams \cup {None}]
  /\ count \in Int
  /\ expected \in [Streams -> Nat]
  /\ held \in [Streams -> SUBSET Frames]
  /\ outCh \in [Streams -> Seq(Frames)]
  /\ \A s \in Streams : Len(outCh[s]) <= OutDepth
  /\ written \in [Streams -> Seq(Frames)]
  /\ conn \in [Streams -> {"none", "open", "closed"}]
  /\ pump \in [Streams -> {"none", "dialing", "writing", "leaving", "exited"}]
  /\ resp \in [Streams -> {"none", "waiting", "reading", "DATA", "FIN",
                           "leaving", "exited"}]
  /\ tries \in [Streams -> 0..(MaxAttempts - 1)]
  /\ closing \in [Streams -> {"open", "closing", "closed"}]
  /\ replies \in
       [Streams -> Seq([flag : {"DATA", "FIN", "RST"}, via : Bearers])]
  /\ read \in [Streams -> 0..Responses]
  /\ failures \in 0..Failures
  /\ cancelled \in BOOLEAN
  /\ main \in [at : {"accepting", "joining", "closing", "loaded", "waiting",
                     "stopped"},
               s : Streams \cup {None}]
  /\ main.s # None <=> main.at \in {"loaded", "waiting"}

\* What an upstream receives is the client's own bytes from 0 on, without gap
\* or repetition, in spite of the order the bearers deliver frames in.
UpstreamInOrder ==
  \A s \in Streams : \A i \in 1..Len(written[s]) :
    LET f == written[s][i]
    IN  /\ f.id = s.id /\ f.session = s.session
        /\ f.seq = IF i = 1 THEN 0 ELSE End(written[s][i - 1])

\* The clients use an ID for one session, and open it with one SYN: one client,
\* whose NextID counts up, does; a client that is restarted does not.
UsedOnce ==
  /\ \A f, g \in Frames : f.id = g.id => f.session = g.session
  /\ \A s, t \in Streams : s.id = t.id => s = t

\* streamCount is the number of registered streams, whoever closes a stream and
\* however calls of Close overlap: a count that drifts up refuses streams for
\* good, one that drifts down defeats MaxStreams.
CountExact ==
  main.at \in {"accepting", "joining"} => count = Cardinality(Registered)

\* A stream that nobody is closing is registered, so that its frames, a FIN or
\* CloseAll reach it; no goroutine is left running for a stream nobody can find.
OpenIsRegistered ==
  \A s \in Started : ~Done(s) /\ ~IsClosing(s) => table[s.id] = s

\* MaxStreams bounds the streams that are open, not only those counted.
WithinLimit ==
  MaxStreams > 0 => Cardinality({s \in Started : ~Done(s)}) <= MaxStreams

\* When Run returns no stream is registered or open, though bearers go on
\* reading frames after the route loop has gone.
StoppedClean ==
  main.at = "stopped" => Registered = {} /\ \A s \in Started : Done(s)

\* Until a stream is closed, its replies keep to the bearer that read its SYN
\* for as long as that one is live (the client has no response reassembler).
RepliesSticky ==
  [][\A s \in Started :
       replies'[s] # replies[s] /\ ~Done(s) /\ via[s] \in Live =>
         replies'[s][Len(replies'[s])].via = via[s]]_vars

\* Of the chunks read from an upstream each is sent to the client once, and only
\* the last can be missing: sendFrame has it in hand, or gave it up, and then
\* pumpResponse sends nothing more.  A FIN follows all of them.
ChunksOnce ==
  \A s \in Streams :
    LET Sent(flag) == {i \in DOMAIN replies[s] : replies[s][i].flag = flag}
        missing    == read[s] - Cardinality(Sent("DATA"))
    IN  /\ missing \in {0, 1}
        /\ resp[s] \in {"reading", "FIN"} \/ Sent("FIN") # {} => missing = 0
        /\ \A i \in Sent("DATA"), j \in Sent("FIN") : i < j

\* Route returns to the route loop: one stream cannot stop all of them.
RouteLoopReturns == []<>(route.at \in {"idle", "exited"})

\* However calls overlap, the server comes to rest: Route has returned, both
\* goroutines of every closed stream have exited, also when Close was called
\* before the dial returned and so did not see the connection, and Run has
\* returned if ctx is done.
WoundDown(s) == Done(s) => pump[s] = "exited" /\ resp[s] = "exited"
ShutDown == cancelled => main.at = "stopped"
Settles ==
  []<>(/\ route.at \in {"idle", "exited"}
       /\ \A s \in Streams : WoundDown(s)
       /\ ShutDown)

-----------------------------------------------------------------------------
(* What the repository says of the aggregator and the code does not do *)

\* stream_router.go: ActiveCount "returns the number of currently registered
\* streams", and MaxStreams is enforced by it.
ActiveCountExact == count = Cardinality(Registered)
=============================================================================
