----------------------- MODULE AggregatorServer_proofs -----------------------
(***************************************************************************)
(* Proofs about AggregatorServer, for any bearers, frames, capacities and  *)
(* bounds.                                                                 *)
(***************************************************************************)
EXTENDS AggregatorServer, FiniteSetTheorems, SequenceTheorems, TLAPS

-----------------------------------------------------------------------------
(* Type correctness *)

LEMMA FrameTypes ==
  /\ Streams \subseteq Frames
  /\ \A f \in Frames : /\ f.id \in Ids /\ f.seq \in Nat /\ f.len \in Nat
                       /\ f.flag \in {"SYN", "DATA", "FIN", "RST"}
  BY FramesAssumption DEF Streams

\* The bearers may be connected already at the start.
Starts == \E state \in {"new", "live"} : Initially(state)

LEMMA StartTypeOK == Starts => TypeOK
<1> SUFFICES ASSUME NEW state \in {"new", "live"}, Initially(state) PROVE TypeOK
  BY DEF Starts
<1> USE NoneAssumption, BoundsAssumption
<1>1. /\ frameCh \in Seq(Frames) /\ Len(frameCh) = 0
      /\ \A s \in Streams : Len(outCh[s]) = 0
      /\ outCh \in [Streams -> Seq(Frames)]
      /\ written \in [Streams -> Seq(Frames)]
      /\ replies \in
           [Streams -> Seq([flag : {"DATA", "FIN", "RST"}, via : Bearers])]
  BY DEF Initially
<1>2. route.at = "idle" /\ route \in [at : {"idle", "send", "close", "exited"},
                s : Streams \cup {None}, f : Frames \cup {None}]
      /\ route.s = None /\ route.f = None
  BY DEF Initially, Idle
<1>3. main.at = "accepting" /\ main.s = None /\ main \in [at : {"accepting", "joining", "closing", "loaded", "waiting",
                     "stopped"},
               s : Streams \cup {None}]
  BY DEF Initially
<1>4. /\ tries \in [Streams -> 0..(MaxAttempts - 1)]
      /\ read \in [Streams -> 0..Responses] /\ failures \in 0..Failures
      /\ Len(frameCh) <= FrameDepth /\ \A s \in Streams : Len(outCh[s]) <= OutDepth
  BY <1>1 DEF Initially
<1>5. /\ bearer \in [Bearers -> {"new", "live", "marked", "closed", "leaked"}]
      /\ via \in [Frames -> Bearers \cup {None}]
      /\ sticky \in [Bearers -> SUBSET Ids]
      /\ table \in [Ids -> Streams \cup {None}]
      /\ expected \in [Streams -> Nat] /\ held \in [Streams -> SUBSET Frames]
  BY DEF Initially
<1>6. /\ conn \in [Streams -> {"none", "open", "closed"}]
      /\ pump \in [Streams -> {"none", "dialing", "writing", "leaving", "exited"}]
      /\ resp \in [Streams -> {"none", "waiting", "reading", "DATA", "FIN",
                               "leaving", "exited"}]
      /\ closing \in [Streams -> {"open", "closing", "closed"}]
      /\ count \in Int
  BY DEF Initially
<1>7. cancelled \in BOOLEAN
  BY Zenon DEF Initially
<1> QED
  BY <1>1, <1>2, <1>3, <1>4, <1>5, <1>6, <1>7 DEF TypeOK

LEMMA InitTypeOK == Init => TypeOK
  BY StartTypeOK DEF Init, Starts

\* A bearer connects, reads a frame, or its read loop ends.
LEMMA BearerTypeOK ==
  ASSUME TypeOK, NEW b \in Bearers,
         Accept(b) \/ ReadError(b) \/ \E f \in Frames : ReadFrame(b, f)
  PROVE  TypeOK'
<1> USE DEF TypeOK
<1>1. CASE Accept(b)
  BY <1>1 DEF Accept, inbound, router, feed, life, reply, control
<1>2. CASE ReadError(b)
  BY <1>2, BoundsAssumption DEF ReadError, Fail, inbound, router, feed, life, reply, control
<1>3. ASSUME NEW f \in Frames, ReadFrame(b, f)
      PROVE  TypeOK'
  <2>1. via' \in [Frames -> Bearers \cup {None}] /\ sticky' \in [Bearers -> SUBSET Ids]
    BY <1>3, FrameTypes DEF ReadFrame
  <2>2. frameCh' \in Seq(Frames) /\ Len(frameCh') <= FrameDepth
    BY <1>3, BoundsAssumption DEF ReadFrame, RouterShim
  <2> QED
    BY <1>3, <2>1, <2>2 DEF ReadFrame, router, feed, life, reply, control
<1> QED
  BY <1>1, <1>2, <1>3

\* The bearers a frame may go over, and what one attempt changes.
LEMMA SendTypes ==
  ASSUME TypeOK, NEW s \in Streams, NEW flag \in {"DATA", "FIN", "RST"},
         NEW b \in Bearers, SendFrame(s, flag, b) \/ MarkClosed(b)
  PROVE  /\ bearer' \in [Bearers -> {"new", "live", "marked", "closed", "leaked"}]
         /\ failures' \in 0..Failures
         /\ replies' \in
              [Streams -> Seq([flag : {"DATA", "FIN", "RST"}, via : Bearers])]
<1>1. CASE SendFrame(s, flag, b)
  <2> DEFINE Reply == [flag : {"DATA", "FIN", "RST"}, via : Bearers]
             r     == [flag |-> flag, via |-> b]
  <2>1. r \in Reply /\ replies[s] \in Seq(Reply)
    BY DEF TypeOK
  <2> HIDE DEF Reply, r
  <2>2. Append(replies[s], r) \in Seq(Reply)
    BY <2>1, AppendProperties
  <2> USE DEF Reply, r
  <2> QED
    BY <1>1, <2>2 DEF TypeOK, SendFrame
<1>2. CASE MarkClosed(b)
  BY <1>2, BoundsAssumption DEF TypeOK, MarkClosed, Fail
<1> QED
  BY <1>1, <1>2

LEMMA RSTTypes ==
  ASSUME TypeOK, NEW s \in Streams, NEW C \in SUBSET Bearers, SendRST(s, C)
  PROVE  /\ bearer' \in [Bearers -> {"new", "live", "marked", "closed", "leaked"}]
         /\ failures' \in 0..Failures
         /\ replies' \in
              [Streams -> Seq([flag : {"DATA", "FIN", "RST"}, via : Bearers])]
<1>1. CASE UNCHANGED <<bearer, failures, replies>>
  BY <1>1 DEF TypeOK
<1>2. ASSUME NEW b \in C, SendFrame(s, "RST", b) \/ MarkClosed(b)
      PROVE  /\ bearer' \in [Bearers -> {"new", "live", "marked", "closed", "leaked"}]
             /\ failures' \in 0..Failures
             /\ replies' \in
                  [Streams -> Seq([flag : {"DATA", "FIN", "RST"}, via : Bearers])]
  BY <1>2, SendTypes
<1> QED
  BY <1>1, <1>2 DEF SendRST, SendLost

LEMMA PickTypes == \A id : PickFor(id) \subseteq Live /\ Live \subseteq Bearers
  BY DEF PickFor, Live

\* The route loop.
LEMMA RouteTypeOK == ASSUME TypeOK, RouteStep PROVE TypeOK'
<1> USE NoneAssumption, FrameTypes, BoundsAssumption DEF TypeOK
<1>d. ASSUME NEW f \in Frames, Dequeue(f)
      PROVE  /\ frameCh' \in Seq(Frames) /\ Len(frameCh') <= FrameDepth
             /\ route.at = "idle"
  BY <1>d DEF Dequeue
<1>1. CASE RouteClose
  <2>p. PICK f \in Frames, s \in Streams :
         /\ Dequeue(f) /\ s = table[f.id]
         /\ table' = [table EXCEPT ![f.id] = None]
         /\ count' = count - 1
         /\ route' = [at |-> "close", s |-> s, f |-> None]
         /\ UNCHANGED <<via, registry, feed, written, life, pump, resp, reply,
                        control>>
    BY <1>1 DEF RouteClose
  <2>1. route' \in [at : {"idle", "send", "close", "exited"},
                   s : Streams \cup {None}, f : Frames \cup {None}]
    BY <2>p
  <2>2. frameCh' \in Seq(Frames) /\ Len(frameCh') <= FrameDepth
    BY <1>d, <2>p
  <2>3. table' \in [Ids -> Streams \cup {None}] /\ count' \in Int
    BY SMTT(30), <2>p
  <2>4. /\ route'.s # None <=> route'.at \in {"send", "close"}
        /\ route'.f # None <=> route'.at = "send"
    BY <2>p
  <2>5. UNCHANGED <<via, registry, feed, written, life, pump, resp, reply, control>>
    BY <2>p
  <2> QED
    BY <2>1, <2>2, <2>3, <2>4, <2>5 DEF registry, feed, life, reply, control
<1>2. CASE RouteIgnored
  <2> PICK f \in Frames :
         /\ Dequeue(f)
         /\ UNCHANGED <<via, registry, route, router, feed, written, life, pump,
                        resp, reply, control>>
    BY <1>2 DEF RouteIgnored
  <2>1. frameCh' \in Seq(Frames) /\ Len(frameCh') <= FrameDepth
    BY <1>d
  <2> QED
    BY <2>1 DEF registry, router, feed, life, reply, control
<1>3. CASE HandleSYN
  <2> PICK f \in Streams :
         /\ Dequeue(f)
         /\ table' = [table EXCEPT ![f.id] = f]
         /\ count' = count + 1
         /\ pump' = [pump EXCEPT ![f] = "dialing"]
         /\ resp' = [resp EXCEPT ![f] = "waiting"]
         /\ UNCHANGED <<via, registry, route, feed, written, life, reply, control>>
    BY <1>3 DEF HandleSYN
  <2>2. frameCh' \in Seq(Frames) /\ Len(frameCh') <= FrameDepth
    BY <1>d
  <2>3. table' \in [Ids -> Streams \cup {None}] /\ count' \in Int
    OBVIOUS
  <2> QED
    BY <2>2, <2>3 DEF registry, feed, life, reply, control
<1>4. CASE RefuseSYN
  <2> PICK f \in Streams :
         /\ Dequeue(f)
         /\ SendRST(f, IF via[f] \in Live THEN {via[f]} ELSE Live)
         /\ UNCHANGED <<via, sticky, route, router, feed, written, life, pump, resp,
                   tries, read, control>>
    BY <1>4 DEF RefuseSYN
  <2>1. (IF via[f] \in Live THEN {via[f]} ELSE Live) \in SUBSET Bearers
    BY DEF Live
  <2> QED
    BY <1>d, <2>1, RSTTypes DEF router, feed, life, control
<1>5. CASE PushNext
  <2>p. PICK f \in Frames, s \in Streams :
         /\ Dequeue(f)
         /\ route' = [at |-> "send", s |-> s, f |-> f]
         /\ UNCHANGED <<via, registry, router, feed, written, life, pump, resp,
                   reply, control>>
    BY <1>5 DEF PushNext, Data
  <2>1. route' \in [at : {"idle", "send", "close", "exited"},
                   s : Streams \cup {None}, f : Frames \cup {None}]
    BY <2>p
  <2>2. /\ route'.s # None <=> route'.at \in {"send", "close"}
        /\ route'.f # None <=> route'.at = "send"
    BY <2>p
  <2>3. UNCHANGED <<via, registry, router, feed, written, life, pump, resp, reply, control>>
    BY <2>p
  <2>4. frameCh' \in Seq(Frames) /\ Len(frameCh') <= FrameDepth
    BY <1>d, <2>p
  <2> QED
    BY <2>1, <2>2, <2>3, <2>4 DEF registry, router, feed, life, reply, control
<1>6. CASE PushEarly
  <2>p. PICK f \in Frames, s \in Streams :
         /\ Dequeue(f)
         /\ held' = [held EXCEPT ![s] = @ \cup {f}]
         /\ UNCHANGED <<via, registry, route, router, expected, outCh, written,
                   life, pump, resp, reply, control>>
    BY <1>6 DEF PushEarly, Data
  <2>1. held' \in [Streams -> SUBSET Frames]
    BY <2>p
  <2>2. UNCHANGED <<via, registry, route, router, expected, outCh, written, life, pump,
                    resp, reply, control>>
    BY <2>p
  <2>3. frameCh' \in Seq(Frames) /\ Len(frameCh') <= FrameDepth
    BY <1>d, <2>p
  <2> QED
    BY <2>1, <2>2, <2>3 DEF registry, router, life, reply, control
<1>7. CASE PushOverflow
  <2> PICK f \in Frames, s \in Streams :
         /\ Dequeue(f)
         /\ SendRST(s, PickFor(s.id))
         /\ route' = [at |-> "close", s |-> s, f |-> None]
         /\ UNCHANGED <<via, sticky, router, feed, written, life, pump, resp, tries,
                        read, control>>
    BY <1>7 DEF PushOverflow, Data
  <2>1. PickFor(s.id) \in SUBSET Bearers
    BY PickTypes
  <2>2. route' \in [at : {"idle", "send", "close", "exited"},
                   s : Streams \cup {None}, f : Frames \cup {None}]
    OBVIOUS
  <2>3. /\ bearer' \in [Bearers -> {"new", "live", "marked", "closed", "leaked"}]
        /\ failures' \in 0..Failures
        /\ replies' \in
             [Streams -> Seq([flag : {"DATA", "FIN", "RST"}, via : Bearers])]
    BY <2>1, RSTTypes
  <2>4. frameCh' \in Seq(Frames) /\ Len(frameCh') <= FrameDepth
    BY <1>d
  <2>5. /\ route'.s # None <=> route'.at \in {"send", "close"}
        /\ route'.f # None <=> route'.at = "send"
    OBVIOUS
  <2> QED
    BY <2>2, <2>3, <2>4, <2>5 DEF router, feed, life, control
<1>8. CASE RouteSend
  <2>1. route.s \in Streams /\ route.f \in Frames
    BY <1>8 DEF RouteSend
  <2>5. End(route.f) \in Nat
    BY SMTT(30), <2>1 DEF End
  <2>2. expected' \in [Streams -> Nat]
    BY <1>8, <2>1, <2>5 DEF RouteSend
  <2>4. /\ outCh' \in [Streams -> Seq(Frames)]
        /\ \A s \in Streams : Len(outCh'[s]) <= OutDepth
    BY SMTT(30), <1>8, <2>1 DEF RouteSend, OutHasRoom
  <2>3. /\ held' \in [Streams -> SUBSET Frames]
        /\ route' \in [at : {"idle", "send", "close", "exited"},
                       s : Streams \cup {None}, f : Frames \cup {None}]
        /\ route'.s # None <=> route'.at \in {"send", "close"}
        /\ route'.f # None <=> route'.at = "send"
    <3>1. CASE \E g \in Flushable(held[route.s], End(route.f)) :
                 /\ held' = [held EXCEPT ![route.s] = @ \ {g}]
                 /\ route' = [route EXCEPT !.f = g]
      <4> PICK g \in held[route.s] :
                 /\ held' = [held EXCEPT ![route.s] = @ \ {g}]
                 /\ route' = [route EXCEPT !.f = g]
        BY <3>1 DEF Flushable, Roots
      <4>1. g \in Frames /\ route.at = "send"
        BY <1>8, <2>1 DEF RouteSend
      <4> QED
        BY <2>1, <4>1
    <3>2. CASE route' = Idle /\ held' = held
      BY <3>2 DEF Idle
    <3> QED
      BY <1>8, <3>1, <3>2 DEF RouteSend
  <2> QED
    BY <1>8, <2>2, <2>3, <2>4 DEF RouteSend, inbound, registry, router, life, reply, control
<1>9. CASE RouteClosed
  BY <1>9 DEF RouteClosed, Idle, inbound, registry, router, feed, life, reply, control
<1>10. CASE RouteExit
  BY <1>10 DEF RouteExit, Idle, inbound, registry, router, feed, life, reply, control
<1> QED
  BY <1>1, <1>2, <1>3, <1>4, <1>5, <1>6, <1>7, <1>8, <1>9, <1>10 DEF RouteStep

\* A stream's two goroutines and Close.
LEMMA PumpTypeOK == ASSUME TypeOK, NEW s \in Streams, PumpStep(s) PROVE TypeOK'
<1> USE DEF TypeOK
<1>1. CASE DialFail(s)
  <2>1. PickFor(s.id) \in SUBSET Bearers
    BY PickTypes
  <2> QED
    BY <1>1, <2>1, RSTTypes DEF DialFail, inbound, router, feed, life, control
<1>2. CASE Write(s)
  <2>1. /\ outCh' \in [Streams -> Seq(Frames)]
        /\ \A t \in Streams : Len(outCh'[t]) <= OutDepth
    BY <1>2, BoundsAssumption DEF Write
  <2>2. written' \in [Streams -> Seq(Frames)]
    BY <1>2 DEF Write
  <2> QED
    BY <1>2, <2>1, <2>2 DEF Write, inbound, registry, router, life, reply, control
<1>3. CASE WriteFail(s)
  <2>1. /\ outCh' \in [Streams -> Seq(Frames)]
        /\ \A t \in Streams : Len(outCh'[t]) <= OutDepth
    BY <1>3, BoundsAssumption DEF WriteFail
  <2> QED
    BY <1>3, <2>1
    DEF WriteFail, LeavePump, inbound, registry, router, reply, control
<1>4. CASE DialOK(s)
  BY <1>4 DEF DialOK, inbound, registry, router, feed, reply, control
<1>5. CASE PumpDone(s)
  BY <1>5 DEF PumpDone, LeavePump, inbound, registry, router, feed, reply, control
<1>6. CASE PumpExit(s)
  BY <1>6 DEF PumpExit, inbound, registry, router, feed, life, reply, control
<1> QED
  BY <1>1, <1>2, <1>3, <1>4, <1>5, <1>6 DEF PumpStep

LEMMA RespondTypeOK == ASSUME TypeOK, NEW s \in Streams, Respond(s) PROVE TypeOK'
<1> USE BoundsAssumption
<1>1. ASSUME NEW sent \in BOOLEAN, Continue(s, sent)
      PROVE  /\ tries' \in [Streams -> 0..(MaxAttempts - 1)]
             /\ resp' \in [Streams -> {"none", "waiting", "reading", "DATA", "FIN",
                                       "leaving", "exited"}]
  BY <1>1 DEF TypeOK, Continue
<1>2. ASSUME tries[s] + 1 < MaxAttempts, UNCHANGED resp,
             tries' = [tries EXCEPT ![s] = @ + 1]
      PROVE  /\ tries' \in [Streams -> 0..(MaxAttempts - 1)]
             /\ resp' \in [Streams -> {"none", "waiting", "reading", "DATA", "FIN",
                                       "leaving", "exited"}]
  BY <1>2 DEF TypeOK
<1>3. ASSUME NEW b \in PickFor(s.id), SendFrame(s, resp[s], b) \/ MarkClosed(b)
      PROVE  /\ bearer' \in [Bearers -> {"new", "live", "marked", "closed", "leaked"}]
             /\ failures' \in 0..Failures
             /\ replies' \in
                  [Streams -> Seq([flag : {"DATA", "FIN", "RST"}, via : Bearers])]
  <2>1. b \in Bearers /\ resp[s] \in {"DATA", "FIN", "RST"}
    BY PickTypes DEF Respond
  <2> QED
    BY <1>3, <2>1, SendTypes
<1>4. /\ tries' \in [Streams -> 0..(MaxAttempts - 1)]
      /\ resp' \in [Streams -> {"none", "waiting", "reading", "DATA", "FIN",
                                "leaving", "exited"}]
  BY <1>1, <1>2 DEF Respond
<1>5. /\ bearer' \in [Bearers -> {"new", "live", "marked", "closed", "leaked"}]
      /\ failures' \in 0..Failures
      /\ replies' \in
           [Streams -> Seq([flag : {"DATA", "FIN", "RST"}, via : Bearers])]
  <2>1. CASE UNCHANGED <<bearer, failures, replies>>
    BY <2>1 DEF TypeOK
  <2> QED
    BY <1>3, <2>1 DEF Respond, SendLost
<1> QED
  BY <1>4, <1>5 DEF TypeOK, Respond, inbound, router, feed, life, control

LEMMA RespTypeOK == ASSUME TypeOK, NEW s \in Streams, RespStep(s) PROVE TypeOK'
<1>1. CASE ReadChunk(s)
  <2>1. /\ read' \in [Streams -> 0..Responses]
        /\ resp' \in [Streams -> {"none", "waiting", "reading", "DATA", "FIN",
                                  "leaving", "exited"}]
    BY <1>1, BoundsAssumption DEF ReadChunk, TypeOK
  <2> QED
    BY <1>1, <2>1
    DEF ReadChunk, TypeOK, inbound, registry, router, feed, life, control
<1>2. CASE RespReady(s) \/ RespDone(s) \/ ReadEnd(s) \/ RespExit(s)
  <2>1. resp' \in [Streams -> {"none", "waiting", "reading", "DATA", "FIN",
                              "leaving", "exited"}]
    <3>1. \E at \in {"reading", "leaving", "FIN", "exited"} :
            resp' = [resp EXCEPT ![s] = at]
      BY <1>2 DEF RespReady, RespDone, ReadEnd, RespExit
    <3> QED
      BY <3>1 DEF TypeOK
  <2>2. UNCHANGED <<inbound, registry, route, router, feed, written, life, pump, reply,
                    control>>
    BY <1>2 DEF RespReady, RespDone, ReadEnd, RespExit
  <2> QED
    BY <2>1, <2>2 DEF TypeOK, inbound, registry, router, feed, life, reply, control
<1> QED
  BY <1>1, <1>2, RespondTypeOK DEF RespStep

LEMMA CloseTypeOK == ASSUME TypeOK, NEW s \in Streams, CloseStep(s) PROVE TypeOK'
<1> USE DEF TypeOK
<1>1. CASE BeginClose(s)
  BY <1>1 DEF BeginClose, inbound, registry, router, feed, reply, control
<1>2. CASE FinishClose(s)
  <2>1. table' \in [Ids -> Streams \cup {None}] /\ count' \in Int
    BY <1>2, FrameTypes DEF FinishClose
  <2>2. sticky' \in [Bearers -> SUBSET Ids]
    BY <1>2 DEF FinishClose
  <2> QED
    BY <1>2, <2>1, <2>2 DEF FinishClose, inbound, feed, reply, control
<1> QED
  BY <1>1, <1>2 DEF CloseStep

\* Run and its end.
LEMMA MainTypeOK ==
  ASSUME TypeOK, Cancel \/ AcceptError \/ Join \/ CloseAll
  PROVE  TypeOK'
<1>1. CASE Cancel
  BY <1>1, Zenon DEF Cancel, TypeOK, inbound, registry, router, feed, life, reply
<1>2. CASE AcceptError \/ Join \/ CloseAll
  <2> DEFINE Main == [at : {"accepting", "joining", "closing", "loaded", "waiting",
                            "stopped"},
                      s : Streams \cup {None}]
  <2>1. \A at \in {"accepting", "joining", "closing", "loaded", "waiting", "stopped"},
           s \in Streams \cup {None} :
          MainStep(at, s) => /\ main' \in Main /\ main'.s = s /\ main'.at = at
    BY DEF MainStep
  <2> HIDE DEF Main
  <2>2. CASE AcceptError \/ Join \/ EntryClosed \/ Stopped
    <3>1. main' \in Main /\ (main'.s # None <=> main'.at \in {"loaded", "waiting"})
      BY <2>1, <2>2 DEF AcceptError, Join, EntryClosed, Stopped
    <3>2. table' = table /\ count' = count /\ failures' \in 0..Failures
      BY <2>2, BoundsAssumption
      DEF AcceptError, Join, EntryClosed, Stopped, Fail, router, TypeOK
    <3>3. UNCHANGED <<inbound, bearer, sticky, route, feed, written, life, pump, resp,
                      reply, cancelled>>
      BY <2>2 DEF AcceptError, Join, EntryClosed, Stopped, MainStep
    <3> QED
      BY <3>1, <3>2, <3>3 DEF TypeOK, Main, inbound, feed, life, reply
  <2>3. CASE LoadEntry
    <3> PICK i \in Registered : MainStep("loaded", table[i]) /\ UNCHANGED <<router, failures>>
      BY <2>3 DEF LoadEntry
    <3>1. table[i] \in Streams /\ table[i] # None
      BY NoneAssumption DEF Registered, TypeOK, Streams
    <3>2. main' \in Main /\ (main'.s # None <=> main'.at \in {"loaded", "waiting"})
      BY <2>1, <3>1
    <3> QED
      BY <3>2 DEF MainStep, TypeOK, Main, inbound, router, feed, life, reply
  <2>4. CASE DropEntry
    <3>1. main.s \in Streams /\ main.s # None
      BY <2>4 DEF DropEntry, TypeOK
    <3>2. main' \in Main /\ (main'.s # None <=> main'.at \in {"loaded", "waiting"})
      BY <2>1, <2>4, <3>1 DEF DropEntry
    <3>3. table' \in [Ids -> Streams \cup {None}] /\ count' \in Int
      <4>1. table \in [Ids -> Streams \cup {None}] /\ count \in Int
        BY DEF TypeOK
      <4>2. table' = [table EXCEPT ![main.s.id] = None] /\ count' = count - 1
        BY <2>4 DEF DropEntry
      <4>3. count' \in Int
        BY <4>1, <4>2
      <4>4. table' \in [Ids -> Streams \cup {None}]
        BY <4>1, <4>2, Zenon
      <4> QED
        BY <4>3, <4>4
    <3> QED
      BY <2>4, <3>2, <3>3 DEF DropEntry, MainStep, TypeOK, Main, inbound, feed, life, reply
  <2> QED
    BY <1>2, <2>2, <2>3, <2>4 DEF CloseAll
<1> QED
  BY <1>1, <1>2

LEMMA NextTypeOK == TypeOK /\ [Next]_vars => TypeOK'
<1> SUFFICES ASSUME TypeOK, [Next]_vars PROVE TypeOK'
  OBVIOUS
<1>1. CASE UNCHANGED vars
  BY <1>1 DEF TypeOK, vars, inbound, registry, router, feed, life, reply, control
<1> QED
  BY <1>1, BearerTypeOK, RouteTypeOK, PumpTypeOK, RespTypeOK, CloseTypeOK,
     MainTypeOK DEF Next

\* The server's state is well formed and its queues keep their capacities, for
\* any number of bearers, streams and frames; a route loop that sends or closes,
\* and CloseAll, always have a stream in hand.
THEOREM TypeCorrect == Spec => []TypeOK
  BY InitTypeOK, NextTypeOK, PTL DEF Spec

-----------------------------------------------------------------------------
(* Who has which stream in hand *)

\* A frame is queued at most once and after it was read; the SYN of a stream
\* that is queued has not made its stream yet.
QueueInv ==
  /\ \A i \in 1..Len(frameCh) : via[frameCh[i]] # None
  /\ \A i, j \in 1..Len(frameCh) : frameCh[i] = frameCh[j] => i = j
  /\ \A i \in 1..Len(frameCh) : frameCh[i] \notin Started
  /\ \A s \in Started : via[s] # None

\* Only streams that were started are in the table, under their ID, and in the
\* hands of the route loop and CloseAll.
TableInv ==
  /\ \A i \in Registered : table[i].id = i /\ table[i] \in Started
  /\ route.s # None => route.s \in Started
  /\ main.s # None => main.s \in Started

\* CloseAll runs when the route loop has exited.
StageInv == main.at \notin {"accepting", "joining"} => route.at = "exited"

HandsInv == TypeOK /\ QueueInv /\ TableInv /\ StageInv

LEMMA StartHandsInv == Starts => HandsInv
<1> SUFFICES ASSUME NEW state \in {"new", "live"}, Initially(state) PROVE HandsInv
  BY DEF Starts
<1>1. frameCh = <<>> /\ Started = {} /\ Registered = {}
  BY DEF Initially, Started, Registered
<1>2. route.s = None /\ main.s = None /\ main.at = "accepting"
  BY DEF Initially, Idle
<1> QED
  BY <1>1, <1>2, StartTypeOK DEF HandsInv, QueueInv, TableInv, StageInv, Starts

LEMMA InitHandsInv == Init => HandsInv
  BY StartHandsInv DEF Init, Starts

\* Streams are started by HandleSYN alone.
LEMMA PumpStarted ==
  ASSUME TypeOK, NEW s \in Streams, PumpStep(s)
  PROVE  Started' = Started
  BY SMTT(30) DEF TypeOK, Started, PumpStep, DialOK, DialFail, Write, WriteFail, LeavePump,
         PumpDone, PumpExit

LEMMA SYNStarted ==
  ASSUME TypeOK, NEW f \in Streams, pump' = [pump EXCEPT ![f] = "dialing"]
  PROVE  Started' = Started \cup {f}
  BY DEF TypeOK, Started

\* The steps that no stream changes hands in.
Aside ==
  \/ \E b \in Bearers : Accept(b) \/ ReadError(b)
  \/ \E s \in Streams : PumpStep(s) \/ RespStep(s)
  \/ Cancel

Hands == <<via, frameCh, sticky, route, table, count, closing, main>>

LEMMA AsideHands ==
  ASSUME TypeOK, Aside
  PROVE  UNCHANGED Hands /\ Started' = Started
<1> USE DEF Hands, inbound, router, life, control
<1>1. ASSUME NEW b \in Bearers, Accept(b) \/ ReadError(b)
      PROVE  UNCHANGED Hands /\ Started' = Started
  BY <1>1 DEF Accept, ReadError, Started
<1>2. ASSUME NEW s \in Streams, PumpStep(s)
      PROVE  UNCHANGED Hands /\ Started' = Started
  <2>1. UNCHANGED Hands
    BY <1>2 DEF PumpStep, DialOK, DialFail, Write, WriteFail, LeavePump,
                PumpDone, PumpExit, registry
  <2> QED
    BY <1>2, <2>1, PumpStarted
<1>3. ASSUME NEW s \in Streams, RespStep(s)
      PROVE  UNCHANGED Hands /\ Started' = Started
  BY <1>3 DEF RespStep, RespReady, RespDone, ReadChunk, ReadEnd, Respond, RespExit,
              registry, Started
<1>4. CASE Cancel
  BY <1>4 DEF Cancel, registry, Started
<1> QED
  BY <1>1, <1>2, <1>3, <1>4 DEF Aside

\* What is known of the frame that the route loop takes up.
LEMMA DequeueFacts ==
  ASSUME HandsInv, NEW f \in Frames, Dequeue(f)
  PROVE  /\ route.at = "idle" /\ route.s = None
         /\ via[f] # None /\ f \notin Started
<1>1. frameCh \in Seq(Frames) /\ frameCh # <<>> /\ f = frameCh[1] /\ 1 \in 1..Len(frameCh)
  BY DEF HandsInv, TypeOK, Dequeue
<1>2. route.at = "idle" /\ route.s = None
  BY DEF HandsInv, TypeOK, Dequeue
<1> QED
  BY <1>1, <1>2 DEF HandsInv, QueueInv

LEMMA DequeueQueueInv ==
  ASSUME TypeOK, QueueInv, NEW f \in Frames, Dequeue(f), via' = via,
         Started' \subseteq Started \cup {f}
  PROVE  QueueInv'
<1>1. /\ frameCh \in Seq(Frames) /\ frameCh # <<>> /\ f = frameCh[1]
      /\ Len(frameCh') = Len(frameCh) - 1
      /\ \A i \in 1..Len(frameCh') : frameCh'[i] = frameCh[i + 1]
  BY DEF TypeOK, Dequeue
<1>2. \A i \in 1..Len(frameCh') : i + 1 \in 1..Len(frameCh) /\ i + 1 # 1 /\ 1 \in 1..Len(frameCh)
  BY <1>1
<1>3. \A i \in 1..Len(frameCh') : frameCh'[i] # f
  BY <1>1, <1>2 DEF QueueInv
<1>4. via[f] # None
  BY <1>1 DEF QueueInv
<1>5. \A i, j \in 1..Len(frameCh') : frameCh'[i] = frameCh'[j] => i = j
  BY <1>1, <1>2 DEF QueueInv
<1>6. \A i \in 1..Len(frameCh') : via[frameCh'[i]] # None /\ frameCh'[i] \notin Started
  BY <1>1, <1>2 DEF QueueInv
<1> QED
  BY <1>3, <1>4, <1>5, <1>6 DEF QueueInv

\* The dequeuing actions start no stream but the dequeued one.
LEMMA RouteStarted ==
  ASSUME TypeOK, RouteStep
  PROVE  \/ \E f \in Frames : /\ Dequeue(f)
                              /\ via' = via
                              /\ Started' \subseteq Started \cup {f}
         \/ UNCHANGED <<frameCh, via>> /\ Started' = Started
<1>1. CASE RouteClose \/ RouteIgnored \/ RefuseSYN
  BY <1>1, FrameTypes DEF RouteClose, RouteIgnored, RefuseSYN, Started
<1>2. CASE PushNext \/ PushEarly \/ PushOverflow
  BY <1>2 DEF PushNext, PushEarly, PushOverflow, Data, Started
<1>3. CASE HandleSYN
  <2> PICK f \in Streams : /\ Dequeue(f)
                           /\ via' = via
                           /\ pump' = [pump EXCEPT ![f] = "dialing"]
    BY <1>3 DEF HandleSYN
  <2> QED
    BY SYNStarted, FrameTypes
<1>4. CASE RouteSend \/ RouteClosed \/ RouteExit
  BY <1>4 DEF RouteSend, RouteClosed, RouteExit, inbound, Started
<1> QED
  BY <1>1, <1>2, <1>3, <1>4 DEF RouteStep

LEMMA NextQueueInv == ASSUME HandsInv, Next PROVE QueueInv'
<1> USE DEF HandsInv
<1>1. ASSUME NEW b \in Bearers, NEW f \in Frames, ReadFrame(b, f)
      PROVE  QueueInv'
  <2>1. /\ via \in [Frames -> Bearers \cup {None}] /\ via[f] = None
        /\ via' = [via EXCEPT ![f] = b] /\ b # None
    BY <1>1, NoneAssumption DEF ReadFrame, TypeOK
  <2>2. Started' = Started /\ Started \subseteq Frames
    BY <1>1, FrameTypes DEF ReadFrame, Started
  <2>3. frameCh \in Seq(Frames) /\ \A i \in 1..Len(frameCh) : frameCh[i] # f
    BY <2>1 DEF QueueInv, TypeOK
  <2>4. f \notin Started
    BY <2>1 DEF QueueInv
  <2>5. \A g \in Frames : via[g] # None \/ g = f => via'[g] # None
    BY <2>1
  <2>6. CASE frameCh' = Append(frameCh, f)
    <3>1. /\ Len(frameCh') = Len(frameCh) + 1
          /\ \A i \in 1..Len(frameCh') :
               frameCh'[i] = IF i = Len(frameCh) + 1 THEN f ELSE frameCh[i]
      BY <2>3, <2>6
    <3>2. \A i \in 1..Len(frameCh') : i = Len(frameCh) + 1 \/ i \in 1..Len(frameCh)
      BY <2>3, <3>1
    <3>3. \A i \in 1..Len(frameCh') : via'[frameCh'[i]] # None /\ frameCh'[i] \notin Started
      BY <2>3, <2>4, <2>5, <3>1, <3>2 DEF QueueInv
    <3>4. \A i, j \in 1..Len(frameCh') : frameCh'[i] = frameCh'[j] => i = j
      BY <2>3, <3>1, <3>2 DEF QueueInv
    <3> QED
      BY <2>2, <2>5, <3>3, <3>4 DEF QueueInv
  <2>7. CASE frameCh' = frameCh
    BY <2>2, <2>3, <2>5, <2>7 DEF QueueInv
  <2> QED
    BY <1>1, <2>6, <2>7 DEF ReadFrame, RouterShim
<1>2. CASE RouteStep
  BY <1>2, RouteStarted, DequeueQueueInv DEF QueueInv
<1>3. CASE Aside
  BY <1>3, AsideHands DEF QueueInv, Hands
<1>4. CASE \/ \E s \in Streams : CloseStep(s)
           \/ AcceptError \/ Join \/ CloseAll
  <2>1. UNCHANGED <<via, frameCh, pump>>
    BY <1>4 DEF CloseStep, BeginClose, FinishClose, AcceptError, Join, CloseAll,
                LoadEntry, DropEntry, EntryClosed, Stopped, MainStep, inbound
  <2> QED
    BY <2>1 DEF QueueInv, Started
<1> QED
  BY <1>1, <1>2, <1>3, <1>4 DEF Next, Aside

LEMMA RouteTableInv == ASSUME HandsInv, RouteStep PROVE TableInv'
<1> USE DEF HandsInv
<1>t. /\ table \in [Ids -> Streams \cup {None}] /\ None \notin Streams
      /\ \A i \in Ids : table[i] # None => table[i].id = i /\ table[i] \in Started
      /\ route.s # None => route.s \in Started
      /\ main.s # None => main.s \in Started
  BY NoneAssumption DEF TypeOK, TableInv, Registered, Streams
<1>s. ASSUME NEW f \in Frames, NEW s \in Streams, s = table[f.id]
      PROVE  s \in Started
  BY <1>s, <1>t, FrameTypes
<1>1. CASE RouteClose
  <2> PICK f \in Frames, s \in Streams :
         /\ s = table[f.id]
         /\ table' = [table EXCEPT ![f.id] = None]
         /\ route' = [at |-> "close", s |-> s, f |-> None]
         /\ UNCHANGED <<pump, control>>
    BY <1>1 DEF RouteClose
  <2>1. Started' = Started /\ s \in Started
    BY <1>s DEF Started
  <2>2. \A i \in Ids : table'[i] # None => table'[i] = table[i]
    BY <1>t
  <2> QED
    BY <1>t, <2>1, <2>2 DEF TableInv, Registered, control
<1>2. CASE HandleSYN
  <2> PICK f \in Streams :
         /\ table' = [table EXCEPT ![f.id] = f]
         /\ pump' = [pump EXCEPT ![f] = "dialing"]
         /\ route' = route /\ main' = main
    BY <1>2 DEF HandleSYN, control
  <2>1. Started' = Started \cup {f}
    BY SYNStarted
  <2>2. \A i \in Ids : table'[i] = IF i = f.id THEN f ELSE table[i]
    BY <1>t, FrameTypes
  <2> QED
    BY <1>t, <2>1, <2>2 DEF TableInv, Registered
<1>3. CASE \/ RouteIgnored \/ RefuseSYN \/ PushEarly
           \/ PushNext \/ PushOverflow
           \/ RouteSend \/ RouteClosed \/ RouteExit
  <2>1. UNCHANGED <<table, pump, main>>
    BY <1>3 DEF RouteIgnored, RefuseSYN, PushEarly, PushNext, PushOverflow, RouteSend,
                RouteClosed, RouteExit, router, control
  <2>2. route'.s # None => route'.s \in Started
    <3>1. CASE PushNext \/ PushOverflow
      <4> PICK f \in Frames, s \in Streams : s = table[f.id] /\ route'.s = s
        BY <3>1 DEF PushNext, PushOverflow, Data
      <4> QED
        BY <1>s
    <3>2. CASE RouteSend \/ RouteClosed \/ RouteExit
      <4>1. CASE RouteSend
        <5>1. \/ route' = Idle
              \/ \E g \in Flushable(held[route.s], End(route.f)) : route' = [route EXCEPT !.f = g]
          BY <4>1 DEF RouteSend
        <5>2. ASSUME NEW g, route' = [route EXCEPT !.f = g]
              PROVE  route'.s = route.s
          BY <5>2 DEF TypeOK
        <5> QED
          BY <1>t, <5>1, <5>2 DEF Idle
      <4>2. CASE RouteClosed \/ RouteExit
        BY <4>2 DEF RouteClosed, RouteExit, Idle
      <4> QED
        BY <3>2, <4>1, <4>2
    <3>3. CASE RouteIgnored \/ RefuseSYN \/ PushEarly
      BY <1>t, <3>3 DEF RouteIgnored, RefuseSYN, PushEarly
    <3> QED
      BY <1>3, <3>1, <3>2, <3>3
  <2> QED
    BY <1>t, <2>1, <2>2 DEF TableInv, Registered, Started
<1> QED
  BY <1>1, <1>2, <1>3 DEF RouteStep

LEMMA NextTableInv == ASSUME HandsInv, Next PROVE TableInv'
<1> USE DEF HandsInv
<1>1. CASE RouteStep
  BY <1>1, RouteTableInv
<1>2. CASE Aside
  BY <1>2, AsideHands DEF TableInv, Hands, Registered
<1>3. CASE \E b \in Bearers, f \in Frames : ReadFrame(b, f)
  BY <1>3 DEF ReadFrame, TableInv, Registered, Started, router, control
<1>t. /\ table \in [Ids -> Streams \cup {None}] /\ None \notin Streams
      /\ \A i \in Ids : table[i] # None => table[i].id = i /\ table[i] \in Started
      /\ route.s # None => route.s \in Started
      /\ main.s # None => main.s \in Started
  BY NoneAssumption DEF TypeOK, TableInv, Registered, Streams
<1>4. ASSUME NEW s \in Streams, CloseStep(s)
      PROVE  TableInv'
  <2>1. UNCHANGED <<route, pump, main>>
    BY <1>4 DEF CloseStep, BeginClose, FinishClose, control
  <2>2. table' = table \/ table' = [table EXCEPT ![s.id] = None]
    BY <1>4 DEF CloseStep, BeginClose, FinishClose, router
  <2>3. \A i \in Ids : table'[i] # None => table'[i] = table[i]
    BY <1>t, <2>2
  <2> QED
    BY <1>t, <2>1, <2>3 DEF TableInv, Registered, Started
<1>5. CASE AcceptError \/ Join \/ CloseAll
  <2>1. UNCHANGED <<route, pump>>
    BY <1>5 DEF AcceptError, Join, CloseAll, LoadEntry, DropEntry, EntryClosed, Stopped,
                MainStep
  <2>2. table' = table \/ table' = [table EXCEPT ![main.s.id] = None]
    BY <1>5 DEF AcceptError, Join, CloseAll, LoadEntry, DropEntry, EntryClosed, Stopped,
                router
  <2>3. \A i \in Ids : table'[i] # None => table'[i] = table[i]
    BY <1>t, <2>2
  <2>4. main'.s # None => main'.s \in Started
    <3>1. CASE LoadEntry
      BY <1>t, <3>1 DEF LoadEntry, MainStep, Registered
    <3>2. CASE DropEntry
      BY <1>t, <3>2 DEF DropEntry, MainStep
    <3>3. CASE AcceptError \/ Join \/ EntryClosed \/ Stopped
      BY <3>3 DEF AcceptError, Join, EntryClosed, Stopped, MainStep
    <3> QED
      BY <1>5, <3>1, <3>2, <3>3 DEF CloseAll
  <2> QED
    BY <1>t, <2>1, <2>3, <2>4 DEF TableInv, Registered, Started
<1> QED
  BY <1>1, <1>2, <1>3, <1>4, <1>5 DEF Next, Aside

LEMMA NextStageInv == ASSUME HandsInv, Next PROVE StageInv'
<1> USE DEF HandsInv
<1>1. CASE RouteStep
  <2>1. route.at # "exited" /\ main' = main
    BY <1>1 DEF RouteStep, RouteClose, RouteIgnored, HandleSYN, RefuseSYN, PushNext,
                PushEarly, PushOverflow, Data, Dequeue, RouteSend, RouteClosed,
                RouteExit, control
  <2> QED
    BY <2>1 DEF StageInv
<1>2. CASE Aside
  BY <1>2, AsideHands DEF StageInv, Hands
<1>3. CASE \E b \in Bearers, f \in Frames : ReadFrame(b, f)
  BY <1>3 DEF ReadFrame, StageInv, control
<1>4. CASE \E s \in Streams : CloseStep(s)
  BY <1>4 DEF CloseStep, BeginClose, FinishClose, StageInv, control
<1>5. CASE AcceptError \/ Join \/ CloseAll
  BY <1>5 DEF AcceptError, Join, CloseAll, LoadEntry, DropEntry, EntryClosed, Stopped,
              MainStep, StageInv
<1> QED
  BY <1>1, <1>2, <1>3, <1>4, <1>5 DEF Next, Aside

LEMMA NextHandsInv == HandsInv /\ [Next]_vars => HandsInv'
<1> SUFFICES ASSUME HandsInv, [Next]_vars PROVE HandsInv'
  OBVIOUS
<1>1. CASE UNCHANGED vars
  <2>1. UNCHANGED <<via, frameCh, route, table, pump, main>>
    BY <1>1 DEF vars, inbound, router, control
  <2>2. TypeOK'
    BY NextTypeOK DEF HandsInv
  <2> QED
    BY <2>1, <2>2 DEF HandsInv, QueueInv, TableInv, StageInv, Registered, Started
<1>2. CASE Next
  BY <1>2, NextTypeOK, NextQueueInv, NextTableInv, NextStageInv DEF HandsInv
<1> QED
  BY <1>1, <1>2

LEMMA AlwaysHandsInv == Spec => []HandsInv
  BY InitHandsInv, NextHandsInv, PTL DEF Spec

\* The server's hands hold what they should, for any clients: frames are queued
\* once and after they were read, the table holds started streams under their
\* own IDs, and CloseAll finds the route loop gone.
THEOREM HandsCorrect == Spec => [](QueueInv /\ TableInv /\ StageInv)
  BY AlwaysHandsInv, PTL DEF HandsInv

-----------------------------------------------------------------------------
(* Open streams are registered *)

\* Who is about to close a stream that has left the table.
InHand(s) ==
  \/ route.at = "close" /\ route.s = s
  \/ main.at = "waiting" /\ main.s = s

OpenInv == \A s \in Started : ~Done(s) => table[s.id] = s \/ InHand(s)

StopInv == main.at = "stopped" => Registered = {}

LEMMA InitOpenInv == Init => OpenInv /\ StopInv
  BY DEF Init, Initially, OpenInv, StopInv, Started

LEMMA RouteOpenInv ==
  ASSUME UsedOnce, HandsInv, OpenInv, RouteStep
  PROVE  OpenInv'
<1> USE DEF HandsInv
<1>t. /\ table \in [Ids -> Streams \cup {None}] /\ None \notin Streams
      /\ Started \subseteq Streams
      /\ \A i \in Ids : table[i] # None => table[i].id = i /\ table[i] \in Started
      /\ \A s \in Streams : s.id \in Ids
      /\ \A s, t \in Streams : s.id = t.id => s = t
  BY NoneAssumption, FrameTypes DEF TypeOK, TableInv, Registered, Streams, Started, UsedOnce
<1>m. UNCHANGED <<closing, main>>
  BY DEF RouteStep, RouteClose, RouteIgnored, HandleSYN, RefuseSYN, PushNext, PushEarly,
         PushOverflow, RouteSend, RouteClosed, RouteExit, life, control
<1>1. CASE RouteClose
  <2> PICK f \in Frames, s \in Streams :
         /\ Dequeue(f)
         /\ s = table[f.id]
         /\ table' = [table EXCEPT ![f.id] = None]
         /\ route' = [at |-> "close", s |-> s, f |-> None]
         /\ pump' = pump
    BY <1>1 DEF RouteClose
  <2>1. Started' = Started /\ f.id \in Ids /\ s.id = f.id /\ route.at = "idle"
    BY <1>t, FrameTypes DEF Started, Dequeue
  <2>2. ASSUME NEW t \in Started, t # s
        PROVE  table'[t.id] = table[t.id] /\ (InHand(t) => InHand(t)')
    BY <1>t, <1>m, <2>1, <2>2 DEF InHand
  <2>3. InHand(s)'
    BY DEF InHand
  <2> QED
    BY <1>m, <2>1, <2>2, <2>3 DEF OpenInv, Done
<1>2. CASE HandleSYN
  <2> PICK f \in Streams :
         /\ Dequeue(f)
         /\ table' = [table EXCEPT ![f.id] = f]
         /\ pump' = [pump EXCEPT ![f] = "dialing"]
         /\ route' = route
    BY <1>2 DEF HandleSYN
  <2>1. Started' = Started \cup {f}
    BY SYNStarted
  <2>2. table'[f.id] = f
    BY <1>t
  <2>3. ASSUME NEW t \in Started, t # f
        PROVE  table'[t.id] = table[t.id] /\ (InHand(t) => InHand(t)')
    BY <1>t, <1>m, <2>3 DEF InHand
  <2> QED
    BY <1>m, <2>1, <2>2, <2>3 DEF OpenInv, Done
<1>3. CASE \/ RouteIgnored \/ RefuseSYN \/ PushEarly
           \/ PushNext \/ PushOverflow
           \/ RouteSend \/ RouteClosed \/ RouteExit
  <2>1. UNCHANGED <<table, pump>> /\ Started' = Started
    BY <1>3 DEF RouteIgnored, RefuseSYN, PushEarly, PushNext, PushOverflow, RouteSend,
                RouteClosed, RouteExit, router, Started
  <2>2. ASSUME NEW s \in Started, ~Done(s), InHand(s)
        PROVE  InHand(s)'
    <3>1. CASE route.at = "close" /\ route.s = s
      <4>1. closing[route.s] # "closed"
        BY <2>2, <3>1 DEF Done
      <4> QED
        BY <1>3, <3>1, <4>1 DEF InHand, RouteIgnored, RefuseSYN, PushEarly, PushNext, PushOverflow,
            Data, Dequeue, RouteSend, RouteClosed, RouteExit
    <3>2. CASE main.at = "waiting" /\ main.s = s
      BY <1>m, <3>2 DEF InHand
    <3> QED
      BY <2>2, <3>1, <3>2 DEF InHand
  <2> QED
    BY <1>m, <2>1, <2>2 DEF OpenInv, Done
<1> QED
  BY <1>1, <1>2, <1>3 DEF RouteStep

LEMMA NextOpenInv ==
  ASSUME UsedOnce, HandsInv, OpenInv, Next
  PROVE  OpenInv'
<1> USE DEF HandsInv
<1>t. /\ table \in [Ids -> Streams \cup {None}]
      /\ Started \subseteq Streams
      /\ \A s, t \in Streams : s.id = t.id => s = t
  BY DEF TypeOK, Started, UsedOnce
<1>1. CASE RouteStep
  BY <1>1, RouteOpenInv
<1>2. CASE Aside
  BY <1>2, AsideHands DEF OpenInv, InHand, Done, Hands
<1>3. CASE \E b \in Bearers, f \in Frames : ReadFrame(b, f)
  BY <1>3 DEF ReadFrame, OpenInv, InHand, Done, Started, router, life, control
<1>4. ASSUME NEW s \in Streams, CloseStep(s)
      PROVE  OpenInv'
  <2>1. UNCHANGED <<route, pump, main>> /\ Started' = Started
    BY <1>4 DEF CloseStep, BeginClose, FinishClose, control, Started
  <2>2. ASSUME NEW t \in Started, ~Done(t)'
        PROVE  ~Done(t) /\ table'[t.id] = table[t.id]
    <3>1. CASE BeginClose(s)
      BY <2>2, <3>1 DEF BeginClose, Done, router, TypeOK
    <3>2. CASE FinishClose(s)
      <4>1. t # s /\ closing'[t] = closing[t]
        BY <2>2, <3>2 DEF FinishClose, Done, TypeOK
      <4> QED
        BY <1>t, <2>2, <3>2, <4>1 DEF FinishClose, Done
    <3> QED
      BY <1>4, <3>1, <3>2 DEF CloseStep
  <2> QED
    BY <2>1, <2>2 DEF OpenInv, InHand
<1>5. CASE AcceptError \/ Join \/ CloseAll
  <2>1. UNCHANGED <<route, pump, closing>> /\ Started' = Started
    BY <1>5 DEF AcceptError, Join, CloseAll, LoadEntry, DropEntry, EntryClosed, Stopped,
                MainStep, life, Started
  <2>2. CASE DropEntry
    <3>1. main.s \in Streams /\ main.at = "loaded"
      BY <2>2 DEF DropEntry, TypeOK
    <3>2. table' = [table EXCEPT ![main.s.id] = None] /\ main' = [at |-> "waiting", s |-> main.s]
      BY <2>2 DEF DropEntry, MainStep
    <3>3. ASSUME NEW t \in Started, t # main.s
          PROVE  table'[t.id] = table[t.id] /\ (InHand(t) => InHand(t)')
      BY <1>t, <2>1, <3>1, <3>2, <3>3 DEF InHand
    <3>4. ASSUME NEW t \in Started, t = main.s
          PROVE  InHand(t)'
      BY <3>2, <3>4 DEF InHand
    <3> QED
      BY <2>1, <3>3, <3>4 DEF OpenInv, Done
  <2>3. CASE AcceptError \/ Join \/ LoadEntry \/ EntryClosed \/ Stopped
    <3>1. table' = table
      BY <2>3 DEF AcceptError, Join, LoadEntry, EntryClosed, Stopped, router
    <3>2. ASSUME NEW t \in Started, ~Done(t), InHand(t)
          PROVE  InHand(t)'
      BY <2>1, <2>3, <3>2 DEF InHand, Done, AcceptError, Join, LoadEntry, EntryClosed, Stopped
    <3> QED
      BY <2>1, <3>1, <3>2 DEF OpenInv, Done
  <2> QED
    BY <1>5, <2>2, <2>3 DEF CloseAll
<1> QED
  BY <1>1, <1>2, <1>3, <1>4, <1>5 DEF Next, Aside

LEMMA NextStopInv == ASSUME HandsInv, StopInv, Next PROVE StopInv'
<1> USE DEF HandsInv
<1>1. CASE RouteStep
  <2>1. route.at # "exited" /\ main' = main
    BY <1>1 DEF RouteStep, RouteClose, RouteIgnored, HandleSYN, RefuseSYN, PushNext,
                PushEarly, PushOverflow, Data, Dequeue, RouteSend, RouteClosed,
                RouteExit, control
  <2> QED
    BY <2>1 DEF StageInv, StopInv
<1>2. CASE Aside
  BY <1>2, AsideHands DEF StopInv, Hands, Registered
<1>3. CASE \E b \in Bearers, f \in Frames : ReadFrame(b, f)
  BY <1>3 DEF ReadFrame, StopInv, Registered, router, control
<1>4. ASSUME NEW s \in Streams, CloseStep(s)
      PROVE  StopInv'
  <2>1. main' = main
    BY <1>4 DEF CloseStep, BeginClose, FinishClose, control
  <2>2. table' = table \/ table' = [table EXCEPT ![s.id] = None]
    BY <1>4 DEF CloseStep, BeginClose, FinishClose, router
  <2>3. Registered' \subseteq Registered
    BY <2>2 DEF Registered, TypeOK
  <2> QED
    BY <2>1, <2>3 DEF StopInv
<1>5. CASE AcceptError \/ Join \/ CloseAll
  BY <1>5 DEF AcceptError, Join, CloseAll, LoadEntry, DropEntry, EntryClosed, Stopped,
              MainStep, router, StopInv, Registered
<1> QED
  BY <1>1, <1>2, <1>3, <1>4, <1>5 DEF Next, Aside

LEMMA NextOpenStopInv ==
  ASSUME UsedOnce
  PROVE  HandsInv /\ OpenInv /\ StopInv /\ [Next]_vars => OpenInv' /\ StopInv'
<1>1. CASE UNCHANGED vars
  BY <1>1 DEF vars, router, life, control, OpenInv, InHand, StopInv, Done, Started, Registered
<1> QED
  BY <1>1, NextOpenInv, NextStopInv

\* As long as each ID is used once, a stream that nobody is closing is in the
\* table: no stream is left running that no frame and no CloseAll reaches.
THEOREM OpenRegistered ==
  ASSUME UsedOnce
  PROVE  Spec => []OpenIsRegistered
<1>1. OpenInv => OpenIsRegistered
  BY DEF OpenInv, OpenIsRegistered, InHand, IsClosing
<1> QED
  BY <1>1, AlwaysHandsInv, InitOpenInv, NextOpenStopInv, PTL DEF Spec

\* As long as each ID is used once, Run leaves no stream registered or open,
\* whatever bearers still read.
THEOREM StopsClean ==
  ASSUME UsedOnce
  PROVE  Spec => []StoppedClean
<1>1. HandsInv /\ OpenInv /\ StopInv => StoppedClean
  <2> SUFFICES ASSUME HandsInv, OpenInv, StopInv, main.at = "stopped"
               PROVE  Registered = {} /\ \A s \in Started : Done(s)
    BY DEF StoppedClean
  <2>1. Registered = {} /\ route.at = "exited"
    BY DEF StopInv, HandsInv, StageInv
  <2>2. ASSUME NEW s \in Started PROVE table[s.id] # s /\ ~InHand(s)
    <3>1. s \in Streams /\ s.id \in Ids /\ s # None
      BY FrameTypes, NoneAssumption DEF Started
    <3> QED
      BY <2>1, <3>1 DEF Registered, InHand
  <2> QED
    BY <2>1, <2>2 DEF OpenInv
<1> QED
  BY <1>1, AlwaysHandsInv, InitOpenInv, NextOpenStopInv, PTL DEF Spec

-----------------------------------------------------------------------------
(* The count and the limit *)

CountInv ==
  /\ IsFiniteSet(Registered)
  /\ main.at \in {"accepting", "joining"} => count = Cardinality(Registered)

OpenStreams == {s \in Started : ~Done(s)}

LimitInv ==
  MaxStreams > 0 =>
    IsFiniteSet(OpenStreams) /\ Cardinality(OpenStreams) <= MaxStreams

LEMMA InitCountInv == Init => CountInv /\ LimitInv
<1> SUFFICES ASSUME Init PROVE CountInv /\ LimitInv
  OBVIOUS
<1>1. Registered = {} /\ OpenStreams = {} /\ count = 0
  BY DEF Init, Initially, Registered, OpenStreams, Started
<1> QED
  BY <1>1, FS_EmptySet, BoundsAssumption DEF CountInv, LimitInv

\* An entry comes into the table, or leaves it.
LEMMA RegisterEntry ==
  ASSUME TypeOK, NEW f \in Streams, table' = [table EXCEPT ![f.id] = f]
  PROVE  Registered' = Registered \cup {f.id}
<1>1. f.id \in Ids /\ f # None
  BY FrameTypes, NoneAssumption
<1> QED
  BY <1>1 DEF TypeOK, Registered

LEMMA DropEntryOf ==
  ASSUME TypeOK, NEW i \in Ids, table' = [table EXCEPT ![i] = None]
  PROVE  Registered' = Registered \ {i}
  BY DEF TypeOK, Registered

\* A SYN that is dequeued belongs to no registered stream.
LEMMA NewId ==
  ASSUME UsedOnce, HandsInv, NEW f \in Streams, Dequeue(f)
  PROVE  f.id \notin Registered
<1>1. f \notin Started
  BY DequeueFacts, FrameTypes
<1>2. \A i \in Registered : table[i].id = i /\ table[i] \in Started
  BY DEF HandsInv, TableInv
<1> QED
  BY <1>1, <1>2 DEF UsedOnce, Started

LEMMA NextCountInv ==
  ASSUME UsedOnce, HandsInv, CountInv, Next
  PROVE  CountInv'
<1> USE DEF HandsInv
<1>1. CASE UNCHANGED <<table, count, main>>
  BY <1>1 DEF CountInv, Registered
<1>2. CASE RouteClose
  <2> PICK f \in Frames, s \in Streams :
         /\ s = table[f.id]
         /\ table' = [table EXCEPT ![f.id] = None]
         /\ count' = count - 1
         /\ UNCHANGED control
    BY <1>2 DEF RouteClose
  <2>1. f.id \in Registered /\ f.id \in Ids
    BY FrameTypes, NoneAssumption DEF Registered
  <2>2. Registered' = Registered \ {f.id}
    BY <2>1, DropEntryOf
  <2> QED
    BY <2>1, <2>2, FS_RemoveElement DEF CountInv, control
<1>3. CASE HandleSYN
  <2> PICK f \in Streams :
         /\ Dequeue(f)
         /\ table' = [table EXCEPT ![f.id] = f]
         /\ count' = count + 1
         /\ UNCHANGED control
    BY <1>3 DEF HandleSYN
  <2>1. f.id \notin Registered /\ Registered' = Registered \cup {f.id}
    BY NewId, RegisterEntry
  <2> QED
    BY <2>1, FS_AddElement DEF CountInv, control
<1>4. CASE \/ RouteIgnored \/ RefuseSYN \/ PushEarly
           \/ PushNext \/ PushOverflow
           \/ RouteSend \/ RouteClosed \/ RouteExit
  BY <1>1, <1>4 DEF RouteIgnored, RefuseSYN, PushEarly, PushNext, PushOverflow, RouteSend,
                    RouteClosed, RouteExit, router, control
<1>5. CASE Aside \/ \E b \in Bearers, f \in Frames : ReadFrame(b, f)
  BY <1>1, <1>5, AsideHands DEF Hands, ReadFrame, router, control
<1>6. ASSUME NEW s \in Streams, CloseStep(s)
      PROVE  CountInv'
  <2>1. CASE BeginClose(s)
    BY <1>1, <2>1 DEF BeginClose, router, control
  <2>2. CASE FinishClose(s)
    <3>1. s.id \in Ids
      BY FrameTypes
    <3>2. table' = [table EXCEPT ![s.id] = None] /\ main' = main
      BY <2>2 DEF FinishClose, control
    <3>3. Registered' = Registered \ {s.id}
      BY <3>1, <3>2, DropEntryOf
    <3>4. count' = IF s.id \in Registered THEN count - 1 ELSE count
      BY <2>2, <3>1 DEF FinishClose, Registered
    <3> QED
      BY <3>2, <3>3, <3>4, FS_RemoveElement DEF CountInv
  <2> QED
    BY <1>6, <2>1, <2>2 DEF CloseStep
<1>7. CASE AcceptError \/ Join \/ CloseAll
  <2>1. CASE DropEntry
    <3>1. main.s \in Streams /\ main.s.id \in Ids
      BY <2>1, FrameTypes DEF DropEntry, TypeOK
    <3>2. table' = [table EXCEPT ![main.s.id] = None] /\ main'.at = "waiting"
      BY <2>1 DEF DropEntry, MainStep
    <3>3. Registered' = Registered \ {main.s.id}
      BY <3>1, <3>2, DropEntryOf
    <3> QED
      BY <3>2, <3>3, FS_RemoveElement DEF CountInv
  <2>2. CASE AcceptError \/ Join \/ LoadEntry \/ EntryClosed \/ Stopped
    BY <2>2 DEF AcceptError, Join, LoadEntry, EntryClosed, Stopped, MainStep, router,
                CountInv, Registered
  <2> QED
    BY <1>7, <2>1, <2>2 DEF CloseAll
<1> QED
  BY <1>2, <1>3, <1>4, <1>5, <1>6, <1>7 DEF Next, Aside, RouteStep

\* Open streams are at most as many as entries, where frames are dispatched.
LEMMA OpenCounted ==
  ASSUME HandsInv, OpenInv, CountInv, UsedOnce, route.at = "idle"
  PROVE  /\ IsFiniteSet(OpenStreams) /\ Cardinality(OpenStreams) <= count
         /\ count \in Int /\ Cardinality(OpenStreams) \in Nat
<1>1. main.at \in {"accepting", "joining"}
  BY DEF HandsInv, StageInv
<1>2. \A s \in OpenStreams : table[s.id] = s /\ s.id \in Ids /\ s # None /\ s \in Streams
  BY <1>1, FrameTypes, NoneAssumption DEF OpenInv, OpenStreams, InHand, Started
<1> DEFINE id == [s \in OpenStreams |-> s.id]
<1>3. id \in Injection(OpenStreams, Registered)
  BY <1>2 DEF Injection, IsInjective, Registered, UsedOnce
<1>4. IsFiniteSet(OpenStreams) /\ Cardinality(OpenStreams) <= Cardinality(Registered)
  BY <1>3, FS_Injection DEF CountInv
<1> QED
  BY <1>1, <1>4, FS_CardinalityType DEF CountInv, HandsInv, TypeOK

LEMMA NextLimitInv ==
  ASSUME UsedOnce, HandsInv, OpenInv, CountInv, LimitInv, Next
  PROVE  LimitInv'
<1> USE DEF HandsInv
<1>1. CASE OpenStreams' \subseteq OpenStreams
  <2> SUFFICES ASSUME MaxStreams > 0
               PROVE  IsFiniteSet(OpenStreams') /\ Cardinality(OpenStreams') <= MaxStreams
    BY DEF LimitInv
  <2>1. IsFiniteSet(OpenStreams') /\ Cardinality(OpenStreams') <= Cardinality(OpenStreams)
    BY <1>1, FS_Subset DEF LimitInv
  <2>2. Cardinality(OpenStreams') \in Nat /\ Cardinality(OpenStreams) \in Nat
    BY <2>1, FS_CardinalityType DEF LimitInv
  <2> QED
    BY <2>1, <2>2, BoundsAssumption DEF LimitInv
<1>2. CASE HandleSYN
  <2> PICK f \in Streams :
         /\ Dequeue(f)
         /\ ~AtLimit
         /\ pump' = [pump EXCEPT ![f] = "dialing"]
         /\ UNCHANGED life
    BY <1>2 DEF HandleSYN
  <2>1. OpenStreams' \subseteq OpenStreams \cup {f}
    BY SYNStarted DEF OpenStreams, Done, life
  <2>2. route.at = "idle"
    BY DEF Dequeue
  <2>o. /\ IsFiniteSet(OpenStreams) /\ Cardinality(OpenStreams) <= count
        /\ count \in Int /\ Cardinality(OpenStreams) \in Nat
    BY <2>2, OpenCounted
  <2>3. /\ IsFiniteSet(OpenStreams \cup {f})
        /\ Cardinality(OpenStreams \cup {f}) <= Cardinality(OpenStreams) + 1
    <3>1. /\ IsFiniteSet(OpenStreams \cup {f})
          /\ Cardinality(OpenStreams \cup {f})
               = IF f \in OpenStreams THEN Cardinality(OpenStreams)
                                     ELSE Cardinality(OpenStreams) + 1
      BY <2>o, FS_AddElement, Zenon
    <3> QED
      BY <2>o, <3>1
  <2>4. /\ IsFiniteSet(OpenStreams')
        /\ Cardinality(OpenStreams') <= Cardinality(OpenStreams \cup {f})
    BY <2>1, <2>3, FS_Subset
  <2>5. Cardinality(OpenStreams') \in Nat /\ Cardinality(OpenStreams \cup {f}) \in Nat
    BY <2>3, <2>4, FS_CardinalityType
  <2> QED
    BY <2>o, <2>3, <2>4, <2>5, BoundsAssumption DEF AtLimit, LimitInv
<1>3. CASE \/ RouteClose \/ RouteIgnored \/ RefuseSYN \/ PushEarly
           \/ PushNext \/ PushOverflow
           \/ RouteSend \/ RouteClosed \/ RouteExit
  <2>1. UNCHANGED <<pump, closing>>
    BY <1>3 DEF RouteClose, RouteIgnored, RefuseSYN, PushEarly, PushNext, PushOverflow,
                RouteSend, RouteClosed, RouteExit, life
  <2> QED
    BY <1>1, <2>1 DEF OpenStreams, Started, Done
<1>4. CASE Aside
  BY <1>1, <1>4, AsideHands DEF Hands, OpenStreams, Done
<1>5. CASE \E b \in Bearers, f \in Frames : ReadFrame(b, f)
  BY <1>1, <1>5 DEF ReadFrame, life, OpenStreams, Started, Done
<1>6. ASSUME NEW s \in Streams, CloseStep(s)
      PROVE  LimitInv'
  <2>1. Started' = Started
    BY <1>6 DEF CloseStep, BeginClose, FinishClose, Started
  <2>2. \A t \in Streams : ~Done(t)' => ~Done(t)
    BY <1>6 DEF CloseStep, BeginClose, FinishClose, Done, TypeOK
  <2> QED
    BY <1>1, <2>1, <2>2 DEF OpenStreams, Started
<1>7. CASE AcceptError \/ Join \/ CloseAll
  BY <1>1, <1>7 DEF AcceptError, Join, CloseAll, LoadEntry, DropEntry, EntryClosed, Stopped,
                    MainStep, life, OpenStreams, Started, Done
<1> QED
  BY <1>2, <1>3, <1>4, <1>5, <1>6, <1>7 DEF Next, Aside, RouteStep

LEMMA NextCountLimitInv ==
  ASSUME UsedOnce
  PROVE  HandsInv /\ OpenInv /\ CountInv /\ LimitInv /\ [Next]_vars
           => CountInv' /\ LimitInv'
<1>1. CASE UNCHANGED vars
  BY <1>1 DEF vars, router, life, control, CountInv, LimitInv, OpenStreams, Done, Started,
              Registered
<1> QED
  BY <1>1, NextCountInv, NextLimitInv

\* As long as each ID is used once, streamCount is the number of registered
\* streams for as long as SYNs may come, however closes overlap.
THEOREM CountIsExact ==
  ASSUME UsedOnce
  PROVE  Spec => []CountExact
<1>1. CountInv => CountExact
  BY DEF CountInv, CountExact
<1> QED
  BY <1>1, AlwaysHandsInv, InitOpenInv, NextOpenStopInv, InitCountInv, NextCountLimitInv,
     PTL DEF Spec

\* As long as each ID is used once, at most MaxStreams streams are open.  The
\* limit is checked on the registered ones; an open stream that has left the
\* table is in the hands of the route loop, which handles no SYN meanwhile.
THEOREM LimitHolds ==
  ASSUME UsedOnce
  PROVE  Spec => []WithinLimit
<1>1. LimitInv => WithinLimit
  BY DEF LimitInv, WithinLimit, OpenStreams
<1> QED
  BY <1>1, AlwaysHandsInv, InitOpenInv, NextOpenStopInv, InitCountInv, NextCountLimitInv,
     PTL DEF Spec

-----------------------------------------------------------------------------
(* Replies keep to their bearer *)

\* A bearer's sticky set holds IDs of SYNs it read, and until a stream is closed
\* the ID is in the set of the bearer that read its SYN.
StickyInv ==
  /\ \A b \in Bearers : \A i \in sticky[b] : \E s \in Streams : s.id = i /\ via[s] = b
  /\ \A s \in Streams : via[s] # None /\ ~Done(s) => s.id \in sticky[via[s]]

LEMMA StartStickyInv == Starts => StickyInv
  BY FrameTypes DEF Starts, Initially, StickyInv

LEMMA InitStickyInv == Init => StickyInv
  BY StartStickyInv DEF Init, Starts

LEMMA NextStickyInv ==
  ASSUME UsedOnce, TypeOK, StickyInv, [Next]_vars
  PROVE  StickyInv'
<1>1. CASE UNCHANGED <<via, sticky, closing>>
  BY <1>1 DEF StickyInv, Done
<1>2. ASSUME NEW b \in Bearers, NEW f \in Frames, ReadFrame(b, f)
      PROVE  StickyInv'
  <2>1. /\ via' = [via EXCEPT ![f] = b] /\ via[f] = None /\ closing' = closing
        /\ via \in [Frames -> Bearers \cup {None}] /\ sticky \in [Bearers -> SUBSET Ids]
        /\ None \notin Bearers /\ Streams \subseteq Frames
    BY <1>2, FrameTypes, NoneAssumption DEF ReadFrame, TypeOK, life
  <2>2. /\ via'[f] = b
        /\ \A g \in Frames : g # f => via'[g] = via[g]
    BY <2>1
  <2>3. \A c \in Bearers : sticky'[c] =
          IF c = b /\ f.flag = "SYN" THEN sticky[c] \cup {f.id} ELSE sticky[c]
    BY <1>2, <2>1 DEF ReadFrame
  <2>4. ASSUME NEW c \in Bearers, NEW i \in sticky'[c]
        PROVE  \E s \in Streams : s.id = i /\ via'[s] = c
    <3>1. CASE i \in sticky[c]
      <4> PICK s \in Streams : s.id = i /\ via[s] = c
        BY <3>1 DEF StickyInv
      <4>1. s # f /\ s \in Frames
        BY <2>1
      <4> QED
        BY <2>2, <4>1
    <3>2. CASE c = b /\ f.flag = "SYN" /\ i = f.id
      BY <2>2, <3>2 DEF Streams
    <3> QED
      BY <2>3, <2>4, <3>1, <3>2
  <2>5. ASSUME NEW s \in Streams, via'[s] # None, ~Done(s)
        PROVE  s.id \in sticky'[via'[s]]
    <3>1. CASE s = f
      BY <2>2, <2>3, <3>1 DEF Streams
    <3>2. CASE s # f
      <4>1. s \in Frames /\ via'[s] = via[s] /\ via[s] \in Bearers
        BY <2>1, <2>2, <2>5, <3>2
      <4>2. s.id \in sticky[via[s]]
        BY <2>5, <4>1 DEF StickyInv
      <4> QED
        BY <2>3, <4>1, <4>2
    <3> QED
      BY <3>1, <3>2
  <2> QED
    BY <2>1, <2>4, <2>5 DEF StickyInv, Done
<1>3. ASSUME NEW s \in Streams, BeginClose(s)
      PROVE  StickyInv'
  BY <1>3 DEF BeginClose, StickyInv, Done, TypeOK, inbound, registry
<1>4. ASSUME NEW s \in Streams, FinishClose(s)
      PROVE  StickyInv'
  <2>1. /\ closing' = [closing EXCEPT ![s] = "closed"] /\ closing[s] = "closing"
        /\ via' = via
        /\ via \in [Frames -> Bearers \cup {None}]
        /\ closing \in [Streams -> {"open", "closing", "closed"}]
        /\ Streams \subseteq Frames
        /\ \A b \in Bearers : sticky'[b] = sticky[b] \/ sticky'[b] = sticky[b] \ {s.id}
    BY <1>4, FrameTypes DEF FinishClose, TypeOK, inbound
  <2>2. ASSUME NEW b \in Bearers, NEW i \in sticky'[b]
        PROVE  i \in sticky[b]
    BY <2>1, <2>2
  <2>3. ASSUME NEW t \in Streams, via[t] # None, ~Done(t)'
        PROVE  t.id \in sticky'[via[t]]
    <3>1. t # s /\ ~Done(t)
      BY <2>1, <2>3 DEF Done
    <3>2. t.id # s.id
      BY <3>1 DEF UsedOnce
    <3>3. t.id \in sticky[via[t]] /\ via[t] \in Bearers
      BY <2>1, <2>3, <3>1 DEF StickyInv
    <3> QED
      BY <2>1, <3>2, <3>3
  <2> QED
    BY <2>1, <2>2, <2>3 DEF StickyInv
<1>5. CASE RouteStep
  BY <1>1, <1>5
  DEF RouteStep, RouteClose, RouteIgnored, HandleSYN, RefuseSYN, PushNext, PushEarly,
      PushOverflow, RouteSend, RouteClosed, RouteExit, inbound, registry, life
<1>6. CASE Aside
  BY <1>1, <1>6, AsideHands DEF Hands
<1>7. CASE AcceptError \/ Join \/ CloseAll
  BY <1>1, <1>7 DEF AcceptError, Join, CloseAll, LoadEntry, DropEntry, EntryClosed, Stopped,
                    MainStep, inbound, life
<1>8. CASE UNCHANGED vars
  BY <1>1, <1>8 DEF vars, inbound, registry, life
<1> QED
  BY <1>2, <1>3, <1>4, <1>5, <1>6, <1>7, <1>8 DEF Next, Aside, CloseStep

LEMMA StepStickyInv ==
  UsedOnce /\ HandsInv /\ StickyInv /\ [Next]_vars => StickyInv'
  BY NextStickyInv DEF HandsInv

\* What a reply of a stream adds, and to whom.
LEMMA ReplyOf ==
  ASSUME TypeOK, NEW s \in Streams, NEW flag, NEW b, SendFrame(s, flag, b),
         NEW t \in Streams, replies'[t] # replies[t]
  PROVE  t = s /\ replies'[t][Len(replies'[t])].via = b
<1> DEFINE r == [flag |-> flag, via |-> b]
<1>1. /\ replies \in
           [Streams -> Seq([flag : {"DATA", "FIN", "RST"}, via : Bearers])]
      /\ replies' = [replies EXCEPT ![s] = Append(@, r)]
  BY DEF TypeOK, SendFrame
<1>2. r.via = b
  OBVIOUS
<1> HIDE DEF r
<1>3. t = s /\ replies'[s] = Append(replies[s], r)
  BY <1>1
<1>4. replies'[s][Len(replies'[s])] = r
  BY <1>1, <1>3
<1> QED
  BY <1>2, <1>3, <1>4

\* Until a stream is closed, PickFor leaves no choice while the bearer that read
\* its SYN is live.
LEMMA StickyPick ==
  ASSUME UsedOnce, StickyInv, NEW s \in Streams, ~Done(s), via[s] \in Live
  PROVE  PickFor(s.id) = {via[s]}
<1>1. via[s] \in Bearers /\ via[s] # None
  BY NoneAssumption DEF Live
<1>2. s.id \in sticky[via[s]]
  BY <1>1 DEF StickyInv
<1>3. ASSUME NEW b \in Live, s.id \in sticky[b]
      PROVE  b = via[s]
  BY <1>3 DEF StickyInv, UsedOnce, Live
<1> QED
  BY <1>2, <1>3 DEF PickFor

KeepsBearer ==
  \A s \in Started :
    replies'[s] # replies[s] /\ ~Done(s) /\ via[s] \in Live =>
      replies'[s][Len(replies'[s])].via = via[s]

LEMMA PickedKeepsBearer ==
  ASSUME UsedOnce, TypeOK, StickyInv, NEW s \in Streams, NEW flag,
         \/ UNCHANGED replies
         \/ \E b \in PickFor(s.id) : SendFrame(s, flag, b)
  PROVE  KeepsBearer
<1> SUFFICES ASSUME NEW t \in Started, replies'[t] # replies[t], ~Done(t), via[t] \in Live
             PROVE  replies'[t][Len(replies'[t])].via = via[t]
  BY DEF KeepsBearer
<1> PICK b \in PickFor(s.id) : SendFrame(s, flag, b)
  OBVIOUS
<1>1. t = s /\ replies'[t][Len(replies'[t])].via = b
  BY ReplyOf DEF Started
<1> QED
  BY <1>1, StickyPick

LEMMA NextKeepsBearer ==
  ASSUME UsedOnce, HandsInv, StickyInv, [Next]_vars
  PROVE  KeepsBearer
<1> USE DEF HandsInv
<1>1. CASE UNCHANGED replies
  BY <1>1 DEF KeepsBearer
<1>r. ASSUME NEW s \in Streams, SendRST(s, PickFor(s.id))
      PROVE  KeepsBearer
  <2>1. UNCHANGED replies \/ \E b \in PickFor(s.id) : SendFrame(s, "RST", b)
    BY <1>r DEF SendRST, SendLost, MarkClosed
  <2> QED
    BY <2>1, PickedKeepsBearer
<1>2. CASE RefuseSYN
  <2> PICK f \in Streams : /\ Dequeue(f)
                           /\ SendRST(f, IF via[f] \in Live THEN {via[f]} ELSE Live)
    BY <1>2 DEF RefuseSYN
  <2>1. f \notin Started
    BY DequeueFacts, FrameTypes
  <2>2. UNCHANGED replies \/ \E b : SendFrame(f, "RST", b)
    BY DEF SendRST, SendLost, MarkClosed
  <2> QED
    BY <1>1, <2>1, <2>2, ReplyOf DEF KeepsBearer, Started
<1>3. CASE PushOverflow
  <2> PICK f \in Frames, s \in Streams : SendRST(s, PickFor(s.id))
    BY <1>3 DEF PushOverflow
  <2> QED
    BY <1>r
<1>4. CASE RouteStep /\ ~RefuseSYN /\ ~PushOverflow
  BY <1>1, <1>4
  DEF RouteStep, RouteClose, RouteIgnored, HandleSYN, PushNext, PushEarly,
      RouteSend, RouteClosed, RouteExit, reply
<1>5. ASSUME NEW s \in Streams, PumpStep(s)
      PROVE  KeepsBearer
  <2>1. CASE DialFail(s)
    BY <1>r, <2>1 DEF DialFail
  <2>2. CASE DialOK(s) \/ Write(s) \/ WriteFail(s) \/ PumpDone(s) \/ PumpExit(s)
    BY <1>1, <2>2 DEF DialOK, Write, WriteFail, PumpDone, PumpExit, reply
  <2> QED
    BY <1>5, <2>1, <2>2 DEF PumpStep
<1>6. ASSUME NEW s \in Streams, RespStep(s)
      PROVE  KeepsBearer
  <2>1. CASE Respond(s)
    <3>1. UNCHANGED replies \/ \E b \in PickFor(s.id) : SendFrame(s, resp[s], b)
      BY <2>1 DEF Respond, SendLost, MarkClosed
    <3> QED
      BY <3>1, PickedKeepsBearer
  <2>2. CASE RespReady(s) \/ RespDone(s) \/ ReadChunk(s) \/ ReadEnd(s) \/ RespExit(s)
    BY <1>1, <2>2 DEF RespReady, RespDone, ReadChunk, ReadEnd, RespExit, reply
  <2> QED
    BY <1>6, <2>1, <2>2 DEF RespStep
<1>7. CASE \E b \in Bearers : Accept(b) \/ ReadError(b) \/ \E f \in Frames : ReadFrame(b, f)
  BY <1>1, <1>7 DEF Accept, ReadError, ReadFrame, reply
<1>8. CASE \E s \in Streams : CloseStep(s)
  BY <1>1, <1>8 DEF CloseStep, BeginClose, FinishClose, reply
<1>9. CASE Cancel \/ AcceptError \/ Join \/ CloseAll
  BY <1>1, <1>9 DEF Cancel, AcceptError, Join, CloseAll, LoadEntry, DropEntry, EntryClosed,
                    Stopped, MainStep, reply
<1>10. CASE UNCHANGED vars
  BY <1>1, <1>10 DEF vars, reply
<1> QED
  BY <1>2, <1>3, <1>4, <1>5, <1>6, <1>7, <1>8, <1>9, <1>10 DEF Next

\* As long as each ID is used once, all replies of an open stream go over the
\* bearer that read its SYN while that is live, whichever goroutine sends them:
\* the client puts them in no order.
THEOREM RepliesKeepBearer ==
  ASSUME UsedOnce
  PROVE  Spec => RepliesSticky
<1>1. HandsInv /\ StickyInv /\ [Next]_vars => KeepsBearer
  BY NextKeepsBearer
<1>2. HandsInv /\ StickyInv /\ [Next]_vars => StickyInv'
  BY NextStickyInv DEF HandsInv
<1> QED
  BY <1>1, <1>2, AlwaysHandsInv, InitStickyInv, PTL
  DEF Spec, RepliesSticky, KeepsBearer

-----------------------------------------------------------------------------
(* The bytes an upstream receives *)

\* Frames that each begin where the one before ends, the first of them at n, and
\* the byte after the last of them.
Chain(q, n) ==
  \A i \in 1..Len(q) : q[i].seq = IF i = 1 THEN n ELSE End(q[i - 1])
EndOf(q, n) == IF q = <<>> THEN n ELSE End(q[Len(q)])

\* The data that bearers have read for the ID of a stream.
Of(s) == {f \in Frames : f.id = s.id /\ f.flag = "DATA" /\ via[f] # None}

\* What the reassembler of a stream holds, emits and writes are such frames.
FeedInv ==
  /\ held \in [Streams -> SUBSET Frames]
  /\ \A s \in Streams : held[s] \subseteq Of(s)
  /\ \A s \in Streams : outCh[s] \in Seq(Of(s)) /\ written[s] \in Seq(Of(s))
  /\ route.at = "send" => route.f \in Of(route.s)

\* While its pump has not left, what a stream has written and what waits in outCh
\* make one chain, up to the byte the reassembler expects.
ChainInv(s) ==
  /\ Chain(written[s], 0)
  /\ pump[s] \notin {"leaving", "exited"} =>
       /\ Chain(outCh[s], EndOf(written[s], 0))
       /\ expected[s] = EndOf(outCh[s], EndOf(written[s], 0))

OrderInv ==
  /\ \A s \in Streams : ChainInv(s)
  /\ route.at = "send" => route.f.seq = expected[route.s]

LEMMA ChainAppend ==
  ASSUME NEW q \in Seq(Frames), NEW n, NEW f \in Frames, Chain(q, n), f.seq = EndOf(q, n)
  PROVE  Chain(Append(q, f), n) /\ EndOf(Append(q, f), n) = End(f)
<1>1. /\ Append(q, f) # <<>> /\ Len(Append(q, f)) = Len(q) + 1
      /\ Append(q, f)[Len(q) + 1] = f
      /\ \A i \in 1..Len(q) : Append(q, f)[i] = q[i]
      /\ q = <<>> <=> Len(q) = 0
      /\ Len(q) \in Nat
  OBVIOUS
<1> DEFINE r == Append(q, f)
<1> HIDE DEF r
<1>2. ASSUME NEW i \in 1..Len(r)
      PROVE  r[i].seq = IF i = 1 THEN n ELSE End(r[i - 1])
  <2>1. CASE i = Len(q) + 1
    BY <1>1, <2>1 DEF r, EndOf
  <2>2. CASE i \in 1..Len(q)
    <3>1. i # 1 => i - 1 \in 1..Len(q)
      BY <1>1, <2>2
    <3>2. q[i].seq = IF i = 1 THEN n ELSE End(q[i - 1])
      BY <2>2 DEF Chain
    <3> QED
      BY <1>1, <2>2, <3>1, <3>2 DEF r
  <2> QED
    BY <1>1, <1>2, <2>1, <2>2 DEF r
<1> QED
  BY <1>1, <1>2 DEF r, Chain, EndOf

LEMMA ChainTail ==
  ASSUME NEW q \in Seq(Frames), NEW n, q # <<>>, Chain(q, n)
  PROVE  /\ Head(q) \in Frames /\ Head(q).seq = n
         /\ Chain(Tail(q), End(Head(q)))
         /\ EndOf(Tail(q), End(Head(q))) = EndOf(q, n)
<1>1. /\ Len(q) \in Nat \ {0} /\ Head(q) = q[1] /\ 1 \in 1..Len(q)
      /\ Tail(q) \in Seq(Frames) /\ Len(Tail(q)) = Len(q) - 1
      /\ \A i \in 1..Len(Tail(q)) : Tail(q)[i] = q[i + 1]
      /\ Tail(q) = <<>> <=> Len(Tail(q)) = 0
  <2>1. Len(q) \in Nat \ {0}
    OBVIOUS
  <2>2. Head(q) = q[1] /\ 1 \in 1..Len(q)
    BY <2>1
  <2>3. /\ Tail(q) \in Seq(Frames) /\ Len(Tail(q)) = Len(q) - 1
        /\ \A i \in 1..Len(Tail(q)) : Tail(q)[i] = q[i + 1]
    BY <2>1
  <2>4. Tail(q) = <<>> <=> Len(Tail(q)) = 0
    BY <2>3, EmptySeq, Zenon
  <2> QED
    BY <2>1, <2>2, <2>3, <2>4
<1>2. Head(q) \in Frames /\ Head(q).seq = n
  BY <1>1 DEF Chain
<1> DEFINE r == Tail(q)
<1> HIDE DEF r
<1>3. ASSUME NEW i \in 1..Len(r)
      PROVE  r[i].seq = IF i = 1 THEN End(Head(q)) ELSE End(r[i - 1])
  <2>1. i + 1 \in 1..Len(q) /\ i + 1 # 1 /\ i \in Nat
    BY <1>1 DEF r
  <2>2. q[i + 1].seq = End(q[i])
    BY <2>1 DEF Chain
  <2>3. i # 1 => i - 1 \in 1..Len(r) /\ (i - 1) + 1 = i
    BY <1>1 DEF r
  <2> QED
    BY <1>1, <2>1, <2>2, <2>3 DEF r
<1>4. EndOf(Tail(q), End(Head(q))) = EndOf(q, n)
  BY <1>1 DEF EndOf
<1> QED
  BY <1>2, <1>3, <1>4 DEF r, Chain

LEMMA StartOrderInv == Starts => FeedInv /\ OrderInv
<1> SUFFICES ASSUME NEW state \in {"new", "live"}, Initially(state) PROVE FeedInv /\ OrderInv
  BY DEF Starts
<1>1. /\ \A s \in Streams : /\ written[s] = <<>> /\ outCh[s] = <<>> /\ held[s] = {}
                            /\ expected[s] = 0
      /\ held \in [Streams -> SUBSET Frames]
      /\ route.at = "idle"
  BY DEF Initially, Idle
<1>2. Chain(<<>>, 0) /\ EndOf(<<>>, 0) = 0 /\ \A s \in Streams : <<>> \in Seq(Of(s))
  BY DEF Chain, EndOf
<1> QED
  BY <1>1, <1>2 DEF FeedInv, OrderInv, ChainInv

LEMMA InitOrderInv == Init => FeedInv /\ OrderInv
  BY StartOrderInv DEF Init, Starts

\* The stream in the table under a frame's ID has that ID.
LEMMA EntryOf ==
  ASSUME HandsInv, NEW f \in Frames, NEW s \in Streams, Data(f, s)
  PROVE  f \in Of(s)
<1>1. f.id \in Ids /\ s # None
  BY FrameTypes, NoneAssumption
<1>2. via[f] # None /\ f.flag = "DATA" /\ s = table[f.id]
  BY DequeueFacts DEF Data
<1> QED
  BY <1>1, <1>2 DEF HandsInv, TableInv, Registered, Of

\* They become more only, and while via does not change they stay the same.
LEMMA OfGrows ==
  ASSUME NEW b \in Bearers, NEW f \in Frames, TypeOK, ReadFrame(b, f), NEW s \in Streams
  PROVE  Of(s) \subseteq Of(s)'
  BY DEF ReadFrame, TypeOK, Of

LEMMA OfStays == ASSUME via' = via PROVE \A s : Of(s)' = Of(s)
  BY DEF Of

LEMMA SendFeedInv ==
  ASSUME HandsInv, FeedInv, OrderInv, RouteSend
  PROVE  FeedInv' /\ OrderInv'
<1> DEFINE s == route.s
           f == route.f
<1>1. s \in Streams /\ f \in Of(s) /\ f \in Frames /\ f.seq = expected[s]
  BY DEF RouteSend, HandsInv, TypeOK, FeedInv, OrderInv, Of
<1>2. /\ outCh \in [Streams -> Seq(Frames)] /\ expected \in [Streams -> Nat]
      /\ held \in [Streams -> SUBSET Frames]
      /\ route \in [at : {"idle", "send", "close", "exited"},
                    s : Streams \cup {None}, f : Frames \cup {None}]
  BY DEF HandsInv, TypeOK
<1>3. /\ outCh'[s] = Append(outCh[s], f) /\ expected'[s] = End(f)
      /\ \A t \in Streams \ {s} : outCh'[t] = outCh[t] /\ expected'[t] = expected[t]
      /\ UNCHANGED <<via, written, pump>>
  BY <1>1, <1>2 DEF RouteSend, inbound
<1>4. \/ /\ held' = held /\ route' = Idle
      \/ \E g \in held[s] : /\ g.seq = End(f)
                            /\ held' = [held EXCEPT ![s] = @ \ {g}]
                            /\ route' = [route EXCEPT !.f = g]
  BY DEF RouteSend, Flushable, Roots
<1> HIDE DEF s, f
<1>5. FeedInv'
  <2>1. /\ held' \in [Streams -> SUBSET Frames]
        /\ \A t \in Streams : held'[t] \subseteq held[t]
    <3>1. CASE held' = held
      BY <1>2, <3>1
    <3>2. ASSUME NEW g, held' = [held EXCEPT ![s] = @ \ {g}]
          PROVE  /\ held' \in [Streams -> SUBSET Frames]
                 /\ \A t \in Streams : held'[t] \subseteq held[t]
      BY <1>1, <1>2, <3>2
    <3> QED
      BY <1>4, <3>1, <3>2
  <2>2. \A t \in Streams : held'[t] \subseteq Of(t)
    BY <2>1 DEF FeedInv
  <2>3. \A t \in Streams : outCh'[t] \in Seq(Of(t)) /\ written'[t] \in Seq(Of(t))
    <3>1. outCh[s] \in Seq(Of(s)) /\ f \in Of(s)
      BY <1>1 DEF FeedInv
    <3>2. Append(outCh[s], f) \in Seq(Of(s))
      BY <3>1, AppendProperties
    <3> QED
      BY <1>1, <1>3, <3>2 DEF FeedInv
  <2>4. route'.at = "send" => route'.f \in Of(route'.s)
    <3>1. CASE route' = Idle
      BY <3>1 DEF Idle
    <3>2. ASSUME NEW g \in held[s], route' = [route EXCEPT !.f = g]
          PROVE  route'.f = g /\ route'.s = s
      BY <1>2, <3>2 DEF s
    <3>3. \A g \in held[s] : g \in Of(s)
      BY <1>1 DEF FeedInv
    <3> QED
      BY <1>4, <3>1, <3>2, <3>3
  <2> QED
    BY <1>3, <2>1, <2>2, <2>3, <2>4, OfStays DEF FeedInv
<1>6. OrderInv'
  <2>1. ASSUME NEW t \in Streams
        PROVE  ChainInv(t)'
    <3>1. CASE t # s
      BY <1>3, <3>1 DEF OrderInv, ChainInv
    <3>2. CASE t = s /\ pump[s] \notin {"leaving", "exited"}
      <4>1. /\ Chain(written[s], 0) /\ Chain(outCh[s], EndOf(written[s], 0))
            /\ f.seq = EndOf(outCh[s], EndOf(written[s], 0))
            /\ outCh[s] \in Seq(Frames)
        BY <1>1, <1>2, <3>2 DEF OrderInv, ChainInv
      <4>2. /\ Chain(Append(outCh[s], f), EndOf(written[s], 0))
            /\ EndOf(Append(outCh[s], f), EndOf(written[s], 0)) = End(f)
        BY <1>1, <4>1, ChainAppend
      <4> QED
        BY <1>3, <3>2, <4>1, <4>2 DEF ChainInv
    <3>3. CASE t = s /\ pump[s] \in {"leaving", "exited"}
      BY <1>1, <1>3, <3>3 DEF OrderInv, ChainInv
    <3> QED
      BY <3>1, <3>2, <3>3
  <2>2. route'.at = "send" => route'.f.seq = expected'[route'.s]
    BY SMTT(30), <1>2, <1>3, <1>4 DEF Idle, s
  <2> QED
    BY <2>1, <2>2 DEF OrderInv
<1> QED
  BY <1>5, <1>6

LEMMA NextFeedInv ==
  ASSUME HandsInv, FeedInv, OrderInv, Next
  PROVE  FeedInv' /\ OrderInv'
<1> USE DEF HandsInv
<1>1. ASSUME UNCHANGED <<feed, written, route>>,
             \A s \in Streams : pump'[s] \notin {"leaving", "exited"}
                                  => pump[s] \notin {"leaving", "exited"}
      PROVE  /\ OrderInv'
             /\ via' = via => FeedInv'
  <2>1. OrderInv'
    BY <1>1 DEF feed, OrderInv, ChainInv
  <2>2. via' = via => FeedInv'
    BY <1>1, OfStays DEF feed, FeedInv
  <2> QED
    BY <2>1, <2>2
<1>2. CASE RouteStep
  <2>1. CASE RouteSend
    BY <2>1, SendFeedInv
  <2>2. CASE PushNext
    <3> PICK f \in Frames, s \in Streams :
           /\ Data(f, s)
           /\ IsNext(f, expected[s])
           /\ route' = [at |-> "send", s |-> s, f |-> f]
           /\ UNCHANGED <<via, feed, written, pump>>
      BY <2>2 DEF PushNext
    <3>1. f \in Of(s) /\ f.seq = expected[s]
      BY EntryOf DEF IsNext
    <3>2. FeedInv'
      BY <3>1, OfStays DEF feed, FeedInv
    <3>3. OrderInv'
      BY <3>1 DEF feed, OrderInv, ChainInv
    <3> QED
      BY <3>2, <3>3
  <2>3. CASE PushEarly
    <3> PICK f \in Frames, s \in Streams :
           /\ Data(f, s)
           /\ held' = [held EXCEPT ![s] = @ \cup {f}]
           /\ UNCHANGED <<via, route, expected, outCh, written, pump>>
      BY <2>3 DEF PushEarly
    <3>1. f \in Of(s)
      BY EntryOf
    <3>2. /\ held' \in [Streams -> SUBSET Frames]
          /\ \A t \in Streams : held'[t] \subseteq Of(t)
      BY <3>1 DEF FeedInv
    <3>3. FeedInv'
      BY <3>2, OfStays DEF FeedInv
    <3>4. OrderInv'
      BY DEF OrderInv, ChainInv
    <3> QED
      BY <3>3, <3>4
  <2>4. CASE HandleSYN
    <3> PICK f \in Streams :
           /\ Dequeue(f)
           /\ pump' = [pump EXCEPT ![f] = "dialing"]
           /\ UNCHANGED <<via, feed, written, route>>
      BY <2>4 DEF HandleSYN
    <3>1. pump[f] = "none"
      BY DequeueFacts, FrameTypes DEF Started
    <3> QED
      BY <1>1, <3>1 DEF TypeOK
  <2>5. CASE RouteClose \/ PushOverflow \/ RouteClosed \/ RouteExit
    <3>1. UNCHANGED <<via, feed, written, pump>> /\ route'.at # "send"
      BY <2>5 DEF RouteClose, PushOverflow, RouteClosed, RouteExit, Idle, inbound
    <3>2. FeedInv'
      BY <3>1, OfStays DEF feed, FeedInv
    <3>3. OrderInv'
      BY <3>1 DEF feed, OrderInv, ChainInv
    <3> QED
      BY <3>2, <3>3
  <2>6. CASE RouteIgnored \/ RefuseSYN
    BY <1>1, <2>6 DEF RouteIgnored, RefuseSYN
  <2> QED
    BY <1>2, <2>1, <2>2, <2>3, <2>4, <2>5, <2>6 DEF RouteStep
<1>3. ASSUME NEW s \in Streams, PumpStep(s)
      PROVE  FeedInv' /\ OrderInv'
  <2>1. CASE DialOK(s) \/ DialFail(s) \/ PumpDone(s) \/ PumpExit(s)
    <3>1. UNCHANGED <<via, feed, written, route>>
      BY <2>1 DEF DialOK, DialFail, PumpDone, PumpExit, inbound
    <3>2. \A t \in Streams : pump'[t] \notin {"leaving", "exited"}
                               => pump[t] \notin {"leaving", "exited"}
      BY <2>1 DEF DialOK, DialFail, PumpDone, PumpExit, LeavePump, TypeOK
    <3> QED
      BY <1>1, <3>1, <3>2
  <2>2. /\ outCh \in [Streams -> Seq(Frames)] /\ written \in [Streams -> Seq(Frames)]
        /\ outCh[s] \in Seq(Frames) /\ written[s] \in Seq(Frames)
        /\ outCh[s] \in Seq(Of(s)) /\ written[s] \in Seq(Of(s))
        /\ pump \in [Streams -> {"none", "dialing", "writing", "leaving", "exited"}]
    BY DEF TypeOK, FeedInv
  <2>3. outCh[s] # <<>> => Tail(outCh[s]) \in Seq(Of(s)) /\ Head(outCh[s]) \in Of(s)
    BY <2>2, HeadTailProperties
  <2>4. CASE Write(s)
    <3>1. /\ outCh[s] # <<>> /\ pump[s] = "writing"
          /\ outCh'[s] = Tail(outCh[s])
          /\ written'[s] = Append(written[s], Head(outCh[s]))
          /\ \A t \in Streams \ {s} : outCh'[t] = outCh[t] /\ written'[t] = written[t]
          /\ UNCHANGED <<via, route, expected, held, pump>>
      BY <2>2, <2>4 DEF Write, inbound
    <3>2. written'[s] \in Seq(Of(s))
      BY <2>2, <2>3, <3>1, AppendProperties
    <3>3. FeedInv'
      <4>1. outCh'[s] \in Seq(Of(s))
        BY <2>3, <3>1
      <4>2. \A t \in Streams : outCh'[t] \in Seq(Of(t)) /\ written'[t] \in Seq(Of(t))
        BY <3>1, <3>2, <4>1 DEF FeedInv
      <4> QED
        BY <3>1, <4>2, OfStays DEF FeedInv
    <3>4. /\ Chain(written[s], 0)
          /\ Chain(outCh[s], EndOf(written[s], 0))
          /\ expected[s] = EndOf(outCh[s], EndOf(written[s], 0))
      BY <3>1 DEF OrderInv, ChainInv
    <3>5. /\ Head(outCh[s]) \in Frames /\ Head(outCh[s]).seq = EndOf(written[s], 0)
          /\ Chain(Tail(outCh[s]), End(Head(outCh[s])))
          /\ EndOf(Tail(outCh[s]), End(Head(outCh[s]))) = expected[s]
      BY <2>2, <3>1, <3>4, ChainTail
    <3>6. /\ Chain(written'[s], 0)
          /\ EndOf(written'[s], 0) = End(Head(outCh[s]))
      BY <2>2, <3>1, <3>4, <3>5, ChainAppend
    <3>7. ChainInv(s)'
      BY <3>1, <3>5, <3>6 DEF ChainInv
    <3>8. \A t \in Streams \ {s} : ChainInv(t)'
      BY <3>1 DEF OrderInv, ChainInv
    <3> QED
      BY <3>1, <3>3, <3>7, <3>8 DEF OrderInv
  <2>5. CASE WriteFail(s)
    <3>1. /\ outCh[s] # <<>> /\ pump'[s] = "leaving"
          /\ outCh'[s] = Tail(outCh[s])
          /\ \A t \in Streams \ {s} : outCh'[t] = outCh[t] /\ pump'[t] = pump[t]
          /\ UNCHANGED <<via, route, expected, held, written>>
      BY <2>2, <2>5 DEF WriteFail, LeavePump, inbound
    <3>2. FeedInv'
      <4>1. outCh'[s] \in Seq(Of(s))
        BY <2>3, <3>1
      <4>2. \A t \in Streams : outCh'[t] \in Seq(Of(t))
        BY <3>1, <4>1 DEF FeedInv
      <4> QED
        BY <3>1, <4>2, OfStays DEF FeedInv
    <3>3. ChainInv(s)'
      BY <3>1 DEF OrderInv, ChainInv
    <3>4. \A t \in Streams \ {s} : ChainInv(t)'
      BY <3>1 DEF OrderInv, ChainInv
    <3> QED
      BY <3>1, <3>2, <3>3, <3>4 DEF OrderInv
  <2> QED
    BY <1>3, <2>1, <2>4, <2>5 DEF PumpStep
<1>4. CASE \E b \in Bearers : Accept(b) \/ ReadError(b)
  BY <1>1, <1>4 DEF Accept, ReadError, inbound
<1>7. ASSUME NEW b \in Bearers, NEW f \in Frames, ReadFrame(b, f)
      PROVE  FeedInv' /\ OrderInv'
  <2>1. UNCHANGED <<feed, written, route, pump>>
    BY <1>7 DEF ReadFrame
  <2>2. \A s \in Streams : Of(s) \subseteq Of(s)'
    BY <1>7, OfGrows
  <2>3. \A s \in Streams : Seq(Of(s)) \subseteq Seq(Of(s)')
    BY <2>2
  <2>4. route.at = "send" => route.s \in Streams
    BY DEF TypeOK
  <2>5. FeedInv'
    BY <2>1, <2>2, <2>3, <2>4 DEF feed, FeedInv
  <2> QED
    BY <1>1, <2>1, <2>5
<1>5. CASE \E s \in Streams : RespStep(s) \/ CloseStep(s)
  BY <1>1, <1>5 DEF inbound, RespStep, RespReady, RespDone, ReadChunk, ReadEnd, Respond, RespExit,
                    CloseStep, BeginClose, FinishClose
<1>6. CASE Cancel \/ AcceptError \/ Join \/ CloseAll
  BY <1>1, <1>6 DEF Cancel, AcceptError, Join, CloseAll, LoadEntry, DropEntry, EntryClosed,
                    Stopped, MainStep, inbound
<1> QED
  BY <1>2, <1>3, <1>4, <1>5, <1>6, <1>7 DEF Next

LEMMA NextOrderInv ==
  HandsInv /\ FeedInv /\ OrderInv /\ [Next]_vars => HandsInv' /\ FeedInv' /\ OrderInv'
<1> SUFFICES ASSUME HandsInv, FeedInv, OrderInv, [Next]_vars
             PROVE  FeedInv' /\ OrderInv'
  BY NextHandsInv
<1>1. CASE UNCHANGED vars
  <2>1. UNCHANGED <<via, held, outCh, written, route, expected, pump>>
    BY <1>1 DEF vars, inbound, feed
  <2>2. FeedInv'
    BY <2>1, OfStays DEF FeedInv
  <2> QED
    BY <2>1, <2>2 DEF OrderInv, ChainInv
<1> QED
  BY <1>1, NextFeedInv

LEMMA AlwaysOrderInv == Spec => [](HandsInv /\ FeedInv /\ OrderInv)
  BY InitHandsInv, InitOrderInv, NextOrderInv, PTL DEF Spec

\* Whatever order the bearers deliver frames in, whatever they drop, and also if
\* an ID is used again: what a stream has written is data that bearers read for
\* its ID, each frame beginning at the byte where the one before ended, from byte 0 on.
UpstreamChained ==
  \A s \in Streams : Chain(written[s], 0) /\ written[s] \in Seq(Of(s))

\* See UpstreamChained.
THEOREM UpstreamHasNoGap == Spec => []UpstreamChained
<1>1. FeedInv /\ OrderInv => UpstreamChained
  BY DEF FeedInv, OrderInv, ChainInv, UpstreamChained
<1> QED
  BY <1>1, AlwaysOrderInv, PTL

\* As long as each ID is used once, the bytes are those of the stream's own
\* client, in order and without gap or repetition.
THEOREM UpstreamOrdered ==
  ASSUME UsedOnce
  PROVE  Spec => []UpstreamInOrder
<1>1. UpstreamChained => UpstreamInOrder
  <2> SUFFICES ASSUME UpstreamChained, NEW s \in Streams, NEW i \in 1..Len(written[s])
               PROVE  LET f == written[s][i]
                      IN  /\ f.id = s.id /\ f.session = s.session
                          /\ f.seq = IF i = 1 THEN 0 ELSE End(written[s][i - 1])
    BY DEF UpstreamInOrder
  <2>1. Chain(written[s], 0) /\ written[s] \in Seq(Of(s))
    BY DEF UpstreamChained
  <2>2. written[s][i] \in Of(s)
    BY <2>1
  <2>3. /\ written[s][i] \in Frames /\ written[s][i].id = s.id
        /\ written[s][i].session = s.session
    BY <2>2, FrameTypes DEF Of, UsedOnce
  <2> QED
    BY <2>1, <2>3 DEF Chain
<1> QED
  BY <1>1, UpstreamHasNoGap, PTL

-----------------------------------------------------------------------------
(* What a stream sends to its client *)

\* A stream that has not started has read nothing from its upstream.
ReadInv ==
  \A s \in Streams :
    /\ pump[s] = "none" => resp[s] = "none" /\ read[s] = 0
    /\ resp[s] = "DATA" => read[s] > 0

LEMMA StartReadInv == Starts => ReadInv
  BY DEF Starts, Initially, ReadInv

LEMMA NextReadInv == HandsInv /\ ReadInv /\ [Next]_vars => ReadInv'
<1> SUFFICES ASSUME HandsInv, ReadInv, [Next]_vars
             PROVE  ReadInv'
  OBVIOUS
<1> USE DEF HandsInv, TypeOK
<1>1. ASSUME UNCHANGED <<resp, read>>,
             \A s \in Streams : pump'[s] = "none" => pump[s] = "none"
      PROVE  ReadInv'
  BY <1>1 DEF ReadInv
<1>2. ASSUME NEW s \in Streams, PumpStep(s)
      PROVE  ReadInv'
  <2>1. UNCHANGED <<resp, read>>
    BY <1>2 DEF PumpStep, DialOK, DialFail, Write, WriteFail, PumpDone, PumpExit, reply
  <2>2. \A t \in Streams : pump'[t] = "none" => pump[t] = "none"
    <3>1. \/ pump' = pump
          \/ \E to \in {"writing", "leaving", "exited"} : pump' = [pump EXCEPT ![s] = to]
      BY <1>2 DEF PumpStep, DialOK, DialFail, Write, WriteFail, LeavePump, PumpDone, PumpExit
    <3>2. pump \in [Streams -> {"none", "dialing", "writing", "leaving", "exited"}]
      OBVIOUS
    <3> QED
      BY <3>1, <3>2
  <2> QED
    BY <1>1, <2>1, <2>2
<1>3. CASE HandleSYN
  <2> PICK f \in Streams : /\ pump' = [pump EXCEPT ![f] = "dialing"]
                           /\ resp' = [resp EXCEPT ![f] = "waiting"]
                           /\ read' = read
    BY <1>3 DEF HandleSYN, reply
  <2> QED
    BY DEF ReadInv
<1>4. CASE RouteStep /\ ~HandleSYN
  <2>1. UNCHANGED <<resp, read, pump>>
    BY <1>4 DEF RouteStep, RouteClose, RouteIgnored, RefuseSYN, PushNext, PushEarly,
                PushOverflow, RouteSend, RouteClosed, RouteExit, reply
  <2> QED
    BY <1>1, <2>1
<1>5. ASSUME NEW s \in Streams, RespStep(s)
      PROVE  ReadInv'
  <2>1. CASE ReadChunk(s)
    BY <2>1 DEF ReadChunk, ReadInv
  <2>2. CASE RespReady(s) \/ RespDone(s) \/ ReadEnd(s) \/ RespExit(s)
    BY <2>2 DEF RespReady, RespDone, ReadEnd, RespExit, reply, ReadInv
  <2>3. CASE Respond(s)
    <3>1. /\ UNCHANGED <<read, pump>>
          /\ resp[s] \in {"DATA", "FIN"}
          /\ resp' = resp \/ \E to \in {"reading", "leaving"} : resp' = [resp EXCEPT ![s] = to]
      BY <2>3 DEF Respond, Continue
    <3> QED
      BY <3>1 DEF ReadInv
  <2> QED
    BY <1>5, <2>1, <2>2, <2>3 DEF RespStep
<1>6. CASE \E b \in Bearers : Accept(b) \/ ReadError(b) \/ \E f \in Frames : ReadFrame(b, f)
  BY <1>1, <1>6 DEF Accept, ReadError, ReadFrame, reply
<1>7. CASE \E s \in Streams : CloseStep(s)
  BY <1>1, <1>7 DEF CloseStep, BeginClose, FinishClose, reply
<1>8. CASE Cancel \/ AcceptError \/ Join \/ CloseAll
  BY <1>1, <1>8 DEF Cancel, AcceptError, Join, CloseAll, LoadEntry, DropEntry, EntryClosed,
                    Stopped, MainStep, reply
<1>9. CASE UNCHANGED vars
  BY <1>1, <1>9 DEF vars, reply
<1> QED
  BY <1>2, <1>3, <1>4, <1>5, <1>6, <1>7, <1>8, <1>9 DEF Next

\* How many response chunks a stream has sent, and that it sends no more.
Given(s) == IF resp[s] = "DATA" THEN read[s] - 1 ELSE read[s]
Over(s) == resp[s] \in {"leaving", "exited"}

\* The places of the frames with a flag.
Places(q, flag) == {i \in DOMAIN q : q[i].flag = flag}

\* When pumpResponse is not through, it has sent every chunk but the one in hand.
ChunksOf(s) ==
  LET data == Places(replies[s], "DATA")
      fin  == Places(replies[s], "FIN")
  IN  /\ \/ Cardinality(data) = Given(s)
         \/ Over(s) /\ fin = {} /\ Cardinality(data) = read[s] - 1
      /\ fin # {} => Over(s)
      /\ \A i \in data, j \in fin : i < j
ChunksInv == \A s \in Streams : ChunksOf(s)

LEMMA InitChunksInv == Init => ChunksInv
<1> SUFFICES ASSUME Init, NEW s \in Streams PROVE ChunksOf(s)
  BY DEF ChunksInv
<1>1. replies[s] = <<>> /\ read[s] = 0 /\ resp[s] = "none"
  BY DEF Init, Initially
<1>2. \A flag : Places(replies[s], flag) = {}
  BY <1>1 DEF Places
<1> QED
  BY <1>1, <1>2, FS_EmptySet DEF ChunksOf, Given

\* A frame more at the end of a stream's replies.
LEMMA PlacesAppend ==
  ASSUME NEW R, NEW q \in Seq(R), NEW x
  PROVE  /\ Places(Append(q, x), x.flag) = Places(q, x.flag) \cup {Len(q) + 1}
         /\ \A flag : flag # x.flag => Places(Append(q, x), flag) = Places(q, flag)
         /\ \A flag : /\ IsFiniteSet(Places(q, flag))
                      /\ Places(q, flag) \subseteq 1..Len(q)
<1>1. /\ DOMAIN q = 1..Len(q) /\ Len(q) \in Nat
      /\ DOMAIN Append(q, x) = 1..(Len(q) + 1)
      /\ \A i \in 1..Len(q) : Append(q, x)[i] = q[i]
      /\ Append(q, x)[Len(q) + 1] = x
  OBVIOUS
<1>2. \A flag : Places(q, flag) \subseteq 1..Len(q)
  BY <1>1 DEF Places
<1>3. \A flag : IsFiniteSet(Places(q, flag))
  <2>1. IsFiniteSet(1..Len(q))
    BY <1>1, FS_Interval
  <2> QED
    BY <1>2, <2>1, FS_Subset
<1>4. \A i : i \in 1..(Len(q) + 1) <=> i \in 1..Len(q) \/ i = Len(q) + 1
  BY <1>1
<1> QED
  BY <1>1, <1>2, <1>3, <1>4 DEF Places

\* A step that sends nothing of s.
LEMMA SameChunks ==
  ASSUME TypeOK, ReadInv, NEW s \in Streams, ChunksOf(s), replies'[s] = replies[s],
         \/ UNCHANGED <<resp[s], read[s]>>
         \/ /\ resp[s] = "reading" /\ resp'[s] = "DATA" /\ read'[s] = read[s] + 1
         \/ /\ resp[s] \in {"DATA", "FIN", "reading", "none", "waiting", "leaving"}
            /\ resp[s] = "DATA" => resp'[s] = "leaving"
            /\ resp[s] = "leaving" => resp'[s] = "exited"
            /\ resp'[s] # "DATA" /\ read'[s] = read[s]
  PROVE  ChunksOf(s)'
<1>1. read[s] \in Nat
  BY BoundsAssumption DEF TypeOK
<1> QED
  BY <1>1 DEF ChunksOf, Given, Over

\* A frame of s is sent.
LEMMA SentChunk ==
  ASSUME TypeOK, ReadInv, NEW s \in Streams, NEW t \in Streams, NEW b, NEW flag,
         ChunksOf(t), SendFrame(s, flag, b), UNCHANGED read,
         \/ flag = "RST" /\ UNCHANGED resp
         \/ flag \in {"DATA", "FIN"} /\ resp[s] = flag /\ Continue(s, TRUE)
  PROVE  ChunksOf(t)'
<1>1. /\ resp \in [Streams -> {"none", "waiting", "reading", "DATA", "FIN",
                               "leaving", "exited"}]
      /\ replies \in [Streams -> Seq([flag : {"DATA", "FIN", "RST"}, via : Bearers])]
      /\ read \in [Streams -> 0..Responses]
  BY DEF TypeOK
<1> DEFINE x == [flag |-> flag, via |-> b]
<1>2. /\ replies' = [replies EXCEPT ![s] = Append(@, x)] /\ x.flag = flag
      /\ flag = "RST" => resp' = resp
      /\ flag # "RST" => resp' = [resp EXCEPT ![s] =
                                    IF flag = "DATA" THEN "reading" ELSE "leaving"]
  BY DEF SendFrame, Continue
<1> HIDE DEF x
<1>3. CASE t # s
  <2>1. replies'[t] = replies[t] /\ resp'[t] = resp[t] /\ read'[t] = read[t]
    BY <1>1, <1>2, <1>3
  <2> QED
    BY <2>1 DEF ChunksOf, Given, Over
<1>4. CASE t = s
  <2> DEFINE q  == replies[s]
             q2 == replies'[s]
  <2>1. q2 = Append(q, x) /\ q \in Seq([flag : {"DATA", "FIN", "RST"}, via : Bearers])
    BY <1>1, <1>2
  <2>2. /\ Places(q2, flag) = Places(q, flag) \cup {Len(q) + 1}
        /\ \A other : other # flag => Places(q2, other) = Places(q, other)
        /\ \A any : IsFiniteSet(Places(q, any)) /\ Places(q, any) \subseteq 1..Len(q)
        /\ Len(q) \in Nat
    <3>1. Len(q) \in Nat
      BY <2>1
    <3> HIDE DEF q, q2
    <3> QED
      BY <1>2, <2>1, <3>1, PlacesAppend
  <2>3. /\ \/ Cardinality(Places(q, "DATA")) = Given(s)
           \/ Over(s) /\ Places(q, "FIN") = {} /\ Cardinality(Places(q, "DATA")) = read[s] - 1
        /\ Places(q, "FIN") # {} => Over(s)
        /\ \A i \in Places(q, "DATA"), j \in Places(q, "FIN") : i < j
    BY <1>4 DEF ChunksOf
  <2>4. SUFFICES
          /\ \/ Cardinality(Places(q2, "DATA")) = Given(s)'
             \/ /\ Over(s)' /\ Places(q2, "FIN") = {}
                /\ Cardinality(Places(q2, "DATA")) = read'[s] - 1
          /\ Places(q2, "FIN") # {} => Over(s)'
          /\ \A i \in Places(q2, "DATA"), j \in Places(q2, "FIN") : i < j
    BY <1>4 DEF ChunksOf
  <2> HIDE DEF q, q2
  <2>5. CASE flag = "RST"
    BY <1>2, <2>2, <2>3, <2>5 DEF Given, Over
  <2>6. CASE flag = "DATA"
    <3>1. /\ resp[s] = "DATA" /\ resp'[s] = "reading"
      BY <1>1, <1>2, <2>6
    <3>2. Cardinality(Places(q, "DATA")) = read[s] - 1 /\ Places(q, "FIN") = {}
      BY <2>3, <3>1 DEF Given, Over
    <3>3. Cardinality(Places(q2, "DATA")) = Cardinality(Places(q, "DATA")) + 1
      <4>1. Len(q) + 1 \notin Places(q, "DATA")
        BY <2>2
      <4> QED
        BY <2>2, <2>6, <4>1, FS_AddElement
    <3>4. Cardinality(Places(q2, "DATA")) = read'[s]
      BY <1>1, <1>4, <3>2, <3>3
    <3>5. Places(q2, "FIN") = {}
      BY <2>2, <2>6, <3>2
    <3> QED
      BY <3>1, <3>4, <3>5 DEF Given
  <2>7. CASE flag = "FIN"
    <3>1. resp[s] = "FIN" /\ resp'[s] = "leaving"
      BY <1>1, <1>2, <2>7
    <3>2. Cardinality(Places(q, "DATA")) = read[s] /\ Places(q, "FIN") = {}
      BY <2>3, <3>1 DEF Given, Over
    <3>3. Places(q2, "DATA") = Places(q, "DATA") /\ Places(q2, "FIN") = {Len(q) + 1}
      BY <2>2, <2>7, <3>2
    <3>4. \A i \in Places(q2, "DATA") : i < Len(q) + 1
      BY <2>2, <3>3
    <3> QED
      BY <3>1, <3>2, <3>3, <3>4 DEF Given, Over
  <2> QED
    BY <2>5, <2>6, <2>7
<1> QED
  BY <1>3, <1>4

LEMMA NextChunksInv == HandsInv /\ ReadInv /\ ChunksInv /\ [Next]_vars => ChunksInv'
<1> SUFFICES ASSUME HandsInv, ReadInv, ChunksInv, [Next]_vars, NEW t \in Streams
             PROVE  ChunksOf(t)'
  BY DEF ChunksInv
<1>i. ChunksOf(t)
  BY DEF ChunksInv
<1> USE DEF HandsInv
<1>1. CASE UNCHANGED <<resp, read, replies>>
  BY <1>1, <1>i, SameChunks
<1>r. ASSUME NEW s \in Streams, NEW C, SendRST(s, C), UNCHANGED <<resp, read>>
      PROVE  ChunksOf(t)'
  <2>1. CASE UNCHANGED replies
    BY <1>1, <1>r, <2>1
  <2>2. ASSUME NEW b, SendFrame(s, "RST", b)
        PROVE  ChunksOf(t)'
    BY <1>i, <1>r, <2>2, SentChunk
  <2> QED
    BY <1>r, <2>1, <2>2 DEF SendRST, SendLost, MarkClosed
<1>2. CASE RefuseSYN
  BY <1>2, <1>r DEF RefuseSYN
<1>3. CASE PushOverflow
  BY <1>3, <1>r DEF PushOverflow
<1>4. CASE HandleSYN
  <2> PICK f \in Streams : /\ Dequeue(f)
                           /\ resp' = [resp EXCEPT ![f] = "waiting"]
                           /\ UNCHANGED <<read, replies>>
    BY <1>4 DEF HandleSYN, reply
  <2>1. resp[f] = "none"
    BY DequeueFacts, FrameTypes DEF Started, ReadInv
  <2>2. resp'[t] = resp[t] \/ (resp[t] = "none" /\ resp'[t] = "waiting")
    <3>1. resp \in [Streams -> {"none", "waiting", "reading", "DATA", "FIN",
                               "leaving", "exited"}]
      BY DEF TypeOK
    <3> QED
      BY <2>1, <3>1
  <2> QED
    BY <1>i, <2>2, SameChunks
<1>5. CASE RouteStep /\ ~RefuseSYN /\ ~PushOverflow /\ ~HandleSYN
  BY <1>1, <1>5
  DEF RouteStep, RouteClose, RouteIgnored, PushNext, PushEarly,
      RouteSend, RouteClosed, RouteExit, reply
<1>6. ASSUME NEW s \in Streams, PumpStep(s)
      PROVE  ChunksOf(t)'
  <2>1. CASE DialFail(s)
    BY <1>r, <2>1 DEF DialFail
  <2>2. CASE DialOK(s) \/ Write(s) \/ WriteFail(s) \/ PumpDone(s) \/ PumpExit(s)
    BY <1>1, <2>2 DEF DialOK, Write, WriteFail, PumpDone, PumpExit, reply
  <2> QED
    BY <1>6, <2>1, <2>2 DEF PumpStep
<1>7. ASSUME NEW s \in Streams, RespStep(s)
      PROVE  ChunksOf(t)'
  <2>1. CASE ReadChunk(s)
    <3>1. \/ UNCHANGED <<resp[t], read[t]>>
          \/ resp[t] = "reading" /\ resp'[t] = "DATA" /\ read'[t] = read[t] + 1
      BY <2>1 DEF ReadChunk, TypeOK
    <3> QED
      BY <1>i, <2>1, <3>1, SameChunks DEF ReadChunk
  <2>2. CASE RespReady(s) \/ RespDone(s) \/ ReadEnd(s) \/ RespExit(s)
    <3>1. /\ UNCHANGED <<read, replies>>
          /\ resp[s] \in {"waiting", "reading", "leaving"}
          /\ \E to \in {"reading", "FIN", "leaving", "exited"} :
               /\ resp' = [resp EXCEPT ![s] = to]
               /\ resp[s] = "leaving" => to = "exited"
      BY <2>2 DEF RespReady, RespDone, ReadEnd, RespExit, reply
    <3>2. \/ resp'[t] = resp[t]
          \/ /\ resp[t] \in {"waiting", "reading", "leaving"} /\ resp'[t] # "DATA"
             /\ resp[t] = "leaving" => resp'[t] = "exited"
      BY <3>1 DEF TypeOK
    <3> QED
      BY <1>i, <3>1, <3>2, SameChunks
  <2>3. CASE Respond(s)
    <3>1. \/ \E b : SendFrame(s, resp[s], b) /\ Continue(s, TRUE)
          \/ UNCHANGED replies /\ (UNCHANGED resp \/ Continue(s, FALSE))
      BY <2>3 DEF Respond, SendLost, MarkClosed
    <3>2. resp[s] \in {"DATA", "FIN"} /\ UNCHANGED read
      BY <2>3 DEF Respond
    <3>3. ASSUME NEW b, SendFrame(s, resp[s], b), Continue(s, TRUE)
          PROVE  ChunksOf(t)'
      BY <1>i, <3>2, <3>3, SentChunk
    <3>4. CASE UNCHANGED <<replies, resp>>
      BY <1>1, <3>2, <3>4
    <3>5. CASE UNCHANGED replies /\ Continue(s, FALSE)
      <4>1. resp'[t] = resp[t] \/ (resp[t] \in {"DATA", "FIN"} /\ resp'[t] = "leaving")
        <5>1. /\ resp' = [resp EXCEPT ![s] = "leaving"]
              /\ resp \in [Streams -> {"none", "waiting", "reading", "DATA", "FIN",
                                       "leaving", "exited"}]
          BY <3>5 DEF Continue, TypeOK
        <5> QED
          BY <3>2, <5>1
      <4> QED
        BY <1>i, <3>2, <3>5, <4>1, SameChunks
    <3> QED
      BY <3>1, <3>3, <3>4, <3>5
  <2> QED
    BY <1>7, <2>1, <2>2, <2>3 DEF RespStep
<1>8. CASE \E b \in Bearers : Accept(b) \/ ReadError(b) \/ \E f \in Frames : ReadFrame(b, f)
  BY <1>1, <1>8 DEF Accept, ReadError, ReadFrame, reply
<1>9. CASE \E s \in Streams : CloseStep(s)
  BY <1>1, <1>9 DEF CloseStep, BeginClose, FinishClose, reply
<1>10. CASE Cancel \/ AcceptError \/ Join \/ CloseAll
  BY <1>1, <1>10 DEF Cancel, AcceptError, Join, CloseAll, LoadEntry, DropEntry, EntryClosed,
                     Stopped, MainStep, reply
<1>11. CASE UNCHANGED vars
  BY <1>1, <1>11 DEF vars, reply
<1> QED
  BY <1>2, <1>3, <1>4, <1>5, <1>6, <1>7, <1>8, <1>9, <1>10, <1>11 DEF Next

\* Whatever becomes of the bearers and however often sendFrame tries, each chunk
\* of a response is sent once, none after one that was lost, and a FIN after all
\* of them.
THEOREM ChunksSentOnce == Spec => []ChunksOnce
<1>1. Init => HandsInv /\ ReadInv /\ ChunksInv
  BY InitHandsInv, StartReadInv, InitChunksInv DEF Init, Starts
<1>2. HandsInv /\ ReadInv /\ ChunksInv /\ [Next]_vars => HandsInv' /\ ReadInv' /\ ChunksInv'
  BY NextHandsInv, NextReadInv, NextChunksInv
<1>3. HandsInv /\ ChunksInv => ChunksOnce
  <2> SUFFICES ASSUME HandsInv, ChunksInv, NEW s \in Streams
               PROVE  LET Sent(flag) == Places(replies[s], flag)
                          missing    == read[s] - Cardinality(Sent("DATA"))
                      IN  /\ missing \in {0, 1}
                          /\ resp[s] \in {"reading", "FIN"} \/ Sent("FIN") # {} => missing = 0
                          /\ \A i \in Sent("DATA"), j \in Sent("FIN") : i < j
    BY DEF ChunksOnce, Places
  <2>1. read[s] \in Nat
    BY BoundsAssumption DEF HandsInv, TypeOK
  <2> QED
    BY <2>1 DEF ChunksInv, ChunksOf, Given, Over
<1> QED
  BY <1>1, <1>2, <1>3, PTL DEF Spec

-----------------------------------------------------------------------------
(* What a server answers when nothing fails *)

AllLive == \A b \in Bearers : bearer[b] = "live"
Smooth == Failures = 0 /\ MaxStreams = 0 /\ BadTargets = {}

\* A step that sends nothing, and one that sends a frame of s over b.
Quiet ==
  /\ UNCHANGED replies
  /\ \A t \in Streams : Given(t)' = Given(t)
Replies(s, flag, b) ==
  /\ b \in PickFor(s.id)
  /\ replies' = [replies EXCEPT ![s] = Append(@, [flag |-> flag, via |-> b])]
  /\ \A t \in Streams : t # s \/ flag # "DATA" => Given(t)' = Given(t)
  /\ flag = "DATA" => /\ Given(s)' = Given(s) + 1
                      /\ Given(s) = read[s] - 1
                      /\ ~Over(s)
  /\ flag = "FIN" => Over(s)'
  /\ flag # "RST" => s \in Started
Answers ==
  Quiet \/ \E s \in Streams, flag \in {"DATA", "FIN", "RST"}, b \in Bearers :
             Replies(s, flag, b)
Onwards ==
  \A t \in Streams : (Over(t) => Over(t)') /\ (Done(t) => Done(t)')

LEMMA SmoothRST ==
  ASSUME TypeOK, Smooth, NEW s \in Streams, SendRST(s, PickFor(s.id)), UNCHANGED <<resp, read>>
  PROVE  Answers /\ UNCHANGED bearer
<1>1. ~Fail
  BY DEF Fail, Smooth, TypeOK
<1>2. UNCHANGED <<bearer, replies>> \/ \E b \in PickFor(s.id) : SendFrame(s, "RST", b)
  BY <1>1 DEF SendRST, SendLost, MarkClosed
<1>3. \A t \in Streams : Given(t)' = Given(t)
  BY DEF Given
<1>4. ASSUME NEW b \in PickFor(s.id), SendFrame(s, "RST", b)
      PROVE  Replies(s, "RST", b) /\ b \in Bearers /\ UNCHANGED bearer
  BY <1>3, <1>4, PickTypes DEF SendFrame, Replies
<1> QED
  BY <1>2, <1>3, <1>4 DEF Answers, Quiet, SendFrame

LEMMA SmoothRespond ==
  ASSUME HandsInv, ReadInv, AllLive, Smooth, NEW s \in Streams, Respond(s)
  PROVE  Answers /\ Onwards /\ UNCHANGED bearer
<1> USE DEF HandsInv
<1>1. ~Fail
  BY DEF Fail, Smooth, TypeOK
<1>s. s \in Started
  BY DEF Respond, ReadInv, Started
<1>2. Live # {}
  <2>2. via[s] \in Bearers
    BY <1>s, FrameTypes, NoneAssumption DEF QueueInv, TypeOK
  <2> QED
    BY <2>2 DEF AllLive, Live
<1>n. ~SendLost(tries[s])
  <2>1. Lost = {}
    BY DEF AllLive, Lost
  <2>2. Cardinality(Lost) = 0 /\ tries[s] >= 0
    BY <2>1, FS_EmptySet, BoundsAssumption DEF TypeOK
  <2> QED
    BY <2>2, BoundsAssumption DEF SendLost, TypeOK
<1>3. PICK b \in PickFor(s.id) : SendFrame(s, resp[s], b) /\ Continue(s, TRUE)
  BY <1>1, <1>2, <1>n DEF Respond, MarkClosed
<1>4. /\ resp[s] \in {"DATA", "FIN"} /\ UNCHANGED <<read, closing, bearer>>
      /\ replies' = [replies EXCEPT ![s] = Append(@, [flag |-> resp[s], via |-> b])]
      /\ resp' = [resp EXCEPT ![s] = IF resp[s] = "DATA" THEN "reading" ELSE "leaving"]
  BY <1>3 DEF Respond, SendFrame, Continue, life
<1>5. resp \in [Streams -> {"none", "waiting", "reading", "DATA", "FIN", "leaving", "exited"}]
      /\ read \in [Streams -> 0..Responses] /\ b \in Bearers
  BY PickTypes DEF TypeOK
<1>6. \A t \in Streams : t # s => Given(t)' = Given(t) /\ Over(t)' = Over(t)
  BY <1>4, <1>5 DEF Given, Over
<1>7. CASE resp[s] = "DATA"
  <2>1. /\ Given(s) = read[s] - 1 /\ Given(s)' = read[s] /\ read[s] \in Nat
        /\ ~Over(s)
    BY <1>4, <1>5, <1>7, BoundsAssumption DEF Given, Over
  <2>2. Given(s)' = Given(s) + 1
    BY <2>1
  <2>3. Replies(s, "DATA", b)
    BY <1>s, <1>3, <1>4, <1>6, <1>7, <2>1, <2>2 DEF Replies
  <2> QED
    BY <1>4, <1>5, <1>6, <2>1, <2>3 DEF Answers, Onwards, Done
<1>8. CASE resp[s] = "FIN"
  <2>1. Given(s)' = Given(s) /\ Over(s)' /\ ~Over(s)
    BY <1>4, <1>5, <1>8 DEF Given, Over
  <2>2. Replies(s, "FIN", b)
    BY <1>s, <1>3, <1>4, <1>6, <1>8, <2>1 DEF Replies
  <2> QED
    BY <1>4, <1>5, <1>6, <2>1, <2>2 DEF Answers, Onwards, Done
<1> QED
  BY <1>4, <1>7, <1>8

LEMMA SmoothSteps ==
  /\ HandsInv /\ ReadInv /\ AllLive /\ Smooth
  /\ \/ RouteStep
     \/ \E s \in Streams : PumpStep(s) \/ RespStep(s) \/ CloseStep(s)
  => Answers /\ Onwards /\ UNCHANGED bearer
<1> SUFFICES ASSUME HandsInv, ReadInv, AllLive, Smooth,
                    \/ RouteStep
                    \/ \E s \in Streams : PumpStep(s) \/ RespStep(s) \/ CloseStep(s)
             PROVE  Answers /\ Onwards /\ UNCHANGED bearer
  OBVIOUS
<1> USE DEF HandsInv
<1>1. ASSUME UNCHANGED <<resp, closing>>
      PROVE  Onwards
  BY <1>1 DEF Onwards, Over, Done
<1>2. ASSUME UNCHANGED <<resp, read, replies>>
      PROVE  Answers
  BY <1>2 DEF Answers, Quiet, Given
<1>3. CASE RouteStep
  <2>1. ~RefuseSYN
    BY DEF RefuseSYN, Smooth, AtLimit
  <2>2. CASE PushOverflow
    <3> PICK s \in Streams : SendRST(s, PickFor(s.id))
      BY <2>2 DEF PushOverflow
    <3>1. UNCHANGED <<resp, read, closing>>
      BY <2>2 DEF PushOverflow, life
    <3> QED
      BY <1>1, <3>1, SmoothRST
  <2>3. CASE HandleSYN
    <3> PICK f \in Streams : /\ Dequeue(f)
                             /\ resp' = [resp EXCEPT ![f] = "waiting"]
                             /\ UNCHANGED <<read, replies, closing, bearer>>
      BY <2>3 DEF HandleSYN, reply, life, registry
    <3>1. f \notin Started
      BY DequeueFacts, FrameTypes
    <3>2. resp[f] = "none"
      BY <3>1 DEF Started, ReadInv
    <3>3. resp'[f] = "waiting" /\ \A t \in Streams : t # f => resp'[t] = resp[t]
      BY DEF TypeOK
    <3>4. \A t \in Streams : Given(t)' = Given(t) /\ (Over(t) => Over(t)')
      BY <3>2, <3>3 DEF Given, Over
    <3> QED
      BY <3>4 DEF Answers, Quiet, Onwards, Done
  <2>4. CASE ~HandleSYN /\ ~PushOverflow
    <3>1. UNCHANGED <<resp, read, replies, closing, bearer>>
      BY <1>3, <2>1, <2>4
      DEF RouteStep, RouteClose, RouteIgnored, PushNext, PushEarly, RouteSend,
          RouteClosed, RouteExit, reply, life, registry
    <3> QED
      BY <1>1, <1>2, <3>1
  <2> QED
    BY <2>2, <2>3, <2>4
<1>4. ASSUME NEW s \in Streams, PumpStep(s)
      PROVE  Answers /\ Onwards /\ UNCHANGED bearer
  <2>1. UNCHANGED <<resp, read, closing>>
    BY <1>4 DEF PumpStep, DialOK, DialFail, Write, WriteFail, LeavePump, PumpDone,
                PumpExit, reply, life
  <2>2. CASE DialFail(s)
    BY <1>1, <2>1, <2>2, SmoothRST DEF DialFail
  <2>3. CASE ~DialFail(s)
    <3>1. UNCHANGED <<replies, bearer>>
      BY <1>4, <2>3 DEF PumpStep, DialOK, Write, WriteFail, PumpDone, PumpExit, reply, registry
    <3> QED
      BY <1>1, <1>2, <2>1, <3>1
  <2> QED
    BY <2>2, <2>3
<1>5. ASSUME NEW s \in Streams, RespStep(s)
      PROVE  Answers /\ Onwards /\ UNCHANGED bearer
  <2>1. CASE Respond(s)
    BY <2>1, SmoothRespond
  <2>2. CASE ReadChunk(s)
    <3>1. /\ resp[s] = "reading" /\ resp' = [resp EXCEPT ![s] = "DATA"]
          /\ read' = [read EXCEPT ![s] = @ + 1]
          /\ UNCHANGED <<replies, closing, bearer>>
      BY <2>2 DEF ReadChunk, life, registry
    <3>2. /\ resp'[s] = "DATA" /\ read'[s] = read[s] + 1 /\ read[s] \in Nat
          /\ \A t \in Streams : t # s => resp'[t] = resp[t] /\ read'[t] = read[t]
      BY <3>1, BoundsAssumption DEF TypeOK
    <3>3. \A t \in Streams : Given(t)' = Given(t) /\ (Over(t) => Over(t)')
      BY <3>1, <3>2 DEF Given, Over
    <3> QED
      BY <3>1, <3>3 DEF Answers, Quiet, Onwards, Done
  <2>3. CASE RespReady(s) \/ RespDone(s) \/ ReadEnd(s) \/ RespExit(s)
    <3>1. /\ UNCHANGED <<read, replies, closing, bearer>>
          /\ resp[s] \in {"waiting", "reading", "leaving"}
          /\ \E to \in {"reading", "FIN", "leaving", "exited"} :
               /\ resp' = [resp EXCEPT ![s] = to]
               /\ resp[s] = "leaving" => to = "exited"
      BY <2>3 DEF RespReady, RespDone, ReadEnd, RespExit, reply, life, registry
    <3>2. \A t \in Streams : Given(t)' = Given(t) /\ (Over(t) => Over(t)')
      BY <3>1 DEF Given, Over, TypeOK
    <3> QED
      BY <3>1, <3>2 DEF Answers, Quiet, Onwards, Done
  <2> QED
    BY <1>5, <2>1, <2>2, <2>3 DEF RespStep
<1>6. ASSUME NEW s \in Streams, CloseStep(s)
      PROVE  Answers /\ Onwards /\ UNCHANGED bearer
  <2>1. UNCHANGED <<resp, read, replies, bearer>>
    BY <1>6 DEF CloseStep, BeginClose, FinishClose, reply, registry
  <2>2. \A t \in Streams : Done(t) => Done(t)'
    BY <1>6 DEF CloseStep, BeginClose, FinishClose, Done, TypeOK
  <2> QED
    BY <1>2, <2>1, <2>2 DEF Onwards, Over
<1> QED
  BY <1>3, <1>4, <1>5, <1>6

\* Until the stream is closed, it answers over the bearer of its SYN,
LEMMA AnswerKeeps ==
  ASSUME UsedOnce, HandsInv, StickyInv, AllLive,
         NEW s \in Streams, NEW flag, NEW b, Replies(s, flag, b), flag # "RST", ~Done(s)
  PROVE  b = via[s]
<1>1. s \in Started /\ b \in PickFor(s.id)
  BY DEF Replies
<1>2. via[s] \in Live
  BY <1>1, FrameTypes, NoneAssumption DEF HandsInv, QueueInv, TypeOK, AllLive, Live
<1> QED
  BY <1>1, <1>2, StickyPick

\* and before its SYN has come it has answered nothing.
LEMMA GivenTypes ==
  ASSUME HandsInv, ReadInv, NEW s \in Streams
  PROVE  /\ Given(s) \in 0..Responses
         /\ resp[s] = "DATA" => read[s] - 1 \in 0..Responses
         /\ via[s] = None => Given(s) = 0
<1>1. read[s] \in 0..Responses /\ Responses \in Nat
  BY BoundsAssumption DEF HandsInv, TypeOK
<1>2. resp[s] = "DATA" => read[s] > 0
  BY DEF ReadInv
<1>3. ASSUME via[s] = None PROVE Given(s) = 0
  <2>1. s \notin Started
    BY <1>3 DEF HandsInv, QueueInv
  <2>2. resp[s] = "none" /\ read[s] = 0
    BY <2>1 DEF Started, ReadInv
  <2> QED
    BY <2>2 DEF Given
<1> QED
  BY <1>1, <1>2, <1>3 DEF Given

=============================================================================
