------------------------ MODULE ClientStreams_proofs ------------------------
(***************************************************************************)
(* What the run of ClientStreams checks for one stream, for any number of  *)
(* them, of chunks and of answers, and any depth of the channels: the      *)
(* types, FinTellsAll and LiveIsRegistered.                                *)
(***************************************************************************)
EXTENDS ClientStreams, SequenceTheorems, TLAPS

-----------------------------------------------------------------------------
(* Type correctness *)

USE ClientBounds

\* A stream's sequence is appended to, or loses its head.
LEMMA AppendToOne ==
  ASSUME NEW S, NEW f \in [Streams -> Seq(S)], NEW s \in Streams, NEW e \in S
  PROVE  /\ [f EXCEPT ![s] = Append(@, e)] \in [Streams -> Seq(S)]
         /\ Len(Append(f[s], e)) = Len(f[s]) + 1
BY AppendProperties
LEMMA TailOfOne ==
  ASSUME NEW S, NEW f \in [Streams -> Seq(S)], NEW s \in Streams, f[s] # <<>>
  PROVE  /\ [f EXCEPT ![s] = Tail(@)] \in [Streams -> Seq(S)]
         /\ Len(Tail(f[s])) = Len(f[s]) - 1
         /\ Head(f[s]) \in S
BY HeadTailProperties

\* TypeOK holds before the first connection.
LEMMA InitType == Init => TypeOK
<1> SUFFICES ASSUME Init PROVE TypeOK
  OBVIOUS
<1>1. /\ sent \in [Streams -> Seq(Frames)]
      /\ queue \in [Streams -> Seq(0..Responses)]
      /\ got \in [Streams -> Seq(0..Responses)]
      /\ inboundCh \in Seq(Answers)
      /\ \A s \in Streams : Len(queue[s]) <= QueueDepth
      /\ Len(inboundCh) <= InboundDepth
  BY EmptySeq DEF Init
<1> QED
  BY <1>1 DEF Init, TypeOK

\* Every step of a handler, a stream's goroutines, demuxLoop, Stop and the world
\* outside keeps TypeOK.
LEMMA TypeStep == TypeOK /\ [Next]_vars => TypeOK'
<1> SUFFICES ASSUME TypeOK, [Next]_vars PROVE TypeOK'
  OBVIOUS
<1> USE DEF TypeOK, outbound, inbound, table, outside, streams, routing,
            stopping, beyond
<1>1. ASSUME NEW s \in Streams, NewStream(s) \/ RunReturns(s) PROVE TypeOK'
  <2>1. CASE NewStream(s)
    BY <1>1, <2>1 DEF NewStream
  <2>2. CASE RunReturns(s)
    BY <1>1, <2>2 DEF RunReturns
  <2> QED
    BY <1>1, <2>1, <2>2
<1>2. ASSUME NEW s \in Streams, NEW f \in Frames,
             NEW to \in {"read", "closing"}, Dispatched(s, f, to),
             UNCHANGED <<offset, table, done, inbound, queue, beyond>>
      PROVE  TypeOK'
  <2>1. sent' \in [Streams -> Seq(Frames)]
    <3>1. [sent EXCEPT ![s] = Append(@, f)] \in [Streams -> Seq(Frames)]
      BY AppendToOne
    <3> QED
      BY <1>2, <3>1 DEF Dispatched
  <2>2. out' \in [Streams -> {"idle", "syn", "read", "chunk", "fin", "closing",
                            "exited"}]
    BY <1>2 DEF Dispatched
  <2>3. \A t \in Streams : out'[t] = "chunk" => out[t] = "chunk"
    BY <1>2 DEF Dispatched
  <2> QED
    BY <1>2, <2>1, <2>2, <2>3
<1>3. ASSUME NEW s \in Streams, SendSYN(s) PROVE TypeOK'
  <2>1. [flag |-> "SYN", seq |-> 0] \in Frames
    BY DEF Frames
  <2> QED
    BY <1>2, <1>3, <2>1 DEF SendSYN
<1>4. ASSUME NEW s \in Streams, SendFIN(s) PROVE TypeOK'
  <2>1. [flag |-> "FIN", seq |-> offset[s]] \in Frames
    BY DEF Frames
  <2> QED
    BY <1>2, <1>4, <2>1 DEF SendFIN
<1>5. ASSUME NEW s \in Streams, ReadChunk(s) PROVE TypeOK'
  <2>1. offset' \in [Streams -> 0..Chunks]
    BY <1>5 DEF ReadChunk
  <2> QED
    BY SMTT(30), <1>5, <2>1 DEF ReadChunk
<1>6. ASSUME NEW s \in Streams, WriteLocal(s) PROVE TypeOK'
  <2>1. /\ got' \in [Streams -> Seq(0..Responses)]
        /\ queue' \in [Streams -> Seq(0..Responses)]
    BY <1>6, AppendToOne, TailOfOne DEF WriteLocal
  <2>2. \A t \in Streams : Len(queue'[t]) <= QueueDepth
    BY <1>6, TailOfOne DEF WriteLocal
  <2> QED
    BY <1>6, <2>1, <2>2 DEF WriteLocal
<1>7. ASSUME NEW s \in Streams, WriteFail(s) PROVE TypeOK'
  <2>1. queue' \in [Streams -> Seq(0..Responses)]
    BY <1>7, TailOfOne DEF WriteFail
  <2>2. \A t \in Streams : Len(queue'[t]) <= QueueDepth
    BY <1>7, TailOfOne DEF WriteFail
  <2> QED
    BY <1>7, <2>1, <2>2 DEF WriteFail
<1>8. ASSUME NEW s \in Streams,
             SeeDone(s) \/ InExit(s) \/ ReadEnd(s) \/ OutExit(s)
      PROVE  TypeOK'
  <2>1. /\ out' \in [Streams -> {"idle", "syn", "read", "chunk", "fin", "closing",
                               "exited"}]
        /\ \A t \in Streams : out'[t] = "chunk" => out[t] = "chunk"
        /\ in' \in [Streams -> {"idle", "select", "closing", "exited"}]
        /\ done' \subseteq Streams
    BY <1>8 DEF SeeDone, InExit, ReadEnd, OutExit
  <2>2. UNCHANGED <<offset, sent, got, queue, table, beyond>>
    BY <1>8 DEF SeeDone, InExit, ReadEnd, OutExit
  <2> QED
    BY <2>1, <2>2
<1>9. ASSUME NEW kinds, Receives(kinds)
       PROVE  /\ Head(inboundCh) \in Answers
              /\ inboundCh' \in Seq(Answers)
              /\ Len(inboundCh') <= InboundDepth
  BY <1>9, HeadTailProperties DEF Receives
<1>10. CASE RouteEnd
  <2>1. /\ Head(inboundCh) \in Answers
        /\ inboundCh' \in Seq(Answers)
        /\ Len(inboundCh') <= InboundDepth
    BY <1>9, <1>10 DEF RouteEnd
  <2> QED
    BY <1>10, <2>1 DEF RouteEnd
<1>11. CASE RouteData
  <2> DEFINE f == Head(inboundCh)
  <2>1. /\ f \in Answers
        /\ inboundCh' \in Seq(Answers)
        /\ Len(inboundCh') <= InboundDepth
    BY <1>9, <1>11 DEF RouteData
  <2>2. f.stream \in Streams /\ f.n \in 0..Responses
    BY <2>1 DEF Answers
  <2>3. /\ queue' \in [Streams -> Seq(0..Responses)]
        /\ \A t \in Streams : Len(queue'[t]) <= QueueDepth
    <3>1. CASE UNCHANGED queue
      BY <3>1
    <3>2. CASE /\ HasRoom(f.stream)
               /\ queue' = [queue EXCEPT ![f.stream] = Append(@, f.n)]
      <4>1. /\ queue' \in [Streams -> Seq(0..Responses)]
            /\ Len(Append(queue[f.stream], f.n)) = Len(queue[f.stream]) + 1
        BY <2>2, <3>2, AppendToOne
      <4>2. Len(queue[f.stream]) \in Nat /\ QueueDepth \in Nat
        BY <2>2, ClientBounds
      <4>3. Len(queue'[f.stream]) <= QueueDepth
        BY <2>2, <3>2, <4>1, <4>2 DEF HasRoom
      <4>4. \A t \in Streams : Len(queue'[t]) <= QueueDepth
        BY <2>2, <3>2, <4>3
      <4> QED
        BY <3>2, <4>1, <4>4
    <3> QED
      BY <1>11, <3>1, <3>2 DEF RouteData, DeliverInbound
  <2> QED
    BY <1>11, <2>1, <2>3 DEF RouteData
<1>12. ASSUME NEW a \in Answers, Receive(a)
       PROVE  inboundCh' \in Seq(Answers) /\ Len(inboundCh') <= InboundDepth
  BY <1>12, AppendProperties DEF Receive
<1>13. ASSUME NEW s \in Streams, Answer(s) PROVE TypeOK'
  <2>1. [stream |-> s, kind |-> "data", n |-> reply[s].n] \in Answers
    BY DEF Answers
  <2>2. inboundCh' \in Seq(Answers) /\ Len(inboundCh') <= InboundDepth
    BY <1>13, <1>12, <2>1 DEF Answer
  <2>3. reply' \in [Streams -> [n : 0..Responses, end : Ends \cup {"none"}]]
    <3>1. reply[s].n + 1 \in 0..Responses
      BY <1>13, ClientBounds DEF Answer
    <3> QED
      BY <1>13, <3>1 DEF Answer
  <2>4. UNCHANGED <<table, done, streams, app, demux, closing, stopping>>
    BY <1>13 DEF Answer, Receive
  <2> QED
    BY <2>2, <2>3, <2>4
<1>14. ASSUME NEW s \in Streams, EndAnswer(s) PROVE TypeOK'
  <2>1. PICK kind \in Ends :
          /\ reply' = [reply EXCEPT ![s].end = kind]
          /\ Receive([stream |-> s, kind |-> kind, n |-> 0])
    BY <1>14 DEF EndAnswer
  <2>2. [stream |-> s, kind |-> kind, n |-> 0] \in Answers
    BY ClientBounds DEF Answers
  <2>3. inboundCh' \in Seq(Answers) /\ Len(inboundCh') <= InboundDepth
    BY <1>12, <2>1, <2>2
  <2>4. reply' \in [Streams -> [n : 0..Responses, end : Ends \cup {"none"}]]
    BY <2>1
  <2> QED
    BY <2>1, <2>3, <2>4 DEF Receive
<1>15. ASSUME NEW s \in Streams, SendChunk(s) PROVE TypeOK'
  <2>1. [flag |-> "data", seq |-> offset[s] - 1] \in Frames
    BY <1>15 DEF Frames, SendChunk
  <2> QED
    BY <1>2, <1>15, <2>1 DEF SendChunk
<1>16. CASE DemuxClose \/ DemuxExit
  BY <1>16 DEF DemuxClose, DemuxExit
<1>17. CASE StopCancel \/ StopRange \/ StopReturn
  BY <1>17 DEF StopCancel, StopRange, StopReturn
<1>18. ASSUME NEW s \in Streams, StopEntry(s) \/ AppEnds(s) PROVE TypeOK'
  BY <1>18 DEF StopEntry, AppEnds
<1>19. CASE UNCHANGED vars
  BY <1>19 DEF vars
<1> QED
  BY <1>1, <1>2, <1>3, <1>4, <1>5, <1>6, <1>7, <1>8, <1>9, <1>10, <1>16, <1>17,
     <1>18, <1>13, <1>14, <1>19, <1>11, <1>15
     DEF Next, DemuxStep, StopStep, OutStep, InStep

\* The client's variables always have their types, and its channels their bounds.
THEOREM TypeCorrect == Spec => []TypeOK
BY InitType, TypeStep, PTL DEF Spec

-----------------------------------------------------------------------------
(* A live stream can be found *)

\* What demuxLoop took out of the registry and has yet to close it closes next.
Closing == demux # "closing" => closing = {}

\* LiveIsRegistered and what it rests on survive every step.
LEMMA LiveStep ==
  TypeOK /\ Closing /\ LiveIsRegistered /\ [Next]_vars
    => Closing' /\ LiveIsRegistered'
<1> SUFFICES ASSUME TypeOK, Closing, LiveIsRegistered, [Next]_vars
             PROVE  Closing' /\ LiveIsRegistered'
  OBVIOUS
<1> USE DEF TypeOK, Closing, LiveIsRegistered, table, routing, stopping, beyond
<1>1. ASSUME NEW s \in Streams, NewStream(s) \/ RunReturns(s)
      PROVE  Closing' /\ LiveIsRegistered'
  BY <1>1 DEF NewStream, RunReturns
<1>2. ASSUME NEW s \in Streams, OutStep(s) \/ InStep(s)
      PROVE  Closing' /\ LiveIsRegistered'
  BY <1>2
     DEF OutStep, SendSYN, ReadChunk, SendChunk, ReadEnd, SendFIN, OutExit,
         InStep, WriteLocal, WriteFail, SeeDone, InExit
<1>3. CASE RouteData \/ DemuxClose \/ DemuxExit
  BY <1>3 DEF RouteData, Receives, DemuxClose, DemuxExit
<1>4. CASE RouteEnd
  BY <1>4 DEF RouteEnd, Receives
<1>5. CASE StopCancel \/ StopRange \/ StopReturn
  BY <1>5 DEF StopCancel, StopRange, StopReturn
<1>6. ASSUME NEW s \in Streams, StopEntry(s) PROVE Closing' /\ LiveIsRegistered'
  BY <1>6 DEF StopEntry
<1>7. ASSUME NEW s \in Streams, AppEnds(s) \/ Answer(s) \/ EndAnswer(s)
      PROVE  Closing' /\ LiveIsRegistered'
  BY <1>7 DEF AppEnds, Answer, EndAnswer, Receive
<1>8. CASE UNCHANGED vars
  BY <1>8 DEF vars
<1> QED
  BY <1>1, <1>2, <1>3, <1>4, <1>5, <1>6, <1>7, <1>8
     DEF Next, DemuxStep, StopStep

\* However handlers, demuxLoop and Stop follow each other, a stream that runs and
\* is not closed is in the registry, or demuxLoop is about to close it.
THEOREM AlwaysLiveIsRegistered == Spec => []LiveIsRegistered
<1>1. Init => Closing /\ LiveIsRegistered
  BY DEF Init, Closing, LiveIsRegistered
<1> QED
  BY <1>1, TypeCorrect, LiveStep, PTL DEF Spec

-----------------------------------------------------------------------------
(* FIN tells how much was sent *)

\* Where runOutbound is tells how many chunks were reserved but not sent: one
\* between Reserve and SendFrame, none when it reads or sends FIN.
Accounted ==
  \A s \in Streams :
    /\ handler[s] = "handshake" => out[s] = "idle"
    /\ out[s] \in {"idle", "syn"} => offset[s] = 0 /\ sent[s] = <<>>
    /\ out[s] \in {"read", "fin"} => Len(sent[s]) = offset[s] + 1
    /\ out[s] = "chunk" => Len(sent[s]) = offset[s]
    /\ out[s] \in {"read", "chunk", "fin"} =>
         \A i \in 1..Len(sent[s]) : sent[s][i].flag # "FIN"

FinInv == FinTellsAll /\ Accounted

\* FinInv survives every step.
LEMMA FinStep == TypeOK /\ FinInv /\ [Next]_vars => FinInv'
<1> SUFFICES ASSUME TypeOK, FinInv, [Next]_vars PROVE FinInv'
  OBVIOUS
<1> USE DEF FinInv, FinTellsAll, Accounted
<1>1. ASSUME NEW s \in Streams, NewStream(s) PROVE FinInv'
  <2>1. UNCHANGED <<offset, sent>> /\ out' = [out EXCEPT ![s] = "syn"]
    BY <1>1 DEF NewStream
  <2>2. offset[s] = 0 /\ sent[s] = <<>>
    BY <1>1 DEF NewStream
  <2>3. /\ out'[s] = "syn" /\ handler'[s] = "running"
        /\ \A t \in Streams \ {s} : out'[t] = out[t] /\ handler'[t] = handler[t]
    BY <1>1 DEF NewStream, TypeOK
  <2> QED
    BY <2>1, <2>2, <2>3
<1>2. ASSUME NEW s \in Streams, NEW f \in Frames,
             NEW to \in {"read", "closing"},
             out[s] \in {"syn", "chunk", "fin"},
             f.flag = "SYN" <=> out[s] = "syn",
             out[s] # "syn" => f.seq = Len(sent[s]) - 1,
             f.flag = "FIN" => to = "closing",
             to = "closing" <=> out[s] = "fin",
             Dispatched(s, f, to), UNCHANGED <<offset, handler>>
      PROVE  FinInv'
  <2>1. CASE sent' = sent /\ out' = [out EXCEPT ![s] = "closing"]
    <3>1. /\ out'[s] = "closing" /\ handler[s] # "handshake"
          /\ \A t \in Streams \ {s} : out'[t] = out[t]
      BY <2>1, <1>2 DEF TypeOK
    <3> QED
      BY <2>1, <1>2, <3>1
  <2>2. CASE /\ sent' = [sent EXCEPT ![s] = Append(@, f)]
             /\ out' = [out EXCEPT ![s] = to]
    <3>1. sent[s] \in Seq(Frames)
      BY DEF TypeOK
    <3>2. /\ sent'[s] = Append(sent[s], f)
          /\ \A t \in Streams \ {s} : sent'[t] = sent[t] /\ out'[t] = out[t]
          /\ out'[s] = to
      BY <2>2 DEF TypeOK
    <3>3. /\ Len(sent'[s]) = Len(sent[s]) + 1
          /\ \A i \in 1..Len(sent[s]) : sent'[s][i] = sent[s][i]
          /\ sent'[s][Len(sent[s]) + 1] = f
      BY <3>1, <3>2
    <3>4. \A i \in 1..Len(sent[s]) : sent[s][i].flag # "FIN"
      BY <1>2
    <3>5. (out[s] = "syn" <=> Len(sent[s]) = 0) /\ offset[s] \in Nat
      BY <1>2 DEF TypeOK
    <3>6. \A i \in 1..Len(sent'[s]) :
            /\ sent'[s][i].flag = "SYN" <=> i = 1
            /\ i > 1 => sent'[s][i].seq = i - 2
            /\ sent'[s][i].flag = "FIN" => i = Len(sent'[s])
      <4>1. ASSUME NEW i \in 1..Len(sent[s])
            PROVE  /\ sent'[s][i].flag = "SYN" <=> i = 1
                   /\ i > 1 => sent'[s][i].seq = i - 2
                   /\ sent'[s][i].flag # "FIN"
        BY <1>2, <3>3, <3>4
      <4>2. LET n == Len(sent[s]) + 1
            IN  /\ sent'[s][n].flag = "SYN" <=> n = 1
                /\ n > 1 => sent'[s][n].seq = n - 2
        BY <1>2, <3>1, <3>3, <3>5
      <4> QED
        BY SMTT(30), <3>1, <3>3, <4>1, <4>2
    <3>7. FinTellsAll'
      <4> SUFFICES ASSUME NEW t \in Streams, NEW i \in 1..Len(sent'[t])
                   PROVE  /\ sent'[t][i].flag = "SYN" <=> i = 1
                          /\ i > 1 => sent'[t][i].seq = i - 2
                          /\ sent'[t][i].flag = "FIN" => i = Len(sent'[t])
        OBVIOUS
      <4>1. CASE t = s
        BY <3>6, <4>1
      <4>2. CASE t # s
        BY <3>2, <4>2
      <4> QED
        BY <4>1, <4>2
    <3>10. handler[s] # "handshake"
      BY <1>2
    <3>8. ASSUME to = "read" PROVE Accounted'
      <4>1. f.flag # "FIN"
        BY <1>2, <3>8
      <4>2. \A i \in 1..Len(sent'[s]) : sent'[s][i].flag # "FIN"
        BY SMTT(30), <3>1, <3>3, <3>4, <4>1
      <4>3. Len(sent'[s]) = offset'[s] + 1
        BY <1>2, <3>3, <3>5, <3>8
      <4> QED
        BY <1>2, <3>2, <3>8, <3>10, <4>2, <4>3
    <3>9. Accounted'
      BY <1>2, <3>2, <3>8, <3>10
    <3> QED
      BY <3>7, <3>9
  <2> QED
    BY <1>2, <2>1, <2>2 DEF Dispatched
<1>3. ASSUME NEW s \in Streams, ReadChunk(s) PROVE FinInv'
  BY SMTT(30), <1>3 DEF ReadChunk, TypeOK, table
<1>4. ASSUME NEW s \in Streams, SendSYN(s) PROVE FinInv'
  <2>1. [flag |-> "SYN", seq |-> 0] \in Frames
    BY DEF Frames
  <2> QED
    BY <1>2, <1>4, <2>1 DEF SendSYN, table
<1>5. ASSUME NEW s \in Streams, SendChunk(s) PROVE FinInv'
  <2>1. [flag |-> "data", seq |-> offset[s] - 1] \in Frames
    BY <1>5 DEF Frames, SendChunk, TypeOK
  <2>2. out[s] = "chunk" /\ Len(sent[s]) = offset[s]
    BY <1>5 DEF SendChunk
  <2> QED
    BY <1>2, <1>5, <2>1, <2>2 DEF SendChunk, table
<1>6. ASSUME NEW s \in Streams, SendFIN(s) PROVE FinInv'
  <2>1. [flag |-> "FIN", seq |-> offset[s]] \in Frames
    BY DEF Frames, TypeOK
  <2>2. out[s] = "fin" /\ Len(sent[s]) = offset[s] + 1 /\ offset[s] \in Nat
    BY <1>6 DEF SendFIN, TypeOK
  <2> DEFINE f == [flag |-> "FIN", seq |-> offset[s]]
  <2>3. /\ f.flag = "FIN" /\ f.seq = Len(sent[s]) - 1
        /\ Dispatched(s, f, "closing") /\ UNCHANGED <<offset, handler>>
    BY <1>6, <2>2 DEF SendFIN, table
  <2> HIDE DEF f
  <2> QED
    BY <1>2, <2>1, <2>2, <2>3 DEF f
<1>7. ASSUME NEW s \in Streams, ReadEnd(s) \/ OutExit(s) PROVE FinInv'
  <2>1. /\ UNCHANGED <<offset, sent, handler>> /\ handler[s] # "handshake"
        /\ \/ out[s] = "read" /\ out' = [out EXCEPT ![s] = "fin"]
           \/ out[s] = "closing" /\ out' = [out EXCEPT ![s] = "exited"]
    BY <1>7 DEF ReadEnd, OutExit, table
  <2>2. \A t \in Streams \ {s} : out'[t] = out[t]
    BY <2>1 DEF TypeOK
  <2>3. out'[s] = IF out[s] = "read" THEN "fin" ELSE "exited"
    BY <2>1 DEF TypeOK
  <2> QED
    BY <2>1, <2>2, <2>3
<1>8. ASSUME UNCHANGED outbound,
             \A s \in Streams :
               handler'[s] = "handshake" => handler[s] = "handshake"
      PROVE  FinInv'
  BY <1>8 DEF outbound
<1>9. ASSUME NEW s \in Streams, RunReturns(s) \/ InStep(s) \/ StopEntry(s)
               \/ AppEnds(s) \/ Answer(s) \/ EndAnswer(s)
      PROVE  FinInv'
  <2>1. UNCHANGED outbound
    BY <1>9
       DEF RunReturns, InStep, WriteLocal, WriteFail, SeeDone, InExit,
           StopEntry, AppEnds, Answer, EndAnswer, Receive, streams
  <2>2. \A t \in Streams : handler'[t] = "handshake" => handler[t] = "handshake"
    BY <1>9
       DEF RunReturns, InStep, WriteLocal, WriteFail, SeeDone, InExit,
           StopEntry, AppEnds, Answer, EndAnswer, Receive, table, TypeOK
  <2> QED
    BY <1>8, <2>1, <2>2
<1>10. CASE DemuxStep \/ StopCancel \/ StopRange \/ StopReturn \/ UNCHANGED vars
  <2>1. UNCHANGED outbound
    BY <1>10
       DEF DemuxStep, RouteData, RouteEnd, DemuxClose, DemuxExit, StopCancel,
           StopRange, StopReturn, streams, outbound, vars
  <2>2. handler' = handler
    BY <1>10
       DEF DemuxStep, RouteData, RouteEnd, DemuxClose, DemuxExit, StopCancel,
           StopRange, StopReturn, table, vars
  <2> QED
    BY <2>1, <2>2, <1>8
<1>11. ASSUME NEW s \in ranging, StopEntry(s) PROVE FinInv'
  BY <1>11, <1>9 DEF TypeOK
<1> QED
  BY <1>1, <1>2, <1>3, <1>4, <1>5, <1>7, <1>8, <1>9, <1>10, <1>11, <1>6
     DEF Next, StopStep, OutStep

\* Whatever the bearers take or refuse, what they get of a stream has no gap, and
\* its FIN carries the length of it.
THEOREM AlwaysFinTellsAll == Spec => []FinTellsAll
<1>1. Init => FinInv
  BY DEF Init, FinInv, FinTellsAll, Accounted
<1>2. TypeOK /\ FinInv /\ [Next]_vars => FinInv'
  BY FinStep
<1>3. FinInv => FinTellsAll
  BY DEF FinInv
<1> QED
  BY <1>1, <1>2, <1>3, TypeCorrect, PTL DEF Spec
=============================================================================
