------------------------ MODULE BearerTunnel_proofs ------------------------
(***************************************************************************)
(* What BearerTunnel's runs check for two senders and three connections,   *)
(* for any number of them: the types, NoneLeaks and FramesWhole.           *)
(*                                                                         *)
(* The invariants rest on who works on which connection: runLoop has       *)
(* always the newest one, a sender has the one writeMu lets it write, and  *)
(* only a sender that still holds writeMu leaves a torn frame on an open   *)
(* connection.                                                             *)
(***************************************************************************)
EXTENDS BearerTunnel, SequenceTheorems, TLAPS

\* Of the connections numbered beyond dialled, nothing exists yet.
Fresh ==
  \A c \in Conns : c > dialled => link[c] = "none" /\ wire[c] = <<>>

\* runLoop works on the newest connection, and so does the tunnel, once it is
\* stored.
Newest ==
  /\ LoopHas => loop.conn = dialled
  /\ conn # None => conn = dialled /\ loop.at # "dialled"

\* A sender works on a connection that was stored before.
Stored ==
  \A p \in Senders : sender[p].conn # None =>
    /\ sender[p].conn <= dialled
    /\ loop.at = "dialled" => sender[p].conn < dialled

\* A sender that has a connection holds writeMu.
Exclusive == \A p \in Senders : sender[p].conn # None => writer = p

\* A torn frame is the last of its connection, and the connection is lost or the
\* sender about to drop it.
Torn ==
  \A c \in Conns : \A i \in 1..Len(wire[c]) : wire[c][i] = "part" =>
    /\ i = Len(wire[c])
    /\ \/ link[c] # "open"
       \/ \E p \in Senders : /\ sender[p].at \in {"marking", "dropping"}
                             /\ sender[p].conn = c

IInv ==
  TypeOK /\ NoneLeaks /\ Fresh /\ Newest /\ Stored /\ Exclusive /\ Torn

USE TunnelBounds, NoneAssumption

\* IInv holds before runLoop starts.
LEMMA InitInv == Init => IInv
<1> SUFFICES ASSUME Init PROVE IInv
  OBVIOUS
<1>1. TypeOK
  <2>1. wire \in [Conns -> Seq({"frame", "part"})]
    BY EmptySeq DEF Init
  <2>2. stopped \in BOOLEAN
    BY DEF Init
  <2> QED
    BY <2>1, <2>2 DEF Init, TypeOK, LoopHas, SenderHas, Conns
<1>2. NoneLeaks /\ Fresh /\ Newest /\ Stored /\ Exclusive /\ Torn
  BY DEF Init, LoopHas, NoneLeaks, Fresh, Newest, Stored, Exclusive, Torn, Conns
<1> QED
  BY <1>1, <1>2 DEF IInv

\* Every step of runLoop, the senders, Stop and the network keeps TypeOK.
LEMMA TypeStep == TypeOK /\ [Next]_vars => TypeOK'
<1> SUFFICES ASSUME TypeOK, [Next]_vars PROVE TypeOK'
  OBVIOUS
<1> USE DEF TypeOK, LoopHas, SenderHas, Conns, sending, stopping
<1>1. CASE Top
  BY <1>1 DEF Top, Goes
<1>2. CASE DialFail
  BY <1>2 DEF DialFail, Goes
<1>3. CASE DialOK
  BY <1>3 DEF DialOK
<1>4. CASE StoreConn
  BY <1>4 DEF StoreConn, Goes
<1>5. CASE SetConnected
  BY <1>5 DEF SetConnected, Goes
<1>6. CASE ReadFrame
  BY <1>6 DEF ReadFrame, Goes
<1>7. CASE Deliver
  BY <1>7 DEF Deliver, Goes
<1>8. CASE ReadFail
  BY <1>8 DEF ReadFail, Goes
<1>9. CASE Ended
  BY <1>9 DEF Ended, Goes
<1>10. CASE LoopDrop
  BY <1>10 DEF LoopDrop, Goes, Drop
<1>11. CASE Wake
  BY <1>11 DEF Wake, Goes
<1>12. CASE StopStep
  BY <1>12 DEF StopStep, StopQuit, StopDrop, StopDead
<1>13. ASSUME NEW p \in Senders, CallSend(p) PROVE TypeOK'
  BY <1>13 DEF CallSend
<1>14. ASSUME NEW p \in Senders, LockConn(p) PROVE TypeOK'
  <2>1. CASE conn = None
    BY SMTT(30), <1>14, <2>1 DEF LockConn
  <2>2. CASE conn # None
    BY SMTT(30), <1>14, <2>2 DEF LockConn
  <2> QED
    BY <2>1, <2>2
<1>15. ASSUME NEW p \in Senders, WriteOK(p) PROVE TypeOK'
  <2>1. wire' \in [Conns -> Seq({"frame", "part"})]
    BY <1>15, AppendProperties DEF WriteOK
  <2> QED
    BY <1>15, <2>1 DEF WriteOK
<1>16. ASSUME NEW p \in Senders, WriteFail(p) PROVE TypeOK'
  <2>1. wire' \in [Conns -> Seq({"frame", "part"})]
    <3>1. CASE UNCHANGED wire
      BY <3>1
    <3>2. CASE wire' = [wire EXCEPT ![sender[p].conn] = Append(@, "part")]
      <4>1. sender[p].conn \in Conns
        BY <1>16 DEF WriteFail
      <4> QED
        BY <3>2, <4>1, AppendProperties
    <3> QED
      BY <1>16, <3>1, <3>2 DEF WriteFail
  <2>2. /\ sender[p].at = "writing" /\ sender' = [sender EXCEPT ![p].at = "marking"]
        /\ UNCHANGED <<state, conn, link, dialled, loop, writer, sends, stopping>>
    BY <1>16 DEF WriteFail
  <2>3. /\ sender' \in [Senders -> [at : {"idle", "locking", "writing", "marking",
                                        "dropping"},
                                  conn : Conns \cup {None}]]
        /\ \A q \in Senders : SenderHas(q)' <=> sender'[q].conn # None
    BY <2>2
  <2> QED
    BY <2>1, <2>2, <2>3
<1>17. ASSUME NEW p \in Senders, SenderMarks(p) PROVE TypeOK'
  <2>1. /\ sender[p].at = "marking" /\ sender' = [sender EXCEPT ![p].at = "dropping"]
        /\ state' = "dead"
        /\ UNCHANGED <<conn, link, wire, dialled, loop, writer, sends, stopping>>
    BY <1>17 DEF SenderMarks
  <2>2. /\ sender' \in [Senders -> [at : {"idle", "locking", "writing", "marking",
                                        "dropping"},
                                  conn : Conns \cup {None}]]
        /\ \A q \in Senders : SenderHas(q)' <=> sender'[q].conn # None
    BY <2>1
  <2> QED
    BY <2>1, <2>2
<1>18. ASSUME NEW p \in Senders, SenderDrops(p) PROVE TypeOK'
  BY <1>18 DEF SenderDrops, Drop
<1>19. ASSUME NEW c \in Conns, Break(c) PROVE TypeOK'
  BY <1>19 DEF Break
<1>20. CASE UNCHANGED vars
  BY <1>20 DEF vars
<1> QED
  BY <1>1, <1>2, <1>3, <1>4, <1>5, <1>6, <1>7, <1>8, <1>9, <1>10, <1>11, <1>12,
     <1>13, <1>14, <1>15, <1>16, <1>17, <1>18, <1>19, <1>20
     DEF Next, LoopStep, SendStep

\* Dropping a connection takes it out of conn and leaves none behind.
LEMMA DropLeaksNone ==
  ASSUME TypeOK, NoneLeaks, NEW c \in Conns, Drop(c)
  PROVE  /\ conn = None => conn' = None
         /\ \A d \in Conns : link'[d] \in {"open", "broken"} =>
              conn' = d \/ (loop.at = "dialled" /\ loop.conn = d)
<1>1. CASE conn = c
  <2>1. conn' = None /\ link' = [link EXCEPT ![c] = "closed"] /\ c # None
    BY <1>1 DEF Drop, Conns
  <2>2. \A d \in Conns : link'[d] = IF d = c THEN "closed" ELSE link[d]
    BY <2>1 DEF TypeOK
  <2> QED
    BY <1>1, <2>1, <2>2 DEF NoneLeaks
<1>2. CASE conn # c
  BY <1>2 DEF Drop, NoneLeaks
<1> QED
  BY <1>1, <1>2

\* ... and the rest of IInv.
LEMMA InvStep == IInv /\ [Next]_vars => IInv'
<1> SUFFICES ASSUME IInv, [Next]_vars PROVE IInv'
  OBVIOUS
<1>0. TypeOK /\ TypeOK'
  BY TypeStep DEF IInv
<1> USE <1>0 DEF IInv, LoopHas, SenderHas, Conns, sending, stopping
<1>1. CASE Top
  BY <1>1
     DEF TypeOK, NoneLeaks, Fresh, Newest, Stored, Exclusive, Torn, Top, Goes
<1>2. CASE DialFail
  BY <1>2
     DEF TypeOK, NoneLeaks, Fresh, Newest, Stored, Exclusive, Torn, DialFail,
         Goes
<1>3. CASE DialOK
  <2>1. NoneLeaks'
    BY <1>3 DEF NoneLeaks, Newest, Stored, TypeOK, DialOK
  <2>2. Fresh'
    BY <1>3 DEF Fresh, Newest, Stored, TypeOK, DialOK
  <2>3. Newest'
    BY <1>3 DEF Newest, NoneLeaks, TypeOK, DialOK
  <2>4. Stored'
    BY <1>3 DEF Stored, Newest, NoneLeaks, TypeOK, DialOK
  <2>5. Exclusive'
    BY <1>3 DEF Exclusive, TypeOK, DialOK
  <2>6. Torn'
    BY SMTT(30), <1>3
       DEF Torn, Fresh, NoneLeaks, Newest, Stored, Exclusive, TypeOK, DialOK
  <2> QED
    BY <2>1, <2>2, <2>3, <2>4, <2>5, <2>6
<1>4. CASE StoreConn
  BY <1>4
     DEF TypeOK, NoneLeaks, Fresh, Newest, Stored, Exclusive, Torn, StoreConn,
         Goes
<1>5. CASE SetConnected
  BY <1>5
     DEF TypeOK, NoneLeaks, Fresh, Newest, Stored, Exclusive, Torn,
         SetConnected, Goes
<1>6. CASE ReadFrame
  BY <1>6
     DEF TypeOK, NoneLeaks, Fresh, Newest, Stored, Exclusive, Torn, ReadFrame,
         Goes
<1>7. CASE Deliver
  BY <1>7
     DEF TypeOK, NoneLeaks, Fresh, Newest, Stored, Exclusive, Torn, Deliver,
         Goes
<1>8. CASE ReadFail
  BY <1>8
     DEF TypeOK, NoneLeaks, Fresh, Newest, Stored, Exclusive, Torn, ReadFail,
         Goes
<1>9. CASE Ended
  BY <1>9
     DEF TypeOK, NoneLeaks, Fresh, Newest, Stored, Exclusive, Torn, Ended, Goes
<1>10. CASE LoopDrop
  <2>1. NoneLeaks'
    <3>1. /\ loop.at = "dropping" /\ loop' = [loop EXCEPT !.at = "sleeping"]
          /\ Drop(loop.conn)
      BY <1>10 DEF LoopDrop, Goes
    <3>2. loop.conn \in Conns /\ loop.conn = dialled /\ loop'.at = "sleeping"
      BY <3>1 DEF Newest, TypeOK
    <3>3. conn' = None
      BY <3>1, <3>2 DEF Drop, Newest, TypeOK
    <3> QED
      BY <3>1, <3>2, <3>3, DropLeaksNone DEF NoneLeaks
  <2>2. Fresh'
    BY <1>10 DEF Fresh, Newest, Stored, TypeOK, LoopDrop, Goes, Drop
  <2>3. Newest'
    BY <1>10 DEF Newest, NoneLeaks, TypeOK, LoopDrop, Goes, Drop
  <2>4. Stored'
    BY <1>10 DEF Stored, Newest, NoneLeaks, TypeOK, LoopDrop, Goes, Drop
  <2>5. Exclusive'
    BY <1>10 DEF Exclusive, TypeOK, LoopDrop, Goes, Drop
  <2>6. Torn'
    <3>1. wire' = wire /\ sender' = sender
      BY <1>10 DEF LoopDrop
    <3>2. \A c \in Conns : link'[c] = "open" => link[c] = "open"
      BY <1>10 DEF TypeOK, LoopDrop, Goes, Drop
    <3> QED
      BY <3>1, <3>2 DEF Torn
  <2> QED
    BY <2>1, <2>2, <2>3, <2>4, <2>5, <2>6
<1>11. CASE Wake
  BY <1>11
     DEF TypeOK, NoneLeaks, Fresh, Newest, Stored, Exclusive, Torn, Wake, Goes
<1>12. CASE StopStep
  <2>1. NoneLeaks'
    <3>1. CASE StopQuit \/ StopDead
      BY <3>1 DEF NoneLeaks, StopQuit, StopDead
    <3>2. CASE StopDrop
      <4>1. /\ conn' = None /\ loop' = loop
            /\ link' = IF conn = None THEN link ELSE [link EXCEPT ![conn] = "closed"]
        BY <3>2 DEF StopDrop
      <4>2. \A d \in Conns : link'[d] = IF d = conn THEN "closed" ELSE link[d]
        BY <4>1 DEF TypeOK
      <4> QED
        BY <4>1, <4>2 DEF NoneLeaks
    <3> QED
      BY <1>12, <3>1, <3>2 DEF StopStep
  <2>2. Fresh'
    BY <1>12
       DEF Fresh, Newest, Stored, TypeOK, StopStep, StopQuit, StopDrop, StopDead
  <2>3. Newest'
    BY <1>12
       DEF Newest, NoneLeaks, TypeOK, StopStep, StopQuit, StopDrop, StopDead
  <2>4. Stored'
    BY <1>12
       DEF Stored, Newest, NoneLeaks, TypeOK, StopStep, StopQuit, StopDrop,
           StopDead
  <2>5. Exclusive'
    BY <1>12 DEF Exclusive, TypeOK, StopStep, StopQuit, StopDrop, StopDead
  <2>6. Torn'
    BY <1>12
       DEF Torn, Fresh, NoneLeaks, Newest, Stored, Exclusive, TypeOK, StopStep,
           StopQuit, StopDrop, StopDead
  <2> QED
    BY <2>1, <2>2, <2>3, <2>4, <2>5, <2>6
<1>13. ASSUME NEW p \in Senders, CallSend(p) PROVE IInv'
  BY <1>13
     DEF TypeOK, NoneLeaks, Fresh, Newest, Stored, Exclusive, Torn, CallSend
<1>14. ASSUME NEW p \in Senders, LockConn(p) PROVE IInv'
  <2>1. NoneLeaks'
    BY <1>14 DEF NoneLeaks, Newest, Stored, TypeOK, LockConn
  <2>2. Fresh'
    BY <1>14 DEF Fresh, Newest, Stored, TypeOK, LockConn
  <2>3. Newest'
    BY <1>14 DEF Newest, NoneLeaks, TypeOK, LockConn
  <2>4. Stored'
    BY SMTT(30), <1>14 DEF Stored, Newest, NoneLeaks, TypeOK, LockConn
  <2>5. Exclusive'
    <3>1. CASE conn = None
      <4>1. sender' = [sender EXCEPT ![p].at = "idle"]
        BY <1>14, <3>1 DEF LockConn
      <4>2. writer' = writer
        BY <1>14, <3>1 DEF LockConn
      <4> QED
        BY <4>1, <4>2 DEF Exclusive, TypeOK
    <3>2. CASE conn # None
      BY <1>14, <3>2 DEF Exclusive, TypeOK, LockConn
    <3> QED
      BY <3>1, <3>2
  <2>6. Torn'
    BY <1>14
       DEF Torn, Fresh, NoneLeaks, Newest, Stored, Exclusive, TypeOK, LockConn
  <2> QED
    BY <2>1, <2>2, <2>3, <2>4, <2>5, <2>6
<1>15. ASSUME NEW p \in Senders, WriteOK(p) PROVE IInv'
  <2>1. NoneLeaks'
    BY <1>15 DEF NoneLeaks, Newest, Stored, TypeOK, WriteOK
  <2>2. Fresh'
    BY <1>15 DEF Fresh, Newest, Stored, TypeOK, WriteOK
  <2>3. Newest'
    BY <1>15 DEF Newest, NoneLeaks, TypeOK, WriteOK
  <2>4. Stored'
    BY <1>15 DEF Stored, Newest, NoneLeaks, TypeOK, WriteOK
  <2>5. Exclusive'
    BY <1>15 DEF Exclusive, TypeOK, WriteOK
  <2>6. Torn'
    <3> DEFINE c == sender[p].conn
    <3>1. /\ c \in Conns /\ link[c] = "open" /\ link' = link
          /\ wire' = [wire EXCEPT ![c] = Append(@, "frame")]
          /\ sender' = [sender EXCEPT ![p] = [at |-> "idle", conn |-> None]]
      BY <1>15 DEF TypeOK, WriteOK
    <3>2. \A i \in 1..Len(wire[c]) : wire[c][i] # "part"
      <4>1. sender[p].at = "writing"
        BY <1>15 DEF WriteOK
      <4>2. \A q \in Senders : SenderHas(q) => q = p
        BY <4>1 DEF Exclusive, TypeOK
      <4> QED
        BY <3>1, <4>1, <4>2 DEF Torn
    <3>3. wire[c] \in Seq({"frame", "part"}) /\ wire'[c] = Append(wire[c], "frame")
      BY <3>1 DEF TypeOK
    <3>4. \A i \in 1..Len(wire'[c]) : wire'[c][i] # "part"
      BY <3>2, <3>3
    <3>5. \A d \in Conns \ {c} : wire'[d] = wire[d]
      BY <3>1 DEF TypeOK
    <3>6. \A q \in Senders : sender[q].at \in {"marking", "dropping"} =>
            sender'[q] = sender[q]
      BY <1>15, <3>1 DEF TypeOK, WriteOK
    <3> QED
      BY <3>1, <3>4, <3>5, <3>6 DEF Torn
  <2> QED
    BY <2>1, <2>2, <2>3, <2>4, <2>5, <2>6
<1>16. ASSUME NEW p \in Senders, WriteFail(p) PROVE IInv'
  <2>1. NoneLeaks'
    BY <1>16 DEF NoneLeaks, Newest, Stored, TypeOK, WriteFail
  <2>2. Fresh'
    BY SMTT(30), <1>16 DEF Fresh, Newest, Stored, TypeOK, WriteFail
  <2>3. Newest'
    BY <1>16 DEF Newest, NoneLeaks, TypeOK, WriteFail
  <2>4. Stored'
    BY <1>16 DEF Stored, Newest, NoneLeaks, TypeOK, WriteFail
  <2>5. Exclusive'
    BY <1>16 DEF Exclusive, TypeOK, WriteFail
  <2>6. Torn'
    <3> DEFINE c == sender[p].conn
    <3>1. c \in Conns /\ link' = link /\ sender[p].at = "writing"
      BY <1>16 DEF TypeOK, WriteFail
    <3>2. \A q \in Senders : sender[q].at \in {"marking", "dropping"} =>
            sender'[q] = sender[q]
      BY <3>1, <1>16 DEF TypeOK, WriteFail
    <3>3. CASE UNCHANGED wire
      BY <3>1, <3>2, <3>3 DEF Torn
    <3>4. CASE link[c] = "open" /\ wire' = [wire EXCEPT ![c] = Append(@, "part")]
      <4>1. \A i \in 1..Len(wire[c]) : wire[c][i] # "part"
        <5>1. \A q \in Senders : SenderHas(q) => q = p
          BY <3>1 DEF Exclusive, TypeOK
        <5> QED
          BY <3>1, <3>4, <5>1 DEF Torn
      <4>2. wire[c] \in Seq({"frame", "part"}) /\ wire'[c] = Append(wire[c], "part")
        BY <3>1, <3>4 DEF TypeOK
      <4>3. \A i \in 1..Len(wire'[c]) : wire'[c][i] = "part" => i = Len(wire'[c])
        BY <4>1, <4>2
      <4>4. sender'[p].at = "marking" /\ sender'[p].conn = c
        BY <1>16, <3>1 DEF TypeOK, WriteFail
      <4>5. \A d \in Conns \ {c} : wire'[d] = wire[d]
        BY <3>1, <3>4 DEF TypeOK
      <4> QED
        BY <3>1, <3>2, <4>3, <4>4, <4>5 DEF Torn
    <3> QED
      BY <1>16, <3>3, <3>4 DEF WriteFail
  <2> QED
    BY <2>1, <2>2, <2>3, <2>4, <2>5, <2>6
<1>17. ASSUME NEW p \in Senders, SenderMarks(p) PROVE IInv'
  BY <1>17
     DEF TypeOK, NoneLeaks, Fresh, Newest, Stored, Exclusive, Torn, SenderMarks
<1>18. ASSUME NEW p \in Senders, SenderDrops(p) PROVE IInv'
  <2>1. NoneLeaks'
    <3>1. sender[p].conn \in Conns /\ Drop(sender[p].conn) /\ loop' = loop
      BY <1>18 DEF SenderDrops, TypeOK
    <3> QED
      BY <3>1, DropLeaksNone DEF NoneLeaks
  <2>2. Fresh'
    <3>1. /\ \A c \in Conns : c > dialled => link'[c] = link[c]
          /\ UNCHANGED <<dialled, wire>>
      BY <1>18 DEF Stored, TypeOK, SenderDrops, Drop
    <3> QED
      BY <3>1 DEF Fresh
  <2>3. Newest'
    BY <1>18 DEF Newest, NoneLeaks, TypeOK, SenderDrops, Drop
  <2>4. Stored'
    BY <1>18 DEF Stored, Newest, NoneLeaks, TypeOK, SenderDrops, Drop
  <2>5. Exclusive'
    BY <1>18 DEF Exclusive, TypeOK, SenderDrops, Drop
  <2>6. Torn'
    <3> DEFINE c == sender[p].conn
    <3>1. /\ c \in Conns /\ sender[p].at = "dropping" /\ UNCHANGED <<wire, loop>>
          /\ sender' = [sender EXCEPT ![p] = [at |-> "idle", conn |-> None]]
      BY <1>18 DEF TypeOK, SenderDrops
    <3>2. link'[c] # "open"
      <4>1. CASE conn = c
        BY <1>18, <3>1, <4>1 DEF TypeOK, SenderDrops, Drop
      <4>2. CASE conn # c
        BY <1>18, <3>1, <4>2
           DEF TypeOK, SenderDrops, Drop, NoneLeaks, Newest, Stored
      <4> QED
        BY <4>1, <4>2
    <3>3. \A d \in Conns : link'[d] = "open" => link[d] = "open"
      BY <1>18, <3>1 DEF TypeOK, SenderDrops, Drop
    <3>4. \A q \in Senders \ {p} : sender'[q] = sender[q]
      BY <3>1 DEF TypeOK
    <3> QED
      BY <3>1, <3>2, <3>3, <3>4 DEF Torn
  <2> QED
    BY <2>1, <2>2, <2>3, <2>4, <2>5, <2>6
<1>19. ASSUME NEW c \in Conns, Break(c) PROVE IInv'
  BY SMTT(30), <1>19 DEF TypeOK, NoneLeaks, Fresh, Newest, Stored, Exclusive, Torn, Break
<1>20. CASE UNCHANGED vars
  BY <1>20 DEF vars, TypeOK, NoneLeaks, Fresh, Newest, Stored, Exclusive, Torn
<1> QED
  BY <1>1, <1>2, <1>3, <1>4, <1>5, <1>6, <1>7, <1>8, <1>9, <1>10, <1>11, <1>12,
     <1>13, <1>14, <1>15, <1>16, <1>17, <1>18, <1>19, <1>20
     DEF Next, LoopStep, SendStep

\* IInv always holds.
LEMMA AlwaysInv == Spec => []IInv
BY InitInv, InvStep, PTL DEF Spec

\* The state is well formed, and neither a sender nor readLoop ever works with a
\* nil connection.
THEOREM TypeCorrect == Spec => []TypeOK
BY AlwaysInv, PTL DEF IInv

\* However senders, runLoop and Stop find a connection lost, none is left open
\* that the tunnel does not know of.
THEOREM NoneLeaksAlways == Spec => []NoneLeaks
BY AlwaysInv, PTL DEF IInv

\* With any number of senders, nothing follows a torn frame on a connection.
THEOREM FramesWholeAlways == Spec => []FramesWhole
<1>1. IInv => FramesWhole
  <2> SUFFICES ASSUME IInv, NEW c \in Conns, NEW i \in 1..(Len(wire[c]) - 1)
               PROVE wire[c][i] = "frame"
    BY DEF FramesWhole
  <2>1. wire[c] \in Seq({"frame", "part"})
    BY DEF IInv, TypeOK
  <2>2. wire[c][i] # "part"
    BY <2>1 DEF IInv, Torn
  <2> QED
    BY <2>1, <2>2
<1> QED
  BY <1>1, AlwaysInv, PTL

=============================================================================
