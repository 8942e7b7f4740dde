---------------------------- MODULE BearerTunnel ----------------------------
(***************************************************************************)
(* One BearerTunnel (internal/multipath/bearer.go) among its goroutines:   *)
(* runLoop, which dials, reads and dials again; the senders (one goroutine *)
(* per logical stream), which write frames to the connection in turn; and  *)
(* the caller of Stop.                                                     *)
(*                                                                         *)
(* The connections it dials are numbered, so that one that was lost is     *)
(* told from the one that replaced it.                                     *)
(***************************************************************************)
EXTENDS Integers, Sequences

CONSTANTS Senders,
          MaxConns,   \* bound: connections dialled
          MaxSends,   \* bound: calls of SendFrame
          None

ASSUME TunnelBounds == MaxConns \in Nat /\ MaxSends \in Nat
ASSUME NoneAssumption == None \notin Nat /\ None \notin Senders

Conns == 1..MaxConns

VARIABLES state,     \* "connecting", "connected" or "dead"
          conn,      \* b.conn
          stopped,   \* closed, and with it the channel quit
          link,      \* each connection: "none", "open", "broken" (by the
                     \* network or the peer), "closed" (by this side)
          wire,      \* what was written to each: "frame" or "part" of one
          dialled,   \* how many connections were made
          loop,      \* runLoop: [at, conn], conn being its local variable
          writer,    \* the sender that holds writeMu
          sender,    \* each sender: [at, conn]
          sends,     \* calls of SendFrame
          stop       \* where the caller of Stop is

vars == <<state, conn, stopped, link, wire, dialled, loop, writer, sender,
          sends, stop>>

\* What the senders, and the caller of Stop, have of their own.
sending == <<wire, writer, sender, sends>>
stopping == <<stopped, stop>>

IsHealthy == state = "connected"

\* Between the dial and markDead runLoop, and between connMu and the end of
\* SendFrame a sender, have a connection to work with.
LoopHas == loop.at \in {"dialled", "stored", "reading", "delivering", "ended",
                        "dropping"}
SenderHas(p) == sender[p].at \in {"writing", "marking", "dropping"}

Init ==
  /\ state = "connecting"
  /\ conn = None
  /\ stopped = FALSE
  /\ link = [c \in Conns |-> "none"]
  /\ wire = [c \in Conns |-> <<>>]
  /\ dialled = 0
  /\ loop = [at |-> "top", conn |-> None]
  /\ writer = None
  /\ sender = [p \in Senders |-> [at |-> "idle", conn |-> None]]
  /\ sends = 0
  /\ stop = "none"

\* Fault: markDead does not look whether the connection was replaced.
DropAny(c) ==
  /\ conn' = None
  /\ link' = [link EXCEPT ![c] = "closed"]

\* The second half of markDead, under connMu: c is closed if it is still the
\* tunnel's connection.
Drop(c) ==
  IF conn = c
  THEN conn' = None /\ link' = [link EXCEPT ![c] = "closed"]
  ELSE UNCHANGED <<conn, link>>

-----------------------------------------------------------------------------
(* runLoop and readLoop *)

Goes(from, to) ==
  /\ loop.at = from
  /\ loop' = [loop EXCEPT !.at = to]

\* Fault: the loop does not look at quit before it dials.
TopBlind ==
  /\ Goes("top", "dialing") /\ state' = "connecting"
  /\ UNCHANGED <<conn, link, dialled, sending, stopping>>

\* The loop looks at quit and announces a dial,
Top ==
  /\ \/ stopped /\ Goes("top", "exited") /\ UNCHANGED state
     \/ ~stopped /\ Goes("top", "dialing") /\ state' = "connecting"
  /\ UNCHANGED <<conn, link, dialled, sending, stopping>>

\* which may fail: the loop sleeps and starts over,
DialFail ==
  /\ Goes("dialing", "sleeping")
  /\ UNCHANGED <<state, conn, link, dialled, sending, stopping>>

\* or succeed, whether or not Stop was called meanwhile,
DialOK ==
  /\ loop.at = "dialing"
  /\ dialled < MaxConns
  /\ dialled' = dialled + 1
  /\ link' = [link EXCEPT ![dialled'] = "open"]
  /\ loop' = [at |-> "dialled", conn |-> dialled']
  /\ UNCHANGED <<state, conn, sending, stopping>>

\* and then the connection is stored and the tunnel connected.
StoreConn ==
  /\ Goes("dialled", "stored")
  /\ conn' = loop.conn
  /\ UNCHANGED <<state, link, dialled, sending, stopping>>

SetConnected ==
  /\ Goes("stored", "reading")
  /\ state' = "connected"
  /\ UNCHANGED <<conn, link, dialled, sending, stopping>>

\* readLoop reads a frame and hands it to the manager, or sees quit instead,
ReadFrame ==
  /\ Goes("reading", "delivering")
  /\ link[loop.conn] = "open"
  /\ UNCHANGED <<state, conn, link, dialled, sending, stopping>>

Deliver ==
  /\ \/ Goes("delivering", "reading")
     \/ stopped /\ Goes("delivering", "ended")
  /\ UNCHANGED <<state, conn, link, dialled, sending, stopping>>

\* or fails to read, as the connection was lost or closed.
ReadFail ==
  /\ Goes("reading", "ended")
  /\ link[loop.conn] # "open"
  /\ UNCHANGED <<state, conn, link, dialled, sending, stopping>>

\* Fault: the loop takes a tunnel without connection for a stopped one.
EndedNoConn ==
  /\ \/ (stopped \/ conn = None) /\ Goes("ended", "exited") /\ UNCHANGED state
     \/ ~stopped /\ conn # None /\ Goes("ended", "dropping") /\ state' = "dead"
  /\ UNCHANGED <<conn, link, dialled, sending, stopping>>

\* After readLoop the loop returns if the tunnel was stopped; if not, markDead
\* sets the state ...
Ended ==
  /\ \/ stopped /\ Goes("ended", "exited") /\ UNCHANGED state
     \/ ~stopped /\ Goes("ended", "dropping") /\ state' = "dead"
  /\ UNCHANGED <<conn, link, dialled, sending, stopping>>

\* ... and drops the connection.
LoopDrop ==
  /\ Goes("dropping", "sleeping")
  /\ Drop(loop.conn)
  /\ UNCHANGED <<state, dialled, sending, stopping>>

\* sleepOrQuit returns.
Wake ==
  /\ Goes("sleeping", "top")
  /\ UNCHANGED <<state, conn, link, dialled, sending, stopping>>

LoopStep ==
  \/ Top \/ DialFail \/ DialOK \/ StoreConn \/ SetConnected
  \/ ReadFrame \/ Deliver \/ ReadFail \/ Ended \/ LoopDrop \/ Wake

-----------------------------------------------------------------------------
(* SendFrame *)

\* It fails at once unless the tunnel is healthy.
CallSend(p) ==
  /\ sender[p].at = "idle"
  /\ sends < MaxSends
  /\ IsHealthy
  /\ sends' = sends + 1
  /\ sender' = [sender EXCEPT ![p].at = "locking"]
  /\ UNCHANGED <<state, conn, link, wire, dialled, loop, writer, stopping>>

\* Fault: the sender that finds no connection keeps writeMu.
LockConnKept(p) ==
  /\ sender[p].at = "locking"
  /\ writer = None
  /\ writer' = p
  /\ sender' = [sender EXCEPT ![p] =
       [at |-> IF conn = None THEN "idle" ELSE "writing", conn |-> conn]]
  /\ UNCHANGED <<state, conn, link, wire, dialled, loop, sends, stopping>>

\* Fault: SendFrame does not look whether there is a connection.
LockConnNil(p) ==
  /\ sender[p].at = "locking"
  /\ writer = None
  /\ writer' = p
  /\ sender' = [sender EXCEPT ![p] = [at |-> "writing", conn |-> conn]]
  /\ UNCHANGED <<state, conn, link, wire, dialled, loop, sends, stopping>>

\* It takes writeMu and then the tunnel's connection, if there is one.
LockConn(p) ==
  /\ sender[p].at = "locking"
  /\ writer = None
  /\ IF conn = None
     THEN /\ sender' = [sender EXCEPT ![p].at = "idle"]
          /\ UNCHANGED writer
     ELSE /\ sender' = [sender EXCEPT ![p] = [at |-> "writing", conn |-> conn]]
          /\ writer' = p
  /\ UNCHANGED <<state, conn, link, wire, dialled, loop, sends, stopping>>

\* The frame is written,
WriteOK(p) ==
  LET c == sender[p].conn
  IN  /\ sender[p].at = "writing"
      /\ link[c] = "open"
      /\ wire' = [wire EXCEPT ![c] = Append(@, "frame")]
      /\ sender' = [sender EXCEPT ![p] = [at |-> "idle", conn |-> None]]
      /\ writer' = None
      /\ UNCHANGED <<state, conn, link, dialled, loop, sends, stopping>>

\* Fault: SendFrame unlocks writeMu before it calls markDead.
WriteFailUnlocks(p) ==
  LET c == sender[p].conn
  IN  /\ sender[p].at = "writing"
      /\ wire' = [wire EXCEPT ![c] = Append(@, "part")]
      /\ sender' = [sender EXCEPT ![p].at = "marking"]
      /\ writer' = None
      /\ UNCHANGED <<state, conn, link, dialled, loop, sends, stopping>>

\* or the write fails, by its deadline or because the connection is lost or
\* closed, and part of the frame may have gone out;
WriteFail(p) ==
  LET c == sender[p].conn
  IN  /\ sender[p].at = "writing"
      /\ \/ link[c] = "open" /\ wire' = [wire EXCEPT ![c] = Append(@, "part")]
         \/ UNCHANGED wire
      /\ sender' = [sender EXCEPT ![p].at = "marking"]
      /\ UNCHANGED <<state, conn, link, dialled, loop, writer, sends, stopping>>

\* markDead then sets the state ...
SenderMarks(p) ==
  /\ sender[p].at = "marking"
  /\ state' = "dead"
  /\ sender' = [sender EXCEPT ![p].at = "dropping"]
  /\ UNCHANGED <<conn, link, wire, dialled, loop, writer, sends, stopping>>

\* ... and drops the connection, and SendFrame returns the error.
SenderDrops(p) ==
  /\ sender[p].at = "dropping"
  /\ Drop(sender[p].conn)
  /\ sender' = [sender EXCEPT ![p] = [at |-> "idle", conn |-> None]]
  /\ writer' = None
  /\ UNCHANGED <<state, wire, dialled, loop, sends, stopping>>

SendStep(p) ==
  \/ LockConn(p) \/ WriteOK(p) \/ WriteFail(p)
  \/ SenderMarks(p) \/ SenderDrops(p)

-----------------------------------------------------------------------------
(* Stop, called once: later calls do nothing *)

StopQuit ==
  /\ stop = "none"
  /\ stop' = "quit"
  /\ stopped' = TRUE
  /\ UNCHANGED <<state, conn, link, dialled, loop, sending>>

\* dropConn closes the connection ...
StopDrop ==
  /\ stop = "quit"
  /\ stop' = "dropped"
  /\ conn' = None
  /\ link' = IF conn = None THEN link ELSE [link EXCEPT ![conn] = "closed"]
  /\ UNCHANGED <<state, stopped, dialled, loop, sending>>

\* ... and sets the state, and Stop returns.
StopDead ==
  /\ stop = "dropped"
  /\ stop' = "returned"
  /\ state' = "dead"
  /\ UNCHANGED <<conn, stopped, link, dialled, loop, sending>>

StopStep == StopQuit \/ StopDrop \/ StopDead

-----------------------------------------------------------------------------

\* The network or the peer breaks a connection.
Break(c) ==
  /\ link[c] = "open"
  /\ link' = [link EXCEPT ![c] = "broken"]
  /\ UNCHANGED <<state, conn, dialled, loop, sending, stopping>>

Next ==
  \/ LoopStep \/ StopStep
  \/ \E p \in Senders : CallSend(p) \/ SendStep(p)
  \/ \E c \in Conns : Break(c)

Spec == Init /\ [][Next]_vars

\* runLoop and a sender go on when they can: a dial is bounded by DialTimeout, a
\* write by its deadline, a sleep by ReconnectDelay, and the manager takes what
\* readLoop delivers.  A Read returns when the connection is gone.  Nothing
\* makes the peer send, a dial succeed or anybody call Stop.
FairSpec ==
  /\ Spec
  /\ WF_vars(LoopStep /\ ~ReadFrame)
  /\ \A p \in Senders : WF_vars(SendStep(p))

-----------------------------------------------------------------------------
(* Properties *)

\* The state is well formed; a sender that writes and a loop that reads have a
\* connection, so neither ever uses a nil net.Conn.
TypeOK ==
  /\ state \in {"connecting", "connected", "dead"}
  /\ conn \in Conns \cup {None}
  /\ stopped \in BOOLEAN
  /\ link \in [Conns -> {"none", "open", "broken", "closed"}]
  /\ wire \in [Conns -> Seq({"frame", "part"})]
  /\ dialled \in 0..MaxConns
  /\ loop \in [at : {"top", "dialing", "dialled", "stored", "reading",
                     "delivering", "ended", "dropping", "sleeping", "exited"},
               conn : Conns \cup {None}]
  /\ LoopHas => loop.conn # None
  /\ writer \in Senders \cup {None}
  /\ sender \in [Senders -> [at : {"idle", "locking", "writing", "marking",
                                   "dropping"},
                             conn : Conns \cup {None}]]
  /\ \A p \in Senders : SenderHas(p) <=> sender[p].conn # None
  /\ sends \in 0..MaxSends
  /\ stop \in {"none", "quit", "dropped", "returned"}

\* Nothing follows a frame that was cut short: the peer, which has no way to
\* find the next header, never takes payload bytes for one.
FramesWhole ==
  \A c \in Conns : \A i \in 1..(Len(wire[c]) - 1) : wire[c][i] = "frame"

\* Every connection that is not closed is the one the senders get and markDead
\* would close, or is about to be; and when the loop dials again there is none,
\* whoever of the loop, a sender or Stop found the last one lost.
NoneLeaks ==
  /\ \A c \in Conns : link[c] \in {"open", "broken"} =>
       conn = c \/ (loop.at = "dialled" /\ loop.conn = c)
  /\ loop.at \in {"top", "dialing", "sleeping"} => conn = None

\* A tunnel whose connection is gone dials again, unless it is stopped.
Reconnects ==
  loop.at = "reading" /\ link[loop.conn] # "open" ~>
    loop.at = "dialing" \/ stopped

\* A sender comes back with a frame sent or an error, so that the stream can
\* try another tunnel.
SendersReturn ==
  \A p \in Senders : sender[p].at # "idle" ~> sender[p].at = "idle"

\* Once Stop has returned the loop ends, in whichever step Stop met it, or reads
\* one connection for as long as that lasts: that of a dial under way when Stop
\* came, which nobody closes (runLoop does not look at quit after the dial).  It
\* neither dials nor sleeps for good.
StopSettles ==
  <>(stop = "returned") =>
    <>[](loop.at = "exited" \/ (LoopHas /\ link[loop.conn] = "open"))
=============================================================================
