----------------------------- MODULE Reassembler -----------------------------
(***************************************************************************)
(* One Reassembler (internal/aggregator/reassembler.go) between its two    *)
(* goroutines: the route loop, which calls Push and blocks in send while   *)
(* the output channel is full, and the stream's pumpUpstream goroutine,    *)
(* which receives from the channel.                                        *)
(*                                                                         *)
(* emitted keeps everything ever sent to outCh; the channel's content is   *)
(* what the consumer has not taken yet.                                    *)
(***************************************************************************)
EXTENDS Integers, Sequences, FiniteSets, Reassembly

CONSTANTS Frames,      \* the frames that may arrive, each at most once
          ChanDepth,   \* the capacity of outCh
          MaxBuffer,   \* the heap's cap, 0 for none
          None         \* no frame

ASSUME FramesAssumption ==
  \A f \in Frames : f.seq \in Nat /\ f.len \in Nat
ASSUME ChanDepthAssumption == ChanDepth \in Nat \ {0}
ASSUME MaxBufferAssumption == MaxBuffer \in Nat
ASSUME NoneAssumption == None \notin Frames

VARIABLES expected,    \* the next byte to emit
          held,        \* the frames in the heap
          sending,     \* the frame the route loop is sending, or None
          emitted,     \* every frame sent to outCh, in order
          taken,       \* how many of them the consumer has received
          arrived,     \* the frames Push returned nil for, or is sending
          overflowed   \* Push returned ErrReassemblyOverflow

vars == <<expected, held, sending, emitted, taken, arrived, overflowed>>

TypeOK ==
  /\ expected \in Nat
  /\ held \in SUBSET Frames
  /\ sending \in Frames \cup {None}
  /\ emitted \in Seq(Frames)
  /\ taken \in 0..Len(emitted)
  /\ arrived \in SUBSET Frames
  /\ overflowed \in BOOLEAN

Init ==
  /\ expected = 0
  /\ held = {}
  /\ sending = None
  /\ emitted = <<>>
  /\ taken = 0
  /\ arrived = {}
  /\ overflowed = FALSE

\* The frames in outCh.
InChannel == Len(emitted) - taken

-----------------------------------------------------------------------------
(* The route loop.  It calls Push only when its last call has returned, and *)
(* never again after an overflow (AggregatorStream.Push closes the stream). *)

Arrives(f) ==
  /\ sending = None
  /\ ~overflowed
  /\ f \notin arrived

\* Push returns without a trace of the frame.
PushIgnored(f) ==
  /\ Arrives(f)
  /\ IsIgnored(f, expected)
  /\ arrived' = arrived \cup {f}
  /\ UNCHANGED <<expected, held, sending, emitted, taken, overflowed>>

\* Push takes its fast path up to the channel send.
PushNext(f) ==
  /\ Arrives(f)
  /\ IsNext(f, expected)
  /\ sending' = f
  /\ arrived' = arrived \cup {f}
  /\ UNCHANGED <<expected, held, emitted, taken, overflowed>>

\* Fault: Push forgets an out-of-order frame.
PushEarlyLost(f) ==
  /\ Arrives(f)
  /\ IsEarly(f, expected)
  /\ ~IsFull(held, MaxBuffer)
  /\ arrived' = arrived \cup {f}
  /\ UNCHANGED <<expected, held, sending, emitted, taken, overflowed>>

\* Push puts an out-of-order frame into the heap.
PushEarly(f) ==
  /\ Arrives(f)
  /\ IsEarly(f, expected)
  /\ ~IsFull(held, MaxBuffer)
  /\ held' = held \cup {f}
  /\ arrived' = arrived \cup {f}
  /\ UNCHANGED <<expected, sending, emitted, taken, overflowed>>

\* Push refuses an out-of-order frame.
PushOverflow(f) ==
  /\ Arrives(f)
  /\ IsEarly(f, expected)
  /\ IsFull(held, MaxBuffer)
  /\ overflowed' = TRUE
  /\ UNCHANGED <<expected, held, sending, emitted, taken, arrived>>

\* Fault: Push returns without flush.
SendOnly ==
  /\ sending # None
  /\ InChannel < ChanDepth
  /\ emitted' = Append(emitted, sending)
  /\ expected' = expected + sending.len
  /\ sending' = None
  /\ UNCHANGED <<held, taken, arrived, overflowed>>

\* The channel send completes, expected moves on, and flush either pops the
\* next frame and is about to send it, or ends, and Push returns.
Send ==
  /\ sending # None
  /\ InChannel < ChanDepth
  /\ emitted' = Append(emitted, sending)
  /\ expected' = expected + sending.len
  /\ \/ \E f \in Flushable(held, expected') :
          /\ held' = held \ {f}
          /\ sending' = f
     \/ /\ Flushable(held, expected') = {}
        /\ sending' = None
        /\ UNCHANGED held
  /\ UNCHANGED <<taken, arrived, overflowed>>

\* Fault: a receive that does not wait.
TakeAnyway ==
  /\ taken' = taken + 1
  /\ UNCHANGED <<expected, held, sending, emitted, arrived, overflowed>>

\* The consumer receives a frame from Out().
Take ==
  /\ InChannel > 0
  /\ taken' = taken + 1
  /\ UNCHANGED <<expected, held, sending, emitted, arrived, overflowed>>

-----------------------------------------------------------------------------

Push(f) == PushIgnored(f) \/ PushNext(f) \/ PushEarly(f) \/ PushOverflow(f)

Next == (\E f \in Frames : Push(f)) \/ Send \/ Take

Spec == Init /\ [][Next]_vars

\* A goroutine that can go on does.  The consumer is in its receive loop as
\* long as the stream is open and its dial has returned.
FairSpec == Spec /\ WF_vars(Send) /\ WF_vars(Take)

-----------------------------------------------------------------------------
(* Properties *)

\* The frames sent to outCh form one run of bytes from 0 to expected: no gap,
\* no byte twice, whatever order and however often the bearers deliver bytes.
Contiguous ==
  /\ \A i \in 1..Len(emitted) :
       emitted[i].seq = IF i = 1 THEN 0 ELSE End(emitted[i - 1])
  /\ expected = IF emitted = <<>> THEN 0 ELSE End(emitted[Len(emitted)])

\* The heap never outgrows MaxBuffer, nor the channel its capacity, and a frame
\* that was popped is neither in the heap nor sent twice ("MaxBuffer caps the
\* number of buffered out-of-order frames").
Bounded ==
  /\ MaxBuffer > 0 => Cardinality(held) <= MaxBuffer
  /\ InChannel <= ChanDepth
  /\ sending \notin held
  /\ \A i \in 1..Len(emitted) : emitted[i] \notin held

\* A frame that carries the next byte is never left in the heap once Push has
\* returned: flush empties the heap of everything that became contiguous.  It
\* needs a sender that cuts the stream into chunks and sends each chunk once.
NothingReadyWaits ==
  sending = None => \A f \in held : f.seq > expected

\* The sender cut its stream into chunks and sent each of them once, as a
\* client's sequencer does as long as no stream ID is used twice.
CutIntoChunks ==
  \A f, g \in Frames :
    f # g /\ f.len > 0 /\ g.len > 0 => End(f) <= g.seq \/ End(g) <= f.seq

\* The consumer sees what InOrderDelivery promises.
Promise == INSTANCE InOrderDelivery
             WITH offered <- arrived,
                  delivered <- SubSeq(emitted, 1, taken)
Implements == Promise!Spec

\* ... and a frame that carries the next byte does reach the consumer.
ImplementsFair == Promise!FairSpec
=============================================================================
