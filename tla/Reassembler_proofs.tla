------------------------- MODULE Reassembler_proofs -------------------------
(***************************************************************************)
(* Proofs about Reassembler, for every set of frames, channel depth and    *)
(* heap cap.  Nothing is assumed of the frames: they may repeat bytes,     *)
(* overlap or leave gaps, as they do when stream IDs are used again.  Only *)
(* NothingReadyWaits needs a sender that sends each byte once.             *)
(***************************************************************************)
EXTENDS Reassembler, FiniteSetTheorems, TLAPS

-----------------------------------------------------------------------------
(* Type correctness *)

\* TypeOK holds initially.
LEMMA InitTypeOK == Init => TypeOK
<1> SUFFICES ASSUME Init PROVE TypeOK
  OBVIOUS
<1>1. emitted \in Seq(Frames) /\ Len(emitted) = 0
  BY DEF Init
<1>2. taken \in 0..Len(emitted)
  BY <1>1 DEF Init
<1> QED
  BY <1>1, <1>2 DEF Init, TypeOK

\* Every step of Push, send, flush and the consumer keeps TypeOK.
LEMMA NextTypeOK == TypeOK /\ [Next]_vars => TypeOK'
<1> SUFFICES ASSUME TypeOK, [Next]_vars PROVE TypeOK'
  OBVIOUS
<1> USE DEF TypeOK
<1>1. CASE \E f \in Frames : Push(f)
  <2> PICK f \in Frames : Push(f)
    BY <1>1
  <2> QED
    BY FramesAssumption
       DEF Push, PushIgnored, PushNext, PushEarly, PushOverflow, Arrives
<1>2. CASE Send
  <2>1. expected' \in Nat /\ emitted' \in Seq(Frames) /\ taken' \in 0..Len(emitted')
    BY <1>2, FramesAssumption DEF Send
  <2>2. held' \in SUBSET Frames /\ sending' \in Frames \cup {None}
    BY <1>2 DEF Send, Flushable, Roots
  <2> QED
    BY <1>2, <2>1, <2>2 DEF Send
<1>3. CASE Take
  BY <1>3 DEF Take, InChannel
<1>4. CASE UNCHANGED vars
  BY <1>4 DEF vars
<1> QED
  BY <1>1, <1>2, <1>3, <1>4 DEF Next

\* The reassembler's variables always have their types; in particular the
\* consumer never gets ahead of what was sent to outCh.
THEOREM TypeCorrect == Spec => []TypeOK
<1>1. Init => TypeOK
  BY InitTypeOK
<1>2. TypeOK /\ [Next]_vars => TypeOK'
  BY NextTypeOK
<1> QED
  BY <1>1, <1>2, PTL DEF Spec

-----------------------------------------------------------------------------
(* The output is one run of bytes *)

\* What Push and flush hand to send is the frame at expected, and it is in
\* neither the heap nor the channel: with this Contiguous is inductive.
HandedOver ==
  /\ held \subseteq arrived
  /\ \A f \in held : f.len > 0
  /\ sending # None => /\ sending \in arrived \ held
                       /\ sending.len > 0
                       /\ sending.seq = expected
                       /\ \A i \in 1..Len(emitted) : emitted[i] # sending
  /\ \A i \in 1..Len(emitted) : emitted[i] \in arrived \ held
  /\ \A i \in 1..Len(emitted) : emitted[i].len > 0

OrderInv == TypeOK /\ HandedOver /\ Contiguous

LEMMA InitOrderInv == Init => OrderInv
  BY InitTypeOK DEF Init, OrderInv, HandedOver, Contiguous, TypeOK

\* A call of Push keeps the output contiguous: it sends nothing yet.
LEMMA PushOrderInv ==
  ASSUME OrderInv, TypeOK', NEW f \in Frames, Push(f)
  PROVE  OrderInv'
<1> USE DEF OrderInv, TypeOK
<1>1. HandedOver'
  BY DEF HandedOver, Push, PushIgnored, PushNext, PushEarly, PushOverflow,
         Arrives, IsIgnored, IsNext, IsEarly
<1>2. Contiguous'
  BY DEF Contiguous, End, Push, PushIgnored, PushNext, PushEarly, PushOverflow
<1> QED
  BY <1>1, <1>2

\* A completed send appends the frame at expected and leaves flush at the
\* root of the heap or out of work.
LEMMA SendOrderInv ==
  ASSUME OrderInv, TypeOK', Send
  PROVE  OrderInv'
<1> USE DEF OrderInv, TypeOK
<1>1. /\ sending \in Frames /\ sending \in arrived \ held
      /\ sending.len > 0 /\ sending.seq = expected
      /\ emitted' = Append(emitted, sending)
      /\ expected' = expected + sending.len
      /\ arrived' = arrived
      /\ \A i \in 1..Len(emitted) : emitted[i] # sending
  BY DEF Send, HandedOver
<1>2. /\ Len(emitted') = Len(emitted) + 1
      /\ \A i \in 1..Len(emitted) : emitted'[i] = emitted[i]
      /\ emitted'[Len(emitted) + 1] = sending
  BY <1>1
<1>3. held' \subseteq held
  BY DEF Send
<1>4. \A i \in 1..Len(emitted') : emitted'[i] \in arrived' \ held' /\ emitted'[i].len > 0
  BY <1>1, <1>2, <1>3 DEF HandedOver
<1>5. sending' # None => /\ sending' \in arrived' \ held'
                         /\ sending'.len > 0
                         /\ sending'.seq = expected'
                         /\ sending' \in held
  BY <1>1 DEF Send, HandedOver, Flushable, Roots
<1>6. sending' # None => \A i \in 1..Len(emitted') : emitted'[i] # sending'
  BY <1>1, <1>2, <1>5 DEF HandedOver
<1>7. HandedOver'
  BY <1>1, <1>3, <1>4, <1>5, <1>6 DEF HandedOver
<1>8. \A i \in 1..Len(emitted') :
        emitted'[i].seq = IF i = 1 THEN 0 ELSE End(emitted'[i - 1])
  <2> SUFFICES ASSUME NEW i \in 1..Len(emitted')
               PROVE  emitted'[i].seq = IF i = 1 THEN 0 ELSE End(emitted'[i - 1])
    OBVIOUS
  <2>1. CASE i = Len(emitted) + 1
    <3>1. CASE emitted = <<>>
      BY <1>1, <1>2, <2>1, <3>1 DEF Contiguous
    <3>2. CASE emitted # <<>>
      <4>1. Len(emitted) \in 1..Len(emitted) /\ i # 1
        BY <2>1, <3>2
      <4> QED
        BY <1>1, <1>2, <2>1, <3>2, <4>1 DEF Contiguous
    <3> QED
      BY <3>1, <3>2
  <2>2. CASE i \in 1..Len(emitted)
    <3>1. i # 1 => i - 1 \in 1..Len(emitted)
      BY <2>2
    <3> QED
      BY <1>2, <2>2, <3>1 DEF Contiguous
  <2> QED
    BY <1>2, <2>1, <2>2
<1>9. emitted' # <<>> /\ expected' = End(emitted'[Len(emitted')])
  BY <1>1, <1>2 DEF End
<1>10. Contiguous'
  BY <1>8, <1>9 DEF Contiguous, End
<1> QED
  BY <1>7, <1>10

LEMMA NextOrderInv == OrderInv /\ [Next]_vars => OrderInv'
<1> SUFFICES ASSUME OrderInv, [Next]_vars PROVE OrderInv'
  OBVIOUS
<1>1. TypeOK'
  BY NextTypeOK DEF OrderInv
<1>2. CASE \E f \in Frames : Push(f)
  BY <1>1, <1>2, PushOrderInv
<1>3. CASE Send
  BY <1>1, <1>3, SendOrderInv
<1>4. CASE Take
  BY <1>1, <1>4 DEF Take, OrderInv, HandedOver, Contiguous, End
<1>5. CASE UNCHANGED vars
  BY <1>1, <1>5 DEF vars, OrderInv, HandedOver, Contiguous, End
<1> QED
  BY <1>2, <1>3, <1>4, <1>5 DEF Next

LEMMA AlwaysOrderInv == Spec => []OrderInv
  BY InitOrderInv, NextOrderInv, PTL DEF Spec

\* Whatever frames arrive, what the reassembler emits starts at byte 0 and has
\* neither gaps nor repetitions.
THEOREM OutputContiguous == Spec => []Contiguous
<1>1. OrderInv => Contiguous
  BY DEF OrderInv
<1> QED
  BY <1>1, AlwaysOrderInv, PTL

-----------------------------------------------------------------------------
(* Bounds *)

\* With TypeOK and HandedOver, Bounded is inductive.
CapInv ==
  /\ IsFiniteSet(held)
  /\ MaxBuffer > 0 => Cardinality(held) <= MaxBuffer
  /\ InChannel <= ChanDepth

LEMMA InitCapInv == Init => CapInv
  BY FS_EmptySet, MaxBufferAssumption, ChanDepthAssumption
  DEF Init, CapInv, InChannel

LEMMA NextCapInv == OrderInv /\ CapInv /\ [Next]_vars => CapInv'
<1> SUFFICES ASSUME OrderInv, CapInv, [Next]_vars PROVE CapInv'
  OBVIOUS
<1> USE MaxBufferAssumption, ChanDepthAssumption
<1>a. TypeOK /\ HandedOver /\ TypeOK'
  BY NextTypeOK DEF OrderInv
<1>b. Cardinality(held) \in Nat
  BY FS_CardinalityType DEF CapInv
<1>1. CASE \E f \in Frames : PushEarly(f)
  <2> PICK f \in Frames : PushEarly(f)
    BY <1>1
  <2>1. f \notin held
    BY <1>a DEF PushEarly, Arrives, HandedOver
  <2>2. /\ IsFiniteSet(held') /\ Cardinality(held') = Cardinality(held) + 1
    BY <2>1, FS_AddElement DEF PushEarly, CapInv
  <2> QED
    BY <1>b, <2>2 DEF PushEarly, CapInv, IsFull, InChannel
<1>2. CASE \E f \in Frames : PushIgnored(f) \/ PushNext(f) \/ PushOverflow(f)
  BY <1>2 DEF PushIgnored, PushNext, PushOverflow, CapInv, InChannel
<1>3. CASE Send
  <2>1. IsFiniteSet(held') /\ Cardinality(held') <= Cardinality(held)
    <3>1. CASE held' = held
      BY <1>b, <3>1 DEF CapInv
    <3>2. CASE held' # held
      <4> PICK f \in Flushable(held, expected') : held' = held \ {f}
        BY <1>3, <3>2 DEF Send
      <4>1. f \in held
        BY DEF Flushable, Roots
      <4>2. /\ IsFiniteSet(held \ {f})
            /\ Cardinality(held \ {f}) = Cardinality(held) - 1
        BY <4>1, FS_RemoveElement DEF CapInv
      <4> QED
        BY <1>b, <4>2
    <3> QED
      BY <3>1, <3>2
  <2>2. Cardinality(held') \in Nat
    BY <2>1, FS_CardinalityType
  <2>3. InChannel' <= ChanDepth
    BY <1>3, <1>a DEF Send, InChannel, TypeOK
  <2> QED
    BY <1>b, <2>1, <2>2, <2>3 DEF CapInv
<1>4. CASE Take
  BY <1>4, <1>a DEF Take, CapInv, InChannel, TypeOK
<1>5. CASE UNCHANGED vars
  BY <1>5 DEF vars, CapInv, InChannel
<1> QED
  BY <1>1, <1>2, <1>3, <1>4, <1>5 DEF Next, Push

\* The heap respects MaxBuffer and the channel its capacity, and no frame is in
\* two places: in the heap, in the hands of send, or sent.
THEOREM BuffersBounded == Spec => []Bounded
<1>1. OrderInv /\ CapInv => Bounded
  <2> SUFFICES ASSUME OrderInv, CapInv PROVE Bounded
    OBVIOUS
  <2>1. sending \notin held
    BY NoneAssumption DEF OrderInv, HandedOver, TypeOK
  <2> QED
    BY <2>1 DEF OrderInv, HandedOver, CapInv, Bounded
<1>2. Init => CapInv
  BY InitCapInv
<1>3. OrderInv /\ CapInv /\ [Next]_vars => CapInv'
  BY NextCapInv
<1> QED
  BY <1>1, <1>2, <1>3, AlwaysOrderInv, PTL DEF Spec

-----------------------------------------------------------------------------
(* Nothing deliverable is left behind *)

\* While a chunk is being sent, every chunk in the heap lies above it.
HeapAbove ==
  \A f \in held :
    f.seq >= IF sending = None THEN expected + 1 ELSE End(sending)

LEMMA NextHeapAbove ==
  ASSUME CutIntoChunks, OrderInv, HeapAbove, [Next]_vars
  PROVE  HeapAbove'
<1> USE FramesAssumption, NoneAssumption
<1>a. TypeOK /\ HandedOver /\ TypeOK'
  BY NextTypeOK DEF OrderInv
<1>1. ASSUME NEW f \in Frames, PushIgnored(f) \/ PushOverflow(f)
      PROVE  HeapAbove'
  BY <1>1 DEF HeapAbove, PushIgnored, PushOverflow
<1>2. ASSUME NEW f \in Frames, PushNext(f)
      PROVE  HeapAbove'
  <2>1. /\ sending = None /\ f \notin held /\ sending' = f /\ held' = held
        /\ f.seq = expected /\ f.len > 0
    BY <1>2, <1>a DEF PushNext, Arrives, IsNext, HandedOver
  <2>2. ASSUME NEW g \in held PROVE g.seq >= End(f)
    <3>1. g \in Frames /\ g # f /\ g.len > 0 /\ g.seq > f.seq
      BY <1>a, <2>1, <2>2 DEF HeapAbove, HandedOver, TypeOK
    <3> QED
      BY <2>1, <3>1 DEF CutIntoChunks, End
  <2> QED
    BY <2>1, <2>2 DEF HeapAbove
<1>3. ASSUME NEW f \in Frames, PushEarly(f)
      PROVE  HeapAbove'
  BY <1>3, <1>a DEF HeapAbove, PushEarly, Arrives, IsEarly, TypeOK
<1>4. CASE Send
  <2>1. /\ sending \in Frames /\ sending.seq = expected
        /\ expected' = expected + sending.len
    BY <1>4, <1>a DEF Send, HandedOver, TypeOK
  <2>2. \A g \in held : g \in Frames /\ g.len > 0 /\ g.seq >= expected'
    BY <1>4, <1>a, <2>1 DEF HeapAbove, End, Send, HandedOver, TypeOK
  <2>3. CASE \E f \in Flushable(held, expected') :
               held' = held \ {f} /\ sending' = f
    <3> PICK f \in Flushable(held, expected') : held' = held \ {f} /\ sending' = f
      BY <2>3
    <3>1. f \in held /\ f.seq = expected'
      BY DEF Flushable, Roots
    <3>2. ASSUME NEW g \in held \ {f} PROVE g.seq >= End(f)
      BY <2>2, <3>1, <3>2, <1>a DEF CutIntoChunks, End, TypeOK
    <3> QED
      BY <2>2, <3>1, <3>2 DEF HeapAbove
  <2>4. CASE Flushable(held, expected') = {} /\ sending' = None /\ held' = held
    <3>1. ASSUME NEW g \in held PROVE g.seq # expected'
      BY <2>2, <2>4, <3>1 DEF Flushable, Roots
    <3> QED
      BY <2>2, <2>4, <3>1, <1>a DEF HeapAbove, TypeOK
  <2> QED
    BY <1>4, <2>3, <2>4 DEF Send
<1>5. CASE Take \/ UNCHANGED vars
  BY <1>5 DEF HeapAbove, Take, vars
<1> QED
  BY <1>1, <1>2, <1>3, <1>4, <1>5 DEF Next, Push

\* When the sender sends every byte once, Push never returns while a frame that
\* carries the next byte is in the heap.
THEOREM NothingLeftBehind ==
  ASSUME CutIntoChunks
  PROVE  Spec => []NothingReadyWaits
<1>1. Init => HeapAbove
  BY DEF Init, HeapAbove
<1>2. OrderInv /\ HeapAbove /\ [Next]_vars => HeapAbove'
  BY NextHeapAbove
<1>3. OrderInv /\ HeapAbove => NothingReadyWaits
  BY FramesAssumption DEF OrderInv, HeapAbove, NothingReadyWaits, TypeOK
<1> QED
  BY <1>1, <1>2, <1>3, AlwaysOrderInv, PTL DEF Spec

-----------------------------------------------------------------------------
(* The reassembler keeps InOrderDelivery's promise *)

\* Receiving from outCh extends what the consumer has by the next frame.
LEMMA TakeDelivers ==
  ASSUME OrderInv, Take
  PROVE  \E f \in Frames : Promise!Deliver(f)
<1> DEFINE received == SubSeq(emitted, 1, taken)
           f == emitted[taken + 1]
<1>a. TypeOK /\ HandedOver /\ Contiguous
  BY DEF OrderInv
<1>1. /\ taken \in Nat /\ Len(emitted) \in Nat /\ taken + 1 \in 1..Len(emitted)
      /\ taken' = taken + 1 /\ emitted' = emitted /\ arrived' = arrived
  BY <1>a DEF TypeOK, Take, InChannel
<1>2. f \in Frames /\ f \in arrived /\ f.len > 0
  BY <1>a, <1>1 DEF TypeOK, HandedOver
<1>3. Len(received) = taken /\ \A i \in 1..taken : received[i] = emitted[i]
  BY <1>a, <1>1 DEF TypeOK
<1>4. f.seq = Promise!NextByte
  <2>1. CASE taken = 0
    <3>1. received = <<>>
      BY <1>a, <2>1 DEF TypeOK
    <3> QED
      BY <1>a, <1>1, <2>1, <3>1 DEF Promise!NextByte, Contiguous
  <2>2. CASE taken # 0
    <3>1. /\ taken \in 1..Len(emitted)
          /\ received # <<>> /\ received[Len(received)] = emitted[taken]
      BY <1>1, <1>3, <2>2
    <3>2. f.seq = End(emitted[taken])
      BY <1>a, <1>1, <2>2 DEF Contiguous
    <3> QED
      BY <3>1, <3>2 DEF Promise!NextByte, End
  <2> QED
    BY <2>1, <2>2
<1>5. SubSeq(emitted, 1, taken)' = Append(received, f)
  BY <1>a, <1>1 DEF TypeOK
<1> QED
  BY <1>1, <1>2, <1>4, <1>5 DEF Promise!Deliver

LEMMA StepImplements == OrderInv /\ [Next]_vars => [Promise!Next]_(Promise!vars)
<1> SUFFICES ASSUME OrderInv, [Next]_vars PROVE [Promise!Next]_(Promise!vars)
  OBVIOUS
<1>a. TypeOK
  BY DEF OrderInv
<1>1. ASSUME NEW f \in Frames, Push(f)
      PROVE  Promise!Offer(f) \/ UNCHANGED Promise!vars
  BY <1>1 DEF Push, PushIgnored, PushNext, PushEarly, PushOverflow,
              Promise!Offer, Promise!vars
<1>2. CASE Send
  <2>1. SubSeq(emitted, 1, taken)' = SubSeq(emitted, 1, taken)
    <3>1. /\ emitted \in Seq(Frames) /\ taken \in 0..Len(emitted)
          /\ sending \in Frames /\ emitted' = Append(emitted, sending)
          /\ taken' = taken
      BY <1>2, <1>a DEF Send, TypeOK
    <3> QED
      BY <3>1
  <2> QED
    BY <1>2, <2>1 DEF Send, Promise!vars
<1>3. CASE Take
  BY <1>3, TakeDelivers DEF Promise!Next
<1>4. CASE UNCHANGED vars
  BY <1>4 DEF vars, Promise!vars
<1> QED
  BY <1>1, <1>2, <1>3, <1>4 DEF Next, Promise!Next

\* Every behaviour of the reassembler and its consumer, seen as what was pushed
\* and what was received, is one InOrderDelivery allows.
THEOREM ReassemblerImplements == Spec => Implements
<1>1. Init => Promise!Init
  BY DEF Init, Promise!Init
<1>2. OrderInv /\ [Next]_vars => [Promise!Next]_(Promise!vars)
  BY StepImplements
<1> QED
  BY <1>1, <1>2, AlwaysOrderInv, PTL DEF Spec, Implements, Promise!Spec
=============================================================================
