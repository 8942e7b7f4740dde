------------------------------ MODULE Wire_proofs ------------------------------
(***************************************************************************)
(* Proofs about Wire, for any scripts, frames, sizes and cuts of the       *)
(* connections into pieces: the types, that a handshake reads each field   *)
(* of what the other end wrote for what it is, and that from there on both *)
(* ends of a bearer read the frames that were put on it.                   *)
(***************************************************************************)
EXTENDS Wire, SequenceTheorems, TLAPS

-----------------------------------------------------------------------------
(* Numbers *)

\* A number is its quotient and its remainder.
LEMMA Division ==
  ASSUME NEW n \in Nat, NEW b \in Nat \ {0}
  PROVE  /\ n \div b \in Nat
         /\ n % b \in 0..(b - 1)
         /\ n = b * (n \div b) + (n % b)
  OBVIOUS

\* Two digits are enough below the square of the base.
LEMMA TwoDigits ==
  ASSUME NEW b \in Nat \ {0}, NEW n \in Nat, n < b * b
  PROVE  n \div b \in 0..(b - 1) /\ n % (b * b) = n
  OBVIOUS

\* The two bytes of a length that fits into them.
LEMMA LengthBytes ==
  ASSUME NEW n \in Nat, n < Byte * Byte
  PROVE  /\ U16(n) \in Seq(Bytes)
         /\ Len(U16(n)) = 2
         /\ FromU16(U16(n)[1], U16(n)[2]) = n
<1>1. n % (Byte * Byte) = n /\ n \div Byte \in Bytes
  <2>1. Byte \in Nat \ {0}
    BY ByteAssumption
  <2>2. n \div Byte \in 0..(Byte - 1) /\ n % (Byte * Byte) = n
    BY ONLY <2>1, n \in Nat, n < Byte * Byte, TwoDigits
  <2> QED  BY <2>2 DEF Bytes
<1>2. n % Byte \in Bytes /\ n = Byte * (n \div Byte) + (n % Byte)
  BY Division, ByteAssumption DEF Bytes
<1>3. U16(n) = <<n \div Byte, n % Byte>>
  BY <1>1 DEF U16
<1> QED
  BY <1>1, <1>2, <1>3, ByteAssumption DEF FromU16, Bytes

LEMMA ByteIsWord == Bytes \subseteq Words /\ Bytes \subseteq Nat /\ Words \subseteq Nat
  BY ByteAssumption, WordAssumption DEF Bytes, Words

\* What FromU16 makes of two items of a connection.
LEMMA FromU16Type ==
  ASSUME NEW hi \in Words, NEW lo \in Words
  PROVE  FromU16(hi, lo) \in Nat
  BY ByteAssumption, ByteIsWord DEF FromU16

LEMMA XorType ==
  ASSUME NEW a \in Words, NEW b \in Words
  PROVE  a ## b \in Words
  BY XorAssumption DEF ##

\* The items of two runs of items, one after the other.
LEMMA Joined ==
  ASSUME NEW s \in Seq(Words), NEW t \in Seq(Words)
  PROVE  /\ s \o t \in Seq(Words)
         /\ Len(s) \in Nat /\ Len(t) \in Nat
         /\ Len(s \o t) = Len(s) + Len(t)
         /\ \A i \in 1..Len(s) : (s \o t)[i] = s[i]
         /\ \A i \in 1..Len(t) : (s \o t)[Len(s) + i] = t[i]
  OBVIOUS

-----------------------------------------------------------------------------
(* Frames *)

\* A frame whose payload the header can count.
LegalFrame(f) == f \in Frames /\ Len(f.payload) < Byte * Byte

Size(f) == HeaderSize + Len(f.payload)

LEMMA ChecksumType ==
  ASSUME NEW h, \A i \in 1..7 : h[i] \in Words
  PROVE  Checksum(h) \in Words
<1>1. h[1] ## h[2] \in Words
  BY XorType
<1>2. h[1] ## h[2] ## h[3] \in Words
  BY <1>1, XorType
<1>3. h[1] ## h[2] ## h[3] ## h[4] \in Words
  BY <1>2, XorType
<1>4. h[1] ## h[2] ## h[3] ## h[4] ## h[5] \in Words
  BY <1>3, XorType
<1>5. h[1] ## h[2] ## h[3] ## h[4] ## h[5] ## h[6] \in Words
  BY <1>4, XorType
<1> QED
  BY <1>5, XorType DEF Checksum

\* Where BuildFrame puts what.
LEMMA FrameItems ==
  ASSUME NEW f, LegalFrame(f)
  PROVE  LET b == BuildFrame(f)
         IN  /\ b \in Seq(Words)
             /\ Len(b) = Size(f)
             /\ b[1] = Magic /\ b[2] = 1
             /\ b[3] = f.flag /\ b[4] = f.id /\ b[5] = f.seq
             /\ FromU16(b[6], b[7]) = Len(f.payload)
             /\ b[8] = Checksum(b)
             /\ \A i \in 1..Len(f.payload) : b[HeaderSize + i] = f.payload[i]
<1> DEFINE start == <<Magic, 1, f.flag, f.id, f.seq>>
           n == U16(Len(f.payload))
           h == start \o n
           c == <<Checksum(h)>>
           b == BuildFrame(f)
<1>1. /\ f.payload \in Seq(Bytes) /\ Len(f.payload) \in Nat
      /\ f.flag \in Words /\ f.id \in Words /\ f.seq \in Words
  <2>1. /\ f.payload \in Seq(Bytes)
        /\ f.flag \in Bytes /\ f.id \in Words /\ f.seq \in Words
    BY DEF LegalFrame, Frames
  <2> QED  BY <2>1, ByteIsWord, LenProperties
<1>2. start \in Seq(Words) /\ Len(start) = 5
  <2>1. 1 \in Words
    BY ByteAssumption, WordAssumption DEF Words
  <2> QED  BY <2>1, <1>1, MagicAssumption
<1>3. n \in Seq(Words) /\ Len(n) = 2 /\ FromU16(n[1], n[2]) = Len(f.payload)
  BY <1>1, LengthBytes, SeqMonotonic, ByteIsWord DEF LegalFrame
<1>4. /\ h \in Seq(Words) /\ Len(h) = 7
      /\ \A i \in 1..5 : h[i] = start[i]
      /\ h[6] = n[1] /\ h[7] = n[2]
  BY <1>2, <1>3, ConcatProperties
<1>5. Checksum(h) \in Words
  BY <1>4, ChecksumType, ElementOfSeq
<1>6. c \in Seq(Words) /\ Len(c) = 1 /\ c[1] = Checksum(h)
  BY <1>5
<1>7. /\ h \o c \in Seq(Words) /\ Len(h \o c) = 8
      /\ \A i \in 1..7 : (h \o c)[i] = h[i]
      /\ (h \o c)[8] = Checksum(h)
  <2> HIDE DEF h, c
  <2>1. /\ h \o c \in Seq(Words) /\ Len(h \o c) = 8
        /\ \A i \in 1..7 : (h \o c)[i] = h[i]
        /\ \A i \in 1..1 : (h \o c)[7 + i] = c[i]
    <3>1. /\ h \o c \in Seq(Words) /\ Len(h \o c) = Len(h) + Len(c)
          /\ \A i \in 1..Len(h) : (h \o c)[i] = h[i]
          /\ \A i \in 1..Len(c) : (h \o c)[Len(h) + i] = c[i]
      BY <1>4, <1>6, Joined
    <3> QED  BY <3>1, <1>4, <1>6
  <2>2. (h \o c)[7 + 1] = c[1]
    BY <2>1
  <2>3. (h \o c)[8] = Checksum(h)
    <3> HIDE DEF h, c
    <3>1. 7 + 1 = 8
      OBVIOUS
    <3>2. (h \o c)[8] = c[1]
      BY <2>2, <3>1
    <3> QED  BY <3>2, <1>6
  <2> QED  BY <2>1, <2>3
<1>8. f.payload \in Seq(Words)
  BY <1>1, SeqMonotonic, ByteIsWord
<1>9. b = (h \o c) \o f.payload
  BY DEF BuildFrame
<1>10. /\ b \in Seq(Words) /\ Len(b) = Size(f)
       /\ \A i \in 1..8 : b[i] = (h \o c)[i]
       /\ \A i \in 1..Len(f.payload) : b[HeaderSize + i] = f.payload[i]
  <2> HIDE DEF h, c, b
  <2> DEFINE g == h \o c
  <2>1. g \in Seq(Words) /\ Len(g) = 8
    BY <1>7
  <2> HIDE DEF g
  <2>2. /\ g \o f.payload \in Seq(Words)
        /\ Len(g \o f.payload) = 8 + Len(f.payload)
        /\ \A i \in 1..8 : (g \o f.payload)[i] = g[i]
        /\ \A i \in 1..Len(f.payload) : (g \o f.payload)[8 + i] = f.payload[i]
    <3>1. /\ g \o f.payload \in Seq(Words)
          /\ Len(g \o f.payload) = Len(g) + Len(f.payload)
          /\ \A i \in 1..Len(g) : (g \o f.payload)[i] = g[i]
          /\ \A i \in 1..Len(f.payload) : (g \o f.payload)[Len(g) + i] = f.payload[i]
      BY <2>1, <1>8, Joined
    <3> QED  BY <3>1, <2>1
  <2>3. b = g \o f.payload
    BY <1>9 DEF g
  <2> QED  BY <2>2, <2>3 DEF Size, HeaderSize, g
<1>11. b[8] = Checksum(b)
  <2> HIDE DEF h, c, b
  <2>1. b[8] = Checksum(h)
    BY <1>7, <1>10
  <2>2. ASSUME NEW i \in 1..7
        PROVE  b[i] = h[i]
    <3>1. i \in 1..8
      OBVIOUS
    <3> QED  BY <1>7, <1>10, <3>1
  <2>3. /\ b[1] = h[1] /\ b[2] = h[2] /\ b[3] = h[3] /\ b[4] = h[4]
        /\ b[5] = h[5] /\ b[6] = h[6] /\ b[7] = h[7]
    BY <2>2
  <2> QED  BY <2>1, <2>3 DEF Checksum
<1>12. /\ b[1] = Magic /\ b[2] = 1
       /\ b[3] = f.flag /\ b[4] = f.id /\ b[5] = f.seq
       /\ b[6] = n[1] /\ b[7] = n[2]
  <2>1. \A i \in 1..7 : b[i] = h[i]
    <3> HIDE DEF h, c, b
    <3>1. \A i \in 1..7 : i \in 1..8
      OBVIOUS
    <3> QED  BY <3>1, <1>7, <1>10
  <2>2. \A i \in 1..5 : b[i] = start[i]
    <3> HIDE DEF h, c, b, start
    <3> QED  BY <2>1, <1>4
  <2>3. b[6] = n[1] /\ b[7] = n[2]
    <3> HIDE DEF h, c, b, start, n
    <3> QED  BY <2>1, <1>4
  <2> HIDE DEF h, c, b, n
  <2> QED  BY <2>2, <2>3
<1> HIDE DEF h, c, b, n
<1> QED
  BY <1>3, <1>10, <1>11, <1>12 DEF b

\* What is read from where a frame begins is that frame: its header is accepted,
\* its length is the frame's, and decoding all of it gives it back.
THEOREM ReadsBack ==
  ASSUME NEW f, LegalFrame(f),
         NEW b \in Seq(Words), Len(b) >= HeaderSize,
         \A i \in 1..Size(f) : i <= Len(b) => b[i] = BuildFrame(f)[i]
  PROVE  /\ ValidHeader(b)
         /\ FrameSize(b) = Size(f)
         /\ Len(b) >= Size(f) => Decode(b) = f
<1> DEFINE c == BuildFrame(f)
<1>1. /\ f.payload \in Seq(Bytes) /\ Len(f.payload) \in Nat /\ Len(b) \in Nat
      /\ f = [flag |-> f.flag, id |-> f.id, seq |-> f.seq, payload |-> f.payload]
  BY DEF LegalFrame, Frames
<1>2. /\ c[1] = Magic /\ c[2] = 1
      /\ c[3] = f.flag /\ c[4] = f.id /\ c[5] = f.seq
      /\ FromU16(c[6], c[7]) = Len(f.payload)
      /\ c[8] = Checksum(c)
      /\ \A i \in 1..Len(f.payload) : c[HeaderSize + i] = f.payload[i]
  BY FrameItems
<1> HIDE DEF c
<1>3. \A i \in 1..8 : b[i] = c[i]
  BY <1>1 DEF c, Size, HeaderSize
<1>4. \A i \in 1..7 : SubSeq(b, 1, 7)[i] = b[i]
  <2>1. \A i \in 1..7 : b[i] \in Words
    <3> SUFFICES ASSUME NEW i \in 1..7 PROVE b[i] \in Words
      OBVIOUS
    <3>1. i \in 1..Len(b)
      BY DEF HeaderSize
    <3> QED  BY <3>1, ElementOfSeq
  <2>2. \A i \in 1..(7 - 1 + 1) : SubSeq(b, 1, 7)[i] = b[1 + i - 1]
    BY <2>1, SubSeqProperties
  <2> QED  BY <2>2
<1>5. ValidHeader(b)
  <2>1. Checksum(SubSeq(b, 1, 7)) = Checksum(c)
    BY <1>3, <1>4 DEF Checksum
  <2> QED  BY <2>1, <1>2, <1>3 DEF ValidHeader
<1>6. FrameSize(b) = Size(f)
  BY <1>2, <1>3 DEF FrameSize, Size
<1>7. ASSUME Len(b) >= Size(f)
      PROVE  SubSeq(b, HeaderSize + 1, FrameSize(b)) = f.payload
  <2> DEFINE p == SubSeq(b, HeaderSize + 1, FrameSize(b))
  <2>1. \A i \in 1..Len(f.payload) :
           b[HeaderSize + i] = f.payload[i] /\ b[HeaderSize + i] \in Words
    <3> SUFFICES ASSUME NEW i \in 1..Len(f.payload)
                 PROVE  b[HeaderSize + i] = f.payload[i] /\ b[HeaderSize + i] \in Words
      OBVIOUS
    <3>1. HeaderSize + i \in 1..Size(f) /\ HeaderSize + i \in 1..Len(b)
      BY <1>1, <1>7 DEF Size, HeaderSize
    <3>2. b[HeaderSize + i] = c[HeaderSize + i]
      BY <3>1 DEF c
    <3> QED  BY <1>2, <3>1, <3>2, ElementOfSeq
  <2>2. \A i \in (HeaderSize + 1)..FrameSize(b) : b[i] \in Words
    BY <1>1, <1>6, <1>7, ElementOfSeq DEF Size, HeaderSize
  <2>3. /\ p \in Seq(Words) /\ Len(p) = Len(f.payload)
        /\ \A i \in 1..Len(f.payload) : p[i] = b[HeaderSize + i]
    BY <1>1, <1>6, <2>2, SubSeqProperties DEF Size, HeaderSize
  <2>4. f.payload \in Seq(Words)
    BY <1>1, SeqMonotonic, ByteIsWord
  <2> HIDE DEF p
  <2>5. p = f.payload
    BY <2>1, <2>3, <2>4, SeqEqual
  <2> QED  BY <2>5 DEF p
<1>8. ASSUME Len(b) >= Size(f)
      PROVE  Decode(b) = f
  BY <1>1, <1>2, <1>3, <1>7, <1>8 DEF Decode
<1> QED
  BY <1>5, <1>6, <1>8

-----------------------------------------------------------------------------
(* Frames, one after the other on a connection *)

Legal(frames) ==
  frames \in Seq(Frames) /\ \A i \in 1..Len(frames) : LegalFrame(frames[i])

\* Frame i is what a connection has between cut[i - 1] and cut[i], and nothing
\* follows the last one.
Framing(bytes, base, frames, cut) ==
  /\ cut \in [0..Len(frames) -> 0..Len(bytes)]
  /\ cut[0] = base
  /\ cut[Len(frames)] = Len(bytes)
  /\ \A i \in 1..Len(frames) :
       /\ cut[i] = cut[i - 1] + Size(frames[i])
       /\ \A j \in 1..Size(frames[i]) :
            bytes[cut[i - 1] + j] = BuildFrame(frames[i])[j]

FirstOf(read, put) ==
  Len(read) <= Len(put) /\ \A i \in 1..Len(read) : read[i] = put[i]

\* The frames put on the connection begin at base; pos is where those read end.
InStep(bytes, base, put, read, pos) ==
  /\ FirstOf(read, put)
  /\ \E cut : Framing(bytes, base, put, cut) /\ pos = cut[Len(read)]

LEMMA LegalFacts ==
  ASSUME NEW frames, Legal(frames)
  PROVE  /\ Len(frames) \in Nat
         /\ \A i \in 1..Len(frames) :
              /\ LegalFrame(frames[i])
              /\ Size(frames[i]) \in Nat /\ Size(frames[i]) >= HeaderSize
              /\ BuildFrame(frames[i]) \in Seq(Words)
              /\ Len(BuildFrame(frames[i])) = Size(frames[i])
<1>1. Len(frames) \in Nat
  BY LenProperties DEF Legal
<1>2. ASSUME NEW i \in 1..Len(frames)
      PROVE  /\ LegalFrame(frames[i])
             /\ Size(frames[i]) \in Nat /\ Size(frames[i]) >= HeaderSize
             /\ BuildFrame(frames[i]) \in Seq(Words)
             /\ Len(BuildFrame(frames[i])) = Size(frames[i])
  <2>1. LegalFrame(frames[i])
    BY DEF Legal
  <2>2. Len(frames[i].payload) \in Nat
    BY <2>1, LenProperties DEF LegalFrame, Frames
  <2> QED  BY <2>1, <2>2, FrameItems DEF Size, HeaderSize
<1> QED  BY <1>1, <1>2

\* Before the first frame.
LEMMA NoFrameYet ==
  ASSUME NEW bytes \in Seq(Words)
  PROVE  InStep(bytes, Len(bytes), <<>>, <<>>, Len(bytes))
<1> DEFINE cut == [i \in 0..0 |-> Len(bytes)]
<1>1. Len(bytes) \in Nat
  BY LenProperties
<1>2. Framing(bytes, Len(bytes), <<>>, cut)
  BY <1>1 DEF Framing
<1> QED
  BY <1>1, <1>2 DEF InStep, FirstOf

\* A frame is put behind those that are there.
LEMMA PutNext ==
  ASSUME NEW bytes \in Seq(Words), NEW base, NEW put, Legal(put),
         NEW read, Len(read) \in Nat, NEW pos,
         InStep(bytes, base, put, read, pos),
         NEW f, LegalFrame(f)
  PROVE  /\ Legal(Append(put, f))
         /\ bytes \o BuildFrame(f) \in Seq(Words)
         /\ InStep(bytes \o BuildFrame(f), base, Append(put, f), read, pos)
<1> DEFINE b == BuildFrame(f)
           more == bytes \o b
           puts == Append(put, f)
           n == Len(put)
<1>1. /\ b \in Seq(Words) /\ Len(b) = Size(f) /\ Len(b) \in Nat
  BY FrameItems, LenProperties
<1>2. PICK cut : Framing(bytes, base, put, cut) /\ pos = cut[Len(read)]
  BY DEF InStep
<1>3. /\ more \in Seq(Words) /\ Len(bytes) \in Nat
      /\ Len(more) = Len(bytes) + Size(f)
      /\ \A i \in 1..Len(bytes) : more[i] = bytes[i]
      /\ \A i \in 1..Size(f) : more[Len(bytes) + i] = b[i]
  <2>1. /\ more \in Seq(Words) /\ Len(bytes) \in Nat
        /\ Len(more) = Len(bytes) + Len(b)
        /\ \A i \in 1..Len(bytes) : more[i] = bytes[i]
        /\ \A i \in 1..Len(b) : more[Len(bytes) + i] = b[i]
    BY <1>1, Joined
  <2> QED  BY <2>1, <1>1
<1>4. /\ puts \in Seq(Frames) /\ Len(puts) = n + 1 /\ n \in Nat
      /\ \A i \in 1..n : puts[i] = put[i]
      /\ puts[n + 1] = f
  BY AppendProperties DEF Legal, LegalFrame
<1> HIDE DEF b, more, puts
<1>5. Legal(puts)
  BY <1>4 DEF Legal
<1>6. FirstOf(read, puts) /\ FirstOf(read, put)
  BY <1>4 DEF FirstOf, InStep
<1> DEFINE cuts == [i \in 0..(n + 1) |-> IF i = n + 1 THEN Len(more) ELSE cut[i]]
<1>7. /\ cut \in [0..n -> 0..Len(bytes)] /\ cut[0] = base /\ cut[n] = Len(bytes)
      /\ \A i \in 1..n :
           /\ cut[i] = cut[i - 1] + Size(put[i])
           /\ \A j \in 1..Size(put[i]) :
                bytes[cut[i - 1] + j] = BuildFrame(put[i])[j]
  BY <1>2 DEF Framing
<1>8. Size(f) \in Nat
  BY <1>1
<1>9. /\ cuts \in [0..(n + 1) -> 0..Len(more)]
      /\ cuts[n + 1] = Len(more)
      /\ \A i \in 0..n : cuts[i] = cut[i]
  BY <1>3, <1>4, <1>7, <1>8
<1> HIDE DEF cuts
<1>10. ASSUME NEW i \in 1..Len(puts)
       PROVE  /\ cuts[i] = cuts[i - 1] + Size(puts[i])
              /\ \A j \in 1..Size(puts[i]) :
                   more[cuts[i - 1] + j] = BuildFrame(puts[i])[j]
  <2>1. CASE i = n + 1
    <3>1. cuts[i - 1] = Len(bytes) /\ puts[i] = f
      BY <2>1, <1>4, <1>7, <1>9
    <3> QED  BY <3>1, <2>1, <1>3, <1>9 DEF b
  <2>2. CASE i \in 1..n
    <3>1. /\ cuts[i] = cut[i] /\ cuts[i - 1] = cut[i - 1] /\ puts[i] = put[i]
          /\ cut[i] \in 0..Len(bytes) /\ cut[i - 1] \in 0..Len(bytes)
      <4>1. i \in 0..n /\ i - 1 \in 0..n
        BY <2>2, <1>4
      <4> QED  BY <4>1, <2>2, <1>4, <1>7, <1>9
    <3>2. cut[i] = cut[i - 1] + Size(put[i]) /\ Size(put[i]) \in Nat
      BY <2>2, <1>7, LegalFacts
    <3>3. ASSUME NEW j \in 1..Size(put[i])
          PROVE  more[cut[i - 1] + j] = BuildFrame(put[i])[j]
      <4>1. cut[i - 1] + j \in 1..Len(bytes)
        <5>1. Len(bytes) \in Nat /\ cut[i - 1] \in Nat /\ cut[i] <= Len(bytes)
          BY <3>1, <1>3
        <5>2. cut[i - 1] + j <= cut[i]
          BY <3>2, <5>1
        <5> QED  BY <3>2, <5>1, <5>2
      <4> QED  BY <4>1, <2>2, <1>3, <1>7
    <3> QED  BY <3>1, <3>2, <3>3
  <2> QED  BY <2>1, <2>2, <1>4
<1>11. Framing(more, base, puts, cuts)
  <2>1. cuts[0] = base
    BY <1>4, <1>7, <1>9
  <2> QED  BY <2>1, <1>4, <1>9, <1>10 DEF Framing
<1>12. pos = cuts[Len(read)]
  BY <1>2, <1>4, <1>6, <1>9 DEF FirstOf
<1>13. InStep(more, base, puts, read, pos)
  BY <1>6, <1>11, <1>12 DEF InStep
<1> QED
  BY <1>3, <1>5, <1>13 DEF more, puts, b

\* What is unread begins with the next frame.
LEMMA GetNext ==
  ASSUME NEW c, WellFormed(c), NEW base, NEW put, Legal(put),
         NEW read, Legal(read), InStep(c.bytes, base, put, read, c.taken),
         Has(c, HeaderSize)
  PROVE  LET f == put[Len(read) + 1]
         IN  /\ Len(read) < Len(put)
             /\ ValidHeader(Unread(c))
             /\ FrameSize(Unread(c)) = Size(f)
             /\ Has(c, Size(f)) =>
                  /\ Decode(Unread(c)) = f
                  /\ Legal(Append(read, f))
                  /\ InStep(c.bytes, base, put, Append(read, f), c.taken + Size(f))
<1> DEFINE n == Len(read)
           f == put[n + 1]
           b == Unread(c)
<1>1. /\ c.bytes \in Seq(Words) /\ Len(c.bytes) \in Nat
      /\ c.arrived \in 0..Len(c.bytes) /\ c.taken \in 0..c.arrived
      /\ c.arrived - c.taken >= HeaderSize
  BY LenProperties DEF WellFormed, Has
<1>2. PICK cut : Framing(c.bytes, base, put, cut) /\ c.taken = cut[n]
  BY DEF InStep
<1>3. Len(put) \in Nat /\ n \in Nat /\ FirstOf(read, put)
  BY LegalFacts DEF InStep
<1>4. n < Len(put)
  <2>1. SUFFICES ASSUME n = Len(put) PROVE FALSE
    BY <1>3 DEF FirstOf
  <2>2. c.taken = Len(c.bytes)
    BY <1>2, <2>1 DEF Framing
  <2> QED  BY <2>2, <1>1 DEF HeaderSize
<1>5. /\ LegalFrame(f) /\ Size(f) \in Nat /\ Size(f) >= HeaderSize
  <2>1. n + 1 \in 1..Len(put)
    BY <1>3, <1>4
  <2> QED  BY <2>1, LegalFacts
<1>6. /\ cut[n + 1] = c.taken + Size(f)
      /\ cut[n + 1] \in 0..Len(c.bytes)
      /\ \A j \in 1..Size(f) : c.bytes[c.taken + j] = BuildFrame(f)[j]
  <2>1. n + 1 \in 1..Len(put) /\ n + 1 \in 0..Len(put) /\ (n + 1) - 1 = n
    BY <1>3, <1>4
  <2> QED  BY <2>1, <1>2 DEF Framing
<1>7. /\ b \in Seq(Words) /\ Len(b) = c.arrived - c.taken
      /\ \A j \in 1..Len(b) : b[j] = c.bytes[c.taken + j]
  <2>1. c.taken + 1 \in Int /\ c.arrived \in Int
    BY <1>1
  <2>2. \A i \in (c.taken + 1)..c.arrived : c.bytes[i] \in Words
    <3> SUFFICES ASSUME NEW i \in (c.taken + 1)..c.arrived
                 PROVE  c.bytes[i] \in Words
      OBVIOUS
    <3>1. i \in 1..Len(c.bytes)
      BY <1>1
    <3> QED  BY <3>1, <1>1, ElementOfSeq
  <2>3. /\ b \in Seq(Words)
        /\ Len(b) = IF c.taken + 1 <= c.arrived THEN c.arrived - (c.taken + 1) + 1
                                                ELSE 0
        /\ \A j \in 1..(c.arrived - (c.taken + 1) + 1) :
             b[j] = c.bytes[c.taken + 1 + j - 1]
    BY <2>1, <2>2, SubSeqProperties DEF Unread
  <2>4. /\ c.arrived - (c.taken + 1) + 1 = c.arrived - c.taken
        /\ \A j \in Nat : c.taken + 1 + j - 1 = c.taken + j
    BY <1>1
  <2> HIDE DEF b
  <2>5. b \in Seq(Words) /\ Len(b) = c.arrived - c.taken
    <3>1. c.taken + 1 <= c.arrived
      BY <1>1 DEF HeaderSize
    <3>2. Len(b) = c.arrived - (c.taken + 1) + 1
      BY <2>3, <3>1
    <3> QED  BY <2>3, <2>4, <3>2
  <2>6. ASSUME NEW j \in 1..Len(b)
        PROVE  b[j] = c.bytes[c.taken + j]
    <3>1. j \in 1..(c.arrived - (c.taken + 1) + 1) /\ c.taken + 1 + j - 1 = c.taken + j
      BY <2>4, <2>5, <1>1
    <3> QED  BY <3>1, <2>3
  <2> QED  BY <2>5, <2>6
<1> HIDE DEF f, b
<1>8. /\ ValidHeader(b) /\ FrameSize(b) = Size(f)
      /\ Len(b) >= Size(f) => Decode(b) = f
  <2>1. Len(b) >= HeaderSize /\ Len(b) \in Nat
    BY <1>1, <1>7
  <2>2. \A i \in 1..Size(f) : i <= Len(b) => b[i] = BuildFrame(f)[i]
    BY <2>1, <1>5, <1>6, <1>7
  <2> QED  BY <2>1, <2>2, <1>5, <1>7, ReadsBack
<1>9. ASSUME Has(c, Size(f))
      PROVE  /\ Decode(b) = f
             /\ Legal(Append(read, f))
             /\ InStep(c.bytes, base, put, Append(read, f), c.taken + Size(f))
  <2>1. Decode(b) = f
    BY <1>7, <1>8, <1>9 DEF Has
  <2>2. /\ Append(read, f) \in Seq(Frames) /\ Len(Append(read, f)) = n + 1
        /\ \A i \in 1..n : Append(read, f)[i] = read[i]
        /\ Append(read, f)[n + 1] = f
    BY <1>5, AppendProperties DEF Legal, LegalFrame
  <2>3. Legal(Append(read, f))
    BY <2>2, <1>3, <1>5 DEF Legal
  <2>4. FirstOf(Append(read, f), put)
    BY <2>2, <1>3, <1>4 DEF FirstOf, f
  <2> QED  BY <2>1, <2>2, <2>3, <2>4, <1>2, <1>6 DEF InStep
<1> QED
  BY <1>4, <1>8, <1>9 DEF f, b

LEMMA FirstIsPrefix ==
  ASSUME NEW put, Legal(put), NEW read, Legal(read), FirstOf(read, put)
  PROVE  IsPrefix(read, put)
<1>1. /\ read \in Seq(Frames) /\ put \in Seq(Frames)
      /\ Len(read) \in Nat /\ Len(put) \in Nat /\ Len(read) <= Len(put)
      /\ \A i \in 1..Len(read) : read[i] = put[i]
  BY LegalFacts DEF Legal, FirstOf
<1>2. SubSeq(read, 1, Len(read)) = SubSeq(put, 1, Len(read))
  BY <1>1
<1> QED
  BY <1>1, <1>2 DEF IsPrefix

-----------------------------------------------------------------------------
(* Connections *)

Connection == [bytes : Seq(Words), arrived : Nat, taken : Nat, eof : BOOLEAN]

Sound(c) == c \in Connection /\ WellFormed(c)

LEMMA NewPipe ==
  ASSUME NEW b \in Seq(Words)
  PROVE  /\ Sound(Pipe(b))
         /\ Pipe(b).bytes = b /\ Pipe(b).taken = 0 /\ Pipe(b).arrived = 0
         /\ Pipe(b).eof = FALSE
<1>1. Len(b) \in Nat
  BY LenProperties
<1> QED
  BY <1>1 DEF Pipe, Sound, Connection, WellFormed

LEMMA SoundTook ==
  ASSUME NEW c, Sound(c), NEW n \in Nat, Has(c, n)
  PROVE  /\ Sound(Took(c, n))
         /\ Took(c, n).bytes = c.bytes /\ Took(c, n).arrived = c.arrived
         /\ Took(c, n).eof = c.eof /\ Took(c, n).taken = c.taken + n
<1>1. Len(c.bytes) \in Nat
  BY LenProperties DEF Sound, Connection
<1> QED
  BY <1>1 DEF Took, Has, Sound, Connection, WellFormed

LEMMA SoundArrived ==
  ASSUME NEW c, Sound(c), c.arrived < Len(c.bytes),
         NEW d, d = [c EXCEPT !.arrived = @ + 1]
  PROVE  /\ Sound(d)
         /\ d.bytes = c.bytes /\ d.taken = c.taken /\ d.eof = c.eof
<1>1. Len(c.bytes) \in Nat
  BY LenProperties DEF Sound, Connection
<1> QED
  BY <1>1 DEF Sound, Connection, WellFormed

LEMMA SoundEnded ==
  ASSUME NEW c, Sound(c), NEW d, d = [c EXCEPT !.eof = TRUE]
  PROVE  /\ Sound(d)
         /\ d.bytes = c.bytes /\ d.taken = c.taken /\ d.eof = TRUE
         /\ d.arrived = c.arrived
  BY DEF Sound, Connection, WellFormed

LEMMA SoundPut ==
  ASSUME NEW c, Sound(c), NEW b \in Seq(Words),
         NEW d, d = [c EXCEPT !.bytes = @ \o b]
  PROVE  /\ Sound(d)
         /\ d.bytes = c.bytes \o b /\ d.taken = c.taken /\ d.eof = c.eof
         /\ d.arrived = c.arrived
<1>1. /\ c.bytes \in Seq(Words)
      /\ c.bytes \o b \in Seq(Words) /\ Len(b) \in Nat /\ Len(c.bytes) \in Nat
      /\ Len(c.bytes \o b) = Len(c.bytes) + Len(b)
  BY Joined DEF Sound, Connection
<1>2. /\ d \in Connection /\ d.bytes = c.bytes \o b /\ d.taken = c.taken
      /\ d.eof = c.eof /\ d.arrived = c.arrived
  BY <1>1 DEF Sound, Connection
<1> QED
  BY <1>1, <1>2 DEF Sound, WellFormed

\* What a read of n bytes gives.
LEMMA Slice ==
  ASSUME NEW c, Sound(c), NEW n \in Nat, Has(c, n)
  PROVE  LET w == SubSeq(c.bytes, c.taken + 1, c.taken + n)
         IN  /\ w \in Seq(Words) /\ Len(w) = n
             /\ \A i \in 1..n : w[i] = c.bytes[c.taken + i] /\ w[i] \in Words
<1> DEFINE w == SubSeq(c.bytes, c.taken + 1, c.taken + n)
<1>1. /\ c.bytes \in Seq(Words) /\ Len(c.bytes) \in Nat
      /\ c.taken \in Nat /\ c.taken + n <= Len(c.bytes)
  BY LenProperties DEF Sound, Connection, WellFormed, Has
<1>2. \A i \in (c.taken + 1)..(c.taken + n) : c.bytes[i] \in Words
  <2> SUFFICES ASSUME NEW i \in (c.taken + 1)..(c.taken + n)
               PROVE  c.bytes[i] \in Words
    OBVIOUS
  <2>1. i \in 1..Len(c.bytes)
    BY <1>1
  <2> QED  BY <2>1, <1>1, ElementOfSeq
<1>3. c.taken + 1 \in Int /\ c.taken + n \in Int
  BY <1>1
<1>4. /\ w \in Seq(Words)
      /\ Len(w) = IF c.taken + 1 <= c.taken + n
                  THEN (c.taken + n) - (c.taken + 1) + 1 ELSE 0
      /\ \A i \in 1..((c.taken + n) - (c.taken + 1) + 1) :
           w[i] = c.bytes[c.taken + 1 + i - 1]
  BY <1>2, <1>3, SubSeqProperties
<1> HIDE DEF w
<1>5. Len(w) = n
  <2>1. CASE n = 0
    BY <2>1, <1>1, <1>4
  <2>2. CASE n > 0
    <3>1. /\ c.taken + 1 <= c.taken + n
          /\ (c.taken + n) - (c.taken + 1) + 1 = n
      BY <2>2, <1>1
    <3> QED  BY <3>1, <1>4
  <2> QED  BY <2>1, <2>2
<1>6. ASSUME NEW i \in 1..n
      PROVE  w[i] = c.bytes[c.taken + i] /\ w[i] \in Words
  <2>1. /\ i \in 1..((c.taken + n) - (c.taken + 1) + 1)
        /\ c.taken + 1 + i - 1 = c.taken + i
        /\ c.taken + i \in (c.taken + 1)..(c.taken + n)
    BY <1>1
  <2> QED  BY <2>1, <1>2, <1>4
<1> QED
  BY <1>4, <1>5, <1>6 DEF w

\* A read of the items of s gives s.
LEMMA SliceIs ==
  ASSUME NEW c, Sound(c), NEW s \in Seq(Words), Has(c, Len(s)),
         \A i \in 1..Len(s) : c.bytes[c.taken + i] = s[i]
  PROVE  SubSeq(c.bytes, c.taken + 1, c.taken + Len(s)) = s
<1> DEFINE w == SubSeq(c.bytes, c.taken + 1, c.taken + Len(s))
<1>1. Len(s) \in Nat
  BY LenProperties
<1>2. /\ w \in Seq(Words) /\ Len(w) = Len(s)
      /\ \A i \in 1..Len(s) : w[i] = c.bytes[c.taken + i]
  BY <1>1, Slice
<1> HIDE DEF w
<1>3. w = s
  BY <1>2, SeqEqual
<1> QED
  BY <1>3 DEF w

-----------------------------------------------------------------------------
(* What an application and a proxy write *)

Prefixed(atyp) == IF atyp = Domain THEN 1 ELSE 0

LEMMA SizedItems ==
  ASSUME NEW atyp, NEW addr \in Seq(Bytes), Fits(atyp, addr)
  PROVE  LET s == Sized(atyp, addr)
         IN  /\ s \in Seq(Words) /\ Len(addr) \in Nat
             /\ Len(s) = Prefixed(atyp) + Len(addr)
             /\ atyp = Domain => s[1] = Len(addr)
             /\ \A i \in 1..Len(addr) : s[Prefixed(atyp) + i] = addr[i]
<1> DEFINE s == Sized(atyp, addr)
<1>1. addr \in Seq(Words) /\ Len(addr) \in Nat
  BY SeqMonotonic, ByteIsWord, LenProperties
<1>2. CASE atyp # Domain
  BY <1>1, <1>2 DEF Sized, Prefixed
<1>3. CASE atyp = Domain
  <2> DEFINE l == <<Len(addr)>>
  <2>1. Len(addr) \in Words
    BY <1>1, <1>3, ByteAssumption, WordAssumption DEF Fits, Words
  <2>2. l \in Seq(Words) /\ Len(l) = 1 /\ l[1] = Len(addr)
    BY <2>1
  <2>3. s = l \o addr
    BY <1>3 DEF Sized
  <2> HIDE DEF l, s
  <2>4. /\ l \o addr \in Seq(Words) /\ Len(l \o addr) = Len(l) + Len(addr)
        /\ \A i \in 1..Len(l) : (l \o addr)[i] = l[i]
        /\ \A i \in 1..Len(addr) : (l \o addr)[Len(l) + i] = addr[i]
    BY <1>1, <2>2, Joined
  <2>5. /\ s \in Seq(Words) /\ Len(s) = 1 + Len(addr) /\ s[1] = Len(addr)
        /\ \A i \in 1..Len(addr) : s[1 + i] = addr[i]
    BY <2>2, <2>3, <2>4
  <2> QED  BY <1>1, <1>3, <2>5 DEF s, Prefixed
<1> QED
  BY <1>2, <1>3

\* Where the parts are in four and in six runs of items, one after the other.
FourIn(r, s1, s2, s3, s4) ==
  /\ r \in Seq(Words)
  /\ Len(s1) \in Nat /\ Len(s2) \in Nat /\ Len(s3) \in Nat /\ Len(s4) \in Nat
  /\ Len(r) = Len(s1) + Len(s2) + Len(s3) + Len(s4)
  /\ \A i \in 1..Len(s1) : r[i] = s1[i]
  /\ \A i \in 1..Len(s2) : r[Len(s1) + i] = s2[i]
  /\ \A i \in 1..Len(s3) : r[Len(s1) + Len(s2) + i] = s3[i]
  /\ \A i \in 1..Len(s4) : r[Len(s1) + Len(s2) + Len(s3) + i] = s4[i]

SixIn(r, s1, s2, s3, s4, s5, s6) ==
  LET n == Len(s1) + Len(s2) + Len(s3) + Len(s4)
  IN  /\ r \in Seq(Words)
      /\ Len(s1) \in Nat /\ Len(s2) \in Nat /\ Len(s3) \in Nat /\ Len(s4) \in Nat
      /\ Len(s5) \in Nat /\ Len(s6) \in Nat
      /\ Len(r) = n + Len(s5) + Len(s6)
      /\ \A i \in 1..Len(s1) : r[i] = s1[i]
      /\ \A i \in 1..Len(s2) : r[Len(s1) + i] = s2[i]
      /\ \A i \in 1..Len(s3) : r[Len(s1) + Len(s2) + i] = s3[i]
      /\ \A i \in 1..Len(s4) : r[Len(s1) + Len(s2) + Len(s3) + i] = s4[i]
      /\ \A i \in 1..Len(s5) : r[n + i] = s5[i]
      /\ \A i \in 1..Len(s6) : r[n + Len(s5) + i] = s6[i]

LEMMA FourParts ==
  ASSUME NEW s1 \in Seq(Words), NEW s2 \in Seq(Words),
         NEW s3 \in Seq(Words), NEW s4 \in Seq(Words)
  PROVE  FourIn(s1 \o s2 \o s3 \o s4, s1, s2, s3, s4)
<1> DEFINE t2 == s1 \o s2
           t3 == t2 \o s3
           r == s1 \o s2 \o s3 \o s4
<1>0. r = t3 \o s4
  OBVIOUS
<1>1. /\ t2 \in Seq(Words) /\ Len(s1) \in Nat /\ Len(s2) \in Nat
      /\ Len(t2) = Len(s1) + Len(s2)
      /\ \A i \in 1..Len(s1) : t2[i] = s1[i]
      /\ \A i \in 1..Len(s2) : t2[Len(s1) + i] = s2[i]
  BY Joined
<1> HIDE DEF t2
<1>2. /\ t3 \in Seq(Words) /\ Len(s3) \in Nat /\ Len(t3) = Len(t2) + Len(s3)
      /\ \A i \in 1..Len(t2) : t3[i] = t2[i]
      /\ \A i \in 1..Len(s3) : t3[Len(t2) + i] = s3[i]
  BY <1>1, Joined
<1> HIDE DEF t3
<1>3. /\ r \in Seq(Words) /\ Len(s4) \in Nat /\ Len(r) = Len(t3) + Len(s4)
      /\ \A i \in 1..Len(t3) : r[i] = t3[i]
      /\ \A i \in 1..Len(s4) : r[Len(t3) + i] = s4[i]
  <2> DEFINE q == t3 \o s4
  <2>1. /\ q \in Seq(Words) /\ Len(s4) \in Nat /\ Len(q) = Len(t3) + Len(s4)
        /\ \A i \in 1..Len(t3) : q[i] = t3[i]
        /\ \A i \in 1..Len(s4) : q[Len(t3) + i] = s4[i]
    BY <1>2, Joined
  <2> HIDE DEF q
  <2>2. r = q
    BY <1>0 DEF q
  <2> HIDE DEF r
  <2> QED  BY <2>1, <2>2
<1> HIDE DEF r
<1>4. \A i \in 1..Len(s1) : r[i] = s1[i]
  <2> SUFFICES ASSUME NEW i \in 1..Len(s1) PROVE r[i] = s1[i]
    OBVIOUS
  <2>1. i \in 1..Len(t2) /\ i \in 1..Len(t3)
    BY <1>1, <1>2
  <2> QED  BY <2>1, <1>1, <1>2, <1>3
<1>5. \A i \in 1..Len(s2) : r[Len(s1) + i] = s2[i]
  <2> SUFFICES ASSUME NEW i \in 1..Len(s2) PROVE r[Len(s1) + i] = s2[i]
    OBVIOUS
  <2>1. Len(s1) + i \in 1..Len(t2) /\ Len(s1) + i \in 1..Len(t3)
    BY <1>1, <1>2
  <2> QED  BY <2>1, <1>1, <1>2, <1>3
<1>6. \A i \in 1..Len(s3) : r[Len(s1) + Len(s2) + i] = s3[i]
  <2> SUFFICES ASSUME NEW i \in 1..Len(s3) PROVE r[Len(t2) + i] = s3[i]
    BY <1>1
  <2>1. Len(t2) + i \in 1..Len(t3)
    BY <1>1, <1>2
  <2> QED  BY <2>1, <1>2, <1>3
<1>7. \A i \in 1..Len(s4) : r[Len(s1) + Len(s2) + Len(s3) + i] = s4[i]
  BY <1>1, <1>2, <1>3
<1>8. Len(r) = Len(s1) + Len(s2) + Len(s3) + Len(s4)
  BY <1>1, <1>2, <1>3
<1> QED
  BY <1>1, <1>2, <1>3, <1>4, <1>5, <1>6, <1>7, <1>8 DEF FourIn, r

LEMMA SixParts ==
  ASSUME NEW s1 \in Seq(Words), NEW s2 \in Seq(Words),
         NEW s3 \in Seq(Words), NEW s4 \in Seq(Words),
         NEW s5 \in Seq(Words), NEW s6 \in Seq(Words)
  PROVE  SixIn(s1 \o s2 \o s3 \o s4 \o s5 \o s6, s1, s2, s3, s4, s5, s6)
<1> DEFINE t == s1 \o s2 \o s3 \o s4
           u == t \o s5
           r == u \o s6
           n == Len(s1) + Len(s2) + Len(s3) + Len(s4)
<1>1. /\ t \in Seq(Words)
      /\ Len(s1) \in Nat /\ Len(s2) \in Nat /\ Len(s3) \in Nat /\ Len(s4) \in Nat
      /\ Len(t) = n
      /\ \A i \in 1..Len(s1) : t[i] = s1[i]
      /\ \A i \in 1..Len(s2) : t[Len(s1) + i] = s2[i]
      /\ \A i \in 1..Len(s3) : t[Len(s1) + Len(s2) + i] = s3[i]
      /\ \A i \in 1..Len(s4) : t[Len(s1) + Len(s2) + Len(s3) + i] = s4[i]
  <2>1. FourIn(t, s1, s2, s3, s4)
    BY FourParts
  <2> HIDE DEF t
  <2> QED  BY <2>1 DEF FourIn
<1> HIDE DEF t
<1>2. /\ u \in Seq(Words) /\ Len(s5) \in Nat /\ Len(u) = Len(t) + Len(s5)
      /\ \A i \in 1..Len(t) : u[i] = t[i]
      /\ \A i \in 1..Len(s5) : u[Len(t) + i] = s5[i]
  BY <1>1, Joined
<1> HIDE DEF u
<1>3. /\ r \in Seq(Words) /\ Len(s6) \in Nat /\ Len(r) = Len(u) + Len(s6)
      /\ \A i \in 1..Len(u) : r[i] = u[i]
      /\ \A i \in 1..Len(s6) : r[Len(u) + i] = s6[i]
  <2> DEFINE q == u \o s6
  <2>1. /\ q \in Seq(Words) /\ Len(s6) \in Nat /\ Len(q) = Len(u) + Len(s6)
        /\ \A i \in 1..Len(u) : q[i] = u[i]
        /\ \A i \in 1..Len(s6) : q[Len(u) + i] = s6[i]
    BY <1>2, Joined
  <2> HIDE DEF q
  <2>2. r = q
    BY DEF q
  <2> HIDE DEF r
  <2> QED  BY <2>1, <2>2
<1> HIDE DEF r
<1>4. ASSUME NEW i \in 1..n
      PROVE  r[i] = t[i]
  <2>1. i \in 1..Len(t) /\ i \in 1..Len(u)
    BY <1>1, <1>2
  <2> QED  BY <2>1, <1>2, <1>3
<1>5. /\ \A i \in 1..Len(s1) : i \in 1..n
      /\ \A i \in 1..Len(s2) : Len(s1) + i \in 1..n
      /\ \A i \in 1..Len(s3) : Len(s1) + Len(s2) + i \in 1..n
      /\ \A i \in 1..Len(s4) : Len(s1) + Len(s2) + Len(s3) + i \in 1..n
  BY <1>1
<1>6. \A i \in 1..Len(s5) : r[n + i] = s5[i]
  <2> SUFFICES ASSUME NEW i \in 1..Len(s5) PROVE r[Len(t) + i] = s5[i]
    BY <1>1
  <2>1. Len(t) + i \in 1..Len(u)
    BY <1>1, <1>2
  <2> QED  BY <2>1, <1>2, <1>3
<1>7. Len(u) = n + Len(s5)
  BY <1>1, <1>2
<1>8. /\ \A i \in 1..Len(s1) : r[i] = s1[i]
      /\ \A i \in 1..Len(s2) : r[Len(s1) + i] = s2[i]
      /\ \A i \in 1..Len(s3) : r[Len(s1) + Len(s2) + i] = s3[i]
      /\ \A i \in 1..Len(s4) : r[Len(s1) + Len(s2) + Len(s3) + i] = s4[i]
  BY <1>1, <1>4, <1>5
<1>9. Len(r) = n + Len(s5) + Len(s6) /\ \A i \in 1..Len(s6) : r[n + Len(s5) + i] = s6[i]
  BY <1>3, <1>7
<1> QED
  BY <1>1, <1>2, <1>3, <1>6, <1>8, <1>9 DEF SixIn, r, u, t, n

LEMMA Shifted ==
  ASSUME NEW m \in Nat, NEW p \in Nat, NEW l \in Nat, NEW i \in 1..l
  PROVE  p + i \in 1..(p + l) /\ m + 4 + (p + i) = m + 4 + p + i
  OBVIOUS

MethodsEnd(a) == 2 + Len(a.methods)
AddrBegin(a) == MethodsEnd(a) + 4 + Prefixed(a.atyp)
AddrEnd(a) == AddrBegin(a) + Len(a.addr)

\* Where an application's bytes are in what it writes.
LEMMA ApplicationItems ==
  ASSUME NEW a, Application(a)
  PROVE  LET b == AppBytes(a)
             m == MethodsEnd(a)
         IN  /\ b \in Seq(Words)
             /\ Len(a.methods) \in Nat /\ Len(a.addr) \in Nat /\ Len(a.data) \in Nat
             /\ Len(b) = AddrEnd(a) + 2 + Len(a.data)
             /\ b[1] = a.version /\ b[2] = Len(a.methods)
             /\ \A i \in 1..Len(a.methods) : b[2 + i] = a.methods[i]
             /\ b[m + 1] = a.again /\ b[m + 2] = a.cmd /\ b[m + 4] = a.atyp
             /\ a.atyp = Domain => b[m + 5] = Len(a.addr)
             /\ \A i \in 1..Len(a.addr) : b[AddrBegin(a) + i] = a.addr[i]
             /\ \A i \in 1..2 : b[AddrEnd(a) + i] = a.port[i]
             /\ \A i \in 1..Len(a.data) : b[AddrEnd(a) + 2 + i] = a.data[i]
<1> DEFINE s1 == <<a.version, Len(a.methods)>>
           s2 == a.methods
           s3 == <<a.again, a.cmd, 0, a.atyp>>
           s4 == Sized(a.atyp, a.addr)
           s5 == a.port
           s6 == a.data
           b == AppBytes(a)
           m == MethodsEnd(a)
<1>1. /\ a.version \in Bytes /\ a.again \in Bytes /\ a.cmd \in Bytes /\ a.atyp \in Bytes
      /\ a.methods \in Seq(Bytes) /\ a.addr \in Seq(Bytes)
      /\ a.port \in Seq(Bytes) /\ a.data \in Seq(Bytes)
      /\ Len(a.methods) < Byte /\ Len(a.port) = 2 /\ Fits(a.atyp, a.addr)
  BY DEF Application
<1>2. /\ a.version \in Words /\ a.again \in Words /\ a.cmd \in Words /\ a.atyp \in Words
      /\ s2 \in Seq(Words) /\ s5 \in Seq(Words) /\ s6 \in Seq(Words)
      /\ Len(a.methods) \in Nat /\ Len(a.data) \in Nat
  BY <1>1, ByteIsWord, SeqMonotonic, LenProperties
<1>3. Len(a.methods) \in Words /\ 0 \in Words
  BY <1>1, <1>2, ByteAssumption, WordAssumption DEF Words
<1>4. /\ s1 \in Seq(Words) /\ Len(s1) = 2
      /\ s1[1] = a.version /\ s1[2] = Len(a.methods)
  BY <1>2, <1>3
<1>5. /\ s3 \in Seq(Words) /\ Len(s3) = 4
      /\ s3[1] = a.again /\ s3[2] = a.cmd /\ s3[4] = a.atyp
  BY <1>2, <1>3
<1>6. /\ s4 \in Seq(Words) /\ Len(a.addr) \in Nat
      /\ Len(s4) = Prefixed(a.atyp) + Len(a.addr)
      /\ a.atyp = Domain => s4[1] = Len(a.addr)
      /\ \A i \in 1..Len(a.addr) : s4[Prefixed(a.atyp) + i] = a.addr[i]
  BY <1>1, SizedItems
<1>7. b = s1 \o s2 \o s3 \o s4 \o s5 \o s6
  BY DEF AppBytes
<1> HIDE DEF s1, s2, s3, s4, s5, s6
<1> DEFINE n == Len(s1) + Len(s2) + Len(s3) + Len(s4)
<1>8. /\ b \in Seq(Words)
      /\ Len(b) = n + Len(s5) + Len(s6)
      /\ \A i \in 1..Len(s1) : b[i] = s1[i]
      /\ \A i \in 1..Len(s2) : b[Len(s1) + i] = s2[i]
      /\ \A i \in 1..Len(s3) : b[Len(s1) + Len(s2) + i] = s3[i]
      /\ \A i \in 1..Len(s4) : b[Len(s1) + Len(s2) + Len(s3) + i] = s4[i]
      /\ \A i \in 1..Len(s5) : b[n + i] = s5[i]
      /\ \A i \in 1..Len(s6) : b[n + Len(s5) + i] = s6[i]
  <2>1. s1 \in Seq(Words) /\ s3 \in Seq(Words) /\ s4 \in Seq(Words)
    BY <1>4, <1>5, <1>6
  <2>2. SixIn(s1 \o s2 \o s3 \o s4 \o s5 \o s6, s1, s2, s3, s4, s5, s6)
    BY <1>2, <2>1, SixParts
  <2> HIDE DEF b
  <2>3. SixIn(b, s1, s2, s3, s4, s5, s6)
    BY <1>7, <2>2
  <2> QED  BY <2>3 DEF SixIn
<1> HIDE DEF b
<1>9. /\ Len(s1) = 2 /\ Len(s2) = Len(a.methods) /\ Len(s3) = 4
      /\ Len(s4) = Prefixed(a.atyp) + Len(a.addr) /\ Len(s5) = 2
      /\ Len(s6) = Len(a.data) /\ Prefixed(a.atyp) \in Nat
  BY <1>1, <1>4, <1>5, <1>6 DEF s2, s5, s6, Prefixed
<1>10. /\ m = Len(s1) + Len(s2) /\ AddrBegin(a) = m + 4 + Prefixed(a.atyp)
       /\ AddrEnd(a) = n /\ m \in Nat
  <2>1. m = Len(s1) + Len(s2) /\ m \in Nat
    BY <1>2, <1>9 DEF MethodsEnd
  <2>2. AddrBegin(a) = m + 4 + Prefixed(a.atyp)
    BY DEF AddrBegin
  <2>3. AddrEnd(a) = n
    <3> HIDE DEF m
    <3>1. n = m + 4 + (Prefixed(a.atyp) + Len(a.addr))
      BY <1>9, <2>1
    <3>2. AddrEnd(a) = m + 4 + Prefixed(a.atyp) + Len(a.addr)
      BY <2>2 DEF AddrEnd
    <3>3. Len(a.addr) \in Nat /\ Prefixed(a.atyp) \in Nat
      BY <1>6, <1>9
    <3> HIDE DEF n
    <3> QED  BY <2>1, <3>1, <3>2, <3>3
  <2> QED  BY <2>1, <2>2, <2>3
<1> HIDE DEF n, m
<1>11. b[1] = a.version /\ b[2] = Len(a.methods)
  BY <1>4, <1>8
<1>12. \A i \in 1..Len(a.methods) : b[2 + i] = a.methods[i]
  BY <1>8, <1>9 DEF s2
<1>13. b[m + 1] = a.again /\ b[m + 2] = a.cmd /\ b[m + 4] = a.atyp
  BY <1>5, <1>8, <1>10
<1>14. m + 4 = Len(s1) + Len(s2) + Len(s3)
  BY <1>9, <1>10
<1>15. \A i \in 1..Len(s4) : b[m + 4 + i] = s4[i]
  BY <1>8, <1>14
<1>16. a.atyp = Domain => b[m + 5] = Len(a.addr)
  <2> SUFFICES ASSUME a.atyp = Domain PROVE b[m + 5] = Len(a.addr)
    OBVIOUS
  <2>1. 1 \in 1..Len(s4) /\ m + 4 + 1 = m + 5
    BY <1>6, <1>9, <1>10 DEF Prefixed
  <2> QED  BY <2>1, <1>6, <1>15
<1>17. \A i \in 1..Len(a.addr) : b[AddrBegin(a) + i] = a.addr[i]
  <2> SUFFICES ASSUME NEW i \in 1..Len(a.addr)
               PROVE  b[AddrBegin(a) + i] = a.addr[i]
    OBVIOUS
  <2>1. /\ Prefixed(a.atyp) + i \in 1..Len(s4)
        /\ m + 4 + (Prefixed(a.atyp) + i) = AddrBegin(a) + i
    <3>1. /\ Prefixed(a.atyp) \in Nat /\ Len(a.addr) \in Nat /\ m \in Nat
          /\ Len(s4) = Prefixed(a.atyp) + Len(a.addr)
      BY <1>6, <1>9, <1>10
    <3>2. AddrBegin(a) = m + 4 + Prefixed(a.atyp)
      BY <1>10
    <3> QED  BY <3>1, <3>2, Shifted
  <2> QED  BY <2>1, <1>6, <1>15
<1>18. \A i \in 1..2 : b[AddrEnd(a) + i] = a.port[i]
  BY <1>8, <1>9, <1>10 DEF s5
<1>19. \A i \in 1..Len(a.data) : b[AddrEnd(a) + 2 + i] = a.data[i]
  BY <1>8, <1>9, <1>10 DEF s6
<1>20. Len(b) = AddrEnd(a) + 2 + Len(a.data)
  BY <1>8, <1>9, <1>10
<1> QED
  BY <1>2, <1>6, <1>8, <1>11, <1>12, <1>13, <1>16, <1>17, <1>18, <1>19, <1>20 DEF b, m

ReplyEnd(p) == 6 + Prefixed(p.atyp) + Len(p.bound) + 2

\* Where the fields of a proxy's replies are.
LEMMA ReplyItems ==
  ASSUME NEW p, Proxy(p)
  PROVE  LET b == ReplyBytes(p)
         IN  /\ b \in Seq(Words)
             /\ Len(p.bound) \in Nat /\ Len(b) = ReplyEnd(p)
             /\ b[1] = p.version /\ b[2] = p.method
             /\ b[4] = p.rep /\ b[6] = p.atyp
             /\ p.atyp = Domain => b[7] = Len(p.bound)
<1> DEFINE s1 == <<p.version, p.method>>
           s2 == <<Ver, p.rep, 0, p.atyp>>
           s3 == Sized(p.atyp, p.bound)
           s4 == <<0, 0>>
           b == ReplyBytes(p)
<1>1. /\ p.version \in Bytes /\ p.method \in Bytes /\ p.rep \in Bytes /\ p.atyp \in Bytes
      /\ p.bound \in Seq(Bytes) /\ Fits(p.atyp, p.bound)
  BY DEF Proxy
<1>2. /\ p.version \in Words /\ p.method \in Words /\ p.rep \in Words /\ p.atyp \in Words
      /\ Ver \in Words /\ 0 \in Words
  <2>1. Ver \in Words /\ 0 \in Words
    BY ByteAssumption, WordAssumption DEF Words, Ver
  <2> QED  BY <1>1, <2>1, ByteIsWord
<1>3. s1 \in Seq(Words) /\ Len(s1) = 2 /\ s1[1] = p.version /\ s1[2] = p.method
  BY <1>2
<1>4. s2 \in Seq(Words) /\ Len(s2) = 4 /\ s2[2] = p.rep /\ s2[4] = p.atyp
  BY <1>2
<1>5. /\ s3 \in Seq(Words) /\ Len(p.bound) \in Nat
      /\ Len(s3) = Prefixed(p.atyp) + Len(p.bound)
      /\ p.atyp = Domain => s3[1] = Len(p.bound)
  BY <1>1, SizedItems
<1>6. s4 \in Seq(Words) /\ Len(s4) = 2
  BY <1>2
<1>7. b = s1 \o s2 \o s3 \o s4
  BY DEF ReplyBytes
<1> HIDE DEF s1, s2, s3, s4
<1>8. FourIn(s1 \o s2 \o s3 \o s4, s1, s2, s3, s4)
  BY <1>3, <1>4, <1>5, <1>6, FourParts
<1> HIDE DEF b
<1>9. FourIn(b, s1, s2, s3, s4)
  BY <1>7, <1>8
<1>10. /\ b \in Seq(Words) /\ Len(b) = Len(s1) + Len(s2) + Len(s3) + Len(s4)
       /\ \A i \in 1..Len(s1) : b[i] = s1[i]
       /\ \A i \in 1..Len(s2) : b[Len(s1) + i] = s2[i]
       /\ \A i \in 1..Len(s3) : b[Len(s1) + Len(s2) + i] = s3[i]
  BY <1>9 DEF FourIn
<1>11. b[1] = p.version /\ b[2] = p.method
  BY <1>3, <1>10
<1>12. \A i \in 1..4 : b[2 + i] = s2[i]
  BY <1>3, <1>4, <1>10
<1>13. b[4] = p.rep /\ b[6] = p.atyp
  <2>1. b[2 + 2] = s2[2] /\ b[2 + 4] = s2[4]
    BY <1>12
  <2> QED  BY <2>1, <1>4
<1>14. p.atyp = Domain => b[7] = Len(p.bound)
  <2> SUFFICES ASSUME p.atyp = Domain PROVE b[7] = Len(p.bound)
    OBVIOUS
  <2>1. 1 \in 1..Len(s3)
    BY <1>5 DEF Prefixed
  <2>2. b[Len(s1) + Len(s2) + 1] = s3[1]
    BY <2>1, <1>10
  <2>3. Len(s1) + Len(s2) + 1 = 7
    BY <1>3, <1>4
  <2> QED  BY <2>2, <2>3, <1>5
<1>15. Len(b) = ReplyEnd(p)
  <2>1. Prefixed(p.atyp) \in Nat
    BY DEF Prefixed
  <2>2. Len(b) = 2 + 4 + (Prefixed(p.atyp) + Len(p.bound)) + 2
    BY <1>3, <1>4, <1>5, <1>6, <1>10
  <2> QED  BY <2>1, <2>2, <1>5 DEF ReplyEnd
<1> QED
  BY <1>5, <1>10, <1>11, <1>13, <1>14, <1>15 DEF b

\* An application that the dispatcher connects.
Proper(a) ==
  /\ a.version = Ver /\ a.again = Ver /\ \E i \in 1..Len(a.methods) : a.methods[i] = 0
  /\ a.cmd = Connect /\ a.atyp \in {IPv4, Domain, IPv6}

\* The target of a proper application is host and port, and fits into a SYN.
LEMMA AskedFacts ==
  ASSUME NEW a, Application(a), Proper(a)
  PROVE  /\ Host(a.atyp, a.addr) \in Seq(Bytes)
         /\ Asked(a) \in Seq(Bytes)
         /\ Len(Asked(a)) \in 1..(Byte + 4)
         /\ \E i \in 1..Len(Asked(a)) : Asked(a)[i] = Colon
<1> DEFINE h == Host(a.atyp, a.addr)
           c == <<Colon>>
           g == h \o c
<1>1. /\ a.addr \in Seq(Bytes) /\ a.port \in Seq(Bytes) /\ Len(a.port) = 2
      /\ Fits(a.atyp, a.addr) /\ Len(a.addr) \in Nat
  BY LenProperties DEF Application
<1>2. Len(a.addr) < Byte
  BY <1>1, LengthsAssumption, ByteAssumption DEF Proper, Fits, Bytes, IPv4, IPv6, Domain
<1>3. c \in Seq(Bytes) /\ Len(c) = 1 /\ c[1] = Colon
  BY MagicAssumption
<1>4. h \in Seq(Bytes) /\ Len(h) \in Nat /\ Len(h) < Byte + 2
  <2>1. CASE a.atyp # IPv6
    BY <2>1, <1>1, <1>2, ByteAssumption DEF Host
  <2>2. CASE a.atyp = IPv6
    <3> DEFINE k == <<Bracket>>
               l == k \o a.addr
    <3>1. k \in Seq(Bytes) /\ Len(k) = 1
      BY MagicAssumption
    <3>2. h = l \o k
      BY <2>2 DEF Host
    <3> HIDE DEF k, h
    <3>3. l \in Seq(Bytes) /\ Len(l) = 1 + Len(a.addr)
      <4>1. k \o a.addr \in Seq(Bytes) /\ Len(k \o a.addr) = Len(k) + Len(a.addr)
        BY <1>1, <3>1, ConcatProperties
      <4> QED  BY <4>1, <3>1
    <3> HIDE DEF l
    <3>4. l \o k \in Seq(Bytes) /\ Len(l \o k) = Len(l) + Len(k)
      BY <3>1, <3>3, ConcatProperties
    <3> QED  BY <1>1, <1>2, <3>1, <3>2, <3>3, <3>4, ByteAssumption
  <2> QED  BY <2>1, <2>2
<1> HIDE DEF h, c
<1>5. /\ g \in Seq(Bytes) /\ Len(g) = Len(h) + Len(c)
      /\ \A i \in 1..(Len(h) + Len(c)) :
           g[i] = IF i <= Len(h) THEN h[i] ELSE c[i - Len(h)]
  BY <1>3, <1>4, ConcatProperties
<1>6. g[Len(h) + 1] = Colon
  <2>1. /\ Len(h) + 1 \in 1..(Len(h) + Len(c)) /\ ~(Len(h) + 1 <= Len(h))
        /\ (Len(h) + 1) - Len(h) = 1
    BY <1>3, <1>4
  <2> QED  BY <2>1, <1>3, <1>5
<1>7. Asked(a) = g \o a.port
  BY DEF Asked, h, c
<1> HIDE DEF g
<1>8. /\ g \o a.port \in Seq(Bytes) /\ Len(g \o a.port) = Len(g) + Len(a.port)
      /\ \A i \in 1..(Len(g) + Len(a.port)) :
           (g \o a.port)[i] = IF i <= Len(g) THEN g[i] ELSE a.port[i - Len(g)]
  <2>1. g \in Seq(Bytes) /\ a.port \in Seq(Bytes)
    BY <1>1, <1>5
  <2> QED  BY ONLY <2>1, ConcatProperties
<1>9. Len(g) = Len(h) + 1
  BY <1>3, <1>5
<1>10. /\ Asked(a) \in Seq(Bytes) /\ Len(Asked(a)) = Len(h) + 3
       /\ Asked(a)[Len(h) + 1] = Colon
  <2>1. Len(h) + 1 \in 1..(Len(g) + Len(a.port)) /\ Len(h) + 1 <= Len(g)
    BY <1>1, <1>4, <1>9
  <2>2. (g \o a.port)[Len(h) + 1] = g[Len(h) + 1]
    BY <2>1, <1>8
  <2> QED  BY <2>2, <1>1, <1>4, <1>6, <1>7, <1>8, <1>9
<1> QED
  BY <1>4, <1>10, ByteAssumption DEF h

\* DecodeTarget undoes EncodeTarget for every target that host and port make.
THEOREM TargetReadsBack ==
  ASSUME NEW t \in Seq(Bytes), Len(t) \in 1..(Byte + 4),
         \E i \in 1..Len(t) : t[i] = Colon
  PROVE  /\ EncodeTarget(t) \in Seq(Bytes)
         /\ Len(EncodeTarget(t)) < Byte * Byte
         /\ DecodeTarget(EncodeTarget(t)) = t
<1> DEFINE u == U16(Len(t))
           p == EncodeTarget(t)
           n == FromU16(p[1], p[2])
<1>1. Byte * Byte >= 10 * Byte /\ Len(t) < Byte * Byte /\ Len(t) + 2 < Byte * Byte
      /\ Len(t) \in Nat
  BY ByteAssumption
<1>2. u \in Seq(Bytes) /\ Len(u) = 2 /\ FromU16(u[1], u[2]) = Len(t)
  BY <1>1, LengthBytes
<1>3. p = u \o t
  BY DEF EncodeTarget
<1> HIDE DEF u, p
<1>4. /\ u \o t \in Seq(Bytes) /\ Len(u \o t) = Len(u) + Len(t)
      /\ \A i \in 1..(Len(u) + Len(t)) :
           (u \o t)[i] = IF i <= Len(u) THEN u[i] ELSE t[i - Len(u)]
  BY <1>2, ConcatProperties
<1>5. /\ p \in Seq(Bytes) /\ Len(p) = 2 + Len(t)
      /\ \A i \in 1..(2 + Len(t)) : p[i] = IF i <= 2 THEN u[i] ELSE t[i - 2]
  BY <1>2, <1>3, <1>4
<1>6. p[1] = u[1] /\ p[2] = u[2] /\ \A i \in 1..Len(t) : p[2 + i] = t[i]
  <2>1. p[1] = u[1] /\ p[2] = u[2]
    BY <1>5, <1>1
  <2>2. ASSUME NEW i \in 1..Len(t) PROVE p[2 + i] = t[i]
    <3>1. 2 + i \in 1..(2 + Len(t)) /\ ~(2 + i <= 2) /\ (2 + i) - 2 = i
      BY <1>1
    <3> QED  BY <3>1, <1>5
  <2> QED  BY <2>1, <2>2
<1>7. n = Len(t)
  BY <1>2, <1>6
<1> HIDE DEF n
<1>8. SubSeq(p, 3, 2 + n) = t
  <2> DEFINE w == SubSeq(p, 3, 2 + n)
  <2>1. \A i \in 3..(2 + n) : p[i] \in Bytes
    <3> SUFFICES ASSUME NEW i \in 3..(2 + n) PROVE p[i] \in Bytes
      OBVIOUS
    <3>1. i \in 1..Len(p)
      BY <1>1, <1>5, <1>7
    <3> QED  BY <3>1, <1>5, ElementOfSeq
  <2>2. 3 \in Int /\ 2 + n \in Int
    BY <1>1, <1>7
  <2>3. /\ w \in Seq(Bytes)
        /\ Len(w) = IF 3 <= 2 + n THEN (2 + n) - 3 + 1 ELSE 0
        /\ \A i \in 1..((2 + n) - 3 + 1) : w[i] = p[3 + i - 1]
    BY <2>1, <2>2, SubSeqProperties
  <2> HIDE DEF w
  <2>4. Len(w) = Len(t)
    <3>1. 3 <= 2 + n /\ (2 + n) - 3 + 1 = Len(t)
      BY <1>1, <1>7
    <3> QED  BY <3>1, <2>3
  <2>5. ASSUME NEW i \in 1..Len(t) PROVE w[i] = t[i]
    <3>1. i \in 1..((2 + n) - 3 + 1) /\ 3 + i - 1 = 2 + i
      BY <1>1, <1>7
    <3> QED  BY <3>1, <2>3, <1>6
  <2>6. w = t
    BY <2>3, <2>4, <2>5, SeqEqual
  <2> QED  BY <2>6 DEF w
<1>9. DecodeTarget(p) = t
  <2>1. /\ Len(p) >= 2 /\ n > 0 /\ Len(p) >= 2 + n
        /\ \E i \in 1..n : SubSeq(p, 3, 2 + n)[i] = Colon
    BY <1>1, <1>5, <1>7, <1>8
  <2> QED  BY <2>1, <1>8 DEF DecodeTarget, n
<1> QED
  BY <1>1, <1>5, <1>9 DEF p

-----------------------------------------------------------------------------
(* The inductive invariant *)

\* What socks5ServerHandshake has read, and what that says of the application;
\* from its end on runOutbound has taken the data up to the next offset.
HandAt ==
  /\ server.at = "version" => local.taken = 0 /\ server.need = 2
  /\ server.at = "methods" =>
       /\ app.version = Ver /\ Len(app.methods) > 0
       /\ local.taken = 2 /\ server.need = Len(app.methods)
  /\ server.at = "request" =>
       /\ app.version = Ver /\ NoAuth(app.methods)
       /\ local.taken = MethodsEnd(app) /\ server.need = 4
  /\ server.at = "length" =>
       /\ Proper(app) /\ app.atyp = Domain
       /\ local.taken = MethodsEnd(app) + 4 /\ server.need = 1
  /\ server.at = "address" =>
       /\ Proper(app)
       /\ local.taken = AddrBegin(app) /\ server.need = Len(app.addr)
  /\ server.at = "port" =>
       /\ Proper(app) /\ server.host = Host(app.atyp, app.addr)
       /\ local.taken = AddrEnd(app) /\ server.need = 2
  /\ server.at = "done" =>
       /\ Proper(app) /\ target = Asked(app)
       /\ local.taken = AddrEnd(app) + 2 + next
  /\ server.at = "closed" => ~Proper(app) \/ local.eof

HandStates ==
  {"version", "methods", "request", "length", "address", "port", "done", "closed"}

HandInv ==
  /\ Application(app) /\ Proxy(proxy)
  /\ Sound(local) /\ local.bytes = AppBytes(app)
  /\ server \in [at : HandStates, need : Nat, host : Seq(Bytes)]
  /\ next \in Nat /\ out \in {"none", "syn", "read", "done"}
  /\ out = "none" <=> server.at # "done"
  /\ HandAt

\* The application's bytes that frames carry.
Carried(frames) ==
  IF Len(frames) = 1 THEN 0
  ELSE frames[Len(frames)].seq + Len(frames[Len(frames)].payload)

SentInv ==
  /\ out \in {"none", "syn"} => sent = <<>> /\ next = 0
  /\ sent # <<>> =>
       sent[1].flag = SYN /\ sent[1].payload = EncodeTarget(Asked(app))
  /\ \A i \in 2..Len(sent) : CarriesNext(app.data, sent, i)
  /\ out = "read" => sent # <<>> /\ next = Carried(sent)

UpInv ==
  /\ Sound(up)
  /\ Legal(sent) /\ Legal(received)
  /\ InStep(up.bytes, 0, sent, received, up.taken)

\* What dialSOCKS5 has read.
DialAt ==
  /\ dial.at = "proxy" => down.taken = 0
  /\ dial.at = "method" => down.taken = 0 /\ dial.need = 2
  /\ dial.at = "reply" => down.taken = 2 /\ dial.need = 4
  /\ dial.at = "length" => proxy.atyp = Domain /\ down.taken = 6 /\ dial.need = 1
  /\ dial.at = "drain" => down.taken + dial.need = ReplyEnd(proxy)

DialStates ==
  {"proxy", "method", "reply", "length", "drain", "open", "dead", "failed"}

\* The frames begin where the proxy's replies end, and there readLoop begins,
\* unless the drain failed.
Reading ==
  \/ expired
  \/ down.eof /\ down.taken = down.arrived /\ got = <<>>
  \/ /\ Legal(got)
     /\ InStep(down.bytes, ReplyEnd(proxy), replies, got, down.taken)

DownInv ==
  /\ Sound(down) /\ Proxy(proxy) /\ Legal(replies)
  /\ dial \in [at : DialStates, need : Nat] /\ expired \in BOOLEAN
  /\ Len(down.bytes) >= ReplyEnd(proxy)
  /\ \A i \in 1..ReplyEnd(proxy) : down.bytes[i] = ReplyBytes(proxy)[i]
  /\ DialAt
  /\ dial.at \notin {"open", "dead"} =>
       /\ got = <<>>
       /\ InStep(down.bytes, ReplyEnd(proxy), replies, <<>>, ReplyEnd(proxy))
  /\ dial.at \in {"open", "dead"} => Reading
  /\ CleanStart

IInv == HandInv /\ SentInv /\ UpInv /\ DownInv

-----------------------------------------------------------------------------
(* socks5ServerHandshake *)

LEMMA ScriptsFacts ==
  ASSUME Init
  PROVE  Application(app) /\ Proxy(proxy)
  BY ScriptsAssumption DEF Init

LEMMA HandInit ==
  ASSUME Init
  PROVE  HandInv
<1>1. Application(app) /\ Proxy(proxy)
  BY ScriptsFacts
<1>2. AppBytes(app) \in Seq(Words)
  BY <1>1, ApplicationItems
<1>3. Sound(local) /\ local.bytes = AppBytes(app) /\ local.taken = 0
  BY <1>2, NewPipe DEF Init
<1>4. server \in [at : HandStates, need : Nat, host : Seq(Bytes)]
  BY DEF Init, HandStates
<1> QED
  BY <1>1, <1>3, <1>4 DEF Init, HandInv, HandAt

\* A read of the handshake takes what it needs and no more.
LEMMA HandReads ==
  ASSUME HandInv, NEW at, ServerReads(at)
  PROVE  /\ server.at = at
         /\ Sound(local') /\ local'.bytes = local.bytes
         /\ local'.eof = local.eof
         /\ local'.taken = local.taken + server.need
         /\ local.taken \in Nat /\ server.need \in Nat
         /\ \A i \in 1..server.need : Wanted[i] = AppBytes(app)[local.taken + i]
<1>1. Sound(local) /\ server.need \in Nat /\ Has(local, server.need)
  BY DEF HandInv, ServerReads
<1>2. local.taken \in Nat
  BY <1>1 DEF Sound, Connection
<1>3. \A i \in 1..server.need : Wanted[i] = local.bytes[local.taken + i]
  BY <1>1, Slice DEF Wanted
<1>4. local' = Took(local, server.need) /\ server.at = at
  BY DEF ServerReads
<1> QED
  BY <1>1, <1>2, <1>3, <1>4, SoundTook DEF HandInv

\* A read of the items of s gives s.
LEMMA HandReadsAll ==
  ASSUME HandInv, NEW at, ServerReads(at),
         NEW s \in Seq(Bytes), server.need = Len(s),
         \A i \in 1..Len(s) : AppBytes(app)[local.taken + i] = s[i]
  PROVE  Wanted = s
<1>1. Sound(local) /\ Has(local, Len(s)) /\ s \in Seq(Words)
  BY ByteIsWord, SeqMonotonic DEF HandInv, ServerReads
<1>2. \A i \in 1..Len(s) : local.bytes[local.taken + i] = s[i]
  BY DEF HandInv
<1>3. SubSeq(local.bytes, local.taken + 1, local.taken + Len(s)) = s
  BY <1>1, <1>2, SliceIs
<1> QED
  BY <1>3 DEF Wanted

\* The version and the number of methods,
LEMMA HeardVersion ==
  ASSUME HandInv, ServerReads("version")
  PROVE  /\ server.at = "version" /\ local.taken = 0 /\ server.need = 2
         /\ Wanted[1] = app.version /\ Wanted[2] = Len(app.methods)
<1>1. server.at = "version" /\ local.taken = 0 /\ server.need = 2
  BY HandReads DEF HandInv, HandAt
<1>2. \A i \in 1..2 : 0 + i = i
  OBVIOUS
<1>3. \A i \in 1..2 : Wanted[i] = AppBytes(app)[i]
  BY <1>1, <1>2, HandReads
<1>4. /\ AppBytes(app)[1] = app.version
      /\ AppBytes(app)[2] = Len(app.methods)
  BY ApplicationItems DEF HandInv
<1> QED
  BY <1>1, <1>3, <1>4

\* the methods,
LEMMA HeardMethods ==
  ASSUME HandInv, ServerReads("methods")
  PROVE  /\ server.at = "methods" /\ app.version = Ver /\ Len(app.methods) > 0
         /\ local.taken = 2 /\ server.need = Len(app.methods)
         /\ Wanted = app.methods
<1>1. /\ server.at = "methods" /\ app.version = Ver /\ Len(app.methods) > 0
      /\ local.taken = 2 /\ server.need = Len(app.methods)
  BY HandReads DEF HandInv, HandAt
<1>2. /\ app.methods \in Seq(Bytes)
      /\ \A i \in 1..Len(app.methods) : AppBytes(app)[2 + i] = app.methods[i]
  BY ApplicationItems DEF HandInv, Application
<1> QED
  BY <1>1, <1>2, HandReadsAll

\* and the version, the command and the type of address of the request.
LEMMA HeardRequest ==
  ASSUME HandInv, ServerReads("request")
  PROVE  /\ server.at = "request" /\ app.version = Ver /\ NoAuth(app.methods)
         /\ local.taken = MethodsEnd(app) /\ server.need = 4
         /\ Wanted[1] = app.again /\ Wanted[2] = app.cmd /\ Wanted[4] = app.atyp
<1> DEFINE b == AppBytes(app)
           m == MethodsEnd(app)
<1>1. /\ server.at = "request" /\ app.version = Ver /\ NoAuth(app.methods)
      /\ local.taken = m /\ server.need = 4
  BY HandReads DEF HandInv, HandAt
<1>2. \A i \in 1..4 : Wanted[i] = b[m + i]
  BY <1>1, HandReads
<1>3. b[m + 1] = app.again /\ b[m + 2] = app.cmd /\ b[m + 4] = app.atyp
  BY ApplicationItems DEF HandInv
<1> HIDE DEF b
<1> QED
  BY <1>1, <1>2, <1>3

\* The handshake goes on to a point, or is over without an answer to the request.
LEMMA HandGoes ==
  ASSUME HandInv, server.at # "done", Sound(local'), local'.bytes = local.bytes,
         NEW at \in HandStates \ {"done"}, NEW need \in Nat, NEW reply,
         Goes(at, need, reply),
         server'.at = at /\ server'.need = need /\ server'.host = server.host
           /\ app' = app => HandAt'
  PROVE  HandInv'
<1>1. /\ server' = [server EXCEPT !.at = at, !.need = need]
      /\ app' = app /\ proxy' = proxy /\ target' = target
      /\ out' = out /\ next' = next
  BY DEF Goes, scripts, stream
<1>2. /\ server' \in [at : HandStates, need : Nat, host : Seq(Bytes)]
      /\ server'.at = at /\ server'.need = need /\ server'.host = server.host
  BY <1>1 DEF HandInv
<1>3. HandAt'
  BY <1>1, <1>2
<1>4. out' = "none" <=> server'.at # "done"
  BY <1>1, <1>2 DEF HandInv
<1> QED
  BY <1>1, <1>2, <1>3, <1>4 DEF HandInv

LEMMA HandRefused ==
  ASSUME HandInv, server.at # "done", Sound(local'), local'.bytes = local.bytes,
         NEW reply, Refuse(reply), ~Proper(app) \/ local'.eof
  PROVE  HandInv'
<1>1. "closed" \in HandStates \ {"done"} /\ 0 \in Nat
  BY DEF HandStates
<1>2. Goes("closed", 0, reply)
  BY DEF Refuse
<1>3. ASSUME server'.at = "closed", app' = app
      PROVE  HandAt'
  BY <1>3 DEF HandAt
<1> QED
  BY <1>1, <1>2, <1>3, HandGoes

LEMMA HandVersion ==
  ASSUME HandInv, ReadVersion
  PROVE  HandInv'
<1>1. ServerReads("version")
  BY DEF ReadVersion
<1>2. /\ server.at = "version" /\ local.taken = 0 /\ server.need = 2
      /\ Sound(local') /\ local'.bytes = local.bytes
      /\ local'.taken = 2
  BY <1>1, HeardVersion, HandReads
<1>3. Len(app.methods) \in Nat
  BY ApplicationItems DEF HandInv
<1>4. Wanted[1] = app.version /\ Wanted[2] = Len(app.methods)
  BY <1>1, HeardVersion
<1>5. CASE Wanted[1] = Ver /\ Wanted[2] > 0
  <2>1. Goes("methods", Len(app.methods), <<>>)
    BY <1>4, <1>5 DEF ReadVersion
  <2>2. "methods" \in HandStates \ {"done"}
    BY DEF HandStates
  <2>3. ASSUME server'.at = "methods", server'.need = Len(app.methods), app' = app
        PROVE  HandAt'
    BY <1>2, <1>4, <1>5, <2>3 DEF HandAt
  <2> QED
    BY <1>2, <1>3, <2>1, <2>2, <2>3, HandGoes
<1>6. CASE ~(Wanted[1] = Ver /\ Wanted[2] > 0)
  <2>1. Refuse(<<>>)
    BY <1>6 DEF ReadVersion
  <2>2. ~Proper(app)
    <3> SUFFICES ASSUME Proper(app) PROVE FALSE
      OBVIOUS
    <3>1. app.version = Ver /\ Len(app.methods) > 0
      BY <1>3 DEF Proper
    <3> QED  BY <3>1, <1>4, <1>6
  <2> QED
    BY <1>2, <2>1, <2>2, HandRefused
<1> QED
  BY <1>5, <1>6

LEMMA HandMethods ==
  ASSUME HandInv, ReadMethods
  PROVE  HandInv'
<1>1. ServerReads("methods")
  BY DEF ReadMethods
<1>2. /\ server.at = "methods" /\ app.version = Ver
      /\ local.taken = 2 /\ server.need = Len(app.methods)
      /\ Sound(local') /\ local'.bytes = local.bytes /\ local'.eof = local.eof
      /\ local'.taken = MethodsEnd(app)
  BY <1>1, HeardMethods, HandReads DEF MethodsEnd
<1>3. app.methods \in Seq(Bytes)
  BY DEF HandInv, Application
<1>4. Wanted = app.methods
  BY <1>1, HeardMethods
<1>5. CASE NoAuth(app.methods) /\ Goes("request", 4, <<"no auth">>)
  <2>1. "request" \in HandStates \ {"done"} /\ 4 \in Nat
    BY DEF HandStates
  <2>2. ASSUME server'.at = "request", server'.need = 4, app' = app
        PROVE  HandAt'
    BY <1>2, <1>5, <2>2 DEF HandAt
  <2> QED
    BY <1>2, <1>5, <2>1, <2>2, HandGoes
<1>6. CASE local.eof /\ Refuse(<<>>)
  BY <1>2, <1>6, HandRefused
<1>7. CASE ~NoAuth(app.methods) /\ Refuse(<<"no method">>)
  <2>1. ~Proper(app)
    BY <1>7 DEF Proper, NoAuth
  <2> QED
    BY <1>2, <1>7, <2>1, HandRefused
<1> QED
  BY <1>4, <1>5, <1>6, <1>7 DEF ReadMethods

LEMMA HandRequest ==
  ASSUME HandInv, ReadRequest
  PROVE  HandInv'
<1> DEFINE m == MethodsEnd(app)
<1>1. ServerReads("request")
  BY DEF ReadRequest
<1>2. /\ server.at = "request" /\ app.version = Ver /\ NoAuth(app.methods)
      /\ local.taken = m /\ server.need = 4
  BY <1>1, HeardRequest
<1>3. /\ Sound(local') /\ local'.bytes = local.bytes
      /\ local'.taken = m + 4
  BY <1>1, <1>2, HandReads
<1>4. /\ Len(app.addr) \in Nat /\ Len(app.methods) \in Nat
      /\ Fits(app.atyp, app.addr)
  BY ApplicationItems DEF HandInv, Application
<1>5. Wanted[1] = app.again /\ Wanted[2] = app.cmd /\ Wanted[4] = app.atyp
  BY <1>1, HeardRequest
<1> HIDE DEF m
<1>6. ASSUME NEW reply, Refuse(reply), ~Proper(app)
      PROVE  HandInv'
  BY <1>2, <1>3, <1>6, HandRefused
<1>7. CASE app.again # Ver \/ app.cmd # Connect
  <2>1. \E reply : Refuse(reply)
    BY <1>5, <1>7 DEF ReadRequest
  <2> QED  BY <1>6, <1>7, <2>1 DEF Proper
<1>8. CASE app.again = Ver /\ app.cmd = Connect /\ app.atyp \notin {IPv4, Domain, IPv6}
  <2>1. Refuse(<<"no type">>)
    BY <1>5, <1>8 DEF ReadRequest
  <2> QED  BY <1>6, <1>8, <2>1 DEF Proper
<1>9. CASE app.again = Ver /\ app.cmd = Connect /\ app.atyp \in {IPv4, IPv6}
  <2>1. Proper(app)
    BY <1>2, <1>9 DEF Proper, NoAuth
  <2>2. Goes("address", Len(app.addr), <<>>)
    <3>1. CASE app.atyp = IPv4
      <4>1. Goes("address", IPv4Len, <<>>)
        BY <1>5, <1>9, <3>1 DEF ReadRequest, IPv4, IPv6, Domain
      <4> QED  BY <1>4, <3>1, <4>1 DEF Fits
    <3>2. CASE app.atyp = IPv6
      <4>1. Goes("address", IPv6Len, <<>>)
        BY <1>5, <1>9, <3>2 DEF ReadRequest, IPv4, IPv6, Domain
      <4> QED  BY <1>4, <3>2, <4>1 DEF Fits
    <3> QED  BY <1>9, <3>1, <3>2
  <2>3. AddrBegin(app) = m + 4
    <3>1. Prefixed(app.atyp) = 0
      BY <1>9 DEF Prefixed, IPv4, IPv6, Domain
    <3>2. m \in Nat
      BY <1>4 DEF m, MethodsEnd
    <3>3. AddrBegin(app) = m + 4 + Prefixed(app.atyp)
      BY DEF AddrBegin, m
    <3> QED  BY <3>1, <3>2, <3>3
  <2>4. "address" \in HandStates \ {"done"}
    BY DEF HandStates
  <2>5. ASSUME server'.at = "address", server'.need = Len(app.addr), app' = app
        PROVE  HandAt'
    BY <1>3, <2>1, <2>3, <2>5 DEF HandAt
  <2> QED
    BY <1>2, <1>3, <1>4, <2>2, <2>4, <2>5, HandGoes
<1>10. CASE app.again = Ver /\ app.cmd = Connect /\ app.atyp = Domain
  <2>1. Proper(app)
    BY <1>2, <1>10 DEF Proper, NoAuth
  <2>2. Goes("length", 1, <<>>)
    BY <1>5, <1>10 DEF ReadRequest, IPv4, IPv6, Domain
  <2>4. "length" \in HandStates \ {"done"} /\ 1 \in Nat
    BY DEF HandStates
  <2>5. ASSUME server'.at = "length", server'.need = 1, app' = app
        PROVE  HandAt'
    BY <1>3, <1>10, <2>1, <2>5 DEF HandAt, m
  <2> QED
    BY <1>2, <1>3, <2>2, <2>4, <2>5, HandGoes
<1> QED
  BY <1>7, <1>8, <1>9, <1>10

LEMMA HandLength ==
  ASSUME HandInv, ReadLength
  PROVE  HandInv'
<1>1. ServerReads("length")
  BY DEF ReadLength
<1>2. /\ server.at = "length" /\ Proper(app) /\ app.atyp = Domain
      /\ local.taken = MethodsEnd(app) + 4 /\ server.need = 1
  BY <1>1, HandReads DEF HandInv, HandAt
<1>3. /\ Sound(local') /\ local'.bytes = local.bytes
      /\ local'.taken = MethodsEnd(app) + 4 + 1
      /\ \A i \in 1..1 : Wanted[i] = AppBytes(app)[MethodsEnd(app) + 4 + i]
  BY <1>1, <1>2, HandReads
<1>4. /\ AppBytes(app)[MethodsEnd(app) + 5] = Len(app.addr)
      /\ Len(app.addr) \in Nat /\ Len(app.methods) \in Nat
  BY <1>2, ApplicationItems DEF HandInv
<1>5. Wanted[1] = Len(app.addr)
  <2>1. MethodsEnd(app) + 4 + 1 = MethodsEnd(app) + 5
    BY <1>4 DEF MethodsEnd
  <2> QED  BY <1>3, <1>4, <2>1
<1>6. AddrBegin(app) = MethodsEnd(app) + 4 + 1
  BY <1>2 DEF AddrBegin, Prefixed
<1>7. Goes("address", Len(app.addr), <<>>)
  BY <1>5 DEF ReadLength
<1>8. "address" \in HandStates \ {"done"}
  BY DEF HandStates
<1>9. ASSUME server'.at = "address", server'.need = Len(app.addr), app' = app
      PROVE  HandAt'
  BY <1>2, <1>3, <1>6, <1>9 DEF HandAt
<1> QED
  BY <1>2, <1>3, <1>4, <1>7, <1>8, <1>9, HandGoes

LEMMA HandAddress ==
  ASSUME HandInv, ReadAddress
  PROVE  HandInv'
<1>1. ServerReads("address")
  BY DEF ReadAddress
<1>2. /\ server.at = "address" /\ Proper(app)
      /\ local.taken = AddrBegin(app) /\ server.need = Len(app.addr)
  BY <1>1, HandReads DEF HandInv, HandAt
<1>3. /\ Sound(local') /\ local'.bytes = local.bytes
      /\ local'.taken = AddrEnd(app)
  BY <1>1, <1>2, HandReads DEF AddrEnd
<1>4. /\ app.addr \in Seq(Bytes)
      /\ \A i \in 1..Len(app.addr) : AppBytes(app)[AddrBegin(app) + i] = app.addr[i]
  BY ApplicationItems DEF HandInv, Application
<1>5. Wanted = app.addr
  BY <1>1, <1>2, <1>4, HandReadsAll
<1>6. /\ server' = [at |-> "port", need |-> 2, host |-> Host(app.atyp, app.addr)]
      /\ app' = app /\ proxy' = proxy /\ target' = target
      /\ out' = out /\ next' = next
  BY <1>5 DEF ReadAddress, scripts, stream
<1>7. Host(app.atyp, app.addr) \in Seq(Bytes)
  BY <1>2, AskedFacts DEF HandInv
<1>8. server' \in [at : HandStates, need : Nat, host : Seq(Bytes)]
  BY <1>6, <1>7 DEF HandStates
<1>9. HandAt'
  BY <1>2, <1>3, <1>6 DEF HandAt
<1>10. out' = "none" <=> server'.at # "done"
  BY <1>2, <1>6 DEF HandInv
<1> QED
  BY <1>3, <1>6, <1>8, <1>9, <1>10 DEF HandInv

LEMMA HandPort ==
  ASSUME HandInv, SentInv, ReadPort
  PROVE  HandInv'
<1>1. ServerReads("port")
  BY DEF ReadPort
<1>2. /\ server.at = "port" /\ Proper(app) /\ server.host = Host(app.atyp, app.addr)
      /\ local.taken = AddrEnd(app) /\ server.need = 2
  BY <1>1, HandReads DEF HandInv, HandAt
<1>3. /\ Sound(local') /\ local'.bytes = local.bytes
      /\ local'.taken = AddrEnd(app) + 2
  BY <1>1, <1>2, HandReads
<1>4. /\ app.port \in Seq(Bytes) /\ Len(app.port) = 2
      /\ \A i \in 1..2 : AppBytes(app)[AddrEnd(app) + i] = app.port[i]
      /\ Len(app.addr) \in Nat /\ Len(app.methods) \in Nat
  BY ApplicationItems DEF HandInv, Application
<1>5. Wanted = app.port
  BY <1>1, <1>2, <1>4, HandReadsAll
<1>6. /\ server' = [server EXCEPT !.at = "done", !.need = 0]
      /\ target' = Asked(app) /\ out' = "syn"
      /\ app' = app /\ proxy' = proxy /\ next' = next
  BY <1>2, <1>5 DEF ReadPort, scripts, Asked
<1>7. /\ server' \in [at : HandStates, need : Nat, host : Seq(Bytes)]
      /\ server'.at = "done"
  BY <1>6 DEF HandInv, HandStates
<1>8. next = 0
  <2>1. out = "none"
    BY <1>2 DEF HandInv
  <2> QED  BY <2>1 DEF SentInv
<1>9. AddrEnd(app) + 2 = AddrEnd(app) + 2 + next
  <2>1. Prefixed(app.atyp) \in Nat
    BY DEF Prefixed
  <2>2. AddrEnd(app) \in Nat
    BY <1>4, <2>1 DEF AddrEnd, AddrBegin, MethodsEnd
  <2> QED  BY <1>8, <2>2
<1>10. HandAt'
  BY <1>2, <1>3, <1>6, <1>7, <1>9 DEF HandAt
<1> QED
  BY <1>3, <1>6, <1>7, <1>10 DEF HandInv

LEMMA HandFails ==
  ASSUME HandInv, HandshakeFails
  PROVE  HandInv'
<1>1. server.at # "done" /\ local' = local /\ local.eof /\ Refuse(<<>>)
  BY DEF HandshakeFails, Short
<1> QED
  BY <1>1, HandRefused DEF HandInv

\* The application writes, or leaves.
LEMMA HandHears ==
  ASSUME HandInv, AppSends
  PROVE  HandInv'
<1>1. /\ app' = app /\ proxy' = proxy /\ server' = server /\ target' = target
      /\ out' = out /\ next' = next
  BY DEF AppSends, scripts, stream
<1>2. /\ Sound(local') /\ local'.bytes = local.bytes /\ local'.taken = local.taken
      /\ local.eof => local'.eof
  <2>1. Sound(local)
    BY DEF HandInv
  <2>2. CASE Arrives(local, Len(local.bytes))
    <3>1. local.arrived < Len(local.bytes) /\ local' = [local EXCEPT !.arrived = @ + 1]
      BY <2>2 DEF Arrives
    <3> QED  BY <2>1, <3>1, SoundArrived
  <2>3. CASE Ends(local)
    <3>1. local' = [local EXCEPT !.eof = TRUE]
      BY <2>3 DEF Ends
    <3> QED  BY <2>1, <3>1, SoundEnded
  <2> QED  BY <2>2, <2>3 DEF AppSends
<1>3. HandAt'
  BY <1>1, <1>2 DEF HandInv, HandAt
<1> QED
  BY <1>1, <1>2, <1>3 DEF HandInv

LEMMA HandStep ==
  ASSUME HandInv, SentInv, ServerStep
  PROVE  HandInv'
  BY HandVersion, HandMethods, HandRequest, HandLength, HandAddress, HandPort,
     HandFails
  DEF ServerStep

LEMMA HandKept ==
  ASSUME HandInv, UNCHANGED <<scripts, socks, stream>>
  PROVE  HandInv'
<1>1. /\ app' = app /\ proxy' = proxy /\ local' = local /\ server' = server
      /\ target' = target /\ out' = out /\ next' = next
  BY DEF scripts, socks, stream
<1>2. HandAt'
  BY <1>1 DEF HandInv, HandAt
<1> QED
  BY <1>1, <1>2 DEF HandInv

-----------------------------------------------------------------------------
(* What the application is told *)

\* Up to where the handshake has come, and at its end all that is due, unless the
\* application has left.
ToldInv ==
  /\ server.at \in {"version", "methods"} => told = <<>>
  /\ server.at \in {"request", "length", "address", "port"} => told = <<"no auth">>
  /\ server.at = "done" => told = <<"no auth", "connected">>
  /\ server.at = "closed" =>
       \/ told = Due(app) /\ ~Proper(app)
       \/ local.eof /\ told = <<>>
       \/ local.eof /\ told = <<"no auth">> /\ DueMethod(app) = <<"no auth">>

\* What is due first, by what the application says.
LEMMA MethodDue ==
  ASSUME Application(app)
  PROVE  /\ app.version # Ver \/ Len(app.methods) = 0 => DueMethod(app) = <<>>
         /\ app.version = Ver /\ Len(app.methods) > 0 /\ ~NoAuth(app.methods) =>
              DueMethod(app) = <<"no method">>
         /\ app.version = Ver /\ NoAuth(app.methods) <=>
              DueMethod(app) = <<"no auth">>
<1>1. app.methods \in Seq(Bytes)
  BY DEF Application
<1>2. app.methods = <<>> <=> Len(app.methods) = 0
  BY <1>1
<1>3. NoAuth(app.methods) => app.methods # <<>>
  BY <1>1 DEF NoAuth
<1>4. <<>> # <<"no auth">> /\ <<"no method">> # <<"no auth">>
  OBVIOUS
<1>5. CASE app.version # Ver \/ app.methods = <<>>
  <2>1. DueMethod(app) = <<>>
    BY <1>5 DEF DueMethod
  <2>2. ~(app.version = Ver /\ Len(app.methods) > 0)
    <3>1. ~(0 > 0)
      OBVIOUS
    <3> QED  BY <1>2, <1>5, <3>1
  <2>3. ~(app.version = Ver /\ NoAuth(app.methods))
    BY <1>3, <1>5
  <2> QED  BY <2>1, <2>2, <2>3, <1>4
<1>6. CASE app.version = Ver /\ app.methods # <<>> /\ NoAuth(app.methods)
  BY <1>2, <1>4, <1>6 DEF DueMethod, NoAuth
<1>7. CASE app.version = Ver /\ app.methods # <<>> /\ ~NoAuth(app.methods)
  BY <1>2, <1>4, <1>7 DEF DueMethod, NoAuth
<1> QED
  BY <1>5, <1>6, <1>7

\* All that is due is "connected" to a proper application, and to no other.
LEMMA AllDue ==
  ASSUME Application(app)
  PROVE  /\ DueMethod(app) # <<"no auth">> => Due(app) = DueMethod(app)
         /\ DueMethod(app) = <<"no auth">> => Due(app) = <<"no auth">> \o DueAnswer(app)
         /\ DueAnswer(app) \in
              {<<>>, <<"no command">>, <<"no type">>, <<"connected">>}
         /\ Proper(app) <=>
              DueMethod(app) = <<"no auth">> /\ DueAnswer(app) = <<"connected">>
<1>1. DueAnswer(app) \in {<<>>, <<"no command">>, <<"no type">>, <<"connected">>}
  BY DEF DueAnswer
<1>2. DueAnswer(app) = <<"connected">> <=>
        app.again = Ver /\ app.cmd = Connect /\ app.atyp \in {IPv4, Domain, IPv6}
  <2>1. /\ <<>> # <<"connected">> /\ <<"no command">> # <<"connected">>
        /\ <<"no type">> # <<"connected">>
    OBVIOUS
  <2> QED  BY <2>1 DEF DueAnswer
<1> QED
  BY <1>1, <1>2, MethodDue DEF Due, Proper, NoAuth

LEMMA ToldInit ==
  ASSUME Init
  PROVE  ToldInv
  BY DEF Init, ToldInv

\* Two replies, one after the other.
LEMMA TwoReplies ==
  ASSUME NEW a, NEW b
  PROVE  /\ Append(<<a>>, b) = <<a, b>>
         /\ <<a>> \o <<b>> = <<a, b>>
         /\ IsPrefix(<<a>>, <<a, b>>)
         /\ <<a, b>>[2] = b
<1> DEFINE R == {a, b}
<1>1. /\ <<a>> \in Seq(R) /\ Len(<<a>>) = 1 /\ <<a>>[1] = a
      /\ <<b>> \in Seq(R) /\ Len(<<b>>) = 1 /\ <<b>>[1] = b
      /\ <<a, b>> \in Seq(R) /\ Len(<<a, b>>) = 2
      /\ <<a, b>>[1] = a /\ <<a, b>>[2] = b
  OBVIOUS
<1>2. Append(<<a>>, b) = <<a, b>>
  <2>1. /\ Append(<<a>>, b) \in Seq(R) /\ Len(Append(<<a>>, b)) = 2
        /\ Append(<<a>>, b)[1] = a /\ Append(<<a>>, b)[2] = b
    BY <1>1, AppendProperties
  <2>2. \A i \in 1..2 : Append(<<a>>, b)[i] = <<a, b>>[i]
    BY <1>1, <2>1
  <2> HIDE DEF R
  <2> QED  BY <1>1, <2>1, <2>2, SeqEqual
<1>3. <<a>> \o <<b>> = <<a, b>>
  <2>1. /\ <<a>> \o <<b>> \in Seq(R) /\ Len(<<a>> \o <<b>>) = 2
        /\ (<<a>> \o <<b>>)[1] = a /\ (<<a>> \o <<b>>)[2] = b
    BY <1>1, ConcatProperties
  <2>2. \A i \in 1..2 : (<<a>> \o <<b>>)[i] = <<a, b>>[i]
    BY <1>1, <2>1
  <2> HIDE DEF R
  <2> QED  BY <1>1, <2>1, <2>2, SeqEqual
<1>4. SubSeq(<<a>>, 1, 1) = SubSeq(<<a, b>>, 1, 1)
  <2>1. /\ SubSeq(<<a>>, 1, 1) \in Seq(R) /\ Len(SubSeq(<<a>>, 1, 1)) = 1
        /\ SubSeq(<<a>>, 1, 1)[1] = a
        /\ SubSeq(<<a, b>>, 1, 1) \in Seq(R) /\ Len(SubSeq(<<a, b>>, 1, 1)) = 1
        /\ SubSeq(<<a, b>>, 1, 1)[1] = a
    BY <1>1, SubSeqProperties
  <2> QED  BY <2>1, SeqEqual
<1> QED
  BY <1>1, <1>2, <1>3, <1>4 DEF IsPrefix

\* The replies, one after the other.
LEMMA Replies ==
  /\ <<>> \o <<>> = <<>>
  /\ <<>> \o <<"no auth">> = <<"no auth">>
  /\ <<>> \o <<"no method">> = <<"no method">>
  /\ <<"no auth">> \o <<>> = <<"no auth">>
  /\ Append(<<"no auth">>, "connected") = <<"no auth", "connected">>
  /\ <<"no auth">> \o <<"connected">> = <<"no auth", "connected">>
<1>1. <<>> \o <<>> = <<>>
  OBVIOUS
<1>2. <<>> \o <<"no auth">> = <<"no auth">>
  OBVIOUS
<1>3. <<>> \o <<"no method">> = <<"no method">>
  OBVIOUS
<1>4. <<"no auth">> \o <<>> = <<"no auth">>
  OBVIOUS
<1>5. Append(<<"no auth">>, "connected") = <<"no auth", "connected">>
  BY TwoReplies
<1>6. <<"no auth">> \o <<"connected">> = <<"no auth", "connected">>
  BY TwoReplies
<1> QED
  BY <1>1, <1>2, <1>3, <1>4, <1>5, <1>6

\* What a step of the handshake that goes on, or not, tells.
LEMMA Telling ==
  ASSUME HandInv, NEW at, NEW need, NEW reply, Goes(at, need, reply)
  PROVE  server'.at = at /\ told' = told \o reply /\ app' = app
  BY DEF Goes, scripts, HandInv

LEMMA ToldVersion ==
  ASSUME HandInv, ToldInv, ReadVersion
  PROVE  ToldInv'
<1>1. ServerReads("version")
  BY DEF ReadVersion
<1>2. /\ server.at = "version"
      /\ Wanted[1] = app.version /\ Wanted[2] = Len(app.methods)
      /\ Application(app)
  BY <1>1, HeardVersion DEF HandInv
<1>3. told = <<>>
  BY <1>2 DEF ToldInv
<1>4. CASE Wanted[1] = Ver /\ Wanted[2] > 0
  <2>1. Goes("methods", Wanted[2], <<>>)
    BY <1>4 DEF ReadVersion
  <2>2. server'.at = "methods" /\ told' = <<>>
    BY <1>3, <2>1, Telling, Replies
  <2> QED  BY <2>2 DEF ToldInv
<1>5. CASE ~(Wanted[1] = Ver /\ Wanted[2] > 0)
  <2>1. Goes("closed", 0, <<>>)
    BY <1>5 DEF ReadVersion, Refuse
  <2>2. server'.at = "closed" /\ told' = <<>> /\ app' = app
    BY <1>3, <2>1, Telling, Replies
  <2>3. app.version # Ver \/ Len(app.methods) = 0
    <3>1. Len(app.methods) \in Nat
      BY <1>2, ApplicationItems
    <3> QED  BY <1>2, <1>5, <3>1
  <2>4. Due(app) = <<>> /\ ~Proper(app)
    <3>1. DueMethod(app) = <<>> /\ <<>> # <<"no auth">>
      BY <1>2, <2>3, MethodDue
    <3> QED  BY <1>2, <3>1, AllDue
  <2>5. Due(app)' = <<>> /\ ~Proper(app)'
    BY <2>2, <2>4 DEF Due, DueMethod, DueAnswer, Proper
  <2> QED  BY <2>2, <2>5 DEF ToldInv
<1> QED
  BY <1>4, <1>5

LEMMA ToldMethods ==
  ASSUME HandInv, ToldInv, ReadMethods
  PROVE  ToldInv'
<1>1. ServerReads("methods")
  BY DEF ReadMethods
<1>2. /\ server.at = "methods" /\ app.version = Ver /\ Len(app.methods) > 0
      /\ Wanted = app.methods /\ local'.eof = local.eof
      /\ Application(app)
  BY <1>1, HeardMethods, HandReads DEF HandInv
<1>3. told = <<>>
  BY <1>2 DEF ToldInv
<1>4. CASE NoAuth(app.methods) /\ Goes("request", 4, <<"no auth">>)
  <2>1. server'.at = "request" /\ told' = <<"no auth">>
    BY <1>3, <1>4, Telling, Replies
  <2> QED  BY <2>1 DEF ToldInv
<1>5. CASE local.eof /\ Goes("closed", 0, <<>>)
  <2>1. server'.at = "closed" /\ told' = <<>> /\ local'.eof
    BY <1>2, <1>3, <1>5, Telling, Replies
  <2> QED  BY <2>1 DEF ToldInv
<1>6. CASE ~NoAuth(app.methods) /\ Goes("closed", 0, <<"no method">>)
  <2>1. server'.at = "closed" /\ told' = <<"no method">> /\ app' = app
    BY <1>3, <1>6, Telling, Replies
  <2>2. DueMethod(app) = <<"no method">> /\ <<"no method">> # <<"no auth">>
    BY <1>2, <1>6, MethodDue
  <2>3. Due(app) = <<"no method">> /\ ~Proper(app)
    BY <1>2, <2>2, AllDue
  <2>4. Due(app)' = <<"no method">> /\ ~Proper(app)'
    BY <2>1, <2>3 DEF Due, DueMethod, DueAnswer, Proper
  <2> QED  BY <2>1, <2>4 DEF ToldInv
<1> QED
  BY <1>2, <1>4, <1>5, <1>6 DEF ReadMethods, Refuse

LEMMA ToldRequest ==
  ASSUME HandInv, ToldInv, ReadRequest
  PROVE  ToldInv'
<1>1. ServerReads("request")
  BY DEF ReadRequest
<1>2. /\ server.at = "request" /\ app.version = Ver /\ NoAuth(app.methods)
      /\ Wanted[1] = app.again /\ Wanted[2] = app.cmd /\ Wanted[4] = app.atyp
      /\ Application(app)
  BY <1>1, HeardRequest DEF HandInv
<1>3. told = <<"no auth">> /\ DueMethod(app) = <<"no auth">>
  BY <1>2, MethodDue DEF ToldInv
<1>4. ASSUME NEW at \in {"address", "length"}, NEW need, Goes(at, need, <<>>)
      PROVE  ToldInv'
  <2>1. server'.at = at /\ told' = <<"no auth">>
    BY <1>3, <1>4, Telling, Replies
  <2> QED  BY <2>1 DEF ToldInv
<1>5. ASSUME NEW reply, Goes("closed", 0, reply), DueAnswer(app) = reply,
             reply # <<"connected">>
      PROVE  ToldInv'
  <2>1. server'.at = "closed" /\ told' = <<"no auth">> \o reply /\ app' = app
    BY <1>3, <1>5, Telling
  <2>2. Due(app) = <<"no auth">> \o reply /\ ~Proper(app)
    BY <1>2, <1>3, <1>5, AllDue
  <2>3. Due(app)' = <<"no auth">> \o reply /\ ~Proper(app)'
    BY <2>1, <2>2 DEF Due, DueMethod, DueAnswer, Proper
  <2> QED  BY <2>1, <2>3 DEF ToldInv
<1>6. /\ <<>> # <<"connected">> /\ <<"no command">> # <<"connected">>
      /\ <<"no type">> # <<"connected">>
  OBVIOUS
<1>7. CASE app.again # Ver
  <2>1. Goes("closed", 0, <<>>) /\ DueAnswer(app) = <<>>
    BY <1>2, <1>7 DEF ReadRequest, Refuse, DueAnswer
  <2> QED  BY <1>5, <1>6, <2>1
<1>8. CASE app.again = Ver /\ app.cmd # Connect
  <2>1. Goes("closed", 0, <<"no command">>) /\ DueAnswer(app) = <<"no command">>
    BY <1>2, <1>8 DEF ReadRequest, Refuse, DueAnswer
  <2> QED  BY <1>5, <1>6, <2>1
<1>9. CASE app.again = Ver /\ app.cmd = Connect /\ app.atyp \notin {IPv4, Domain, IPv6}
  <2>1. Goes("closed", 0, <<"no type">>) /\ DueAnswer(app) = <<"no type">>
    BY <1>2, <1>9 DEF ReadRequest, Refuse, DueAnswer
  <2> QED  BY <1>5, <1>6, <2>1
<1>10. CASE app.again = Ver /\ app.cmd = Connect /\ app.atyp \in {IPv4, Domain, IPv6}
  <2>1. \E at \in {"address", "length"} : \E need : Goes(at, need, <<>>)
    <3>1. CASE app.atyp = IPv4
      BY <1>2, <1>10, <3>1 DEF ReadRequest
    <3>2. CASE app.atyp = IPv6
      BY <1>2, <1>10, <3>2 DEF ReadRequest, IPv4, IPv6
    <3>3. CASE app.atyp = Domain
      BY <1>2, <1>10, <3>3 DEF ReadRequest, IPv4, IPv6, Domain
    <3> QED  BY <1>10, <3>1, <3>2, <3>3
  <2> QED  BY <1>4, <2>1
<1> QED
  BY <1>7, <1>8, <1>9, <1>10

\* The rest of the request is not answered before its end.
LEMMA ToldAddress ==
  ASSUME HandInv, ToldInv, ReadLength \/ ReadAddress \/ ReadPort
  PROVE  ToldInv'
<1>1. CASE ReadLength
  <2>1. server.at = "length" /\ Goes("address", Wanted[1], <<>>)
    BY <1>1 DEF ReadLength, ServerReads
  <2>2. server'.at = "address" /\ told' = <<"no auth">>
    BY <2>1, Telling, Replies DEF ToldInv
  <2> QED  BY <2>2 DEF ToldInv
<1>2. CASE ReadAddress
  <2>1. server.at = "address" /\ server'.at = "port" /\ told' = told
    BY <1>2 DEF ReadAddress, ServerReads
  <2> QED  BY <2>1 DEF ToldInv
<1>3. CASE ReadPort
  <2>1. /\ server.at = "port" /\ server' = [server EXCEPT !.at = "done", !.need = 0]
        /\ told' = Append(told, "connected")
    BY <1>3 DEF ReadPort, ServerReads
  <2>2. server'.at = "done"
    BY <2>1 DEF HandInv
  <2>3. told' = <<"no auth", "connected">>
    BY <2>1, Replies DEF ToldInv
  <2> QED  BY <2>2, <2>3 DEF ToldInv
<1> QED
  BY <1>1, <1>2, <1>3

LEMMA ToldFails ==
  ASSUME HandInv, ToldInv, HandshakeFails
  PROVE  ToldInv'
<1>1. /\ server.at \in HandStates \ {"done", "closed"} /\ local.eof /\ local' = local
      /\ Goes("closed", 0, <<>>) /\ Application(app)
  BY DEF HandshakeFails, Short, Refuse, HandInv
<1>2. server'.at = "closed" /\ told' = told \o <<>> /\ app' = app /\ local'.eof
  BY <1>1, Telling
<1>3. CASE server.at \in {"version", "methods"}
  <2>1. told' = <<>>
    BY <1>2, <1>3, Replies DEF ToldInv
  <2> QED  BY <1>2, <2>1 DEF ToldInv
<1>4. CASE server.at \in {"request", "length", "address", "port"}
  <2>1. told' = <<"no auth">>
    BY <1>2, <1>4, Replies DEF ToldInv
  <2>2. app.version = Ver /\ NoAuth(app.methods)
    BY <1>4 DEF HandInv, HandAt, Proper, NoAuth
  <2>3. DueMethod(app)' = <<"no auth">>
    BY <1>1, <1>2, <2>2, MethodDue DEF DueMethod
  <2> QED  BY <1>2, <2>1, <2>3 DEF ToldInv
<1> QED
  BY <1>1, <1>3, <1>4 DEF HandStates

\* Nothing else tells it anything, and an application that has left does not
\* come back.
LEMMA ToldKept ==
  ASSUME ToldInv, app' = app, server' = server, told' = told, local.eof => local'.eof
  PROVE  ToldInv'
<1>1. /\ Due(app)' = Due(app) /\ DueMethod(app)' = DueMethod(app)
      /\ Proper(app)' <=> Proper(app)
  BY DEF Due, DueMethod, DueAnswer, Proper
<1> QED
  BY <1>1 DEF ToldInv

LEMMA ToldStep ==
  ASSUME HandInv, ToldInv, [Next]_vars
  PROVE  ToldInv'
<1>1. CASE ServerStep
  BY <1>1, ToldVersion, ToldMethods, ToldRequest, ToldAddress, ToldFails
  DEF ServerStep
<1>2. CASE AppSends
  <2>1. local.eof => local'.eof
    <3>1. Sound(local)
      BY DEF HandInv
    <3>2. CASE Arrives(local, Len(local.bytes))
      BY <3>1, <3>2, SoundArrived DEF Arrives
    <3>3. CASE Ends(local)
      BY <3>1, <3>3, SoundEnded DEF Ends
    <3> QED  BY <1>2, <3>2, <3>3 DEF AppSends
  <2> QED  BY <1>2, <2>1, ToldKept DEF AppSends, scripts
<1>3. CASE SendSYN \/ SendChunk \/ SendFIN
  <2>1. app' = app /\ server' = server /\ told' = told
    BY <1>3 DEF SendSYN, SendChunk, SendFIN, Sends, scripts
  <2>2. local.eof => local'.eof
    <3>1. CASE SendSYN \/ SendFIN
      BY <3>1 DEF SendSYN, SendFIN
    <3>2. CASE SendChunk
      BY <3>2, SoundTook DEF SendChunk, HandInv
    <3> QED  BY <1>3, <3>1, <3>2
  <2> QED  BY <2>1, <2>2, ToldKept
<1>4. CASE ProxySends \/ Relays \/ AggregatorSends \/ DialStep \/ Expire
             \/ ReadFrame \/ ReadFails \/ ServerReadsFrame \/ UNCHANGED vars
  <2>1. UNCHANGED scripts /\ UNCHANGED socks
    BY <1>4 DEF ProxySends, Relays, AggregatorSends, DialStep, DialProxy, ReadMethod,
       ReadReply, ReadBoundLength, Drain, DrainFails, DialFails, DialTo, Expire,
       ReadFrame, ReadFails, ServerReadsFrame, vars
  <2> QED  BY <2>1, ToldKept DEF scripts, socks
<1> QED
  BY <1>1, <1>2, <1>3, <1>4 DEF Next

-----------------------------------------------------------------------------
(* runOutbound *)

\* Its reads take the application's data, in order.
LEMMA DataLeft ==
  ASSUME HandInv, server.at = "done", NEW n \in Nat, Has(local, n)
  PROVE  LET w == SubSeq(local.bytes, local.taken + 1, local.taken + n)
         IN  /\ next \in Nat /\ Len(app.data) \in Nat /\ Len(app.data) < Word
             /\ next + n <= Len(app.data)
             /\ w = SubSeq(app.data, next + 1, next + n)
             /\ w \in Seq(Bytes) /\ Len(w) = n
<1> DEFINE d == app.data
           b == AppBytes(app)
           w == SubSeq(d, next + 1, next + n)
           e == AddrEnd(app) + 2
<1>1. /\ Sound(local) /\ local.bytes = b /\ next \in Nat
      /\ local.taken = e + next
      /\ d \in Seq(Bytes) /\ Len(d) < Word
  BY DEF HandInv, HandAt, Application
<1>2. /\ Len(d) \in Nat /\ Len(app.addr) \in Nat /\ Len(app.methods) \in Nat
      /\ Len(b) = e + Len(d)
      /\ \A i \in 1..Len(d) : b[e + i] = d[i]
  BY ApplicationItems DEF HandInv
<1>3. e \in Nat
  <2>1. Prefixed(app.atyp) \in Nat
    BY DEF Prefixed
  <2> QED  BY <1>2, <2>1 DEF AddrEnd, AddrBegin, MethodsEnd
<1> HIDE DEF e, b, d
<1>4. next + n <= Len(d)
  <2>1. /\ local.arrived \in 0..Len(b) /\ local.taken \in 0..local.arrived
        /\ local.arrived - local.taken >= n
    BY <1>1 DEF Sound, WellFormed, Has
  <2> QED  BY <1>1, <1>2, <1>3, <2>1
<1>5. w \in Seq(Bytes) /\ Len(w) = n /\ \A i \in 1..n : w[i] = d[next + i]
  <2>1. \A i \in (next + 1)..(next + n) : d[i] \in Bytes
    <3> SUFFICES ASSUME NEW i \in (next + 1)..(next + n) PROVE d[i] \in Bytes
      OBVIOUS
    <3>1. i \in 1..Len(d)
      BY <1>1, <1>2, <1>4
    <3> QED  BY <3>1, <1>1, ElementOfSeq
  <2>2. next + 1 \in Int /\ next + n \in Int
    BY <1>1
  <2>3. /\ w \in Seq(Bytes)
        /\ Len(w) = IF next + 1 <= next + n THEN (next + n) - (next + 1) + 1 ELSE 0
        /\ \A i \in 1..((next + n) - (next + 1) + 1) : w[i] = d[next + 1 + i - 1]
    BY <2>1, <2>2, SubSeqProperties
  <2> HIDE DEF w
  <2>4. (next + n) - (next + 1) + 1 = n
    BY <1>1
  <2>5. Len(w) = n
    BY <1>1, <2>3, <2>4
  <2>6. ASSUME NEW i \in 1..n PROVE w[i] = d[next + i]
    <3>1. next + 1 + i - 1 = next + i
      BY <1>1
    <3> QED  BY <2>3, <2>4, <3>1
  <2> QED  BY <2>3, <2>5, <2>6
<1>6. w \in Seq(Words)
  BY <1>5, ByteIsWord, SeqMonotonic
<1> HIDE DEF w
<1>7. \A i \in 1..Len(w) : local.bytes[local.taken + i] = w[i]
  <2> SUFFICES ASSUME NEW i \in 1..Len(w)
               PROVE  local.bytes[local.taken + i] = w[i]
    OBVIOUS
  <2>1. next + i \in 1..Len(d) /\ local.taken + i = e + (next + i)
    BY <1>1, <1>2, <1>3, <1>4, <1>5
  <2> QED  BY <1>1, <1>2, <1>5, <2>1
<1>8. SubSeq(local.bytes, local.taken + 1, local.taken + Len(w)) = w
  BY <1>1, <1>5, <1>6, <1>7, SliceIs
<1>9. SubSeq(local.bytes, local.taken + 1, local.taken + n) = w
  BY <1>5, <1>8
<1> QED
  BY <1>1, <1>2, <1>4, <1>5, <1>9 DEF d, w

LEMMA LastAppended ==
  ASSUME NEW s, Legal(s), NEW f, LegalFrame(f)
  PROVE  /\ Append(s, f) \in Seq(Frames)
         /\ Len(s) \in Nat /\ Len(Append(s, f)) = Len(s) + 1
         /\ Append(s, f) # <<>>
         /\ \A i \in 1..Len(s) : Append(s, f)[i] = s[i]
         /\ Append(s, f)[Len(s) + 1] = f
<1>1. s \in Seq(Frames) /\ f \in Frames /\ Len(s) \in Nat
  BY LenProperties DEF Legal, LegalFrame
<1>2. /\ Append(s, f) \in Seq(Frames) /\ Len(Append(s, f)) = Len(s) + 1
      /\ \A i \in 1..Len(s) : Append(s, f)[i] = s[i]
      /\ Append(s, f)[Len(s) + 1] = f
  BY <1>1, AppendProperties
<1>3. Append(s, f) # <<>>
  <2>1. Len(Append(s, f)) # 0
    BY <1>1, <1>2
  <2> QED  BY <2>1
<1> QED
  BY <1>1, <1>2, <1>3

\* A chunk, or the FIN, follows what the frames before it carry.
LEMMA SentNext ==
  ASSUME SentInv, Legal(sent), out = "read", next \in Nat,
         NEW f, LegalFrame(f), f.seq = next,
         next + Len(f.payload) <= Len(app.data),
         f.payload = SubSeq(app.data, next + 1, next + Len(f.payload)),
         app' = app, sent' = Append(sent, f),
         out' \in {"read", "done"}, next' = next + Len(f.payload)
  PROVE  SentInv'
<1> DEFINE n == Len(sent)
<1>1. /\ sent' \in Seq(Frames) /\ n \in Nat /\ Len(sent') = n + 1 /\ sent' # <<>>
      /\ \A i \in 1..n : sent'[i] = sent[i]
      /\ sent'[n + 1] = f
  BY LastAppended
<1>2. sent # <<>> /\ next = Carried(sent) /\ n > 0
  <2>1. sent # <<>> /\ next = Carried(sent)
    BY DEF SentInv
  <2>2. n # 0
    BY <2>1, EmptySeq DEF Legal
  <2> QED  BY <1>1, <2>1, <2>2
<1> HIDE DEF n
<1>3. sent'[1] = sent[1]
  BY <1>1, <1>2
<1>4. ASSUME NEW i \in 2..n
      PROVE  CarriesNext(app.data, sent', i)
  <2>1. sent'[i] = sent[i] /\ sent'[i - 1] = sent[i - 1]
    BY <1>1
  <2>2. CarriesNext(app.data, sent, i)
    BY DEF SentInv, n
  <2> QED  BY <2>1, <2>2 DEF CarriesNext
<1>5. CarriesNext(app.data, sent', n + 1)
  <2>1. sent'[n + 1] = f /\ sent'[(n + 1) - 1] = sent[n]
    BY <1>1, <1>2
  <2>2. CASE n = 1
    <3>1. f.seq = 0
      BY <1>2, <2>2 DEF Carried, n
    <3> QED  BY <2>1, <2>2, <3>1 DEF CarriesNext
  <2>3. CASE n > 1
    <3>1. n + 1 # 2 /\ n # 1
      BY <1>1, <2>3
    <3>2. f.seq = sent[n].seq + Len(sent[n].payload)
      BY <1>2, <3>1 DEF Carried, n
    <3> QED  BY <1>1, <2>1, <3>1, <3>2 DEF CarriesNext
  <2> QED  BY <1>1, <1>2, <2>2, <2>3
<1>6. \A i \in 2..Len(sent') : CarriesNext(app'.data, sent', i)
  <2> SUFFICES ASSUME NEW i \in 2..Len(sent')
               PROVE  CarriesNext(app.data, sent', i)
    OBVIOUS
  <2>1. i \in 2..n \/ i = n + 1
    BY <1>1
  <2> QED  BY <1>4, <1>5, <2>1
<1>7. next' = Carried(sent')
  <2>1. Len(sent') = n + 1 /\ n + 1 # 1 /\ sent'[Len(sent')] = f
    BY <1>1, <1>2
  <2> QED  BY <2>1 DEF Carried
<1>8. sent'[1].flag = SYN /\ sent'[1].payload = EncodeTarget(Asked(app))
  BY <1>2, <1>3 DEF SentInv
<1> QED
  BY <1>1, <1>6, <1>7, <1>8 DEF SentInv

\* A frame of the stream is put on the bearer.
LEMMA UpPut ==
  ASSUME UpInv, NEW f, LegalFrame(f),
         up' = [up EXCEPT !.bytes = @ \o BuildFrame(f)],
         sent' = Append(sent, f), received' = received
  PROVE  UpInv'
<1>1. /\ Sound(up) /\ Legal(sent) /\ Legal(received)
      /\ InStep(up.bytes, 0, sent, received, up.taken)
  BY DEF UpInv
<1>2. up.bytes \in Seq(Words) /\ Len(received) \in Nat
  BY <1>1, LegalFacts DEF Sound, WellFormed
<1>3. BuildFrame(f) \in Seq(Words)
  BY FrameItems
<1>4. /\ Sound(up') /\ up'.bytes = up.bytes \o BuildFrame(f)
      /\ up'.taken = up.taken
  BY <1>1, <1>3, SoundPut
<1>5. /\ Legal(Append(sent, f))
      /\ InStep(up.bytes \o BuildFrame(f), 0, Append(sent, f), received, up.taken)
  BY <1>1, <1>2, PutNext
<1> QED
  BY <1>1, <1>4, <1>5 DEF UpInv

LEMMA UpKept ==
  ASSUME UpInv, UNCHANGED <<up, sent, received>>
  PROVE  UpInv'
  BY DEF UpInv

LEMMA SentKept ==
  ASSUME SentInv, app' = app, sent' = sent, next' = next,
         out' = out \/ (out = "none" /\ out' = "syn")
  PROVE  SentInv'
  BY DEF SentInv, Carried

\* The stream ends with a bearer that is not connected.
LEMMA SentDone ==
  ASSUME SentInv, app' = app, sent' = sent, out' = "done"
  PROVE  SentInv'
  BY DEF SentInv

\* The handshake is over when the stream sends.
LEMMA Sending ==
  ASSUME HandInv, out # "none"
  PROVE  /\ server.at = "done" /\ Proper(app) /\ target = Asked(app)
         /\ EncodeTarget(Asked(app)) \in Seq(Bytes)
         /\ Len(EncodeTarget(Asked(app))) < Byte * Byte
<1>1. server.at = "done" /\ Proper(app) /\ target = Asked(app) /\ Application(app)
  BY DEF HandInv, HandAt
<1> QED
  BY <1>1, AskedFacts, TargetReadsBack

LEMMA Step_SendSYN ==
  ASSUME IInv, SendSYN
  PROVE  HandInv' /\ SentInv' /\ UpInv'
<1> DEFINE f == [flag |-> SYN, id |-> 1, seq |-> 0, payload |-> EncodeTarget(target)]
<1>1. HandInv /\ SentInv /\ UpInv
  BY DEF IInv
<1>2. /\ out = "syn" /\ Sends(f, "read") /\ local' = local /\ next' = next
  BY DEF SendSYN
<1>3. /\ app' = app /\ proxy' = proxy /\ server' = server /\ target' = target
      /\ received' = received
  BY <1>2 DEF Sends, scripts
<1>4. /\ server.at = "done" /\ target = Asked(app)
      /\ f.payload \in Seq(Bytes) /\ Len(f.payload) < Byte * Byte
  BY <1>1, <1>2, Sending
<1>5. LegalFrame(f)
  <2>1. SYN \in Bytes /\ 1 \in Words /\ 0 \in Words
    BY ByteAssumption, WordAssumption DEF SYN, Bytes, Words
  <2> QED  BY <1>4, <2>1 DEF LegalFrame, Frames
<1>6. sent = <<>> /\ next = 0
  BY <1>1, <1>2 DEF SentInv
<1>7. HandInv'
  <2>1. out' \in {"read", "done"}
    BY <1>2 DEF Sends
  <2>2. HandAt'
    BY <1>1, <1>2, <1>3 DEF HandInv, HandAt
  <2> QED  BY <1>1, <1>2, <1>3, <1>4, <2>1, <2>2 DEF HandInv
<1>8. CASE dial.at = "open"
  <2>1. /\ up' = [up EXCEPT !.bytes = @ \o BuildFrame(f)]
        /\ sent' = Append(sent, f) /\ out' = "read"
    BY <1>2, <1>8 DEF Sends
  <2>2. sent' = <<f>>
    BY <1>6, <2>1
  <2> HIDE DEF f
  <2>3. Len(sent') = 1 /\ sent'[1] = f /\ sent' # <<>>
    BY <2>2
  <2>4. f.flag = SYN /\ f.payload = EncodeTarget(Asked(app))
    BY <1>4 DEF f
  <2>5. Carried(sent') = 0
    BY <2>3 DEF Carried
  <2>6. SentInv'
    BY <1>2, <1>3, <1>6, <2>1, <2>3, <2>4, <2>5 DEF SentInv
  <2> QED
    BY <1>1, <1>3, <1>5, <1>7, <2>1, <2>6, UpPut
<1>9. CASE dial.at # "open"
  <2>1. up' = up /\ sent' = sent /\ out' = "done"
    BY <1>2, <1>9 DEF Sends
  <2> QED
    BY <1>1, <1>3, <1>7, <2>1, UpKept, SentDone
<1> QED
  BY <1>8, <1>9

\* A chunk of the next n bytes, and the FIN, which carries none.
LEMMA DataFrame ==
  ASSUME HandInv, server.at = "done", NEW n \in 0..ChunkSize, Has(local, n),
         NEW flag \in Bytes, NEW payload,
         payload = SubSeq(local.bytes, local.taken + 1, local.taken + n)
  PROVE  LET f == [flag |-> flag, id |-> 1, seq |-> next, payload |-> payload]
         IN  /\ LegalFrame(f) /\ Len(f.payload) = n
             /\ next + Len(f.payload) <= Len(app.data)
             /\ f.payload = SubSeq(app.data, next + 1, next + Len(f.payload))
<1>1. n \in Nat /\ n < Byte * Byte
  BY ChunkAssumption, ByteAssumption
<1>2. /\ next \in Nat /\ Len(app.data) \in Nat /\ Len(app.data) < Word
      /\ next + n <= Len(app.data)
      /\ payload = SubSeq(app.data, next + 1, next + n)
      /\ payload \in Seq(Bytes) /\ Len(payload) = n
  BY <1>1, DataLeft
<1>3. next \in Words /\ 1 \in Words
  BY <1>1, <1>2, ByteAssumption, WordAssumption DEF Words
<1> QED
  BY <1>1, <1>2, <1>3 DEF LegalFrame, Frames

LEMMA Step_SendChunk ==
  ASSUME IInv, SendChunk
  PROVE  HandInv' /\ SentInv' /\ UpInv'
<1>1. HandInv /\ SentInv /\ UpInv /\ Legal(sent)
  BY DEF IInv, UpInv
<1>2. PICK n \in 1..ChunkSize :
        /\ out = "read" /\ Has(local, n) /\ local' = Took(local, n)
        /\ next' = next + n
        /\ Sends([flag |-> 0, id |-> 1, seq |-> next,
                  payload |-> SubSeq(local.bytes, local.taken + 1, local.taken + n)],
                 "read")
  BY DEF SendChunk, Reserved
<1> DEFINE payload == SubSeq(local.bytes, local.taken + 1, local.taken + n)
           f == [flag |-> 0, id |-> 1, seq |-> next, payload |-> payload]
<1>3. /\ app' = app /\ proxy' = proxy /\ server' = server /\ target' = target
      /\ received' = received /\ out' \in {"read", "done"}
  BY <1>2 DEF Sends, scripts
<1>4. server.at = "done" /\ next \in Nat /\ n \in 0..ChunkSize /\ n \in Nat
  BY <1>1, <1>2, Sending DEF HandInv
<1>5. /\ LegalFrame(f) /\ Len(f.payload) = n
      /\ next + Len(f.payload) <= Len(app.data)
      /\ f.payload = SubSeq(app.data, next + 1, next + Len(f.payload))
  <2>1. 0 \in Bytes
    BY ByteAssumption DEF Bytes
  <2> QED  BY <1>1, <1>2, <1>4, <2>1, DataFrame
<1>6. f.seq = next
  OBVIOUS
<1>7. HandInv'
  <2>1. /\ Sound(local') /\ local'.bytes = local.bytes
        /\ local'.taken = local.taken + n
    BY <1>1, <1>2, <1>4, SoundTook DEF HandInv
  <2>2. local'.taken = AddrEnd(app) + 2 + next'
    <3>1. /\ local.taken = AddrEnd(app) + 2 + next
          /\ Len(app.addr) \in Nat /\ Len(app.methods) \in Nat
      BY <1>1, <1>4, ApplicationItems DEF HandInv, HandAt
    <3>2. Prefixed(app.atyp) \in Nat
      BY DEF Prefixed
    <3>3. AddrEnd(app) \in Nat
      BY <3>1, <3>2 DEF AddrEnd, AddrBegin, MethodsEnd
    <3> QED  BY <1>2, <1>4, <2>1, <3>1, <3>3
  <2>3. HandAt'
    BY <1>1, <1>3, <1>4, <2>2 DEF HandInv, HandAt
  <2>4. next' \in Nat
    BY <1>2, <1>4
  <2> QED  BY <1>1, <1>3, <1>4, <2>1, <2>3, <2>4 DEF HandInv
<1> HIDE DEF f
<1>8. CASE dial.at = "open"
  <2>1. /\ up' = [up EXCEPT !.bytes = @ \o BuildFrame(f)]
        /\ sent' = Append(sent, f)
    BY <1>2, <1>8 DEF Sends, f
  <2>2. SentInv'
    BY <1>1, <1>2, <1>3, <1>4, <1>5, <1>6, <2>1, SentNext
  <2> QED
    BY <1>1, <1>3, <1>5, <1>7, <2>1, <2>2, UpPut
<1>9. CASE dial.at # "open"
  <2>1. up' = up /\ sent' = sent /\ out' = "done"
    BY <1>2, <1>9 DEF Sends
  <2> QED
    BY <1>1, <1>3, <1>7, <2>1, UpKept, SentDone
<1> QED
  BY <1>8, <1>9

LEMMA Step_SendFIN ==
  ASSUME IInv, SendFIN
  PROVE  HandInv' /\ SentInv' /\ UpInv'
<1> DEFINE f == [flag |-> FIN, id |-> 1, seq |-> next, payload |-> <<>>]
<1>1. HandInv /\ SentInv /\ UpInv /\ Legal(sent)
  BY DEF IInv, UpInv
<1>2. /\ out = "read" /\ Sends(f, "done") /\ local' = local /\ next' = next
  BY DEF SendFIN
<1>3. /\ app' = app /\ proxy' = proxy /\ server' = server /\ target' = target
      /\ received' = received /\ out' = "done"
  BY <1>2 DEF Sends, scripts
<1>4. server.at = "done" /\ next \in Nat /\ 0 \in 0..ChunkSize
  BY <1>1, <1>2, Sending, ChunkAssumption DEF HandInv
<1>5. Has(local, 0) /\ <<>> = SubSeq(local.bytes, local.taken + 1, local.taken + 0)
  <2>1. local.taken \in Nat /\ local.arrived \in Nat /\ local.taken <= local.arrived
    BY <1>1 DEF HandInv, Sound, Connection, WellFormed
  <2>2. Has(local, 0)
    BY <2>1 DEF Has
  <2> DEFINE w == SubSeq(local.bytes, local.taken + 1, local.taken + 0)
  <2>3. w \in Seq(Words) /\ Len(w) = 0
    BY <1>1, <2>2, Slice DEF HandInv
  <2> HIDE DEF w
  <2>4. w = <<>>
    BY <2>3, EmptySeq
  <2> QED  BY <2>2, <2>4 DEF w
<1>6. /\ LegalFrame(f) /\ Len(f.payload) = 0
      /\ next + Len(f.payload) <= Len(app.data)
      /\ f.payload = SubSeq(app.data, next + 1, next + Len(f.payload))
  <2>1. FIN \in Bytes
    BY ByteAssumption DEF FIN, Bytes
  <2> QED  BY <1>1, <1>4, <1>5, <2>1, DataFrame
<1>7. f.seq = next /\ next' = next + Len(f.payload)
  BY <1>2, <1>4
<1>8. HandInv'
  <2>1. HandAt'
    BY <1>1, <1>2, <1>3, <1>4 DEF HandInv, HandAt
  <2> QED  BY <1>1, <1>2, <1>3, <1>4, <2>1 DEF HandInv
<1> HIDE DEF f
<1>9. CASE dial.at = "open"
  <2>1. /\ up' = [up EXCEPT !.bytes = @ \o BuildFrame(f)]
        /\ sent' = Append(sent, f)
    BY <1>2, <1>9 DEF Sends
  <2>2. SentInv'
    BY <1>1, <1>2, <1>3, <1>4, <1>6, <1>7, <2>1, SentNext
  <2> QED
    BY <1>1, <1>3, <1>6, <1>8, <2>1, <2>2, UpPut
<1>10. CASE dial.at # "open"
  <2>1. up' = up /\ sent' = sent /\ out' = "done"
    BY <1>2, <1>10 DEF Sends
  <2> QED
    BY <1>1, <1>3, <1>8, <2>1, UpKept, SentDone
<1> QED
  BY <1>9, <1>10

-----------------------------------------------------------------------------
(* The connection to the aggregator *)

\* What the header at the start of b says is a size.
LEMMA FrameSizeType ==
  ASSUME NEW c, Sound(c), Has(c, HeaderSize)
  PROVE  FrameSize(Unread(c)) \in Nat
<1> DEFINE b == Unread(c)
<1>1. /\ c.bytes \in Seq(Words) /\ Len(c.bytes) \in Nat
      /\ c.arrived \in 0..Len(c.bytes) /\ c.taken \in 0..c.arrived
      /\ c.arrived - c.taken >= 8
  BY LenProperties DEF Sound, WellFormed, Has, HeaderSize
<1>2. \A i \in (c.taken + 1)..c.arrived : c.bytes[i] \in Words
  <2> SUFFICES ASSUME NEW i \in (c.taken + 1)..c.arrived PROVE c.bytes[i] \in Words
    OBVIOUS
  <2>1. i \in 1..Len(c.bytes)
    BY <1>1
  <2> QED  BY <1>1, <2>1, ElementOfSeq
<1>3. c.taken + 1 \in Int /\ c.arrived \in Int
  BY <1>1
<1>4. /\ b \in Seq(Words)
      /\ Len(b) = IF c.taken + 1 <= c.arrived THEN c.arrived - (c.taken + 1) + 1
                                              ELSE 0
  BY <1>2, <1>3, SubSeqProperties DEF Unread
<1> HIDE DEF b
<1>5. Len(b) >= 8 /\ Len(b) \in Nat
  BY <1>1, <1>4
<1>6. b[6] \in Words /\ b[7] \in Words
  <2>1. 6 \in 1..Len(b) /\ 7 \in 1..Len(b)
    BY <1>5
  <2> QED  BY <1>4, <2>1, ElementOfSeq
<1>7. FromU16(b[6], b[7]) \in Nat
  BY <1>6, FromU16Type
<1> QED
  BY <1>7 DEF FrameSize, HeaderSize, b

LEMMA Step_Relays ==
  ASSUME UpInv, Relays
  PROVE  UpInv'
<1>1. /\ Sound(up) /\ up.arrived < Len(up.bytes)
      /\ up' = [up EXCEPT !.arrived = @ + 1]
      /\ sent' = sent /\ received' = received
  BY DEF UpInv, Relays, Arrives
<1>2. Sound(up') /\ up'.bytes = up.bytes /\ up'.taken = up.taken
  BY <1>1, SoundArrived
<1> QED
  BY <1>1, <1>2 DEF UpInv

LEMMA Step_ServerReadsFrame ==
  ASSUME UpInv, ServerReadsFrame
  PROVE  UpInv'
<1> DEFINE f == sent[Len(received) + 1]
<1>1. /\ Sound(up) /\ WellFormed(up) /\ Legal(sent) /\ Legal(received)
      /\ InStep(up.bytes, 0, sent, received, up.taken)
      /\ Has(up, HeaderSize) /\ Has(up, FrameSize(Unread(up)))
      /\ up' = Took(up, FrameSize(Unread(up)))
      /\ received' = Append(received, Decode(Unread(up))) /\ sent' = sent
  BY DEF UpInv, Sound, ServerReadsFrame, ReadsFrame
<1>2. FrameSize(Unread(up)) \in Nat
  BY <1>1, FrameSizeType
<1>3. /\ FrameSize(Unread(up)) = Size(f)
      /\ Has(up, Size(f)) =>
           /\ Decode(Unread(up)) = f
           /\ Legal(Append(received, f))
           /\ InStep(up.bytes, 0, sent, Append(received, f), up.taken + Size(f))
  BY <1>1, GetNext
<1> HIDE DEF f
<1>4. /\ Sound(up') /\ up'.bytes = up.bytes /\ up'.taken = up.taken + Size(f)
  BY <1>1, <1>2, <1>3, SoundTook
<1> QED
  BY <1>1, <1>3, <1>4 DEF UpInv

LEMMA UpInit ==
  ASSUME Init
  PROVE  SentInv /\ UpInv
<1>1. /\ up = Pipe(<<>>) /\ sent = <<>> /\ received = <<>> /\ out = "none"
      /\ next = 0
  BY DEF Init
<1>2. Sound(up) /\ up.bytes = <<>> /\ up.taken = 0
  BY <1>1, NewPipe, EmptySeq
<1>3. Legal(<<>>)
  BY EmptySeq DEF Legal
<1>4. InStep(<<>>, 0, <<>>, <<>>, 0)
  <2>1. <<>> \in Seq(Words) /\ Len(<<>>) = 0
    BY EmptySeq
  <2>2. InStep(<<>>, Len(<<>>), <<>>, <<>>, Len(<<>>))
    BY <2>1, NoFrameYet
  <2> QED  BY <2>1, <2>2
<1>5. SentInv
  BY <1>1 DEF SentInv
<1> QED
  BY <1>1, <1>2, <1>3, <1>4, <1>5 DEF UpInv

-----------------------------------------------------------------------------
(* dialSOCKS5 *)

LEMMA DownInit ==
  ASSUME Init
  PROVE  DownInv
<1> DEFINE b == ReplyBytes(proxy)
<1>1. Proxy(proxy)
  BY ScriptsFacts
<1>2. b \in Seq(Words) /\ Len(b) = ReplyEnd(proxy) /\ Len(b) \in Nat
  BY <1>1, ReplyItems, LenProperties
<1>3. /\ Sound(down) /\ down.bytes = b /\ down.taken = 0
  BY <1>2, NewPipe DEF Init
<1>4. InStep(down.bytes, ReplyEnd(proxy), <<>>, <<>>, ReplyEnd(proxy))
  BY <1>2, <1>3, NoFrameYet
<1>5. Legal(<<>>)
  BY EmptySeq DEF Legal
<1> HIDE DEF b
<1>6. \A i \in 1..ReplyEnd(proxy) : down.bytes[i] = b[i]
  BY <1>3
<1>7. /\ dial = [at |-> "proxy", need |-> 0] /\ expired = FALSE
      /\ replies = <<>> /\ got = <<>>
  BY DEF Init
<1>8. dial \in [at : DialStates, need : Nat]
  BY <1>7 DEF DialStates
<1>9. DialAt
  BY <1>3, <1>7 DEF DialAt
<1>10. Len(down.bytes) >= ReplyEnd(proxy)
  BY <1>2, <1>3
<1> QED
  BY <1>1, <1>3, <1>4, <1>5, <1>6, <1>7, <1>8, <1>9, <1>10 DEF DownInv, CleanStart, b

LEMMA DownKept ==
  ASSUME DownInv, proxy' = proxy, UNCHANGED <<bearer, replies>>
  PROVE  DownInv'
  BY DEF DownInv, bearer, DialAt, Reading, CleanStart

\* The fields of the replies are where the dial looks for them.
LEMMA ReplyFields ==
  ASSUME DownInv
  PROVE  /\ ReplyEnd(proxy) \in Nat /\ ReplyEnd(proxy) >= 8
         /\ Len(proxy.bound) \in Nat /\ Fits(proxy.atyp, proxy.bound)
         /\ down.bytes[4] = proxy.rep /\ down.bytes[6] = proxy.atyp
         /\ proxy.atyp = Domain => down.bytes[7] = Len(proxy.bound)
<1>1. Proxy(proxy) /\ \A i \in 1..ReplyEnd(proxy) : down.bytes[i] = ReplyBytes(proxy)[i]
  BY DEF DownInv
<1>2. /\ Len(proxy.bound) \in Nat
      /\ ReplyBytes(proxy)[4] = proxy.rep /\ ReplyBytes(proxy)[6] = proxy.atyp
      /\ proxy.atyp = Domain => ReplyBytes(proxy)[7] = Len(proxy.bound)
  BY <1>1, ReplyItems
<1>3. Fits(proxy.atyp, proxy.bound)
  BY <1>1 DEF Proxy
<1>4. ReplyEnd(proxy) \in Nat /\ ReplyEnd(proxy) >= 8
  <2>1. Prefixed(proxy.atyp) \in Nat
    BY DEF Prefixed
  <2> QED  BY <1>2, <2>1 DEF ReplyEnd
<1>5. /\ 4 \in 1..ReplyEnd(proxy) /\ 6 \in 1..ReplyEnd(proxy)
      /\ 7 \in 1..ReplyEnd(proxy)
  BY <1>4
<1> QED
  BY <1>1, <1>2, <1>3, <1>4, <1>5

\* A read of the dial takes what it needs and no more.
LEMMA DialTakes ==
  ASSUME DownInv, NEW at, DialReads(at)
  PROVE  /\ dial.at = at /\ dial.need \in Nat /\ down.taken \in Nat
         /\ Sound(down') /\ down'.bytes = down.bytes
         /\ down'.taken = down.taken + dial.need
         /\ \A i \in 1..dial.need : Reply[i] = down.bytes[down.taken + i]
<1>1. Sound(down) /\ dial.need \in Nat /\ Has(down, dial.need)
  BY DEF DownInv, DialReads
<1>2. down.taken \in Nat
  BY <1>1 DEF Sound, Connection
<1>3. \A i \in 1..dial.need : Reply[i] = down.bytes[down.taken + i]
  BY <1>1, Slice DEF Reply
<1>4. down' = Took(down, dial.need) /\ dial.at = at
  BY DEF DialReads
<1> QED
  BY <1>1, <1>2, <1>3, <1>4, SoundTook

\* The dial goes on to a point before its end, or fails.
LEMMA DialGoes ==
  ASSUME DownInv, dial.at \notin {"open", "dead"},
         Sound(down'), down'.bytes = down.bytes,
         NEW to \in DialStates \ {"open", "dead"}, NEW need \in Nat,
         DialTo(to, need),
         dial'.at = to /\ dial'.need = need /\ proxy' = proxy => DialAt'
  PROVE  DownInv'
<1>1. /\ dial' = [at |-> to, need |-> need] /\ proxy' = proxy
      /\ expired' = expired /\ got' = got /\ replies' = replies
  BY DEF DialTo, scripts, relay
<1>2. /\ dial' \in [at : DialStates, need : Nat]
      /\ dial'.at = to /\ dial'.need = need
  BY <1>1
<1>3. DialAt' /\ CleanStart'
  BY <1>1, <1>2 DEF CleanStart
<1>4. /\ got' = <<>>
      /\ InStep(down'.bytes, ReplyEnd(proxy'), replies', <<>>, ReplyEnd(proxy'))
  BY <1>1 DEF DownInv
<1> QED
  BY <1>1, <1>2, <1>3, <1>4 DEF DownInv

\* The dial is over, and readLoop starts.
LEMMA DialOpens ==
  ASSUME DownInv, dial.at = "drain", Sound(down'), down'.bytes = down.bytes,
         DialTo("open", 0),
         \/ expired
         \/ down'.eof /\ down'.taken = down'.arrived
         \/ down'.taken = ReplyEnd(proxy)
  PROVE  DownInv'
<1>1. /\ dial' = [at |-> "open", need |-> 0] /\ proxy' = proxy
      /\ expired' = expired /\ got' = got /\ replies' = replies
  BY DEF DialTo, scripts, relay
<1>2. /\ dial' \in [at : DialStates, need : Nat] /\ dial'.at = "open"
  BY <1>1 DEF DialStates
<1>3. DialAt' /\ CleanStart'
  BY <1>2 DEF DialAt, CleanStart
<1>4. /\ got' = <<>> /\ Legal(<<>>)
      /\ InStep(down'.bytes, ReplyEnd(proxy'), replies', <<>>, ReplyEnd(proxy'))
  BY <1>1, EmptySeq DEF DownInv, Legal
<1>5. Reading'
  BY <1>1, <1>4 DEF Reading
<1> QED
  BY <1>1, <1>2, <1>3, <1>5 DEF DownInv

LEMMA Step_DialProxy ==
  ASSUME DownInv, DialProxy
  PROVE  DownInv'
<1>1. /\ dial.at = "proxy" /\ down' = down /\ down.taken = 0 /\ Sound(down')
      /\ DialTo("method", 2) \/ DialTo("failed", 0)
  BY DEF DialProxy, DownInv, DialAt
<1>2. {"method", "failed"} \subseteq DialStates \ {"open", "dead"}
  BY DEF DialStates
<1>3. ASSUME dial'.at = "method", dial'.need = 2
      PROVE  DialAt'
  BY <1>1, <1>3 DEF DialAt
<1>4. ASSUME dial'.at = "failed"
      PROVE  DialAt'
  BY <1>4 DEF DialAt
<1>5. CASE DialTo("method", 2)
  BY <1>1, <1>2, <1>3, <1>5, DialGoes
<1>6. CASE DialTo("failed", 0)
  BY <1>1, <1>2, <1>4, <1>6, DialGoes
<1> QED
  BY <1>1, <1>5, <1>6

LEMMA DialGivesUp ==
  ASSUME DownInv, dial.at \notin {"open", "dead"},
         Sound(down'), down'.bytes = down.bytes, DialTo("failed", 0)
  PROVE  DownInv'
<1>1. "failed" \in DialStates \ {"open", "dead"} /\ 0 \in Nat
  BY DEF DialStates
<1>2. ASSUME dial'.at = "failed"
      PROVE  DialAt'
  BY <1>2 DEF DialAt
<1> QED
  BY <1>1, <1>2, DialGoes

LEMMA Step_ReadMethod ==
  ASSUME DownInv, ReadMethod
  PROVE  DownInv'
<1>1. DialReads("method")
  BY DEF ReadMethod
<1>2. /\ dial.at = "method" /\ down.taken = 0 /\ dial.need = 2
      /\ Sound(down') /\ down'.bytes = down.bytes /\ down'.taken = 0 + 2
  BY <1>1, DialTakes DEF DownInv, DialAt
<1>3. CASE DialTo("reply", 4)
  <2>1. "reply" \in DialStates \ {"open", "dead"} /\ 4 \in Nat
    BY DEF DialStates
  <2>2. ASSUME dial'.at = "reply", dial'.need = 4
        PROVE  DialAt'
    BY <1>2, <2>2 DEF DialAt
  <2> QED  BY <1>2, <1>3, <2>1, <2>2, DialGoes
<1>4. CASE DialTo("failed", 0)
  BY <1>2, <1>4, DialGivesUp
<1> QED
  BY <1>3, <1>4 DEF ReadMethod

LEMMA Step_ReadReply ==
  ASSUME DownInv, ReadReply
  PROVE  DownInv'
<1>1. DialReads("reply")
  BY DEF ReadReply
<1>2. dial.at = "reply" /\ down.taken = 2 /\ dial.need = 4
  BY <1>1, DialTakes DEF DownInv, DialAt
<1>3. /\ Sound(down') /\ down'.bytes = down.bytes /\ down'.taken = 2 + 4
      /\ \A i \in 1..4 : Reply[i] = down.bytes[2 + i]
  BY <1>1, <1>2, DialTakes
<1>4. /\ Reply[2] = proxy.rep /\ Reply[4] = proxy.atyp
  BY <1>3, ReplyFields
<1>5. CASE DialTo("failed", 0)
  BY <1>2, <1>3, <1>5, DialGivesUp
<1>6. CASE proxy.atyp \in {IPv4, IPv6} /\ DialTo("drain", BoundSize(proxy.atyp))
  <2>1. Fits(proxy.atyp, proxy.bound) /\ Len(proxy.bound) \in Nat
    BY ReplyFields
  <2>2. BoundSize(proxy.atyp) = Len(proxy.bound) + 2
    BY <1>6, <2>1 DEF BoundSize, Fits, IPv4, IPv6
  <2>3. Prefixed(proxy.atyp) = 0
    BY <1>6 DEF Prefixed, IPv4, IPv6, Domain
  <2>4. 2 + 4 + BoundSize(proxy.atyp) = ReplyEnd(proxy)
    BY <2>1, <2>2, <2>3 DEF ReplyEnd
  <2>5. "drain" \in DialStates \ {"open", "dead"} /\ BoundSize(proxy.atyp) \in Nat
    BY <2>1, <2>2 DEF DialStates
  <2>6. ASSUME dial'.at = "drain", dial'.need = BoundSize(proxy.atyp), proxy' = proxy
        PROVE  DialAt'
    BY <1>3, <2>4, <2>6 DEF DialAt
  <2> QED  BY <1>2, <1>3, <1>6, <2>5, <2>6, DialGoes
<1>7. CASE proxy.atyp = Domain /\ DialTo("length", 1)
  <2>1. "length" \in DialStates \ {"open", "dead"} /\ 1 \in Nat
    BY DEF DialStates
  <2>2. ASSUME dial'.at = "length", dial'.need = 1, proxy' = proxy
        PROVE  DialAt'
    BY <1>3, <1>7, <2>2 DEF DialAt
  <2> QED  BY <1>2, <1>3, <1>7, <2>1, <2>2, DialGoes
<1>8. \/ DialTo("failed", 0)
      \/ proxy.atyp \in {IPv4, IPv6} /\ DialTo("drain", BoundSize(proxy.atyp))
      \/ proxy.atyp = Domain /\ DialTo("length", 1)
  BY <1>4 DEF ReadReply
<1> QED
  BY <1>5, <1>6, <1>7, <1>8

LEMMA Step_ReadBoundLength ==
  ASSUME DownInv, ReadBoundLength
  PROVE  DownInv'
<1> DEFINE n == Len(proxy.bound)
<1>1. DialReads("length") /\ DialTo("drain", Reply[1] + 2)
  BY DEF ReadBoundLength
<1>2. /\ dial.at = "length" /\ proxy.atyp = Domain
      /\ down.taken = 6 /\ dial.need = 1
  BY <1>1, DialTakes DEF DownInv, DialAt
<1>3. /\ Sound(down') /\ down'.bytes = down.bytes /\ down'.taken = 6 + 1
      /\ \A i \in 1..1 : Reply[i] = down.bytes[6 + i]
  BY <1>1, <1>2, DialTakes
<1>4. Reply[1] = n /\ n \in Nat
  BY <1>2, <1>3, ReplyFields
<1> HIDE DEF n
<1>5. 6 + 1 + (n + 2) = ReplyEnd(proxy)
  BY <1>2, <1>4 DEF ReplyEnd, Prefixed, n
<1>6. "drain" \in DialStates \ {"open", "dead"} /\ n + 2 \in Nat
  BY <1>4 DEF DialStates
<1>7. DialTo("drain", n + 2)
  BY <1>1, <1>4
<1>8. ASSUME dial'.at = "drain", dial'.need = n + 2, proxy' = proxy
      PROVE  DialAt'
  BY <1>3, <1>5, <1>8 DEF DialAt
<1> QED
  BY <1>2, <1>3, <1>6, <1>7, <1>8, DialGoes

LEMMA Step_Drain ==
  ASSUME DownInv, Drain
  PROVE  DownInv'
<1>1. DialReads("drain") /\ DialTo("open", 0)
  BY DEF Drain
<1>2. /\ dial.at = "drain" /\ Sound(down') /\ down'.bytes = down.bytes
      /\ down'.taken = ReplyEnd(proxy)
  BY <1>1, DialTakes DEF DownInv, DialAt
<1> QED
  BY <1>1, <1>2, DialOpens

LEMMA Step_DrainFails ==
  ASSUME DownInv, DrainFails
  PROVE  DownInv'
<1>1. PICK n \in 0..(dial.need - 1) :
        /\ Has(down, n)
        /\ expired \/ (Short(down, dial.need) /\ ~Has(down, n + 1))
        /\ down' = Took(down, n)
  BY DEF DrainFails
<1>2. /\ dial.at = "drain" /\ DialTo("open", 0) /\ Sound(down) /\ dial.need \in Nat
  BY DEF DrainFails, DownInv
<1>3. n \in Nat
  BY <1>2
<1>4. /\ Sound(down') /\ down'.bytes = down.bytes
      /\ down'.arrived = down.arrived /\ down'.eof = down.eof
      /\ down'.taken = down.taken + n
  BY <1>1, <1>2, <1>3, SoundTook
<1>5. expired \/ (down'.eof /\ down'.taken = down'.arrived)
  <2> SUFFICES ASSUME ~expired PROVE down'.eof /\ down'.taken = down'.arrived
    OBVIOUS
  <2>1. /\ down.arrived \in Nat /\ down.taken \in Nat
    BY <1>2 DEF Sound, Connection
  <2>2. /\ down.eof /\ down.arrived - down.taken >= n
        /\ ~(down.arrived - down.taken >= n + 1)
    BY <1>1 DEF Has, Short
  <2> QED  BY <1>3, <1>4, <2>1, <2>2
<1> QED
  BY <1>2, <1>4, <1>5, DialOpens

LEMMA Step_DialFails ==
  ASSUME DownInv, DialFails
  PROVE  DownInv'
  BY DialGivesUp DEF DialFails, DownInv

LEMMA DownDials ==
  ASSUME DownInv, DialStep
  PROVE  DownInv'
  BY Step_DialProxy, Step_ReadMethod, Step_ReadReply, Step_ReadBoundLength,
     Step_Drain, Step_DrainFails, Step_DialFails
  DEF DialStep

-----------------------------------------------------------------------------
(* The connection from the proxy, and readLoop *)

LEMMA Step_ProxySends ==
  ASSUME DownInv, ProxySends
  PROVE  DownInv'
<1>1. /\ proxy' = proxy /\ dial' = dial /\ expired' = expired /\ got' = got
      /\ replies' = replies
  BY DEF ProxySends, scripts, relay
<1>2. /\ Sound(down') /\ down'.bytes = down.bytes /\ down'.taken = down.taken
      /\ ~down.eof
  <2>1. Sound(down) /\ Len(down.bytes) >= ReplyEnd(proxy) /\ Len(down.bytes) \in Nat
    BY LenProperties DEF DownInv, Sound, Connection
  <2>2. CASE Ends(down)
    <3>1. ~down.eof /\ down' = [down EXCEPT !.eof = TRUE]
      BY <2>2 DEF Ends
    <3> QED  BY <2>1, <3>1, SoundEnded
  <2>3. CASE Arrives(down, 2) \/ Arrives(down, Len(down.bytes))
    <3>1. down.arrived \in Nat
      BY <2>1 DEF Sound, Connection
    <3>2. /\ ~down.eof /\ down.arrived < Len(down.bytes)
          /\ down' = [down EXCEPT !.arrived = @ + 1]
      BY <2>1, <2>3, <3>1, ReplyFields DEF Arrives
    <3> QED  BY <2>1, <3>2, SoundArrived
  <2> QED  BY <2>2, <2>3 DEF ProxySends
<1>3. DialAt'
  BY <1>1, <1>2 DEF DownInv, DialAt
<1>4. CleanStart'
  BY <1>1, <1>2 DEF DownInv, CleanStart
<1>5. dial.at \in {"open", "dead"} => Reading'
  BY <1>1, <1>2 DEF DownInv, Reading
<1> QED
  BY <1>1, <1>2, <1>3, <1>4, <1>5 DEF DownInv

LEMMA Step_AggregatorSends ==
  ASSUME DownInv, AggregatorSends
  PROVE  DownInv'
<1> DEFINE f == Answers[Len(replies) + 1]
           b == BuildFrame(f)
<1>1. /\ dial.at \in {"reply", "length", "drain", "open"} /\ ~down.eof
      /\ Len(replies) < Len(Answers)
      /\ down' = [down EXCEPT !.bytes = @ \o b]
      /\ replies' = Append(replies, f)
      /\ proxy' = proxy /\ dial' = dial /\ expired' = expired /\ got' = got
  BY DEF AggregatorSends, scripts
<1>2. /\ Sound(down) /\ Legal(replies) /\ Proxy(proxy)
      /\ Len(down.bytes) >= ReplyEnd(proxy)
      /\ \A i \in 1..ReplyEnd(proxy) : down.bytes[i] = ReplyBytes(proxy)[i]
  BY DEF DownInv
<1>3. LegalFrame(f)
  <2>1. Len(replies) \in Nat /\ Len(Answers) \in Nat /\ Answers \in Seq(Frames)
    BY <1>2, LenProperties, AnswersAssumption DEF Legal
  <2>2. Len(replies) + 1 \in 1..Len(Answers)
    BY <1>1, <2>1
  <2>3. f \in Frames
    BY <2>1, <2>2, ElementOfSeq
  <2> QED  BY <2>2, <2>3, AnswersAssumption DEF LegalFrame
<1> HIDE DEF f
<1>4. b \in Seq(Words)
  BY <1>3, FrameItems
<1> HIDE DEF b
<1>5. /\ Sound(down') /\ down'.bytes = down.bytes \o b /\ down'.taken = down.taken
      /\ down'.eof = down.eof
  <2>1. down' = [down EXCEPT !.bytes = @ \o b] /\ Sound(down)
    BY <1>1, <1>2
  <2> QED  BY <2>1, <1>4, SoundPut
<1>6. down.bytes \in Seq(Words)
  BY <1>2 DEF Sound, Connection
<1>7. /\ Len(down'.bytes) >= ReplyEnd(proxy)
      /\ \A i \in 1..ReplyEnd(proxy) : down'.bytes[i] = ReplyBytes(proxy)[i]
  <2>1. /\ Len(down.bytes \o b) = Len(down.bytes) + Len(b)
        /\ Len(b) \in Nat /\ Len(down.bytes) \in Nat
        /\ \A i \in 1..Len(down.bytes) : (down.bytes \o b)[i] = down.bytes[i]
    BY <1>4, <1>6, Joined
  <2>2. ReplyEnd(proxy) \in Nat
    BY ReplyFields
  <2>3. Len(down'.bytes) >= ReplyEnd(proxy)
    BY <1>2, <1>5, <2>1, <2>2
  <2>4. ASSUME NEW i \in 1..ReplyEnd(proxy)
        PROVE  down'.bytes[i] = ReplyBytes(proxy)[i]
    <3>1. i \in 1..Len(down.bytes)
      BY <1>2, <2>1, <2>2
    <3> QED  BY <1>2, <1>5, <2>1, <3>1
  <2> QED  BY <2>3, <2>4
<1>8. ASSUME NEW read, NEW pos, Len(read) \in Nat,
             InStep(down.bytes, ReplyEnd(proxy), replies, read, pos)
      PROVE  InStep(down'.bytes, ReplyEnd(proxy), replies', read, pos)
  BY <1>1, <1>2, <1>3, <1>5, <1>6, <1>8, PutNext DEF b
<1>9. Legal(replies')
  <2>1. /\ replies' \in Seq(Frames) /\ Len(replies) \in Nat
        /\ Len(replies') = Len(replies) + 1
        /\ \A i \in 1..Len(replies) : replies'[i] = replies[i]
        /\ replies'[Len(replies) + 1] = f
    BY <1>1, <1>2, <1>3, LastAppended
  <2> QED  BY <1>2, <1>3, <2>1 DEF Legal
<1>10. dial.at \notin {"open", "dead"} =>
         /\ got' = <<>>
         /\ InStep(down'.bytes, ReplyEnd(proxy), replies', <<>>, ReplyEnd(proxy))
  BY <1>1, <1>8, EmptySeq DEF DownInv
<1>11. dial.at \in {"open", "dead"} => Reading'
  <2> SUFFICES ASSUME dial.at \in {"open", "dead"}, ~expired PROVE Reading'
    BY <1>1 DEF Reading
  <2>1. /\ Legal(got)
        /\ InStep(down.bytes, ReplyEnd(proxy), replies, got, down.taken)
    BY <1>1 DEF DownInv, Reading
  <2>2. Len(got) \in Nat
    BY <2>1, LegalFacts
  <2>3. InStep(down'.bytes, ReplyEnd(proxy), replies', got, down.taken)
    BY <1>8, <2>1, <2>2
  <2> QED  BY <1>1, <1>5, <2>1, <2>3 DEF Reading
<1>12. DialAt' /\ CleanStart'
  BY <1>1, <1>5 DEF DownInv, DialAt, CleanStart
<1> QED
  BY <1>1, <1>2, <1>5, <1>7, <1>9, <1>10, <1>11, <1>12 DEF DownInv

LEMMA Step_Expire ==
  ASSUME DownInv, Expire
  PROVE  DownInv'
<1>1. /\ proxy' = proxy /\ dial' = dial /\ down' = down /\ got' = got
      /\ replies' = replies /\ expired' = TRUE
  BY DEF Expire, scripts, relay
<1> QED
  BY <1>1 DEF DownInv, DialAt, Reading, CleanStart

LEMMA Step_ReadFrame ==
  ASSUME DownInv, ReadFrame
  PROVE  DownInv'
<1> DEFINE size == FrameSize(Unread(down))
           f == replies[Len(got) + 1]
<1>1. /\ dial.at = "open" /\ Has(down, HeaderSize) /\ Has(down, size)
      /\ down' = Took(down, size) /\ got' = Append(got, Decode(Unread(down)))
      /\ proxy' = proxy /\ dial' = dial /\ expired' = expired /\ replies' = replies
  BY DEF ReadFrame, ReadsFrame, scripts, relay
<1>2. Sound(down) /\ Legal(replies) /\ Reading
  BY <1>1 DEF DownInv
<1>3. size \in Nat
  BY <1>1, <1>2, FrameSizeType
<1>4. /\ Sound(down') /\ down'.bytes = down.bytes
      /\ down'.taken = down.taken + size /\ down'.eof = down.eof
  BY <1>1, <1>2, <1>3, SoundTook
<1>5. Reading'
  <2> SUFFICES ASSUME ~expired PROVE Reading'
    BY <1>1 DEF Reading
  <2>1. down.taken # down.arrived
    <3>1. down.taken \in Nat /\ down.arrived \in Nat
      BY <1>2 DEF Sound, Connection
    <3> QED  BY <1>1, <3>1 DEF Has, HeaderSize
  <2>2. /\ Legal(got)
        /\ InStep(down.bytes, ReplyEnd(proxy), replies, got, down.taken)
    BY <1>2, <2>1 DEF Reading
  <2>3. /\ size = Size(f)
        /\ Has(down, Size(f)) =>
             /\ Decode(Unread(down)) = f
             /\ Legal(Append(got, f))
             /\ InStep(down.bytes, ReplyEnd(proxy), replies, Append(got, f),
                       down.taken + Size(f))
    BY <1>1, <1>2, <2>2, GetNext DEF Sound
  <2> HIDE DEF f, size
  <2>4. /\ Legal(got')
        /\ InStep(down'.bytes, ReplyEnd(proxy'), replies', got', down'.taken)
    BY <1>1, <1>4, <2>3
  <2> QED  BY <2>4 DEF Reading
<1>6. DialAt' /\ CleanStart'
  BY <1>1 DEF DialAt, CleanStart
<1> QED
  BY <1>1, <1>4, <1>5, <1>6 DEF DownInv

LEMMA Step_ReadFails ==
  ASSUME DownInv, ReadFails
  PROVE  DownInv'
<1>1. /\ dial.at = "open" /\ DialTo("dead", 0) /\ down' = down
      /\ Garbled(down) \/ down.eof
  BY DEF ReadFails
<1>2. /\ dial' = [at |-> "dead", need |-> 0] /\ proxy' = proxy
      /\ expired' = expired /\ got' = got /\ replies' = replies
  BY <1>1 DEF DialTo, scripts, relay
<1>3. dial' \in [at : DialStates, need : Nat] /\ dial'.at = "dead"
  BY <1>2 DEF DialStates
<1>4. Sound(down) /\ Legal(replies) /\ Reading
  BY <1>1 DEF DownInv
<1>5. ASSUME ~expired, ~down.eof
      PROVE  FALSE
  <2>1. /\ Legal(got)
        /\ InStep(down.bytes, ReplyEnd(proxy), replies, got, down.taken)
    BY <1>4, <1>5 DEF Reading
  <2>2. Has(down, HeaderSize) /\ ~ValidHeader(Unread(down))
    BY <1>1, <1>5 DEF Garbled
  <2>3. ValidHeader(Unread(down))
    BY <1>4, <2>1, <2>2, GetNext DEF Sound
  <2> QED  BY <2>2, <2>3
<1>6. CleanStart'
  BY <1>1, <1>2, <1>5 DEF CleanStart
<1>7. DialAt' /\ Reading'
  BY <1>1, <1>2, <1>3, <1>4 DEF DialAt, Reading
<1> QED
  BY <1>1, <1>2, <1>3, <1>6, <1>7 DEF DownInv

-----------------------------------------------------------------------------
(* The invariant *)

LEMMA Initially ==
  ASSUME Init
  PROVE  IInv
  BY HandInit, UpInit, DownInit DEF IInv

\* The handshake with the application changes nothing that the bearer knows, and
\* the bearer nothing of the handshake or the stream.
LEMMA SocksStep ==
  ASSUME IInv, ServerStep \/ AppSends
  PROVE  IInv'
<1>1. HandInv /\ SentInv /\ UpInv /\ DownInv
  BY DEF IInv
<1>2. HandInv'
  BY <1>1, HandStep, HandHears
<1>3. /\ app' = app /\ proxy' = proxy /\ UNCHANGED <<bearer, relay>> /\ next' = next
      /\ out' = out \/ (out = "none" /\ out' = "syn")
  <2>1. CASE ReadPort
    <3>1. server.at = "port"
      BY <2>1 DEF ReadPort, ServerReads
    <3>2. out = "none"
      BY <1>1, <3>1 DEF HandInv
    <3> QED  BY <2>1, <3>2 DEF ReadPort, scripts
  <2>2. CASE ReadVersion
    BY <2>2 DEF ReadVersion, Refuse, Goes, scripts, stream
  <2>3. CASE ReadMethods
    BY <2>3 DEF ReadMethods, Refuse, Goes, scripts, stream
  <2>4. CASE ReadRequest
    <3>1. \E at, need, reply : Goes(at, need, reply)
      BY <2>4 DEF ReadRequest, Refuse
    <3> QED  BY <3>1 DEF Goes, scripts, stream
  <2>5. CASE ReadLength
    BY <2>5 DEF ReadLength, Goes, scripts, stream
  <2>6. CASE ReadAddress
    BY <2>6 DEF ReadAddress, scripts, stream
  <2>7. CASE HandshakeFails
    BY <2>7 DEF HandshakeFails, Refuse, Goes, scripts, stream
  <2>8. CASE AppSends
    BY <2>8 DEF AppSends, scripts, stream
  <2> QED
    BY <2>1, <2>2, <2>3, <2>4, <2>5, <2>6, <2>7, <2>8 DEF ServerStep
<1>4. /\ up' = up /\ sent' = sent /\ received' = received /\ replies' = replies
  BY <1>3 DEF relay
<1>5. SentInv' /\ UpInv' /\ DownInv'
  BY <1>1, <1>3, <1>4, SentKept, UpKept, DownKept
<1> QED
  BY <1>2, <1>5 DEF IInv

LEMMA BearerStep ==
  ASSUME IInv,
         ProxySends \/ AggregatorSends \/ DialStep \/ Expire \/ ReadFrame \/ ReadFails
  PROVE  IInv'
<1>1. HandInv /\ SentInv /\ UpInv /\ DownInv
  BY DEF IInv
<1>2. DownInv'
  BY <1>1, DownDials, Step_ProxySends, Step_AggregatorSends, Step_Expire,
     Step_ReadFrame, Step_ReadFails
<1>3. UNCHANGED <<scripts, socks, stream>> /\ UNCHANGED <<up, sent, received>>
  <2>1. CASE DialStep
    BY <2>1 DEF DialStep, DialProxy, ReadMethod, ReadReply, ReadBoundLength, Drain,
                DrainFails, DialFails, DialTo, relay
  <2>2. CASE ProxySends \/ Expire
    BY <2>2 DEF ProxySends, Expire, relay
  <2>3. CASE AggregatorSends
    BY <2>3 DEF AggregatorSends
  <2>4. CASE ReadFrame
    BY <2>4 DEF ReadFrame, relay
  <2>5. CASE ReadFails
    BY <2>5 DEF ReadFails, DialTo, relay
  <2> QED
    BY <2>1, <2>2, <2>3, <2>4, <2>5
<1>4. HandInv'
  BY <1>1, <1>3, HandKept
<1>5. SentInv' /\ UpInv'
  BY <1>1, <1>3, SentKept, UpKept DEF scripts, stream
<1> QED
  BY <1>2, <1>4, <1>5 DEF IInv

LEMMA StreamStep ==
  ASSUME IInv, SendSYN \/ SendChunk \/ SendFIN
  PROVE  IInv'
<1>1. HandInv' /\ SentInv' /\ UpInv'
  BY Step_SendSYN, Step_SendChunk, Step_SendFIN
<1>2. proxy' = proxy /\ UNCHANGED <<bearer, replies>>
  BY DEF SendSYN, SendChunk, SendFIN, Sends, scripts
<1>3. DownInv'
  BY <1>2, DownKept DEF IInv
<1> QED
  BY <1>1, <1>3 DEF IInv

LEMMA RelayStep ==
  ASSUME IInv, Relays \/ ServerReadsFrame
  PROVE  IInv'
<1>1. HandInv /\ SentInv /\ UpInv /\ DownInv
  BY DEF IInv
<1>2. UpInv'
  BY <1>1, Step_Relays, Step_ServerReadsFrame
<1>3. /\ UNCHANGED <<scripts, socks, stream>> /\ UNCHANGED <<bearer, replies>>
      /\ sent' = sent
  BY DEF Relays, ServerReadsFrame
<1>4. HandInv' /\ SentInv' /\ DownInv'
  BY <1>1, <1>3, HandKept, SentKept, DownKept DEF scripts, stream
<1> QED
  BY <1>2, <1>4 DEF IInv

LEMMA Unmoved ==
  ASSUME IInv, UNCHANGED vars
  PROVE  IInv'
<1>1. HandInv /\ SentInv /\ UpInv /\ DownInv
  BY DEF IInv
<1>2. /\ UNCHANGED <<scripts, socks, stream>> /\ UNCHANGED <<bearer, replies>>
      /\ UNCHANGED <<up, sent, received>>
  BY DEF vars, relay
<1>3. HandInv' /\ SentInv' /\ UpInv' /\ DownInv'
  BY <1>1, <1>2, HandKept, SentKept, UpKept, DownKept DEF scripts, stream
<1> QED
  BY <1>3 DEF IInv

LEMMA Inductive ==
  ASSUME IInv, [Next]_vars
  PROVE  IInv'
  BY SocksStep, BearerStep, StreamStep, RelayStep, Unmoved DEF Next

LEMMA Invariance == Spec => []IInv
<1>1. Init => IInv
  BY Initially
<1>2. IInv /\ [Next]_vars => IInv'
  BY Inductive
<1> QED
  BY <1>1, <1>2, PTL DEF Spec

-----------------------------------------------------------------------------
(* What follows from it *)

LEMMA Typed ==
  ASSUME IInv
  PROVE  TypeOK
<1>1. HandInv /\ UpInv /\ DownInv
  BY DEF IInv
<1>2. WellFormed(local) /\ WellFormed(down) /\ WellFormed(up)
  BY <1>1 DEF HandInv, UpInv, DownInv, Sound
<1>3. out # "none" => target \in Seq(Bytes)
  <2> SUFFICES ASSUME out # "none" PROVE target \in Seq(Bytes)
    OBVIOUS
  <2>1. Application(app) /\ Proper(app) /\ target = Asked(app)
    BY <1>1, Sending DEF HandInv
  <2> QED  BY <2>1, AskedFacts
<1>4. /\ server.at \in HandStates /\ server.need \in Nat /\ server.host \in Seq(Bytes)
      /\ dial.at \in DialStates /\ dial.need \in Nat
  BY <1>1 DEF HandInv, DownInv
<1>5. next \in Nat /\ out \in {"none", "syn", "read", "done"} /\ expired \in BOOLEAN
  BY <1>1 DEF HandInv, DownInv
<1> QED
  BY <1>2, <1>3, <1>4, <1>5 DEF TypeOK, HandStates, DialStates

\* The connections hold what they may hold at every step, each machine is in one
\* of its states, and the target that a stream sends is text: so no length that
\* the code reads from a connection is anything but a number it can wait for
\* (dispatcher.go, socks5dialer.go, frame.go).
THEOREM TypeCorrect == Spec => []TypeOK
<1>1. IInv => TypeOK
  BY Typed
<1> QED
  BY <1>1, Invariance, PTL

LEMMA PrefixFacts ==
  ASSUME NEW R, NEW s \in Seq(R)
  PROVE  IsPrefix(<<>>, s) /\ IsPrefix(s, s)
<1>1. Len(s) \in Nat /\ Len(<<>>) = 0
  OBVIOUS
<1>2. SubSeq(<<>>, 1, 0) = SubSeq(s, 1, 0)
  BY <1>1
<1> QED
  BY <1>1, <1>2 DEF IsPrefix

\* What the application is told when the invariants hold is what is due.
LEMMA ToldDue ==
  ASSUME IInv, ToldInv
  PROVE  RightAnswer
<1>1. /\ Application(app) /\ server.at \in HandStates
      /\ out = "none" <=> server.at # "done"
      /\ server.at \notin {"version", "methods", "closed"} =>
           app.version = Ver /\ NoAuth(app.methods)
      /\ server.at = "done" => Proper(app)
  BY DEF IInv, HandInv, HandAt, HandStates, Proper, NoAuth
<1>2. DueMethod(app) \in {<<>>, <<"no auth">>, <<"no method">>}
  BY DEF DueMethod
<1>3. DueMethod(app) = <<"no auth">> =>
        Due(app) \in {<<"no auth">>, <<"no auth", "no command">>,
                     <<"no auth", "no type">>, <<"no auth", "connected">>}
  <2>1. /\ <<"no auth">> \o <<"no command">> = <<"no auth", "no command">>
        /\ <<"no auth">> \o <<"no type">> = <<"no auth", "no type">>
    BY TwoReplies
  <2> QED  BY <1>1, <2>1, AllDue, Replies
<1>4. IsPrefix(<<>>, Due(app)) /\ IsPrefix(Due(app), Due(app))
  <2> DEFINE R == {"no auth", "no method", "no command", "no type", "connected"}
  <2>1. Due(app) \in Seq(R)
    <3>1. /\ <<>> \in Seq(R) /\ <<"no auth">> \in Seq(R) /\ <<"no method">> \in Seq(R)
          /\ <<"no auth", "no command">> \in Seq(R)
          /\ <<"no auth", "no type">> \in Seq(R)
          /\ <<"no auth", "connected">> \in Seq(R)
      OBVIOUS
    <3> HIDE DEF R
    <3> QED  BY <1>1, <1>2, <1>3, <3>1, AllDue
  <2> HIDE DEF R
  <2> QED  BY <2>1, PrefixFacts
<1>6. DueMethod(app) = <<"no auth">> => IsPrefix(<<"no auth">>, Due(app))
  <2>1. IsPrefix(<<"no auth">>, <<"no auth">>)
    BY DEF IsPrefix
  <2> QED  BY <1>3, <2>1, TwoReplies
<1>7. ~Proper(app) => Due(app) # <<"no auth", "connected">>
  <2>1. /\ <<>> # <<"no auth", "connected">>
        /\ <<"no auth">> # <<"no auth", "connected">>
        /\ <<"no method">> # <<"no auth", "connected">>
    OBVIOUS
  <2>2. /\ <<"no auth", "no command">> # <<"no auth", "connected">>
        /\ <<"no auth", "no type">> # <<"no auth", "connected">>
    <3>1. "no command" # "connected" /\ "no type" # "connected"
      OBVIOUS
    <3> QED  BY <3>1, TwoReplies
  <2>3. ~Proper(app) /\ DueMethod(app) = <<"no auth">> =>
          Due(app) \in {<<"no auth">>, <<"no auth", "no command">>,
                       <<"no auth", "no type">>}
    <3>1. /\ <<"no auth">> \o <<"no command">> = <<"no auth", "no command">>
          /\ <<"no auth">> \o <<"no type">> = <<"no auth", "no type">>
      BY TwoReplies
    <3>2. ~Proper(app) /\ DueMethod(app) = <<"no auth">> =>
            DueAnswer(app) \in {<<>>, <<"no command">>, <<"no type">>}
      BY <1>1, AllDue
    <3>3. DueMethod(app) = <<"no auth">> => Due(app) = <<"no auth">> \o DueAnswer(app)
      BY <1>1, AllDue
    <3>4. <<"no auth">> \o <<>> = <<"no auth">>
      BY Replies
    <3> QED  BY <3>1, <3>2, <3>3, <3>4
  <2> QED  BY <1>1, <1>2, <2>1, <2>2, <2>3, AllDue
<1>8. Proper(app) => Due(app) = <<"no auth", "connected">>
  BY <1>1, AllDue, Replies
<1>9. /\ <<>> # <<"no auth", "connected">>
      /\ <<"no auth">> # <<"no auth", "connected">>
  OBVIOUS
<1>10. CASE server.at \in {"version", "methods"}
  <2>1. told = <<>> /\ out = "none" /\ server.at # "closed"
    BY <1>1, <1>10 DEF ToldInv
  <2> QED  BY <2>1, <1>4, <1>9 DEF RightAnswer
<1>11. CASE server.at \in {"request", "length", "address", "port"}
  <2>1. told = <<"no auth">> /\ out = "none" /\ server.at # "closed"
    BY <1>1, <1>11 DEF ToldInv
  <2>2. DueMethod(app) = <<"no auth">>
    BY <1>1, <1>11, MethodDue
  <2> QED  BY <2>1, <2>2, <1>6, <1>9 DEF RightAnswer
<1>12. CASE server.at = "done"
  <2>1. told = <<"no auth", "connected">> /\ out # "none" /\ told = Due(app)
    BY <1>1, <1>8, <1>12 DEF ToldInv
  <2> QED  BY <2>1, <1>4, <1>12 DEF RightAnswer
<1>13. CASE server.at = "closed"
  <2>1. out = "none"
    BY <1>1, <1>13
  <2>2. CASE told = Due(app) /\ ~Proper(app)
    BY <2>1, <2>2, <1>4, <1>7 DEF RightAnswer
  <2>3. CASE local.eof /\ told = <<>>
    BY <2>1, <2>3, <1>4, <1>9 DEF RightAnswer
  <2>4. CASE local.eof /\ told = <<"no auth">> /\ DueMethod(app) = <<"no auth">>
    BY <2>1, <2>4, <1>6, <1>9 DEF RightAnswer
  <2> QED  BY <1>13, <2>2, <2>3, <2>4 DEF ToldInv
<1> QED
  BY <1>1, <1>10, <1>11, <1>12, <1>13 DEF HandStates

\* An application is told that it is connected only if it spoke SOCKS5, offered
\* NO_AUTH and asked for an address of a known type, and otherwise what refuses
\* it, whatever the lengths of what it says and however it arrives; it is let go
\* without that only when it has left, and a stream starts exactly with the
\* "connected" (socks5ServerHandshake of dispatcher.go).
THEOREM AnswersRight == Spec => []RightAnswer
<1>1. Init => ToldInv
  BY ToldInit
<1>2. IInv /\ ToldInv /\ [Next]_vars => ToldInv'
  BY ToldStep DEF IInv
<1>3. IInv /\ ToldInv => RightAnswer
  BY ToldDue
<1> QED
  BY <1>1, <1>2, <1>3, Invariance, PTL DEF Spec

LEMMA SaysAsked ==
  ASSUME IInv
  PROVE  RequestsExact
<1>1. HandInv /\ SentInv /\ UpInv
  BY DEF IInv
<1>2. /\ Legal(sent) /\ Legal(received) /\ FirstOf(received, sent)
  BY <1>1 DEF UpInv, InStep
<1>3. /\ Len(received) \in Nat /\ Len(sent) \in Nat /\ Len(received) <= Len(sent)
      /\ \A i \in 1..Len(received) : received[i] = sent[i]
  BY <1>2, LegalFacts DEF FirstOf
<1> SUFFICES ASSUME received # <<>>
             PROVE  /\ received[1].flag = SYN
                    /\ DecodeTarget(received[1].payload) = Asked(app)
                    /\ \A i \in 2..Len(received) : CarriesNext(app.data, received, i)
  BY DEF RequestsExact
<1>4. Len(received) > 0
  BY <1>2, EmptySeq DEF Legal
<1>5. sent # <<>> /\ received[1] = sent[1]
  <2>1. Len(sent) # 0 /\ 1 \in 1..Len(received)
    BY <1>3, <1>4
  <2> QED  BY <1>3, <2>1, EmptySeq
<1>6. /\ received[1].flag = SYN /\ received[1].payload = EncodeTarget(Asked(app))
      /\ out # "none"
  BY <1>1, <1>5 DEF SentInv
<1>7. DecodeTarget(received[1].payload) = Asked(app)
  <2>1. Application(app) /\ Proper(app)
    BY <1>1, <1>6, Sending DEF HandInv
  <2> QED  BY <1>6, <2>1, AskedFacts, TargetReadsBack
<1>8. ASSUME NEW i \in 2..Len(received)
      PROVE  CarriesNext(app.data, received, i)
  <2>1. i \in 1..Len(received) /\ i - 1 \in 1..Len(received) /\ i \in 2..Len(sent)
    BY <1>3
  <2>2. received[i] = sent[i] /\ received[i - 1] = sent[i - 1]
    BY <1>3, <2>1
  <2>3. CarriesNext(app.data, sent, i)
    BY <1>1, <2>1 DEF SentInv
  <2> QED  BY <2>2, <2>3 DEF CarriesNext
<1> QED
  BY <1>6, <1>7, <1>8

LEMMA HearsReplies ==
  ASSUME IInv
  PROVE  expired \/ IsPrefix(got, replies)
<1> SUFFICES ASSUME ~expired PROVE IsPrefix(got, replies)
  OBVIOUS
<1>1. Legal(replies) /\ Legal(<<>>) /\ Len(replies) \in Nat
  BY EmptySeq, LegalFacts DEF IInv, DownInv, Legal
<1>2. Legal(got) /\ FirstOf(got, replies)
  <2>1. CASE got = <<>>
    <3>1. Len(<<>>) = 0
      BY EmptySeq
    <3> QED  BY <1>1, <2>1, <3>1 DEF FirstOf
  <2>2. CASE got # <<>>
    BY <2>2 DEF IInv, DownInv, Reading, InStep
  <2> QED  BY <2>1, <2>2
<1> QED
  BY <1>1, <1>2, FirstIsPrefix

\* For every script, size, chunk and cut of the connections into pieces: the
\* aggregator reads the SYN with the target that was asked for and then the
\* application's bytes from the first after its handshake on, each end reads
\* the frames that the other put on the bearer, first to last, and the client
\* gives the bearer up only with its connection or by a deadline in the drain.
THEOREM AlwaysTransparent == Spec => []Transparent
<1>1. IInv => Transparent
  <2>1. ASSUME IInv
        PROVE  IsPrefix(received, sent)
    BY <2>1, FirstIsPrefix DEF IInv, UpInv, InStep
  <2>2. IInv => CleanStart
    BY DEF IInv, DownInv
  <2> QED  BY <2>1, <2>2, SaysAsked, HearsReplies DEF Transparent
<1> QED
  BY <1>1, Invariance, PTL
=============================================================================
