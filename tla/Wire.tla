--------------------------------- MODULE Wire ---------------------------------
(***************************************************************************)
(* What goes over the connections, byte by byte: an application's SOCKS5   *)
(* handshake with the dispatcher, a bearer's with its DNS tunnel, and the  *)
(* frames that then share the bearer with what the handshake left unread   *)
(* (internal/multipath/dispatcher.go, socks5dialer.go, frame.go,           *)
(* sequencer.go, DecodeTarget of internal/aggregator/util.go).             *)
(*                                                                         *)
(* A connection delivers its bytes in order, in pieces of any size.  The   *)
(* application and the tunnel's proxy are external: each follows a script. *)
(* Numbers are the code's, but for the sizes of addresses; a header's      *)
(* magic, stream ID, sequence number and checksum are one item each of     *)
(* what a connection carries.                                              *)
(***************************************************************************)
EXTENDS Integers, Sequences, SequencesExt

CONSTANTS Byte,           \* the values of a byte: 256 in the code,
          Word,           \* and of a header's numbers
          Xored,          \* the exclusive or of two items
          IPv4Len, IPv6Len,
          ChunkSize,
          Magic, Colon, Bracket,
          Scripts,        \* pairs of an application's script [version, methods,
                          \* again, cmd, atyp, addr, port, data] and a proxy's
                          \* [version, method, rep, atyp, bound]
          Answers,        \* the frames that the aggregator has for the bearer
          None

Bytes == 0..(Byte - 1)
Words == 0..(Word - 1)
Ver == 5
Connect == 1
IPv4 == 1
Domain == 3
IPv6 == 4

ASSUME ByteAssumption == Byte \in Nat /\ Byte > 9
ASSUME WordAssumption == Word \in Nat /\ Word >= Byte
ASSUME XorAssumption == Xored \in [Words \X Words -> Words]
\* A chunk's length must fit into the header.
ASSUME ChunkAssumption == ChunkSize \in 1..(Byte * Byte - 1)
ASSUME LengthsAssumption == IPv4Len \in Bytes \ {0} /\ IPv6Len \in Bytes \ {0}
ASSUME MagicAssumption == Magic \in Words /\ {Colon, Bracket} \subseteq Bytes

\* What an application or a proxy writes is read as lengths and types say it is,
\* and sequence numbers do not wrap.
Fits(atyp, addr) ==
  /\ atyp = IPv4 => Len(addr) = IPv4Len
  /\ atyp = IPv6 => Len(addr) = IPv6Len
  /\ atyp = Domain => Len(addr) < Byte
Application(a) ==
  /\ a \in [version : Bytes, methods : Seq(Bytes), again : Bytes, cmd : Bytes,
            atyp : Bytes, addr : Seq(Bytes), port : Seq(Bytes), data : Seq(Bytes)]
  /\ Len(a.methods) < Byte /\ Len(a.port) = 2 /\ Len(a.data) < Word
  /\ Fits(a.atyp, a.addr)
Proxy(p) ==
  /\ p \in [version : Bytes, method : Bytes, rep : Bytes, atyp : Bytes,
            bound : Seq(Bytes)]
  /\ Fits(p.atyp, p.bound)
ASSUME ScriptsAssumption ==
  \A s \in Scripts : Application(s[1]) /\ Proxy(s[2])

\* A frame as SendFrame and BuildFrame take it.
Frames == [flag : Bytes, id : Words, seq : Words, payload : Seq(Bytes)]
ASSUME AnswersAssumption ==
  /\ Answers \in Seq(Frames)
  /\ \A i \in 1..Len(Answers) : Len(Answers[i].payload) < Byte * Byte

VARIABLES app, proxy,       \* the scripts
          local, down, up,  \* the connections: from the application, from the
                            \* proxy, and to the aggregator through the proxy
          server,           \* socks5ServerHandshake: [at, need, host]
          told,             \* what it wrote to the application
          target,           \* what it returned, or None
          out,              \* where runOutbound is
          next,             \* ByteSequencer.next
          sent, replies,    \* the frames written to the bearer at either end
          dial,             \* dialSOCKS5, then readLoop: [at, need]
          expired,          \* the handshake's deadline has passed
          got,              \* the frames that the client has read,
          received          \* and those that the aggregator has

scripts == <<app, proxy>>
socks == <<local, server, told, target>>
stream == <<out, next>>
bearer == <<dial, expired, down, got>>
relay == <<up, sent, received, replies>>
vars == <<scripts, socks, stream, bearer, relay>>

-----------------------------------------------------------------------------
(* Frames *)

\* PutUint16 and Uint16.
U16(n) == LET m == n % (Byte * Byte) IN <<m \div Byte, m % Byte>>
FromU16(hi, lo) == hi * Byte + lo

\* The checksum of the header, without its last byte.
a ## b == Xored[<<a, b>>]
Checksum(h) == h[1] ## h[2] ## h[3] ## h[4] ## h[5] ## h[6] ## h[7]

\* BuildFrame, and Encode of its header.
BuildFrame(f) ==
  LET h == <<Magic, 1, f.flag, f.id, f.seq>> \o U16(Len(f.payload))
  IN  h \o <<Checksum(h)>> \o f.payload

HeaderSize == 8

\* DecodeFrameHeader accepts the header at the start of b,
ValidHeader(b) ==
  b[1] = Magic /\ b[2] = 1 /\ Checksum(SubSeq(b, 1, 7)) = b[8]

\* and the frame is as long as that says.
FrameSize(b) == HeaderSize + FromU16(b[6], b[7])
Decode(b) ==
  [flag |-> b[3], id |-> b[4], seq |-> b[5],
   payload |-> SubSeq(b, HeaderSize + 1, FrameSize(b))]

SYN == 1
FIN == 2

EncodeTarget(addr) == U16(Len(addr)) \o addr

\* DecodeTarget; None is an error.
DecodeTarget(p) ==
  LET n == FromU16(p[1], p[2])
      addr == SubSeq(p, 3, 2 + n)
  IN  IF /\ Len(p) >= 2
         /\ n > 0 /\ Len(p) >= 2 + n
         /\ \E i \in 1..n : addr[i] = Colon
      THEN addr ELSE None

-----------------------------------------------------------------------------
(* Connections *)

Pipe(bytes) == [bytes |-> bytes, arrived |-> 0, taken |-> 0, eof |-> FALSE]

\* What has arrived and not been read; reading n bytes of it; and a read that
\* meets the end of the connection.
Unread(c) == SubSeq(c.bytes, c.taken + 1, c.arrived)
Has(c, n) == c.arrived - c.taken >= n
Took(c, n) == [c EXCEPT !.taken = @ + n]
Short(c, n) == c.eof /\ ~Has(c, n)

Arrives(c, limit) ==
  /\ ~c.eof
  /\ c.arrived < limit
  /\ c' = [c EXCEPT !.arrived = @ + 1]
Ends(c) == ~c.eof /\ c' = [c EXCEPT !.eof = TRUE]

Sized(atyp, addr) == IF atyp = Domain THEN <<Len(addr)>> \o addr ELSE addr

AppBytes(a) ==
  <<a.version, Len(a.methods)>> \o a.methods
    \o <<a.again, a.cmd, 0, a.atyp>> \o Sized(a.atyp, a.addr) \o a.port \o a.data

ReplyBytes(p) ==
  <<p.version, p.method>> \o <<Ver, p.rep, 0, p.atyp>>
    \o Sized(p.atyp, p.bound) \o <<0, 0>>

Init ==
  /\ \E p \in Scripts : app = p[1] /\ proxy = p[2]
  /\ local = Pipe(AppBytes(app))
  /\ down = Pipe(ReplyBytes(proxy))
  /\ up = Pipe(<<>>)
  /\ server = [at |-> "version", need |-> 2, host |-> <<>>]
  /\ told = <<>>
  /\ target = None
  /\ out = "none" /\ next = 0
  /\ sent = <<>> /\ replies = <<>>
  /\ dial = [at |-> "proxy", need |-> 0]
  /\ expired = FALSE
  /\ got = <<>> /\ received = <<>>

\* The application need not wait for replies.  The proxy answers what it was
\* asked.
AppSends ==
  /\ Arrives(local, Len(local.bytes)) \/ Ends(local)
  /\ UNCHANGED <<scripts, server, told, target, stream, bearer, relay>>
ProxySends ==
  /\ dial.at \notin {"proxy", "failed"}
  /\ Arrives(down, IF dial.at = "method" THEN 2 ELSE Len(down.bytes))
     \/ Ends(down)
  /\ UNCHANGED <<scripts, socks, stream, dial, expired, got, relay>>
Relays ==
  /\ Arrives(up, Len(up.bytes))
  /\ UNCHANGED <<scripts, socks, stream, bearer, sent, received, replies>>

\* A proxy that was asked to connect, and does, relays what the aggregator sends.
AggregatorSends ==
  /\ dial.at \in {"reply", "length", "drain", "open"} /\ proxy.rep = 0
  /\ ~down.eof
  /\ Len(replies) < Len(Answers)
  /\ LET f == Answers[Len(replies) + 1]
     IN  /\ down' = [down EXCEPT !.bytes = @ \o BuildFrame(f)]
         /\ replies' = Append(replies, f)
  /\ UNCHANGED <<scripts, socks, stream, dial, expired, got, up, sent, received>>

-----------------------------------------------------------------------------
(* socks5ServerHandshake *)

\* What readExact reads, in however many pieces it comes.
Wanted == SubSeq(local.bytes, local.taken + 1, local.taken + server.need)
ServerReads(at) ==
  /\ server.at = at
  /\ Has(local, server.need)
  /\ local' = Took(local, server.need)

\* The handshake goes on, or not, and `reply` is written to the application.
Goes(at, need, reply) ==
  /\ server' = [server EXCEPT !.at = at, !.need = need]
  /\ told' = told \o reply
  /\ UNCHANGED <<scripts, target, stream, bearer, relay>>
Refuse(reply) == Goes("closed", 0, reply)

ReadVersion ==
  /\ ServerReads("version")
  /\ IF Wanted[1] = Ver /\ Wanted[2] > 0 THEN Goes("methods", Wanted[2], <<>>)
                                         ELSE Refuse(<<>>)

\* Fault: only the first method that the application offers counts.
NoAuthFirst(methods) == methods[1] = 0

NoAuth(methods) == \E i \in 1..Len(methods) : methods[i] = 0

ReadMethods ==
  /\ ServerReads("methods")
  /\ IF NoAuth(Wanted) THEN \/ Goes("request", 4, <<"no auth">>)
                            \/ local.eof /\ Refuse(<<>>)
                       ELSE Refuse(<<"no method">>)

\* A request of an unknown version is not answered.
ReadRequest ==
  /\ ServerReads("request")
  /\ CASE Wanted[1] # Ver -> Refuse(<<>>)
       [] Wanted[1] = Ver /\ Wanted[2] # Connect -> Refuse(<<"no command">>)
       [] Wanted[1] = Ver /\ Wanted[2] = Connect ->
            CASE Wanted[4] = IPv4 -> Goes("address", IPv4Len, <<>>)
              [] Wanted[4] = IPv6 -> Goes("address", IPv6Len, <<>>)
              [] Wanted[4] = Domain -> Goes("length", 1, <<>>)
              [] OTHER -> Refuse(<<"no type">>)

ReadLength ==
  /\ ServerReads("length")
  /\ Goes("address", Wanted[1], <<>>)

\* An address as text; its digits are abstracted to the bytes they stand for.
Host(atyp, addr) ==
  IF atyp = IPv6 THEN <<Bracket>> \o addr \o <<Bracket>> ELSE addr

ReadAddress ==
  /\ ServerReads("address")
  /\ server' = [at |-> "port", need |-> 2, host |-> Host(app.atyp, Wanted)]
  /\ UNCHANGED <<scripts, told, target, stream, bearer, relay>>

\* The application is told that it is connected, and the stream starts.
ReadPort ==
  /\ ServerReads("port")
  /\ server' = [server EXCEPT !.at = "done", !.need = 0]
  /\ target' = server.host \o <<Colon>> \o Wanted
  /\ told' = Append(told, "connected")
  /\ out' = "syn"
  /\ UNCHANGED <<scripts, next, bearer, relay>>

\* The application is gone before it said all.
HandshakeFails ==
  /\ server.at \notin {"done", "closed"}
  /\ Short(local, server.need)
  /\ Refuse(<<>>)
  /\ UNCHANGED local

ServerStep ==
  \/ ReadVersion \/ ReadMethods \/ ReadRequest \/ ReadLength \/ ReadAddress
  \/ ReadPort \/ HandshakeFails

-----------------------------------------------------------------------------
(* dialSOCKS5, and readLoop *)

Handshaking == dial.at \in {"method", "reply", "length", "drain"}

DialTo(at, need) ==
  /\ dial' = [at |-> at, need |-> need]
  /\ UNCHANGED <<scripts, socks, stream, expired, got, relay>>

\* The proxy's port is reached, and the greeting written, or not.
DialProxy ==
  /\ dial.at = "proxy"
  /\ UNCHANGED down
  /\ DialTo("method", 2) \/ DialTo("failed", 0)

\* Fault: no deadline is set before the CONNECT reply is read.
ExpireLate ==
  /\ dial.at \in {"length", "drain"} /\ ~expired
  /\ expired' = TRUE
  /\ UNCHANGED <<scripts, socks, stream, dial, down, got, relay>>

\* The deadline of the handshake passes.
Expire ==
  /\ Handshaking /\ ~expired
  /\ expired' = TRUE
  /\ UNCHANGED <<scripts, socks, stream, dial, down, got, relay>>

Reply == SubSeq(down.bytes, down.taken + 1, down.taken + dial.need)
DialReads(at) ==
  /\ dial.at = at
  /\ ~expired
  /\ Has(down, dial.need)
  /\ down' = Took(down, dial.need)

\* The proxy must take NO_AUTH, the one method offered; CONNECT is written, or
\* that fails.
ReadMethod ==
  /\ DialReads("method")
  /\ \/ Reply[1] = Ver /\ Reply[2] = 0 /\ DialTo("reply", 4)
     \/ DialTo("failed", 0)

\* The bound address and its port.
BoundSize(atyp) == IF atyp = IPv4 THEN IPv4Len + 2 ELSE IPv6Len + 2

ReadReply ==
  /\ DialReads("reply")
  /\ CASE Reply[2] # 0 -> DialTo("failed", 0)
       [] Reply[2] = 0 /\ Reply[4] \in {IPv4, IPv6} ->
            DialTo("drain", BoundSize(Reply[4]))
       [] Reply[2] = 0 /\ Reply[4] = Domain -> DialTo("length", 1)
       [] OTHER -> DialTo("failed", 0)

ReadBoundLength ==
  /\ DialReads("length")
  /\ DialTo("drain", Reply[1] + 2)

\* Fault: one Read, of however many bytes, is taken for all of them.
DrainOnce ==
  /\ dial.at = "drain" /\ ~expired
  /\ down' = Took(down, dial.need)
  /\ DialTo("open", 0)

\* The handshake is over, and the deadline cleared.
Drain ==
  /\ DialReads("drain")
  /\ DialTo("open", 0)

\* An error of this read is ignored: what was read by the deadline is gone, and
\* all there was if the connection has ended.
DrainFails ==
  /\ dial.at = "drain"
  /\ \E n \in 0..(dial.need - 1) :
       /\ Has(down, n)
       /\ expired \/ (Short(down, dial.need) /\ ~Has(down, n + 1))
       /\ down' = Took(down, n)
  /\ DialTo("open", 0)

DialFails ==
  /\ dial.at \in {"method", "reply", "length"}
  /\ expired \/ Short(down, dial.need)
  /\ DialTo("failed", 0)
  /\ UNCHANGED down

DialStep ==
  \/ DialProxy \/ ReadMethod \/ ReadReply \/ ReadBoundLength \/ Drain
  \/ DrainFails \/ DialFails

\* Header and payload of the next frame of c are there; its header is no header.
ReadsFrame(c) ==
  Has(c, HeaderSize) /\ ValidHeader(Unread(c)) /\ Has(c, FrameSize(Unread(c)))
Garbled(c) == Has(c, HeaderSize) /\ ~ValidHeader(Unread(c))

ReadFrame ==
  /\ dial.at = "open"
  /\ ReadsFrame(down)
  /\ down' = Took(down, FrameSize(Unread(down)))
  /\ got' = Append(got, Decode(Unread(down)))
  /\ UNCHANGED <<scripts, socks, stream, dial, expired, relay>>

\* readLoop ends, and the bearer is marked dead.
ReadFails ==
  /\ dial.at = "open"
  /\ Garbled(down) \/ (down.eof /\ ~ReadsFrame(down))
  /\ DialTo("dead", 0)
  /\ UNCHANGED down

-----------------------------------------------------------------------------
(* runOutbound, and the aggregator's readLoop *)

\* SendFrame: a frame for which the bearer is not connected ends the stream.
Sends(f, to) ==
  /\ IF dial.at = "open"
     THEN /\ up' = [up EXCEPT !.bytes = @ \o BuildFrame(f)]
          /\ sent' = Append(sent, f)
          /\ out' = to
     ELSE out' = "done" /\ UNCHANGED <<up, sent>>
  /\ UNCHANGED <<scripts, server, told, target, bearer, received, replies>>

SendSYN ==
  /\ out = "syn"
  /\ Sends([flag |-> SYN, id |-> 1, seq |-> 0,
            payload |-> EncodeTarget(target)], "read")
  /\ UNCHANGED <<local, next>>

\* Fault: the offset of a chunk is taken after its bytes are reserved.
ReservedAfter(n) == next + n

\* Reserve.
Reserved(n) == next

SendChunk ==
  \E n \in 1..ChunkSize :
    /\ out = "read"
    /\ Has(local, n)
    /\ local' = Took(local, n)
    /\ next' = next + n
    /\ Sends([flag |-> 0, id |-> 1, seq |-> Reserved(n),
              payload |-> SubSeq(local.bytes, local.taken + 1, local.taken + n)],
             "read")

SendFIN ==
  /\ out = "read"
  /\ Short(local, 1)
  /\ Sends([flag |-> FIN, id |-> 1, seq |-> next, payload |-> <<>>], "done")
  /\ UNCHANGED <<local, next>>

ServerReadsFrame ==
  /\ ReadsFrame(up)
  /\ up' = Took(up, FrameSize(Unread(up)))
  /\ received' = Append(received, Decode(Unread(up)))
  /\ UNCHANGED <<scripts, socks, stream, bearer, sent, replies>>

-----------------------------------------------------------------------------

Next ==
  \/ AppSends \/ ProxySends \/ Relays \/ AggregatorSends
  \/ ServerStep \/ DialStep \/ Expire \/ ReadFrame \/ ReadFails
  \/ SendSYN \/ SendChunk \/ SendFIN \/ ServerReadsFrame

Spec == Init /\ [][Next]_vars

\* The dialling goroutine goes on, and time does; nobody need say anything.
FairSpec == Spec /\ WF_vars(DialStep) /\ WF_vars(Expire)

-----------------------------------------------------------------------------
(* Properties *)

WellFormed(c) ==
  /\ c.bytes \in Seq(Words) /\ c.eof \in BOOLEAN
  /\ c.arrived \in 0..Len(c.bytes)
  /\ c.taken \in 0..c.arrived
TypeOK ==
  /\ \A c \in {local, down, up} : WellFormed(c)
  /\ server.at \in {"version", "methods", "request", "length", "address", "port",
                    "done", "closed"}
  /\ server.need \in Nat /\ server.host \in Seq(Bytes)
  /\ out \in {"none", "syn", "read", "done"}
  /\ out # "none" => target \in Seq(Bytes)
  /\ next \in Nat
  /\ dial.at \in {"proxy", "method", "reply", "length", "drain", "open", "dead",
                  "failed"}
  /\ dial.need \in Nat /\ expired \in BOOLEAN

\* The target that the application asked for.
Asked(a) == Host(a.atyp, a.addr) \o <<Colon>> \o a.port

\* Frame i carries the bytes that follow those of the frames before.
CarriesNext(data, frames, i) ==
  LET f == frames[i]
      end == f.seq + Len(f.payload)
  IN  /\ f.seq = IF i = 2 THEN 0
                 ELSE frames[i - 1].seq + Len(frames[i - 1].payload)
      /\ end <= Len(data)
      /\ f.payload = SubSeq(data, f.seq + 1, end)

\* The aggregator reads what the application said: the SYN has the target that
\* was asked for, and then come the application's bytes, from the first one
\* after its handshake on, each frame at the offset of its bytes.
RequestsExact ==
  received # <<>> =>
    /\ received[1].flag = SYN
    /\ DecodeTarget(received[1].payload) = Asked(app)
    /\ \A i \in 2..Len(received) : CarriesNext(app.data, received, i)

\* The dial reads the proxy's reply to its end and not beyond, so that frames
\* start where readLoop does: a bearer loses its place only if its connection
\* ended or the deadline passed in the drain (socks5dialer.go:210).
CleanStart == dial.at = "dead" => expired \/ down.eof

\* Both ends read from a bearer what the other end put on it, first to last,
\* however the bytes were cut into pieces on the way (frame.go, sequencer.go,
\* readLoop of bearer.go and of inbound_bearer.go), and the client does not give
\* it up while its connection lasts.  Only a deadline that passed in the drain
\* leaves the client bytes that no frame is made of.
Transparent ==
  /\ RequestsExact
  /\ IsPrefix(received, sent)
  /\ expired \/ IsPrefix(got, replies)
  /\ CleanStart

\* What an application is told that says all of its script: nothing in answer to
\* a version the dispatcher does not speak, and "connected" only if it offers
\* NO_AUTH and asks to connect to an address of a known type.
DueMethod(a) ==
  IF a.version # Ver \/ a.methods = <<>> THEN <<>>
  ELSE IF \E i \in 1..Len(a.methods) : a.methods[i] = 0 THEN <<"no auth">>
  ELSE <<"no method">>
DueAnswer(a) ==
  IF a.again # Ver THEN <<>>
  ELSE IF a.cmd # Connect THEN <<"no command">>
  ELSE IF a.atyp \notin {IPv4, Domain, IPv6} THEN <<"no type">>
  ELSE <<"connected">>
Due(a) ==
  IF DueMethod(a) = <<"no auth">> THEN <<"no auth">> \o DueAnswer(a) ELSE DueMethod(a)

\* An application is told what is due to it, one reply after the other and none
\* that is not; a connection is not closed before all of them are written unless
\* the application has left; and a stream starts exactly with the "connected"
\* (socks5ServerHandshake).
RightAnswer ==
  /\ IsPrefix(told, Due(app))
  /\ server.at = "closed" => told = Due(app) \/ local.eof
  /\ out # "none" <=> told = <<"no auth", "connected">>

\* A dial ends, at its deadline if the proxy stays silent at any point of the
\* handshake (SetDeadline, socks5dialer.go:46): runLoop does not hang in it.
DialEnds == dial.at = "proxy" ~> dial.at \in {"open", "dead", "failed"}
=============================================================================
