# Formal models of the multipath aggregator

The repository splits the bytes of a local connection into chunks, sends the
chunks over several DNS tunnels ("bearers") and puts them together again at a
remote aggregator, which talks to the real target. This directory holds TLA+
models of that program, TLC configurations that check them on small instances,
and TLAPS proofs. Paths below are relative to `src/`.

## 1. The system

### Server: `internal/aggregator`, `cmd/masterdns-agg-server`

| Component | State | Operations | What makes it correct |
|---|---|---|---|
| `Reassembler` | next byte, min-heap of early frames, output channel | `Push`, `flush`, blocking `send`, `Out` | the output is the stream's bytes in order; nothing that could go out stays in; bounds |
| `AggregatorStream` | reassembler, upstream connection, `done`, response offset | `Start`, `Push`, `Close`, goroutines `dialAndPumpUpstream` and `pumpResponse`, `sendFrame`, `sendRST` | both goroutines end when the stream does; the client hears of the end |
| `StreamRouter` | table ID -> stream, `streamCount` | `Route`, `handleSYN`, `closeStream`, `onStreamClose`, `CloseAll` | count and table agree; every open stream can be found; the limit holds |
| `BearerRegistry` | list of bearers, round-robin position | `Register`, `Deregister`, `Pick`, `PickFor`, `ForEach` | replies of a stream keep to the bearer of its SYN |
| `InboundBearer` | connection, `closed`, the IDs of its SYNs | `readLoop`, `SendFrame`, `markClosed`, `Stop` | a frame is passed on once, in the order of the connection |
| `AggregatorServer` | `frameCh`, listener | `Run`, `Stop`, `routeLoop`, `routerShim.Route` | the route loop always comes back; `Run` returns after a stop with nothing left open |

### Client: `internal/multipath`, `internal/appcontrol`, `cmd/masterdns-agg*`

| Component | State | Operations | What makes it correct |
|---|---|---|---|
| `TunnelPool` | weighted ring, one shared counter | `buildRing`, `Pick` | finds a healthy bearer; gives each its share |
| `BearerTunnel` | connection, state, `quit`, `writeMu` | `runLoop`, `readLoop`, `SendFrame`, `markDead`, `Stop` | frames go out whole; the tunnel knows every open connection; a lost one is replaced; a stopped tunnel ends, with its last connection |
| `LogicalStream` | byte offset, inbound queue, `done` | `runOutbound`, `runInbound`, `DeliverInbound`, `Close`, `dispatchWithRetry` | chunks tile the stream; the end is announced after the last byte |
| `MultipathManager` | stream registry, inbound channel | `NewStream`, `CloseStream`, `demuxLoop`, `Start`, `Stop` | frames reach the stream of their ID |
| `MultipathDispatcher` | listener, `running` | `Run` and its watcher, `Stop`, `handleConn`, `socks5ServerHandshake` | one stream per accepted connection, cleaned up; no listener outlives its context; the target asked for is the one dialled |
| SOCKS5 dialer | a deadline on the connection | `dialSOCKS5` | success leaves the connection exactly at the first frame; it returns in time |
| sequencer, frame codec | counters; none | `NextID`, `Reserve`, `Encode`, `DecodeFrameHeader`, `EncodeTarget`/`DecodeTarget` | IDs differ and are not 0; decoding undoes encoding, however the bytes arrive |
| `Runtime` | configuration, `running`, last error, the current context, manager and dispatcher, all under `mu` | `Start`, `Stop`, `UpdateConfig`, `Status` | a restart leaves nothing behind; a client that does not run says so |
| configuration file | the file | `SaveConfig`, `LoadConfig`, called by HTTP handlers | what was saved is what is loaded |

Loggers, the pages of `cmd/masterdns-agg-app`, `install.sh` and the guides keep
no state that the protocol depends on.

### How the parts interact

On the server, one `readLoop` goroutine per bearer puts frames into `frameCh`
and drops what finds it full. **One** route loop takes them out and calls
`StreamRouter.Route`, which may push into a stream's reassembler and so block on
that stream's output channel. Two goroutines per stream take chunks from there
to the upstream, and responses from the upstream to a bearer. `Close` can be
called by either of them, by the route loop and by `CloseAll`; `sync.Once` makes
the later callers wait for the first, and the first calls back into the router
and, through `ForEach`, into all bearers. `Run` accepts connections, then waits
for the route loop, then closes the remaining streams.

On the client, `handleConn` makes a stream of each accepted connection and waits
for its two goroutines. `runOutbound` picks a bearer per chunk, through one
counter that all streams share, and writes the frame under the bearer's
`writeMu`. Each bearer has a goroutine that dials, reads frames into the one
`inboundCh`, and dials again; a sender that fails to write closes the connection
under it. **One** `demuxLoop` takes the frames out, puts answers into the queue
of their stream without waiting, and closes the stream of a FIN or RST.
`runInbound` writes the queue to the application. `Stop` ends `demuxLoop` and
then closes the streams it finds registered.

`Runtime` wraps all that into generations: each `Start` makes a new context,
manager and dispatcher and leaves a goroutine in `MultipathDispatcher.Run`; each
`Stop` cancels the context and stops the two under `mu`. HTTP handlers call it
concurrently, and save and load the configuration between calls.

### What is hard

Frames of one stream arrive in any order over several bearers, and control
frames (SYN, FIN, RST) overtake data. Nothing is acknowledged or sent again.
Several goroutines close one stream. One goroutine serves all streams, and can
be blocked by one. Bearers fail while a response is being sent. All senders
walk one ring through one counter. `Run` of a stopped dispatcher may only be
about to listen when its successor is started. IDs start from 1
in every client process. `PROJECT.json` lists each hazard at its line.

## 2. The modules

| Module | Models |
|---|---|
| `Reassembly` | the decisions of `Push` and `flush` as operators on (`expected`, `held`) |
| `InOrderDelivery` | abstract: what a consumer may receive of the frames offered |
| `Reassembler`, `MCReassembler` | one reassembler between the route loop and its consumer |
| `Reassembler_proofs` | theorems about it, for all constants |
| `AggregatorServer`, `MCAggregatorServer` | all of the server, with every stream's reassembler |
| `AggregatorServer_proofs` | theorems about it, for any bearers, streams and frames |
| `TunnelPool`, `MCTunnelPool` | the client's `Pick` under `dispatchWithRetry` |
| `TunnelPool_proofs` | theorems about it, for any weights and callers |
| `BearerTunnel` | one bearer: its loop, its senders, `Stop` |
| `BearerTunnel_proofs` | theorems about it, for any number of senders |
| `ClientStreams` | the client's streams, their handlers, `demuxLoop`, `Stop` |
| `ClientStreams_proofs` | theorems about them, for any number of streams |
| `BytePipes` | abstract: what comes out of a stream of what went in |
| `Overlay`, `MCOverlay` | `ClientStreams` and `AggregatorServer` with bearers between them |
| `Overlay_proofs` | requests refine `BytePipes` and answers keep their order, for any streams and bearers |
| `Wire`, `MCWire` | both SOCKS5 handshakes, the frame format, target and length encodings, byte by byte |
| `Wire_proofs` | theorems about them, for any scripts, sizes and cuts of the connections into pieces |
| `Runtime`, `MCRuntime` | `Runtime`, `MultipathDispatcher.Run` and the configuration file |
| `Runtime_proofs` | theorems about it, for any number of starts and handlers |

`Overlay` composes by INSTANCE: the two programs' modules are the same ones that
`client_streams` and the `server_` runs check alone.

### Reassembler

A frame is `[seq, len]`. The heap is a set, as `flush` reads only its root; of
several frames with the lowest `seq` any can be the root. `Push` has one action
per way through it (`PushIgnored`, `PushNext`, `PushEarly`, `PushOverflow`).
`send` blocks, so `PushNext` only puts the frame into `sending`, and `Send`
completes the channel send, moves `expected` on and lets `flush` pop the next
frame or end. `emitted` keeps all that was ever sent; the channel's content is
what lies beyond `taken`. `InOrderDelivery` is refined with `offered <- arrived`
and `delivered <- SubSeq(emitted, 1, taken)`.

### AggregatorServer

A stream object is named by the SYN frame that made it, so that two objects of
one ID are told apart. `bearer` is the state of each connection: `"live"` is
registered, `"marked"` had a failed write and is still read, `"closed"` was
stopped, `"leaked"` was marked before its read loop ended, so that `Stop` did
nothing. `pump` and `resp` are the program counters of a stream's two goroutines, `route`
that of the route loop and `main` that of `Run`. The fault operators
(comments beginning with "Fault:") are not part of the specification; they say
what the properties would catch.

Steps that are one action although the code has several:

- `LoadAndDelete` and `Add(-1)` in `closeStream`, and with `ForgetStream` in
  `onStreamClose`. In between the count is one too high for a moment; the only
  reader is `handleSYN`, which then refuses a stream as it would have before the
  delete.
- `PickFor` and `SendFrame` up to its test of `closed`, which is where the model
  counts a frame as sent. A bearer that is marked after that test fails a
  sender that holds `writeMu`, but not one that waits for it: that one still
  writes, even after a torn frame (see the findings). `SendLost` is a
  `SendFrame` that fails, because the bearer was lost before the test or while
  the sender waited, or because the write itself failed (`MarkClosed`).
- `close(done)` and the closing of the upstream in `Close`. `s.upstream` is read
  without a lock; a read that misses a concurrent store behaves as one before
  the dial's return.
- `handleSYN`, which only the route loop runs, from the check of the limit to
  `Start`.

`CloseAll` is cut where it matters: `Range` loads an entry, then the entry is
deleted and counted down whether it is still there or not, then the route is
free for other goroutines while `Close` runs.

Left out: response bytes (only the number and the bearer of response frames),
addresses (a SYN is good or in `BadTargets`), frames cut in the middle of a
connection's end (they are not delivered), logging and telemetry. The frames of
a SYN, FIN or RST carry no stream data, as `BuildFrame`'s callers make them
(`PayloadAssumption`).

### TunnelPool

`ringUpTo[n]`, a recursive function, is the ring of the first n bearers, each a
block of its weight. An attempt of `Pick` has two
steps: it takes the counter's slot and moves the counter (`NextSlot`), then
looks at the bearer's health (`Found`, `Skip`). A bearer that was found healthy
can be lost before the frame is written (`SendRefused`) or by the write
(`SendFails`), and then `Retry` calls `Pick` again, up to `Attempts` times: as
often as there are tunnels if `DispatchRetries` is not positive. An error of
`Pick` ends the dispatch at once (`GiveUp`). History variables: `steady[p]`, the
bearers that stayed healthy during p's dispatch; `calm[p]`, that no other
dispatch took a slot meanwhile and no bearer was connected again; `picked`, how
often each bearer was chosen.

### BearerTunnel

The connections dialled are numbered, so that a lost one is told from the one
that replaced it; `link` is what became of each, `wire` what was written to it.
`loop` is the program counter of `runLoop` and `readLoop` with its local
variable `conn`; `sender[p]` the same for a caller of `SendFrame`. The code
stores `state` and `conn` separately, and so do the actions: `StoreConn` and
`SetConnected`, `SenderMarks` and `SenderDrops` (the halves of `markDead`),
`StopQuit`, `StopDrop` and `StopDead`. A write that fails may leave part of its
frame on the wire. A frame is read whole, or the read fails. Not modelled: the
counters of bytes and frames.

### ClientStreams

`handler`, `out`, `in`, `demux` and `stop` are the program counters of
`handleConn`, `runOutbound`, `runInbound`, `demuxLoop` and the caller of
`MultipathManager.Stop`. A stream in `done` has its channel `done` and its
`localConn` closed: `Close` does both in one `sync.Once`, and a goroutine that
sees only the first does what it would do a moment later.
`dispatchWithRetry` is `Dispatched`: one bearer gets the frame, or the call
fails, in any state of the bearers; the walk, the tries and the write are the
business of `TunnelPool` and `BearerTunnel`. `CloseStream` in `demuxLoop` is cut between
`LoadAndDelete` and `Close` (`RouteEnd`, `DemuxClose`), since others look at the
registry in between; in `handleConn` it is not, as the stream is closed already
by then. `Stop`'s `Range` visits every stream that was registered when it began
(`ranging`) and is still there, and one that came since perhaps too.

External, modelled from how the code uses them: the aggregator, which answers a
stream after its SYN with data in order and at any time ends it with FIN or RST;
the application, which may stop sending, and which reads or not. `Overlay` puts
the real aggregator in the place of the first.

### Overlay

Every variable of the two programs keeps its name (only `closing`, which both
have, is `clientClosing` of the client), and `Streams` of the client are `Ids`. `up` and `down` are the bearers: what
was written to each connection in its order and not read yet. A client step that
dispatches a frame puts it on any bearer; `Arrive` is `ReadFrame` of the
aggregator for the head of `up`; a server step that replies appends to `down`;
`Return` is the client's `readLoop`. `ClientStreams`' external aggregator is
thereby replaced, and its variable `reply` counts what arrived. Left out here and
modelled in the parts: failing bearers, refused dispatches, and stopping either
program.

`BytePipes` is the abstract specification of a direction: units enter a stream
and leave it in order, each once. The requests refine it
(`entered <- offset`, `left <-` the numbers of what was written to the
upstream). The answers keep their order only until the aggregator closes the
stream, as the client does not reorder, and have no gap only if the client's queue
has room for them; that is `AnswersInOrder`. `Settled` says what holds
when `Moving`, which is `ENABLED` of all the fair steps, has become false: each
of them uses up something bounded, so this is liveness put as an invariant, and
a run of it needs no search for cycles.

### Wire

`local`, `down` and `up` are connections: bytes written, how many have arrived
and how many were read. They arrive in pieces of any size, and each read of
`io.ReadFull` is a step when its bytes are there, so that every cut of the
stream is met. `server` is `socks5ServerHandshake` field by field, `dial` is
`dialSOCKS5` followed by the header and payload reads of `readLoop`; `expired`
is the handshake's deadline. `BuildFrame` encodes a frame into bytes with length
and checksum, the readers decode them; `DecodeTarget` checks the length of a
target and that it has a colon, and does not split it. `told` is what the
handshake writes to the application, and `Due` what its script calls for. The application and the proxy are external, each
following a script that may be wrong at any field or break off; lengths and
types in a script say what follows them (`ScriptsAssumption`), since nothing else
could be read from it. A byte has `Byte` = 16 values in the run and the IP
addresses 1 and 2 bytes. Magic, stream ID, sequence number and checksum are one
item each of what a connection carries, with `Word` values; the checksum's
exclusive or is the constant `Xored`, which `MCWire` computes from bits and of
which the theorems need only its range. The port of a target stays two bytes
instead of decimal digits. The text of the target in the CONNECT request to the
proxy is left out. `ChunkAssumption` keeps a chunk below the 65536 bytes that
`PayloadLen` can count (`Validate` does not, see "hazards").

The aggregator's frames (`Answers`) are put on the connection by
`AggregatorSends`, behind the proxy's replies and as soon as it relays, so that
they may stand there before the dial has read the reply. `Transparent` says that
`got`, what the client's `readLoop` makes of the bytes, is a prefix of `replies`,
**unless** the deadline passed: a drain that fails at its deadline leaves bytes of
the proxy's address in front of the frames, and such bytes could by chance be a
header. Its part `CleanStart`, that the client gives up a bearer only with its
connection, excepts the same case, which the code gets wrong (see the findings).
A drain that fails because the connection ended has read all there was (`DrainFails`), and needs no exception.

### Runtime

A generation is what one `Start` makes: its `run` is the program counter of
`MultipathDispatcher.Run`, with its `listener`, its `flag` (`running` of the
dispatcher) and its `watcher`. `Stop` holds `mu` over three steps (`StopCancel`,
`StopDispatcher`, `StopManager`); all else under `mu` is one step and needs
`Unlocked`. All configurations have one listen address, so that an open listener
of an old generation keeps a new one from listening; `ListenFail` may happen
anyhow. The configuration file is truncated in one step (`Open`) and written in
another (`Write`, `WriteFail`), as `os.WriteFile` does; writing a short
configuration over a longer one leaves a tail that does not parse (`Garbage`).
A configuration is its encoded length and whether `Validate` accepts it. `lone`,
`intact` and `saved` are history: saves that no other overlapped, what the file
must hold, what was ever given to `SaveConfig`.

## 3. The runs

| Run | Question | Bounds | Result |
|---|---|---|---|
| `reassembler_chunks` | in-order delivery, with and without waiting | 6 chunks and an empty payload, channel 2, heap 3 | holds |
| `server_limits` | count, table, limit, sticky replies, each chunk of a response once | 2 streams for 1 place, 2 bearers, 1 failure, 1 response | holds |
| `server_streams` | order, end of goroutines, stop at any moment | 3 chunks, 2 bearers, queue 1, channel 3, heap 1 | holds |
| `server_wedged` | can one stream block the route loop? | 2 chunks, channel 1 | it can |
| `server_reused_id` | does the count follow the table if IDs repeat? | 2 SYNs with one ID | no |
| `pool_pick` | dispatches alone, shares | weights 2, 0, 1; 2 callers, 4 frames, 4 changes of health | holds |
| `bearer_loop` | whole frames, known connections, reconnection, senders return, what Stop leaves | 2 senders, 3 sends, 3 connections | holds |
| `client_streams` | gap-free sending, registry, end of streams, `Stop` | 1 stream, 2 chunks, 3 answers, queue 2, channel 2 | holds |
| `overlay` | both directions in order; does each end learn of the other's? | 1 stream, 2 chunks or answers, 2 bearers | holds |
| `overlay_fin` | is a transfer complete when its FIN ends it? | 1 stream, 1 chunk or answer, 2 bearers | not always |
| `runtime` | restart, errors, saved configuration | 2 starts, 2 handlers, 3 saves or loads | holds |
| `wire` | transparency of handshakes and frames, replies to the application | 14 pairs of scripts, 1 frame back | holds |

Bounds and why they suffice. The reassembler's instance has more chunks than the
heap and the channel hold together, so that both fill up, in every order
(chunks have different lengths, so that offsets and indices are not confused).
`server_limits` has one place and two streams: every way of ending the first
stream races the SYN of the second. `server_streams` has a queue of one frame,
so that frames are dropped, and a heap of one, so that it overflows.
`Failures`, `Responses`, `Cancels`, `MaxCalls` and `MaxFlips` bound only how
often the environment acts; one failure is enough to go from the sticky bearer
to the other. Symmetry (of bearers or callers) is used in `server_limits`,
`overlay` and `pool_pick`, which check only safety properties (a refinement
without fairness is one). `BadTargets` is empty in every run: a SYN with a bad
target is refused with an RST like one over the limit, which `server_limits`
has.

`pool_pick` has three bearers, one of them twice in the ring and one by its zero
weight, and four changes of health: two losses and two reconnections, enough for
the walk to meet a bearer that died behind it. `overlay` gives each stream two
units of data, which are two chunks, two answers or one of each (`Units`);
`FrameDepth` is the number of frames a stream can send, so that the only losses
are those of the protocol, and a channel of one frame makes the route loop wait.
`runtime` has two generations, since a late goroutine meets the generation after
its own; two handlers and three calls make every overlap of a save with a save or
a load, and a load after two saves that overlapped. `wire` pairs every application script with an ordinary proxy and every
proxy script with an ordinary application: the two do not meet before the SYN.
A frame's payload has up to two bytes, the data of a stream one chunk, and the
target one byte, so that headers, payloads and target lengths are cut at every
place.

`Settles` holds in `server_streams` **because** `OutDepth` is not below the
number of chunks a client sends; `server_wedged` shows the cause, with a shorter
channel. In the code the depth is 512 and a stream's chunks have no bound, so
the property fails there; the passing run shows that nothing else blocks the
route loop (closing a stream, overlapping calls of `Close`, an overflow, a stop).

`bearer_loop` has three connections, so that a sender can hold the first while
the second is dialled and lost, and three sends by two senders, so that one
waits for `writeMu` behind a write that fails. `client_streams` has one more
answer than the queue holds, so that answers are dropped while the FIN is
behind them. It has one stream only: two have over twenty million states. The
streams meet in `inboundCh`, in the registry and in `demuxLoop`, which never
waits for one of them (`EndReaches` with an application that does not read); and
the theorems about `ClientStreams` hold for any number of streams.

Deadlock is not checked in any run: a server with no frames left, a pool with no
calls left, a tunnel that was stopped and a client without connections may stop.

### Fairness

`FairSpec` of the server assumes of each goroutine that it takes a step it can
take: the route loop, a pump, a response goroutine, a caller of `Close`, `Run`.
The dial ends at the latest with `UpstreamDialTimeout`; a `Read` returns when the
connection was closed here (`ReadEnd` is fair only then); `Accept` returns when
the listener was closed. `conn.Write` to the upstream has no deadline in the
code: the fairness of `Write`/`WriteFail` assumes an upstream that reads, or a
connection that breaks. Nothing is assumed of clients, their bearers, or the
upstream's answers, and nothing of anyone stopping the server. All those steps
are the action `Progress`, and one weak fairness of it is assumed: weaker than
one for each goroutine, and enough, as each of the steps uses up something
bounded and none can go on for ever. `Overlay` has no fairness; its `Progress`
gathers the same steps and its bearers' (see `Settled`).
`BearerTunnel!FairSpec` assumes that `runLoop` and the senders go on: a dial ends
with `DialTimeout`, a write with its deadline of 15 s, a sleep with
`ReconnectDelay`, and a read returns when the connection is gone. That frames
arrive, that a dial succeeds or that a sender is called is not assumed.
`ClientStreams!FairSpec` assumes the same of `runOutbound`, whose read returns
when `localConn` is closed or has something, of `handleConn`, `demuxLoop` and
`Stop`, and of `runInbound` only that it sees `done`: a write to an application
that does not read need not return before `localConn` is closed. (`demuxLoop`
chooses between a frame and its context at random; as answers are bounded, weak
fairness is enough here.)
`Reassembler!FairSpec` assumes that a blocked send completes when there is room,
and that the consumer receives; the latter holds while the stream is open and
its dial has succeeded.
`Runtime!FairSpec` assumes that goroutines go on, that `Accept` returns when its
listener is closed, that a manager's `Stop` returns (which `StopReturns` of
`client_streams` checks), and strongly that a goroutine which waits for `mu` gets
it between two calls (`sync.Mutex` hands over after a millisecond). `Wire!FairSpec`
assumes only that the dialer goes on and that the deadline passes: an
application or a proxy may stay silent for ever.

## 4. What is proved

`Reassembler_proofs` holds for every set of frames and every capacity that
satisfies the module's named assumptions.

- `TypeCorrect`, `OutputContiguous` and `BuffersBounded`: `Spec => []TypeOK`,
  `[]Contiguous`, `[]Bounded`.
- `NothingLeftBehind`: `Spec => []NothingReadyWaits`, assuming `CutIntoChunks`,
  that the frames do not overlap, as one client's sequencer makes them.
  Without it a duplicate of an early frame stays at the heap's root below
  `expected` and hides the frames behind it.
- `ReassemblerImplements`: `Spec => Promise!Spec`, step by step.

`Contiguous` is not inductive: it says nothing of the frame being sent. The
invariant `OrderInv` adds `HandedOver`: the frame in `sending` starts at
`expected` and has data, and all frames in `emitted`, `held` or `sending` have
arrived. With it, `Send` appends a frame that starts where the last one ended,
and `Take` hands over a frame that fits the abstract `Deliver`. `CapInv`
strengthens `Bounded` with the finiteness of `held` and with how frames move
between `held`, `sending` and `emitted`. `HeapAbove` strengthens
`NothingReadyWaits` to the time between the steps of `flush`: every held frame
lies at or above the end of the frame being sent.

`BearerTunnel_proofs` holds for any number of senders, connections and sends:
`TypeCorrect`, `NoneLeaksAlways`, `FramesWholeAlways`. The invariant `IInv` says
who works on which connection: the loop on the newest (`Newest`), a sender on
one that was stored before (`Stored`), and only while it holds `writeMu`
(`Exclusive`). So a sender that finds another connection in `conn` than its own
can leave its own alone: it was closed by whoever put it out of `conn`. `Torn`
is `FramesWhole` made inductive: a torn frame is the last of its connection, and
either the connection is not open or the sender that tore it still holds
`writeMu` and is about to drop it.

`ClientStreams_proofs` holds for any number of streams, chunks and answers and
any channel depths: `TypeCorrect`, `AlwaysLiveIsRegistered`, which needs that
`demuxLoop` closes what it took out of the registry before anything else
(`Closing`), and `AlwaysFinTellsAll`, which needs how many chunks are reserved
and not sent at each place of `runOutbound` (`Accounted`).

`Runtime_proofs` holds for any number of starts, handlers and configurations:
`TypeCorrect`, `AlwaysDeadIsReported`, `AlwaysSavesKept`. The invariant has two
halves that share no step. `LifeInv` says that no generation after the latest was
spawned, that `Stop` works on a cancelled one, and that an accepting dispatcher
whose context is not done still has its flag: so an error
of its `Accept` is an error of `Run`, and is stored. `FileInv` says that a save
that no other overlapped is the only one under way and writes to an empty file,
so that it leaves no tail, and that the file is intact only when nobody writes.

`AggregatorServer_proofs` holds for any bearers, frames, depths and bounds. All
of it rests on `HandsInv`: `TypeOK`, `QueueInv` (a frame is queued at most once
and after it was read, and the SYN of a stream that runs is not queued any more),
`TableInv` (the table holds started streams under their own IDs, and so do the
hands of the route loop and of `CloseAll`) and `StageInv` (`CloseAll` runs when the
route loop has gone). Over it there are:

- `OpenRegistered` and `StopsClean` (`OpenInv`, `StopInv`): a stream that is not
  closed is in the table, or in the hands of someone who is about to close it.
  `OpenIsRegistered` alone is not inductive, since a stream leaves the table
  before its `Close` begins.
- `CountIsExact` and `LimitHolds` (`CountInv`, `LimitInv`): the count is the
  cardinality of the table until `CloseAll` runs, and a stream that is open and
  out of the table is the one the route loop is closing, which takes no SYN
  meanwhile.
- `RepliesKeepBearer` (`StickyInv`): as long as a stream is not closed, the
  bearer of its SYN has its ID in `streamIDs`, and no other has.
- `ChunksSentOnce` (`ChunksInv`): a stream's data replies are as many as the chunks
  read from its upstream, less the last one while `sendFrame` tries it (`Given`)
  or after it gave up (`Over`); a FIN is sent only behind all of them.
- `UpstreamHasNoGap` and `UpstreamOrdered` (`FeedInv`, `OrderInv`): what a
  reassembler holds, emits and writes is data that was read for its stream's ID;
  what was written and what waits in `outCh` is one chain of frames up to the
  byte that `expected` names, while the pump has not left. The frame that
  `RouteSend` is blocked with starts at that byte.

All but `TypeCorrect`, `HandsCorrect`, `ChunksSentOnce` and `UpstreamHasNoGap` assume `UsedOnce`:
the clients use an ID for one session and open it with one SYN, as the sequencer
of one client process does. The frames of every run satisfy it except those of
`server_reused_id`, which shows what is lost without it.

`TunnelPool_proofs` holds for any weights, callers, attempts and bounds.
`RingFacts` says what `buildRing` makes: each bearer's slots are one block, as
long as its weight. It is proved of `ringUpTo` by the least length at which it
would fail, as a recursive function has no other induction here. `PickInv` is
`TypeOK` with what an idle caller's record holds. `SoloDispatchSucceeds` needs
`SoloInv`: while no other call moved the counter (`calm`), the slots a walk has
met are those that follow its first one, so that a walk of the whole ring meets
every bearer, and each failed attempt has met one bearer that did not stay
healthy, another each time. `SharesAreWeighted` needs `ShareInv`: of the slots
that the counter has passed, each bearer had as many as the whole rounds and the
part of the current one give it; they are the frames that went to it and
the callers about to look at it.

`Overlay_proofs` holds for any streams, chunks, bearers and depths.
`RequestsRefined` is `Spec => RequestPipe`: the two programs and the bearers
between them implement `BytePipes` from the application to the upstream. The
aggregator of `Overlay` takes the steps of `AggregatorServer` (`ServerMoves`), its
constants satisfy that module's assumptions (`ServerAssumptions`), and so its
`HandsInv`, `FeedInv` and `OrderInv` hold of it and are not proved again.
`FlightInv` adds that data in flight, or read by the aggregator, carries the number
of a chunk that the application has sent before, and `NumberInv` that what was
written is numbered from 0 on; so a write is `Leave`, a read from the application
is `Enter`, and everything else stutters.

`AnswersOrdered` is the way back. Its invariant, `AnswerInv`, follows the answers of
a stream that the aggregator has not closed: `DownInv` has those in flight, all
over the bearer of the SYN, being the chunks from the first the client has yet to
read up to the last one given, and a FIN behind them; `InInv` has in `inboundCh`
the chunks before these from some `lo` on, and what the application got and is
queued for it are chunks below `lo`, all of them if `QueueDepth` allows;
`GotInv` is what stays of that when the stream's `runInbound` has left. It rests on
the aggregator again: `StickyInv` leaves a reply no bearer but the SYN's,
`ReadInv` numbers it, and `SmoothSteps` says what a server whose bearers do not
fail may send at all (`Answers`) and that a FIN is the last of it (`Onwards`).
`FreshInv` is needed where a stream starts: nothing of it can have come back
before its SYN was read. `AnsweredInv` counts what was sent.

`Wire_proofs` holds for any scripts, answers, chunk size, address sizes and values
of a byte that satisfy `Wire`'s assumptions, and for every way in which the
connections cut the bytes into pieces. `ReadsBack` and `TargetReadsBack` are about
the formats alone: decoding undoes `BuildFrame`, also with other bytes behind the
frame, and `DecodeTarget` undoes `EncodeTarget`. `TypeCorrect`,
`AnswersRight` and `AlwaysTransparent` are the invariants of `wire`. Neither of the last
two is inductive, as they do not say where in the bytes a reader is; `IInv` does:

- `HandInv`: at each point of `socks5ServerHandshake`, which field of the
  application's script is the next to be read and what the fields before it have
  said (`HandAt`); after its end the application's data begins `next` bytes before
  the next unread one. `ApplicationItems` says where the fields are, for any
  lengths of methods and address.
- `ToldInv`, beside it and only for `AnswersRight`: what the application has been
  told at each point, and that a handshake that is over has told all that is due
  (`AllDue`), or the application has left.
- `SentInv`: the frames sent are the SYN with the target asked for, and chunks of
  the data that follow each other up to `next`.
- `UpInv`, `DownInv`: the connection of a bearer, in one direction each, is what
  the handshake wrote and then the frames put on it, one behind the other
  (`Framing`, by the places where they end), and the reader stands at the end of
  the last frame it has read (`InStep`). `PutNext` and `GetNext` keep that when a
  frame is put and when one is read, so no header is ever found where none was put.
  `DialAt` says how far into the reply `dialSOCKS5` has come, `Reading` that
  `readLoop` begins at its end, or the deadline passed, or the connection ended
  with nothing left.

The assumptions under which all this holds are ones on the code's constants (a
length fits into a header, an address's size into a byte), on what an application
and a proxy write (a length that says what follows) and on the data of a stream
being shorter than `GlobalSeq` can count.

Only model-checked: `Settled` of `Overlay`, which is about ENABLED, and all liveness
(fairness and ENABLED are out of the prover's reach). What the proofs do not
reach inside a theorem is named there as an assumption: `CutIntoChunks`,
`UsedOnce` and the named ASSUMEs of the modules.

## 5. Findings

Three statements of the repository's comments or guide that the code does not
keep, each with the run that shows it (`PROJECT.json`, "findings"):

- `server_wedged`: a stream whose consumer is slow, or never comes, blocks the
  route loop and with it every stream (`reassembler.go:158`).
- `overlay_fin`: a FIN ends a stream at once at either end. At the aggregator it
  drops what is still in the channel, in the heap or on a slower bearer; at the
  client what is queued for the application (`GUIDE.md:71`, `manager.go:206`).
- `server_reused_id`: the count goes wrong when an ID comes again
  (`stream_router.go:176`).

Met while modelling and left without a run of their own (most are also noted
under "hazards"):

- At the aggregator's end of a bearer `closed` is tested before `writeMu` and not
  after, and `markClosed` leaves the connection open: a sender that waits writes
  after a frame that the write deadline tore (`inbound_bearer.go:176`). The
  client's end reads the connection again under the lock.
- `BearerTunnel.Stop` during a dial leaves a tunnel that connects and reads on
  (`bearer.go:228`). `NoneLeaks` does not rule that out, as the tunnel knows the
  connection; `StopSettles` says that nothing more is left.
- A walk of `Pick` that another walk overlaps may see a dead bearer twice and miss
  the healthy one (`pool.go:25`, `pool.go:85`). A bearer that is connected again
  during a dispatch may take the try of another (`stream.go:248`, "try every
  bearer at least once"). `calm` in `SoloSendSucceeds` excludes both; without
  it TLC finds the property violated.
- The dialer's drain of the bound address ignores read errors: a deadline in it is
  reported as success, and the bearer dies at its first frame
  (`socks5dialer.go:210`).
- A stream whose write fails may end without a frame to its client
  (`aggregator_stream.go:240`).
- A response that is in hand when its stream is closed may go over another bearer
  than those before it, since the closing makes the bearers forget the ID.
- A FIN that overtakes its SYN leaves a stream at the aggregator that only its
  upstream ends. `ReassemblyTimeout` (`aggregator/config.go:80`) is read by
  nothing, so neither a stream that waits for a lost frame ends by itself.
- When `Accept` fails by itself the aggregator goes on without accepting, its
  listener open until it is stopped.
- A late `markDead` lets a connected tunnel count as dead (`bearer.go:282`).
- A connection whose handshake ends after `MultipathManager.Stop` registers a stream
  that nobody closes (`manager.go:136`); it ends by itself when its SYN finds no bearer.
- `socks5ServerHandshake` has no deadline, and `Stop` does not close the connection
  of one that waits: an application that says nothing keeps its handler.
- A save that fails leaves a truncated file; `Save` and `Load` are not excluded
  from each other. After `Runtime.Start`, `Status` says "running" though the
  listener may not exist yet, or no more.
- `Validate` accepts a chunk size above 65535, which the header cannot carry
  (`frame.go:144`).

## 6. Not modelled

- Flags, signals, pages, read-only handlers and the log ring of the commands;
  loggers; defaults and the single checks of `Validate` (a configuration is valid
  or not). They decide nothing between two actors.
- The SOCKS5 dialer's user and password, which no caller passes, and its text of
  the target.
- The wrap-around of `NextID` after four billion streams: `server_reused_id` is
  what would follow.
- Byte and frame counters of the tunnels, and the byte offsets of responses, which
  nothing reads.
- Failing bearers and a stop of either program in `Overlay`: the parts alone have
  them (`server_limits`, `server_streams`, `client_streams`, `bearer_loop`), the
  composition would exceed what can be checked in minutes.

## 7. Plan

Every safety invariant and action property of the runs is proved, but for
`Settled`. What could follow:

1. `Settled` with the guards of the steps written out in the place of ENABLED, so
   that it can be proved that a quiet pair of programs has nothing left to do.
2. Failing bearers in `Overlay`, for which `AnswersInOrder` would have to say which
   answers a bearer took with it.
