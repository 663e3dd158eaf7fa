# wispurr in TLA+

A verification project for wispurr: a Wisp server in Go (`main.go`, `wisp/`)
and the Node.js wrapper that runs several of them (`src/index.ts`). It holds
TLA+ models of the parts where goroutines, callbacks, crashes and limits meet,
TLC configurations that check them on small instances, and proofs that TLAPS
checks for every instance. `PROJECT.json` maps every definition to the lines it
models, and lists the runs, the mutants that show each property can fail, the
findings, the hazards and the theorems.

Paths below are relative to the repository.

## 1. The system

A client opens a WebSocket to `/wisp` and multiplexes TCP and UDP streams over
it with CONNECT, DATA, CONTINUE and CLOSE packets (and INFO in version 2).

| Component | State | Operations | Shared with |
| --- | --- | --- | --- |
| Server (`wisp.go`, `runtime.go`) | `Globals`: active connections, byte totals, semaphores, `stop` | upgrade handler, `Stats`, `Shutdown` | every handler goroutine, `main` |
| Connection writer (`wisp-connection.go`) | `pendingWrites`, `pendingBytes`, `writeActive`, `isClosed` | `submitWrite`, `runWriter`, `close` | every goroutine that sends to the client |
| Stream table (`wisp-connection.go`) | `streams`, `streamCache`, `streamCount`, `violations` | CONNECT, DATA, CLOSE handling, `deleteWispStream`, `deleteAllWispStreams` | the read loop and each stream's goroutines |
| Stream (`wisp-stream.go`) | `isOpen`, `connReadyDone`, `ingressActive`, `conn`, `pendingData`, `pendingIngress`, `bufferRemaining` | `handleConnect`, `readFromConnection`, `runIngressWriter`, `submitIngress`, `close`, and `handleDataPacket` of the connection | read loop, dial, ingress writer, any closer |
| Frame reader (`wsreader.go`) | a read buffer, a message being assembled | `readLoop` | the connection's handlers |
| v2 handshake (`v2.go`) | handshake state, deadline, extensions | INFO handling | frame reader |
| Twisp (`twisp.go`, `windows.go`) | registry of terminals, one process each | CONNECT, DATA, resize, close | read loop, process goroutines |
| Rate limiters (`limits.go`) | sliding windows, semaphores | `Allow`, `TryAcquire`, `Release`, `Evict` | handlers and dials |
| Bandwidth (`bandwidth.go`) | a bucket per source | `Wait`, `Evict` | all streams of a source |
| Reputation (`reputation.go`) | scores of sources and destinations, a store on disk | `AddSource`, `AddDest`, `ForceDecay`, `Evict`, `SaveNow`, `Load`, `RunMaintenance` | handlers, the maintenance goroutine, other workers through the file |
| Signatures (`signature.go`) | recent dial outcomes per connection and destination | `For`, `Record`, `Match`, `Forget` | dials of a connection, its end |
| DNS cache (`dnscache.go`) | entries and lookups in flight | `LookupIPAddr`, `expire`, `Close` | dials, the cleanup goroutine |
| Egress policy, client address (`egress.go`, `clientip.go`) | none | pure predicates | handlers, dials |
| Wrapper (`src/index.ts`) | `processes`, `processPorts`, `reqIndex` | `start`, `stop`, `kill`, `route`, close handlers | the Node event loop, worker processes |
| Proxy dialer, configuration, logging, socket options, Vite plugin | none, or only output | | |

What is hard here is almost always the same thing: Go code that checks an
atomic flag or a field under a lock, releases it, and acts on what it saw,
while `close()` may run in any other goroutine; and JavaScript code that
awaits between a check and the assignment that makes the check true. The list
of such places, each at its line, is `hazards` in `PROJECT.json`.

What makes the components correct:

- *writer*: one goroutine writes to the socket, frames keep their order, each
  request is answered at most once and truthfully, the byte counter that closes
  slow connections is exact, and what is queued before `close()` drains the queue
  is answered, unless the client stops reading for good;
- *stream*: data arrives in order while the stream is open and is not dropped while its
  socket lives, each pooled buffer is returned once, the socket does not outlive the
  stream, the client is told of the end, and each CLOSE packet has its reason;
- *stream table*: an open stream is reachable under its id, a closed one leaves the cache,
  the count that enforces the limit is exact, nothing is left when the connection ends;
- *server*: the semaphore is exact on every way out of the handler, statistics
  do not count twice, `Shutdown` ends what it finds and can reach;
- *reputation*: the store is readable after any crash, a restart continues from
  the last save, a tier falls only by decay or by a report that is meant to lower it;
- *frame reader*: whatever pieces the bytes come in, the messages, pongs and close codes are
  those the frames encode, and each payload buffer is returned or handed on once;
- *handshake and terminals*: nothing opens before the login, the deadline ends the handshake
  and nothing else, no process outlives its connection;
- *limits*: windows and rates hold although callers are late and idle entries are forgotten;
- *client address*: what a client writes into its headers is not believed, if the proxy next to
  it does its part;
- *dial*: answers are recent, only allowed addresses are dialled, the SYN semaphore is exact,
  a signature needs recent failures;
- *wrapper*: no worker is lost, ports are distinct, requests go round, calls settle; a proxied
  request is answered or timed out, and both its sides go together.

## 2. Modules

Every module says in its head comment what one step is. In general a step is one
critical section, one atomic access or one call on a socket or file; whatever
lies between two of them may interleave with everything else.

**`WriteQueue`** models `submitWrite`, `queueWrite*`, `writeAndWait`, `runWriter`
and `close` of a connection. A request (`writeReq`) is a constant with a size; a
writer goroutine is named after the request whose submission started it, since
a failed writer may still be on its way to `close()` while the next one runs.
The `isClosed` check precedes the lock, as in the code, so a request may be queued after
`close()` drained. A socket write (`WriterWrite`) may never happen: it has no deadline. Returning a buffer and answering `done` happen together in the
code and are one answer here. `accepted` and `wire` are history variables.

**`OrderedChannel`** is what the queue promises: frames are accepted, and
delivered in that order until the channel goes down. `WriteQueue` defines the
refinement (`up` is `sock = "up"`) and `ImplementsChannel` states it.

**`Stream`** models one stream with its four concurrent activities: the read loop in
`handleDataPacket`, `handleConnect` followed by `readFromConnection`, the ingress
writer, and `close()`, run step by step by whichever goroutine wins its
compare-and-swap. DATA packets are numbered; all have length one, so byte bounds
become packet counts. Which check of admission refuses a CONNECT is one
choice. A `conn` is nil, open, broken (I/O fails) or closed, and the use of a nil
`conn` in `handleDataPacket` is a program counter of its own, `panic`. A DATA packet
looks for the stream in the cache, then in the table; when `close()` has taken it out of both, the packet
is refused with a CLOSE of its own (`DataRefused`). DATA for other streams, which share the slot of the
cache, is the action `DataOfOther`.

**`StreamTable`** models the table, the direct-mapped cache in front of it, the
counter and the violations of one connection, for CONNECT, DATA and CLOSE packets with
ids that are used again. Stream objects are numbered by creation, so a stale
pointer is distinguishable from the stream that has taken over its id.
That the cache finds only streams with the id of the packet holds by its comparison and is not stated; what is,
`CacheForgets`, is how long a closed stream may stay there.
Terminals are in `Session`.

**`Server`** models a connection from the HTTP handler to the end of its read
loop, with the connection semaphore (load, compare and swap, retry; no
counting without a limit), the registration in `g.active`, the totals, `Stats()`
and `Shutdown()`. Between two frames a reader is in the handler of a packet (`handling`), where a terminal
or a destination that takes no data may keep it for ever, and a closed socket does not reach it. The two `Range` loops visit a connection at most once, visit
every one that was there at the start and still is, and may or may not visit one
added meanwhile, as `sync.Map` documents.

**`Reputation`** models scores, tiers, decay, eviction and the save through a
temporary file, in one or more processes that crash, are stopped and start
again. A file is absent, torn or holds a snapshot, and an open descriptor follows
its file through a rename by another process. `int(DecayPerHour * hours)` is a
choice from a set. Weights are any integers; a negative one lowers a score. Event counts and timestamps are left out; the age that `Evict`
looks at is a choice.

**`Wrapper`** models `start` (port detection, spawn, wait for health), the `close`
handlers, `stop`, `kill` and the choice of a worker in `route`. An action is what
the event loop runs without a break; `Quiet` says that microtasks go before events.
Workers are processes that may fail to spawn, exit at any time, listen late or
ignore SIGTERM. The caller awaits each call before the next, as the
example in `README.md` does.

**`FrameReader`** models `frameReader` (`fill`, `peek`, `consume`, `readPayload`) and `readLoop`.
A byte is the name of its place in a frame, so misplaced, lost or repeated bytes are visible;
what a frame's header encodes is a record. A step is one `Read`, of any length, or what the loop
does between two of them. `Meaning` is the reference: it says of the frames as a whole which messages,
pongs and close code they amount to, without a buffer or a state.

**`Session`** models a connection's handshake and its terminals: the gate in `handleWispFrame`,
`handleInfo`, the read deadline, `handleTwispConnect`, the registry, `handleTwisp`, `readPty`, `cmd.Wait`,
and the sweep of `deleteAllWispStreams`. What an INFO payload holds is one of four kinds
(invalid, anonymous, wrong password, right password). The refusals of a CONNECT, DATA that is
written, and `resize` change nothing here and are `Ignored`.

**`Dial`** models the part of `handleConnect` that `Stream` takes as one choice: the lookup through
`DNSCache` (an entry, a shared lookup in flight, each caller with the time it read), the order of
addresses, the egress policy, the SYN semaphore, and the detector that `Record` and `Match` use. All
streams ask for one name, or for an address; what the name resolves to may differ from
lookup to lookup. An address has a class and a family, and `Family` is the filter that `reorderIPs` runs
once per family. `history` keeps the result of every dial; `Lately` says which of them a match may rest on.

**`Limits`** models what one source may do per unit of time: a `SlidingWindow`, the
`BandwidthLimiter` and the maintenance that evicts idle entries. Time is an integer. A caller reads
the clock before it takes the lock, and `MaxDelay` bounds how far it lags; without such a bound
neither limit means anything. `LimitsAssumption` asks of the idle time of windows that it be no shorter than a window and a delay,
which `runMaintenance` grants (it forgets them after twice their length). Nothing is assumed of the idle time of
buckets: reservations are as long as the packets make them, and a bucket may be forgotten while it is in debt. By how
much such debts were longer than the interval is added up in the history variable `forgotten`.
`allowed` records for each moment how many requests were allowed then.

**`ClientIP`** models `ResolveClientIP` and the way a request takes to it. A header is its first line and
the rest, for `Header.Get` reads the first line only. The client writes every header as it likes; each trusted
proxy passes a header on, appends the address of its peer to it, adds a line of its own, sets or drops it, each
header in another way; the wrapper (`route`) passes the headers on as Node gives them to it, with their lines
joined, and adds nothing. `says` is the history of what the proxies have made of each header, and `Accountable` the
requests for which they have done their part. The proxies themselves are external.

**`ProxiedRequest`** models one call of `route()` after the choice of the worker. The handlers are
actions; `events` holds what Node has still to deliver; what `destroy()` does to a
socket, a request and an upgraded socket is external, modelled from how the handlers rely on it. A pipe may
stand still for ever (`PipeDown`, `PipeBack`): it waits for a receiver that does not read.

How they fit together: `Server` admits a connection, `FrameReader` turns its bytes into
messages, `Session` says which of them count, `StreamTable` finds the stream, `Dial` and `Stream` connect it and
move its data, `WriteQueue` carries the answers, and `ClientIP`, `Limits` and `Reputation` are asked on the way.
Each module takes what its neighbour does as a choice: `Stream` whether admission refuses,
`FrameReader` whether a stream keeps the buffer, `Session` whether a read fails.

`MCWriteQueue`, `MCStreamTable`, `MCFrameReader`, `MCDial`, `MCReputation` and `MCWrapper` give the constants that
are functions, sequences or negative numbers; the other modules are run directly. `MCLimits` runs `ClientIP` and then `Limits`, as the
handler of a request does: it is resolved to an address, and the goroutines of that source use its limiters. These see nothing of a
request but the address, so only behind one request, without headers or proxies, are they run.

The proofs are in modules of their own, named after the component with `Proofs` behind it. Some hold the
proofs of a neighbour too and extend both models: `StreamTableProofs` also `Session`, `DialProofs` also
`Server` and `Reputation`, `LimitsProofs` also `ClientIP`, and `NodeProofs` both `Wrapper` and `ProxiedRequest`. So that two can be extended together, the second one's
specification bears its name (`SessionSpec`, `ServerSpec`, `ReputationSpec`, `ClientIPSpec`, `RequestSpec`). `SumTheorems` has what several
need about sums over finite sets and about joining a sequence of sequences.

## 3. Runs

| Run | Bounds | Shows |
| --- | --- | --- |
| `write_queue` | 3 requests of sizes that overflow a queue of 3 bytes | one writer, one truthful answer, exact byte count, no queue without a writer, what is queued before the drain is answered, refinement of `OrderedChannel` |
| `stream` | 3 packets, credit 2, 2 early packets, 2 queued, 1 reply | order while open, nothing dropped while the socket lives, buffer ownership, every CLOSE accounted for, the socket released, queued packets written |
| `stream_table` | 2 ids on 1 slot, 3 objects, limit 2, 1 violation | table and count agree; closed streams leave the cache; all are closed and uncounted at the end |
| `frame_reader` | 400 inputs of 3 frames, payload limit 3, control limit 2, a buffer of 14 bytes as in the code | what is handled is what the frames mean; buffers returned once; nothing left unhandled |
| `session` | 5 packets, 2 terminals, 2 ids, all configurations | nothing before the login; the deadline; processes end |
| `dial` | 2 goroutines, 3 dials, 4 units of time, TTL 1, SYN limit 1, 2 samples | recent answers, best allowed address, exact semaphore, justified matches |
| `limits` | 2 headers, lines of 1 part, 3 hops, 1 other address; 2 callers, limit 2, window 3, idle times 4, packets of up to 2, burst 1, 8 units of time | counted as the client; the window's and the rate's bound |
| `server` | 2 requests; limits none, 1 and 2; 1 byte each | exact semaphore, no double count, `Shutdown` ends what its closed sockets reach |
| `reputation` | 1 process, 1 source, 1 destination, weights 50 and -50 | restart restores the last save, only decay and negative weights lower a tier |
| `wrapper` | 3 workers, 3 ports, `start(1)` or `start(2)`, one port list with an invalid entry | parallel lists, round robin, distinct ports, no recorded worker lost, calls settle and `stop` leaves none |
| `proxied` | 2 pieces of data each way | both sides end together, data in order, a request that is not upgraded is timed out, and none outlives its client |
| `wrapper_orphan` | as `wrapper` | the finding of section 6 |

Why the bounds are enough for what is asked. *write_queue*: with three requests a
writer has a batch in hand while one request is queued behind it and a third
overflows, and a failed writer coexists with a new one. *stream*: three packets
take the three routes (early, direct, queued) in one behaviour; credit and
both bounds are reached and passed. `confirm` is varied for TCP only, where `handleConnect` asks for it. *stream_table*: three objects let
an id be taken by a second stream while the
first is still closing and another stream is open, and the two ids evict each other's streams from the slot; an id
with a slot of its own would meet the others in nothing but the count. *server*: two requests meet in the
compare-and-swap, one is refused at limit 1, both are active at limit 2 while
`Stats` and `Shutdown` range over them. *reputation*: steps of 50 cross
each threshold (20, 50, 80) and both ends of the clamp. *frame_reader*: the first two
frames make every state the loop can be in before the third (a message begun or not, header bytes of
the next frame left in the buffer or not), and the third is of every kind the loop tells apart; two long
headers do not fit the buffer at once. *session*: five packets are a login, two terminals, and two
packets that close or replace them. *dial*: three dials let one caller start a lookup, one join it and
one find the entry expired, and let a sample be older than the window when two newer ones arrive.
*limits*: eight units are two windows and more, and twice either
idle time; two packets of cost 2 are a debt that is longer than the idle time less the burst and the delay, so that
a bucket is forgotten too early and `forgotten` grows (without it in `RateBound`, TLC finds the bound passed). The
callers are alike, hence the symmetry; all properties are invariants. Two headers are one that the
client alone writes and one a proxy does; three hops are the first proxy, a further one and the wrapper, in any order; further
parts of a line differ in nothing that the last usable part does not show. *proxied*: one piece may be in a
head and one behind it. *wrapper*: three spawns allow a full start of two followed by
another start that meets the close events of the first.

Deadlock is checked for `write_queue`, `stream_table` and `reputation`. It is not where the system
or its bound really may stop: `stream` and `session` (closed, nothing left to do), `frame_reader` (the loop
has returned, or the client sends no more), `proxied` (the request is over), `server` (each connection is used once), and `wrapper`,
`dial` and `limits`, where the bound on workers, hops or time ends every behaviour.

### Fairness

Fairness is weak but for one action, and only for steps the program itself takes without waiting for
another party: a goroutine that can run does, a promise that can settle does, a timer fires. Clients,
destinations, terminals, signals, crashes, `Stats()` and applications owe nothing, and neither does a write to any of them:
no write to a destination or a terminal has a deadline, and one to a client has it only once `sendWSClose` or
`sendClosePacketAndWait` has set it (one second).

- `WriteQueue`: a submitter, `close()` and a writer run (`WriterRun`), but a write to a socket that is up
  (`WriterWrite`) may never happen; one to a socket that is down fails.
- `Stream`: `close()`, `handleConnect`, the reader and the ingress writer run (`ConnectRun`, `ReaderRun`, `IngressRun`), but
  `FlushWrite`, `DirectWrite` and `IngressWrite`, the writes to an open socket, may never happen. A dial returns (it has a
  timeout), and a read from a socket that is closed or broken fails.
- `StreamTable`: `close()` and the sweep at the end of a connection run, for they write to no socket.
- `Server`: handlers before the upgrade, ending readers and `Shutdown()` run. A reader that comes back to its socket again
  and again finds it closed in the end, hence strong fairness of `ReadClosed`; nothing makes the handler of a packet return.
- `FrameReader`: `readLoop` runs while it can: the bytes of the frames it was sent arrive, or the connection breaks, and the handlers it calls
  return (that they may not is in `Server`). `Session`: the read deadline passes, the sweep of a connection whose read loop has ended and the
  goroutines of terminals run.
- `ProxiedRequest`: events are delivered and the ten-second timer fires; pipes may stand still.
- `Wrapper`: a worker need not react to SIGTERM; `stop()` settles by its own timer.
- `Dial`, `Limits`, `ClientIP` and `Reputation` need no fairness.

## 4. What is proved

`WriteQueueProofs` proves, for every finite set of requests, every positive size
and every positive queue limit (the assumptions `RequestsFinite`, `SizeType` and
`MaxPendingType`, which TLC evaluates in `write_queue`):

- `TypeCorrect`: `Spec => []TypeOK`, inductive as it stands.
- `OneWriter`: `Spec => []SingleWriter`, inductive given types. The argument: the
  role is taken and given up only under `pendingMutex`, and only `StartWriter` makes a
  writer, when `writeActive` is false.
- `OneAnswer`: `Spec => []AnsweredAtMostOnce`. Not inductive: that a request has no second
  answer depends on where it is. `OwnedOnce` adds that a request in the queue or in
  a live batch is unanswered, occurs there once, and nowhere else; each step
  hands a request on or answers it.
- `FramesInOrder`: `Spec => []WireFIFO`. `InOrder` says where the rest of the accepted
  history is: while the socket is up, the unwritten part of the current writer's
  batch and then the queue are exactly `accepted` after the length of `wire`.
- `QueueImplementsChannel`: `Spec => ImplementsChannel`, from `InOrder`: the frame the
  socket takes is the next accepted one, so a write is `Deliver`, and every other step is
  `Accept`, `Down` or a stutter.
- `OkIsTruthful`: `Spec => []OkMeansSent`, from `SentOnWire`: the counted part of a batch is on
  the wire before `runWriter` answers it.
- `AnswersAreTruthful`: `Spec => []AnsweredOnceTruthfully`, the two together, as the run checks them.
- `QueueIsServed`: `Spec => []QueueHasWriter`, inductive given types and `SingleWriter`: a writer that
  finds the queue empty gives up its role in the same critical section.
- `BytesAreExact`: `Spec => []ByteAccounting`. `TotalSizeFacts` says that one more request adds its
  size to the sum, from `SumTheorems`; the queue otherwise is only emptied as a whole.

`StreamTableProofs` proves, for every set of ids, every assignment of ids to cache slots, every number of
streams and every limit (`SlotType`, `LimitsType`, evaluated in `stream_table`), from one invariant
`TableInv`: `TableTypeCorrect`, `OpenStreamsAreMapped` (`OpenIsMapped`), `StreamCountIsExact` (`CountIsExact`) and
`ClosedStreamsLeaveCache` (`CacheForgets`, "always, if ..., then always, ..."): from its `Delete` on a stream is no longer found in
the table, so a reader that does not have it in hand never will, and what the cache still has of it the look at its entry removes. Its heart is `Phases`: an object is what its id leads to until its
`close()` reaches the `Delete`, and never after; since a CONNECT needs the id free, that `Delete`, which goes by
id, removes the right stream. `ReaderHolds` covers the one stream that is stored but not counted yet.

About `Session`, it proves from `LoginInv`, for every set of terminals and ids:
`LoginComesFirst` (`NothingBeforeLogin`) and `DeadlineEndsWithHandshake`, the safety half of `HandshakeInTime`. The
link is that `authenticated` implies a checked password and a finished handshake, and that a finished
handshake has cleared the deadline.

`StreamProofs` proves, for every number of packets, replies and every bound on the queues (`BoundsType`,
evaluated in `stream`):

- `ReadyStreamsHaveConn` (`ReadyHasConn`), from `Control`, which says how far `handleConnect` and the reader can be while
  the stream is open.
- `ClosePacketsAccounted` (`ClosesAccounted`), from `Control` and `Answers`: no DATA packet is refused while the stream is listed, and
  each one that is was taken up after the last one the reader had taken up when the stream was closed. So the number of CLOSE packets
  for a stream is at most one more than the number of DATA packets that came too late. `Answers` also says that `close()` is not done
  before its own CLOSE is queued, unless the connection is closed, which it then stays (`ClosedForEver`).
- `SocketIsReleased` (`SocketReleased`), from `HadSocket`: if a stream had its socket when it was closed, `SocketKept`
  holds from then on, for `close()` is past the step that closes the socket before it is done, and the dial, which
  alone stores a socket, is over.
- `BuffersArePutOnce` (`BufferPutOnce`), from `Buffers`: the batch of the ingress writer followed by the queue is
  strictly ascending in packet numbers, so a buffer has one place; what is put back has left it.
- `DataIsInOrder` (`DeliveredInOrder`), from `Order`: while the stream is open one route is in use at a time, and
  what was written, the early data in hand, the batch and the queue, in this order (`Pipeline`), ascend
  and are all the reader has handled, but for early packets that the drain has missed. `LeftOver` says which these can be: packets
  handled after the drain and before the ready signal. That they may be held for ever is a deviation (section 6), and
  the theorem does not deny it: it says that data which came earlier or later is not lost.

`DialProofs` proves, for every finite set of streams, every limit, TTL, timeout, window and configuration, and names that
resolve to any number of addresses (`DialAssumption`, evaluated in `dial`; a detector exists only with a positive window):

- `SynSemaphoreIsExact` (`SynExact`), inductive given types.
- `AnswersAreRecent` (`AnswerIsRecent`). It needs that a lookup in flight is no older than its timeout (`FlightInTime`), that an
  entry expires no later than a TTL and one timeout after its answer (`EntryIsTimed`), and that nobody has
  read a time to come (`PastTimes`).
- `BestAllowedIsDialled` (`DialsBestAllowed`). `PickInv` says that the entry of the cache and every answer a stream is about
  to choose from are some answer in the order of `reorderIPs`; `PickIsBest`, that the first reachable address of such an
  order is better than every other reachable one. For this `FamilyLists` says which places of the answer the
  filter keeps and in which order, by induction over the answer.
- `MatchesAreJustified` (`MatchIsJustified`). `RingTimes` says that a result is recorded and matched at most
  `MaxDelay` after its dial: so the samples of a detector are in order but for that delay, and, since pruning stops at
  the first sample inside the window, none of those a match sees is older than a window and a delay
  before the caller's time. `Traced` says that each sample was made from a dial of its own, so that there are at least
  as many results in the history as there are samples, and as many failed ones as failed samples.

About `Server`, `DialProofs` proves for every finite set of requests, every bound on their bytes and every limit, zero
(none) included (`ConnsFinite` and `LimitsType`, evaluated in `server`):

- `ServerTypeCorrect`: `ServerSpec => []TypeOK`, which includes that the counter is between zero and
  the limit.
- `SemaphoreIsExact`: `ServerSpec => []SemaphoreExact`. The two are proved together, from `SemInv`: that `Release`
  does not go below zero needs the exact count, and that a swap does not pass the limit needs
  `LoadedBelowLimit`, that a value `TryAcquire` loaded and has not yet swapped is below it.
- `StatsCountsOnce`: `ServerSpec => []NoDoubleCount`, from `StatsInv`: the sum `Stats()` has so far is at most the bytes
  of `Counted`, the connections it has visited and those in the totals by now. It rests on the order
  in which a connection ends: out of `g.active` first, into the totals second.

About `Reputation`, for every configuration of the types the code gives it (`WeightsType` and `ThresholdsType`,
evaluated in `reputation`):

- `TierFallsOnlyByDecay` (`TierFallsByDecay`), for any number of processes on one store, any weights, negative ones included, and
  no threshold from 1 to 4. The condition is there because `Evict` forgets entries with a score
  below 5, which with such a threshold would lower a tier; the thresholds of the repository's example
  configurations (`example.config.json`, `security.config.json`) satisfy it. A tier also falls by a report with a negative weight,
  and then only that of the key which the report is about. Both example configurations set one, `successfulStream`, for which no code
  makes a report.
- `RestartHasLastSave` (`RestartRestores`), for one process on its store; with two it is false (section 6). `StoreInv`: the store holds what
  the last successful save had marshalled, and the temporary file is torn between its creation and its
  write, and whole before the rename.

`LimitsProofs` proves, for every finite set of callers, every limit, window, burst, delay and idle time
that `LimitsAssumption` allows (evaluated in `limits`):

- `WindowIsBounded` (`WindowBound`). `WindowInv` says what the entry knows of the requests allowed: those later than its
  start and a delay are in its count, and those later than a window before it are in its count or in
  that of one full entry before it. An entry that is forgotten is so old that what it counted is, too.
- `RateIsBounded` (`RateBound`), for debts and idle times of any length. The level alone is not inductive: what matters is what may
  still pass. `RateInv` says that reservations end by `bucket.next` and, but for what was forgotten, do not overlap (packets due
  between two moments cost at most the time between them and one packet), and that the level, with all packets due
  by any later moment, stays below a line that rises with time. When a bucket is forgotten (`RateForget`), the packets that still wait
  for their timers are due by its `next`, at most its debt after the last call, and the next reservation may start after the idle
  time less a burst and a delay; the difference, if there is any, is what `forgotten` grows by.

About `ClientIP`, it proves for any number of headers, proxies and addresses and for lines of any length (`ClientIPAssumption`,
evaluated in `limits`):

- `ClientsAreCounted` (`CountedAsClient`), from `HeadersInv`: in a header that a proxy next to the client has set or appended to, the last part
  of the first line that is no proxy is the client's address, with only proxies behind it in every line, whatever the client wrote
  before it; and a header that was dropped, or set by a later proxy, names proxies only. `ForwardStep` shows it of each way to pass a
  header on, `RouteStep` of the wrapper, which may join lines since those behind the first hold nothing but proxies by then.

`FrameReaderProofs` proves, for every sequence of frames, every size of the buffer and every division of the bytes into
`Read`s (`InputsType` and `SizesType`, evaluated in `frame_reader`):

- `PlaceKept` (`PlaceInv`): what is in the buffer followed by what is still to be read is the input from the place `readLoop`
  has reached, the start of a frame or the next byte of a payload, and the part of a payload that was copied is its
  beginning. Within a payload the buffer is empty before `Read` goes straight to the destination.
- `BuffersComeBack` (`BuffersReturned`), from `PutInv`.
- `FramesReassembled` (`Reassembled`): until the loop ends, `GoingOn` says that what is out, joined with the message in
  progress, is what `Meaning` says of the frames done with; when it ends, nothing that follows counts. `Meaning` is about the
  frames as a whole and has no state, so the proof goes frame by frame over its joined parts.

`NodeProofs` proves, for any number of workers, ports, callers and pieces (`PortsType` and `BoundsType`, evaluated in
`wrapper`, and `ItemsType`, in `proxied`):

- `SidesEndTogether` (`NoOrphanSide`), from `SidesInv`: if one side of a proxied request is gone and the other is not, the
  event whose handler takes the other is due.
- `DataRelayed` (`Relayed`), from `RelayInv`: what was passed on, the head, and what is unread are, in this order, the pieces
  sent. This needs that the worker's answer arrives at most once and that nothing is read from a socket
  before its head was put back.
- `ListsStayParallel` (`ListsMatch`), from `ListsInv`: besides `Parallel` itself, a worker that runs and was not told to end is listed
  once it has its close handler (`Listed`), the port and worker a `start()` holds across its awaits are not listed
  yet (`InCall`), there is one such call (`OneCall`), and while `stop()` waits no `start()` runs (`Stopping`).
- `RequestsGoRound` (`RoundRobin`), from `PicksInv`: the choices remembered since the list last changed are the ports at the
  places before `reqIndex`, going back round the list.

`SumTheorems` proves of `SumFunctionOnSet`, a fold over a finite set, what the other modules cite: an element
more adds its term, sums of naturals are naturals and grow with the set and with each term. Of `FlattenSeq` it proves that
one more sequence is appended to what the others join to. Both go by induction on a set of natural numbers, which the
provers can instantiate where a predicate they cannot.

TLC checks each inductive invariant on all states of the instance of its run, with two exceptions. `RateInv` of `LimitsProofs`
quantifies over all integers; it was checked with both moments between -4 and 14 and six units of time instead of eight, enough
for debts to be forgotten. `Traced` is under a quantifier over functions that has no bound, and was not
checked at all. The theorems do not depend on these checks.

## 5. What is only model-checked

Liveness, everywhere: `QueuedBeforeDrainIsAnswered`, `QueuedIsWritten`, `AllClosedAtEnd`, `InputHandled`, `ProcessesEnd`,
the temporal half of `HandshakeInTime`, `ShutdownEnds`, `CallsSettle` and `RequestEnds`. The prover does not
handle fairness. Every other property of a passing run is stated by a theorem of section 4.

## 6. Findings and known deviations

`wrapper_orphan` has a run that TLC answers with a counterexample, and an entry in `findings`: the
`close` event of a worker that is on no list any more resets `processes` when the list is empty, also
when that list belongs to a new `start()`; the worker being spawned then is on no list, and
`stop()` and `kill()` miss it. In the counterexample the `close` event comes while `start()` waits for the new worker's `spawn` event; the
same happens one step earlier, with the event during the port detection, which takes longer.

The models also contain these behaviours, which a reader of the code may not expect. They are
faithful to the source; no property above claims otherwise, and where a property has a
condition because of one of them its comment says so. The formula in brackets, checked
as an invariant or a property, has the behaviour as its counterexample.

- *Write left behind.* `submitWrite` looks at `isClosed` before it locks. While a failed writer still has its role, a request that passed the
  check may be queued after `close()` has drained the queue; no writer is started for it then, and none comes. It is never answered,
  and a `writeAndWait`, which `sendWSClose` and `sendClosePacketAndWait` use, then blocks its goroutine for ever. [`WriteQueue`: everything in `accepted` is answered in the end]
- *Blocked for ever.* Writes have no deadline but for the one second that the last frame of a connection gets. A client that does not read keeps its
  writer until the connection is closed, and a destination or a terminal that does
  not read keeps the goroutine that writes to it: the ingress writer, or the read loop itself (`wisp-connection.go:288` and 338,
  `twisp.go:153`). A read loop that is away from the socket, there or in a `writeAndWait` left behind, does not see that the socket was closed: the connection
  does not end, and its slot in the semaphore is not freed. [`Server`: a connection open at `Shutdown()` ends]
- *Upgraded sockets kept.* In `route()` the pipe stops reading from the worker while the client does not read. A client that ends its
  side and reads nothing keeps both sockets; after the upgrade there is no timeout. [`ProxiedRequest`: `s.up = "ended" ~> ~Busy`]
- *Several CLOSE packets.* DATA that is on its way when a stream closes finds no stream, and each such packet is answered
  by a CLOSE of its own (`closeReasonInvalidInfo`, `wisp-connection.go:294`), beside the one `close()` queues and perhaps before
  it. [`Stream`: `closing.sent + reader.refused <= 1`]
- *Early data lost.* `handleConnect` drains `pendingData` (`wisp-stream.go:273`) before it
  signals readiness (293). A DATA packet handled in between is stored as early data and never
  written, while later packets are. [`Stream`: `s.isOpen /\ s.connReadyDone => pendingData = <<>>`]
- *Nil socket.* `handleDataPacket` checks `isOpen`, then `connReadyDone`, then writes to
  `stream.conn`. A stream closed in between, before its dial succeeded, is ready with a nil `conn`,
  and the write is a nil dereference. [`Stream`: `reader.pc # "panic"`]
- *Socket kept.* A stream closed while its dial is running keeps the socket the dial then stores
  until the destination ends it; `SocketReleased` speaks of streams that had their socket when they were closed.
- *Credit.* Packets stored during the dial are not counted against `bufferRemaining`, so a client that
  has used all its credit by then gets no CONTINUE. The repository states no promise about it.
- *Stale cache.* The stream cache is filled after the table was read and cleared after the table entry
  was deleted. A reader that found a stream just before its `close()` may store it just after `close()` has looked, and the closed
  stream stays there until the slot sees another id. With the id used again, DATA for the open stream then finds the
  closed one and is dropped. [`StreamTable`: a closed `reader.obj` is never found while `streams[reader.id]` is open]
- *Last save lost.* `main` does not wait for the save it asks for when it stops, so scores
  since the last periodic save may be lost. [`Reputation`: whenever `up` falls after `stop`, `mem = saved`]
- *Shared temporary file.* Workers of the wrapper share `storePath` and so its `.tmp` file; one may
  rename what another has just truncated. [`Reputation` with two `Procs`: `store.kind # "torn"`]
- *Terminals left running.* A terminal whose id is used again by the client is no longer in the
  registry, and one that is registered after the sweep of `deleteAllWispStreams` is never swept: neither process is
  killed when the connection ends. `ProcessesEnd` excludes exactly these, by the history variable `misused`.
- *Failures cached.* A failed lookup, the first caller's timeout included, is given to everybody for the whole TTL.
- *Debt forgotten.* `BandwidthLimiter.Wait` reserves without a bound, and `Evict` goes by the last call: a bucket with reservations for more than
  the idle time is dropped with them, and the source may send at once while earlier packets still wait. One packet of 256 KiB at
  `bandwidthLimitKbps` 1 takes 2097 seconds, the idle time is 600, and the packets of all connections of a source add up. `RateBound`
  counts what is forgotten. [`Limits`: `level <= MaxDelay + Max2(Burst, MaxCost)`]
- *Headers believed.* What a client writes into a trusted header counts if no proxy next to it undoes it. `ResolveClientIP` goes by the first
  trusted header that is there and reads only its first line. With the default headers (`CF-Connecting-IP`, then `X-Forwarded-For`,
  `config.go:276`) a proxy that appends to the second and passes the first on lets the client name any address, and so does one that adds a line
  of its own behind the client's. The wrapper passes headers on and does not add the address of its client: behind it a worker sees `127.0.0.1` and,
  if that is trusted, what the client wrote; if not, it counts all clients as one. `Accountable` is the condition that excludes these
  cases. [`ClientIP`: `counted # Nobody => counted = Client`]
- *Data after the end.* In `route()` the `close` of the worker's socket destroys the client's, also
  when the last bytes of the pipe are still to be written; `Relayed` promises a prefix.

## 7. What is not modelled

- The upstream proxy dialer (I/O on one socket without shared state), configuration (its limits are
  constants here), logging, socket options, path helpers and the Vite plugin.
- The layout of packets and frames: `maskXOR`, lengths, extensions of INFO, `splitShell`, `resize`.
- The allow and deny lists of `EgressPolicy`, which `PolicyFromConfig` never sets; a missing DNS cache
  (the name is then dialled as it is); the choice of a resolver.
- `Signatures.Forget`, and the detector a dial that ends after it makes again, which nothing removes.
- Two `start()` calls in progress together: the application awaits each call.
- Two `Shutdown()` calls at once; event counts and timestamps of the reputation.

## 8. Plan

Every safety property of the runs is proved, and what is left of the proofs is out of the prover's reach (section 5).
When the code changes, `map` in `PROJECT.json` says which definitions to look at; these parts of the model could still grow:

1. `Signatures.Forget` in `Dial`, with the detector that a late dial makes again.
2. Flow-control credit in `Stream`, once the code says what a client may rely on.
3. Two `start()` calls in progress together in `Wrapper`, once the wrapper says what they should do.
