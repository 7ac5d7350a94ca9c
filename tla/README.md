# PacketLab in TLA+

PacketLab captures HTTP traffic in two ways: a proxy on which a person may hold,
change or drop messages, and an engine that reads packets from a network card.
Both put what they see into one SQLite store, and a web interface shows it as it
arrives.  Most of the program is goroutines that hand captured requests to each
other through channels, a ring and shared maps, while anyone may press stop or
the process may die.  This directory holds TLA+ models of those parts, the TLC
runs that check them and machine-checked proofs about most of them.

Paths below are relative to `src/`.

## 1. Inventory

| part | source | state it keeps | operations | what makes it correct |
|---|---|---|---|---|
| batch writer | `internal/proxy/batch.go` | channel, a batch per worker, `stopped` | `Enqueue`, two workers, `Stop` | one row per request, announced after it exists; Stop strands nothing |
| ring buffer | `internal/capture/memring.go` | slots, `head`, `tail`, byte ledger | `Push`, `PopBatch`, `Stop`, `Usage` | a drop-oldest queue; no lost wake-up |
| async writer pool | `internal/capture/memring.go` | a batch per worker, `stopCh` | workers on a ticker, `Stop`, chunked saves with retries | as the batch writer, minus what the ring evicts |
| interceptor | `internal/proxy/interceptor.go` | mode, rules, pending queue, one channel per message, log channel | `Handle`, `HandleResponse`, `Resolve`, timers, `Stop` | nobody blocks, decisions in time are honoured, the log is true |
| WebSocket hub | `internal/api/ws.go` | set of clients, a channel each | register, unregister, broadcast, pumps, `Stop` | no send on a closed channel, no gaps, no stuck hub |
| capture control | `internal/api/server.go`, `cmd/proxy/main.go` | pointer to the current engine, `captureMu` | start, stop, shutdown | one engine at most is running unowned |
| capture engine | `internal/capture/engine*.go` | handle, workers, ring, pool | `Start`, `Stop`, `packetLoop`, `workerLoop` | Stop drains in order, restart is clean |
| TCP assembler | `internal/capture/engine.go` | streams with two buffers and a waiting request | `Assemble`, eviction, idle tick, close | each request once, with its own response |
| proxy server | `internal/proxy/proxy.go` | the record of an exchange | `OnRequest`, `OnResponse`, three ways of saving, `Stop` | the row tells what went over the wire; nothing answered is lost at exit |
| SSE relay | `internal/proxy/proxy.go` | copy of the stream, the shared record, its row | one goroutine per response | the record follows the client, and ends complete |
| LLM analysis | `internal/llm/parser.go`, `internal/proxy/llm.go` | a stream assembler | `Feed`, `Result`, `ParseResponse` | a streamed answer is stored like a whole one |
| store | `internal/store/store.go` | database, host list cache | save, delete, cleanup, host list, API map | the cache is not stale; the map counts each request once |
| start of the program | `cmd/proxy/main.go`, `internal/store/store.go`, `internal/proxy/mitm.go` | schema, settings, the two files of the CA | migrations, `LoadOrGenerateCA`, loading of mode and rules | it survives a crash at any step and overwrites nothing |
| rules and mode | `internal/api/server.go` | the same twice: in the database and in the gate | handlers of several administrators | what was answered is in force, now and after a restart |
| middleware, resend, HAR, queries, config, prices, frontend | `internal/api`, `internal/store`, `internal/llm`, ... | little | - | see section 8 |

How they interact: the proxy handlers call the interceptor, then save through
the batch writer (ordinary responses), directly (LLM answers) or through the SSE
relay.  The capture engine's packet loop hands packets to workers, a worker's
assembler pushes records into the ring, the pool writes them.  Every writer
calls `onSave`/`onCapture` for a saved record, which puts it into a channel of
the hub; the hub's goroutine copies it to the channel of every browser.  The
REST server starts and stops engines, resolves held messages and changes rules.
`main` stops everything in an order of its own.

What is hard to test here, each with its line, is the list `hazards` of
`PROJECT.json`: stops that race with producers, retries that fail halfway,
timers that fire while a user decides, buffers at their limits, records shared by
pointer, caches filled by an old query, packets that are lost or come late, a
process that dies between two writes.

## 2. Modules

| module | models | composition |
|---|---|---|
| `CaptureSink` | what a buffered writer of captured requests promises | abstract |
| `RequestTable` | rows, ids and failures of the store | used by both writers |
| `BatchWriter`, `BatchWriterProofs` | the proxy's batch writer; proofs | implements `CaptureSink` |
| `RingQueue` | a bounded queue that drops its oldest | abstract |
| `MemRing` | the circular buffer with its byte ledger, condition variable, `PopBatch` | implements `RingQueue` |
| `AsyncWriterPool`, `AsyncWriterPoolProofs` | ring to database; proofs | uses `RingQueue`, implements `CaptureSink` |
| `Interceptor`, `InterceptorProofs` | the approval gate; proofs | |
| `WSHub`, `WSHubProofs` | hub, readers and writers of the browsers; proofs | |
| `CaptureEngine` | the life of an engine: `Start`, `packetLoop`, workers, writer, `Stop` | |
| `EngineControl`, `EngineControlProofs` | who owns the running engine, and the shutdown; proofs | extends `CaptureEngine` |
| `SSERelay` | one streaming response, the row and the hub that reads the record | |
| `ProxyFlow`, `ProxyFlowProofs` | one exchange through the proxy, and the shutdown of `main`; proofs | extends `SSERelay`; the gate and the batch writer are what `Interceptor` and `CaptureSink` promise |
| `APIMap` | the tree of the paths of a host (pure operators) | |
| `StoreViews` | `ListHosts` with its cache, `GetAPIMap`, and the writes behind them | uses `APIMap` |
| `SumProofs` | proofs about the two components that keep sums: the ring (bytes) and the views of the store (requests) | extends `MemRing` and `StoreViews` |
| `Startup` | `main` from the start to serving: migrations, settings, certificate files | |
| `RuleSync`, `RuleSyncProofs` | rule and mode handlers in the process `Startup` brings up; proofs | extends `Startup` |
| `TCPStream` | what one stream makes of the bytes of a connection (pure operators) | |
| `Assembler` | a capture worker, its streams and the connections it sees | uses `TCPStream` |
| `LLMStream` | parsing of whole and streamed LLM answers, and the stored exchange | |
| `MC*` | the instances TLC checks | |

### How state and actions correspond to the code

* **BatchWriter.** `ch` is `b.ch`, `batch[w]` and `tries[w]` the locals of
  `loop`, `phase[w]` where worker `w` is.  `Enqueue` is one call: the lock,
  the look at `stopped`, the send or the synchronous save when the channel is
  full.  A database call is one step that succeeds or fails; a batch save is all
  or nothing, as its transaction is.  `onSave` is the announcement.
* **MemRing.** `head`, `tail`, the slots `buf` and the ledger `bytes` are
  the fields; `Push` drops a record that is above the byte cap alone, evicts at most one
  record for another, and signals; a consumer waits, is woken, copies.  `RingSize` is
  the rounding to a power of two.
* **AsyncWriterPool.** `FlushAll` is `flushAll` with its chunks, attempts and
  fallback, used by a worker and by `Stop` itself after the workers have left.
* **Interceptor.** A message goes through the steps of `Handle` or
  `HandleResponse` and `awaitDecision`; `pending[i]` is the map, `result[m]` the
  channel of capacity one, `timer[m]` the timer, `call[a]` how far an
  administrator's `Resolve` is.  Ids are clock readings: two messages may get
  the same one (`ClockRepeats`).  The log channel, its writer and `Stop` are
  modelled with their capacity.
* **WSHub.** The hub's `select` is `Run` with one action per case; the broadcast
  is a step per client.  A browser's connection may die at any time.  `Stream(c)` is
  what a browser has been given and what waits in its channel; a new request in it
  is the one that many places after the registration as the stream has new requests
  up to it (`Rank`).
* **CaptureEngine.** `running[e]` is `Engine.running` and the open handle, which
  change together under `Engine.mu`; `loop`, `worker` and `pool` say how far the
  goroutines are, `cargo` where the latest packet is.  The four workers, their
  streams and the ring are one place each: `Assembler`, `MemRing` and
  `AsyncWriterPool` have their inside.  `Start` is one step (it holds the lock
  and nobody knows of the engine yet), `Stop` two: telling and waiting.
* **EngineControl.** A handler is a program counter.  `captureMu` is held where
  the code holds it.  `Panic` is `packetLoop` finding no handle.
* **SSERelay.** `pc` is where the goroutine of `handleSSEResponse` is.  A line is
  a data line or a blank one and is only counted, so that the fields `SizeBytes`
  and `DurationMs` become the number of lines the update that set them reports.
  The hub reads the two fields one after the other.  A line the scanner does not
  take is an end of the stream (`StreamOver`).
* **ProxyFlow.** `req` and `res` are what goproxy holds, `rec` is `captured`,
  `wire` and `reply` are what the server and the client have got, `kept` and
  `llm` the row and its LLM data.  A message is a version (as it came, edited,
  the gate's own) with the length of its body; `storeFunc` is part of the actions
  in which the gate changes a message.  `main` is the shutdown: `Drain` is
  `Server.Stop` (waiting for the HTTP server with a limit of ten seconds, then the
  batch writer), `Close` everything up to the end of the process.
* **APIMap, StoreViews.** A path is the sequence of what stands between its
  slashes, a tree a function from nodes to counts.  A writer holds `mu` from its
  statement to the invalidation of the cache; a reader of the host list looks,
  queries and fills in three steps.  `GetAPIMap` is its query and one step per
  path, in any order, as Go walks the map.
* **Startup.** `pc` is the step of `main`.  The database is the set of the
  migrations done and the set of those recorded, and three settings; a
  certificate file is absent, empty (cut by `os.WriteFile`) or of some pair.
  `Crash` may happen at every step, and everything not on disk is gone then.
* **RuleSync.** A call that changes the rules is write, read, install; one that
  changes the mode is install, write.  A list of rules is represented by the
  number of changes it reflects.  `acked` is a ghost: the last change somebody has
  been answered for.
* **TCPStream, Assembler.** The bytes of a direction are tokens: a request, a
  response head that announces a number of body tokens, a body token, a
  ClientHello, in which `extractSNI` finds a name or not.  `Feed`, `Extract`,
  `OnClose`, `Truncated` are the functions of the same purpose; `Assemble` is the
  whole way of a packet including the eviction it may cause.  The kinds of responses are those the code tells apart:
  with a length (`framed`, `large` when no buffer holds it), without a body,
  preceded by a `100`, an event stream, and one that only the close ends; and those to
  HEAD, and `304`, that look like one of them while no body follows (`BareKinds`).
  `intact[c]` says that one stream saw all of a connection, `cut[c]` which request was
  waiting when a buffer first overflowed, `net[c].bare` which answer first lacked
  its body.
* **LLMStream.** A piece of text or of a call's arguments is a token.
  `CallOpenAI`, `CallAnthropic`, `CallGemini` are the three feeds, `Whole` the
  parse of the complete answer, `Usage` the fallback to an estimate.

## 3. Runs

| run | question | instance |
|---|---|---|
| `batch_writer` | does a writer with retries, a fallback and Stop keep its promise? | 4 requests, channel of 1, batches of 2, 3 attempts, 2 workers, 2 calls of Stop |
| `mem_ring` | is the circular buffer a drop-oldest queue? | 4 slots, 7 records of 1, 3 and 5 bytes, cap of 4 bytes, 2 consumers |
| `async_writer` | does the ring with its pool keep the promise? | 3 requests, ring of 2, chunks of 2, 2 attempts, 2 workers and Stop |
| `interceptor` | does the gate hold, decide and release every message? | 1 request, 1 response, 2 administrators, 2 ids that may repeat, queue of 1, log channel of 1 |
| `ws_hub` | can one slow or dying browser hurt the others, or the hub? | 2 browsers, one of which may die, 2 new requests and 1 update, buffers of 1 |
| `engine_control` | do concurrent starts and stops keep hold of the engines, and end them cleanly? | 2 starts, 1 stop, an engine of main and its shutdown |
| `engine_leak` | can a stop forget a new engine? (yes) | 1 start, 1 stop |
| `proxy_flow` | does the row tell what went over the wire, also at the end of a stream and of the program? | 1 exchange, bodies of 0 to 2 with a limit of 1, 3 lines, a copy of 2, a channel of 1 |
| `store_views` | when is the host list stale, and does the map of a host count right? | 2 hosts, one also with a port, paths `/`, `/x`, `/x/`, `/x/y`, 2 readers, 2 rows, TTL of 1 tick |
| `server_life` | does the program come up after any crash, with the settings and rules it had? | 4 migrations of the 3 kinds, 3 certificate pairs, 2 faults, 2 administrators, 2 changes of rules |
| `tcp_streams` | is every request recorded, once, with its own response? | 1 stream at most, 2 connections (one HTTP, serial or pipelined, or TLS with or without a name, the other TLS), 2 exchanges, buffers of 2 tokens |
| `llm_stream` | does streaming change what is stored? | 4 answers of up to 7 pieces, 3 protocols, index limit of 1 |

### Why the bounds are enough

Each bound is one more than what the interesting case needs.  A channel of one
is full with two producers; a batch of two is both partial and full; three
attempts have a first, a middle and a last failure.  Four ring slots wrap within
the run, and the three sizes reach the entry cap, the byte cap, also where one
eviction does not make room enough, and the record that exceeds the cap alone.  Two workers
suffice for the races among workers since a worker shares nothing with another
but the queue.  Two administrators and two messages give the double decision and
the repeated id.  One stream per worker makes every second connection an
eviction.  In a buffer of two tokens a body of three overflows with and without
its head.  Two new requests and an update in buffers of one let a browser miss the first
and have room for the second.  One call beyond the index limit shows where the limit cuts.

Two rows are two paths of one host in one map, or a list with two hosts.  A body
of two is above the limit of one and leaves a rest to be forwarded.  The four
migrations are one of each kind and a second column, so that a crash can fall
before, between and after columns; three pairs are the two on disk and a new one;
with two faults a crash can follow a failure or another crash.

Bounds that are in guards: browsers whose connection may fail by itself (`Faulty`, one of
two in the run: two browsers meet only in the hub), requests per connection (`MaxExchanges`), one
lost packet in a run, of an HTTP connection, while every connection still has the
stream that saw and held all of it, and one retransmission per connection, of its last request; lines of a
stream (`MaxLines`); rows (`MaxRows`); crashes and failed calls of `server_life`
(`MaxFaults`) and changes of rules (`MaxChanges`).  `StreamBound` makes a
streaming response answer a request without a body that passed unchanged: the
request's side is the same for all responses.  `Quiet` lets a call of `GetAPIMap`
begin only while no writer and no reader of the host list is under way: it shares
nothing with them but its one query.  Requests, handlers and administrators of
`batch_writer`, `async_writer`, `interceptor` and `engine_control` act once.

### What the runs show

In every run `Inv` (in `store_views`, `ViewsInv`) is the type invariant together with
the invariants named here.

* **Writers.** A request never gets two rows although a failed batch is retried
  and then saved singly; it is announced after its row, with that row's id, at
  most once (`AnnouncedIsPersisted`); a `Stop` that has returned leaves nothing in
  a queue (`StopLeavesNothing`); both writers implement `CaptureSink` (`SinkSpec`) and,
  with fair workers, settle every request.
* **Ring.** The ledger equals the sum of the records in the ring, indices stay
  exact through wraps, a waiting consumer is never stranded.
* **Gate.** No entry without its waiting handler stays in the queue
  (`PendingIsWaiting`), `Resolve` never blocks, a decision sent before the timer
  can expire is the one acted on, the log tells what happened, except for one
  documented race (below), and every held message leaves.
* **Hub.** A client sees all new requests from its registration to its last, without a
  gap (`NewRequestsGapFree`); while it is registered its channel is open and has
  everything (`RegisteredAreServed`); a broadcast ends; after `Stop` every pump ends.
* **Capture.** A `Stop` that has done its work leaves no goroutine and nothing
  unsaved, and no record meets a closed ring.  Starts replace engines without
  leak or pause; the server's pointer is never left at a dead engine.
* **Proxy.** The row has the request the server was sent and the response the
  client was given, whichever of them a user has edited, and what is stored is cut
  at the limit while what is forwarded is not (`RecordTellsWire`); the exception
  is a response the gate refuses, of which the row has the original.  When the
  program has ended, an answered exchange has its row unless the database failed,
  and a stream the shutdown could wait for has had its last update
  (`ExitKeepsAnswered`); neither an endless stream nor an undecided message keeps
  the program from ending.
* **SSE.** The row never claims more than was sent to the client (`Inv`) and is
  complete at the end, with the LLM exchange (`RecordIsComplete`); updates seen by
  browsers never go back; a stream that is over is over for its goroutine, too.
* **Host list and API map.** A list is stale only after a race between query and
  write, or a deletion that failed halfway, and for no longer than the TTL.  A
  map that is returned counts every request once in every order of insertion, but
  for paths that share a node or have none (`MapIsExact`).
* **Start and rules.** After any number of starts that died, the program goes on
  only with the whole schema (`SchemaIsComplete`) and with a pair that fits,
  unless the writing of the two files was interrupted (`MitmUnlessTorn`); no start
  overwrites a setting; it always comes up when it is started again.  An answered
  change of the rules is in force, now and after a restart, unless reading the
  list failed or a list was overtaken by another administrator's
  (`RulesEnforced`), and the mode is the stored one unless a write failed or two
  calls crossed (`ModeSurvives`): the exceptions are ghosts that the actions set
  where the code has the gap.
* **TCP.** A worker never holds more than its limit of streams.  Whatever
  evictions, ticks, FINs of one side, packets after a FIN and losses happen, a
  request that is seen once is recorded once at most.  While one stream sees the
  whole connection, the recorded response is the request's own (`PairsMatch`), and no
  serial request disappears without a record (`NothingMissed`).  Both say where
  that ends: a buffer that overflows, of which the waiting request is still recorded,
  and an answer that announces a body which never follows, which keeps its own head.
  A TLS connection is recorded when its first segment names the server.
* **LLM.** While no event is lost the assembler has a beginning of the whole
  answer, calls at their places with their own arguments in every interleaving;
  a complete stream is stored as the whole answer would be; token counts are
  the provider's or marked as estimated.

### Disagreements with what the repository says

* `engine_leak`: `handleCaptureStop` does not take `captureMu`; a start in
  between leaves a running engine nobody points to (`server.go:847`, against the
  comment at `:811`).

## 4. Fairness, and why the code justifies it

Every fairness condition is on a goroutine that is running and needs nobody's
permission.  Workers of the two writers are weakly fair: their `select` always
has a ticker.  In the pool a worker's look at `stopCh` is strongly fair, because
the ticker is ready again and again and Go chooses among ready cases at random;
the same holds for `Unregister` and the hub's own stop.  Handlers, timers and
the log writer of the interceptor, the handlers of capture control, the goroutines of
an engine that end it, and the SSE relay are weakly fair.  That the relay ends when its
client has left assumes that reading from the server ends, too: net/http cancels
the request to the server together with the client's.  In `proxy_flow` that
holds for the handlers of an exchange, the relay, the workers of the batch writer
and `main` after a signal, not for the gate, the server or the client.  In
`store_views` only time passes and a call that has its rows ends.  In
`server_life` somebody starts the program when it is down and `main` takes its
steps; crashes and failures are bounded by `MaxFaults`, which is the assumption
that they end.  Nothing is assumed of users, browsers, packet arrival or
the database: calls may fail for ever, a client may never read, nobody need
decide or press stop.  Liveness runs use no symmetry.

Deadlock checking is off only where the system really ends: after `Stop`, after
the exit of `main`, when a stream, an exchange or a response is over.

## 5. Proofs

TLAPS proves the following for every value of the constants, under the modules'
named assumptions only: finite sets of processes where something waits for all of
them or counts them, positive capacities, at least one consumer of the ring,
distinct kinds of actors, paths that are sequences of names, and a `None` (`NoRec`)
that is no value of the kind it stands beside.

**BatchWriterProofs** (any number of requests, workers and callers of Stop, any
capacity, batch size and number of attempts).  `IInv` says where a request can
be and what is known of it there: it is at one position of one queue at most, no
row and no announcement exist for a request that is queued and not yet in the
insertion phase of its worker, a row with its id exists once the worker
announces, and a worker that has exited has nothing.  Without the first part, a
batch save could insert a request twice; without the last, `Stop` would not know
the channel empty.  From it follow `TypeCorrect`, `StoredOnce`,
`AnnounceAfterSave`, `StopDrains`, `Safety` (the `Inv` of the run), `DrainIsIdle`
(the drain loop at the end of `Stop` never finds anything), and `Refinement`:
every step is a step of `CaptureSink` or a stutter, under the mapping the run
`batch_writer` uses.

**InterceptorProofs** (any messages, administrators, ids, rules and capacities).
The invariant follows a message from the queue to the call of `Resolve` that took
it and from there to its channel: it is in at most one of the three, so a send
finds the channel empty; an entry belongs to the message that registered it even
when ids repeat; a message's timer and its decision are ordered.  From it follow
`TypeCorrect`, `NoDeadEntries`, `SendsAtOnce`, `PromptHonoured`, `LogIsTruthful`,
`StopDrains` and `Safety` (the `Inv` of the run).

**RuleSyncProofs** (any list of migrations that sets the default mode somewhere,
any number of administrators, changes, faults, pairs and retention periods).  The
invariant has a part for each thing a step relies on.  Only a program that serves
has calls under way (`CallsNeedProgram`): otherwise a call could answer for a
process that has died.  The versions recorded are a beginning of the list, and
`main` is at the next one (`SchemaInv`): so a start continues where the last one
died.  Two files that are there belong together unless the mark of a torn writing
is set, and between the cut of the first and the end of the second it is
(`AuthorityInv`).  A list that is about to be installed has its call's own change
(`RulesInv`), and a mode in memory that is not the stored one is still to be
written by a call, or has been crossed by one (`ModeInv`).  From it follow
`StartIsSound`, `RulesAreEnforced`, `ModeIsKept` and, for the action property,
`SettingsAreKept`.

**SumProofs, of the ring** (any size of the ring, any records and sizes, any cap of bytes,
any number of consumers).  The invariant is the types and ledger, the places of the
records and the wake-ups together (`IInv`).  They need each other: the eviction
in `Push` may happen only on a ring that is not empty, which the ledger tells
(bytes that are too many belong to somebody), and a record takes out of the
ledger what it has put in only because it is in the ring once (`Where`, which
`WhereIs` shows to be `NothingVanishes`).  `Live`, the slots between the two
indices, is given by the indices modulo the size; `LiveEmpty` says that equal
indices are an empty ring and never a full one, and the lemmas around it what a
slot written at the head or freed at the tail does to it.  From the invariant
follow `Safety` (the `Inv` of the run), `WakeUps`, and `Refinement`: with `Live` in
the place of its queue every step is a step of `RingQueue`.  That the ledger
is a sum, whatever the order of its records, is shown by induction over finite sets
(`MinimalSubset`): `SumOf` is what `MapThenSumSet` computes, and `SumStep` to
`SumInto` are the laws of sums that both components need.

**SumProofs, of the views** (any finite set of requests on any hosts and paths, any
number of readers, any bound of the rows, any TTL).  Of the cache the invariant
says more than the property (`CacheInv`): while no write is under way, *every* list
in it is the one in the database or one of the marks is set, also a list that is
too old to be served, since whether it may be served depends on the clock alone.  That
counts stay within the bound of the rows needs that the rows of one host are a part
of all rows (`SumPart`), for the table after every kind of write.  Of `GetAPIMap`
it says what the tree has of the paths inserted so far (`MapInv`).  The tree is
closed under prefixes (`TreeOK`).  A node that counts has the count of a path that
was inserted; unless two paths share a node each path has its own; and while no path
leads through another, nothing is counted that is not counted by status (`Counted`).
`InsertTree` and `InsertCounted` show that `InsertPath` keeps both, in any order.
`AggregateIs` shows for any tree what the recursion of `AggregateNodeStats` leaves
in a node: the sum over all nodes under it.  It gives the function that has
these sums, shows that it satisfies the recursive equation, and that no other
does, by induction over the sets of nodes under a node, those of children being
disjoint and smaller (`BelowChildren`, `SumFamily`).  With an injection from nodes
to paths, and one back if the paths are distinct (`SumInto`), the root has the number of
the rows.  From it follow `HostsAreFresh` (the `ViewsInv` of the run) and
`MapsAreExact`.

**AsyncWriterPoolProofs** (any number of requests and workers, any capacity, chunk
size and number of attempts).  A record is in the ring or in one batch, at one
place of it (`OnePlace`), and what is known of it depends on the place: before the
position a flusher has come to in its chunk it has been tried, stored or announced,
behind it nothing has happened to it (`Progress`); elsewhere it is untouched or
over (`Outside`).  `Stopping` is the order of a Stop: no worker is left when it
empties the ring itself.  From it follow `Safety` (the `Inv` of the run),
`StoredOnce` and `Refinement`: the pool with its ring implements `CaptureSink`.

**WSHubProofs** (any number of browsers, any events of any kinds, any room in the
channels).  The invariant says what `run` still owes the clients it has not come to
in a round (`HandingOut`, `Missing`): for a client that is registered the place of
its registration, the new requests in its stream and the one it is owed add up to
what was taken (`Exact`), and each of them is the one its rank says
(`AllGapFree`).  From it follow `Safety` (the `Inv` of the run: no gap) and
`NobodyFallsBehind` (`RegisteredAreServed`: also no send on a closed channel, and
none closed twice).

**EngineControlProofs** (any number of requests to start and to stop).  The parts
of an engine end in one order (`PartsInOrder`): the pool after the workers, the
workers after the packet loop's reading; without it a record could meet a closed
ring.  A request that works with an engine holds `captureMu` (`Roles`), and nobody
else knows an engine before it is published (`Unpublished`).  `Replacement` says
which engines run at each step of a start while nobody asks to stop: the old one,
both, the new one.  From it follow `Safety` (the `Inv` of the run, with the
starts that leak no engine) and `NeverPauses`.

**ProxyFlowProofs** (bodies, limits, streams and channels of any size).  The
invariant has two halves.  That of the relay accounts for the lines: each is
forwarded, with the assembler, pending or skipped (`LinesCounted`), and the fields
of the record and the row follow in the order of the code (`FieldsFollow`,
`EndIsComplete`, `PushesBehind`).  That of the exchange says what the record is at
each step compared with what goproxy holds (`RequestRecorded`, `ServerAsked`,
`ResponseRecorded`), that a row is the record (`RowIsRecord`), and that a stopped
writer has nothing queued (`ShutdownInOrder`).  They touch in one place: the relay
works only while its exchange streams.  From it follow `Safety` (the `Inv` of the
run), `StreamsAreComplete`, `RowTellsWire`, `NothingAnsweredIsLost`, and for the
action property `PushesAdvance`.

Checked by TLC only: all liveness (`EveryRequestSettles`, `EveryMessageLeaves`,
`PumpsEnd`, `ShutdownEnds`, `ComesUp`, ...), since the prover handles neither
fairness nor ENABLED; and everything about the streams of the capture and the LLM
parser.  `TCPStream` and `LLMStream` compute over sequences of bytes and events, and
what they compute for every input would need an induction over sequences that the
prover cannot instantiate, and folds and filters of sequences that it cannot
unfold.  (An induction over finite sets is within reach, as the sums of `MemRing` and
`StoreViews` show, and so is counting by cardinality: `Rank` in `WSHub` counts that
way instead of filtering a sequence.)  The theorems hold for what the
models leave open as well; where a guard bounds an action (`MaxLines`, `MaxFaults`,
`MaxChanges`) the bound is a constant like any other, and a theorem covers all its
values.

## 6. Behaviour of the code the models made visible

A reader of the code should know these.  The runs do not count them as violations:
where a property would meet one, its statement excepts it by name.

* **Ring.** `Push` evicts one record at most, also when a large record needs the room of
  several: the ring may hold more bytes than its cap (`memring.go:92`, comments at
  `:37` and `:40`).  A record above the cap alone is dropped (`:84`).
* **Streams.** A TCP retransmission is taken for new data
  (`docs/NETWORK_CAPTURE.md:245` speaks of automatic handling by tcpassembly,
  which the code does not use): a request that is sent again is recorded again and
  shifts the responses after it.  This is why the properties of `tcp_streams`
  exclude retransmission while the model has it.  Responses are paired by
  position, so an eviction or idle tick in the middle of an exchange mispairs the
  connection's later exchanges.  A response to HEAD and a `304` with a
  Content-Length swallow the next response (`engine.go:1229`): its request gets another's
  answer or none, and requests behind it are dropped at the close.  So does an
  answer to HEAD without any length, which waits for the close, and one of an event
  stream.  (With the run's two exchanges the second is left without an answer, or with
  the head of its own; to get another's takes a third, which the statement excepts
  too.)  After a buffer has been cut (`engine.go:920`) the next head that is found may be
  paired with a request that waited for the old answer.  A ClientHello without a
  server name, or with it beyond the first segment, leaves no trace
  (`engine.go:852`).  Events in the segment of an event
  stream's head stay in `serverBuf` and never reach the row.
  `tryExtractHTTPOnClose` drops pipelined requests behind the first.  The FIN of
  the client ends the stream although the server may still answer, and the ACKs
  after it make a new stream that takes a slot.
* **SSE.** The hub reads the shared record without `capturedMu` (`proxy.go:449`,
  `ws.go:117`).  A line above 1 MB ends the relay (`proxy.go:535`).
* **Proxy.** `Truncated` of a request whose body was cut is overwritten by the
  response's flag, unless the response is empty, and not set again when a user
  edits the request (`proxy.go:141`, `:175`, `:239`).  A response that is dropped
  or refused by the gate leaves the row with the server's (`interceptor.go:377`,
  `:411`).  The LLM data describes the request as it came, not as a user has
  edited it (`proxy.go:149`).  A request whose round trip fails is not recorded at
  all.  When the client hangs up, the relay of its stream returns without the last
  update and without the LLM exchange (`proxy.go:476`).  Requests inside CONNECT
  tunnels and the relays' goroutines are not waited for at exit: `RecordIsComplete`
  and `ExitKeepsAnswered` are about the others.
* **Host list.** `store.go:940` fills the cache with a query older than the last
  invalidation.  The order of the list is by the counts before ports are merged
  (`store.go:904`).
* **API map.** The query of `GetAPIMap` is a raw string, in which `ESCAPE '\\'`
  (`store.go:745`) is two backslashes; SQLite refuses an escape of two characters
  when it evaluates the pattern, that is as soon as the table has a row whose host
  is neither the one asked for nor the same without its port.  The map of a host
  is then an error, and the promise of the comment at `:742` (the same host with
  any port) is never kept: `LikeRefused` is this condition, and `MapIsExact` speaks
  of the calls that succeed.  The tests have one host.  Paths that differ in their
  outer slashes only share a node, and the one inserted last counts; `//` has
  none; a leaf that turns out to lead further loses its methods, statuses and note
  but not its count, depending on the order of a Go map (`store.go:1010`).
* **Start.** If the writing of the pair is interrupted, HTTPS is not decrypted
  from then on, and no start repairs it: the two files are taken as they are
  (`mitm.go:64`), `X509KeyPair` fails silently (`proxy.go:80`), and `main` reports
  that decryption is on (`main.go:198`).  A mode that cannot be read at a start is
  "auto" without a word (`main.go:144`), that is, a gate that lets everything pass.
* **Rules.** A change is answered with success when the list could not be read
  again (`server.go:661`), and two changes at once may leave the older list in
  force (`server.go:662`).  The mode is set before it is written
  (`server.go:566`): two calls may end with different modes in memory and in the
  database.
* **LLM.** With several candidates Gemini's stream mixes them while the whole
  parse takes the first; the streamed total is the sum of the counts while the
  whole parse takes the provider's total.  `message_delta` is expected to carry
  its usage inside `delta`, as the test has it.
* **Gate.** A drop that arrives between `awaitDecision`'s second look at the
  channel and the removal of the entry is acknowledged and logged, and the
  message is forwarded (`interceptor.go:333`; the comment at `:322` says that no
  operation of a user is lost).  `PromptDecisionHonoured` and `LogTellsOutcome`
  name this exception.
* **Engine.** `packetLoop` reads `Engine.handle` without the lock
  (`engine_pcap.go:146`).  A `Stop` right after `Start` has set it to nil, and the
  program panics.  A second `Stop` returns at once although the first may still
  be flushing.  `main` stops the engine it has started itself, not one that was
  started through the API: what that one holds is lost at exit (`main.go:306`;
  the comment at `:290` says of the shutdown that it flushes pending streams).

## 7. Plan

Done: the writers, the ring, the gate, the hub, the engine and its control, the
flow of an exchange with its streams, the views of the store, the start of the
program with rules and mode, the streams of the capture, the LLM assembler; proofs
about the batch writer, the ring, the pool, the gate, the hub, the control of the
engines, the flow of an exchange, the views of the store, and the start with rules
and mode.  Next, in this order:

1. Proofs: the part of `Assembler` that does not depend on what `TCPStream` computes
   (the limit of streams, pairing by position).
2. A capture worker, the ring and the pool composed in one module in the place
   of `cargo` in `CaptureEngine`, with the abstract sink as its specification.
3. Lookups (`LookupPricing`, `hostMatches`, `matchRule`, `truncateStr`) as
   operators against a reference definition.

## 8. Not modelled, and why

* SQL that reads (lists with filters, statistics, notes, LLM tables), HAR:
  conversions of rows.
* `Resend`: one synchronous call that shares nothing but the store; a property of
  it would restate its loop of retries.
* Authentication, CSRF, CORS, headers: stateless per request; the rate limiter is
  one map under one mutex.
* Prices, limits, provider tables: data.
* The contents of certificates, TLS, goproxy, gopacket, SQLite: libraries,
  external to the models and represented by what the code relies on.
* Direction detection and process lookup of the capture: a packet's direction is
  taken as known.
* The power failing: the database is opened with `synchronous=OFF`, and what the
  disk then has is not the program's to say.  `Startup` has the process dying.
* The browser frontend: it relies on the order the hub promises.
