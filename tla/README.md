# Quent in TLA+

Quent generates an instrumentation API from an application model, carries the
events an application emits to files, directly or through a collector, and
loads, analyses and serves them. This directory holds specifications of its
run-time parts, from the channel of an instrumented thread to the charts a
browser asks for, the TLC configurations that check them on small instances, and
proofs of the main results for every instance. Paths below are relative to the
repository's root.

## The system

```text
 application threads                  forwarder task                exporter
 Observer / Handle / EventSender ──► unbounded channel ──► batch ──► callback
                                                                     ndjson, msgpack, postcard file
                                                                     collector client
                                                                        │ bounded channel
                                                                     sender task
                                                                        │ bounded channel
                                                                     RPC (one per entity type)
                                                                        ▼
 UI ◄─ timeline cache ◄─ analyzer cache ◄─ importers ◄─ files ◄── collector service
                                                                  (a mirrored context per source)
```

| Component | State it keeps | Operations | What is hard | What makes it correct |
|---|---|---|---|---|
| **Event pipeline** `crates/instrumentation/src/observer.rs`, `entity.rs`, exporters' contract in `crates/io/types` | unbounded channel, cancellation token, the task's batch, count of owners (an `Arc`) | send, clone, drop; `recv_many`, `drain_events`, `shutdown` | sends racing cancellation, detached senders, a task that dies | nothing an owner sent is lost, the last drop flushes and returns |
| **Context and runtime** `crates/instrumentation/src/context.rs`, `model.rs` | owned or borrowed tokio runtime | build observers in turn, drop | a build that fails part-way, drop order, who holds the runtime last | the runtime outlives every flush |
| **Handles** `handle.rs` | a bit per once-event | `emit`, `emit_once` | two handles of one entity | a once-event is emitted once per handle |
| **Collector client** `crates/collector/client`, `crates/io/collector` | two bounded channels, a batch with its byte count, two tasks | connect with retry, send, tick, cancel and drain, shutdown | backpressure, an RPC that ends early or is lost while the server ingests, draining past the byte budget | a clean shutdown has delivered everything; nothing blocks for ever |
| **Collector service** `crates/collector/server` | map: source to build-once cell and count of open streams | register, read, build, ingest, stream guard | streams of a source opening and closing concurrently, failed builds, cancelled RPCs, flush on another thread | one context per source in use, none leaked, none dropped in use |
| **File exporters and importers** `crates/io/*` | a buffered writer per entity type | append, flush; resolve, read | writes that reach the file in pieces, errors reported late, a crash between two pieces, several files in a directory | what was written is read back, in order and without a gap |
| **Engine index and analyzer cache** `domains/query_engine/server/src/analyzer_cache.rs` | at most 32 analyzers | `get` (single flight), list | concurrent loads, failures, snapshots of running engines | one load per miss, errors not cached |
| **Timeline cache** `timeline_cache.rs` | at most 4096 chunks for an hour | single and bulk requests | concurrent misses, expiry between chunks, reloads, rounding | a cached answer is the answer the analyzer would give |
| **Time** `crates/time` | none | spans, bins, ordered insertion | rounding, saturation, ties | bins partition the span; events in order |
| **Analyzer** `crates/analyzer` | entities built from events | FSM and resource reconstruction, binned timelines, trees of groups | events out of order, missing or repeated | states tile an FSM's life; usage is conserved by binning |
| **Query-engine domain** `domains/query_engine` | the model of a run | plan tree, view of one query, lists of entities | filters applied in different orders by different endpoints | all endpoints tell the same story |
| **NVTX** `integrations/nvtx` | a process-wide hook, levels per thread and domain; a model cache and a task limiter in the server | dispatch, push/pop, start/end; catalog, viewport | capture that starts half way, events out of order, clients that go away while a load is shared | spans nest, each close matches its open; every request returns |
| **Simulator** `examples/simulator` | worker threads, a counter per operator | spawn, run queries, shut down; charts and lists | threads stamping events independently | the charts show what the threads did |
| **Models and code generation** `crates/model*`, `codegen`, `schema`, `yaml`, `constraints`, `fsm`, `resource` | none at run time | parse, validate, generate | - | sequential compile-time code |
| **Opening artifacts, web front-end** | none of interest | - | - | - |

Components interact by channel (pipeline, client), by RPC (client to service),
by call (the service's `make` builds a context with observers of its own), and
by files on disk (exporters to importers). The server side never calls back into
the application.

`PROJECT.json` lists every component with its status and every hazard with the
properties that answer it.

## Modules

| Module | Models | Extends or uses |
|---|---|---|
| `EventDelivery` | what any pipeline promises: in-order, exactly-once delivery of what was accepted, and a teardown that returns only after the flush or a failure; a way that is lost may still deliver what was under way | - |
| `EventPipeline` | the pipeline of one entity type | implements `EventDelivery` |
| `EventPipelineProofs` | theorems about `EventPipeline` | `EventPipeline`, `TLAPS` |
| `SequenceLemmas` | lemmas about the collector, concatenation, flattening, lines, sets of numbers in order and sums, for the proofs below | `TimeOrdered`, `TLAPS` and its theorem modules |
| `ContextFiles` | a context with several pipelines and their files, up to the import | takes a forwarder as one queue, as `EventPipeline` shows it may |
| `ContextFilesProofs` | theorems about `ContextFiles` | `ContextFiles`, `SequenceLemmas` |
| `CollectorClient` | the client of one entity's stream, down to the server's ingest | implements `EventDelivery` |
| `CollectorClientProofs` | theorems about `CollectorClient` | `CollectorClient`, `SequenceLemmas` |
| `CollectorServer` | the service with the streams of its sources | uses the result `DropFlushes` of the pipeline for its last step |
| `CollectorServerProofs` | theorems about `CollectorServer` | `CollectorServer`, `TLAPS` |
| `QueryServer` | the analyzer cache and the timeline cache with the requests they serve | - |
| `QueryServerProofs` | theorems about `QueryServer` | `QueryServer`, `SequenceLemmas` |
| `TimeOrdered` | the collector that keeps events in order of time | - |
| `NvtxModel` | the analyzer's reconstruction of NVTX ranges | `TimeOrdered` |
| `NvtxCapture` | the injected hook on an application's threads | `NvtxModel` |
| `NvtxServer` | the NVTX server and the views it answers with | `NvtxModel` |
| `NvtxServerProofs` | theorems about `NvtxServer` | `NvtxServer`, `SequenceLemmas` |
| `Simulator` | the example engine, its events, and the chart of their data flow | `TimeOrdered` |
| `SimulatorViews` | the timelines and lists of the example's analyzer | `Simulator` |
| `SimulatorProofs` | theorems about `Simulator` | `Simulator`, `SequenceLemmas` |
| `MC…` | small instances of each | |

Operators whose comment begins with "Mutant" (or ends with "mutant") are
deliberate mistakes; no specification uses them. They document which error each
property is sensitive to.

### EventPipeline

`queue`/`open` are the tokio channel and whether it still takes events;
`fpc`/`buffer` the forwarder's place in `spawn_forwarder` and its batch;
`live`/`born` the `Arc`s and senders; `cancelled`/`drop` the token and the
`Drop` of `ObserverInner`. `accepted`, `handled` and `failed` are history.

| Action | Code |
|---|---|
| `NewProducer` | `Observer::clone`, `handle`, `handle_with_id`, `ObserverInner::sender` |
| `Emit` | `EventSender::send` |
| `DropOwner`, `DropReturns` | `Drop for ObserverInner`, before and after the join |
| `RecvMany`, `PushEvent` | `recv_many` and the `drain_events` after it, in the `select!` and in the drain loop |
| `ObserveCancel`, `DrainEnds`, `ShutdownExporter` | the `cancelled()` arm, the end of its loop, `exporter.shutdown()` |
| `ForwarderDies` | a panic in the exporter, or the runtime going away; seen as the `JoinError` |

An event is a producer and a number. An exporter's failure on one event is the
`ok` of `PushEvent`; that the default `drain_events` goes on with the next one is
in the model. The `n == 0` answer of the `select!` arm cannot occur, because
`ObserverInner` holds a sender until its drop has joined the task; the module
says so at `RecvMany`. `drive` panics on a current-thread runtime, which the code
documents as a precondition; the model assumes a multi-threaded one.

### ContextFiles

`ctx`, `obs`, `owners`, `joiner` and `runtime` are the context, its observers,
who shares each and which owner is in its `Drop`, and the tokio runtime with
whoever keeps it alive. Down the pipeline an event is in `queue`, `pend` (what
`write_all` still has), `buf` (the `BufWriter`), `inflight` (a blocking thread of
`tokio::fs`) or `disk`; `err` is the error a file keeps for its next operation.
`emitted` and `failed` are history.

| Action | Code |
|---|---|
| `Build` | one turn of `build_observers`; the failing one drops what was built |
| `TakeHandle`, `Emit`, `DropHandle` | `Observer::handle`, `emit`, a handle going out of scope |
| `DropContext`, `ContextDisowns`, `InnerDrops` | the drop of a context: its observers in turn, then `ContextInner` |
| `JoinReturns` | the end of `ObserverInner::drop`, which lets go of the runtime |
| `Drain` | `drain_events` of an exporter: a batch serialized, less what does not serialize |
| `Copy`, `WriteThrough`, `WriteSome`, `WriteEnds` | `write_all` on a `BufWriter` over a file: into the buffer, ahead of it, and the blocking write, which reaches the file in pieces |
| `Close`, `Shutdown` | the forwarder after cancellation, and the exporter's `flush` |
| `Crash` | the process dies with what was on disk |

A file is a sequence of parts, three to an event. A blocking write gives the file
any number of them at a time (`WriteSome`), so that a reader meets a torn event
while a write goes on, a `Crash` between two pieces leaves one for good, and so
does a write that fails. `Lines` and `Frames` are the two ways importers cut a
file; that a torn event is not taken for one rests on `ParsedLine` and
`ParsedFrame`. The 64 MiB to which the importers limit a frame are left out. After a failed write a length-prefixed file has lost its boundaries
and may decode into something else, so what is claimed then is claimed of lines
only. A borrowed runtime is the application's and is assumed to stay up.

### CollectorClient

`queue`, `requests` are the two bounded channels; `sender`, `buffer`, `held`
the sender task's place, its batch, and the request whose `send` it awaits;
`rpc` and `receiving` the RPC as the collector task sees it and the life of the
request stream; `serving` and `ingesting` the server's handler and the rest of the
request in its hands; `exporter` the thread of control of `CollectorExporter`.
`Size` gives each event its bytes and `NumBytes` is `num_buffer_bytes` of a batch;
what the framing of a request adds to them is left out. An event that bitcode
cannot serialize is one of `Unencodable`. `Connect` has the three ways out of
`Client::new`: a client, no connection after the last attempt, and a name that is no
metadata, which leaves a sender task behind that nobody cancels.

The server and the transport are reduced to what `server.rs` does with one
stream: read and ingest requests, return at the end of the stream, or end it
early (`ServerGivesUp`: a failed `make`, a handler that is dropped or a process that
dies; `ServerRejects`: a request beyond the decoder's limit). When the connection is
lost (`ConnectionLost`) the two ends part: for the client the RPC is broken and its
next flush may fail, while the server, which ingests a request without an await,
goes on with that and with what else had reached it. `StreamDropped` is the
transport letting go of the request stream, some time after the RPC ended; any
first part of it may be on the wire by then.

Under the refinement a stream that broke is `lost` as long as the server reads and
`failed` after that: `EventDelivery` lets a lost pipeline deliver the next accepted
event and no other, and a failed one none.

### CollectorServer

A stream's handler goes through `Register`, `ReadBatch`, `GetContext`, `Make`,
`Ingest`, `Leave`, `GuardDrop`, which are the sections of `collect_events`
between two awaits or locks. `entry` and `openStreams` are the map, `cell` the
build-once cells, `hold` the clone a handler keeps while it uses one, `mirror`
what each context ingested. A cell is named after the stream that created it.
`Leave` covers the end of the stream, a stream error and the cancellation of the
RPC's future at either await; `make` and ingest are synchronous and cannot be
cancelled. An event that `ingest` refuses is logged and skipped, which does not
change any state here; a batch is one unit.

### QueryServer

`store` is how much each context has flushed to its files, `analyzer` and
`loading` the cache of analyzers with its load in flight, `chunks` the timeline
cache, and `client` the request of each client with everything its task holds
between two awaits: the analyzer it got, the geometry, the chunks found, missed,
computed and failed.

| Action | Code |
|---|---|
| `Flush` | an exporter writes while the server runs |
| `Request`, `Hit`, `LoadIndex`, `LoadStreams`, `LoadFails`, `EvictAnalyzer` | the handlers of `ui.rs`, `AnalyzerCache::get` |
| `compute_chunk_geometry`, `Direct` | the chunks of a request, or the analyzer's own answer where there is nothing to cut |
| `check_cache`, `fetch_missing_chunks`, `FetchFails`, `InsertChunks`, `ExpireChunk` | lookup, the blocking call, its failure as a whole or by entry, insertion, time to live and capacity |
| `Answer` | `assemble_bulk_response`, `combine_chunks` and the single request's answer |

The views are whole nanoseconds: the protocol carries seconds as 64-bit floats,
which hold every nanosecond count below ten to the fifteenth exactly, and the
epoch they are relative to cancels. A single chunk is returned without being
combined, which is what combining it gives. The analyzer is a parameter of the
service; here it is a set of facts, and what the service asks of it is
`Timeline`. An analyzer without an event is cached like any other and its
requests fail. An analyzer's error of one entry loses one chunk at a time. An
entry of a bulk request whose view ends before it begins is passed over when the
answer is put together (`InTime`). The chunks that are combined begin at different
times, so that the code's stable sort has one result, `ByStart`. The lookups of a bulk
request are one step; a concurrent insertion between two of them is a miss more or
less. `long_fsms` of a response is left out.

`EngineAssumption` says of the logs that an engine begins, at the time its requests
count from, and ends, both once: `init` and `exit` are once-events of its handle.
An engine of which less is known has a life of length 0. `RequestsAssumption` says
that views are stretches of time between natural numbers, in either order, and have
at least one bin: what the code does of a view that ends before it begins is in the
model, and a request without bins is an error of the analyzer at once.
`UsageAssumption` says that logs are finite and that a usage has the times of the two
transitions it lies between.

The code accepts that chunks of different loads of a growing engine are combined:
the key of a chunk does not say how old it is. `BinsAreTrue` therefore speaks of
answers whose chunks are as old as the analyzer of the request, whoever computed
them.

### TimeOrdered and NvtxModel

`Collect` is `TimeOrderedCollector::push`: insertion at the partition point, so
that events of the same time stay in the order they came in. `NvtxModel` is the
analyzer of `integrations/nvtx/analyzer` as operators: `Resolved` is the pass over
the tables (domains, strings, categories; a name may be registered after its
use), `Replay` one event of the second pass, `Drain` what is done with the ranges
left open, and `Build` the whole.

### NvtxCapture

`hook`, `next_handle` and `depth` are the statics and the thread-local of
`init.rs` and `callbacks.rs`; `dispatching` is an event a thread has stamped and
not yet sent, which is where other threads overtake it; `log` is the stream.
`stack` and `running` are history: what is really open. `Push`, `Pop`, `Open`,
`Close` are the callbacks (ranges of a thread, ranges of the process and
resources), `Send` the second half of the hook, `InstallHook` the injection, at
any time.

### NvtxServer

`models` and `loader` are the cache and the load in flight with those who joined
it, `queue`, `running`, `permits` the semaphore and the blocking pool, `req` each
client's request. A stream grows in its `file` while it is served.

| Action | Code |
|---|---|
| `Ask` | the handlers of catalog and viewport |
| `Get`, `Grant`, `Import`, `LoadEnds` | `NvtxModelCache::get`, `NvtxTaskLimiter::run`, `import_context_events` |
| `Queue`, `Answer` | the answer's own permit and task |
| `Cancel`, `DetachedEnds` | a client goes away: its handler is dropped, its task is not |
| `Evict`, `Flush` | idle or displaced models; the exporter writing on |

`Catalog`, `Refused`, `absolute_viewport`, `span_depths` and `View` are the answers
of `integrations/nvtx/ui`. They depend on the request and the model alone, so they
are operators, and the properties quantify over origins, windows and selections;
the catalog that the server keeps by origin is a function of the two as well. The
limit on the number of filters is left out.

### Simulator and SimulatorViews

`main`, `pc`, `at` are the main thread, the workers and the threads of the example
engine; `task`, `resource`, `query` the events each of them emitted, as they were
stamped by `now`; `processed` the atomic counters and `statistics` what was logged
of them; `did` is history: what each thread was doing in each tick.

| Action | Code in `examples/simulator/application` |
|---|---|
| `Spawn`, `ShutDown` | `Engine::spawn`, `shut_down`: resources start and stop one after the other |
| `NextQuery`, `AdvanceQuery`, `EndQuery` | the states of a query |
| `StartPlan`, `LogStatistics` | `execute_logical_plan` on a worker, before and after its scoped threads |
| `Emit`, `Count` | `execute_physical_operator_task`: a transition of the task, and the count at its end |
| `Tick` | time |

The analyzer is operators on the events: `States` (`FsmEvents`), `Builds`
(resources and the model), `try_new`, `index_of`, `iter_indices`, `Covered`
(`BinnedSpan` in an integer type of greatest value `MaxNs`), `Binned`
(`UnitAggregator`), `data_flow_timeline`. `SimulatorViews` adds groups and their
trees, the plan tree and the view of one query, timelines by resource or group,
alone or in bulk, with rates and long entities, and ranked, paged lists of tasks.

The properties compare what is answered with `did`, tick by tick. They look at a
run when its queries have ended: shutting down adds nothing that an answer reads.
The clock is assumed not to go back, as is everything that compares stamps of
`SystemTime`. The file system of the example with its two channels is used the way
memory is and left out, as are logical operators and ports, below which there is
nothing, and statistics other than `tasks_processed`. Sizes divide by durations
(`RatesAssumption`), so that rates are whole.

## Runs

| Run | Shows |
|---|---|
| `event_pipeline` | `Conservation`, `OwnersNeverRefused`, `HandledInSendOrder`, `DropFlushes`; `DropCompletes`, `AcceptedIsHandled`; implements `EventDelivery` |
| `context_files` | `ImportedInOrder`: whenever a file is read, it holds what was emitted, from the start and without a gap, and at most one torn event, which is not imported; `DropsFlush`: a drop that returned has everything on disk, and no runtime goes before its forwarders; `ComesDown` |
| `collector_client` | `InTransit`, `ShutdownDelivers`, `RefusedOnlyIfBroken`, `BudgetHolds`: how far a request can exceed the budget; `PushReturns`, `ShutdownReturns`; implements `EventDelivery` |
| `collector_client_limit` | a counterexample to `RequestsFit` |
| `collector_server` | `EntryCountsStreams`, `SoleHandle`, `StreamUnsplit`; `GetReturns`, `ContextsFlushed` |
| `collector_server_once` | a counterexample to `BuiltOncePerSource` |
| `collector_server_import` | a counterexample to `ImportedWhole` |
| `query_server` | `ChunksAreCanonical`, `EveryEntryAnswered`, `AnswersCoverTheView`, `BinsAreTrue`; `AnalyzersOnlyAdvance` |
| `query_server_series` | a counterexample to `SeriesFillTheBins` |
| `nvtx_capture` | `SpansAreTrue`: what is rebuilt is what happened; `AnomaliesAreExact`; `LevelsAreNesting`: the hook and the analyzer agree |
| `nvtx_server` | `SelectAllShowsAll`, `LanesAreTrue`: what a viewport shows; `RequestsReturn`: no request is left behind by one that goes away |
| `simulator` | `DataFlowIsTrue`, `TimelinesAreTrue`, `EntityListIsExact`: charts and lists show what the threads did; `StatisticsCountTasks`; `TasksInsideTheirOwners`, and that a log builds before the run has begun and when it has ended, and at no moment in between |

The runs of `CollectorClient`, `CollectorServer`, `ContextFiles`, `QueryServer` and the
simulator have no property for types alone: a state outside its type is one in which the
properties above cannot be evaluated or fail. The types of `CollectorClient` are proved
(`TypeCorrect`).

The four counterexamples are disagreements between the code and what is said of it:

- **The drain ignores the byte budget.** At shutdown everything left in the
  event channel joins the last batch. With a batch just under the budget and a
  full channel the request is larger than the server decodes; the server ends
  the stream and the batch is lost, and `shutdown` logs that all was flushed. The
  run has no event larger than the reserve. One that is larger gets past the limit
  by the size flush as well, which counts an event once it is in the batch.
- **A source can be built twice.** The entry of a source goes with its last open
  stream. A stream that registers after that, from the same source, builds a
  second context. Entity types have separate connections, so a short-lived
  source can do this without any failure.
- **Half of a twice-built source is read.** Each build creates a file in every
  entity directory; the importer takes the first file it is shown.
- **A combined series is shorter than its bins.** A state that occurs in one
  chunk of two has no bins for the other, and those it has move to the front:
  the chart shows them too early.

Further things the models made visible:

- A run that is cut short does not build. One resource whose four transitions
  are not all there fails the whole model
  (`crates/analyzer/src/resource/runtime.rs:82-102`), so an engine that crashed, or
  still runs, cannot be shown, where `docs/faq.md:42-44` says that the model can be
  partially reconstructed from the transitions that were emitted.
  `TasksInsideTheirOwners` states what the code does: all or nothing.
- Tasks leave their declared machine. `fsm!` declares no way from allocating to
  spilling and an exit from computing alone
  (`examples/simulator/instrumentation/src/task.rs:83-94`); the application spills
  from allocating, sends several times in a row and exits from sending. Neither the
  handle nor the analyzer checks a transition against the declaration, so no
  property is about it; the model makes the application's transitions.
- The sequence number of an FSM event is not read by the analyzer; the order of
  two transitions of the same time is that of arrival.
- A list of entities without a scope has every task of the query, those outside
  the window with a usage of 0, when no least usage is asked for.
- An entry of a bulk request whose view ends before it begins is left out of the
  answer, without an error (`timeline_cache.rs:606-612`), unless the geometry is taken
  from it, in which case nothing is cut into chunks; while the answer's entries
  are "keyed by the same keys as the request entries"
  (`crates/ui/src/timeline/response.rs:74`). `EveryEntryAnswered` is about the others.
- `crates/ref-tree/src/lib.rs:62-65` counts a record type once, so that two fields
  of one record type that carry a parent reference are accepted, against the
  second requirement of its own comment.

### Bounds, and why they are enough

- `event_pipeline`: two observers, so that a drop is and is not the last one and
  a clone outlives the original; one detached sender, which is the only producer
  that can be refused; two sends each, so that an order exists to get wrong; a
  batch of two, so that batches are full, partial and left over.
- `collector_client`: five events, an event channel of two and a request channel
  of one, so that the exporter, the sender task and the request channel are all
  blocked at once with events to spare; a budget of two, so that batches go out
  by size, by timer and by drain; one event that cannot be encoded, in the
  middle, and one that is as large as the budget, so that a size flush exceeds it;
  two connection attempts, so that one can fail and one can be the last. The
  server's limit is the budget and one more: the requests of the size and timer
  flush fit, and the largest ones of the drain do not, so that the server's
  rejection is one of the ways the stream breaks. The connection can go away at any
  point, and the server go on for as long as it has something to read.
- `collector_client_limit`: events of one, a budget of two, a reserve of one, an
  event channel of three. In the code the channel holds 1024 events and the reserve
  is 256 KiB, so events of more than 256 bytes on average put the code in the same
  proportion.
- `collector_server`: one source with three streams, so that a stream can leave
  while another waits for the context and a third is yet to come; two batches
  each, so that a stream can be split; one failure of `make`. Sources share only
  the lock of the map, which each action takes and leaves atomically, so one
  source suffices. The two runs with counterexamples need two streams.

- `context_files`: two entities, one with three events and one with none, so that
  observers are torn down one after the other and a build can fail at the first,
  the second or not at all; any event may fail to serialize; a batch of two, and a
  buffer of four parts where an event has three, so that a batch goes through the
  buffer, past it, and stays in it; a write of up to five parts, which can stop after
  each of them; both kinds of runtime and both formats.
- `query_server`: an engine of eight nanoseconds whose second context appears and
  grows late, two entries and two states; two clients with a single request for
  the whole life and a bulk one for it and for a stretch that is neither aligned
  nor even, so that they share chunks at the same zoom, and a bulk one with a view
  that ends before it begins; one chunk that expires.
- `nvtx_capture`: two threads and two domains (symmetric), four calls, two
  handles, a clock of two values: an event of each thread out of order with the
  other, ties, a range opened before the hook, and nesting of two.
- `nvtx_server`: two clients with two requests each (a catalog and a viewport) and
  one permit, so that they share a load, wait for each other and go away at every
  point; three streams with late arrivals, orphans, ranges that never close and
  names registered after their use; files read at none, most and all of a stream.
- `simulator`: five shapes of a run (two threads and three tasks; two workers with
  a link each way; two tasks in turn; two operators; two queries), a clock of
  three values; a view whose bins reach past its end, one that starts in the
  middle of a run, and one that the last timestamp moves to the left; lists with
  pages of one.

`MaxEmits`, `MaxEvents`, `MaxBatches`, `MaxFailures`, `MaxExpired`, `MaxCalls`,
`MaxHandles`, `MaxRequests`, `Sizes` and `MaxTime` are bounds of the
models; the other constants are parameters of the code. Deadlock is not
checked: an application may stop emitting, a client may have asked all it will,
and then nothing is left to do. That nothing waits for ever is what the liveness
properties say.

### Fairness

- `EventPipeline`: weak fairness of the forwarder as a whole and of the join. The
  runtime keeps polling a task that can move. No fairness is needed between the
  arms of `select!`: sends are finite once the application stops, and the arm
  that takes events runs out of them. Nothing is assumed of the application, and
  the death of the forwarder is never forced.
- `CollectorClient`: weak fairness of the exporter's awaits, of the sender task,
  of a server that reads as long as it keeps the stream, and of the transport
  letting go of a finished stream. The server's is an assumption about the
  environment: against a server that keeps a stream open and never reads,
  `shutdown` has no timeout and does wait for ever.
- `CollectorServer`: weak fairness of each handler's own steps and of the thread
  that drops a context. A source need not send, finish or close anything.
- `ContextFiles`: a drop that has begun goes on, and tokio runs the forwarders and
  its blocking threads, as long as the process lives. Nobody has to drop anything.
- `NvtxServer`: weak fairness of what serves each client and of the semaphore,
  which is first come, first served (`tokio::sync::Semaphore`).

The others state no fairness. That a request of `QueryServer` returns follows from
the absence of loops in its handler, and is not checked.

## Proofs

TLAPS checks the theorems of eight modules, for every value of the constants that
meets the named assumptions. TLC evaluates these assumptions in the runs.

| Module | Theorem | States |
|---|---|---|
| `EventPipelineProofs` | `Invariance` | `SafetySpec => []IInv` |
| | `TypeCorrect`, `NothingLost`, `OwnersAccepted`, `HandledOrdered`, `DropFlushesAll` | `TypeOK`, `Conservation`, `OwnersNeverRefused`, `HandledInSendOrder`, `DropFlushes` |
| | `ImplementsDelivery` | `SafetySpec => DeliverySpec` |
| `ContextFilesProofs` | `Invariance` | `Spec => []IInv` |
| | `ImportsInOrder`, `ContextFlushes` | `ImportedInOrder`, `DropsFlush` |
| `CollectorClientProofs` | `Invariance` | `Spec => []IInv` |
| | `TypeCorrect`, `NothingLost`, `ShutdownDeliversAll`, `RefusedBroken` | `TypeOK`, `InTransit`, `ShutdownDelivers`, `RefusedOnlyIfBroken` |
| | `BudgetKept` | `BudgetHolds` |
| | `ImplementsDelivery` | `Spec => DeliverySpec` |
| `CollectorServerProofs` | `Invariance` | `Spec => []IInv` |
| | `CountsStreams`, `DroppedIsUnheld`, `BatchesStayTogether` | `EntryCountsStreams`, `SoleHandle`, `StreamUnsplit` |
| | `OneLiveContext` | `Spec => []OneLive` |
| `QueryServerProofs` | `Invariance` | `Spec => []IInv` |
| | `ChunksOfTheirKeys`, `EntriesAnswered`, `AnswersCover` | `ChunksAreCanonical`, `EveryEntryAnswered`, `AnswersCoverTheView` |
| | `BinsShowUsages` | `BinsAreTrue` |
| | `AnalyzersAdvance` | `AnalyzersOnlyAdvance`, an action property |
| `NvtxServerProofs` | `Invariance` | `Spec => []IInv` |
| | `TypeCorrect` | `TypeOK` |
| | `WaitersAreServed`, `ViewportsNeverOlder` | `[]NobodyForgotten`, `[]CatalogsHold` |
| `SimulatorProofs` | `Invariance` | `Spec => []IInv` |
| | `StatisticsAreCounts`, `OwnersEnclose` | `StatisticsCountTasks`, `TasksInsideTheirOwners` |
| `SequenceLemmas` | `CollectKeepsOrder` | insertion keeps a collection sorted |

Almost no property is inductive alone; the rest of this section says what had to be
added, and why.

### EventPipelineProofs

From `OwnersAssumption`, `SendersAssumption`, `BatchAssumption`,
`MaxEmitsAssumption`: the root is one of the observers, observers are owners,
owners are finite, senders are not owners, the batch hint is positive. `IInv` is

- `PcInv`: where the forwarder is decides whether the channel is open, whether
  cancellation was seen, and where events can be. Without it, `DrainEnds` could
  leave a batch behind.
- `DropInv`: cancellation means that there is no owner left, and the drop returns
  only after the task ended. A sender cloned from a sender after that is not an
  owner, which is where the assumption on senders is needed.
- `SendInv`: while the channel is open, and for owners always, everything sent was
  accepted; and the accepted events are in send order.
- `LogInv`: `Conservation`, and that what was handled is a prefix of what was
  accepted even after the task died.

`HandledInSendOrder` follows because a prefix of a sequence in send order is in
send order; `DropFlushes` because a forwarder that is done has an empty batch and
queue. For the refinement every action is matched with an action of
`EventDelivery` or with a stutter, from the invariant before and after the step.

### ContextFilesProofs

From `SizesAssumption` and `OrderAssumption` (the batch is positive, the buffer may
be of any size including 0, and the entities are listed once each). `IInv` is

- `BuildInv`: the observers that are built are the first ones in the list, and the
  context shares each until it goes.
- `LifeInv`: how far an observer is in its life says how far its forwarder is and
  which of the places on the way can have something. Without it a drop could return
  with parts in the buffer.
- `RuntimeInv`: a runtime goes down only when it is the context's own, the context
  is gone, and no observer is left. This is the second half of `DropsFlush`.
- `StreamInv`: `Stream(e)` is what is on disk, in a blocking thread's hands, in the
  buffer, in `write_all`'s and, serialized, in the channel, in this order. Without a
  failed write it is what was emitted; with one, it is what was emitted less some
  parts. `Copy`, `WriteThrough` and `WriteEnds` move a part one place on, so that
  `Stream` stays as it is; so does `WriteSome`, which moves a piece.

`ImportedInOrder` is then about what an importer makes of the first place: any cut of
a stream of whole events has whole events and one torn at its end, and a line that
decodes has exactly the three parts of one event between two ends of line, which is
also so when parts are missing.

### CollectorClientProofs

From `ClientAssumption` alone (capacities, budget, limit and retries are positive, and
what does not encode is among the events, and an event has at least a byte). `IInv` is

- `SenderInv`: where the sender task is tells where events can still be.
- `RpcInv`: how the RPC ended tells what the server has seen; one that finished well
  has seen every request and the sender's end. Only a broken one can have a server
  that still reads.
- `ExporterInv`: the exporter is past its pushes only when the token is cancelled, and
  past its first join only when the sender is done; a client that could not be built
  leaves nothing that moves (`LeftBehind`).
- `SizeInv`: a batch is below the budget until the drain, in which what is over the
  budget and what is still in the channel are no more than the channel holds. Without
  the channel in it the bound would not survive a step of the drain.
- `OnTheWay`: the first part of `InTransit`, cut at the batch, and that what the server
  has and may still get (`Got`) is where the accepted events begin. The second part of
  `InTransit` alone is not inductive: once the way is broken the requests that the
  server has yet to read have to be in order too.

`ShutdownDelivers` is the case of `InTransit` in which every place but the last is
empty. `BudgetKept` is `SizeInv`. It does not say that requests fit, which is not so:
which limit would be enough depends on the sizes of events.

### CollectorServerProofs

From `ServerAssumption` (streams are finite and each has a source). `IInv` is
`EntryCountsStreams` with

- `HoldInv`: the clone a handler holds is that of its source's entry, and is in the
  state its step expects.
- `MakeInv`: one handler builds a cell at a time.
- `CellInv`: the cells in use are those of the entries, and no cell is used twice.
- `MirrorInv`: what a context has of a stream came by the entry of its source, and is
  complete as far as the stream has got.

Because the entry counts the open streams, it is there while a handler can look it up;
because every clone is the entry's, a cell whose entry goes has no holder left
(`SoleHandle`), and a stream meets the same cell from its registration to its end
(`StreamUnsplit`). `OneLiveContext` is what remains true of the comment that
`collector_server_once` refutes: a source can be built twice, and never twice at a
time.

### QueryServerProofs

From `LogAssumption`, `EngineAssumption`, `RequestsAssumption` and, for the bins alone,
`UsageAssumption`, for any clients, contexts, logs and requests. `IInv` is

- `StoreInv`: what is in the files is a part of the logs.
- `ClientInv`: each request is `Good`: it has what its place in the handler needs; its
  geometry is that of the whole life of the engine (`GeoOf`); each of its chunks is
  found, missed or computed, or its entry has failed (`PairsOf`); and what it holds,
  found or computed, has the length and the bins of its key (`HeldOf`). The latter
  cannot be said of the cache alone, since a chunk is computed two steps before it is
  inserted, with an analyzer that may be older than the next one, and one that was
  found stays with the request when the cache has dropped it. Of a request that was
  answered it says that the answer is complete, covers its view and shows what the
  analyzer knew (`Answered`, `Covering`, `Showing`).
- `ChunkInv`: each chunk of the cache is canonical for its key.
- `LoadInv`: there is no analyzer during a load and no second load; and no analyzer in
  use knows more than the load under way will, because the index it read cannot
  shrink.

That a chunk is the one its key stands for whatever engine the analyzer knew needs the
arithmetic of `compute_chunk_geometry`: the length of a chunk is fixed by the zoom and
the engine's life, and the last one ends with the life (`EngineAssumption` is used
here and nowhere else).

`AnswersCover` needs more of it. The first chunk of a geometry begins at or before the
view and the last one ends at or past it, or with the engine (`ViewEnds`); a chunk is
not empty and its bins reach its end (`ChunkLies`); of a chunk the view meets, the bins
that are taken begin no later than the view and end no earlier, or with the chunk
(`BinsMet`). So the first and the last chunk are among those combined, and they are the
ends of the row in which `ByStart` puts them (`StartOrder`, by the order of their
starts). The bins of the answer are counted as a sum, which is a natural number
(`SumIsNat`), and are long enough together because their length is rounded up
(`AnswerCovers`).

`BinsShowUsages` is about what the bins hold. Where the bins tile the engine's life
evenly, the jth bin of the kth chunk is the bin `k * n + j` of the life, and a fresh
chunk shows it as the analyzer would, in bulk or not (`EvenExact`): the tasks that a
single request skips take nothing of the chunk's time (`OverlapIs`), and a sum does not
change by what adds nothing (`BusyLeavesOut`). The chunks that a view meets are a row,
and of all but the first and the last of it every bin is taken (`MeetsAll`, `RowMet`),
so that the bins of the answer follow one another in the life from its first
(`RowTotals`, `CombinedIs`), and their number is the sum in whichever order it is made
(`SumRow`). A usage that overlaps the answer does so at some time, and the chunk of
that time has its state (`StatesShown`). The bins of one state are put together from
the chunks that have it. Those that do not leave a gap that nothing fills, which is what
`query_server_series` shows; but a series as long as the answer has no gap, and then
each of its values is where it belongs (`FlattenFits`, `BinsFilled`).

### NvtxServerProofs

From `PermitsAssumption` and `ValuesAssumption`. `IInv` is

- `PermitInv`: a permit is free or is a task's.
- `LineInv`: a client is in line, or has a task, exactly where its request waits for
  one; a client that went away may still have a task and is not in line.
- `LoaderInv`: who loads a context is waiting, and those who joined have a leader.
- `FileInv`, `GrowInv`: nothing was read that is not in the file, and what a client
  has seen of a context is no more than any model or load of it holds since.
- `ShownInv`: the order of what a client was shown.

`NobodyForgotten` says that whoever waits, waits for a client in line or a task on the
pool. It is the part of `RequestsReturn` that does not need fairness. `CatalogsHold`
says that a viewport never comes from a model older than the catalog it was asked
with, through evictions and reloads.

### SimulatorProofs

From `ArgsAssumption` (workers are finite and there is one, a worker has a thread, a plan
has an operator) and `TimeAssumption`. `IInv` is

- `TypeInv`, and `PhaseInv`: a query has emitted as many events as the main thread is
  far with it, the earlier ones all four and the later ones none; a worker is at work
  only while a query executes, and a thread has a task only while its worker runs.
- `AheadInv`: what a thread has yet to begin is empty. A task is named by its place in
  the plan, and without this the next task of a thread could be one that already ran.
- `ResourceInv`: how many transitions a resource has made follows from the main thread.
- `TimeInv`: an entity's stamps are in the order of the clock; those of a task lie
  between the start of execution and the exit of its query, and between the two
  transitions of every resource that bound its operation. With what is emitted in
  order, the collector changes nothing (`OrderedIsSame`), so that what the analyzer
  rebuilds is what the application did, also when the stamps of several events are
  the same.
- `CountInv`: the counter of an operator is the number of its tasks that exited and
  that their thread has left. A task is counted a step after it exited, so neither the
  exits nor the tasks a thread has begun would do. Once an operator's threads have
  joined (`Settled`), the number does not change any more and is that of its exits.

`OwnersEnclose` includes that a finished run builds at all: each resource has exactly its
four transitions, in the order of their stamps. From the first transition of a resource
to the last of all of them a log does not build: `HowFar` bounds a resource's
transitions by where the main thread is, and `CutShort` finds one that is begun and not
complete. `StatisticsAreCounts` is `CountInv` of
an operator that is settled.

### SequenceLemmas

`CollectKeepsOrder`: whatever arrives, the collector stays sorted, keeps what it had in
the order it had it, and puts an event after those of the same time. It rests on two
lemmas, that a set of naturals has a least member and that there is a partition point.
Every reconstruction in `NvtxModel` and `Simulator` starts from such a collector.
`FoldExists` gives the steps of a fold over a sequence, `OrderedSteps` those of a whole
stream that is collected, and `OrderedIsSame` says that a stream in order of time comes
out as it went in.

The library's induction theorems take an operator as a parameter, which the provers
cannot instantiate. `SetInduction` is the same principle with a set for the predicate:
a set that has 0, and with every number its successor, has all of them. From it
follow the laws of `FlattenSeq` and `FlatMap` (`FlattenAppend`, `FlatMapCat`,
`FlatMapConcat`), by which a batch that is flattened, filtered or serialized in parts
is the same as in one; of a line of waiting clients from which someone in the middle
leaves (`JoinLine`, `ServeLine`, `LeaveLine`); and of the members of a set of numbers in
order (`UpToSteps`, `UpToOrder`, `UpToExists`). `SumFunction` is a fold that chooses its
elements in an order nobody knows; `SumExists` follows its definition one element at a
time, `SumIsNat` says that natural numbers have a natural sum, `SumTakes` that any
element can be taken out of it, `SumLeavesOut` that those of weight 0 can be left out,
and `SumRow` that the sum over a row is the last of its partial sums. `FlattenFits` is
about sequences each of which fills its place in another one or is empty. `Cat` is
concatenation under a name that the provers do not look into.

### Only model-checked

- Liveness (`DropCompletes`, `AcceptedIsHandled`, `PushReturns`, `ShutdownReturns`,
  `GetReturns`, `ContextsFlushed`, `ComesDown`, `RequestsReturn`) needs reasoning about
  fairness and enabledness, which the proof system does not support.
- `SelectAllShowsAll` and `LanesAreTrue` of `NvtxServer`, and the three properties of
  `NvtxCapture`: they compare what folds over a whole stream compute, which needs an
  induction over data for each of them.
- `DataFlowIsTrue`, `TimelinesAreTrue` and `EntityListIsExact` of `Simulator` and
  `SimulatorViews`, for the same reason.

## Plan

The pipeline, the collector's client and service, the life of a context, the caches of
the query server, the NVTX server and the simulated engine have their main safety
properties proved. What is left, in order of importance:

1. `LevelsAreNesting` of `NvtxCapture`, in the part of it that is about the hook.
2. That the bins of `try_new` tile their span, as arithmetic.
3. The rules of `crates/fsm`, `ref-tree` and `resource` on a schema, against what
   their comments require.
4. The example's file system.

## Not modelled, and why

Code generation, schema validation and the procedural macros, which are a large
part of the source, are sequential transformations of source text without state;
what a generated FSM handle does at run time is in `Simulator`. Encodings and
column layouts of files are data formats with no protocol in them; so is the
conversion of NVTX attributes (`convert.rs`) and the C bindings. `RtFsm`, for
models given at run time, orders events with the same collector. The guard of the NVTX
hook against its own re-entry (`init.rs:136-152`) drops events that a hook causes while it
runs; the hooks of the repository cause none. The bit of a
once-event is tested and set by a call that borrows its handle mutably.
`crates/open` drives external builds. The front-end presents. Other request
handlers of the servers keep no state beyond the caches above.

One hazard has no property: a timeline put together from chunks that were computed
before and after a running engine was loaded again (`timeline_cache.rs:133`). The code
accepts that for the hour a chunk lives and promises nothing of it, so `BinsAreTrue` is
stated for chunks as old as the analyzer.
