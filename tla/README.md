# walkrie: TLA+ models and proofs

walkrie streams PostgreSQL changes (logical replication, pgoutput) through an
in-process queue to vector-store sinks, and optionally backfills the rows that
were there before the replication slot. This directory holds its TLA+ model:
modules translated from `src/src/`, TLC instances that check them, and TLAPS
proofs of the live path's safety for every instance.

## The system

| part | source | what it does |
|---|---|---|
| replication source | `pgreplication_source.cpp` | creates or resumes a slot, reads XLogData frames on the libevent thread, stamps every event with its message's WAL position, reports the confirmed LSN every 10 s, on request, and at shutdown |
| frame layer, parser | `wal_frame.cpp`, `pgoutput_parser.cpp` | frames to `ChangeEvent`s, relation cache, one marker event per Commit |
| dispatcher | `event_dispatcher.cpp` | one queue and one worker thread for all sources and sinks: batches, calls sinks in order, retries required ones up to a ceiling, confirms the highest LSN per source |
| queue | `queue/*.hpp` (vendored) | single-producer single-consumer blocking queue |
| sinks | `pgembedding_sink.cpp`, `qdrant_sink.cpp`, `milvus_sink.cpp`, JSON | two-pass `call_batch`: validate and embed, then apply in event order |
| embedding providers | `caching_embedding_provider.cpp`, `openai_provider.cpp`, `llama_provider.cpp` | batches of texts to vectors |
| backfill | `backfill_store.cpp`, `backfill_util.cpp`, `backfill_worker.cpp`, `backfill_manager.cpp` | dumps existing rows into SQLite, drains them from a separate process, reconciles them with live events |
| main | `main.cpp` | builds everything, runs the event loop, shuts down in order |

Threads and processes: the libevent thread (sources, timers, signals, main),
the dispatcher's worker thread, one `walkrie_worker` process per source with
backfill, the PostgreSQL server, the services behind the sinks. What a crash
leaves: the server's slots, the sinks' contents, the SQLite stores.

## Modules

| module | models | status |
|---|---|---|
| `WalStream` | the messages a slot delivers and where the server resumes (external) | done |
| `Dispatcher` | `EventDispatcher`: queue, worker thread, retry, confirmation | done |
| `Pipeline` | `Dispatcher` composed with the sources, the slots, the life cycle of `main()`, crashes and sink outages | done |
| `AckedFeed` | abstract specification of what the live path promises | done |
| `MCPipeline` | TLC instances | done |
| `Pipeline_proofs` | type correctness, inductive invariant, safety theorems, refinement of `AckedFeed` | done |
| `Backfill` | the SQLite store, the dump, `absorb_event`, the `walkrie_worker` processes, startup and shutdown around them | done, no proofs yet |
| `MCBackfill` | TLC instances | done |

Plan, in this order (names of modules to come):

1. `Backfill_proofs`: an inductive invariant for `NothingForgotten` and
   `DumpResumed`, under the restrictions their runs make.
2. `SinkBatch`: `call_batch` of the vector sinks as an operator on sequences of
   events, against an in-order reference, with replays; then composed with
   `Dispatcher`'s retries.
3. `SpscQueue`, `LightweightSemaphore`: the ring of blocks and the semaphore
   with its timeout, each as interleaved steps, refining a FIFO.
4. `EmbeddingCache`, `OpenAiRetry`: the cache at its limit, the retry loop.
5. `PgOutputParser`: relation cache, truncate fan-out, frame boundaries.
6. `WorkerManager`: several sources' workers, reap timer, wait for all.

Theorems planned with the others: the semaphore's count and the queue's
refinement.

## The live path

### State and actions

`Dispatcher` has the members of `EventDispatcher` and the locals of its worker
thread as variables. `wpc` is the thread's place: `top` (the `while` test),
`wait` (first dequeue), `fill` (the batch loop), `dispatch` (inside
`dispatch_with_retry` for sink number `sink`), `confirm`
(`notify_confirmed`), `drain` (`drain_remaining`), `done`. A job keeps of an
event only its source, its position in that source's stream and its
`commit_lsn`; a sink keeps the set of positions it has ever written. Time is
the integer `elapsed` of the sink being retried; `CallTimes` says how long a
failing call may take. A call on a sink whose service is down throws after
writing any leading part of the batch. `on_fatal_` is always set: `main()` sets
it before the first job can be posted.

`Pipeline` adds one slot per source, the source's reading position, the phase
of `main()` and faults: a crash in any phase, a signal, the end of a stream, an
outage of a sink. One fault counter, bounded by `MaxFaults`, limits them all.
`Start` is everything up to `event_base_dispatch`, `ReadMessage` one turn of the
loop of `drain_available_messages`; the model may do something else between two
messages of one wakeup, which the code does not, so it has more behaviours than
the code and none fewer. A status update reaches the server or is lost
(`PingUpdate` simply does not happen). The server takes an older position as it
is or ignores it, depending on its version.

`Lossy` is the set of sinks whose `call_batch` can return without having
written everything. The vector sinks discard the result of each write
(`pgembedding_sink.cpp:287`), so with them a sink is in `Lossy` whenever its
service may refuse a single write. The promises below are for
`Trusted == Required \ Lossy`.

### Properties and runs

| run | instance | properties |
|---|---|---|
| `pipeline_safety` | one source, two transactions (in sequence; interleaved in the WAL; one message that does not decode), a required and a best-effort sink, batch of 2, ceiling of 2 with calls of 0 or 1, two faults | `TypeOK`, `ConfirmSafe`, `NoGaps`, `DrainComplete`, `NoConfirmAfterFatal`, `IndInv`, `ImplementsFeed` |
| `pipeline_sources` | two sources, a lossy best-effort sink before a required one, one fault | `ConfirmSafe`, `NoGaps` |
| `pipeline_liveness` | streams and sinks of `pipeline_safety`, calls of 0, two faults, restarts, no recovery of a sink promised | `EventuallyDelivered`, `ShutdownTerminates`, `FatalStops` |
| `pipeline_lossy` | a required sink that discards failures | violates `ConfirmedIsDurable` |
| `pipeline_monotone` | interleaved transactions, batch of 1 | violates `ConfirmMonotone` |
| `pipeline_stall` | one transaction, batch of 1, one outage | violates `QueueDrained` |

- `ConfirmSafe`: every transaction at or below the slot's position, or the
  position the process would report next, is written by every trusted sink. It
  is what makes a crash at any instant harmless.
- `NoGaps`: what a trusted sink holds is gap-free in stream order.
- `DrainComplete`: a shutdown that is not fatal hands over all that was read.
- `NoConfirmAfterFatal`: nothing is confirmed after a required sink stalled;
  neither the batch it failed on nor what is queued behind it.
- `ImplementsFeed`: the refinement of `AckedFeed`, with `written` the positions
  all trusted sinks have written and `acked` the slots.
- `ShutdownTerminates`, `FatalStops`: a shutdown ends and a stall takes the
  process down, even with sinks that never recover.
- `EventuallyDelivered`: if outages end, every event is written and acknowledged
  in the end. The other exception is explicit too: a source whose stream has ended stays silent while
  the process lives (`pgreplication_source.cpp:303`).

Three runs show a disagreement of the code with what the repository says of it:

1. `pipeline_lossy` (TECHNICAL.md:75-76: a required sink's failure blocks
   confirmation).
2. `pipeline_monotone` (`tests/test_event_dispatcher.cpp:70`: confirmation is
   monotonic). It loses nothing, as `ConfirmSafe` holds on the same streams: the
   server resends a transaction that was already written.
3. `pipeline_stall`. The documentation contradicts itself about a required sink
   that stalls past its ceiling. TECHNICAL.md:574 says that then, as after a
   signal, the queue is drained and the fully drained LSN is sent;
   TECHNICAL.md:77 says that the batch is never confirmed. The code follows line
   77: `process_jobs` skips `drain_remaining` (`event_dispatcher.cpp:109`).
   Both cannot hold: a drain would write and confirm events that come after the
   abandoned batch, which is the mutant (`GiveUp_drains`) that breaks
   `NoConfirmAfterFatal` and `NoGaps`. `DrainComplete` is therefore stated for
   shutdowns that are not fatal, and line 574, stated as `QueueDrained`, is
   violated.

A message that does not decode is skipped by the code and its transaction is
confirmed; the properties speak of decodable events only, so none of them says
anything about the loss of such a message.

### Bounds

Two transactions of two messages are enough for a batch to end inside a
transaction, to span two, and to hold only changes older than the last commit.
A batch of 2 is full, short and split. A ceiling of 2 with a backoff from 1 lets
a sink be retried with a full and with a cut sleep, and be given up at once by
a call that takes long. Two faults allow a crash during the recovery from
another fault. `Sources`, streams, sinks, sizes and faults are arbitrary in the
proofs.

### Fairness

`FairSpec` asks of the worker thread, of the reads and timers of a registered
source and of the steps of a shutdown that they go on: an operating-system
thread runs, libevent serves ready events and due timers, `main()` is
sequential. `RestartSpec` adds what the operator provides: a process that has
ended is started again. (The packaged unit restarts on failure only, and
`main()` returns 0 after a fatal stall, so this is not a given.) No fairness is
asked of the sinks: that outages end is the premise of `EventuallyDelivered`,
and `ShutdownTerminates` and `FatalStops` hold without it.

## The backfill

### State and actions

`Backfill` is one source with `backfill = true`. The source database is a
sequence `log` of committed changes and the `table` they make; the version of a
row is the position of the change that last wrote its embedded column, so an
update that does not touch that column (`toast`) leaves the version as it was.
`status`, `data` and `tables` are the two tables of the SQLite file. Each SQL
statement is one step, as each is its own transaction: `reset()` is two steps,
`absorb_event` of an update is `AbsorbRead` and `AbsorbWrite`, `dump_all` is one
step per table, per `SELECT` and per row. `phase` is the place of `main()`.

A worker (`BackfillWorker::run`) claims, writes row by row, marks row by row,
and may fail anywhere, which leaves its rows claimed. A fork that fails or a
missing binary is a worker that fails before its first claim. The dispatcher is
the FIFO that `Pipeline` examines in detail. The several ways out of `main()`
during startup are `Crash`: all of them leave the same state behind.

Both the worker and the dispatcher hand rows to `call_batch`, which can return
normally without having written a row: fewer vectors than texts
(`pgembedding_sink.cpp:267`), an empty vector (line 282, what the OpenAI provider
returns after its last failure), or a write whose `false` nobody looks at (line
287); Qdrant and Milvus alike. `CallBatch` is that choice, row by row: the row is
written, or the fault `swallow` is spent. The worker marks the row done and the
dispatcher confirms the event in either case, as in the code. The history
variable `swallowed` remembers the rows whose last write went that way; nothing
but the properties reads it. Deletes are subject to it too; an update without
the embedded column is dropped by the sink and is no write.

`Faults` names what may go wrong in an instance (`Fault` in the module), and
`MaxFaults` bounds how often. Two of its members separate what holds from what
does not: `early crash` is a crash between the creation of the slot and the
first dump marker, `orphan` lets workers outlive the process that forked them.

### Properties and runs

| run | instance | properties |
|---|---|---|
| `backfill_safety` | one table, two ids, two workers, two changes of any kind; crash, orphans, failing worker, shutdown, swallowed write, two faults | `BackfillTypeOK`, `NothingForgotten`, `StagedIsCurrent`, `DumpResumed`, `Completes` |
| `backfill_epochs` | two tables, one worker, two changes; crash, failing worker, refused statement, swallowed write, dropped slot, three faults | `NothingForgotten`, `DumpResumed` |
| `backfill_update` | one row, one update, no faults | violates `Reconciled` |
| `backfill_insert` | one insert, no faults | violates `InsertNeverStaged` |
| `backfill_marker` | no changes, one crash | violates `DumpResumed` |
| `backfill_lossy` | one row, no changes, one swallowed write | violates `DoneIsDelivered` |

- `NothingForgotten`: a row of a completely dumped table is in the sink, in the
  store, or its insert is still to be streamed; or `call_batch` swallowed the
  last write of this very row. With sinks that report their failures the last
  case is empty; with those that do not, a lost write costs its own row and no
  other.
- `DoneIsDelivered`: the same without that exception.
- `StagedIsCurrent`: a staged row is never older than what the stream has told,
  so a suppressed update is in the row that stands for it.
- `DumpResumed`: the source streams only after every table's dump.
- `Completes`: in the end the sink holds the source's rows, or a worker has
  failed and waits for a restart. Excepted are rows whose last write was
  swallowed and rows an update or a delete has touched.

The findings of `PROJECT.json` quote the lines these runs contradict:

1. `backfill_update`: an update absorbed into a *claimed* row is deleted by the
   worker's `mark_done`; the sink keeps the older value.
2. `backfill_insert`: the dump's `SELECT` is later than the slot's consistent
   point, so an insert can meet its own row in the store.
3. `backfill_marker`: a crash between the creation of the slot and the first
   marker leaves no trace, and the dump never happens.
4. `backfill_lossy`: the comment at `backfill_worker.cpp:99` says that
   undelivered rows are not marked done; they are when `call_batch` returns.

The passing runs are restricted. Where a run shows that the property fails
outside the restriction the table names it; the rest is not claimed, for the
reason read off the code:

| property | restriction | outside it |
|---|---|---|
| `NothingForgotten`, `Completes` | not for a row whose last write was swallowed | `DoneIsDelivered` is violated, `backfill_lossy` |
| `DumpResumed` | no `early crash` | violated, `backfill_marker` |
| `NothingForgotten` | no `early crash` | not claimed: `reset()` comes after the creation of the slot, so a crash between them leaves the complete markers of a dropped slot to the next process (TECHNICAL.md:121 says a recreated slot always resets the store) |
| `NothingForgotten` | not both `orphan` and `drop` | not claimed: nothing stops the `mark_done` of a worker that outlived its process from removing a row the next epoch has staged (the comment at `pgreplication_source.cpp:175` says that worker cannot be alive) |
| `StagedIsCurrent` | no `busy` | not claimed: a refused update is skipped, and the staged row is then older |
| `Completes` | not for rows an update has touched | `Reconciled` is violated, `backfill_update` |
| `Completes` | not for rows a delete has touched | not claimed: a worker that holds the row writes it after the delete |

### Bounds and fairness

One row is enough for the races of one row; the second id is the row that is
inserted live, and the second table the one the dump has not come to. Two
changes give a row a change before and one after the `SELECT`, or a delete and
an insert. Two workers are an orphan and its successor. The claim limit of 1
makes a worker come back for a second batch; batches of several rows are not
explored.

`FairSpec` asks that a process that has ended is started again, that startup and
the reads go on and a shutdown whose workers have ended completes (all three are
`main()` and its event loop), that the dispatcher's thread goes on, and that a
worker takes its next step or fails. Nothing is asked of the status timer. As
for `RestartSpec`, the restart is the operator's.

## Proofs

`Pipeline_proofs` proves for every value of the constants, from the assumptions
`DispatcherAssumption` (at least one sink, a positive batch size and backoff,
required and lossy sinks among the sinks) and `PipelineAssumption` (streams are
streams of logical decoding, `IsStream`):

| theorem | statement |
|---|---|
| `TypeCorrect` | `Spec => []TypeOK` |
| `Inductive` | `Spec => []IndInv` |
| `ConfirmationSafe` | `Spec => []ConfirmSafe` |
| `WritesInOrder` | `Spec => []NoGaps` |
| `DrainIsComplete` | `Spec => []DrainComplete` |
| `FatalConfirmsNothing` | `Spec => NoConfirmAfterFatal` |
| `Refinement` | `Spec => ImplementsFeed` |

`ConfirmSafe` is not inductive: whether a batch's highest LSN may be confirmed
depends on where the earlier events are. `IndInv` says it: batch followed by
queue holds each source's jobs in stream order (`JobsInOrder`); an event that
was read is written, in the batch or in the queue (`NothingDropped`); sinks
already called have written the batch (`SinksDone`); the map holds LSNs of
batch members (`ReportsBatch`); and the phases of `main()` and of the thread fit
(`Lifecycle`). The step that matters is `NotifyConfirmed` (`BatchMaxSafe`): let
`j` be the batch member with the LSN reported. A transaction committed at or
below it lies before `j` in the stream, because records precede their commit in
the WAL; so each of its events was read, is not behind `j` in the queue, and is
therefore written or in the batch, which every trusted sink has written. The
other one is `StartInd`: the server resumes after a commit at or below the
slot's position, so `ConfirmSafe` itself says that everything before is written.
`PrefixKeepsNoGaps` is the same argument for a call that throws half way.

Only model-checked: the liveness properties, all of `Backfill`, and everything
about particular instances.

## Not modelled

Listed with reasons in `PROJECT.json`. In the live path: the text of messages
and logs, connection strings, the formatting of LSNs, option parsing. The
queue's memory model is taken as a FIFO until its own module exists. In the
backfill: two mappings of one table (`BackfillAssumption` excludes them; the
second would be skipped as already dumped), columns other than the embedded one,
rows with an empty id or an empty embedded column (the sinks skip them), updates
that change the id, truncates, the publication filter, and an error of
`has_pending`, which is a worker that fails at once.
