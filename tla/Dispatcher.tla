----------------------------- MODULE Dispatcher ------------------------------
(***************************************************************************)
(* EventDispatcher (event_dispatcher.cpp): the queue, the worker thread    *)
(* that batches jobs, calls every sink in configuration order, retries a   *)
(* required sink with exponential backoff up to a ceiling, and confirms    *)
(* the highest LSN of each source in a batch.                              *)
(*                                                                         *)
(* A job is [src, pos, lsn]: the source it came from, the position of its  *)
(* event in that source's stream and the event's commit_lsn.  Sinks are    *)
(* numbered in configuration order.                                        *)
(***************************************************************************)
EXTENDS Integers, Sequences

CONSTANTS
    Sources,         \* source ids
    NSinks,          \* number of configured sinks
    Required,        \* the sinks whose failure blocks confirmation
    Lossy,           \* the sinks whose call_batch may return without having
                     \* written every event of the batch
    MaxBatch,        \* batch_size
    InitialBackoff,  \* required_retry_initial_backoff_
    Ceiling,         \* required_retry_ceiling_
    CallTimes        \* how long a call_batch that throws may take

SinkIds == 1..NSinks

ASSUME DispatcherAssumption ==
    /\ NSinks \in Nat \ {0}
    /\ Required \subseteq SinkIds
    /\ Lossy \subseteq SinkIds
    /\ MaxBatch \in Nat \ {0}
    /\ InitialBackoff \in Nat \ {0}
    /\ Ceiling \in Nat
    /\ CallTimes \subseteq Nat

VARIABLES
    queue,      \* queue_: jobs posted and not yet dequeued
    running,    \* running_
    wpc,        \* where the worker thread is
    batch,      \* batch_events
    batchMax,   \* batch_max_lsn; 0 for a source that is not in the map
    sink,       \* the sink dispatch() is calling
    elapsed,    \* time spent in dispatch_with_retry for this sink
    backoff,    \* its backoff
    fatal,      \* fatal_triggered_, and the terminate flag on_fatal_ sets
    confirmed,  \* confirmed_lsn_ of each source, set by on_confirmed_
    applied,    \* what each sink has durably written, ever
    sinkUp      \* whether the service behind each sink accepts writes

workerVars == <<batch, batchMax, sink, elapsed, backoff>>
dispatcherVars ==
    <<queue, running, wpc, workerVars, fatal, confirmed, applied, sinkUp>>

Job == [src : Sources, pos : Nat, lsn : Nat \ {0}]
WorkerPc == {"top", "wait", "fill", "dispatch", "confirm", "drain", "done"}

DispatcherTypeOK ==
    /\ queue \in Seq(Job)
    /\ running \in BOOLEAN
    /\ wpc \in WorkerPc
    /\ batch \in Seq(Job)
    /\ batchMax \in [Sources -> Nat]
    /\ sink \in SinkIds
    /\ elapsed \in 0..Ceiling
    /\ backoff \in Nat \ {0}
    /\ fatal \in BOOLEAN
    /\ confirmed \in [Sources -> Nat]
    /\ applied \in [SinkIds -> SUBSET (Sources \X Nat)]
    /\ sinkUp \in [SinkIds -> BOOLEAN]

NoLsn == [s \in Sources |-> 0]

\* A constructed dispatcher: its thread is about to test running_.
DispatcherFresh ==
    /\ queue = <<>>
    /\ running = TRUE
    /\ wpc = "top"
    /\ batch = <<>>
    /\ batchMax = NoLsn
    /\ sink = 1
    /\ elapsed = 0
    /\ backoff = InitialBackoff
    /\ fatal = FALSE

\* The object is gone with the process; the next one starts fresh.
DispatcherDiscarded ==
    /\ queue' = <<>>
    /\ running' = TRUE
    /\ wpc' = "top"
    /\ batch' = <<>>
    /\ batchMax' = NoLsn
    /\ sink' = 1
    /\ elapsed' = 0
    /\ backoff' = InitialBackoff
    /\ fatal' = FALSE

DispatcherInit ==
    /\ DispatcherFresh
    /\ confirmed = NoLsn
    /\ applied = [k \in SinkIds |-> {}]
    /\ sinkUp = [k \in SinkIds |-> TRUE]

Larger(a, b) == IF a >= b THEN a ELSE b
Smaller(a, b) == IF a <= b THEN a ELSE b

Event(j) == <<j.src, j.pos>>
Events(jobs) == {Event(jobs[i]) : i \in DOMAIN jobs}
------------------------------------------------------------------------------
(* The event-loop thread *)

post_job(j) ==
    /\ queue' = Append(queue, j)
    /\ UNCHANGED <<running, wpc, workerVars, fatal, confirmed, applied, sinkUp>>

\* The first half of ~EventDispatcher; the join is awaited by the owner.
StopWorker ==
    /\ running' = FALSE
    /\ UNCHANGED <<queue, wpc, workerVars, fatal, confirmed, applied, sinkUp>>
------------------------------------------------------------------------------
(* The worker thread: process_jobs and drain_remaining *)

\* Mutant: the thread leaves without drain_remaining.
LoopTop_noDrain ==
    /\ wpc = "top"
    /\ wpc' = IF running THEN "wait" ELSE "done"
    /\ UNCHANGED <<queue, running, workerVars, fatal, confirmed, applied, sinkUp>>

\* The while test of process_jobs.  It is also where the thread goes after a
\* flush of drain_remaining: running_ is false by then, so it drains on.
LoopTop ==
    /\ wpc = "top"
    /\ wpc' = IF running THEN "wait" ELSE "drain"
    /\ UNCHANGED <<queue, running, workerVars, fatal, confirmed, applied, sinkUp>>

\* Mutant: the newest job is taken first.
TakeJob_newest ==
    LET j == queue[Len(queue)] IN
    /\ queue # <<>>
    /\ queue' = SubSeq(queue, 1, Len(queue) - 1)
    /\ batch' = Append(batch, j)
    /\ batchMax' = [batchMax EXCEPT ![j.src] = Larger(@, j.lsn)]

\* Mutant: one highest LSN for the batch, reported to every source.
TakeJob_sharedMax ==
    LET j == Head(queue) IN
    /\ queue # <<>>
    /\ queue' = Tail(queue)
    /\ batch' = Append(batch, j)
    /\ batchMax' = [s \in Sources |-> Larger(batchMax[s], j.lsn)]

\* Move the oldest job into the batch and account for its LSN.
TakeJob ==
    LET j == Head(queue) IN
    /\ queue # <<>>
    /\ queue' = Tail(queue)
    /\ batch' = Append(batch, j)
    /\ batchMax' = [batchMax EXCEPT ![j.src] = Larger(@, j.lsn)]

\* Enter dispatch() at its first sink.
BeginDispatch ==
    /\ wpc' = "dispatch"
    /\ sink' = 1
    /\ elapsed' = 0
    /\ backoff' = InitialBackoff

WaitDequeue ==
    /\ wpc = "wait"
    /\ TakeJob
    /\ wpc' = "fill"
    /\ UNCHANGED <<running, sink, elapsed, backoff, fatal, confirmed, applied, sinkUp>>

WaitTimeout ==
    /\ wpc = "wait"
    /\ queue = <<>>
    /\ wpc' = "top"
    /\ UNCHANGED <<queue, running, workerVars, fatal, confirmed, applied, sinkUp>>

FillBatch ==
    /\ wpc = "fill"
    /\ Len(batch) < MaxBatch
    /\ TakeJob
    /\ UNCHANGED <<running, wpc, sink, elapsed, backoff, fatal, confirmed, applied, sinkUp>>

\* Mutant: no deadline, only a full batch is dispatched.
FillEnd_fullOnly ==
    /\ wpc = "fill"
    /\ Len(batch) >= MaxBatch
    /\ BeginDispatch
    /\ UNCHANGED <<queue, running, batch, batchMax, fatal, confirmed, applied, sinkUp>>

\* The batch is full, its deadline has passed, or nothing came before it.
FillEnd ==
    /\ wpc = "fill"
    /\ BeginDispatch
    /\ UNCHANGED <<queue, running, batch, batchMax, fatal, confirmed, applied, sinkUp>>

\* drain_remaining takes what is queued and flushes at every full batch...
DrainTake ==
    /\ wpc = "drain"
    /\ TakeJob
    /\ IF Len(batch) + 1 >= MaxBatch
       THEN BeginDispatch
       ELSE UNCHANGED <<wpc, sink, elapsed, backoff>>
    /\ UNCHANGED <<running, fatal, confirmed, applied, sinkUp>>

\* ...and once more at the end.
DrainFlush ==
    /\ wpc = "drain"
    /\ queue = <<>>
    /\ batch # <<>>
    /\ BeginDispatch
    /\ UNCHANGED <<queue, running, batch, batchMax, fatal, confirmed, applied, sinkUp>>

DrainEnd ==
    /\ wpc = "drain"
    /\ queue = <<>>
    /\ batch = <<>>
    /\ wpc' = "done"
    /\ UNCHANGED <<queue, running, workerVars, fatal, confirmed, applied, sinkUp>>
------------------------------------------------------------------------------
(* dispatch and dispatch_with_retry *)

\* The sink after this one, or notify_confirmed after the last.
NextSink ==
    /\ IF sink = NSinks
       THEN wpc' = "confirm" /\ UNCHANGED sink
       ELSE sink' = sink + 1 /\ UNCHANGED wpc
    /\ elapsed' = 0
    /\ backoff' = InitialBackoff

Write(events) == applied' = [applied EXCEPT ![sink] = @ \cup events]

\* call_batch returns.  A sink outside Lossy has then written the batch.
SinkReturns ==
    /\ wpc = "dispatch"
    /\ sinkUp[sink] \/ sink \in Lossy
    /\ IF sink \in Lossy
       THEN \E some \in SUBSET Events(batch) : Write(some)
       ELSE Write(Events(batch))
    /\ NextSink
    /\ UNCHANGED <<queue, running, batch, batchMax, fatal, confirmed, sinkUp>>

\* call_batch throws after writing some leading part of the batch.
SinkThrows ==
    /\ wpc = "dispatch"
    /\ ~sinkUp[sink]
    /\ \E n \in 0..Len(batch) : Write(Events(SubSeq(batch, 1, n)))

\* A best-effort sink that throws is logged and skipped.
SkipBestEffort ==
    /\ SinkThrows
    /\ sink \notin Required
    /\ NextSink
    /\ UNCHANGED <<queue, running, batch, batchMax, fatal, confirmed, sinkUp>>

\* Mutant: the sleep is not cut to what is left of the ceiling.
SleepFor_unclipped(now) == backoff

\* What is left of the ceiling, or the backoff if that is shorter.
SleepFor(now) == Smaller(Ceiling - now, backoff)

\* Mutant: the clock restarts at every attempt.
RetryRequired_restartsClock ==
    /\ SinkThrows
    /\ sink \in Required
    /\ \E d \in CallTimes : elapsed + d < Ceiling
    /\ elapsed' = 0
    /\ backoff' = InitialBackoff
    /\ UNCHANGED <<queue, running, wpc, batch, batchMax, sink, fatal, confirmed, sinkUp>>

\* A required sink below the ceiling is tried again after a sleep.
RetryRequired ==
    /\ SinkThrows
    /\ sink \in Required
    /\ \E d \in CallTimes :
         LET now == elapsed + d IN
         /\ now < Ceiling
         /\ elapsed' = now + SleepFor(now)
         /\ backoff' = 2 * backoff
    /\ UNCHANGED <<queue, running, wpc, batch, batchMax, sink, fatal, confirmed, sinkUp>>

\* Mutant: process_jobs drains after a fatal stall too.
GiveUp_drains ==
    /\ SinkThrows
    /\ sink \in Required
    /\ \E d \in CallTimes : elapsed + d >= Ceiling
    /\ fatal' = TRUE
    /\ wpc' = "drain"
    /\ batch' = <<>>
    /\ batchMax' = NoLsn
    /\ UNCHANGED <<queue, running, sink, elapsed, backoff, confirmed, sinkUp>>

\* A required sink at the ceiling: on_fatal_ fires, the batch is abandoned
\* unconfirmed, and the thread ends without draining.
GiveUp ==
    /\ SinkThrows
    /\ sink \in Required
    /\ \E d \in CallTimes : elapsed + d >= Ceiling
    /\ fatal' = TRUE
    /\ wpc' = "done"
    /\ UNCHANGED <<queue, running, workerVars, confirmed, sinkUp>>

\* on_confirmed_, as main() sets it: the source takes the LSN as it is.
set_confirmed_lsn(s, lsn) == confirmed' = [confirmed EXCEPT ![s] = lsn]

\* One on_confirmed_ call of notify_confirmed; the map's order is not
\* specified.  After the last one the batch goes out of scope.
NotifyConfirmed(s) ==
    LET rest == [batchMax EXCEPT ![s] = 0] IN
    /\ wpc = "confirm"
    /\ batchMax[s] # 0
    /\ set_confirmed_lsn(s, batchMax[s])
    /\ batchMax' = rest
    /\ IF rest = NoLsn
       THEN wpc' = "top" /\ batch' = <<>>
       ELSE UNCHANGED <<wpc, batch>>
    /\ UNCHANGED <<queue, running, sink, elapsed, backoff, fatal, applied, sinkUp>>

Worker ==
    \/ LoopTop \/ WaitDequeue \/ WaitTimeout \/ FillBatch \/ FillEnd
    \/ DrainTake \/ DrainFlush \/ DrainEnd
    \/ SinkReturns \/ SkipBestEffort \/ RetryRequired \/ GiveUp
    \/ \E s \in Sources : NotifyConfirmed(s)
------------------------------------------------------------------------------
(* The services behind the sinks (external) *)

SetSinkUp(k, up) ==
    /\ sinkUp[k] = ~up
    /\ sinkUp' = [sinkUp EXCEPT ![k] = up]
    /\ UNCHANGED <<queue, running, wpc, workerVars, fatal, confirmed, applied>>
==============================================================================
