------------------------------ MODULE Pipeline -------------------------------
(***************************************************************************)
(* The live path of one walkrie process: PostgreSQL slots, the libevent    *)
(* thread that reads every PgReplicationSource and reports its confirmed   *)
(* LSN, the EventDispatcher with its worker thread, and the life cycle     *)
(* main() gives them: start, event loop, shutdown by a signal or a fatal   *)
(* sink, drain, final acknowledgement, exit; and a crash at any moment.    *)
(* The sources have backfill = false (module Backfill has the other case). *)
(***************************************************************************)
EXTENDS Dispatcher, WalStream

CONSTANTS
    Streams,    \* the message streams a source may have
    MaxFaults   \* bound: crashes, signals, ended streams and sink outages

ASSUME PipelineAssumption ==
    /\ \A w \in Streams : IsStream(w)
    /\ MaxFaults \in Nat

VARIABLES
    wal,        \* each source's stream; it never changes
    slot,       \* confirmed_flush_lsn of each source's slot, kept by the server
    next,       \* the position of the next message each source will read
    streaming,  \* whether each source's read and timer events are registered
    phase,      \* where main() is
    toFlush,    \* sources whose flush_confirmed_lsn() is still to come
    faults      \* faults so far, bounded by MaxFaults

pipelineVars == <<wal, slot, next, streaming, phase, toFlush, faults>>
vars == <<dispatcherVars, pipelineVars>>

Phase == {"down", "loop", "stopping", "joining", "flushing"}

TypeOK ==
    /\ DispatcherTypeOK
    /\ wal \in [Sources -> Streams]
    /\ slot \in [Sources -> Nat]
    /\ next \in [Sources -> Nat \ {0}]
    /\ \A s \in Sources : next[s] <= Len(wal[s]) + 1
    /\ streaming \in [Sources -> BOOLEAN]
    /\ phase \in Phase
    /\ toFlush \in SUBSET Sources
    /\ faults \in 0..MaxFaults

Init ==
    /\ DispatcherInit
    /\ wal \in [Sources -> Streams]
    /\ slot = NoLsn
    /\ next = [s \in Sources |-> 1]
    /\ streaming = [s \in Sources |-> FALSE]
    /\ phase = "down"
    /\ toFlush = {}
    /\ faults = 0

\* The process is gone: the server's and the sinks' state is all that is left.
ProcessEnds ==
    /\ phase' = "down"
    /\ next' = [s \in Sources |-> 1]
    /\ streaming' = [s \in Sources |-> FALSE]
    /\ toFlush' = {}
    /\ confirmed' = NoLsn
    /\ DispatcherDiscarded
    /\ UNCHANGED <<applied, sinkUp, wal, slot>>

Fault ==
    /\ faults < MaxFaults
    /\ faults' = faults + 1
------------------------------------------------------------------------------
(* PgReplicationSource, on the event-loop thread *)

\* connect(): each source starts from its slot's confirmed LSN, or from 0/0
\* where resume_slot() cannot read it.
Connect ==
    \E known \in SUBSET Sources :
        confirmed' = [s \in Sources |-> IF s \in known THEN slot[s] ELSE 0]

\* start_streaming(): the server sends from the slot's position either way.
StartStreaming ==
    \E first \in [Sources -> UNION {1..(Len(wal[s]) + 1) : s \in Sources}] :
        /\ \A s \in Sources : ResumesAt(wal[s], slot[s], first[s])
        /\ next' = first

RegisterEventLoop == streaming' = [s \in Sources |-> TRUE]

\* main() up to event_base_dispatch.  A start that fails exits again and
\* changes nothing.
Start ==
    /\ phase = "down"
    /\ phase' = "loop"
    /\ Connect
    /\ StartStreaming
    /\ RegisterEventLoop
    /\ UNCHANGED <<queue, running, wpc, workerVars, fatal, applied, sinkUp>>
    /\ UNCHANGED <<wal, slot, toFlush, faults>>

\* The next XLogData message.  Its event, stamped with the message's own
\* position, is posted to the dispatcher; one that does not decode is skipped.
ReadMessage(s) ==
    LET m == wal[s][next[s]] IN
    /\ phase = "loop"
    /\ streaming[s]
    /\ next[s] <= Len(wal[s])
    /\ IF m.ok
       THEN post_job([src |-> s, pos |-> next[s], lsn |-> m.lsn])
       ELSE UNCHANGED dispatcherVars
    /\ next' = [next EXCEPT ![s] = @ + 1]
    /\ UNCHANGED <<wal, slot, streaming, phase, toFlush, faults>>

\* The server gets a standby status update for lsn.  0/0 says nothing to it.
\* Some versions take any other position as it is, the rest never move back.
SlotConfirmed(s, lsn) ==
    IF lsn = 0
    THEN UNCHANGED slot
    ELSE \E c \in {lsn, Larger(slot[s], lsn)} : slot' = [slot EXCEPT ![s] = c]

\* Mutant: the position of the last message read is reported as flushed.
PingUpdate_reportsRead(s) ==
    /\ phase = "loop"
    /\ streaming[s]
    /\ next[s] > 1
    /\ SlotConfirmed(s, wal[s][next[s] - 1].lsn)
    /\ UNCHANGED dispatcherVars
    /\ UNCHANGED <<wal, next, streaming, phase, toFlush, faults>>

\* ping_update(), from the 10 s timer or in reply to a keepalive.  An update
\* that is not delivered changes nothing.
PingUpdate(s) ==
    /\ phase = "loop"
    /\ streaming[s]
    /\ SlotConfirmed(s, confirmed[s])
    /\ UNCHANGED dispatcherVars
    /\ UNCHANGED <<wal, next, streaming, phase, toFlush, faults>>

\* PQgetCopyData reports the end of the stream: both events are deleted and
\* nothing reconnects while the process lives.
StreamEnd(s) ==
    /\ phase = "loop"
    /\ streaming[s]
    /\ Fault
    /\ streaming' = [streaming EXCEPT ![s] = FALSE]
    /\ UNCHANGED dispatcherVars
    /\ UNCHANGED <<wal, slot, next, phase, toFlush>>
------------------------------------------------------------------------------
(* main(): shutdown *)

BreakLoop ==
    /\ phase = "loop"
    /\ phase' = "stopping"
    /\ UNCHANGED dispatcherVars
    /\ UNCHANGED <<wal, slot, next, streaming, toFlush>>

\* SIGTERM or SIGINT.
ShutdownSignal ==
    /\ Fault
    /\ BreakLoop

\* Mutant: the flag is looked at only when nothing is queued.
TerminatePoll_whenIdle ==
    /\ fatal
    /\ queue = <<>>
    /\ BreakLoop
    /\ UNCHANGED faults

\* on_terminate_poll sees the flag on_fatal_ set.
TerminatePoll ==
    /\ fatal
    /\ BreakLoop
    /\ UNCHANGED faults

\* dispatcher.reset(), after the wait for backfill workers.
ResetDispatcher ==
    /\ phase = "stopping"
    /\ phase' = "joining"
    /\ StopWorker
    /\ UNCHANGED <<wal, slot, next, streaming, toFlush, faults>>

Joined ==
    /\ phase = "joining"
    /\ wpc = "done"
    /\ phase' = "flushing"
    /\ toFlush' = Sources
    /\ UNCHANGED dispatcherVars
    /\ UNCHANGED <<wal, slot, next, streaming, faults>>

\* One source's flush_confirmed_lsn(): the update reaches the server or not.
FlushConfirmed(s) ==
    /\ phase = "flushing"
    /\ s \in toFlush
    /\ toFlush' = toFlush \ {s}
    /\ \/ streaming[s] /\ SlotConfirmed(s, confirmed[s])
       \/ UNCHANGED slot
    /\ UNCHANGED dispatcherVars
    /\ UNCHANGED <<wal, next, streaming, phase, faults>>

Exit ==
    /\ phase = "flushing"
    /\ toFlush = {}
    /\ ProcessEnds
    /\ UNCHANGED faults

\* The process dies; what is queued, batched or unreported is lost.
Crash ==
    /\ phase # "down"
    /\ Fault
    /\ ProcessEnds
------------------------------------------------------------------------------
SinkOutage(k) ==
    /\ Fault
    /\ SetSinkUp(k, FALSE)
    /\ UNCHANGED <<wal, slot, next, streaming, phase, toFlush>>

SinkRecovery(k) ==
    /\ SetSinkUp(k, TRUE)
    /\ UNCHANGED pipelineVars

WorkerStep ==
    /\ phase # "down"
    /\ Worker
    /\ UNCHANGED pipelineVars

Shutdown ==
    \/ TerminatePoll \/ ResetDispatcher \/ Joined \/ Exit
    \/ \E s \in Sources : FlushConfirmed(s)

Next ==
    \/ Start
    \/ \E s \in Sources : ReadMessage(s) \/ PingUpdate(s) \/ StreamEnd(s)
    \/ WorkerStep
    \/ ShutdownSignal
    \/ Shutdown
    \/ Crash
    \/ \E k \in SinkIds : SinkOutage(k) \/ SinkRecovery(k)

Spec == Init /\ [][Next]_vars

\* The worker thread runs, libevent serves readable sockets and due timers,
\* and main() goes on with a shutdown it has begun.
FairSpec ==
    /\ Spec
    /\ WF_vars(WorkerStep)
    /\ WF_vars(Shutdown)
    /\ \A s \in Sources : WF_vars(ReadMessage(s)) /\ WF_vars(PingUpdate(s))

\* In addition the operator or a supervisor restarts a process that is gone.
\* Nothing is asked of the sinks: an outage may last for ever.
RestartSpec == FairSpec /\ WF_vars(Start)
------------------------------------------------------------------------------
(* Properties *)

\* The sinks whose durability the confirmed position vouches for.
Trusted == Required \ Lossy

WrittenEverywhere(s, i) == \A k \in Trusted : <<s, i>> \in applied[k]

\* Every decodable event of every transaction that committed at or before c
\* is written by every trusted sink.
Safe(s, c) ==
    \A k \in 1..Len(wal[s]) :
        wal[s][k].op = "commit" /\ wal[s][k].lsn <= c =>
            \A i \in 1..k : wal[s][i].ok => WrittenEverywhere(s, i)

\* A transaction the server will not send again (confirmed_flush_lsn is at or
\* past its commit), or that the process would report so at its next
\* ping_update(), is written by every required sink that reports its failures:
\* a crash at any moment loses nothing.
ConfirmSafe == \A s \in Sources : Safe(s, slot[s]) /\ Safe(s, confirmed[s])

\* The same for all required sinks, as the documentation puts it: on_confirmed_
\* fires only once the batch's required sinks have durably applied it.
ConfirmedIsDurable ==
    \A s \in Sources : \A k \in 1..Len(wal[s]) :
        wal[s][k].op = "commit" /\ wal[s][k].lsn <= slot[s] =>
            \A i \in 1..k, r \in Required : wal[s][i].ok => <<s, i>> \in applied[r]

\* What a required sink has written of a source is gap-free in stream order,
\* through partial batches, retries, crashes and replays.
NoGaps ==
    \A k \in Trusted, s \in Sources : \A i \in 1..Len(wal[s]) :
        <<s, i>> \in applied[k] =>
            \A j \in 1..(i - 1) : wal[s][j].ok => <<s, j>> \in applied[k]

\* When dispatcher.reset() returns in a shutdown that is not fatal,
\* drain_remaining() has handed every event that was read to the required sinks.
DrainComplete ==
    phase = "flushing" /\ ~fatal =>
        /\ queue = <<>>
        /\ \A s \in Sources : \A i \in 1..(next[s] - 1) :
               wal[s][i].ok => WrittenEverywhere(s, i)

\* The documentation's account of a shutdown, by a signal or because a required
\* sink has stalled: the queue has been drained when the final standby status
\* updates are sent.  process_jobs drains only when the shutdown is not fatal.
QueueDrained == phase = "flushing" => queue = <<>>

\* Once a required sink has exhausted its retries nothing is confirmed by this
\* process any more: process_jobs leaves without drain_remaining(), so the
\* abandoned batch, and what was queued behind it, stays unreported.
NoConfirmAfterFatal ==
    [][fatal /\ phase' # "down" => confirmed' = confirmed]_vars

\* The live path implements the abstract feed: crashes, replays, retries and
\* batching show nothing to the server or the sinks that AckedFeed forbids.
Feed == INSTANCE AckedFeed WITH
    written <- [s \in Sources |-> {i \in 1..Len(wal[s]) : WrittenEverywhere(s, i)}],
    acked <- slot

ImplementsFeed == Feed!Spec

\* Confirmation only moves forward while a process lives.
ConfirmMonotone ==
    [][phase # "down" /\ phase' # "down" =>
           \A s \in Sources : confirmed'[s] >= confirmed[s]]_vars

\* A shutdown, once begun, ends, even when a required sink never recovers:
\* the retry ceiling bounds how long the join can take.
ShutdownTerminates == phase = "stopping" ~> phase = "down"

\* A required sink that stalls past the ceiling takes the process down.
FatalStops == fatal ~> phase = "down"

\* If outages of sinks end, and unless the source's connection is lost while
\* the process lives on, every event it carries is in the end written by the
\* required sinks and its last commit acknowledged, whatever crashes, outages
\* and shutdowns came before.
Delivered(s) ==
    /\ \A i \in 1..Len(wal[s]) : wal[s][i].ok => WrittenEverywhere(s, i)
    /\ \A i \in 1..Len(wal[s]) : wal[s][i].ok => wal[s][i].lsn <= slot[s]

EventuallyDelivered ==
    <>[](\A k \in SinkIds : sinkUp[k]) =>
        \A s \in Sources : <>[](Delivered(s) \/ (phase = "loop" /\ ~streaming[s]))
------------------------------------------------------------------------------
(* Why ConfirmSafe and NoGaps hold: the inductive invariant *)

InQueue(s, i) == \E q \in 1..Len(queue) : queue[q].src = s /\ queue[q].pos = i
InBatch(s, i) == \E b \in 1..Len(batch) : batch[b].src = s /\ batch[b].pos = i

\* A job carries an event that was read, with its own LSN.
IsRead(j) ==
    /\ j.pos \in 1..(next[j.src] - 1)
    /\ wal[j.src][j.pos].ok
    /\ j.lsn = wal[j.src][j.pos].lsn

Ordered(jobs) ==
    \A a, b \in 1..Len(jobs) :
        a < b /\ jobs[a].src = jobs[b].src => jobs[a].pos < jobs[b].pos

\* The events of a source are in the batch and then in the queue in stream order.
JobsInOrder ==
    /\ \A q \in 1..Len(queue) : IsRead(queue[q])
    /\ \A b \in 1..Len(batch) : IsRead(batch[b])
    /\ Ordered(queue)
    /\ Ordered(batch)
    /\ \A b \in 1..Len(batch), q \in 1..Len(queue) :
           batch[b].src = queue[q].src => batch[b].pos < queue[q].pos

\* An event that was read is written, in the batch or in the queue.
NothingDropped ==
    \A s \in Sources : \A i \in 1..(next[s] - 1) :
        wal[s][i].ok => WrittenEverywhere(s, i) \/ InBatch(s, i) \/ InQueue(s, i)

\* The sinks dispatch() is done with have written the whole batch.
BatchWritten(k) == \A b \in 1..Len(batch) : <<batch[b].src, batch[b].pos>> \in applied[k]

SinksDone ==
    \A k \in Trusted :
        (wpc = "dispatch" /\ k < sink) \/ wpc = "confirm" => BatchWritten(k)

\* What notify_confirmed will report is the LSN of an event of the batch.
ReportsBatch ==
    \A s \in Sources : batchMax[s] # 0 =>
        \E b \in 1..Len(batch) : batch[b].src = s /\ batch[b].lsn = batchMax[s]

\* How the phases of main() and of the worker thread fit together.
Lifecycle ==
    /\ ~running => phase \in {"joining", "flushing"}
    /\ wpc = "drain" => ~running
    /\ wpc = "done" => fatal \/ (~running /\ queue = <<>> /\ batch = <<>>)
    /\ fatal => wpc = "done"
    /\ phase = "flushing" => wpc = "done"
    /\ phase = "down" =>
         queue = <<>> /\ batch = <<>> /\ batchMax = NoLsn /\ wpc = "top"

\* The inductive invariant: where an event that was read can be, and what the
\* worker thread has achieved at each point of a batch.
IndInv ==
    /\ TypeOK
    /\ JobsInOrder
    /\ NothingDropped
    /\ SinksDone
    /\ ReportsBatch
    /\ Lifecycle
    /\ ConfirmSafe
    /\ NoGaps
==============================================================================
