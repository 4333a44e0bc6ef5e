------------------------------- MODULE Backfill -------------------------------
(***************************************************************************)
(* The initial backfill of one source: BackfillStore (the SQLite file),     *)
(* BackfillUtil (the dump, and absorb_event on the live stream),            *)
(* BackfillWorker (the walkrie_worker processes that drain the store) and   *)
(* the startup and shutdown of main() around them.                          *)
(*                                                                          *)
(* Every committed change has a position in log, and the version of a row   *)
(* is the position that wrote it: 0 for what was there from the start.      *)
(* The dispatcher is the queue in front of the sink that Pipeline shows it  *)
(* to be: in order, confirmed once written, gone in a crash.                *)
(***************************************************************************)
EXTENDS Integers, Sequences, FiniteSets, FiniteSetsExt, SequencesExt

CONSTANTS
    Tables,        \* backfill_table_mappings, in order
    Ids,           \* row ids
    Initial,       \* the rows that exist before anything runs
    Workers,       \* walkrie_worker processes that can be alive at a time
    ClaimLimit,    \* claim_batch_size_
    Ops,           \* the kinds of change the source database makes
    MaxChanges,    \* bound on the committed changes
    Faults,        \* what may go wrong, see Fault
    MaxFaults      \* bound on how often

Row == ToSet(Tables) \X Ids

ASSUME BackfillAssumption ==
    /\ Tables # <<>> /\ IsInjective(Tables)
    /\ Initial \subseteq Row
    /\ ClaimLimit \in Nat \ {0}
    /\ Ops \subseteq {"insert", "update", "toast", "delete"}
    /\ MaxChanges \in Nat /\ MaxFaults \in Nat
    /\ Faults \subseteq {"crash", "early crash", "orphan", "worker", "busy", "stop", "drop",
                      "swallow"}

VARIABLES
    log, table,               \* the source database: its changes, its contents
    slot,                     \* confirmed_flush_lsn, or NoSlot
    sinkRows,                 \* what the sink holds of each row
    swallowed,                \* history: rows whose last write call_batch swallowed
    status, data,             \* backfill_rows
    tables,                   \* backfill_tables
    phase, fresh,             \* main(), slot_freshly_created_
    ti, cursor,               \* dump_all: the current table, the SELECT's rows left
    read, queue, confirmed,   \* the live path of the running process
    merging,                  \* absorb_event between its two statements
    worker, children,         \* the walkrie_worker processes, workers_
    faults

database == <<log, table>>
store == <<status, data, tables>>
dump == <<ti, cursor>>
live == <<read, queue, confirmed, merging>>
procs == <<worker, children, faults>>
sinks == <<sinkRows, swallowed>>
vars == <<database, slot, sinks, store, phase, fresh, dump, live, procs>>

Absent == -1
NoSlot == -1
None == [r \in {} |-> 0]
Idle == [pc |-> "none", batch |-> None, todo |-> {}]
Version == -1..MaxChanges
Phases == {"down", "created", "reset", "resumed", "connected", "dump", "select",
           "insert", "spawn", "start", "stream", "stopping"}

Change == [op : Ops, row : Row]
Job == [pos : 1..MaxChanges, send : BOOLEAN]

BackfillTypeOK ==
    /\ log \in Seq(Change) /\ Len(log) <= MaxChanges
    /\ table \in [Row -> Version] /\ sinkRows \in [Row -> Version]
    /\ swallowed \subseteq Row
    /\ slot \in NoSlot..Len(log)
    /\ status \in [Row -> {"absent", "pending", "claimed"}]
    /\ data \in [Row -> Version]
    /\ tables \in [ToSet(Tables) -> {"none", "in_progress", "complete"}]
    /\ phase \in Phases /\ fresh \in BOOLEAN
    /\ ti \in 1..(Len(Tables) + 1)
    /\ DOMAIN cursor \subseteq Row
    /\ read \in 0..Len(log) /\ confirmed \in 0..read
    /\ queue \in Seq(Job)
    /\ merging \in Version
    /\ DOMAIN worker = Workers
    /\ \A w \in Workers :
         /\ worker[w].pc \in {"none", "claim", "write", "mark", "failed"}
         /\ worker[w].todo \subseteq DOMAIN worker[w].batch
         /\ Cardinality(DOMAIN worker[w].batch) <= ClaimLimit
    /\ children \subseteq Workers
    /\ faults \in 0..MaxFaults

Init ==
    /\ log = <<>>
    /\ table = [r \in Row |-> IF r \in Initial THEN 0 ELSE Absent]
    /\ slot = NoSlot
    /\ sinkRows = [r \in Row |-> Absent] /\ swallowed = {}
    /\ status = [r \in Row |-> "absent"] /\ data = [r \in Row |-> 0]
    /\ tables = [t \in ToSet(Tables) |-> "none"]
    /\ phase = "down" /\ fresh = FALSE
    /\ ti = 1 /\ cursor = None
    /\ read = 0 /\ queue = <<>> /\ confirmed = 0 /\ merging = Absent
    /\ worker = [w \in Workers |-> Idle] /\ children = {}
    /\ faults = 0

\* "crash": the main process dies; "early crash": also before its first dump
\* marker; "orphan": its workers outlive it; "worker": a worker fails; "busy":
\* SQLite refuses a statement of absorb_event; "stop": a shutdown signal; "drop":
\* someone drops the slot; "swallow": call_batch returns without having written.
Fault(f) == f \in Faults /\ faults < MaxFaults /\ faults' = faults + 1
------------------------------------------------------------------------------
(* The source database and whoever administers it *)

\* What a change leaves of a row whose version was v.  "toast" is an update
\* that leaves the large column as it was and does not send it.
After(op, v, pos) ==
    CASE op = "delete" -> Absent
      [] op = "toast"  -> v
      [] OTHER         -> pos

Commit(op, r) ==
    /\ Len(log) < MaxChanges
    /\ (op = "insert") <=> (table[r] = Absent)
    /\ log' = Append(log, [op |-> op, row |-> r])
    /\ table' = [table EXCEPT ![r] = After(op, @, Len(log) + 1)]
    /\ UNCHANGED <<slot, sinks, store, phase, fresh, dump, live, procs>>

\* pg_drop_replication_slot, while nothing reads it.
DropSlot ==
    /\ Fault("drop")
    /\ phase = "down" /\ slot # NoSlot
    /\ slot' = NoSlot
    /\ UNCHANGED <<database, sinks, store, phase, fresh, dump, live,
                   worker, children>>
------------------------------------------------------------------------------
(* Startup: connect, run_backfill_dump_if_required, spawn_if_required *)

\* CREATE_REPLICATION_SLOT, which fails if the slot exists.  A failed child of
\* the process before is of no further interest.
Connect ==
    /\ phase = "down"
    /\ fresh' = (slot = NoSlot)
    /\ slot' = IF slot = NoSlot THEN Len(log) ELSE slot
    /\ phase' = IF slot = NoSlot THEN "created" ELSE "resumed"
    /\ worker' = [w \in Workers |-> IF worker[w].pc = "failed" THEN Idle ELSE worker[w]]
    /\ UNCHANGED <<database, sinks, store, dump, live, children, faults>>

\* BackfillStore::reset is two statements, each its own transaction.
ResetRows ==
    /\ phase = "created"
    /\ status' = [r \in Row |-> "absent"] /\ data' = [r \in Row |-> 0]
    /\ phase' = "reset"
    /\ UNCHANGED <<database, slot, sinks, tables, fresh, dump, live, procs>>

\* Mutant: only the rows of the epoch before are discarded.
ResetTables_kept ==
    /\ phase = "reset"
    /\ phase' = "connected"
    /\ UNCHANGED <<database, slot, sinks, store, fresh, dump, live, procs>>

ResetTables ==
    /\ phase = "reset"
    /\ tables' = [t \in ToSet(Tables) |-> "none"]
    /\ phase' = "connected"
    /\ UNCHANGED <<database, slot, sinks, status, data, fresh, dump, live, procs>>

\* Mutant: claims are left as they are.
reset_stale_claims_none ==
    /\ phase = "resumed"
    /\ phase' = "connected"
    /\ UNCHANGED <<database, slot, sinks, store, fresh, dump, live, procs>>

reset_stale_claims ==
    /\ phase = "resumed"
    /\ status' = [r \in Row |-> IF status[r] = "claimed" THEN "pending" ELSE status[r]]
    /\ phase' = "connected"
    /\ UNCHANGED <<database, slot, sinks, data, tables, fresh, dump, live, procs>>

has_any_dump_state == \E t \in ToSet(Tables) : tables[t] # "none"

\* Mutant: an interrupted dump is not resumed.
run_backfill_dump_if_required_freshOnly ==
    /\ phase = "connected"
    /\ phase' = IF fresh THEN "dump" ELSE "spawn"
    /\ ti' = 1
    /\ UNCHANGED <<database, slot, sinks, store, fresh, cursor, live, procs>>

run_backfill_dump_if_required ==
    /\ phase = "connected"
    /\ phase' = IF fresh \/ has_any_dump_state THEN "dump" ELSE "spawn"
    /\ ti' = 1
    /\ UNCHANGED <<database, slot, sinks, store, fresh, cursor, live, procs>>

\* Mutant: the table is marked only when its dump is complete.
DumpTable_unmarked ==
    /\ phase = "dump" /\ ti <= Len(Tables)
    /\ IF tables[Tables[ti]] = "complete"
       THEN ti' = ti + 1 /\ phase' = phase
       ELSE phase' = "select" /\ ti' = ti
    /\ UNCHANGED <<database, slot, sinks, store, fresh, cursor, live, procs>>

\* dump_all: a table that is complete is skipped, another is marked first.
DumpTable ==
    /\ phase = "dump" /\ ti <= Len(Tables)
    /\ IF tables[Tables[ti]] = "complete"
       THEN /\ ti' = ti + 1
            /\ UNCHANGED <<tables, phase>>
       ELSE /\ tables' = [tables EXCEPT ![Tables[ti]] = "in_progress"]
            /\ phase' = "select"
            /\ UNCHANGED ti
    /\ UNCHANGED <<database, slot, sinks, status, data, fresh, cursor, live, procs>>

\* The SELECT sees the table of its own moment, not of the slot's.
DumpSelect ==
    /\ phase = "select"
    /\ cursor' = [r \in {q \in Row : q[1] = Tables[ti] /\ table[q] # Absent} |-> table[r]]
    /\ phase' = "insert"
    /\ UNCHANGED <<database, slot, sinks, store, fresh, ti, live, procs>>

\* INSERT OR IGNORE
insert_row(r) ==
    /\ phase = "insert" /\ r \in DOMAIN cursor
    /\ IF status[r] = "absent"
       THEN /\ status' = [status EXCEPT ![r] = "pending"]
            /\ data' = [data EXCEPT ![r] = cursor[r]]
       ELSE UNCHANGED <<status, data>>
    /\ cursor' = [q \in DOMAIN cursor \ {r} |-> cursor[q]]
    /\ UNCHANGED <<database, slot, sinks, tables, phase, fresh, ti, live, procs>>

\* Mutant: the table is complete as soon as its SELECT is.
mark_table_dumped_early ==
    /\ phase = "insert"
    /\ tables' = [tables EXCEPT ![Tables[ti]] = "complete"]
    /\ phase' = "dump" /\ ti' = ti + 1 /\ cursor' = None
    /\ UNCHANGED <<database, slot, sinks, status, data, fresh, live, procs>>

mark_table_dumped ==
    /\ phase = "insert" /\ cursor = None
    /\ tables' = [tables EXCEPT ![Tables[ti]] = "complete"]
    /\ phase' = "dump" /\ ti' = ti + 1
    /\ UNCHANGED <<database, slot, sinks, status, data, fresh, cursor, live, procs>>

DumpDone ==
    /\ phase = "dump" /\ ti > Len(Tables)
    /\ phase' = "spawn"
    /\ UNCHANGED <<database, slot, sinks, store, fresh, dump, live, procs>>

has_pending == \E r \in Row : status[r] = "pending"

\* fork and exec.  A fork that fails is a child that fails at once.
spawn_if_required ==
    /\ phase = "spawn"
    /\ phase' = "start"
    /\ IF has_pending
       THEN \E w \in Workers :
              /\ worker[w].pc = "none"
              /\ worker' = [worker EXCEPT ![w] = [Idle EXCEPT !.pc = "claim"]]
              /\ children' = {w}
       ELSE UNCHANGED <<worker, children>>
    /\ UNCHANGED <<database, slot, sinks, store, fresh, dump, live, faults>>

\* START_REPLICATION from the slot's position, and the event loop.  Before the
\* first confirmation the status update carries nothing the server would act on.
start_streaming ==
    /\ phase = "start"
    /\ phase' = "stream"
    /\ read' = slot /\ confirmed' = slot
    /\ queue' = <<>> /\ merging' = Absent
    /\ UNCHANGED <<database, slot, sinks, store, fresh, dump, procs>>
------------------------------------------------------------------------------
(* The live path: drain_available_messages with absorb_event, dispatcher *)

\* What an update leaves of a stored row: merge_known_columns.
merge_known_columns(pos, stored) == After(log[pos].op, stored, pos)

\* The change at pos has been read; its commit, which carries the position to
\* confirm, is posted in any case.
Posted(pos, send) ==
    /\ read' = pos
    /\ queue' = Append(queue, [pos |-> pos, send |-> send])

\* An insert, or an update of a row the store does not hold: dispatched.
ReadForSink ==
    /\ phase = "stream" /\ merging = Absent /\ read < Len(log)
    /\ LET m == log[read + 1] IN
         \/ m.op = "insert"
         \/ m.op \in {"update", "toast"} /\ status[m.row] = "absent"
    /\ Posted(read + 1, TRUE)
    /\ UNCHANGED <<database, slot, sinks, store, phase, fresh, dump, confirmed,
                   merging, procs>>

\* A delete takes the row out of the store, and is dispatched too.
ReadDelete ==
    /\ phase = "stream" /\ merging = Absent /\ read < Len(log)
    /\ log[read + 1].op = "delete"
    /\ status' = [status EXCEPT ![log[read + 1].row] = "absent"]
    /\ data' = [data EXCEPT ![log[read + 1].row] = 0]
    /\ Posted(read + 1, TRUE)
    /\ UNCHANGED <<database, slot, sinks, tables, phase, fresh, dump,
                   confirmed, merging, procs>>

\* An update of a row the store holds: get_row_data and the merge ...
AbsorbRead ==
    /\ phase = "stream" /\ merging = Absent /\ read < Len(log)
    /\ LET m == log[read + 1] IN
         /\ m.op \in {"update", "toast"}
         /\ status[m.row] # "absent"
         /\ merging' = merge_known_columns(read + 1, data[m.row])
    /\ UNCHANGED <<database, slot, sinks, store, phase, fresh, dump, read, queue,
                   confirmed, procs>>

\* Mutant: the stored row stays as it was dumped.
AbsorbWrite_dumped ==
    /\ merging # Absent
    /\ Posted(read + 1, FALSE)
    /\ merging' = Absent
    /\ UNCHANGED <<database, slot, sinks, store, phase, fresh, dump,
                   confirmed, procs>>

\* ... and update_row_data, which changes nothing if the row has gone.  The
\* event is suppressed all the same.
AbsorbWrite ==
    /\ merging # Absent
    /\ LET r == log[read + 1].row IN
         data' = IF status[r] = "absent" THEN data ELSE [data EXCEPT ![r] = merging]
    /\ Posted(read + 1, FALSE)
    /\ merging' = Absent
    /\ UNCHANGED <<database, slot, sinks, status, tables, phase, fresh, dump,
                   confirmed, procs>>

\* absorb_event throws: the message is skipped, its commit is not.
ReadSkipped ==
    /\ Fault("busy")
    /\ phase = "stream" /\ merging = Absent /\ read < Len(log)
    /\ log[read + 1].op # "insert"
    /\ Posted(read + 1, FALSE)
    /\ UNCHANGED <<database, slot, sinks, store, phase, fresh, dump, confirmed,
                   merging, worker, children>>

\* What call_batch, if it returns, has done with one row: its version v is in the
\* sink; or there were fewer vectors than texts, the row's vector was empty, or
\* the result of its upsert or remove was false, and nobody is told.
CallBatch(r, v) ==
    \/ /\ sinkRows' = [sinkRows EXCEPT ![r] = v]
       /\ swallowed' = swallowed \ {r}
       /\ UNCHANGED faults
    \/ /\ Fault("swallow")
       /\ swallowed' = swallowed \cup {r}
       /\ UNCHANGED sinkRows

\* The dispatcher hands the oldest event to the sink and reports it.  An update
\* without the large column is no write.
Deliver ==
    /\ queue # <<>>
    /\ LET j == Head(queue)  m == log[j.pos] IN
         /\ IF j.send /\ m.op # "toast"
            THEN CallBatch(m.row, After(m.op, sinkRows[m.row], j.pos))
            ELSE UNCHANGED <<sinks, faults>>
         /\ confirmed' = j.pos
    /\ queue' = Tail(queue)
    /\ UNCHANGED <<database, slot, store, phase, fresh, dump, read, merging,
                   worker, children>>

\* The status timer; it does not fire once the event loop has ended.
ping_update ==
    /\ phase = "stream"
    /\ slot' = confirmed
    /\ UNCHANGED <<database, sinks, store, phase, fresh, dump, live, procs>>
------------------------------------------------------------------------------
(* The end of the process *)

ShutdownSignal ==
    /\ Fault("stop")
    /\ phase = "stream" /\ merging = Absent
    /\ phase' = "stopping"
    /\ UNCHANGED <<database, slot, sinks, store, fresh, dump, live, worker, children>>

ProcessEnds ==
    /\ phase' = "down" /\ fresh' = FALSE
    /\ ti' = 1 /\ cursor' = None
    /\ read' = 0 /\ queue' = <<>> /\ confirmed' = 0 /\ merging' = Absent
    /\ children' = {}
    /\ UNCHANGED <<database, sinks, store>>

\* wait_for_all_workers, dispatcher.reset(), flush_confirmed_lsn.
Exit ==
    /\ phase = "stopping"
    /\ \A w \in children : worker[w].pc \in {"none", "failed"}
    /\ queue = <<>>
    /\ slot' = confirmed
    /\ ProcessEnds
    /\ UNCHANGED <<worker, faults>>

\* From a freshly created slot to the first mark_table_dump_started.
BeforeFirstMarker ==
    /\ fresh
    /\ \/ phase \in {"created", "reset", "connected"}
       \/ phase = "dump" /\ ti = 1

\* The process dies, or leaves main() early.  Nothing it does ends its children.
Crash ==
    /\ Fault(IF BeforeFirstMarker THEN "early crash" ELSE "crash")
    /\ phase # "down"
    /\ ProcessEnds
    /\ worker' = IF "orphan" \in Faults THEN worker ELSE [w \in Workers |-> Idle]
    /\ UNCHANGED slot
------------------------------------------------------------------------------
(* A walkrie_worker: BackfillWorker::run *)

WorkerOnly == UNCHANGED <<database, slot, tables, phase, fresh, dump, live, children>>

\* Mutant: the limit is not applied.
claim_pending_all(w) ==
    /\ worker[w].pc = "claim"
    /\ LET claimed == {r \in Row : status[r] = "pending"} IN
         /\ claimed # {}
         /\ status' = [r \in Row |-> IF r \in claimed THEN "claimed" ELSE status[r]]
         /\ worker' = [worker EXCEPT ![w] = [pc |-> "write", todo |-> claimed,
                                             batch |-> [r \in claimed |-> data[r]]]]
    /\ WorkerOnly /\ UNCHANGED <<data, sinks, faults>>

\* One UPDATE ... RETURNING.
claim_pending(w) ==
    /\ worker[w].pc = "claim"
    /\ LET pending == {r \in Row : status[r] = "pending"} IN
       \E claimed \in kSubset(Min({ClaimLimit, Cardinality(pending)}), pending) :
         /\ claimed # {}
         /\ status' = [r \in Row |-> IF r \in claimed THEN "claimed" ELSE status[r]]
         /\ worker' = [worker EXCEPT ![w] = [pc |-> "write", todo |-> claimed,
                                             batch |-> [r \in claimed |-> data[r]]]]
    /\ WorkerOnly /\ UNCHANGED <<data, sinks, faults>>

\* Nothing pending: the worker is done.
DrainEmpty(w) ==
    /\ worker[w].pc = "claim" /\ ~has_pending
    /\ worker' = [worker EXCEPT ![w] = Idle]
    /\ WorkerOnly /\ UNCHANGED <<status, data, sinks, faults>>

\* call_batch takes the rows of the batch as they were claimed, one by one.
WriteRow(w, r) ==
    /\ worker[w].pc = "write" /\ r \in worker[w].todo
    /\ CallBatch(r, worker[w].batch[r])
    /\ worker' = IF worker[w].todo = {r}
                 THEN [worker EXCEPT ![w].pc = "mark", ![w].todo = DOMAIN worker[w].batch]
                 ELSE [worker EXCEPT ![w].todo = @ \ {r}]
    /\ WorkerOnly /\ UNCHANGED <<status, data>>

\* mark_done deletes the row, whatever has become of it since it was claimed.
mark_done(w, r) ==
    /\ worker[w].pc = "mark" /\ r \in worker[w].todo
    /\ status' = [status EXCEPT ![r] = "absent"] /\ data' = [data EXCEPT ![r] = 0]
    /\ worker' = IF worker[w].todo = {r}
                 THEN [worker EXCEPT ![w] = [Idle EXCEPT !.pc = "claim"]]
                 ELSE [worker EXCEPT ![w].todo = @ \ {r}]
    /\ WorkerOnly /\ UNCHANGED <<sinks, faults>>

\* Any exception, or the death of the worker: its rows stay claimed.
WorkerFails(w) ==
    /\ Fault("worker")
    /\ worker[w].pc \in {"claim", "write", "mark"}
    /\ worker' = [worker EXCEPT ![w] = [Idle EXCEPT !.pc = "failed"]]
    /\ WorkerOnly /\ UNCHANGED <<status, data, sinks>>

Run(w) ==
    \/ claim_pending(w)
    \/ DrainEmpty(w)
    \/ \E r \in Row : WriteRow(w, r) \/ mark_done(w, r)
------------------------------------------------------------------------------
Startup ==
    \/ Connect \/ ResetRows \/ ResetTables \/ reset_stale_claims
    \/ run_backfill_dump_if_required \/ DumpTable \/ DumpSelect
    \/ \E r \in Row : insert_row(r)
    \/ mark_table_dumped \/ DumpDone \/ spawn_if_required \/ start_streaming

Stream == ReadForSink \/ ReadDelete \/ AbsorbRead \/ AbsorbWrite

Next ==
    \/ \E op \in Ops, r \in Row : Commit(op, r)
    \/ DropSlot
    \/ Startup \/ Stream \/ Deliver \/ ping_update
    \/ ReadSkipped \/ ShutdownSignal \/ Exit \/ Crash
    \/ \E w \in Workers : Run(w) \/ WorkerFails(w)

Spec == Init /\ [][Next]_vars

\* A supervisor restarts the process, the server sends what it has, main() goes
\* on, and the dispatcher's thread and the workers are scheduled.
FairSpec ==
    /\ Spec
    /\ WF_vars(Startup \/ Stream \/ Exit)
    /\ WF_vars(Deliver)
    /\ \A w \in Workers : WF_vars(Run(w))
------------------------------------------------------------------------------
(* Properties *)

\* The server will send an insert of the row again, or has yet to send it.
Owed(r) == \E n \in (slot + 1)..Len(log) : log[n] = [op |-> "insert", row |-> r]

\* The row is in the sink, or in the store for a worker to write, or its insert
\* is still to come.
Accounted(r) == sinkRows[r] # Absent \/ status[r] # "absent" \/ Owed(r)

\* The rows the dump has promised to the sink.
DumpedRows ==
    IF slot = NoSlot \/ phase \in {"created", "reset"}
    THEN {}
    ELSE {r \in Row : table[r] # Absent /\ tables[r[1]] = "complete"}

\* A row of a table whose dump is complete reaches the sink one way or the
\* other, unless call_batch itself swallowed the last write of that very row.
\* So no crash, no reported failure of a worker, no restart and no write lost
\* for another row makes the dump forget a row (dump_all, mark_done,
\* reset_stale_claims, absorb_event).
NothingForgotten == \A r \in DumpedRows : Accounted(r) \/ r \in swallowed

\* The same for every row.  BackfillWorker::run says it leaves the rows of a
\* batch claimed "rather than mark undelivered rows done": a row of the dump
\* that has left the store has been delivered.
DoneIsDelivered == \A r \in DumpedRows : Accounted(r)

\* The last change of the row at or before position n that the stream spells out.
VersionAt(r, n) ==
    Max({0} \cup {k \in 1..n : log[k].row = r /\ log[k].op # "toast"})

\* A row in the store is never older than what the stream has told of it, so
\* the events absorb_event suppresses are in the row that stands for them.
StagedIsCurrent ==
    phase \in {"stream", "stopping"} =>
        \A r \in Row : status[r] # "absent" => data[r] >= VersionAt(r, read)

\* A source whose slot was created with backfill on streams only when the dump
\* of every table is complete: an interrupted dump is resumed after a restart.
DumpResumed ==
    phase = "stream" => \A t \in ToSet(Tables) : tables[t] = "complete"

\* Nothing is left to read, to deliver, to merge or to drain.
Quiescent ==
    /\ phase = "stream" /\ read = Len(log) /\ queue = <<>> /\ merging = Absent
    /\ \A r \in Row : status[r] = "absent"
    /\ \A w \in Workers : worker[w].pc = "none"

\* Live-event reconciliation keeps a row correct while both paths touch it: once
\* everything has been handed over the sink holds the rows of the source.
Reconciled == Quiescent => sinkRows = table

\* An insert read from the stream never meets a staged copy of its row.
InsertNeverStaged ==
    /\ phase = "stream" /\ merging = Absent /\ read < Len(log)
    /\ log[read + 1].op = "insert"
    => status[log[read + 1].row] = "absent"

\* A change the reconciliation can lose, see Reconciled.
Contended(r) == \E k \in DOMAIN log : log[k].row = r /\ log[k].op \in {"update", "delete"}

\* The backfill gets there: from some moment on the sink holds every row of the
\* source, but for rows an update or a delete has touched and rows whose last
\* write call_batch swallowed; or a worker has failed since the last start of
\* the process.
Completes ==
    <>[](\/ \A r \in Row : sinkRows[r] = table[r] \/ Contended(r) \/ r \in swallowed
         \/ \E w \in Workers : worker[w].pc = "failed")
==============================================================================
