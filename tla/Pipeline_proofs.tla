---------------------------- MODULE Pipeline_proofs ---------------------------
(***************************************************************************)
(* The live path, for every set of sources, streams, sinks, batch size and *)
(* retry setting: every state is of its type, and IndInv is an inductive   *)
(* invariant, from which follow the safety properties the runs check and   *)
(* the refinement of AckedFeed.                                            *)
(***************************************************************************)
EXTENDS Pipeline, SequenceTheorems, TLAPS

------------------------------------------------------------------------------
(* Facts about the building blocks *)

\* Every source has a well-formed stream.
LEMMA StreamType ==
    ASSUME TypeOK, NEW s \in Sources
    PROVE  wal[s] \in Seq(Message) /\ Len(wal[s]) \in Nat /\ IsStream(wal[s])
BY PipelineAssumption DEF TypeOK, IsStream

\* Where a source may resume.
LEMMA ResumeType ==
    ASSUME NEW w, Len(w) \in Nat, NEW c, NEW p, ResumesAt(w, c, p)
    PROVE  p \in Nat \ {0} /\ p <= Len(w) + 1
BY DEF ResumesAt

\* Moving the oldest job into the batch keeps queue, batch and map well typed.
LEMMA TakeJobType ==
    ASSUME DispatcherTypeOK, TakeJob
    PROVE  /\ Head(queue) \in Job
           /\ queue' \in Seq(Job)
           /\ batch' \in Seq(Job)
           /\ batchMax' \in [Sources -> Nat]
<1>1. queue \in Seq(Job) /\ batch \in Seq(Job) /\ queue # <<>>
  BY Zenon DEF DispatcherTypeOK, TakeJob
<1>2. Head(queue) \in Job
  BY <1>1
<1>3. Head(queue).src \in Sources /\ Head(queue).lsn \in Nat
  BY Zenon, <1>2 DEF Job
<1>4. queue' \in Seq(Job) /\ batch' \in Seq(Job)
  BY <1>1, <1>2 DEF TakeJob
<1>5. batchMax' \in [Sources -> Nat]
  BY Zenon, <1>3 DEF TakeJob, DispatcherTypeOK, Larger
<1>6. QED
  BY Zenon, <1>2, <1>4, <1>5

\* The events of a sequence of jobs.
LEMMA EventsType ==
    ASSUME NEW jobs \in Seq(Job)
    PROVE  Events(jobs) \subseteq Sources \X Nat
<1>1. \A i \in DOMAIN jobs : jobs[i] \in Job
  BY Zenon, LenProperties, ElementOfSeq
<1>2. \A i \in DOMAIN jobs : Event(jobs[i]) \in Sources \X Nat
  BY Zenon, <1>1 DEF Event, Job
<1>3. QED
  BY Zenon, <1>2 DEF Events

\* A write adds events of the batch to one sink and nothing else.
LEMMA WriteType ==
    ASSUME DispatcherTypeOK, NEW events \in SUBSET (Sources \X Nat), Write(events)
    PROVE  applied' \in [SinkIds -> SUBSET (Sources \X Nat)]
BY DEF DispatcherTypeOK, Write

\* A call_batch that throws has written a leading part of the batch.
LEMMA SinkThrowsType ==
    ASSUME DispatcherTypeOK, SinkThrows
    PROVE  applied' \in [SinkIds -> SUBSET (Sources \X Nat)]
<1>1. PICK n \in 0..Len(batch) : Write(Events(SubSeq(batch, 1, n)))
  BY Zenon DEF SinkThrows
<1>2. batch \in Seq(Job)
  BY Zenon DEF DispatcherTypeOK
<1>3. SubSeq(batch, 1, n) \in Seq(Job)
  BY <1>2
<1>4. QED
  BY Zenon, <1>1, <1>3, EventsType, WriteType
------------------------------------------------------------------------------
(* Type correctness *)

LEMMA InitType == Init => TypeOK
<1> SUFFICES ASSUME Init PROVE TypeOK
  BY Zenon
<1>1. wal \in [Sources -> Streams] /\ \A s \in Sources : Len(wal[s]) \in Nat
  BY PipelineAssumption DEF Init, IsStream
<1>2. DispatcherTypeOK
  <2>1. queue \in Seq(Job) /\ batch \in Seq(Job)
    BY Zenon, EmptySeq DEF Init, DispatcherInit, DispatcherFresh
  <2>2. batchMax \in [Sources -> Nat] /\ confirmed \in [Sources -> Nat]
    BY Zenon DEF Init, DispatcherInit, DispatcherFresh, NoLsn
  <2>3. applied \in [SinkIds -> SUBSET (Sources \X Nat)] /\ sinkUp \in [SinkIds -> BOOLEAN]
    BY Zenon DEF Init, DispatcherInit
  <2>4. sink \in SinkIds /\ elapsed \in 0..Ceiling /\ backoff \in Nat \ {0}
    BY DispatcherAssumption DEF Init, DispatcherInit, DispatcherFresh, SinkIds
  <2>5. wpc \in WorkerPc /\ running \in BOOLEAN /\ fatal \in BOOLEAN
    BY Zenon DEF Init, DispatcherInit, DispatcherFresh, WorkerPc
  <2>6. QED
    BY Zenon, <2>1, <2>2, <2>3, <2>4, <2>5 DEF DispatcherTypeOK
<1>3. QED
  BY <1>1, <1>2, PipelineAssumption DEF Init, TypeOK, Phase, NoLsn

LEMMA WorkerType ==
    ASSUME DispatcherTypeOK, Worker
    PROVE  DispatcherTypeOK'
<1> USE DispatcherAssumption DEF DispatcherTypeOK, WorkerPc, workerVars
<1>1. CASE LoopTop
  BY Zenon, <1>1 DEF LoopTop
<1>2. CASE WaitDequeue
  BY Zenon, <1>2, TakeJobType DEF WaitDequeue
<1>3. CASE WaitTimeout
  BY Zenon, <1>3 DEF WaitTimeout
<1>4. CASE FillBatch
  BY Zenon, <1>4, TakeJobType DEF FillBatch
<1>5. CASE FillEnd
  BY <1>5 DEF FillEnd, BeginDispatch, SinkIds
<1>6. CASE DrainTake
  <2>1. queue' \in Seq(Job) /\ batch' \in Seq(Job) /\ batchMax' \in [Sources -> Nat]
    BY Zenon, <1>6, TakeJobType DEF DrainTake
  <2>2. wpc' \in WorkerPc /\ sink' \in SinkIds /\ elapsed' \in 0..Ceiling /\ backoff' \in Nat \ {0}
    BY <1>6 DEF DrainTake, BeginDispatch, SinkIds
  <2>3. QED
    BY Zenon, <1>6, <2>1, <2>2 DEF DrainTake
<1>7. CASE DrainFlush
  BY <1>7 DEF DrainFlush, BeginDispatch, SinkIds
<1>8. CASE DrainEnd
  BY Zenon, <1>8 DEF DrainEnd
<1>9. ASSUME NextSink
      PROVE  wpc = "dispatch" =>
             wpc' \in WorkerPc /\ sink' \in SinkIds /\ elapsed' \in 0..Ceiling /\ backoff' \in Nat \ {0}
  BY <1>9 DEF NextSink, SinkIds
<1>10. CASE SinkReturns
  <2>1. applied' \in [SinkIds -> SUBSET (Sources \X Nat)]
    BY Zenon, <1>10, EventsType, WriteType DEF SinkReturns
  <2>2. QED
    BY Zenon, <1>9, <1>10, <2>1 DEF SinkReturns
<1>11. CASE SkipBestEffort
  BY Zenon, <1>9, <1>11, SinkThrowsType DEF SkipBestEffort, SinkThrows
<1>12. CASE RetryRequired
  <2>1. elapsed' \in 0..Ceiling /\ backoff' \in Nat \ {0}
    BY <1>12 DEF RetryRequired, SleepFor, Smaller
  <2>2. QED
    BY Zenon, <1>12, <2>1, SinkThrowsType DEF RetryRequired
<1>13. CASE GiveUp
  BY Zenon, <1>13, SinkThrowsType DEF GiveUp
<1>14. ASSUME NEW s \in Sources, NotifyConfirmed(s) PROVE DispatcherTypeOK'
  BY Zenon, <1>14, EmptySeq DEF NotifyConfirmed, set_confirmed_lsn
<1>15. QED
  BY Zenon, <1>1, <1>2, <1>3, <1>4, <1>5, <1>6, <1>7, <1>8, <1>10, <1>11, <1>12, <1>13, <1>14
     DEF Worker

LEMMA NextType == TypeOK /\ [Next]_vars => TypeOK'
<1> SUFFICES ASSUME TypeOK, [Next]_vars PROVE TypeOK'
  BY Zenon
<1>0. \A s \in Sources : Len(wal[s]) \in Nat
  BY Zenon, StreamType
<1> USE DispatcherAssumption, PipelineAssumption DEF TypeOK
<1>1. CASE Start
  <2>1. PICK first \in [Sources -> UNION {1..(Len(wal[s]) + 1) : s \in Sources}] :
          (\A s \in Sources : ResumesAt(wal[s], slot[s], first[s])) /\ next' = first
    BY Zenon, <1>1 DEF Start, Connect, StartStreaming, RegisterEventLoop
  <2>2. \A s \in Sources : first[s] \in Nat \ {0} /\ first[s] <= Len(wal[s]) + 1
    BY Zenon, <1>0, <2>1, ResumeType
  <2>3. next' \in [Sources -> Nat \ {0}]
    BY <2>1, <2>2, Zenon
  <2>4. DispatcherTypeOK'
    <3>1. confirmed' \in [Sources -> Nat]
      BY <1>1 DEF Start, Connect, StartStreaming, RegisterEventLoop
    <3>2. QED
      BY Zenon, <1>1, <3>1 DEF Start, Connect, StartStreaming, RegisterEventLoop, DispatcherTypeOK, workerVars
  <2>5. QED
    BY Zenon, <1>0, <1>1, <2>1, <2>2, <2>3, <2>4 DEF Start, Connect, StartStreaming, RegisterEventLoop, Phase
<1>2. ASSUME NEW s \in Sources, ReadMessage(s) PROVE TypeOK'
  <2>1. next[s] \in 1..Len(wal[s])
    BY <1>0, <1>2 DEF ReadMessage
  <2>2. wal[s][next[s]] \in Message
    BY <2>1, StreamType
  <2>3. [src |-> s, pos |-> next[s], lsn |-> wal[s][next[s]].lsn] \in Job
    BY Zenon, <2>2 DEF Job, Message
  <2>4. DispatcherTypeOK'
    <3>1. CASE wal[s][next[s]].ok
      <4>1. queue' \in Seq(Job)
        <5>1. queue' = Append(queue, [src |-> s, pos |-> next[s], lsn |-> wal[s][next[s]].lsn])
          BY Zenon, <1>2, <3>1 DEF ReadMessage, post_job
        <5>2. queue \in Seq(Job)
          BY Zenon DEF DispatcherTypeOK
        <5>3. QED
          BY Zenon, <5>1, <5>2, <2>3, AppendProperties
      <4>2. QED
        BY Zenon, <1>2, <3>1, <4>1 DEF ReadMessage, post_job, DispatcherTypeOK, workerVars
    <3>2. CASE ~wal[s][next[s]].ok
      BY Zenon, <1>2, <3>2 DEF ReadMessage, DispatcherTypeOK, dispatcherVars, workerVars
    <3>3. QED
      BY Zenon, <3>1, <3>2
  <2>5. QED
    BY <1>0, <1>2, <2>1, <2>4 DEF ReadMessage
<1>3. ASSUME NEW s \in Sources, PingUpdate(s) PROVE TypeOK'
  BY Zenon, <1>3 DEF PingUpdate, SlotConfirmed, Larger, workerVars, dispatcherVars, DispatcherTypeOK
<1>4. ASSUME NEW s \in Sources, StreamEnd(s) PROVE TypeOK'
  BY SMTT(60), <1>4 DEF StreamEnd, Fault, workerVars, dispatcherVars, DispatcherTypeOK
<1>5. CASE WorkerStep
  BY Zenon, <1>5, WorkerType DEF WorkerStep, pipelineVars
<1>6. CASE ShutdownSignal
  BY SMTT(60), <1>6 DEF ShutdownSignal, Fault, BreakLoop, dispatcherVars, workerVars, Phase, DispatcherTypeOK
<1>7. CASE TerminatePoll
  BY Zenon, <1>7 DEF TerminatePoll, BreakLoop, dispatcherVars, workerVars, Phase, DispatcherTypeOK
<1>8. CASE ResetDispatcher
  BY Zenon, <1>8 DEF ResetDispatcher, StopWorker, workerVars, Phase, DispatcherTypeOK
<1>9. CASE Joined
  BY Zenon, <1>9 DEF Joined, dispatcherVars, workerVars, Phase, DispatcherTypeOK
<1>10. ASSUME NEW s \in Sources, FlushConfirmed(s) PROVE TypeOK'
  BY Zenon, <1>10 DEF FlushConfirmed, SlotConfirmed, Larger, dispatcherVars, workerVars, DispatcherTypeOK
<1>11. ASSUME ProcessEnds, faults' \in 0..MaxFaults PROVE TypeOK'
  <2>1. DispatcherTypeOK'
    <3>1. queue' \in Seq(Job) /\ batch' \in Seq(Job)
      BY Zenon, <1>11, EmptySeq DEF ProcessEnds, DispatcherDiscarded
    <3>2. batchMax' \in [Sources -> Nat] /\ confirmed' \in [Sources -> Nat]
      BY Zenon, <1>11 DEF ProcessEnds, DispatcherDiscarded, NoLsn
    <3>3. applied' \in [SinkIds -> SUBSET (Sources \X Nat)] /\ sinkUp' \in [SinkIds -> BOOLEAN]
      BY Zenon, <1>11 DEF ProcessEnds, DispatcherTypeOK
    <3>4. sink' \in SinkIds /\ elapsed' \in 0..Ceiling /\ backoff' \in Nat \ {0}
      BY <1>11 DEF ProcessEnds, DispatcherDiscarded, SinkIds
    <3>5. wpc' \in WorkerPc /\ running' \in BOOLEAN /\ fatal' \in BOOLEAN
      BY Zenon, <1>11 DEF ProcessEnds, DispatcherDiscarded, WorkerPc
    <3>6. QED
      BY Zenon, <3>1, <3>2, <3>3, <3>4, <3>5 DEF DispatcherTypeOK
  <2>2. QED
    BY <1>0, <1>11, <2>1 DEF ProcessEnds, Phase
<1>12. CASE Exit
  BY Zenon, <1>11, <1>12 DEF Exit
<1>13. CASE Crash
  BY SMTT(60), <1>11, <1>13 DEF Crash, Fault
<1>14. ASSUME NEW k \in SinkIds, SinkOutage(k) PROVE TypeOK'
  <2>1. DispatcherTypeOK'
    BY Zenon, <1>14 DEF SinkOutage, SetSinkUp, workerVars, DispatcherTypeOK
  <2>2. QED
    BY SMTT(60), <1>14, <2>1 DEF SinkOutage, Fault
<1>15. ASSUME NEW k \in SinkIds, SinkRecovery(k) PROVE TypeOK'
  BY Zenon, <1>15 DEF SinkRecovery, SetSinkUp, workerVars, pipelineVars, DispatcherTypeOK
<1>16. CASE UNCHANGED vars
  BY Zenon, <1>16 DEF vars, dispatcherVars, pipelineVars, workerVars, DispatcherTypeOK
<1>17. QED
  BY Zenon, <1>1, <1>2, <1>3, <1>4, <1>5, <1>6, <1>7, <1>8, <1>9, <1>10, <1>12, <1>13, <1>14,
     <1>15, <1>16 DEF Next, Shutdown

\* Every state of the live path is of its type; in particular the backoff of
\* dispatch_with_retry never sleeps past the retry ceiling.
THEOREM TypeCorrect == Spec => []TypeOK
BY InitType, NextType, PTL DEF Spec

\* No sink loses what it has written.
Grows == \A k \in SinkIds : applied[k] \subseteq applied'[k]
------------------------------------------------------------------------------
(* Facts about the building blocks *)

\* An empty sequence has no positions.
LEMMA EmptyRange == \A jobs : jobs = <<>> => 1..Len(jobs) = {}
OBVIOUS

\* Queue and batch are sequences of jobs, with a length and members.
LEMMA JobsType ==
    ASSUME TypeOK
    PROVE  /\ Len(queue) \in Nat /\ Len(batch) \in Nat
           /\ \A q \in 1..Len(queue) : queue[q] \in Job
           /\ \A b \in 1..Len(batch) : batch[b] \in Job
BY ElementOfSeq, LenProperties DEF TypeOK, DispatcherTypeOK

\* Where the jobs are after the oldest one has moved into the batch.
LEMMA TakeJobFacts ==
    ASSUME TypeOK, TakeJob
    PROVE  /\ Len(queue) >= 1
           /\ Len(queue') = Len(queue) - 1
           /\ \A q \in 1..(Len(queue) - 1) : queue'[q] = queue[q + 1]
           /\ Len(batch') = Len(batch) + 1
           /\ \A b \in 1..Len(batch) : batch'[b] = batch[b]
           /\ batch'[Len(batch) + 1] = queue[1]
<1>1. queue \in Seq(Job) /\ batch \in Seq(Job) /\ queue # <<>>
  BY Zenon DEF TypeOK, DispatcherTypeOK, TakeJob
<1>2. Head(queue) = queue[1] /\ Head(queue) \in Job
  BY <1>1
<1>3. /\ Len(queue) >= 1
      /\ Len(Tail(queue)) = Len(queue) - 1
      /\ \A q \in 1..(Len(queue) - 1) : Tail(queue)[q] = queue[q + 1]
  BY <1>1
<1>4. /\ Len(Append(batch, queue[1])) = Len(batch) + 1
      /\ \A b \in 1..Len(batch) : Append(batch, queue[1])[b] = batch[b]
      /\ Append(batch, queue[1])[Len(batch) + 1] = queue[1]
  BY <1>1, <1>2, AppendProperties
<1>5. QED
  BY Zenon, <1>2, <1>3, <1>4 DEF TakeJob

\* The stream of a source never changes.
LEMMA WalConstant == [Next]_vars => wal' = wal
BY Zenon DEF Next, vars, pipelineVars, Start, ReadMessage, PingUpdate, StreamEnd, WorkerStep,
       ShutdownSignal, BreakLoop, Shutdown, TerminatePoll, ResetDispatcher, Joined, Exit,
       FlushConfirmed, Crash, ProcessEnds, SinkOutage, SinkRecovery

\* A call_batch adds to what its sink has written.
LEMMA WriteGrows ==
    ASSUME DispatcherTypeOK, NEW events, Write(events)
    PROVE  Grows
BY DEF DispatcherTypeOK, Write, Grows

\* The call_batch of a sink that reports its failures has written the first
\* n jobs of the batch, all of them if it returned.
WritesPrefix(n) ==
    /\ \A k \in SinkIds \ {sink} : applied'[k] = applied[k]
    /\ \A e \in applied'[sink] :
         e \in applied[sink] \/ \E b \in 1..n : e = Event(batch[b])
    /\ \A b \in 1..n : Event(batch[b]) \in applied'[sink]

LEMMA ReturnsWrites ==
    ASSUME TypeOK, SinkReturns, sink \notin Lossy
    PROVE  WritesPrefix(Len(batch))
<1>1. applied' = [applied EXCEPT ![sink] = @ \cup Events(batch)]
  BY Zenon DEF SinkReturns, Write
<1>2. Events(batch) = {Event(batch[b]) : b \in 1..Len(batch)}
  BY Zenon, LenProperties DEF Events, TypeOK, DispatcherTypeOK
<1>3. QED
  BY Zenon, <1>1, <1>2 DEF WritesPrefix, TypeOK, DispatcherTypeOK

LEMMA ThrowsWrites ==
    ASSUME TypeOK, SinkThrows
    PROVE  \E n \in 0..Len(batch) : WritesPrefix(n)
<1>1. PICK n \in 0..Len(batch) : Write(Events(SubSeq(batch, 1, n)))
  BY Zenon DEF SinkThrows
<1>2. batch \in Seq(Job) /\ Len(batch) \in Nat
  BY Zenon, JobsType DEF TypeOK, DispatcherTypeOK
<1>3. /\ DOMAIN SubSeq(batch, 1, n) = 1..n
      /\ \A b \in 1..n : SubSeq(batch, 1, n)[b] = batch[b]
  BY <1>2
<1>4. Events(SubSeq(batch, 1, n)) = {Event(batch[b]) : b \in 1..n}
  BY Zenon, <1>3 DEF Events
<1>5. applied' = [applied EXCEPT ![sink] = @ \cup {Event(batch[b]) : b \in 1..n}]
  BY Zenon, <1>1, <1>4 DEF Write
<1>6. WritesPrefix(n)
  BY Zenon, <1>5 DEF WritesPrefix, TypeOK, DispatcherTypeOK
<1>7. QED
  BY Zenon, <1>6
------------------------------------------------------------------------------
(* What one kind of step does to one conjunct of the invariant *)

\* Steps that leave the jobs alone leave their order alone.
LEMMA SameJobs ==
    ASSUME JobsInOrder, UNCHANGED <<queue, batch, next, wal>>
    PROVE  JobsInOrder'
BY ZenonT(60) DEF JobsInOrder, IsRead, Ordered

\* What is accounted for stays so while sinks only add.
LEMMA SameDropped ==
    ASSUME DispatcherAssumption, NothingDropped, Grows, UNCHANGED <<queue, batch, next, wal>>
    PROVE  NothingDropped'
<1>1. \A s, i : WrittenEverywhere(s, i) => WrittenEverywhere(s, i)'
  BY Zenon DEF WrittenEverywhere, Grows, Trusted
<1>2. \A s, i : (InBatch(s, i) => InBatch(s, i)') /\ (InQueue(s, i) => InQueue(s, i)')
  BY Zenon DEF InBatch, InQueue
<1>3. QED
  BY Zenon, <1>1, <1>2 DEF NothingDropped

\* Nothing to confirm changed.
LEMMA SameConfirm ==
    ASSUME DispatcherAssumption, ConfirmSafe, Grows, UNCHANGED <<wal, slot, confirmed>>
    PROVE  ConfirmSafe'
BY SMTT(60) DEF ConfirmSafe, Safe, WrittenEverywhere, Grows, Trusted

\* TakeJob moves a job from the front of the queue to the end of the batch:
\* the order of the two together is the same.
LEMMA TakeInOrder ==
    ASSUME TypeOK, JobsInOrder, TakeJob, UNCHANGED <<next, wal>>
    PROVE  JobsInOrder'
<1> USE TakeJobFacts, JobsType
<1>1. \A q \in 1..Len(queue') : q + 1 \in 1..Len(queue) /\ queue'[q] = queue[q + 1]
  BY SMTT(60)
<1>2. \A b \in 1..Len(batch') :
        \/ b \in 1..Len(batch) /\ batch'[b] = batch[b]
        \/ b = Len(batch) + 1 /\ batch'[b] = queue[1]
  BY SMTT(60)
<1>3. 1 \in 1..Len(queue)
  BY SMTT(60)
<1>4. (\A q \in 1..Len(queue) : IsRead(queue[q]))'
  <2>1. SUFFICES ASSUME NEW q \in 1..Len(queue') PROVE IsRead(queue[q])'
    BY Zenon
  <2>2. q + 1 \in 1..Len(queue) /\ queue'[q] = queue[q + 1]
    BY Zenon, <1>1, <2>1
  <2>3. IsRead(queue[q + 1])
    BY Zenon, <2>2 DEF JobsInOrder
  <2>4. QED
    BY Zenon, <2>2, <2>3 DEF IsRead
<1>5. (\A b \in 1..Len(batch) : IsRead(batch[b]))'
  <2>1. SUFFICES ASSUME NEW b \in 1..Len(batch') PROVE IsRead(batch[b])'
    BY Zenon
  <2>2. CASE b \in 1..Len(batch) /\ batch'[b] = batch[b]
    BY ZenonT(60), <2>2 DEF JobsInOrder, IsRead
  <2>3. CASE batch'[b] = queue[1]
    BY Zenon, <1>3, <2>3 DEF JobsInOrder, IsRead
  <2>4. QED
    BY Zenon, <1>2, <2>2, <2>3
<1>6. Ordered(queue)'
  <2>1. SUFFICES ASSUME NEW a \in 1..Len(queue'), NEW b \in 1..Len(queue'),
                        a < b, queue'[a].src = queue'[b].src
                 PROVE  queue'[a].pos < queue'[b].pos
    BY Zenon DEF Ordered
  <2>2. a + 1 < b + 1
    BY SMTT(60), <2>1
  <2>3. QED
    <3>1. /\ a + 1 \in 1..Len(queue) /\ queue'[a] = queue[a + 1]
          /\ b + 1 \in 1..Len(queue) /\ queue'[b] = queue[b + 1]
      BY Zenon, <1>1
    <3>2. Ordered(queue)
      BY Zenon DEF JobsInOrder
    <3>3. QED
      BY ZenonT(60), <2>1, <2>2, <3>1, <3>2 DEF Ordered
<1>7. Ordered(batch)'
  <2>1. SUFFICES ASSUME NEW a \in 1..Len(batch'), NEW b \in 1..Len(batch'),
                        a < b, batch'[a].src = batch'[b].src
                 PROVE  batch'[a].pos < batch'[b].pos
    BY Zenon DEF Ordered
  <2>2. a \in 1..Len(batch) /\ batch'[a] = batch[a]
    BY SMTT(60), <1>2, <2>1
  <2>3. CASE b \in 1..Len(batch) /\ batch'[b] = batch[b]
    BY Zenon, <2>1, <2>2, <2>3 DEF JobsInOrder, Ordered
  <2>4. CASE batch'[b] = queue[1]
    BY Zenon, <1>3, <2>1, <2>2, <2>4 DEF JobsInOrder
  <2>5. QED
    BY Zenon, <1>2, <2>3, <2>4
<1>8. \A b \in 1..Len(batch'), q \in 1..Len(queue') :
        batch'[b].src = queue'[q].src => batch'[b].pos < queue'[q].pos
  <2>1. TAKE b \in 1..Len(batch'), q \in 1..Len(queue')
  <2>2. CASE b \in 1..Len(batch) /\ batch'[b] = batch[b]
    BY ZenonT(60), <1>1, <2>2 DEF JobsInOrder
  <2>3. CASE batch'[b] = queue[1]
    <3>1. /\ q + 1 \in 1..Len(queue) /\ queue'[q] = queue[q + 1] /\ 1 < q + 1
          /\ 1 \in 1..Len(queue)
      BY SMTT(60), <1>1, <1>3
    <3>2. Ordered(queue)
      BY Zenon DEF JobsInOrder
    <3>3. QED
      BY ZenonT(60), <2>3, <3>1, <3>2 DEF Ordered
  <2>4. QED
    BY Zenon, <1>2, <2>2, <2>3
<1>9. QED
  BY Zenon, <1>4, <1>5, <1>6, <1>7, <1>8 DEF JobsInOrder

\* ... and every job is still in one of them.
LEMMA TakeDropsNothing ==
    ASSUME TypeOK, NothingDropped, TakeJob, UNCHANGED <<next, wal, applied>>
    PROVE  NothingDropped'
<1> USE TakeJobFacts, JobsType
<1>1. \A s, i : InBatch(s, i) => InBatch(s, i)'
  BY SMTT(60) DEF InBatch
<1>2. \A s, i : InQueue(s, i) => InBatch(s, i)' \/ InQueue(s, i)'
  <2>1. SUFFICES ASSUME NEW s, NEW i, InQueue(s, i) PROVE InBatch(s, i)' \/ InQueue(s, i)'
    BY Zenon
  <2>2. PICK q \in 1..Len(queue) : queue[q].src = s /\ queue[q].pos = i
    BY Zenon, <2>1 DEF InQueue
  <2>3. CASE q = 1
    BY SMTT(60), <2>2, <2>3 DEF InBatch
  <2>4. CASE q > 1
    <3>1. q - 1 \in 1..Len(queue') /\ queue'[q - 1] = queue[q]
      BY SMTT(60), <2>4
    <3>2. QED
      BY Zenon, <2>2, <3>1 DEF InQueue
  <2>5. QED
    BY SMTT(60), <2>3, <2>4
<1>3. \A s, i : WrittenEverywhere(s, i)' <=> WrittenEverywhere(s, i)
  BY Zenon DEF WrittenEverywhere
<1>4. QED
  BY Zenon, <1>1, <1>2, <1>3 DEF NothingDropped

\* The map follows the batch.
LEMMA TakeReports ==
    ASSUME TypeOK, ReportsBatch, TakeJob
    PROVE  ReportsBatch'
<1>0. queue \in Seq(Job) /\ queue # <<>>
  BY Zenon DEF TypeOK, DispatcherTypeOK, TakeJob
<1>1. queue[1] \in Job /\ Head(queue) = queue[1]
  BY SMTT(60), <1>0
<1> USE TakeJobFacts, JobsType
<1>2. SUFFICES ASSUME NEW s \in Sources, batchMax'[s] # 0
               PROVE  \E b \in 1..Len(batch') : batch'[b].src = s /\ batch'[b].lsn = batchMax'[s]
  BY Zenon DEF ReportsBatch
<1>3. CASE s = queue[1].src /\ batchMax'[s] = queue[1].lsn
  BY SMTT(60), <1>3
<1>4. CASE batchMax'[s] = batchMax[s]
  <2>1. PICK b \in 1..Len(batch) : batch[b].src = s /\ batch[b].lsn = batchMax[s]
    BY Zenon, <1>2, <1>4 DEF ReportsBatch
  <2>2. b \in 1..Len(batch') /\ batch'[b] = batch[b]
    BY SMTT(60)
  <2>3. QED
    BY Zenon, <1>4, <2>1, <2>2
<1>5. QED
  BY Zenon, <1>1, <1>3, <1>4 DEF TakeJob, Larger, TypeOK, DispatcherTypeOK

\* What a throwing or returning call_batch of a trusted sink adds keeps what
\* it has written gap-free: an event before a batch member is written, or
\* before it in the batch, and never behind it in the queue.
LEMMA PrefixKeepsNoGaps ==
    ASSUME TypeOK, JobsInOrder, NothingDropped, NoGaps, Grows, wal' = wal,
           NEW n \in 0..Len(batch), sink \notin Lossy => WritesPrefix(n),
           \A k \in SinkIds \ {sink} : applied'[k] = applied[k]
    PROVE  NoGaps'
<1> USE JobsType, DispatcherAssumption
<1>1. SUFFICES ASSUME NEW k \in Trusted, NEW s \in Sources, NEW i \in 1..Len(wal[s]),
                      <<s, i>> \in applied'[k],
                      NEW j \in 1..(i - 1), wal[s][j].ok
               PROVE  <<s, j>> \in applied'[k]
  BY Zenon DEF NoGaps
<1>2. k \in SinkIds /\ k \notin Lossy
  BY Zenon DEF Trusted
<1>3. CASE <<s, i>> \in applied[k]
  BY Zenon, <1>1, <1>2, <1>3 DEF NoGaps, Grows
<1>4. CASE <<s, i>> \notin applied[k]
  <2>1. k = sink /\ WritesPrefix(n)
    BY Zenon, <1>1, <1>2, <1>4
  <2>2. PICK b \in 1..n : <<s, i>> = Event(batch[b])
    BY Zenon, <1>1, <1>4, <2>1 DEF WritesPrefix
  <2>3. b \in 1..Len(batch) /\ batch[b].src = s /\ batch[b].pos = i
    BY SMTT(60), <2>2 DEF Event
  <2>4. i <= next[s] - 1
    <3>1. IsRead(batch[b])
      BY Zenon, <2>3 DEF JobsInOrder
    <3>2. QED
      BY SMTT(60), <2>3, <3>1 DEF IsRead
  <2>5. WrittenEverywhere(s, j) \/ InBatch(s, j) \/ InQueue(s, j)
    <3>1. Len(wal[s]) \in Nat /\ next[s] \in Nat
      BY Zenon, StreamType DEF TypeOK
    <3>2. j \in 1..(next[s] - 1)
      BY SMTT(60), <1>1, <2>4, <3>1
    <3>3. QED
      BY Zenon, <1>1, <3>2 DEF NothingDropped
  <2>6. CASE WrittenEverywhere(s, j)
    BY Zenon, <1>2, <2>6 DEF WrittenEverywhere, Grows
  <2>7. CASE InBatch(s, j)
    <3>1. PICK c \in 1..Len(batch) : batch[c].src = s /\ batch[c].pos = j
      BY Zenon, <2>7 DEF InBatch
    <3>2. c < b
      <4>1. Ordered(batch)
        BY Zenon DEF JobsInOrder
      <4>2. b < c => i < j
        BY ZenonT(60), <2>3, <3>1, <4>1 DEF Ordered
      <4>3. b = c => i = j
        BY Zenon, <2>3, <3>1
      <4>4. j < i /\ i \in Int /\ j \in Int /\ b \in Int /\ c \in Int
        OBVIOUS
      <4>5. QED
        BY SMTT(60), <4>2, <4>3, <4>4
    <3>3. c \in 1..n /\ Event(batch[c]) = <<s, j>>
      BY SMTT(60), <3>1, <3>2 DEF Event
    <3>4. QED
      BY Zenon, <2>1, <3>3 DEF WritesPrefix
  <2>8. CASE InQueue(s, j)
    <3>1. PICK q \in 1..Len(queue) : queue[q].src = s /\ queue[q].pos = j
      BY Zenon, <2>8 DEF InQueue
    <3>2. i < j
      BY Zenon, <2>3, <3>1 DEF JobsInOrder
    <3>3. QED
      BY SMTT(60), <3>2
  <2>9. QED
    BY Zenon, <2>5, <2>6, <2>7, <2>8
<1>5. QED
  BY Zenon, <1>3, <1>4

\* The highest LSN of a batch that every trusted sink has written is safe to
\* confirm: a transaction that committed at or before it was read before it.
LEMMA BatchMaxSafe ==
    ASSUME IndInv, wpc = "confirm", NEW s \in Sources, batchMax[s] # 0
    PROVE  Safe(s, batchMax[s])
<1>0. /\ TypeOK /\ JobsInOrder /\ NothingDropped /\ SinksDone /\ ReportsBatch
      /\ IsStream(wal[s]) /\ wal[s] \in Seq(Message) /\ Len(wal[s]) \in Nat
      /\ Len(batch) \in Nat /\ Len(queue) \in Nat
  BY Zenon, JobsType, StreamType DEF IndInv
<1>1. PICK b \in 1..Len(batch) : batch[b].src = s /\ batch[b].lsn = batchMax[s]
  BY Zenon, <1>0 DEF ReportsBatch
<1>2. DEFINE j == batch[b].pos
<1>3. j \in 1..(next[s] - 1) /\ batchMax[s] = wal[s][j].lsn
  BY Zenon, <1>0, <1>1 DEF JobsInOrder, IsRead
<1>4. next[s] \in Nat /\ next[s] <= Len(wal[s]) + 1
  BY Zenon, <1>0 DEF TypeOK
<1>5. SUFFICES ASSUME NEW k \in 1..Len(wal[s]),
                      wal[s][k].op = "commit", wal[s][k].lsn <= batchMax[s],
                      NEW i \in 1..k, wal[s][i].ok
               PROVE  WrittenEverywhere(s, i)
  BY Zenon DEF Safe
<1>6. k <= j
  <2>1. j \in 1..Len(wal[s])
    BY SMTT(60), <1>0, <1>3, <1>4
  <2>2. wal[s][k] \in Message /\ wal[s][j] \in Message
    BY Zenon, <1>0, <2>1, ElementOfSeq
  <2>3. wal[s][k].lsn \in Nat /\ wal[s][j].lsn \in Nat
    BY Zenon, <2>2 DEF Message
  <2>4. \A m, n \in 1..Len(wal[s]) :
          m < n /\ wal[s][n].op = "commit" => wal[s][m].lsn < wal[s][n].lsn
    BY Zenon, <1>0 DEF IsStream
  <2>5. j < k => wal[s][j].lsn < wal[s][k].lsn
    BY Zenon, <1>5, <2>1, <2>4
  <2>6. QED
    <3>1. ~(j < k)
      <4>1. wal[s][k].lsn <= wal[s][j].lsn
        BY Zenon, <1>3, <1>5
      <4>2. QED
        BY SMTT(60), <2>3, <2>5, <4>1
    <3>2. j \in Nat /\ k \in Nat
      BY SMTT(60), <1>5, <2>1
    <3>3. QED
      BY SMTT(60), <3>1, <3>2
<1>7. WrittenEverywhere(s, i) \/ InBatch(s, i) \/ InQueue(s, i)
  <2>1. i \in 1..(next[s] - 1)
    BY SMTT(60), <1>3, <1>4, <1>5, <1>6
  <2>2. QED
    BY Zenon, <1>0, <1>5, <2>1 DEF NothingDropped
<1>8. CASE InBatch(s, i)
  BY Zenon, <1>0, <1>8 DEF InBatch, SinksDone, BatchWritten, WrittenEverywhere
<1>9. ~InQueue(s, i)
  <2>1. SUFFICES ASSUME NEW q \in 1..Len(queue), queue[q].src = s, queue[q].pos = i
                 PROVE  FALSE
    BY Zenon DEF InQueue
  <2>2. j < i
    BY Zenon, <1>0, <1>1, <2>1 DEF JobsInOrder
  <2>3. j \in Int /\ i <= k /\ i \in Int /\ k \in Int
    BY SMTT(60), <1>3, <1>5
  <2>4. QED
    BY SMTT(60), <1>6, <2>2, <2>3
<1>10. QED
  BY Zenon, <1>7, <1>8, <1>9
------------------------------------------------------------------------------
(* The inductive step *)

\* A step that moves no job and no reading position has only to answer for
\* what sinks hold, what is confirmed and where the threads are.
LEMMA JobsStay ==
    ASSUME IndInv, TypeOK', UNCHANGED <<queue, batch, batchMax, next, wal>>, Grows,
           SinksDone', Lifecycle', ConfirmSafe', NoGaps'
    PROVE  IndInv'
<1>1. JobsInOrder'
  BY Zenon, SameJobs DEF IndInv
<1>2. NothingDropped'
  BY Zenon, SameDropped, DispatcherAssumption DEF IndInv
<1>3. ReportsBatch'
  BY Zenon DEF IndInv, ReportsBatch
<1>4. QED
  BY Zenon, <1>1, <1>2, <1>3 DEF IndInv

\* A step that writes and confirms nothing keeps what is safe to confirm.
LEMMA SafetyStays ==
    ASSUME ConfirmSafe, NoGaps, UNCHANGED <<wal, applied, slot, confirmed>>
    PROVE  ConfirmSafe' /\ NoGaps' /\ Grows
BY SMTT(60) DEF ConfirmSafe, Safe, WrittenEverywhere, NoGaps, Grows

\* A step that moves the oldest job into the batch, before any sink is called.
LEMMA JobTaken ==
    ASSUME IndInv, TypeOK', TakeJob, phase # "down", wpc \in {"wait", "fill", "drain"},
           UNCHANGED <<running, fatal, applied, confirmed, wal, slot, next, phase>>,
           \/ wpc' = "fill"
           \/ wpc' = "drain" /\ wpc = "drain"
           \/ wpc' = "dispatch" /\ sink' = 1
    PROVE  IndInv'
<1>1. JobsInOrder'
  BY Zenon, TakeInOrder DEF IndInv
<1>2. NothingDropped'
  BY Zenon, TakeDropsNothing DEF IndInv
<1>3. ReportsBatch'
  BY Zenon, TakeReports DEF IndInv
<1>4. SinksDone'
  BY SMTT(60), DispatcherAssumption DEF SinksDone, Trusted, SinkIds
<1>5. Lifecycle'
  BY Zenon DEF IndInv, Lifecycle
<1>6. ConfirmSafe' /\ NoGaps'
  BY Zenon, SafetyStays DEF IndInv
<1>7. QED
  BY Zenon, <1>1, <1>2, <1>3, <1>4, <1>5, <1>6 DEF IndInv

\* A step of the worker thread that calls no sink and takes no job.
LEMMA WorkerMoves ==
    ASSUME IndInv, TypeOK', phase # "down",
           UNCHANGED <<queue, batch, batchMax, running, fatal, applied, confirmed, pipelineVars>>,
           wpc \in {"top", "wait", "fill", "drain"},
           \/ wpc' \in {"top", "wait"}
           \/ wpc' = "drain" /\ ~running
           \/ wpc' = "dispatch" /\ sink' = 1
           \/ wpc' = "done" /\ wpc = "drain" /\ queue = <<>> /\ batch = <<>>
    PROVE  IndInv'
<1>1. SinksDone'
  BY SMTT(60), DispatcherAssumption DEF SinksDone, Trusted, SinkIds
<1>2. Lifecycle'
  BY Zenon DEF IndInv, Lifecycle, pipelineVars
<1>3. QED
  BY Zenon, <1>1, <1>2, JobsStay, SafetyStays DEF IndInv, pipelineVars

\* A call_batch, however it ends: the sink has added to what it had, in order,
\* and the thread retries it, goes on only if it had nothing to vouch for or
\* wrote all, or gives up.
LEMMA SinkCalled ==
    ASSUME IndInv, TypeOK', wpc = "dispatch", phase # "down",
           UNCHANGED <<queue, batch, batchMax, running, confirmed, pipelineVars>>,
           Grows, \A k \in SinkIds \ {sink} : applied'[k] = applied[k],
           NEW n \in 0..Len(batch), sink \notin Lossy => WritesPrefix(n),
           \/ wpc' = "dispatch" /\ sink' = sink /\ fatal' = fatal
           \/ wpc' = "done" /\ fatal' = TRUE
           \/ /\ fatal' = fatal
              /\ sink \in Trusted => n = Len(batch)
              /\ \/ sink = NSinks /\ wpc' = "confirm"
                 \/ sink' = sink + 1 /\ wpc' = "dispatch"
    PROVE  IndInv'
<1>1. NoGaps'
  BY Zenon, PrefixKeepsNoGaps DEF IndInv, pipelineVars
<1>2. ConfirmSafe'
  BY Zenon, SameConfirm, DispatcherAssumption DEF IndInv, pipelineVars
<1>3. Lifecycle'
  BY SMTT(60) DEF IndInv, Lifecycle, pipelineVars
<1>4. SinksDone'
  <2>1. SUFFICES ASSUME NEW k \in Trusted, (wpc' = "dispatch" /\ k < sink') \/ wpc' = "confirm"
                 PROVE  BatchWritten(k)'
    BY Zenon DEF SinksDone
  <2>2. k \in SinkIds /\ k \notin Lossy /\ sink \in SinkIds
    BY Zenon, DispatcherAssumption DEF Trusted, IndInv, TypeOK, DispatcherTypeOK
  <2>3. CASE k < sink
    BY Zenon, <2>2, <2>3 DEF IndInv, SinksDone, BatchWritten, Grows
  <2>4. CASE ~(k < sink)
    <3>1. k = sink /\ n = Len(batch) /\ WritesPrefix(Len(batch))
      BY SMTT(60), <2>1, <2>2, <2>4, DispatcherAssumption DEF SinkIds
    <3>2. QED
      BY Zenon, <3>1 DEF BatchWritten, WritesPrefix, Event
  <2>5. QED
    BY Zenon, <2>3, <2>4
<1>5. QED
  BY Zenon, <1>1, <1>2, <1>3, <1>4, JobsStay DEF pipelineVars

\* One on_confirmed_ call of notify_confirmed.
LEMMA NotifyConfirmedInd ==
    ASSUME IndInv, TypeOK', phase # "down", UNCHANGED pipelineVars,
           NEW s \in Sources, NotifyConfirmed(s)
    PROVE  IndInv'
<1>0. UNCHANGED <<wal, slot, next, phase, queue, running, fatal, applied>> /\ Grows
  BY Zenon DEF NotifyConfirmed, pipelineVars, Grows
<1>1. \/ UNCHANGED <<wpc, batch>>
      \/ wpc' = "top" /\ batch' = <<>> /\ batchMax' = NoLsn
  BY Zenon DEF NotifyConfirmed
<1>2. ConfirmSafe'
  <2>1. Safe(s, batchMax[s])
    BY Zenon, BatchMaxSafe DEF NotifyConfirmed
  <2>2. \A t \in Sources : Safe(t, slot'[t]) /\ Safe(t, confirmed'[t])
    BY Zenon, <1>0, <2>1 DEF NotifyConfirmed, set_confirmed_lsn, IndInv, ConfirmSafe, TypeOK, DispatcherTypeOK
  <2>3. QED
    BY Zenon, <1>0, <2>2 DEF ConfirmSafe, Safe, WrittenEverywhere
<1>3. NoGaps'
  BY Zenon, <1>0 DEF IndInv, NoGaps
<1>4. Lifecycle'
  BY SMTT(60), <1>0, <1>1 DEF IndInv, Lifecycle, NotifyConfirmed
<1>5. ReportsBatch'
  <2>1. \A t \in Sources : batchMax'[t] # 0 => batch' = batch /\ batchMax'[t] = batchMax[t]
    BY Zenon, <1>1 DEF NotifyConfirmed, NoLsn, IndInv, TypeOK, DispatcherTypeOK
  <2>2. QED
    <3>1. SUFFICES ASSUME NEW t \in Sources, batchMax'[t] # 0
                   PROVE  \E b \in 1..Len(batch') :
                             batch'[b].src = t /\ batch'[b].lsn = batchMax'[t]
      BY Zenon DEF ReportsBatch
    <3>2. batch' = batch /\ batchMax'[t] = batchMax[t]
      BY Zenon, <2>1, <3>1
    <3>3. PICK b \in 1..Len(batch) : batch[b].src = t /\ batch[b].lsn = batchMax[t]
      BY Zenon, <3>1, <3>2 DEF IndInv, ReportsBatch
    <3>4. QED
      BY Zenon, <3>2, <3>3
<1>6. CASE UNCHANGED <<wpc, batch>>
  <2>1. JobsInOrder'
    BY Zenon, <1>0, <1>6, SameJobs DEF IndInv
  <2>2. NothingDropped'
    BY Zenon, <1>0, <1>6, SameDropped, DispatcherAssumption DEF IndInv
  <2>3. SinksDone'
    BY Zenon, <1>0, <1>6 DEF IndInv, SinksDone, BatchWritten, NotifyConfirmed
  <2>4. QED
    BY Zenon, <1>2, <1>3, <1>4, <1>5, <2>1, <2>2, <2>3 DEF IndInv
<1>7. CASE wpc' = "top" /\ batch' = <<>>
  <2>1. 1..Len(batch') = {}
    BY Zenon, <1>7, EmptyRange
  <2>2. JobsInOrder'
    BY Zenon, <1>0, <2>1 DEF IndInv, JobsInOrder, IsRead, Ordered
  <2>3. \A t, i : InBatch(t, i) => WrittenEverywhere(t, i)
    BY Zenon DEF InBatch, WrittenEverywhere, IndInv, SinksDone, BatchWritten, NotifyConfirmed
  <2>4. \A t, i : /\ WrittenEverywhere(t, i) => WrittenEverywhere(t, i)'
                  /\ InQueue(t, i) => InQueue(t, i)'
    BY Zenon, <1>0 DEF WrittenEverywhere, InQueue
  <2>5. NothingDropped'
    BY Zenon, <1>0, <2>3, <2>4 DEF IndInv, NothingDropped
  <2>6. SinksDone'
    BY Zenon, <1>7 DEF SinksDone
  <2>7. QED
    BY Zenon, <1>2, <1>3, <1>4, <1>5, <2>2, <2>5, <2>6 DEF IndInv
<1>8. QED
  BY Zenon, <1>1, <1>6, <1>7

\* Every step of the worker thread.
LEMMA WorkerInd ==
    ASSUME IndInv, TypeOK', WorkerStep
    PROVE  IndInv'
<1> USE DEF WorkerStep, workerVars
<1>0. TypeOK /\ DispatcherTypeOK /\ sink \in SinkIds
  BY Zenon DEF IndInv, TypeOK, DispatcherTypeOK
<1>1. CASE LoopTop
  BY Zenon, <1>0, <1>1, WorkerMoves DEF LoopTop, DispatcherTypeOK
<1>2. CASE WaitDequeue
  BY Zenon, <1>2, JobTaken DEF WaitDequeue, pipelineVars
<1>3. CASE WaitTimeout
  BY Zenon, <1>3, WorkerMoves DEF WaitTimeout
<1>4. CASE FillBatch
  BY Zenon, <1>4, JobTaken DEF FillBatch, pipelineVars
<1>5. CASE FillEnd
  BY Zenon, <1>5, WorkerMoves DEF FillEnd, BeginDispatch
<1>6. CASE DrainTake
  BY Zenon, <1>6, JobTaken DEF DrainTake, BeginDispatch, pipelineVars
<1>7. CASE DrainFlush
  BY Zenon, <1>7, WorkerMoves DEF DrainFlush, BeginDispatch
<1>8. CASE DrainEnd
  BY Zenon, <1>8, WorkerMoves DEF DrainEnd
<1>9. ASSUME SinkThrows
      PROVE  /\ wpc = "dispatch"
             /\ Grows
             /\ \A k \in SinkIds \ {sink} : applied'[k] = applied[k]
             /\ \E n \in 0..Len(batch) : WritesPrefix(n)
  BY Zenon, <1>0, <1>9, WriteGrows, ThrowsWrites DEF SinkThrows, WritesPrefix
<1>10. CASE SinkReturns
  <2>1. Grows
    BY Zenon, <1>0, <1>10, WriteGrows DEF SinkReturns
  <2>2. \A k \in SinkIds \ {sink} : applied'[k] = applied[k]
    BY Zenon, <1>0, <1>10 DEF SinkReturns, Write, DispatcherTypeOK
  <2>3. sink \notin Lossy => WritesPrefix(Len(batch))
    BY Zenon, <1>0, <1>10, ReturnsWrites
  <2>4. Len(batch) \in 0..Len(batch)
    BY <1>0, JobsType
  <2>5. QED
    BY Zenon, <1>10, <2>1, <2>2, <2>3, <2>4, SinkCalled DEF SinkReturns, NextSink
<1>11. CASE SkipBestEffort
  <2>1. PICK n \in 0..Len(batch) : WritesPrefix(n)
    BY Zenon, <1>9, <1>11 DEF SkipBestEffort
  <2>2. sink \notin Trusted
    BY Zenon, <1>11 DEF SkipBestEffort, Trusted
  <2>3. QED
    BY Zenon, <1>9, <1>11, <2>1, <2>2, SinkCalled DEF SkipBestEffort, NextSink
<1>12. CASE RetryRequired
  <2>1. PICK n \in 0..Len(batch) : WritesPrefix(n)
    BY Zenon, <1>9, <1>12 DEF RetryRequired
  <2>2. QED
    BY Zenon, <1>9, <1>12, <2>1, SinkCalled DEF RetryRequired
<1>13. CASE GiveUp
  <2>1. PICK n \in 0..Len(batch) : WritesPrefix(n)
    BY Zenon, <1>9, <1>13 DEF GiveUp
  <2>2. QED
    BY Zenon, <1>9, <1>13, <2>1, SinkCalled DEF GiveUp
<1>14. ASSUME NEW s \in Sources, NotifyConfirmed(s) PROVE IndInv'
  BY Zenon, <1>14, NotifyConfirmedInd
<1>15. QED
  BY Zenon, <1>1, <1>2, <1>3, <1>4, <1>5, <1>6, <1>7, <1>8, <1>10, <1>11, <1>12, <1>13, <1>14
     DEF Worker

\* No transaction committed at position 0.
LEMMA ZeroSafe ==
    ASSUME TypeOK, NEW s \in Sources
    PROVE  Safe(s, 0)
<1>1. \A k \in 1..Len(wal[s]) : wal[s][k] \in Message
  BY Zenon, StreamType, ElementOfSeq
<1>2. \A k \in 1..Len(wal[s]) : ~(wal[s][k].lsn <= 0)
  BY <1>1 DEF Message
<1>3. QED
  BY Zenon, <1>2 DEF Safe

\* A process that starts resends nothing it need not and misses nothing: what
\* lies before a source's first message was written before it was confirmed.
LEMMA StartInd ==
    ASSUME IndInv, TypeOK', Start
    PROVE  IndInv'
<1>0. UNCHANGED <<queue, running, wpc, batch, batchMax, sink, fatal, applied, wal, slot>>
  BY Zenon DEF Start, workerVars
<1>1. 1..Len(queue) = {} /\ 1..Len(batch) = {} /\ batchMax = NoLsn /\ wpc = "top"
  BY Zenon, EmptyRange DEF IndInv, Lifecycle, Start
<1>2. JobsInOrder'
  BY Zenon, <1>0, <1>1 DEF JobsInOrder, Ordered
<1>3. NothingDropped'
  <2>1. SUFFICES ASSUME NEW s \in Sources, NEW i \in 1..(next'[s] - 1), wal[s][i].ok
                 PROVE  WrittenEverywhere(s, i)
    BY Zenon, <1>0 DEF NothingDropped, WrittenEverywhere
  <2>2. ResumesAt(wal[s], slot[s], next'[s]) /\ Len(wal[s]) \in Nat
    BY Zenon, StreamType DEF Start, StartStreaming, IndInv
  <2> DEFINE p == next'[s]
  <2>p. p \in 1..(Len(wal[s]) + 1) /\ p \in Int
    <3>1. p \in Nat \ {0} /\ p <= Len(wal[s]) + 1
      BY Zenon, <2>2, ResumeType
    <3> HIDE DEF p
    <3>2. QED
      BY <2>2, <3>1
  <2> HIDE DEF p
  <2>3. p - 1 \in 1..Len(wal[s]) /\ i \in 1..(p - 1) /\ p > 1
    <3>1. i \in 1..(p - 1)
      BY Zenon DEF p
    <3>2. QED
      BY <2>2, <2>p, <3>1
  <2>4. wal[s][p - 1].op = "commit" /\ wal[s][p - 1].lsn <= slot[s]
    <3>1. ResumesAt(wal[s], slot[s], p)
      BY Zenon, <2>2 DEF p
    <3>2. QED
      BY Zenon, <2>3, <3>1 DEF ResumesAt
  <2>5. Safe(s, slot[s])
    BY Zenon DEF IndInv, ConfirmSafe
  <2>6. QED
    BY Zenon, <2>1, <2>3, <2>4, <2>5 DEF Safe
<1>4. SinksDone'
  BY Zenon, <1>0, <1>1 DEF SinksDone
<1>5. ReportsBatch'
  BY Zenon, <1>0, <1>1 DEF ReportsBatch, NoLsn
<1>6. Lifecycle'
  BY <1>0 DEF IndInv, Lifecycle, Start
<1>7. ConfirmSafe'
  <2>1. \A s \in Sources : confirmed'[s] \in {slot[s], 0}
    BY Zenon DEF Start, Connect
  <2>2. \A s \in Sources : Safe(s, slot[s]) /\ Safe(s, confirmed'[s])
    BY Zenon, <2>1, ZeroSafe DEF IndInv, ConfirmSafe
  <2>3. QED
    BY Zenon, <1>0, <2>2 DEF ConfirmSafe, Safe, WrittenEverywhere
<1>8. NoGaps'
  BY Zenon, <1>0 DEF IndInv, NoGaps
<1>9. QED
  BY Zenon, <1>2, <1>3, <1>4, <1>5, <1>6, <1>7, <1>8 DEF IndInv

\* The event just read goes behind everything the source has queued.
LEMMA ReadMessageInd ==
    ASSUME IndInv, TypeOK', NEW s \in Sources, ReadMessage(s)
    PROVE  IndInv'
<1>0. /\ UNCHANGED <<running, wpc, batch, batchMax, sink, fatal, applied, confirmed, wal, slot, phase>>
      /\ phase = "loop"
  BY Zenon DEF ReadMessage, post_job, dispatcherVars, workerVars
<1>1. TypeOK /\ Len(queue) \in Nat /\ Len(batch) \in Nat /\ next \in [Sources -> Nat \ {0}]
  BY Zenon, JobsType DEF IndInv, TypeOK
<1>2. PICK j : j = [src |-> s, pos |-> next[s], lsn |-> wal[s][next[s]].lsn]
  BY Zenon
<1>3. /\ next' = [next EXCEPT ![s] = @ + 1]
      /\ IF wal[s][next[s]].ok THEN queue' = Append(queue, j) ELSE queue' = queue
  BY Zenon, <1>2 DEF ReadMessage, post_job, dispatcherVars
<1>4. /\ next[s] \in Nat \ {0} /\ next'[s] = next[s] + 1
      /\ \A t \in Sources : t # s => next'[t] = next[t]
      /\ \A t \in Sources : next[t] \in Nat /\ next'[t] \in Nat /\ next[t] <= next'[t]
  <2>1. \A t \in Sources : next[t] \in Nat \ {0}
    BY Zenon, <1>1
  <2>2. next'[s] = next[s] + 1
    BY Zenon, <1>1, <1>3
  <2>3. \A t \in Sources : t # s => next'[t] = next[t]
    BY Zenon, <1>1, <1>3
  <2>4. \A t \in Sources : next[t] \in Nat /\ next'[t] \in Nat /\ next[t] <= next'[t]
    <3>1. TAKE t \in Sources
    <3>2. CASE t = s
      BY <2>1, <2>2, <3>2
    <3>3. CASE t # s
      BY <2>1, <2>3, <3>3
    <3>4. QED
      BY Zenon, <3>2, <3>3
  <2>5. QED
    BY Zenon, <2>1, <2>2, <2>3, <2>4
<1>5. /\ \A job \in Job : IsRead(job) => IsRead(job)'
      /\ \A job \in Job : IsRead(job) /\ job.src = s => job.pos < next[s]
  <2>1. SUFFICES ASSUME NEW job \in Job, IsRead(job)
                 PROVE  IsRead(job)' /\ (job.src = s => job.pos < next[s])
    BY Zenon
  <2>2. job.src \in Sources /\ job.pos \in Nat
    BY Zenon DEF Job
  <2>3. QED
    <3>1. job.pos \in 1..(next[job.src] - 1)
      BY Zenon, <2>1 DEF IsRead
    <3>2. next[job.src] \in Nat /\ next'[job.src] \in Nat /\ next[job.src] <= next'[job.src]
      BY Zenon, <1>4, <2>2
    <3>3. job.pos \in 1..(next'[job.src] - 1) /\ (job.src = s => job.pos < next[s])
      BY <2>2, <3>1, <3>2
    <3>4. QED
      BY Zenon, <1>0, <2>1, <3>3 DEF IsRead
<1>6. j.src = s /\ j.pos = next[s] /\ (wal[s][next[s]].ok => IsRead(j)')
  <2>1. j.src = s /\ j.pos = next[s] /\ j.lsn = wal[s][next[s]].lsn
    BY Zenon, <1>2
  <2>2. QED
    <3>1. next[s] \in 1..(next'[s] - 1)
      <4>1. PICK n \in Nat \ {0} : next[s] = n /\ next'[s] = n + 1
        BY Zenon, <1>4
      <4>2. n \in 1..((n + 1) - 1)
        OBVIOUS
      <4>3. QED
        BY Zenon, <4>1, <4>2
    <3>2. QED
      BY Zenon, <1>0, <2>1, <3>1 DEF IsRead
<1>7. /\ \A q \in 1..Len(queue) : queue[q] \in Job /\ IsRead(queue[q])
      /\ \A b \in 1..Len(batch) : batch[b] \in Job /\ IsRead(batch[b])
  BY Zenon, <1>1, JobsType DEF IndInv, JobsInOrder
<1>8. /\ \A q \in 1..Len(queue') :
           \/ q \in 1..Len(queue) /\ queue'[q] = queue[q]
           \/ q = Len(queue) + 1 /\ queue'[q] = j /\ wal[s][next[s]].ok
      /\ \A q \in 1..Len(queue) : q \in 1..Len(queue') /\ queue'[q] = queue[q]
      /\ wal[s][next[s]].ok =>
           Len(queue) + 1 \in 1..Len(queue') /\ queue'[Len(queue) + 1] = j
  <2>1. CASE wal[s][next[s]].ok
    <3>1. queue \in Seq(Job)
      BY Zenon, <1>1 DEF TypeOK, DispatcherTypeOK
    <3>2. j \in Job
      <4>1. next[s] \in 1..Len(wal[s]) /\ wal[s] \in Seq(Message)
        <5>1. next[s] <= Len(wal[s])
          BY Zenon DEF ReadMessage
        <5>2. wal[s] \in Seq(Message) /\ Len(wal[s]) \in Nat
          BY Zenon, <1>1, StreamType
        <5>3. next[s] \in Nat \ {0}
          BY Zenon, <1>4
        <5>4. QED
          BY <5>1, <5>2, <5>3
      <4>2. wal[s][next[s]] \in Message
        BY Zenon, <4>1, ElementOfSeq
      <4>3. QED
        BY Zenon, <1>2, <1>4, <4>2 DEF Job, Message
    <3>3. queue' = Append(queue, j)
      BY Zenon, <1>3, <2>1
    <3>4. /\ Len(queue') = Len(queue) + 1
          /\ \A q \in 1..Len(queue) : queue'[q] = queue[q]
          /\ queue'[Len(queue) + 1] = j
      BY SMTT(60), <3>1, <3>2, <3>3, AppendProperties
    <3>5. QED
      <4>1. \A q \in 1..(Len(queue) + 1) : q \in 1..Len(queue) \/ q = Len(queue) + 1
        BY <1>1
      <4>2. Len(queue) + 1 \in 1..(Len(queue) + 1) /\ 1..Len(queue) \subseteq 1..(Len(queue) + 1)
        BY <1>1
      <4>3. QED
        BY Zenon, <2>1, <3>4, <4>1, <4>2
  <2>2. CASE ~wal[s][next[s]].ok
    BY Zenon, <1>3, <2>2
  <2>3. QED
    BY Zenon, <2>1, <2>2
<1>9. JobsInOrder'
  <2>1. (\A q \in 1..Len(queue) : IsRead(queue[q]))'
    <3>1. SUFFICES ASSUME NEW q \in 1..Len(queue') PROVE IsRead(queue[q])'
      BY Zenon
    <3>2. CASE q \in 1..Len(queue) /\ queue'[q] = queue[q]
      BY Zenon, <1>5, <1>7, <3>2 DEF IsRead
    <3>3. CASE queue'[q] = j /\ wal[s][next[s]].ok
      BY Zenon, <1>6, <3>3 DEF IsRead
    <3>4. QED
      BY Zenon, <1>8, <3>2, <3>3
  <2>2. (\A b \in 1..Len(batch) : IsRead(batch[b]))'
    BY Zenon, <1>0, <1>5, <1>7 DEF IsRead
  <2>3. Ordered(queue)'
    <3>1. SUFFICES ASSUME NEW a \in 1..Len(queue'), NEW b \in 1..Len(queue'),
                          a < b, queue'[a].src = queue'[b].src
                   PROVE  queue'[a].pos < queue'[b].pos
      BY Zenon DEF Ordered
    <3>2. a \in 1..Len(queue) /\ queue'[a] = queue[a]
      <4>1. CASE a \in 1..Len(queue) /\ queue'[a] = queue[a]
        BY Zenon, <4>1
      <4>2. CASE a = Len(queue) + 1
        <5>1. b \in 1..Len(queue) \/ b = Len(queue) + 1
          BY Zenon, <1>8
        <5>2. QED
          BY <1>1, <3>1, <4>2, <5>1
      <4>3. QED
        BY Zenon, <1>8, <4>1, <4>2
    <3>3. CASE b \in 1..Len(queue) /\ queue'[b] = queue[b]
      BY Zenon, <3>1, <3>2, <3>3 DEF IndInv, JobsInOrder, Ordered
    <3>4. CASE queue'[b] = j
      BY Zenon, <1>5, <1>6, <1>7, <3>1, <3>2, <3>4
    <3>5. QED
      BY Zenon, <1>8, <3>3, <3>4
  <2>4. \A b \in 1..Len(batch), q \in 1..Len(queue') :
          batch[b].src = queue'[q].src => batch[b].pos < queue'[q].pos
    <3>1. TAKE b \in 1..Len(batch), q \in 1..Len(queue')
    <3>2. CASE q \in 1..Len(queue) /\ queue'[q] = queue[q]
      BY Zenon, <3>2 DEF IndInv, JobsInOrder
    <3>3. CASE queue'[q] = j
      BY Zenon, <1>5, <1>6, <1>7, <3>3
    <3>4. QED
      BY Zenon, <1>8, <3>2, <3>3
  <2>5. Ordered(batch)'
    BY Zenon, <1>0 DEF IndInv, JobsInOrder, Ordered
  <2>6. QED
    BY Zenon, <1>0, <2>1, <2>2, <2>3, <2>4, <2>5 DEF JobsInOrder
<1>10. NothingDropped'
  <2>1. \A t, i : /\ WrittenEverywhere(t, i) => WrittenEverywhere(t, i)'
                  /\ InBatch(t, i) => InBatch(t, i)'
    BY Zenon, <1>0 DEF WrittenEverywhere, InBatch
  <2>2. \A t, i : InQueue(t, i) => InQueue(t, i)'
    BY Zenon, <1>8 DEF InQueue
  <2>3. \A i : i = next[s] /\ wal[s][i].ok => InQueue(s, i)'
    BY Zenon, <1>6, <1>8 DEF InQueue
  <2>4. SUFFICES ASSUME NEW t \in Sources, NEW i \in 1..(next'[t] - 1), wal[t][i].ok
                 PROVE  WrittenEverywhere(t, i)' \/ InBatch(t, i)' \/ InQueue(t, i)'
    BY Zenon, <1>0 DEF NothingDropped
  <2>5. CASE i \in 1..(next[t] - 1)
    BY Zenon, <2>1, <2>2, <2>4, <2>5 DEF IndInv, NothingDropped
  <2>6. CASE ~(i \in 1..(next[t] - 1))
    <3>1. t = s
      BY Zenon, <1>4, <2>4, <2>6
    <3>1a. i = next[s]
      <4>1. PICK n \in Nat \ {0} : next[s] = n /\ next'[s] = n + 1
        BY Zenon, <1>4
      <4>2. i \in 1..((n + 1) - 1) /\ ~(i \in 1..(n - 1))
        BY Zenon, <2>4, <2>6, <3>1, <4>1
      <4>3. QED
        BY <4>1, <4>2
    <3>2. QED
      BY Zenon, <2>3, <2>4, <3>1, <3>1a
  <2>7. QED
    BY Zenon, <2>5, <2>6
<1>11. SinksDone' /\ ReportsBatch'
  BY Zenon, <1>0 DEF IndInv, SinksDone, BatchWritten, ReportsBatch
<1>12. Lifecycle'
  BY Zenon, <1>0 DEF IndInv, Lifecycle
<1>13. ConfirmSafe' /\ NoGaps'
  BY Zenon, <1>0, SafetyStays DEF IndInv
<1>14. QED
  BY Zenon, <1>9, <1>10, <1>11, <1>12, <1>13 DEF IndInv

\* The end of the process leaves nothing to answer for but the slot.
LEMMA ProcessEndsInd ==
    ASSUME IndInv, TypeOK', ProcessEnds
    PROVE  IndInv'
<1>0. /\ queue' = <<>> /\ batch' = <<>> /\ batchMax' = NoLsn /\ wpc' = "top"
      /\ running' = TRUE /\ fatal' = FALSE /\ phase' = "down"
      /\ next' = [s \in Sources |-> 1] /\ confirmed' = NoLsn
      /\ UNCHANGED <<applied, wal, slot>>
  BY Zenon DEF ProcessEnds, DispatcherDiscarded
<1>1. 1..Len(queue') = {} /\ 1..Len(batch') = {}
  BY Zenon, <1>0, EmptyRange
<1>2. JobsInOrder'
  BY Zenon, <1>1 DEF JobsInOrder, Ordered
<1>3. NothingDropped'
  <2>0. 1..(1 - 1) = {}
    OBVIOUS
  <2>1. \A s \in Sources : 1..(next'[s] - 1) = {}
    BY Zenon, <1>0, <2>0
  <2>2. QED
    BY Zenon, <2>1 DEF NothingDropped
<1>4. SinksDone' /\ ReportsBatch'
  BY Zenon, <1>0 DEF SinksDone, ReportsBatch, NoLsn
<1>5. Lifecycle'
  BY Zenon, <1>0 DEF Lifecycle
<1>6. \A s \in Sources : Safe(s, 0)
  BY Zenon, ZeroSafe DEF IndInv
<1>7. ConfirmSafe'
  BY Zenon, <1>0, <1>6 DEF IndInv, ConfirmSafe, NoLsn, Safe, WrittenEverywhere
<1>8. NoGaps'
  BY Zenon, <1>0 DEF IndInv, NoGaps
<1>9. QED
  BY Zenon, <1>2, <1>3, <1>4, <1>5, <1>7, <1>8 DEF IndInv

\* What a source reports to the server is its confirmed LSN.
LEMMA SlotConfirmedSafe ==
    ASSUME TypeOK, ConfirmSafe, NEW s \in Sources,
           SlotConfirmed(s, confirmed[s]) \/ UNCHANGED slot,
           UNCHANGED <<applied, confirmed, wal>>
    PROVE  ConfirmSafe'
<1>1. \A t \in Sources : slot'[t] \in {slot[t], confirmed[t]}
  BY Zenon DEF SlotConfirmed, Larger, TypeOK
<1>2. \A t \in Sources : Safe(t, slot'[t]) /\ Safe(t, confirmed[t])
  BY Zenon, <1>1 DEF ConfirmSafe
<1>3. QED
  BY Zenon, <1>2 DEF ConfirmSafe, Safe, WrittenEverywhere

\* Steps of main() and of the event loop that touch no job and no sink.
LEMMA MainMoves ==
    ASSUME IndInv, TypeOK', ConfirmSafe',
           UNCHANGED <<queue, wpc, batch, batchMax, sink, fatal, applied, next, wal>>,
           Lifecycle'
    PROVE  IndInv'
<1>1. SinksDone' /\ NoGaps' /\ Grows
  BY Zenon DEF IndInv, SinksDone, BatchWritten, NoGaps, Grows
<1>2. QED
  BY Zenon, <1>1, JobsStay

\* The inductive step.
LEMMA NextInd == IndInv /\ [Next]_vars => IndInv'
<1> SUFFICES ASSUME IndInv, [Next]_vars PROVE IndInv'
  BY Zenon
<1>0. TypeOK' /\ TypeOK /\ ConfirmSafe /\ NoGaps /\ Lifecycle
  BY Zenon, NextType DEF IndInv
<1> USE DEF dispatcherVars, workerVars
<1>1. CASE Start
  BY Zenon, <1>0, <1>1, StartInd
<1>2. ASSUME NEW s \in Sources, ReadMessage(s) PROVE IndInv'
  BY Zenon, <1>0, <1>2, ReadMessageInd
<1>3. ASSUME NEW s \in Sources, PingUpdate(s) PROVE IndInv'
  <2>1. ConfirmSafe'
    BY Zenon, <1>0, <1>3, SlotConfirmedSafe DEF PingUpdate
  <2>2. Lifecycle'
    BY Zenon, <1>0, <1>3 DEF PingUpdate, Lifecycle
  <2>3. QED
    BY Zenon, <1>0, <1>3, <2>1, <2>2, MainMoves DEF PingUpdate
<1>4. ASSUME NEW s \in Sources, StreamEnd(s) PROVE IndInv'
  <2>1. ConfirmSafe' /\ Lifecycle'
    BY Zenon, <1>0, <1>4, SafetyStays DEF StreamEnd, Lifecycle
  <2>2. QED
    BY Zenon, <1>0, <1>4, <2>1, MainMoves DEF StreamEnd
<1>5. CASE WorkerStep
  BY Zenon, <1>0, <1>5, WorkerInd
<1>6. CASE ShutdownSignal \/ TerminatePoll
  <2>1. ConfirmSafe'
    BY Zenon, <1>0, <1>6, SafetyStays DEF ShutdownSignal, TerminatePoll, BreakLoop
  <2>2. Lifecycle'
    <3>1. /\ UNCHANGED <<running, wpc, queue, batch, fatal, batchMax>>
          /\ phase = "loop" /\ phase' = "stopping"
      BY Zenon, <1>6 DEF ShutdownSignal, TerminatePoll, BreakLoop
    <3>2. QED
      BY Zenon, <1>0, <3>1 DEF Lifecycle
  <2>3. QED
    BY Zenon, <1>0, <1>6, <2>1, <2>2, MainMoves DEF ShutdownSignal, TerminatePoll, BreakLoop
<1>7. CASE ResetDispatcher
  <2>1. ConfirmSafe' /\ Lifecycle'
    BY Zenon, <1>0, <1>7, SafetyStays DEF ResetDispatcher, StopWorker, Lifecycle
  <2>2. QED
    BY Zenon, <1>0, <1>7, <2>1, MainMoves DEF ResetDispatcher, StopWorker
<1>8. CASE Joined
  <2>1. ConfirmSafe' /\ Lifecycle'
    BY Zenon, <1>0, <1>8, SafetyStays DEF Joined, Lifecycle
  <2>2. QED
    BY Zenon, <1>0, <1>8, <2>1, MainMoves DEF Joined
<1>9. ASSUME NEW s \in Sources, FlushConfirmed(s) PROVE IndInv'
  <2>1. ConfirmSafe'
    BY Zenon, <1>0, <1>9, SlotConfirmedSafe DEF FlushConfirmed
  <2>2. Lifecycle'
    BY Zenon, <1>0, <1>9 DEF FlushConfirmed, Lifecycle
  <2>3. QED
    BY Zenon, <1>0, <1>9, <2>1, <2>2, MainMoves DEF FlushConfirmed
<1>10. CASE Exit \/ Crash
  BY Zenon, <1>0, <1>10, ProcessEndsInd DEF Exit, Crash
<1>11. ASSUME NEW k \in SinkIds, SinkOutage(k) \/ SinkRecovery(k) PROVE IndInv'
  <2>1. ConfirmSafe'
    BY Zenon, <1>0, <1>11, SafetyStays DEF SinkOutage, SinkRecovery, SetSinkUp, pipelineVars
  <2>2. Lifecycle'
    <3>1. UNCHANGED <<running, wpc, queue, batch, fatal, batchMax, phase>>
      BY Zenon, <1>11 DEF SinkOutage, SinkRecovery, SetSinkUp, pipelineVars
    <3>2. QED
      BY Zenon, <1>0, <3>1 DEF Lifecycle, NoLsn
  <2>3. QED
    BY Zenon, <1>0, <1>11, <2>1, <2>2, MainMoves DEF SinkOutage, SinkRecovery, SetSinkUp, pipelineVars
<1>12. CASE UNCHANGED vars
  <2>1. ConfirmSafe' /\ Lifecycle'
    BY Zenon, <1>0, <1>12, SafetyStays DEF vars, pipelineVars, Lifecycle
  <2>2. QED
    BY Zenon, <1>0, <1>12, <2>1, MainMoves DEF vars, pipelineVars
<1>13. QED
  BY Zenon, <1>1, <1>2, <1>3, <1>4, <1>5, <1>6, <1>7, <1>8, <1>9, <1>10, <1>11, <1>12
     DEF Next, Shutdown

\* The first process starts with nothing read, written or confirmed.
LEMMA InitInd == Init => IndInv
<1> SUFFICES ASSUME Init PROVE IndInv
  BY Zenon
<1>0. TypeOK
  BY Zenon, InitType
<1>1. /\ queue = <<>> /\ batch = <<>> /\ batchMax = NoLsn /\ wpc = "top"
      /\ running = TRUE /\ fatal = FALSE /\ phase = "down"
      /\ next = [s \in Sources |-> 1] /\ confirmed = NoLsn /\ slot = NoLsn
      /\ applied = [k \in SinkIds |-> {}]
  BY Zenon DEF Init, DispatcherInit, DispatcherFresh
<1>2. 1..Len(queue) = {} /\ 1..Len(batch) = {}
  BY Zenon, <1>1, EmptyRange
<1>3. JobsInOrder
  BY Zenon, <1>2 DEF JobsInOrder, Ordered
<1>4. NothingDropped
  <2>0. 1..(1 - 1) = {}
    OBVIOUS
  <2>1. \A s \in Sources : 1..(next[s] - 1) = {}
    BY Zenon, <1>1, <2>0
  <2>2. QED
    BY Zenon, <2>1 DEF NothingDropped
<1>5. SinksDone /\ ReportsBatch
  BY Zenon, <1>1 DEF SinksDone, ReportsBatch, NoLsn
<1>6. Lifecycle
  BY Zenon, <1>1 DEF Lifecycle
<1>7. \A s \in Sources : Safe(s, 0)
  BY Zenon, <1>0, ZeroSafe
<1>8. ConfirmSafe
  BY Zenon, <1>1, <1>7 DEF ConfirmSafe, NoLsn
<1>9. NoGaps
  BY Zenon, <1>1, DispatcherAssumption DEF NoGaps, Trusted
<1>10. QED
  BY Zenon, <1>0, <1>3, <1>4, <1>5, <1>6, <1>8, <1>9 DEF IndInv

\* IndInv holds in every state of the live path.
THEOREM Inductive == Spec => []IndInv
BY InitInd, NextInd, PTL DEF Spec
------------------------------------------------------------------------------
(* The properties *)

\* A transaction is reported to the server, or held ready to be reported, only
\* after every required sink that reports its failures has written all of it:
\* no crash, retry, batch boundary or interleaving of sources loses an event.
THEOREM ConfirmationSafe == Spec => []ConfirmSafe
<1>1. IndInv => ConfirmSafe
  BY Zenon DEF IndInv
<1>2. QED
  BY Inductive, <1>1, PTL

\* What such a sink holds of a source is gap-free in stream order, through
\* partial batches, retries and replays.
THEOREM WritesInOrder == Spec => []NoGaps
<1>1. IndInv => NoGaps
  BY Zenon DEF IndInv
<1>2. QED
  BY Inductive, <1>1, PTL

\* drain_remaining leaves nothing behind in a shutdown that is not fatal.
THEOREM DrainIsComplete == Spec => []DrainComplete
<1>1. IndInv => DrainComplete
  <2>1. SUFFICES ASSUME IndInv, phase = "flushing", ~fatal PROVE DrainComplete
    BY Zenon DEF DrainComplete
  <2>2. queue = <<>> /\ batch = <<>>
    BY Zenon, <2>1 DEF IndInv, Lifecycle
  <2>3. 1..Len(queue) = {} /\ 1..Len(batch) = {}
    BY Zenon, <2>2, EmptyRange
  <2>4. QED
    BY Zenon, <2>1, <2>2, <2>3 DEF DrainComplete, IndInv, NothingDropped, InQueue, InBatch
<1>2. QED
  BY Inductive, <1>1, PTL

\* After a required sink has stalled past the ceiling, on_confirmed_ is not
\* called again before the process ends.
THEOREM FatalConfirmsNothing == Spec => NoConfirmAfterFatal
<1>1. IndInv /\ [Next]_vars => [fatal /\ phase' # "down" => confirmed' = confirmed]_vars
  <2>1. SUFFICES ASSUME IndInv, [Next]_vars, fatal, phase' # "down"
                 PROVE  confirmed' = confirmed
    BY Zenon
  <2>2. wpc = "done" /\ phase # "down"
    BY Zenon, <2>1 DEF IndInv, Lifecycle
  <2>3. ~WorkerStep
    BY Zenon, <2>2 DEF WorkerStep, Worker, LoopTop, WaitDequeue, WaitTimeout, FillBatch, FillEnd,
                DrainTake, DrainFlush, DrainEnd, SinkReturns, SkipBestEffort, RetryRequired,
                GiveUp, SinkThrows, NotifyConfirmed
  <2>4. QED
    BY Zenon, <2>1, <2>2, <2>3
       DEF Next, Start, ReadMessage, post_job, PingUpdate, StreamEnd, ShutdownSignal, Shutdown,
           BreakLoop, TerminatePoll, ResetDispatcher, StopWorker, Joined, FlushConfirmed, Exit,
           Crash, ProcessEnds, SinkOutage, SinkRecovery, SetSinkUp, vars, dispatcherVars
<1>2. QED
  BY Inductive, <1>1, PTL DEF Spec, NoConfirmAfterFatal
------------------------------------------------------------------------------
(* The live path implements AckedFeed *)

\* What every trusted sink has written, as AckedFeed sees it.
Written(s) == {i \in 1..Len(wal[s]) : WrittenEverywhere(s, i)}

FeedOK ==
    \A s \in Sources : /\ Feed!GapFree(wal[s], Written(s))
                       /\ Feed!Covers(wal[s], Written(s), slot[s])

\* A state that satisfies the invariant is gap-free and covered in the
\* abstract specification's terms.
LEMMA FeedState == IndInv => FeedOK
<1> SUFFICES ASSUME IndInv, NEW s \in Sources
             PROVE  /\ Feed!GapFree(wal[s], Written(s))
                    /\ Feed!Covers(wal[s], Written(s), slot[s])
  BY Zenon DEF FeedOK
<1>0. Len(wal[s]) \in Nat
  BY Zenon, StreamType DEF IndInv
<1>1. Feed!GapFree(wal[s], Written(s))
  <2>1. SUFFICES ASSUME NEW i \in 1..Len(wal[s]), WrittenEverywhere(s, i),
                        NEW j \in 1..(i - 1), wal[s][j].ok
                 PROVE  j \in Written(s)
    BY Zenon DEF Feed!GapFree, Written
  <2>2. j \in 1..Len(wal[s])
    BY <1>0
  <2>3. WrittenEverywhere(s, j)
    BY Zenon, <2>1 DEF IndInv, NoGaps, WrittenEverywhere
  <2>4. QED
    BY Zenon, <2>2, <2>3 DEF Written
<1>2. Feed!Covers(wal[s], Written(s), slot[s])
  <2>1. SUFFICES ASSUME NEW k \in 1..Len(wal[s]), wal[s][k].op = "commit",
                        wal[s][k].lsn <= slot[s], NEW i \in 1..k, wal[s][i].ok
                 PROVE  i \in Written(s)
    BY Zenon DEF Feed!Covers
  <2>2. i \in 1..Len(wal[s])
    BY <1>0
  <2>3. WrittenEverywhere(s, i)
    BY Zenon, <2>1 DEF IndInv, ConfirmSafe, Safe
  <2>4. QED
    BY Zenon, <2>2, <2>3 DEF Written
<1>3. QED
  BY Zenon, <1>1, <1>2

\* Sinks never lose anything, and no step both writes and acknowledges.
LEMMA StepKinds ==
    ASSUME IndInv, [Next]_vars
    PROVE  Grows /\ (slot' = slot \/ applied' = applied)
<1>0. DispatcherTypeOK
  BY Zenon DEF IndInv, TypeOK
<1>1. applied' = applied => Grows
  BY Zenon DEF Grows
<1>2. CASE WorkerStep
  <2>1. slot' = slot
    BY Zenon, <1>2 DEF WorkerStep, pipelineVars
  <2>2. applied' = applied \/ \E events : Write(events)
    BY Zenon, <1>2 DEF WorkerStep, Worker, LoopTop, WaitDequeue, WaitTimeout, FillBatch, FillEnd,
                DrainTake, DrainFlush, DrainEnd, SinkReturns, SkipBestEffort, RetryRequired,
                GiveUp, SinkThrows, NotifyConfirmed
  <2>3. QED
    BY Zenon, <1>0, <1>1, <2>1, <2>2, WriteGrows
<1>3. CASE ~WorkerStep
  <2>1. applied' = applied
    BY Zenon, <1>3
       DEF Next, Start, ReadMessage, post_job, PingUpdate, StreamEnd, ShutdownSignal, Shutdown,
           BreakLoop, TerminatePoll, ResetDispatcher, StopWorker, Joined, FlushConfirmed, Exit,
           Crash, ProcessEnds, SinkOutage, SinkRecovery, SetSinkUp, vars, dispatcherVars
  <2>2. QED
    BY Zenon, <1>1, <2>1
<1>4. QED
  BY Zenon, <1>2, <1>3

\* Every step of the live path is a Write, an Ack or a stutter of AckedFeed.
LEMMA FeedStep ==
    ASSUME IndInv, FeedOK', [Next]_vars
    PROVE  [Feed!Next]_(Feed!vars)
<1>0. wal' = wal /\ Grows
  BY Zenon, WalConstant, StepKinds
<1>1. \A s \in Sources : Written(s) \subseteq Written(s)'
  BY Zenon, <1>0, DispatcherAssumption DEF Written, WrittenEverywhere, Grows, Trusted
<1>2. CASE slot' = slot
  <2>1. Feed!Write
    BY Zenon, <1>0, <1>1, <1>2 DEF FeedOK, Feed!Write, Written
  <2>2. QED
    BY Zenon, <2>1 DEF Feed!Next
<1>3. CASE applied' = applied
  <2>1. \A s \in Sources : Written(s)' = Written(s)
    BY Zenon, <1>0, <1>3 DEF Written, WrittenEverywhere
  <2>2. Feed!Ack
    BY Zenon, <1>0, <2>1 DEF FeedOK, Feed!Ack, Written
  <2>3. QED
    BY Zenon, <2>2 DEF Feed!Next
<1>4. QED
  BY Zenon, <1>2, <1>3, StepKinds

\* The live path implements AckedFeed: an observer of the slots and of the
\* required sinks that report their failures sees events written in stream
\* order and transactions acknowledged only once written, and nothing of
\* batches, retries, crashes and replays.
THEOREM Refinement == Spec => ImplementsFeed
<1>1. Init => Feed!Init
  <2>1. SUFFICES ASSUME Init PROVE Feed!Init
    BY Zenon
  <2>2. IndInv
    BY Zenon, <2>1, InitInd
  <2>3. \A s \in Sources : Feed!GapFree(wal[s], Written(s))
    BY Zenon, <2>2, FeedState DEF FeedOK
  <2>4. QED
    BY Zenon, <2>1, <2>3 DEF Init, Feed!Init, Written, NoLsn
<1>2. IndInv /\ FeedOK' /\ [Next]_vars => [Feed!Next]_(Feed!vars)
  BY Zenon, FeedStep
<1>3. QED
  BY Inductive, FeedState, <1>1, <1>2, PTL DEF Spec, ImplementsFeed, Feed!Spec
==============================================================================
