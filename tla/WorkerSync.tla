----------------------------- MODULE WorkerSync -----------------------------
(***************************************************************************)
(* Synchronization of one worker pool: N worker_sync_t threads search the  *)
(* received samples chunk by chunk (sync_chunk_t), worker i takes the      *)
(* chunks i, i + N, i + 2N, ...  Only the worker that holds the baton      *)
(* (baton_t) puts jobs into the job queue, the others search ahead and     *)
(* buffer what they find.  Chunks overlap, so two workers may detect the   *)
(* same packet.  Firmware threads push requests for irregular callbacks    *)
(* into the irregular_queue_t at any time.                                 *)
(*                                                                         *)
(* Time is counted in search steps of the autocorrelator.  The signal is   *)
(* abstracted to the set of times at which a packet starts, a detection to *)
(* that time plus an estimation error.                                     *)
(***************************************************************************)
EXTENDS Integers, Sequences, FiniteSets

CONSTANTS
    N,            \* worker_sync_t threads
    A, B,         \* length of a chunk and of the overlap behind it
    UniqueLimit,  \* sync_time_unique_limit_64
    MaxBuffered,  \* RX_SYNC_PARAM_MAX_NOF_BUFFERABLE_SYNC_BEFORE_ACQUIRING_BATON
    Period,       \* rx_job_regular_period, 0 disables regular jobs
    NofSlots,     \* limits::max_irregular_callback_pending
    Start,        \* start times the workers suggest, in rounds of N chunks
    PacketTime,   \* bound: times at which packets may start
    MinGap,       \* least distance of two packets
    Error,        \* estimation errors of a synchronization time
    Missable,     \* a packet may remain undetected
    ReportTime,   \* bound: times of the irregular callbacks asked for
    MaxReports,   \* bound: irregular reports ever pushed
    LastChunk     \* bound: the last chunk that is searched

\* undefined_late, UNDEFINED_EARLY_64, an empty std::optional or nullptr.
Late  == 1000000
Early == -1000000
None  == -1

ASSUME SyncAssumption ==
    /\ N \in Nat \ {0} /\ A \in Nat \ {0} /\ B \in Nat
    /\ UniqueLimit \in Nat /\ MaxBuffered \in Nat \ {0} /\ Period \in Nat
    /\ NofSlots \in Nat \ {0} /\ MaxReports \in Nat /\ LastChunk \in Nat
    /\ Start \subseteq Nat /\ PacketTime \subseteq Nat /\ ReportTime \subseteq Nat
    /\ Error \subseteq Nat /\ Missable \in BOOLEAN
    /\ \A t \in ReportTime : t < Late
    /\ UniqueLimit < -Early /\ \A e \in Error : e <= UniqueLimit
    /\ MinGap \in Nat /\ MinGap > B /\ \A e \in Error : MinGap > UniqueLimit + e
    /\ B <= A

Id   == 0 .. N - 1
Slot == 1 .. NofSlots

VARIABLES
    packets,       \* times at which packets really start
    \* baton_t
    register_cnt, register_now,
    id_holder,
    sync_time_last,
    period_cnt,    \* rx_job_regular_period_cnt
    chunk_done,    \* chunk that ends at chunk_time_end_64, None before the first
    \* irregular_queue_t
    reports,       \* [Slot -> time or Late], irregular_report_arr
    it_next, next_time,
    pushed,        \* reports ever pushed
    \* worker_sync_t
    pc,
    report,        \* what register_and_wait_for_others_nto() got from work_start()
    chunk,         \* number of the current chunk
    pos,           \* position of the search in the chunk
    buffered,      \* sync_report_arr, sequence of detections
    found,         \* sync_report_opt: at most one detection
    has_baton,     \* wait_to() returned for the current chunk
    no_more,       \* argument of the pending enqueue_irregular_job_if_due()
    \* job_queue_t and worker_pool_t
    permeable, keep_running,
    jobs,          \* all jobs ever enqueued
    detected       \* history: packets detected so far

baton   == <<register_cnt, register_now, id_holder, sync_time_last, period_cnt, chunk_done>>
irrq    == <<reports, it_next, next_time, pushed>>
search  == <<chunk, pos, buffered, found, has_baton, no_more>>
queue   == <<permeable, jobs>>
vars    == <<packets, baton, irrq, pc, report, search, queue, keep_running, detected>>

\* A detection, the sync_report_t of packet p.  "of" is not in the code.
Detection(p, e) == [of |-> p, time |-> p + e]

SyncJob(d)         == [kind |-> "sync", time |-> d.time, of |-> d.of]
RegularJob(e, l)   == [kind |-> "regular", time |-> e, of |-> l]
IrregularJob(t, n) == [kind |-> "irregular", time |-> t, of |-> n]

ChunkStart(c) == c * A
ChunkEnd_WithOverlap(c) == c * A + A + B - 1
ChunkEnd(c)   == c * A + A - 1
Now(i)        == ChunkStart(chunk[i]) + pos[i]
Completed(i)  == pos[i] = A + B

\* "again": search() is called although the chunk is complete; "failed": an assertion
\* of this worker has ended the program.
Pc == {"warmup", "registered", "loop", "search", "again", "pop", "wait_to", "waiting", "flush",
       "emit", "exited", "failed"}
Failed == \E i \in Id : pc[i] = "failed"

TypeOK ==
    /\ packets \subseteq PacketTime /\ detected \subseteq packets
    /\ register_cnt \in 0 .. N /\ register_now \in Nat \cup {Early}
    /\ id_holder \in Id
    /\ sync_time_last \in Nat \cup {Early} /\ period_cnt \in 0 .. Period
    /\ chunk_done \in Nat \cup {None}
    /\ reports \in [Slot -> ReportTime \cup {Late}]
    /\ it_next \in Slot \cup {None} /\ next_time \in ReportTime \cup {Late}
    /\ pushed \in 0 .. MaxReports
    /\ pc \in [Id -> Pc]
    /\ report \in [Id -> ReportTime \cup {Late}]
    /\ chunk \in [Id -> Nat \cup {None}] /\ pos \in [Id -> 0 .. A + B]
    /\ \A i \in Id : Len(buffered[i]) <= MaxBuffered /\ Len(found[i]) <= 1
    /\ has_baton \in [Id -> BOOLEAN] /\ no_more \in [Id -> Nat]
    /\ permeable \in BOOLEAN /\ keep_running \in BOOLEAN

Init ==
    /\ packets \in {P \in SUBSET PacketTime : \A p, q \in P : p < q => q - p >= MinGap}
    /\ register_cnt = 0 /\ register_now = Early
    /\ id_holder = 0 /\ sync_time_last = Early /\ period_cnt = 0 /\ chunk_done = None
    /\ reports = [s \in Slot |-> Late] /\ it_next = None /\ next_time = Late /\ pushed = 0
    /\ pc = [i \in Id |-> "warmup"]
    /\ report = [i \in Id |-> Late]
    /\ chunk = [i \in Id |-> None] /\ pos = [i \in Id |-> 0]
    /\ buffered = [i \in Id |-> <<>>] /\ found = [i \in Id |-> <<>>]
    /\ has_baton = [i \in Id |-> FALSE] /\ no_more = [i \in Id |-> 0]
    /\ permeable = FALSE /\ keep_running = TRUE
    /\ jobs = <<>> /\ detected = {}

Goto(i, l) == pc' = [pc EXCEPT ![i] = l]

-----------------------------------------------------------------------------
(* irregular_queue_t *)

\* push(): the first free slot, and the new next report if it is earlier.
Push(t) ==
    /\ LET s == CHOOSE s \in Slot : reports[s] = Late /\ \A r \in Slot : r < s => reports[r] # Late
       IN  /\ reports' = [reports EXCEPT ![s] = t]
           /\ it_next' = IF t < next_time THEN s ELSE it_next
           /\ next_time' = IF t < next_time THEN t ELSE next_time
    /\ pushed' = pushed + 1

\* pop(): free the next slot, then std::min_element over all slots.
Pop ==
    /\ reports' = [reports EXCEPT ![it_next] = Late]
    /\ LET m == CHOOSE s \in Slot : /\ \A r \in Slot : reports'[s] <= reports'[r]
                                    /\ \A r \in Slot : r < s => reports'[s] < reports'[r]
       IN  /\ it_next' = IF reports'[m] = Late THEN None ELSE m
           /\ next_time' = reports'[m]
    /\ UNCHANGED pushed

\* A worker_tx_rx_t pushes the report a firmware call returned.  Its time is
\* up to the firmware, which never asks for more callbacks than there are slots
\* (the assertion "no space left").
Reserved == {i \in Id : pc[i] = "registered" /\ report[i] < Late}
PushReport(t) ==
    /\ permeable /\ pushed + Cardinality(Reserved) < MaxReports
    /\ Cardinality({s \in Slot : reports[s] = Late}) > Cardinality(Reserved)
    /\ Push(t)
    /\ UNCHANGED <<packets, baton, pc, report, search, queue, keep_running, detected>>

-----------------------------------------------------------------------------
(* Registration at the baton *)

\* Every worker suggests a start time, the latest one wins.  The last one to
\* register calls work_start() and keeps the report it returns.
Register(i, s) ==
    /\ pc[i] = "warmup"
    /\ register_cnt' = register_cnt + 1
    /\ register_now' = IF register_now < s THEN s ELSE register_now
    /\ \/ report' = report
       \/ /\ register_cnt' = N /\ pushed < MaxReports
          /\ \E t \in {u \in ReportTime : u >= ChunkStart(N * register_now')} :
                report' = [report EXCEPT ![i] = t]
    /\ Goto(i, "registered")
    /\ UNCHANGED <<packets, id_holder, sync_time_last, period_cnt, chunk_done, irrq, search,
                   queue, keep_running, detected>>

\* All workers have registered, register_cv is notified.
AllRegistered == register_cnt = N

\* The common start time decides on the first chunk, worker 0 opens the queue.
Leave(i) ==
    /\ pc[i] = "registered" /\ AllRegistered
    /\ IF report[i] < Late THEN Push(report[i]) ELSE UNCHANGED irrq
    /\ chunk' = [chunk EXCEPT ![i] = N * register_now + i]
    /\ permeable' = (permeable \/ i = 0)
    /\ Goto(i, "loop")
    /\ UNCHANGED <<packets, baton, report, pos, buffered, found, has_baton, no_more, jobs,
                   keep_running, detected>>

-----------------------------------------------------------------------------
(* Search *)

\* The next iteration of work() begins a chunk, or leaves the loop.  The first
\* search() continues the chunk wait_for_first_chunk_nto() selected, later ones
\* jump to the next chunk of the worker, for the last one is complete.
Loop(i) ==
    /\ pc[i] = "loop"
    /\ IF keep_running
       THEN LET next == IF Completed(i) THEN chunk[i] + N ELSE chunk[i] IN
            /\ next <= LastChunk
            /\ chunk' = [chunk EXCEPT ![i] = next]
            /\ pos' = [pos EXCEPT ![i] = 0]
            /\ buffered' = [buffered EXCEPT ![i] = <<>>]
            /\ found' = [found EXCEPT ![i] = <<>>]
            /\ has_baton' = [has_baton EXCEPT ![i] = FALSE]
            /\ Goto(i, "search")
       ELSE Goto(i, "exited") /\ UNCHANGED <<chunk, pos, buffered, found, has_baton>>
    /\ UNCHANGED <<packets, baton, irrq, report, no_more, queue, keep_running, detected>>

Step(i) == pos' = [pos EXCEPT ![i] = @ + 1]

\* enqueue_irregular_job_if_due(n) up to its pop(): the baton must be held, and
\* the next report be due.  Otherwise the worker goes on at label l.
Due_WithoutBaton(i, n) == next_time < Late /\ next_time <= n
Due(i, n) == id_holder = i /\ next_time < Late /\ next_time <= n

CallIfDue(i, n, l) ==
    IF Due(i, n) THEN Goto(i, "pop") /\ no_more' = [no_more EXCEPT ![i] = n]
                 ELSE Goto(i, l) /\ UNCHANGED no_more

\* A step of the search without a packet.
Silence(i) ==
    /\ pc[i] = "search" /\ ~Completed(i)
    /\ Missable \/ Now(i) \notin packets
    /\ Step(i)
    /\ CallIfDue(i, Now(i) + 1, "search")
    /\ UNCHANGED <<packets, baton, irrq, report, chunk, buffered, found, has_baton, queue,
                   keep_running, detected>>

\* search() found a packet.  Without the baton it is buffered, as long as there
\* is room in the buffer, and the first loop of work() calls search() once more.  It
\* does not ask whether the chunk is complete, which it is if the packet was found in
\* its last step.
KeepSearching(i) == ~has_baton[i] /\ id_holder # i /\ Len(buffered[i]) < MaxBuffered

Detect_Forgets(i, e) ==
    LET d == Detection(Now(i), e) IN
    /\ pc[i] = "search" /\ ~Completed(i) /\ d.of \in packets
    /\ Step(i)
    /\ IF KeepSearching(i)
       THEN /\ buffered' = [buffered EXCEPT ![i] = Append(@, d)]
            /\ Goto(i, IF pos[i] + 1 = A + B THEN "again" ELSE "search")
            /\ UNCHANGED found
       ELSE /\ found' = [found EXCEPT ![i] = IF has_baton[i] \/ id_holder = i THEN <<d>> ELSE <<>>]
            /\ Goto(i, IF has_baton[i] THEN "emit" ELSE "wait_to")
            /\ UNCHANGED buffered
    /\ detected' = detected \cup {d.of}
    /\ UNCHANGED <<packets, baton, irrq, report, chunk, has_baton, no_more, queue, keep_running>>
Detect(i, e) ==
    LET d == Detection(Now(i), e) IN
    /\ pc[i] = "search" /\ ~Completed(i) /\ d.of \in packets
    /\ Step(i)
    /\ IF KeepSearching(i)
       THEN /\ buffered' = [buffered EXCEPT ![i] = Append(@, d)]
            /\ Goto(i, IF pos[i] + 1 = A + B THEN "again" ELSE "search")
            /\ UNCHANGED found
       ELSE /\ found' = [found EXCEPT ![i] = <<d>>]
            /\ Goto(i, IF has_baton[i] THEN "emit" ELSE "wait_to")
            /\ UNCHANGED buffered
    /\ detected' = detected \cup {d.of}
    /\ UNCHANGED <<packets, baton, irrq, report, chunk, has_baton, no_more, queue, keep_running>>

\* search() finds the chunk complete: it goes on with the next chunk of the worker,
\* before the baton of this one has been awaited.
SearchAgain(i) ==
    /\ pc[i] = "again"
    /\ chunk' = [chunk EXCEPT ![i] = @ + N]
    /\ pos' = [pos EXCEPT ![i] = 0]
    /\ Goto(i, "search")
    /\ UNCHANGED <<packets, baton, irrq, report, buffered, found, has_baton, no_more, queue,
                   keep_running, detected>>

\* search() reached the end of the overlap without another packet.
EndOfSearch(i) ==
    /\ pc[i] = "search" /\ Completed(i) /\ ~has_baton[i]
    /\ Goto(i, "wait_to")
    /\ UNCHANGED <<packets, baton, irrq, report, search, queue, keep_running, detected>>

-----------------------------------------------------------------------------
(* With the baton *)

\* baton_t::wait_to(): no wait if the worker holds the baton already.
WaitTo(i) ==
    /\ pc[i] \in {"wait_to", "waiting"}
    /\ IF id_holder = i
       THEN Goto(i, "flush") /\ has_baton' = [has_baton EXCEPT ![i] = TRUE]
       ELSE Goto(i, "waiting") /\ UNCHANGED has_baton
    /\ UNCHANGED <<packets, baton, irrq, report, chunk, pos, buffered, found, no_more, queue,
                   keep_running, detected>>

\* It times out and the pool stops: work() returns.
WaitTimeout_Retries(i) ==
    /\ pc[i] = "waiting" /\ ~keep_running
    /\ Goto(i, "wait_to")
    /\ UNCHANGED <<packets, baton, irrq, report, search, queue, keep_running, detected>>
WaitTimeout(i) ==
    /\ pc[i] = "waiting" /\ ~keep_running
    /\ Goto(i, "exited")
    /\ UNCHANGED <<packets, baton, irrq, report, search, queue, keep_running, detected>>

EnqueueJob(j) == jobs' = IF permeable THEN Append(jobs, j) ELSE jobs

\* is_sync_time_unique()
Unique_NotBefore(t) == t - sync_time_last >= 0
Unique(t) == t - sync_time_last > UniqueLimit

\* enqueue_job_nto() of a detection, with the test for an irregular job.
EnqueueDetection(i, d, l) ==
    /\ IF Unique(d.time) THEN sync_time_last' = d.time /\ EnqueueJob(SyncJob(d))
                         ELSE UNCHANGED <<sync_time_last, jobs>>
    /\ CallIfDue(i, d.time, l)

\* The buffered detections come first, the oldest before the others.
Flush(i) ==
    /\ pc[i] = "flush"
    /\ IF buffered[i] = <<>>
       THEN Goto(i, "emit") /\ UNCHANGED <<sync_time_last, jobs, buffered, no_more>>
       ELSE /\ EnqueueDetection(i, Head(buffered[i]), "flush")
            /\ buffered' = [buffered EXCEPT ![i] = Tail(@)]
    /\ UNCHANGED <<packets, register_cnt, register_now, id_holder, period_cnt, chunk_done, irrq,
                   report, chunk, pos, found, has_baton, permeable, keep_running, detected>>

\* Then the packet search() returned, if any.
Emit(i) ==
    /\ pc[i] = "emit"
    /\ IF found[i] = <<>>
       THEN Goto(i, "search") /\ UNCHANGED <<sync_time_last, jobs, found, no_more>>
       ELSE /\ EnqueueDetection(i, found[i][1], "search")
            /\ found' = [found EXCEPT ![i] = <<>>]
    /\ UNCHANGED <<packets, register_cnt, register_now, id_holder, period_cnt, chunk_done, irrq,
                   report, chunk, pos, buffered, has_baton, permeable, keep_running, detected>>

\* The rest of enqueue_irregular_job_if_due().  The worker goes on where it
\* was: in the search, or with its buffered detections.
PopReport(i) ==
    /\ pc[i] = "pop"
    /\ EnqueueJob(IrregularJob(reports[it_next], no_more[i]))
    /\ Pop
    /\ Goto(i, IF has_baton[i] /\ buffered[i] # <<>> THEN "flush"
               ELSE IF has_baton[i] THEN "emit" ELSE "search")
    /\ no_more' = [no_more EXCEPT ![i] = 0]
    /\ UNCHANGED <<packets, baton, report, chunk, pos, buffered, found, has_baton, permeable,
                   keep_running, detected>>

Successor_SkipsLast == (id_holder + 1) % (N - 1)
Successor == (id_holder + 1) % N

\* A regular job every Period chunks, with the time of the end of the chunk.
RegularReport_WithOverlap(i) == RegularJob(ChunkEnd_WithOverlap(chunk[i]), sync_time_last)
RegularReport(i) == RegularJob(ChunkEnd(chunk[i]), sync_time_last)
EnqueueRegularJob(i) ==
    IF Period > 0 /\ period_cnt + 1 = Period
    THEN period_cnt' = 0 /\ EnqueueJob(RegularReport(i))
    ELSE /\ period_cnt' = IF Period = 0 THEN 0 ELSE period_cnt + 1
         /\ UNCHANGED jobs

\* What the assertion "time not continuous" compares.
Continuous(i) == chunk_done = None \/ ChunkStart(chunk[i]) - ChunkEnd(chunk_done) = 1

\* The chunk is done: a regular job if one is due, the assertion, and pass_on().
PassOn(i) ==
    /\ pc[i] = "search" /\ Completed(i) /\ has_baton[i]
    /\ EnqueueRegularJob(i)
    /\ IF Continuous(i)
       THEN chunk_done' = chunk[i] /\ id_holder' = Successor /\ Goto(i, "loop")
       ELSE Goto(i, "failed") /\ UNCHANGED <<chunk_done, id_holder>>
    /\ UNCHANGED <<packets, register_cnt, register_now, sync_time_last, irrq, report, search,
                   permeable, keep_running, detected>>

\* worker_pool_t::work_stop()
Stop ==
    /\ keep_running
    /\ keep_running' = FALSE
    /\ UNCHANGED <<packets, baton, irrq, pc, report, search, queue, detected>>

Terminated == (Failed \/ \A i \in Id : pc[i] = "exited") /\ UNCHANGED vars

-----------------------------------------------------------------------------

WorkerStep(i) ==
    \/ \E s \in Start : Register(i, s)
    \/ Leave(i) \/ Loop(i)
    \/ Silence(i) \/ (\E e \in Error : Detect(i, e)) \/ SearchAgain(i) \/ EndOfSearch(i)
    \/ WaitTo(i) \/ Flush(i) \/ Emit(i) \/ PopReport(i) \/ PassOn(i)

Next ==
    \/ ~Failed /\ \E i \in Id : WorkerStep(i) \/ WaitTimeout(i)
    \/ ~Failed /\ \E t \in ReportTime : PushReport(t)
    \/ ~Failed /\ Stop
    \/ Terminated

Spec == Init /\ [][Next]_vars

\* Every thread that can run does, and the condition variable of the baton
\* times out in the end.  Nothing is assumed of the firmware or of ctrl+c.
Fairness ==
    \A i \in Id : WF_vars(~Failed /\ WorkerStep(i)) /\ SF_vars(~Failed /\ WaitTimeout(i))

FairSpec == Spec /\ Fairness

-----------------------------------------------------------------------------
(* Properties *)

Jobs(k) == {n \in 1 .. Len(jobs) : jobs[n].kind = k}

\* Neighbouring workers detect the packets of the overlap twice, at slightly
\* different times.  Sync jobs are nevertheless in order and without doubles.
EveryPacketOnce ==
    \A m, n \in Jobs("sync") : m < n =>
        jobs[m].time < jobs[n].time /\ jobs[m].of # jobs[n].of

\* Packets whose detections a worker has in its hands, those it has not enqueued yet,
\* and packets that have their job.
InHandsOf(i) == {buffered[i][k].of : k \in DOMAIN buffered[i]} \cup
                {found[i][k].of : k \in DOMAIN found[i]}
InHand == UNION {InHandsOf(i) : i \in Id}
Served == {jobs[n].of : n \in Jobs("sync")}

\* Whoever detects a packet, and with or without the baton, a job is put into the
\* queue for it, as long as the pool is not stopped.
NoDetectionLost == keep_running => detected \subseteq InHand \cup Served

\* A regular report guarantees "that no more packets will be found before" the end
\* of its chunk and before the latest unique packet.
BarrierHolds ==
    \A m \in Jobs("regular"), n \in Jobs("sync") : m < n =>
        jobs[n].time > jobs[m].time /\ jobs[n].time > jobs[m].of

\* Only the holder of the baton enqueues irregular jobs, there is a report to enqueue,
\* and "no more packets can be found before the specified time": each packet before it
\* has its job, or the holder itself found it and will enqueue it next.  Excepted are
\* packets that were missed where they were searched for, also those the holder missed
\* in the overlap behind its chunk and a successor found, and a holder that went on to
\* its next chunk without the baton, after which TimeContinuous does not hold.
Missed(i, p) ==
    IF p \in detected
    THEN p > ChunkEnd(chunk[i])
    ELSE \/ chunk_done # None /\ p <= ChunkEnd(chunk_done)
         \/ p \in ChunkStart(chunk[i]) .. Now(i) - 1
IrregularAfterSearch ==
    \A i \in Id : pc[i] = "pop" =>
        /\ id_holder = i /\ it_next # None
        /\ Continuous(i) =>
            \A p \in packets : p \in ChunkStart(N * register_now) .. next_time - 1 =>
                p \in Served \cup InHandsOf(i) \/ Missed(i, p)

\* The baton goes round and skips nobody: every chunk is completed in its turn, as
\* long as the pool runs.  Excepted is the worker whose turn it is but that went on to a
\* later chunk of its own without the baton, after which TimeContinuous does not hold.
WentOn(i) == pc[i] = "failed" /\ (chunk[i] - chunk_done - 1) % N = 0
EveryChunkDone ==
    \A c \in 0 .. LastChunk : <>(chunk_done = c \/ ~keep_running \/ \E i \in Id : WentOn(i))

\* All threads terminate after work_stop(), also those that wait for the baton of
\* a worker that has gone.
SyncShutdown == ~keep_running ~> Failed \/ \A i \in Id : pc[i] = "exited"

\* The assertion of work() at the end of a chunk: the chunk follows the one that was
\* completed before it.
TimeContinuous == ~Failed

=============================================================================
