---------------------------- MODULE JobPipeline ----------------------------
(***************************************************************************)
(* The job pipeline of the PHY: threads that detect packets or receive     *)
(* application data put jobs into the job queue of a worker pool           *)
(* (job_queue_mc_t), the worker_tx_rx_t threads of the pool take them out  *)
(* and call the firmware (tpoint_t) under the token (token_t).  Several    *)
(* pools may share one firmware and therefore one token                    *)
(* (upper_t::init_one_to_many); a single pool is the special case          *)
(* Pool = {p}.                                                             *)
(*                                                                         *)
(* Sample processing is abstracted to its outcome: a demodulated PCC is or *)
(* is not a valid PLCF, the firmware is or is not interested in the PDC.   *)
(***************************************************************************)
EXTENDS Naturals, Sequences, FiniteSets

CONSTANTS
    Pool,          \* worker pools that share one firmware and one token
    Worker,        \* worker_tx_rx_t threads of all pools
    SyncProducer,  \* worker_sync_t threads of all pools
    AppProducer,   \* application_server_t threads
    Opener,        \* the worker_sync_t with id 0 of each pool
    Registrar,     \* the worker_sync_t of each pool that registers last at its baton
    FirstPool,     \* the pool with id 0
    PoolOf,        \* the pool of every thread
    HarqRx,        \* the HARQ RX processes of the firmware (process_pool_t)
    Capacity,      \* preallocated slots of a job queue
    MaxIrregular,  \* bound: reports pending in an irregular_queue_t
    Kind,          \* kinds of jobs that occur, see AllKinds
    MaxJobs,       \* bound: no producer starts a job once a queue accepted so many
    NoThread, NoPool, NoHarq

Producer == SyncProducer \cup AppProducer
AllKinds == {"regular", "irregular", "sync", "application"}

ASSUME ConstantsAssumption ==
    /\ PoolOf \in [Worker \cup Producer -> Pool]
    /\ Opener \subseteq SyncProducer /\ Registrar \subseteq SyncProducer
    /\ \A q, r \in Registrar : PoolOf[q] = PoolOf[r] => q = r
    /\ \A p \in Pool : \E q \in Registrar : PoolOf[q] = p
    /\ FirstPool \in Pool
    /\ SyncProducer \cap AppProducer = {} /\ Worker \cap Producer = {} /\ IsFiniteSet(Worker)
    /\ Kind \subseteq AllKinds
    /\ Capacity \in Nat /\ MaxIrregular \in Nat /\ MaxJobs \in Nat
    /\ NoThread \notin Worker \cup Producer /\ NoPool \notin Pool /\ NoHarq \notin HarqRx

\* A default constructed job_t holds std::monostate.
NoJob == [content |-> "monostate", fifo_cnt |-> 0]
Job   == [content : Kind \cup {"monostate"}, fifo_cnt : Nat]

VARIABLES
    \* job_queue_mc_t
    permeable,     \* [Pool -> BOOLEAN]
    job_vec,       \* [Pool -> Seq(Job)]
    enq_cnt,       \* [Pool -> Nat], the fifo_cnt of the queue
    irregular,     \* [Pool -> Nat], reports pending in the irregular_queue_t
    \* token_t
    fifo_cnt,      \* [Pool -> Nat], FIFO calls completed per pool
    id_holder,     \* pool on whose behalf the token is held
    lockv,         \* thread that owns the mutex
    \* threads
    keep_running,  \* [Pool -> BOOLEAN]
    app_running,   \* application threads not asked to stop yet
    ppc, content,  \* producers: control and content of the job being put
    wpc, job,      \* workers: control and local job
    after,         \* workers: where to go after the firmware returned
    hp_rx,         \* workers: HARQ process in use
    fatal,         \* the fatal assertion that terminated the program
    \* history, not in the code
    accepted       \* [Pool -> Seq(Kind)], all jobs ever accepted

queue   == <<permeable, job_vec, enq_cnt, irregular>>
token   == <<fifo_cnt, id_holder, lockv>>
prods   == <<ppc, content>>
workers == <<wpc, job, after, hp_rx>>
run     == <<keep_running, app_running, fatal>>
vars    == <<queue, token, prods, workers, run, accepted>>

\* Control points at which a worker's job has not yet got its FIFO call.
Unserved == {"fifo", "wait", "lock_fifo", "work"}
\* Control points at which the firmware is being executed.
InFirmware == {"work", "work_pdc", "work_channel"}
\* Control points after the FIFO call.
Served == {"notify", "lock_pdc", "work_pdc", "tx", "lock_channel", "work_channel",
           "tx_channel", "finalize"}

ProducerPc == {"starting", "work_start", "registered", "idle", "enqueue", "exited"}
WorkerPc == Unserved \cup Served \cup {"get", "drain", "exited"}

\* HARQ processes that try_lock_outer() can lock.
Free == HarqRx \ {hp_rx[w] : w \in Worker}

TypeOK ==
    /\ permeable \in [Pool -> BOOLEAN]
    /\ job_vec \in [Pool -> Seq(Job)]
    /\ enq_cnt \in [Pool -> Nat]
    /\ irregular \in [Pool -> Nat]
    /\ fifo_cnt \in [Pool -> Nat]
    /\ id_holder \in Pool \cup {NoPool}
    /\ lockv \in Worker \cup Producer \cup {NoThread}
    /\ keep_running \in [Pool -> BOOLEAN]
    /\ app_running \in BOOLEAN
    /\ fatal \in {"none", "no_slot", "no_token"}
    /\ ppc \in [Producer -> ProducerPc]
    /\ content \in [Producer -> Kind \cup {"monostate"}]
    /\ wpc \in [Worker -> WorkerPc]
    /\ job \in [Worker -> Job]
    /\ after \in [Worker -> {"get", "pcc", "lock_pdc", "tx"}]
    /\ \A w \in Worker : wpc[w] = "notify" => after[w] # "pcc"
    /\ hp_rx \in [Worker -> HarqRx \cup {NoHarq}]
    /\ accepted \in [Pool -> Seq(Kind \cup {"monostate"})]

Init ==
    /\ permeable = [p \in Pool |-> FALSE]
    /\ job_vec = [p \in Pool |-> <<>>]
    /\ enq_cnt = [p \in Pool |-> 0]
    /\ irregular = [p \in Pool |-> 0]
    /\ fifo_cnt = [p \in Pool |-> 0]
    /\ id_holder = NoPool
    /\ lockv = NoThread
    /\ keep_running = [p \in Pool |-> TRUE]
    /\ app_running = TRUE
    /\ fatal = "none"
    /\ ppc = [q \in Producer |-> IF q \in SyncProducer THEN "starting" ELSE "idle"]
    /\ content = [q \in Producer |-> "monostate"]
    /\ wpc = [w \in Worker |-> "get"]
    /\ job = [w \in Worker |-> NoJob]
    /\ after = [w \in Worker |-> "get"]
    /\ hp_rx = [w \in Worker |-> NoHarq]
    /\ accepted = [p \in Pool |-> <<>>]

-----------------------------------------------------------------------------
(* Start-up and producers *)

\* token_t::unlock()
Unlock ==
    /\ id_holder' = NoPool
    /\ lockv' = NoThread

\* The last worker_sync_t of a pool registers at the baton, which calls
\* work_start() under the token, taken with try_lock() for the pool with id 0.
StartFirmware(q) ==
    /\ q \in Registrar /\ ppc[q] = "starting"
    /\ IF lockv = NoThread
       THEN /\ lockv' = q /\ id_holder' = FirstPool
            /\ ppc' = [ppc EXCEPT ![q] = "work_start"]
            /\ fatal' = fatal
       ELSE /\ fatal' = "no_token"
            /\ UNCHANGED <<lockv, id_holder, ppc>>
    /\ UNCHANGED <<queue, fifo_cnt, content, workers, keep_running, app_running, accepted>>

ReturnStart(q) ==
    /\ ppc[q] = "work_start"
    /\ Unlock
    /\ ppc' = [ppc EXCEPT ![q] = "registered"]
    /\ UNCHANGED <<queue, fifo_cnt, content, workers, run, accepted>>

\* register_and_wait_for_others_nto() can return.
Registered_AtOnce(q) == ppc[q] \in {"starting", "registered"}
Registered(q) ==
    IF q \in Registrar THEN ppc[q] = "registered"
    ELSE /\ ppc[q] = "starting"
         /\ \A r \in Registrar : PoolOf[r] = PoolOf[q] => ppc[r] \notin {"starting", "work_start"}

\* A worker_sync_t enters its chunk loop.  The last one to register pushes the
\* report work_start() may have returned, the one with id 0 opens the queue.
StartSync(q) ==
    /\ q \in SyncProducer /\ Registered(q)
    /\ ppc' = [ppc EXCEPT ![q] = "idle"]
    /\ permeable' = IF q \in Opener THEN [permeable EXCEPT ![PoolOf[q]] = TRUE]
                                    ELSE permeable
    /\ \/ irregular' = irregular
       \/ /\ q \in Registrar /\ irregular[PoolOf[q]] < MaxIrregular
          /\ irregular' = [irregular EXCEPT ![PoolOf[q]] = @ + 1]
    /\ UNCHANGED <<job_vec, enq_cnt, token, content, workers, run, accepted>>

\* The kinds of jobs a producer puts: an irregular report is popped first.
Puts(q, k) ==
    IF q \in AppProducer THEN k = "application"
    ELSE k # "application" /\ (k = "irregular" => irregular[PoolOf[q]] > 0)

\* enqueue_nto() up to the test of permeable, which is made before the lock.
Produce(q, k) ==
    /\ ppc[q] = "idle" /\ Puts(q, k) /\ enq_cnt[PoolOf[q]] < MaxJobs
    /\ irregular' = IF k = "irregular" THEN [irregular EXCEPT ![PoolOf[q]] = @ - 1]
                                       ELSE irregular
    /\ IF permeable[PoolOf[q]]
       THEN /\ content' = [content EXCEPT ![q] = k]
            /\ ppc' = [ppc EXCEPT ![q] = "enqueue"]
       ELSE UNCHANGED prods
    /\ UNCHANGED <<permeable, job_vec, enq_cnt, token, workers, run, accepted>>

NumberedJob(q) == [content |-> content[q], fifo_cnt |-> enq_cnt[PoolOf[q]]]

\* try_enqueue() with the single producer token: the queue is a FIFO queue.  With
\* a token per producer it would be a queue of sub-queues.
Put_SubQueues(vec, j) == <<j>> \o vec
Put(vec, j) == Append(vec, j)

\* The critical section of enqueue_nto(): number the job and append it.
Enqueue(q) ==
    /\ ppc[q] = "enqueue" /\ Len(job_vec[PoolOf[q]]) < Capacity
    /\ job_vec' = [job_vec EXCEPT ![PoolOf[q]] = Put(@, NumberedJob(q))]
    /\ enq_cnt' = [enq_cnt EXCEPT ![PoolOf[q]] = @ + 1]
    /\ accepted' = [accepted EXCEPT ![PoolOf[q]] = Append(@, content[q])]
    /\ ppc' = [ppc EXCEPT ![q] = "idle"]
    /\ content' = [content EXCEPT ![q] = "monostate"]
    /\ UNCHANGED <<permeable, irregular, token, workers, run>>

\* No free slot: PHY_POOL_JOB_QUEUE_JOB_SLOT_UNAVAILABILITY_FATAL_OR_DISCARD.
NoSlot(q) ==
    /\ ppc[q] = "enqueue" /\ Len(job_vec[PoolOf[q]]) >= Capacity
    /\ fatal' = "no_slot"
    /\ UNCHANGED <<queue, token, prods, workers, keep_running, app_running, accepted>>

ExitProducer(q) ==
    /\ ppc[q] = "idle"
    /\ IF q \in AppProducer THEN ~app_running ELSE ~keep_running[PoolOf[q]]
    /\ ppc' = [ppc EXCEPT ![q] = "exited"]
    /\ UNCHANGED <<queue, token, content, workers, run, accepted>>

-----------------------------------------------------------------------------
(* Workers: from the queue to the FIFO call *)

Goto(w, pc) == wpc' = [wpc EXCEPT ![w] = pc]

\* The next iteration.  The code leaves the local variables as they are, but
\* never reads them before the next job overwrites them.
Forget(w) ==
    /\ job' = [job EXCEPT ![w] = NoJob]
    /\ after' = [after EXCEPT ![w] = "get"]

\* wait_for_new_job_to() returned a job.  demoddecod_rx_pcc(), which no other
\* thread can observe, finds a PLCF ("pcc") or not ("get").
Dequeue(w) ==
    /\ wpc[w] = "get" /\ job_vec[PoolOf[w]] # <<>>
    /\ job' = [job EXCEPT ![w] = Head(job_vec[PoolOf[w]])]
    /\ job_vec' = [job_vec EXCEPT ![PoolOf[w]] = Tail(@)]
    /\ \E r \in IF job'[w].content = "sync" THEN {"pcc", "get"} ELSE {"tx"} :
            after' = [after EXCEPT ![w] = r]
    /\ Goto(w, "fifo")
    /\ UNCHANGED <<permeable, enq_cnt, irregular, token, prods, hp_rx, run, accepted>>

\* The job of w is the next one of its pool.
MyTurn_Early(w) == job[w].fifo_cnt <= fifo_cnt[PoolOf[w]] + 1
MyTurn(w) == fifo_cnt[PoolOf[w]] = job[w].fifo_cnt

\* lock_fifo_to(): compare the counts under the mutex, then release it.
FifoCheck(w) ==
    /\ wpc[w] = "fifo" /\ lockv = NoThread
    /\ Goto(w, IF MyTurn(w) THEN "lock_fifo" ELSE "wait")
    /\ UNCHANGED <<queue, token, prods, job, after, hp_rx, run, accepted>>

\* The condition variable times out while the pool runs, or wakes spuriously.
Wakeup(w) ==
    /\ wpc[w] = "wait" /\ lockv = NoThread
    /\ Goto(w, "fifo")
    /\ UNCHANGED <<queue, token, prods, job, after, hp_rx, run, accepted>>

\* It times out and TOKEN_LOCK_FIFO_OR_RETURN sees that the pool stops: the
\* worker returns from work() and its job is never processed.
TimeoutReturn_Retries(w) == ~keep_running[PoolOf[w]] /\ Wakeup(w)
TimeoutReturn(w) ==
    /\ wpc[w] = "wait" /\ lockv = NoThread /\ ~keep_running[PoolOf[w]]
    /\ Goto(w, "exited")
    /\ UNCHANGED <<queue, token, prods, job, after, hp_rx, run, accepted>>

\* lockv.lock() succeeds.
CanLock_PdcAnytime(w) == lockv = NoThread \/ wpc[w] = "lock_pdc"
CanLock_PerPool(w) == lockv = NoThread \/ id_holder # PoolOf[w]
CanLock(w) == lockv = NoThread

\* token_t::lock(), from lock_fifo_to() and for the calls out of order.
Lock(w) ==
    /\ wpc[w] \in {"lock_fifo", "lock_pdc", "lock_channel"} /\ CanLock(w)
    /\ lockv' = w
    /\ id_holder' = PoolOf[w]
    /\ Goto(w, CASE wpc[w] = "lock_fifo" -> "work"
                 [] wpc[w] = "lock_pdc"  -> "work_pdc"
                 [] OTHER                -> "work_channel")
    /\ UNCHANGED <<queue, fifo_cnt, prods, job, after, hp_rx, run, accepted>>

\* work_regular(), work_irregular(), work_pcc(), work_application() return (no
\* call is made for a sync job without PLCF) and unlock_fifo() runs up to its
\* notification.  work_pcc() may ask for the PDC and locks a HARQ process.
ReturnFifo(w) ==
    /\ wpc[w] = "work"
    /\ fifo_cnt' = [fifo_cnt EXCEPT ![id_holder] = @ + 1]
    /\ Unlock
    /\ Goto(w, "notify")
    /\ \/ /\ after[w] # "pcc"
          /\ UNCHANGED <<after, hp_rx>>
       \/ /\ after[w] = "pcc"
          /\ after' = [after EXCEPT ![w] = "get"]
          /\ UNCHANGED hp_rx
       \/ /\ after[w] = "pcc"
          /\ after' = [after EXCEPT ![w] = "lock_pdc"]
          /\ \E h \in Free : hp_rx' = [hp_rx EXCEPT ![w] = h]
    /\ UNCHANGED <<queue, prods, job, run, accepted>>

\* Where a worker continues after a notification.
Woken_Never(w) == wpc[w]
Woken(w) == IF wpc[w] = "wait" THEN "fifo" ELSE wpc[w]

\* cv.notify_all() of unlock_fifo(), after the mutex was released.  Then the PDC
\* is demodulated, packets are transmitted, or the next job is waited for.
NotifyAll(w) ==
    /\ wpc[w] = "notify"
    /\ wpc' = [v \in Worker |-> IF v = w THEN after[w] ELSE Woken(v)]
    /\ IF after[w] = "get" THEN Forget(w) ELSE UNCHANGED <<job, after>>
    /\ UNCHANGED <<queue, token, prods, hp_rx, run, accepted>>

-----------------------------------------------------------------------------
(* Workers: PDC, transmission and channel measurement *)

\* work_pdc(), work_pdc_error() or work_channel() returns.
Return(w) ==
    /\ wpc[w] \in {"work_pdc", "work_channel"}
    /\ Unlock
    /\ Goto(w, IF wpc[w] = "work_pdc" THEN "tx" ELSE "tx_channel")
    /\ UNCHANGED <<queue, fifo_cnt, prods, job, after, hp_rx, run, accepted>>

\* run_tx_chscan(): transmit, push an irregular report, measure a channel.  The
\* recursive call after a measurement can not ask for another one.
RunTxChscan(w) ==
    /\ wpc[w] \in {"tx", "tx_channel"}
    /\ \/ irregular' = irregular
       \/ /\ irregular[PoolOf[w]] < MaxIrregular
          /\ irregular' = [irregular EXCEPT ![PoolOf[w]] = @ + 1]
    /\ \/ wpc[w] = "tx" /\ Goto(w, "lock_channel") /\ UNCHANGED <<job, after>>
       \/ hp_rx[w] # NoHarq /\ Goto(w, "finalize") /\ UNCHANGED <<job, after>>
       \/ hp_rx[w] = NoHarq /\ Goto(w, "get") /\ Forget(w)
    /\ UNCHANGED <<permeable, job_vec, enq_cnt, token, prods, hp_rx, run, accepted>>

\* hp_rx->finalize(): every firmware asks for reset_and_terminate.
Finalize(w) ==
    /\ wpc[w] = "finalize"
    /\ hp_rx' = [hp_rx EXCEPT ![w] = NoHarq]
    /\ Goto(w, "get") /\ Forget(w)
    /\ UNCHANGED <<queue, token, prods, run, accepted>>

-----------------------------------------------------------------------------
(* Shutdown *)

Exited(p) == /\ \A w \in Worker : PoolOf[w] = p => wpc[w] = "exited"
             /\ \A q \in Producer : PoolOf[q] = p => ppc[q] = "exited"

\* upper->stop_all_layer_units(): tpoint_t::work_stop() stops the application
\* threads, at any time, even before work_start() was called.  The p2p firmware
\* waits until its connections are closed, which takes work functions, and then
\* makes its job queue impermeable.
StopUpper ==
    /\ app_running
    /\ app_running' = FALSE
    /\ \/ permeable' = permeable
       \/ \E p \in Pool : permeable[p] /\ permeable' = [permeable EXCEPT ![p] = FALSE]
    /\ UNCHANGED <<job_vec, enq_cnt, irregular, token, prods, workers, keep_running, fatal, accepted>>

\* phy->stop_all_layer_units(): worker_pool_t::work_stop() of one pool after the
\* other; a call returns after all threads of its pool were joined.
StopPool(p) ==
    /\ ~app_running /\ \A q \in AppProducer : ppc[q] = "exited"
    /\ keep_running[p]
    /\ \A o \in Pool : keep_running[o] \/ Exited(o)
    /\ keep_running' = [keep_running EXCEPT ![p] = FALSE]
    /\ UNCHANGED <<queue, token, prods, workers, app_running, fatal, accepted>>

\* work() leaves its loop after the poll period of keep_running.
LeaveLoop(w) ==
    /\ wpc[w] = "get" /\ ~keep_running[PoolOf[w]]
    /\ Goto(w, "drain")
    /\ UNCHANGED <<queue, token, prods, job, after, hp_rx, run, accepted>>

\* "keep running for some more time to dequeue all jobs": they are discarded.
Drain(w) ==
    /\ wpc[w] = "drain" /\ job_vec[PoolOf[w]] # <<>>
    /\ job_vec' = [job_vec EXCEPT ![PoolOf[w]] = Tail(@)]
    /\ UNCHANGED <<permeable, enq_cnt, irregular, token, prods, workers, run, accepted>>

ExitWorker(w) ==
    /\ wpc[w] = "drain"
    /\ Goto(w, "exited")
    /\ UNCHANGED <<queue, token, prods, job, after, hp_rx, run, accepted>>

\* All threads were joined, or a fatal assertion ended the program.
Terminated == (fatal # "none" \/ \A p \in Pool : Exited(p)) /\ UNCHANGED vars

-----------------------------------------------------------------------------

ProducerStep(q) ==
    \/ StartFirmware(q) \/ ReturnStart(q) \/ StartSync(q)
    \/ Enqueue(q) \/ NoSlot(q) \/ ExitProducer(q)

WorkerStep(w) ==
    \/ Dequeue(w) \/ FifoCheck(w) \/ Lock(w) \/ ReturnFifo(w) \/ NotifyAll(w)
    \/ Return(w) \/ RunTxChscan(w) \/ Finalize(w)
    \/ LeaveLoop(w) \/ Drain(w) \/ ExitWorker(w)

Next ==
    \/ /\ fatal = "none"
       /\ \/ \E q \in Producer : ProducerStep(q) \/ \E k \in Kind : Produce(q, k)
          \/ \E w \in Worker : WorkerStep(w) \/ Wakeup(w) \/ TimeoutReturn(w)
          \/ \E p \in Pool : StopPool(p)
          \/ StopUpper
    \/ Terminated

Spec == Init /\ [][Next]_vars

\* The scheduler runs every thread that can run, and a condition variable with
\* a timeout returns in the end.  Nothing is assumed of the producers' demand,
\* of ctrl+c, or of a timeout while the pool is running.
Fairness ==
    /\ \A q \in Producer : WF_vars(fatal = "none" /\ ProducerStep(q))
    /\ \A w \in Worker : WF_vars(fatal = "none" /\ WorkerStep(w))
    /\ \A w \in Worker : SF_vars(fatal = "none" /\ TimeoutReturn(w))
    /\ \A p \in Pool : WF_vars(fatal = "none" /\ StopPool(p))

FairSpec == Spec /\ Fairness

-----------------------------------------------------------------------------
(* Properties *)

\* The assertions of token_t never fire: no worker waits for a job that already
\* had its turn, the mutex is free only without a holder, and the pool whose
\* count unlock_fifo() increments is the pool of the worker that calls it.
TokenAssertions ==
    /\ \A w \in Worker : wpc[w] \in {"fifo", "wait"} => fifo_cnt[PoolOf[w]] <= job[w].fifo_cnt
    /\ lockv = NoThread => id_holder = NoPool
    /\ \A w \in Worker : wpc[w] \in InFirmware => id_holder = PoolOf[w]

\* Threads that execute the firmware.
Inside == {w \in Worker : wpc[w] \in InFirmware} \cup {q \in Producer : ppc[q] = "work_start"}

\* Work functions of a firmware never run concurrently, whatever pools, and
\* whatever mix of lock_fifo_to(), lock() and try_lock(), they are called from.
FirmwareExclusive == \A s, t \in Inside : s = t

\* "Called before any other work-function" (tpoint.hpp of work_start()).  It holds
\* with one pool; the last worker of a second pool calls it while the first works.
WorkStartFirst ==
    (\E q \in Registrar : ppc[q] \in {"starting", "work_start"}) =>
        /\ \A w \in Worker : wpc[w] \notin InFirmware
        /\ \A p \in Pool : fifo_cnt[p] = 0

\* "lock with id_caller=0, always valid": the baton always gets the token for
\* work_start(), "unable to lock token" is never asserted.
StartGetsToken == fatal # "no_token"

\* The worker with a FIFO call holds the job accepted as the fifo_cnt-th of its
\* pool, although the mutex was released between the comparison and the lock.
FifoOrder ==
    \A w \in Worker : wpc[w] \in {"lock_fifo", "work"} =>
        LET p == PoolOf[w] IN
        /\ job[w].fifo_cnt = fifo_cnt[p]
        /\ fifo_cnt[p] < Len(accepted[p])
        /\ job[w].content = accepted[p][fifo_cnt[p] + 1]

\* unlock_fifo() notifies after it released the mutex.  A worker that sleeps
\* although its turn has come always has that notification ahead of it, it
\* never depends on the timeout of the condition variable.
NoLostWakeup ==
    \A w \in Worker : wpc[w] = "wait" /\ job[w].fifo_cnt = fifo_cnt[PoolOf[w]] =>
        \E v \in Worker : PoolOf[v] = PoolOf[w] /\ wpc[v] = "notify"

\* The fatal error described at job_queue_mc_t can not happen: workers never all
\* wait for a job that is still in the queue.  While a pool runs, whoever waits
\* waits for a job in the hands of another worker that is not waiting forever.
TurnIsHeld ==
    \A w \in Worker : keep_running[PoolOf[w]] /\ wpc[w] \in Unserved =>
        \E v \in Worker : /\ PoolOf[v] = PoolOf[w] /\ wpc[v] \in Unserved
                          /\ job[v].fifo_cnt = fifo_cnt[PoolOf[w]]

\* A HARQ process belongs to one worker from work_pcc() to finalize(), although
\* it is locked under the token and released without it, and it is not leaked.
HarqExclusive ==
    /\ \A v, w \in Worker : hp_rx[v] = hp_rx[w] /\ v # w => hp_rx[v] = NoHarq
    /\ \A w \in Worker : wpc[w] \in {"get", "drain", "exited"} => hp_rx[w] = NoHarq
    /\ \A w \in Worker : wpc[w] \in {"lock_pdc", "work_pdc"} => hp_rx[w] # NoHarq

\* "HARQ process RX unavailable" is never asserted when there are as many HARQ
\* processes as workers, in all pools, that share the firmware.
HarqAvailable ==
    Cardinality(Worker) <= Cardinality(HarqRx) =>
        \A w \in Worker : wpc[w] = "work" => Free # {}

\* While its pool keeps running, every accepted job has its turn.
EveryJobServed ==
    \A p \in Pool, n \in 1 .. MaxJobs :
        enq_cnt[p] >= n ~> (fifo_cnt[p] >= n \/ ~keep_running[p] \/ fatal # "none")

\* worker_pool_t::work_stop() returns: all threads of the pool terminate, also
\* those that wait for the turn of a job somebody else discards.
ShutdownCompletes ==
    \A p \in Pool : ~keep_running[p] ~> (Exited(p) \/ fatal # "none")

-----------------------------------------------------------------------------
(* The inductive invariant behind the safety properties *)

\* The mutex belongs to the thread that executes the firmware.
HolderInv ==
    /\ \A w \in Worker : wpc[w] \in InFirmware <=> lockv = w
    /\ \A q \in Producer : ppc[q] = "work_start" <=> lockv = q
    /\ lockv \in Worker => id_holder = PoolOf[lockv]
    /\ lockv = NoThread => id_holder = NoPool

\* A job is the one accepted at its number.
Genuine(p, j) == j.content = accepted[p][j.fifo_cnt + 1]

\* The queue holds the youngest accepted jobs in the order of their numbers.
QueueInv ==
    \A p \in Pool :
        /\ Len(accepted[p]) = enq_cnt[p]
        /\ fifo_cnt[p] + Len(job_vec[p]) <= enq_cnt[p]
        /\ \A i \in 1 .. Len(job_vec[p]) :
            /\ job_vec[p][i].fifo_cnt + Len(job_vec[p]) + 1 = enq_cnt[p] + i
            /\ Genuine(p, job_vec[p][i])

\* Workers hold different jobs that left the queue and did not have their turn.
HeldInv ==
    \A w \in Worker : wpc[w] \in Unserved =>
        /\ fifo_cnt[PoolOf[w]] <= job[w].fifo_cnt
        /\ job[w].fifo_cnt + Len(job_vec[PoolOf[w]]) < enq_cnt[PoolOf[w]]
        /\ Genuine(PoolOf[w], job[w])
        /\ \A v \in Worker : wpc[v] \in Unserved /\ PoolOf[v] = PoolOf[w] /\ v # w =>
                job[v].fifo_cnt # job[w].fifo_cnt

\* A worker that compared the counts successfully still has its turn.
TurnInv == \A w \in Worker : wpc[w] \in {"lock_fifo", "work"} => MyTurn(w)

IndInv == TypeOK /\ HolderInv /\ QueueInv /\ HeldInv /\ TurnInv

-----------------------------------------------------------------------------
(* Refinement: the pipeline implements FirmwareCalls *)

\* Workers that are in a FIFO call, a sync job without PLCF makes none.
InFifoCall == {w \in Worker : wpc[w] = "work" /\ after[w] # "get"}

CallOf(w) ==
    CASE wpc[w] = "work"     -> <<job[w].content, PoolOf[w], job[w].fifo_cnt + 1>>
      [] wpc[w] = "work_pdc" -> <<"pdc", PoolOf[w], job[w].fifo_cnt + 1>>
      [] OTHER               -> <<"channel", PoolOf[w], 0>>

\* Pools on whose behalf work_start() was called.
StartedPools == {PoolOf[q] : q \in {r \in Registrar : ppc[r] # "starting"}}

\* The turns taken per pool, the one being executed included.
TurnsTaken == [p \in Pool |-> IF \E w \in InFifoCall : PoolOf[w] = p
                              THEN fifo_cnt[p] + 1 ELSE fifo_cnt[p]]

\* A worker whose PCC asked for the PDC and whose call to work_pdc() is ahead.
Owes(w) == wpc[w] = "lock_pdc" \/ (wpc[w] = "notify" /\ after[w] = "lock_pdc")

PdcOf(w) == <<PoolOf[w], job[w].fifo_cnt + 1>>
PdcsOwed == {PdcOf(w) : w \in {v \in Worker : Owes(v)}}

\* The call the owner of the mutex is in.
CallInside ==
    IF lockv = NoThread \/ (lockv \in Worker \ InFifoCall /\ wpc[lockv] = "work") THEN <<>>
    ELSE IF lockv \in Producer THEN <<"start", PoolOf[lockv], 0>>
    ELSE CallOf(lockv)

Calls == INSTANCE FirmwareCalls WITH
    NoCall <- <<>>, started <- StartedPools, served <- TurnsTaken,
    owed <- PdcsOwed, inside <- CallInside

\* The calls a firmware sees are those tpoint.hpp promises it: work_start() once
\* and first, exclusive calls, in FIFO order per pool, and one work_pdc for a PCC
\* whose PDC was asked for.  With one pool only.
ImplementsFirmwareCalls == Calls!Spec

\* A firmware behind several pools gets this for each of them, all calls being
\* exclusive, and not what tpoint.hpp says of work_start(): it is called once per
\* pool, while the firmware may already serve another one (WorkStartFirst fails).
ImplementsCallsOfPools == Calls!SpecOfPools

=============================================================================
