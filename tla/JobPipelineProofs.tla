------------------------- MODULE JobPipelineProofs -------------------------
(***************************************************************************)
(* Proofs about JobPipeline for every number of pools, workers, producers, *)
(* HARQ processes and jobs: order and exclusion first; then that no wake-up*)
(* is lost, whoever waits waits for a job in the hands of another worker,  *)
(* HARQ processes are not shared; and, on top of it, that the pipeline     *)
(* implements FirmwareCalls.                                               *)
(***************************************************************************)
EXTENDS JobPipeline, FiniteSetTheorems, TLAPS

\* PoolOf gives every thread a pool.
LEMMA PoolOfType ==
    /\ \A w \in Worker : PoolOf[w] \in Pool
    /\ \A q \in Producer : PoolOf[q] \in Pool
BY ConstantsAssumption DEF Producer

\* The local variables of an idle worker are well-typed.
LEMMA NoJobType == NoJob \in Job
BY DEF NoJob, Job

LEMMA TypeInit == Init => TypeOK
<1> SUFFICES ASSUME Init PROVE TypeOK OBVIOUS
<1>1. job_vec \in [Pool -> Seq(Job)] /\ accepted \in [Pool -> Seq(Kind \cup {"monostate"})]
  BY DEF Init
<1>2. ppc \in [Producer -> ProducerPc] BY DEF Init, ProducerPc
<1>3. job \in [Worker -> Job] BY NoJobType DEF Init
<1>4. wpc \in [Worker -> WorkerPc] BY DEF Init, WorkerPc
<1> QED BY <1>1, <1>2, <1>3, <1>4 DEF Init, TypeOK

LEMMA TypeProducer ==
    ASSUME TypeOK, NEW q \in Producer, ProducerStep(q) \/ \E k \in Kind : Produce(q, k)
    PROVE  TypeOK'
<1> USE PoolOfType DEF TypeOK, vars, queue, token, prods, workers, run, ProducerPc
<1>1. CASE StartSync(q)
  <2>1. permeable' \in [Pool -> BOOLEAN] BY <1>1 DEF StartSync
  <2>2. irregular' \in [Pool -> Nat]
    <3>1. irregular[PoolOf[q]] + 1 \in Nat OBVIOUS
    <3> QED BY <1>1, <3>1 DEF StartSync
  <2>3. ppc' \in [Producer -> ProducerPc]
    BY <1>1 DEF StartSync
  <2> QED BY <1>1, <2>1, <2>2, <2>3 DEF StartSync
<1>2. CASE Enqueue(q)
  <2>1. NumberedJob(q) \in Job BY DEF NumberedJob, Job
  <2>2. job_vec' \in [Pool -> Seq(Job)] BY <1>2, <2>1 DEF Enqueue, Put
  <2>3. enq_cnt' \in [Pool -> Nat] BY <1>2, SMTT(60) DEF Enqueue
  <2>4. accepted' \in [Pool -> Seq(Kind \cup {"monostate"})] BY <1>2, SMTT(60) DEF Enqueue
  <2>5. /\ ppc' \in [Producer -> ProducerPc]
        /\ content' \in [Producer -> Kind \cup {"monostate"}]
    BY <1>2 DEF Enqueue
  <2> QED BY <1>2, <2>2, <2>3, <2>4, <2>5 DEF Enqueue
<1>3. CASE NoSlot(q) BY <1>3 DEF NoSlot
<1>4. CASE ExitProducer(q) BY <1>4 DEF ExitProducer
<1>5. ASSUME NEW k \in Kind, Produce(q, k) PROVE TypeOK'
  <2>1. irregular' \in [Pool -> Nat]
    <3>1. CASE k # "irregular" BY <1>5, <3>1 DEF Produce
    <3>2. CASE k = "irregular"
      <4>1. Puts(q, k) BY <1>5 DEF Produce
      <4>2. irregular[PoolOf[q]] > 0 BY <4>1, <3>2 DEF Puts
      <4>3. irregular[PoolOf[q]] - 1 \in Nat BY <4>2
      <4> QED BY <1>5, <3>2, <4>3 DEF Produce
    <3> QED BY <3>1, <3>2
  <2> QED BY <1>5, <2>1, ZenonT(60) DEF Produce
<1>6. CASE StartFirmware(q) BY <1>6, ConstantsAssumption, ZenonT(60) DEF StartFirmware
<1>7. CASE ReturnStart(q) BY <1>7 DEF ReturnStart, Unlock
<1> QED BY <1>1, <1>2, <1>3, <1>4, <1>5, <1>6, <1>7 DEF ProducerStep

LEMMA TypeWorker ==
    ASSUME TypeOK, NEW w \in Worker, WorkerStep(w) \/ Wakeup(w) \/ TimeoutReturn(w)
    PROVE  TypeOK'
<1> USE PoolOfType DEF TypeOK, vars, queue, token, prods, workers, run, Goto,
                       WorkerPc, Unserved, Served
<1>1. CASE Dequeue(w)
  <2>1. /\ Head(job_vec[PoolOf[w]]) \in Job
        /\ Tail(job_vec[PoolOf[w]]) \in Seq(Job)
    BY <1>1 DEF Dequeue
  <2>2. job' \in [Worker -> Job] /\ job_vec' \in [Pool -> Seq(Job)]
    BY <1>1, <2>1 DEF Dequeue
  <2>3. after' \in [Worker -> {"get", "pcc", "lock_pdc", "tx"}] BY <1>1 DEF Dequeue
  <2> QED BY <1>1, <2>2, <2>3, ZenonT(60) DEF Dequeue
<1>2. CASE FifoCheck(w) BY <1>2 DEF FifoCheck
<1>3. CASE Lock(w) BY <1>3 DEF Lock
<1>4. CASE ReturnFifo(w)
  <2>1. fifo_cnt' \in [Pool -> Nat]
    <3>1. fifo_cnt' = [fifo_cnt EXCEPT ![id_holder] = fifo_cnt[id_holder] + 1]
      BY <1>4 DEF ReturnFifo
    <3>2. CASE id_holder \in Pool BY <3>1, <3>2
    <3>3. CASE id_holder = NoPool BY <3>1, <3>3, ConstantsAssumption
    <3> QED BY <3>2, <3>3
  <2>2. /\ after' \in [Worker -> {"get", "pcc", "lock_pdc", "tx"}]
        /\ hp_rx' \in [Worker -> HarqRx \cup {NoHarq}]
    BY <1>4, ZenonT(60) DEF ReturnFifo, Free
  <2> QED BY <1>4, <2>1, <2>2, ZenonT(60) DEF ReturnFifo, Unlock
<1>5. CASE NotifyAll(w)
  <2>1. after[w] \in WorkerPc BY <1>5 DEF NotifyAll
  <2>2. job' \in [Worker -> Job] BY <1>5, NoJobType DEF NotifyAll, Forget
  <2>3. after' \in [Worker -> {"get", "pcc", "lock_pdc", "tx"}] BY <1>5 DEF NotifyAll, Forget
  <2>4. wpc' \in [Worker -> WorkerPc] BY <1>5, <2>1 DEF NotifyAll, Woken
  <2>5. \A v \in Worker : wpc'[v] = "notify" => after'[v] # "pcc"
    BY <1>5 DEF NotifyAll, Woken, Forget
  <2> QED BY <1>5, <2>2, <2>3, <2>4, <2>5 DEF NotifyAll
<1>6. CASE Return(w) BY <1>6 DEF Return, Unlock
<1>7. CASE RunTxChscan(w)
  <2>1. irregular' \in [Pool -> Nat]
    <3>1. irregular[PoolOf[w]] + 1 \in Nat BY SMTT(60)
    <3> QED BY <1>7, <3>1 DEF RunTxChscan
  <2>2. job' \in [Worker -> Job] BY <1>7, NoJobType DEF RunTxChscan, Forget
  <2>3. after' \in [Worker -> {"get", "pcc", "lock_pdc", "tx"}] BY <1>7 DEF RunTxChscan, Forget
  <2>4. wpc' \in [Worker -> WorkerPc] BY <1>7, ZenonT(60) DEF RunTxChscan
  <2>5. \A v \in Worker : wpc'[v] = "notify" => after'[v] # "pcc"
    BY <1>7 DEF RunTxChscan, Forget
  <2> QED BY <1>7, <2>1, <2>2, <2>3, <2>4, <2>5 DEF RunTxChscan
<1>8. CASE Finalize(w) BY <1>8, NoJobType DEF Finalize, Forget
<1>9. CASE LeaveLoop(w) BY <1>9 DEF LeaveLoop
<1>10. CASE Drain(w) BY <1>10, SMTT(60) DEF Drain
<1>11. CASE ExitWorker(w) BY <1>11 DEF ExitWorker
<1>12. CASE Wakeup(w) BY <1>12 DEF Wakeup
<1>13. CASE TimeoutReturn(w) BY <1>13 DEF TimeoutReturn
<1> QED
  BY <1>1, <1>2, <1>3, <1>4, <1>5, <1>6, <1>7, <1>8, <1>9, <1>10, <1>11, <1>12, <1>13
  DEF WorkerStep

LEMMA TypeStep == TypeOK /\ [Next]_vars => TypeOK'
<1> SUFFICES ASSUME TypeOK, [Next]_vars PROVE TypeOK' OBVIOUS
<1>1. CASE \E p \in Pool : StopPool(p)
  BY <1>1, SMTT(60) DEF StopPool, TypeOK, queue, token, prods, workers
<1>2. CASE StopUpper BY <1>2 DEF StopUpper, TypeOK, token, prods, workers
<1>3. CASE UNCHANGED vars BY <1>3 DEF TypeOK, vars, queue, token, prods, workers, run
<1> QED BY <1>1, <1>2, <1>3, TypeProducer, TypeWorker DEF Next, Terminated

\* Every variable keeps its type.
THEOREM TypeCorrect == Spec => []TypeOK
BY TypeInit, TypeStep, PTL DEF Spec

-----------------------------------------------------------------------------
(* The inductive invariant *)

counts == <<job_vec, enq_cnt, fifo_cnt, accepted>>

LEMMA IndInit == Init => IndInv
<1> SUFFICES ASSUME Init PROVE IndInv OBVIOUS
<1>1. TypeOK BY TypeInit
<1>2. HolderInv
  BY ConstantsAssumption DEF Init, HolderInv, InFirmware
<1>3. QueueInv BY DEF Init, QueueInv
<1>4. HeldInv /\ TurnInv BY DEF Init, HeldInv, TurnInv, Unserved
<1> QED BY <1>1, <1>2, <1>3, <1>4 DEF IndInv

\* The queue part of the invariant does not depend on the workers.
LEMMA QueueFrame ==
    ASSUME QueueInv, UNCHANGED counts
    PROVE  QueueInv'
BY DEF QueueInv, Genuine, counts

\* A step by which no worker obtains a job keeps what is known of held jobs.
LEMMA HeldFrame ==
    ASSUME HeldInv, UNCHANGED counts,
           \A v \in Worker : wpc'[v] \in Unserved => wpc[v] \in Unserved /\ job'[v] = job[v]
    PROVE  HeldInv'
BY DEF HeldInv, Genuine, counts

\* A step in which no worker starts or ends a call keeps the holder.
LEMMA HolderFrame ==
    ASSUME HolderInv, UNCHANGED <<id_holder, lockv>>,
           \A q \in Producer : ppc'[q] = "work_start" <=> ppc[q] = "work_start",
           \A v \in Worker : wpc'[v] \in InFirmware <=> wpc[v] \in InFirmware
    PROVE  HolderInv'
BY DEF HolderInv

\* A step that neither gives a turn nor completes one keeps the turns.
LEMMA TurnFrame ==
    ASSUME TurnInv, UNCHANGED fifo_cnt,
           \A v \in Worker : wpc'[v] \in {"lock_fifo", "work"} =>
                             wpc[v] \in {"lock_fifo", "work"} /\ job'[v] = job[v]
    PROVE  TurnInv'
BY DEF TurnInv, MyTurn

\* Producers that do not enqueue, and the shutdown, touch no worker.
LEMMA IndQuiet ==
    ASSUME IndInv, TypeOK', UNCHANGED counts, UNCHANGED workers, UNCHANGED <<id_holder, lockv>>,
           \A q \in Producer : ppc'[q] = "work_start" <=> ppc[q] = "work_start"
    PROVE  IndInv'
<1> USE DEF IndInv, workers
<1>1. QueueInv' BY QueueFrame
<1>2. HeldInv' BY HeldFrame
<1>3. HolderInv' BY HolderFrame
<1>4. TurnInv' BY TurnFrame DEF counts
<1> QED BY <1>1, <1>2, <1>3, <1>4

\* What the invariant says of the variables of one pool and of one worker.
LEMMA PoolFacts ==
    ASSUME TypeOK, NEW p \in Pool
    PROVE  /\ job_vec[p] \in Seq(Job) /\ Len(job_vec[p]) \in Nat
           /\ enq_cnt[p] \in Nat /\ fifo_cnt[p] \in Nat
           /\ accepted[p] \in Seq(Kind \cup {"monostate"})
           /\ \A i \in 1 .. Len(job_vec[p]) :
                job_vec[p][i] \in Job /\ job_vec[p][i].fifo_cnt \in Nat
<1>1. /\ job_vec[p] \in Seq(Job) /\ enq_cnt[p] \in Nat /\ fifo_cnt[p] \in Nat
      /\ accepted[p] \in Seq(Kind \cup {"monostate"})
  BY DEF TypeOK
<1>2. Len(job_vec[p]) \in Nat BY <1>1
<1>3. \A i \in 1 .. Len(job_vec[p]) : job_vec[p][i] \in Job BY <1>1
<1>4. \A j \in Job : j.fifo_cnt \in Nat BY DEF Job
<1> QED BY <1>1, <1>2, <1>3, <1>4

LEMMA WorkerFacts ==
    ASSUME TypeOK, NEW w \in Worker
    PROVE  PoolOf[w] \in Pool /\ job[w] \in Job /\ job[w].fifo_cnt \in Nat
BY PoolOfType DEF TypeOK, Job

\* Positions in a queue that got one job more.
LEMMA Shift == \A a, b, c, d \in Nat : a + b + 1 = c + d => a + (b + 1) + 1 = (c + 1) + d
OBVIOUS

LEMMA OldestNumber == \A a, b, c, f \in Nat : a + b + 1 = c + 1 /\ f + b <= c => a + b = c /\ f <= a
OBVIOUS

\* The head and the tail of a queue that is not empty.
LEMMA HeadAndTail ==
    ASSUME NEW S, NEW s \in Seq(S), s # <<>>
    PROVE  /\ Len(s) \in Nat /\ Len(s) >= 1 /\ Len(Tail(s)) = Len(s) - 1
           /\ \A i \in 1 .. Len(Tail(s)) : Tail(s)[i] = s[i + 1]
           /\ Head(s) = s[1]
<1>1. Len(s) \in Nat /\ Len(s) >= 1 OBVIOUS
<1>2. Len(Tail(s)) = Len(s) - 1 BY <1>1
<1>3. \A i \in 1 .. Len(Tail(s)) : Tail(s)[i] = s[i + 1] BY <1>1
<1>4. Head(s) = s[1] BY <1>1
<1> QED BY <1>1, <1>2, <1>3, <1>4

LEMMA IndEnqueue ==
    ASSUME IndInv, TypeOK', NEW q \in Producer, Enqueue(q)
    PROVE  IndInv'
<1> DEFINE p == PoolOf[q]
<1>a. TypeOK /\ HolderInv /\ QueueInv /\ HeldInv /\ TurnInv BY DEF IndInv
<1>0. p \in Pool BY PoolOfType
<1>1. /\ job_vec' = [job_vec EXCEPT ![p] = Append(job_vec[p], NumberedJob(q))]
      /\ enq_cnt' = [enq_cnt EXCEPT ![p] = enq_cnt[p] + 1]
      /\ accepted' = [accepted EXCEPT ![p] = Append(accepted[p], content[q])]
      /\ UNCHANGED <<fifo_cnt, id_holder, lockv, wpc, job>>
  BY DEF Enqueue, Put, token, workers
<1>2. /\ NumberedJob(q).fifo_cnt = enq_cnt[p] /\ NumberedJob(q).content = content[q]
      /\ NumberedJob(q) \in Job /\ content[q] \in Kind \cup {"monostate"}
      /\ job_vec[p] \in Seq(Job) /\ accepted[p] \in Seq(Kind \cup {"monostate"})
      /\ enq_cnt[p] \in Nat /\ fifo_cnt[p] \in Nat
  BY <1>0, <1>a DEF NumberedJob, TypeOK, Job
<1>3. /\ job_vec'[p] = Append(job_vec[p], NumberedJob(q))
      /\ enq_cnt'[p] = enq_cnt[p] + 1
      /\ accepted'[p] = Append(accepted[p], content[q])
      /\ \A o \in Pool \ {p} : /\ job_vec'[o] = job_vec[o] /\ enq_cnt'[o] = enq_cnt[o]
                               /\ accepted'[o] = accepted[o]
  BY <1>0, <1>1, <1>a DEF TypeOK
<1>4. Len(accepted[p]) = enq_cnt[p] BY <1>0, <1>a DEF QueueInv
<1> HIDE DEF p
\* Jobs accepted earlier stay where they are in the history.
<1>5. ASSUME NEW o \in Pool, NEW n \in Nat, n < enq_cnt[o]
      PROVE  accepted'[o][n + 1] = accepted[o][n + 1]
  <2>1. CASE o # p BY <2>1, <1>3
  <2>2. CASE o = p
    <3>1. n + 1 \in 1 .. Len(accepted[p]) BY <2>2, <1>5, <1>4, <1>2
    <3> QED BY <3>1, <2>2, <1>2, <1>3
  <2> QED BY <2>1, <2>2
<1>6. ASSUME NEW o \in Pool, o # p
      PROVE  /\ Len(accepted'[o]) = enq_cnt'[o]
             /\ fifo_cnt'[o] + Len(job_vec'[o]) <= enq_cnt'[o]
             /\ \A i \in 1 .. Len(job_vec'[o]) :
                 /\ job_vec'[o][i].fifo_cnt + Len(job_vec'[o]) + 1 = enq_cnt'[o] + i
                 /\ job_vec'[o][i].content = accepted'[o][job_vec'[o][i].fifo_cnt + 1]
  BY <1>6, <1>1, <1>3, <1>a DEF QueueInv, Genuine
<1>7. /\ Len(accepted'[p]) = enq_cnt'[p]
      /\ fifo_cnt'[p] + Len(job_vec'[p]) <= enq_cnt'[p]
      /\ Len(job_vec'[p]) = Len(job_vec[p]) + 1 /\ Len(job_vec[p]) \in Nat
  <2>1. fifo_cnt[p] + Len(job_vec[p]) <= enq_cnt[p] BY <1>0, <1>a DEF QueueInv
  <2>2. Len(job_vec[p]) \in Nat /\ Len(job_vec'[p]) = Len(job_vec[p]) + 1 BY <1>2, <1>3
  <2>3. Len(accepted'[p]) = Len(accepted[p]) + 1 BY <1>2, <1>3
  <2> QED BY <2>1, <2>2, <2>3, <1>1, <1>2, <1>3, <1>4
<1>8. ASSUME NEW i \in 1 .. Len(job_vec'[p])
      PROVE  /\ job_vec'[p][i].fifo_cnt + Len(job_vec'[p]) + 1 = enq_cnt'[p] + i
             /\ job_vec'[p][i].content = accepted'[p][job_vec'[p][i].fifo_cnt + 1]
  <2>1. CASE i = Len(job_vec[p]) + 1
    <3>1. job_vec'[p][i] = NumberedJob(q) BY <2>1, <1>2, <1>3
    <3>2. accepted'[p][enq_cnt[p] + 1] = content[q] BY <1>2, <1>3, <1>4
    <3> QED BY <3>1, <3>2, <2>1, <1>2, <1>3, <1>7
  <2>2. CASE i # Len(job_vec[p]) + 1
    <3>1. i \in 1 .. Len(job_vec[p]) BY <2>2, <1>7
    <3>2. job_vec'[p][i] = job_vec[p][i] BY <3>1, <1>2, <1>3
    <3>3. job_vec[p][i].fifo_cnt \in Nat BY <3>1, <1>0, <1>a, PoolFacts
    <3>4. /\ job_vec[p][i].fifo_cnt + Len(job_vec[p]) + 1 = enq_cnt[p] + i
          /\ job_vec[p][i].content = accepted[p][job_vec[p][i].fifo_cnt + 1]
      BY <3>1, <1>0, <1>a DEF QueueInv, Genuine
    <3>5. job_vec[p][i].fifo_cnt < enq_cnt[p] BY <3>1, <3>3, <3>4, <1>2, <1>7, SMTT(60)
    <3>6. accepted'[p][job_vec[p][i].fifo_cnt + 1] = accepted[p][job_vec[p][i].fifo_cnt + 1]
      BY <3>3, <3>5, <1>0, <1>5
    <3>7. job_vec'[p][i].content = accepted'[p][job_vec'[p][i].fifo_cnt + 1]
      BY <3>2, <3>4, <3>6
    <3>8. job_vec'[p][i].fifo_cnt + Len(job_vec'[p]) + 1 = enq_cnt'[p] + i
      <4>1. job_vec'[p][i].fifo_cnt = job_vec[p][i].fifo_cnt BY <3>2
      <4>2. enq_cnt'[p] = enq_cnt[p] + 1 /\ Len(job_vec'[p]) = Len(job_vec[p]) + 1
        BY <1>3, <1>7
      <4>3. job_vec[p][i].fifo_cnt + Len(job_vec[p]) + 1 = enq_cnt[p] + i BY <3>4
      <4>4. i \in Nat /\ Len(job_vec[p]) \in Nat /\ enq_cnt[p] \in Nat BY <3>1, <1>2, <1>7
      <4>5. job_vec[p][i].fifo_cnt + (Len(job_vec[p]) + 1) + 1 = (enq_cnt[p] + 1) + i
        <5> DEFINE f == job_vec[p][i].fifo_cnt
                   l == Len(job_vec[p])
                   e == enq_cnt[p]
        <5>1. f \in Nat /\ l \in Nat /\ e \in Nat /\ f + l + 1 = e + i
          BY <4>3, <4>4, <3>3
        <5> HIDE DEF f, l, e
        <5>2. f + (l + 1) + 1 = (e + 1) + i
          BY <4>4, <5>1
        <5> USE DEF f, l, e
        <5> QED BY <5>2, Zenon
      <4> QED BY <4>1, <4>2, <4>5, Zenon
    <3> QED BY <3>7, <3>8
  <2> QED BY <2>1, <2>2
<1>9. QueueInv'
  <2>1. ASSUME NEW o \in Pool
        PROVE  /\ Len(accepted'[o]) = enq_cnt'[o]
               /\ fifo_cnt'[o] + Len(job_vec'[o]) <= enq_cnt'[o]
               /\ \A i \in 1 .. Len(job_vec'[o]) :
                   /\ job_vec'[o][i].fifo_cnt + Len(job_vec'[o]) + 1 = enq_cnt'[o] + i
                   /\ job_vec'[o][i].content = accepted'[o][job_vec'[o][i].fifo_cnt + 1]
    BY <1>6, <1>7, <1>8
  <2> QED BY <2>1 DEF QueueInv, Genuine
<1>10. HeldInv'
  <2>1. ASSUME NEW w \in Worker, wpc[w] \in Unserved
        PROVE  /\ fifo_cnt[PoolOf[w]] <= job[w].fifo_cnt
               /\ job[w].fifo_cnt + Len(job_vec'[PoolOf[w]]) < enq_cnt'[PoolOf[w]]
               /\ job[w].content = accepted'[PoolOf[w]][job[w].fifo_cnt + 1]
               /\ \A v \in Worker :
                     wpc[v] \in Unserved /\ PoolOf[v] = PoolOf[w] /\ v # w =>
                         job[v].fifo_cnt # job[w].fifo_cnt
    <3>1. PoolOf[w] \in Pool /\ job[w].fifo_cnt \in Nat BY <1>a, WorkerFacts
    <3>2. Len(job_vec[PoolOf[w]]) \in Nat /\ enq_cnt[PoolOf[w]] \in Nat
      BY <3>1, <1>a, PoolFacts
    <3>3. /\ fifo_cnt[PoolOf[w]] <= job[w].fifo_cnt
          /\ job[w].fifo_cnt + Len(job_vec[PoolOf[w]]) < enq_cnt[PoolOf[w]]
          /\ job[w].content = accepted[PoolOf[w]][job[w].fifo_cnt + 1]
          /\ \A v \in Worker :
                wpc[v] \in Unserved /\ PoolOf[v] = PoolOf[w] /\ v # w =>
                    job[v].fifo_cnt # job[w].fifo_cnt
      BY <2>1, <1>a DEF HeldInv, Genuine
    <3>4. job[w].fifo_cnt < enq_cnt[PoolOf[w]] BY <3>1, <3>2, <3>3
    <3>5. job[w].content = accepted'[PoolOf[w]][job[w].fifo_cnt + 1]
      BY <3>1, <3>3, <3>4, <1>5
    <3>6. job[w].fifo_cnt + Len(job_vec'[PoolOf[w]]) < enq_cnt'[PoolOf[w]]
      <4>1. CASE PoolOf[w] = p
        <5>1. enq_cnt'[p] = enq_cnt[p] + 1 /\ Len(job_vec'[p]) = Len(job_vec[p]) + 1
          BY <1>3, <1>7
        <5> QED BY <5>1, <4>1, <3>1, <3>2, <3>3
      <4>2. CASE PoolOf[w] # p BY <4>2, <3>1, <3>3, <1>3
      <4> QED BY <4>1, <4>2
    <3> QED BY <3>3, <3>5, <3>6
  <2> QED BY <2>1, <1>1 DEF HeldInv, Genuine
<1>11. HolderInv'
  <2>1. \A r \in Producer : ppc'[r] = "work_start" <=> ppc[r] = "work_start"
    BY <1>a DEF Enqueue, TypeOK
  <2> QED BY <2>1, <1>1, <1>a, HolderFrame
<1>12. TurnInv' BY <1>1, <1>a, TurnFrame
<1> QED BY <1>9, <1>10, <1>11, <1>12 DEF IndInv

\* The oldest job leaves a queue, into the hands of a worker or discarded.
LEMMA TakeOldest ==
    ASSUME TypeOK, QueueInv, NEW p \in Pool, job_vec[p] # <<>>,
           job_vec' = [job_vec EXCEPT ![p] = Tail(job_vec[p])],
           UNCHANGED <<enq_cnt, fifo_cnt, accepted>>
    PROVE  /\ QueueInv'
           /\ Len(job_vec[p]) \in Nat /\ Len(job_vec'[p]) = Len(job_vec[p]) - 1
           /\ \A o \in Pool \ {p} : job_vec'[o] = job_vec[o]
           /\ Head(job_vec[p]) \in Job
           /\ Head(job_vec[p]).fifo_cnt + Len(job_vec[p]) = enq_cnt[p]
           /\ fifo_cnt[p] <= Head(job_vec[p]).fifo_cnt
           /\ Genuine(p, Head(job_vec[p]))
<1>1. /\ job_vec[p] \in Seq(Job) /\ Len(job_vec[p]) \in Nat
      /\ enq_cnt[p] \in Nat /\ fifo_cnt[p] \in Nat
      /\ \A i \in 1 .. Len(job_vec[p]) : job_vec[p][i] \in Job /\ job_vec[p][i].fifo_cnt \in Nat
  BY PoolFacts
<1>2. job_vec'[p] = Tail(job_vec[p]) /\ \A o \in Pool \ {p} : job_vec'[o] = job_vec[o]
  BY DEF TypeOK
<1>3. /\ Len(job_vec[p]) >= 1 /\ Len(job_vec'[p]) = Len(job_vec[p]) - 1
      /\ \A i \in 1 .. Len(job_vec'[p]) : job_vec'[p][i] = job_vec[p][i + 1]
      /\ Head(job_vec[p]) = job_vec[p][1]
  <2>1. /\ Len(job_vec[p]) >= 1 /\ Len(Tail(job_vec[p])) = Len(job_vec[p]) - 1
        /\ \A i \in 1 .. Len(Tail(job_vec[p])) : Tail(job_vec[p])[i] = job_vec[p][i + 1]
        /\ Head(job_vec[p]) = job_vec[p][1]
    BY <1>1, HeadAndTail
  <2> QED BY <2>1, <1>2
<1>4. /\ Len(accepted[p]) = enq_cnt[p] /\ fifo_cnt[p] + Len(job_vec[p]) <= enq_cnt[p]
      /\ \A i \in 1 .. Len(job_vec[p]) :
            /\ job_vec[p][i].fifo_cnt + Len(job_vec[p]) + 1 = enq_cnt[p] + i
            /\ Genuine(p, job_vec[p][i])
  BY DEF QueueInv
<1>5. /\ Head(job_vec[p]) \in Job
      /\ Head(job_vec[p]).fifo_cnt + Len(job_vec[p]) = enq_cnt[p]
      /\ fifo_cnt[p] <= Head(job_vec[p]).fifo_cnt
      /\ Genuine(p, Head(job_vec[p]))
  <2> DEFINE h == job_vec[p][1]
  <2>1. 1 \in 1 .. Len(job_vec[p]) BY <1>1, <1>3
  <2>2. h \in Job /\ h.fifo_cnt \in Nat BY <2>1, <1>1
  <2>3. h.fifo_cnt + Len(job_vec[p]) + 1 = enq_cnt[p] + 1 /\ Genuine(p, h) BY <2>1, <1>4
  <2> HIDE DEF h
  <2>4. h.fifo_cnt + Len(job_vec[p]) = enq_cnt[p] /\ fifo_cnt[p] <= h.fifo_cnt
    BY <2>2, <2>3, <1>1, <1>4, OldestNumber, Zenon
  <2> QED BY <2>2, <2>3, <2>4, <1>3 DEF h
<1>6. QueueInv'
  <2>1. ASSUME NEW o \in Pool, o # p
        PROVE  /\ Len(accepted'[o]) = enq_cnt'[o]
               /\ fifo_cnt'[o] + Len(job_vec'[o]) <= enq_cnt'[o]
               /\ \A i \in 1 .. Len(job_vec'[o]) :
                   /\ job_vec'[o][i].fifo_cnt + Len(job_vec'[o]) + 1 = enq_cnt'[o] + i
                   /\ job_vec'[o][i].content = accepted'[o][job_vec'[o][i].fifo_cnt + 1]
    BY <2>1, <1>2 DEF QueueInv, Genuine
  <2>2. Len(accepted'[p]) = enq_cnt'[p] /\ fifo_cnt'[p] + Len(job_vec'[p]) <= enq_cnt'[p]
    BY <1>1, <1>3, <1>4
  <2>3. ASSUME NEW i \in 1 .. Len(job_vec'[p])
        PROVE  /\ job_vec'[p][i].fifo_cnt + Len(job_vec'[p]) + 1 = enq_cnt'[p] + i
               /\ job_vec'[p][i].content = accepted'[p][job_vec'[p][i].fifo_cnt + 1]
    <3> DEFINE j == job_vec[p][i + 1]
    <3>1. i \in Nat /\ i + 1 \in 1 .. Len(job_vec[p]) BY <1>1, <1>3
    <3>2. job_vec'[p][i] = j BY <1>3
    <3>3. /\ j.fifo_cnt + Len(job_vec[p]) + 1 = enq_cnt[p] + (i + 1)
          /\ j.content = accepted[p][j.fifo_cnt + 1]
      BY <3>1, <1>4 DEF Genuine
    <3>4. j.fifo_cnt \in Nat BY <3>1, <1>1
    <3> HIDE DEF j
    <3>5. j.fifo_cnt + (Len(job_vec[p]) - 1) + 1 = enq_cnt[p] + i
      <4>1. /\ j.fifo_cnt \in Nat /\ Len(job_vec[p]) \in Nat /\ enq_cnt[p] \in Nat /\ i \in Nat
            /\ j.fifo_cnt + Len(job_vec[p]) + 1 = enq_cnt[p] + (i + 1)
        BY <3>1, <3>3, <3>4, <1>1
      <4> DEFINE n == j.fifo_cnt
                 l == Len(job_vec[p])
                 e == enq_cnt[p]
      <4>2. n \in Nat /\ l \in Nat /\ e \in Nat /\ i \in Nat /\ n + l + 1 = e + (i + 1) BY <4>1
      <4> HIDE DEF n, l, e
      <4>3. n + (l - 1) + 1 = e + i BY ONLY <4>2
      <4> QED BY <4>3 DEF n, l, e
    <3> QED BY <3>2, <3>3, <3>5, <1>3
  <2> QED BY <2>1, <2>2, <2>3 DEF QueueInv, Genuine
<1> QED BY <1>1, <1>2, <1>3, <1>5, <1>6

\* Workers that hold a job keep it when the oldest job leaves a queue.
LEMMA HeldWhileTaken ==
    ASSUME TypeOK, QueueInv, HeldInv, NEW p \in Pool, job_vec[p] # <<>>,
           job_vec' = [job_vec EXCEPT ![p] = Tail(job_vec[p])],
           UNCHANGED <<enq_cnt, fifo_cnt, accepted>>,
           NEW w \in Worker, wpc[w] \in Unserved
    PROVE  /\ job[w].fifo_cnt + Len(job_vec'[PoolOf[w]]) < enq_cnt[PoolOf[w]]
           /\ PoolOf[w] = p => job[w].fifo_cnt < Head(job_vec[p]).fifo_cnt
<1>1. PoolOf[w] \in Pool /\ job[w].fifo_cnt \in Nat BY WorkerFacts
<1>2. Len(job_vec[PoolOf[w]]) \in Nat /\ enq_cnt[PoolOf[w]] \in Nat BY <1>1, PoolFacts
<1>3. job[w].fifo_cnt + Len(job_vec[PoolOf[w]]) < enq_cnt[PoolOf[w]] BY DEF HeldInv
<1>4. CASE PoolOf[w] # p BY <1>1, <1>3, <1>4, TakeOldest
<1>5. CASE PoolOf[w] = p
  <2>1. /\ Len(job_vec'[p]) = Len(job_vec[p]) - 1
        /\ Head(job_vec[p]) \in Job
        /\ Head(job_vec[p]).fifo_cnt + Len(job_vec[p]) = enq_cnt[p]
    BY TakeOldest
  <2>2. Head(job_vec[p]).fifo_cnt \in Nat BY <2>1 DEF Job
  <2> QED BY <2>1, <2>2, <1>1, <1>2, <1>3, <1>5, SMTT(60)
<1> QED BY <1>4, <1>5

LEMMA IndDequeue ==
    ASSUME IndInv, TypeOK', NEW w \in Worker, Dequeue(w)
    PROVE  IndInv'
<1> DEFINE p == PoolOf[w]
<1>a. TypeOK /\ HolderInv /\ QueueInv /\ HeldInv /\ TurnInv BY DEF IndInv
<1>0. p \in Pool BY PoolOfType
<1>1. /\ wpc[w] = "get" /\ job_vec[p] # <<>>
      /\ job_vec' = [job_vec EXCEPT ![p] = Tail(job_vec[p])]
      /\ UNCHANGED <<enq_cnt, fifo_cnt, accepted, id_holder, lockv, ppc>>
      /\ job'[w] = Head(job_vec[p]) /\ wpc'[w] = "fifo"
      /\ \A v \in Worker \ {w} : job'[v] = job[v] /\ wpc'[v] = wpc[v]
  BY <1>a DEF Dequeue, Goto, TypeOK, token, prods
<1> HIDE DEF p
<1>2. /\ QueueInv'
      /\ Len(job_vec[p]) \in Nat /\ Len(job_vec'[p]) = Len(job_vec[p]) - 1
      /\ Head(job_vec[p]) \in Job
      /\ Head(job_vec[p]).fifo_cnt + Len(job_vec[p]) = enq_cnt[p]
      /\ fifo_cnt[p] <= Head(job_vec[p]).fifo_cnt
      /\ Genuine(p, Head(job_vec[p]))
  BY <1>0, <1>1, <1>a, TakeOldest
<1>3. \A v \in Worker : wpc[v] \in Unserved =>
        /\ job[v].fifo_cnt + Len(job_vec'[PoolOf[v]]) < enq_cnt[PoolOf[v]]
        /\ PoolOf[v] = p => job[v].fifo_cnt # Head(job_vec[p]).fifo_cnt
  <2> SUFFICES ASSUME NEW v \in Worker, wpc[v] \in Unserved
               PROVE  /\ job[v].fifo_cnt + Len(job_vec'[PoolOf[v]]) < enq_cnt[PoolOf[v]]
                      /\ PoolOf[v] = p => job[v].fifo_cnt # Head(job_vec[p]).fifo_cnt
    OBVIOUS
  <2>1. job[v].fifo_cnt \in Nat BY <1>a, WorkerFacts
  <2>2. Head(job_vec[p]).fifo_cnt \in Nat BY <1>2 DEF Job
  <2>3. /\ job[v].fifo_cnt + Len(job_vec'[PoolOf[v]]) < enq_cnt[PoolOf[v]]
        /\ PoolOf[v] = p => job[v].fifo_cnt < Head(job_vec[p]).fifo_cnt
    BY <1>0, <1>1, <1>a, HeldWhileTaken
  <2> QED BY <2>1, <2>2, <2>3
<1>4. HeldInv'
  <2> SUFFICES ASSUME NEW u \in Worker, wpc'[u] \in Unserved
               PROVE  /\ fifo_cnt[PoolOf[u]] <= job'[u].fifo_cnt
                      /\ job'[u].fifo_cnt + Len(job_vec'[PoolOf[u]]) < enq_cnt[PoolOf[u]]
                      /\ job'[u].content = accepted[PoolOf[u]][job'[u].fifo_cnt + 1]
                      /\ \A v \in Worker :
                            wpc'[v] \in Unserved /\ PoolOf[v] = PoolOf[u] /\ v # u =>
                                job'[v].fifo_cnt # job'[u].fifo_cnt
    BY <1>1 DEF HeldInv, Genuine
  <2>1. CASE u = w
    <3>1. job'[w].fifo_cnt + Len(job_vec'[p]) < enq_cnt[p]
      <4>1. Head(job_vec[p]).fifo_cnt \in Nat BY <1>2 DEF Job
      <4> QED BY <4>1, <1>1, <1>2
    <3>2. \A v \in Worker : wpc'[v] \in Unserved /\ PoolOf[v] = p /\ v # w =>
            job'[v].fifo_cnt # job'[w].fifo_cnt
      BY <1>1, <1>3
    <3> QED BY <3>1, <3>2, <2>1, <1>1, <1>2 DEF p, Genuine
  <2>2. CASE u # w
    <3>1. job'[u] = job[u] /\ wpc[u] \in Unserved BY <2>2, <1>1
    <3>2. /\ fifo_cnt[PoolOf[u]] <= job[u].fifo_cnt
          /\ job[u].content = accepted[PoolOf[u]][job[u].fifo_cnt + 1]
          /\ \A v \in Worker : wpc[v] \in Unserved /\ PoolOf[v] = PoolOf[u] /\ v # u =>
                    job[v].fifo_cnt # job[u].fifo_cnt
      BY <3>1, <1>a DEF HeldInv, Genuine
    <3>3. PoolOf[u] = PoolOf[w] => job'[w].fifo_cnt # job[u].fifo_cnt
      BY <3>1, <1>1, <1>3 DEF p
    <3> QED BY <3>1, <3>2, <3>3, <1>1, <1>3
  <2> QED BY <2>1, <2>2
<1>5. HolderInv' BY <1>1, <1>a, HolderFrame DEF InFirmware
<1>6. TurnInv' BY <1>1, <1>a, TurnFrame
<1> QED BY <1>2, <1>4, <1>5, <1>6 DEF IndInv

LEMMA IndDrain ==
    ASSUME IndInv, TypeOK', NEW w \in Worker, Drain(w)
    PROVE  IndInv'
<1> DEFINE p == PoolOf[w]
<1>a. TypeOK /\ HolderInv /\ QueueInv /\ HeldInv /\ TurnInv BY DEF IndInv
<1>0. p \in Pool BY PoolOfType
<1>1. /\ job_vec[p] # <<>> /\ job_vec' = [job_vec EXCEPT ![p] = Tail(job_vec[p])]
      /\ UNCHANGED <<enq_cnt, fifo_cnt, accepted, id_holder, lockv, wpc, job, ppc>>
  BY DEF Drain, token, workers, prods
<1>2. QueueInv' BY <1>0, <1>1, <1>a, TakeOldest
<1>3. HeldInv'
  <2>1. \A v \in Worker : wpc[v] \in Unserved =>
            job[v].fifo_cnt + Len(job_vec'[PoolOf[v]]) < enq_cnt[PoolOf[v]]
    BY <1>0, <1>1, <1>a, HeldWhileTaken
  <2> QED BY <2>1, <1>1, <1>a DEF HeldInv, Genuine
<1>4. HolderInv' BY <1>1, <1>a, HolderFrame
<1>5. TurnInv' BY <1>1, <1>a, TurnFrame
<1> QED BY <1>2, <1>3, <1>4, <1>5 DEF IndInv

LEMMA IndReturnFifo ==
    ASSUME IndInv, TypeOK', NEW w \in Worker, ReturnFifo(w)
    PROVE  IndInv'
<1> DEFINE p == PoolOf[w]
<1>a. TypeOK /\ HolderInv /\ QueueInv /\ HeldInv /\ TurnInv BY DEF IndInv
<1>0. p \in Pool BY PoolOfType
<1>1. wpc[w] = "work" /\ lockv = w /\ id_holder = p
  BY <1>a, ConstantsAssumption DEF ReturnFifo, HolderInv, InFirmware
<1>2. /\ fifo_cnt'[p] = fifo_cnt[p] + 1
      /\ \A o \in Pool \ {p} : fifo_cnt'[o] = fifo_cnt[o]
      /\ id_holder' = NoPool /\ lockv' = NoThread
      /\ wpc'[w] = "notify" /\ \A v \in Worker \ {w} : wpc'[v] = wpc[v]
      /\ UNCHANGED <<job_vec, enq_cnt, accepted, job, ppc>>
  BY <1>0, <1>1, <1>a DEF ReturnFifo, Unlock, Goto, TypeOK, queue, prods
<1>3. job[w].fifo_cnt = fifo_cnt[p] BY <1>1, <1>a DEF TurnInv, MyTurn
<1>4. /\ job[w].fifo_cnt + Len(job_vec[p]) < enq_cnt[p]
      /\ Len(job_vec[p]) \in Nat /\ enq_cnt[p] \in Nat /\ fifo_cnt[p] \in Nat
  BY <1>0, <1>1, <1>a, PoolFacts DEF HeldInv, Unserved
<1> HIDE DEF p
<1>5. QueueInv'
  <2>1. fifo_cnt'[p] + Len(job_vec[p]) <= enq_cnt[p] BY <1>2, <1>3, <1>4
  <2> QED BY <2>1, <1>2, <1>a DEF QueueInv, Genuine
\* Every other job in the hands of a worker of this pool is younger.
<1>6. ASSUME NEW v \in Worker, v # w, wpc[v] \in Unserved, PoolOf[v] = p
      PROVE  fifo_cnt[p] + 1 <= job[v].fifo_cnt
  <2>1. job[v].fifo_cnt \in Nat BY <1>a, WorkerFacts
  <2>2. fifo_cnt[p] <= job[v].fifo_cnt /\ job[v].fifo_cnt # job[w].fifo_cnt
    BY <1>6, <1>1, <1>a DEF HeldInv, Unserved, p
  <2> QED BY <2>1, <2>2, <1>3, <1>4
<1>7. HeldInv'
  <2>1. \A v \in Worker : wpc'[v] \in Unserved =>
            /\ v # w /\ wpc[v] \in Unserved
            /\ fifo_cnt'[PoolOf[v]] <= job[v].fifo_cnt
    <3> SUFFICES ASSUME NEW v \in Worker, wpc'[v] \in Unserved
                 PROVE  /\ v # w /\ wpc[v] \in Unserved
                        /\ fifo_cnt'[PoolOf[v]] <= job[v].fifo_cnt
      OBVIOUS
    <3>1. v # w /\ wpc[v] \in Unserved BY <1>2 DEF Unserved
    <3>2. PoolOf[v] \in Pool BY PoolOfType
    <3>3. CASE PoolOf[v] = p BY <3>1, <3>3, <1>2, <1>6
    <3>4. CASE PoolOf[v] # p BY <3>1, <3>2, <3>4, <1>2, <1>a DEF HeldInv
    <3> QED BY <3>1, <3>3, <3>4
  <2> QED BY <2>1, <1>2, <1>a DEF HeldInv, Genuine
<1>8. HolderInv'
  <2>1. \A v \in Worker : wpc'[v] \notin InFirmware
    BY <1>1, <1>2, <1>a DEF HolderInv, InFirmware
  <2>2. \A q \in Producer : ppc[q] # "work_start"
    BY <1>1, <1>a, ConstantsAssumption DEF HolderInv
  <2> QED BY <2>1, <2>2, <1>2, ConstantsAssumption DEF HolderInv
\* The mutex was held, and no other worker of the pool had this turn.
<1>9. TurnInv'
  <2> SUFFICES ASSUME NEW v \in Worker, wpc'[v] \in {"lock_fifo", "work"}
               PROVE  fifo_cnt'[PoolOf[v]] = job[v].fifo_cnt
    BY <1>2 DEF TurnInv, MyTurn
  <2>1. v # w /\ wpc[v] \in {"lock_fifo", "work"} BY <1>2
  <2>2. fifo_cnt[PoolOf[v]] = job[v].fifo_cnt BY <2>1, <1>a DEF TurnInv, MyTurn
  <2>3. PoolOf[v] # p BY <2>1, <2>2, <1>3, <1>1, <1>a DEF HeldInv, Unserved, p
  <2>4. PoolOf[v] \in Pool BY PoolOfType
  <2> QED BY <2>2, <2>3, <2>4, <1>2
<1> QED BY <1>5, <1>7, <1>8, <1>9 DEF IndInv

\* Steps by which workers only move on, possibly dropping a job.
LEMMA IndMove ==
    ASSUME IndInv, TypeOK', UNCHANGED counts, UNCHANGED <<id_holder, lockv, ppc>>,
           \A v \in Worker :
              /\ wpc'[v] \in Unserved => wpc[v] \in Unserved /\ job'[v] = job[v]
              /\ wpc'[v] \in {"lock_fifo", "work"} =>
                    \/ wpc[v] \in {"lock_fifo", "work"} /\ job'[v] = job[v]
                    \/ wpc'[v] = "lock_fifo" /\ MyTurn(v) /\ job'[v] = job[v]
              /\ wpc'[v] \in InFirmware <=> wpc[v] \in InFirmware
    PROVE  IndInv'
<1>a. TypeOK /\ HolderInv /\ QueueInv /\ HeldInv /\ TurnInv BY DEF IndInv
<1>1. QueueInv' BY <1>a, QueueFrame
<1>2. HeldInv' BY <1>a, HeldFrame
<1>3. HolderInv' BY <1>a, HolderFrame
<1>4. TurnInv' BY <1>a DEF TurnInv, MyTurn, counts
<1> QED BY <1>1, <1>2, <1>3, <1>4 DEF IndInv

LEMMA IndLock ==
    ASSUME IndInv, TypeOK', NEW w \in Worker, Lock(w)
    PROVE  IndInv'
<1>a. TypeOK /\ HolderInv /\ QueueInv /\ HeldInv /\ TurnInv BY DEF IndInv
<1>1. /\ lockv = NoThread /\ lockv' = w /\ id_holder' = PoolOf[w]
      /\ wpc[w] \in {"lock_fifo", "lock_pdc", "lock_channel"}
      /\ \A v \in Worker \ {w} : wpc'[v] = wpc[v]
      /\ UNCHANGED <<counts, job, ppc>>
      /\ wpc'[w] = CASE wpc[w] = "lock_fifo" -> "work"
                     [] wpc[w] = "lock_pdc"  -> "work_pdc"
                     [] OTHER                -> "work_channel"
  BY <1>a DEF Lock, CanLock, Goto, TypeOK, counts, queue, prods
<1>2. /\ wpc'[w] \in InFirmware
      /\ wpc'[w] \in Unserved => wpc[w] = "lock_fifo"
      /\ wpc'[w] \in {"lock_fifo", "work"} => wpc[w] = "lock_fifo"
  BY <1>1 DEF InFirmware, Unserved
<1>3. HolderInv'
  <2>1. \A v \in Worker : wpc[v] \notin InFirmware
    BY <1>1, <1>a, ConstantsAssumption DEF HolderInv
  <2>2. \A q \in Producer : ppc'[q] # "work_start"
    BY <1>1, <1>a, ConstantsAssumption DEF HolderInv
  <2> QED BY <2>1, <2>2, <1>1, <1>2, ConstantsAssumption DEF HolderInv
<1>4. QueueInv' BY <1>1, <1>a, QueueFrame
<1>5. HeldInv' BY <1>1, <1>2, <1>a, HeldFrame DEF Unserved
<1>6. TurnInv' BY <1>1, <1>2, <1>a, TurnFrame DEF counts
<1> QED BY <1>3, <1>4, <1>5, <1>6 DEF IndInv

LEMMA IndReturn ==
    ASSUME IndInv, TypeOK', NEW w \in Worker, Return(w)
    PROVE  IndInv'
<1>a. TypeOK /\ HolderInv /\ QueueInv /\ HeldInv /\ TurnInv BY DEF IndInv
<1>1. /\ wpc[w] \in InFirmware /\ lockv' = NoThread /\ id_holder' = NoPool
      /\ wpc'[w] \in {"tx", "tx_channel"} /\ \A v \in Worker \ {w} : wpc'[v] = wpc[v]
      /\ UNCHANGED <<counts, job, ppc>>
  BY <1>a DEF Return, Unlock, Goto, TypeOK, counts, queue, prods, InFirmware
<1>2. HolderInv'
  <2>1. lockv = w /\ \A v \in Worker \ {w} : wpc[v] \notin InFirmware
    BY <1>1, <1>a DEF HolderInv
  <2>2. \A q \in Producer : ppc'[q] # "work_start"
    BY <2>1, <1>1, <1>a, ConstantsAssumption DEF HolderInv
  <2> QED BY <2>1, <2>2, <1>1, ConstantsAssumption DEF HolderInv, InFirmware
<1>3. QueueInv' BY <1>1, <1>a, QueueFrame
<1>4. HeldInv' BY <1>1, <1>a, HeldFrame DEF Unserved
<1>5. TurnInv' BY <1>1, <1>a, TurnFrame DEF counts
<1> QED BY <1>2, <1>3, <1>4, <1>5 DEF IndInv

LEMMA IndNotifyAll ==
    ASSUME IndInv, TypeOK', NEW w \in Worker, NotifyAll(w)
    PROVE  IndInv'
<1>a. TypeOK BY DEF IndInv
<1>1. /\ wpc[w] = "notify" /\ wpc'[w] \in {"get", "lock_pdc", "tx"}
      /\ \A v \in Worker \ {w} :
            /\ wpc'[v] = IF wpc[v] = "wait" THEN "fifo" ELSE wpc[v]
            /\ job'[v] = job[v]
      /\ UNCHANGED counts /\ UNCHANGED <<id_holder, lockv, ppc>>
  <2>1. after[w] \in {"get", "lock_pdc", "tx"} BY <1>a DEF NotifyAll, TypeOK
  <2>2. \A v \in Worker \ {w} : job'[v] = job[v] BY <1>a, SMTT(60) DEF NotifyAll, Forget, TypeOK
  <2> QED BY <2>1, <2>2 DEF NotifyAll, Woken, counts, queue, token, prods
<1>2. \A v \in Worker :
         /\ wpc'[v] \in Unserved => wpc[v] \in Unserved /\ job'[v] = job[v]
         /\ wpc'[v] \in {"lock_fifo", "work"} =>
               wpc[v] \in {"lock_fifo", "work"} /\ job'[v] = job[v]
         /\ wpc'[v] \in InFirmware <=> wpc[v] \in InFirmware
  BY <1>1 DEF Unserved, InFirmware
<1> QED BY <1>1, <1>2, IndMove

LEMMA IndWorker ==
    ASSUME IndInv, TypeOK', NEW w \in Worker, WorkerStep(w) \/ Wakeup(w) \/ TimeoutReturn(w)
    PROVE  IndInv'
<1>a. TypeOK BY DEF IndInv
<1>1. ASSUME NEW pc, Goto(w, pc), UNCHANGED counts, UNCHANGED <<id_holder, lockv, ppc>>,
             \A v \in Worker \ {w} : job'[v] = job[v],
             pc \notin InFirmware, wpc[w] \notin InFirmware,
             pc \in Unserved => wpc[w] \in Unserved /\ job'[w] = job[w],
             pc = "lock_fifo" => MyTurn(w) /\ job'[w] = job[w]
      PROVE  IndInv'
  <2>1. wpc'[w] = pc /\ \A v \in Worker \ {w} : wpc'[v] = wpc[v]
    BY <1>1, <1>a DEF Goto, TypeOK
  <2>2. pc # "work" BY <1>1 DEF InFirmware
  <2>3. \A v \in Worker :
           /\ wpc'[v] \in Unserved => wpc[v] \in Unserved /\ job'[v] = job[v]
           /\ wpc'[v] \in {"lock_fifo", "work"} =>
                 \/ wpc[v] \in {"lock_fifo", "work"} /\ job'[v] = job[v]
                 \/ wpc'[v] = "lock_fifo" /\ MyTurn(v) /\ job'[v] = job[v]
           /\ wpc'[v] \in InFirmware <=> wpc[v] \in InFirmware
    BY <2>1, <2>2, <1>1
  <2> QED BY <2>3, <1>1, IndMove
<1> USE <1>a DEF Unserved, InFirmware, counts, queue, token, workers, prods
<1>2. CASE FifoCheck(w)
  <2>1. CASE MyTurn(w) BY <1>1, <1>2, <2>1 DEF FifoCheck
  <2>2. CASE ~MyTurn(w) BY <1>1, <1>2, <2>2 DEF FifoCheck
  <2> QED BY <2>1, <2>2
<1>3. CASE RunTxChscan(w)
  <2>1. \A v \in Worker \ {w} : job'[v] = job[v] BY <1>3 DEF RunTxChscan, Forget, TypeOK
  <2>2. \/ Goto(w, "lock_channel") \/ Goto(w, "finalize") \/ Goto(w, "get")
    BY <1>3 DEF RunTxChscan
  <2> QED BY <1>1, <1>3, <2>1, <2>2 DEF RunTxChscan
<1>4. CASE Finalize(w)
  <2>1. \A v \in Worker \ {w} : job'[v] = job[v] BY <1>4 DEF Finalize, Forget, TypeOK
  <2> QED BY <1>1, <1>4, <2>1 DEF Finalize
<1>5. CASE LeaveLoop(w) BY <1>1, <1>5 DEF LeaveLoop
<1>6. CASE ExitWorker(w) BY <1>1, <1>6 DEF ExitWorker
<1>7. CASE Wakeup(w) BY <1>1, <1>7 DEF Wakeup
<1>8. CASE TimeoutReturn(w) BY <1>1, <1>8 DEF TimeoutReturn
<1> QED
  BY <1>2, <1>3, <1>4, <1>5, <1>6, <1>7, <1>8, IndDequeue, IndLock, IndReturnFifo,
     IndNotifyAll, IndReturn, IndDrain
  DEF WorkerStep

\* work_start() is executed with the token, and nothing else then.
LEMMA IndStart ==
    ASSUME IndInv, TypeOK', NEW q \in Producer, StartFirmware(q) \/ ReturnStart(q)
    PROVE  IndInv'
<1>a. TypeOK /\ HolderInv /\ QueueInv /\ HeldInv /\ TurnInv BY DEF IndInv
<1>1. UNCHANGED counts /\ UNCHANGED <<wpc, job>>
  BY DEF StartFirmware, ReturnStart, counts, queue, workers
<1>2. QueueInv' BY <1>1, <1>a, QueueFrame
<1>3. HeldInv' BY <1>1, <1>a, HeldFrame
<1>4. TurnInv' BY <1>1, <1>a, TurnFrame DEF counts
<1>5. HolderInv'
  <2>1. CASE StartFirmware(q) /\ lockv = NoThread
    <3>1. /\ lockv' = q /\ ppc'[q] = "work_start"
          /\ \A r \in Producer \ {q} : ppc'[r] = ppc[r]
      BY <2>1, <1>a DEF StartFirmware, TypeOK
    <3>2. /\ \A w \in Worker : wpc[w] \notin InFirmware
          /\ \A r \in Producer : ppc[r] # "work_start"
      BY <2>1, <1>a, ConstantsAssumption DEF HolderInv
    <3> QED BY <3>1, <3>2, <1>1, ConstantsAssumption DEF HolderInv
  <2>2. CASE StartFirmware(q) /\ lockv # NoThread
    <3>1. UNCHANGED <<lockv, id_holder, ppc>> BY <2>2 DEF StartFirmware
    <3> QED BY <3>1, <1>1, <1>a, HolderFrame
  <2>3. CASE ReturnStart(q)
    <3>1. /\ ppc[q] = "work_start" /\ ppc'[q] = "registered"
          /\ lockv' = NoThread /\ id_holder' = NoPool
          /\ \A r \in Producer \ {q} : ppc'[r] = ppc[r]
      BY <2>3, <1>a DEF ReturnStart, Unlock, TypeOK
    <3>2. /\ lockv = q
          /\ \A w \in Worker : wpc[w] \notin InFirmware
          /\ \A r \in Producer \ {q} : ppc[r] # "work_start"
      BY <3>1, <1>a, ConstantsAssumption DEF HolderInv
    <3> QED BY <3>1, <3>2, <1>1, ConstantsAssumption DEF HolderInv
  <2> QED BY <2>1, <2>2, <2>3
<1> QED BY <1>2, <1>3, <1>4, <1>5 DEF IndInv

LEMMA IndStep == IndInv /\ [Next]_vars => IndInv'
<1> SUFFICES ASSUME IndInv, [Next]_vars PROVE IndInv' OBVIOUS
<1>0. TypeOK BY DEF IndInv
<1>1. TypeOK' BY <1>0, TypeStep
<1> USE <1>1 DEF queue, token, workers, run, counts
<1>2. ASSUME NEW q \in Producer, ProducerStep(q) PROVE IndInv'
  <2>1. CASE StartSync(q)
    <3>1. \A r \in Producer : ppc'[r] = "work_start" <=> ppc[r] = "work_start"
      BY <2>1, <1>0 DEF StartSync, Registered, TypeOK
    <3> QED BY <2>1, <3>1, IndQuiet DEF StartSync
  <2>2. CASE Enqueue(q) BY <2>2, IndEnqueue
  <2>3. CASE NoSlot(q) BY <2>3, IndQuiet DEF NoSlot, prods
  <2>4. CASE ExitProducer(q)
    <3>1. \A r \in Producer : ppc'[r] = "work_start" <=> ppc[r] = "work_start"
      BY <2>4, <1>0 DEF ExitProducer, TypeOK
    <3> QED BY <2>4, <3>1, IndQuiet DEF ExitProducer
  <2>5. CASE StartFirmware(q) \/ ReturnStart(q) BY <2>5, IndStart
  <2> QED BY <1>2, <2>1, <2>2, <2>3, <2>4, <2>5 DEF ProducerStep
<1>3. ASSUME NEW q \in Producer, NEW k \in Kind, Produce(q, k) PROVE IndInv'
  <2>1. \A r \in Producer : ppc'[r] = "work_start" <=> ppc[r] = "work_start"
    BY <1>3, <1>0, SMTT(60) DEF Produce, TypeOK, prods
  <2> QED BY <1>3, <2>1, IndQuiet DEF Produce
<1>4. ASSUME NEW w \in Worker, WorkerStep(w) \/ Wakeup(w) \/ TimeoutReturn(w) PROVE IndInv'
  BY <1>4, IndWorker
<1>5. ASSUME NEW p \in Pool, StopPool(p) PROVE IndInv' BY <1>5, IndQuiet DEF StopPool, prods
<1>6. CASE StopUpper BY <1>6, IndQuiet DEF StopUpper, prods
<1>7. CASE UNCHANGED vars BY <1>7, IndQuiet DEF vars, prods
<1> QED BY <1>2, <1>3, <1>4, <1>5, <1>6, <1>7 DEF Next, Terminated

\* The state of the queue, of the token and of the workers always agree.
THEOREM Invariant == Spec => []IndInv
BY IndInit, IndStep, PTL DEF Spec

-----------------------------------------------------------------------------
(* What follows from it *)

\* The assertions of token_t never abort the program.
THEOREM TokenAssertionsHold == Spec => []TokenAssertions
<1>1. IndInv => TokenAssertions
  <2> SUFFICES ASSUME IndInv PROVE TokenAssertions OBVIOUS
  <2>1. \A w \in Worker : wpc[w] \in {"fifo", "wait"} => fifo_cnt[PoolOf[w]] <= job[w].fifo_cnt
    BY DEF IndInv, HeldInv, Unserved
  <2>2. \A w \in Worker : wpc[w] \in InFirmware => id_holder = PoolOf[w]
    BY ConstantsAssumption DEF IndInv, HolderInv
  <2> QED BY <2>1, <2>2 DEF TokenAssertions, IndInv, HolderInv
<1> QED BY <1>1, Invariant, PTL

\* Two threads never execute the firmware at the same time.
THEOREM FirmwareIsExclusive == Spec => []FirmwareExclusive
<1>1. IndInv => FirmwareExclusive BY DEF IndInv, HolderInv, FirmwareExclusive, Inside
<1> QED BY <1>1, Invariant, PTL

\* The job of a worker whose turn it is.
LEMMA TurnOfJob ==
    ASSUME IndInv, NEW w \in Worker, wpc[w] \in {"lock_fifo", "work"}
    PROVE  /\ job[w].fifo_cnt = fifo_cnt[PoolOf[w]]
           /\ fifo_cnt[PoolOf[w]] < Len(accepted[PoolOf[w]])
           /\ job[w].content = accepted[PoolOf[w]][fifo_cnt[PoolOf[w]] + 1]
<1>1. job[w].fifo_cnt = fifo_cnt[PoolOf[w]]
  BY DEF IndInv, TurnInv, MyTurn
<1>2. PoolOf[w] \in Pool /\ TypeOK
  BY PoolOfType DEF IndInv
<1>3. /\ Len(job_vec[PoolOf[w]]) \in Nat /\ enq_cnt[PoolOf[w]] \in Nat
      /\ fifo_cnt[PoolOf[w]] \in Nat
  BY <1>2, PoolFacts
<1>4. /\ job[w].fifo_cnt + Len(job_vec[PoolOf[w]]) < enq_cnt[PoolOf[w]]
      /\ Len(accepted[PoolOf[w]]) = enq_cnt[PoolOf[w]]
      /\ Genuine(PoolOf[w], job[w])
  BY <1>2 DEF IndInv, HeldInv, QueueInv, Unserved
<1> QED  BY <1>1, <1>3, <1>4 DEF Genuine

\* Every FIFO call processes the job that was accepted at its number.
THEOREM FifoOrderHolds == Spec => []FifoOrder
<1>1. IndInv => FifoOrder  BY TurnOfJob DEF FifoOrder
<1> QED  BY <1>1, Invariant, PTL

-----------------------------------------------------------------------------
(* No wake-up is lost *)

\* Nobody begins to wait for the current turn, and nobody forgets to notify.
LEMMA WakeupFrame ==
    ASSUME NoLostWakeup, UNCHANGED fifo_cnt,
           \A v \in Worker : wpc'[v] = "wait" =>
                \/ wpc[v] = "wait" /\ job'[v] = job[v]
                \/ job'[v].fifo_cnt # fifo_cnt[PoolOf[v]],
           \A v \in Worker : wpc[v] = "notify" => wpc'[v] = "notify"
    PROVE  NoLostWakeup'
<1> SUFFICES ASSUME NEW w \in Worker, wpc'[w] = "wait", job'[w].fifo_cnt = fifo_cnt[PoolOf[w]]
             PROVE  \E v \in Worker : PoolOf[v] = PoolOf[w] /\ wpc'[v] = "notify"
  BY DEF NoLostWakeup
<1>1. PICK v \in Worker : PoolOf[v] = PoolOf[w] /\ wpc[v] = "notify"
  BY DEF NoLostWakeup
<1> QED  BY <1>1

\* The end of a turn makes the worker a notifier, the notification empties the
\* condition variable.
LEMMA WakeupWorker ==
    ASSUME IndInv, NoLostWakeup, NEW w \in Worker,
           WorkerStep(w) \/ Wakeup(w) \/ TimeoutReturn(w)
    PROVE  NoLostWakeup'
<1>a. TypeOK /\ HolderInv  BY DEF IndInv
<1>1. ASSUME NEW pc \in WorkerPc, pc = "wait" => ~MyTurn(w) /\ UNCHANGED job, Goto(w, pc),
             fifo_cnt' = fifo_cnt, wpc[w] # "notify", \A v \in Worker \ {w} : job'[v] = job[v]
      PROVE  NoLostWakeup'
  <2>1. wpc'[w] = pc /\ \A v \in Worker \ {w} : wpc'[v] = wpc[v]
    BY <1>1, <1>a DEF Goto, TypeOK
  <2> QED  BY <2>1, <1>1, WakeupFrame DEF MyTurn
<1> USE <1>a DEF token, workers, WorkerPc, Unserved, Served
<1>2. CASE Dequeue(w)
  <2>1. \A v \in Worker \ {w} : job'[v] = job[v]  BY <1>2 DEF Dequeue, TypeOK
  <2>2. Goto(w, "fifo") /\ UNCHANGED fifo_cnt /\ wpc[w] # "notify"  BY <1>2 DEF Dequeue
  <2> QED  BY <1>1, <2>1, <2>2
<1>3. CASE FifoCheck(w)
  <2>1. CASE MyTurn(w)  BY <1>1, <1>3, <2>1 DEF FifoCheck
  <2>2. CASE ~MyTurn(w)  BY <1>1, <1>3, <2>2 DEF FifoCheck
  <2> QED  BY <2>1, <2>2
<1>4. CASE Lock(w)
  BY <1>1, <1>4 DEF Lock
<1>5. CASE ReturnFifo(w)
  <2>1. id_holder = PoolOf[w] /\ PoolOf[w] \in Pool
    BY <1>5, PoolOfType, ConstantsAssumption DEF ReturnFifo, HolderInv, InFirmware
  <2>2. /\ wpc[w] = "work" /\ wpc'[w] = "notify" /\ job' = job
        /\ \A v \in Worker \ {w} : wpc'[v] = wpc[v]
        /\ \A p \in Pool \ {PoolOf[w]} : fifo_cnt'[p] = fifo_cnt[p]
    BY <1>5, <2>1 DEF ReturnFifo, Goto, TypeOK
  <2> SUFFICES ASSUME NEW u \in Worker, wpc'[u] = "wait", job'[u].fifo_cnt = fifo_cnt'[PoolOf[u]]
               PROVE  \E v \in Worker : PoolOf[v] = PoolOf[u] /\ wpc'[v] = "notify"
    BY DEF NoLostWakeup
  <2>3. CASE PoolOf[u] = PoolOf[w]
    BY <2>2, <2>3
  <2>4. CASE PoolOf[u] # PoolOf[w]
    <3>1. u # w /\ fifo_cnt'[PoolOf[u]] = fifo_cnt[PoolOf[u]]
      BY <2>2, <2>4, PoolOfType
    <3>2. PICK v \in Worker : PoolOf[v] = PoolOf[u] /\ wpc[v] = "notify"
      BY <2>2, <3>1 DEF NoLostWakeup
    <3> QED  BY <2>2, <3>2
  <2> QED  BY <2>3, <2>4
<1>6. CASE NotifyAll(w)
  <2>1. \A v \in Worker : wpc'[v] # "wait"
    BY <1>6 DEF NotifyAll, Woken, TypeOK
  <2> QED  BY <2>1 DEF NoLostWakeup
<1>7. CASE Return(w)
  BY <1>1, <1>7 DEF Return
<1>8. CASE RunTxChscan(w)
  <2>1. \A v \in Worker \ {w} : job'[v] = job[v]  BY <1>8 DEF RunTxChscan, Forget, TypeOK
  <2>2. /\ Goto(w, "lock_channel") \/ Goto(w, "finalize") \/ Goto(w, "get")
        /\ UNCHANGED fifo_cnt /\ wpc[w] # "notify"
    BY <1>8 DEF RunTxChscan
  <2> QED  BY <1>1, <2>1, <2>2
<1>9. CASE Finalize(w)
  <2>1. \A v \in Worker \ {w} : job'[v] = job[v]  BY <1>9 DEF Finalize, Forget, TypeOK
  <2>2. Goto(w, "get") /\ UNCHANGED fifo_cnt /\ wpc[w] # "notify"  BY <1>9 DEF Finalize
  <2> QED  BY <1>1, <2>1, <2>2
<1>10. CASE LeaveLoop(w) \/ ExitWorker(w) \/ Wakeup(w) \/ TimeoutReturn(w)
  BY <1>1, <1>10 DEF LeaveLoop, ExitWorker, Wakeup, TimeoutReturn
<1>11. CASE Drain(w)
  BY <1>11, WakeupFrame DEF Drain
<1> QED  BY <1>2, <1>3, <1>4, <1>5, <1>6, <1>7, <1>8, <1>9, <1>10, <1>11 DEF WorkerStep

\* Producers and the shutdown touch neither workers nor counts.
LEMMA OthersLeaveWorkers ==
    ASSUME [Next]_vars,
           ~\E w \in Worker : WorkerStep(w) \/ Wakeup(w) \/ TimeoutReturn(w)
    PROVE  UNCHANGED <<fifo_cnt, workers>>
<1> USE DEF vars, token, workers
<1>1. ASSUME NEW q \in Producer, ProducerStep(q) PROVE UNCHANGED <<fifo_cnt, workers>>
  BY <1>1 DEF ProducerStep, StartFirmware, ReturnStart, StartSync, Enqueue, NoSlot, ExitProducer
<1>2. ASSUME NEW q \in Producer, NEW k \in Kind, Produce(q, k)
      PROVE  UNCHANGED <<fifo_cnt, workers>>
  BY <1>2 DEF Produce
<1>3. ASSUME NEW p \in Pool, StopPool(p) PROVE UNCHANGED <<fifo_cnt, workers>>
  BY <1>3 DEF StopPool
<1>4. CASE StopUpper
  BY <1>4 DEF StopUpper
<1> QED  BY <1>1, <1>2, <1>3, <1>4 DEF Next, Terminated

\* A worker of lock_fifo_to() that sleeps although its turn has come has a
\* notification of unlock_fifo() ahead of it.
THEOREM NoLostWakeupHolds == Spec => []NoLostWakeup
<1>1. Init => NoLostWakeup
  BY DEF Init, NoLostWakeup
<1>2. IndInv /\ NoLostWakeup /\ [Next]_vars => NoLostWakeup'
  <2> SUFFICES ASSUME IndInv, NoLostWakeup, [Next]_vars PROVE NoLostWakeup'
    OBVIOUS
  <2>1. CASE \E w \in Worker : WorkerStep(w) \/ Wakeup(w) \/ TimeoutReturn(w)
    BY <2>1, WakeupWorker
  <2>2. CASE ~\E w \in Worker : WorkerStep(w) \/ Wakeup(w) \/ TimeoutReturn(w)
    BY <2>2, OthersLeaveWorkers, WakeupFrame DEF workers
  <2> QED  BY <2>1, <2>2
<1> QED  BY <1>1, <1>2, Invariant, PTL DEF Spec

-----------------------------------------------------------------------------
(* The turn is in somebody's hands *)

\* Threads leave the loop of work() only after their pool was told to stop.
LeaveInv == \A w \in Worker : wpc[w] \in {"drain", "exited"} => ~keep_running[PoolOf[w]]

\* While its pool runs, every job that left the queue and had no turn yet is held
\* by a worker: none is skipped or dropped.
Held(p, n) == \E v \in Worker : PoolOf[v] = p /\ wpc[v] \in Unserved /\ job[v].fifo_cnt = n

CoverInv ==
    \A p \in Pool, n \in Nat :
        keep_running[p] /\ fifo_cnt[p] <= n /\ n + Len(job_vec[p]) < enq_cnt[p] => Held(p, n)

\* No worker drops a job, no job leaves the queue and none is numbered.
LEMMA CoverFrame ==
    ASSUME CoverInv, UNCHANGED counts,
           \A p \in Pool : keep_running'[p] => keep_running[p],
           \A v \in Worker : keep_running[PoolOf[v]] /\ wpc[v] \in Unserved =>
                                wpc'[v] \in Unserved /\ job'[v] = job[v]
    PROVE  CoverInv'
<1> SUFFICES ASSUME NEW p \in Pool, NEW n \in Nat, keep_running'[p], fifo_cnt[p] <= n,
                    n + Len(job_vec[p]) < enq_cnt[p]
             PROVE  Held(p, n)'
  BY DEF CoverInv, counts
<1>1. PICK v \in Worker : PoolOf[v] = p /\ wpc[v] \in Unserved /\ job[v].fifo_cnt = n
  BY DEF CoverInv, Held
<1> QED  BY <1>1 DEF Held

LEMMA LeaveFrame ==
    ASSUME LeaveInv, \A p \in Pool : keep_running'[p] => keep_running[p],
           \A v \in Worker : wpc'[v] \in {"drain", "exited"} =>
                wpc[v] \in {"drain", "exited"} \/ ~keep_running[PoolOf[v]]
    PROVE  LeaveInv'
BY PoolOfType DEF LeaveInv

\* A new job gets the number after those in the queue.
LEMMA CoverEnqueue ==
    ASSUME IndInv, CoverInv, NEW q \in Producer, Enqueue(q)
    PROVE  CoverInv'
<1>1. PoolOf[q] \in Pool /\ TypeOK
  BY PoolOfType DEF IndInv
<1>2. UNCHANGED <<keep_running, wpc, job, fifo_cnt>>
  BY DEF Enqueue, token, workers, run
<1>3. ASSUME NEW p \in Pool
      PROVE  /\ Len(job_vec[p]) \in Nat /\ enq_cnt[p] \in Nat
             /\ \/ Len(job_vec'[p]) = Len(job_vec[p]) /\ enq_cnt'[p] = enq_cnt[p]
                \/ Len(job_vec'[p]) = Len(job_vec[p]) + 1 /\ enq_cnt'[p] = enq_cnt[p] + 1
  <2>1. job_vec[p] \in Seq(Job) /\ Len(job_vec[p]) \in Nat /\ enq_cnt[p] \in Nat
    BY <1>1, PoolFacts
  <2>2. CASE p # PoolOf[q]
    BY <1>1, <2>1, <2>2 DEF Enqueue, TypeOK
  <2>3. CASE p = PoolOf[q]
    <3>1. NumberedJob(q) \in Job
      BY <1>1, <2>1, <2>3 DEF NumberedJob, TypeOK, Job
    <3>2. job_vec'[p] = Append(job_vec[p], NumberedJob(q)) /\ enq_cnt'[p] = enq_cnt[p] + 1
      BY <1>1, <2>3 DEF Enqueue, Put, TypeOK
    <3> QED  BY <2>1, <3>1, <3>2
  <2> QED  BY <2>2, <2>3
<1> SUFFICES ASSUME NEW p \in Pool, NEW n \in Nat, keep_running[p], fifo_cnt[p] <= n,
                    n + Len(job_vec'[p]) < enq_cnt'[p]
             PROVE  Held(p, n)
  BY <1>2 DEF CoverInv, Held
<1> QED  BY <1>3, SMTT(60) DEF CoverInv

\* The oldest job of the queue goes into the hands of a worker.
LEMMA CoverDequeue ==
    ASSUME IndInv, CoverInv, NEW w \in Worker, Dequeue(w)
    PROVE  CoverInv'
<1> DEFINE p == PoolOf[w]
<1>a. TypeOK /\ QueueInv  BY DEF IndInv
<1>0. p \in Pool  BY PoolOfType
<1>1. /\ wpc[w] = "get" /\ job_vec[p] # <<>>
      /\ job_vec' = [job_vec EXCEPT ![p] = Tail(job_vec[p])]
      /\ UNCHANGED <<enq_cnt, fifo_cnt, accepted, keep_running>>
      /\ job'[w] = Head(job_vec[p]) /\ wpc'[w] = "fifo"
      /\ \A v \in Worker \ {w} : job'[v] = job[v] /\ wpc'[v] = wpc[v]
  BY <1>a DEF Dequeue, Goto, TypeOK, token, run
<1>2. /\ Len(job_vec[p]) \in Nat /\ Len(job_vec'[p]) = Len(job_vec[p]) - 1
      /\ \A o \in Pool \ {p} : job_vec'[o] = job_vec[o]
      /\ Head(job_vec[p]).fifo_cnt + Len(job_vec[p]) = enq_cnt[p]
      /\ Head(job_vec[p]).fifo_cnt \in Nat /\ enq_cnt[p] \in Nat
  BY <1>0, <1>1, <1>a, TakeOldest, PoolFacts DEF Job
<1>3. ASSUME NEW o \in Pool, NEW n \in Nat, Held(o, n) PROVE Held(o, n)'
  <2>1. PICK v \in Worker : PoolOf[v] = o /\ wpc[v] \in Unserved /\ job[v].fifo_cnt = n
    BY <1>3 DEF Held
  <2>2. v # w  BY <2>1, <1>1 DEF Unserved
  <2> QED  BY <1>1, <2>1, <2>2 DEF Held
<1> SUFFICES ASSUME NEW o \in Pool, NEW n \in Nat, keep_running[o], fifo_cnt[o] <= n,
                    n + Len(job_vec'[o]) < enq_cnt[o]
             PROVE  Held(o, n)'
  BY <1>1 DEF CoverInv
<1>4. CASE n + Len(job_vec[o]) < enq_cnt[o]
  BY <1>3, <1>4 DEF CoverInv
<1>5. CASE ~(n + Len(job_vec[o]) < enq_cnt[o])
  <2>1. o = p  BY <1>2, <1>5
  <2>2. n = job'[w].fifo_cnt  BY <1>1, <1>2, <1>5, <2>1
  <2> QED  BY <1>1, <2>1, <2>2 DEF Held, Unserved
<1> QED  BY <1>4, <1>5

\* The job whose turn ends is the only one that leaves the hands of a worker.
LEMMA CoverReturnFifo ==
    ASSUME IndInv, CoverInv, NEW w \in Worker, ReturnFifo(w)
    PROVE  CoverInv'
<1> DEFINE p == PoolOf[w]
<1>a. TypeOK /\ HolderInv /\ TurnInv  BY DEF IndInv
<1>0. p \in Pool  BY PoolOfType
<1>1. wpc[w] = "work" /\ id_holder = p /\ job[w].fifo_cnt = fifo_cnt[p] /\ fifo_cnt[p] \in Nat
  BY <1>0, <1>a, PoolFacts, ConstantsAssumption
  DEF ReturnFifo, HolderInv, InFirmware, TurnInv, MyTurn
<1>2. /\ fifo_cnt'[p] = fifo_cnt[p] + 1
      /\ \A o \in Pool \ {p} : fifo_cnt'[o] = fifo_cnt[o]
      /\ \A v \in Worker \ {w} : wpc'[v] = wpc[v]
      /\ UNCHANGED <<job_vec, enq_cnt, job, keep_running>>
  BY <1>0, <1>1, <1>a DEF ReturnFifo, Goto, TypeOK, queue, run
<1> SUFFICES ASSUME NEW o \in Pool, NEW n \in Nat, keep_running[o], fifo_cnt'[o] <= n,
                    n + Len(job_vec[o]) < enq_cnt[o]
             PROVE  Held(o, n)'
  BY <1>2 DEF CoverInv
<1>3. fifo_cnt[o] <= n /\ (o = p => n # fifo_cnt[p])
  BY <1>1, <1>2
<1>4. PICK v \in Worker : PoolOf[v] = o /\ wpc[v] \in Unserved /\ job[v].fifo_cnt = n
  BY <1>3 DEF CoverInv, Held
<1>5. v # w  BY <1>1, <1>3, <1>4
<1> QED  BY <1>2, <1>4, <1>5 DEF Held

\* All other steps of a worker keep its job while its pool runs.
LEMMA CoverMove ==
    ASSUME TypeOK, CoverInv, UNCHANGED counts, UNCHANGED keep_running,
           NEW w \in Worker, NEW pc, Goto(w, pc), \A v \in Worker \ {w} : job'[v] = job[v],
           keep_running[PoolOf[w]] /\ wpc[w] \in Unserved => pc \in Unserved /\ job'[w] = job[w]
    PROVE  CoverInv'
<1>1. wpc'[w] = pc /\ \A v \in Worker \ {w} : wpc'[v] = wpc[v]
  BY DEF Goto, TypeOK
<1> QED  BY <1>1, CoverFrame

\* Steps of workers.
LEMMA CoverWorker ==
    ASSUME IndInv, CoverInv, LeaveInv, NEW w \in Worker,
           WorkerStep(w) \/ Wakeup(w) \/ TimeoutReturn(w)
    PROVE  CoverInv'
<1>a. TypeOK  BY DEF IndInv
<1> USE <1>a DEF counts, queue, token, workers, run, Unserved
<1>1. CASE FifoCheck(w)
  <2>1. Goto(w, "lock_fifo") \/ Goto(w, "wait")  BY <1>1 DEF FifoCheck
  <2> QED  BY <1>1, <2>1, CoverMove DEF FifoCheck
<1>2. CASE Lock(w)
  <2>1. \/ wpc[w] = "lock_fifo" /\ Goto(w, "work")
        \/ wpc[w] = "lock_pdc" /\ Goto(w, "work_pdc")
        \/ wpc[w] = "lock_channel" /\ Goto(w, "work_channel")
    BY <1>2 DEF Lock
  <2>2. UNCHANGED <<counts, keep_running, job>>  BY <1>2 DEF Lock
  <2> QED  BY <2>1, <2>2, CoverMove
<1>3. CASE NotifyAll(w)
  <2>1. UNCHANGED <<counts, keep_running>>  BY <1>3 DEF NotifyAll
  <2>2. \A v \in Worker : wpc[v] \in Unserved => wpc'[v] \in Unserved /\ job'[v] = job[v]
    BY <1>3 DEF NotifyAll, Woken, Forget, TypeOK
  <2> QED  BY <2>1, <2>2, CoverFrame
<1>4. CASE Return(w)
  <2>1. Goto(w, "tx") \/ Goto(w, "tx_channel")  BY <1>4 DEF Return
  <2> QED  BY <1>4, <2>1, CoverMove DEF Return
<1>5. CASE RunTxChscan(w)
  <2>1. \A v \in Worker \ {w} : job'[v] = job[v]  BY <1>5 DEF RunTxChscan, Forget, TypeOK
  <2>2. /\ Goto(w, "lock_channel") \/ Goto(w, "finalize") \/ Goto(w, "get")
        /\ wpc[w] \in {"tx", "tx_channel"} /\ UNCHANGED <<counts, keep_running>>
    BY <1>5 DEF RunTxChscan
  <2> QED  BY <2>1, <2>2, CoverMove
<1>6. CASE Finalize(w)
  <2>1. \A v \in Worker \ {w} : job'[v] = job[v]  BY <1>6 DEF Finalize, Forget, TypeOK
  <2>2. Goto(w, "get") /\ wpc[w] = "finalize" /\ UNCHANGED <<counts, keep_running>>
    BY <1>6 DEF Finalize
  <2> QED  BY <2>1, <2>2, CoverMove
<1>7. CASE LeaveLoop(w)
  BY <1>7, CoverMove DEF LeaveLoop
<1>8. CASE ExitWorker(w)
  BY <1>8, CoverMove DEF ExitWorker
<1>9. CASE Wakeup(w)
  BY <1>9, CoverMove DEF Wakeup
<1>10. CASE TimeoutReturn(w)
  BY <1>10, CoverMove DEF TimeoutReturn
\* Jobs are discarded only when the pool stops.
<1>11. CASE Drain(w)
  <2>1. PoolOf[w] \in Pool /\ ~keep_running[PoolOf[w]]
    BY <1>11, PoolOfType DEF Drain, LeaveInv
  <2>2. \A p \in Pool : keep_running[p] => job_vec'[p] = job_vec[p]
    BY <1>11, <2>1 DEF Drain, TypeOK
  <2>3. UNCHANGED <<enq_cnt, fifo_cnt, keep_running, wpc, job>>
    BY <1>11 DEF Drain
  <2> SUFFICES ASSUME NEW p \in Pool, NEW n \in Nat, keep_running[p], fifo_cnt[p] <= n,
                      n + Len(job_vec[p]) < enq_cnt[p]
               PROVE  Held(p, n)
    BY <2>2, <2>3 DEF CoverInv, Held
  <2> QED  BY DEF CoverInv
<1> QED
  BY <1>1, <1>2, <1>3, <1>4, <1>5, <1>6, <1>7, <1>8, <1>9, <1>10, <1>11, CoverDequeue, CoverReturnFifo
  DEF WorkerStep

LEMMA LeaveWorker ==
    ASSUME TypeOK, LeaveInv, NEW w \in Worker, WorkerStep(w) \/ Wakeup(w) \/ TimeoutReturn(w)
    PROVE  LeaveInv'
<1> USE DEF run, Goto, TypeOK
<1>1. ASSUME UNCHANGED keep_running, \A v \in Worker \ {w} : wpc'[v] = wpc[v],
             wpc'[w] \in {"drain", "exited"} =>
                wpc[w] \in {"drain", "exited"} \/ ~keep_running[PoolOf[w]]
      PROVE  LeaveInv'
  BY <1>1, LeaveFrame
<1>2. CASE NotifyAll(w)
  <2>1. \A v \in Worker : wpc'[v] \in {"drain", "exited"} => wpc[v] = wpc'[v]
    BY <1>2 DEF NotifyAll, Woken
  <2> QED  BY <1>2, <2>1, LeaveFrame DEF NotifyAll
<1>3. CASE Drain(w)
  BY <1>3, LeaveFrame DEF Drain, workers
<1>4. CASE Dequeue(w)
  BY <1>1, <1>4 DEF Dequeue
<1>5. CASE FifoCheck(w)
  BY <1>1, <1>5 DEF FifoCheck
<1>6. CASE Lock(w)
  BY <1>1, <1>6 DEF Lock
<1>7. CASE ReturnFifo(w)
  BY <1>1, <1>7 DEF ReturnFifo
<1>8. CASE Return(w)
  BY <1>1, <1>8 DEF Return
<1>9. CASE RunTxChscan(w)
  BY <1>1, <1>9 DEF RunTxChscan
<1>10. CASE Finalize(w)
  BY <1>1, <1>10 DEF Finalize
<1>11. CASE LeaveLoop(w)
  BY <1>1, <1>11 DEF LeaveLoop
<1>12. CASE ExitWorker(w)
  BY <1>1, <1>12 DEF ExitWorker
<1>13. CASE Wakeup(w)
  BY <1>1, <1>13 DEF Wakeup
<1>14. CASE TimeoutReturn(w)
  BY <1>1, <1>14 DEF TimeoutReturn
<1> QED
  BY <1>2, <1>3, <1>4, <1>5, <1>6, <1>7, <1>8, <1>9, <1>10, <1>11, <1>12, <1>13, <1>14 DEF WorkerStep

\* Steps of producers and of the shutdown.
LEMMA CoverOthers ==
    ASSUME IndInv, CoverInv, LeaveInv, [Next]_vars,
           ~\E w \in Worker : WorkerStep(w) \/ Wakeup(w) \/ TimeoutReturn(w)
    PROVE  CoverInv' /\ LeaveInv'
<1>1. UNCHANGED <<fifo_cnt, workers>>
  BY OthersLeaveWorkers
<1>2. ASSUME UNCHANGED counts, \A p \in Pool : keep_running'[p] => keep_running[p]
      PROVE  CoverInv' /\ LeaveInv'
  BY <1>1, <1>2, CoverFrame, LeaveFrame DEF workers
<1> USE DEF counts, queue, run, vars
<1>3. ASSUME NEW q \in Producer, Enqueue(q) PROVE CoverInv' /\ LeaveInv'
  BY <1>1, <1>3, CoverEnqueue, LeaveFrame DEF Enqueue, workers
<1>4. ASSUME NEW q \in Producer, ProducerStep(q), ~Enqueue(q) PROVE CoverInv' /\ LeaveInv'
  BY <1>1, <1>2, <1>4 DEF ProducerStep, StartFirmware, ReturnStart, StartSync, NoSlot, ExitProducer
<1>5. ASSUME NEW q \in Producer, NEW k \in Kind, Produce(q, k) PROVE CoverInv' /\ LeaveInv'
  BY <1>1, <1>2, <1>5 DEF Produce
<1>6. ASSUME NEW p \in Pool, StopPool(p) PROVE CoverInv' /\ LeaveInv'
  <2>1. \A o \in Pool : keep_running'[o] => keep_running[o]
    BY <1>6 DEF StopPool, IndInv, TypeOK
  <2> QED  BY <1>1, <1>2, <1>6, <2>1 DEF StopPool
<1>7. CASE StopUpper
  BY <1>1, <1>2, <1>7 DEF StopUpper
<1>8. CASE UNCHANGED vars
  BY <1>1, <1>2, <1>8
<1> QED  BY <1>3, <1>4, <1>5, <1>6, <1>7, <1>8 DEF Next, Terminated

\* While a pool runs, whoever waits in lock_fifo_to() waits for a job that another
\* worker holds: never for one that is still in the queue, or that nobody has.
THEOREM TurnIsHeldHolds == Spec => []TurnIsHeld
<1> DEFINE Inv == IndInv /\ CoverInv /\ LeaveInv
<1>1. Init => CoverInv /\ LeaveInv
  <2> SUFFICES ASSUME Init PROVE CoverInv /\ LeaveInv
    OBVIOUS
  <2>1. \A p \in Pool, n \in Nat : ~(fifo_cnt[p] <= n /\ n + Len(job_vec[p]) < enq_cnt[p])
    BY DEF Init
  <2> QED  BY <2>1 DEF Init, CoverInv, LeaveInv
<1>2. Inv /\ [Next]_vars => CoverInv' /\ LeaveInv'
  <2> SUFFICES ASSUME IndInv, CoverInv, LeaveInv, [Next]_vars PROVE CoverInv' /\ LeaveInv'
    OBVIOUS
  <2>1. CASE \E w \in Worker : WorkerStep(w) \/ Wakeup(w) \/ TimeoutReturn(w)
    BY <2>1, CoverWorker, LeaveWorker DEF IndInv
  <2>2. CASE ~\E w \in Worker : WorkerStep(w) \/ Wakeup(w) \/ TimeoutReturn(w)
    BY <2>2, CoverOthers
  <2> QED  BY <2>1, <2>2
<1>3. Inv => TurnIsHeld
  <2> SUFFICES ASSUME Inv, NEW w \in Worker, keep_running[PoolOf[w]], wpc[w] \in Unserved
               PROVE  \E v \in Worker : /\ PoolOf[v] = PoolOf[w] /\ wpc[v] \in Unserved
                                        /\ job[v].fifo_cnt = fifo_cnt[PoolOf[w]]
    BY DEF TurnIsHeld
  <2> DEFINE p == PoolOf[w]
  <2>1. p \in Pool /\ job[w].fifo_cnt \in Nat
    BY WorkerFacts DEF IndInv
  <2>2. fifo_cnt[p] \in Nat /\ enq_cnt[p] \in Nat /\ Len(job_vec[p]) \in Nat
    BY <2>1, PoolFacts DEF IndInv
  <2>3. fifo_cnt[p] <= job[w].fifo_cnt /\ job[w].fifo_cnt + Len(job_vec[p]) < enq_cnt[p]
    BY DEF IndInv, HeldInv
  <2>4. Held(p, fifo_cnt[p])
    <3>1. fifo_cnt[p] <= fifo_cnt[p] /\ fifo_cnt[p] + Len(job_vec[p]) < enq_cnt[p]
      BY <2>1, <2>2, <2>3
    <3> QED  BY <2>1, <2>2, <3>1 DEF CoverInv
  <2> QED  BY <2>4 DEF Held
<1> QED  BY <1>1, <1>2, <1>3, Invariant, PTL DEF Spec

-----------------------------------------------------------------------------
(* HARQ processes *)

\* A worker has a process from work_pcc() that asks for the PDC at least until
\* work_pdc() returns, and none before.
HasHarq(pc, a, h) ==
    /\ pc \in Unserved \cup {"get", "drain", "exited"} => h = NoHarq
    /\ pc \in Unserved => a # "lock_pdc"
    /\ pc = "notify" => (a = "lock_pdc" <=> h # NoHarq)
    /\ pc \in {"lock_pdc", "work_pdc"} => h # NoHarq

HarqInv ==
    /\ \A v, w \in Worker : hp_rx[v] = hp_rx[w] /\ v # w => hp_rx[v] = NoHarq
    /\ \A w \in Worker : HasHarq(wpc[w], after[w], hp_rx[w])

\* A step that locks no process.
LEMMA HarqFrame ==
    ASSUME HarqInv, \A v \in Worker : hp_rx'[v] = hp_rx[v] \/ hp_rx'[v] = NoHarq,
           \A v \in Worker : HasHarq(wpc'[v], after'[v], hp_rx'[v])
    PROVE  HarqInv'
<1>1. \A v, w \in Worker : hp_rx'[v] = hp_rx'[w] /\ v # w => hp_rx'[v] = NoHarq
  BY DEF HarqInv
<1> QED  BY <1>1 DEF HarqInv

\* Steps of workers.
LEMMA HarqWorker ==
    ASSUME TypeOK, HarqInv, NEW w \in Worker, WorkerStep(w) \/ Wakeup(w) \/ TimeoutReturn(w)
    PROVE  HarqInv'
<1> DEFINE Same == \A v \in Worker \ {w} : wpc'[v] = wpc[v] /\ after'[v] = after[v]
<1>1. ASSUME Same, UNCHANGED hp_rx, HasHarq(wpc'[w], after'[w], hp_rx[w]) PROVE HarqInv'
  <2>1. \A v \in Worker : HasHarq(wpc'[v], after'[v], hp_rx'[v])
    BY <1>1 DEF HarqInv
  <2> QED  BY <1>1, <2>1, HarqFrame
<1>a. HasHarq(wpc[w], after[w], hp_rx[w])
  BY DEF HarqInv
<1> USE <1>a DEF workers, Goto, TypeOK, HasHarq, Unserved
<1>2. CASE Dequeue(w)
  BY <1>1, <1>2 DEF Dequeue
<1>3. CASE FifoCheck(w)
  BY <1>1, <1>3 DEF FifoCheck
<1>4. CASE Lock(w)
  BY <1>1, <1>4 DEF Lock
<1>5. CASE Return(w)
  BY <1>1, <1>5 DEF Return
<1>6. CASE RunTxChscan(w)
  BY <1>1, <1>6 DEF RunTxChscan, Forget
<1>7. CASE LeaveLoop(w)
  BY <1>1, <1>7 DEF LeaveLoop
<1>8. CASE ExitWorker(w)
  BY <1>1, <1>8 DEF ExitWorker
<1>9. CASE Wakeup(w)
  BY <1>1, <1>9 DEF Wakeup
<1>10. CASE TimeoutReturn(w)
  BY <1>1, <1>10 DEF TimeoutReturn
<1>11. CASE Drain(w)
  BY <1>1, <1>11 DEF Drain
<1>12. CASE Finalize(w)
  <2>1. \A v \in Worker : hp_rx'[v] = hp_rx[v] \/ hp_rx'[v] = NoHarq
    BY <1>12 DEF Finalize
  <2>2. HasHarq(wpc'[w], after'[w], hp_rx'[w])
    BY <1>12 DEF Finalize
  <2>3. \A v \in Worker \ {w} : wpc'[v] = wpc[v] /\ after'[v] = after[v] /\ hp_rx'[v] = hp_rx[v]
    BY <1>12 DEF Finalize, Forget
  <2>4. \A v \in Worker \ {w} : HasHarq(wpc'[v], after'[v], hp_rx'[v])
    BY <2>3 DEF HarqInv
  <2> HIDE DEF HasHarq
  <2> QED  BY <2>1, <2>2, <2>4, HarqFrame
<1>13. CASE NotifyAll(w)
  <2>1. hp_rx' = hp_rx
    BY <1>13 DEF NotifyAll
  <2>2. HasHarq(wpc'[w], after'[w], hp_rx'[w])
    BY <1>13 DEF NotifyAll, Forget
  <2>3. ASSUME NEW v \in Worker, v # w PROVE HasHarq(wpc'[v], after'[v], hp_rx'[v])
    <3>1. HasHarq(wpc[v], after[v], hp_rx[v])
      BY DEF HarqInv
    <3> QED  BY <1>13, <2>3, <3>1 DEF NotifyAll, Woken, Forget
  <2> HIDE DEF HasHarq
  <2> QED  BY <2>1, <2>2, <2>3, HarqFrame
\* A process that is locked was free.
<1>14. CASE ReturnFifo(w)
  <2>1. wpc[w] = "work" /\ wpc'[w] = "notify" /\ Same
    BY <1>14 DEF ReturnFifo
  <2>2. hp_rx[w] = NoHarq /\ after[w] # "lock_pdc"
    BY <2>1
  <2>3. CASE hp_rx' = hp_rx /\ after'[w] # "lock_pdc"
    BY <1>1, <2>1, <2>2, <2>3
  <2>4. CASE ~(hp_rx' = hp_rx /\ after'[w] # "lock_pdc")
    <3>1. PICK h \in Free : after'[w] = "lock_pdc" /\ hp_rx' = [hp_rx EXCEPT ![w] = h]
      BY <1>14, <2>2, <2>4 DEF ReturnFifo
    <3>2. h # NoHarq /\ \A v \in Worker : hp_rx[v] # h
      BY ConstantsAssumption, SMTT(60) DEF Free
    <3>3. hp_rx'[w] = h /\ \A v \in Worker \ {w} : hp_rx'[v] = hp_rx[v]
      BY <3>1
    <3>4. HasHarq(wpc'[w], after'[w], hp_rx'[w])
      BY <2>1, <3>1, <3>2, <3>3
    <3>5. \A v \in Worker \ {w} : HasHarq(wpc'[v], after'[v], hp_rx'[v])
      BY <2>1, <3>3 DEF HarqInv
    <3> HIDE DEF HasHarq
    <3>6. \A u, v \in Worker : hp_rx'[u] = hp_rx'[v] /\ u # v => hp_rx'[u] = NoHarq
      BY <3>2, <3>3 DEF HarqInv
    <3> QED  BY <3>4, <3>5, <3>6 DEF HarqInv
  <2> QED  BY <2>3, <2>4
<1> QED
  BY <1>2, <1>3, <1>4, <1>5, <1>6, <1>7, <1>8, <1>9, <1>10, <1>11, <1>12, <1>13, <1>14 DEF WorkerStep

\* Who has which process, at any time.
THEOREM HarqOwners == Spec => []HarqInv
<1>1. Init => HarqInv
  BY DEF Init, HarqInv, HasHarq, Unserved
<1>2. TypeOK /\ HarqInv /\ [Next]_vars => HarqInv'
  <2> SUFFICES ASSUME TypeOK, HarqInv, [Next]_vars PROVE HarqInv'
    OBVIOUS
  <2>1. CASE \E w \in Worker : WorkerStep(w) \/ Wakeup(w) \/ TimeoutReturn(w)
    BY <2>1, HarqWorker
  <2>2. CASE ~\E w \in Worker : WorkerStep(w) \/ Wakeup(w) \/ TimeoutReturn(w)
    BY <2>2, OthersLeaveWorkers DEF workers, HarqInv
  <2> QED  BY <2>1, <2>2
<1> QED  BY <1>1, <1>2, TypeCorrect, PTL DEF Spec

\* A HARQ process has one owner from work_pcc() to finalize(), and is not leaked.
THEOREM HarqExclusiveHolds == Spec => []HarqExclusive
<1>1. HarqInv => HarqExclusive
  BY DEF HarqInv, HasHarq, HarqExclusive
<1> QED  BY <1>1, HarqOwners, PTL

\* With as many processes as workers get_process_rx() always finds one.
THEOREM HarqAvailableHolds == Spec => []HarqAvailable
<1>1. TypeOK /\ HarqInv => HarqAvailable
  <2> SUFFICES ASSUME TypeOK, HarqInv, Cardinality(Worker) <= Cardinality(HarqRx),
                      NEW w \in Worker, wpc[w] = "work", Free = {}
               PROVE  FALSE
    BY DEF HarqAvailable
  <2> DEFINE Others == Worker \ {w}
             Owner == [h \in HarqRx |-> CHOOSE v \in Others : hp_rx[v] = h]
  <2>1. hp_rx[w] = NoHarq
    BY DEF HarqInv, HasHarq, Unserved
  <2>2. \A h \in HarqRx : \E v \in Others : hp_rx[v] = h
    BY <2>1, ConstantsAssumption DEF Free
  <2>3. \A h \in HarqRx : Owner[h] \in Others /\ hp_rx[Owner[h]] = h
    BY <2>2
  <2>4. Owner \in Injection(HarqRx, Others)
    BY <2>3 DEF Injection, IsInjective
  <2>5. /\ IsFiniteSet(Others) /\ Cardinality(Others) = Cardinality(Worker) - 1
        /\ Cardinality(Worker) \in Nat
    BY ConstantsAssumption, FS_RemoveElement, FS_CardinalityType
  <2> HIDE DEF Owner, Others
  <2>6. IsFiniteSet(HarqRx) /\ Cardinality(HarqRx) <= Cardinality(Others)
    BY <2>4, <2>5, FS_Injection
  <2>7. Cardinality(HarqRx) \in Nat
    BY <2>6, FS_CardinalityType
  <2> QED  BY <2>5, <2>6, <2>7
<1> QED  BY <1>1, TypeCorrect, HarqOwners, PTL

-----------------------------------------------------------------------------
(* Start-up *)

\* work_start() of a pool has not returned.
Starting(p) == \E q \in Registrar : PoolOf[q] = p /\ ppc[q] \in {"starting", "work_start"}

\* Until then its queue is closed and empty, and its workers have nothing to do.
StartInv ==
    /\ \A q \in Producer : ppc[q] = "work_start" => q \in Registrar
    /\ \A p \in Pool : Starting(p) =>
        /\ ~permeable[p] /\ job_vec[p] = <<>> /\ fifo_cnt[p] = 0
        /\ \A q \in Producer : PoolOf[q] = p => ppc[q] # "enqueue"
        /\ \A w \in Worker : PoolOf[w] = p => wpc[w] \in {"get", "drain", "exited"}

\* What a step does to pools that are starting.
LEMMA StartFrame ==
    ASSUME StartInv,
           \A q \in Producer : ppc'[q] = "work_start" => q \in Registrar,
           \A p \in Pool : Starting(p)' =>
              /\ Starting(p)
              /\ permeable'[p] => permeable[p]
              /\ job_vec'[p] = job_vec[p] /\ fifo_cnt'[p] = fifo_cnt[p]
              /\ \A q \in Producer : PoolOf[q] = p /\ ppc'[q] = "enqueue" => ppc[q] = "enqueue"
              /\ \A w \in Worker : PoolOf[w] = p /\ wpc[w] \in {"get", "drain", "exited"} =>
                    wpc'[w] \in {"get", "drain", "exited"}
    PROVE  StartInv'
BY DEF StartInv

LEMMA StartWorker ==
    ASSUME IndInv, StartInv, NEW w \in Worker, WorkerStep(w) \/ Wakeup(w) \/ TimeoutReturn(w)
    PROVE  StartInv'
<1>a. TypeOK /\ HolderInv  BY DEF IndInv
<1>1. UNCHANGED <<ppc, permeable>>
  BY DEF WorkerStep, Dequeue, FifoCheck, Lock, ReturnFifo, NotifyAll, Return, RunTxChscan, Finalize,
         LeaveLoop, Drain, ExitWorker, Wakeup, TimeoutReturn, queue, prods
<1>2. \A p \in Pool : Starting(p)' => Starting(p)
  BY <1>1 DEF Starting
<1>3. ASSUME \A p \in Pool : Starting(p) =>
                /\ job_vec'[p] = job_vec[p] /\ fifo_cnt'[p] = fifo_cnt[p]
                /\ \A v \in Worker : PoolOf[v] = p /\ wpc[v] \in {"get", "drain", "exited"} =>
                      wpc'[v] \in {"get", "drain", "exited"}
      PROVE  StartInv'
  <2>1. \A q \in Producer : ppc'[q] = "work_start" => q \in Registrar
    BY <1>1 DEF StartInv
  <2> QED  BY <1>1, <1>2, <1>3, <2>1, StartFrame
<1>4. CASE ~Starting(PoolOf[w])
  <2>1. ASSUME NEW p \in Pool, p # PoolOf[w]
        PROVE  /\ job_vec'[p] = job_vec[p] /\ fifo_cnt'[p] = fifo_cnt[p]
               /\ \A v \in Worker : PoolOf[v] = p /\ wpc[v] \in {"get", "drain", "exited"} =>
                      wpc'[v] \in {"get", "drain", "exited"}
    <3>1. fifo_cnt' # fifo_cnt => ReturnFifo(w)
      BY DEF WorkerStep, Dequeue, FifoCheck, Lock, NotifyAll, Return, RunTxChscan, Finalize,
             LeaveLoop, Drain, ExitWorker, Wakeup, TimeoutReturn, token
    <3>2. ReturnFifo(w) => id_holder = PoolOf[w]
      BY <1>a, ConstantsAssumption DEF ReturnFifo, HolderInv, InFirmware
    <3>3. fifo_cnt'[p] = fifo_cnt[p]
      BY <1>a, <2>1, <3>1, <3>2 DEF ReturnFifo, TypeOK
    <3>4. job_vec'[p] = job_vec[p]
      BY <1>a, <2>1 DEF WorkerStep, Dequeue, FifoCheck, Lock, ReturnFifo, NotifyAll, Return,
         RunTxChscan, Finalize, LeaveLoop, Drain, ExitWorker, Wakeup, TimeoutReturn, queue, TypeOK
    <3>5. NotifyAll(w) \/ \A v \in Worker \ {w} : wpc'[v] = wpc[v]
      BY <1>a DEF WorkerStep, Dequeue, FifoCheck, Lock, ReturnFifo, Return, RunTxChscan, Finalize,
         LeaveLoop, Drain, ExitWorker, Wakeup, TimeoutReturn, Goto, workers, TypeOK
    <3>6. \A v \in Worker : PoolOf[v] = p /\ wpc[v] \in {"get", "drain", "exited"} =>
                      wpc'[v] \in {"get", "drain", "exited"}
      BY <2>1, <3>5 DEF NotifyAll, Woken
    <3> QED  BY <3>3, <3>4, <3>6
  <2> QED  BY <1>3, <1>4, <2>1
<1>5. CASE Starting(PoolOf[w])
  <2>1. /\ PoolOf[w] \in Pool /\ job_vec[PoolOf[w]] = <<>>
        /\ wpc[w] \in {"get", "drain", "exited"}
    BY <1>5, PoolOfType DEF StartInv
  <2>2. LeaveLoop(w) \/ ExitWorker(w)
    BY <2>1 DEF WorkerStep, Dequeue, FifoCheck, Lock, ReturnFifo, NotifyAll, Return, RunTxChscan,
                Finalize, Drain, Wakeup, TimeoutReturn
  <2>3. /\ UNCHANGED <<job_vec, fifo_cnt>>
        /\ wpc'[w] \in {"drain", "exited"} /\ \A v \in Worker \ {w} : wpc'[v] = wpc[v]
    BY <1>a, <2>2 DEF LeaveLoop, ExitWorker, Goto, queue, token, TypeOK
  <2> QED  BY <1>3, <2>3
<1> QED  BY <1>4, <1>5

LEMMA StartProducer ==
    ASSUME TypeOK, StartInv, NEW q \in Producer, ProducerStep(q) \/ \E k \in Kind : Produce(q, k)
    PROVE  StartInv'
<1> USE DEF queue, token, workers, prods
<1>1. PoolOf[q] \in Pool /\ \A r \in Producer \ {q} : ppc'[r] = ppc[r]
  BY PoolOfType DEF ProducerStep, StartFirmware, ReturnStart, StartSync, Enqueue, NoSlot,
                    ExitProducer, Produce, TypeOK
<1>2. UNCHANGED <<fifo_cnt, wpc>>
  BY DEF ProducerStep, StartFirmware, ReturnStart, StartSync, Enqueue, NoSlot, ExitProducer, Produce
<1>3. Registrar \subseteq Producer
  BY ConstantsAssumption DEF Producer
<1>4. ASSUME ppc'[q] = "work_start" => q \in Registrar,
             ppc'[q] \in {"starting", "work_start"} => ppc[q] \in {"starting", "work_start"},
             \A p \in Pool : Starting(p) /\ Starting(p)' =>
                 /\ permeable'[p] => permeable[p]
                 /\ job_vec'[p] = job_vec[p]
                 /\ p = PoolOf[q] /\ ppc'[q] = "enqueue" => ppc[q] = "enqueue"
      PROVE  StartInv'
  <2>1. \A p \in Pool : Starting(p)' => Starting(p)
    BY <1>1, <1>3, <1>4 DEF Starting
  <2>2. \A r \in Producer : ppc'[r] = "work_start" => r \in Registrar
    BY <1>1, <1>4 DEF StartInv
  <2> QED  BY <1>1, <1>2, <1>4, <2>1, <2>2, StartFrame
<1>5. CASE StartFirmware(q)
  <2>1. ppc'[q] \in {"starting", "work_start"}
    BY <1>5 DEF StartFirmware, TypeOK
  <2> QED  BY <1>4, <1>5, <2>1 DEF StartFirmware
<1>6. CASE ReturnStart(q)
  <2>1. ppc'[q] = "registered"
    BY <1>6 DEF ReturnStart, TypeOK
  <2> QED  BY <1>4, <1>6, <2>1 DEF ReturnStart
\* The queue is opened by a worker that was allowed to leave the registration.
<1>7. CASE StartSync(q)
  <2>1. ppc'[q] = "idle" /\ job_vec' = job_vec
    BY <1>7 DEF StartSync, TypeOK
  <2>2. ~Starting(PoolOf[q])
    BY <1>7, ConstantsAssumption DEF StartSync, Registered, Starting
  <2>3. \A p \in Pool : p # PoolOf[q] => permeable'[p] = permeable[p]
    BY <1>7 DEF StartSync, TypeOK
  <2> QED  BY <1>4, <2>1, <2>2, <2>3
<1>8. CASE Enqueue(q)
  <2>1. ppc'[q] = "idle" /\ permeable' = permeable /\ ppc[q] = "enqueue"
    BY <1>8 DEF Enqueue, TypeOK
  <2>2. ~Starting(PoolOf[q])
    BY <1>1, <2>1 DEF StartInv
  <2>3. \A p \in Pool : p # PoolOf[q] => job_vec'[p] = job_vec[p]
    BY <1>8 DEF Enqueue, TypeOK
  <2> QED  BY <1>4, <2>1, <2>2, <2>3
<1>9. CASE NoSlot(q)
  BY <1>1, <1>4, <1>9 DEF NoSlot, StartInv
<1>10. CASE ExitProducer(q)
  <2>1. ppc'[q] = "exited"
    BY <1>10 DEF ExitProducer, TypeOK
  <2> QED  BY <1>4, <1>10, <2>1 DEF ExitProducer
<1>11. ASSUME NEW k \in Kind, Produce(q, k) PROVE StartInv'
  <2>1. UNCHANGED <<permeable, job_vec>>
    BY <1>11 DEF Produce
  <2>2. ppc[q] = "idle" /\ (ppc'[q] = "idle" \/ (ppc'[q] = "enqueue" /\ permeable[PoolOf[q]]))
    <3>1. CASE permeable[PoolOf[q]]
      BY <1>11, <3>1 DEF Produce, TypeOK
    <3>2. CASE ~permeable[PoolOf[q]]
      <4>1. ppc[q] = "idle"
        BY <1>11 DEF Produce
      <4>2. UNCHANGED prods
        BY <1>11, <3>2 DEF Produce
      <4> QED  BY <4>1, <4>2 DEF prods
    <3> QED  BY <3>1, <3>2
  <2>3. ppc'[q] = "enqueue" => ~Starting(PoolOf[q])
    BY <1>1, <2>2 DEF StartInv
  <2> QED  BY <1>4, <2>1, <2>2, <2>3
<1> QED  BY <1>5, <1>6, <1>7, <1>8, <1>9, <1>10, <1>11 DEF ProducerStep

\* In every pool no job exists before its work_start() has returned.
THEOREM StartUp == Spec => []StartInv
<1>1. Init => StartInv
  <2> SUFFICES ASSUME Init PROVE StartInv
    OBVIOUS
  <2> QED  BY DEF Init, StartInv
<1>2. IndInv /\ StartInv /\ [Next]_vars => StartInv'
  <2> SUFFICES ASSUME IndInv, StartInv, [Next]_vars PROVE StartInv'
    OBVIOUS
  <2> USE DEF IndInv, queue, token, workers, prods, vars
  <2>1. ASSUME NEW w \in Worker, WorkerStep(w) \/ Wakeup(w) \/ TimeoutReturn(w) PROVE StartInv'
    BY <2>1, StartWorker
  <2>2. ASSUME NEW q \in Producer, ProducerStep(q) \/ \E k \in Kind : Produce(q, k) PROVE StartInv'
    BY <2>2, StartProducer
  <2>3. ASSUME UNCHANGED <<ppc, wpc, job_vec, fifo_cnt>>,
               \A p \in Pool : permeable'[p] => permeable[p]
        PROVE  StartInv'
    BY <2>3, StartFrame DEF StartInv, Starting
  <2>4. CASE StopUpper
    <3>1. \A p \in Pool : permeable'[p] => permeable[p]
      BY <2>4 DEF StopUpper, TypeOK
    <3> QED  BY <2>3, <2>4, <3>1 DEF StopUpper
  <2>5. ASSUME NEW p \in Pool, StopPool(p) PROVE StartInv'
    BY <2>3, <2>5 DEF StopPool
  <2>6. CASE UNCHANGED vars
    BY <2>3, <2>6
  <2> QED  BY <2>1, <2>2, <2>4, <2>5, <2>6 DEF Next, Terminated
<1> QED  BY <1>1, <1>2, Invariant, PTL DEF Spec

\* With a pool of its own, work_start() precedes every other call of a firmware.
THEOREM WorkStartIsFirst ==
    ASSUME \A p \in Pool : p = FirstPool PROVE Spec => []WorkStartFirst
<1>1. IndInv /\ StartInv => WorkStartFirst
  <2> SUFFICES ASSUME IndInv, StartInv, NEW q \in Registrar, ppc[q] \in {"starting", "work_start"}
               PROVE  /\ \A w \in Worker : wpc[w] \notin InFirmware
                      /\ \A p \in Pool : fifo_cnt[p] = 0
    BY DEF WorkStartFirst
  <2>1. PoolOf[q] \in Pool
    BY PoolOfType, ConstantsAssumption DEF Producer
  <2>2. \A p \in Pool : Starting(p)
    BY <2>1 DEF Starting
  <2> QED  BY <2>2, PoolOfType DEF StartInv, InFirmware
<1> QED  BY <1>1, Invariant, StartUp, PTL

\* With a pool of its own, try_lock() for work_start() succeeds.
THEOREM StartGetsTokenHolds ==
    ASSUME \A p \in Pool : p = FirstPool PROVE Spec => []StartGetsToken
<1>1. Init => StartGetsToken
  BY DEF Init, StartGetsToken
<1>2. IndInv /\ StartInv /\ StartGetsToken /\ [Next]_vars => StartGetsToken'
  <2> SUFFICES ASSUME IndInv, StartInv, fatal # "no_token", [Next]_vars
               PROVE  fatal' # "no_token"
    BY DEF StartGetsToken
  <2> USE DEF run, vars
  <2>1. ASSUME NEW q \in Producer, StartFirmware(q) PROVE fatal' = fatal
    <3>1. /\ q \in Registrar /\ ppc[q] = "starting" /\ PoolOf[q] \in Pool
      BY <2>1, PoolOfType DEF StartFirmware
    <3>2. \A p \in Pool : Starting(p)
      BY <3>1 DEF Starting
    <3>3. \A w \in Worker : lockv # w
      BY <3>2, PoolOfType DEF StartInv, IndInv, HolderInv, InFirmware
    <3>4. \A r \in Producer : lockv # r
      <4> SUFFICES ASSUME NEW r \in Producer, lockv = r PROVE FALSE
        OBVIOUS
      <4>1. ppc[r] = "work_start"  BY DEF IndInv, HolderInv
      <4>2. r \in Registrar  BY <4>1 DEF StartInv
      <4>3. PoolOf[r] = PoolOf[q]  BY <3>1, PoolOfType
      <4> QED  BY <3>1, <4>1, <4>2, <4>3, ConstantsAssumption
    <3>5. lockv = NoThread
      BY <3>3, <3>4 DEF IndInv, TypeOK
    <3> QED  BY <2>1, <3>5 DEF StartFirmware
  <2>2. ASSUME NEW q \in Producer, ProducerStep(q) \/ \E k \in Kind : Produce(q, k), ~StartFirmware(q)
        PROVE  fatal' # "no_token"
    BY <2>2 DEF ProducerStep, ReturnStart, StartSync, Enqueue, NoSlot, ExitProducer, Produce
  <2>3. ASSUME NEW w \in Worker, WorkerStep(w) \/ Wakeup(w) \/ TimeoutReturn(w) PROVE fatal' = fatal
    BY <2>3 DEF WorkerStep, Dequeue, FifoCheck, Lock, ReturnFifo, NotifyAll, Return, RunTxChscan,
                Finalize, LeaveLoop, Drain, ExitWorker, Wakeup, TimeoutReturn
  <2>4. ASSUME NEW p \in Pool, StopPool(p) PROVE fatal' = fatal
    BY <2>4 DEF StopPool
  <2>5. CASE StopUpper
    BY <2>5 DEF StopUpper
  <2> QED  BY <2>1, <2>2, <2>3, <2>4, <2>5 DEF Next, Terminated
<1> QED  BY <1>1, <1>2, Invariant, StartUp, PTL DEF Spec

-----------------------------------------------------------------------------
(* The calls a firmware sees are those FirmwareCalls allows *)

\* Only sync jobs lead to a PCC, and a PDC that was asked for belongs to a job of
\* its own that had its turn.
CallInv ==
    /\ \A q \in Producer : ppc[q] = "enqueue" => content[q] \in Kind
    /\ \A w \in Worker : wpc[w] \in Unserved =>
          after[w] \in (IF job[w].content = "sync" THEN {"pcc", "get"} ELSE {"tx"})
    /\ \A w \in Worker : Owes(w) => job[w].fifo_cnt < fifo_cnt[PoolOf[w]]
    /\ \A v, w \in Worker : Owes(v) /\ Owes(w) /\ PoolOf[v] = PoolOf[w] /\ v # w =>
          job[v].fifo_cnt # job[w].fifo_cnt

\* No job is taken, and no PDC asked for.
LEMMA CallFrame ==
    ASSUME CallInv, UNCHANGED fifo_cnt,
           \A q \in Producer : ppc'[q] = "enqueue" => content'[q] \in Kind,
           \A v \in Worker : wpc'[v] \in Unserved =>
                wpc[v] \in Unserved /\ job'[v] = job[v] /\ after'[v] = after[v],
           \A v \in Worker : Owes(v)' => Owes(v) /\ job'[v] = job[v]
    PROVE  CallInv'
<1> HIDE DEF Owes
<1> QED  BY DEF CallInv

LEMMA CallMove ==
    ASSUME TypeOK, CallInv, UNCHANGED <<fifo_cnt, prods>>, NEW w \in Worker, NEW pc, Goto(w, pc),
           \A v \in Worker \ {w} : job'[v] = job[v] /\ after'[v] = after[v],
           pc \in Unserved => wpc[w] \in Unserved /\ job'[w] = job[w] /\ after'[w] = after[w],
           pc \notin {"notify", "lock_pdc"}
    PROVE  CallInv'
<1>1. wpc'[w] = pc /\ \A v \in Worker \ {w} : wpc'[v] = wpc[v]
  BY DEF Goto, TypeOK
<1>2. \A q \in Producer : ppc'[q] = "enqueue" => content'[q] \in Kind
  BY DEF CallInv, prods
<1>3. \A v \in Worker : Owes(v)' => Owes(v) /\ job'[v] = job[v]
  BY <1>1 DEF Owes
<1> QED  BY <1>1, <1>2, <1>3, CallFrame

\* A worker takes a job, and knows what follows its FIFO call.
LEMMA CallDequeue ==
    ASSUME TypeOK, CallInv, NEW w \in Worker, Dequeue(w)
    PROVE  CallInv'
<1>1. /\ wpc'[w] = "fifo" /\ \A v \in Worker \ {w} : wpc'[v] = wpc[v]
      /\ \A v \in Worker \ {w} : job'[v] = job[v] /\ after'[v] = after[v]
      /\ UNCHANGED <<fifo_cnt, ppc, content>>
  BY DEF Dequeue, Goto, TypeOK, token, prods
<1>2. after'[w] \in (IF job'[w].content = "sync" THEN {"pcc", "get"} ELSE {"tx"})
  BY DEF Dequeue, TypeOK
<1>3. \A v \in Worker : Owes(v)' => v # w /\ Owes(v)
  BY <1>1 DEF Owes
<1> HIDE DEF Owes
<1> QED  BY <1>1, <1>2, <1>3 DEF CallInv

\* The PDC that work_pcc() asks for has the number of the turn that ends.
LEMMA CallReturnFifo ==
    ASSUME IndInv, CallInv, NEW w \in Worker, ReturnFifo(w)
    PROVE  CallInv'
<1> DEFINE p == PoolOf[w]
<1>a. TypeOK /\ HolderInv /\ TurnInv  BY DEF IndInv
<1>0. p \in Pool  BY PoolOfType
<1>1. wpc[w] = "work" /\ id_holder = p /\ job[w].fifo_cnt = fifo_cnt[p] /\ fifo_cnt[p] \in Nat
  BY <1>0, <1>a, PoolFacts, ConstantsAssumption
  DEF ReturnFifo, HolderInv, InFirmware, TurnInv, MyTurn
<1>2. /\ fifo_cnt'[p] = fifo_cnt[p] + 1
      /\ \A o \in Pool \ {p} : fifo_cnt'[o] = fifo_cnt[o]
      /\ wpc'[w] = "notify" /\ \A v \in Worker \ {w} : wpc'[v] = wpc[v] /\ after'[v] = after[v]
      /\ UNCHANGED <<job, ppc, content>>
  BY <1>0, <1>1, <1>a DEF ReturnFifo, Goto, TypeOK, prods
<1>3. ASSUME NEW v \in Worker, Owes(v)'
      PROVE  /\ job'[v].fifo_cnt < fifo_cnt'[PoolOf[v]]
             /\ v # w => Owes(v)
             /\ v # w /\ PoolOf[v] = p => job'[v].fifo_cnt < fifo_cnt[p]
  <2>1. CASE v = w
    BY <1>1, <1>2, <2>1
  <2>2. CASE v # w
    <3>1. Owes(v)  BY <1>2, <1>3, <2>2 DEF Owes
    <3>2. PoolOf[v] \in Pool /\ job[v].fifo_cnt \in Nat /\ fifo_cnt[PoolOf[v]] \in Nat
      BY <1>a, WorkerFacts, PoolFacts
    <3>3. job[v].fifo_cnt < fifo_cnt[PoolOf[v]]  BY <3>1 DEF CallInv
    <3> HIDE DEF Owes
    <3> QED  BY <1>1, <1>2, <2>2, <3>1, <3>2, <3>3
  <2> QED  BY <2>1, <2>2
<1>4. \A v \in Worker : wpc'[v] \in Unserved => v # w
  BY <1>2 DEF Unserved
<1>5. ASSUME NEW u \in Worker, NEW v \in Worker, Owes(u)', Owes(v)', PoolOf[u] = PoolOf[v], u # v
      PROVE  job'[u].fifo_cnt # job'[v].fifo_cnt
  <2>1. job[u].fifo_cnt \in Nat /\ job[v].fifo_cnt \in Nat
    BY <1>a, WorkerFacts
  <2>2. CASE u # w /\ v # w
    BY <1>2, <1>3, <1>5, <2>2 DEF CallInv
  <2>3. CASE u = w
    BY <1>1, <1>2, <1>3, <1>5, <2>1, <2>3
  <2>4. CASE v = w
    BY <1>1, <1>2, <1>3, <1>5, <2>1, <2>4
  <2> QED  BY <2>2, <2>3, <2>4
<1> HIDE DEF Owes
<1> QED  BY <1>2, <1>3, <1>4, <1>5 DEF CallInv

LEMMA CallWorker ==
    ASSUME IndInv, CallInv, NEW w \in Worker, WorkerStep(w) \/ Wakeup(w) \/ TimeoutReturn(w)
    PROVE  CallInv'
<1>a. TypeOK  BY DEF IndInv
<1> USE <1>a DEF token, workers, run, Unserved
<1>1. CASE FifoCheck(w)
  <2>1. Goto(w, "lock_fifo") \/ Goto(w, "wait")  BY <1>1 DEF FifoCheck
  <2> QED  BY <1>1, <2>1, CallMove DEF FifoCheck
<1>2. CASE Lock(w)
  <2>1. \/ wpc[w] = "lock_fifo" /\ Goto(w, "work")
        \/ wpc[w] = "lock_pdc" /\ Goto(w, "work_pdc")
        \/ wpc[w] = "lock_channel" /\ Goto(w, "work_channel")
    BY <1>2 DEF Lock
  <2>2. UNCHANGED <<fifo_cnt, prods, job, after>>  BY <1>2 DEF Lock
  <2> QED  BY <2>1, <2>2, CallMove
<1>3. CASE NotifyAll(w)
  <2>1. UNCHANGED <<fifo_cnt, ppc, content>>  BY <1>3 DEF NotifyAll, prods
  <2>2. \A v \in Worker \ {w} : /\ job'[v] = job[v] /\ after'[v] = after[v]
                                /\ wpc'[v] = Woken(v)
    BY <1>3 DEF NotifyAll, Forget, TypeOK
  <2>3. wpc[w] = "notify" /\ wpc'[w] = after[w] /\ (after[w] # "get" => UNCHANGED <<job, after>>)
    BY <1>3 DEF NotifyAll
  <2>4. after[w] \in {"get", "lock_pdc", "tx"}
    BY <2>3 DEF TypeOK
  <2>5. \A q \in Producer : ppc'[q] = "enqueue" => content'[q] \in Kind
    BY <2>1 DEF CallInv
  <2>6. \A v \in Worker : wpc'[v] \in Unserved =>
                wpc[v] \in Unserved /\ job'[v] = job[v] /\ after'[v] = after[v]
    BY <2>2, <2>3, <2>4 DEF Woken
  <2>7. \A v \in Worker : Owes(v)' => Owes(v) /\ job'[v] = job[v]
    BY <2>2, <2>3, <2>4 DEF Woken, Owes
  <2> QED  BY <2>1, <2>5, <2>6, <2>7, CallFrame
<1>4. CASE Return(w)
  <2>1. Goto(w, "tx") \/ Goto(w, "tx_channel")  BY <1>4 DEF Return
  <2> QED  BY <1>4, <2>1, CallMove DEF Return
<1>5. CASE RunTxChscan(w)
  <2>1. \A v \in Worker \ {w} : job'[v] = job[v] /\ after'[v] = after[v]
    BY <1>5 DEF RunTxChscan, Forget, TypeOK
  <2>2. /\ Goto(w, "lock_channel") \/ Goto(w, "finalize") \/ Goto(w, "get")
        /\ UNCHANGED <<fifo_cnt, prods>>
    BY <1>5 DEF RunTxChscan
  <2> QED  BY <2>1, <2>2, CallMove
<1>6. CASE Finalize(w)
  <2>1. \A v \in Worker \ {w} : job'[v] = job[v] /\ after'[v] = after[v]
    BY <1>6 DEF Finalize, Forget, TypeOK
  <2>2. Goto(w, "get") /\ UNCHANGED <<fifo_cnt, prods>>
    BY <1>6 DEF Finalize
  <2> QED  BY <2>1, <2>2, CallMove
<1>7. CASE LeaveLoop(w)
  BY <1>7, CallMove DEF LeaveLoop
<1>8. CASE ExitWorker(w)
  BY <1>8, CallMove DEF ExitWorker
<1>9. CASE Wakeup(w)
  BY <1>9, CallMove DEF Wakeup
<1>10. CASE TimeoutReturn(w)
  BY <1>10, CallMove DEF TimeoutReturn
<1>11. CASE Drain(w)
  BY <1>11, CallFrame DEF Drain, Owes, CallInv, prods
<1> QED
  BY <1>1, <1>2, <1>3, <1>4, <1>5, <1>6, <1>7, <1>8, <1>9, <1>10, <1>11, CallDequeue, CallReturnFifo
  DEF WorkerStep

LEMMA CallOthers ==
    ASSUME TypeOK, CallInv, [Next]_vars,
           ~\E w \in Worker : WorkerStep(w) \/ Wakeup(w) \/ TimeoutReturn(w)
    PROVE  CallInv'
<1>1. UNCHANGED <<fifo_cnt, wpc, job, after>>
  BY OthersLeaveWorkers DEF workers
<1>2. ASSUME \A q \in Producer : ppc'[q] = "enqueue" => content'[q] \in Kind PROVE CallInv'
  BY <1>1, <1>2, CallFrame DEF Owes
<1>3. ASSUME UNCHANGED prods PROVE CallInv'
  BY <1>2, <1>3 DEF CallInv, prods
<1>4. ASSUME NEW q \in Producer, ProducerStep(q) PROVE CallInv'
  <2>1. \A r \in Producer : ppc'[r] = "enqueue" => ppc[r] = "enqueue" /\ content'[r] = content[r]
    BY <1>4 DEF ProducerStep, StartFirmware, ReturnStart, StartSync, Enqueue, NoSlot, ExitProducer,
                prods, TypeOK
  <2> QED  BY <1>2, <2>1 DEF CallInv
<1>5. ASSUME NEW q \in Producer, NEW k \in Kind, Produce(q, k) PROVE CallInv'
  <2>1. CASE permeable[PoolOf[q]]
    <3>1. \A r \in Producer : IF r = q THEN content'[r] = k
                              ELSE ppc'[r] = ppc[r] /\ content'[r] = content[r]
      BY <1>5, <2>1 DEF Produce, TypeOK
    <3> QED  BY <1>2, <3>1 DEF CallInv
  <2>2. CASE ~permeable[PoolOf[q]]
    BY <1>3, <1>5, <2>2 DEF Produce
  <2> QED  BY <2>1, <2>2
<1>6. ASSUME NEW p \in Pool, StopPool(p) PROVE CallInv'
  BY <1>3, <1>6 DEF StopPool
<1>7. CASE StopUpper
  BY <1>3, <1>7 DEF StopUpper
<1>8. CASE UNCHANGED vars
  BY <1>3, <1>8 DEF vars
<1> QED  BY <1>4, <1>5, <1>6, <1>7, <1>8 DEF Next, Terminated

LEMMA CallInvHolds == Spec => []CallInv
<1>1. Init => CallInv
  BY DEF Init, CallInv, Owes, Unserved
<1>2. IndInv /\ CallInv /\ [Next]_vars => CallInv'
  <2> SUFFICES ASSUME IndInv, CallInv, [Next]_vars PROVE CallInv'
    OBVIOUS
  <2>1. CASE \E w \in Worker : WorkerStep(w) \/ Wakeup(w) \/ TimeoutReturn(w)
    BY <2>1, CallWorker
  <2>2. CASE ~\E w \in Worker : WorkerStep(w) \/ Wakeup(w) \/ TimeoutReturn(w)
    BY <2>2, CallOthers DEF IndInv
  <2> QED  BY <2>1, <2>2
<1> QED  BY <1>1, <1>2, Invariant, PTL DEF Spec

\* A call has three parts, "no call" has none.
LEMMA CallIsCall == ASSUME NEW a, NEW b, NEW c PROVE <<a, b, c>> # <<>>
OBVIOUS

\* What the mapping shows of the owner of the mutex, in any state.
OwnerShown ==
    /\ lockv = NoThread => CallInside = <<>> /\ InFifoCall = {}
    /\ \A q \in Producer : lockv = q =>
          CallInside = <<"start", PoolOf[q], 0>> /\ InFifoCall = {}
    /\ \A w \in Worker : lockv = w =>
          /\ InFifoCall = IF wpc[w] = "work" /\ after[w] # "get" THEN {w} ELSE {}
          /\ CallInside = IF wpc[w] = "work" /\ after[w] = "get" THEN <<>> ELSE CallOf(w)

LEMMA OwnerIsShown == HolderInv => OwnerShown
<1> SUFFICES ASSUME HolderInv PROVE OwnerShown
  OBVIOUS
<1>1. lockv = NoThread => CallInside = <<>> /\ InFifoCall = {}
  BY ConstantsAssumption DEF CallInside, InFifoCall, HolderInv, InFirmware
<1>2. ASSUME NEW q \in Producer, lockv = q
      PROVE  CallInside = <<"start", PoolOf[q], 0>> /\ InFifoCall = {}
  BY <1>2, ConstantsAssumption DEF CallInside, InFifoCall, HolderInv, InFirmware
<1>3. ASSUME NEW w \in Worker, lockv = w
      PROVE  /\ InFifoCall = IF wpc[w] = "work" /\ after[w] # "get" THEN {w} ELSE {}
             /\ CallInside = IF wpc[w] = "work" /\ after[w] = "get" THEN <<>> ELSE CallOf(w)
  <2>1. lockv # NoThread /\ lockv \notin Producer
    BY <1>3, ConstantsAssumption
  <2>2. InFifoCall = IF wpc[w] = "work" /\ after[w] # "get" THEN {w} ELSE {}
    BY <1>3 DEF InFifoCall, HolderInv, InFirmware
  <2>3. CallInside = IF w \notin InFifoCall /\ wpc[w] = "work" THEN <<>> ELSE CallOf(w)
    BY <1>3, <2>1 DEF CallInside
  <2> QED  BY <2>2, <2>3
<1> QED  BY <1>1, <1>2, <1>3 DEF OwnerShown

LEMMA OwnerIsShownNext == HolderInv' => OwnerShown'
BY OwnerIsShown, PTL

LEMMA CallOfCases ==
    ASSUME NEW w \in Worker
    PROVE  /\ wpc[w] = "work" => CallOf(w) = <<job[w].content, PoolOf[w], job[w].fifo_cnt + 1>>
           /\ wpc[w] = "work_pdc" => CallOf(w) = <<"pdc", PoolOf[w], job[w].fifo_cnt + 1>>
           /\ wpc[w] = "work_channel" => CallOf(w) = <<"channel", PoolOf[w], 0>>
BY DEF CallOf

\* A step that the firmware does not see.
LEMMA Stutter ==
    ASSUME UNCHANGED <<fifo_cnt, lockv, accepted>>, TypeOK, HolderInv,
           \A q \in Registrar : ppc'[q] = "starting" <=> ppc[q] = "starting",
           \A v \in Worker : /\ wpc'[v] \in InFirmware <=> wpc[v] \in InFirmware
                             /\ wpc[v] \in InFirmware \/ Owes(v) => job'[v] = job[v]
                             /\ wpc[v] \in InFirmware => wpc'[v] = wpc[v] /\ after'[v] = after[v]
                             /\ Owes(v)' <=> Owes(v)
    PROVE  UNCHANGED Calls!vars
<1>1. StartedPools' = StartedPools
  BY DEF StartedPools
<1>2. InFifoCall' = InFifoCall
  BY DEF InFifoCall, InFirmware
<1>3. TurnsTaken' = TurnsTaken
  BY <1>2 DEF TurnsTaken
<1>4. PdcsOwed' = PdcsOwed
  <2> HIDE DEF Owes
  <2> QED  BY DEF PdcsOwed, PdcOf
<1>5. CallInside' = CallInside
  <2>1. CASE lockv \in Worker
    <3>1. wpc[lockv] \in InFirmware  BY <2>1 DEF HolderInv
    <3>2. CallOf(lockv)' = CallOf(lockv)  BY <2>1, <3>1 DEF CallOf
    <3> QED  BY <1>2, <2>1, <3>1, <3>2 DEF CallInside
  <2>2. CASE lockv \notin Worker
    <3>1. lockv = NoThread \/ lockv \in Producer  BY <2>2 DEF TypeOK
    <3> QED  BY <2>2, <3>1 DEF CallInside
  <2> QED  BY <2>1, <2>2
<1> QED  BY <1>1, <1>3, <1>4, <1>5 DEF Calls!vars

\* Before a worker has its job, its pool's work_start() was called.
LEMMA StartedFirst ==
    ASSUME StartInv, NEW w \in Worker, wpc[w] \notin {"get", "drain", "exited"}
    PROVE  PoolOf[w] \in StartedPools
<1>1. PoolOf[w] \in Pool  BY PoolOfType
<1>2. PICK q \in Registrar : PoolOf[q] = PoolOf[w]
  BY <1>1, ConstantsAssumption
<1>3. ppc[q] \notin {"starting", "work_start"}
  BY <1>1, <1>2 DEF StartInv, Starting
<1> QED  BY <1>2, <1>3 DEF StartedPools

\* work_start() is called once per pool, and returns.
LEMMA StartIsCall ==
    ASSUME IndInv, HolderInv', NEW q \in Producer, StartFirmware(q)
    PROVE  [Calls!NextOfPools]_Calls!vars
<1> DEFINE p == PoolOf[q]
<1>1. q \in Registrar /\ ppc[q] = "starting" /\ p \in Pool
  BY PoolOfType DEF StartFirmware
<1>2. UNCHANGED <<fifo_cnt, wpc, job, after, accepted>>
  BY DEF StartFirmware, workers
<1>3. CASE lockv = NoThread
  <2>1. lockv' = q /\ ppc' = [ppc EXCEPT ![q] = "work_start"]
    BY <1>3 DEF StartFirmware
  <2>2. CallInside = <<>> /\ InFifoCall = {}
    BY <1>3, OwnerIsShown DEF IndInv, OwnerShown
  <2>3. CallInside' = <<"start", p, 0>> /\ InFifoCall' = {}
    BY <2>1, OwnerIsShownNext DEF OwnerShown
  <2>4. StartedPools' = StartedPools \cup {p} /\ p \notin StartedPools
    <3>1. \A r \in Registrar : r \in Producer /\ (PoolOf[r] = p => r = q)
      BY <1>1, ConstantsAssumption DEF Producer
    <3>2. \A r \in Registrar : ppc'[r] # "starting" <=> r = q \/ ppc[r] # "starting"
      BY <2>1, <3>1 DEF IndInv, TypeOK
    <3> QED  BY <1>1, <3>1, <3>2 DEF StartedPools
  <2>5. TurnsTaken' = TurnsTaken
    BY <1>2, <2>2, <2>3 DEF TurnsTaken
  <2>6. PdcsOwed' = PdcsOwed
    BY <1>2 DEF PdcsOwed, PdcOf, Owes
  <2>7. Calls!CallStart(p)
    BY <1>2, <2>2, <2>3, <2>4, <2>5, <2>6 DEF Calls!CallStart
  <2> QED  BY <1>1, <2>4, <2>7 DEF Calls!NextOfPools
<1>4. CASE lockv # NoThread
  <2>1. UNCHANGED <<lockv, ppc>>
    BY <1>4 DEF StartFirmware
  <2>2. UNCHANGED Calls!vars
    BY <1>2, <2>1, Stutter DEF IndInv, Owes
  <2> QED  BY <2>2
<1> QED  BY <1>3, <1>4

LEMMA ReturnStartIsReturn ==
    ASSUME IndInv, HolderInv', NEW q \in Producer, ReturnStart(q)
    PROVE  [Calls!NextOfPools]_Calls!vars
<1>1. lockv = q /\ lockv' = NoThread /\ UNCHANGED <<fifo_cnt, wpc, job, after, accepted>>
  BY DEF ReturnStart, Unlock, IndInv, HolderInv, workers
<1>2. CallInside = <<"start", PoolOf[q], 0>> /\ InFifoCall = {}
  BY <1>1, OwnerIsShown DEF IndInv, OwnerShown
<1>3. CallInside' = <<>> /\ InFifoCall' = {}
  BY <1>1, OwnerIsShownNext DEF OwnerShown
<1>4. StartedPools' = StartedPools
  <2>1. \A r \in Registrar : ppc'[r] # "starting" <=> ppc[r] # "starting"
    BY DEF ReturnStart, IndInv, TypeOK
  <2> QED  BY <2>1 DEF StartedPools
<1>5. TurnsTaken' = TurnsTaken /\ PdcsOwed' = PdcsOwed
  BY <1>1, <1>2, <1>3 DEF TurnsTaken, PdcsOwed, PdcOf, Owes
<1>6. Calls!ReturnCall
  BY <1>1, <1>2, <1>3, <1>4, <1>5, CallIsCall DEF Calls!ReturnCall
<1> QED  BY <1>6 DEF Calls!NextOfPools, Calls!Common

\* Putting a job is accepting it, all else of a producer is invisible.
LEMMA EnqueueIsAccept ==
    ASSUME IndInv, CallInv, HolderInv', NEW q \in Producer, Enqueue(q)
    PROVE  [Calls!NextOfPools]_Calls!vars
<1>1. /\ PoolOf[q] \in Pool /\ content[q] \in Kind
      /\ accepted' = [accepted EXCEPT ![PoolOf[q]] = Append(@, content[q])]
      /\ UNCHANGED <<fifo_cnt, lockv, wpc, job, after>>
  BY PoolOfType DEF Enqueue, CallInv, token, workers
<1>2. \A r \in Producer : ppc'[r] = "starting" <=> ppc[r] = "starting"
  BY DEF Enqueue, IndInv, TypeOK
<1>3. StartedPools' = StartedPools
  BY <1>2, ConstantsAssumption DEF StartedPools, Producer
<1>4. InFifoCall' = InFifoCall
  BY <1>1 DEF InFifoCall
<1>5. TurnsTaken' = TurnsTaken /\ PdcsOwed' = PdcsOwed
  BY <1>1, <1>4 DEF TurnsTaken, PdcsOwed, PdcOf, Owes
<1>6. CallInside' = CallInside
  BY <1>1, <1>4 DEF CallInside, CallOf
<1>7. Calls!Accept(PoolOf[q], content[q])
  BY <1>1, <1>3, <1>5, <1>6 DEF Calls!Accept
<1> QED  BY <1>1, <1>7 DEF Calls!NextOfPools, Calls!Common

LEMMA ProducerCalls ==
    ASSUME IndInv, CallInv, HolderInv', NEW q \in Producer,
           ProducerStep(q) \/ \E k \in Kind : Produce(q, k)
    PROVE  [Calls!NextOfPools]_Calls!vars
<1> USE DEF token, workers, prods, run
<1>1. ASSUME UNCHANGED <<fifo_cnt, lockv, accepted, wpc, job, after>>,
             ppc[q] # "starting" \/ q \notin Registrar, ppc'[q] # "starting" \/ UNCHANGED ppc,
             \A r \in Producer \ {q} : ppc'[r] = ppc[r]
      PROVE  UNCHANGED Calls!vars
  <2>1. \A r \in Registrar : ppc'[r] = "starting" <=> ppc[r] = "starting"
    BY <1>1, ConstantsAssumption DEF Producer
  <2> QED  BY <1>1, <2>1, Stutter DEF IndInv, Owes
<1>2. CASE StartSync(q)
  <2>1. ppc[q] # "starting" \/ q \notin Registrar
    BY <1>2 DEF StartSync, Registered
  <2>2. ppc'[q] = "idle" /\ \A r \in Producer \ {q} : ppc'[r] = ppc[r]
    BY <1>2 DEF StartSync, IndInv, TypeOK
  <2> QED  BY <1>1, <1>2, <2>1, <2>2 DEF StartSync
<1>3. CASE NoSlot(q)
  BY <1>1, <1>3 DEF NoSlot
<1>4. CASE ExitProducer(q)
  <2>1. ppc'[q] = "exited" /\ ppc[q] = "idle" /\ \A r \in Producer \ {q} : ppc'[r] = ppc[r]
    BY <1>4 DEF ExitProducer, IndInv, TypeOK
  <2> QED  BY <1>1, <1>4, <2>1 DEF ExitProducer
<1>5. ASSUME NEW k \in Kind, Produce(q, k) PROVE UNCHANGED Calls!vars
  <2>1. /\ ppc[q] = "idle" /\ (ppc'[q] = "enqueue" \/ UNCHANGED ppc)
        /\ \A r \in Producer \ {q} : ppc'[r] = ppc[r]
    <3>1. CASE permeable[PoolOf[q]]
      BY <1>5, <3>1 DEF Produce, IndInv, TypeOK
    <3>2. CASE ~permeable[PoolOf[q]]
      BY <1>5, <3>2 DEF Produce
    <3> QED  BY <3>1, <3>2
  <2> QED  BY <1>1, <1>5, <2>1 DEF Produce
<1> QED
  BY <1>2, <1>3, <1>4, <1>5, StartIsCall, ReturnStartIsReturn, EnqueueIsAccept DEF ProducerStep

\* A worker that is neither in a call nor owes one moves on.
LEMMA StutterMove ==
    ASSUME TypeOK, HolderInv, UNCHANGED <<fifo_cnt, lockv, accepted, ppc>>,
           NEW w \in Worker, NEW pc, Goto(w, pc), wpc[w] \notin InFirmware, ~Owes(w),
           pc \notin InFirmware \cup {"notify", "lock_pdc"},
           \A v \in Worker \ {w} : job'[v] = job[v] /\ after'[v] = after[v]
    PROVE  UNCHANGED Calls!vars
<1>1. wpc'[w] = pc /\ \A v \in Worker \ {w} : wpc'[v] = wpc[v]
  BY DEF Goto, TypeOK
<1>2. \A v \in Worker : Owes(v)' <=> Owes(v)
  BY <1>1 DEF Owes
<1> HIDE DEF Owes
<1> QED  BY <1>1, <1>2, Stutter

\* Taking the token is the call, unless there is nothing to call for.
LEMMA LockIsCall ==
    ASSUME IndInv, StartInv, CallInv, HolderInv', NEW w \in Worker, Lock(w)
    PROVE  [Calls!NextOfPools]_Calls!vars
<1> DEFINE p == PoolOf[w]
<1>a. TypeOK /\ HolderInv  BY DEF IndInv
<1>0. p \in Pool /\ p \in StartedPools /\ fifo_cnt[p] \in Nat
  BY <1>a, PoolOfType, PoolFacts, StartedFirst DEF Lock
<1>1. /\ lockv = NoThread /\ lockv' = w /\ UNCHANGED <<fifo_cnt, ppc, job, after, accepted>>
      /\ \A v \in Worker \ {w} : wpc'[v] = wpc[v]
      /\ \/ wpc[w] = "lock_fifo" /\ wpc'[w] = "work"
         \/ wpc[w] = "lock_pdc" /\ wpc'[w] = "work_pdc"
         \/ wpc[w] = "lock_channel" /\ wpc'[w] = "work_channel"
  BY <1>a DEF Lock, CanLock, Goto, prods, TypeOK
<1>2. CallInside = <<>> /\ InFifoCall = {}
  BY <1>1, <1>a, OwnerIsShown DEF OwnerShown
<1>3. /\ InFifoCall' = IF wpc'[w] = "work" /\ after[w] # "get" THEN {w} ELSE {}
      /\ CallInside' = IF wpc'[w] = "work" /\ after[w] = "get" THEN <<>> ELSE CallOf(w)'
  BY <1>1, OwnerIsShownNext DEF OwnerShown
<1>4. StartedPools' = StartedPools
  BY <1>1 DEF StartedPools
<1>5. ASSUME wpc[w] # "lock_pdc" PROVE PdcsOwed' = PdcsOwed
  <2>1. \A v \in Worker : Owes(v)' <=> Owes(v)
    BY <1>1, <1>5 DEF Owes
  <2> HIDE DEF Owes
  <2> QED  BY <1>1, <2>1 DEF PdcsOwed, PdcOf
<1>6. ASSUME InFifoCall' = {} PROVE TurnsTaken' = TurnsTaken
  BY <1>1, <1>2, <1>6 DEF TurnsTaken
<1>7. CASE wpc[w] = "lock_fifo" /\ after[w] = "get"
  <2>1. InFifoCall' = {} /\ CallInside' = <<>>
    BY <1>1, <1>3, <1>7
  <2>2. UNCHANGED Calls!vars
    BY <1>1, <1>2, <1>4, <1>5, <1>6, <1>7, <2>1 DEF Calls!vars
  <2> QED  BY <2>2
<1>8. CASE wpc[w] = "lock_fifo" /\ after[w] # "get"
  <2>1. /\ job[w].fifo_cnt = fifo_cnt[p]
        /\ fifo_cnt[p] < Len(accepted[p])
        /\ job[w].content = accepted[p][fifo_cnt[p] + 1]
    BY <1>8, TurnOfJob
  <2>2. CallInside' = <<accepted[p][fifo_cnt[p] + 1], p, fifo_cnt[p] + 1>>
    BY <1>1, <1>3, <1>8, <2>1 DEF CallOf
  <2>3. TurnsTaken[p] = fifo_cnt[p] /\ TurnsTaken' = [TurnsTaken EXCEPT ![p] = TurnsTaken[p] + 1]
    BY <1>0, <1>1, <1>2, <1>3, <1>8 DEF TurnsTaken
  <2>4. Calls!CallFifo(p)
    BY <1>0, <1>1, <1>2, <1>4, <1>5, <1>8, <2>1, <2>2, <2>3 DEF Calls!CallFifo, Calls!Turn
  <2> QED  BY <1>0, <2>4 DEF Calls!NextOfPools, Calls!CallForPool
<1>9. CASE wpc[w] = "lock_pdc"
  <2>1. CallInside' = <<"pdc", p, job[w].fifo_cnt + 1>> /\ InFifoCall' = {}
    BY <1>1, <1>3, <1>9 DEF CallOf
  <2>2. Owes(w) /\ ~Owes(w)' /\ \A v \in Worker \ {w} : Owes(v)' <=> Owes(v)
    BY <1>1, <1>9 DEF Owes
  <2> HIDE DEF Owes
  <2>3. \A v \in Worker \ {w} : Owes(v) => PdcOf(v) # PdcOf(w)
    <3>1. \A v \in Worker : job[v].fifo_cnt \in Nat
      BY <1>a, WorkerFacts
    <3> QED  BY <2>2, <3>1 DEF CallInv, PdcOf
  <2>4. PdcOf(w) \in PdcsOwed /\ PdcsOwed' = PdcsOwed \ {PdcOf(w)}
    <3>1. \A v \in Worker : PdcOf(v)' = PdcOf(v)
      BY <1>1 DEF PdcOf
    <3> QED  BY <2>2, <2>3, <3>1 DEF PdcsOwed
  <2>5. Calls!CallPdc(PdcOf(w))
    <3>1. <<"pdc", PdcOf(w)[1], PdcOf(w)[2]>> = <<"pdc", p, job[w].fifo_cnt + 1>>
      BY DEF PdcOf
    <3> QED  BY <1>1, <1>2, <1>4, <1>6, <2>1, <2>4, <3>1 DEF Calls!CallPdc
  <2> QED  BY <2>4, <2>5 DEF Calls!NextOfPools, Calls!Common
<1>10. CASE wpc[w] = "lock_channel"
  <2>1. CallInside' = <<"channel", p, 0>> /\ InFifoCall' = {}
    BY <1>1, <1>3, <1>10 DEF CallOf
  <2>2. Calls!CallChannel(p)
    BY <1>1, <1>2, <1>4, <1>5, <1>6, <1>10, <2>1 DEF Calls!CallChannel
  <2> QED  BY <1>0, <2>2 DEF Calls!NextOfPools, Calls!CallForPool
<1> QED  BY <1>1, <1>7, <1>8, <1>9, <1>10

\* The end of a turn: the call returns and may ask for the PDC of its number, or
\* no call was made for a sync job without PLCF.
LEMMA ReturnFifoIsReturn ==
    ASSUME IndInv, StartInv, CallInv, HolderInv', NEW w \in Worker, ReturnFifo(w)
    PROVE  [Calls!NextOfPools]_Calls!vars
<1> DEFINE p == PoolOf[w]
<1>a. TypeOK /\ HolderInv  BY DEF IndInv
<1>0. /\ p \in Pool /\ p \in StartedPools /\ fifo_cnt[p] \in Nat
      /\ wpc[w] = "work" /\ lockv = w /\ id_holder = p
  BY <1>a, PoolOfType, PoolFacts, StartedFirst, ConstantsAssumption DEF ReturnFifo, HolderInv, InFirmware
<1>1. /\ lockv' = NoThread /\ fifo_cnt' = [fifo_cnt EXCEPT ![p] = @ + 1]
      /\ UNCHANGED <<ppc, job, accepted>>
      /\ wpc'[w] = "notify" /\ \A v \in Worker \ {w} : wpc'[v] = wpc[v] /\ after'[v] = after[v]
      /\ \/ after'[w] = after[w] /\ after[w] # "pcc"
         \/ after[w] = "pcc" /\ after'[w] \in {"get", "lock_pdc"}
  BY <1>0, <1>a DEF ReturnFifo, Unlock, Goto, prods, TypeOK
<1>2. /\ InFifoCall = IF after[w] # "get" THEN {w} ELSE {}
      /\ CallInside = IF after[w] = "get" THEN <<>>
                      ELSE <<job[w].content, p, job[w].fifo_cnt + 1>>
  BY <1>0, <1>a, OwnerIsShown, CallOfCases DEF OwnerShown
<1>3. InFifoCall' = {} /\ CallInside' = <<>>
  BY <1>1, OwnerIsShownNext DEF OwnerShown
<1>4. StartedPools' = StartedPools
  BY <1>1 DEF StartedPools
<1>5. TurnsTaken' = fifo_cnt'
  BY <1>1, <1>3, <1>a DEF TurnsTaken, TypeOK
<1>6. /\ job[w].fifo_cnt = fifo_cnt[p] /\ fifo_cnt[p] < Len(accepted[p])
      /\ job[w].content = accepted[p][fifo_cnt[p] + 1]
  BY <1>0, TurnOfJob
<1>7. after[w] \in (IF job[w].content = "sync" THEN {"pcc", "get"} ELSE {"tx"})
  BY <1>0 DEF CallInv, Unserved
<1>8. ~Owes(w) /\ \A v \in Worker \ {w} : Owes(v)' <=> Owes(v)
  BY <1>0, <1>1 DEF Owes
<1>9. Owes(w)' <=> after'[w] = "lock_pdc"
  BY <1>1 DEF Owes
<1> HIDE DEF Owes
<1>10. \A v \in Worker : PdcOf(v)' = PdcOf(v)
  BY <1>1 DEF PdcOf
<1>11. CASE after[w] = "get"
  <2>1. PdcsOwed' = PdcsOwed
    BY <1>1, <1>8, <1>9, <1>10, <1>11 DEF PdcsOwed
  <2>2. TurnsTaken = fifo_cnt
    BY <1>2, <1>11, <1>a DEF TurnsTaken, TypeOK
  <2>3. job[w].content = "sync"
    BY <1>7, <1>11
  <2>4. Calls!SkipSync(p)
    BY <1>0, <1>1, <1>2, <1>3, <1>4, <1>5, <1>6, <1>11, <2>1, <2>2, <2>3
    DEF Calls!SkipSync, Calls!Turn
  <2> QED  BY <1>0, <2>4 DEF Calls!NextOfPools, Calls!CallForPool
<1>12. CASE after[w] # "get"
  <2>1. TurnsTaken' = TurnsTaken
    BY <1>0, <1>1, <1>2, <1>3, <1>12, <1>a DEF TurnsTaken, TypeOK
  <2>2. CallInside = <<job[w].content, p, job[w].fifo_cnt + 1>> /\ CallInside # <<>>
    BY <1>2, <1>12, CallIsCall
  <2>3. CASE after'[w] # "lock_pdc"
    <3>1. PdcsOwed' = PdcsOwed
      BY <1>8, <1>9, <1>10, <2>3 DEF PdcsOwed
    <3>2. Calls!ReturnCall
      BY <1>1, <1>3, <1>4, <2>1, <2>2, <3>1 DEF Calls!ReturnCall
    <3> QED  BY <3>2 DEF Calls!NextOfPools, Calls!Common
  <2>4. CASE after'[w] = "lock_pdc"
    <3>1. PdcsOwed' = PdcsOwed \cup {PdcOf(w)}
      BY <1>8, <1>9, <1>10, <2>4 DEF PdcsOwed
    <3>2. job[w].content = "sync"
      BY <1>1, <1>7, <2>4
    <3>3. CallInside[1] = "sync" /\ PdcOf(w) = <<CallInside[2], CallInside[3]>>
      BY <2>2, <3>2 DEF PdcOf
    <3>4. Calls!ReturnCall
      BY <1>1, <1>3, <1>4, <2>1, <2>2, <3>1, <3>3 DEF Calls!ReturnCall
    <3> QED  BY <3>4 DEF Calls!NextOfPools, Calls!Common
  <2> QED  BY <2>3, <2>4
<1> QED  BY <1>11, <1>12

LEMMA ReturnIsReturn ==
    ASSUME IndInv, HolderInv', NEW w \in Worker, Return(w)
    PROVE  [Calls!NextOfPools]_Calls!vars
<1>a. TypeOK /\ HolderInv  BY DEF IndInv
<1>1. /\ lockv = w /\ lockv' = NoThread /\ UNCHANGED <<fifo_cnt, ppc, job, after, accepted>>
      /\ wpc[w] \in {"work_pdc", "work_channel"} /\ wpc'[w] \in {"tx", "tx_channel"}
      /\ \A v \in Worker \ {w} : wpc'[v] = wpc[v]
  BY <1>a DEF Return, Unlock, Goto, prods, HolderInv, InFirmware, TypeOK
<1>2. InFifoCall = {} /\ CallInside = CallOf(w) /\ CallOf(w) # <<>>
  BY <1>1, <1>a, OwnerIsShown, CallOfCases, CallIsCall DEF OwnerShown
<1>3. InFifoCall' = {} /\ CallInside' = <<>>
  BY <1>1, OwnerIsShownNext DEF OwnerShown
<1>4. StartedPools' = StartedPools /\ TurnsTaken' = TurnsTaken
  BY <1>1, <1>2, <1>3 DEF StartedPools, TurnsTaken
<1>5. PdcsOwed' = PdcsOwed
  <2>1. \A v \in Worker : Owes(v)' <=> Owes(v)
    BY <1>1 DEF Owes
  <2> HIDE DEF Owes
  <2> QED  BY <1>1, <2>1 DEF PdcsOwed, PdcOf
<1>6. Calls!ReturnCall
  BY <1>1, <1>2, <1>3, <1>4, <1>5 DEF Calls!ReturnCall
<1> QED  BY <1>6 DEF Calls!NextOfPools, Calls!Common

LEMMA WorkerCalls ==
    ASSUME IndInv, StartInv, CallInv, HolderInv', NEW w \in Worker,
           WorkerStep(w) \/ Wakeup(w) \/ TimeoutReturn(w)
    PROVE  [Calls!NextOfPools]_Calls!vars
<1>a. TypeOK /\ HolderInv  BY DEF IndInv
<1> USE <1>a DEF token, prods, workers, run, InFirmware, Owes
<1>1. CASE Dequeue(w)
  <2>1. \A v \in Worker \ {w} : job'[v] = job[v] /\ after'[v] = after[v]
    BY <1>1 DEF Dequeue, TypeOK
  <2> QED  BY <1>1, <2>1, StutterMove DEF Dequeue
<1>2. CASE FifoCheck(w)
  <2>1. Goto(w, "lock_fifo") \/ Goto(w, "wait")  BY <1>2 DEF FifoCheck
  <2> QED  BY <1>2, <2>1, StutterMove DEF FifoCheck
<1>3. CASE NotifyAll(w)
  <2>1. UNCHANGED <<fifo_cnt, lockv, accepted, ppc>> /\ wpc[w] = "notify"
    BY <1>3 DEF NotifyAll
  <2>2. \A v \in Worker \ {w} : job'[v] = job[v] /\ after'[v] = after[v] /\ wpc'[v] = Woken(v)
    BY <1>3 DEF NotifyAll, Forget, TypeOK
  <2>3. wpc'[w] = after[w] /\ after[w] # "pcc" /\ (after[w] # "get" => UNCHANGED <<job, after>>)
    BY <1>3 DEF NotifyAll, TypeOK
  <2>4. after[w] \in {"get", "lock_pdc", "tx"}
    BY <2>3 DEF TypeOK
  <2>5. \A v \in Worker \ {w} : /\ wpc[v] = "wait" => wpc'[v] = "fifo"
                                /\ wpc[v] # "wait" => wpc'[v] = wpc[v]
    BY <2>2 DEF Woken
  <2>6. \A v \in Worker : /\ wpc'[v] \in InFirmware <=> wpc[v] \in InFirmware
                          /\ wpc[v] \in InFirmware \/ Owes(v) => job'[v] = job[v]
                          /\ wpc[v] \in InFirmware => wpc'[v] = wpc[v] /\ after'[v] = after[v]
                          /\ Owes(v)' <=> Owes(v)
    BY <2>1, <2>2, <2>3, <2>4, <2>5
  <2> HIDE DEF InFirmware, Owes
  <2> QED  BY <2>1, <2>6, Stutter
<1>4. CASE RunTxChscan(w)
  <2>1. \A v \in Worker \ {w} : job'[v] = job[v] /\ after'[v] = after[v]
    BY <1>4 DEF RunTxChscan, Forget, TypeOK
  <2>2. /\ Goto(w, "lock_channel") \/ Goto(w, "finalize") \/ Goto(w, "get")
        /\ UNCHANGED <<fifo_cnt, lockv, accepted, ppc>> /\ wpc[w] \in {"tx", "tx_channel"}
    BY <1>4 DEF RunTxChscan
  <2> QED  BY <2>1, <2>2, StutterMove
<1>5. CASE Finalize(w)
  <2>1. \A v \in Worker \ {w} : job'[v] = job[v] /\ after'[v] = after[v]
    BY <1>5 DEF Finalize, Forget, TypeOK
  <2>2. Goto(w, "get") /\ UNCHANGED <<fifo_cnt, lockv, accepted, ppc>> /\ wpc[w] = "finalize"
    BY <1>5 DEF Finalize
  <2> QED  BY <2>1, <2>2, StutterMove
<1>6. CASE LeaveLoop(w)
  BY <1>6, StutterMove DEF LeaveLoop
<1>7. CASE ExitWorker(w)
  BY <1>7, StutterMove DEF ExitWorker
<1>8. CASE Wakeup(w)
  BY <1>8, StutterMove DEF Wakeup
<1>9. CASE TimeoutReturn(w)
  BY <1>9, StutterMove DEF TimeoutReturn
<1>10. CASE Drain(w)
  BY <1>10, Stutter DEF Drain
<1> QED
  BY <1>1, <1>2, <1>3, <1>4, <1>5, <1>6, <1>7, <1>8, <1>9, <1>10,
     LockIsCall, ReturnFifoIsReturn, ReturnIsReturn DEF WorkerStep

\* Every call of a work function of the firmware, by whatever thread of whatever
\* pool, is exclusive, comes after work_start() of its own pool, in FIFO order per
\* pool, and one work_pdc() at most for a PCC whose PDC was asked for.
THEOREM CallsOfPoolsImplemented == Spec => ImplementsCallsOfPools
<1>1. Init => Calls!Init
  <2> SUFFICES ASSUME Init PROVE Calls!Init
    OBVIOUS
  <2>1. StartedPools = {} /\ PdcsOwed = {} /\ CallInside = <<>>
    <3>1. \A r \in Registrar : ppc[r] = "starting"
      BY ConstantsAssumption DEF Init, Producer
    <3>2. \A w \in Worker : ~Owes(w)
      BY DEF Init, Owes
    <3>3. lockv = NoThread
      BY DEF Init
    <3> HIDE DEF Owes, Init
    <3> QED  BY <3>1, <3>2, <3>3 DEF StartedPools, PdcsOwed, CallInside
  <2>2. TurnsTaken = [p \in Pool |-> 0]
    BY DEF Init, TurnsTaken, InFifoCall
  <2> QED  BY <2>1, <2>2 DEF Calls!Init, Init
<1>2. IndInv /\ IndInv' /\ StartInv /\ CallInv /\ [Next]_vars => [Calls!NextOfPools]_Calls!vars
  <2> SUFFICES ASSUME IndInv, IndInv', StartInv, CallInv, [Next]_vars
               PROVE  [Calls!NextOfPools]_Calls!vars
    OBVIOUS
  <2>a. TypeOK /\ HolderInv /\ HolderInv'  BY DEF IndInv
  <2>1. ASSUME NEW w \in Worker, WorkerStep(w) \/ Wakeup(w) \/ TimeoutReturn(w)
        PROVE  [Calls!NextOfPools]_Calls!vars
    BY <2>a, <2>1, WorkerCalls
  <2>2. ASSUME NEW q \in Producer, ProducerStep(q) \/ \E k \in Kind : Produce(q, k)
        PROVE  [Calls!NextOfPools]_Calls!vars
    BY <2>a, <2>2, ProducerCalls
  <2>3. ASSUME UNCHANGED <<fifo_cnt, lockv, accepted, ppc, workers>> PROVE UNCHANGED Calls!vars
    BY <2>a, <2>3, Stutter DEF workers, Owes
  <2>4. CASE StopUpper
    BY <2>3, <2>4 DEF StopUpper, token, prods
  <2>5. ASSUME NEW p \in Pool, StopPool(p) PROVE UNCHANGED Calls!vars
    BY <2>3, <2>5 DEF StopPool, token, prods
  <2>6. CASE UNCHANGED vars
    BY <2>3, <2>6 DEF vars, token, prods
  <2> QED  BY <2>1, <2>2, <2>4, <2>5, <2>6 DEF Next, Terminated
<1> QED  BY <1>1, <1>2, Invariant, StartUp, CallInvHolds, PTL DEF Spec, Calls!SpecOfPools, ImplementsCallsOfPools

\* With a pool of its own a firmware gets what tpoint.hpp announces: work_start()
\* exactly once and before any other work function.
THEOREM FirmwareCallsImplemented ==
    ASSUME \A p \in Pool : p = FirstPool PROVE Spec => ImplementsFirmwareCalls
<1>1. StartedPools \subseteq Pool
  BY PoolOfType, ConstantsAssumption DEF StartedPools, Producer
<1>2. [Calls!NextOfPools]_Calls!vars => [Calls!Next]_Calls!vars
  <2> SUFFICES ASSUME Calls!NextOfPools PROVE Calls!Next
    OBVIOUS
  <2>1. CASE Calls!Common
    BY <2>1 DEF Calls!Next
  <2>2. CASE \E p \in Pool \ StartedPools : Calls!CallStart(p)
    <3>1. StartedPools = {}
      BY <1>1, <2>2
    <3> QED  BY <2>2, <3>1 DEF Calls!Next
  <2>3. CASE \E p \in StartedPools : Calls!CallForPool(p)
    <3>1. StartedPools # {}
      BY <2>3
    <3> QED  BY <1>1, <2>3, <3>1 DEF Calls!Next
  <2> QED  BY <2>1, <2>2, <2>3 DEF Calls!NextOfPools
<1> QED
  BY <1>1, <1>2, CallsOfPoolsImplemented, PTL
  DEF ImplementsCallsOfPools, ImplementsFirmwareCalls, Calls!SpecOfPools, Calls!Spec

=============================================================================
