-------------------------- MODULE WorkerSyncProofs --------------------------
(***************************************************************************)
(* Synchronization of a worker pool, for every number of workers, every    *)
(* length of chunks and overlaps, and every signal whose packets are far   *)
(* enough apart.                                                           *)
(*                                                                         *)
(* The baton goes round, so the chunk whose turn it is is determined by    *)
(* the last chunk completed, and those of the other workers by their       *)
(* distance to the holder of the baton.  A worker is at the chunk of its   *)
(* turn, or at a later one if it went on without the baton.  Detections in *)
(* its hands do not lie before the chunk of its turn and are in order;     *)
(* sync jobs lie before them, up to the overlap, in which there is room    *)
(* for one packet only.  A holder that is not at the chunk of its turn     *)
(* never passes the baton on.                                              *)
(***************************************************************************)
EXTENDS WorkerSync, TLAPS, FiniteSetTheorems

-----------------------------------------------------------------------------
(* The inductive invariant *)

Det == [of : Nat, time : Nat]
Job == [kind : {"sync", "regular", "irregular"}, time : Int, of : Int]

\* Types of the variables, those of the irregular queue first.
QueueTypes ==
    /\ reports \in [Slot -> ReportTime \cup {Late}]
    /\ it_next \in Slot \cup {None} /\ next_time \in ReportTime \cup {Late}
Types ==
    /\ packets \subseteq Nat /\ detected \subseteq packets
    /\ register_cnt \in Nat /\ register_now \in Nat \cup {Early}
    /\ id_holder \in Id
    /\ sync_time_last \in Nat \cup {Early} /\ chunk_done \in Nat \cup {None}
    /\ QueueTypes
    /\ pc \in [Id -> Pc] /\ report \in [Id -> ReportTime \cup {Late}]
    /\ chunk \in [Id -> Nat \cup {None}] /\ pos \in [Id -> 0 .. A + B]
    /\ buffered \in [Id -> Seq(Det)] /\ found \in [Id -> Seq(Det)]
    /\ has_baton \in [Id -> BOOLEAN] /\ no_more \in [Id -> Nat]
    /\ permeable \in BOOLEAN /\ jobs \in Seq(Job)

\* Packets keep their distance.
Gaps == \A p, q \in packets : p < q => q - p >= MinGap

Waiting == {"warmup", "registered"}
Active(i) == pc[i] \notin Waiting
Registered == {i \in Id : pc[i] # "warmup"}

\* Nothing happens before all workers have registered.
StartInv ==
    /\ register_cnt = Cardinality(Registered)
    /\ Registered # {} => register_now \in Nat
    /\ \A i, j \in Id : Active(i) => pc[j] # "warmup"
    /\ \A i \in Id : Active(i) => chunk[i] \in Nat
    /\ \A i \in Id : pc[i] = "warmup" =>
        /\ ~permeable /\ chunk_done = None /\ id_holder = 0 /\ jobs = <<>> /\ detected = {}
        /\ next_time = Late /\ it_next = None /\ \A s \in Slot : reports[s] = Late
        /\ \A j \in Id : report[j] = Late

\* The next report is an earliest one.  There is room for that of work_start().
QueueInv ==
    /\ it_next = None <=> next_time = Late
    /\ it_next # None => reports[it_next] = next_time
    /\ \A s \in Slot : next_time <= reports[s]
SlotInv ==
    /\ QueueInv
    /\ Reserved # {} => \E s \in Slot : reports[s] = Late
    /\ \A i, j \in Reserved : i = j

\* The worker that acts with the baton is its holder, and only it pops reports.
BatonInv ==
    \A i \in Id :
        /\ pc[i] \in {"flush", "emit"} => has_baton[i]
        /\ pc[i] \in {"wait_to", "waiting", "again"} => ~has_baton[i]
        /\ pc[i] \in {"search", "flush", "emit", "pop"} /\ has_baton[i] => id_holder = i
        /\ pc[i] = "pop" => id_holder = i /\ next_time < Late /\ next_time <= no_more[i]

\* The chunk the baton is at, the distance of a worker to its holder, and the chunk the
\* worker will be expected to have completed when it is its turn.
CurrentChunk == IF chunk_done = None THEN N * register_now ELSE chunk_done + 1
Distance(i) == IF i >= id_holder THEN i - id_holder ELSE i - id_holder + N
Turn(i) == CurrentChunk + Distance(i)

\* The chunk a worker is at, or the next one it will be at.
NextChunk(i) == IF ~Active(i) THEN N * register_now + i
                ELSE IF pc[i] = "loop" /\ Completed(i) THEN chunk[i] + N ELSE chunk[i]

\* A worker that has gone on without the baton has been in the search before, and it is
\* not the one that begins with the baton.
InTurn(i) == \/ pc[i] \in Waiting \cup {"loop"}
             \/ pc[i] # "exited" /\ chunk_done = None /\ i = 0

ChunkInv ==
    /\ chunk_done = None => id_holder = 0
    /\ chunk_done # None => permeable
    /\ Active(0) => permeable
    /\ \A i \in Id : ~Active(i) => pos[i] = 0
    /\ \A i \in Id : pc[i] # "exited" => NextChunk(i) >= Turn(i)
    /\ \A i \in Id : InTurn(i) => NextChunk(i) = Turn(i)
    /\ \A i \in Id : pc[i] = "again" => N > 1 /\ ~(chunk_done = None /\ i = 0)

\* A detection is one of a packet the worker has searched for, from its turn on.
InChunk(i, d) ==
    /\ d.of \in detected /\ d.time - d.of \in Error
    /\ ChunkStart(Turn(i)) <= d.of /\ d.of < Now(i)

Hand(i) ==
    /\ \A k \in 1 .. Len(buffered[i]) : InChunk(i, buffered[i][k])
    /\ \A k \in 1 .. Len(found[i]) : InChunk(i, found[i][k])
    /\ \A k, l \in 1 .. Len(buffered[i]) : k < l => buffered[i][k].of < buffered[i][l].of
    /\ \A k \in 1 .. Len(buffered[i]), l \in 1 .. Len(found[i]) :
            buffered[i][k].of < found[i][l].of
    /\ Len(found[i]) <= 1
    /\ pc[i] \in Waiting \cup {"loop"} => buffered[i] = <<>> /\ found[i] = <<>>
    /\ pc[i] = "emit" => buffered[i] = <<>>
    /\ pc[i] = "search" => found[i] = <<>> /\ (has_baton[i] => buffered[i] = <<>>)
    /\ pc[i] = "pop" /\ ~has_baton[i] => found[i] = <<>>
    /\ pc[i] = "again" => found[i] = <<>>
HandInv == \A i \in Id : Hand(i)

\* Packets before the limit of an irregular job have been searched for.
PopInv ==
    \A i \in Id : pc[i] = "pop" =>
        \A p \in packets : p < no_more[i] => p \in detected \/ p < Now(i)

\* Jobs so far, at the chunk the baton is at.  The job of a worker whose assertion fails
\* is the last one.
JobsInv ==
    /\ \A n \in Jobs("sync") :
        /\ jobs[n].of \in packets /\ jobs[n].time - jobs[n].of \in Error
        /\ jobs[n].time <= sync_time_last
    /\ \A n \in Jobs("regular") :
        /\ jobs[n].of <= sync_time_last
        /\ chunk_done # None /\ (~Failed => jobs[n].time <= ChunkEnd(chunk_done))
    /\ EveryPacketOnce /\ BarrierHolds

\* The last job of a detection is that of the latest synchronization time.
LastInv ==
    sync_time_last = Early \/ \E n \in Jobs("sync") : jobs[n].time = sync_time_last

\* The holder of the baton has gone on to a later chunk.
Stuck == Active(id_holder) /\ pc[id_holder] # "loop" /\ chunk[id_holder] # CurrentChunk

\* Sync jobs lie before what a worker has in its hands, and before what it will
\* find, unless they lie in the overlap before the chunk of its turn.  If the holder is
\* stuck nobody else will ever enqueue a job.
Behind(i, p) ==
    \/ p < ChunkStart(Turn(i)) + B
    \/ /\ Active(i) /\ pc[i] # "loop" /\ p < Now(i)
       /\ \A k \in 1 .. Len(buffered[i]) : p < buffered[i][k].of
       /\ \A k \in 1 .. Len(found[i]) : p < found[i][k].of
BehindInv ==
    \A i \in Id, p \in Served : pc[i] # "exited" => Behind(i, p) \/ (i # id_holder /\ Stuck)

\* Every packet detected is in the hands of a worker or has its job.
KeptInv == detected \subseteq InHand \cup Served

-----------------------------------------------------------------------------
(* Arithmetic and minima *)

LEMMA ConstantTypes ==
    /\ N \in Nat /\ N > 0 /\ A \in Nat /\ A > 0 /\ B \in Nat /\ UniqueLimit \in Nat /\ MinGap \in Nat
    /\ Early \in Int /\ Early < 0 /\ Late \in Nat /\ None \in Int /\ None \notin Nat /\ None \notin Slot
    /\ Early \notin Nat
    /\ 0 \in Id /\ \A i \in Id : i \in Nat /\ i < N
    /\ \A e \in Error : e \in Nat
BY SyncAssumption DEF Early, Late, None, Id, Slot

\* Chunks follow one another.
LEMMA ChunkTimes ==
    ASSUME NEW c \in Int
    PROVE  /\ ChunkStart(c) \in Int /\ ChunkEnd(c) = ChunkStart(c) + A - 1
           /\ ChunkStart(c + 1) = ChunkStart(c) + A
           /\ c \in Nat => ChunkStart(c) \in Nat
BY ConstantTypes DEF ChunkStart, ChunkEnd

LEMMA ChunkOrder ==
    ASSUME NEW c \in Int, NEW d \in Int, c < d
    PROVE  ChunkStart(c) + A <= ChunkStart(d)
<1>1. PICK k \in Nat : d = c + 1 + k
  <2>1. d - c - 1 \in Nat /\ d = c + 1 + (d - c - 1)
    OBVIOUS
  <2> QED  BY <2>1
<1>2. ChunkStart(d) = ChunkStart(c) + A + k * A /\ k * A \in Nat
  BY <1>1, ConstantTypes DEF ChunkStart
<1> QED  BY <1>2, ChunkTimes, ConstantTypes

\* The successor of the holder.
LEMMA SuccessorIs ==
    ASSUME id_holder \in Id
    PROVE  /\ Successor \in Id
           /\ Successor = IF id_holder + 1 = N THEN 0 ELSE id_holder + 1
<1>1. id_holder \in 0 .. N - 1 /\ N \in Nat \ {0}
  BY ConstantTypes DEF Id
<1>2. (id_holder + 1) % N = IF id_holder + 1 = N THEN 0 ELSE id_holder + 1
  BY <1>1
<1> QED  BY <1>1, <1>2 DEF Successor, Id

\* A set of numbers has a least element.
LEMMA Least ==
    ASSUME NEW S \in SUBSET Nat, S # {}
    PROVE  \E m \in S : \A x \in S : m <= x
<1> DEFINE R == {t \in Nat \X Nat : t[1] < t[2]}
<1>1. IsWellFoundedOn(R, Nat)
  BY NatLessThanWellFounded DEF OpToRel
<1>2. \A x, y \in Nat : <<y, x>> \in R <=> y < x
  OBVIOUS
<1> HIDE DEF R
<1>3. \E m \in S : \A y \in S : <<y, m>> \notin R
  BY <1>1, WFMin
<1>4. PICK m \in S : \A y \in S : <<y, m>> \notin R
  BY <1>3
<1>5. \A x \in S : m <= x
  <2> TAKE x \in S
  <2>1. ~(x < m)
    BY <1>2, <1>4
  <2> QED  BY <2>1
<1> QED  BY <1>5

\* push() finds the first free slot, if there is a free one.
LEMMA FirstFree ==
    ASSUME NEW r, NEW s \in Slot, r[s] = Late
    PROVE  LET f == CHOOSE f \in Slot : r[f] = Late /\ \A u \in Slot : u < f => r[u] # Late
           IN  f \in Slot /\ r[f] = Late
<1> DEFINE F == {u \in Slot : r[u] = Late}
<1>1. F \in SUBSET Nat /\ F # {}
  BY DEF Slot
<1> HIDE DEF F
<1>2. PICK m \in F : \A x \in F : m <= x
  BY <1>1, Least
<1>3. m \in Slot /\ r[m] = Late /\ \A u \in Slot : u < m => r[u] # Late
  <2>1. m \in Nat /\ \A u \in Slot : u \in Nat
    BY <1>1, <1>2 DEF Slot
  <2>2. ASSUME NEW u \in Slot, u < m, r[u] = Late PROVE FALSE
    <3>1. u \in F
      BY <2>2 DEF F
    <3>2. m <= u
      BY <1>2, <3>1
    <3> QED  BY <2>1, <2>2, <3>2
  <2> QED  BY <1>2, <2>2 DEF F
<1>4. \E f \in Slot : r[f] = Late /\ \A u \in Slot : u < f => r[u] # Late
  BY <1>3
<1> QED  BY <1>4

\* std::min_element finds the first of the least elements.
LEMMA FirstLeast ==
    ASSUME NEW r \in [Slot -> Nat]
    PROVE  LET m == CHOOSE s \in Slot : /\ \A u \in Slot : r[s] <= r[u]
                                        /\ \A u \in Slot : u < s => r[s] < r[u]
           IN  m \in Slot /\ \A u \in Slot : r[m] <= r[u]
<1> DEFINE V == {r[s] : s \in Slot}
<1>1. V \in SUBSET Nat /\ V # {}
  <2>1. 1 \in Slot
    BY SyncAssumption DEF Slot
  <2> QED  BY <2>1
<1> HIDE DEF V
<1>2. PICK v \in V : \A x \in V : v <= x
  BY <1>1, Least
<1> DEFINE F == {s \in Slot : r[s] = v}
<1>3. F \in SUBSET Nat /\ F # {}
  BY <1>2 DEF V, Slot
<1> HIDE DEF F
<1>4. PICK m \in F : \A x \in F : m <= x
  BY <1>3, Least
<1>5. m \in Slot /\ r[m] = v /\ \A u \in Slot : v <= r[u]
  BY <1>2, <1>4 DEF V, F
<1>6. \A u \in Slot : u < m => r[m] < r[u]
  <2> SUFFICES ASSUME NEW u \in Slot, u < m PROVE r[m] < r[u]
    OBVIOUS
  <2>0. m \in Nat /\ u \in Nat
    BY <1>3, <1>4 DEF Slot
  <2>1. ASSUME u \in F PROVE FALSE
    <3>1. m <= u
      BY <1>4, <2>1
    <3> QED  BY <2>0, <3>1
  <2>2. r[u] # v /\ r[u] \in Nat /\ v \in Nat /\ v <= r[u]
    BY <1>1, <1>2, <1>5, <2>1 DEF F
  <2> QED  BY <1>5, <2>2
<1>7. \E s \in Slot : /\ \A u \in Slot : r[s] <= r[u]
                      /\ \A u \in Slot : u < s => r[s] < r[u]
  BY <1>5, <1>6
<1> QED  BY <1>7

-----------------------------------------------------------------------------
(* The irregular queue *)

LEMMA ReportTimes ==
    /\ \A t \in ReportTime : t \in Nat /\ t < Late
    /\ ReportTime \cup {Late} \subseteq Nat
    /\ \A t \in ReportTime \cup {Late} : t \in Nat /\ t <= Late
BY SyncAssumption, ConstantTypes

LEMMA PushStep ==
    ASSUME QueueTypes, QueueInv, NEW t \in ReportTime, Push(t),
           NEW s \in Slot, reports[s] = Late
    PROVE  /\ QueueTypes' /\ QueueInv'
           /\ next_time' <= next_time
           /\ \E f \in Slot : reports[f] = Late /\ reports' = [reports EXCEPT ![f] = t]
<1> DEFINE f == CHOOSE f \in Slot : reports[f] = Late /\ \A u \in Slot : u < f => reports[u] # Late
<1>1. f \in Slot /\ reports[f] = Late
  BY FirstFree
<1>2. /\ reports' = [reports EXCEPT ![f] = t]
      /\ it_next' = IF t < next_time THEN f ELSE it_next
      /\ next_time' = IF t < next_time THEN t ELSE next_time
  BY DEF Push
<1> HIDE DEF f
<1>3. QueueTypes'
  BY <1>1, <1>2 DEF QueueTypes
<1>4. f # None /\ t # Late /\ \A u \in Slot : u # None
  BY <1>1, ConstantTypes, ReportTimes
<1>5. \A u \in Slot : reports'[u] = IF u = f THEN t ELSE reports[u]
  BY <1>2 DEF QueueTypes
<1>6. QueueInv'
  <2>1. CASE t < next_time
    BY <1>1, <1>2, <1>4, <1>5, <2>1, ReportTimes DEF QueueInv, QueueTypes
  <2>2. CASE ~(t < next_time)
    <3>1. next_time # Late /\ it_next \in Slot /\ it_next # f
      BY <1>1, <2>2, ReportTimes DEF QueueInv, QueueTypes
    <3> QED  BY <1>2, <1>4, <1>5, <2>2, <3>1, ReportTimes DEF QueueInv, QueueTypes
  <2> QED  BY <2>1, <2>2
<1>7. next_time' <= next_time
  BY <1>2, ReportTimes DEF QueueTypes
<1> QED  BY <1>1, <1>2, <1>3, <1>6, <1>7

LEMMA PopStep ==
    ASSUME QueueTypes, QueueInv, Pop
    PROVE  QueueTypes' /\ QueueInv' /\ reports' = [reports EXCEPT ![it_next] = Late]
<1> DEFINE m == CHOOSE s \in Slot : /\ \A r \in Slot : reports'[s] <= reports'[r]
                                    /\ \A r \in Slot : r < s => reports'[s] < reports'[r]
<1>1. reports' = [reports EXCEPT ![it_next] = Late]
  BY DEF Pop
<1>2. reports' \in [Slot -> ReportTime \cup {Late}] /\ reports' \in [Slot -> Nat]
  BY <1>1, ReportTimes DEF QueueTypes
<1>3. m \in Slot /\ \A u \in Slot : reports'[m] <= reports'[u]
  BY <1>2, FirstLeast
<1>4. /\ it_next' = IF reports'[m] = Late THEN None ELSE m
      /\ next_time' = reports'[m]
  BY DEF Pop
<1> HIDE DEF m
<1>5. QueueTypes'
  BY <1>2, <1>3, <1>4 DEF QueueTypes
<1>6. QueueInv'
  BY <1>2, <1>3, <1>4, ConstantTypes DEF QueueInv
<1> QED  BY <1>1, <1>5, <1>6

-----------------------------------------------------------------------------
(* Types, registration, and who holds the baton *)

Core == Types /\ Gaps /\ StartInv /\ SlotInv /\ BatonInv

LEMMA Threads == IsFiniteSet(Id) /\ Cardinality(Id) = N
<1>1. 0 \in Int /\ N - 1 \in Int /\ ~(0 > N - 1) /\ (N - 1) - 0 + 1 = N
  BY ConstantTypes
<1>2. IsFiniteSet(0 .. (N - 1)) /\ Cardinality(0 .. (N - 1)) = N
  BY <1>1, FS_Interval
<1> QED  BY <1>2 DEF Id

\* A report is only pushed while there is a free slot, and popped while there is one.
LEMMA RoomForReport ==
    ASSUME Core
    PROVE  /\ \A t \in ReportTime : PushReport(t) => \E s \in Slot : reports[s] = Late
           /\ \A i \in Id : Leave(i) /\ report[i] < Late =>
                    report[i] \in ReportTime /\ \E s \in Slot : reports[s] = Late
           /\ \A i \in Id : pc[i] = "pop" => it_next \in Slot
<1>1. ASSUME NEW t \in ReportTime, PushReport(t) PROVE \E s \in Slot : reports[s] = Late
  <2> DEFINE F == {s \in Slot : reports[s] = Late}
  <2>1. Cardinality(F) > Cardinality(Reserved)
    BY <1>1 DEF PushReport
  <2>2. IsFiniteSet(Reserved) /\ Cardinality(Reserved) \in Nat
    <3>1. Reserved \subseteq Id
      BY DEF Reserved
    <3> QED  BY <3>1, Threads, FS_Subset, FS_CardinalityType
  <2>3. F # {}
    BY <2>1, <2>2, FS_EmptySet
  <2> QED  BY <2>3
<1>2. ASSUME NEW i \in Id, Leave(i), report[i] < Late
      PROVE  report[i] \in ReportTime /\ \E s \in Slot : reports[s] = Late
  <2>1. i \in Reserved
    BY <1>2 DEF Leave, Reserved
  <2>2. report[i] \in ReportTime \cup {Late}
    BY DEF Core, Types
  <2> QED  BY <1>2, <2>1, <2>2, ConstantTypes DEF Core, SlotInv
<1>3. ASSUME NEW i \in Id, pc[i] = "pop" PROVE it_next \in Slot
  BY <1>3, ConstantTypes DEF Core, BatonInv, SlotInv, QueueInv, Types, QueueTypes
<1> QED  BY <1>1, <1>2, <1>3

LEMMA QueueStep ==
    ASSUME Core, Next
    PROVE  QueueTypes' /\ QueueInv'
<1> USE DEF Core, Types, SlotInv
<1>1. ASSUME NEW i \in Id, WorkerStep(i) \/ WaitTimeout(i) PROVE QueueTypes' /\ QueueInv'
  <2>1. CASE UNCHANGED irrq
    BY <2>1 DEF irrq, QueueTypes, QueueInv
  <2>2. CASE Leave(i) /\ report[i] < Late
    BY <2>2, PushStep, RoomForReport DEF Leave
  <2>3. CASE PopReport(i)
    BY <2>3, PopStep, RoomForReport DEF PopReport
  <2>4. WorkerStep(i) => UNCHANGED irrq \/ (Leave(i) /\ report[i] < Late) \/ PopReport(i)
    BY DEF WorkerStep, Register, Leave, Loop, Silence, Detect, SearchAgain, EndOfSearch, WaitTo, Flush, Emit, PassOn
  <2>5. WaitTimeout(i) => UNCHANGED irrq
    BY DEF WaitTimeout
  <2> QED  BY <1>1, <2>1, <2>2, <2>3, <2>4, <2>5
<1>2. ASSUME NEW t \in ReportTime, PushReport(t) PROVE QueueTypes' /\ QueueInv'
  BY <1>2, PushStep, RoomForReport DEF PushReport
<1>3. CASE Stop \/ Terminated
  BY <1>3 DEF Stop, Terminated, vars, irrq, QueueTypes, QueueInv
<1> QED  BY <1>1, <1>2, <1>3 DEF Next

\* Where a worker is, and where it begins.
LEMMA Positions ==
    ASSUME Core, NEW i \in Id
    PROVE  /\ chunk[i] \in Int /\ ChunkStart(chunk[i]) \in Int /\ ChunkEnd(chunk[i]) \in Int
           /\ pos[i] \in Nat /\ pos[i] <= A + B /\ Now(i) \in Int
           /\ Now(i) = ChunkStart(chunk[i]) + pos[i]
           /\ ~Completed(i) => pos[i] < A + B /\ pos[i] + 1 \in 0 .. A + B
           /\ Active(i) => chunk[i] \in Nat /\ ChunkStart(chunk[i]) \in Nat /\ Now(i) \in Nat
           /\ pc[i] # "warmup" => N * register_now + i \in Nat
<1>1. chunk[i] \in Int /\ pos[i] \in 0 .. A + B
  BY ConstantTypes, SMTT(60) DEF Core, Types
<1>2. /\ ChunkStart(chunk[i]) \in Int /\ ChunkEnd(chunk[i]) \in Int
      /\ chunk[i] \in Nat => ChunkStart(chunk[i]) \in Nat
  BY <1>1, ChunkTimes, ConstantTypes
<1>3. pos[i] \in Nat /\ pos[i] <= A + B /\ (~Completed(i) => pos[i] < A + B /\ pos[i] + 1 \in 0 .. A + B)
  BY <1>1, ConstantTypes DEF Completed
<1>4. Active(i) => chunk[i] \in Nat
  BY DEF Core, StartInv
<1>5. Now(i) = ChunkStart(chunk[i]) + pos[i]
  BY DEF Now
<1>6. Now(i) \in Int /\ (Active(i) => Now(i) \in Nat)
  BY <1>2, <1>3, <1>4, <1>5
<1>7. pc[i] # "warmup" => N * register_now + i \in Nat
  <2>1. pc[i] # "warmup" => register_now \in Nat
    BY DEF Core, StartInv, Registered
  <2>2. N \in Nat /\ i \in Nat
    BY ConstantTypes
  <2> QED  BY <2>1, <2>2
<1> QED  BY <1>1, <1>2, <1>3, <1>4, <1>5, <1>6, <1>7

LEMMA Enqueued ==
    ASSUME jobs \in Seq(Job), NEW j \in Job, EnqueueJob(j)
    PROVE  jobs' \in Seq(Job)
BY DEF EnqueueJob

LEMMA TypesStep ==
    ASSUME Core, Next
    PROVE  Types'
<1>0. QueueTypes'
  BY QueueStep
<1> USE DEF Core, Types, Pc
<1>1. ASSUME NEW i \in Id, NEW s \in Start, Register(i, s) PROVE Types'
  <2>1. s \in Nat /\ register_now' \in Nat \cup {Early} /\ register_cnt' \in Nat
    BY <1>1, SyncAssumption DEF Register
  <2> QED  BY <1>0, <1>1, <2>1, ZenonT(60) DEF Register, Goto, search, queue
<1>2. ASSUME NEW i \in Id, Leave(i) PROVE Types'
  <2>1. N * register_now + i \in Nat
    BY <1>2, Positions DEF Leave
  <2> QED  BY <1>0, <1>2, <2>1 DEF Leave, Goto, baton
<1>3. ASSUME NEW i \in Id, Loop(i) PROVE Types'
  <2>1. chunk[i] + N \in Nat
    <3>1. chunk[i] \in Nat
      BY <1>3, Positions DEF Loop, Active, Waiting
    <3>2. N \in Nat
      BY ConstantTypes
    <3> HIDE DEF Core, Types, Pc
    <3> QED  BY <3>1, <3>2
  <2>2. 0 \in 0 .. A + B /\ <<>> \in Seq(Det)
    BY SyncAssumption
  <2>3. chunk' \in [Id -> Nat \cup {None}]
    BY <1>3, <2>1, ZenonT(60) DEF Loop
  <2> QED  BY <1>0, <1>3, <2>2, <2>3, ZenonT(60) DEF Loop, Goto, baton, queue
<1>4. ASSUME NEW i \in Id, Silence(i) PROVE Types'
  <2>1. pos' \in [Id -> 0 .. A + B]
    <3>1. pos[i] + 1 \in 0 .. A + B
      BY <1>4, Positions DEF Silence
    <3> QED  BY <1>4, <3>1 DEF Silence, Step
  <2>2. pc' \in [Id -> Pc]
    BY <1>4 DEF Silence, CallIfDue, Goto
  <2>3. no_more' \in [Id -> Nat]
    <3>1. CASE Due(i, Now(i) + 1)
      <4>1. Now(i) \in Nat
        BY <1>4, Positions DEF Silence, Active, Waiting
      <4>2. Now(i) + 1 \in Nat
        BY <4>1
      <4> QED  BY <1>4, <3>1, <4>2 DEF Silence, CallIfDue
    <3>2. CASE ~Due(i, Now(i) + 1)
      BY <1>4, <3>2 DEF Silence, CallIfDue
    <3> QED  BY <3>1, <3>2
  <2> QED  BY <1>0, <1>4, <2>1, <2>2, <2>3 DEF Silence, baton, queue
<1>5. ASSUME NEW i \in Id, NEW e \in Error, Detect(i, e) PROVE Types'
  <2> DEFINE d == Detection(Now(i), e)
  <2>1. d \in Det /\ d.of \in packets
    <3>1. e \in Nat
      BY ConstantTypes
    <3>2. Now(i) \in packets /\ Now(i) \in Nat
      BY <1>5 DEF Detect, Detection
    <3>3. Now(i) + e \in Nat
      BY <3>1, <3>2, SMTT(60)
    <3> QED  BY <3>2, <3>3 DEF Detection, Det
  <2>2. pos' \in [Id -> 0 .. A + B]
    <3>1. pos[i] + 1 \in 0 .. A + B
      BY <1>5, Positions DEF Detect
    <3> QED  BY <1>5, <3>1 DEF Detect, Step
  <2>5. detected' = detected \cup {d.of} /\ packets' = packets
    BY <1>5 DEF Detect
  <2>6. /\ \/ buffered' = [buffered EXCEPT ![i] = Append(@, d)] /\ UNCHANGED found
           \/ found' = [found EXCEPT ![i] = <<d>>] /\ UNCHANGED buffered
        /\ \E l \in {"again", "search", "emit", "wait_to"} : Goto(i, l)
    BY <1>5 DEF Detect
  <2> HIDE DEF d
  <2>3. buffered' \in [Id -> Seq(Det)] /\ found' \in [Id -> Seq(Det)] /\ pc' \in [Id -> Pc]
    <3>1. Append(buffered[i], d) \in Seq(Det) /\ <<d>> \in Seq(Det)
      BY <2>1
    <3>2. {"again", "search", "emit", "wait_to"} \subseteq Pc
      OBVIOUS
    <3> QED  BY <2>6, <3>1, <3>2, ZenonT(60) DEF Goto
  <2>4. detected' \subseteq packets' /\ packets' \subseteq Nat
    BY <2>1, <2>5
  <2> QED  BY <1>0, <1>5, <2>2, <2>3, <2>4 DEF Detect, baton, queue
<1>5a. ASSUME NEW i \in Id, SearchAgain(i) PROVE Types'
  <2>1. chunk[i] + N \in Nat
    <3>1. chunk[i] \in Nat
      BY <1>5a, Positions DEF SearchAgain, Active, Waiting
    <3>2. N \in Nat
      BY ConstantTypes
    <3> HIDE DEF Core, Types, Pc
    <3> QED  BY <3>1, <3>2
  <2>2. 0 \in 0 .. A + B
    BY SyncAssumption
  <2>3. chunk' \in [Id -> Nat \cup {None}] /\ pos' \in [Id -> 0 .. A + B]
    BY <1>5a, <2>1, <2>2, ZenonT(60) DEF SearchAgain
  <2> QED  BY <1>0, <1>5a, <2>3, ZenonT(60) DEF SearchAgain, Goto, baton, queue
<1>6. ASSUME NEW i \in Id, EndOfSearch(i) PROVE Types'
  BY <1>0, <1>6 DEF EndOfSearch, Goto, baton, search, queue
<1>7. ASSUME NEW i \in Id, WaitTo(i) PROVE Types'
  BY <1>0, <1>7 DEF WaitTo, Goto, baton, queue
<1>8. ASSUME NEW i \in Id, WaitTimeout(i) PROVE Types'
  BY <1>0, <1>8 DEF WaitTimeout, Goto, baton, search, queue
<1>9. ASSUME NEW i \in Id, NEW d \in Det, NEW l \in Pc, EnqueueDetection(i, d, l),
             permeable' = permeable
      PROVE  /\ sync_time_last' \in Nat \cup {Early} /\ jobs' \in Seq(Job)
             /\ pc' \in [Id -> Pc] /\ no_more' \in [Id -> Nat]
  <2>1. d.time \in Nat /\ d.of \in Nat
    BY DEF Det
  <2>2. SyncJob(d) \in Job
    BY <2>1 DEF SyncJob, Job
  <2>3. sync_time_last' \in Nat \cup {Early} /\ jobs' \in Seq(Job)
    <3>1. EnqueueJob(SyncJob(d)) => jobs' \in Seq(Job)
      BY <2>2 DEF EnqueueJob
    <3>2. \/ sync_time_last' = d.time /\ EnqueueJob(SyncJob(d))
          \/ sync_time_last' = sync_time_last /\ jobs' = jobs
      BY <1>9 DEF EnqueueDetection
    <3> QED  BY <2>1, <3>1, <3>2
  <2>4. pc' \in [Id -> Pc] /\ no_more' \in [Id -> Nat]
    <3>1. CallIfDue(i, d.time, l)
      BY <1>9 DEF EnqueueDetection
    <3> QED  BY <2>1, <3>1 DEF CallIfDue, Goto
  <2> QED  BY <2>3, <2>4
<1>10. ASSUME NEW i \in Id, Flush(i) PROVE Types'
  <2>1. CASE buffered[i] = <<>>
    BY <1>0, <1>10, <2>1 DEF Flush, Goto
  <2>2. CASE buffered[i] # <<>>
    <3>1. Head(buffered[i]) \in Det /\ Tail(buffered[i]) \in Seq(Det)
      BY <2>2
    <3>2. EnqueueDetection(i, Head(buffered[i]), "flush")
      BY <1>10, <2>2 DEF Flush
    <3>3. /\ sync_time_last' \in Nat \cup {Early} /\ jobs' \in Seq(Job)
          /\ pc' \in [Id -> Pc] /\ no_more' \in [Id -> Nat]
      BY <1>9, <1>10, <3>1, <3>2 DEF Flush
    <3> QED  BY <1>0, <1>10, <2>2, <3>1, <3>3 DEF Flush
  <2> QED  BY <2>1, <2>2
<1>11. ASSUME NEW i \in Id, Emit(i) PROVE Types'
  <2>1. CASE found[i] = <<>>
    BY <1>0, <1>11, <2>1 DEF Emit, Goto
  <2>2. CASE found[i] # <<>>
    <3>1. found[i][1] \in Det
      BY <2>2
    <3>2. EnqueueDetection(i, found[i][1], "search")
      BY <1>11, <2>2 DEF Emit
    <3>3. /\ sync_time_last' \in Nat \cup {Early} /\ jobs' \in Seq(Job)
          /\ pc' \in [Id -> Pc] /\ no_more' \in [Id -> Nat]
      BY <1>9, <1>11, <3>1, <3>2 DEF Emit
    <3>4. found' \in [Id -> Seq(Det)]
      <4>1. <<>> \in Seq(Det) /\ found' = [found EXCEPT ![i] = <<>>]
        BY <1>11, <2>2 DEF Emit
      <4> QED  BY <4>1
    <3> QED  BY <1>0, <1>11, <2>2, <3>3, <3>4 DEF Emit
  <2> QED  BY <2>1, <2>2
<1>12. ASSUME NEW i \in Id, PopReport(i) PROVE Types'
  <2>1. reports[it_next] \in Nat
    BY <1>12, RoomForReport, ReportTimes DEF PopReport, QueueTypes
  <2>2. IrregularJob(reports[it_next], no_more[i]) \in Job
    BY <2>1 DEF IrregularJob, Job
  <2>3. jobs' \in Seq(Job)
    BY <1>12, <2>2 DEF PopReport, EnqueueJob
  <2> QED  BY <1>0, <1>12, <2>3 DEF PopReport, Goto, baton
<1>13. ASSUME NEW i \in Id, PassOn(i) PROVE Types'
  <2>1. chunk[i] \in Nat /\ ChunkEnd(chunk[i]) \in Int
    BY <1>13, Positions DEF PassOn, Active, Waiting
  <2>2. RegularReport(i) \in Job
    BY <2>1, ConstantTypes DEF RegularReport, RegularJob, Job
  <2>3. jobs' \in Seq(Job)
    BY <1>13, <2>2, Enqueued DEF PassOn, EnqueueRegularJob
  <2>4. id_holder' \in Id /\ chunk_done' \in Nat \cup {None} /\ pc' \in [Id -> Pc]
    BY <1>13, <2>1, SuccessorIs DEF PassOn, Goto
  <2> QED  BY <1>0, <1>13, <2>3, <2>4 DEF PassOn, search
<1>14. ASSUME NEW t \in ReportTime, PushReport(t) PROVE Types'
  BY <1>0, <1>14 DEF PushReport, baton, search, queue
<1>15. CASE Stop
  BY <1>0, <1>15 DEF Stop, baton, search, queue
<1>16. CASE Terminated
  BY <1>0, <1>16 DEF Terminated, vars, baton, search, queue
<1> QED  BY <1>1, <1>2, <1>3, <1>4, <1>5, <1>5a, <1>6, <1>7, <1>8, <1>10, <1>11, <1>12, <1>13, <1>14,
            <1>15, <1>16 DEF Next, WorkerStep

\* No worker acts before the last one has registered.
LEMMA AllRegisteredMeans ==
    ASSUME Core, AllRegistered
    PROVE  \A i \in Id : pc[i] # "warmup"
<1>1. Registered \subseteq Id /\ Cardinality(Registered) = N
  BY DEF Core, StartInv, AllRegistered, Registered
<1>2. Registered = Id
  BY <1>1, Threads, FS_Subset
<1> QED  BY <1>2 DEF Registered

\* A step of a thread other than the registration leaves the invariant alone.
LEMMA StartFrame ==
    ASSUME Core, NEW i \in Id, pc[i] # "warmup",
           \A j \in Id : pc[j] # "warmup",
           UNCHANGED <<register_cnt, register_now>>,
           \A j \in Id : j # i => pc'[j] = pc[j] /\ chunk'[j] = chunk[j],
           pc'[i] # "warmup", Active(i)' => chunk'[i] \in Nat
    PROVE  StartInv'
<1>1. Registered' = Registered /\ \A j \in Id : pc'[j] # "warmup"
  BY DEF Registered
<1>2. \A j \in Id : Active(j)' => chunk'[j] \in Nat
  BY DEF Active, Core, StartInv
<1> QED  BY <1>1, <1>2 DEF Core, StartInv

LEMMA StartRegister ==
    ASSUME Core, Types', NEW i \in Id, NEW s \in Start, Register(i, s)
    PROVE  StartInv'
<1>1. Registered' = Registered \cup {i} /\ i \notin Registered
  BY ZenonT(60) DEF Register, Goto, Registered, Core, Types
<1>2. IsFiniteSet(Registered)
  BY Threads, FS_Subset DEF Registered
<1>3. register_cnt' = Cardinality(Registered')
  BY <1>1, <1>2, FS_AddElement DEF Register, Core, StartInv
<1>4. register_now' \in Nat
  <2>1. s \in Nat
    BY SyncAssumption
  <2>2. CASE register_now < s
    BY <2>1, <2>2 DEF Register
  <2>3. CASE ~(register_now < s)
    <3>1. register_now \in Nat
      BY <2>1, <2>3, ConstantTypes DEF Core, Types
    <3> QED  BY <2>3, <3>1 DEF Register
  <2> QED  BY <2>2, <2>3
<1>5. \A j \in Id : ~Active(j)
  BY DEF Register, Core, StartInv
<1>6. \A j \in Id : ~Active(j)'
  BY <1>5 DEF Register, Goto, Active, Waiting, Core, Types
<1>7. ASSUME NEW j \in Id, pc'[j] = "warmup"
      PROVE  /\ ~permeable' /\ chunk_done' = None /\ id_holder' = 0 /\ jobs' = <<>> /\ detected' = {}
             /\ next_time' = Late /\ it_next' = None /\ \A u \in Slot : reports'[u] = Late
             /\ \A k \in Id : report'[k] = Late
  <2>1. register_cnt' # N
    <3>1. ASSUME register_cnt' = N PROVE FALSE
      <4>1. Registered' \subseteq Id /\ Cardinality(Registered') = N
        BY <1>3, <3>1 DEF Registered
      <4>2. Registered' = Id
        BY <4>1, Threads, FS_Subset
      <4> QED  BY <1>7, <4>2 DEF Registered
    <3> QED  BY <3>1
  <2>2. report' = report
    BY <2>1 DEF Register
  <2> QED  BY <2>2 DEF Register, Core, StartInv, irrq, queue
<1> QED  BY <1>3, <1>4, <1>6, <1>7 DEF StartInv

LEMMA StartStep ==
    ASSUME Core, Next
    PROVE  StartInv'
<1>0. Types'
  BY TypesStep
<1>1. ASSUME NEW i \in Id, NEW s \in Start, Register(i, s) PROVE StartInv'
  BY <1>0, <1>1, StartRegister
<1>2. ASSUME NEW i \in Id, Leave(i) PROVE StartInv'
  <2>1. \A j \in Id : pc[j] # "warmup"
    BY <1>2, AllRegisteredMeans DEF Leave
  <2>2. N * register_now + i \in Nat
    BY <1>2, Positions DEF Leave
  <2>3. /\ \A j \in Id : j # i => pc'[j] = pc[j] /\ chunk'[j] = chunk[j]
        /\ pc'[i] = "loop" /\ chunk'[i] = N * register_now + i
    BY <1>2 DEF Leave, Goto, Core, Types
  <2>4. UNCHANGED <<register_cnt, register_now>>
    BY <1>2 DEF Leave, baton
  <2>5. pc[i] # "warmup" /\ pc'[i] # "warmup" /\ chunk'[i] \in Nat
    BY <2>1, <2>2, <2>3
  <2>6. \A j \in Id : j # i => pc'[j] = pc[j] /\ chunk'[j] = chunk[j]
    BY <2>3
  <2> QED  BY <2>1, <2>4, <2>5, <2>6, StartFrame
<1>3. ASSUME NEW i \in Id, Active(i), UNCHANGED <<register_cnt, register_now>>,
             \A j \in Id : j # i => pc'[j] = pc[j] /\ chunk'[j] = chunk[j],
             pc'[i] # "warmup", chunk'[i] \in Nat
      PROVE  StartInv'
  <2>1. \A j \in Id : pc[j] # "warmup"
    BY <1>3 DEF Core, StartInv
  <2> QED  BY <1>3, <2>1, StartFrame
<1>4. ASSUME NEW i \in Id, Loop(i) PROVE StartInv'
  <2>1. Active(i) /\ chunk[i] \in Nat
    BY <1>4, Positions DEF Loop, Active, Waiting
  <2>2. chunk[i] + N \in Nat
    BY <2>1, ConstantTypes
  <2>3. \E l \in {"search", "exited"} : pc' = [pc EXCEPT ![i] = l]
    BY <1>4 DEF Loop, Goto
  <2>4. chunk' = chunk \/ \E c \in Nat : chunk' = [chunk EXCEPT ![i] = c]
    BY <1>4, <2>1, <2>2 DEF Loop
  <2>5. /\ \A j \in Id : j # i => pc'[j] = pc[j] /\ chunk'[j] = chunk[j]
        /\ pc'[i] # "warmup" /\ chunk'[i] \in Nat
    BY <2>1, <2>3, <2>4 DEF Core, Types
  <2>6. UNCHANGED <<register_cnt, register_now>>
    BY <1>4 DEF Loop, baton
  <2> QED  BY <1>3, <2>1, <2>5, <2>6
<1>4a. ASSUME NEW i \in Id, SearchAgain(i) PROVE StartInv'
  <2>1. Active(i) /\ chunk[i] \in Nat
    BY <1>4a, Positions DEF SearchAgain, Active, Waiting
  <2>2. chunk[i] + N \in Nat
    BY <2>1, ConstantTypes
  <2>3. /\ pc' = [pc EXCEPT ![i] = "search"] /\ chunk' = [chunk EXCEPT ![i] = chunk[i] + N]
        /\ UNCHANGED <<register_cnt, register_now>>
    BY <1>4a DEF SearchAgain, Goto, baton
  <2>4. /\ \A j \in Id : j # i => pc'[j] = pc[j] /\ chunk'[j] = chunk[j]
        /\ pc'[i] # "warmup" /\ chunk'[i] \in Nat
    BY <2>2, <2>3 DEF Core, Types
  <2> QED  BY <1>3, <2>1, <2>3, <2>4
<1>5. ASSUME NEW i \in Id,
             \/ Silence(i) \/ (\E e \in Error : Detect(i, e)) \/ EndOfSearch(i) \/ WaitTo(i)
             \/ WaitTimeout(i) \/ Flush(i) \/ Emit(i) \/ PopReport(i) \/ PassOn(i)
      PROVE  StartInv'
  <2>1. Active(i) /\ chunk[i] \in Nat
    <3>1. Active(i)
      BY <1>5 DEF Silence, Detect, SearchAgain, EndOfSearch, WaitTo, WaitTimeout, Flush, Emit, PopReport, PassOn,
                  Active, Waiting
    <3> QED  BY <3>1, Positions
  <2>2. chunk' = chunk /\ UNCHANGED <<register_cnt, register_now>>
    BY <1>5 DEF Silence, Detect, SearchAgain, EndOfSearch, WaitTo, WaitTimeout, Flush, Emit, PopReport, PassOn,
                baton, search
  <2>3. pc' = pc \/ \E l \in Pc \ Waiting : Goto(i, l)
    BY <1>5 DEF Silence, Detect, SearchAgain, EndOfSearch, WaitTo, WaitTimeout, Flush, Emit, PopReport, PassOn,
                CallIfDue, EnqueueDetection, Goto, Pc, Waiting
  <2>4. pc'[i] # "warmup" /\ \A j \in Id : j # i => pc'[j] = pc[j]
    BY <2>1, <2>3 DEF Goto, Active, Waiting, Core, Types
  <2> QED  BY <1>3, <2>1, <2>2, <2>4
<1>6. ASSUME NEW t \in ReportTime, PushReport(t) PROVE StartInv'
  <2>1. \A j \in Id : pc[j] # "warmup"
    BY <1>6 DEF PushReport, Core, StartInv
  <2>2. pc' = pc /\ UNCHANGED <<register_cnt, register_now, chunk>>
    BY <1>6 DEF PushReport, baton, search
  <2> QED  BY <2>1, <2>2 DEF Core, StartInv, Registered, Active
<1>7. CASE Stop \/ Terminated
  <2>1. UNCHANGED <<register_cnt, register_now, pc, chunk, permeable, chunk_done, id_holder, jobs,
                    detected, next_time, it_next, reports, report>>
    BY <1>7 DEF Stop, Terminated, vars, baton, irrq, search, queue
  <2> QED  BY <2>1 DEF Core, StartInv, Registered, Active
<1> QED  BY <1>1, <1>2, <1>4, <1>5, <1>6, <1>7, <1>4a DEF Next, WorkerStep

LEMMA SlotStep ==
    ASSUME Core, Next
    PROVE  SlotInv'
<1>0. Types' /\ QueueInv'
  BY TypesStep, QueueStep
<1>1. ASSUME Reserved' \subseteq Reserved, UNCHANGED reports PROVE SlotInv'
  BY <1>0, <1>1 DEF Core, SlotInv
<1>2. ASSUME NEW i \in Id, NEW s \in Start, Register(i, s) PROVE SlotInv'
  <2>1. /\ UNCHANGED reports /\ \A u \in Slot : reports[u] = Late
        /\ \A j \in Id : report[j] = Late
    BY <1>2 DEF Register, irrq, Core, StartInv
  <2>2. Reserved' \subseteq {i}
    <3>1. \A j \in Id : j # i => report'[j] = report[j]
      BY <1>2 DEF Register, Core, Types
    <3>2. \A j \in Id : j # i => report'[j] = Late
      BY <2>1, <3>1
    <3> QED  BY <3>2, ConstantTypes DEF Reserved
  <2>3. 1 \in Slot
    BY SyncAssumption DEF Slot
  <2> QED  BY <1>0, <2>1, <2>2, <2>3 DEF SlotInv
<1>3. ASSUME NEW i \in Id, Leave(i) PROVE SlotInv'
  <2>1. Reserved' = Reserved \ {i} /\ UNCHANGED report
    <3>1. UNCHANGED report /\ pc' = [pc EXCEPT ![i] = "loop"]
      BY <1>3 DEF Leave, Goto
    <3> QED  BY <3>1 DEF Reserved, Core, Types
  <2>2. CASE report[i] < Late
    <3>1. i \in Reserved
      BY <1>3, <2>2 DEF Leave, Reserved
    <3>2. Reserved' = {}
      BY <2>1, <3>1 DEF Core, SlotInv
    <3> QED  BY <1>0, <3>2 DEF SlotInv
  <2>3. CASE ~(report[i] < Late)
    BY <1>1, <1>3, <2>1, <2>3 DEF Leave, irrq
  <2> QED  BY <2>2, <2>3
<1>4. ASSUME NEW i \in Id,
             \/ Loop(i) \/ Silence(i) \/ (\E e \in Error : Detect(i, e)) \/ SearchAgain(i)
             \/ EndOfSearch(i) \/ WaitTo(i) \/ WaitTimeout(i) \/ Flush(i) \/ Emit(i) \/ PopReport(i) \/ PassOn(i)
      PROVE  Reserved' \subseteq Reserved
  <2>1. UNCHANGED report
    BY <1>4 DEF Loop, Silence, Detect, SearchAgain, EndOfSearch, WaitTo, WaitTimeout, Flush, Emit, PopReport, PassOn
  <2>2. pc' = pc \/ \E l \in Pc \ Waiting : pc' = [pc EXCEPT ![i] = l]
    BY <1>4 DEF Loop, Silence, Detect, SearchAgain, EndOfSearch, WaitTo, WaitTimeout, Flush, Emit, PopReport, PassOn,
                CallIfDue, EnqueueDetection, Goto, Pc, Waiting
  <2> QED  BY <2>1, <2>2 DEF Reserved, Waiting, Core, Types
<1>5. ASSUME NEW i \in Id,
             \/ Loop(i) \/ Silence(i) \/ (\E e \in Error : Detect(i, e)) \/ SearchAgain(i)
             \/ EndOfSearch(i) \/ WaitTo(i) \/ WaitTimeout(i) \/ Flush(i) \/ Emit(i) \/ PassOn(i)
      PROVE  SlotInv'
  <2>1. UNCHANGED reports
    BY <1>5 DEF Loop, Silence, Detect, SearchAgain, EndOfSearch, WaitTo, WaitTimeout, Flush, Emit, PassOn, irrq
  <2> QED  BY <1>1, <1>4, <1>5, <2>1
<1>6. ASSUME NEW i \in Id, PopReport(i) PROVE SlotInv'
  <2>1. Reserved' \subseteq Reserved
    BY <1>4, <1>6
  <2>2. it_next \in Slot /\ reports' = [reports EXCEPT ![it_next] = Late]
    BY <1>6, RoomForReport, PopStep DEF PopReport, Core, Types, SlotInv
  <2>3. reports'[it_next] = Late
    BY <2>2 DEF Core, Types, QueueTypes
  <2> QED  BY <1>0, <2>1, <2>2, <2>3 DEF Core, SlotInv
<1>7. ASSUME NEW t \in ReportTime, PushReport(t) PROVE SlotInv'
  <2> DEFINE F == {s \in Slot : reports[s] = Late}
  <2>1. Reserved' = Reserved
    BY <1>7 DEF PushReport, Reserved
  <2>2. ASSUME NEW i \in Reserved PROVE \E s \in Slot : reports'[s] = Late
    <3>1. IsFiniteSet(Reserved) /\ Cardinality(Reserved) \in Nat /\ Cardinality(Reserved) # 0
      <4>1. IsFiniteSet(Reserved)
        BY Threads, FS_Subset DEF Reserved
      <4> QED  BY <2>2, <4>1, FS_CardinalityType, FS_EmptySet
    <3>2. Cardinality(F) > Cardinality(Reserved)
      BY <1>7 DEF PushReport
    <3>3. IsFiniteSet(F) /\ Cardinality(F) \in Nat
      <4>1. 1 \in Int /\ NofSlots \in Int
        BY SyncAssumption
      <4>2. IsFiniteSet(Slot)
        BY <4>1, FS_Interval DEF Slot
      <4> QED  BY <4>2, FS_Subset, FS_CardinalityType
    <3>4. PICK f \in Slot : reports[f] = Late /\ reports' = [reports EXCEPT ![f] = t]
      BY <1>7, RoomForReport, PushStep DEF PushReport, Core, Types, SlotInv
    <3>5. f \in F /\ IsFiniteSet(F \ {f}) /\ Cardinality(F \ {f}) = Cardinality(F) - 1
      BY <3>3, <3>4, FS_RemoveElement
    <3>6. Cardinality(F \ {f}) # 0
      BY <3>1, <3>2, <3>3, <3>5
    <3>7. F \ {f} # {}
      BY <3>6, FS_EmptySet
    <3>8. PICK s \in F : s # f
      BY <3>7
    <3>9. reports'[s] = Late
      BY <3>4, <3>8 DEF Core, Types, QueueTypes
    <3> QED  BY <3>8, <3>9
  <2> QED  BY <1>0, <2>1, <2>2 DEF Core, SlotInv
<1>8. CASE Stop \/ Terminated
  <2>1. UNCHANGED <<reports, pc, report>>
    BY <1>8 DEF Stop, Terminated, vars, irrq
  <2> QED  BY <1>1, <2>1 DEF Reserved
<1> QED  BY <1>2, <1>3, <1>5, <1>6, <1>7, <1>8 DEF Next, WorkerStep

LEMMA BatonStep ==
    ASSUME Core, Next
    PROVE  BatonInv'
<1>0. Types' /\ QueueInv'
  BY TypesStep, QueueStep
<1> DEFINE Own(j) ==
        /\ pc[j] \in {"flush", "emit"} => has_baton[j]
        /\ pc[j] \in {"wait_to", "waiting", "again"} => ~has_baton[j]
        /\ pc[j] \in {"search", "flush", "emit", "pop"} /\ has_baton[j] => id_holder = j
        /\ pc[j] = "pop" => id_holder = j /\ next_time < Late /\ next_time <= no_more[j]
<1>00. \A j \in Id : Own(j)
  BY DEF Core, BatonInv
<1>1. ASSUME NEW i \in Id, Own(i)',
             \A j \in Id : j # i => /\ pc'[j] = pc[j] /\ has_baton'[j] = has_baton[j]
                                    /\ no_more'[j] = no_more[j],
             \/ UNCHANGED <<id_holder, next_time>>
             \/ id_holder = i
             \/ id_holder' = id_holder /\ next_time' <= next_time
      PROVE  BatonInv'
  <2>1. ASSUME NEW j \in Id, j # i PROVE Own(j)'
    <3>1. next_time \in Nat /\ next_time' \in Nat /\ no_more[j] \in Nat
      BY <1>0, ReportTimes DEF Core, Types, QueueTypes
    <3> QED  BY <1>00, <1>1, <2>1, <3>1, ConstantTypes
  <2>2. \A j \in Id : Own(j)'
    BY <1>1, <2>1
  <2> QED  BY <2>2 DEF BatonInv
<1> HIDE DEF Own
<1>2. ASSUME NEW i \in Id, NEW n \in Nat, NEW l \in {"search", "flush"}, CallIfDue(i, n, l),
             has_baton' = has_baton, UNCHANGED <<id_holder, next_time>>,
             has_baton[i] => id_holder = i, l = "flush" => has_baton[i]
      PROVE  BatonInv'
  <2>1. /\ pc' = [pc EXCEPT ![i] = IF Due(i, n) THEN "pop" ELSE l]
        /\ no_more' = IF Due(i, n) THEN [no_more EXCEPT ![i] = n] ELSE no_more
    BY <1>2 DEF CallIfDue, Goto
  <2>2. \A j \in Id : j # i => pc'[j] = pc[j] /\ has_baton'[j] = has_baton[j] /\ no_more'[j] = no_more[j]
    BY <1>2, <2>1 DEF Core, Types
  <2>3. Own(i)'
    BY <1>2, <2>1 DEF Core, Types, Own, Due
  <2> QED  BY <1>1, <1>2, <2>2, <2>3
<1>3. ASSUME NEW i \in Id, NEW l \in Pc \ {"pop"}, pc' = [pc EXCEPT ![i] = l] \/ (pc' = pc /\ pc[i] = l),
             UNCHANGED <<has_baton, no_more>>,
             \/ UNCHANGED <<id_holder, next_time>>
             \/ id_holder = i
             \/ id_holder' = id_holder /\ next_time' <= next_time,
             l \in {"flush", "emit"} => has_baton[i],
             l \in {"wait_to", "waiting", "again"} => ~has_baton[i],
             l \in {"search", "flush", "emit"} /\ has_baton[i] => id_holder' = i
      PROVE  BatonInv'
  <2>1. pc'[i] = l /\ \A j \in Id : j # i => pc'[j] = pc[j]
    BY <1>3 DEF Core, Types
  <2>2. Own(i)'
    BY <1>3, <2>1 DEF Own
  <2> QED  BY <1>1, <1>3, <2>1, <2>2
<1>4. ASSUME NEW i \in Id, NEW s \in Start, Register(i, s) PROVE BatonInv'
  <2>1. /\ pc' = [pc EXCEPT ![i] = "registered"] /\ "registered" \in Pc \ {"pop"}
        /\ UNCHANGED <<has_baton, no_more, id_holder, next_time>>
    BY <1>4 DEF Register, Goto, Pc, irrq, search
  <2> QED  BY <1>3, <2>1
<1>5. ASSUME NEW i \in Id, Leave(i) PROVE BatonInv'
  <2>1. next_time' <= next_time \/ next_time' = next_time
    BY <1>5, PushStep, RoomForReport DEF Leave, irrq, Core, Types, SlotInv
  <2>2. /\ pc' = [pc EXCEPT ![i] = "loop"] /\ "loop" \in Pc \ {"pop"}
        /\ UNCHANGED <<has_baton, no_more, id_holder>>
    BY <1>5 DEF Leave, Goto, Pc, baton
  <2> QED  BY <1>3, <2>1, <2>2
<1>6. ASSUME NEW i \in Id, Loop(i) PROVE BatonInv'
  <2>1. CASE keep_running
    <3>1. /\ pc' = [pc EXCEPT ![i] = "search"] /\ has_baton' = [has_baton EXCEPT ![i] = FALSE]
          /\ UNCHANGED <<no_more, id_holder, next_time>>
      BY <1>6, <2>1 DEF Loop, Goto, baton, irrq
    <3>2. Own(i)' /\ \A j \in Id : j # i => pc'[j] = pc[j] /\ has_baton'[j] = has_baton[j]
      BY <3>1 DEF Own, Core, Types
    <3> QED  BY <1>1, <3>1, <3>2
  <2>2. CASE ~keep_running
    BY <1>3, <1>6, <2>2 DEF Loop, Goto, Pc, baton, irrq
  <2> QED  BY <2>1, <2>2
<1>7. ASSUME NEW i \in Id, Silence(i) PROVE BatonInv'
  <2>1. Now(i) + 1 \in Nat
    BY <1>7, Positions DEF Silence, Active, Waiting
  <2>2. has_baton[i] => id_holder = i
    BY <1>00, <1>7 DEF Silence, Own
  <2> QED  BY <1>2, <1>7, <2>1, <2>2 DEF Silence, baton, irrq
<1>8. ASSUME NEW i \in Id, NEW e \in Error, Detect(i, e) PROVE BatonInv'
  <2>1. pc[i] = "search" /\ (has_baton[i] => id_holder = i)
    BY <1>00, <1>8 DEF Detect, Own
  <2>2. UNCHANGED <<has_baton, no_more, id_holder, next_time>>
    BY <1>8 DEF Detect, baton, irrq
  <2>3. \E l \in {"again", "search", "emit", "wait_to"} :
            /\ pc' = [pc EXCEPT ![i] = l]
            /\ l \in {"wait_to", "again"} => ~has_baton[i]
            /\ l = "emit" => has_baton[i]
    BY <1>8 DEF Detect, KeepSearching, Goto
  <2> QED  BY <1>3, <2>1, <2>2, <2>3 DEF Pc
<1>8a. ASSUME NEW i \in Id, SearchAgain(i) PROVE BatonInv'
  <2>1. pc' = [pc EXCEPT ![i] = "search"] /\ "search" \in Pc \ {"pop"} /\ ~has_baton[i]
    BY <1>00, <1>8a DEF SearchAgain, Goto, Pc, Own
  <2>2. UNCHANGED <<has_baton, no_more, id_holder, next_time>>
    BY <1>8a DEF SearchAgain, baton, irrq
  <2> QED  BY <1>3, <2>1, <2>2
<1>9. ASSUME NEW i \in Id, EndOfSearch(i) \/ WaitTimeout(i) PROVE BatonInv'
  <2>1. UNCHANGED <<has_baton, no_more, id_holder, next_time>>
    BY <1>9 DEF EndOfSearch, WaitTimeout, baton, irrq, search
  <2>2. CASE EndOfSearch(i)
    <3>1. pc' = [pc EXCEPT ![i] = "wait_to"] /\ "wait_to" \in Pc \ {"pop"} /\ ~has_baton[i]
      BY <2>2 DEF EndOfSearch, Goto, Pc
    <3> QED  BY <1>3, <2>1, <3>1
  <2>3. CASE WaitTimeout(i)
    <3>1. pc' = [pc EXCEPT ![i] = "exited"] /\ "exited" \in Pc \ {"pop"}
      BY <2>3 DEF WaitTimeout, Goto, Pc
    <3> QED  BY <1>3, <2>1, <3>1
  <2> QED  BY <1>9, <2>2, <2>3
<1>10. ASSUME NEW i \in Id, WaitTo(i) PROVE BatonInv'
  <2>1. UNCHANGED <<no_more, id_holder, next_time>>
    BY <1>10 DEF WaitTo, baton, irrq
  <2>2. CASE id_holder = i
    <3>1. pc' = [pc EXCEPT ![i] = "flush"] /\ has_baton' = [has_baton EXCEPT ![i] = TRUE]
      BY <1>10, <2>2 DEF WaitTo, Goto
    <3>2. Own(i)' /\ \A j \in Id : j # i => /\ pc'[j] = pc[j] /\ has_baton'[j] = has_baton[j]
                                           /\ no_more'[j] = no_more[j]
      BY <2>1, <2>2, <3>1 DEF Own, Core, Types
    <3> QED  BY <1>1, <2>1, <3>1, <3>2
  <2>3. CASE id_holder # i
    <3>1. pc' = [pc EXCEPT ![i] = "waiting"] /\ has_baton' = has_baton /\ ~has_baton[i]
      BY <1>00, <1>10, <2>3 DEF WaitTo, Goto, Own
    <3>2. "waiting" \in Pc \ {"pop"}
      BY DEF Pc
    <3> QED  BY <1>3, <2>1, <3>1, <3>2
  <2> QED  BY <2>2, <2>3
<1>11. ASSUME NEW i \in Id, Flush(i) PROVE BatonInv'
  <2>1. has_baton[i] /\ id_holder = i /\ pc[i] = "flush"
    BY <1>00, <1>11 DEF Flush, Own
  <2>2. UNCHANGED <<has_baton, id_holder, next_time>>
    BY <1>11 DEF Flush, irrq
  <2>3. CASE buffered[i] = <<>>
    BY <1>3, <1>11, <2>1, <2>2, <2>3 DEF Flush, Goto, Pc
  <2>4. CASE buffered[i] # <<>>
    <3>1. Head(buffered[i]) \in Det
      BY <2>4 DEF Core, Types
    <3>2. Head(buffered[i]).time \in Nat
      BY <3>1 DEF Det
    <3>3. CallIfDue(i, Head(buffered[i]).time, "flush")
      BY <1>11, <2>4 DEF Flush, EnqueueDetection
    <3> QED  BY <1>2, <2>1, <2>2, <3>2, <3>3
  <2> QED  BY <2>3, <2>4
<1>12. ASSUME NEW i \in Id, Emit(i) PROVE BatonInv'
  <2>1. has_baton[i] /\ id_holder = i /\ pc[i] = "emit"
    BY <1>00, <1>12 DEF Emit, Own
  <2>2. UNCHANGED <<has_baton, id_holder, next_time>>
    BY <1>12 DEF Emit, irrq
  <2>3. CASE found[i] = <<>>
    BY <1>3, <1>12, <2>1, <2>2, <2>3 DEF Emit, Goto, Pc
  <2>4. CASE found[i] # <<>>
    <3>1. found[i][1] \in Det
      BY <2>4 DEF Core, Types
    <3>2. found[i][1].time \in Nat
      BY <3>1 DEF Det
    <3>3. CallIfDue(i, found[i][1].time, "search")
      BY <1>12, <2>4 DEF Emit, EnqueueDetection
    <3> QED  BY <1>2, <2>1, <2>2, <3>2, <3>3
  <2> QED  BY <2>3, <2>4
<1>13. ASSUME NEW i \in Id, PopReport(i) PROVE BatonInv'
  <2>1. pc[i] = "pop" /\ id_holder = i /\ id_holder' = id_holder /\ has_baton' = has_baton
    BY <1>00, <1>13 DEF PopReport, Own, baton
  <2>2. /\ \E l \in {"flush", "emit", "search"} :
                pc' = [pc EXCEPT ![i] = l] /\ (l \in {"flush", "emit"} => has_baton[i])
        /\ no_more' = [no_more EXCEPT ![i] = 0]
    BY <1>13 DEF PopReport, Goto
  <2>3. Own(i)' /\ \A j \in Id : j # i => /\ pc'[j] = pc[j] /\ has_baton'[j] = has_baton[j]
                                         /\ no_more'[j] = no_more[j]
    BY <2>1, <2>2 DEF Own, Core, Types
  <2> QED  BY <1>1, <2>1, <2>3
<1>14. ASSUME NEW i \in Id, PassOn(i) PROVE BatonInv'
  <2>1. id_holder = i
    BY <1>00, <1>14 DEF PassOn, Own
  <2>2. /\ \E l \in {"loop", "failed"} : pc' = [pc EXCEPT ![i] = l]
        /\ {"loop", "failed"} \subseteq Pc \ {"pop"}
        /\ UNCHANGED <<has_baton, no_more>>
    BY <1>14 DEF PassOn, Goto, Pc, search
  <2> QED  BY <1>3, <2>1, <2>2
<1>15. ASSUME NEW t \in ReportTime, PushReport(t) PROVE BatonInv'
  <2>1. next_time' <= next_time
    BY <1>15, PushStep, RoomForReport DEF PushReport, Core, Types, SlotInv
  <2>2. UNCHANGED <<pc, has_baton, no_more, id_holder>>
    BY <1>15 DEF PushReport, baton, search
  <2>3. next_time \in Nat /\ next_time' \in Nat /\ \A j \in Id : no_more[j] \in Nat
    BY <1>0, ReportTimes DEF Core, Types, QueueTypes
  <2> QED  BY <2>1, <2>2, <2>3, ConstantTypes DEF Core, BatonInv
<1>16. CASE Stop \/ Terminated
  <2>1. UNCHANGED <<pc, has_baton, no_more, id_holder, next_time>>
    BY <1>16 DEF Stop, Terminated, vars, baton, search, irrq
  <2> QED  BY <2>1 DEF Core, BatonInv
<1> QED  BY <1>4, <1>5, <1>6, <1>7, <1>8, <1>9, <1>10, <1>11, <1>12, <1>13, <1>14, <1>15, <1>16,
            <1>8a DEF Next, WorkerStep

LEMMA CoreStep ==
    ASSUME Core, [Next]_vars
    PROVE  Core'
<1>1. CASE Next
  <2>1. Gaps'
    <3>1. UNCHANGED packets
      BY <1>1, ZenonT(60) DEF Next, WorkerStep, Register, Leave, Loop, Silence, Detect, SearchAgain, EndOfSearch, WaitTo, WaitTimeout,
                  Flush, Emit, PopReport, PassOn, PushReport, Stop, Terminated, vars
    <3> QED  BY <3>1 DEF Core, Gaps
  <2> QED  BY <1>1, <2>1, TypesStep, StartStep, SlotStep, BatonStep DEF Core
<1>2. CASE UNCHANGED vars
  <2>2. Types' /\ Gaps'
    BY <1>2 DEF Core, Types, QueueTypes, Gaps, vars, baton, irrq, search, queue
  <2>3. StartInv'
    BY <1>2 DEF Core, StartInv, Registered, Active, vars, baton, irrq, search, queue
  <2>4. SlotInv' /\ BatonInv'
    BY <1>2 DEF Core, SlotInv, QueueInv, Reserved, BatonInv, vars, baton, irrq, search, queue
  <2> QED  BY <2>2, <2>3, <2>4 DEF Core
<1> QED  BY <1>1, <1>2

-----------------------------------------------------------------------------
(* The order of the chunks *)

LEMMA DistanceTypes ==
    ASSUME Core, NEW i \in Id
    PROVE  /\ Distance(i) \in 0 .. N - 1 /\ (Distance(i) = 0 <=> i = id_holder)
           /\ CurrentChunk \in Int
<1>1. i \in Nat /\ i < N /\ id_holder \in Nat /\ id_holder < N /\ N \in Nat
  BY ConstantTypes DEF Core, Types
<1>2. CurrentChunk \in Int
  BY <1>1, ConstantTypes DEF CurrentChunk, Core, Types
<1> QED  BY <1>1, <1>2 DEF Distance

LEMMA TurnTypes ==
    ASSUME Core, NEW i \in Id
    PROVE  /\ Turn(i) \in Int /\ Turn(i) >= CurrentChunk /\ ChunkStart(Turn(i)) \in Int
           /\ i = id_holder => Turn(i) = CurrentChunk
           /\ i # id_holder => Turn(i) > CurrentChunk
<1>1. Distance(i) \in 0 .. N - 1 /\ (Distance(i) = 0 <=> i = id_holder) /\ CurrentChunk \in Int
  BY DistanceTypes
<1>2. N \in Nat
  BY ConstantTypes
<1>3. Turn(i) \in Int
  BY <1>1, <1>2 DEF Turn
<1>4. ChunkStart(Turn(i)) \in Int
  BY <1>3, ChunkTimes
<1> QED  BY <1>1, <1>2, <1>3, <1>4 DEF Turn

\* A thread works on the chunk of its turn or on a later one.
LEMMA ChunkFrom ==
    ASSUME Core, ChunkInv, NEW i \in Id, Active(i), pc[i] \notin {"exited", "loop"}
    PROVE  /\ chunk[i] >= Turn(i) /\ ChunkStart(chunk[i]) >= ChunkStart(Turn(i))
           /\ chunk_done = None /\ i = 0 => chunk[i] = Turn(i)
<1>1. NextChunk(i) = chunk[i] /\ chunk[i] \in Int /\ Turn(i) \in Int
  BY Positions, TurnTypes DEF NextChunk
<1>2. chunk[i] >= Turn(i) /\ (chunk_done = None /\ i = 0 => chunk[i] = Turn(i))
  BY <1>1 DEF ChunkInv, InTurn
<1>3. ChunkStart(chunk[i]) \in Int /\ ChunkStart(Turn(i)) \in Int
  BY <1>1, ChunkTimes
<1>4. CASE chunk[i] = Turn(i)
  BY <1>2, <1>3, <1>4
<1>5. CASE Turn(i) < chunk[i]
  BY <1>1, <1>2, <1>3, <1>5, ChunkOrder, ConstantTypes
<1> QED  BY <1>1, <1>2, <1>4, <1>5

\* If the assertion holds for the holder, it is at the chunk of its turn.
LEMMA AtCurrentChunk ==
    ASSUME Core, ChunkInv, NEW i \in Id, id_holder = i, Active(i), pc[i] \notin {"exited", "loop"},
           Continuous(i)
    PROVE  chunk[i] = CurrentChunk
<1>1. Turn(i) = CurrentChunk /\ CurrentChunk \in Int /\ chunk[i] \in Int
  BY TurnTypes, DistanceTypes, Positions
<1>2. CASE chunk_done = None
  <2>1. i = 0
    BY <1>2 DEF ChunkInv
  <2> QED  BY <1>1, <1>2, <2>1, ChunkFrom
<1>3. CASE chunk_done # None
  <2>1. chunk_done \in Nat /\ CurrentChunk = chunk_done + 1
    BY <1>3 DEF CurrentChunk, Core, Types
  <2>2. /\ ChunkStart(chunk[i]) - ChunkEnd(chunk_done) = 1
        /\ ChunkEnd(chunk_done) = ChunkStart(chunk_done) + A - 1
        /\ ChunkStart(chunk_done + 1) = ChunkStart(chunk_done) + A
        /\ ChunkStart(chunk_done) \in Int /\ ChunkStart(chunk[i]) \in Int
    BY <1>1, <1>3, <2>1, ChunkTimes DEF Continuous
  <2>3. ChunkStart(chunk[i]) = ChunkStart(CurrentChunk)
    BY <2>1, <2>2, ConstantTypes
  <2>4. ~(CurrentChunk < chunk[i])
    BY <1>1, <2>2, <2>3, ChunkOrder, ConstantTypes
  <2>5. chunk[i] >= CurrentChunk
    BY <1>1, ChunkFrom
  <2> QED  BY <1>1, <2>4, <2>5
<1> QED  BY <1>2, <1>3

LEMMA ChunkFrame ==
    ASSUME Core, ChunkInv, NEW i \in Id,
           UNCHANGED <<register_now, id_holder, chunk_done>>,
           permeable => permeable', i = 0 /\ Active(i)' => permeable',
           ~Active(i)' => pos'[i] = 0,
           pc'[i] # "exited" => NextChunk(i)' >= Turn(i),
           InTurn(i)' => NextChunk(i)' = Turn(i),
           pc'[i] = "again" => N > 1 /\ ~(chunk_done = None /\ i = 0),
           \A j \in Id : j # i => pc'[j] = pc[j] /\ chunk'[j] = chunk[j] /\ pos'[j] = pos[j]
    PROVE  ChunkInv'
<1>1. \A j \in Id : Turn(j)' = Turn(j)
  BY DEF Turn, CurrentChunk, Distance
<1>2. \A j \in Id : j # i => /\ NextChunk(j)' = NextChunk(j) /\ (Active(j)' <=> Active(j))
                             /\ (InTurn(j)' <=> InTurn(j)) /\ pc'[j] = pc[j]
  BY DEF NextChunk, Active, Completed, InTurn
<1>3. \A j \in Id : pc'[j] # "exited" => NextChunk(j)' >= Turn(j)'
  BY <1>1, <1>2 DEF ChunkInv
<1>4. \A j \in Id : InTurn(j)' => NextChunk(j)' = Turn(j)'
  BY <1>1, <1>2 DEF ChunkInv
<1>5. \A j \in Id : pc'[j] = "again" => N > 1 /\ ~(chunk_done' = None /\ j = 0)
  BY <1>2 DEF ChunkInv
<1>6. Active(0)' => permeable'
  BY <1>2, ConstantTypes DEF ChunkInv
<1>7. \A j \in Id : ~Active(j)' => pos'[j] = 0
  BY <1>2 DEF ChunkInv
<1> QED  BY <1>3, <1>4, <1>5, <1>6, <1>7 DEF ChunkInv

\* A step within a chunk, and one from the turn of a thread into its chunk.
LEMMA ChunkSame ==
    ASSUME Core, ChunkInv, NEW i \in Id,
           UNCHANGED <<register_now, id_holder, chunk_done>>,
           permeable => permeable', i = 0 /\ Active(i)' => permeable',
           ~Active(i)' => pos'[i] = 0,
           pc'[i] # "exited" => pc[i] # "exited" /\ NextChunk(i)' = NextChunk(i),
           pc'[i] \in Waiting \cup {"loop"} => pc[i] \in Waiting,
           pc'[i] = "again" => N > 1 /\ ~(chunk_done = None /\ i = 0),
           \A j \in Id : j # i => pc'[j] = pc[j] /\ chunk'[j] = chunk[j] /\ pos'[j] = pos[j]
    PROVE  ChunkInv'
<1>1. pc'[i] # "exited" => NextChunk(i)' >= Turn(i)
  BY DEF ChunkInv
<1>2. InTurn(i)' => NextChunk(i)' = Turn(i)
  <2>1. InTurn(i)' => InTurn(i) /\ pc'[i] # "exited"
    BY DEF InTurn, Waiting
  <2> QED  BY <2>1 DEF ChunkInv
<1> QED  BY <1>1, <1>2, ChunkFrame

LEMMA ChunkRegister ==
    ASSUME Core, Core', ChunkInv, NEW i \in Id, NEW s \in Start, Register(i, s)
    PROVE  ChunkInv'
<1>1. /\ \A j \in Id : ~Active(j)
      /\ chunk_done = None /\ id_holder = 0
  BY DEF Register, Core, StartInv
<1>2. \A j \in Id : ~Active(j)'
  BY <1>1 DEF Register, Goto, Active, Waiting, Core, Types
<1>3. chunk_done' = None /\ id_holder' = 0 /\ pos' = pos
  BY <1>1 DEF Register, search
<1>4. \A j \in Id : NextChunk(j)' = N * register_now' + j /\ Distance(j)' = j
  BY <1>2, <1>3, ConstantTypes DEF NextChunk, Distance
<1>5. CurrentChunk' = N * register_now'
  BY <1>3 DEF CurrentChunk
<1>6. \A j \in Id : NextChunk(j)' = Turn(j)'
  BY <1>4, <1>5 DEF Turn
<1>7. \A j \in Id : NextChunk(j)' >= Turn(j)' /\ pc'[j] # "again"
  <2>1. \A j \in Id : Turn(j)' \in Int
    <3>1. register_now' \in Int
      BY ConstantTypes DEF Core, Types
    <3> QED  BY <1>4, <1>5, <3>1, ConstantTypes DEF Turn
  <2> QED  BY <1>2, <1>6, <2>1 DEF Active, Waiting
<1> QED  BY <1>1, <1>2, <1>3, <1>6, <1>7, ConstantTypes DEF ChunkInv

\* The chunk of the holder is done, and its turn comes again after all others.
LEMMA TurnPassesOn ==
    ASSUME Core, ChunkInv, NEW i \in Id, PassOn(i), Continuous(i)
    PROVE  /\ id_holder = i /\ chunk[i] = CurrentChunk /\ CurrentChunk' = CurrentChunk + 1
           /\ Turn(i)' = CurrentChunk + N /\ \A j \in Id : j # i => Turn(j)' = Turn(j)
<1>1. id_holder = i /\ Active(i) /\ pc[i] = "search"
  BY DEF PassOn, Core, BatonInv, Active, Waiting
<1>2. chunk[i] = CurrentChunk /\ chunk[i] \in Nat
  BY <1>1, AtCurrentChunk, Positions
<1>3. chunk_done' = chunk[i] /\ id_holder' = Successor
  BY DEF PassOn
<1>4. CurrentChunk' = CurrentChunk + 1
  BY <1>2, <1>3, ConstantTypes DEF CurrentChunk
<1>5. Distance(i)' = N - 1 /\ \A j \in Id : j # i => Distance(j)' = Distance(j) - 1
  <2>1. i \in Nat /\ i < N /\ N \in Nat
    BY ConstantTypes
  <2>2. id_holder' = IF i + 1 = N THEN 0 ELSE i + 1
    BY <1>1, <1>3, SuccessorIs
  <2>3. Distance(i)' = N - 1
    BY <2>1, <2>2 DEF Distance
  <2>4. ASSUME NEW j \in Id, j # i PROVE Distance(j)' = Distance(j) - 1
    <3>1. j \in Nat /\ j < N
      BY ConstantTypes
    <3> QED  BY <1>1, <2>1, <2>2, <2>4, <3>1 DEF Distance
  <2> QED  BY <2>3, <2>4
<1>6. Turn(i)' = CurrentChunk + N
  <2>1. N \in Nat /\ CurrentChunk \in Int
    BY ConstantTypes, DistanceTypes
  <2> QED  BY <1>4, <1>5, <2>1 DEF Turn
<1>7. ASSUME NEW j \in Id, j # i PROVE Turn(j)' = Turn(j)
  <2>1. Distance(j) \in Int /\ CurrentChunk \in Int
    BY DistanceTypes
  <2> QED  BY <1>4, <1>5, <1>7, <2>1 DEF Turn
<1> QED  BY <1>1, <1>2, <1>4, <1>6, <1>7

LEMMA ChunkPassOn ==
    ASSUME Core, Core', ChunkInv, NEW i \in Id, PassOn(i)
    PROVE  ChunkInv'
<1>1. id_holder = i /\ Active(i) /\ pc[i] = "search" /\ Completed(i)
  BY DEF PassOn, Core, BatonInv, Active, Waiting
<1>2. UNCHANGED <<permeable, chunk, pos, register_now>>
  BY DEF PassOn, search
<1>3. permeable
  <2>1. chunk_done = None => i = 0
    BY <1>1 DEF ChunkInv
  <2> QED  BY <1>1, <2>1 DEF ChunkInv
<1>4. CASE Continuous(i)
  <2>1. /\ chunk_done' = chunk[i] /\ chunk'[i] = chunk[i] /\ chunk[i] \in Nat
        /\ pc'[i] = "loop" /\ \A j \in Id : j # i => pc'[j] = pc[j]
    BY <1>1, <1>2, <1>4, Positions DEF PassOn, Goto, Core, Types
  <2>2. chunk_done' # None /\ \A j \in Id : Active(j)' <=> Active(j)
    BY <1>1, <2>1, ConstantTypes DEF Active, Waiting
  <2>3. NextChunk(i)' = Turn(i)'
    <3>1. Completed(i)' /\ Active(i)'
      BY <1>1, <1>2, <2>2 DEF Completed
    <3>2. NextChunk(i)' = chunk[i] + N
      BY <2>1, <3>1 DEF NextChunk
    <3> QED  BY <1>4, <3>2, TurnPassesOn
  <2>4. \A j \in Id : j # i => NextChunk(j)' = NextChunk(j) /\ Turn(j)' = Turn(j)
    BY <1>2, <1>4, <2>1, <2>2, TurnPassesOn DEF NextChunk, Completed
  <2>5. Turn(i)' \in Int
    BY <1>4, TurnPassesOn, DistanceTypes, ConstantTypes
  <2>6. \A j \in Id : pc'[j] # "exited" => NextChunk(j)' >= Turn(j)'
    BY <2>1, <2>3, <2>4, <2>5 DEF ChunkInv
  <2>7. \A j \in Id : InTurn(j)' => NextChunk(j)' = Turn(j)'
    BY <2>1, <2>2, <2>3, <2>4 DEF ChunkInv, InTurn
  <2>8. \A j \in Id : ~Active(j)' => pos'[j] = 0
    BY <1>2, <2>2 DEF ChunkInv
  <2>9. \A j \in Id : pc'[j] = "again" => N > 1
    BY <2>1 DEF ChunkInv
  <2> QED  BY <1>2, <1>3, <2>2, <2>6, <2>7, <2>8, <2>9 DEF ChunkInv
<1>5. CASE ~Continuous(i)
  <2>1. /\ UNCHANGED <<chunk_done, id_holder>> /\ pc'[i] = "failed"
        /\ \A j \in Id : j # i => pc'[j] = pc[j]
    BY <1>5 DEF PassOn, Goto, Core, Types
  <2>2. Active(i)' /\ NextChunk(i)' = NextChunk(i)
    BY <1>1, <1>2, <2>1 DEF Active, Waiting, NextChunk
  <2> QED  BY <1>1, <1>2, <1>3, <2>1, <2>2, ChunkSame DEF Waiting
<1> QED  BY <1>4, <1>5

\* search() goes on with the next chunk of the thread: a later one than that of its turn,
\* and behind all the thread has searched, for chunks are not shorter than overlaps.
LEMMA LaterChunk ==
    ASSUME Core, ChunkInv, NEW i \in Id, SearchAgain(i)
    PROVE  /\ chunk'[i] = chunk[i] + N /\ pos'[i] = 0 /\ pc'[i] = "search"
           /\ \A j \in Id : j # i => pc'[j] = pc[j] /\ chunk'[j] = chunk[j] /\ pos'[j] = pos[j]
           /\ chunk'[i] >= Turn(i) /\ Now(i) <= Now(i)'
<1>1. /\ pc[i] = "again" /\ chunk[i] \in Nat /\ N \in Nat /\ N > 1 /\ A \in Nat /\ B \in Nat /\ B <= A
  BY Positions, ConstantTypes, SyncAssumption DEF SearchAgain, Active, Waiting, ChunkInv
<1>2. /\ chunk'[i] = chunk[i] + N /\ pos'[i] = 0 /\ pc'[i] = "search"
      /\ \A j \in Id : j # i => pc'[j] = pc[j] /\ chunk'[j] = chunk[j] /\ pos'[j] = pos[j]
  BY DEF SearchAgain, Goto, Core, Types
<1>3. chunk[i] >= Turn(i) /\ Turn(i) \in Int
  BY <1>1, ChunkFrom, TurnTypes DEF Active, Waiting
<1>4. chunk'[i] >= Turn(i)
  BY <1>1, <1>2, <1>3
<1>5. ChunkStart(chunk[i] + 1) + A <= ChunkStart(chunk[i] + N) /\ ChunkStart(chunk[i] + N) \in Int
  <2>1. chunk[i] + 1 \in Int /\ chunk[i] + N \in Int /\ chunk[i] + 1 < chunk[i] + N
    BY <1>1
  <2> QED  BY <2>1, ChunkOrder, ChunkTimes
<1>6. ChunkStart(chunk[i] + 1) = ChunkStart(chunk[i]) + A
  BY <1>1, ChunkTimes
<1>7. Now(i) <= ChunkStart(chunk[i]) + A + B /\ Now(i) \in Int /\ ChunkStart(chunk[i]) \in Int
  BY <1>1, Positions
<1>8. Now(i)' = ChunkStart(chunk[i] + N)
  BY <1>2, <1>5 DEF Now, ChunkStart
<1> QED  BY <1>1, <1>2, <1>4, <1>5, <1>6, <1>7, <1>8

LEMMA ChunkStep ==
    ASSUME Core, Core', ChunkInv, [Next]_vars
    PROVE  ChunkInv'
<1>1. ASSUME NEW i \in Id, NEW s \in Start, Register(i, s) PROVE ChunkInv'
  BY <1>1, ChunkRegister
<1>2. ASSUME NEW i \in Id, Leave(i) PROVE ChunkInv'
  <2>1. /\ pc[i] = "registered" /\ pc' = [pc EXCEPT ![i] = "loop"] /\ pos' = pos
        /\ chunk' = [chunk EXCEPT ![i] = N * register_now + i]
        /\ permeable' = (permeable \/ i = 0) /\ UNCHANGED <<register_now, id_holder, chunk_done>>
    BY <1>2 DEF Leave, Goto, baton
  <2>2. /\ pc'[i] = "loop" /\ chunk'[i] = N * register_now + i
        /\ \A j \in Id : j # i => pc'[j] = pc[j] /\ chunk'[j] = chunk[j] /\ pos'[j] = pos[j]
    BY <2>1 DEF Core, Types
  <2>3. ~Active(i) /\ Active(i)' /\ pos[i] = 0 /\ ~Completed(i)'
    BY <2>1, <2>2, ConstantTypes DEF Active, Waiting, ChunkInv, Completed
  <2>4. NextChunk(i)' = NextChunk(i)
    BY <2>2, <2>3 DEF NextChunk
  <2>5. /\ permeable => permeable'
        /\ i = 0 /\ Active(i)' => permeable'
        /\ ~Active(i)' => pos'[i] = 0 /\ pc[i] # "exited"
    BY <2>1, <2>3
  <2> QED  BY <2>1, <2>2, <2>4, <2>5, ChunkSame DEF Waiting
<1>3. ASSUME NEW i \in Id, Loop(i) PROVE ChunkInv'
  <2>1. /\ pc[i] = "loop" /\ Active(i) /\ UNCHANGED <<register_now, id_holder, chunk_done, permeable>>
    BY <1>3 DEF Loop, Active, Waiting, baton, queue
  <2>2. CASE keep_running
    <3>1. /\ pc' = [pc EXCEPT ![i] = "search"] /\ pos' = [pos EXCEPT ![i] = 0]
          /\ chunk' = [chunk EXCEPT ![i] = NextChunk(i)]
      BY <1>3, <2>1, <2>2 DEF Loop, Goto, NextChunk
    <3>2. /\ pc'[i] = "search" /\ chunk'[i] = NextChunk(i)
          /\ \A j \in Id : j # i => pc'[j] = pc[j] /\ chunk'[j] = chunk[j] /\ pos'[j] = pos[j]
      BY <3>1 DEF Core, Types
    <3>3. Active(i)' /\ NextChunk(i)' = NextChunk(i)
      BY <3>2 DEF Active, Waiting, NextChunk
    <3> QED  BY <2>1, <3>2, <3>3, ChunkSame DEF ChunkInv, Waiting
  <2>3. CASE ~keep_running
    <3>1. pc' = [pc EXCEPT ![i] = "exited"] /\ chunk' = chunk /\ pos' = pos
      BY <1>3, <2>3 DEF Loop, Goto
    <3>2. pc'[i] = "exited" /\ Active(i)' /\ \A j \in Id : j # i => pc'[j] = pc[j]
      BY <3>1 DEF Core, Types, Active, Waiting
    <3> QED  BY <2>1, <3>1, <3>2, ChunkSame DEF ChunkInv, Waiting
  <2> QED  BY <2>2, <2>3
<1>4. ASSUME NEW i \in Id,
             \/ Silence(i) \/ (\E e \in Error : Detect(i, e)) \/ EndOfSearch(i) \/ WaitTo(i)
             \/ WaitTimeout(i) \/ Flush(i) \/ Emit(i) \/ PopReport(i)
      PROVE  ChunkInv'
  <2>1. Active(i) /\ pc[i] # "exited" /\ pc[i] # "loop"
    BY <1>4 DEF Silence, Detect, SearchAgain, EndOfSearch, WaitTo, WaitTimeout, Flush, Emit, PopReport,
                Active, Waiting
  <2>2. UNCHANGED <<chunk, register_now, id_holder, chunk_done, permeable>>
    BY <1>4 DEF Silence, Detect, SearchAgain, EndOfSearch, WaitTo, WaitTimeout, Flush, Emit, PopReport,
                baton, search, queue
  <2>3. pc' = pc \/ \E l \in Pc \ (Waiting \cup {"loop"}) : pc' = [pc EXCEPT ![i] = l]
    BY <1>4 DEF Silence, Detect, SearchAgain, EndOfSearch, WaitTo, WaitTimeout, Flush, Emit, PopReport,
                CallIfDue, EnqueueDetection, Goto, Pc, Waiting
  <2>4. pos' = pos \/ Step(i)
    BY <1>4 DEF Silence, Detect, SearchAgain, EndOfSearch, WaitTo, WaitTimeout, Flush, Emit, PopReport, search
  <2>5. /\ Active(i)' /\ pc'[i] # "loop"
        /\ \A j \in Id : j # i => pc'[j] = pc[j]
    BY <2>1, <2>3 DEF Core, Types, Active, Waiting
  <2>6. \A j \in Id : j # i => pos'[j] = pos[j] /\ chunk'[j] = chunk[j]
    BY <2>2, <2>4 DEF Core, Types, Step
  <2>7. NextChunk(i)' = NextChunk(i)
    BY <2>1, <2>2, <2>5 DEF NextChunk
  <2>8. pc'[i] = "again" => N > 1 /\ ~(chunk_done = None /\ i = 0)
    <3>1. ASSUME pc'[i] = "again" PROVE id_holder # i
      <4>1. \/ pc' = pc /\ pc[i] # "again"
            \/ \E l \in Pc \ {"again"} : pc' = [pc EXCEPT ![i] = l]
            \/ id_holder # i
        BY <1>4 DEF Silence, Detect, EndOfSearch, WaitTo, WaitTimeout, Flush, Emit, PopReport,
                    KeepSearching, CallIfDue, EnqueueDetection, Goto, Pc
      <4>2. pc \in [Id -> Pc]
        BY DEF Core, Types
      <4> QED  BY <3>1, <4>1, <4>2, ZenonT(60)
    <3>2. id_holder # i => N > 1
      <4>1. id_holder \in Id
        BY DEF Core, Types
      <4>2. i \in Nat /\ i < N /\ id_holder \in Nat /\ id_holder < N /\ N \in Nat
        BY <4>1, ConstantTypes
      <4> QED  BY <4>2
    <3> QED  BY <3>1, <3>2 DEF ChunkInv
  <2>9. pc'[i] \notin Waiting \cup {"loop"}
    BY <2>5 DEF Active
  <2> QED  BY <2>1, <2>2, <2>5, <2>6, <2>7, <2>8, <2>9, ChunkSame DEF ChunkInv
<1>5. ASSUME NEW i \in Id, PassOn(i) PROVE ChunkInv'
  BY <1>5, ChunkPassOn
<1>7. ASSUME NEW i \in Id, SearchAgain(i) PROVE ChunkInv'
  <2>1. /\ pc[i] = "again" /\ Active(i) /\ pc'[i] = "search" /\ Active(i)'
        /\ UNCHANGED <<register_now, id_holder, chunk_done, permeable>>
    BY <1>7, LaterChunk DEF SearchAgain, Active, Waiting, baton, queue
  <2>2. NextChunk(i)' = chunk'[i] /\ ~InTurn(i)'
    BY <2>1 DEF NextChunk, InTurn, Waiting, ChunkInv
  <2> QED  BY <1>7, <2>1, <2>2, LaterChunk, ChunkFrame DEF ChunkInv
<1>6. CASE \/ \E t \in ReportTime : PushReport(t)
           \/ Stop \/ Terminated \/ UNCHANGED vars
  <2>1. UNCHANGED <<pc, pos, chunk, register_now, id_holder, chunk_done, permeable>>
    BY <1>6 DEF PushReport, Stop, Terminated, vars, baton, search, queue
  <2> QED  BY <2>1 DEF ChunkInv, InTurn, Active, NextChunk, Completed, Turn, CurrentChunk,
                      Distance
<1> QED  BY <1>1, <1>2, <1>3, <1>4, <1>5, <1>6, <1>7 DEF Next, WorkerStep

-----------------------------------------------------------------------------
(* What the workers have in their hands *)

LEMMA TurnFrame ==
    ASSUME UNCHANGED <<register_now, id_holder, chunk_done>>
    PROVE  \A j \in Id : Turn(j)' = Turn(j)
BY DEF Turn, CurrentChunk, Distance

LEMMA HandFrame ==
    ASSUME HandInv, NEW i \in Id, Hand(i)', detected \subseteq detected',
           \A j \in Id : j # i => Turn(j)' = Turn(j),
           \A j \in Id : j # i => /\ pc'[j] = pc[j] /\ chunk'[j] = chunk[j] /\ pos'[j] = pos[j]
                                  /\ buffered'[j] = buffered[j] /\ found'[j] = found[j]
                                  /\ has_baton'[j] = has_baton[j]
    PROVE  HandInv'
<1>1. ASSUME NEW j \in Id, j # i PROVE Hand(j)'
  <2>1. Hand(j)
    BY DEF HandInv
  <2>2. \A d : InChunk(j, d) => InChunk(j, d)'
    BY <1>1 DEF InChunk, Now, ChunkStart
  <2>3. /\ pc'[j] = pc[j] /\ buffered'[j] = buffered[j] /\ found'[j] = found[j]
        /\ has_baton'[j] = has_baton[j]
    BY <1>1
  <2> QED  BY <2>1, <2>2, <2>3 DEF Hand
<1> QED  BY <1>1 DEF HandInv

\* A thread with empty hands.
LEMMA HandEmpty ==
    ASSUME NEW i \in Id, buffered[i] = <<>>, found[i] = <<>>
    PROVE  Hand(i)
BY DEF Hand

\* A thread goes on and keeps what it has.
LEMMA HandMoved ==
    ASSUME Core, NEW i \in Id, Hand(i), detected \subseteq detected', Turn(i)' = Turn(i),
           Now(i) \in Int, Now(i)' \in Int, Now(i) <= Now(i)',
           found'[i] = found[i], buffered'[i] = buffered[i],
           pc'[i] \in Waiting \cup {"loop"} => buffered[i] = <<>> /\ found[i] = <<>>,
           pc'[i] = "emit" => buffered[i] = <<>>,
           pc'[i] = "search" => found[i] = <<>> /\ (has_baton'[i] => buffered[i] = <<>>),
           pc'[i] = "pop" /\ ~has_baton'[i] => found[i] = <<>>,
           pc'[i] = "again" => found[i] = <<>>
    PROVE  Hand(i)'
<1>1. ASSUME NEW d \in Det, InChunk(i, d) PROVE InChunk(i, d)'
  BY <1>1 DEF InChunk, Det, ChunkStart
<1>2. /\ \A k \in 1 .. Len(buffered[i]) : buffered[i][k] \in Det
      /\ \A k \in 1 .. Len(found[i]) : found[i][k] \in Det
  BY SMTT(60) DEF Core, Types
<1> QED  BY <1>1, <1>2 DEF Hand

\* It moves within its chunk.
LEMMA HandKept ==
    ASSUME Core, NEW i \in Id, Hand(i), detected \subseteq detected', Turn(i)' = Turn(i),
           chunk'[i] = chunk[i], pos'[i] \in Int, pos'[i] >= pos[i],
           found'[i] = found[i], buffered'[i] = buffered[i],
           pc'[i] \in Waiting \cup {"loop"} => buffered[i] = <<>> /\ found[i] = <<>>,
           pc'[i] = "emit" => buffered[i] = <<>>,
           pc'[i] = "search" => found[i] = <<>> /\ (has_baton'[i] => buffered[i] = <<>>),
           pc'[i] = "pop" /\ ~has_baton'[i] => found[i] = <<>>, pc'[i] # "again"
    PROVE  Hand(i)'
<1>1. Now(i) \in Int /\ Now(i)' \in Int /\ Now(i) <= Now(i)'
  BY Positions DEF Now
<1> QED  BY <1>1, HandMoved

LEMMA HandDetect ==
    ASSUME Core, Core', ChunkInv, NEW i \in Id, Hand(i), NEW e \in Error, Detect(i, e)
    PROVE  Hand(i)'
<1>0. PICK d : d = Detection(Now(i), e)
  OBVIOUS
<1>1. /\ pc[i] = "search" /\ ~Completed(i) /\ d.of \in packets /\ d.of = Now(i) /\ d.time = Now(i) + e
      /\ pos' = [pos EXCEPT ![i] = pos[i] + 1] /\ detected' = detected \cup {d.of}
      /\ UNCHANGED <<chunk, has_baton>>
  BY <1>0 DEF Detect, Step, Detection
<1>2. /\ Now(i) \in Nat /\ ChunkStart(chunk[i]) \in Nat /\ pos[i] \in Nat
      /\ Now(i) = ChunkStart(chunk[i]) + pos[i]
  BY <1>1, Positions DEF Active, Waiting
<1>3. Now(i)' = Now(i) + 1 /\ pos'[i] = pos[i] + 1 /\ ChunkStart(chunk[i])' = ChunkStart(chunk[i])
  BY <1>1, <1>2 DEF Now, Core, Types
<1>11. Turn(i)' = Turn(i) /\ ChunkStart(Turn(i)) <= ChunkStart(chunk[i]) /\ ChunkStart(Turn(i)) \in Int
  <2>1. Turn(i)' = Turn(i)
    BY TurnFrame DEF Detect, baton
  <2> QED  BY <1>1, <1>2, <2>1, ChunkFrom, TurnTypes DEF Active, Waiting
<1>12. ChunkStart(Turn(i))' = ChunkStart(Turn(i))
  BY <1>11 DEF ChunkStart
<1>4. d \in Det /\ InChunk(i, d)'
  <2>1. d.time - d.of = e /\ d.of \in Nat /\ d.time \in Nat
    BY <1>1, <1>2, ConstantTypes
  <2>2. d \in Det
    BY <1>0, <2>1 DEF Detection, Det
  <2>3. ChunkStart(Turn(i))' <= d.of /\ d.of < Now(i)'
    BY <1>1, <1>2, <1>3, <1>11, <1>12
  <2> QED  BY <1>1, <2>1, <2>2, <2>3 DEF InChunk
<1>5. found[i] = <<>> /\ (has_baton[i] => buffered[i] = <<>>)
  BY <1>1 DEF Hand
<1>6. PICK b : b = buffered[i]
  OBVIOUS
<1>7. /\ b \in Seq(Det)
      /\ \A k \in 1 .. Len(b) : InChunk(i, b[k])
      /\ \A k, l \in 1 .. Len(b) : k < l => b[k].of < b[l].of
  BY <1>1, <1>6 DEF Hand, Core, Types
<1>8. ASSUME NEW k \in 1 .. Len(b)
      PROVE  InChunk(i, b[k])' /\ b[k].of < d.of
  <2>1. PICK x : x = b[k]
    OBVIOUS
  <2>2. x \in Det /\ InChunk(i, x)
    BY <1>7, <2>1
  <2>3. x.of \in Nat
    BY <2>2 DEF Det
  <2>4. InChunk(i, x)' /\ x.of < d.of
    BY <1>1, <1>2, <1>3, <1>12, <2>2, <2>3 DEF InChunk
  <2> QED  BY <2>1, <2>4
<1>9. CASE KeepSearching(i)
  <2>1. /\ buffered' = [buffered EXCEPT ![i] = Append(buffered[i], d)] /\ UNCHANGED found
        /\ pc'[i] \in {"again", "search"}
    BY <1>0, <1>9 DEF Detect, Goto, Core, Types
  <2>2. ~has_baton[i]
    BY <1>9 DEF KeepSearching
  <2>3. PICK c : c = buffered'[i]
    OBVIOUS
  <2>4. c = Append(b, d)
    BY <1>6, <2>1, <2>3 DEF Core, Types
  <2>5. Len(c) = Len(b) + 1 /\ c[Len(b) + 1] = d /\ \A k \in 1 .. Len(b) : c[k] = b[k]
    BY <1>4, <1>7, <2>4
  <2>6. Len(b) \in Nat
    BY <1>7
  <2>8. \A k \in 1 .. Len(c) : k \in 1 .. Len(b) \/ k = Len(b) + 1
    BY <2>5, <2>6
  <2>9. \A k \in 1 .. Len(c) : InChunk(i, c[k])'
    <3> SUFFICES ASSUME NEW k \in 1 .. Len(c) PROVE InChunk(i, c[k])'
      OBVIOUS
    <3>1. CASE k \in 1 .. Len(b)
      <4>1. c[k] = b[k]
        BY <2>5, <3>1
      <4>2. InChunk(i, b[k])'
        BY <1>8, <3>1
      <4> QED  BY <4>1, <4>2
    <3>2. CASE k = Len(b) + 1
      <4>1. c[k] = d
        BY <2>5, <3>2
      <4> QED  BY <1>4, <4>1
    <3> QED  BY <2>8, <3>1, <3>2
  <2>10. \A k, l \in 1 .. Len(c) : k < l => c[k].of < c[l].of
    <3> SUFFICES ASSUME NEW k \in 1 .. Len(c), NEW l \in 1 .. Len(c), k < l PROVE c[k].of < c[l].of
      OBVIOUS
    <3>1. k \in 1 .. Len(b)
      BY <2>5, <2>6
    <3>2. CASE l \in 1 .. Len(b)
      BY <1>7, <2>5, <3>1, <3>2
    <3>3. CASE l = Len(b) + 1
      BY <1>8, <2>5, <3>1, <3>3
    <3> QED  BY <2>8, <3>2, <3>3
  <2>11. found'[i] = <<>> /\ pc'[i] \in {"again", "search"} /\ ~has_baton'[i]
    BY <1>1, <1>5, <2>1, <2>2
  <2> QED  BY <2>3, <2>9, <2>10, <2>11 DEF Hand, Waiting
<1>10. CASE ~KeepSearching(i)
  <2>1. /\ found' = [found EXCEPT ![i] = <<d>>] /\ UNCHANGED buffered
        /\ pc' = [pc EXCEPT ![i] = IF has_baton[i] THEN "emit" ELSE "wait_to"]
    BY <1>0, <1>10 DEF Detect, Goto
  <2>2. /\ found'[i] = <<d>> /\ buffered'[i] = b
        /\ pc'[i] = IF has_baton[i] THEN "emit" ELSE "wait_to"
    BY <1>6, <2>1 DEF Core, Types
  <2>4. Len(<<d>>) = 1 /\ <<d>>[1] = d /\ \A k \in 1 .. Len(<<d>>) : k = 1
    OBVIOUS
  <2>5. pc'[i] = "emit" => b = <<>>
    BY <1>5, <1>6, <2>2
  <2>6. \A k \in 1 .. Len(<<d>>) : InChunk(i, <<d>>[k])'
    BY <1>4, <2>4
  <2>7. \A k \in 1 .. Len(b), l \in 1 .. Len(<<d>>) : b[k].of < <<d>>[l].of
    BY <1>8, <2>4
  <2>8. \A k \in 1 .. Len(b) : InChunk(i, b[k])'
    BY <1>8
  <2> QED  BY <1>7, <2>2, <2>4, <2>5, <2>6, <2>7, <2>8 DEF Hand, Waiting
<1> QED  BY <1>9, <1>10

\* The rest of a sequence keeps what holds of all its elements.
LEMMA TailElements ==
    ASSUME NEW b \in Seq(Det), b # <<>>
    PROVE  /\ Tail(b) \in Seq(Det) /\ Len(Tail(b)) = Len(b) - 1 /\ Len(b) \in Nat /\ Len(b) >= 1
           /\ Head(b) = b[1] /\ b[1] \in Det
           /\ \A k \in 1 .. Len(Tail(b)) : Tail(b)[k] = b[k + 1] /\ k + 1 \in 1 .. Len(b)
OBVIOUS

LEMMA HandFlush ==
    ASSUME Core, Core', NEW i \in Id, Hand(i), Flush(i)
    PROVE  Hand(i)'
<1>1. /\ pc[i] = "flush" /\ has_baton[i]
      /\ UNCHANGED <<chunk, pos, found, has_baton, detected>>
  BY DEF Flush, Core, BatonInv
<1>4. Turn(i)' = Turn(i)
  BY TurnFrame DEF Flush
<1>2. CASE buffered[i] = <<>>
  <2>1. pc'[i] = "emit" /\ buffered' = buffered /\ pos[i] \in Int
    BY <1>2, Positions DEF Flush, Goto, Core, Types
  <2> QED  BY <1>1, <1>2, <1>4, <2>1, HandKept DEF Waiting
<1>3. CASE buffered[i] # <<>>
  <2>1. PICK b : b = buffered[i]
    OBVIOUS
  <2>2. b \in Seq(Det) /\ b # <<>> /\ buffered'[i] = Tail(b)
    BY <1>3, <2>1 DEF Flush, Core, Types
  <2>3. pc'[i] \in {"flush", "pop"}
    BY <1>3 DEF Flush, EnqueueDetection, CallIfDue, Goto, Core, Types
  <2>4. \A d : InChunk(i, d)' <=> InChunk(i, d)
    BY <1>1, <1>4 DEF InChunk, Now, ChunkStart
  <2>5. /\ \A k \in 1 .. Len(b) : InChunk(i, b[k])
        /\ \A k \in 1 .. Len(found[i]) : InChunk(i, found[i][k])
        /\ \A k, l \in 1 .. Len(b) : k < l => b[k].of < b[l].of
        /\ \A k \in 1 .. Len(b), l \in 1 .. Len(found[i]) : b[k].of < found[i][l].of
        /\ Len(found[i]) <= 1
    BY <1>1, <2>1 DEF Hand
  <2>6. PICK f : f = found[i]
    OBVIOUS
  <2>7. found'[i] = f
    BY <1>1, <2>6
  <2>8. PICK c : c = Tail(b)
    OBVIOUS
  <2>9. /\ Len(c) \in Nat /\ Len(b) \in Nat
        /\ \A k \in 1 .. Len(c) : c[k] = b[k + 1] /\ k + 1 \in 1 .. Len(b)
    BY <2>2, <2>8, TailElements
  <2>10. \A k \in 1 .. Len(c) : InChunk(i, c[k])'
    BY <2>4, <2>5, <2>9
  <2>11. \A k \in 1 .. Len(f) : InChunk(i, f[k])'
    BY <2>4, <2>5, <2>6
  <2>12. \A k, l \in 1 .. Len(c) : k < l => c[k].of < c[l].of
    BY <2>5, <2>9, SMTT(60)
  <2>13. \A k \in 1 .. Len(c), l \in 1 .. Len(f) : c[k].of < f[l].of
    BY <2>5, <2>6, <2>9
  <2>14. buffered'[i] = c /\ has_baton'[i] /\ Len(f) <= 1
    BY <1>1, <2>2, <2>5, <2>6, <2>8
  <2> QED  BY <2>3, <2>7, <2>10, <2>11, <2>12, <2>13, <2>14 DEF Hand, Waiting
<1> QED  BY <1>2, <1>3

LEMMA HandEmit ==
    ASSUME Core, Core', NEW i \in Id, Hand(i), Emit(i)
    PROVE  Hand(i)'
<1>1. /\ pc[i] = "emit" /\ buffered[i] = <<>> /\ UNCHANGED buffered
  BY DEF Emit, Hand
<1>2. found'[i] = <<>>
  BY DEF Emit, Core, Types
<1> QED  BY <1>1, <1>2 DEF Hand

LEMMA HandStep ==
    ASSUME Core, Core', ChunkInv, HandInv, [Next]_vars
    PROVE  HandInv'
<1>0. \A i \in Id : Hand(i)
  BY DEF HandInv
<1>11. ASSUME NEW i \in Id, NEW s \in Start, Register(i, s) PROVE HandInv'
  <2>1. \A j \in Id : pc[j] \in Waiting
    BY <1>11 DEF Register, Core, StartInv, Active
  <2>2. UNCHANGED <<buffered, found>> /\ \A j \in Id : buffered[j] = <<>> /\ found[j] = <<>>
    BY <1>0, <1>11, <2>1 DEF Register, search, Hand
  <2>3. \A j \in Id : Hand(j)'
    BY <2>2 DEF Hand
  <2> QED  BY <2>3 DEF HandInv
<1>1. ASSUME NEW i \in Id, Leave(i) PROVE HandInv'
  <2>1. /\ UNCHANGED <<pos, buffered, found, has_baton, detected>>
        /\ buffered[i] = <<>> /\ found[i] = <<>>
    BY <1>0, <1>1 DEF Leave, Hand, Waiting
  <2>2. /\ pc' = [pc EXCEPT ![i] = "loop"] /\ chunk' = [chunk EXCEPT ![i] = N * register_now + i]
        /\ UNCHANGED <<register_now, id_holder, chunk_done>>
    BY <1>1 DEF Leave, Goto, baton
  <2>3. \A j \in Id : j # i => pc'[j] = pc[j] /\ chunk'[j] = chunk[j]
    BY <2>2 DEF Core, Types
  <2>4. \A j \in Id : Turn(j)' = Turn(j)
    BY <2>2, TurnFrame
  <2>5. Hand(i)'
    BY <2>1 DEF Hand
  <2> QED  BY <2>1, <2>3, <2>4, <2>5, HandFrame DEF HandInv
<1>2. ASSUME NEW i \in Id, Loop(i) PROVE HandInv'
  <2>1. buffered[i] = <<>> /\ found[i] = <<>> /\ detected' = detected
    BY <1>0, <1>2 DEF Loop, Hand, Waiting
  <2>4. \A j \in Id : Turn(j)' = Turn(j)
    BY <1>2, TurnFrame DEF Loop, baton
  <2>2. CASE keep_running
    <3>1. /\ pc' = [pc EXCEPT ![i] = "search"] /\ pos' = [pos EXCEPT ![i] = 0]
          /\ chunk' = [chunk EXCEPT ![i] = IF Completed(i) THEN chunk[i] + N ELSE chunk[i]]
          /\ buffered' = [buffered EXCEPT ![i] = <<>>] /\ found' = [found EXCEPT ![i] = <<>>]
          /\ has_baton' = [has_baton EXCEPT ![i] = FALSE]
      BY <1>2, <2>2 DEF Loop, Goto
    <3>2. /\ buffered'[i] = <<>> /\ found'[i] = <<>>
          /\ \A j \in Id : j # i => /\ pc'[j] = pc[j] /\ chunk'[j] = chunk[j] /\ pos'[j] = pos[j]
                                    /\ buffered'[j] = buffered[j] /\ found'[j] = found[j]
                                    /\ has_baton'[j] = has_baton[j]
      BY <3>1 DEF Core, Types
    <3>3. Hand(i)'
      BY <3>2 DEF Hand
    <3> QED  BY <2>1, <2>4, <3>2, <3>3, HandFrame DEF HandInv
  <2>3. CASE ~keep_running
    <3>1. /\ pc' = [pc EXCEPT ![i] = "exited"] /\ UNCHANGED <<chunk, pos, buffered, found, has_baton>>
      BY <1>2, <2>3 DEF Loop, Goto
    <3>2. \A j \in Id : j # i => pc'[j] = pc[j]
      BY <3>1 DEF Core, Types
    <3>3. Hand(i)'
      BY <2>1, <3>1 DEF Hand
    <3> QED  BY <2>1, <2>4, <3>1, <3>2, <3>3, HandFrame DEF HandInv
  <2> QED  BY <2>2, <2>3
\* The other actions change what is said of their own thread only.
<1>3. ASSUME NEW i \in Id, Hand(i)',
             \/ Silence(i) \/ (\E e \in Error : Detect(i, e)) \/ EndOfSearch(i) \/ WaitTo(i)
             \/ WaitTimeout(i) \/ Flush(i) \/ Emit(i) \/ PopReport(i) \/ PassOn(i)
      PROVE  HandInv'
  <2>1. \E l \in Pc : pc' = [pc EXCEPT ![i] = l] \/ pc' = pc
    BY <1>3 DEF Silence, Detect, SearchAgain, EndOfSearch, WaitTo, WaitTimeout, Flush, Emit, PopReport, PassOn,
                CallIfDue, EnqueueDetection, Goto, Pc
  <2>2. pos' = pos \/ pos' = [pos EXCEPT ![i] = @ + 1]
    BY <1>3 DEF Silence, Detect, SearchAgain, EndOfSearch, WaitTo, WaitTimeout, Flush, Emit, PopReport, PassOn,
                search, Step
  <2>3. chunk' = chunk /\ detected \subseteq detected'
    BY <1>3 DEF Silence, Detect, SearchAgain, EndOfSearch, WaitTo, WaitTimeout, Flush, Emit, PopReport, PassOn, search
  <2>8. \A j \in Id : j # i => Turn(j)' = Turn(j)
    <3>1. CASE PassOn(i) /\ Continuous(i)
      BY <3>1, TurnPassesOn
    <3>2. CASE ~(PassOn(i) /\ Continuous(i))
      <4>1. UNCHANGED <<register_now, id_holder, chunk_done>>
        BY <1>3, <3>2 DEF Silence, Detect, SearchAgain, EndOfSearch, WaitTo, WaitTimeout, Flush, Emit, PopReport, PassOn, baton
      <4> QED  BY <4>1, TurnFrame
    <3> QED  BY <3>1, <3>2
  <2>4. buffered' = buffered \/ \E b : buffered' = [buffered EXCEPT ![i] = b]
    BY <1>3 DEF Silence, Detect, SearchAgain, EndOfSearch, WaitTo, WaitTimeout, Flush, Emit, PopReport, PassOn, search
  <2>5. found' = found \/ \E f : found' = [found EXCEPT ![i] = f]
    BY <1>3 DEF Silence, Detect, SearchAgain, EndOfSearch, WaitTo, WaitTimeout, Flush, Emit, PopReport, PassOn, search
  <2>6. has_baton' = has_baton \/ \E b : has_baton' = [has_baton EXCEPT ![i] = b]
    BY <1>3 DEF Silence, Detect, SearchAgain, EndOfSearch, WaitTo, WaitTimeout, Flush, Emit, PopReport, PassOn, search
  <2>7. \A j \in Id : j # i => /\ pc'[j] = pc[j] /\ chunk'[j] = chunk[j] /\ pos'[j] = pos[j]
                               /\ buffered'[j] = buffered[j] /\ found'[j] = found[j]
                               /\ has_baton'[j] = has_baton[j]
    BY <2>1, <2>2, <2>3, <2>4, <2>5, <2>6, ZenonT(60) DEF Core, Types
  <2> QED  BY <1>3, <2>3, <2>7, <2>8, HandFrame
<1>4. ASSUME NEW i \in Id, Silence(i) PROVE Hand(i)'
  <2>1. /\ pc[i] = "search" /\ UNCHANGED <<chunk, buffered, found, has_baton, detected>>
        /\ pos' = [pos EXCEPT ![i] = pos[i] + 1] /\ pc' \in {[pc EXCEPT ![i] = "pop"], [pc EXCEPT ![i] = "search"]}
    BY <1>4 DEF Silence, Step, CallIfDue, Goto
  <2>2. pos'[i] = pos[i] + 1 /\ pos[i] \in Int /\ pc'[i] \in {"pop", "search"}
    BY <2>1, Positions DEF Core, Types
  <2>3. found[i] = <<>> /\ (has_baton[i] => buffered[i] = <<>>) /\ Hand(i)
    BY <1>0, <2>1 DEF Hand
  <2>4. Turn(i)' = Turn(i)
    BY <1>4, TurnFrame DEF Silence, baton
  <2> QED  BY <2>1, <2>2, <2>3, <2>4, HandKept DEF Waiting
<1>5. ASSUME NEW i \in Id, EndOfSearch(i) \/ WaitTo(i) \/ WaitTimeout(i) PROVE Hand(i)'
  <2>1. /\ UNCHANGED <<chunk, pos, buffered, found, detected>>
        /\ pc' \in {[pc EXCEPT ![i] = l] : l \in {"wait_to", "flush", "waiting", "exited"}}
    BY <1>5 DEF EndOfSearch, WaitTo, WaitTimeout, Goto, search
  <2>2. pos[i] \in Int /\ pc'[i] \in {"wait_to", "flush", "waiting", "exited"}
    BY <2>1, Positions DEF Core, Types
  <2>3. Turn(i)' = Turn(i)
    BY <1>5, TurnFrame DEF EndOfSearch, WaitTo, WaitTimeout, baton
  <2> QED  BY <1>0, <2>1, <2>2, <2>3, HandKept DEF Waiting
<1>6. ASSUME NEW i \in Id, SearchAgain(i) PROVE HandInv'
  <2>1. /\ pc[i] = "again" /\ UNCHANGED <<buffered, found, has_baton, detected>>
        /\ ~has_baton[i] /\ found[i] = <<>>
    BY <1>0, <1>6 DEF SearchAgain, Hand, Core, BatonInv
  <2>2. \A j \in Id : Turn(j)' = Turn(j)
    BY <1>6, TurnFrame DEF SearchAgain, baton
  <2>3. /\ pc'[i] = "search" /\ Now(i) <= Now(i)'
        /\ \A j \in Id : j # i => pc'[j] = pc[j] /\ chunk'[j] = chunk[j] /\ pos'[j] = pos[j]
    BY <1>6, LaterChunk
  <2>4. Now(i) \in Int /\ Now(i)' \in Int
    <3>1. chunk'[i] \in Int /\ pos'[i] = 0 /\ Now(i)' = ChunkStart(chunk'[i]) + pos'[i]
      BY <1>6, LaterChunk, Positions, ConstantTypes DEF Now, ChunkStart
    <3> QED  BY <3>1, Positions, ChunkTimes
  <2>5. Hand(i)'
    BY <1>0, <2>1, <2>2, <2>3, <2>4, HandMoved DEF Waiting
  <2> QED  BY <2>1, <2>2, <2>3, <2>5, HandFrame
<1>7. ASSUME NEW i \in Id, PopReport(i) PROVE Hand(i)'
  <2>1. /\ pc[i] = "pop" /\ UNCHANGED <<chunk, pos, buffered, found, has_baton, detected>>
        /\ pc' = [pc EXCEPT ![i] = IF has_baton[i] /\ buffered[i] # <<>> THEN "flush"
                                   ELSE IF has_baton[i] THEN "emit" ELSE "search"]
    BY <1>7 DEF PopReport, Goto
  <2>2. pos[i] \in Int /\ pc'[i] = IF has_baton[i] /\ buffered[i] # <<>> THEN "flush"
                                   ELSE IF has_baton[i] THEN "emit" ELSE "search"
    BY <2>1, Positions DEF Core, Types
  <2>3. ~has_baton[i] => found[i] = <<>>
    BY <1>0, <2>1 DEF Hand
  <2>4. Turn(i)' = Turn(i)
    BY <1>7, TurnFrame DEF PopReport, baton
  <2> QED  BY <1>0, <2>1, <2>2, <2>3, <2>4, HandKept DEF Waiting
<1>8. ASSUME NEW i \in Id, PassOn(i) PROVE Hand(i)'
  <2>1. UNCHANGED <<buffered, found>> /\ buffered[i] = <<>> /\ found[i] = <<>>
    BY <1>0, <1>8 DEF PassOn, search, Hand
  <2> QED  BY <2>1 DEF Hand
<1>9. CASE (\E t \in ReportTime : PushReport(t)) \/ Stop \/ Terminated \/ UNCHANGED vars
  <2>1. /\ UNCHANGED <<pc, chunk, pos, buffered, found, has_baton, detected>>
        /\ UNCHANGED <<register_now, id_holder, chunk_done>>
    BY <1>9 DEF PushReport, Stop, Terminated, vars, search, baton
  <2>2. \A j \in Id : Turn(j)' = Turn(j)
    BY <2>1, TurnFrame
  <2> QED  BY <2>1, <2>2 DEF HandInv, Hand, InChunk, Now, ChunkStart
<1>10. ASSUME NEW i \in Id,
              \/ Silence(i) \/ (\E e \in Error : Detect(i, e)) \/ EndOfSearch(i) \/ WaitTo(i)
              \/ WaitTimeout(i) \/ Flush(i) \/ Emit(i) \/ PopReport(i) \/ PassOn(i)
       PROVE  HandInv'
  <2>1. Hand(i)'
    BY <1>0, <1>4, <1>5, <1>7, <1>8, <1>10, HandDetect, HandFlush, HandEmit
  <2> QED  BY <1>3, <1>10, <2>1
<1> QED  BY <1>1, <1>2, <1>6, <1>9, <1>10, <1>11 DEF Next, WorkerStep

\* A detection in the hands of a thread, and the packet it is of.
LEMMA DetectionFacts ==
    ASSUME Core, NEW i \in Id, Active(i), NEW d \in Det, InChunk(i, d)
    PROVE  /\ d.of \in Nat /\ d.time \in Nat /\ d.of \in packets /\ d.of \in detected
           /\ d.time - d.of \in Error /\ d.time >= d.of /\ d.time - d.of <= UniqueLimit
           /\ ChunkStart(Turn(i)) \in Int /\ ChunkStart(Turn(i)) <= d.of /\ d.of < Now(i)
           /\ Now(i) \in Nat /\ Now(i) <= ChunkStart(chunk[i]) + A + B
<1>1. d.of \in Nat /\ d.time \in Nat
  BY DEF Det
<1>2. d.of \in detected /\ d.of \in packets /\ d.time - d.of \in Error
  BY DEF InChunk, Core, Types
<1>3. d.time - d.of \in Nat /\ d.time - d.of <= UniqueLimit
  BY <1>2, ConstantTypes, SyncAssumption
<1>4. /\ ChunkStart(chunk[i]) \in Nat /\ Now(i) \in Nat /\ pos[i] \in Nat /\ pos[i] <= A + B
      /\ Now(i) = ChunkStart(chunk[i]) + pos[i]
  BY Positions
<1>5. ChunkStart(Turn(i)) <= d.of /\ d.of < Now(i) /\ ChunkStart(Turn(i)) \in Int
  BY TurnTypes DEF InChunk
<1> QED  BY <1>1, <1>2, <1>3, <1>4, <1>5, ConstantTypes

\* Two packets are far apart.
LEMMA FarApart ==
    ASSUME Core, NEW p \in packets, NEW q \in packets, NEW e \in Error, p < q
    PROVE  q - p > UniqueLimit + e /\ q - p > B
<1>1. q - p >= MinGap /\ p \in Nat /\ q \in Nat
  BY DEF Core, Gaps, Types
<1>2. MinGap \in Nat /\ MinGap > B /\ MinGap > UniqueLimit + e /\ B \in Nat /\ UniqueLimit \in Nat /\ e \in Nat
  BY SyncAssumption
<1> QED  BY <1>1, <1>2

\* The time of a detection leaves no room for a later packet.
LEMMA PopLimit ==
    ASSUME Core, NEW i \in Id, Active(i), NEW d \in Det, InChunk(i, d), NEW p \in packets, p < d.time
    PROVE  p \in detected \/ p < Now(i)
<1>1. /\ d.of \in Nat /\ d.time \in Nat /\ d.of \in packets /\ d.of \in detected /\ d.time - d.of \in Error
      /\ d.of < Now(i) /\ Now(i) \in Nat
  BY DetectionFacts
<1>2. p \in Nat
  BY DEF Core, Types
<1>3. ~(d.of < p)
  <2>1. ASSUME d.of < p PROVE FALSE
    <3>1. p - d.of > UniqueLimit + (d.time - d.of)
      BY <1>1, <2>1, FarApart
    <3> QED  BY <1>1, <1>2, <3>1, ConstantTypes
  <2> QED  BY <2>1
<1> QED  BY <1>1, <1>2, <1>3

LEMMA PopInvStep ==
    ASSUME Core, Core', HandInv, PopInv, [Next]_vars
    PROVE  PopInv'
<1> DEFINE Pops(j) == \A p \in packets : p < no_more[j] => p \in detected \/ p < Now(j)
<1>1. UNCHANGED packets /\ detected \subseteq detected'
  BY ZenonT(60) DEF Next, WorkerStep, Register, Leave, Loop, Silence, Detect, SearchAgain, EndOfSearch, WaitTo, WaitTimeout,
         Flush, Emit, PopReport, PassOn, PushReport, Stop, Terminated, vars
<1>2. ASSUME NEW i \in Id,
             \A j \in Id : j # i => pc'[j] = pc[j] /\ chunk'[j] = chunk[j] /\ pos'[j] = pos[j]
                                    /\ no_more'[j] = no_more[j],
             pc'[i] = "pop" => Pops(i)'
      PROVE  PopInv'
  <2>1. ASSUME NEW j \in Id, pc'[j] = "pop", j # i PROVE Pops(j)'
    <3>1. Pops(j) /\ Now(j)' = Now(j) /\ no_more'[j] = no_more[j]
      BY <1>2, <2>1 DEF PopInv, Now
    <3> QED  BY <1>1, <3>1
  <2> QED  BY <1>2, <2>1 DEF PopInv
<1> HIDE DEF Pops
<1>3. ASSUME NEW i \in Id, WorkerStep(i) \/ WaitTimeout(i),
             pc'[i] = "pop" => Pops(i)'
      PROVE  PopInv'
  <2>1. pc' = pc \/ \E l : pc' = [pc EXCEPT ![i] = l]
    BY <1>3 DEF WorkerStep, Register, Leave, Loop, Silence, Detect, SearchAgain, EndOfSearch, WaitTo, WaitTimeout, Flush,
                Emit, PopReport, PassOn, CallIfDue, EnqueueDetection, Goto
  <2>2. pos' = pos \/ \E x : pos' = [pos EXCEPT ![i] = x]
    BY <1>3 DEF WorkerStep, Register, Leave, Loop, Silence, Detect, SearchAgain, EndOfSearch, WaitTo, WaitTimeout, Flush,
                Emit, PopReport, PassOn, search, Step
  <2>3. chunk' = chunk \/ \E x : chunk' = [chunk EXCEPT ![i] = x]
    BY <1>3 DEF WorkerStep, Register, Leave, Loop, Silence, Detect, SearchAgain, EndOfSearch, WaitTo, WaitTimeout, Flush,
                Emit, PopReport, PassOn, search
  <2>4. no_more' = no_more \/ \E x : no_more' = [no_more EXCEPT ![i] = x]
    BY <1>3 DEF WorkerStep, Register, Leave, Loop, Silence, Detect, SearchAgain, EndOfSearch, WaitTo, WaitTimeout, Flush,
                Emit, PopReport, PassOn, CallIfDue, EnqueueDetection, search
  <2>5. \A j \in Id : j # i => pc'[j] = pc[j] /\ chunk'[j] = chunk[j] /\ pos'[j] = pos[j]
                               /\ no_more'[j] = no_more[j]
    BY <2>1, <2>2, <2>3, <2>4, ZenonT(60) DEF Core, Types
  <2> QED  BY <1>2, <1>3, <2>5
<1>4. ASSUME NEW i \in Id, Silence(i), pc'[i] = "pop" PROVE Pops(i)'
  <2>1. pc[i] = "search" /\ pos' = [pos EXCEPT ![i] = pos[i] + 1] /\ chunk' = chunk
    BY <1>4 DEF Silence, Step
  <2>2. Now(i) \in Nat /\ Now(i)' = Now(i) + 1
    <3>1. /\ Now(i) \in Nat /\ ChunkStart(chunk[i]) \in Int /\ pos[i] \in Nat
          /\ Now(i) = ChunkStart(chunk[i]) + pos[i]
      BY <2>1, Positions DEF Active, Waiting
    <3>2. pos'[i] = pos[i] + 1 /\ chunk'[i] = chunk[i]
      BY <2>1 DEF Core, Types
    <3>3. Now(i)' = ChunkStart(chunk[i]) + (pos[i] + 1)
      BY <3>2 DEF Now
    <3> QED  BY <3>1, <3>3
  <2>3. no_more'[i] = Now(i) + 1
    BY <1>4, <2>1 DEF Silence, CallIfDue, Goto, Core, Types
  <2> QED  BY <2>2, <2>3 DEF Pops
<1>5. ASSUME NEW i \in Id, Flush(i), pc'[i] = "pop" PROVE Pops(i)'
  <2>1. pc[i] = "flush" /\ Active(i) /\ UNCHANGED <<chunk, pos>>
    BY <1>5 DEF Flush, Active, Waiting
  <2>2. buffered[i] # <<>>
    BY <1>5 DEF Flush, Goto, Core, Types
  <2>3. PICK d : d = Head(buffered[i])
    OBVIOUS
  <2>4. d \in Det /\ InChunk(i, d)
    <3>1. buffered[i] \in Seq(Det)
      BY DEF Core, Types
    <3>2. d = buffered[i][1] /\ d \in Det /\ Len(buffered[i]) \in Nat /\ Len(buffered[i]) >= 1
      BY <2>2, <2>3, <3>1, TailElements
    <3>3. 1 \in 1 .. Len(buffered[i])
      BY <3>2
    <3> QED  BY <2>1, <3>2, <3>3 DEF HandInv, Hand
  <2>5. no_more'[i] = d.time
    BY <1>5, <2>2, <2>3 DEF Flush, EnqueueDetection, CallIfDue, Goto, Core, Types
  <2>6. Now(i)' = Now(i)
    BY <2>1 DEF Now
  <2> QED  BY <1>1, <2>1, <2>4, <2>5, <2>6, PopLimit DEF Pops
<1>6. ASSUME NEW i \in Id, Emit(i), pc'[i] = "pop" PROVE Pops(i)'
  <2>1. pc[i] = "emit" /\ Active(i) /\ UNCHANGED <<chunk, pos>>
    BY <1>6 DEF Emit, Active, Waiting
  <2>2. found[i] # <<>>
    BY <1>6 DEF Emit, Goto, Core, Types
  <2>3. PICK d : d = found[i][1]
    OBVIOUS
  <2>4. d \in Det /\ InChunk(i, d)
    <3>1. found[i] \in Seq(Det)
      BY DEF Core, Types
    <3>2. d \in Det /\ Len(found[i]) \in Nat /\ Len(found[i]) >= 1
      BY <2>2, <2>3, <3>1, TailElements
    <3>3. 1 \in 1 .. Len(found[i])
      BY <3>2
    <3> QED  BY <2>1, <2>3, <3>2, <3>3 DEF HandInv, Hand
  <2>5. no_more'[i] = d.time
    BY <1>6, <2>2, <2>3 DEF Emit, EnqueueDetection, CallIfDue, Goto, Core, Types
  <2>6. Now(i)' = Now(i)
    BY <2>1 DEF Now
  <2> QED  BY <1>1, <2>1, <2>4, <2>5, <2>6, PopLimit DEF Pops
<1>7. ASSUME NEW i \in Id, WorkerStep(i) \/ WaitTimeout(i), pc'[i] = "pop"
      PROVE  Silence(i) \/ Flush(i) \/ Emit(i)
  BY <1>7 DEF WorkerStep, Register, Leave, Loop, Detect, SearchAgain, EndOfSearch, WaitTo, WaitTimeout,
              PopReport, PassOn, Goto, Core, Types
<1>8. ASSUME NEW i \in Id, WorkerStep(i) \/ WaitTimeout(i) PROVE PopInv'
  BY <1>3, <1>4, <1>5, <1>6, <1>7, <1>8
<1>9. CASE (\E t \in ReportTime : PushReport(t)) \/ Stop \/ Terminated \/ UNCHANGED vars
  <2>1. UNCHANGED <<pc, chunk, pos, no_more, packets, detected>>
    BY <1>9 DEF PushReport, Stop, Terminated, vars, search
  <2> QED  BY <2>1 DEF PopInv, Now
<1> QED  BY <1>8, <1>9 DEF Next

-----------------------------------------------------------------------------
(* The jobs *)

LEMMA Appended ==
    ASSUME Core, NEW j \in Job, jobs' = Append(jobs, j)
    PROVE  /\ Len(jobs) \in Nat /\ Len(jobs') = Len(jobs) + 1 /\ jobs'[Len(jobs) + 1] = j
           /\ \A n \in 1 .. Len(jobs) : jobs'[n] = jobs[n]
           /\ \A k : Jobs(k)' = Jobs(k) \cup (IF j.kind = k THEN {Len(jobs) + 1} ELSE {})
           /\ \A k : \A n \in Jobs(k) : n \in 1 .. Len(jobs) /\ jobs[n] \in Job
<1>1. jobs \in Seq(Job)
  BY DEF Core, Types
<1>2. PICK s : s = jobs
  OBVIOUS
<1>3. PICK t : t = jobs'
  OBVIOUS
<1>4. s \in Seq(Job) /\ t = Append(s, j)
  BY <1>1, <1>2, <1>3
<1>5. /\ Len(s) \in Nat /\ Len(t) = Len(s) + 1 /\ t[Len(s) + 1] = j
      /\ \A n \in 1 .. Len(s) : t[n] = s[n] /\ s[n] \in Job
  BY <1>4
<1>6. \A n : n \in 1 .. Len(t) <=> n \in 1 .. Len(s) \/ n = Len(s) + 1
  BY <1>5
<1>7. ASSUME NEW k
      PROVE  {n \in 1 .. Len(t) : t[n].kind = k} =
             {n \in 1 .. Len(s) : s[n].kind = k} \cup (IF j.kind = k THEN {Len(s) + 1} ELSE {})
  BY <1>5, <1>6
<1>8. \A k : Jobs(k)' = Jobs(k) \cup (IF j.kind = k THEN {Len(jobs) + 1} ELSE {})
  BY <1>2, <1>3, <1>7 DEF Jobs
<1> QED  BY <1>2, <1>3, <1>5, <1>8 DEF Jobs

\* The queue is open to whoever holds the baton.
LEMMA HolderPermeable ==
    ASSUME Core, ChunkInv, Active(id_holder)
    PROVE  permeable
BY ConstantTypes DEF ChunkInv

\* What is known of the detection d that thread i is about to enqueue.
EnqueuesNext(i, d) ==
    /\ id_holder = i /\ pc[i] \in {"flush", "emit"}
    /\ d \in Det /\ InChunk(i, d)
    /\ \A n \in Jobs("sync") :
            jobs[n].of < ChunkStart(Turn(i)) + B \/ jobs[n].of < d.of

\* Nothing but sync, regular and irregular jobs, with what is needed of each.
LEMMA JobFacts ==
    ASSUME Core, JobsInv
    PROVE  /\ \A n \in Jobs("sync") :
                /\ n \in Nat /\ jobs[n].of \in Nat /\ jobs[n].of \in packets /\ jobs[n].time \in Int
                /\ jobs[n].time - jobs[n].of \in Error /\ jobs[n].time <= sync_time_last
           /\ \A n \in Jobs("regular") :
                /\ n \in Nat /\ jobs[n].of \in Int /\ jobs[n].time \in Int
                /\ jobs[n].of <= sync_time_last
                /\ chunk_done # None /\ (~Failed => jobs[n].time <= ChunkEnd(chunk_done))
           /\ sync_time_last \in Int
<1>1. jobs \in Seq(Job)
  BY DEF Core, Types
<1>2. \A n \in 1 .. Len(jobs) : jobs[n] \in Job /\ n \in Nat
  BY <1>1
<1>3. sync_time_last \in Int
  BY ConstantTypes DEF Core, Types
<1>4. packets \subseteq Nat
  BY DEF Core, Types
<1> QED  BY <1>2, <1>3, <1>4 DEF JobsInv, Jobs, Job

\* A unique detection gets a job of its own, after all others.
LEMMA EnqueueUnique ==
    ASSUME Core, ~Failed, ChunkInv, JobsInv, NEW i \in Id, NEW d, EnqueuesNext(i, d), Unique(d.time),
           EnqueueJob(SyncJob(d)), sync_time_last' = d.time, UNCHANGED <<packets, chunk_done>>
    PROVE  JobsInv' /\ LastInv' /\ Served' = Served \cup {d.of}
<1>1. /\ d \in Det /\ d.of \in Nat /\ d.time \in Nat /\ d.of \in packets /\ d.time - d.of \in Error
      /\ d.time >= d.of /\ ChunkStart(Turn(i)) <= d.of /\ ChunkStart(Turn(i)) \in Int
      /\ Active(i) /\ d.time - d.of <= UniqueLimit
  BY DetectionFacts DEF EnqueuesNext, Active, Waiting
<1>2. jobs' = Append(jobs, SyncJob(d))
  BY <1>1, HolderPermeable DEF EnqueuesNext, EnqueueJob
<1>3. SyncJob(d) \in Job /\ SyncJob(d).kind = "sync" /\ SyncJob(d).of = d.of /\ SyncJob(d).time = d.time
  BY <1>1 DEF SyncJob, Job
<1>4. PICK new : new = Len(jobs) + 1
  OBVIOUS
<1>5. /\ new \in Nat /\ jobs'[new].of = d.of /\ jobs'[new].time = d.time
      /\ Jobs("sync")' = Jobs("sync") \cup {new} /\ Jobs("regular")' = Jobs("regular")
      /\ \A n \in Jobs("sync") \cup Jobs("regular") : jobs'[n] = jobs[n] /\ n < new
  <2>1. /\ Len(jobs) \in Nat /\ jobs'[new] = SyncJob(d)
        /\ \A n \in 1 .. Len(jobs) : jobs'[n] = jobs[n]
        /\ \A k : Jobs(k)' = Jobs(k) \cup (IF SyncJob(d).kind = k THEN {Len(jobs) + 1} ELSE {})
        /\ \A k : \A n \in Jobs(k) : n \in 1 .. Len(jobs)
    BY <1>2, <1>3, <1>4, Appended
  <2>2. Jobs("sync")' = Jobs("sync") \cup {new} /\ Jobs("regular")' = Jobs("regular")
    BY <1>3, <1>4, <2>1
  <2>3. \A n \in Jobs("sync") \cup Jobs("regular") : jobs'[n] = jobs[n] /\ n < new
    <3>1. \A n \in 1 .. Len(jobs) : jobs'[n] = jobs[n] /\ n < new
      BY <1>4, <2>1
    <3> QED  BY <2>1, <3>1
  <2>4. new \in Nat
    BY <1>4, <2>1
  <2> QED  BY <1>3, <2>1, <2>2, <2>3, <2>4
<1>6. d.time - sync_time_last > UniqueLimit /\ sync_time_last \in Int /\ UniqueLimit \in Nat
  BY JobFacts, ConstantTypes DEF Unique
<1>7. d.time > sync_time_last
  BY <1>1, <1>6
<1>8. ASSUME NEW n \in Jobs("sync") PROVE jobs[n].time < d.time /\ jobs[n].of # d.of
  <2>1. jobs[n].time \in Int /\ jobs[n].of \in Nat /\ jobs[n].time <= sync_time_last /\ jobs[n].time - jobs[n].of \in Nat
    BY JobFacts, ConstantTypes
  <2> QED  BY <1>1, <1>6, <2>1
<1>9. ASSUME NEW n \in Jobs("regular") PROVE d.time > jobs[n].time /\ d.time > jobs[n].of
  <2>1. /\ jobs[n].time \in Int /\ jobs[n].of \in Int /\ jobs[n].of <= sync_time_last
        /\ chunk_done # None /\ jobs[n].time <= ChunkEnd(chunk_done)
    BY JobFacts
  <2>2. chunk_done \in Nat /\ Turn(i) = chunk_done + 1
    <3>1. Turn(i) = CurrentChunk
      BY TurnTypes DEF EnqueuesNext
    <3> QED  BY <2>1, <3>1 DEF CurrentChunk, Core, Types
  <2>3. ChunkEnd(chunk_done) = ChunkStart(Turn(i)) - 1 /\ ChunkEnd(chunk_done) \in Int
    BY <1>1, <2>2, ChunkTimes, ConstantTypes
  <2> QED  BY <1>1, <1>6, <1>7, <2>1, <2>3
<1>10. EveryPacketOnce'
  <2> SUFFICES ASSUME NEW m \in Jobs("sync")', NEW n \in Jobs("sync")', m < n
               PROVE  jobs'[m].time < jobs'[n].time /\ jobs'[m].of # jobs'[n].of
    BY DEF EveryPacketOnce
  <2>1. m \in Jobs("sync")
    <3>1. m \in Nat /\ n \in Nat /\ n <= new
      BY <1>5, JobFacts
    <3> QED  BY <1>5, <3>1
  <2>2. CASE n \in Jobs("sync")
    BY <1>5, <2>1, <2>2 DEF JobsInv, EveryPacketOnce
  <2>3. CASE n = new
    BY <1>5, <1>8, <2>1, <2>3
  <2> QED  BY <1>5, <2>2, <2>3
<1>11. BarrierHolds'
  <2> SUFFICES ASSUME NEW m \in Jobs("regular")', NEW n \in Jobs("sync")', m < n
               PROVE  jobs'[n].time > jobs'[m].time /\ jobs'[n].time > jobs'[m].of
    BY DEF BarrierHolds
  <2>1. m \in Jobs("regular")
    BY <1>5
  <2>2. CASE n \in Jobs("sync")
    BY <1>5, <2>1, <2>2 DEF JobsInv, BarrierHolds
  <2>3. CASE n = new
    BY <1>5, <1>9, <2>1, <2>3
  <2> QED  BY <1>5, <2>2, <2>3
<1>12. ASSUME NEW n \in Jobs("sync")'
       PROVE  /\ jobs'[n].of \in packets' /\ jobs'[n].time - jobs'[n].of \in Error
              /\ jobs'[n].time <= sync_time_last'
  <2>1. CASE n \in Jobs("sync")
    BY <1>1, <1>5, <1>7, <1>8, <2>1, JobFacts
  <2>2. CASE n = new
    BY <1>1, <1>5, <2>2
  <2> QED  BY <1>5, <2>1, <2>2
<1>13. ASSUME NEW n \in Jobs("regular")'
       PROVE  /\ jobs'[n].of <= sync_time_last'
              /\ chunk_done' # None /\ jobs'[n].time <= ChunkEnd(chunk_done)'
  BY <1>1, <1>5, <1>7, JobFacts
<1>14. JobsInv'
  BY <1>10, <1>11, <1>12, <1>13 DEF JobsInv
<1>15. LastInv'
  BY <1>5 DEF LastInv
<1>16. Served' = Served \cup {d.of}
  BY <1>5 DEF Served
<1> QED  BY <1>14, <1>15, <1>16

\* A detection that is not unique is one of the packet of the last job.
LEMMA NotUnique ==
    ASSUME Core, ChunkInv, JobsInv, LastInv, NEW i \in Id, NEW d, EnqueuesNext(i, d), ~Unique(d.time)
    PROVE  d.of \in Served
<1>1. /\ d \in Det /\ d.of \in Nat /\ d.time \in Nat /\ d.of \in packets /\ d.time - d.of \in Error
      /\ d.time >= d.of /\ ChunkStart(Turn(i)) <= d.of /\ ChunkStart(Turn(i)) \in Int
      /\ Active(i) /\ d.time - d.of <= UniqueLimit
  BY DetectionFacts DEF EnqueuesNext, Active, Waiting
<1>2. d.time - sync_time_last <= UniqueLimit /\ sync_time_last \in Int /\ UniqueLimit \in Nat
  BY <1>1, JobFacts, ConstantTypes DEF Unique
<1>3. sync_time_last # Early
  <2>1. UniqueLimit < -Early
    BY SyncAssumption
  <2> QED  BY <1>1, <1>2, <2>1, ConstantTypes
<1>4. PICK n \in Jobs("sync") : jobs[n].time = sync_time_last
  BY <1>3 DEF LastInv
<1>5. PICK p : p = jobs[n].of
  OBVIOUS
<1>6. p \in packets /\ p \in Nat /\ sync_time_last - p \in Error /\ sync_time_last - p \in Nat
  BY <1>4, <1>5, JobFacts, ConstantTypes
<1>7. p < ChunkStart(Turn(i)) + B \/ p < d.of
  BY <1>5 DEF EnqueuesNext
<1>8. ~(p < d.of)
  <2>1. ASSUME p < d.of PROVE FALSE
    <3>1. d.of - p > UniqueLimit + (sync_time_last - p)
      BY <1>1, <1>6, <2>1, FarApart
    <3> QED  BY <1>1, <1>2, <1>6, <3>1
  <2> QED  BY <2>1
<1>9. ~(d.of < p)
  <2>1. ASSUME d.of < p PROVE FALSE
    <3>1. p - d.of > B
      BY <1>1, <1>6, <2>1, FarApart
    <3> QED  BY <1>1, <1>6, <1>7, <1>8, <3>1, ConstantTypes
  <2> QED  BY <2>1
<1>10. p = d.of
  BY <1>1, <1>6, <1>8, <1>9
<1> QED  BY <1>5, <1>10 DEF Served

LEMMA EnqueueEffect ==
    ASSUME Core, ~Failed, ChunkInv, JobsInv, LastInv, NEW i \in Id, NEW d, EnqueuesNext(i, d), NEW l,
           EnqueueDetection(i, d, l), UNCHANGED <<packets, chunk_done>>
    PROVE  JobsInv' /\ LastInv' /\ Served' = Served \cup {d.of}
<1>1. CASE Unique(d.time)
  BY <1>1, EnqueueUnique DEF EnqueueDetection
<1>2. CASE ~Unique(d.time)
  <2>1. UNCHANGED <<sync_time_last, jobs>>
    BY <1>2 DEF EnqueueDetection
  <2>2. JobsInv' /\ LastInv' /\ Served' = Served
    BY <2>1 DEF JobsInv, LastInv, EveryPacketOnce, BarrierHolds, Jobs, Served
  <2> QED  BY <1>2, <2>2, NotUnique
<1> QED  BY <1>1, <1>2

\* A job that is not one of a detection.
LEMMA OtherJob ==
    ASSUME Core, NEW j \in Job, j.kind # "sync", EnqueueJob(j)
    PROVE  /\ Jobs("sync")' = Jobs("sync") /\ \A n \in Jobs("sync") : jobs'[n] = jobs[n]
           /\ Served' = Served
           /\ \A n \in Jobs("regular") : n \in Jobs("regular")' /\ jobs'[n] = jobs[n]
           /\ \A n \in Jobs("regular")' :
                \/ n \in Jobs("regular")
                \/ j.kind = "regular" /\ jobs'[n] = j /\ \A m \in Jobs("sync") : m < n
<1>1. CASE permeable
  <2>1. jobs' = Append(jobs, j)
    BY <1>1 DEF EnqueueJob
  <2>2. PICK new : new = Len(jobs) + 1
    OBVIOUS
  <2>3. /\ Len(jobs) \in Nat /\ jobs'[new] = j
        /\ \A n \in 1 .. Len(jobs) : jobs'[n] = jobs[n]
        /\ \A k : Jobs(k)' = Jobs(k) \cup (IF j.kind = k THEN {Len(jobs) + 1} ELSE {})
        /\ \A k : \A n \in Jobs(k) : n \in 1 .. Len(jobs)
    BY <2>1, <2>2, Appended
  <2>4. Jobs("sync")' = Jobs("sync")
    BY <2>3
  <2>5. Jobs("regular")' = Jobs("regular") \cup (IF j.kind = "regular" THEN {new} ELSE {})
    BY <2>2, <2>3
  <2>6. \A m \in Jobs("sync") : m < new
    <3>1. \A m \in 1 .. Len(jobs) : m < new
      BY <2>2, <2>3
    <3> QED  BY <2>3, <3>1
  <2>7. \A k : \A n \in Jobs(k) : jobs'[n] = jobs[n]
    BY <2>3
  <2>8. Served' = Served
    BY <2>4, <2>7 DEF Served
  <2> QED  BY <2>3, <2>4, <2>5, <2>6, <2>7, <2>8
<1>2. CASE ~permeable
  BY <1>2 DEF EnqueueJob, Jobs, Served
<1> QED  BY <1>1, <1>2

\* Sync jobs stay what they were.
LEMMA JobsFrame ==
    ASSUME Core, JobsInv, LastInv, UNCHANGED <<packets, sync_time_last>>,
           Jobs("sync")' = Jobs("sync"), \A n \in Jobs("sync") : jobs'[n] = jobs[n],
           \A n \in Jobs("regular")' :
                \/ n \in Jobs("regular") /\ jobs'[n] = jobs[n]
                \/ \A m \in Jobs("sync") : m < n,
           \A n \in Jobs("regular")' :
                /\ jobs'[n].of <= sync_time_last
                /\ chunk_done' # None /\ (~Failed' => jobs'[n].time <= ChunkEnd(chunk_done'))
    PROVE  JobsInv' /\ LastInv'
<1>1. EveryPacketOnce'
  BY DEF JobsInv, EveryPacketOnce
<1>2. BarrierHolds'
  <2> SUFFICES ASSUME NEW m \in Jobs("regular")', NEW n \in Jobs("sync")', m < n
               PROVE  jobs'[n].time > jobs'[m].time /\ jobs'[n].time > jobs'[m].of
    BY DEF BarrierHolds
  <2>1. CASE m \in Jobs("regular") /\ jobs'[m] = jobs[m]
    BY <2>1 DEF JobsInv, BarrierHolds
  <2>2. CASE \A k \in Jobs("sync") : k < m
    <3>1. n < m /\ n \in Nat
      BY <2>2, JobFacts
    <3>2. m \in Nat
      BY DEF Jobs
    <3> QED  BY <3>1, <3>2
  <2> QED  BY <2>1, <2>2
<1>3. \A n \in Jobs("sync")' :
        /\ jobs'[n].of \in packets' /\ jobs'[n].time - jobs'[n].of \in Error
        /\ jobs'[n].time <= sync_time_last'
  BY DEF JobsInv
<1>4. JobsInv'
  BY <1>1, <1>2, <1>3 DEF JobsInv
<1>5. LastInv'
  BY DEF LastInv
<1> QED  BY <1>4, <1>5

LEMMA FlushNext ==
    ASSUME Core, ChunkInv, HandInv, BehindInv, NEW i \in Id, Flush(i), buffered[i] # <<>>
    PROVE  EnqueuesNext(i, Head(buffered[i]))
<1>1. pc[i] = "flush" /\ id_holder = i
  BY DEF Flush, Core, BatonInv
<1>2. PICK b : b = buffered[i]
  OBVIOUS
<1>3. b \in Seq(Det) /\ Head(b) = b[1] /\ b[1] \in Det /\ 1 \in 1 .. Len(b)
  <2>1. b \in Seq(Det) /\ b # <<>>
    BY <1>2 DEF Core, Types
  <2> QED  BY <2>1, TailElements
<1>4. InChunk(i, b[1])
  BY <1>1, <1>2, <1>3 DEF HandInv, Hand
<1>5. ASSUME NEW n \in Jobs("sync") PROVE jobs[n].of < ChunkStart(Turn(i)) + B \/ jobs[n].of < b[1].of
  <2>1. Behind(i, jobs[n].of)
    BY <1>1 DEF BehindInv, Served
  <2> QED  BY <1>2, <1>3, <2>1 DEF Behind
<1> QED  BY <1>1, <1>2, <1>3, <1>4, <1>5 DEF EnqueuesNext

LEMMA EmitNext ==
    ASSUME Core, ChunkInv, HandInv, BehindInv, NEW i \in Id, Emit(i), found[i] # <<>>
    PROVE  EnqueuesNext(i, found[i][1])
<1>1. pc[i] = "emit" /\ id_holder = i
  BY DEF Emit, Core, BatonInv
<1>2. PICK b : b = found[i]
  OBVIOUS
<1>3. b \in Seq(Det) /\ b[1] \in Det /\ 1 \in 1 .. Len(b)
  <2>1. b \in Seq(Det) /\ b # <<>>
    BY <1>2 DEF Core, Types
  <2> QED  BY <2>1, TailElements
<1>4. InChunk(i, b[1])
  BY <1>1, <1>2, <1>3 DEF HandInv, Hand
<1>5. ASSUME NEW n \in Jobs("sync") PROVE jobs[n].of < ChunkStart(Turn(i)) + B \/ jobs[n].of < b[1].of
  <2>1. Behind(i, jobs[n].of)
    BY <1>1 DEF BehindInv, Served
  <2> QED  BY <1>2, <1>3, <2>1 DEF Behind
<1> QED  BY <1>1, <1>2, <1>3, <1>4, <1>5 DEF EnqueuesNext

LEMMA JobsStep ==
    ASSUME Core, Core', ChunkInv, HandInv, BehindInv, JobsInv, LastInv, [Next]_vars
    PROVE  JobsInv' /\ LastInv'
<1>1. ASSUME UNCHANGED <<jobs, sync_time_last, packets, chunk_done>>, ~Failed \/ pc' = pc
      PROVE  JobsInv' /\ LastInv'
  BY <1>1 DEF JobsInv, LastInv, EveryPacketOnce, BarrierHolds, Jobs, Failed
<1>2. ASSUME ~Failed, NEW i \in Id, Flush(i) PROVE JobsInv' /\ LastInv'
  <2>1. UNCHANGED <<packets, chunk_done>>
    BY <1>2 DEF Flush
  <2>2. CASE buffered[i] = <<>>
    BY <1>1, <1>2, <2>1, <2>2 DEF Flush
  <2>3. CASE buffered[i] # <<>>
    BY <1>2, <2>1, <2>3, FlushNext, EnqueueEffect DEF Flush
  <2> QED  BY <2>2, <2>3
<1>3. ASSUME ~Failed, NEW i \in Id, Emit(i) PROVE JobsInv' /\ LastInv'
  <2>1. UNCHANGED <<packets, chunk_done>>
    BY <1>3 DEF Emit
  <2>2. CASE found[i] = <<>>
    BY <1>1, <1>3, <2>1, <2>2 DEF Emit
  <2>3. CASE found[i] # <<>>
    BY <1>3, <2>1, <2>3, EmitNext, EnqueueEffect DEF Emit
  <2> QED  BY <2>2, <2>3
<1>4. ASSUME ~Failed, NEW i \in Id, PopReport(i) PROVE JobsInv' /\ LastInv'
  <2>1. PICK j : j = IrregularJob(reports[it_next], no_more[i])
    OBVIOUS
  <2>2. j \in Job /\ j.kind = "irregular"
    <3>1. it_next \in Slot
      BY <1>4, RoomForReport DEF PopReport
    <3>2. reports[it_next] \in Nat /\ no_more[i] \in Nat
      BY <3>1, ReportTimes DEF Core, Types, QueueTypes
    <3> QED  BY <2>1, <3>2 DEF IrregularJob, Job
  <2>3. EnqueueJob(j) /\ UNCHANGED <<packets, sync_time_last, chunk_done>>
    BY <1>4, <2>1 DEF PopReport, baton
  <2>4. \A n \in Jobs("regular")' : n \in Jobs("regular") /\ jobs'[n] = jobs[n]
    BY <2>2, <2>3, OtherJob
  <2>5. Jobs("sync")' = Jobs("sync") /\ \A n \in Jobs("sync") : jobs'[n] = jobs[n]
    BY <2>2, <2>3, OtherJob
  <2>6. \A n \in Jobs("regular")' :
            /\ jobs'[n].of <= sync_time_last
            /\ chunk_done' # None /\ jobs'[n].time <= ChunkEnd(chunk_done')
    BY <1>4, <2>3, <2>4 DEF JobsInv
  <2> QED  BY <2>3, <2>4, <2>5, <2>6, JobsFrame
<1>5. ASSUME ~Failed, NEW i \in Id, PassOn(i) PROVE JobsInv' /\ LastInv'
  <2>1. /\ pc[i] = "search" /\ Active(i) /\ id_holder = i /\ UNCHANGED <<packets, sync_time_last>>
        /\ \/ Continuous(i) /\ chunk_done' = chunk[i]
           \/ chunk_done # None /\ chunk_done' = chunk_done /\ pc'[i] = "failed"
    BY <1>5 DEF PassOn, Goto, Continuous, Active, Waiting, Core, Types, BatonInv
  <2>2. chunk[i] \in Nat /\ ChunkEnd(chunk[i]) \in Int /\ sync_time_last \in Int
    BY <2>1, Positions, JobFacts
  <2>3. chunk_done' # None /\ (~Failed' => Continuous(i) /\ chunk_done' = chunk[i])
    BY <2>1, <2>2, ConstantTypes DEF Failed
  <2>4. ASSUME NEW n \in Jobs("regular")
        PROVE  /\ jobs[n].of <= sync_time_last
               /\ ~Failed' => jobs[n].time <= ChunkEnd(chunk_done')
    <3>1. chunk_done # None /\ jobs[n].time <= ChunkEnd(chunk_done) /\ jobs[n].of <= sync_time_last
          /\ jobs[n].time \in Int
      BY <1>5, JobFacts
    <3>2. ASSUME ~Failed' PROVE jobs[n].time <= ChunkEnd(chunk_done')
      <4>1. chunk_done' = chunk[i] /\ chunk[i] = CurrentChunk
        BY <2>1, <2>3, <3>2, AtCurrentChunk
      <4>2. chunk_done \in Nat /\ chunk[i] = chunk_done + 1
        BY <3>1, <4>1 DEF CurrentChunk, Core, Types
      <4>3. ChunkEnd(chunk_done) \in Int /\ ChunkEnd(chunk_done) <= ChunkEnd(chunk[i])
        BY <2>2, <4>2, ChunkTimes, ConstantTypes
      <4> QED  BY <2>2, <3>1, <4>1, <4>3
    <3> QED  BY <3>1, <3>2
  <2>5. CASE jobs' = jobs
    <3>1. Jobs("sync")' = Jobs("sync") /\ Jobs("regular")' = Jobs("regular")
      BY <2>5 DEF Jobs
    <3> QED  BY <2>1, <2>3, <2>4, <2>5, <3>1, JobsFrame
  <2>6. CASE EnqueueJob(RegularReport(i))
    <3>1. PICK j : j = RegularReport(i)
      OBVIOUS
    <3>2. j \in Job /\ j.kind = "regular" /\ j.time = ChunkEnd(chunk[i]) /\ j.of = sync_time_last
      BY <2>2, <3>1 DEF RegularReport, RegularJob, Job
    <3>3. /\ Jobs("sync")' = Jobs("sync") /\ \A n \in Jobs("sync") : jobs'[n] = jobs[n]
          /\ \A n \in Jobs("regular") : jobs'[n] = jobs[n]
          /\ \A n \in Jobs("regular")' :
                n \in Jobs("regular") \/ (jobs'[n] = j /\ \A m \in Jobs("sync") : m < n)
      BY <2>6, <3>1, <3>2, OtherJob
    <3>4. ASSUME NEW n \in Jobs("regular")'
          PROVE  /\ jobs'[n].of <= sync_time_last
                 /\ ~Failed' => jobs'[n].time <= ChunkEnd(chunk_done')
      <4>1. CASE n \in Jobs("regular")
        BY <2>4, <3>3, <4>1
      <4>2. CASE jobs'[n] = j
        BY <2>2, <2>3, <3>2, <4>2
      <4> QED  BY <3>3, <4>1, <4>2
    <3> QED  BY <2>1, <2>3, <3>3, <3>4, JobsFrame
  <2>7. jobs' = jobs \/ EnqueueJob(RegularReport(i))
    BY <1>5 DEF PassOn, EnqueueRegularJob
  <2> QED  BY <2>5, <2>6, <2>7
<1>6. ASSUME ~Failed, NEW i \in Id,
             \/ (\E s \in Start : Register(i, s)) \/ Leave(i) \/ Loop(i) \/ Silence(i)
             \/ (\E e \in Error : Detect(i, e)) \/ SearchAgain(i) \/ EndOfSearch(i) \/ WaitTo(i)
             \/ WaitTimeout(i)
      PROVE  JobsInv' /\ LastInv'
  <2>1. UNCHANGED <<jobs, sync_time_last, packets, chunk_done>>
    BY <1>6 DEF Register, Leave, Loop, Silence, Detect, SearchAgain, EndOfSearch, WaitTo, WaitTimeout, baton, queue
  <2> QED  BY <1>1, <1>6, <2>1
<1>7. CASE (\E t \in ReportTime : PushReport(t)) \/ Stop \/ Terminated \/ UNCHANGED vars
  <2>1. UNCHANGED <<jobs, sync_time_last, packets, chunk_done, pc>>
    BY <1>7 DEF PushReport, Stop, Terminated, vars, baton, queue
  <2> QED  BY <1>1, <2>1
<1> QED  BY <1>2, <1>3, <1>4, <1>5, <1>6, <1>7 DEF Next, WorkerStep

-----------------------------------------------------------------------------
(* Sync jobs lie behind the workers *)

\* A worker changes what it has itself.
LEMMA OthersKeep ==
    ASSUME Core, NEW i \in Id, WorkerStep(i) \/ WaitTimeout(i)
    PROVE  \A j \in Id : j # i => /\ pc'[j] = pc[j] /\ chunk'[j] = chunk[j] /\ pos'[j] = pos[j]
                                  /\ buffered'[j] = buffered[j] /\ found'[j] = found[j]
<1>1. pc' = pc \/ \E l : pc' = [pc EXCEPT ![i] = l]
  BY DEF WorkerStep, Register, Leave, Loop, Silence, Detect, SearchAgain, EndOfSearch, WaitTo, WaitTimeout, Flush,
              Emit, PopReport, PassOn, CallIfDue, EnqueueDetection, Goto
<1>2. pos' = pos \/ \E x : pos' = [pos EXCEPT ![i] = x]
  BY DEF WorkerStep, Register, Leave, Loop, Silence, Detect, SearchAgain, EndOfSearch, WaitTo, WaitTimeout, Flush,
              Emit, PopReport, PassOn, search, Step
<1>3. chunk' = chunk \/ \E x : chunk' = [chunk EXCEPT ![i] = x]
  BY DEF WorkerStep, Register, Leave, Loop, Silence, Detect, SearchAgain, EndOfSearch, WaitTo, WaitTimeout, Flush,
              Emit, PopReport, PassOn, search
<1>4. buffered' = buffered \/ \E x : buffered' = [buffered EXCEPT ![i] = x]
  BY DEF WorkerStep, Register, Leave, Loop, Silence, Detect, SearchAgain, EndOfSearch, WaitTo, WaitTimeout, Flush,
              Emit, PopReport, PassOn, search
<1>5. found' = found \/ \E x : found' = [found EXCEPT ![i] = x]
  BY DEF WorkerStep, Register, Leave, Loop, Silence, Detect, SearchAgain, EndOfSearch, WaitTo, WaitTimeout, Flush,
              Emit, PopReport, PassOn, search
<1> QED  BY <1>1, <1>2, <1>3, <1>4, <1>5, ZenonT(60) DEF Core, Types

\* What a worker has enqueued lies in the overlap of the chunks of the others, if it is at
\* the chunk of its turn.
LEMMA OverlapOnly ==
    ASSUME Core, ChunkInv, NEW i \in Id, NEW d, EnqueuesNext(i, d), ~Stuck, NEW j \in Id, j # i
    PROVE  d.of < ChunkStart(Turn(j)) + B
<1>1. /\ d.of \in Nat /\ d.of < Now(i) /\ Now(i) \in Nat /\ chunk[i] \in Int
      /\ Now(i) <= ChunkStart(chunk[i]) + A + B
  BY DetectionFacts, Positions DEF EnqueuesNext, Active, Waiting
<1>2. chunk[i] = CurrentChunk /\ id_holder = i
  BY DEF EnqueuesNext, Stuck, Active, Waiting
<1>3. Turn(j) \in Int /\ chunk[i] < Turn(j)
  BY <1>1, <1>2, TurnTypes
<1>4. ChunkStart(chunk[i]) + A <= ChunkStart(Turn(j)) /\ ChunkStart(Turn(j)) \in Int /\ ChunkStart(chunk[i]) \in Int
  BY <1>1, <1>3, ChunkOrder, ChunkTimes
<1> QED  BY <1>1, <1>4, ConstantTypes

\* A holder that has gone on to a later chunk does not pass the baton on any more.
LEMMA StuckStays ==
    ASSUME Core, ChunkInv, NEW i \in Id, WorkerStep(i) \/ WaitTimeout(i), Stuck
    PROVE  Stuck' /\ id_holder' = id_holder
<1>1. Active(id_holder) /\ pc[id_holder] # "loop" /\ chunk[id_holder] # CurrentChunk /\ id_holder \in Id
  BY DEF Stuck, Core, Types
<1>2. ~(\E s \in Start : Register(i, s))
  BY <1>1 DEF Register, Core, StartInv
<1>3. ~(PassOn(i) /\ Continuous(i))
  BY <1>1, TurnPassesOn
<1>4. UNCHANGED <<id_holder, chunk_done, register_now>>
  BY <1>2, <1>3 DEF WorkerStep, Leave, Loop, Silence, Detect, SearchAgain, EndOfSearch, WaitTo, WaitTimeout,
                    Flush, Emit, PopReport, PassOn, baton
<1>5. CurrentChunk' = CurrentChunk
  BY <1>4 DEF CurrentChunk
<1>6. CASE i # id_holder
  BY <1>1, <1>4, <1>5, <1>6, OthersKeep DEF Stuck, Active
<1>7. CASE SearchAgain(i) /\ i = id_holder
  <2>1. /\ chunk'[i] = chunk[i] + N /\ pc'[i] = "search" /\ pc[i] = "again"
    BY <1>7, LaterChunk DEF SearchAgain
  <2>2. chunk[i] \in Int /\ chunk[i] >= CurrentChunk /\ CurrentChunk \in Int /\ N \in Nat /\ N > 0
    BY <1>7, <2>1, Positions, ChunkFrom, TurnTypes, DistanceTypes, ConstantTypes DEF Active, Waiting
  <2>3. chunk'[i] # CurrentChunk
    BY <2>1, <2>2
  <2> QED  BY <1>4, <1>5, <1>7, <2>1, <2>3 DEF Stuck, Active, Waiting
<1>8. CASE ~SearchAgain(i) /\ i = id_holder
  <2>1. ~Leave(i) /\ ~Loop(i)
    BY <1>1, <1>8 DEF Leave, Loop, Active, Waiting
  <2>2. chunk' = chunk
    BY <1>2, <1>8, <2>1 DEF WorkerStep, Silence, Detect, EndOfSearch, WaitTo, WaitTimeout, Flush, Emit,
                            PopReport, PassOn, search
  <2>3. pc' = pc \/ \E l \in Pc \ (Waiting \cup {"loop"}) : pc' = [pc EXCEPT ![i] = l]
    BY <1>2, <1>3, <1>8, <2>1 DEF WorkerStep, Silence, Detect, EndOfSearch, WaitTo, WaitTimeout, Flush,
                    Emit, PopReport, PassOn, CallIfDue, EnqueueDetection, Goto, Pc, Waiting
  <2>4. pc'[i] \notin Waiting \cup {"loop"}
    BY <1>1, <1>8, <2>3 DEF Core, Types, Active
  <2> QED  BY <1>1, <1>4, <1>5, <1>8, <2>2, <2>4 DEF Stuck, Active
<1> QED  BY <1>6, <1>7, <1>8, <1>4

LEMMA ServedNat ==
    ASSUME Core, JobsInv
    PROVE  Served \subseteq packets /\ Served \subseteq Nat
BY DEF Served, JobsInv, Core, Types

LEMMA BehindFrame ==
    ASSUME Core, ChunkInv, BehindInv, NEW i \in Id, WorkerStep(i) \/ WaitTimeout(i),
           \A j \in Id : j # i => Turn(j)' = Turn(j),
           pc'[i] # "exited" => \A p \in Served' : Behind(i, p)' \/ (i # id_holder' /\ Stuck'),
           \A p \in Served' :
                \/ p \in Served
                \/ i = id_holder /\ Stuck
                \/ \A j \in Id : j # i => p < ChunkStart(Turn(j)) + B
    PROVE  BehindInv'
<1>1. ASSUME NEW j \in Id, j # i, pc'[j] # "exited", NEW p \in Served'
      PROVE  Behind(j, p)' \/ (j # id_holder' /\ Stuck')
  <2>1. /\ pc'[j] = pc[j] /\ chunk'[j] = chunk[j] /\ pos'[j] = pos[j]
        /\ buffered'[j] = buffered[j] /\ found'[j] = found[j] /\ Turn(j)' = Turn(j)
    BY <1>1, OthersKeep
  <2>2. CASE Stuck /\ j # id_holder
    BY <2>2, StuckStays
  <2>3. CASE ~(Stuck /\ j # id_holder)
    <3>1. Behind(j, p)
      BY <1>1, <2>1, <2>3 DEF BehindInv, Behind
    <3> QED  BY <2>1, <3>1 DEF Behind, Active, Now, ChunkStart
  <2> QED  BY <2>2, <2>3
<1> QED  BY <1>1 DEF BehindInv

\* The worker goes on and finds nothing.
LEMMA BehindKept ==
    ASSUME NEW i \in Id, NEW p \in Nat, Behind(i, p), pc[i] \notin Waiting \cup {"loop"},
           pc'[i] \notin Waiting \cup {"loop"}, Turn(i)' = Turn(i),
           Now(i) \in Int, Now(i)' \in Int, Now(i) <= Now(i)',
           buffered'[i] = buffered[i], found'[i] = found[i]
    PROVE  Behind(i, p)'
<1>1. p < Now(i) => p < Now(i)'
  OBVIOUS
<1> QED  BY <1>1 DEF Behind, Active, ChunkStart

LEMMA BehindDetect ==
    ASSUME Core, Core', HandInv, NEW i \in Id, NEW e \in Error, Detect(i, e), NEW p \in Nat, Behind(i, p)
    PROVE  Behind(i, p)'
<1>0. PICK d : d = Detection(Now(i), e)
  OBVIOUS
<1>1. /\ pc[i] = "search" /\ d.of = Now(i) /\ chunk' = chunk
      /\ pos' = [pos EXCEPT ![i] = pos[i] + 1]
  BY <1>0 DEF Detect, Step, Detection
<1>2. /\ Now(i) \in Nat /\ Now(i) = ChunkStart(chunk[i]) + pos[i] /\ pos[i] \in Nat
      /\ ChunkStart(chunk[i]) \in Nat
  BY <1>1, Positions DEF Active, Waiting
<1>3. Now(i)' = Now(i) + 1
  <2>1. pos'[i] = pos[i] + 1 /\ chunk'[i] = chunk[i]
    BY <1>1 DEF Core, Types
  <2>2. Now(i)' = ChunkStart(chunk[i]) + (pos[i] + 1)
    BY <2>1 DEF Now
  <2> QED  BY <1>2, <2>2
<1>4. pc'[i] \in {"again", "search", "emit", "wait_to"}
  BY <1>1 DEF Detect, Goto, Core, Types
<1>5. Turn(i)' = Turn(i) /\ Active(i)'
  BY <1>1, <1>4, TurnFrame DEF Detect, baton, Active, Waiting
<1>6. CASE p < ChunkStart(Turn(i)) + B
  BY <1>5, <1>6 DEF Behind, ChunkStart
<1>7. CASE /\ p < Now(i)
           /\ \A k \in 1 .. Len(buffered[i]) : p < buffered[i][k].of
           /\ \A k \in 1 .. Len(found[i]) : p < found[i][k].of
  <2>1. p < Now(i)' /\ p < d.of
    BY <1>1, <1>2, <1>3, <1>7
  <2>2. PICK b : b = buffered[i]
    OBVIOUS
  <2>3. b \in Seq(Det)
    BY <2>2 DEF Core, Types
  <2>4. \A k \in 1 .. Len(Append(b, d)) : p < Append(b, d)[k].of
    <3>1. /\ Len(b) \in Nat /\ Len(Append(b, d)) = Len(b) + 1 /\ Append(b, d)[Len(b) + 1] = d
          /\ \A k \in 1 .. Len(b) : Append(b, d)[k] = b[k]
      BY <2>3
    <3>2. \A k \in 1 .. Len(Append(b, d)) : k \in 1 .. Len(b) \/ k = Len(b) + 1
      BY <3>1
    <3> QED  BY <1>7, <2>1, <2>2, <3>1, <3>2
  <2>5. \A k \in 1 .. Len(<<d>>) : p < <<d>>[k].of
    <3>1. \A k \in 1 .. Len(<<d>>) : <<d>>[k] = d
      OBVIOUS
    <3> QED  BY <2>1, <3>1
  <2>6. buffered'[i] \in {b, Append(b, d)}
    BY <1>0, <2>2 DEF Detect, Core, Types
  <2>7. found'[i] \in {found[i], <<d>>}
    BY <1>0 DEF Detect, Core, Types
  <2>8. /\ \A k \in 1 .. Len(buffered'[i]) : p < buffered'[i][k].of
        /\ \A k \in 1 .. Len(found'[i]) : p < found'[i][k].of
    BY <1>7, <2>2, <2>4, <2>5, <2>6, <2>7
  <2> QED  BY <1>4, <1>5, <2>1, <2>8 DEF Behind
<1> QED  BY <1>5, <1>6, <1>7 DEF Behind

\* The worker takes the oldest detection out of its hands.
LEMMA BehindFlush ==
    ASSUME Core, Core', ChunkInv, HandInv, BehindInv, NEW i \in Id, Flush(i), buffered[i] # <<>>,
           NEW p \in Nat, Behind(i, p) \/ p = Head(buffered[i]).of
    PROVE  Behind(i, p)'
<1>1. pc[i] = "flush" /\ UNCHANGED <<chunk, pos, found>>
  BY DEF Flush
<1>2. pc'[i] \in {"flush", "pop"}
  BY DEF Flush, EnqueueDetection, CallIfDue, Goto, Core, Types
<1>3. Turn(i)' = Turn(i) /\ Active(i)' /\ Now(i)' = Now(i)
  BY <1>1, <1>2, TurnFrame DEF Flush, Active, Waiting, Now
<1>4. PICK b : b = buffered[i]
  OBVIOUS
<1>5. b \in Seq(Det) /\ b # <<>> /\ buffered'[i] = Tail(b)
  BY <1>4 DEF Flush, Core, Types
<1>6. /\ \A k \in 1 .. Len(Tail(b)) : Tail(b)[k] = b[k + 1] /\ k + 1 \in 1 .. Len(b)
      /\ Head(b) = b[1] /\ 1 \in 1 .. Len(b) /\ Len(Tail(b)) \in Nat
  BY <1>5, TailElements
<1>7. CASE Behind(i, p)
  BY <1>1, <1>2, <1>3, <1>4, <1>5, <1>6, <1>7 DEF Behind, Active, Waiting, ChunkStart
<1>8. CASE p = Head(b).of
  <2>1. /\ InChunk(i, b[1])
        /\ \A k, l \in 1 .. Len(b) : k < l => b[k].of < b[l].of
        /\ \A k \in 1 .. Len(b), l \in 1 .. Len(found[i]) : b[k].of < found[i][l].of
    BY <1>1, <1>4, <1>6 DEF HandInv, Hand
  <2>2. p < Now(i)'
    BY <1>3, <1>6, <1>8, <2>1 DEF InChunk
  <2>3. \A k \in 1 .. Len(Tail(b)) : p < Tail(b)[k].of
    <3>1. \A k \in 1 .. Len(Tail(b)) : 1 < k + 1
      BY <1>6
    <3> QED  BY <1>6, <1>8, <2>1, <3>1
  <2>4. \A k \in 1 .. Len(found[i]) : p < found[i][k].of
    BY <1>6, <1>8, <2>1
  <2> QED  BY <1>1, <1>2, <1>3, <1>5, <2>2, <2>3, <2>4 DEF Behind
<1> QED  BY <1>4, <1>7, <1>8

LEMMA BehindEmit ==
    ASSUME Core, Core', ChunkInv, HandInv, BehindInv, NEW i \in Id, Emit(i), found[i] # <<>>,
           NEW p \in Nat, Behind(i, p) \/ p = found[i][1].of
    PROVE  Behind(i, p)'
<1>1. pc[i] = "emit" /\ UNCHANGED <<chunk, pos, buffered>> /\ buffered[i] = <<>>
  BY DEF Emit, HandInv, Hand
<1>2. pc'[i] \in {"search", "pop"} /\ found'[i] = <<>>
  BY DEF Emit, EnqueueDetection, CallIfDue, Goto, Core, Types
<1>3. Turn(i)' = Turn(i) /\ Active(i)' /\ Now(i)' = Now(i)
  BY <1>1, <1>2, TurnFrame DEF Emit, Active, Waiting, Now
<1>4. 1 \in 1 .. Len(found[i])
  <2>1. found[i] \in Seq(Det)
    BY DEF Core, Types
  <2> QED  BY <2>1, TailElements
<1>5. CASE Behind(i, p)
  BY <1>1, <1>2, <1>3, <1>5 DEF Behind, ChunkStart
<1>6. CASE p = found[i][1].of
  <2>1. InChunk(i, found[i][1])
    BY <1>1, <1>4 DEF HandInv, Hand
  <2>2. p < Now(i)'
    BY <1>3, <1>6, <2>1 DEF InChunk
  <2> QED  BY <1>1, <1>2, <1>3, <2>2 DEF Behind
<1> QED  BY <1>5, <1>6

\* Irregular and regular jobs add nothing to the packets that have their job.
LEMMA ServedFrame ==
    ASSUME Core, NEW i \in Id, PopReport(i) \/ PassOn(i)
    PROVE  Served' = Served
<1>1. CASE PopReport(i)
  <2>1. PICK j : j = IrregularJob(reports[it_next], no_more[i])
    OBVIOUS
  <2>2. j \in Job /\ j.kind # "sync"
    <3>1. it_next \in Slot
      BY <1>1, RoomForReport DEF PopReport
    <3>2. reports[it_next] \in Nat /\ no_more[i] \in Nat
      BY <3>1, ReportTimes DEF Core, Types, QueueTypes
    <3> QED  BY <2>1, <3>2 DEF IrregularJob, Job
  <2> QED  BY <1>1, <2>1, <2>2, OtherJob DEF PopReport
<1>2. CASE PassOn(i)
  <2>1. PICK j : j = RegularReport(i)
    OBVIOUS
  <2>2. j \in Job /\ j.kind # "sync"
    <3>1. ChunkEnd(chunk[i]) \in Int
      BY Positions
    <3>2. sync_time_last \in Int
      BY ConstantTypes DEF Core, Types
    <3> QED  BY <2>1, <3>1, <3>2 DEF RegularReport, RegularJob, Job
  <2>3. CASE jobs' = jobs
    BY <2>3 DEF Served, Jobs
  <2>4. CASE EnqueueJob(j)
    BY <2>2, <2>4, OtherJob
  <2> QED  BY <1>2, <2>1, <2>3, <2>4 DEF PassOn, EnqueueRegularJob
<1> QED  BY <1>1, <1>2

LEMMA BehindStep ==
    ASSUME Core, Core', ChunkInv, HandInv, BehindInv, JobsInv, LastInv, [Next]_vars
    PROVE  BehindInv'
<1>0. Served \subseteq Nat
  BY ServedNat
\* Actions that enqueue no detection.
<1>1. ASSUME NEW i \in Id, WorkerStep(i) \/ WaitTimeout(i), Served' = Served,
             \A j \in Id : j # i => Turn(j)' = Turn(j),
             pc'[i] # "exited" =>
                pc[i] # "exited" /\ \A p \in Served : Behind(i, p) => Behind(i, p)'
      PROVE  BehindInv'
  <2>1. ASSUME pc'[i] # "exited", NEW p \in Served' PROVE Behind(i, p)' \/ (i # id_holder' /\ Stuck')
    <3>1. Behind(i, p) \/ (i # id_holder /\ Stuck)
      BY <1>1, <2>1 DEF BehindInv
    <3> QED  BY <1>1, <2>1, <3>1, StuckStays
  <2> QED  BY <1>1, <2>1, BehindFrame
<1>2. ASSUME jobs' = jobs PROVE Served' = Served
  BY <1>2 DEF Served, Jobs
<1>3. ASSUME NEW i \in Id, NEW s \in Start, Register(i, s) PROVE BehindInv'
  <2>1. jobs' = <<>>
    BY <1>3 DEF Register, Core, StartInv, queue
  <2> QED  BY <2>1 DEF BehindInv, Served, Jobs
<1>4. ASSUME NEW i \in Id, Leave(i) PROVE BehindInv'
  <2>1. /\ pc[i] = "registered" /\ pc'[i] = "loop" /\ jobs' = jobs
        /\ UNCHANGED <<register_now, id_holder, chunk_done>>
    BY <1>4 DEF Leave, Goto, baton, Core, Types
  <2>2. \A j \in Id : Turn(j)' = Turn(j)
    BY <2>1, TurnFrame
  <2>3. \A p \in Served : Behind(i, p) => Behind(i, p)'
    BY <2>1, <2>2 DEF Behind, Active, Waiting, ChunkStart
  <2> QED  BY <1>1, <1>2, <1>4, <2>1, <2>2, <2>3 DEF WorkerStep
<1>5. ASSUME NEW i \in Id, Loop(i) PROVE BehindInv'
  <2>1. pc[i] = "loop" /\ jobs' = jobs /\ UNCHANGED <<register_now, id_holder, chunk_done>>
    BY <1>5 DEF Loop, baton, queue
  <2>2. \A j \in Id : Turn(j)' = Turn(j)
    BY <2>1, TurnFrame
  <2>3. \A p \in Served : Behind(i, p) => Behind(i, p)'
    BY <2>1, <2>2 DEF Behind, ChunkStart
  <2> QED  BY <1>1, <1>2, <1>5, <2>1, <2>2, <2>3 DEF WorkerStep
<1>6. ASSUME NEW i \in Id,
             \/ Silence(i) \/ SearchAgain(i) \/ EndOfSearch(i) \/ WaitTo(i) \/ PopReport(i)
      PROVE  BehindInv'
  <2>1. /\ pc[i] \notin Waiting \cup {"loop", "exited"} /\ UNCHANGED <<buffered, found>>
        /\ UNCHANGED <<register_now, id_holder, chunk_done>>
    BY <1>6 DEF Silence, SearchAgain, EndOfSearch, WaitTo, PopReport, Waiting, baton, search
  <2>2. \A j \in Id : Turn(j)' = Turn(j)
    BY <2>1, TurnFrame
  <2>3. pc'[i] \notin Waiting \cup {"loop"}
    BY <1>6 DEF Silence, SearchAgain, EndOfSearch, WaitTo, PopReport, CallIfDue, Goto, Waiting, Core, Types
  <2>4. Now(i) \in Int /\ Now(i)' \in Int /\ Now(i) <= Now(i)'
    <3>1. CASE SearchAgain(i)
      <4>1. chunk'[i] \in Int /\ pos'[i] = 0 /\ Now(i)' = ChunkStart(chunk'[i]) + pos'[i]
        BY <3>1, LaterChunk, Positions, ConstantTypes DEF Now, ChunkStart
      <4> QED  BY <3>1, <4>1, LaterChunk, Positions, ChunkTimes
    <3>2. CASE ~SearchAgain(i)
      <4>1. chunk' = chunk /\ (pos' = pos \/ pos' = [pos EXCEPT ![i] = pos[i] + 1])
        BY <1>6, <3>2 DEF Silence, EndOfSearch, WaitTo, PopReport, Step, search
      <4>2. pos[i] \in Nat /\ ChunkStart(chunk[i]) \in Int /\ (pos'[i] = pos[i] \/ pos'[i] = pos[i] + 1)
        BY <4>1, Positions DEF Core, Types
      <4> QED  BY <4>1, <4>2 DEF Now
    <3> QED  BY <3>1, <3>2
  <2>5. \A p \in Served : Behind(i, p) => Behind(i, p)'
    BY <1>0, <2>1, <2>2, <2>3, <2>4, BehindKept
  <2>6. Served' = Served
    <3>1. CASE PopReport(i)
      BY <3>1, ServedFrame
    <3>2. CASE ~PopReport(i)
      <4>1. jobs' = jobs
        BY <1>6, <3>2 DEF Silence, SearchAgain, EndOfSearch, WaitTo, queue
      <4> QED  BY <1>2, <4>1
    <3> QED  BY <3>1, <3>2
  <2> QED  BY <1>1, <1>6, <2>1, <2>2, <2>5, <2>6 DEF WorkerStep
<1>7. ASSUME NEW i \in Id, NEW e \in Error, Detect(i, e) PROVE BehindInv'
  <2>1. pc[i] = "search" /\ jobs' = jobs /\ UNCHANGED <<register_now, id_holder, chunk_done>>
    BY <1>7 DEF Detect, baton, queue
  <2>2. \A j \in Id : Turn(j)' = Turn(j)
    BY <2>1, TurnFrame
  <2>3. \A p \in Served : Behind(i, p) => Behind(i, p)'
    BY <1>0, <1>7, BehindDetect
  <2> QED  BY <1>1, <1>2, <1>7, <2>1, <2>2, <2>3 DEF WorkerStep
<1>8. ASSUME NEW i \in Id, WaitTimeout(i) PROVE BehindInv'
  <2>1. /\ jobs' = jobs /\ pc'[i] = "exited" /\ UNCHANGED <<register_now, id_holder, chunk_done>>
    BY <1>8 DEF WaitTimeout, Goto, baton, queue, Core, Types
  <2>2. \A j \in Id : Turn(j)' = Turn(j)
    BY <2>1, TurnFrame
  <2> QED  BY <1>1, <1>2, <1>8, <2>1, <2>2
\* The holder enqueues what it has in its hands.
<1>9. ASSUME ~Failed, NEW i \in Id, NEW d, NEW l, WorkerStep(i), EnqueuesNext(i, d),
             EnqueueDetection(i, d, l),
             UNCHANGED <<packets, register_now, id_holder, chunk_done>>,
             \A p \in Nat : Behind(i, p) \/ p = d.of => Behind(i, p)'
      PROVE  BehindInv'
  <2>1. Served' = Served \cup {d.of} /\ d.of \in Nat
    BY <1>9, EnqueueEffect DEF EnqueuesNext, Det
  <2>2. \A p \in Served : Behind(i, p)
    BY <1>9 DEF BehindInv, EnqueuesNext
  <2>3. \A p \in Served' : Behind(i, p)'
    BY <1>0, <1>9, <2>1, <2>2
  <2>4. Stuck \/ \A j \in Id : j # i => d.of < ChunkStart(Turn(j)) + B
    BY <1>9, OverlapOnly
  <2>5. i = id_holder /\ \A j \in Id : Turn(j)' = Turn(j)
    BY <1>9, TurnFrame DEF EnqueuesNext
  <2> QED  BY <1>9, <2>1, <2>3, <2>4, <2>5, BehindFrame
<1>10. ASSUME ~Failed, NEW i \in Id, Flush(i) PROVE BehindInv'
  <2>1. pc[i] = "flush" /\ UNCHANGED <<register_now, id_holder, packets, chunk_done>>
    BY <1>10 DEF Flush
  <2>2. CASE buffered[i] = <<>>
    <3>1. /\ jobs' = jobs /\ UNCHANGED <<chunk, pos, buffered, found>> /\ pc'[i] = "emit"
          /\ \A j \in Id : Turn(j)' = Turn(j)
      BY <1>10, <2>1, <2>2, TurnFrame DEF Flush, Goto, Core, Types
    <3>2. Now(i) \in Int /\ Now(i)' = Now(i)
      BY <3>1, Positions DEF Now
    <3>3. \A p \in Served : Behind(i, p) => Behind(i, p)'
      BY <1>0, <2>1, <3>1, <3>2, BehindKept DEF Waiting
    <3> QED  BY <1>1, <1>2, <1>10, <2>1, <3>1, <3>3 DEF WorkerStep
  <2>3. CASE buffered[i] # <<>>
    <3>1. PICK d : d = Head(buffered[i])
      OBVIOUS
    <3>2. EnqueuesNext(i, d) /\ EnqueueDetection(i, d, "flush")
      BY <1>10, <2>3, <3>1, FlushNext DEF Flush
    <3>3. \A p \in Nat : Behind(i, p) \/ p = d.of => Behind(i, p)'
      BY <1>10, <2>3, <3>1, BehindFlush
    <3> QED  BY <1>9, <1>10, <2>1, <3>2, <3>3 DEF WorkerStep
  <2> QED  BY <2>2, <2>3
<1>11. ASSUME ~Failed, NEW i \in Id, Emit(i) PROVE BehindInv'
  <2>1. pc[i] = "emit" /\ UNCHANGED <<register_now, id_holder, packets, chunk_done>>
    BY <1>11 DEF Emit
  <2>2. CASE found[i] = <<>>
    <3>1. /\ jobs' = jobs /\ UNCHANGED <<chunk, pos, buffered, found>> /\ pc'[i] = "search"
          /\ \A j \in Id : Turn(j)' = Turn(j)
      BY <1>11, <2>1, <2>2, TurnFrame DEF Emit, Goto, Core, Types
    <3>2. Now(i) \in Int /\ Now(i)' = Now(i)
      BY <3>1, Positions DEF Now
    <3>3. \A p \in Served : Behind(i, p) => Behind(i, p)'
      BY <1>0, <2>1, <3>1, <3>2, BehindKept DEF Waiting
    <3> QED  BY <1>1, <1>2, <1>11, <2>1, <3>1, <3>3 DEF WorkerStep
  <2>3. CASE found[i] # <<>>
    <3>1. PICK d : d = found[i][1]
      OBVIOUS
    <3>2. EnqueuesNext(i, d) /\ EnqueueDetection(i, d, "search")
      BY <1>11, <2>3, <3>1, EmitNext DEF Emit
    <3>3. \A p \in Nat : Behind(i, p) \/ p = d.of => Behind(i, p)'
      BY <1>11, <2>3, <3>1, BehindEmit
    <3> QED  BY <1>9, <1>11, <2>1, <3>2, <3>3 DEF WorkerStep
  <2> QED  BY <2>2, <2>3
<1>12. ASSUME NEW i \in Id, PassOn(i) PROVE BehindInv'
  <2>1. /\ pc[i] = "search" /\ Active(i) /\ Completed(i) /\ UNCHANGED <<chunk, pos, buffered, found>>
    BY <1>12 DEF PassOn, search, Active, Waiting
  <2>2. Served' = Served
    BY <1>12, ServedFrame
  <2>3. CASE Continuous(i)
    <3>1. /\ chunk[i] = CurrentChunk /\ Turn(i) = chunk[i] /\ Turn(i)' = chunk[i] + N
          /\ \A j \in Id : j # i => Turn(j)' = Turn(j)
      BY <1>12, <2>3, TurnPassesOn, TurnTypes
    <3>2. /\ chunk[i] \in Nat /\ ChunkStart(chunk[i]) \in Nat /\ Now(i) = ChunkStart(chunk[i]) + (A + B)
      BY <2>1, Positions DEF Now, Completed
    <3>3. ChunkStart(chunk[i]) + A <= ChunkStart(chunk[i] + N) /\ ChunkStart(chunk[i] + N) \in Int
      <4>1. chunk[i] \in Int /\ chunk[i] + N \in Int /\ chunk[i] < chunk[i] + N
        BY <3>2, ConstantTypes
      <4> QED  BY <4>1, ChunkOrder, ChunkTimes
    <3>4. ASSUME NEW p \in Served, Behind(i, p) PROVE p < ChunkStart(chunk[i] + N) + B
      <4>1. p < ChunkStart(chunk[i]) + B \/ p < Now(i)
        BY <3>1, <3>4 DEF Behind
      <4>2. p \in Nat
        BY <1>0
      <4> QED  BY <3>2, <3>3, <4>1, <4>2, ConstantTypes
    <3>5. ChunkStart(Turn(i))' = ChunkStart(chunk[i] + N)
      BY <3>1 DEF ChunkStart
    <3>6. \A p \in Served : Behind(i, p) => Behind(i, p)'
      BY <3>4, <3>5 DEF Behind
    <3> QED  BY <1>1, <1>12, <2>1, <2>2, <3>1, <3>6 DEF WorkerStep
  <2>4. CASE ~Continuous(i)
    <3>1. pc'[i] = "failed" /\ UNCHANGED <<register_now, id_holder, chunk_done>>
      BY <1>12, <2>4 DEF PassOn, Goto, Core, Types
    <3>2. \A j \in Id : Turn(j)' = Turn(j)
      BY <3>1, TurnFrame
    <3>3. Now(i) \in Int /\ Now(i)' = Now(i)
      BY <2>1, Positions DEF Now
    <3>4. \A p \in Served : Behind(i, p) => Behind(i, p)'
      BY <1>0, <2>1, <3>1, <3>2, <3>3, BehindKept DEF Waiting
    <3> QED  BY <1>1, <1>12, <2>1, <2>2, <3>2, <3>4 DEF WorkerStep
  <2> QED  BY <2>3, <2>4
<1>13. CASE (\E t \in ReportTime : PushReport(t)) \/ Stop \/ Terminated \/ UNCHANGED vars
  <2>1. /\ UNCHANGED <<jobs, pc, chunk, pos, buffered, found>>
        /\ UNCHANGED <<register_now, id_holder, chunk_done>>
    BY <1>13 DEF PushReport, Stop, Terminated, vars, baton, search, queue
  <2>2. Served' = Served /\ (Stuck' <=> Stuck) /\ \A j \in Id : Turn(j)' = Turn(j)
    BY <1>2, <2>1, TurnFrame DEF Stuck, Active, CurrentChunk
  <2>3. \A j \in Id, p \in Served : Behind(j, p)' <=> Behind(j, p)
    BY <2>1, <2>2 DEF Behind, Active, Now, ChunkStart
  <2> QED  BY <2>1, <2>2, <2>3 DEF BehindInv
<1> QED  BY <1>3, <1>4, <1>5, <1>6, <1>7, <1>8, <1>10, <1>11, <1>12, <1>13 DEF Next, WorkerStep

-----------------------------------------------------------------------------
(* Nothing detected is lost *)

\* What a worker has in its hands does not lie before the chunk of its turn.
LEMMA InHandsFrom ==
    ASSUME Core, HandInv, NEW k \in Id, NEW p \in InHandsOf(k)
    PROVE  ChunkStart(Turn(k)) <= p
<1>1. buffered[k] \in Seq(Det) /\ found[k] \in Seq(Det)
  BY DEF Core, Types
<1>2. /\ DOMAIN buffered[k] = 1 .. Len(buffered[k])
      /\ DOMAIN found[k] = 1 .. Len(found[k])
  BY <1>1
<1>3. /\ \A n \in DOMAIN buffered[k] : ChunkStart(Turn(k)) <= buffered[k][n].of
      /\ \A n \in DOMAIN found[k] : ChunkStart(Turn(k)) <= found[k][n].of
  BY <1>2 DEF HandInv, Hand, InChunk
<1> QED  BY <1>3 DEF InHandsOf

LEMMA KeptFrame ==
    ASSUME KeptInv, NEW i \in Id, Served \subseteq Served',
           \A j \in Id : j # i => buffered'[j] = buffered[j] /\ found'[j] = found[j],
           InHandsOf(i) \subseteq InHandsOf(i)' \cup Served',
           detected' \ detected \subseteq InHandsOf(i)'
    PROVE  KeptInv'
<1>1. InHand = UNION {InHandsOf(j) : j \in Id} /\ InHand' = UNION {InHandsOf(j)' : j \in Id}
  BY DEF InHand, InHandsOf
<1>2. \A j \in Id : j # i => InHandsOf(j)' = InHandsOf(j)
  BY DEF InHandsOf
<1>3. InHand \subseteq InHand' \cup Served'
  BY <1>1, <1>2
<1>4. detected' \ detected \subseteq InHand'
  BY <1>1
<1> QED  BY <1>3, <1>4 DEF KeptInv

LEMMA KeptStep ==
    ASSUME Core, Core', ChunkInv, HandInv, BehindInv, JobsInv, LastInv, KeptInv, [Next]_vars
    PROVE  KeptInv'
<1>0. ASSUME UNCHANGED <<buffered, found>> PROVE InHand' = InHand
  BY <1>0 DEF InHand, InHandsOf
<1>1. ASSUME UNCHANGED <<jobs, buffered, found, detected>> PROVE KeptInv'
  <2>1. InHand' = InHand /\ Served' = Served
    BY <1>0, <1>1 DEF Served, Jobs
  <2> QED  BY <1>1, <2>1 DEF KeptInv
<1>2. ASSUME NEW i \in Id, Loop(i) PROVE KeptInv'
  <2>1. buffered[i] = <<>> /\ found[i] = <<>> /\ UNCHANGED <<jobs, detected>>
    BY <1>2 DEF Loop, queue, HandInv, Hand, Waiting
  <2>2. /\ buffered' = buffered \/ buffered' = [buffered EXCEPT ![i] = <<>>]
        /\ found' = found \/ found' = [found EXCEPT ![i] = <<>>]
    BY <1>2 DEF Loop
  <2>3. buffered' = buffered /\ found' = found
    BY <2>1, <2>2, ZenonT(60) DEF Core, Types
  <2> QED  BY <1>1, <2>1, <2>3
<1>3. ASSUME NEW i \in Id, NEW e \in Error, Detect(i, e) PROVE KeptInv'
  <2>1. PICK d : d = Detection(Now(i), e)
    OBVIOUS
  <2>2. PICK b : b = buffered[i]
    OBVIOUS
  <2>3. /\ detected' = detected \cup {d.of} /\ jobs' = jobs
        /\ \/ /\ buffered' = [buffered EXCEPT ![i] = Append(b, d)] /\ found' = found
           \/ buffered' = buffered /\ found' = [found EXCEPT ![i] = <<d>>]
    BY <1>3, <2>1, <2>2 DEF Detect, queue
  <2>4. found[i] = <<>> /\ b \in Seq(Det)
    BY <1>3, <2>2 DEF Detect, HandInv, Hand, Core, Types
  <2>5. \A j \in Id : j # i => buffered'[j] = buffered[j] /\ found'[j] = found[j]
    BY <2>3 DEF Core, Types
  <2>6. InHandsOf(i) \subseteq InHandsOf(i)' /\ d.of \in InHandsOf(i)'
    <3>1. CASE buffered'[i] = Append(b, d) /\ found'[i] = <<>>
      <4>1. PICK c : c = Append(b, d)
        OBVIOUS
      <4>2. /\ Len(b) \in Nat /\ DOMAIN b = 1 .. Len(b) /\ DOMAIN c = 1 .. Len(b) + 1
            /\ c[Len(b) + 1] = d /\ \A k \in 1 .. Len(b) : c[k] = b[k]
        BY <2>4, <4>1
      <4>3. Len(b) + 1 \in DOMAIN c /\ DOMAIN b \subseteq DOMAIN c
        BY <4>2
      <4>4. d.of \in {c[k].of : k \in DOMAIN c}
        BY <4>2, <4>3
      <4>5. {b[k].of : k \in DOMAIN b} \subseteq {c[k].of : k \in DOMAIN c}
        BY <4>2, <4>3
      <4>6. {found[i][k].of : k \in DOMAIN found[i]} = {}
        BY <2>4
      <4>7. buffered'[i] = c
        BY <3>1, <4>1
      <4>8. {buffered'[i][k].of : k \in DOMAIN buffered'[i]} = {c[k].of : k \in DOMAIN c}
        BY <4>7
      <4>9. {c[k].of : k \in DOMAIN c} \subseteq InHandsOf(i)'
        BY <4>8 DEF InHandsOf
      <4>10. InHandsOf(i) = {b[k].of : k \in DOMAIN b}
        BY <2>2, <4>6 DEF InHandsOf
      <4> QED  BY <4>4, <4>5, <4>9, <4>10
    <3>2. CASE buffered'[i] = b /\ found'[i] = <<d>>
      <4>1. d.of \in {<<d>>[k].of : k \in DOMAIN <<d>>}
        <5>1. 1 \in DOMAIN <<d>> /\ <<d>>[1] = d
          OBVIOUS
        <5> QED  BY <5>1
      <4>2. {found[i][k].of : k \in DOMAIN found[i]} = {}
        BY <2>4
      <4> QED  BY <2>2, <3>2, <4>1, <4>2 DEF InHandsOf
    <3> QED  BY <2>2, <2>3, <2>4, <3>1, <3>2 DEF Core, Types
  <2>7. Served' = Served
    BY <2>3 DEF Served, Jobs
  <2> QED  BY <2>3, <2>5, <2>6, <2>7, KeptFrame
<1>4. ASSUME ~Failed, NEW i \in Id, Flush(i) PROVE KeptInv'
  <2>1. UNCHANGED <<packets, chunk_done, found, detected>>
    BY <1>4 DEF Flush
  <2>2. CASE buffered[i] = <<>>
    BY <1>1, <1>4, <2>1, <2>2 DEF Flush
  <2>3. CASE buffered[i] # <<>>
    <3>1. PICK b : b = buffered[i]
      OBVIOUS
    <3>2. /\ b \in Seq(Det) /\ b # <<>> /\ buffered'[i] = Tail(b)
          /\ \A j \in Id : j # i => buffered'[j] = buffered[j]
      BY <1>4, <2>3, <3>1 DEF Flush, Core, Types
    <3>3. EnqueuesNext(i, Head(b)) /\ EnqueueDetection(i, Head(b), "flush")
      BY <1>4, <2>3, <3>1, FlushNext DEF Flush
    <3>4. Served' = Served \cup {b[1].of}
      BY <1>4, <2>1, <3>2, <3>3, EnqueueEffect, TailElements
    <3>5. {b[k].of : k \in DOMAIN b} \subseteq {Tail(b)[k].of : k \in DOMAIN Tail(b)} \cup {b[1].of}
      <4>1. /\ Len(b) \in Nat /\ DOMAIN b = 1 .. Len(b) /\ DOMAIN Tail(b) = 1 .. Len(b) - 1
            /\ \A k \in 1 .. Len(b) - 1 : Tail(b)[k] = b[k + 1]
        BY <3>2
      <4>2. ASSUME NEW k \in 1 .. Len(b), k # 1 PROVE b[k].of \in {Tail(b)[l].of : l \in DOMAIN Tail(b)}
        <5>1. k - 1 \in 1 .. Len(b) - 1 /\ (k - 1) + 1 = k
          BY <4>1, <4>2
        <5>2. k - 1 \in DOMAIN Tail(b) /\ Tail(b)[k - 1] = b[k]
          BY <4>1, <5>1
        <5> QED  BY <5>2
      <4> QED  BY <4>1, <4>2
    <3>6. InHandsOf(i) \subseteq InHandsOf(i)' \cup Served'
      BY <2>1, <3>1, <3>2, <3>4, <3>5, SMTT(60) DEF InHandsOf
    <3> QED  BY <2>1, <3>2, <3>4, <3>6, KeptFrame
  <2> QED  BY <2>2, <2>3
<1>5. ASSUME ~Failed, NEW i \in Id, Emit(i) PROVE KeptInv'
  <2>1. UNCHANGED <<packets, chunk_done, buffered, detected>>
    BY <1>5 DEF Emit
  <2>2. CASE found[i] = <<>>
    BY <1>1, <1>5, <2>1, <2>2 DEF Emit
  <2>3. CASE found[i] # <<>>
    <3>1. PICK f : f = found[i]
      OBVIOUS
    <3>2. /\ f \in Seq(Det) /\ f # <<>> /\ Len(f) <= 1
          /\ \A j \in Id : j # i => found'[j] = found[j]
      BY <1>5, <2>3, <3>1 DEF Emit, HandInv, Hand, Core, Types
    <3>3. EnqueuesNext(i, f[1]) /\ EnqueueDetection(i, f[1], "search")
      BY <1>5, <2>3, <3>1, EmitNext DEF Emit
    <3>4. Served' = Served \cup {f[1].of}
      BY <1>5, <2>1, <3>3, EnqueueEffect
    <3>5. {f[k].of : k \in DOMAIN f} \subseteq {f[1].of}
      <4>1. DOMAIN f = 1 .. Len(f) /\ Len(f) \in Nat
        BY <3>2
      <4>2. \A k \in DOMAIN f : k = 1
        BY <3>2, <4>1
      <4> QED  BY <4>2
    <3>6. InHandsOf(i) \subseteq InHandsOf(i)' \cup Served'
      BY <2>1, <3>1, <3>4, <3>5 DEF InHandsOf
    <3> QED  BY <2>1, <3>2, <3>4, <3>6, KeptFrame
  <2> QED  BY <2>2, <2>3
<1>6. ASSUME NEW i \in Id, PopReport(i) \/ PassOn(i) PROVE KeptInv'
  <2>1. UNCHANGED <<buffered, found, detected>> /\ Served' = Served
    BY <1>6, ServedFrame DEF PopReport, PassOn, search
  <2> QED  BY <1>0, <2>1 DEF KeptInv
<1>7. ASSUME NEW i \in Id,
             \/ (\E s \in Start : Register(i, s)) \/ Leave(i) \/ Silence(i)
             \/ SearchAgain(i) \/ EndOfSearch(i) \/ WaitTo(i) \/ WaitTimeout(i)
      PROVE  KeptInv'
  <2>1. UNCHANGED <<jobs, buffered, found, detected>>
    BY <1>7 DEF Register, Leave, Silence, SearchAgain, EndOfSearch, WaitTo, WaitTimeout, queue, search
  <2> QED  BY <1>1, <2>1
<1>8. CASE (\E t \in ReportTime : PushReport(t)) \/ Stop \/ Terminated \/ UNCHANGED vars
  <2>1. UNCHANGED <<jobs, buffered, found, detected>>
    BY <1>8 DEF PushReport, Stop, Terminated, vars, queue, search
  <2> QED  BY <1>1, <2>1
<1> QED  BY <1>2, <1>3, <1>4, <1>5, <1>6, <1>7, <1>8 DEF Next, WorkerStep

-----------------------------------------------------------------------------
(* The theorems *)

SyncInv == Core /\ ChunkInv /\ HandInv /\ PopInv /\ JobsInv /\ LastInv /\ BehindInv /\ KeptInv

LEMMA SyncInit == Init => SyncInv
<1> SUFFICES ASSUME Init PROVE SyncInv
  OBVIOUS
<1> USE DEF Init
<1>1. Types
  <2>1. packets \subseteq Nat
    BY SyncAssumption
  <2>2. QueueTypes
    BY DEF QueueTypes
  <2>3. pos \in [Id -> 0 .. A + B] /\ id_holder \in Id /\ no_more \in [Id -> Nat]
    <3>1. 0 \in 0 .. A + B /\ 0 \in Id
      BY ConstantTypes
    <3> QED  BY <3>1
  <2>4. <<>> \in Seq(Det) /\ <<>> \in Seq(Job)
    OBVIOUS
  <2> QED  BY <2>1, <2>2, <2>3, <2>4 DEF Types, Pc
<1>2. Gaps
  BY DEF Gaps
<1>3. StartInv
  <2>1. Registered = {}
    BY DEF Registered
  <2> QED  BY <2>1, FS_EmptySet DEF StartInv, Active, Waiting
<1>4. SlotInv
  <2>1. Reserved = {}
    BY DEF Reserved
  <2> QED  BY <2>1, ConstantTypes DEF SlotInv, QueueInv
<1>5. BatonInv
  BY DEF BatonInv
<1>6. ChunkInv
  <2>1. \A i \in Id : NextChunk(i) = N * register_now + i /\ Turn(i) = NextChunk(i)
    BY ConstantTypes DEF Turn, Distance, CurrentChunk, NextChunk, Active, Waiting
  <2>2. \A i \in Id : NextChunk(i) \in Int
    BY <2>1, ConstantTypes
  <2> QED  BY <2>1, <2>2, ConstantTypes DEF ChunkInv, Active, Waiting
<1>7. HandInv
  BY HandEmpty DEF HandInv
<1>8. PopInv
  BY DEF PopInv
<1>9. \A k : Jobs(k) = {}
  BY DEF Jobs
<1>10. JobsInv /\ LastInv /\ BehindInv /\ KeptInv
  BY <1>9 DEF JobsInv, EveryPacketOnce, BarrierHolds, LastInv, BehindInv, Served, KeptInv
<1> QED  BY <1>1, <1>2, <1>3, <1>4, <1>5, <1>6, <1>7, <1>8, <1>10 DEF SyncInv, Core

LEMMA SyncStep == SyncInv /\ [Next]_vars => SyncInv'
<1> SUFFICES ASSUME SyncInv, [Next]_vars PROVE SyncInv'
  OBVIOUS
<1> USE DEF SyncInv
<1>1. Core'
  BY CoreStep
<1> QED  BY <1>1, ChunkStep, HandStep, PopInvStep, JobsStep, BehindStep, KeptStep

\* The invariant of the whole synchronization of a pool.
THEOREM SyncInvariant == Spec => []SyncInv
BY SyncInit, SyncStep, PTL DEF Spec

\* is_sync_time_unique(): packets in the overlap of two chunks, detected by both
\* workers at slightly different times, get one job, and jobs are in order.
THEOREM PacketsOnce == Spec => []EveryPacketOnce
<1>1. SyncInv => EveryPacketOnce
  BY DEF SyncInv, JobsInv
<1> QED  BY <1>1, SyncInvariant, PTL

\* The barrier of a regular job: what comes behind it in the queue is later than the
\* end of its chunk and the latest packet it reports.
THEOREM Barrier == Spec => []BarrierHolds
<1>1. SyncInv => BarrierHolds
  BY DEF SyncInv, JobsInv
<1> QED  BY <1>1, SyncInvariant, PTL

\* Neither a full buffer, nor the arrival of the baton, nor a detection that is not
\* unique loses a packet: it is in the hands of a worker or has its job.
THEOREM DetectionsKept == Spec => []NoDetectionLost
<1>1. SyncInv => NoDetectionLost
  BY DEF SyncInv, KeptInv, Served, NoDetectionLost
<1> QED  BY <1>1, SyncInvariant, PTL

\* enqueue_irregular_job_if_due(): the holder of the baton enqueues, there is a report,
\* and the packets before it have their jobs or are the next ones the holder enqueues,
\* except those missed, and unless the holder went on to a later chunk.
THEOREM IrregularJobsBehindSearch == Spec => []IrregularAfterSearch
<1>1. SyncInv => IrregularAfterSearch
  <2> SUFFICES ASSUME SyncInv, NEW i \in Id, pc[i] = "pop"
               PROVE  /\ id_holder = i /\ it_next # None
                      /\ Continuous(i) =>
                            \A p \in packets : p \in ChunkStart(N * register_now) .. next_time - 1 =>
                                p \in Served \cup InHandsOf(i) \/ Missed(i, p)
    BY DEF IrregularAfterSearch
  <2> USE DEF SyncInv
  <2>1. id_holder = i /\ next_time < Late /\ next_time <= no_more[i] /\ Active(i)
    BY DEF Core, BatonInv, Active, Waiting
  <2>2. it_next # None
    BY RoomForReport, ConstantTypes
  <2>3. ASSUME Continuous(i), NEW p \in packets, p \in ChunkStart(N * register_now) .. next_time - 1
        PROVE  p \in Served \cup InHandsOf(i) \/ Missed(i, p)
    <3>1. chunk[i] = CurrentChunk /\ CurrentChunk \in Int
      BY <2>1, <2>3, AtCurrentChunk, DistanceTypes
    <3>2. chunk[i] \in Nat /\ ChunkStart(chunk[i]) \in Nat /\ Now(i) \in Nat
      BY <2>1, Positions
    <3>3. p \in Nat /\ next_time \in Nat /\ no_more[i] \in Nat
      BY ReportTimes DEF Core, Types, QueueTypes
    <3>4. CASE p \in detected
      <4> SUFFICES ASSUME p \notin Served \cup InHandsOf(i) PROVE p > ChunkEnd(chunk[i])
        BY <3>4 DEF Missed
      <4>1. PICK k \in Id : p \in InHandsOf(k)
        BY <3>4 DEF KeptInv, InHand
      <4>2. k # i /\ p >= ChunkStart(Turn(k))
        BY <4>1, InHandsFrom
      <4>3. Turn(k) \in Int /\ chunk[i] \in Int /\ chunk[i] < Turn(k)
        BY <2>1, <3>1, <4>2, TurnTypes
      <4>4. ChunkStart(chunk[i]) + A <= ChunkStart(Turn(k)) /\ ChunkStart(Turn(k)) \in Int
        BY <4>3, ChunkOrder, ChunkTimes
      <4>5. ChunkEnd(chunk[i]) = ChunkStart(chunk[i]) + A - 1
        BY <4>3, ChunkTimes
      <4> QED  BY <3>2, <3>3, <4>2, <4>4, <4>5, ConstantTypes
    <3>5. CASE p \notin detected
      <4>1. p < no_more[i]
        BY <2>1, <2>3, <3>3
      <4>2. p < Now(i)
        BY <3>5, <4>1 DEF PopInv
      <4>3. CASE p >= ChunkStart(chunk[i])
        <5>1. p \in ChunkStart(chunk[i]) .. Now(i) - 1
          BY <3>2, <3>3, <4>2, <4>3
        <5> QED  BY <3>5, <5>1 DEF Missed
      <4>4. CASE p < ChunkStart(chunk[i])
        <5>1. ASSUME chunk_done = None PROVE FALSE
          <6>1. chunk[i] = N * register_now
            BY <3>1, <5>1 DEF CurrentChunk
          <6> QED  BY <2>3, <3>2, <3>3, <4>4, <6>1
        <5>2. chunk_done \in Nat /\ chunk[i] = chunk_done + 1
          BY <3>1, <5>1 DEF CurrentChunk, Core, Types
        <5>3. ChunkEnd(chunk_done) = ChunkStart(chunk[i]) - 1
          BY <3>2, <5>2, ChunkTimes, ConstantTypes
        <5>4. p <= ChunkEnd(chunk_done)
          BY <3>2, <3>3, <4>4, <5>3
        <5> QED  BY <3>5, <5>1, <5>4 DEF Missed
      <4> QED  BY <3>2, <3>3, <4>3, <4>4
    <3> QED  BY <3>4, <3>5
  <2> QED  BY <2>1, <2>2, <2>3
<1> QED  BY <1>1, SyncInvariant, PTL

=============================================================================
