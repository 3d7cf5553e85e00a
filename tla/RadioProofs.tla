------------------------------ MODULE RadioProofs ------------------------------
(***************************************************************************)
(* The radio layer.  The lockstep of the virtual space, for every number   *)
(* of radios, every length of packets and at any time, and the RX buffer   *)
(* of a radio, for every ring, number of samples per call, unit, period of *)
(* the notifications and number of workers, and wherever the hardware      *)
(* drops samples.                                                          *)
(***************************************************************************)
EXTENDS RxBuffer, VirtualSpace, TLAPS

--------------------------------------------------------------------------------
(* The virtual space: there are two phases.  As long as some TX thread has *)
(* not written, all RX threads have read the previous spp.  As long as     *)
(* some RX thread has not read, all TX threads have written the current    *)
(* one.  The phase determines how far ahead of the common time every       *)
(* thread is.                                                              *)

TpcValues == {"register", "registered", "loop", "wait_to", "wait_nto", "write", "exited"}
RpcValues == {"register", "registered", "loop", "wait", "read", "exited"}

\* Types of the variables that matter.
Types ==
    /\ status_tx_written \in [Sim -> BOOLEAN] /\ status_rx_read \in [Sim -> BOOLEAN]
    /\ space \in [Sim -> Int] /\ now_64 \in Int
    /\ tpc \in [Sim -> TpcValues] /\ rpc \in [Sim -> RpcValues]
    /\ tx_now \in [Sim -> Int] /\ rx_now \in [Sim -> Int]

\* Who has registered.
Registration ==
    /\ all_rx <=> registered_rx = Sim
    /\ registered_rx \subseteq Sim
    /\ \A i \in Sim : rpc[i] = "register" <=> i \notin registered_rx

\* Nothing has happened before all have registered.
Before ==
    /\ \A i \in Sim : tpc[i] \in {"register", "registered"} /\ rpc[i] \in {"register", "registered"}
    /\ \A i \in Sim : tx_now[i] = now_64 /\ rx_now[i] = now_64

Writing ==
    /\ \E i \in Sim : ~status_tx_written[i]
    /\ \A i \in Sim : status_rx_read[i] /\ rx_now[i] = now_64
    /\ \A i \in Sim : tx_now[i] = IF status_tx_written[i] THEN now_64 + 1 ELSE now_64

Reading ==
    /\ \A i \in Sim : status_tx_written[i] /\ tx_now[i] = now_64 + 1
    /\ \E i \in Sim : ~status_rx_read[i]
    /\ \A i \in Sim : rx_now[i] = IF status_rx_read[i] THEN now_64 + 1 ELSE now_64

\* A thread that is about to write or to read has not done so yet, and what was
\* written last is one spp old.
Threads ==
    /\ \A i \in Sim : tpc[i] = "write" => ~status_tx_written[i]
    /\ \A i \in Sim : rpc[i] = "read" => ~status_rx_read[i]
    /\ \A i \in Sim : space[i] = tx_now[i] - 1

Lockstep ==
    /\ Types /\ Registration /\ Threads
    /\ IF all_rx THEN Writing \/ Reading ELSE Before

-----------------------------------------------------------------------------

\* There is a radio.
LEMMA SomeSim == ASSUME SpaceAssumption PROVE 0 \in Sim
BY DEF SpaceAssumption, Sim

\* The initial state is in lockstep.
LEMMA InitLockstep == ASSUME SpaceAssumption, Init PROVE Lockstep
<1> USE DEF Init, TpcValues, RpcValues
<1>1. Types
  BY DEF Types
<1>2. Registration
  BY SomeSim DEF Registration
<1>3. Threads /\ Before
  BY DEF Threads, Before
<1> QED  BY <1>1, <1>2, <1>3 DEF Lockstep

\* Registration: the last RX thread starts the first phase.
LEMMA RegisterRxLockstep ==
    ASSUME SpaceAssumption, Lockstep, NEW i \in Sim, RegisterRx(i)
    PROVE  Lockstep'
<1> USE DEF Set, All, RpcValues
<1>1. ~all_rx /\ Before
  BY DEF RegisterRx, Lockstep, Registration
<1>2. /\ registered_rx' = registered_rx \cup {i} /\ all_rx' = (registered_rx' = Sim)
      /\ rpc' = [rpc EXCEPT ![i] = "registered"]
      /\ UNCHANGED <<space, now_64, tpc, tx_now, rx_now>>
  BY DEF RegisterRx, tx_vars
<1>3. Registration'
  BY <1>2 DEF Registration, Lockstep, Types
<1>4. CASE all_rx'
  <2>1. status_tx_written' = [j \in Sim |-> FALSE] /\ status_rx_read' = [j \in Sim |-> TRUE]
    BY <1>4 DEF RegisterRx
  <2>2. Types'
    BY <1>2, <2>1 DEF Lockstep, Types
  <2>3. Writing'
    BY <1>1, <1>2, <2>1, SomeSim DEF Before, Writing
  <2>4. Threads'
    BY <1>1, <1>2, <2>1 DEF Before, Threads, Lockstep, Types
  <2> QED  BY <1>3, <1>4, <2>2, <2>3, <2>4 DEF Lockstep
<1>5. CASE ~all_rx'
  <2>1. UNCHANGED <<status_tx_written, status_rx_read>>
    BY <1>5 DEF RegisterRx
  <2>2. Types' /\ Before'
    BY <1>1, <1>2, <2>1 DEF Lockstep, Types, Before
  <2>3. Threads'
    BY <1>1, <1>2, <2>1 DEF Before, Threads, Lockstep, Types
  <2> QED  BY <1>3, <1>5, <2>2, <2>3 DEF Lockstep
<1> QED  BY <1>4, <1>5

\* The last TX thread that writes ends the phase of writing.
LEMMA WriteLockstep ==
    ASSUME SpaceAssumption, Lockstep, NEW i \in Sim, Write(i)
    PROVE  Lockstep'
<1> USE DEF Set, All
<1>1. tpc[i] = "write" /\ ~status_tx_written[i] /\ all_rx /\ Writing
  BY DEF Write, Lockstep, Threads, Before, Reading
<1>2. /\ space' = [space EXCEPT ![i] = tx_now[i]]
      /\ status_tx_written' = [status_tx_written EXCEPT ![i] = TRUE]
      /\ tx_now' = [tx_now EXCEPT ![i] = tx_now[i] + 1]
      /\ UNCHANGED <<registered_rx, all_rx, now_64, rpc, rx_now>>
  BY DEF Write, registration, rx_vars
<1>3. tpc' \in [Sim -> TpcValues] /\ tpc'[i] # "write" /\ \A j \in Sim : j # i => tpc'[j] = tpc[j]
  BY DEF Write, Lockstep, Types, TpcValues
<1>4. Registration'
  BY <1>2 DEF Registration, Lockstep
<1>5. tx_now[i] = now_64 /\ \A j \in Sim : rx_now[j] = now_64
  BY <1>1 DEF Writing
<1>6. /\ status_tx_written' \in [Sim -> BOOLEAN] /\ space' \in [Sim -> Int] /\ now_64' \in Int
      /\ tx_now' \in [Sim -> Int] /\ rx_now' \in [Sim -> Int] /\ rpc' \in [Sim -> RpcValues]
      /\ status_rx_read \in [Sim -> BOOLEAN]
  BY <1>2 DEF Lockstep, Types
<1>7. CASE LastToWrite
  <2>1. status_rx_read' = [j \in Sim |-> FALSE] /\ \A j \in Sim : status_tx_written'[j]
    BY <1>7 DEF Write, LastToWrite
  <2>2. Types'
    BY <1>2, <1>3, <1>6, <2>1 DEF Types
  <2>3. \A j \in Sim : tx_now'[j] = now_64' + 1
    BY <1>1, <1>2, <1>5, <2>1 DEF Writing, Lockstep, Types
  <2>4. Reading'
    BY <1>2, <1>5, <2>1, <2>3, SomeSim DEF Reading
  <2>5. Threads'
    BY <1>2, <1>3, <2>1 DEF Threads, Lockstep, Types
  <2> QED  BY <1>1, <1>2, <1>4, <2>2, <2>4, <2>5 DEF Lockstep
<1>8. CASE ~LastToWrite
  <2>1. status_rx_read' = status_rx_read /\ \E j \in Sim : ~status_tx_written'[j]
    BY <1>8 DEF Write, LastToWrite
  <2>2. Types'
    BY <1>2, <1>3, <1>6, <2>1 DEF Types
  <2>3. Writing'
    BY <1>1, <1>2, <1>5, <2>1 DEF Writing, Lockstep, Types
  <2>4. Threads'
    BY <1>2, <1>3, <2>1 DEF Threads, Lockstep, Types
  <2> QED  BY <1>1, <1>2, <1>4, <2>2, <2>3, <2>4 DEF Lockstep
<1> QED  BY <1>7, <1>8

\* The last RX thread that reads advances the time and ends the phase of reading.
LEMMA ReadLockstep ==
    ASSUME SpaceAssumption, Lockstep, NEW i \in Sim, Read(i)
    PROVE  Lockstep'
<1> USE DEF Set, All, RpcValues
<1>1. rpc[i] = "read" /\ ~status_rx_read[i] /\ all_rx /\ Reading
  BY DEF Read, Lockstep, Threads, Before, Writing
<1>2. /\ status_rx_read' = [status_rx_read EXCEPT ![i] = TRUE]
      /\ rx_now' = [rx_now EXCEPT ![i] = rx_now[i] + 1]
      /\ rpc' = [rpc EXCEPT ![i] = "loop"]
      /\ UNCHANGED <<registered_rx, all_rx, space, tpc, tx_now>>
  BY DEF Read, registration, tx_vars
<1>3. Registration'
  BY <1>1, <1>2 DEF Registration, Lockstep, Types
<1>4. rx_now[i] = now_64 /\ \A j \in Sim : tx_now[j] = now_64 + 1
  BY <1>1 DEF Reading
<1>5. CASE LastToRead
  <2>1. /\ now_64' = now_64 + 1 /\ status_tx_written' = [j \in Sim |-> FALSE]
        /\ \A j \in Sim : status_rx_read'[j]
    BY <1>5 DEF Read, LastToRead
  <2>2. Types'
    BY <1>2, <2>1 DEF Lockstep, Types
  <2>3. \A j \in Sim : rx_now'[j] = now_64'
    BY <1>1, <1>2, <1>4, <2>1 DEF Reading, Lockstep, Types
  <2>4. Writing'
    BY <1>2, <1>4, <2>1, <2>3, SomeSim DEF Writing
  <2>5. Threads'
    BY <1>2, <2>1 DEF Threads, Lockstep, Types
  <2> QED  BY <1>1, <1>2, <1>3, <2>2, <2>4, <2>5 DEF Lockstep
<1>6. CASE ~LastToRead
  <2>1. UNCHANGED <<now_64, status_tx_written>> /\ \E j \in Sim : ~status_rx_read'[j]
    BY <1>6 DEF Read, LastToRead
  <2>2. Types'
    BY <1>2, <2>1 DEF Lockstep, Types
  <2>3. Reading'
    BY <1>1, <1>2, <1>4, <2>1 DEF Reading, Lockstep, Types
  <2>4. Threads'
    BY <1>2, <2>1 DEF Threads, Lockstep, Types
  <2> QED  BY <1>1, <1>2, <1>3, <2>2, <2>3, <2>4 DEF Lockstep
<1> QED  BY <1>5, <1>6
-----------------------------------------------------------------------------

\* No other action touches flags or times.
LEMMA OthersLockstep ==
    ASSUME SpaceAssumption, Lockstep,
           UNCHANGED <<registered_rx, all_rx, status_tx_written, status_rx_read, space, now_64, tx_now, rx_now>>,
           NEW i \in Sim,
           \/ RegisterTx(i) \/ StartTx(i) \/ LoopTx(i) \/ Writable(i) \/ TimeoutTx(i)
           \/ StartRx(i) \/ LoopRx(i) \/ Readable(i) \/ TimeoutRx(i)
           \/ UNCHANGED <<tpc, rpc>>
    PROVE  Lockstep'
<1> DEFINE TxStays == \A j \in Sim : j # i => tpc'[j] = tpc[j]
           RxStays == \A j \in Sim : j # i => rpc'[j] = rpc[j]
<1>1. \/ /\ rpc' = rpc /\ tpc' \in [Sim -> TpcValues] /\ TxStays
         /\ tpc'[i] = "write" => ~status_tx_written[i]
         /\ ~all_rx => tpc'[i] \in {"register", "registered"}
      \/ /\ tpc' = tpc /\ rpc' \in [Sim -> RpcValues] /\ RxStays
         /\ rpc'[i] = "read" => ~status_rx_read[i]
         /\ all_rx /\ rpc[i] # "register" /\ rpc'[i] # "register"
  <2>1. CASE RegisterTx(i)
    BY <2>1 DEF RegisterTx, rx_vars, Set, Lockstep, Types, TpcValues
  <2>2. CASE StartTx(i)
    BY <2>2 DEF StartTx, rx_vars, Set, Lockstep, Types, TpcValues
  <2>3. CASE LoopTx(i)
    BY <2>3 DEF LoopTx, rx_vars, Set, Lockstep, Before, Types, TpcValues
  <2>4. CASE Writable(i)
    BY <2>4 DEF Writable, rx_vars, Set, Lockstep, Before, Types, TpcValues
  <2>5. CASE TimeoutTx(i)
    BY <2>5 DEF TimeoutTx, rx_vars, Set, Lockstep, Before, Types, TpcValues
  <2>6. CASE StartRx(i)
    BY <2>6 DEF StartRx, tx_vars, Set, Lockstep, Types, RpcValues
  <2>7. CASE LoopRx(i)
    BY <2>7 DEF LoopRx, tx_vars, Set, Lockstep, Before, Types, RpcValues
  <2>8. CASE Readable(i)
    BY <2>8 DEF Readable, tx_vars, Set, Lockstep, Before, Types, RpcValues
  <2>9. CASE TimeoutRx(i)
    BY <2>9 DEF TimeoutRx, tx_vars, Set, Lockstep, Before, Types, RpcValues
  <2>10. CASE UNCHANGED <<tpc, rpc>>
    BY <2>10 DEF Lockstep, Types, Threads, Before
  <2> QED  BY <2>1, <2>2, <2>3, <2>4, <2>5, <2>6, <2>7, <2>8, <2>9, <2>10
<1>2. Types'
  BY <1>1 DEF Lockstep, Types
<1>3. Registration'
  BY <1>1 DEF Lockstep, Registration
<1>4. Threads'
  BY <1>1 DEF Lockstep, Threads
<1>5. ~all_rx => Before'
  BY <1>1 DEF Lockstep, Before
<1>6. (Writing => Writing') /\ (Reading => Reading')
  BY DEF Writing, Reading
<1> QED  BY <1>2, <1>3, <1>4, <1>5, <1>6 DEF Lockstep

\* Every step keeps the lockstep.
LEMMA NextLockstep == ASSUME SpaceAssumption, Lockstep, [Next]_vars PROVE Lockstep'
<1> DEFINE Same == UNCHANGED <<registered_rx, all_rx, status_tx_written, status_rx_read, space, now_64,
                               tx_now, rx_now>>
<1>1. CASE \E i \in Sim : ThreadTx(i) \/ Writable(i) \/ TimeoutTx(i)
  <2>1. PICK i \in Sim : ThreadTx(i) \/ Writable(i) \/ TimeoutTx(i)
    BY <1>1
  <2>2. CASE Write(i)
    BY <2>2, WriteLockstep
  <2>3. CASE RegisterTx(i) \/ StartTx(i) \/ LoopTx(i) \/ Writable(i) \/ TimeoutTx(i)
    <3>1. Same
      BY <2>3 DEF RegisterTx, StartTx, LoopTx, Writable, TimeoutTx, registration, rx_vars
    <3> QED  BY <2>3, <3>1, OthersLockstep
  <2> QED  BY <2>1, <2>2, <2>3 DEF ThreadTx
<1>2. CASE \E i \in Sim : ThreadRx(i) \/ Readable(i) \/ TimeoutRx(i)
  <2>1. PICK i \in Sim : ThreadRx(i) \/ Readable(i) \/ TimeoutRx(i)
    BY <1>2
  <2>2. CASE Read(i)
    BY <2>2, ReadLockstep
  <2>3. CASE RegisterRx(i)
    BY <2>3, RegisterRxLockstep
  <2>4. CASE StartRx(i) \/ LoopRx(i) \/ Readable(i) \/ TimeoutRx(i)
    <3>1. Same
      BY <2>4 DEF StartRx, LoopRx, Readable, TimeoutRx, registration, tx_vars
    <3> QED  BY <2>4, <3>1, OthersLockstep
  <2> QED  BY <2>1, <2>2, <2>3, <2>4 DEF ThreadRx
<1>3. CASE Stop \/ Terminated \/ UNCHANGED vars
  <2>1. Same /\ UNCHANGED <<tpc, rpc>>
    BY <1>3 DEF Stop, Terminated, vars, registration, tx_vars, rx_vars
  <2> QED  BY <2>1, SomeSim, OthersLockstep
<1> QED  BY <1>1, <1>2, <1>3 DEF Next

-----------------------------------------------------------------------------

\* The two phases hold at any time.
THEOREM LockstepHolds == ASSUME SpaceAssumption PROVE Spec => []Lockstep
<1>1. Init => Lockstep
  BY InitLockstep
<1>2. Lockstep /\ [Next]_vars => Lockstep'
  BY NextLockstep
<1> QED  BY <1>1, <1>2, PTL DEF Spec

\* The assertions of write() and read() in vspace_t never fire.
THEOREM SpaceAssertionsHold == ASSUME SpaceAssumption PROVE Spec => []SpaceAssertions
<1>1. Lockstep => SpaceAssertions
  <2> SUFFICES ASSUME Lockstep, NEW i \in Sim
               PROVE  /\ tpc[i] = "write" => ~status_tx_written[i] /\ tx_now[i] = now_64
                      /\ rpc[i] = "read" => ~status_rx_read[i] /\ rx_now[i] = now_64
    BY DEF SpaceAssertions
  <2>1. (tpc[i] = "write" \/ rpc[i] = "read") => all_rx
    BY DEF Lockstep, Before
  <2> QED  BY <2>1 DEF Lockstep, Threads, Writing, Reading
<1> QED  BY <1>1, LockstepHolds, PTL

\* What an RX thread superposes in read() stems from one instant.
THEOREM SuperpositionHolds == ASSUME SpaceAssumption PROVE Spec => []Superposition
<1>1. Lockstep => Superposition
  <2> SUFFICES ASSUME Lockstep, NEW i \in Sim, NEW j \in Sim, rpc[i] = "read"
               PROVE  space[j] = rx_now[i]
    BY DEF Superposition
  <2>1. Reading
    BY DEF Lockstep, Before, Threads, Writing
  <2> QED  BY <2>1 DEF Lockstep, Threads, Reading, Types
<1> QED  BY <1>1, LockstepHolds, PTL

\* write() replaces an spp only after all RX threads have passed it in read().
THEOREM NobodyOverwritesHolds == ASSUME SpaceAssumption PROVE Spec => NobodyOverwrites
<1> DEFINE Safe == \A j \in Sim : space'[j] # space[j] => \A i \in Sim : rx_now[i] > space[j]
<1>1. ASSUME Lockstep, Next PROVE Safe
  <2> SUFFICES ASSUME NEW j \in Sim, space'[j] # space[j], NEW i \in Sim PROVE rx_now[i] > space[j]
    OBVIOUS
  <2>1. PICK k \in Sim : Write(k)
    <3>1. ASSUME NEW k \in Sim, ThreadTx(k) \/ Writable(k) \/ TimeoutTx(k), ~Write(k) PROVE FALSE
      BY <3>1 DEF ThreadTx, RegisterTx, StartTx, LoopTx, Writable, TimeoutTx
    <3>2. ASSUME NEW k \in Sim, ThreadRx(k) \/ Readable(k) \/ TimeoutRx(k) PROVE FALSE
      BY <3>2 DEF ThreadRx, RegisterRx, StartRx, LoopRx, Read, Readable, TimeoutRx
    <3>3. ~Stop /\ ~Terminated
      BY DEF Stop, Terminated, vars
    <3> QED  BY <1>1, <3>1, <3>2, <3>3 DEF Next
  <2>2. j = k
    BY <2>1 DEF Write, Set, Lockstep, Types
  <2>3. Writing /\ ~status_tx_written[k]
    BY <1>1, <2>1 DEF Write, Lockstep, Threads, Before, Reading
  <2> QED  BY <1>1, <2>2, <2>3 DEF Lockstep, Threads, Writing, Types
<1>2. Lockstep /\ [Next]_vars => [Safe]_vars
  BY <1>1
<1> QED  BY <1>2, LockstepHolds, PTL DEF Spec, NobodyOverwrites

--------------------------------------------------------------------------------
(* The RX buffer: a worker that waits for samples is woken in time, and    *)
(* the samples it copies are of the time it asks for.                      *)

Pc == {"idle", "copy", "wait", "asleep", "poll"}
Pacers == [pc : Pc, at : Int, ahead : Int, left : Int]

(* The hardware is never so far behind the buffer that the time is moved back:
   what it reports is at most the jitter early. *)
NotBehind == \A j \in Jitter : hw - fresh + j + JitterRange >= 0

(* The next notification is not more than a period away, and not overdue once
   samples have been published. *)
NextInTime == IF Published THEN next \in 0..Period ELSE next <= 0

(* A worker waits for a time that it found to be in the future, and it sleeps
   only as long as no notification has been due since. *)
Waits(r) ==
    LET x == readers[r] IN
    /\ x.pc # "idle" => Published
    /\ x.pc = "wait" => x.ahead >= 0
    /\ x.pc = "asleep" => Target(r) >= next - Period

IInv ==
    /\ hw \in Int /\ fresh \in Nat /\ prestream \in Int /\ next \in Int
    /\ readers \in [Reader -> Pacers]
    /\ NotBehind /\ NextInTime
    /\ \A r \in Reader : Waits(r)

(* Times older than the floor are alike; no other time is changed. *)
LEMMA FloorIsPast ==
    Floor \in Int /\ Floor < 0 /\ \A t \in Int : Past(t) \in Int /\ Past(t) >= t /\ (t >= 0 => Past(t) = t)
BY RxBufferAssumption DEF RxBufferAssumption, Floor, Past

(* It holds before the first sample. *)
LEMMA InitIInv == BufferInit => IInv
BY RxBufferAssumption DEF BufferInit, IInv, RxBufferAssumption, Idle, Pacers, Pacer, Pc, NotBehind, NextInTime, Waits, Published, JitterRange


(* recv() adds to the samples that are not yet in the buffer, and dropped samples
   only put the hardware ahead. *)
LEMMA HardwareKeepsIInv ==
    ASSUME IInv, NEW n \in Receives,
           Recv(n) \/ \E gap \in Gaps : Overflow(n, gap)
    PROVE  IInv'
<1>1. n \in Nat /\ Jitter \subseteq Int /\ Gaps \subseteq Nat
    BY RxBufferAssumption DEF RxBufferAssumption, JitterRange
<1>2. UNCHANGED <<prestream, next, readers>>
    BY DEF Recv, Overflow
<1>t. /\ hw \in Int /\ fresh \in Int /\ hw' \in Int /\ fresh' \in Nat
      /\ hw' - fresh' >= hw - fresh
    BY <1>1 DEF IInv, Recv, Overflow
<1>3. NotBehind'
    <2>1. PICK e \in Int, f \in Int : e = hw - fresh /\ f = hw' - fresh' /\ f >= e
        <3>1. hw - fresh \in Int /\ hw' - fresh' \in Int
            BY <1>t
        <3> QED
            BY <1>t, <3>1, Zenon
    <2>2. \A j \in Jitter : e + j + 1 >= 0
        BY <2>1 DEF IInv, NotBehind, JitterRange
    <2>3. \A j \in Jitter : f + j + 1 >= 0
        BY <2>1, <2>2, <1>1
    <2> QED
        BY <2>1, <2>3 DEF NotBehind, JitterRange
<1> QED
    BY <1>2, <1>3, <1>t DEF IInv, NextInTime, Waits, Published, Target

(* What the hardware reports, and by how much the time is corrected. *)
Reported(jitter) == hw - fresh + jitter
Jump(jitter) == IF Resync(-Reported(jitter)) THEN Reported(jitter) ELSE 0

LEMMA JumpForward ==
    ASSUME IInv, NEW jitter \in Jitter
    PROVE  /\ Reported(jitter) + 1 >= 0 /\ Reported(jitter) \in Int
           /\ \/ Jump(jitter) = 0 /\ Reported(jitter) <= 1
              \/ Jump(jitter) = Reported(jitter) /\ Reported(jitter) > 1
<1>1. jitter \in Int /\ hw \in Int /\ fresh \in Nat
    BY RxBufferAssumption DEF RxBufferAssumption, JitterRange, IInv
<1>2. PICK e \in Int : e = Reported(jitter) /\ e + 1 >= 0
    BY <1>1 DEF IInv, NotBehind, JitterRange, Reported
<1>3. Jump(jitter) = IF -e < -1 \/ 1 < -e THEN e ELSE 0
    BY <1>2 DEF Resync, JitterRange, Jump
<1> QED
    BY <1>2, <1>3

(* get_ant_streams_next(): the correction moves the time forwards only, so that a
   notification that is not due remains ahead of every sleeping worker. *)
LEMMA AdvanceKeepsIInv ==
    ASSUME IInv, NEW jitter \in Jitter, Advance(jitter)
    PROVE  IInv'
<1> DEFINE reported == hw - fresh + jitter
           jump == IF Resync(-reported) THEN reported ELSE 0
           step == jump + fresh
           due == prestream - fresh < 0 /\ step >= next
           n == IF prestream - fresh < 0 THEN NextNotification(step, due) ELSE next
<1>1. /\ Jitter \subseteq Int /\ \A i, j \in Jitter : i - j <= 1
      /\ Period \in Nat /\ Unit \in Nat
    BY RxBufferAssumption DEF RxBufferAssumption, JitterRange
<1>2. /\ fresh > 0 /\ hw' = hw - step /\ fresh' = 0
      /\ prestream' = IF prestream < 0 THEN prestream ELSE prestream - fresh
      /\ next' = Past(n - step)
    BY DEF Advance
<1>w. readers' = [r \in Reader |->
                   LET x == readers[r]
                   IN  IF x.pc = "idle" THEN Idle
                       ELSE Pacer(Notify(due)[r], Past(x.at - step), x.ahead, x.left)]
    BY DEF Advance
<1>t. hw \in Int /\ fresh \in Nat /\ prestream \in Int /\ next \in Int /\ jitter \in Int
    BY <1>1 DEF IInv
<1>3. /\ reported + 1 >= 0 /\ reported \in Int
      /\ (jump = 0 /\ reported <= 1) \/ (jump = reported /\ reported > 1)
    BY JumpForward DEF Reported, Jump
<1>r. reported = hw - fresh + jitter
    OBVIOUS
<1> HIDE DEF reported, jump
<1>4. step > 0 /\ step \in Int /\ step = jump + fresh /\ jump \in Int
    BY <1>2, <1>3, <1>t
<1> HIDE DEF step
<1>d. due <=> prestream - fresh < 0 /\ step >= next
    OBVIOUS
<1>n. n = IF prestream - fresh < 0 THEN (IF due THEN step + Period ELSE next) ELSE next
    BY DEF NextNotification
<1> HIDE DEF due, n
<1>5. NotBehind'
    <2> SUFFICES ASSUME NEW j \in Jitter PROVE hw' - fresh' + j + 1 >= 0
        BY DEF NotBehind, JitterRange
    <2>1. hw' - fresh' = hw - fresh - jump /\ j \in Int /\ j - jitter + 1 >= 0
        BY <1>1, <1>2, <1>4, <1>t
    <2>2. hw - fresh + j + 1 >= 0
        BY DEF IInv, NotBehind, JitterRange
    <2> QED
        BY <2>1, <2>2, <1>3, <1>r, <1>t
<1>6. /\ next' \in Int /\ prestream' \in Int /\ hw' \in Int /\ fresh' \in Nat
      /\ prestream' < 0 <=> prestream - fresh < 0
    <2>1. n - step \in Int
        BY <1>1, <1>4, <1>n, <1>t
    <2>2. next' \in Int
        BY <1>2, <2>1, FloorIsPast
    <2> QED
        BY <2>2, <1>2, <1>4, <1>t
<1>7. NextInTime' /\ (Published /\ ~due => next' = next - step)
    <2>1. CASE prestream - fresh >= 0
        <3>1. next <= 0 /\ n = next /\ ~Published
            BY <2>1, <1>n, <1>t DEF IInv, NextInTime, Published
        <3>2. Past(next - step) <= 0
            BY <3>1, <1>4, <1>t, FloorIsPast DEF Past
        <3> QED
            BY <3>1, <3>2, <2>1, <1>2, <1>6, <1>t DEF NextInTime, Published
    <2>2. CASE prestream - fresh < 0 /\ due
        <3>1. n - step = Period
            BY <2>2, <1>1, <1>n, <1>4
        <3>2. next' = Period
            BY <3>1, <1>1, <1>2, FloorIsPast
        <3> QED
            BY <3>2, <2>2, <1>1, <1>6 DEF NextInTime, Published
    <2>3. CASE prestream - fresh < 0 /\ ~due
        <3>1. n = next /\ step < next
            BY <2>3, <1>n, <1>d, <1>4, <1>t
        <3>2. next <= Period /\ Published
            BY <3>1, <1>1, <1>4, <1>t DEF IInv, NextInTime, Published
        <3>3. next' = next - step
            BY <3>1, <1>2, <1>4, <1>t, FloorIsPast
        <3> QED
            BY <3>1, <3>2, <3>3, <2>3, <1>1, <1>4, <1>6, <1>t DEF NextInTime, Published
    <2> QED
        BY <2>1, <2>2, <2>3, <1>t
<1>8. readers' \in [Reader -> Pacers]
    <2> SUFFICES ASSUME NEW r \in Reader PROVE readers'[r] \in Pacers
        BY <1>w
    <2>1. Notify(due)[r] \in Pc /\ readers[r] \in Pacers
        BY DEF IInv, Notify, Pacers, Pc
    <2>2. Past(readers[r].at - step) \in Int
        BY <1>4, FloorIsPast, <2>1 DEF Pacers
    <2> QED
        BY <1>w, <2>1, <2>2 DEF Pacers, Pacer, Idle, Pc
<1>9. ASSUME NEW r \in Reader PROVE Waits(r)'
    <2>0. readers[r] \in Pacers /\ readers'[r] \in Pacers /\ Waits(r)
        BY <1>8 DEF IInv
    <2>1. /\ readers[r].pc # "idle" => /\ readers'[r].pc = Notify(due)[r]
                                       /\ readers'[r].ahead = readers[r].ahead
                                       /\ readers'[r].at = Past(readers[r].at - step)
          /\ readers[r].pc = "idle" => readers'[r].pc = "idle"
          /\ readers[r].at \in Int /\ readers'[r].at \in Int
        BY <1>w, <2>0 DEF Pacers, Pacer, Idle
    <2>2. CASE readers[r].pc = "asleep" /\ ~due
        <3>1. next' = next - step /\ readers'[r].pc = "asleep" /\ Published'
            BY <2>0, <2>1, <2>2, <1>2, <1>6, <1>7, <1>t DEF Waits, Notify, Published
        <3>2. PICK a \in Int, b \in Int : a = readers[r].at /\ b = readers'[r].at /\ b >= a - step
            BY <2>1, <2>2, <1>4, FloorIsPast
        <3>3. a + Unit >= next - Period
            BY <2>0, <2>2, <3>2 DEF Waits, Target
        <3>4. b + Unit >= (next - step) - Period
            BY <3>2, <3>3, <1>1, <1>4, <1>t
        <3> QED
            BY <3>1, <3>2, <3>4 DEF Waits, Target
    <2>3. CASE readers[r].pc # "asleep" \/ due
        <3>1. CASE readers[r].pc = "idle"
            BY <3>1, <2>1 DEF Waits
        <3>2. CASE readers[r].pc # "idle"
            <4>1. readers'[r].pc = IF due /\ readers[r].pc = "asleep" THEN "poll" ELSE readers[r].pc
                BY <2>1, <3>2 DEF Notify
            <4>2. Published'
                BY <2>0, <3>2, <1>2, <1>4, <1>t DEF Waits, Published
            <4> QED
                BY <4>1, <4>2, <2>0, <2>1, <2>3, <3>2 DEF Waits
        <3> QED
            BY <3>1, <3>2
    <2> QED
        BY <2>2, <2>3
<1> QED
    BY <1>5, <1>6, <1>7, <1>8, <1>9 DEF IInv

(* What a worker may do to itself: it does not touch the time. *)
LEMMA SetKeepsIInv ==
    ASSUME IInv, NEW r \in Reader, NEW f \in Pacers, SetReader(r, f),
           f.pc # "idle" => Published,
           f.pc = "wait" => f.ahead >= 0,
           f.pc = "asleep" => f.at + Unit >= next - Period
    PROVE  IInv'
<1>1. UNCHANGED <<hw, fresh, prestream, next>> /\ readers' = [readers EXCEPT ![r] = f]
    BY DEF SetReader
<1>2. readers' \in [Reader -> Pacers]
    BY <1>1 DEF IInv
<1>3. ASSUME NEW s \in Reader PROVE Waits(s)'
    <2>1. CASE s = r
        <3>1. readers'[s] = f
            BY <1>1, <2>1 DEF IInv
        <3> QED
            BY <1>1, <3>1 DEF Waits, Target, Published
    <2>2. CASE s # r
        <3>1. readers'[s] = readers[s]
            BY <1>1, <2>2 DEF IInv
        <3> QED
            BY <1>1, <3>1 DEF IInv, Waits, Target, Published
    <2> QED
        BY <2>1, <2>2
<1> QED
    BY <1>1, <1>2, <1>3 DEF IInv, NotBehind, NextInTime, Published

(* A worker sleeps only if its time was found in the future and has not been
   published again since. *)
LEMMA ReaderKeepsIInv ==
    ASSUME IInv, NEW r \in Reader, ReaderStep(r)
    PROVE  IInv'
<1>1. /\ Starts \subseteq Int /\ UnitsInRow \subseteq Nat /\ Unit \in Nat /\ Period \in Nat /\ Floor \in Int
    BY RxBufferAssumption, FloorIsPast DEF RxBufferAssumption
<1>2. readers[r] \in Pacers /\ Waits(r) /\ next \in Int
    BY DEF IInv
<1>3. readers[r].at \in Int /\ readers[r].ahead \in Int /\ readers[r].left \in Int /\ Target(r) \in Int
    BY <1>1, <1>2 DEF Pacers, Target
<1>f. ASSUME NEW pc \in Pc \ {"idle", "asleep"}, NEW at \in Int, NEW ahead \in Int, NEW todo \in Int,
             pc = "wait" => ahead >= 0, Published, SetReader(r, Pacer(pc, at, ahead, todo))
      PROVE  IInv'
    <2> DEFINE f == Pacer(pc, at, ahead, todo)
    <2>1. f \in Pacers /\ f.pc = pc /\ f.ahead = ahead /\ SetReader(r, f)
        BY <1>f DEF Pacers, Pacer
    <2> HIDE DEF f
    <2> QED
        BY <2>1, <1>f, SetKeepsIInv
<1>4. CASE Begin(r)
    <2>1. PICK t \in Starts, n \in UnitsInRow : SetReader(r, Pacer("copy", t, t + Unit, n))
        BY <1>4 DEF Begin
    <2>2. t \in Int /\ t + Unit \in Int /\ n \in Int /\ "copy" \in Pc \ {"idle", "asleep"} /\ Published
        BY <1>1, <1>4 DEF Begin, Pc
    <2> QED
        BY <2>1, <2>2, <1>f
<1>5. CASE Copy(r)
    <2>1. CASE readers[r].left = 1
        <3>1. SetReader(r, Idle) /\ Idle \in Pacers /\ Idle.pc = "idle"
            BY <1>5, <2>1 DEF Copy, Idle, Pacer, Pacers, Pc
        <3> HIDE DEF Idle
        <3> QED
            BY <3>1, SetKeepsIInv
    <2>2. CASE readers[r].left # 1
        <3>1. PICK at \in Int : SetReader(r, Pacer("copy", at, readers[r].ahead + Unit, readers[r].left - 1))
            <4>1. (IF readers[r].at = Floor THEN Floor ELSE readers[r].at + Unit) \in Int
                BY <1>1, <1>3
            <4> QED
                BY <1>5, <2>2, <4>1 DEF Copy
        <3>2. /\ readers[r].ahead + Unit \in Int /\ readers[r].left - 1 \in Int
              /\ "copy" \in Pc \ {"idle", "asleep"} /\ Published
            BY <1>1, <1>2, <1>3, <1>5 DEF Copy, Pc, Waits
        <3> QED
            BY <3>1, <3>2, <1>f
    <2> QED
        BY <2>1, <2>2
<1>6. CASE WaitUntil(r)
    <2> DEFINE pc == IF Target(r) < 0 THEN "copy" ELSE "wait"
    <2>1. SetReader(r, Pacer(pc, readers[r].at, Target(r), readers[r].left)) /\ Published
        BY <1>2, <1>6 DEF WaitUntil, Waits
    <2>2. pc \in Pc \ {"idle", "asleep"} /\ (pc = "wait" => Target(r) >= 0)
        BY <1>3 DEF Pc
    <2> HIDE DEF pc
    <2> QED
        BY <2>1, <2>2, <1>3, <1>f
<1>7. CASE Sleep(r)
    <2> DEFINE pc == IF Target(r) = readers[r].ahead THEN "asleep" ELSE "poll"
               f == Pacer(pc, readers[r].at, readers[r].ahead, readers[r].left)
    <2>1. SetReader(r, f) /\ readers[r].pc = "wait"
        BY <1>7 DEF Sleep
    <2>2. f \in Pacers /\ f.pc = pc /\ f.at = readers[r].at
        BY <1>3 DEF Pacer, Pacers, Pc
    <2>3. Published /\ readers[r].ahead >= 0 /\ next <= Period
        BY <1>1, <1>2, <2>1 DEF IInv, Waits, NextInTime
    <2>4. pc = "asleep" => readers[r].at + Unit >= next - Period
        BY <1>1, <1>2, <1>3, <2>3 DEF Target
    <2>5. pc # "idle" /\ pc # "wait"
        OBVIOUS
    <2> HIDE DEF f, pc
    <2> QED
        BY <2>1, <2>2, <2>3, <2>4, <2>5, SetKeepsIInv
<1>8. CASE Poll(r)
    <2> DEFINE pc == IF Target(r) > 0 THEN "wait" ELSE "copy"
    <2>1. SetReader(r, Pacer(pc, readers[r].at, Target(r), readers[r].left)) /\ Published
        BY <1>2, <1>8 DEF Poll, Waits
    <2>2. pc \in Pc \ {"idle", "asleep"} /\ (pc = "wait" => Target(r) >= 0)
        BY <1>3 DEF Pc
    <2> HIDE DEF pc
    <2> QED
        BY <2>1, <2>2, <1>3, <1>f
<1> QED
    BY <1>4, <1>5, <1>6, <1>7, <1>8 DEF ReaderStep

(* WokenInTime of rx_synced_t::wait_until_nto(): the thread that publishes new
   times notifies often enough for every worker that may sleep. *)
THEOREM WorkerWokenInTime == BufferSpec => []WokenInTime
<1>1. BufferInit => IInv
    BY InitIInv
<1>2. IInv /\ [BufferNext]_buffer_vars => IInv'
    <2> SUFFICES ASSUME IInv, [BufferNext]_buffer_vars PROVE IInv'
        OBVIOUS
    <2>1. CASE RxStep
        BY <2>1, HardwareKeepsIInv, AdvanceKeepsIInv DEF RxStep
    <2>2. CASE \E r \in Reader : ReaderStep(r)
        BY <2>2, ReaderKeepsIInv
    <2>3. CASE UNCHANGED buffer_vars
        BY <2>3 DEF buffer_vars, IInv, NotBehind, NextInTime, Published, Waits, Target
    <2> QED
        BY <2>1, <2>2, <2>3 DEF BufferNext
<1>3. IInv => WokenInTime
    BY RxBufferAssumption DEF RxBufferAssumption, IInv, NextInTime, Waits, WokenInTime, Target, Pacers, Pacer
<1> QED
    BY <1>1, <1>2, <1>3, PTL DEF BufferSpec

--------------------------------------------------------------------------------
(* The ring: indexes are residues *)

LEMMA Sizes ==
    /\ Ring \in Nat /\ Ring > 0 /\ MaxNew \in Nat /\ MaxNew > 0 /\ MaxNew * 8 <= Ring
    /\ Floor = MaxNew - Ring - 3 /\ Receives \subseteq 1..MaxNew
BY RxBufferAssumption DEF RxBufferAssumption, Floor

(* Division with remainder is unique. *)
LEMMA SameRemainder ==
    ASSUME NEW q \in Int, NEW p \in Int, NEW r \in 0..(Ring - 1), NEW s \in 0..(Ring - 1),
           Ring * q + r = Ring * p + s
    PROVE  r = s
<1>r. Ring \in Nat /\ Ring > 0
    BY Sizes
<1>1. CASE q = p
    BY <1>1, <1>r
<1>2. ASSUME NEW a \in Int, NEW b \in Int, a > b PROVE Ring * a - Ring * b >= Ring
    <2>1. a - b >= 1
        BY <1>2
    <2>2. Ring * (a - b) >= Ring
        BY <2>1, <1>r, SMTT(30)
    <2>3. Ring * (a - b) = Ring * a - Ring * b
        BY <1>r, SMTT(30)
    <2> QED
        BY <2>2, <2>3
<1>3. Ring * q \in Int /\ Ring * p \in Int
    BY <1>r
<1>4. CASE q > p
    <2>1. Ring * q - Ring * p >= Ring
        BY <1>2, <1>4
    <2> QED
        BY <1>3, <1>r, <2>1
<1>5. CASE q < p
    <2>1. Ring * p - Ring * q >= Ring
        BY <1>2, <1>5
    <2> QED
        BY <1>3, <1>r, <2>1
<1> QED
    BY <1>1, <1>4, <1>5

LEMMA Remainder ==
    ASSUME NEW a \in Int
    PROVE  a % Ring \in 0..(Ring - 1) /\ \E q \in Int : a = Ring * q + (a % Ring)
<1>1. /\ a % Ring \in 0..(Ring - 1) /\ a \div Ring \in Int
      /\ a = Ring * (a \div Ring) + (a % Ring)
    BY Sizes
<1> QED
    BY <1>1

LEMMA RemainderIs ==
    ASSUME NEW a \in Int, NEW q \in Int, NEW r \in 0..(Ring - 1), a = Ring * q + r
    PROVE  a % Ring = r
BY Remainder, SameRemainder

(* Samples less than a ring apart have different places. *)
LEMMA OtherPlace ==
    ASSUME NEW a \in Int, NEW b \in Int, a < b, b - a < Ring
    PROVE  a % Ring # b % Ring
<1>1. PICK q \in Int, p \in Int : a = Ring * q + (a % Ring) /\ b = Ring * p + (b % Ring)
    BY Remainder
<1>2. SUFFICES ASSUME a % Ring = b % Ring PROVE FALSE
    OBVIOUS
<1>3. PICK d \in Int : d = b - a /\ d \in 1..(Ring - 1)
    BY Sizes
<1>4. Ring * q \in Int /\ Ring * p \in Int /\ a % Ring \in Int /\ Ring * q + d = Ring * p + 0
    BY <1>1, <1>2, <1>3, Sizes, Remainder
<1>5. d \in 0..(Ring - 1) /\ 0 \in 0..(Ring - 1)
    BY <1>3, Sizes
<1>6. d = 0
    BY <1>4, <1>5, SameRemainder
<1> QED
    BY <1>3, <1>6

LEMMA MovedPlace ==
    ASSUME NEW a \in Int, NEW t \in Int
    PROVE  ((a % Ring) + t) % Ring = (a + t) % Ring
<1>1. PICK q \in Int : a = Ring * q + (a % Ring)
    BY Remainder
<1>2. PICK r \in 0..(Ring - 1) : r = a % Ring
    BY Remainder
<1>3. PICK p \in Int, s \in 0..(Ring - 1) : r + t = Ring * p + s
    BY Remainder
<1>4. (r + t) % Ring = s
    BY <1>3, RemainderIs, r + t \in Int
<1>5. a + t = Ring * (q + p) + s
    <2>1. Ring * (q + p) = Ring * q + Ring * p
        BY Sizes, SMTT(30)
    <2> QED
        BY <1>1, <1>2, <1>3, <2>1, Sizes
<1>6. (a + t) % Ring = s
    BY <1>5, RemainderIs, a + t \in Int, q + p \in Int
<1> QED
    BY <1>2, <1>4, <1>6

LEMMA Places ==
    ASSUME pos \in 0..(Ring - 1), NEW t \in Int, -Ring <= t, t < Ring
    PROVE  /\ pos + t < 0 => Index(t) = pos + t + Ring
           /\ 0 <= pos + t /\ pos + t < Ring => Index(t) = pos + t
           /\ pos + t >= Ring => Index(t) = pos + t - Ring
<1>1. Ring \in Nat /\ Ring > 0 /\ pos + t \in Int
    BY Sizes
<1>2. ASSUME pos + t < 0 PROVE (pos + t) % Ring = pos + t + Ring
    <2>1. pos + t + Ring \in 0..(Ring - 1) /\ pos + t = Ring * (-1) + (pos + t + Ring)
        BY <1>1, <1>2
    <2> QED
        BY <1>1, <2>1, RemainderIs
<1>3. ASSUME 0 <= pos + t, pos + t < Ring PROVE (pos + t) % Ring = pos + t
    <2>1. pos + t \in 0..(Ring - 1) /\ pos + t = Ring * 0 + (pos + t)
        BY <1>1, <1>3
    <2> QED
        BY <1>1, <2>1, RemainderIs
<1>4. ASSUME pos + t >= Ring PROVE (pos + t) % Ring = pos + t - Ring
    <2>1. pos + t - Ring \in 0..(Ring - 1) /\ pos + t = Ring * 1 + (pos + t - Ring)
        BY <1>1, <1>4
    <2> QED
        BY <1>1, <2>1, RemainderIs
<1> QED
    BY <1>2, <1>3, <1>4 DEF Index

--------------------------------------------------------------------------------
(* The samples *)

(* The times which the next call of the hardware cannot overwrite: what is in the
   ring for them is of that time, unless it was lost. *)
Window == (MaxNew - Ring)..-1
Kept == \A t \in Window : t \in lost \/ Near(ring[Index(t)], t)

(* Samples received and not yet added lie in a row from the index on. *)
InARow == \A i \in 0..(fresh - 1) : ring[pos + i] = hw - fresh + i

(* A worker copies up to the time it last loaded, and time has passed since. *)
Behind(r) ==
    LET x == readers[r] IN x.pc # "idle" => x.at = Floor \/ Target(r) <= x.ahead

SamplesInv ==
    /\ pos \in 0..(Ring - 1) /\ ring \in [0..(Ring + MaxNew - 1) -> Int]
    /\ fresh <= MaxNew /\ lost \subseteq Int
    /\ InARow /\ Kept
    /\ \A r \in Reader : Behind(r)

(* Before the first sample everything is lost. *)
LEMMA InitSamples == BufferInit => SamplesInv
<1> SUFFICES ASSUME BufferInit PROVE SamplesInv
    OBVIOUS
<1>1. pos = 0 /\ fresh = 0 /\ lost = Floor..-1 /\ ring = [i \in 0..(Ring + MaxNew - 1) |-> Floor]
    BY DEF BufferInit
<1>2. Kept /\ InARow /\ lost \subseteq Int
    BY <1>1, Sizes DEF Kept, Window, InARow
<1>3. \A r \in Reader : Behind(r)
    BY DEF BufferInit, Behind, Idle, Pacer
<1> QED
    BY <1>1, <1>2, <1>3, Sizes DEF SamplesInv

(* recv() writes outside of the window, what it reports or not. *)
LEMMA HardwareKeepsSamples ==
    ASSUME IInv, SamplesInv, NEW n \in Receives,
           Recv(n) \/ \E gap \in Gaps : Overflow(n, gap)
    PROVE  SamplesInv'
<1>1. n \in 1..MaxNew /\ hw \in Int /\ pos \in 0..(Ring - 1) /\ ring \in [0..(Ring + MaxNew - 1) -> Int]
    BY Sizes DEF IInv, SamplesInv
<1>2. UNCHANGED <<pos, lost, readers>> /\ ring' = Written(n)
    BY DEF Recv, Overflow
<1>3. /\ ring' \in [0..(Ring + MaxNew - 1) -> Int]
      /\ \A i \in 0..(Ring + MaxNew - 1) :
            ring'[i] = IF i \in pos..(pos + n - 1) THEN hw + (i - pos) ELSE ring[i]
    BY <1>1, <1>2 DEF Written
<1>4. Kept'
    <2> SUFFICES ASSUME NEW t \in Window, t \notin lost PROVE Near(ring'[Index(t)], t)
        BY <1>2 DEF Kept, Window, Index
    <2>1. t \in Int /\ -Ring <= t /\ t < 0 /\ t >= MaxNew - Ring
        BY Sizes DEF Window
    <2>2. Index(t) \in 0..(Ring - 1) /\ (Index(t) < pos \/ Index(t) >= pos + MaxNew)
        <3>1. /\ pos + t < 0 => Index(t) = pos + t + Ring
              /\ 0 <= pos + t /\ pos + t < Ring => Index(t) = pos + t
            BY <1>1, <2>1, Sizes, Places
        <3>2. pos \in Int /\ 0 <= pos /\ pos < Ring /\ Ring \in Int /\ MaxNew \in Int
            BY <1>1, Sizes
        <3> QED
            BY <2>1, <3>1, <3>2
    <2>3. ring'[Index(t)] = ring[Index(t)]
        BY <1>1, <1>3, <2>2, Sizes, SMTT(60)
    <2> QED
        BY <2>3 DEF SamplesInv, Kept
<1>5. fresh' <= MaxNew /\ InARow'
    <2>1. CASE Recv(n)
        <3>1. fresh' = n /\ hw' = hw + n
            BY <2>1 DEF Recv
        <3>2. ASSUME NEW i \in 0..(n - 1) PROVE ring'[pos + i] = hw' - n + i
            <4>1. pos + i \in 0..(Ring + MaxNew - 1) /\ pos + i \in pos..(pos + n - 1)
                BY <1>1, Sizes
            <4>2. ring'[pos + i] = hw + ((pos + i) - pos)
                BY <1>3, <4>1
            <4> QED
                BY <1>1, <3>1, <4>2
        <3> QED
            BY <1>1, <1>2, <3>1, <3>2 DEF InARow
    <2>2. CASE \E gap \in Gaps : Overflow(n, gap)
        BY <2>2, Sizes DEF Overflow, InARow
    <2> QED
        BY <2>1, <2>2
<1>6. \A r \in Reader : Behind(r)'
    BY <1>2 DEF SamplesInv, Behind, Target
<1> QED
    BY <1>1, <1>2, <1>3, <1>4, <1>5, <1>6 DEF SamplesInv

(* get_ant_streams_next(): what was received becomes the latest of the window, or
   is lost up to the time the hardware is found to be at. *)
LEMMA AdvanceKeepsSamples ==
    ASSUME IInv, SamplesInv, NEW jitter \in Jitter, Advance(jitter)
    PROVE  SamplesInv'
<1> DEFINE jump == Jump(jitter)
           step == jump + fresh
           wrapped == Wrapped(Index(jump), fresh)
           gone == IF jump = 0 THEN {} ELSE 0..(jump + fresh - 1)
<1>1. /\ fresh > 0 /\ fresh' = 0 /\ pos' = Index(step)
      /\ ring' = [i \in DOMAIN ring |-> Past(wrapped[i] - step)]
      /\ lost' = {t \in {u - step : u \in lost \cup gone} : t >= Floor}
      /\ \A r \in Reader : readers'[r].pc # "idle" =>
            readers'[r].at = Past(readers[r].at - step) /\ readers'[r].ahead = readers[r].ahead
            /\ readers[r].pc # "idle"
    <2>1. /\ fresh > 0 /\ fresh' = 0 /\ pos' = Index(step)
          /\ ring' = [i \in DOMAIN ring |-> Past(wrapped[i] - step)]
          /\ lost' = {t \in {u - step : u \in lost \cup gone} : t >= Floor}
        BY DEF Advance, Jump, Reported
    <2>2. \E due \in BOOLEAN : readers' =
                [r \in Reader |->
                   LET x == readers[r]
                   IN  IF x.pc = "idle" THEN Idle
                       ELSE Pacer(Notify(due)[r], Past(x.at - step), x.ahead, x.left)]
        BY DEF Advance, Jump, Reported
    <2> HIDE DEF step
    <2>3. \A r \in Reader : readers'[r].pc # "idle" =>
            readers'[r].at = Past(readers[r].at - step) /\ readers'[r].ahead = readers[r].ahead
            /\ readers[r].pc # "idle"
        BY <2>2 DEF Idle, Pacer
    <2> QED
        BY <2>1, <2>3 DEF step
<1>2. /\ hw \in Int /\ fresh \in Nat /\ fresh <= MaxNew /\ pos \in 0..(Ring - 1)
      /\ ring \in [0..(Ring + MaxNew - 1) -> Int] /\ lost \subseteq Int
      /\ jitter \in Int /\ -1 <= jitter /\ jitter <= 1
    BY RxBufferAssumption, SMTT(60) DEF RxBufferAssumption, IInv, SamplesInv, JitterRange
<1>3. /\ jump \in Int /\ jump >= 0
      /\ jump = 0 => -2 <= hw - fresh /\ hw - fresh <= 2
    <2>1. PICK e \in Int : e = Reported(jitter) /\ e = hw - fresh + jitter
        BY JumpForward DEF Reported
    <2>2. e + 1 >= 0 /\ ((jump = 0 /\ e <= 1) \/ (jump = e /\ e > 1))
        BY <2>1, JumpForward
    <2> HIDE DEF jump
    <2> QED
        BY <1>2, <2>1, <2>2
<1>p. PICK p \in 0..(Ring - 1), q \in Int : p = Index(jump) /\ pos + jump = Ring * q + p
    <2>1. pos + jump \in Int
        BY <1>2, <1>3
    <2> QED
        BY <2>1, Remainder DEF Index
<1>w. \A i \in 0..(Ring + MaxNew - 1) :
        wrapped[i] = IF i < p + fresh - Ring THEN ring[Ring + i] ELSE ring[i]
    BY <1>2, <1>p DEF Wrapped
<1> HIDE DEF jump, wrapped
<1>4. step \in Int /\ step = jump + fresh /\ step > 0
    BY <1>1, <1>2, <1>3
<1> HIDE DEF step
<1>z. Ring \in Int /\ MaxNew \in Int /\ Ring > 0 /\ MaxNew > 0 /\ MaxNew * 8 <= Ring /\ Floor = MaxNew - Ring - 3
    BY Sizes
(* The old samples of the new window stay where they are. *)
<1>5. ASSUME NEW u \in Int, u < 0, u >= step + MaxNew - Ring
      PROVE  Index(u) \in 0..(Ring - 1) /\ wrapped[Index(u)] = ring[Index(u)]
    <2>1. PICK i \in 0..(Ring - 1) : i = Index(u)
        BY <1>2, Remainder, pos + u \in Int DEF Index
    <2>2. ~(i < p + fresh - Ring)
        <3> SUFFICES ASSUME i < p + fresh - Ring PROVE FALSE
            OBVIOUS
        <3>1. PICK j \in Int : j = Ring - p + i /\ 0 < j /\ j < fresh
            BY <1>2, <1>z
        <3>2. pos + jump + j = Ring * (q + 1) + i
            <4>1. Ring * (q + 1) = Ring * q + Ring
                BY <1>z, SMTT(30)
            <4>2. Ring * q \in Int
                BY <1>z
            <4> QED
                BY <1>2, <1>3, <1>p, <1>z, <3>1, <4>1, <4>2, SMTT(60)
        <3>3. (pos + jump + j) % Ring = i
            <4>1. pos + jump + j \in Int /\ q + 1 \in Int
                BY <1>2, <1>3, <3>1
            <4> QED
                BY <3>2, <4>1, RemainderIs
        <3>4. PICK a \in Int, b \in Int : a = pos + u /\ b = pos + jump + j
            BY <1>2, <1>3
        <3>5. a < b /\ b - a < Ring
            BY <1>2, <1>3, <1>4, <1>5, <1>z, <3>1, <3>4
        <3> QED
            BY <2>1, <3>3, <3>4, <3>5, OtherPlace DEF Index
    <2>3. i \in 0..(Ring + MaxNew - 1)
        BY <1>z
    <2> QED
        BY <1>w, <2>1, <2>2, <2>3
(* The new ones are put together behind the wrap. *)
<1>6. ASSUME jump = 0, NEW u \in 0..(fresh - 1)
      PROVE  Index(u) \in 0..(Ring - 1) /\ wrapped[Index(u)] = hw - fresh + u
    <2>1. p = pos
        <3>1. /\ 0 \in Int /\ -Ring <= 0 /\ 0 < Ring
              /\ pos + 0 = pos /\ 0 <= pos /\ pos < Ring
            BY <1>2, <1>z
        <3>2. Index(0) = pos
            BY <1>2, <3>1, Places
        <3> QED
            BY <1>6, <1>p, <3>2
    <2>2. /\ pos + u < Ring => Index(u) = pos + u
          /\ pos + u >= Ring => Index(u) = pos + u - Ring
        BY <1>2, <1>6, <1>z, Places
    <2>3. ring[pos + u] = hw - fresh + u
        BY DEF SamplesInv, InARow
    <2>4. CASE pos + u < Ring
        <3>1. Index(u) \in 0..(Ring - 1) /\ ~(Index(u) < p + fresh - Ring)
            BY <1>2, <1>z, <2>1, <2>2, <2>4
        <3> QED
            BY <1>w, <1>z, <2>2, <2>3, <2>4, <3>1
    <2>5. CASE pos + u >= Ring
        <3>1. Index(u) \in 0..(Ring - 1) /\ Index(u) < p + fresh - Ring /\ Ring + Index(u) = pos + u
            BY <1>2, <1>z, <2>1, <2>2, <2>5
        <3> QED
            BY <1>w, <1>z, <2>3, <3>1
    <2> QED
        BY <1>2, <1>z, <2>4, <2>5
<1>7. ASSUME NEW t \in Int, NEW v \in Int, Near(v, t + step), t >= MaxNew - Ring
      PROVE  Near(Past(v - step), t)
    <2>1. -2 <= (v - step) - t /\ (v - step) - t <= 2 /\ v - step >= Floor
        BY <1>4, <1>7, <1>z DEF Near
    <2> QED
        BY <1>4, <1>z, <2>1 DEF Near, Past
<1>8. Kept'
    <2> SUFFICES ASSUME NEW t \in Window
                 PROVE  t \in lost' \/ Near(ring'[Index(t)'], t)
        BY DEF Kept, Window
    <2>1. t \in Int /\ t >= MaxNew - Ring /\ t < 0 /\ t >= Floor
        BY <1>z DEF Window
    <2>2. PICK u \in Int : u = t + step
        BY <1>4, <2>1
    <2>3. Index(t)' = Index(u)
        <3>1. (((pos + step) % Ring) + t) % Ring = ((pos + step) + t) % Ring
            BY <1>2, <1>4, <2>1, MovedPlace
        <3>2. (pos + step) + t = pos + u
            BY <1>2, <1>4, <2>1, <2>2
        <3> QED
            BY <1>1, <3>1, <3>2 DEF Index
    <2>4. ASSUME u \in lost \cup gone PROVE t \in lost'
        <3>1. t = u - step
            BY <1>4, <2>1, <2>2
        <3>2. t \in {x - step : x \in lost \cup gone}
            BY <2>4, <3>1
        <3> QED
            BY <1>1, <2>1, <3>2
    <2>5. ASSUME NEW v \in Int, Index(u) \in 0..(Ring - 1), wrapped[Index(u)] = v, Near(v, u)
          PROVE  Near(ring'[Index(t)'], t)
        <3>1. Index(u) \in DOMAIN ring
            BY <1>2, <1>z, <2>5
        <3>2. ring'[Index(t)'] = Past(v - step)
            BY <1>1, <2>3, <2>5, <3>1
        <3> QED
            BY <1>7, <2>1, <2>2, <2>5, <3>2
    <2>6. CASE u < 0
        <3>1. u >= step + MaxNew - Ring /\ u \in Window
            BY <1>4, <1>z, <2>1, <2>2, <2>6 DEF Window
        <3>2. u \in lost \/ Near(ring[Index(u)], u)
            BY <3>1 DEF SamplesInv, Kept
        <3>3. Index(u) \in 0..(Ring - 1) /\ wrapped[Index(u)] = ring[Index(u)]
            BY <1>5, <2>6, <3>1
        <3>4. ring[Index(u)] \in Int
            BY <1>2, <1>z, <3>3
        <3> QED
            BY <2>4, <2>5, <3>2, <3>3, <3>4
    <2>7. CASE u >= 0 /\ jump # 0
        <3>1. u \in gone
            BY <1>2, <1>3, <1>4, <2>1, <2>2, <2>7
        <3> QED
            BY <2>4, <3>1
    <2>8. CASE u >= 0 /\ jump = 0
        <3>1. u \in 0..(fresh - 1)
            BY <1>2, <1>4, <2>1, <2>2, <2>8
        <3>2. PICK v \in Int : v = hw - fresh + u
            BY <1>2, <2>2
        <3>3. Near(v, u)
            BY <1>2, <1>3, <2>8, <3>2 DEF Near
        <3> QED
            BY <1>6, <2>5, <2>8, <3>1, <3>2, <3>3
    <2> QED
        BY <2>2, <2>6, <2>7, <2>8
<1>9. pos' \in 0..(Ring - 1) /\ lost' \subseteq Int /\ fresh' <= MaxNew /\ InARow'
    <2>1. pos + step \in Int
        BY <1>2, <1>4
    <2>2. pos' \in 0..(Ring - 1)
        BY <1>1, <2>1, Remainder DEF Index
    <2>3. lost' \subseteq Int
        BY <1>1, <1>2, <1>4
    <2> QED
        BY <1>1, <1>z, <2>2, <2>3 DEF InARow
<1>10. ring' \in [0..(Ring + MaxNew - 1) -> Int]
    <2> SUFFICES ASSUME NEW i \in 0..(Ring + MaxNew - 1) PROVE Past(wrapped[i] - step) \in Int
        BY <1>1, <1>2
    <2>1. wrapped[i] \in Int
        BY <1>2, <1>w, <1>z
    <2> QED
        BY <1>4, <2>1, FloorIsPast
<1>11. ASSUME NEW r \in Reader PROVE Behind(r)'
    <2> SUFFICES ASSUME readers'[r].pc # "idle"
                 PROVE  readers'[r].at = Floor \/ readers'[r].at + Unit <= readers'[r].ahead
        BY DEF Behind, Target
    <2>1. PICK a \in Int, h \in Int : a = readers[r].at /\ h = readers[r].ahead
        BY DEF IInv, Pacers
    <2>2. readers'[r].at = Past(a - step) /\ readers'[r].ahead = h /\ (a = Floor \/ a + Unit <= h)
        BY <1>1, <2>1 DEF SamplesInv, Behind, Target
    <2>3. Unit \in Int
        BY RxBufferAssumption DEF RxBufferAssumption
    <2> QED
        BY <1>4, <1>z, <2>2, <2>3 DEF Past
<1> QED
    BY <1>8, <1>9, <1>10, <1>11 DEF SamplesInv

(* A worker that goes on copying stays behind the time it loaded. *)
LEMMA ReaderKeepsSamples ==
    ASSUME IInv, SamplesInv, NEW r \in Reader, ReaderStep(r)
    PROVE  SamplesInv'
<1>1. /\ Starts \subseteq Int /\ Unit \in Nat /\ Floor \in Int
      /\ readers \in [Reader -> Pacers] /\ Behind(r)
    BY RxBufferAssumption, FloorIsPast DEF RxBufferAssumption, IInv, SamplesInv
<1>2. readers[r].at \in Int /\ readers[r].ahead \in Int
    BY <1>1 DEF Pacers
<1>3. PICK f : /\ SetReader(r, f)
               /\ f.pc # "idle" => f.at = Floor \/ f.at + Unit <= f.ahead
    <2>1. CASE Begin(r)
        BY <1>1, <2>1 DEF Begin, Pacer
    <2>2. CASE Copy(r)
        <3>1. CASE readers[r].left = 1
            BY <2>2, <3>1 DEF Copy, Idle, Pacer
        <3>2. CASE readers[r].left # 1
            <4> DEFINE at == IF readers[r].at = Floor THEN Floor ELSE readers[r].at + Unit
            <4>1. /\ SetReader(r, Pacer("copy", at, readers[r].ahead + Unit, readers[r].left - 1))
                  /\ readers[r].pc # "idle"
                BY <2>2, <3>2 DEF Copy
            <4>2. at = Floor \/ at + Unit <= readers[r].ahead + Unit
                BY <1>1, <1>2, <4>1 DEF Behind, Target
            <4> QED
                BY <4>1, <4>2 DEF Pacer
        <3> QED
            BY <3>1, <3>2
    <2>3. CASE WaitUntil(r) \/ Poll(r)
        BY <1>1, <1>2, <2>3 DEF WaitUntil, Poll, Pacer, Target
    <2>4. CASE Sleep(r)
        BY <1>1, <2>4 DEF Sleep, Pacer, Behind, Target
    <2> QED
        BY <2>1, <2>2, <2>3, <2>4 DEF ReaderStep
<1>4. readers' = [readers EXCEPT ![r] = f] /\ UNCHANGED <<pos, ring, hw, fresh, lost>>
    BY <1>3 DEF SetReader
<1>5. ASSUME NEW s \in Reader PROVE Behind(s)'
    BY <1>1, <1>3, <1>4 DEF SamplesInv, Behind, Target
<1> QED
    BY <1>4, <1>5 DEF SamplesInv, InARow, Kept, Window, Index

(* SamplesRight of rx_pacer_t and hw_usrp_t::work_rx(): a worker that is not too
   late copies samples of the time it asks for. *)
THEOREM SamplesRightHolds == BufferSpec => []SamplesRight
<1>1. BufferInit => IInv /\ SamplesInv
    BY InitIInv, InitSamples
<1>2. IInv /\ SamplesInv /\ [BufferNext]_buffer_vars => IInv' /\ SamplesInv'
    <2> SUFFICES ASSUME IInv, SamplesInv, [BufferNext]_buffer_vars PROVE IInv' /\ SamplesInv'
        OBVIOUS
    <2>1. CASE RxStep
        BY <2>1, HardwareKeepsIInv, AdvanceKeepsIInv, HardwareKeepsSamples, AdvanceKeepsSamples
           DEF RxStep
    <2>2. CASE \E r \in Reader : ReaderStep(r)
        BY <2>2, ReaderKeepsIInv, ReaderKeepsSamples
    <2>3. CASE UNCHANGED buffer_vars
        <3>1. IInv'
            BY <2>3 DEF buffer_vars, IInv, NotBehind, NextInTime, Published, Waits, Target
        <3>2. SamplesInv'
            BY <2>3 DEF buffer_vars, SamplesInv, InARow, Kept, Window, Index, Behind, Target
        <3> QED
            BY <3>1, <3>2
    <2> QED
        BY <2>1, <2>2, <2>3 DEF BufferNext
<1>3. IInv /\ SamplesInv => SamplesRight
    <2> SUFFICES ASSUME IInv, SamplesInv, NEW r \in Reader, readers[r].pc = "copy",
                        Ready(readers[r].ahead), -readers[r].at <= Ring - MaxNew,
                        NEW t \in readers[r].at..(readers[r].at + Unit - 1)
                 PROVE  t \in lost \/ Near(ring[Index(t)], t)
        BY DEF SamplesRight
    <2>1. PICK a \in Int, h \in Int : a = readers[r].at /\ h = readers[r].ahead
        BY DEF IInv, Pacers
    <2>2. a = Floor \/ a + Unit <= h
        BY <2>1 DEF SamplesInv, Behind, Target
    <2>3. Unit \in Int /\ Unit > 0 /\ t \in a..(a + Unit - 1)
        BY <2>1, RxBufferAssumption DEF RxBufferAssumption
    <2>4. t \in Window
        BY <2>1, <2>2, <2>3, Sizes DEF Ready, Window
    <2> QED
        BY <2>4 DEF SamplesInv, Kept
<1> QED
    BY <1>1, <1>2, <1>3, PTL DEF BufferSpec

================================================================================
