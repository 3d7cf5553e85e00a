---------------------------- MODULE VirtualSpace ----------------------------
(***************************************************************************)
(* The virtual space in which simulated radios exchange samples (vspace_t) *)
(* and the TX and RX thread of every radio (hw_simulator_t).  After        *)
(* registration the threads run in lockstep: all TX threads write the spp  *)
(* of the current time, then all RX threads read the superposition of all  *)
(* of them, then time moves on.  Time is counted in spp.                   *)
(*                                                                         *)
(* A TX thread writes single spp of zeros, for which it waits with a       *)
(* timeout, or a run of spp for a packet, for which it waits without one.  *)
(* What it writes is SimulatorTx's matter.                                 *)
(***************************************************************************)
EXTENDS Integers, FiniteSets

CONSTANTS
    N,           \* nof_hw_simulator
    MaxPacket,   \* bound: spp of a packet and of the zeros before it
    LastWritten  \* bound: no TX thread writes after it

ASSUME SpaceAssumption == N \in Nat \ {0} /\ MaxPacket \in Nat /\ LastWritten \in Nat

Sim == 0 .. N - 1

VARIABLES
    \* vspace_t
    registered_tx, registered_rx,  \* vspptx_vec, vspprx_counterpart_registered
    all_tx, all_rx,                \* all_tx_registered_and_inits_done, ...
    status_tx_written, status_rx_read,
    space,                         \* time of the spp in vspptx_vec, -1 before the first
    now_64,
    \* hw_simulator_t
    keep_running,
    tpc, tx_now, left,             \* TX: spp left of the packet, 0 without one
    rpc, rx_now,
    stopping                       \* the radio whose work_stop() runs, -1 before

registration == <<registered_tx, registered_rx, all_tx, all_rx>>
tx_vars == <<tpc, tx_now, left>>
rx_vars == <<rpc, rx_now>>
vars == <<registration, status_tx_written, status_rx_read, space, now_64, keep_running, tx_vars, rx_vars,
          stopping>>

TypeOK ==
    /\ registered_tx \subseteq Sim /\ registered_rx \subseteq Sim
    /\ all_tx \in BOOLEAN /\ all_rx \in BOOLEAN
    /\ status_tx_written \in [Sim -> BOOLEAN] /\ status_rx_read \in [Sim -> BOOLEAN]
    /\ space \in [Sim -> Nat \cup {-1}] /\ now_64 \in Nat
    /\ keep_running \in [Sim -> BOOLEAN]
    /\ tpc \in [Sim -> {"register", "registered", "loop", "wait_to", "wait_nto", "write", "exited"}]
    /\ rpc \in [Sim -> {"register", "registered", "loop", "wait", "read", "exited"}]
    /\ tx_now \in [Sim -> 0 .. LastWritten] /\ rx_now \in [Sim -> Nat]
    /\ left \in [Sim -> 0 .. MaxPacket]
    /\ stopping \in -1 .. N

Init ==
    /\ registered_tx = {} /\ registered_rx = {} /\ all_tx = FALSE /\ all_rx = FALSE
    /\ status_tx_written = [i \in Sim |-> FALSE] /\ status_rx_read = [i \in Sim |-> FALSE]
    /\ space = [i \in Sim |-> -1] /\ now_64 = 0
    /\ keep_running = [i \in Sim |-> TRUE]
    /\ tpc = [i \in Sim |-> "register"] /\ rpc = [i \in Sim |-> "register"]
    /\ tx_now = [i \in Sim |-> 0] /\ rx_now = [i \in Sim |-> 0] /\ left = [i \in Sim |-> 0]
    /\ stopping = -1

Set(f, i, v) == [f EXCEPT ![i] = v]
All(v) == [i \in Sim |-> v]

-----------------------------------------------------------------------------
(* Registration: all TX threads, then all RX threads *)

RegisterTx(i) ==
    /\ tpc[i] = "register"
    /\ registered_tx' = registered_tx \cup {i}
    /\ all_tx' = (registered_tx' = Sim)
    /\ tpc' = Set(tpc, i, "registered")
    /\ UNCHANGED <<registered_rx, all_rx, status_tx_written, status_rx_read, space, now_64,
                   keep_running, tx_now, left, rx_vars, stopping>>

\* The last one allows TX threads to write and blocks RX threads.
RegisterRx(i) ==
    /\ rpc[i] = "register" /\ all_tx
    /\ registered_rx' = registered_rx \cup {i}
    /\ all_rx' = (registered_rx' = Sim)
    /\ IF all_rx'
       THEN status_tx_written' = All(FALSE) /\ status_rx_read' = All(TRUE)
       ELSE UNCHANGED <<status_tx_written, status_rx_read>>
    /\ rpc' = Set(rpc, i, "registered")
    /\ UNCHANGED <<registered_tx, all_tx, space, now_64, keep_running, tx_vars, rx_now, stopping>>

StartTx(i) ==
    /\ tpc[i] = "registered" /\ all_rx
    /\ tpc' = Set(tpc, i, "loop")
    /\ UNCHANGED <<registration, status_tx_written, status_rx_read, space, now_64, keep_running, tx_now,
                   left, rx_vars, stopping>>

StartRx(i) ==
    /\ rpc[i] = "registered" /\ all_rx
    /\ rpc' = Set(rpc, i, "loop")
    /\ UNCHANGED <<registration, status_tx_written, status_rx_read, space, now_64, keep_running, tx_vars,
                   rx_now, stopping>>

-----------------------------------------------------------------------------
(* TX threads *)

\* The next packet is there and takes k spp, zeros before it included, or zeros
\* are sent.
LoopTx(i) ==
    /\ tpc[i] = "loop"
    /\ IF keep_running[i]
       THEN /\ tx_now[i] < LastWritten
            /\ \/ tpc' = Set(tpc, i, "wait_to") /\ UNCHANGED left
               \/ \E k \in 1 .. MaxPacket :
                      /\ tx_now[i] + k <= LastWritten
                      /\ left' = Set(left, i, k) /\ tpc' = Set(tpc, i, "wait_nto")
       ELSE tpc' = Set(tpc, i, "exited") /\ UNCHANGED left
    /\ UNCHANGED <<registration, status_tx_written, status_rx_read, space, now_64, keep_running, tx_now,
                   rx_vars, stopping>>

\* wait_writable_to() and wait_writable_nto() find the flag cleared.
Writable(i) ==
    /\ tpc[i] \in {"wait_to", "wait_nto"} /\ ~status_tx_written[i]
    /\ tpc' = Set(tpc, i, "write")
    /\ UNCHANGED <<registration, status_tx_written, status_rx_read, space, now_64, keep_running, tx_now,
                   left, rx_vars, stopping>>

\* Only the first one gives up, to check keep_running; the other one waits again.
TimeoutTx_Never(i) ==
    /\ tpc[i] \in {"wait_to", "wait_nto"}
    /\ UNCHANGED vars
TimeoutTx(i) ==
    /\ tpc[i] \in {"wait_to", "wait_nto"}
    /\ tpc' = Set(tpc, i, IF tpc[i] = "wait_to" THEN "loop" ELSE "wait_nto")
    /\ UNCHANGED <<registration, status_tx_written, status_rx_read, space, now_64, keep_running, tx_now,
                   left, rx_vars, stopping>>

\* The last TX thread to write lets all RX threads read.
LastToWrite_Before == \A j \in Sim : status_tx_written[j]
LastToWrite_Any == TRUE
LastToWrite == \A j \in Sim : status_tx_written'[j]

Remaining(i) == IF left[i] > 0 THEN left[i] - 1 ELSE 0

Write(i) ==
    /\ tpc[i] = "write"
    /\ space' = Set(space, i, tx_now[i])
    /\ status_tx_written' = Set(status_tx_written, i, TRUE)
    /\ status_rx_read' = IF LastToWrite THEN All(FALSE) ELSE status_rx_read
    /\ tx_now' = Set(tx_now, i, tx_now[i] + 1)
    /\ left' = Set(left, i, Remaining(i))
    /\ tpc' = Set(tpc, i, IF left'[i] > 0 THEN "wait_nto" ELSE "loop")
    /\ UNCHANGED <<registration, now_64, keep_running, rx_vars, stopping>>

-----------------------------------------------------------------------------
(* RX threads *)

LoopRx(i) ==
    /\ rpc[i] = "loop"
    /\ rpc' = Set(rpc, i, IF keep_running[i] THEN "wait" ELSE "exited")
    /\ UNCHANGED <<registration, status_tx_written, status_rx_read, space, now_64, keep_running, tx_vars,
                   rx_now, stopping>>

Readable(i) ==
    /\ rpc[i] = "wait" /\ ~status_rx_read[i]
    /\ rpc' = Set(rpc, i, "read")
    /\ UNCHANGED <<registration, status_tx_written, status_rx_read, space, now_64, keep_running, tx_vars,
                   rx_now, stopping>>

TimeoutRx(i) ==
    /\ rpc[i] = "wait"
    /\ rpc' = Set(rpc, i, "loop")
    /\ UNCHANGED <<registration, status_tx_written, status_rx_read, space, now_64, keep_running, tx_vars,
                   rx_now, stopping>>

\* The last RX thread to read advances the time and lets all TX threads write.
LastToRead == \A j \in Sim : status_rx_read'[j]

Read(i) ==
    /\ rpc[i] = "read"
    /\ status_rx_read' = Set(status_rx_read, i, TRUE)
    /\ IF LastToRead
       THEN now_64' = now_64 + 1 /\ status_tx_written' = All(FALSE)
       ELSE UNCHANGED <<now_64, status_tx_written>>
    /\ rx_now' = Set(rx_now, i, rx_now[i] + 1)
    /\ rpc' = Set(rpc, i, "loop")
    /\ UNCHANGED <<registration, space, keep_running, tx_vars, stopping>>

-----------------------------------------------------------------------------
(* The main thread: work_stop() of one radio after the other *)

CallStop(i) ==
    /\ keep_running' = Set(keep_running, i, FALSE)
    /\ stopping' = i

Stop ==
    /\ \/ stopping = -1 /\ CallStop(0)
       \/ /\ stopping \in Sim
          /\ rpc[stopping] = "exited" /\ tpc[stopping] = "exited"
          /\ IF stopping + 1 < N THEN CallStop(stopping + 1)
                                 ELSE stopping' = N /\ UNCHANGED keep_running
    /\ UNCHANGED <<registration, status_tx_written, status_rx_read, space, now_64, tx_vars, rx_vars>>

\* All radios have stopped.
Terminated == stopping = N /\ UNCHANGED vars

-----------------------------------------------------------------------------

ThreadTx(i) == RegisterTx(i) \/ StartTx(i) \/ LoopTx(i) \/ Write(i)
ThreadRx(i) == RegisterRx(i) \/ StartRx(i) \/ LoopRx(i) \/ Read(i)

Next ==
    \/ \E i \in Sim : ThreadTx(i) \/ Writable(i) \/ TimeoutTx(i)
    \/ \E i \in Sim : ThreadRx(i) \/ Readable(i) \/ TimeoutRx(i)
    \/ Stop
    \/ Terminated

Spec == Init /\ [][Next]_vars

\* All threads run.  Waiting threads look at their flag at least every 100 ms: what
\* they wait for does not escape them, and without it they time out.
Fairness ==
    /\ \A i \in Sim :
        /\ WF_vars(ThreadTx(i)) /\ SF_vars(Writable(i)) /\ WF_vars(TimeoutTx(i))
        /\ WF_vars(ThreadRx(i)) /\ SF_vars(Readable(i)) /\ WF_vars(TimeoutRx(i))
    /\ WF_vars(stopping >= 0 /\ Stop)

FairSpec == Spec /\ Fairness

-----------------------------------------------------------------------------
(* Properties *)

\* The assertions of vspace_t: nobody writes or reads twice at the same time, and the
\* times of the radio and of the virtual space are the same.
SpaceAssertions ==
    \A i \in Sim :
        /\ tpc[i] = "write" => ~status_tx_written[i] /\ tx_now[i] = now_64
        /\ rpc[i] = "read" => ~status_rx_read[i] /\ rx_now[i] = now_64

\* A receiver hears all transmitters at the same instant: no spp is missing in the
\* superposition, and none is from the future.
Superposition ==
    \A i, j \in Sim : rpc[i] = "read" => space[j] = rx_now[i]

\* No spp is overwritten before everyone has heard it.
NobodyOverwrites ==
    [][\A j \in Sim : space'[j] # space[j] => \A i \in Sim : rx_now[i] > space[j]]_vars

\* Time passes as long as all radios run, whatever they send.
TimePasses ==
    \A t \in 1 .. LastWritten : <>(now_64 >= t \/ stopping # -1)

\* It does unless some radio transmits a packet meanwhile, although stopped radios no
\* longer take part in the lockstep and threads of one radio stop one by one.
SilentShutdown == stopping = 0 ~> stopping = N \/ \E i \in Sim : left[i] > 0

=============================================================================
