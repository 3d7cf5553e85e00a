----------------------------- MODULE MCSimulator -----------------------------
(***************************************************************************)
(* Simulated radios for TLC.  In part "space" two of them exchange spp in  *)
(* lockstep, and are stopped in the end.  In part "tx" the TX thread of    *)
(* one of them writes the packets of two workers, and all lockstep is      *)
(* over: VirtualSpace is where it is after work_stop() of all radios.      *)
(***************************************************************************)
EXTENDS VirtualSpace, SimulatorTx

\* Packets of two spp make a TX thread wait without timeout more than once.
MCMaxPacket == 2

P(o, n, t, l) == [order |-> o, next |-> n, time |-> t, len |-> l]

\* The first packet ends within an spp and the second one begins in the same spp.  The
\* third one is longer than the second and begins in a later spp, the fourth one follows.
MCPackets ==
    <<P(0, None, 6, 4), P(1, None, 11, 5), P(2, None, 20, 7), P(3, None, 28, 4)>>

ASSUME MCPlanned == Planned

VARIABLE part
all_vars == <<vars, simulator_vars, part>>

Stopped ==
    /\ registered_tx = Sim /\ registered_rx = Sim /\ all_tx = TRUE /\ all_rx = TRUE
    /\ status_tx_written = All(FALSE) /\ status_rx_read = All(TRUE)
    /\ space = All(-1) /\ now_64 = 0 /\ keep_running = All(FALSE)
    /\ tpc = All("exited") /\ rpc = All("exited")
    /\ tx_now = All(0) /\ rx_now = All(0) /\ left = All(0) /\ stopping = N

RadioInit ==
    /\ \/ part = "space" /\ Init
       \/ part = "tx" /\ Stopped
    /\ SimulatorInit

RadioNext ==
    \/ part = "space" /\ Next /\ UNCHANGED <<simulator_vars, part>>
    \/ part = "tx" /\ SimulatorNext /\ UNCHANGED <<vars, part>>

\* Fairness asks nothing of part "tx": no thread of VirtualSpace can go on there.
RadioSpec == RadioInit /\ [][RadioNext]_all_vars /\ Fairness
=============================================================================
