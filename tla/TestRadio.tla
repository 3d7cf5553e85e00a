----------------------------- MODULE TestRadio ------------------------------
(***************************************************************************)
(* What the firmware for measurements (basic to txrxdelay) has in common:  *)
(* irregular callbacks that come after the time they were asked for, and   *)
(* packets that PHY generates, transmits, and hands back once received.    *)
(*                                                                         *)
(* All times are relative to the present: positive ones lie ahead. Time is *)
(* that of the samples received (buffer_rx_t::get_rx_time_passed).         *)
(***************************************************************************)
EXTENDS Integers, Sequences, SequencesExt

CONSTANTS
  Turnaround,   \* hw_t::tmin_t::turnaround
  PacketLength, \* get_N_samples_in_packet_length()
  Late,         \* bound: how late an irregular callback may be
  Lag,          \* bound: how long after its end a packet is still processed
  NofProcesses  \* TX processes of process_pool_t

ASSUME RadioAssumption ==
    /\ Turnaround \in Nat \ {0} /\ PacketLength \in Nat \ {0}
    /\ Late \in Nat \ {0} /\ Lag \in Nat /\ NofProcesses \in Nat \ {0}

VARIABLES
  reports,  \* irregular_report_t pending: [at, handle]
  air,      \* packets in the order of tx_order_id: [radio, at, from, tag, ahead, stage]
  earliest, \* tx_earliest_64
  failed    \* the assertion that failed, or "none"

radio == <<reports, air, earliest, failed>>

RadioInit == reports = {} /\ air = <<>> /\ earliest = -1 /\ failed = "none"

irregular_report_t(at, handle) == [at |-> at, handle |-> handle]
Requested(at) == {irregular_report_t(at, 0)}

\* an irregular callback comes once its time has passed
Due(r) == r \in reports /\ r.at < 0

\* A HARQ process is taken until the packet is generated, before it begins.
Available(r) == NofProcesses - Cardinality({i \in DOMAIN air : air[i].radio = r /\ air[i].at > 0})

\* a packet asked for now: who sends it and as whom, and what it is about
buffer_tx_meta_t(r, at, from, tag) ==
    [radio |-> r, at |-> at, from |-> from, tag |-> tag, ahead |-> at, stage |-> "sent"]
\* packets of radio r; those for which there is no process are left out
Generate(r, packets) ==
    air' = air \o (IF Len(packets) <= Available(r) THEN packets ELSE SubSeq(packets, 1, Available(r)))
asapAfter(tx_earliest_64) == IF tx_earliest_64 > Turnaround THEN tx_earliest_64 ELSE Turnaround
asap == asapAfter(earliest)

\* PHY goes through packets in the order of their times; a PCC may be missed or have a wrong CRC.
NextPcc(i) == /\ i \in DOMAIN air /\ air[i].stage = "sent" /\ air[i].at < 0
              /\ \A j \in 1..i - 1 : air[j].radio = air[i].radio => air[j].stage = "pdc"
NextPdc(i) == i \in DOMAIN air /\ air[i].stage = "pdc" /\ air[i].at + PacketLength <= 0
Drop(i) == air' = RemoveAt(air, i)
\* worksub_pcc2pdc
Proceed(i) == air' = [air EXCEPT ![i].stage = "pdc"]

\* Time passes as long as no callback and no packet is overdue.
Earlier(t, floor) == IF t > floor THEN t - 1 ELSE floor
PassTime ==
    /\ \A r \in reports : r.at > -Late
    /\ \A i \in DOMAIN air : air[i].at + PacketLength > -Lag
    /\ reports' = {[r EXCEPT !.at = @ - 1] : r \in reports}
    /\ air' = [i \in DOMAIN air |-> [air[i] EXCEPT !.at = @ - 1]]
    /\ earliest' = Earlier(earliest, -1)
    /\ failed' = failed

\* What one radio transmits never overlaps, follows the order of the ids, and is asked for in time.
InOrder ==
    \A i \in DOMAIN air :
        /\ air[i].ahead >= Turnaround
        /\ \A j \in DOMAIN air : (i < j /\ air[i].radio = air[j].radio)
                                     => air[i].at + PacketLength <= air[j].at
=============================================================================
