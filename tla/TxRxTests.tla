----------------------------- MODULE TxRxTests ------------------------------
(***************************************************************************)
(* Firmware that measures over and over, once per period:                  *)
(*   txrxdelay: the time between transmission and reception of a packet,   *)
(*   txrxagc:   a front and a back packet with a change of gain between,   *)
(*   chscanner: the power on one frequency after the other.                *)
(***************************************************************************)
EXTENDS TestRadio

CONSTANTS
  Firmware,             \* firmware names to choose from
  Timings,              \* agc_timing_t: when txrxagc changes the gain
  measurement_spacing,  \* of txrxdelay and txrxagc
  P0, P1,               \* txrxagc: from the front packet to the change of gain, and on to the back packet
  Antennas,
  Frequencies,          \* chscanner: freqs.size()
  N_measurement,        \* measurements per frequency
  measurement_period, measurement_spacing_between_frequencies,
  Window                \* length of a channel measurement

\* chscanner: the first measurement comes 50 ms after the start and takes 5 ms.
ASSUME TestAssumption ==
    /\ Firmware \subseteq {"txrxdelay", "txrxagc", "chscanner"}
    /\ {measurement_spacing, P0, P1, measurement_period, measurement_spacing_between_frequencies,
        Window} \subseteq Nat
    /\ Antennas \in Nat \ {0} /\ Frequencies \in Nat \ {0} /\ N_measurement \in Nat \ {0}
    /\ measurement_spacing > Turnaround + 2 * PacketLength + P0 + P1 + Late + Lag
    /\ P1 >= Late + Turnaround
    /\ measurement_spacing_between_frequencies >= Late + Lag + Window
    /\ measurement_period >= Late + Lag /\ measurement_spacing >= Window

VARIABLES
  name, timing,
  next,     \* next_measurement_time_64, measurement_time_64
  tx_last,  \* txrxdelay: tx_time_last_64
  S0, L0, R0, \* txrxagc: transmission time and length of the front packet, when it was received
  cnt,      \* txrxagc: measurement_cnt_64 modulo 2 * Antennas
  gain,     \* txrxagc: rx_power_ant_0dBFS as changes from the first setting, per antenna
  freqs_idx, N_measurement_cnt,
  tuned,    \* time of the latest change of frequency
  scans,    \* chscan_t under way: [end, tuned: at the time it was asked for]
  shown     \* the latest result shown: [value, valid: whether the packets it needs were received]

tests == <<name, timing, next, tx_last, S0, L0, R0, cnt, gain, freqs_idx, N_measurement_cnt, tuned, scans, shown>>
agc == <<S0, L0, R0, cnt, gain>>
chscanner == <<freqs_idx, N_measurement_cnt, tuned, scans>>

Long == 2 * measurement_spacing  \* bound: times further in the past are not told apart
UNDEFINED_EARLY_64 == -Long

\* constructors and work_start
TestsVariables ==
    /\ name \in Firmware /\ timing \in Timings
    /\ next = measurement_spacing
    /\ tx_last = UNDEFINED_EARLY_64 /\ S0 = UNDEFINED_EARLY_64 /\ R0 = UNDEFINED_EARLY_64 /\ L0 = 0
    /\ cnt = 0 /\ gain = [a \in 0..Antennas - 1 |-> 0]
    /\ freqs_idx = 0 /\ N_measurement_cnt = 0 /\ tuned = 0 /\ scans = <<>>
    /\ shown = [value |-> 0, valid |-> FALSE]
TestsInit == TestsVariables /\ reports = Requested(measurement_spacing)
             /\ air = <<>> /\ earliest = -1 /\ failed = "none"

TestsTime ==
    /\ PassTime
    /\ \A i \in DOMAIN scans : scans[i].end > -Lag
    /\ next' = next - 1 /\ tuned' = Earlier(tuned, -Long)
    /\ tx_last' = Earlier(tx_last, -Long) /\ S0' = Earlier(S0, -Long) /\ R0' = Earlier(R0, -Long)
    /\ scans' = [i \in DOMAIN scans |-> [scans[i] EXCEPT !.end = @ - 1]]
    /\ UNCHANGED <<name, timing, L0, cnt, gain, freqs_idx, N_measurement_cnt, shown>>

Check(ok, what) == failed' = IF ok THEN failed ELSE what

-----------------------------------------------------------------------------
(* txrxdelay *)

DelayCallback ==
    \E r \in reports :
        /\ name = "txrxdelay" /\ Due(r)
        /\ Check(next < 0, "time out-of-order")
        /\ next' = next + measurement_spacing
        /\ reports' = Requested(next')
        /\ Generate(1, <<buffer_tx_meta_t(1, asap, "ft", 0)>>)
        /\ IF Available(1) > 0 THEN tx_last' = asap /\ earliest' = asap + PacketLength
           ELSE tx_last' = UNDEFINED_EARLY_64 /\ earliest' = earliest
        /\ UNCHANGED <<name, timing, agc, chscanner, shown>>

\* the time of reception is that of transmission, without the delay of the hardware
DelayPcc(i) ==
    /\ name = "txrxdelay" /\ NextPcc(i) /\ Drop(i)
    /\ shown' \in {shown, [value |-> air[i].at - tx_last, valid |-> TRUE]}
    /\ UNCHANGED <<reports, earliest, failed, name, timing, next, tx_last, agc, chscanner>>

-----------------------------------------------------------------------------
(* txrxagc, as the device that transmits (firmware_id 0) *)

\* get_agc_adj: the gain of one antenna is changed by one step, up and down again
agc_change_dB == 1
ant_idx == (cnt \div 2) % Antennas
Adjusted == [gain EXCEPT ![ant_idx] = IF cnt % 2 = 0 THEN @ + agc_change_dB ELSE @ - agc_change_dB]

\* generate_back, for a front packet at s0 of length l0
S1(s0, l0) == s0 + l0 + P0 + P1
Back(s0, l0) == buffer_tx_meta_t(1, S1(s0, l0), "back", cnt)
BackGenerated ==
    /\ cnt' = (cnt + 1) % (2 * Antennas)
    /\ next' = next + measurement_spacing
    /\ reports' = Requested(next')

\* work_irregular with handle 0
FrontCallback ==
    \E r \in reports :
        /\ name = "txrxagc" /\ Due(r) /\ r.handle = 0
        /\ Check(r.at = next, "incorrect time")
        /\ S0' = Turnaround
        /\ L0' = IF Available(1) > 0 THEN PacketLength ELSE 0
        /\ LET front == buffer_tx_meta_t(1, S0', "front", cnt) IN
           IF timing = "front"
           THEN /\ Generate(1, <<front, Back(S0', L0')>>)
                /\ gain' = IF Available(1) > 0 THEN Adjusted ELSE gain
                /\ earliest' = S1(S0', L0') + PacketLength
                /\ BackGenerated
           ELSE /\ Generate(1, <<front>>)
                /\ earliest' = S0' + L0'
                /\ reports' = {irregular_report_t(S0' + L0' + P0, 1)}
                /\ UNCHANGED <<next, cnt, gain>>
        /\ UNCHANGED <<name, timing, tx_last, R0, chscanner, shown>>

\* work_irregular with irregular_report_agc_callback_handle, in the transmission free period
GainCallback ==
    \E r \in reports :
        /\ name = "txrxagc" /\ Due(r) /\ r.handle = 1
        /\ failed' = failed
        /\ gain' = Adjusted
        /\ Generate(1, <<Back(S0, L0)>>)
        /\ earliest' = S1(S0, L0) + PacketLength
        /\ BackGenerated
        /\ UNCHANGED <<name, timing, tx_last, S0, L0, R0, chscanner, shown>>

\* work_pcc: the back packet is compared with the latest front packet received
AgcPcc(i) ==
    /\ name = "txrxagc" /\ NextPcc(i) /\ Drop(i)
    /\ \/ R0' = R0 /\ shown' = shown
       \/ air[i].from = "front" /\ R0' = air[i].at /\ shown' = [shown EXCEPT !.valid = FALSE]
       \/ air[i].from = "back" /\ R0' = R0
          /\ shown' = [value |-> air[i].at - R0 - L0 - (P0 + P1), valid |-> R0 = S0]
    /\ UNCHANGED <<reports, earliest, failed, name, timing, next, tx_last, S0, L0, cnt, gain, chscanner>>

-----------------------------------------------------------------------------
(* chscanner *)

ScanCallback ==
    \E r \in reports :
        /\ name = "chscanner" /\ Due(r)
        /\ Check(next < 0, "time out-of-order")
        /\ reports' = {}
        /\ scans' = Append(scans, [end |-> 0, tuned |-> tuned])
        /\ UNCHANGED <<air, earliest, name, timing, next, tx_last, agc, freqs_idx, N_measurement_cnt, tuned, shown>>

\* work_channel
Rescheduled_AfterLast == IF N_measurement_cnt = N_measurement THEN measurement_spacing_between_frequencies
                         ELSE measurement_period
Rescheduled == IF N_measurement_cnt + 1 = N_measurement THEN measurement_spacing_between_frequencies
               ELSE measurement_period
ScanDone ==
    /\ name = "chscanner" /\ scans # <<>>
    /\ scans' = Tail(scans)
    /\ next' = next + Rescheduled
    /\ IF N_measurement_cnt + 1 = N_measurement
       THEN /\ freqs_idx' = (freqs_idx + 1) % Frequencies
            /\ N_measurement_cnt' = 0 /\ tuned' = 0
       ELSE /\ N_measurement_cnt' = N_measurement_cnt + 1
            /\ UNCHANGED <<freqs_idx, tuned>>
    /\ reports' = Requested(next')
    /\ UNCHANGED <<air, earliest, failed, name, timing, tx_last, agc, shown>>

TestsCallback == DelayCallback \/ FrontCallback \/ GainCallback \/ ScanCallback
TestsReceive == \E i \in DOMAIN air : DelayPcc(i) \/ AgcPcc(i)
TestsNext == TestsCallback \/ TestsReceive \/ ScanDone \/ TestsTime

-----------------------------------------------------------------------------
(* Properties. *)

\* Each firmware measures what it says it measures, however late it is called: txrxdelay compares a
\* packet with its own transmission, txrxagc finds the programmed distance between the two packets of
\* a pair (and returns every antenna to its gain before it goes on to the next one), and chscanner
\* measures only samples received since it set the frequency. Transmissions are in order.
MeasuresItsOwn ==
    /\ failed = "none" /\ InOrder
    /\ shown.valid => shown.value = 0
    /\ \A a \in 0..Antennas - 1 :
          gain[a] = IF a = ant_idx /\ cnt % 2 = 1 THEN agc_change_dB ELSE 0
    /\ \A i \in DOMAIN scans : scans[i].tuned <= -Window
=============================================================================
