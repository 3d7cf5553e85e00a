------------------------------ MODULE Loopback ------------------------------
(***************************************************************************)
(* The loopback firmware: it sends packets to itself through a simulated   *)
(* channel and counts how many of them are decoded, for one parameter and  *)
(* one SNR after the other. Variant "snr" has an MCS as parameter, "ratio" *)
(* the amplitude of an interfering packet "A" just before the wanted       *)
(* packet "B", "mmie" the message in the packet.                           *)
(***************************************************************************)
EXTENDS TestRadio

CONSTANTS
  Variants,
  Parameters,             \* per variant: mcs_vec.size(), ratio_vec.size() or mmie_idx_vec.size()
  Snrs,                   \* snr_vec.size()
  nof_experiment_per_snr,
  stt,                    \* state_transition_time_t
  Jitter                  \* largest random delay of a transmission

\* The firmware waits 15 ms for a packet and the interfering one to be decoded.
ASSUME LoopbackAssumption ==
    /\ Parameters \in [Variants -> Nat \ {0}] /\ Snrs \in Nat \ {0}
    /\ nof_experiment_per_snr \in Nat \ {0} /\ Jitter \in Nat
    /\ \A s \in {"x_to_A", "A_to_B", "B_to_C", "C_to_B", "C_to_D"} : stt[s] \in Nat
    /\ stt.C_to_B >= Turnaround + Jitter + 2 * PacketLength + Lag
    /\ stt.C_to_D >= Turnaround + Jitter + 2 * PacketLength + Lag

VARIABLES
  variant,
  state, parameter_cnt, snr_cnt, nof_experiment_per_snr_cnt,
  result,                 \* result_t: n_pcc, n_pcc_and_plcf, n_pdc
  PER,                    \* rows and columns saved so far, as the counts they come from
  heard                   \* history: what was decoded of the packets of a row and column

loopback == <<variant, state, parameter_cnt, snr_cnt, nof_experiment_per_snr_cnt, result, PER, heard>>

NoCount == [n_pcc |-> 0, n_pcc_and_plcf |-> 0, n_pdc |-> 0]
Cells == (0..Parameters[variant] - 1) \X (0..Snrs - 1)
Current == <<parameter_cnt, snr_cnt>>
NotSaved == [n_pcc |-> -1, n_pcc_and_plcf |-> -1, n_pdc |-> -1]

\* constructors
LoopbackVariables ==
    /\ variant \in Variants /\ state = "A_SET_CHANNEL_SNR"
    /\ parameter_cnt = 0 /\ snr_cnt = 0 /\ nof_experiment_per_snr_cnt = 0
    /\ result = NoCount /\ PER = [c \in Cells |-> NotSaved] /\ heard = [c \in Cells |-> NoCount]
\* work_start
LoopbackInit == LoopbackVariables /\ reports = Requested(stt.x_to_A)
                /\ air = <<>> /\ earliest = -1 /\ failed = "none"

\* the states of work_irregular(); the next callback is at the time given, relative to now
NextReport_DeadEnd(to, at) == Requested(at)
NextReport(to, at) == IF to = "DEAD_END" THEN {} ELSE Requested(at)
Callback(from, to, next) ==
    \E r \in reports :
        /\ Due(r) /\ state = from /\ state' = to
        /\ reports' = NextReport(to, IF next = "same" THEN r.at ELSE stt[next])

A_reset_result_counter_for_next_snr == nof_experiment_per_snr_cnt' = 0 /\ result' = NoCount
SetChannelSnr ==
    /\ Callback("A_SET_CHANNEL_SNR", "B_SET_CHANNEL_SMALL_SCALE_FADING", "A_to_B")
    /\ A_reset_result_counter_for_next_snr
    /\ UNCHANGED <<air, earliest, failed, variant, parameter_cnt, snr_cnt, PER, heard>>

SetFading ==
    /\ Callback("B_SET_CHANNEL_SMALL_SCALE_FADING", "C_EXPERIMENT_GENERATE_PACKETS", "B_to_C")
    /\ UNCHANGED <<air, earliest, failed, variant, parameter_cnt, snr_cnt, nof_experiment_per_snr_cnt,
                   result, PER, heard>>

\* C_generate_single_experiment_at_current_snr with get_random_tx_time and generate_packet
Senders == IF variant = "ratio" THEN <<"A", "B">> ELSE <<"A">>
Experiment(jitter) ==
    [i \in DOMAIN Senders |->
        buffer_tx_meta_t(1, Turnaround + jitter + (i - 1) * PacketLength, Senders[i], Current)]
GeneratePackets ==
    /\ \E jitter \in 0..Jitter : Generate(1, Experiment(jitter))
    /\ nof_experiment_per_snr_cnt' = nof_experiment_per_snr_cnt + 1
    /\ IF nof_experiment_per_snr_cnt' < nof_experiment_per_snr
       THEN Callback("C_EXPERIMENT_GENERATE_PACKETS", "B_SET_CHANNEL_SMALL_SCALE_FADING", "C_to_B")
       ELSE Callback("C_EXPERIMENT_GENERATE_PACKETS", "D_EXPERIMENT_SAVE_RESULTS", "C_to_D")
    /\ UNCHANGED <<earliest, failed, variant, parameter_cnt, snr_cnt, result, PER, heard>>

\* set_PERs
SaveResults ==
    /\ Callback("D_EXPERIMENT_SAVE_RESULTS", "E_SET_PARAMETER", "same")
    /\ PER' = [PER EXCEPT ![Current] = result]
    /\ failed' = IF nof_experiment_per_snr_cnt = nof_experiment_per_snr THEN failed ELSE "number"
    /\ UNCHANGED <<air, earliest, variant, parameter_cnt, snr_cnt, nof_experiment_per_snr_cnt, result, heard>>

\* E_set_next_parameter_or_go_to_dead_end
SetParameter ==
    /\ LET wrap == snr_cnt + 1 = Snrs
           end  == wrap /\ parameter_cnt + 1 = Parameters[variant]
       IN  /\ Callback("E_SET_PARAMETER", IF end THEN "DEAD_END" ELSE "A_SET_CHANNEL_SNR", "same")
           /\ snr_cnt' = IF wrap THEN 0 ELSE snr_cnt + 1
           /\ parameter_cnt' = IF wrap THEN parameter_cnt + 1 ELSE parameter_cnt
    /\ UNCHANGED <<air, earliest, failed, variant, nof_experiment_per_snr_cnt, result, PER, heard>>

\* work_pcc: only packets with the identity under test count beyond n_pcc
Identity == IF variant = "ratio" THEN "B" ELSE "A"
Counted(c, p) == [c EXCEPT !.n_pcc = @ + 1, !.n_pcc_and_plcf = IF p.from = Identity THEN @ + 1 ELSE @]
LoopbackPcc(i) ==
    /\ NextPcc(i)
    /\ \/ /\ result' = Counted(result, air[i])
          /\ heard' = [heard EXCEPT ![air[i].tag] = Counted(@, air[i])]
          /\ IF air[i].from = Identity THEN Proceed(i) ELSE Drop(i)
       \/ Drop(i) /\ UNCHANGED <<result, heard>>
    /\ UNCHANGED <<reports, earliest, failed, variant, state, parameter_cnt, snr_cnt,
                   nof_experiment_per_snr_cnt, PER>>

\* work_pdc, work_pdc_error: the SNR measured goes into the current row and column, if there is one
LoopbackPdc(i) ==
    /\ NextPdc(i) /\ Drop(i)
    /\ \/ /\ result' = [result EXCEPT !.n_pdc = @ + 1]
          /\ heard' = [heard EXCEPT ![air[i].tag].n_pdc = @ + 1]
          /\ failed' = IF Current \in Cells THEN failed ELSE "out of range"
       \/ UNCHANGED <<result, heard, failed>>
    /\ UNCHANGED <<reports, earliest, variant, state, parameter_cnt, snr_cnt,
                   nof_experiment_per_snr_cnt, PER>>

LoopbackCallback == SetChannelSnr \/ SetFading \/ GeneratePackets \/ SaveResults \/ SetParameter
LoopbackReceive == \E i \in DOMAIN air : LoopbackPcc(i) \/ LoopbackPdc(i)
LoopbackTime == PassTime /\ UNCHANGED loopback
LoopbackNext == LoopbackCallback \/ LoopbackReceive \/ LoopbackTime

-----------------------------------------------------------------------------
(* Properties. *)

\* Every packet is counted for the parameter and the SNR it was sent with, whatever the delays of
\* callbacks, transmissions and decoding: what set_PERs() saves is what was decoded of these packets,
\* never more than there were experiments, and the results are complete when work_stop() saves them.
\* Both radios transmit in order.
ResultsRight ==
    /\ failed = "none" /\ InOrder
    /\ \A c \in Cells : PER[c] \in {NotSaved, heard[c]}
    /\ \A c \in Cells : /\ heard[c].n_pdc <= heard[c].n_pcc_and_plcf
                        /\ heard[c].n_pcc_and_plcf <= nof_experiment_per_snr
    /\ state = "DEAD_END" => \A c \in Cells : PER[c] # NotSaved

\* The loopback firmware comes to its end and then asks for nothing any more.
MeasurementsFinish == <>[](state = "DEAD_END" /\ reports = {})
=============================================================================
