--------------------------- MODULE PacketSamples ----------------------------
(***************************************************************************)
(* The samples of a packet: tx_t puts a cyclic prefix in front of every    *)
(* OFDM symbol, resamples from the DECT NR+ rate to the rate of the radio  *)
(* and announces what is ready (tx.cpp); rx_synced_t resamples back in     *)
(* units of the RX buffer and cuts the symbols out again (rx_synced.cpp,   *)
(* rx_pacer.cpp).  A sample is its position; what a subfilter computes is  *)
(* abstracted to which subfilter it is and the newest sample it sees.      *)
(***************************************************************************)
EXTENDS Integers, FiniteSets, FiniteSetsExt, SequencesExt, TLC

CONSTANT
    Transmissions   \* [u, b, N_DF_symb, class: [u, b] of the radio device class, os_min,
                    \*  hw_samp_rate, enforce, GI_percentage, units: units of the RX buffer]

VARIABLES transmission, side, tx, symbol, resampler, rows, rx
samples == <<transmission, side, tx, symbol, resampler, rows, rx>>

---------------------------------------------------------------------------
(* Rates, in kHz. *)

dect_samp_rate_oversampled_max ==
    transmission.class.u * transmission.class.b * 1728 * transmission.os_min

resampler_param_verified ==
    [hw_samp_rate : {1728, 3456, 6912, 13824, 20736, 27648, 41472, 55296, 82944, 110592,
                     165888, 221184, 331776, 442368}, L : {1}, M : {1}]
    \cup [hw_samp_rate : {1920, 3840, 7680, 15360, 30720, 61440, 122880, 245760, 491520},
           L : {10}, M : {9}]
    \cup [hw_samp_rate : {30720, 61440, 122880, 245760, 491520}, L : {40}, M : {27}]

resampler_param ==
    IF transmission.enforce
    THEN CHOOSE e \in resampler_param_verified :
             /\ e.hw_samp_rate = transmission.hw_samp_rate
             /\ (dect_samp_rate_oversampled_max * e.L) \div e.M = transmission.hw_samp_rate
    ELSE [hw_samp_rate |-> transmission.hw_samp_rate, L |-> 1, M |-> 1]

---------------------------------------------------------------------------
(* Lengths, in samples. *)

N_b_DFT    == 64 * transmission.b
N_b_DFT_os ==
    (64 * transmission.class.u * transmission.class.b * transmission.os_min) \div transmission.u
N_samples_OFDM_symbol == 72 * transmission.b

N_samples_STF == IF transmission.u = 1 THEN (N_samples_OFDM_symbol * 14) \div 9
                 ELSE N_samples_OFDM_symbol * 2
N_samples_STF_CP_only == N_samples_STF - N_b_DFT
N_samples_GI == CASE transmission.u = 1 -> (N_samples_OFDM_symbol * 4) \div 9
                  [] transmission.u \in {2, 4} -> N_samples_OFDM_symbol
                  [] transmission.u = 8 -> N_samples_OFDM_symbol * 2

Oversampled(n) == (n * N_b_DFT_os) \div N_b_DFT

\* Cyclic prefix of symbol i at the transmitter; symbol 0 is the STF.
CpOs(i) == Oversampled(IF i = 0 THEN N_samples_STF_CP_only ELSE 8 * transmission.b)
\* ... and at the receiver.
RxCpOs(i) ==
    (IF i = 0 THEN N_samples_STF_CP_only ELSE 8 * transmission.b) * (N_b_DFT_os \div N_b_DFT)

N_samples_packet_no_GI_os ==
    Oversampled(N_samples_STF + transmission.N_DF_symb * N_samples_OFDM_symbol)
N_samples_packet_os ==
    Oversampled(N_samples_STF + transmission.N_DF_symb * N_samples_OFDM_symbol + N_samples_GI)
ceil_divide_integer(n, d)    == (n + d - 1) \div d
N_samples_packet_no_GI_os_rs ==
    ceil_divide_integer(N_samples_packet_no_GI_os * resampler_param.L, resampler_param.M)
GI_samples_os_rs ==
    (N_samples_packet_os \div resampler_param.M) * resampler_param.L - N_samples_packet_no_GI_os_rs
N_samples_transmit_os_rs ==
    N_samples_packet_no_GI_os_rs + (GI_samples_os_rs * transmission.GI_percentage) \div 100

---------------------------------------------------------------------------
(* The resampler: q.L and q.M, and the length of the low pass filter that  *)
(* the Kaiser design gives for the larger of both and the oversampling.    *)

filter_length(larger, os) ==
    CASE larger = 10 -> (1 :> 223 @@ 2 :> 45 @@ 4 :> 31 @@ 8 :> 27)[os]
      [] larger = 40 -> (1 :> 889 @@ 2 :> 171 @@ 4 :> 115 @@ 8 :> 99)[os]
      [] OTHER -> 1

ResamplerOf(L, M) ==
    [L |-> L, M |-> M, length |-> filter_length(IF L > M THEN L ELSE M, transmission.os_min)]
TxResampler == ResamplerOf(resampler_param.L, resampler_param.M)
RxResampler == ResamplerOf(resampler_param.M, resampler_param.L)

filter_delay(q)   == (q.length - 1) \div 2
history_length(q) == ceil_divide_integer(q.length, q.L) - 1
N_skip_input_samples_front(q) == filter_delay(q) \div q.L

\* For each of M input samples the subfilters that produce its output samples.
NextRow(q, a) ==
    LET n   == IF a.subfilter < q.L THEN ceil_divide_integer(q.L - a.subfilter, q.M) ELSE 0
        row == [j \in 1..n |-> a.subfilter + (j - 1) * q.M]
        after == a.subfilter + Len(row) * q.M
    IN [rows      |-> IF after >= 2 * q.L THEN a.rows \o <<row, <<>>>> ELSE Append(a.rows, row),
        subfilter |-> after % q.L]
subfilter_indices(q) ==
    FoldLeft(LAMBDA a, i : IF Len(a.rows) < q.M THEN NextRow(q, a) ELSE a,
             [rows |-> <<>>, subfilter |-> filter_delay(q) % q.L], [i \in 1..q.M |-> i]).rows

\* What n samples and the flush of the history will produce.
get_N_samples_after_resampling(q, n) ==
    LET effective == history_length(q) + n - N_skip_input_samples_front(q)
        indices   == subfilter_indices(q)
    IN (effective \div q.M) * q.L
           + MapThenSumSet(LAMBDA i : Len(indices[i]), 1..(effective % q.M))

\* The subfilters of the manually unrolled loops, from an input counter of zero.
Unrolled(q) ==
    CASE q.L = 10 /\ q.length = 223 ->
             <<<<1>>, <<0, 9>>, <<8>>, <<7>>, <<6>>, <<5>>, <<4>>, <<3>>, <<2>>>>
      [] q.L = 9 /\ q.length = 223 ->
             <<<<3>>, <<4>>, <<5>>, <<6>>, <<7>>, <<8>>, <<>>, <<0>>, <<1>>, <<2>>>>
      [] q.L = 10 /\ q.length = 45 ->
             <<<<2>>, <<1>>, <<0, 9>>, <<8>>, <<7>>, <<6>>, <<5>>, <<4>>, <<3>>>>
      [] q.L = 9 /\ q.length = 45 ->
             <<<<4>>, <<5>>, <<6>>, <<7>>, <<8>>, <<>>, <<0>>, <<1>>, <<2>>, <<3>>>>
      [] OTHER -> <<>>

\* What n samples produce when the input counter stands at cnt: the samples up to a
\* multiple of M go through the generic loop, whole multiples through the unrolled one.
RowsOf(q, indices, unrolled, cnt, n) ==
    LET cnt_in == IF unrolled = <<>> THEN n ELSE Min({n, q.M - cnt})
        full_M == (n - cnt_in) \div q.M
    IN [k \in 0..(n - 1) |->
           IF k \in cnt_in..(cnt_in + full_M * q.M - 1) THEN unrolled[((k - cnt_in) % q.M) + 1]
           ELSE indices[((cnt + k) % q.M) + 1]]

\* New samples: first those that complete the history, then the others.
reset == [input_sample_cnt |-> 0, skipped |-> FALSE, fed |-> 0, made |-> 0]
Made(new) == Cardinality(UNION {{k} \X DOMAIN new[k] : k \in DOMAIN new})
resample(q, n) ==
    LET h       == history_length(q)
        skip    == IF resampler.skipped THEN 0 ELSE N_skip_input_samples_front(q)
        indices == subfilter_indices(q)
        cnt     == resampler.input_sample_cnt
        old     == RowsOf(q, indices, Unrolled(q), cnt, h - skip)
        new     == RowsOf(q, indices, Unrolled(q), (cnt + h - skip) % q.M, n - h)
    IN [k \in (resampler.fed + skip)..(resampler.fed + n - 1) |->
           IF k < resampler.fed + h THEN old[k - resampler.fed - skip]
           ELSE new[k - resampler.fed - h]]
resample_final_samples(q) ==
    LET h   == history_length(q)
        new == RowsOf(q, subfilter_indices(q), <<>>, resampler.input_sample_cnt, h)
    IN [k \in resampler.fed..(resampler.fed + h - 1) |-> new[k - resampler.fed]]

Feed_ForgetsCounter(q, n, new) ==
    /\ rows' = [newest |-> new, first |-> resampler.made]
    /\ resampler' = [input_sample_cnt |-> 0, skipped |-> TRUE, fed |-> resampler.fed + n,
                     made |-> resampler.made + Made(new)]

\* resampler and rows after n samples that produced new.
Feed(q, n, new) ==
    /\ rows' = [newest |-> new, first |-> resampler.made]
    /\ resampler' = [skipped |-> TRUE, fed |-> resampler.fed + n, made |-> resampler.made + Made(new),
                     input_sample_cnt |->
                         (resampler.input_sample_cnt + Cardinality(DOMAIN new)) % q.M]

---------------------------------------------------------------------------
(* The cyclic prefix, in eighths of a DFT; what the IFFT leaves are eighths *)
(* 0 to 7.  The source and the destination of a copy may overlap: memcpy    *)
(* may go either way.                                                       *)

Stale == 99

memcpy(s, to, from, n, upwards) ==
    FoldLeft(LAMBDA a, i : [a EXCEPT ![to + i] = a[from + i]], s,
             [j \in 1..n |-> IF upwards THEN j - 1 ELSE n - j])

\* The copies into the prefix: first to where whole DFTs end, then to the front.
single_symbol_tx_ofdm_zero_copy(cp, upwards) ==
    LET ifft == [i \in 0..(cp + 7) |-> IF i >= cp THEN i - cp ELSE Stale]
        long == IF cp > 8 THEN memcpy(ifft, cp - 8, 8, cp, upwards) ELSE ifft
    IN memcpy(long, 0, 8, cp, upwards)

---------------------------------------------------------------------------
(* The transmitter. *)

TransmitSymbol(upwards) ==
    LET n == CpOs(tx.symb) + N_b_DFT_os
        new == resample(TxResampler, n)
    IN /\ side = "tx" /\ tx.symb <= transmission.N_DF_symb
       /\ symbol' = single_symbol_tx_ofdm_zero_copy((CpOs(tx.symb) * 8) \div N_b_DFT_os, upwards)
       /\ Feed(TxResampler, n, new)
       /\ tx' = [tx EXCEPT !.symb = @ + 1, !.index_sample_no_GI_os = @ + n,
                           !.index_sample_transmit_os_rs = @ + Made(new),
                           !.tx_length_samples_cnt = tx.index_sample_transmit_os_rs + Made(new)]
       /\ UNCHANGED <<transmission, side, rx>>

\* run_residual_resampling() and run_GI(): the history is flushed, the rest is zero.
CompletePacket ==
    LET new == resample_final_samples(TxResampler)
    IN /\ side = "tx" /\ tx.symb > transmission.N_DF_symb
       /\ Feed(TxResampler, 0, new)
       /\ tx' = [tx EXCEPT !.index_sample_transmit_os_rs = N_samples_transmit_os_rs,
                           !.tx_length_samples_cnt = N_samples_transmit_os_rs]
       /\ side' = "sent"
       /\ UNCHANGED <<transmission, symbol, rx>>

---------------------------------------------------------------------------
(* The receiver of the same radio device class, from the first sample. *)

ant_streams_unit_length_samples == ((transmission.hw_samp_rate * 10) \div 384) * transmission.units

\* Length of the local buffer, for the STF of the class.
resampler_nof_samples_per_unit_max ==
    ceil_divide_integer(ant_streams_unit_length_samples, RxResampler.M) * RxResampler.L
localbuffer_length ==
    LET max == (IF transmission.class.u = 1 THEN 112 ELSE 144) * transmission.class.b
                   * transmission.os_min
    IN resampler_nof_samples_per_unit_max
           * (1 + ceil_divide_integer(max, resampler_nof_samples_per_unit_max))

RxSymbolLength == RxCpOs(rx.symb) + N_b_DFT_os

\* A packet is searched for with the numerology of the class only.
BeginReception ==
    /\ side = "sent" /\ transmission.u = transmission.class.u
    /\ side' = "rx" /\ resampler' = reset /\ rows' = [newest |-> <<>>, first |-> 0]
    /\ UNCHANGED <<transmission, tx, symbol, rx>>

\* The symbol is there already.
MixWhole ==
    /\ side = "rx" /\ rx.symb <= transmission.N_DF_symb /\ rx.residual_need = 0
    /\ rx.cnt_w - rx.cnt_r >= RxSymbolLength
    /\ rx' = [rx EXCEPT !.symb = @ + 1, !.cnt_r = @ + RxSymbolLength,
                        !.mixer_stage = <<[from |-> rx.base + rx.cnt_r, n |-> RxSymbolLength]>>]
    /\ UNCHANGED <<transmission, side, tx, symbol, resampler, rows>>

\* What there is of it, then the local buffer is used from the front again.
MixFront ==
    /\ side = "rx" /\ rx.symb <= transmission.N_DF_symb /\ rx.residual_need = 0
    /\ rx.cnt_w - rx.cnt_r < RxSymbolLength
    /\ rx' = [rx EXCEPT !.mixer_stage =
                            <<[from |-> rx.base + rx.cnt_r, n |-> rx.cnt_w - rx.cnt_r]>>,
                        !.residual_need = RxSymbolLength - (rx.cnt_w - rx.cnt_r),
                        !.base = resampler.made, !.cnt_w = 0]
    /\ UNCHANGED <<transmission, side, tx, symbol, resampler, rows>>

\* resample_until_nto(): one unit.
ResampleUnit ==
    LET new == resample(RxResampler, ant_streams_unit_length_samples)
    IN /\ side = "rx" /\ rx.cnt_w < rx.residual_need
       /\ Feed(RxResampler, ant_streams_unit_length_samples, new)
       /\ rx' = [rx EXCEPT !.cnt_w = @ + Made(new)]
       /\ UNCHANGED <<transmission, side, tx, symbol>>

MixRest ==
    /\ side = "rx" /\ rx.residual_need > 0 /\ rx.cnt_w >= rx.residual_need
    /\ rx' = [rx EXCEPT !.symb = @ + 1, !.cnt_r = rx.residual_need, !.residual_need = 0,
                        !.mixer_stage = Append(@, [from |-> rx.base, n |-> rx.residual_need])]
    /\ UNCHANGED <<transmission, side, tx, symbol, resampler, rows>>

---------------------------------------------------------------------------

SamplesInit ==
    /\ transmission \in Transmissions
    /\ side = "tx"
    /\ tx = [symb |-> 0, index_sample_no_GI_os |-> 0, index_sample_transmit_os_rs |-> 0,
             tx_length_samples_cnt |-> 0]
    /\ symbol = <<>> /\ resampler = reset /\ rows = [newest |-> <<>>, first |-> 0]
    /\ rx = [symb |-> 0, cnt_w |-> 0, cnt_r |-> 0, base |-> 0, residual_need |-> 0,
             mixer_stage |-> <<>>]

SamplesNext ==
    \/ \E upwards \in BOOLEAN : TransmitSymbol(upwards)
    \/ CompletePacket \/ BeginReception
    \/ MixWhole \/ MixFront \/ ResampleUnit \/ MixRest

---------------------------------------------------------------------------
(* The reference: output sample n is at position n * M of the upsampled    *)
(* signal, after the delay of the filter.                                  *)

OutputsOf(q, i) ==
    {l \in 0..(q.L - 1) : LET at == i * q.L + l - filter_delay(q) IN at >= 0 /\ at % q.M = 0}

\* Every call continues where the one before ended, whatever the number of samples it was given,
\* and every output sample is the right subfilter's, at the right input sample (resampler.cpp).
ResamplingRight ==
    LET q == IF side = "rx" THEN RxResampler ELSE TxResampler
        first == Min(DOMAIN rows.newest)
    IN /\ resampler.made = rows.first + Made(rows.newest)
       /\ DOMAIN rows.newest # {} =>
             rows.first = ceil_divide_integer(Max({first * q.L - filter_delay(q), 0}), q.M)
       /\ \A i \in DOMAIN rows.newest :
             /\ ToSet(rows.newest[i]) = OutputsOf(q, i)
             /\ Len(rows.newest[i]) = Cardinality(OutputsOf(q, i))

\* The symbol's body is whole and in order, and the prefix is its end again; the STF repeats
\* itself every quarter of a DFT, other symbols do not.
PrefixRight ==
    \A i \in DOMAIN symbol :
        LET cp == Cardinality(DOMAIN symbol) - 8
        IN symbol[i] # Stale /\ (symbol[i] - (i - cp)) % (IF tx.symb = 1 THEN 2 ELSE 8) = 0

\* What is announced to the radio is never more than the packet has, every sample announced before
\* the end is final, and the packet ends with at least one zero sample; the resampler produces as
\* many samples as it said (assertions of run_meta_dependencies() and generate_tx_packet()).
AnnouncedRight ==
    /\ tx.tx_length_samples_cnt <= N_samples_transmit_os_rs
    /\ side = "tx" => /\ tx.tx_length_samples_cnt = resampler.made
                      /\ resampler.made <= N_samples_packet_no_GI_os_rs
    /\ side = "sent" => /\ resampler.made >= N_samples_packet_no_GI_os_rs
                         /\ resampler.made = get_N_samples_after_resampling(TxResampler,
                                                                   N_samples_packet_no_GI_os)
                         /\ tx.index_sample_no_GI_os = N_samples_packet_no_GI_os
    /\ N_samples_packet_no_GI_os_rs < N_samples_transmit_os_rs
    /\ GI_samples_os_rs > 0 /\ N_samples_packet_os % resampler_param.M = 0

\* Where the symbol before ended, for the receiver.
RxSymbolStart(i) ==
    IF i = 0 THEN 0 ELSE RxCpOs(0) + N_b_DFT_os + (i - 1) * (RxCpOs(1) + N_b_DFT_os)

\* The receiver cuts the symbols out of the stream one after the other, across units, rewinds and
\* the resampler's history, and never writes behind the end of its local buffer.  Each is as long as
\* the transmitter made it, and hence where the transmitter put it, if the packet's DFT fits an
\* integer number of times into that of the class.  It does not for b = 8 in a class of 12 and for
\* b = 12 in a class of 16 without oversampling: the quotient is rounded down (rx_synced.cpp:499).
SymbolsCutRight ==
    /\ rx.cnt_w <= localbuffer_length
    /\ (rx.symb > 0 /\ rx.residual_need = 0) =>
          LET i == rx.symb - 1
          IN /\ FoldLeft(LAMBDA at, part : IF part.n = 0 \/ part.from = at THEN at + part.n ELSE -1,
                         RxSymbolStart(i), rx.mixer_stage)
                    = RxSymbolStart(i) + RxCpOs(i) + N_b_DFT_os
             /\ N_b_DFT_os % N_b_DFT = 0 => RxCpOs(i) = CpOs(i)

\* From tx_t through the radio's rate to rx_synced_t every sample of a packet is where it belongs, but
\* for the packets named at SymbolsCutRight.
SamplesRightThrough == ResamplingRight /\ PrefixRight /\ AnnouncedRight /\ SymbolsCutRight
=============================================================================
