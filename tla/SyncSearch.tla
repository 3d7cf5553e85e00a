----------------------------- MODULE SyncSearch -----------------------------
(***************************************************************************)
(* How sync_chunk_t finds packets: autocorrelator_detection_t walks over   *)
(* the samples of a chunk and its overlap in steps, at a coarse metric     *)
(* above the threshold it hands over to autocorrelator_peak_t, which jumps *)
(* back and searches the length of an STF for the peak, and around it      *)
(* crosscorrelator_t looks for the fine peak.                              *)
(*                                                                         *)
(* Only STFs correlate, and noise has the same power everywhere: the       *)
(* moving sums over the samples are sums over the parts of packets that a  *)
(* window covers.  Metrics are in thousandths.  The radio runs at the      *)
(* DECT NR+ rate, without oversampling.                                    *)
(***************************************************************************)
EXTENDS Integers, Sequences, FiniteSets, FiniteSetsExt

CONSTANTS
    Signals,     \* [u, A: chunk length, unit: samples resampled at once,
                 \*  packets: set of [start, length, amplitude: antenna -> Nat]]
    Pattern,     \* samples of an STF pattern, stf_bos_pattern_length_samples
    Noise,       \* power of a sample of noise
    PowerRange,  \* <<least, largest>> power of the window, from the limits of the RMS
    LastChunk    \* bound: chunks that are searched

VARIABLES signal, chunk, looking_for, detection, peak, sync_report, reported, asserted
sync == <<signal, chunk, looking_for, detection, peak, sync_report, reported, asserted>>

-----------------------------------------------------------------------------
(* stf_t *)

cover_sequence == <<1, -1, 1, 1, -1, -1, -1, -1, -1>>
cover_sequence_pairwise_product(i) == cover_sequence[i] * cover_sequence[i + 1]

stf_nof_pattern == IF signal.u = 1 THEN 7 ELSE 9
Stf == stf_nof_pattern * Pattern

(* Lengths. *)

Step == Pattern \div 4
A == signal.A
B == 4 * Stf
C == Pattern
D == Stf
search_length == A + B
search_start == Stf + Pattern   \* STF and jump back

Units(n) == ((n + signal.unit - 1) \div signal.unit) * signal.unit
localbuffer_size == signal.unit + Units(A + B + C + D)

\* The pacer resamples whole units until there are n samples.
resample_until_nto(n) == IF detection.cnt_w >= n THEN detection.cnt_w ELSE Units(n)

-----------------------------------------------------------------------------
(* The moving sums at local time t.  They begin empty with a chunk, but    *)
(* are full before a metric is looked at.                                  *)

Antennas == DOMAIN (CHOOSE p \in signal.packets : TRUE).amplitude
Local(p) == p.start - chunk * A

Power(ant, from, to) ==
    Noise * (to - from)
    + MapThenSumSet(LAMBDA p : p.amplitude[ant] * p.amplitude[ant]
                                   * (Min({to, Local(p) + p.length}) - Max({from, Local(p)})),
                    {p \in signal.packets : Local(p) < to /\ Local(p) + p.length > from})
WindowPower(ant, t) == Power(ant, t - Stf, t)

\* How many patterns of an STF agree with the weights of a window that is m patterns behind it.
Agreement(N) == [m \in -N..N |->
    MapThenSumSet(LAMBDA i : cover_sequence_pairwise_product(i)
                                 * cover_sequence_pairwise_product(i + m),
                  {i \in 1..(N - 1) : i + m \in 1..(N - 1)})]
AgreementOf7 == Agreement(7)
AgreementOf9 == Agreement(9)

\* Products of samples a pattern apart, with the signs that those of an STF have.
WindowCorrelation(ant, t) ==
    LET Behind(p) == t - Local(p) - Stf
        agree == IF stf_nof_pattern = 7 THEN AgreementOf7 ELSE AgreementOf9
        Of(p) == LET m == Behind(p) \div Pattern
                     f == Behind(p) % Pattern
                 IN (Pattern - f) * agree[m] + f * agree[m + 1]
    IN MapThenSumSet(LAMBDA p : p.amplitude[ant] * p.amplitude[ant] * Of(p),
                     {p \in signal.packets : Behind(p) > -Stf /\ Behind(p) < Stf})

Abs(n) == IF n < 0 THEN -n ELSE n
Metric(ant, t) ==
    LET root == (1000 * stf_nof_pattern * Abs(WindowCorrelation(ant, t)))
                    \div ((stf_nof_pattern - 1) * WindowPower(ant, t))
    IN (root * root) \div 1000

-----------------------------------------------------------------------------
(* autocorrelator_detection_t *)

MetricRange == 180..1500

\* The power lies within limits and rises: what get_sum_back() and get_sum_front() add up are the
\* second and third oldest steps, and the oldest and the newest one.
Rises(ant, t) ==
    LET step(n) == Power(ant, t - Stf + (n - 1) * Step, t - Stf + n * Step)
    IN step(2) + step(3) < 4 * (step(1) + step(4 * stf_nof_pattern))

\* With a streak of one and no gain, every metric above the threshold is a detection.
Detecting(t) ==
    {ant \in Antennas :
        /\ PowerRange[1] <= WindowPower(ant, t) /\ WindowPower(ant, t) <= PowerRange[2]
        /\ Rises(ant, t)
        /\ Metric(ant, t) \in MetricRange /\ Metric(ant, t) > 180}

\* wait_for_chunk_nto() and reset(): the first pattern has power only.
Fresh == [cnt_r |-> Pattern, cnt_w |-> Units(Pattern), ignore_before_index |-> search_start]

NoPeak == [cnt_r |-> 0, cnt_r_max |-> 0, smoother |-> [a \in Antennas |-> <<0, 0, 0>>],
           best |-> [a \in Antennas |-> [metric |-> 0, index |-> 0]]]
NoReport == [detection_time |-> 0, metric |-> 0, valid |-> {}, coarse |-> 0]

\* search_by_correlation(): as many steps as there are samples for, up to the first detection.
SearchDetection ==
    LET w    == resample_until_nto(detection.cnt_r + Step)
        ends == {t \in (detection.cnt_r + 1)..w :
                    (t - detection.cnt_r) % Step = 0 /\ t - Step < search_length}
        hits == {t \in ends : detection.ignore_before_index <= t /\ Detecting(t) # {}}
        t    == IF hits = {} THEN Max(ends) ELSE Min(hits)
    IN /\ looking_for = "detection" /\ detection.cnt_r < search_length
       /\ detection' = [detection EXCEPT !.cnt_w = w, !.cnt_r = t]
       /\ IF hits = {} THEN UNCHANGED <<looking_for, peak, sync_report, asserted>>
          ELSE /\ looking_for' = "peak"
               /\ sync_report' = [NoReport EXCEPT !.detection_time = t,
                                                  !.metric = Metric(Min(Detecting(t)), t)]
               /\ peak' = [NoPeak EXCEPT !.cnt_r = t - Pattern, !.cnt_r_max = t - Pattern + D]
               /\ asserted' = (asserted /\ Stf <= t - Pattern)
       /\ UNCHANGED <<signal, chunk, reported>>

-----------------------------------------------------------------------------
(* autocorrelator_peak_t *)

SMOOTH_RIGHT == 1

\* One sample: the metric goes into the smoother, the latest of the largest means is the peak. The
\* sum of the three metrics stands for their mean.
Larger(best, new) == IF new.metric >= best.metric THEN new ELSE best
Pushed(state, ant, r) ==
    LET smoother == Append(Tail(state.smoother), Metric(ant, r + 1))
    IN [smoother |-> smoother,
        best |-> Larger(state.best, [metric |-> smoother[1] + smoother[2] + smoother[3],
                                     index |-> r - SMOOTH_RIGHT])]

Searched(ant, limit) ==
    LET after[r \in (peak.cnt_r - 1)..(limit - 1)] ==
            IF r < peak.cnt_r THEN [smoother |-> peak.smoother[ant], best |-> peak.best[ant]]
            ELSE Pushed(after[r - 1], ant, r)
    IN after[limit - 1]

SearchPeak ==
    LET w     == resample_until_nto(Min({peak.cnt_r + Pattern, peak.cnt_r_max}))
        limit == Min({peak.cnt_r_max, w})
        done  == [ant \in Antennas |-> Searched(ant, limit)]
    IN /\ looking_for = "peak" /\ peak.cnt_r < peak.cnt_r_max
       /\ detection' = [detection EXCEPT !.cnt_w = w]
       /\ peak' = [peak EXCEPT !.cnt_r = limit, !.smoother = [a \in Antennas |-> done[a].smoother],
                               !.best = [a \in Antennas |-> done[a].best]]
       /\ UNCHANGED <<signal, chunk, looking_for, sync_report, reported, asserted>>

\* post_processing_validity(): larger than at the detection (but for a margin), and not too early.
ValidAntennas == {a \in Antennas : /\ peak.best[a].metric > 3 * (sync_report.metric - 250)
                           /\ peak.best[a].index > sync_report.detection_time - (3 * Stf) \div 10}
coarse_peak_time_local ==
    LET all      == MapThenSumSet(LAMBDA a : peak.best[a].metric, ValidAntennas)
        weighted == MapThenSumSet(LAMBDA a : peak.best[a].metric * peak.best[a].index, ValidAntennas)
    IN (2 * weighted + all) \div (2 * all) - (Stf - 1)

FalseAlarm ==
    /\ looking_for = "peak" /\ peak.cnt_r = peak.cnt_r_max /\ ValidAntennas = {}
    /\ looking_for' = "detection" /\ peak' = NoPeak /\ sync_report' = NoReport
    /\ asserted' = (asserted /\ peak.cnt_r <= search_length + Pattern + Stf)
    /\ UNCHANGED <<signal, chunk, detection, reported>>

\* skip_after_peak(): the STF that was found, and once more its length.
ignore_before_index_OfTheStfOnly == coarse_peak_time_local + Stf
ignore_before_index == coarse_peak_time_local + 2 * Stf

CoarsePeak ==
    /\ looking_for = "peak" /\ peak.cnt_r = peak.cnt_r_max /\ ValidAntennas # {}
    /\ sync_report' = [sync_report EXCEPT !.valid = ValidAntennas, !.coarse = coarse_peak_time_local]
    /\ detection' = [detection EXCEPT !.ignore_before_index = ignore_before_index]
    /\ asserted' = (/\ asserted /\ peak.cnt_r <= search_length + Pattern + Stf
                    /\ coarse_peak_time_local >= 0
                    /\ detection.ignore_before_index < ignore_before_index)
    /\ looking_for' = "fine"
    /\ UNCHANGED <<signal, chunk, peak, reported>>

-----------------------------------------------------------------------------
(* crosscorrelator_t, for the antenna with the largest coarse peak *)

search_length_l == Pattern
search_length_r == Pattern

\* An STF in front of the template, shifted by whole patterns.
CrossCorrelation(ant, t) ==
    LET Shifted(p) == {d \in (1 - stf_nof_pattern)..(stf_nof_pattern - 1) :
                           t - Local(p) = d * Pattern}
        Sum(d) == MapThenSumSet(LAMBDA i : cover_sequence[i] * cover_sequence[i + d],
                                {i \in 1..stf_nof_pattern : i + d \in 1..stf_nof_pattern})
    IN Abs(MapThenSumSet(LAMBDA p : p.amplitude[ant] * MapThenSumSet(Sum, Shifted(p)),
                         signal.packets))

Strongest == CHOOSE a \in sync_report.valid :
                 \A o \in sync_report.valid : \/ peak.best[o].metric < peak.best[a].metric
                                              \/ peak.best[o].metric = peak.best[a].metric /\ a <= o
fine_peak_time_local ==
    LET range == (sync_report.coarse - search_length_l)..(sync_report.coarse + search_length_r)
    IN CHOOSE t \in range : \A s \in range :
           \/ CrossCorrelation(Strongest, s) < CrossCorrelation(Strongest, t)
           \/ CrossCorrelation(Strongest, s) = CrossCorrelation(Strongest, t) /\ t <= s

FinePeak ==
    /\ looking_for = "fine"
    /\ reported' = Append(reported, [chunk |-> chunk, time |-> chunk * A + fine_peak_time_local])
    /\ looking_for' = "detection" /\ peak' = NoPeak /\ sync_report' = NoReport
    /\ UNCHANGED <<signal, chunk, detection, asserted>>

-----------------------------------------------------------------------------

NextChunk ==
    /\ looking_for = "detection" /\ detection.cnt_r >= search_length
    /\ chunk < LastChunk
    /\ chunk' = chunk + 1 /\ detection' = Fresh
    /\ UNCHANGED <<signal, looking_for, peak, sync_report, reported, asserted>>

SyncInit ==
    /\ signal \in Signals
    /\ chunk = 0 /\ looking_for = "detection" /\ detection = Fresh
    /\ peak = NoPeak /\ sync_report = NoReport /\ reported = <<>> /\ asserted = TRUE

SyncNext == SearchDetection \/ SearchPeak \/ FalseAlarm \/ CoarsePeak \/ FinePeak \/ NextChunk

-----------------------------------------------------------------------------

\* The search of a chunk by sync_chunk_t reports starts of packets only, each once and in their
\* order. A packet that starts within a chunk is found by the search of this chunk or, from the
\* overlap, of the one before, at the same time. No assertion fails, and the local buffer is never
\* too short.
SearchRight ==
    LET Of(c) == SelectSeq(reported, LAMBDA r : r.chunk = c)
        Times(c) == {Of(c)[i].time : i \in DOMAIN Of(c)}
    IN /\ asserted /\ detection.cnt_w <= localbuffer_size
       /\ \A i, j \in DOMAIN Of(chunk) : i < j => Of(chunk)[i].time < Of(chunk)[j].time
       /\ Times(chunk) \subseteq {p.start : p \in signal.packets}
       /\ (chunk > 0 /\ detection.cnt_r >= search_length) =>
             \A p \in signal.packets :
                 p.start \in (chunk * A)..(chunk * A + A - 1) =>
                     p.start \in Times(chunk) \cup Times(chunk - 1)
=============================================================================
