------------------------- MODULE TestFirmwareProofs -------------------------
(***************************************************************************)
(* Every measurement is of the packets it is said to be of, for all        *)
(* numbers of parameters, experiments, antennas and datagrams and for all  *)
(* times that leave a packet enough time to be decoded.                    *)
(***************************************************************************)
EXTENDS TestFirmware, FiniteSetTheorems, SequenceTheorems, TLAPS

-----------------------------------------------------------------------------
(* The inductive invariant *)

Packets(Tags) ==
    [radio : {1, 2}, at : Int, from : {"A", "B", "front", "back", "ft", "pt"}, tag : Tags,
     ahead : Int, stage : {"sent", "pdc"}]

\* Packets in the air are not older than PHY needs for them, and in order.
Air(Tags) ==
    /\ air \in Seq(Packets(Tags))
    /\ \A i \in DOMAIN air : air[i].at + PacketLength >= -Lag
    /\ InOrder

\* A callback at time t finds no packet in the air.
DecodedBefore(t) == \A i \in DOMAIN air : air[i].at + PacketLength + Lag <= t

(* Loopback *)

Counts == [n_pcc : Nat, n_pcc_and_plcf : Nat, n_pdc : Nat]
ChannelStates == {"A_SET_CHANNEL_SNR", "E_SET_PARAMETER", "DEAD_END"}
ExperimentStates == {"B_SET_CHANNEL_SMALL_SCALE_FADING", "C_EXPERIMENT_GENERATE_PACKETS"}
CountStates == ExperimentStates \cup {"D_EXPERIMENT_SAVE_RESULTS"}
OnAir == {"B_SET_CHANNEL_SMALL_SCALE_FADING", "D_EXPERIMENT_SAVE_RESULTS"}

LoopbackType ==
    /\ variant \in Variants /\ state \in ChannelStates \cup CountStates
    /\ parameter_cnt \in Nat /\ snr_cnt \in 0..Snrs - 1
    /\ nof_experiment_per_snr_cnt \in 0..nof_experiment_per_snr
    /\ result \in Counts /\ PER \in [Cells -> Counts \cup {NotSaved}] /\ heard \in [Cells -> Counts]
    /\ failed = "none"

\* There is one callback ahead until the end.
CallbackInv ==
    IF state = "DEAD_END"
    THEN reports = {} /\ parameter_cnt = Parameters[variant] /\ snr_cnt = 0
    ELSE /\ \E r \in reports : reports = Requested(r.at) /\ r.at \in Int
         /\ parameter_cnt < Parameters[variant]

\* Packets are in the air only where the firmware waits for them, those of the current row and column.
LoopbackAir ==
    /\ Air(Cells)
    /\ state \notin OnAir => air = <<>>
    /\ \A r \in reports : DecodedBefore(r.at)
    /\ \A i \in DOMAIN air : /\ air[i].radio = 1 /\ air[i].tag = Current
                             /\ air[i].stage = "pdc" => air[i].from = Identity
    /\ \A i, j \in DOMAIN air : air[i].from = Identity /\ air[j].from = Identity => i = j

\* The identity is counted once per experiment.
ExperimentInv ==
    /\ state \in ExperimentStates => nof_experiment_per_snr_cnt < nof_experiment_per_snr
    /\ state = "D_EXPERIMENT_SAVE_RESULTS" => nof_experiment_per_snr_cnt = nof_experiment_per_snr
    /\ state \in CountStates => result.n_pcc_and_plcf <= nof_experiment_per_snr_cnt
    /\ \A i \in DOMAIN air :
          /\ air[i].stage = "pdc" => result.n_pdc < result.n_pcc_and_plcf
          /\ air[i].from = Identity /\ air[i].stage = "sent"
                => result.n_pcc_and_plcf < nof_experiment_per_snr_cnt

Saved(c) ==
    \/ c[1] < parameter_cnt
    \/ c[1] = parameter_cnt /\ (c[2] < snr_cnt \/ (c[2] = snr_cnt /\ state = "E_SET_PARAMETER"))
\* Rows and columns are saved one after the other, those ahead are untouched.
SavedInv ==
    /\ \A c \in Cells : /\ PER[c] = IF Saved(c) THEN heard[c] ELSE NotSaved
                        /\ ~Saved(c) /\ c # Current => heard[c] = NoCount
                        /\ heard[c].n_pdc <= heard[c].n_pcc_and_plcf
                        /\ heard[c].n_pcc_and_plcf <= nof_experiment_per_snr
    /\ state \in CountStates => heard[Current] = result
    /\ state = "A_SET_CHANNEL_SNR" => heard[Current] = NoCount

LoopbackInv == LoopbackType /\ CallbackInv /\ LoopbackAir /\ ExperimentInv /\ SavedInv

(* txrxdelay, txrxagc, chscanner *)

Scans == [end : Int, tuned : Int]
TestsType ==
    /\ name \in Firmware /\ timing \in Timings
    /\ next \in Int /\ tx_last \in Int /\ S0 \in Int /\ R0 \in Int /\ L0 \in Int
    /\ cnt \in 0..2 * Antennas - 1 /\ gain \in [0..Antennas - 1 -> Int]
    /\ freqs_idx \in Nat /\ N_measurement_cnt \in Nat /\ tuned \in Int
    /\ scans \in Seq(Scans)
    /\ shown \in [value : Int, valid : BOOLEAN]
    /\ earliest \in Int /\ failed = "none"
    /\ Air(Nat)

\* One antenna at most is off its first gain, by one step up.
GainInv ==
    \A a \in 0..Antennas - 1 : gain[a] = IF a = cnt \div 2 /\ cnt % 2 = 1 THEN agc_change_dB ELSE 0

DelayInv ==
    /\ reports = Requested(next) /\ next >= -Late
    /\ DecodedBefore(next) /\ (earliest <= next \/ earliest <= 0)
    /\ \A i \in DOMAIN air : /\ air[i].radio = 1 /\ air[i].tag = 0
                             /\ air[i].stage = "sent" /\ air[i].at = tx_last
    /\ scans = <<>>

\* Packets in the air are of the latest pair; between its packets the callback for the gain is ahead.
PairInv ==
    /\ \A i \in DOMAIN air :
          /\ air[i].radio = 1 /\ air[i].stage = "sent" /\ air[i].from \in {"front", "back"}
          /\ air[i].from = "front" => air[i].at = S0
          /\ air[i].from = "back" => air[i].at = S0 + L0 + P0 + P1
    /\ air # <<>> => L0 = PacketLength
AgcInv ==
    /\ PairInv /\ scans = <<>>
    /\ \/ reports = Requested(next) /\ next >= -Late /\ DecodedBefore(next)
       \/ /\ reports = {irregular_report_t(S0 + L0 + P0, 1)} /\ S0 + L0 + P0 >= -Late
          /\ L0 = PacketLength /\ next >= S0 - Turnaround - Late
          /\ \A i \in DOMAIN air : air[i].from = "front"

\* A scan is of samples received at least a Window after the frequency was set.
Tuned(t) == tuned + Window <= t \/ tuned = -Long
ScanInv ==
    /\ air = <<>> /\ Tuned(next)
    /\ \/ reports = Requested(next) /\ next >= -Late /\ scans = <<>>
       \/ /\ reports = {} /\ Len(scans) = 1
          /\ scans[1].end >= -Lag /\ next < 0 /\ next >= scans[1].end - Late
          /\ scans[1].tuned <= -Window

TestsInv ==
    /\ TestsType /\ GainInv
    /\ shown.valid => shown.value = 0
    /\ name = "txrxdelay" => DelayInv
    /\ name = "txrxagc" => AgcInv
    /\ name = "chscanner" => ScanInv

(* rtt *)

Answers == [about : Nat, rtt : Nat]
Tally == [tx : Nat, rx : Nat]
Taken == [about : Nat, id : Nat, rtt : Nat, waited : Nat]

RttType ==
    /\ phase \in {"probe", "measure", "print"} /\ doing \in {"send", "await", "pause"}
    /\ id \in Nat /\ waited \in Nat /\ N_measurements_cnt \in Nat /\ rtt_success \in Nat
    /\ got \in Taken
    /\ queue \in Seq(Nat) /\ jobs \in Seq({0, 1}) /\ started \in {"no", "cleared", "permeable"}
    /\ watch \in Nat /\ N_measurement_tx_cnt \in Nat /\ N_measurement_rx_cnt \in Nat
    /\ answers \in Seq(Answers) /\ unserved \in BOOLEAN
    /\ counted \in Tally
    /\ earliest \in Int /\ earliest_pt \in Int
    /\ reports = {} /\ failed = "none"
    /\ Air(Nat)

RoundTrip == 2 * (Turnaround + PacketLength)

\* Where the datagram is that the program waits for: nowhere, ahead of the firmware, on its way to the
\* PT, on its way back, or in the answer.
Idle == jobs = <<>> /\ air = <<>> /\ answers = <<>>
InJob == /\ jobs = <<0>> /\ air = <<>> /\ answers = <<>> /\ queue # <<>> /\ waited = 0
         /\ started = "permeable" /\ earliest <= 0 /\ earliest_pt <= 0
         /\ ~unserved => queue = <<id>>
Underway == /\ jobs = <<>> /\ Len(air) = 1 /\ answers = <<>> /\ watch = waited
            /\ ~unserved => air[1].tag = id
ToPt == Underway /\ air[1].radio = 1 /\ air[1].at + waited = Turnaround /\ earliest_pt <= 0
ToFt == /\ Underway /\ air[1].radio = 2
        /\ air[1].at + waited >= 2 * Turnaround + PacketLength
        /\ air[1].at + waited <= 2 * Turnaround + PacketLength + Lag
        /\ earliest_pt <= 0 \/ earliest_pt <= air[1].at + PacketLength
Answered == /\ jobs = <<>> /\ air = <<>> /\ Len(answers) = 1
            /\ answers[1].rtt <= waited /\ answers[1].rtt >= RoundTrip
            /\ ~unserved => answers[1].about = id
            /\ earliest_pt <= 0

Where ==
    /\ doing = "send" => Idle
    /\ doing = "await" => Idle \/ InJob \/ ToPt \/ ToFt \/ Answered
    /\ doing = "pause" => air = <<>> /\ answers = <<>> /\ (jobs = <<>> \/ (jobs = <<1>> /\ waited = 0))
DatagramInv ==
    /\ Where
    /\ phase = "print" => doing # "await"
    /\ doing = "await" => waited <= Timeout
    /\ doing = "pause" => waited <= Pause

\* The next transmission of each device is free by the time of the next datagram.
EarliestInv ==
    /\ earliest <= 0 \/ (doing = "await" /\ earliest + waited <= Turnaround + PacketLength)
    /\ earliest_pt <= 0 \/ (doing = "await" /\ earliest_pt + waited <= RoundTrip + Lag)

\* The queue holds nothing but the datagram of the job, the counts agree.
CountInv ==
    ~unserved =>
        /\ started = "cleared" => queue = <<>>
        /\ started = "permeable" /\ jobs # <<0>> => queue = <<>>
        /\ N_measurement_tx_cnt = counted.tx - (IF jobs = <<0>> THEN 1 ELSE 0)
        /\ N_measurement_rx_cnt = counted.rx + Len(answers)
        /\ printed.is = printed.ought
        /\ got.about = got.id

AnswerInv ==
    /\ rtt_success <= N_measurements_cnt
    /\ got.rtt <= got.waited
    /\ (rtt_success > 0 \/ got.id # 0 \/ got.waited > 0) => got.rtt >= RoundTrip

RttInv == RttType /\ DatagramInv /\ EarliestInv /\ CountInv /\ AnswerInv

Inv ==
    \/ kind = "loopback" /\ LoopbackInv /\ TestsVariables /\ RttVariables
    \/ kind = "tests" /\ TestsInv /\ LoopbackVariables /\ RttVariables
    \/ kind = "rtt" /\ RttInv /\ LoopbackVariables /\ TestsVariables

-----------------------------------------------------------------------------
(* Packets in the air *)

\* RemoveAt moves the elements behind the one removed.
LEMMA RemoveAtElements ==
    ASSUME NEW S, NEW s \in Seq(S), NEW i \in 1..Len(s)
    PROVE  /\ RemoveAt(s, i) \in Seq(S) /\ Len(RemoveAt(s, i)) = Len(s) - 1
           /\ \A k \in 1..Len(s) - 1 : RemoveAt(s, i)[k] = IF k < i THEN s[k] ELSE s[k + 1]
<1> DEFINE u == SubSeq(s, 1, i - 1)
           v == SubSeq(s, i + 1, Len(s))
<1>1. u \in Seq(S) /\ Len(u) = i - 1 /\ \A k \in 1..i - 1 : u[k] = s[k]
  OBVIOUS
<1>2. v \in Seq(S) /\ Len(v) = Len(s) - i /\ \A k \in 1..Len(s) - i : v[k] = s[i + k]
  OBVIOUS
<1>3. RemoveAt(s, i) = u \o v  BY DEF RemoveAt
<1> HIDE DEF u, v
<1>4. u \o v \in Seq(S) /\ Len(u \o v) = Len(s) - 1  BY <1>1, <1>2
<1>5. ASSUME NEW k \in 1..Len(s) - 1
      PROVE  (u \o v)[k] = IF k < i THEN s[k] ELSE s[k + 1]
  <2>1. CASE k < i
    BY <2>1, <1>1, <1>2
  <2>2. CASE k >= i
    <3>1. (u \o v)[k] = v[k - (i - 1)]  BY <2>2, <1>1, <1>2, SMTT(60)
    <3>2. k - (i - 1) \in 1..Len(s) - i /\ i + (k - (i - 1)) = k + 1  BY <2>2
    <3> QED  BY <3>1, <3>2, <2>2, <1>2
  <2>3. k < i \/ k >= i  OBVIOUS
  <2> QED  BY <2>1, <2>2, <2>3
<1> QED  BY <1>3, <1>4, <1>5, ZenonT(60)

\* A packet that PHY drops leaves the others as they are.
LEMMA DropPacket ==
    ASSUME NEW Tags, Air(Tags), NEW i \in DOMAIN air, Drop(i)
    PROVE  /\ Air(Tags)' /\ Len(air') = Len(air) - 1
           /\ \E f \in [DOMAIN air' -> DOMAIN air] :
                 /\ \A k \in DOMAIN air' : air'[k] = air[f[k]] /\ f[k] # i
                 /\ \A k, l \in DOMAIN air' : f[k] = f[l] => k = l
<1> DEFINE f == [k \in 1..Len(air) - 1 |-> IF k < i THEN k ELSE k + 1]
<1>1. /\ air' \in Seq(Packets(Tags)) /\ Len(air') = Len(air) - 1
      /\ \A k \in 1..Len(air) - 1 : air'[k] = air[f[k]]
  BY RemoveAtElements DEF Drop, Air
<1>2. DOMAIN air' = 1..Len(air) - 1 /\ DOMAIN air = 1..Len(air) /\ Len(air) \in Nat
  BY <1>1 DEF Air
<1>3. /\ f \in [DOMAIN air' -> DOMAIN air]
      /\ \A k, l \in DOMAIN air' : f[k] # i /\ (k < l => f[k] < f[l]) /\ (f[k] = f[l] => k = l)
  BY <1>2
<1> HIDE DEF f
<1>4. \A k \in DOMAIN air' : f[k] \in DOMAIN air /\ air'[k] = air[f[k]]
  BY <1>1, <1>2, <1>3
<1>5. InOrder'
  BY <1>1, <1>2, <1>3, <1>4, SMTT(60) DEF InOrder, Air
<1> QED  BY <1>1, <1>3, <1>4, <1>5 DEF Air

\* A packet whose PCC was decoded keeps its place.
LEMMA ProceedPacket ==
    ASSUME NEW Tags, Air(Tags), NEW i \in DOMAIN air, Proceed(i)
    PROVE  /\ Air(Tags)' /\ Len(air') = Len(air)
           /\ \A k \in DOMAIN air : /\ air'[k].radio = air[k].radio /\ air'[k].at = air[k].at
                                    /\ air'[k].from = air[k].from /\ air'[k].tag = air[k].tag
                                    /\ air'[k].stage = IF k = i THEN "pdc" ELSE air[k].stage
<1>1. \A k \in DOMAIN air : air[k] \in Packets(Tags)  BY DEF Air
<1>2. air' = [air EXCEPT ![i] = [air[i] EXCEPT !.stage = "pdc"]]  BY DEF Proceed
<1>3. [air[i] EXCEPT !.stage = "pdc"] \in Packets(Tags)  BY <1>1 DEF Packets
<1>4. air' \in Seq(Packets(Tags)) /\ Len(air') = Len(air) /\ DOMAIN air' = DOMAIN air
  BY <1>2, <1>3 DEF Air
<1>5. \A k \in DOMAIN air : /\ air'[k].radio = air[k].radio /\ air'[k].at = air[k].at
                            /\ air'[k].from = air[k].from /\ air'[k].tag = air[k].tag
                            /\ air'[k].ahead = air[k].ahead
                            /\ air'[k].stage = IF k = i THEN "pdc" ELSE air[k].stage
  BY <1>1, <1>2, SMTT(60) DEF Air, Packets
<1>6. InOrder'  BY <1>4, <1>5 DEF InOrder, Air
<1> QED  BY <1>4, <1>5, <1>6 DEF Air

\* While time passes all packets come nearer at once.
LEMMA TimePackets ==
    ASSUME NEW Tags, Air(Tags), PassTime
    PROVE  /\ Air(Tags)' /\ Len(air') = Len(air) /\ DOMAIN air' = DOMAIN air
           /\ \A k \in DOMAIN air : /\ air[k].at + PacketLength > -Lag
                                    /\ air'[k].radio = air[k].radio /\ air'[k].at = air[k].at - 1
                                    /\ air'[k].from = air[k].from /\ air'[k].tag = air[k].tag
                                    /\ air'[k].stage = air[k].stage
<1> USE RadioAssumption
<1>1. \A k \in DOMAIN air : air[k] \in Packets(Tags)  BY DEF Air
<1>2. air' = [i \in DOMAIN air |-> [air[i] EXCEPT !.at = @ - 1]]  BY DEF PassTime
<1>3. \A k \in DOMAIN air : [air[k] EXCEPT !.at = @ - 1] \in Packets(Tags)  BY <1>1 DEF Packets
<1>4. air' \in Seq(Packets(Tags)) /\ Len(air') = Len(air) /\ DOMAIN air' = DOMAIN air
  BY <1>2, <1>3 DEF Air
<1>5. \A k \in DOMAIN air : /\ air'[k].radio = air[k].radio /\ air'[k].at = air[k].at - 1
                            /\ air'[k].from = air[k].from /\ air'[k].tag = air[k].tag
                            /\ air'[k].ahead = air[k].ahead /\ air'[k].stage = air[k].stage
  BY <1>1, <1>2 DEF Air, Packets
<1>6. \A k \in DOMAIN air : air[k].at + PacketLength > -Lag  BY DEF PassTime
<1>7. \A k \in DOMAIN air : air[k].at \in Int  BY <1>1 DEF Packets
<1>8. \A i, j \in DOMAIN air : air[i].at + PacketLength <= air[j].at
                                   => air[i].at - 1 + PacketLength <= air[j].at - 1
  BY <1>7
<1>9. InOrder'  BY <1>4, <1>5, <1>8 DEF InOrder, Air
<1>10. \A k \in DOMAIN air : air'[k].at + PacketLength >= -Lag
  BY <1>5, <1>6, <1>7
<1> QED  BY <1>4, <1>5, <1>6, <1>9, <1>10 DEF Air

\* What was to be decoded before a time that has passed has been decoded.
LEMMA NothingInAir ==
    ASSUME NEW Tags, Air(Tags), NEW t \in Int, t < 0, DecodedBefore(t)
    PROVE  air = <<>>
<1>1. air \in Seq(Packets(Tags))  BY DEF Air
<1>2. DOMAIN air = {}
  <2> SUFFICES ASSUME NEW i \in DOMAIN air PROVE FALSE  OBVIOUS
  <2>1. air[i] \in Packets(Tags)  BY <1>1
  <2>2. air[i].at \in Int  BY <2>1 DEF Packets
  <2>3. air[i].at + PacketLength >= -Lag /\ air[i].at + PacketLength + Lag <= t
    BY DEF Air, DecodedBefore
  <2> QED  BY <2>2, <2>3, RadioAssumption
<1> QED  BY <1>1, <1>2

LEMMA OnePacket ==
    ASSUME NEW Tags, NEW p \in Packets(Tags), air' = <<p>>, p.ahead >= Turnaround, p.at + PacketLength >= -Lag
    PROVE  Air(Tags)'
<1>1. air' \in Seq(Packets(Tags)) /\ DOMAIN air' = {1} /\ air'[1] = p  OBVIOUS
<1>2. InOrder'  BY <1>1 DEF InOrder
<1> QED  BY <1>1, <1>2 DEF Air

\* With nothing in the air every TX process is available.
LEMMA AllAvailable ==
    ASSUME NEW r, air = <<>>
    PROVE  Available(r) = NofProcesses /\ Available(r) > 0
<1>1. {i \in DOMAIN air : air[i].radio = r /\ air[i].at > 0} = {}  OBVIOUS
<1> QED  BY <1>1, FS_EmptySet, RadioAssumption DEF Available

\* The first packets asked for are generated, as many as there are processes.
LEMMA GenerateFirst ==
    ASSUME NEW r, air = <<>>, NEW S, NEW p \in Seq(S), p # <<>>, Generate(r, p)
    PROVE  /\ air' \in Seq(S) /\ Len(air') \in 1..Len(p)
           /\ \A k \in DOMAIN air' : air'[k] = p[k]
<1> USE RadioAssumption
<1>1. Available(r) = NofProcesses  BY AllAvailable
<1>2. Len(p) \in Nat \ {0}  OBVIOUS
<1>3. CASE Len(p) <= NofProcesses
  <2>1. air' = p  BY <1>1, <1>3 DEF Generate
  <2> QED  BY <2>1, <1>2
<1>4. CASE Len(p) > NofProcesses
  <2>1. air' = <<>> \o SubSeq(p, 1, NofProcesses)  BY <1>1, <1>2, <1>4 DEF Generate
  <2>2. /\ SubSeq(p, 1, NofProcesses) \in Seq(S) /\ Len(SubSeq(p, 1, NofProcesses)) = NofProcesses
        /\ \A k \in 1..NofProcesses : SubSeq(p, 1, NofProcesses)[k] = p[k]
    BY <1>2, <1>4
  <2>3. air' = SubSeq(p, 1, NofProcesses)  BY <2>1, <2>2
  <2> QED  BY <2>2, <2>3, <1>2, <1>4
<1> QED  BY <1>2, <1>3, <1>4

-----------------------------------------------------------------------------
(* Loopback *)

LEMMA NoCountType == NoCount \in Counts /\ NotSaved \notin Counts
BY DEF NoCount, NotSaved, Counts

LEMMA CellsType ==
    ASSUME variant \in Variants
    PROVE  /\ Parameters[variant] \in Nat \ {0}
           /\ \A c \in Cells : /\ c = <<c[1], c[2]>> /\ c[1] \in 0..Parameters[variant] - 1
                               /\ c[2] \in 0..Snrs - 1
BY LoopbackAssumption DEF Cells

LEMMA LoopbackStarts ==
    ASSUME LoopbackVariables, reports = Requested(stt.x_to_A), air = <<>>, failed = "none"
    PROVE  LoopbackInv
<1> USE LoopbackAssumption DEF LoopbackVariables
<1>1. LoopbackType  BY NoCountType DEF LoopbackType, ChannelStates, CountStates, ExperimentStates
<1>2. CallbackInv
  <2>1. stt.x_to_A \in Int  OBVIOUS
  <2>2. irregular_report_t(stt.x_to_A, 0).at = stt.x_to_A  BY DEF irregular_report_t
  <2> QED  BY <2>1, <2>2, CellsType DEF CallbackInv, Requested
<1>3. LoopbackAir
  BY DEF LoopbackAir, Air, InOrder, DecodedBefore
<1>4. ExperimentInv  BY DEF ExperimentInv, ExperimentStates, CountStates
<1>5. SavedInv
  <2>1. \A c \in Cells : ~Saved(c)  BY CellsType, SMTT(60) DEF Saved
  <2>2. Current \in Cells  BY CellsType DEF Current, Cells
  <2> QED  BY <2>1, <2>2 DEF SavedInv, NoCount, CountStates, ExperimentStates
<1> QED  BY <1>1, <1>2, <1>3, <1>4, <1>5 DEF LoopbackInv

\* A callback finds the air empty and asks for the next one.
LEMMA CallbackFinds ==
    ASSUME LoopbackInv, NEW from, NEW to, NEW n \in {"same", "A_to_B", "B_to_C", "C_to_B", "C_to_D"},
           Callback(from, to, n)
    PROVE  /\ state = from /\ state' = to /\ from # "DEAD_END" /\ air = <<>>
           /\ parameter_cnt < Parameters[variant] /\ Current \in Cells
           /\ \E at \in Int : reports' = NextReport(to, at) /\ (n # "same" => at = stt[n])
<1> USE LoopbackAssumption, RadioAssumption
<1>1. PICK r \in reports : /\ Due(r) /\ state = from /\ state' = to
                           /\ reports' = NextReport(to, IF n = "same" THEN r.at ELSE stt[n])
  BY DEF Callback
<1>2. from # "DEAD_END" /\ parameter_cnt < Parameters[variant] /\ r.at \in Int
  BY <1>1 DEF LoopbackInv, CallbackInv, Requested
<1>3. r.at < 0  BY <1>1 DEF Due
<1>7. air = <<>>
  <2>1. Air(Cells) /\ DecodedBefore(r.at)  BY DEF LoopbackInv, LoopbackAir
  <2> QED  BY <1>2, <1>3, <2>1, NothingInAir
<1>8. Current \in Cells
  BY <1>2, CellsType DEF LoopbackInv, LoopbackType, Current, Cells
<1>9. n # "same" => stt[n] \in Int  OBVIOUS
<1> QED  BY <1>1, <1>2, <1>7, <1>8, <1>9

\* The next callback, with nothing in the air.
LEMMA CallbackNext ==
    ASSUME NEW at \in Int, reports' = NextReport(state', at), state' # "DEAD_END",
           (parameter_cnt < Parameters[variant])'
    PROVE  /\ CallbackInv'
           /\ \A r \in reports' : r.at = at
<1>1. irregular_report_t(at, 0).at = at  BY DEF irregular_report_t
<1> QED  BY <1>1 DEF CallbackInv, NextReport, Requested

LEMMA SilentAir ==
    ASSUME air' = <<>>
    PROVE  LoopbackAir'
BY DEF LoopbackAir, Air, InOrder, DecodedBefore

LEMMA LoopbackSetChannelSnr ==
    ASSUME LoopbackInv, SetChannelSnr
    PROVE  LoopbackInv'
<1> USE LoopbackAssumption DEF SetChannelSnr, A_reset_result_counter_for_next_snr
<1>1. /\ state = "A_SET_CHANNEL_SNR" /\ state' = "B_SET_CHANNEL_SMALL_SCALE_FADING" /\ air = <<>>
      /\ parameter_cnt < Parameters[variant] /\ Current \in Cells
  BY CallbackFinds
<1>2. PICK at \in Int : reports' = NextReport(state', at)  BY <1>1, CallbackFinds
<1>3. UNCHANGED <<Cells, Current>>  BY DEF Cells, Current
<1>4. LoopbackType'
  BY <1>1, <1>3, NoCountType DEF LoopbackInv, LoopbackType, ChannelStates, CountStates, ExperimentStates
<1>5. CallbackInv'  BY <1>1, <1>2, CallbackNext
<1>6. LoopbackAir'  BY <1>1, SilentAir
<1>7. ExperimentInv'  BY <1>1 DEF ExperimentInv, ExperimentStates, CountStates, NoCount
<1>8. SavedInv'
  <2>1. \A c : Saved(c)' = Saved(c)  BY <1>1 DEF Saved
  <2> QED  BY <1>1, <1>3, <2>1 DEF LoopbackInv, SavedInv
<1> QED  BY <1>4, <1>5, <1>6, <1>7, <1>8 DEF LoopbackInv

LEMMA LoopbackSetFading ==
    ASSUME LoopbackInv, SetFading
    PROVE  LoopbackInv'
<1> USE LoopbackAssumption DEF SetFading
<1>1. /\ state = "B_SET_CHANNEL_SMALL_SCALE_FADING" /\ state' = "C_EXPERIMENT_GENERATE_PACKETS"
      /\ air = <<>> /\ parameter_cnt < Parameters[variant]
  BY CallbackFinds
<1>2. PICK at \in Int : reports' = NextReport(state', at)  BY <1>1, CallbackFinds
<1>3. UNCHANGED <<Cells, Current>>  BY DEF Cells, Current
<1>4. LoopbackType'
  BY <1>1, <1>3 DEF LoopbackInv, LoopbackType, ChannelStates, CountStates, ExperimentStates
<1>5. CallbackInv'  BY <1>1, <1>2, CallbackNext
<1>6. LoopbackAir'  BY <1>1, SilentAir
<1>7. ExperimentInv'  BY <1>1 DEF LoopbackInv, ExperimentInv, ExperimentStates, CountStates
<1>8. SavedInv'
  <2>1. \A c : Saved(c)' = Saved(c)  BY <1>1 DEF Saved
  <2> QED  BY <1>1, <1>3, <2>1 DEF LoopbackInv, SavedInv, CountStates, ExperimentStates
<1> QED  BY <1>4, <1>5, <1>6, <1>7, <1>8 DEF LoopbackInv

LEMMA LoopbackSaveResults ==
    ASSUME LoopbackInv, SaveResults
    PROVE  LoopbackInv'
<1> USE LoopbackAssumption DEF SaveResults
<1>1. /\ state = "D_EXPERIMENT_SAVE_RESULTS" /\ state' = "E_SET_PARAMETER"
      /\ air = <<>> /\ parameter_cnt < Parameters[variant] /\ Current \in Cells
  BY CallbackFinds
<1>2. PICK at \in Int : reports' = NextReport(state', at)  BY <1>1, CallbackFinds
<1>3. UNCHANGED <<Cells, Current>>  BY DEF Cells, Current
<1>4. failed' = failed  BY <1>1 DEF LoopbackInv, ExperimentInv
<1>5. LoopbackType'
  BY <1>1, <1>3, <1>4 DEF LoopbackInv, LoopbackType, ChannelStates, CountStates, ExperimentStates
<1>6. CallbackInv'  BY <1>1, <1>2, CallbackNext
<1>7. LoopbackAir'  BY <1>1, SilentAir
<1>8. ExperimentInv'  BY <1>1 DEF ExperimentInv, ExperimentStates, CountStates
<1>9. SavedInv'
  <2>1. \A c \in Cells : Saved(c)' <=> Saved(c) \/ c = Current
    BY <1>1, CellsType DEF Saved, Current, LoopbackInv, LoopbackType
  <2>2. heard[Current] = result  BY <1>1 DEF LoopbackInv, SavedInv, CountStates
  <2>3. ~Saved(Current)  BY <1>1 DEF Saved, Current, LoopbackInv, LoopbackType
  <2>4. \A c \in Cells : PER'[c] = IF c = Current THEN heard[c] ELSE PER[c]
    BY <1>1, <2>2 DEF LoopbackInv, LoopbackType
  <2> QED  BY <1>1, <1>3, <2>1, <2>2, <2>3, <2>4
           DEF LoopbackInv, SavedInv, CountStates, ExperimentStates
<1> QED  BY <1>5, <1>6, <1>7, <1>8, <1>9 DEF LoopbackInv

LEMMA LoopbackSetParameter ==
    ASSUME LoopbackInv, SetParameter
    PROVE  LoopbackInv'
<1> USE LoopbackAssumption
<1> DEFINE wrap == snr_cnt + 1 = Snrs
           end  == wrap /\ parameter_cnt + 1 = Parameters[variant]
           to   == IF end THEN "DEAD_END" ELSE "A_SET_CHANNEL_SNR"
<1>1. /\ Callback("E_SET_PARAMETER", to, "same")
      /\ snr_cnt' = IF wrap THEN 0 ELSE snr_cnt + 1
      /\ parameter_cnt' = IF wrap THEN parameter_cnt + 1 ELSE parameter_cnt
      /\ UNCHANGED <<air, earliest, failed, variant, nof_experiment_per_snr_cnt, result, PER, heard>>
  BY DEF SetParameter
<1> HIDE DEF to
<1>2. /\ state = "E_SET_PARAMETER" /\ state' = to /\ air = <<>>
      /\ parameter_cnt < Parameters[variant] /\ Current \in Cells
  BY <1>1, CallbackFinds
<1>3. PICK at \in Int : reports' = NextReport(state', at)  BY <1>1, <1>2, CallbackFinds
<1> USE DEF to
<1>4. UNCHANGED Cells  BY <1>1 DEF Cells
<1>5. /\ parameter_cnt \in Nat /\ snr_cnt \in 0..Snrs - 1 /\ Snrs \in Nat \ {0}
      /\ Parameters[variant] \in Nat
  BY CellsType DEF LoopbackInv, LoopbackType
<1>6. LoopbackType'
  BY <1>1, <1>2, <1>4, <1>5, SMTT(60) DEF LoopbackInv, LoopbackType, ChannelStates
<1>7. CallbackInv'
  <2>1. CASE end
    BY <2>1, <1>1, <1>2, <1>3 DEF CallbackInv, NextReport
  <2>2. CASE ~end
    BY <2>2, <1>1, <1>2, <1>3, <1>5, CallbackNext
  <2> QED  BY <2>1, <2>2
<1>8. LoopbackAir'  BY <1>1, <1>2, SilentAir
<1>9. ExperimentInv'
  BY <1>1, <1>2 DEF ExperimentInv, ExperimentStates, CountStates
<1>10. SavedInv'
  <2>1. \A c \in Cells : Saved(c)' <=> Saved(c)
    <3> SUFFICES ASSUME NEW c \in Cells PROVE Saved(c)' <=> Saved(c)  OBVIOUS
    <3>1. c[1] \in Int /\ c[2] \in 0..Snrs - 1  BY CellsType DEF LoopbackInv, LoopbackType
    <3>2. state' # "E_SET_PARAMETER"  BY <1>2
    <3>3. Saved(c) <=> c[1] < parameter_cnt \/ (c[1] = parameter_cnt /\ c[2] <= snr_cnt)
      BY <3>1, <1>2, <1>5, SMTT(60) DEF Saved
    <3>4. Saved(c)' <=> c[1] < parameter_cnt' \/ (c[1] = parameter_cnt' /\ c[2] < snr_cnt')
      BY <3>2 DEF Saved
    <3> QED  BY <3>1, <3>3, <3>4, <1>1, <1>5
  <2>2. Saved(Current)  BY <1>2 DEF Saved, Current
  <2>3. state' = "A_SET_CHANNEL_SNR" => Current' \in Cells /\ ~Saved(Current)'
    <3>1. Current' = <<parameter_cnt', snr_cnt'>>  BY DEF Current
    <3>2. state' = "A_SET_CHANNEL_SNR" => ~Saved(Current)'
      BY <3>1, <1>1, <1>2, <1>5 DEF Saved
    <3>3. state' = "A_SET_CHANNEL_SNR" => Current' \in Cells
      <4> SUFFICES ASSUME state' = "A_SET_CHANNEL_SNR" PROVE Current' \in Cells  OBVIOUS
      <4>1. ~end  BY <1>2
      <4>2. parameter_cnt' \in 0..Parameters[variant] - 1  BY <4>1, <1>1, <1>2, <1>5
      <4>3. snr_cnt' \in 0..Snrs - 1  BY <4>1, <1>1, <1>5
      <4> HIDE DEF wrap, end
      <4> QED  BY <3>1, <4>2, <4>3 DEF Cells
    <3> QED  BY <3>2, <3>3
  <2>4. \A c \in Cells : ~Saved(c) => heard[c] = NoCount
    BY <2>2 DEF LoopbackInv, SavedInv
  <2> QED  BY <1>1, <1>2, <1>4, <2>1, <2>3, <2>4
           DEF LoopbackInv, SavedInv, CountStates, ExperimentStates
<1> QED  BY <1>6, <1>7, <1>8, <1>9, <1>10 DEF LoopbackInv

\* One experiment: at most two packets, one after the other, the wanted one once, and all of them are
\* decoded before the firmware goes on.
LEMMA ExperimentPackets ==
    ASSUME Current \in Cells, NEW jitter \in 0..Jitter
    PROVE  /\ Experiment(jitter) \in Seq(Packets(Cells)) /\ Experiment(jitter) # <<>>
           /\ Len(Experiment(jitter)) = (IF variant = "ratio" THEN 2 ELSE 1)
           /\ \A i \in DOMAIN Experiment(jitter) :
                 /\ Experiment(jitter)[i].at = Turnaround + jitter + (i - 1) * PacketLength
                 /\ Experiment(jitter)[i].ahead = Experiment(jitter)[i].at
                 /\ Experiment(jitter)[i].radio = 1 /\ Experiment(jitter)[i].tag = Current
                 /\ Experiment(jitter)[i].stage = "sent"
                 /\ Experiment(jitter)[i].from = Identity <=> i = Len(Experiment(jitter))
<1> USE LoopbackAssumption, RadioAssumption
<1> DEFINE n == IF variant = "ratio" THEN 2 ELSE 1
           E == Experiment(jitter)
<1>1. Senders \in Seq({"A", "B"}) /\ Len(Senders) = n /\ DOMAIN Senders = 1..n
  <2>1. CASE variant = "ratio"  BY <2>1 DEF Senders
  <2>2. CASE variant # "ratio"  BY <2>2 DEF Senders
  <2> QED  BY <2>1, <2>2
<1>2. \A i \in 1..n : Senders[i] \in {"A", "B"} /\ (Senders[i] = Identity <=> i = n)
  BY DEF Senders, Identity
<1>3. E = [i \in 1..n |-> buffer_tx_meta_t(1, Turnaround + jitter + (i - 1) * PacketLength, Senders[i], Current)]
  BY <1>1 DEF Experiment
<1>4. \A i \in 1..n : Turnaround + jitter + (i - 1) * PacketLength \in Int
  <2>1. n \in {1, 2}  OBVIOUS
  <2>2. jitter \in Nat /\ Turnaround \in Nat /\ PacketLength \in Nat  OBVIOUS
  <2>3. Turnaround + jitter + (1 - 1) * PacketLength \in Int
        /\ Turnaround + jitter + (2 - 1) * PacketLength \in Int
    BY <2>2
  <2> QED  BY <2>1, <2>3
<1> HIDE DEF n
<1>5. ASSUME NEW i \in 1..n
      PROVE  /\ E[i] \in Packets(Cells)
             /\ E[i].at = Turnaround + jitter + (i - 1) * PacketLength
             /\ E[i].ahead = E[i].at /\ E[i].radio = 1 /\ E[i].tag = Current
             /\ E[i].stage = "sent" /\ E[i].from = Senders[i]
  <2> DEFINE t == Turnaround + jitter + (i - 1) * PacketLength
  <2>1. E[i] = buffer_tx_meta_t(1, t, Senders[i], Current)  BY <1>3
  <2>2. t \in Int  BY <1>4
  <2> HIDE DEF t, E
  <2>3. Senders[i] \in {"A", "B"}  BY <1>2
  <2>4. buffer_tx_meta_t(1, t, Senders[i], Current) \in Packets(Cells)
    BY <2>2, <2>3 DEF buffer_tx_meta_t, Packets
  <2>5. E[i].at = t /\ E[i].ahead = t /\ E[i].radio = 1 /\ E[i].tag = Current
        /\ E[i].stage = "sent" /\ E[i].from = Senders[i]
    BY <2>1 DEF buffer_tx_meta_t
  <2>6. E[i] \in Packets(Cells)  BY <2>1, <2>4
  <2> QED  BY <2>5, <2>6 DEF t
<1>6. n \in Nat \ {0}  BY DEF n
<1> HIDE DEF E
<1>7. E \in [1..n -> Packets(Cells)]
  <2>1. DOMAIN E = 1..n /\ E = [i \in 1..n |-> E[i]]  BY <1>3
  <2> QED  BY <2>1, <1>5
<1>8. E \in Seq(Packets(Cells)) /\ Len(E) = n /\ DOMAIN E = 1..n /\ E # <<>>
  BY <1>6, <1>7
<1>9. \A i \in DOMAIN E : /\ E[i].at = Turnaround + jitter + (i - 1) * PacketLength
                         /\ E[i].ahead = E[i].at /\ E[i].radio = 1 /\ E[i].tag = Current
                         /\ E[i].stage = "sent" /\ (E[i].from = Identity <=> i = Len(E))
  BY <1>2, <1>5, <1>8, ZenonT(60)
<1>10. Len(E) = IF variant = "ratio" THEN 2 ELSE 1  BY <1>8 DEF n
<1> QED  BY <1>8, <1>9, <1>10, Zenon DEF E

LEMMA LoopbackGeneratePackets ==
    ASSUME LoopbackInv, GeneratePackets
    PROVE  LoopbackInv'
<1> USE LoopbackAssumption, RadioAssumption
<1> DEFINE to == IF nof_experiment_per_snr_cnt' < nof_experiment_per_snr
                 THEN "B_SET_CHANNEL_SMALL_SCALE_FADING" ELSE "D_EXPERIMENT_SAVE_RESULTS"
           n == IF nof_experiment_per_snr_cnt' < nof_experiment_per_snr THEN "C_to_B" ELSE "C_to_D"
<1>1. /\ Callback("C_EXPERIMENT_GENERATE_PACKETS", to, n)
      /\ nof_experiment_per_snr_cnt' = nof_experiment_per_snr_cnt + 1
      /\ UNCHANGED <<earliest, failed, variant, parameter_cnt, snr_cnt, result, PER, heard>>
  BY DEF GeneratePackets
<1>2. PICK jitter \in 0..Jitter : Generate(1, Experiment(jitter))  BY DEF GeneratePackets
<1>3. /\ n \in {"C_to_B", "C_to_D"} /\ n # "same" /\ to # "DEAD_END" /\ to \in OnAir
      /\ stt[n] \in Nat /\ stt[n] >= Turnaround + Jitter + 2 * PacketLength + Lag
  BY DEF OnAir
<1>4. n \in {"same", "A_to_B", "B_to_C", "C_to_B", "C_to_D"}  BY <1>3
<1> HIDE DEF to, n
<1>5. /\ state = "C_EXPERIMENT_GENERATE_PACKETS" /\ state' = to /\ air = <<>>
      /\ parameter_cnt < Parameters[variant] /\ Current \in Cells
  BY <1>1, <1>4, CallbackFinds
<1>6. \E at \in Int : reports' = NextReport(to, at) /\ (n # "same" => at = stt[n])
  BY <1>1, <1>4, CallbackFinds
<1>7. reports' = NextReport(state', stt[n]) /\ stt[n] \in Int  BY <1>3, <1>5, <1>6
<1>8. UNCHANGED <<Cells, Current, Identity>>  BY <1>1 DEF Cells, Current, Identity
<1>9. nof_experiment_per_snr_cnt < nof_experiment_per_snr
      /\ nof_experiment_per_snr_cnt \in Nat /\ nof_experiment_per_snr \in Nat
  BY <1>5 DEF LoopbackInv, LoopbackType, ExperimentInv, ExperimentStates
<1>10. LoopbackType'
  BY <1>1, <1>3, <1>5, <1>8, <1>9
     DEF LoopbackInv, LoopbackType, OnAir, CountStates, ExperimentStates
<1>11. CallbackInv' /\ \A r \in reports' : r.at = stt[n]
  BY <1>1, <1>3, <1>5, <1>7, CallbackNext
<1>12. /\ air' \in Seq(Packets(Cells)) /\ Len(air') \in 1..Len(Experiment(jitter))
       /\ \A k \in DOMAIN air' : air'[k] = Experiment(jitter)[k]
  <2>1. Experiment(jitter) \in Seq(Packets(Cells)) /\ Experiment(jitter) # <<>>
    BY <1>2, <1>5, ExperimentPackets
  <2> QED  BY <1>2, <1>5, <2>1, GenerateFirst
<1>13. Len(Experiment(jitter)) \in {1, 2} /\ jitter \in Nat  BY <1>2, <1>5, ExperimentPackets
<1>14. ASSUME NEW k \in DOMAIN air'
       PROVE  /\ k \in {1, 2} /\ k \in DOMAIN Experiment(jitter)
              /\ air'[k].at = IF k = 1 THEN Turnaround + jitter ELSE Turnaround + jitter + PacketLength
              /\ air'[k].ahead = air'[k].at
              /\ air'[k].radio = 1 /\ air'[k].tag = Current /\ air'[k].stage = "sent"
              /\ air'[k].from = Identity <=> k = Len(Experiment(jitter))
  <2>1. k \in 1..Len(Experiment(jitter)) /\ k \in {1, 2}
    <3>1. k \in 1..Len(air')  BY <1>12, SMTT(60)
    <3> QED  BY <3>1, <1>12, <1>13, SMTT(60)
  <2>2. k \in DOMAIN Experiment(jitter)
    <3>1. Experiment(jitter) \in Seq(Packets(Cells))  BY <1>2, <1>5, ExperimentPackets
    <3> QED  BY <2>1, <3>1
  <2>3. air'[k] = Experiment(jitter)[k]  BY <1>12
  <2>4. air'[k].at = Turnaround + jitter + (k - 1) * PacketLength
    <3>1. \A i \in DOMAIN Experiment(jitter) :
              Experiment(jitter)[i].at = Turnaround + jitter + (i - 1) * PacketLength
      BY <1>2, <1>5, ExperimentPackets
    <3> QED  BY <3>1, <2>2, <2>3
  <2>5. air'[k].at = IF k = 1 THEN Turnaround + jitter ELSE Turnaround + jitter + PacketLength
    <3>1. CASE k = 1  BY <3>1, <2>4, <1>13
    <3>2. CASE k = 2  BY <3>2, <2>4, <1>13
    <3> QED  BY <3>1, <3>2, <2>1
  <2>6. LET p == Experiment(jitter)[k] IN
        /\ p.ahead = p.at /\ p.radio = 1 /\ p.tag = Current /\ p.stage = "sent"
        /\ p.from = Identity <=> k = Len(Experiment(jitter))
    BY <2>2, <1>2, <1>5, ExperimentPackets
  <2> QED  BY <2>1, <2>2, <2>3, <2>5, <2>6
<1>15. LoopbackAir'
  <2>1. InOrder'
    <3>1. \A k \in DOMAIN air' : air'[k].ahead >= Turnaround  BY <1>14
    <3>2. \A k, l \in DOMAIN air' : k < l => air'[k].at + PacketLength <= air'[l].at
      BY <1>13, <1>14
    <3> QED  BY <3>1, <3>2 DEF InOrder
  <2>2. \A k \in DOMAIN air' : /\ air'[k].at + PacketLength >= -Lag
                               /\ air'[k].at + PacketLength + Lag <= stt[n]
    BY <1>3, <1>13, <1>14, SMTT(60)
  <2>3. Air(Cells)'  BY <1>8, <1>12, <2>1, <2>2 DEF Air
  <2>4. \A r \in reports' : DecodedBefore(r.at)'  BY <2>2, <1>11 DEF DecodedBefore
  <2> QED  BY <2>3, <2>4, <1>3, <1>5, <1>8, <1>14 DEF LoopbackAir
<1>16. result.n_pcc_and_plcf \in Nat /\ result.n_pcc_and_plcf <= nof_experiment_per_snr_cnt
  BY <1>5 DEF LoopbackInv, LoopbackType, ExperimentInv, CountStates, ExperimentStates, Counts
<1>17. ExperimentInv'
  <2>1. to \in ExperimentStates => nof_experiment_per_snr_cnt' < nof_experiment_per_snr
    BY DEF to, ExperimentStates
  <2>2. to = "D_EXPERIMENT_SAVE_RESULTS" => nof_experiment_per_snr_cnt' = nof_experiment_per_snr
    BY <1>1, <1>9 DEF to
  <2> QED  BY <2>1, <2>2, <1>1, <1>5, <1>9, <1>14, <1>16 DEF ExperimentInv
<1>18. SavedInv'
  <2>1. \A c : Saved(c)' = Saved(c)  BY <1>1, <1>3, <1>5 DEF Saved, OnAir
  <2> QED  BY <1>1, <1>3, <1>5, <1>8, <2>1
           DEF LoopbackInv, SavedInv, CountStates, ExperimentStates, OnAir
<1> QED  BY <1>10, <1>11, <1>15, <1>17, <1>18 DEF LoopbackInv

\* While packets are in the air the firmware counts for the row and column they were sent with.
LEMMA OnAirState ==
    ASSUME LoopbackInv, NEW i \in DOMAIN air
    PROVE  /\ state \in OnAir /\ Current \in Cells /\ heard[Current] = result /\ ~Saved(Current)
           /\ air[i].tag = Current /\ air[i] \in Packets(Cells)
           /\ result \in Counts /\ result.n_pdc <= result.n_pcc_and_plcf
           /\ result.n_pcc_and_plcf <= nof_experiment_per_snr_cnt
<1>1. state \in OnAir  BY DEF LoopbackInv, LoopbackAir
<1>2. Current \in Cells
  BY <1>1, CellsType DEF LoopbackInv, LoopbackType, CallbackInv, OnAir, Current, Cells
<1>3. heard[Current] = result
  BY <1>1 DEF LoopbackInv, SavedInv, OnAir, CountStates, ExperimentStates
<1>4. ~Saved(Current)
  BY <1>1 DEF LoopbackInv, LoopbackType, OnAir, Saved, Current
<1>5. air[i] \in Packets(Cells)
  <2>1. air \in Seq(Packets(Cells))  BY DEF LoopbackInv, LoopbackAir, Air
  <2> QED  BY <2>1
<1>6. result.n_pcc_and_plcf <= nof_experiment_per_snr_cnt
  BY <1>1 DEF LoopbackInv, ExperimentInv, OnAir, CountStates, ExperimentStates
<1>7. air[i].tag = Current  BY DEF LoopbackInv, LoopbackAir
<1>8. result \in Counts /\ result.n_pdc <= result.n_pcc_and_plcf
  BY <1>2, <1>3 DEF LoopbackInv, LoopbackType, SavedInv
<1> QED  BY <1>1, <1>2, <1>3, <1>4, <1>5, <1>6, <1>7, <1>8

\* What is counted goes to the current row and column only.
LEMMA CountFrame ==
    ASSUME LoopbackInv, DOMAIN air # {}, result' \in Counts,
           heard' = [heard EXCEPT ![Current] = result'],
           result'.n_pdc <= result'.n_pcc_and_plcf,
           result'.n_pcc_and_plcf <= nof_experiment_per_snr_cnt,
           UNCHANGED <<reports, failed, variant, state, parameter_cnt, snr_cnt,
                       nof_experiment_per_snr_cnt, PER>>
    PROVE  LoopbackType' /\ CallbackInv' /\ SavedInv'
<1>1. PICK i \in DOMAIN air : TRUE  OBVIOUS
<1>2. /\ state \in OnAir /\ Current \in Cells /\ ~Saved(Current)
  BY OnAirState
<1>3. UNCHANGED <<Cells, Current>>  BY DEF Cells, Current
<1>4. LoopbackType'  BY <1>2, <1>3 DEF LoopbackInv, LoopbackType
<1>5. CallbackInv'  BY DEF LoopbackInv, CallbackInv
<1>6. SavedInv'
  <2>1. \A c : Saved(c)' = Saved(c)  BY DEF Saved
  <2>2. \A c \in Cells : heard'[c] = IF c = Current THEN result' ELSE heard[c]
    BY <1>2 DEF LoopbackInv, LoopbackType
  <2>3. result'.n_pcc_and_plcf <= nof_experiment_per_snr
    BY LoopbackAssumption DEF LoopbackInv, LoopbackType, Counts
  <2> QED  BY <1>2, <1>3, <2>1, <2>2, <2>3
           DEF LoopbackInv, SavedInv, CountStates, ExperimentStates, OnAir
<1> QED  BY <1>4, <1>5, <1>6

\* A packet that is dropped leaves at most one other, and none to be decoded if it was the wanted one.
LEMMA LoopbackDrops ==
    ASSUME LoopbackInv, NEW i \in DOMAIN air, Drop(i), result' \in Counts,
           result'.n_pcc_and_plcf = result.n_pcc_and_plcf,
           result'.n_pdc = result.n_pdc \/ air[i].from = Identity,
           UNCHANGED <<reports, variant, state, parameter_cnt, snr_cnt, nof_experiment_per_snr_cnt>>
    PROVE  LoopbackAir' /\ ExperimentInv'
<1>1. UNCHANGED <<Cells, Current, Identity>>  BY DEF Cells, Current, Identity
<1>2. Air(Cells)  BY DEF LoopbackInv, LoopbackAir
<1>3. PICK f \in [DOMAIN air' -> DOMAIN air] :
         /\ \A k \in DOMAIN air' : air'[k] = air[f[k]] /\ f[k] # i
         /\ \A k, l \in DOMAIN air' : f[k] = f[l] => k = l
  BY <1>2, DropPacket
<1>4. Air(Cells)'
  BY <1>1, <1>2, DropPacket DEF Air
<1>5. \A k \in DOMAIN air' : f[k] \in DOMAIN air /\ air'[k] = air[f[k]]  BY <1>3
<1>6. \A r \in reports' : DecodedBefore(r.at)'
  BY <1>5 DEF LoopbackInv, LoopbackAir, DecodedBefore
<1>7. state \in OnAir  BY OnAirState
<1>8. LoopbackAir'
  BY <1>1, <1>3, <1>4, <1>5, <1>6, <1>7 DEF LoopbackInv, LoopbackAir
<1>9. \A k \in DOMAIN air' : air'[k].stage = "pdc" => air'[k].from = Identity /\ result'.n_pdc = result.n_pdc
  BY <1>3, <1>5 DEF LoopbackInv, LoopbackAir
<1>10. ExperimentInv'
  BY <1>1, <1>5, <1>9 DEF LoopbackInv, ExperimentInv
<1> QED  BY <1>8, <1>10

LEMMA CountedType ==
    ASSUME NEW c \in Counts, NEW p
    PROVE  /\ Counted(c, p) \in Counts /\ Counted(c, p).n_pdc = c.n_pdc
           /\ Counted(c, p).n_pcc_and_plcf = c.n_pcc_and_plcf + (IF p.from = Identity THEN 1 ELSE 0)
<1> DEFINE x == IF p.from = Identity THEN c.n_pcc_and_plcf + 1 ELSE c.n_pcc_and_plcf
           d == [c EXCEPT !.n_pcc = c.n_pcc + 1, !.n_pcc_and_plcf = x]
<1>1. c.n_pcc \in Nat /\ c.n_pcc_and_plcf \in Nat  BY DEF Counts
<1>2. Counted(c, p) = d  BY DEF Counted
<1>3. x \in Nat /\ x = c.n_pcc_and_plcf + (IF p.from = Identity THEN 1 ELSE 0)  BY <1>1
<1> HIDE DEF x
<1>4. d \in Counts /\ d.n_pdc = c.n_pdc /\ d.n_pcc_and_plcf = x
  <2> DEFINE e == [c EXCEPT !.n_pcc = c.n_pcc + 1]
  <2>1. e \in Counts /\ e.n_pdc = c.n_pdc  BY <1>1 DEF Counts
  <2>2. d = [e EXCEPT !.n_pcc_and_plcf = x]  OBVIOUS
  <2> HIDE DEF e, d
  <2>3. d \in Counts /\ d.n_pdc = e.n_pdc /\ d.n_pcc_and_plcf = x  BY <1>3, <2>1, <2>2 DEF Counts
  <2> QED  BY <2>1, <2>3
<1> QED  BY <1>2, <1>3, <1>4

LEMMA LoopbackPccKeeps ==
    ASSUME LoopbackInv, NEW i \in DOMAIN air, LoopbackPcc(i)
    PROVE  LoopbackInv'
<1> USE DEF LoopbackPcc
<1>1. /\ state \in OnAir /\ Current \in Cells /\ heard[Current] = result
      /\ air[i].tag = Current /\ air[i] \in Packets(Cells) /\ result \in Counts
      /\ result.n_pdc <= result.n_pcc_and_plcf
      /\ result.n_pcc_and_plcf <= nof_experiment_per_snr_cnt
  BY OnAirState
<1>2. heard \in [Cells -> Counts] /\ nof_experiment_per_snr_cnt \in Nat
  BY DEF LoopbackInv, LoopbackType
<1>3. air[i].stage = "sent"  BY DEF NextPcc
<1>4. result.n_pdc \in Nat /\ result.n_pcc_and_plcf \in Nat  BY <1>1 DEF Counts
<1>5. CASE Drop(i) /\ UNCHANGED <<result, heard>>
  <2>1. heard' = [heard EXCEPT ![Current] = result']  BY <1>1, <1>2, <1>5
  <2>2. LoopbackType' /\ CallbackInv' /\ SavedInv'  BY <2>1, <1>1, <1>5, CountFrame
  <2>3. LoopbackAir' /\ ExperimentInv'  BY <1>1, <1>5, LoopbackDrops
  <2> QED  BY <2>2, <2>3 DEF LoopbackInv
<1>6. CASE /\ result' = Counted(result, air[i])
           /\ heard' = [heard EXCEPT ![air[i].tag] = Counted(@, air[i])]
           /\ IF air[i].from = Identity THEN Proceed(i) ELSE Drop(i)
  <2>1. heard' = [heard EXCEPT ![Current] = result']  BY <1>1, <1>2, <1>6
  <2>2. /\ result' \in Counts /\ result'.n_pdc = result.n_pdc
        /\ result'.n_pcc_and_plcf
              = result.n_pcc_and_plcf + (IF air[i].from = Identity THEN 1 ELSE 0)
    BY <1>1, <1>6, CountedType
  <2>3. air[i].from = Identity => result.n_pcc_and_plcf < nof_experiment_per_snr_cnt
    BY <1>3 DEF LoopbackInv, ExperimentInv
  <2>4. /\ result'.n_pdc <= result'.n_pcc_and_plcf
        /\ result'.n_pcc_and_plcf <= nof_experiment_per_snr_cnt
    BY <2>2, <2>3, <1>1, <1>2, <1>4
  <2>5. LoopbackType' /\ CallbackInv' /\ SavedInv'  BY <2>1, <2>2, <2>4, CountFrame
  <2>6. CASE air[i].from # Identity
    <3>1. result'.n_pcc_and_plcf = result.n_pcc_and_plcf /\ Drop(i)  BY <2>2, <2>6, <1>4, <1>6
    <3>2. LoopbackAir' /\ ExperimentInv'  BY <3>1, <2>2, LoopbackDrops
    <3> QED  BY <2>5, <3>2 DEF LoopbackInv
  <2>7. CASE air[i].from = Identity
    <3>1. UNCHANGED <<Cells, Current, Identity>>  BY DEF Cells, Current, Identity
    <3>2. Proceed(i) /\ Air(Cells)  BY <2>7, <1>6 DEF LoopbackInv, LoopbackAir
    <3>3. /\ Air(Cells)' /\ DOMAIN air' = DOMAIN air
          /\ \A k \in DOMAIN air : /\ air'[k].radio = air[k].radio /\ air'[k].at = air[k].at
                                   /\ air'[k].from = air[k].from /\ air'[k].tag = air[k].tag
                                   /\ air'[k].stage = IF k = i THEN "pdc" ELSE air[k].stage
      <4>1. Len(air') = Len(air) /\ air' \in Seq(Packets(Cells)) /\ air \in Seq(Packets(Cells))
        BY <3>1, <3>2, ProceedPacket DEF Air
      <4>2. Air(Cells)'  BY <3>1, <3>2, ProceedPacket DEF Air
      <4> QED  BY <4>1, <4>2, <3>2, ProceedPacket
    <3>4. \A r \in reports' : DecodedBefore(r.at)'
      BY <3>3 DEF LoopbackInv, LoopbackAir, DecodedBefore
    <3>5. LoopbackAir'
      BY <3>1, <3>3, <3>4, <2>7, <1>1 DEF LoopbackInv, LoopbackAir
    <3>6. ASSUME NEW k \in DOMAIN air'
          PROVE  /\ air'[k].stage = "pdc" => result'.n_pdc < result'.n_pcc_and_plcf
                 /\ air'[k].from = Identity' /\ air'[k].stage = "sent"
                       => result'.n_pcc_and_plcf < nof_experiment_per_snr_cnt'
      <4>1. result'.n_pdc < result'.n_pcc_and_plcf  BY <2>2, <2>7, <1>1, <1>4
      <4>2. air'[k].from = Identity' => k = i
        BY <3>1, <3>3, <2>7 DEF LoopbackInv, LoopbackAir
      <4> QED  BY <4>1, <4>2, <3>3
    <3>7. ExperimentInv'  BY <3>6, <2>4 DEF LoopbackInv, ExperimentInv
    <3> QED  BY <3>5, <3>7, <2>5 DEF LoopbackInv
  <2> QED  BY <2>6, <2>7
<1> QED  BY <1>5, <1>6

LEMMA LoopbackPdcKeeps ==
    ASSUME LoopbackInv, NEW i \in DOMAIN air, LoopbackPdc(i)
    PROVE  LoopbackInv'
<1>1. /\ state \in OnAir /\ Current \in Cells /\ heard[Current] = result
      /\ air[i].tag = Current /\ air[i] \in Packets(Cells) /\ result \in Counts
      /\ result.n_pdc <= result.n_pcc_and_plcf
      /\ result.n_pcc_and_plcf <= nof_experiment_per_snr_cnt
  BY OnAirState
<1>2. heard \in [Cells -> Counts] /\ nof_experiment_per_snr_cnt \in Nat /\ failed = "none"
  BY DEF LoopbackInv, LoopbackType
<1>3. /\ air[i].stage = "pdc" /\ air[i].from = Identity /\ Drop(i)
      /\ result.n_pdc < result.n_pcc_and_plcf
  <2>1. air[i].stage = "pdc" /\ Drop(i)  BY DEF LoopbackPdc, NextPdc
  <2> QED  BY <2>1 DEF LoopbackInv, LoopbackAir, ExperimentInv
<1>4. result.n_pdc \in Nat /\ result.n_pcc_and_plcf \in Nat  BY <1>1 DEF Counts
<1>5. /\ result' \in Counts /\ result'.n_pcc_and_plcf = result.n_pcc_and_plcf
      /\ result'.n_pdc \in {result.n_pdc, result.n_pdc + 1}
      /\ heard' = [heard EXCEPT ![Current] = result']
      /\ failed' = failed
  <2>1. CASE UNCHANGED <<result, heard, failed>>  BY <2>1, <1>1, <1>2
  <2>2. CASE /\ result' = [result EXCEPT !.n_pdc = @ + 1]
             /\ heard' = [heard EXCEPT ![air[i].tag].n_pdc = @ + 1]
             /\ failed' = IF Current \in Cells THEN failed ELSE "out of range"
    <3>1. /\ result' \in Counts /\ result'.n_pcc_and_plcf = result.n_pcc_and_plcf
          /\ result'.n_pdc = result.n_pdc + 1
      BY <2>2, <1>1 DEF Counts
    <3>2. heard' = [heard EXCEPT ![Current] = result']
      BY <2>2, <1>1, <1>2
    <3> QED  BY <3>1, <3>2, <2>2, <1>1
  <2> QED  BY <2>1, <2>2 DEF LoopbackPdc
<1>6. /\ result'.n_pdc <= result'.n_pcc_and_plcf
      /\ result'.n_pcc_and_plcf <= nof_experiment_per_snr_cnt
      /\ result'.n_pdc = result.n_pdc \/ air[i].from = Identity
  BY <1>1, <1>3, <1>4, <1>5
<1> USE DEF LoopbackPdc
<1>7. LoopbackType' /\ CallbackInv' /\ SavedInv'
  BY <1>1, <1>5, <1>6, CountFrame
<1>8. LoopbackAir' /\ ExperimentInv'  BY <1>3, <1>5, LoopbackDrops
<1> QED  BY <1>7, <1>8 DEF LoopbackInv

LEMMA LoopbackTimeKeeps ==
    ASSUME LoopbackInv, LoopbackTime
    PROVE  LoopbackInv'
<1> USE DEF LoopbackTime, loopback
<1>1. UNCHANGED <<Cells, Current, Identity>>  BY DEF Cells, Current, Identity
<1>2. Air(Cells) /\ PassTime  BY DEF LoopbackInv, LoopbackAir
<1>3. /\ Air(Cells)' /\ DOMAIN air' = DOMAIN air /\ Len(air') = Len(air)
      /\ \A k \in DOMAIN air : /\ air'[k].radio = air[k].radio /\ air'[k].at = air[k].at - 1
                               /\ air'[k].from = air[k].from /\ air'[k].tag = air[k].tag
                               /\ air'[k].stage = air[k].stage
  <2>1. Air(Cells)'  BY <1>1, <1>2, TimePackets DEF Air
  <2> QED  BY <2>1, <1>2, TimePackets
<1>4. LoopbackType'  BY <1>1 DEF LoopbackInv, LoopbackType, PassTime
<1>5. /\ CallbackInv'
      /\ \A r \in reports' : \E q \in reports : r.at = q.at - 1 /\ q.at \in Int
  <2>1. reports' = {[r EXCEPT !.at = @ - 1] : r \in reports}  BY DEF PassTime
  <2>2. CASE state = "DEAD_END"
    BY <2>1, <2>2 DEF LoopbackInv, CallbackInv
  <2>3. CASE state # "DEAD_END"
    <3>1. PICK r \in reports : reports = Requested(r.at) /\ r.at \in Int
      BY <2>3 DEF LoopbackInv, CallbackInv
    <3>2. reports = {[at |-> r.at, handle |-> 0]}  BY <3>1 DEF Requested, irregular_report_t
    <3>3. reports' = {[at |-> r.at - 1, handle |-> 0]}  BY <2>1, <3>2
    <3>4. reports' = Requested(r.at - 1)  BY <3>3 DEF Requested, irregular_report_t
    <3>5. \A q \in reports' : q.at = r.at - 1  BY <3>3
    <3>6. CallbackInv'  BY <3>1, <3>3, <3>4, <3>5, <2>3 DEF LoopbackInv, CallbackInv
    <3> QED  BY <3>1, <3>5, <3>6
  <2> QED  BY <2>2, <2>3
<1>6. LoopbackAir'
  <2>1. \A k \in DOMAIN air : air[k].at \in Int
    <3>1. \A k \in DOMAIN air : air[k] \in Packets(Cells)  BY <1>2 DEF Air
    <3> QED  BY <3>1 DEF Packets
  <2>2. \A r \in reports' : DecodedBefore(r.at)'
    <3> SUFFICES ASSUME NEW r \in reports', NEW k \in DOMAIN air'
                 PROVE  air'[k].at + PacketLength + Lag <= r.at
      BY DEF DecodedBefore
    <3>1. PICK q \in reports : r.at = q.at - 1 /\ q.at \in Int  BY <1>5
    <3>2. air[k].at + PacketLength + Lag <= q.at
      BY <1>3, <3>1 DEF LoopbackInv, LoopbackAir, DecodedBefore
    <3> QED  BY <1>3, <2>1, <3>1, <3>2, RadioAssumption, SMTT(30)
  <2>3. state' \notin OnAir => air' = <<>>
    BY <1>3 DEF LoopbackInv, LoopbackAir, Air
  <2> QED  BY <1>1, <1>3, <2>2, <2>3 DEF LoopbackInv, LoopbackAir
<1>7. ExperimentInv'
  BY <1>1, <1>3 DEF LoopbackInv, ExperimentInv
<1>8. SavedInv'
  <2>1. \A c : Saved(c)' = Saved(c)  BY DEF Saved
  <2> QED  BY <1>1, <2>1 DEF LoopbackInv, SavedInv
<1> QED  BY <1>4, <1>5, <1>6, <1>7, <1>8 DEF LoopbackInv

LEMMA LoopbackSteps ==
    ASSUME LoopbackInv, LoopbackNext
    PROVE  LoopbackInv'
BY LoopbackSetChannelSnr, LoopbackSetFading, LoopbackGeneratePackets, LoopbackSaveResults,
   LoopbackSetParameter, LoopbackPccKeeps, LoopbackPdcKeeps, LoopbackTimeKeeps
   DEF LoopbackNext, LoopbackCallback, LoopbackReceive

LEMMA LoopbackResults ==
    ASSUME LoopbackInv
    PROVE  ResultsRight
<1>1. failed = "none" /\ InOrder  BY DEF LoopbackInv, LoopbackType, LoopbackAir, Air
<1>2. \A c \in Cells : /\ PER[c] \in {NotSaved, heard[c]}
                       /\ heard[c].n_pdc <= heard[c].n_pcc_and_plcf
                       /\ heard[c].n_pcc_and_plcf <= nof_experiment_per_snr
  BY DEF LoopbackInv, SavedInv
<1>3. ASSUME state = "DEAD_END", NEW c \in Cells
      PROVE  PER[c] # NotSaved
  <2>1. Saved(c)
    BY <1>3, CellsType DEF LoopbackInv, LoopbackType, CallbackInv, Saved
  <2>2. PER[c] = heard[c] /\ heard[c] \in Counts  BY <2>1 DEF LoopbackInv, SavedInv, LoopbackType
  <2> QED  BY <2>2, NoCountType
<1> QED  BY <1>1, <1>2, <1>3 DEF ResultsRight

-----------------------------------------------------------------------------
(* txrxdelay, txrxagc, chscanner *)

LEMMA TestsConstants ==
    /\ Turnaround \in Nat /\ Turnaround > 0 /\ PacketLength \in Nat /\ Late \in Nat /\ Lag \in Nat
    /\ measurement_spacing \in Nat /\ P0 \in Nat /\ P1 \in Nat /\ measurement_period \in Nat
    /\ measurement_spacing_between_frequencies \in Nat /\ Window \in Nat
    /\ Long = 2 * measurement_spacing /\ Long \in Nat
    /\ measurement_spacing > Turnaround + 2 * PacketLength + P0 + P1 + Late + Lag
    /\ P1 >= Late + Turnaround /\ measurement_spacing >= Window
    /\ measurement_spacing_between_frequencies >= Late + Lag + Window
    /\ measurement_period >= Late + Lag
BY RadioAssumption, TestAssumption DEF Long

\* The antenna whose gain changes, and the next one.
LEMMA AntennaOfCount ==
    ASSUME NEW c \in 0..2 * Antennas - 1
    PROVE  /\ c \div 2 \in 0..Antennas - 1 /\ (c \div 2) % Antennas = c \div 2
           /\ (c + 1) % (2 * Antennas) \in 0..2 * Antennas - 1
           /\ c % 2 = 0 => /\ ((c + 1) % (2 * Antennas)) \div 2 = c \div 2
                           /\ ((c + 1) % (2 * Antennas)) % 2 = 1
           /\ c % 2 # 0 => c % 2 = 1 /\ ((c + 1) % (2 * Antennas)) % 2 = 0
<1>1. Antennas \in Nat \ {0}  BY TestAssumption
<1> DEFINE m == 2 * Antennas
<1>2. m \in Nat \ {0} /\ m = 2 * Antennas /\ c \in 0..m - 1  BY <1>1
<1>3. c \div 2 \in 0..Antennas - 1 /\ c = 2 * (c \div 2) + (c % 2) /\ c % 2 \in {0, 1}
  BY <1>1
<1>4. (c \div 2) % Antennas = c \div 2
  <2>1. \A x \in 0..Antennas - 1 : x % Antennas = x  BY <1>1
  <2> QED  BY <1>3, <2>1
<1> HIDE DEF m
<1>5. (c + 1) % m = IF c + 1 = m THEN 0 ELSE c + 1  BY <1>2
<1>6. c % 2 = 0 => c + 1 # m  BY <1>1, <1>2, <1>3
<1>7. c % 2 = 0 => (c + 1) \div 2 = c \div 2 /\ (c + 1) % 2 = 1  OBVIOUS
<1>8. c % 2 # 0 => (c + 1) % 2 = 0  OBVIOUS
<1>9. (c + 1) % m \in 0..m - 1  BY <1>2, <1>5
<1>10. 0 % 2 = 0  OBVIOUS
<1> QED  BY <1>2, <1>3, <1>4, <1>5, <1>6, <1>7, <1>8, <1>9, <1>10

\* One step of gain belongs to one count, so a pair of steps returns an antenna to its gain.
LEMMA GainAdjusted ==
    ASSUME GainInv, cnt \in 0..2 * Antennas - 1, gain \in [0..Antennas - 1 -> Int],
           gain' = Adjusted, cnt' = (cnt + 1) % (2 * Antennas)
    PROVE  GainInv' /\ cnt' \in 0..2 * Antennas - 1 /\ gain' \in [0..Antennas - 1 -> Int]
<1>1. ant_idx = cnt \div 2 /\ ant_idx \in 0..Antennas - 1  BY AntennaOfCount DEF ant_idx
<1>2. cnt' \in 0..2 * Antennas - 1  BY AntennaOfCount
<1>3. \A a \in 0..Antennas - 1 :
         gain'[a] = IF a = ant_idx THEN (IF cnt % 2 = 0 THEN gain[a] + 1 ELSE gain[a] - 1) ELSE gain[a]
  BY <1>1 DEF Adjusted, agc_change_dB
<1>4. gain' \in [0..Antennas - 1 -> Int]
  BY <1>1 DEF Adjusted, agc_change_dB
<1>5. CASE cnt % 2 = 0
  <2>1. cnt' \div 2 = cnt \div 2 /\ cnt' % 2 = 1  BY <1>5, AntennaOfCount
  <2>2. \A a \in 0..Antennas - 1 : gain[a] = 0  BY <1>5 DEF GainInv
  <2>3. GainInv'  BY <1>1, <1>3, <1>5, <2>1, <2>2 DEF GainInv, agc_change_dB
  <2> QED  BY <1>2, <1>4, <2>3
<1>6. CASE cnt % 2 # 0
  <2>1. cnt % 2 = 1 /\ cnt' % 2 = 0  BY <1>6, AntennaOfCount
  <2>2. GainInv'  BY <1>1, <1>3, <2>1 DEF GainInv, agc_change_dB
  <2> QED  BY <1>2, <1>4, <2>2
<1> QED  BY <1>5, <1>6

LEMMA TestsStarts ==
    ASSUME TestsVariables, reports = Requested(measurement_spacing), air = <<>>, earliest = -1,
           failed = "none"
    PROVE  TestsInv
<1> USE TestsConstants DEF TestsVariables
<1>1. Antennas \in Nat \ {0} /\ 0 \in 0..2 * Antennas - 1  BY TestAssumption
<1>2. Air(Nat)  BY DEF Air, InOrder
<1>3. TestsType  BY <1>1, <1>2 DEF TestsType, UNDEFINED_EARLY_64
<1>4. GainInv  BY <1>1 DEF GainInv
<1>5. DelayInv  BY DEF DelayInv, DecodedBefore
<1>6. AgcInv  BY DEF AgcInv, PairInv, DecodedBefore
<1>7. ScanInv  BY DEF ScanInv, Tuned
<1> QED  BY <1>3, <1>4, <1>5, <1>6, <1>7 DEF TestsInv

LEMMA DelayCallbackKeeps ==
    ASSUME TestsInv, DelayCallback
    PROVE  TestsInv'
<1> USE TestsConstants
<1>1. PICK r \in reports :
        /\ name = "txrxdelay" /\ Due(r)
        /\ Check(next < 0, "time out-of-order")
        /\ next' = next + measurement_spacing
        /\ reports' = Requested(next')
        /\ Generate(1, <<buffer_tx_meta_t(1, asap, "ft", 0)>>)
        /\ IF Available(1) > 0 THEN tx_last' = asap /\ earliest' = asap + PacketLength
           ELSE tx_last' = UNDEFINED_EARLY_64 /\ earliest' = earliest
        /\ UNCHANGED <<name, timing, agc, chscanner, shown>>
  BY DEF DelayCallback
<1>2. TestsType /\ DelayInv  BY <1>1 DEF TestsInv
<1>3. next \in Int /\ earliest \in Int /\ failed = "none"  BY <1>2 DEF TestsType
<1>4. r.at = next /\ next < 0 /\ next >= -Late
  <2>1. r \in {[at |-> next, handle |-> 0]} /\ next >= -Late
    BY <1>1, <1>2 DEF DelayInv, Requested, irregular_report_t
  <2>2. r.at = next  BY <2>1
  <2>3. r.at < 0  BY <1>1 DEF Due
  <2> QED  BY <2>1, <2>2, <2>3
<1>5. air = <<>>  BY <1>2, <1>3, <1>4, NothingInAir DEF TestsType, DelayInv
<1>6. asap = Turnaround
  <2>1. earliest <= next \/ earliest <= 0  BY <1>2 DEF DelayInv
  <2>2. ~(earliest > Turnaround)  BY <2>1, <1>3, <1>4
  <2> QED  BY <2>2 DEF asap, asapAfter
<1>7. tx_last' = Turnaround /\ earliest' = Turnaround + PacketLength
  BY <1>1, <1>5, <1>6, AllAvailable
<1> DEFINE p == buffer_tx_meta_t(1, Turnaround, "ft", 0)
<1>8. p \in Packets(Nat) /\ p.at = Turnaround /\ p.ahead = Turnaround /\ p.radio = 1 /\ p.tag = 0
      /\ p.stage = "sent"
  BY DEF buffer_tx_meta_t, Packets
<1>9. Generate(1, <<p>>)  BY <1>1, <1>6
<1> HIDE DEF p
<1>10. air' = <<p>>
  <2>1. <<p>> \in Seq(Packets(Nat)) /\ <<p>> # <<>> /\ Len(<<p>>) = 1  BY <1>8
  <2>2. /\ air' \in Seq(Packets(Nat)) /\ Len(air') \in 1..Len(<<p>>)
        /\ \A k \in DOMAIN air' : air'[k] = <<p>>[k]
    BY <1>5, <1>9, <2>1, GenerateFirst
  <2>3. Len(air') = 1 /\ air'[1] = p  BY <2>1, <2>2
  <2> QED  BY <2>2, <2>3
<1>11. Air(Nat)'  BY <1>8, <1>10, OnePacket
<1>12. failed' = "none"  BY <1>1, <1>3, <1>4 DEF Check
<1>13. UNCHANGED <<name, timing, S0, L0, R0, cnt, gain, freqs_idx, N_measurement_cnt, tuned, scans, shown>>
  BY <1>1 DEF agc, chscanner
<1>14. /\ next' \in Int /\ earliest' \in Int /\ tx_last' \in Int
        /\ next' >= Turnaround + PacketLength + Lag
  <2>1. next' = next + measurement_spacing  BY <1>1
  <2> QED  BY <2>1, <1>3, <1>4, <1>7
<1>15. TestsType'
  BY <1>2, <1>11, <1>12, <1>13, <1>14 DEF TestsType
<1>16. DelayInv'
  <2>1. \A i \in DOMAIN air' : air'[i] = p  BY <1>10
  <2>2. DecodedBefore(next)'
    <3>1. next' >= Turnaround + PacketLength + Lag  BY <1>14
    <3> QED  BY <3>1, <2>1, <1>8 DEF DecodedBefore
  <2>3. next' >= -Late /\ earliest' <= next'  BY <1>7, <1>14
  <2> QED  BY <1>1, <1>2, <1>7, <1>8, <1>13, <2>1, <2>2, <2>3 DEF DelayInv
<1>17. GainInv'  BY <1>13 DEF TestsInv, GainInv
<1> QED  BY <1>1, <1>13, <1>15, <1>16, <1>17 DEF TestsInv

LEMMA DelayPccKeeps ==
    ASSUME TestsInv, NEW i \in DOMAIN air, DelayPcc(i)
    PROVE  TestsInv'
<1> USE TestsConstants DEF DelayPcc
<1>1. TestsType /\ DelayInv /\ Air(Nat)  BY DEF TestsInv, TestsType
<1>2. Air(Nat)'  BY <1>1, DropPacket DEF Air
<1>3. \A k \in DOMAIN air' : \E j \in DOMAIN air : air'[k] = air[j]
  BY <1>1, DropPacket
<1>4. air[i].at - tx_last = 0
  <2>1. air[i].at = tx_last /\ tx_last \in Int  BY <1>1 DEF DelayInv, TestsType
  <2> QED  BY <2>1
<1>5. shown' \in [value : Int, valid : BOOLEAN] /\ (shown'.valid => shown'.value = 0)
  <2>1. shown \in [value : Int, valid : BOOLEAN] /\ (shown.valid => shown.value = 0)
    BY DEF TestsInv, TestsType
  <2>2. CASE shown' = shown  BY <2>1, <2>2
  <2>3. CASE shown' = [value |-> 0, valid |-> TRUE]
    <3>1. [value |-> 0, valid |-> TRUE] \in [value : Int, valid : BOOLEAN]  OBVIOUS
    <3>2. shown'.value = 0  BY <2>3
    <3> QED  BY <2>3, <3>1, <3>2
  <2> QED  BY <2>2, <2>3, <1>4
<1>6. UNCHANGED <<S0, L0, R0, cnt, gain, freqs_idx, N_measurement_cnt, tuned, scans>>
  BY DEF agc, chscanner
<1>7. TestsType'  BY <1>1, <1>2, <1>5, <1>6 DEF TestsType
<1>8. DelayInv'  BY <1>1, <1>3, <1>6 DEF DelayInv, DecodedBefore
<1>9. GainInv'  BY <1>6 DEF TestsInv, GainInv
<1> QED  BY <1>5, <1>7, <1>8, <1>9 DEF TestsInv

\* The packets of txrxagc.
LEMMA PairPacket ==
    ASSUME TestsType, NEW t \in Int, NEW who \in {"front", "back"}
    PROVE  LET p == buffer_tx_meta_t(1, t, who, cnt) IN
           /\ p \in Packets(Nat) /\ p.at = t /\ p.ahead = t /\ p.radio = 1 /\ p.from = who
           /\ p.stage = "sent"
<1>1. cnt \in Nat  BY TestAssumption DEF TestsType
<1> QED  BY <1>1 DEF buffer_tx_meta_t, Packets

\* The front packet, and the back packet with the gain changed in between: both, if there are processes
\* for both, or the front packet alone.
LEMMA FrontCallbackKeeps ==
    ASSUME TestsInv, FrontCallback
    PROVE  TestsInv'
<1> USE TestsConstants
<1> DEFINE front == buffer_tx_meta_t(1, Turnaround, "front", cnt)
           at == Turnaround + PacketLength + P0 + P1
           back == buffer_tx_meta_t(1, at, "back", cnt)
<1>1. TestsType /\ GainInv /\ name = "txrxagc" /\ AgcInv  BY DEF FrontCallback, TestsInv
<1>2. PICK r \in reports :
        /\ Due(r) /\ r.handle = 0
        /\ Check(r.at = next, "incorrect time")
        /\ S0' = Turnaround
        /\ L0' = IF Available(1) > 0 THEN PacketLength ELSE 0
        /\ IF timing = "front"
           THEN /\ Generate(1, <<buffer_tx_meta_t(1, S0', "front", cnt), Back(S0', L0')>>)
                /\ gain' = IF Available(1) > 0 THEN Adjusted ELSE gain
                /\ earliest' = S1(S0', L0') + PacketLength
                /\ BackGenerated
           ELSE /\ Generate(1, <<buffer_tx_meta_t(1, S0', "front", cnt)>>)
                /\ earliest' = S0' + L0'
                /\ reports' = {irregular_report_t(S0' + L0' + P0, 1)}
                /\ UNCHANGED <<next, cnt, gain>>
        /\ UNCHANGED <<name, timing, tx_last, R0, chscanner, shown>>
  BY DEF FrontCallback
<1>3. r.at = next /\ next < 0 /\ next >= -Late /\ DecodedBefore(next)
  <2>1. CASE reports = Requested(next) /\ next >= -Late /\ DecodedBefore(next)
    <3>1. r = [at |-> next, handle |-> 0]  BY <2>1 DEF Requested, irregular_report_t
    <3>2. r.at = next  BY <3>1
    <3>3. r.at < 0  BY <1>2 DEF Due
    <3> QED  BY <2>1, <3>2, <3>3
  <2>2. CASE reports = {irregular_report_t(S0 + L0 + P0, 1)}
    <3>1. r = [at |-> S0 + L0 + P0, handle |-> 1]  BY <2>2 DEF irregular_report_t
    <3>2. r.handle = 1  BY <3>1
    <3>3. r.handle = 0  BY <1>2
    <3> QED  BY <3>2, <3>3
  <2>3. \/ reports = Requested(next) /\ next >= -Late /\ DecodedBefore(next)
        \/ reports = {irregular_report_t(S0 + L0 + P0, 1)}
    BY <1>1 DEF AgcInv
  <2> QED  BY <2>1, <2>2, <2>3
<1>4. next \in Int /\ failed = "none" /\ cnt \in 0..2 * Antennas - 1 /\ gain \in [0..Antennas - 1 -> Int]
  BY <1>1 DEF TestsType
<1>5. air = <<>>  BY <1>1, <1>3, <1>4, NothingInAir DEF TestsType
<1>6. Available(1) > 0  BY <1>5, AllAvailable
<1>7. S0' = Turnaround /\ L0' = PacketLength /\ failed' = "none"
  BY <1>2, <1>3, <1>4, <1>6 DEF Check
<1>8. /\ front \in Packets(Nat) /\ front.at = Turnaround /\ front.ahead = Turnaround
      /\ front.radio = 1 /\ front.from = "front" /\ front.stage = "sent"
  BY <1>1, PairPacket
<1>9. at \in Int /\ at >= Turnaround + PacketLength  OBVIOUS
<1>10. /\ back \in Packets(Nat) /\ back.at = at /\ back.ahead = at
       /\ back.radio = 1 /\ back.from = "back" /\ back.stage = "sent"
  BY <1>1, <1>9, PairPacket
<1>11. UNCHANGED <<name, timing, tx_last, R0, freqs_idx, N_measurement_cnt, tuned, scans, shown>>
  BY <1>2 DEF chscanner
<1>12. scans = <<>>  BY <1>1 DEF AgcInv
<1>13. CASE timing = "front"
  <2>1. Back(S0', L0') = back /\ S1(S0', L0') = at
    BY <1>7 DEF Back, S1
  <2>2. /\ Generate(1, <<front, back>>) /\ gain' = Adjusted /\ earliest' = at + PacketLength
        /\ cnt' = (cnt + 1) % (2 * Antennas) /\ next' = next + measurement_spacing
        /\ reports' = Requested(next')
    BY <1>2, <1>6, <1>7, <1>13, <2>1 DEF BackGenerated
  <2> HIDE DEF front, back
  <2>3. /\ air' \in Seq(Packets(Nat)) /\ Len(air') \in {1, 2} /\ air' # <<>>
        /\ \A k \in DOMAIN air' : k \in {1, 2} /\ air'[k] = IF k = 1 THEN front ELSE back
    <3> DEFINE p == <<front, back>>
    <3>1. /\ p \in Seq(Packets(Nat)) /\ p # <<>> /\ Len(p) = 2
          /\ \A k \in {1, 2} : p[k] = IF k = 1 THEN front ELSE back
      BY <1>8, <1>10
    <3>2. Generate(1, p) /\ p \in Seq(Packets(Nat)) /\ p # <<>>  BY <2>2, <3>1
    <3> HIDE DEF p
    <3>3. /\ air' \in Seq(Packets(Nat)) /\ Len(air') \in 1..Len(p)
          /\ \A k \in DOMAIN air' : air'[k] = p[k]
      BY <1>5, <3>2, GenerateFirst
    <3>4. Len(air') \in {1, 2} /\ DOMAIN air' = 1..Len(air')  BY <3>1, <3>3
    <3> QED  BY <3>1, <3>3, <3>4
  <2>4. Air(Nat)'
    <3>1. \A k \in DOMAIN air' : air'[k].at \in {Turnaround, at} /\ air'[k].ahead \in {Turnaround, at}
      BY <2>3, <1>8, <1>10
    <3>2. \A k \in DOMAIN air' : air'[k].ahead >= Turnaround /\ air'[k].at + PacketLength >= -Lag
      BY <3>1, <1>9
    <3>3. \A k, l \in DOMAIN air' : k < l => air'[k].at + PacketLength <= air'[l].at
      BY <2>3, <1>8, <1>9, <1>10
    <3>4. InOrder'  BY <3>2, <3>3 DEF InOrder
    <3> QED  BY <2>3, <3>2, <3>4 DEF Air
  <2>5. GainInv' /\ cnt' \in 0..2 * Antennas - 1 /\ gain' \in [0..Antennas - 1 -> Int]
    BY <1>1, <1>4, <2>2, GainAdjusted
  <2>6. next' \in Int /\ next' >= at + PacketLength + Lag /\ earliest' \in Int
    BY <2>2, <1>3, <1>4, <1>9
  <2>7. TestsType'
    BY <1>1, <1>7, <1>11, <2>4, <2>5, <2>6 DEF TestsType
  <2>8. PairInv'
    BY <1>7, <1>8, <1>9, <1>10, <2>3 DEF PairInv
  <2>9. DecodedBefore(next)' /\ next' >= -Late
    <3>1. \A k \in DOMAIN air' : air'[k].at \in {Turnaround, at}  BY <2>3, <1>8, <1>10
    <3> QED  BY <3>1, <2>6, <1>9 DEF DecodedBefore
  <2>10. AgcInv'  BY <1>11, <1>12, <2>2, <2>8, <2>9 DEF AgcInv
  <2> QED  BY <1>1, <1>11, <2>5, <2>7, <2>10 DEF TestsInv
<1>14. CASE timing # "front"
  <2>1. /\ Generate(1, <<front>>) /\ earliest' = Turnaround + PacketLength
        /\ reports' = {irregular_report_t(Turnaround + PacketLength + P0, 1)}
        /\ UNCHANGED <<next, cnt, gain>>
    BY <1>2, <1>7, <1>14
  <2> HIDE DEF front, back
  <2>2. air' = <<front>>
    <3> DEFINE p == <<front>>
    <3>1. p \in Seq(Packets(Nat)) /\ p # <<>> /\ Len(p) = 1 /\ p[1] = front  BY <1>8
    <3>2. Generate(1, p)  BY <2>1
    <3> HIDE DEF p
    <3>3. /\ air' \in Seq(Packets(Nat)) /\ Len(air') \in 1..Len(p)
          /\ \A k \in DOMAIN air' : air'[k] = p[k]
      BY <1>5, <3>1, <3>2, GenerateFirst
    <3>4. Len(air') = 1 /\ air'[1] = front  BY <3>1, <3>3
    <3> QED  BY <3>3, <3>4
  <2>3. Air(Nat)'  BY <1>8, <2>2, OnePacket
  <2>4. TestsType'
    BY <1>1, <1>7, <1>11, <2>1, <2>3 DEF TestsType
  <2>5. \A k \in DOMAIN air' : air'[k] = front  BY <2>2
  <2>6. PairInv'  BY <1>7, <1>8, <2>5 DEF PairInv
  <2>7. AgcInv'
    <3>1. S0' + L0' + P0 = Turnaround + PacketLength + P0 /\ S0' + L0' + P0 >= -Late  BY <1>7
    <3>2. next' >= S0' - Turnaround - Late  BY <1>3, <1>4, <1>7, <2>1
    <3> QED  BY <3>1, <3>2, <1>7, <1>8, <1>11, <1>12, <2>1, <2>5, <2>6 DEF AgcInv
  <2>8. GainInv'  BY <1>1, <2>1 DEF GainInv
  <2> QED  BY <1>1, <1>11, <2>4, <2>7, <2>8 DEF TestsInv
<1> QED  BY <1>13, <1>14

\* The callback between the packets of a pair still has time for the back packet.
LEMMA GainCallbackKeeps ==
    ASSUME TestsInv, GainCallback
    PROVE  TestsInv'
<1> USE TestsConstants
<1> DEFINE at == S0 + L0 + P0 + P1
           back == buffer_tx_meta_t(1, at, "back", cnt)
<1>1. TestsType /\ GainInv /\ name = "txrxagc" /\ AgcInv  BY DEF GainCallback, TestsInv
<1>2. PICK r \in reports :
        /\ Due(r) /\ r.handle = 1
        /\ failed' = failed
        /\ gain' = Adjusted
        /\ Generate(1, <<Back(S0, L0)>>)
        /\ earliest' = S1(S0, L0) + PacketLength
        /\ BackGenerated
        /\ UNCHANGED <<name, timing, tx_last, S0, L0, R0, chscanner, shown>>
  BY DEF GainCallback
<1>3. /\ r.at = S0 + L0 + P0 /\ r.at < 0 /\ S0 + L0 + P0 >= -Late
      /\ L0 = PacketLength /\ next >= S0 - Turnaround - Late
      /\ \A i \in DOMAIN air : air[i].from = "front"
  <2>1. CASE reports = Requested(next)
    <3>1. r = [at |-> next, handle |-> 0]  BY <2>1 DEF Requested, irregular_report_t
    <3>2. r.handle = 0  BY <3>1
    <3> QED  BY <1>2, <3>2
  <2>2. CASE /\ reports = {irregular_report_t(S0 + L0 + P0, 1)} /\ S0 + L0 + P0 >= -Late
             /\ L0 = PacketLength /\ next >= S0 - Turnaround - Late
             /\ \A i \in DOMAIN air : air[i].from = "front"
    <3>1. r = [at |-> S0 + L0 + P0, handle |-> 1]  BY <2>2 DEF irregular_report_t
    <3>2. r.at = S0 + L0 + P0 /\ r.at < 0  BY <3>1, <1>2 DEF Due
    <3> QED  BY <2>2, <3>2
  <2> QED  BY <1>1, <2>1, <2>2 DEF AgcInv
<1>4. /\ next \in Int /\ S0 \in Int /\ L0 \in Int /\ failed = "none" /\ cnt \in 0..2 * Antennas - 1
      /\ gain \in [0..Antennas - 1 -> Int] /\ air \in Seq(Packets(Nat)) /\ Air(Nat)
  BY <1>1 DEF TestsType, Air
<1>5. \A k \in DOMAIN air : /\ air[k].at = S0 /\ air[k].from = "front" /\ air[k].radio = 1
                            /\ air[k].stage = "sent"
  BY <1>1, <1>3 DEF AgcInv, PairInv
<1>6. S0 < 0
  <2>1. S0 + L0 + P0 < 0 /\ L0 \in Nat  BY <1>3
  <2> QED  BY <2>1, <1>4
<1>7. Available(1) = NofProcesses
  <2>1. {k \in DOMAIN air : air[k].radio = 1 /\ air[k].at > 0} = {}  BY <1>4, <1>5, <1>6
  <2>2. Cardinality({k \in DOMAIN air : air[k].radio = 1 /\ air[k].at > 0}) = 0  BY <2>1, FS_EmptySet
  <2> QED  BY <2>2, RadioAssumption DEF Available
<1>8. at \in Int /\ at >= Turnaround /\ at >= S0 + PacketLength  BY <1>3, <1>4
<1>9. /\ back \in Packets(Nat) /\ back.at = at /\ back.ahead = at
      /\ back.radio = 1 /\ back.from = "back" /\ back.stage = "sent"
  BY <1>1, <1>8, PairPacket
<1>10. /\ Generate(1, <<back>>) /\ gain' = Adjusted /\ earliest' = at + PacketLength
       /\ cnt' = (cnt + 1) % (2 * Antennas) /\ next' = next + measurement_spacing
       /\ reports' = Requested(next')
  BY <1>2 DEF BackGenerated, Back, S1
<1>11. UNCHANGED <<name, timing, tx_last, S0, L0, R0, freqs_idx, N_measurement_cnt, tuned, scans, shown>>
  BY <1>2 DEF chscanner
<1> HIDE DEF back
<1>12. /\ air' = Append(air, back) /\ air' \in Seq(Packets(Nat)) /\ DOMAIN air' = 1..Len(air) + 1
       /\ Len(air) \in Nat
       /\ \A k \in DOMAIN air' : air'[k] = IF k = Len(air) + 1 THEN back ELSE air[k]
  <2>1. Len(<<back>>) <= Available(1)  BY <1>7, RadioAssumption
  <2>2. air' = air \o <<back>>  BY <1>10, <2>1 DEF Generate
  <2>3. air' = Append(air, back)  BY <2>2, <1>4, <1>9
  <2>4. /\ air \in Seq(Packets(Nat)) /\ back \in Packets(Nat)
        /\ Len(air) \in Nat /\ DOMAIN air = 1..Len(air)
    BY <1>4, <1>9
  <2>5. /\ air' \in Seq(Packets(Nat)) /\ Len(air') = Len(air) + 1
        /\ air'[Len(air) + 1] = back /\ \A k \in 1..Len(air) : air'[k] = air[k]
    BY <2>3, <2>4, AppendProperties
  <2>6. DOMAIN air' = 1..Len(air) + 1  BY <2>5
  <2> QED  BY <2>3, <2>4, <2>5, <2>6
<1>13. \A k \in DOMAIN air' : k # Len(air) + 1 => k \in DOMAIN air /\ k < Len(air) + 1
  BY <1>4, <1>12
<1>14. Air(Nat)'
  <2>1. \A k \in DOMAIN air : air[k].ahead >= Turnaround /\ air[k].at + PacketLength >= -Lag
    BY <1>4 DEF Air, InOrder
  <2>2. \A k \in DOMAIN air' : air'[k].ahead >= Turnaround /\ air'[k].at + PacketLength >= -Lag
    BY <2>1, <1>8, <1>9, <1>12, <1>13, SMTT(60)
  <2>3. ASSUME NEW k \in DOMAIN air', NEW l \in DOMAIN air', k < l
        PROVE  air'[k].at + PacketLength <= air'[l].at
    <3>1. k # Len(air) + 1 /\ k \in Nat /\ l \in Nat  BY <2>3, <1>12
    <3>2. air'[k].at = S0 /\ air'[k] = air[k]  BY <3>1, <1>5, <1>12, <1>13
    <3>3. CASE l = Len(air) + 1  BY <3>2, <3>3, <1>8, <1>9, <1>12
    <3>4. CASE l # Len(air) + 1
      <4>1. l \in DOMAIN air /\ k \in DOMAIN air /\ air'[l] = air[l]  BY <3>1, <3>4, <1>12, <1>13
      <4>2. air[k].radio = air[l].radio  BY <4>1, <1>5
      <4> QED  BY <4>1, <4>2, <3>2, <2>3, <1>4 DEF Air, InOrder
    <3> QED  BY <3>3, <3>4
  <2>4. InOrder'  BY <2>2, <2>3 DEF InOrder
  <2> QED  BY <1>12, <2>2, <2>4 DEF Air
<1>15. GainInv' /\ cnt' \in 0..2 * Antennas - 1 /\ gain' \in [0..Antennas - 1 -> Int]
  BY <1>1, <1>4, <1>10, GainAdjusted
<1>16. /\ next' \in Int /\ next' >= at + PacketLength + Lag /\ next' >= S0 + PacketLength + Lag
       /\ earliest' \in Int /\ next' >= -Late
  BY <1>3, <1>4, <1>8, <1>10
<1>17. TestsType'
  BY <1>1, <1>2, <1>4, <1>11, <1>14, <1>15, <1>16 DEF TestsType
<1>18. PairInv'
  BY <1>3, <1>5, <1>9, <1>11, <1>12, <1>13, ZenonT(60) DEF PairInv
<1>19. DecodedBefore(next)'
  <2>1. \A k \in DOMAIN air' : air'[k].at = at \/ air'[k].at = S0  BY <1>5, <1>9, <1>12, <1>13
  <2> QED  BY <2>1, <1>4, <1>8, <1>16 DEF DecodedBefore
<1>20. AgcInv'  BY <1>1, <1>10, <1>11, <1>16, <1>18, <1>19 DEF AgcInv
<1> QED  BY <1>1, <1>11, <1>15, <1>17, <1>20 DEF TestsInv

\* A back packet that is compared follows the front packet received, if that is of the same pair.
LEMMA AgcPccKeeps ==
    ASSUME TestsInv, NEW i \in DOMAIN air, AgcPcc(i)
    PROVE  TestsInv'
<1> USE TestsConstants
<1>1. TestsType /\ GainInv /\ name = "txrxagc" /\ AgcInv /\ PairInv /\ Air(Nat)
  BY DEF AgcPcc, TestsInv, TestsType, AgcInv
<1>2. /\ Drop(i)
      /\ UNCHANGED <<reports, earliest, failed, name, timing, next, tx_last, S0, L0, cnt, gain,
                     freqs_idx, N_measurement_cnt, tuned, scans>>
  BY DEF AgcPcc, chscanner
<1>3. Air(Nat)'  BY <1>1, <1>2, DropPacket DEF Air
<1>4. \A k \in DOMAIN air' : \E j \in DOMAIN air : air'[k] = air[j]
  BY <1>1, <1>2, DropPacket
<1>5. /\ S0 \in Int /\ L0 \in Int /\ R0 \in Int /\ L0 = PacketLength
      /\ shown \in [value : Int, valid : BOOLEAN] /\ (shown.valid => shown.value = 0)
      /\ air[i].from = "front" => air[i].at = S0
      /\ air[i].from = "back" => air[i].at = S0 + L0 + P0 + P1
  BY <1>1 DEF TestsType, TestsInv, PairInv
<1>6. R0' \in Int /\ shown' \in [value : Int, valid : BOOLEAN] /\ (shown'.valid => shown'.value = 0)
  <2>1. CASE R0' = R0 /\ shown' = shown  BY <2>1, <1>5
  <2>2. CASE air[i].from = "front" /\ R0' = air[i].at /\ shown' = [shown EXCEPT !.valid = FALSE]
    <3>1. R0' \in Int  BY <2>2, <1>5
    <3>2. shown' \in [value : Int, valid : BOOLEAN] /\ ~shown'.valid  BY <2>2, <1>5
    <3> QED  BY <3>1, <3>2
  <2>3. CASE /\ air[i].from = "back" /\ R0' = R0
             /\ shown' = [value |-> air[i].at - R0 - L0 - (P0 + P1), valid |-> R0 = S0]
    <3>1. air[i].at - R0 - L0 - (P0 + P1) \in Int /\ (R0 = S0) \in BOOLEAN  BY <2>3, <1>5
    <3>2. shown' \in [value : Int, valid : BOOLEAN]  BY <2>3, <3>1
    <3>3. shown'.value = air[i].at - R0 - L0 - (P0 + P1) /\ (shown'.valid <=> R0 = S0)  BY <2>3
    <3>4. R0 = S0 => air[i].at - R0 - L0 - (P0 + P1) = 0  BY <2>3, <1>5
    <3> QED  BY <2>3, <3>2, <3>3, <3>4, <1>5
  <2> QED  BY <2>1, <2>2, <2>3 DEF AgcPcc
<1>7. TestsType'  BY <1>1, <1>2, <1>3, <1>6 DEF TestsType
<1>8. PairInv'  BY <1>1, <1>2, <1>4, <1>5 DEF PairInv
<1>9. DecodedBefore(next) => DecodedBefore(next)'  BY <1>2, <1>4 DEF DecodedBefore
<1>10. AgcInv'  BY <1>1, <1>2, <1>4, <1>8, <1>9 DEF AgcInv
<1>11. GainInv'  BY <1>1, <1>2 DEF GainInv
<1> QED  BY <1>1, <1>2, <1>6, <1>7, <1>10, <1>11 DEF TestsInv

LEMMA ScanCallbackKeeps ==
    ASSUME TestsInv, ScanCallback
    PROVE  TestsInv'
<1> USE TestsConstants
<1>1. TestsType /\ GainInv /\ name = "chscanner" /\ ScanInv  BY DEF ScanCallback, TestsInv
<1>2. PICK r \in reports :
        /\ Due(r)
        /\ Check(next < 0, "time out-of-order")
        /\ reports' = {}
        /\ scans' = Append(scans, [end |-> 0, tuned |-> tuned])
        /\ UNCHANGED <<air, earliest, name, timing, next, tx_last, agc, freqs_idx, N_measurement_cnt,
                       tuned, shown>>
  BY DEF ScanCallback
<1>3. reports = Requested(next) /\ next >= -Late /\ scans = <<>>  BY <1>1 DEF ScanInv
<1>4. next < 0
  <2>1. r = [at |-> next, handle |-> 0]  BY <1>3 DEF Requested, irregular_report_t
  <2>2. r.at = next  BY <2>1
  <2>3. r.at < 0  BY <1>2 DEF Due
  <2> QED  BY <2>2, <2>3
<1>5. next \in Int /\ tuned \in Int /\ failed = "none" /\ Air(Nat) /\ air = <<>>
  BY <1>1 DEF TestsType, ScanInv
<1>6. tuned <= -Window  BY <1>1, <1>4, <1>5 DEF ScanInv, Tuned
<1>7. UNCHANGED <<air, earliest, name, timing, next, tx_last, S0, L0, R0, cnt, gain, freqs_idx,
                  N_measurement_cnt, tuned, shown>>
  BY <1>2 DEF agc
<1>8. /\ failed' = "none" /\ reports' = {}
      /\ scans' = Append(scans, [end |-> 0, tuned |-> tuned])
  BY <1>2, <1>4, <1>5 DEF Check
<1>9. /\ scans' = <<[end |-> 0, tuned |-> tuned]>> /\ scans' \in Seq(Scans)
      /\ Len(scans') = 1 /\ scans'[1].end = 0 /\ scans'[1].tuned = tuned
  <2>1. scans' = <<[end |-> 0, tuned |-> tuned]>>  BY <1>3, <1>8
  <2>2. [end |-> 0, tuned |-> tuned] \in Scans  BY <1>5 DEF Scans
  <2>3. [end |-> 0, tuned |-> tuned].end = 0 /\ [end |-> 0, tuned |-> tuned].tuned = tuned  OBVIOUS
  <2> QED  BY <2>1, <2>2, <2>3
<1>10. Air(Nat)'  BY <1>5, <1>7 DEF Air, InOrder
<1>11. TestsType'  BY <1>1, <1>7, <1>8, <1>9, <1>10 DEF TestsType
<1>12. ScanInv'
  <2>1. Tuned(next)'  BY <1>1, <1>7 DEF ScanInv, Tuned
  <2>2. scans'[1].end >= -Lag /\ next >= scans'[1].end - Late /\ scans'[1].tuned <= -Window
    BY <1>3, <1>5, <1>6, <1>9
  <2> QED  BY <2>1, <2>2, <1>4, <1>5, <1>7, <1>8, <1>9 DEF ScanInv
<1>13. GainInv'  BY <1>1, <1>7 DEF GainInv
<1> QED  BY <1>1, <1>7, <1>11, <1>12, <1>13 DEF TestsInv

\* The next callback leaves the samples of a Window after a change of the frequency.
LEMMA ScanDoneKeeps ==
    ASSUME TestsInv, ScanDone
    PROVE  TestsInv'
<1> USE TestsConstants
<1>1. TestsType /\ GainInv /\ name = "chscanner" /\ ScanInv /\ scans # <<>>
  BY DEF ScanDone, TestsInv
<1>2. /\ Len(scans) = 1 /\ scans[1].end >= -Lag /\ next < 0 /\ next >= scans[1].end - Late
      /\ air = <<>> /\ Tuned(next)
  BY <1>1 DEF ScanInv
<1>3. /\ next \in Int /\ tuned \in Int /\ failed = "none" /\ Air(Nat) /\ freqs_idx \in Nat
      /\ N_measurement_cnt \in Nat /\ scans \in Seq(Scans)
  BY <1>1 DEF TestsType
<1>4. scans[1].end \in Int
  <2>1. scans \in Seq(Scans) /\ Len(scans) = 1  BY <1>2, <1>3
  <2>2. scans[1] \in Scans  BY <2>1
  <2> QED  BY <2>2 DEF Scans
<1>5. next >= -Lag - Late  BY <1>2, <1>3, <1>4, SMTT(60)
<1>6. /\ scans' = Tail(scans) /\ next' = next + Rescheduled /\ reports' = Requested(next')
      /\ UNCHANGED <<air, earliest, failed, name, timing, tx_last, S0, L0, R0, cnt, gain, shown>>
  BY DEF ScanDone, agc
<1>7. scans' = <<>>
  <2>1. scans \in Seq(Scans) /\ Len(scans) = 1 /\ scans' = Tail(scans)  BY <1>2, <1>3, <1>6
  <2> QED  BY <2>1
<1>8. /\ next' \in Int /\ next' >= -Late /\ Tuned(next)' /\ tuned' \in Int
      /\ N_measurement_cnt' \in Nat /\ freqs_idx' \in Nat
  <2>1. CASE N_measurement_cnt + 1 = N_measurement
    <3>1. next' = next + measurement_spacing_between_frequencies  BY <2>1, <1>6 DEF Rescheduled
    <3>2. tuned' = 0 /\ N_measurement_cnt' = 0 /\ freqs_idx' = (freqs_idx + 1) % Frequencies
      BY <2>1 DEF ScanDone
    <3>3. (freqs_idx + 1) % Frequencies \in Nat  BY <1>3, TestAssumption
    <3>4. next' \in Int /\ next' >= Window  BY <3>1, <1>3, <1>5
    <3>5. next' >= -Late /\ Tuned(next)'  BY <3>2, <3>4 DEF Tuned
    <3> QED  BY <3>2, <3>3, <3>4, <3>5
  <2>2. CASE N_measurement_cnt + 1 # N_measurement
    <3>1. next' = next + measurement_period  BY <2>2, <1>6 DEF Rescheduled
    <3>2. tuned' = tuned /\ N_measurement_cnt' = N_measurement_cnt + 1 /\ freqs_idx' = freqs_idx
      BY <2>2 DEF ScanDone
    <3>3. next' \in Int /\ next' >= -Late /\ next' >= next  BY <3>1, <1>3, <1>5
    <3>4. Tuned(next)'  BY <3>2, <3>3, <1>2, <1>3 DEF Tuned, Long
    <3> QED  BY <3>2, <3>3, <3>4, <1>3
  <2> QED  BY <2>1, <2>2
<1>9. Air(Nat)'  BY <1>3, <1>6 DEF Air, InOrder
<1>10. TestsType'
  BY <1>1, <1>6, <1>7, <1>8, <1>9 DEF TestsType
<1>11. ScanInv'  BY <1>2, <1>6, <1>7, <1>8 DEF ScanInv
<1>12. GainInv'  BY <1>1, <1>6 DEF GainInv
<1> QED  BY <1>1, <1>6, <1>10, <1>11, <1>12 DEF TestsInv

\* Clocks that stop when they are Long do so only when nothing in the air refers to them.
LEMMA EarlierType ==
    ASSUME NEW t \in Int, NEW floor \in Int
    PROVE  /\ Earlier(t, floor) \in Int
           /\ t > floor => Earlier(t, floor) = t - 1
           /\ t = floor => Earlier(t, floor) = t
BY DEF Earlier

LEMMA TestsTimeKeeps ==
    ASSUME TestsInv, TestsTime
    PROVE  TestsInv'
<1> USE TestsConstants
<1>1. /\ next' = next - 1 /\ tuned' = Earlier(tuned, -Long)
      /\ tx_last' = Earlier(tx_last, -Long) /\ S0' = Earlier(S0, -Long) /\ R0' = Earlier(R0, -Long)
      /\ name' = name /\ timing' = timing /\ L0' = L0 /\ cnt' = cnt /\ gain' = gain
      /\ freqs_idx' = freqs_idx /\ N_measurement_cnt' = N_measurement_cnt /\ shown' = shown
  BY DEF TestsTime
<1>2. TestsType /\ GainInv /\ (shown.valid => shown.value = 0)  BY DEF TestsInv
<1>3. /\ next \in Int /\ tx_last \in Int /\ S0 \in Int /\ R0 \in Int /\ L0 \in Int /\ tuned \in Int
      /\ earliest \in Int /\ Air(Nat) /\ failed = "none"
  BY <1>2 DEF TestsType
<1>4. /\ earliest' = Earlier(earliest, -1) /\ failed' = failed
      /\ reports' = {[r EXCEPT !.at = @ - 1] : r \in reports}
      /\ \A r \in reports : r.at > -Late
  BY DEF TestsTime, PassTime
<1>5. /\ Air(Nat)' /\ Len(air') = Len(air) /\ DOMAIN air' = DOMAIN air
      /\ \A k \in DOMAIN air : /\ air[k].at + PacketLength > -Lag
                               /\ air'[k].radio = air[k].radio /\ air'[k].at = air[k].at - 1
                               /\ air'[k].from = air[k].from /\ air'[k].tag = air[k].tag
                               /\ air'[k].stage = air[k].stage
  <2>1. PassTime  BY DEF TestsTime
  <2>2. Air(Nat)'  BY <2>1, <1>3, TimePackets DEF Air
  <2> QED  BY <2>1, <2>2, <1>3, TimePackets
<1>6. \A k \in DOMAIN air : air[k].at \in Int
  <2>1. \A k \in DOMAIN air : air[k] \in Packets(Nat)  BY <1>3 DEF Air
  <2> QED  BY <2>1 DEF Packets
<1>7. /\ scans' \in Seq(Scans) /\ Len(scans') = Len(scans)
      /\ \A k \in DOMAIN scans : /\ scans'[k].end = scans[k].end - 1 /\ scans'[k].tuned = scans[k].tuned
                                 /\ scans[k].end \in Int /\ scans[k].end > -Lag
  <2>1. /\ scans' = [i \in DOMAIN scans |-> [scans[i] EXCEPT !.end = @ - 1]]
        /\ \A i \in DOMAIN scans : scans[i].end > -Lag
    BY DEF TestsTime
  <2>2. scans \in Seq(Scans)  BY <1>2 DEF TestsType
  <2>3. \A k \in DOMAIN scans : scans[k] \in Scans  BY <2>2
  <2>4. \A k \in DOMAIN scans : /\ [scans[k] EXCEPT !.end = @ - 1] \in Scans /\ scans[k].end \in Int
                                /\ [scans[k] EXCEPT !.end = @ - 1].end = scans[k].end - 1
                                /\ [scans[k] EXCEPT !.end = @ - 1].tuned = scans[k].tuned
    BY <2>3 DEF Scans
  <2>5. scans' \in Seq(Scans) /\ Len(scans') = Len(scans)
    <3> DEFINE later(i) == [scans[i] EXCEPT !.end = @ - 1]
    <3>1. scans' = [i \in DOMAIN scans |-> later(i)]  BY <2>1
    <3>2. \A k \in DOMAIN scans : later(k) \in Scans  BY <2>4
    <3> HIDE DEF later
    <3>3. DOMAIN scans = 1..Len(scans) /\ Len(scans) \in Nat  BY <2>2
    <3>4. scans' \in [1..Len(scans) -> Scans]  BY <3>1, <3>2, <3>3
    <3> QED  BY <3>3, <3>4
  <2>6. \A k \in DOMAIN scans : scans'[k] = [scans[k] EXCEPT !.end = @ - 1]  BY <2>1
  <2> QED  BY <2>1, <2>4, <2>5, <2>6
<1>8. TestsType'
  <2>1. /\ next' \in Int /\ tx_last' \in Int /\ S0' \in Int /\ R0' \in Int /\ tuned' \in Int
        /\ earliest' \in Int
    BY <1>1, <1>3, <1>4, EarlierType
  <2> QED  BY <2>1, <1>1, <1>2, <1>3, <1>4, <1>5, <1>7 DEF TestsType
<1>9. GainInv'  BY <1>1, <1>2 DEF GainInv
<1>10. ASSUME NEW t \in Int, NEW h, reports = {irregular_report_t(t, h)}
       PROVE  t > -Late /\ reports' = {irregular_report_t(t - 1, h)}
  <2>1. reports = {[at |-> t, handle |-> h]}  BY <1>10 DEF irregular_report_t
  <2>2. reports' = {[at |-> t - 1, handle |-> h]}  BY <2>1, <1>4
  <2>3. [at |-> t, handle |-> h].at = t /\ [at |-> t, handle |-> h] \in reports  BY <2>1
  <2>4. t > -Late  BY <2>3, <1>4
  <2> QED  BY <2>2, <2>4 DEF irregular_report_t
<1>11. reports = Requested(next) => next > -Late /\ reports' = Requested(next')
  BY <1>1, <1>3, <1>10 DEF Requested
<1>12. DecodedBefore(next) => DecodedBefore(next)'
  <2> SUFFICES ASSUME DecodedBefore(next), NEW k \in DOMAIN air
               PROVE  air'[k].at + PacketLength + Lag <= next'
    BY <1>5 DEF DecodedBefore
  <2>1. air[k].at \in Int /\ air'[k].at = air[k].at - 1  BY <1>5, <1>6
  <2>2. air[k].at + PacketLength + Lag <= next  BY DEF DecodedBefore
  <2>3. next' = next - 1 /\ next \in Int  BY <1>1, <1>3
  <2> QED  BY <2>1, <2>2, <2>3
<1>13. scans = <<>> => scans' = <<>>
  <2>1. scans \in Seq(Scans)  BY <1>2 DEF TestsType
  <2> QED  BY <2>1, <1>7
<1>14. ASSUME name = "txrxdelay" PROVE DelayInv'
  <2>1. DelayInv  BY <1>14 DEF TestsInv
  <2>2. earliest' <= next' \/ earliest' <= 0
    <3>1. earliest <= next \/ earliest <= 0  BY <2>1 DEF DelayInv
    <3>2. earliest' = IF earliest > -1 THEN earliest - 1 ELSE -1  BY <1>4 DEF Earlier
    <3>3. next' = next - 1  BY <1>1
    <3> QED  BY <3>1, <3>2, <3>3, <1>3
  <2>3. \A k \in DOMAIN air : air[k].at = tx_last /\ tx_last > -Long
    BY <2>1, <1>3, <1>5, <1>6 DEF DelayInv
  <2>4. ASSUME NEW k \in DOMAIN air' PROVE air'[k].at = tx_last'
    <3>1. k \in DOMAIN air /\ air'[k].at = air[k].at - 1  BY <1>5
    <3>2. air[k].at = tx_last /\ tx_last > -Long  BY <2>3, <3>1
    <3>3. tx_last' = tx_last - 1  BY <3>2, <1>1, <1>3, EarlierType
    <3> QED  BY <3>1, <3>2, <3>3
  <2>5. \A k \in DOMAIN air' : air'[k].radio = 1 /\ air'[k].tag = 0 /\ air'[k].stage = "sent"
    BY <2>1, <1>5 DEF DelayInv
  <2>6. /\ reports' = Requested(next') /\ next' >= -Late /\ DecodedBefore(next)' /\ scans' = <<>>
    BY <2>1, <1>1, <1>3, <1>11, <1>12, <1>13 DEF DelayInv
  <2> QED  BY <2>2, <2>4, <2>5, <2>6 DEF DelayInv
<1>15. ASSUME name = "txrxagc" PROVE AgcInv'
  <2>1. AgcInv /\ PairInv  BY <1>15 DEF TestsInv, AgcInv
  <2>2. air # <<>> => S0' = S0 - 1
    <3> SUFFICES ASSUME air # <<>> PROVE S0' = S0 - 1  OBVIOUS
    <3>1. 1 \in DOMAIN air
      <4>1. air \in Seq(Packets(Nat))  BY <1>3 DEF Air
      <4> QED  BY <4>1
    <3>2. air[1].at \in {S0, S0 + L0 + P0 + P1} /\ L0 = PacketLength  BY <3>1, <2>1 DEF PairInv
    <3>3. S0 > -Long  BY <3>1, <3>2, <1>3, <1>5
    <3> QED  BY <3>3, <1>1, <1>3, EarlierType
  <2>3. PairInv'
    <3>1. air' # <<>> => air # <<>>
      <4>1. air \in Seq(Packets(Nat)) /\ air' \in Seq(Packets(Nat))  BY <1>3, <1>5 DEF Air
      <4> QED  BY <4>1, <1>5
    <3>2. ASSUME NEW k \in DOMAIN air'
          PROVE  /\ air'[k].radio = 1 /\ air'[k].stage = "sent" /\ air'[k].from \in {"front", "back"}
                 /\ air'[k].from = "front" => air'[k].at = S0'
                 /\ air'[k].from = "back" => air'[k].at = S0' + L0' + P0 + P1
      <4>1. k \in DOMAIN air /\ air # <<>>  BY <1>5
      <4>2. S0' = S0 - 1 /\ L0' = L0  BY <4>1, <2>2, <1>1
      <4> QED  BY <4>1, <4>2, <2>1, <1>3, <1>5 DEF PairInv
    <3> QED  BY <3>1, <3>2, <2>1, <1>1 DEF PairInv
  <2>4. CASE reports = Requested(next) /\ next >= -Late /\ DecodedBefore(next)
    <3>1. next' >= -Late  BY <2>4, <1>1, <1>3, <1>11
    <3> QED  BY <3>1, <2>1, <2>3, <2>4, <1>11, <1>12, <1>13 DEF AgcInv
  <2>5. CASE /\ reports = {irregular_report_t(S0 + L0 + P0, 1)} /\ S0 + L0 + P0 >= -Late
             /\ L0 = PacketLength /\ next >= S0 - Turnaround - Late
             /\ \A i \in DOMAIN air : air[i].from = "front"
    <3>1. /\ S0 + L0 + P0 > -Late /\ reports' = {irregular_report_t(S0 + L0 + P0 - 1, 1)}
      BY <2>5, <1>3, <1>10
    <3>2. S0 > -Long  BY <2>5, <3>1, <1>3
    <3>3. S0' = S0 - 1 /\ L0' = L0  BY <3>2, <1>1, <1>3, EarlierType
    <3>4. S0' + L0' + P0 = S0 + L0 + P0 - 1  BY <3>3, <1>3
    <3>5. S0' + L0' + P0 >= -Late /\ next' >= S0' - Turnaround - Late
      BY <2>5, <3>1, <3>3, <3>4, <1>1, <1>3
    <3> QED  BY <3>1, <3>3, <3>4, <3>5, <2>1, <2>3, <2>5, <1>5, <1>13 DEF AgcInv
  <2> QED  BY <2>1, <2>4, <2>5 DEF AgcInv
<1>16. ASSUME name = "chscanner" PROVE ScanInv'
  <2>1. ScanInv  BY <1>16 DEF TestsInv
  <2>2. air' = <<>>
    <3>1. air = <<>> /\ air' \in Seq(Packets(Nat))  BY <2>1, <1>5 DEF ScanInv, Air
    <3> QED  BY <3>1, <1>5
  <2>3. Tuned(next)'
    BY <2>1, <1>1, <1>3 DEF ScanInv, Tuned, Earlier, Long
  <2>4. CASE reports = Requested(next) /\ next >= -Late /\ scans = <<>>
    <3>1. next' >= -Late  BY <2>4, <1>1, <1>3, <1>11
    <3> QED  BY <3>1, <2>2, <2>3, <2>4, <1>11, <1>13 DEF ScanInv
  <2>5. CASE /\ reports = {} /\ Len(scans) = 1
             /\ scans[1].end >= -Lag /\ next < 0 /\ next >= scans[1].end - Late
             /\ scans[1].tuned <= -Window
    <3>1. reports' = {}  BY <2>5, <1>4
    <3>2. 1 \in DOMAIN scans
      <4>1. scans \in Seq(Scans)  BY <1>2 DEF TestsType
      <4> QED  BY <4>1, <2>5
    <3>3. /\ scans'[1].end = scans[1].end - 1 /\ scans'[1].tuned = scans[1].tuned
          /\ scans[1].end > -Lag /\ scans[1].end \in Int
      BY <3>2, <1>7
    <3>4. scans'[1].end >= -Lag /\ next' < 0 /\ next' >= scans'[1].end - Late
      BY <3>3, <2>5, <1>1, <1>3
    <3> QED  BY <3>1, <3>3, <3>4, <2>2, <2>3, <2>5, <1>7 DEF ScanInv
  <2> QED  BY <2>1, <2>4, <2>5 DEF ScanInv
<1> QED  BY <1>1, <1>2, <1>8, <1>9, <1>14, <1>15, <1>16 DEF TestsInv

LEMMA TestsSteps ==
    ASSUME TestsInv, TestsNext
    PROVE  TestsInv'
BY DelayCallbackKeeps, FrontCallbackKeeps, GainCallbackKeeps, ScanCallbackKeeps, DelayPccKeeps,
   AgcPccKeeps, ScanDoneKeeps, TestsTimeKeeps DEF TestsNext, TestsCallback, TestsReceive

LEMMA TestsResults ==
    ASSUME TestsInv
    PROVE  MeasuresItsOwn
<1>1. failed = "none" /\ InOrder  BY DEF TestsInv, TestsType, Air
<1>2. \A a \in 0..Antennas - 1 :
          gain[a] = IF a = ant_idx /\ cnt % 2 = 1 THEN agc_change_dB ELSE 0
  <2>1. ant_idx = cnt \div 2  BY AntennaOfCount DEF TestsInv, TestsType, ant_idx
  <2> QED  BY <2>1 DEF TestsInv, GainInv
<1>3. \A i \in DOMAIN scans : scans[i].tuned <= -Window
  <2>1. scans = <<>> \/ (Len(scans) = 1 /\ scans[1].tuned <= -Window)
    BY TestAssumption DEF TestsInv, TestsType, DelayInv, AgcInv, ScanInv
  <2>2. scans \in Seq(Scans)  BY DEF TestsInv, TestsType
  <2> QED  BY <2>1, <2>2
<1> QED  BY <1>1, <1>2, <1>3 DEF MeasuresItsOwn, TestsInv

-----------------------------------------------------------------------------
(* rtt *)

LEMMA RttConstants ==
    /\ Turnaround \in Nat /\ Turnaround > 0 /\ PacketLength \in Nat /\ PacketLength > 0 /\ Lag \in Nat
    /\ Ids \in Nat /\ Ids > 0 /\ N_datagram \in Nat /\ N_datagram > 1 /\ Pause \in Nat /\ Pause > 0
    /\ Timeout \in Nat /\ Timeout > 2 * (Turnaround + PacketLength + Lag)
    /\ RoundTrip \in Nat /\ RoundTrip = 2 * (Turnaround + PacketLength) /\ RoundTrip > 0
BY RadioAssumption, RttAssumption DEF RoundTrip

LEMMA OneElement ==
    ASSUME NEW S, NEW s \in Seq(S), Len(s) = 1
    PROVE  s # <<>> /\ s[1] \in S /\ Head(s) = s[1] /\ Tail(s) = <<>> /\ DOMAIN s = {1}
<1>1. s # <<>> /\ s[1] \in S /\ Head(s) = s[1] /\ DOMAIN s = {1}  OBVIOUS
<1>2. Tail(s) \in Seq(S) /\ Len(Tail(s)) = 0  BY <1>1, HeadTailProperties
<1>3. Tail(s) = <<>>  BY <1>2, EmptySeq
<1> QED  BY <1>1, <1>3

LEMMA AppendElement ==
    ASSUME NEW S, NEW s \in Seq(S), NEW e \in S
    PROVE  /\ Append(s, e) \in Seq(S) /\ Append(s, e) # <<>>
           /\ s = <<>> => Append(s, e) = <<e>>
<1>1. Append(s, e) = s \o <<e>>  BY AppendIsConcat
<1>2. <<>> \o <<e>> = <<e>>  BY ConcatEmptySeq
<1> QED  BY <1>1, <1>2, AppendProperties, ZenonT(60)

LEMMA RttStarts ==
    ASSUME RttVariables, reports = {}, air = <<>>, earliest = -1, failed = "none"
    PROVE  RttInv
<1> USE RttConstants DEF RttVariables
<1>1. Air(Nat)  BY DEF Air, InOrder
<1>2. got \in Taken /\ counted \in Tally  BY DEF Taken, Tally, Zero
<1>3. RttType
  <2>1. queue = <<>> /\ jobs = <<>> /\ answers = <<>>  OBVIOUS
  <2>2. /\ phase = "probe" /\ doing = "send" /\ id = 0 /\ waited = 0
        /\ N_measurements_cnt = 0 /\ rtt_success = 0 /\ started = "no" /\ watch = 0
        /\ N_measurement_tx_cnt = 0 /\ N_measurement_rx_cnt = 0 /\ earliest_pt = -1 /\ unserved = FALSE
    OBVIOUS
  <2> HIDE DEF RttVariables
  <2>3. queue \in Seq(Nat) /\ jobs \in Seq({0, 1}) /\ answers \in Seq(Answers)  BY <2>1, EmptySeq
  <2>4. /\ phase \in {"probe", "measure", "print"} /\ doing \in {"send", "await", "pause"}
        /\ started \in {"no", "cleared", "permeable"}
    BY <2>2
  <2>5. /\ id \in Nat /\ waited \in Nat /\ N_measurements_cnt \in Nat /\ rtt_success \in Nat
        /\ watch \in Nat /\ N_measurement_tx_cnt \in Nat /\ N_measurement_rx_cnt \in Nat
        /\ earliest \in Int /\ earliest_pt \in Int
    BY <2>2
  <2>6. reports = {} /\ failed = "none"  OBVIOUS
  <2>7. unserved \in BOOLEAN  BY <2>2, Zenon
  <2> QED  BY <2>3, <2>4, <2>5, <2>6, <2>7, <1>1, <1>2 DEF RttType
<1>4. DatagramInv  BY DEF DatagramInv, Where, Idle
<1>5. EarliestInv  BY DEF EarliestInv
<1>6. CountInv  BY DEF CountInv, Zero
<1>7. AnswerInv  BY DEF AnswerInv
<1> QED  BY <1>3, <1>4, <1>5, <1>6, <1>7 DEF RttInv

LEMMA TallyCount ==
    ASSUME NEW t \in Tally, NEW u
    PROVE  /\ u = [t EXCEPT !.tx = @ + 1] => u \in Tally /\ u.tx = t.tx + 1 /\ u.rx = t.rx
           /\ u = [t EXCEPT !.rx = @ + 1] => u \in Tally /\ u.tx = t.tx /\ u.rx = t.rx + 1
BY DEF Tally

\* The record of the air is the same as long as nothing is sent and nothing is received.
LEMMA SameAir ==
    ASSUME NEW Tags, Air(Tags), UNCHANGED air
    PROVE  Air(Tags)'
BY DEF Air, InOrder

LEMMA SendDatagramKeeps ==
    ASSUME RttInv, SendDatagram
    PROVE  RttInv'
<1> USE RttConstants
<1>1. RttType /\ DatagramInv /\ EarliestInv /\ CountInv /\ AnswerInv  BY DEF RttInv
<1>2. /\ doing = "send" /\ phase \in {"probe", "measure"}
      /\ id' = (id + 1) % Ids /\ doing' = "await" /\ waited' = 0
      /\ queue' = IF Fits THEN Append(queue, id') ELSE queue
      /\ jobs' = IF Fits /\ started = "permeable" THEN Append(jobs, 0) ELSE jobs
      /\ unserved' = (unserved \/ (Fits /\ started = "cleared"))
      /\ counted' = IF started = "permeable" THEN [counted EXCEPT !.tx = @ + 1] ELSE counted
  BY DEF SendDatagram
<1>3. UNCHANGED <<reports, air, earliest, failed, phase, N_measurements_cnt, rtt_success, got, started, watch,
                  N_measurement_tx_cnt, N_measurement_rx_cnt, earliest_pt, answers, printed>>
  BY DEF SendDatagram, radio
<1>4. Idle /\ earliest <= 0 /\ earliest_pt <= 0
  BY <1>1, <1>2 DEF DatagramInv, Where, EarliestInv
<1>5. /\ id \in Nat /\ queue \in Seq(Nat) /\ counted \in Tally /\ Air(Nat)
      /\ N_measurement_tx_cnt \in Nat
  BY <1>1 DEF RttType
<1>6. id' \in Nat
  <2>1. id' = (id + 1) % Ids  BY <1>2
  <2> QED  BY <2>1, <1>5
<1>7. /\ queue' \in Seq(Nat) /\ queue \in Seq(Nat)
      /\ Fits => queue' # <<>> /\ (queue = <<>> => queue' = <<id'>>)
  <2>1. queue' = IF Fits THEN Append(queue, id') ELSE queue  BY <1>2
  <2>2. queue \in Seq(Nat)  BY <1>5
  <2>3. /\ Append(queue, id') \in Seq(Nat) /\ Append(queue, id') # <<>>
        /\ queue = <<>> => Append(queue, id') = <<id'>>
    BY <2>2, <1>6, AppendElement
  <2> QED  BY <2>1, <2>2, <2>3
<1>8. jobs' = IF Fits /\ started = "permeable" THEN <<0>> ELSE <<>>  BY <1>2, <1>4 DEF Idle
<1>9. /\ counted' \in Tally /\ counted'.rx = counted.rx
      /\ counted'.tx = (IF started = "permeable" THEN counted.tx + 1 ELSE counted.tx)
  <2>1. CASE started = "permeable"
    <3>1. counted' = [counted EXCEPT !.tx = @ + 1]  BY <2>1, <1>2
    <3>2. counted' \in Tally /\ counted'.tx = counted.tx + 1 /\ counted'.rx = counted.rx
      BY <3>1, <1>5, TallyCount
    <3> QED  BY <3>2, <2>1
  <2>2. CASE started # "permeable"
    <3>1. counted' = counted  BY <2>2, <1>2
    <3> QED  BY <3>1, <2>2, <1>5
  <2> QED  BY <2>1, <2>2
<1>10. RttType'
  BY <1>1, <1>2, <1>3, <1>6, <1>7, <1>8, <1>9, SameAir DEF RttType
<1>11. queue = <<>> => Fits  BY DEF Fits
<1>13. ~unserved' => ~unserved /\ ~(Fits /\ started = "cleared")  BY <1>2
<1>14. CASE Fits /\ started = "permeable"
  <2>1. ~unserved => queue = <<>>  BY <1>1, <1>4, <1>14 DEF CountInv, Idle
  <2>2. InJob'
    BY <2>1, <1>2, <1>3, <1>4, <1>7, <1>8, <1>13, <1>14 DEF InJob, Idle
  <2>3. DatagramInv'  BY <2>2, <1>2, <1>3, SMTT(60) DEF DatagramInv, Where
  <2>4. EarliestInv'  BY <1>3, <1>4 DEF EarliestInv
  <2>5. CountInv'
    BY <1>1, <1>3, <1>4, <1>5, <1>8, <1>9, <1>13, <1>14 DEF CountInv, Idle, Tally
  <2>6. AnswerInv'  BY <1>1, <1>3 DEF AnswerInv
  <2> QED  BY <1>10, <2>3, <2>4, <2>5, <2>6 DEF RttInv
<1>15. CASE ~(Fits /\ started = "permeable")
  <2>1. Idle'  BY <1>3, <1>4, <1>8, <1>15 DEF Idle
  <2>2. DatagramInv'  BY <2>1, <1>2, <1>3, SMTT(60) DEF DatagramInv, Where
  <2>3. EarliestInv'  BY <1>3, <1>4 DEF EarliestInv
  <2>4. CountInv'
    <3> SUFFICES ASSUME ~unserved' PROVE CountInv'  BY DEF CountInv
    <3>1. started # "permeable"
      BY <1>1, <1>4, <1>11, <1>13, <1>15 DEF CountInv, Idle
    <3>2. started # "cleared"
      BY <1>1, <1>11, <1>13 DEF CountInv
    <3> QED  BY <3>1, <3>2, <1>1, <1>3, <1>4, <1>8, <1>9, <1>13 DEF CountInv, Idle
  <2>5. AnswerInv'  BY <1>1, <1>3 DEF AnswerInv
  <2> QED  BY <1>10, <2>2, <2>3, <2>4, <2>5 DEF RttInv
<1> QED  BY <1>14, <1>15

\* What follows a measurement begins with nothing underway.
LEMMA MeasuredKeeps ==
    ASSUME RttType, doing = "await", DatagramInv, AnswerInv, NEW success \in BOOLEAN, Measured(success)
    PROVE  /\ waited' = 0 /\ doing' \in {"send", "pause"} /\ phase' \in {"probe", "measure", "print"}
           /\ N_measurements_cnt' \in Nat /\ rtt_success' \in Nat /\ rtt_success' <= N_measurements_cnt'
           /\ rtt_success' > 0 => success \/ rtt_success > 0
<1>1. phase \in {"probe", "measure"}  BY DEF RttType, DatagramInv
<1>2. N_measurements_cnt \in Nat /\ rtt_success \in Nat /\ rtt_success <= N_measurements_cnt
  BY DEF RttType, AnswerInv
<1>3. CASE phase = "probe"  BY <1>2, <1>3 DEF Measured
<1>4. CASE phase = "measure"
  <2>1. /\ waited' = 0 /\ N_measurements_cnt' = N_measurements_cnt + 1
        /\ rtt_success' = IF success THEN rtt_success + 1 ELSE rtt_success
    BY <1>4 DEF Measured
  <2>2. phase' \in {"measure", "print"} /\ doing' \in {"send", "pause"}  BY <1>4 DEF Measured
  <2> QED  BY <2>1, <2>2, <1>2
<1> QED  BY <1>1, <1>3, <1>4

LEMMA TakeAnswerKeeps ==
    ASSUME RttInv, TakeAnswer
    PROVE  RttInv'
<1> USE RttConstants
<1>1. RttType /\ DatagramInv /\ EarliestInv /\ CountInv /\ AnswerInv  BY DEF RttInv
<1>2. /\ doing = "await" /\ answers # <<>> /\ answers' = Tail(answers)
      /\ got' = [about |-> Head(answers).about, id |-> id, rtt |-> Head(answers).rtt, waited |-> waited]
      /\ counted' = [counted EXCEPT !.rx = @ + 1]
      /\ Measured(TRUE)
  BY DEF TakeAnswer
<1>3. UNCHANGED <<reports, air, earliest, failed, id, queue, jobs, started, watch,
                  N_measurement_tx_cnt, N_measurement_rx_cnt, earliest_pt, printed, unserved>>
  BY DEF TakeAnswer, radio, ft
<1>4. Answered
  BY <1>1, <1>2 DEF DatagramInv, Where, Idle, InJob, ToPt, ToFt, Underway
<1>5. /\ answers \in Seq(Answers) /\ id \in Nat /\ waited \in Nat /\ counted \in Tally
      /\ earliest \in Int /\ earliest_pt \in Int /\ Air(Nat) /\ N_measurement_rx_cnt \in Nat
  BY <1>1 DEF RttType
<1>6. Len(answers) = 1 /\ answers' = <<>> /\ Head(answers) = answers[1] /\ answers[1] \in Answers
  <2>1. Len(answers) = 1 /\ answers' = Tail(answers)  BY <1>2, <1>4 DEF Answered
  <2>2. answers \in Seq(Answers)  BY <1>5
  <2> QED  BY <2>1, <2>2, OneElement
<1>7. answers[1].about \in Nat /\ answers[1].rtt \in Nat  BY <1>6 DEF Answers
<1>8. /\ waited' = 0 /\ doing' \in {"send", "pause"} /\ phase' \in {"probe", "measure", "print"}
      /\ N_measurements_cnt' \in Nat /\ rtt_success' \in Nat /\ rtt_success' <= N_measurements_cnt'
  BY <1>1, <1>2, MeasuredKeeps
<1>9. /\ got' \in Taken /\ got'.about = answers[1].about /\ got'.id = id /\ got'.rtt = answers[1].rtt
      /\ got'.waited = waited
  BY <1>2, <1>5, <1>6, <1>7 DEF Taken
<1>10. counted' \in Tally /\ counted'.rx = counted.rx + 1 /\ counted'.tx = counted.tx /\ counted.rx \in Nat
  <2>1. counted' = [counted EXCEPT !.rx = @ + 1]  BY <1>2
  <2>2. counted.rx \in Nat  BY <1>5 DEF Tally
  <2> QED  BY <2>1, <2>2, <1>5, TallyCount
<1>11. RttType'
  BY <1>1, <1>3, <1>6, <1>8, <1>9, <1>10, SameAir DEF RttType
<1>12. Idle'  BY <1>3, <1>4, <1>6 DEF Idle, Answered
<1>13. DatagramInv'  BY <1>8, <1>12 DEF DatagramInv, Where, Idle
<1>14. EarliestInv'
  <2>1. earliest_pt <= 0 /\ waited >= RoundTrip  BY <1>4, <1>5, <1>7 DEF Answered
  <2>2. earliest <= 0
    <3>1. earliest <= 0 \/ earliest + waited <= Turnaround + PacketLength  BY <1>1 DEF EarliestInv
    <3> QED  BY <3>1, <2>1, <1>5
  <2> QED  BY <2>1, <2>2, <1>3 DEF EarliestInv
<1>15. CountInv'
  <2> SUFFICES ASSUME ~unserved' PROVE CountInv'  BY DEF CountInv
  <2>1. ~unserved /\ answers[1].about = id  BY <1>3, <1>4 DEF Answered
  <2>2. Len(answers') = 0  BY <1>6
  <2> QED  BY <2>1, <2>2, <1>1, <1>3, <1>5, <1>6, <1>9, <1>10 DEF CountInv
<1>16. AnswerInv'  BY <1>4, <1>8, <1>9 DEF AnswerInv, Answered
<1> QED  BY <1>11, <1>13, <1>14, <1>15, <1>16 DEF RttInv

\* The timeout comes later than any answer.
LEMMA NoAnswerKeeps ==
    ASSUME RttInv, NoAnswer
    PROVE  RttInv'
<1> USE RttConstants
<1>1. RttType /\ DatagramInv /\ EarliestInv /\ CountInv /\ AnswerInv  BY DEF RttInv
<1>2. doing = "await" /\ answers = <<>> /\ waited = Timeout /\ Measured(FALSE)  BY DEF NoAnswer
<1>3. UNCHANGED <<reports, air, earliest, failed, id, got, queue, jobs, started, watch, answers, counted,
                  N_measurement_tx_cnt, N_measurement_rx_cnt, earliest_pt, printed, unserved>>
  BY DEF NoAnswer, radio, ft
<1>4. Air(Nat) /\ earliest \in Int /\ earliest_pt \in Int  BY <1>1 DEF RttType
<1>5. ~ToPt /\ ~ToFt
  <2> SUFFICES ASSUME ToPt \/ ToFt PROVE FALSE  OBVIOUS
  <2>1. Len(air) = 1 /\ air \in Seq(Packets(Nat))  BY <1>4 DEF ToPt, ToFt, Underway, Air
  <2>2. air[1] \in Packets(Nat) /\ 1 \in DOMAIN air  BY <2>1
  <2>3. air[1].at \in Int /\ air[1].at + PacketLength >= -Lag  BY <2>2, <1>4 DEF Packets, Air
  <2>4. air[1].at + waited <= 2 * Turnaround + PacketLength + Lag  BY <2>3, <1>2 DEF ToPt, ToFt
  <2>5. air[1].at + Timeout <= 2 * Turnaround + PacketLength + Lag  BY <2>4, <1>2
  <2> QED  BY <2>3, <2>5
<1>6. Idle
  BY <1>1, <1>2, <1>5 DEF DatagramInv, Where, InJob, Answered
<1>7. /\ waited' = 0 /\ doing' \in {"send", "pause"} /\ phase' \in {"probe", "measure", "print"}
      /\ N_measurements_cnt' \in Nat /\ rtt_success' \in Nat /\ rtt_success' <= N_measurements_cnt'
      /\ rtt_success' > 0 => rtt_success > 0
  BY <1>1, <1>2, MeasuredKeeps
<1>8. RttType'  BY <1>1, <1>3, <1>7, SameAir DEF RttType
<1>9. DatagramInv'  BY <1>3, <1>6, <1>7 DEF DatagramInv, Where, Idle
<1>10. EarliestInv'
  <2>1. earliest <= 0 \/ earliest + waited <= Turnaround + PacketLength  BY <1>1 DEF EarliestInv
  <2>2. earliest_pt <= 0 \/ earliest_pt + waited <= RoundTrip + Lag  BY <1>1 DEF EarliestInv
  <2>3. earliest <= 0 /\ earliest_pt <= 0  BY <2>1, <2>2, <1>2, <1>4
  <2> QED  BY <2>3, <1>3 DEF EarliestInv
<1>11. CountInv'  BY <1>1, <1>3 DEF CountInv
<1>12. AnswerInv'  BY <1>1, <1>3, <1>7 DEF AnswerInv
<1> QED  BY <1>8, <1>9, <1>10, <1>11, <1>12 DEF RttInv

LEMMA EndPauseKeeps ==
    ASSUME RttInv, EndPause
    PROVE  RttInv'
<1> USE RttConstants
<1>1. RttType /\ DatagramInv /\ EarliestInv /\ CountInv /\ AnswerInv  BY DEF RttInv
<1>2. doing = "pause" /\ waited = Pause /\ doing' = "send"  BY DEF EndPause
<1>3. UNCHANGED <<reports, air, earliest, failed, phase, id, waited, N_measurements_cnt, rtt_success, got,
                  queue, jobs, started, watch, N_measurement_tx_cnt, N_measurement_rx_cnt, earliest_pt,
                  answers, counted, printed, unserved>>
  BY DEF EndPause, radio, ft
<1>4. Idle  BY <1>1, <1>2 DEF DatagramInv, Where, Idle
<1>5. RttType'  BY <1>1, <1>2, <1>3, SameAir DEF RttType
<1>6. DatagramInv'  BY <1>2, <1>3, <1>4 DEF DatagramInv, Where, Idle
<1>7. EarliestInv'  BY <1>1, <1>2, <1>3 DEF EarliestInv
<1>8. CountInv'  BY <1>1, <1>3 DEF CountInv
<1>9. AnswerInv'  BY <1>1, <1>3 DEF AnswerInv
<1> QED  BY <1>5, <1>6, <1>7, <1>8, <1>9 DEF RttInv

LEMMA SendPrintKeeps ==
    ASSUME RttInv, SendPrint
    PROVE  RttInv'
<1> USE RttConstants
<1>1. RttType /\ DatagramInv /\ EarliestInv /\ CountInv /\ AnswerInv  BY DEF RttInv
<1>2. /\ doing = "send" /\ jobs' = Append(jobs, 1)
      /\ failed' = IF rtt_success <= N_measurements_cnt /\ (rtt_success > 0 => got.rtt > 0) THEN failed
                   ELSE "analyze"
      /\ phase' = "measure" /\ doing' = "pause" /\ waited' = 0
      /\ N_measurements_cnt' = 0 /\ rtt_success' = 0
  BY DEF SendPrint
<1>3. UNCHANGED <<reports, air, earliest, id, got, queue, started, watch, N_measurement_tx_cnt,
                  N_measurement_rx_cnt, earliest_pt, answers, counted, printed, unserved>>
  BY DEF SendPrint
<1>4. Idle /\ jobs' = <<1>>  BY <1>1, <1>2 DEF DatagramInv, Where, Idle
<1>5. failed' = failed
  <2>1. got.rtt \in Nat /\ rtt_success \in Nat  BY <1>1 DEF RttType, Taken
  <2> QED  BY <2>1, <1>1, <1>2 DEF AnswerInv
<1>6. RttType'  BY <1>1, <1>2, <1>3, <1>4, <1>5, SameAir DEF RttType
<1>7. DatagramInv'  BY <1>2, <1>3, <1>4 DEF DatagramInv, Where, Idle
<1>8. EarliestInv'  BY <1>1, <1>2, <1>3 DEF EarliestInv
<1>9. CountInv'  BY <1>1, <1>3, <1>4 DEF CountInv, Idle
<1>10. AnswerInv'
  <2>1. got.id \in Nat /\ got.waited \in Nat  BY <1>1 DEF RttType, Taken
  <2> QED  BY <2>1, <1>1, <1>2, <1>3 DEF AnswerInv
<1> QED  BY <1>6, <1>7, <1>8, <1>9, <1>10 DEF RttInv

\* A job exists only once the queue has become permeable.
LEMMA StartKeeps ==
    ASSUME RttInv, Start
    PROVE  RttInv'
<1> USE RttConstants
<1>1. RttType /\ DatagramInv /\ EarliestInv /\ CountInv /\ AnswerInv  BY DEF RttInv
<1>2. \/ started = "no" /\ started' = "cleared" /\ queue' = <<>>
      \/ started = "cleared" /\ started' = "permeable" /\ queue' = queue
  BY DEF Start
<1>3. UNCHANGED <<reports, air, earliest, failed, phase, doing, id, waited, N_measurements_cnt, rtt_success,
                  got, jobs, watch, N_measurement_tx_cnt, N_measurement_rx_cnt, earliest_pt, answers,
                  counted, printed, unserved>>
  BY DEF Start, radio, program
<1>4. started # "permeable" /\ ~InJob  BY <1>2 DEF InJob
<1>5. queue' \in Seq(Nat)
  <2>1. queue' = <<>> \/ queue' = queue  BY <1>2
  <2>2. queue \in Seq(Nat)  BY <1>1 DEF RttType
  <2>3. <<>> \in Seq(Nat)  OBVIOUS
  <2> QED  BY <2>1, <2>2, <2>3
<1>6. RttType'  BY <1>1, <1>2, <1>3, <1>5, SameAir DEF RttType
<1>7. DatagramInv'
  BY <1>1, <1>3, <1>4 DEF DatagramInv, Where, Idle, ToPt, ToFt, Underway, Answered
<1>8. EarliestInv'  BY <1>1, <1>3 DEF EarliestInv
<1>9. CountInv'  BY <1>1, <1>2, <1>3 DEF CountInv
<1>10. AnswerInv'  BY <1>1, <1>3 DEF AnswerInv
<1> QED  BY <1>6, <1>7, <1>8, <1>9, <1>10 DEF RttInv

\* Only a datagram awaited has its job, and nothing else is underway then.
LEMMA JobOfDatagram ==
    ASSUME RttInv, jobs # <<>>, Head(jobs) = 0
    PROVE  doing = "await" /\ InJob
<1>1. Where  BY DEF RttInv, DatagramInv
<1>2. jobs = <<1>> => Head(jobs) = 1  OBVIOUS
<1> QED  BY <1>1, <1>2 DEF RttInv, RttType, Where, Idle, ToPt, ToFt, Underway, Answered

LEMMA ApplicationJobKeeps ==
    ASSUME RttInv, ApplicationJob
    PROVE  RttInv'
<1> USE RttConstants
<1>1. RttType /\ DatagramInv /\ EarliestInv /\ CountInv /\ AnswerInv  BY DEF RttInv
<1>2. /\ jobs # <<>> /\ Head(jobs) = 0 /\ jobs' = Tail(jobs) /\ watch' = 0
      /\ N_measurement_tx_cnt' = N_measurement_tx_cnt + 1
  BY DEF ApplicationJob, watch_reset
<1>3. UNCHANGED <<reports, phase, doing, id, waited, N_measurements_cnt, rtt_success, got, started,
                  N_measurement_rx_cnt, earliest_pt, answers, counted, printed, unserved>>
  BY DEF ApplicationJob, program
<1>4. doing = "await" /\ InJob  BY <1>2, JobOfDatagram
<1>5. jobs' = <<>>
  <2>1. jobs = <<0>>  BY <1>4 DEF InJob
  <2> QED  BY <2>1, <1>2
<1>6. queue \in Seq(Nat) /\ queue # <<>>  BY <1>1, <1>4 DEF RttType, InJob
<1>7. Head(queue) \in Nat /\ Tail(queue) \in Seq(Nat)  BY <1>6, HeadTailProperties
<1>8. ~unserved => Head(queue) = id /\ Tail(queue) = <<>>
  <2>1. ~unserved => queue = <<id>>  BY <1>4 DEF InJob
  <2>2. Head(<<id>>) = id /\ Tail(<<id>>) = <<>>  OBVIOUS
  <2> QED  BY <2>1, <2>2
<1>9. air = <<>> /\ answers = <<>> /\ waited = 0 /\ started = "permeable" /\ earliest <= 0 /\ earliest_pt <= 0
  BY <1>4 DEF InJob
<1>10. asap = Turnaround
  <2>1. earliest \in Int  BY <1>1 DEF RttType
  <2> QED  BY <2>1, <1>9 DEF asap, asapAfter
<1> DEFINE p == buffer_tx_meta_t(1, Turnaround, "ft", Head(queue))
<1>11. queue' = Tail(queue) /\ Generate(1, <<p>>) /\ earliest' = Turnaround + PacketLength /\ failed' = failed
  <2>1. Available(1) > 0  BY <1>9, AllAvailable
  <2>2. Available(1) # 0  BY <2>1
  <2> QED  BY <2>2, <1>6, <1>10 DEF ApplicationJob
<1>12. /\ p \in Packets(Nat) /\ p.radio = 1 /\ p.at = Turnaround /\ p.ahead = Turnaround
       /\ p.tag = Head(queue)
  BY <1>7 DEF buffer_tx_meta_t, Packets
<1> HIDE DEF p
<1>13. air' = <<p>>
  <2>1. <<p>> \in Seq(Packets(Nat)) /\ Len(<<p>>) = 1 /\ <<p>>[1] = p /\ <<p>> # <<>>  BY <1>12
  <2>2. /\ air' \in Seq(Packets(Nat)) /\ Len(air') \in 1..Len(<<p>>)
        /\ \A k \in DOMAIN air' : air'[k] = <<p>>[k]
    BY <2>1, <1>9, <1>11, GenerateFirst
  <2>3. Len(air') = 1 /\ DOMAIN air' = 1..1  BY <2>1, <2>2
  <2> QED  BY <2>1, <2>2, <2>3, SeqEqual
<1>14. Len(air') = 1 /\ air'[1] = p  BY <1>13
<1>15. Air(Nat)'  BY <1>12, <1>13, OnePacket
<1>16. RttType'
  <2>1. jobs' \in Seq({0, 1}) /\ queue' \in Seq(Nat)  BY <1>5, <1>7, <1>11, EmptySeq
  <2>2. watch' \in Nat /\ N_measurement_tx_cnt' \in Nat /\ earliest' \in Int
    BY <1>1, <1>2, <1>11 DEF RttType
  <2> QED  BY <2>1, <2>2, <1>1, <1>3, <1>11, <1>15 DEF RttType
<1>17. ToPt'
  BY <1>2, <1>3, <1>5, <1>8, <1>9, <1>12, <1>14 DEF ToPt, Underway
<1>18. DatagramInv'  BY <1>1, <1>3, <1>4, <1>17 DEF DatagramInv, Where
<1>19. EarliestInv'  BY <1>3, <1>4, <1>9, <1>11 DEF EarliestInv
<1>20. CountInv'
  <2> SUFFICES ASSUME ~unserved' PROVE CountInv'  BY DEF CountInv
  <2>1. jobs = <<0>> /\ jobs' # <<0>>  BY <1>4, <1>5 DEF InJob
  <2>2. ~unserved /\ queue' = <<>>  BY <1>3, <1>8, <1>11
  <2>3. N_measurement_tx_cnt = counted.tx - 1  BY <2>1, <2>2, <1>1 DEF CountInv
  <2>4. N_measurement_tx_cnt' = counted'.tx
    <3>1. counted.tx \in Nat  BY <1>1 DEF RttType, Tally
    <3> QED  BY <3>1, <2>3, <1>2, <1>3
  <2>5. counted'.tx - 0 = counted'.tx
    <3>1. counted.tx \in Nat  BY <1>1 DEF RttType, Tally
    <3> QED  BY <3>1, <1>3
  <2> QED  BY <2>1, <2>2, <2>4, <2>5, <1>1, <1>3 DEF CountInv
<1>21. AnswerInv'  BY <1>1, <1>3 DEF AnswerInv
<1> QED  BY <1>16, <1>18, <1>19, <1>20, <1>21 DEF RttInv

\* The counts are printed and reset while no datagram is underway.
LEMMA PrintJobKeeps ==
    ASSUME RttInv, PrintJob
    PROVE  RttInv'
<1> USE RttConstants
<1>1. RttType /\ DatagramInv /\ EarliestInv /\ CountInv /\ AnswerInv  BY DEF RttInv
<1>2. /\ jobs # <<>> /\ Head(jobs) = 1 /\ jobs' = Tail(jobs) /\ counted' = Zero
      /\ N_measurement_tx_cnt' = 0 /\ N_measurement_rx_cnt' = 0
  BY DEF PrintJob
<1>3. printed' = [is |-> [tx |-> N_measurement_tx_cnt, rx |-> N_measurement_rx_cnt], ought |-> counted]
  BY DEF PrintJob
<1>4. UNCHANGED <<reports, air, earliest, failed, phase, doing, id, waited, N_measurements_cnt, rtt_success, got,
                  queue, started, watch, earliest_pt, answers, unserved>>
  BY DEF PrintJob, radio, program
<1>5. doing = "pause" /\ jobs = <<1>>
  <2>1. Where /\ jobs # <<>>  BY <1>1, <1>2 DEF DatagramInv
  <2>2. jobs = <<0>> => Head(jobs) = 0  OBVIOUS
  <2> QED  BY <2>1, <2>2, <1>1, <1>2 DEF RttType, Where, Idle, InJob, ToPt, ToFt, Underway, Answered
<1>6. jobs' = <<>> /\ jobs # <<0>>
  <2>1. Head(<<0>>) = 0  OBVIOUS
  <2> QED  BY <2>1, <1>2, <1>5
<1>7. air = <<>> /\ answers = <<>>  BY <1>1, <1>5 DEF DatagramInv, Where
<1>8. counted \in Tally /\ Zero \in Tally  BY <1>1 DEF RttType, Tally, Zero
<1>9. RttType'
  <2>1. jobs' \in Seq({0, 1})  BY <1>6, EmptySeq
  <2>2. 0 \in Nat  OBVIOUS
  <2> QED  BY <2>1, <2>2, <1>1, <1>2, <1>4, <1>8, SameAir DEF RttType
<1>10. DatagramInv'  BY <1>1, <1>4, <1>5, <1>6, <1>7 DEF DatagramInv, Where
<1>11. EarliestInv'  BY <1>1, <1>4 DEF EarliestInv
<1>12. CountInv'
  <2> SUFFICES ASSUME ~unserved' PROVE CountInv'  BY DEF CountInv
  <2>1. Len(answers) = 0 /\ Len(answers') = 0 /\ jobs' # <<0>>  BY <1>4, <1>6, <1>7
  <2>2. counted.tx \in Nat /\ counted.rx \in Nat /\ Zero.tx = 0 /\ Zero.rx = 0
    BY <1>8 DEF Tally, Zero
  <2>3. N_measurement_tx_cnt = counted.tx /\ N_measurement_rx_cnt = counted.rx
    BY <2>1, <2>2, <1>1, <1>4, <1>6 DEF CountInv
  <2>4. counted = [tx |-> counted.tx, rx |-> counted.rx]  BY <1>8 DEF Tally
  <2>5. printed'.is = printed'.ought  BY <2>3, <2>4, <1>3
  <2> QED  BY <2>1, <2>2, <2>5, <1>1, <1>2, <1>4, <1>6 DEF CountInv
<1>13. AnswerInv'  BY <1>1, <1>4 DEF AnswerInv
<1> QED  BY <1>9, <1>10, <1>11, <1>12, <1>13 DEF RttInv

\* A packet in the air is that of the datagram awaited.
LEMMA PacketOfDatagram ==
    ASSUME RttInv, NEW i \in DOMAIN air
    PROVE  /\ doing = "await" /\ (ToPt \/ ToFt) /\ i = 1 /\ Len(air) = 1 /\ DOMAIN air = {1}
           /\ air \in Seq(Packets(Nat)) /\ air[1] \in Packets(Nat)
           /\ air[1].at \in Int /\ air[1].tag \in Nat /\ air[1].at + PacketLength >= -Lag
<1>1. air \in Seq(Packets(Nat)) /\ Air(Nat)  BY DEF RttInv, RttType, Air
<1>2. air # <<>>  OBVIOUS
<1>3. doing = "await" /\ (ToPt \/ ToFt)
  BY <1>2 DEF RttInv, RttType, DatagramInv, Where, Idle, InJob, Answered
<1>4. Len(air) = 1  BY <1>3 DEF ToPt, ToFt, Underway
<1>5. air[1] \in Packets(Nat) /\ DOMAIN air = {1}  BY <1>1, <1>4, OneElement
<1>6. air[1].at \in Int /\ air[1].tag \in Nat  BY <1>5 DEF Packets
<1>7. air[1].at + PacketLength >= -Lag  BY <1>1, <1>5 DEF Air
<1> QED  BY <1>1, <1>3, <1>4, <1>5, <1>6, <1>7

LEMMA RttPccKeeps ==
    ASSUME RttInv, NEW i \in DOMAIN air, RttPcc(i)
    PROVE  RttInv'
<1> USE RttConstants
<1>1. RttType /\ DatagramInv /\ EarliestInv /\ CountInv /\ AnswerInv  BY DEF RttInv
<1>2. Drop(i) \/ Proceed(i)  BY DEF RttPcc
<1>3. UNCHANGED <<reports, earliest, failed, phase, doing, id, waited, N_measurements_cnt, rtt_success, got,
                  queue, jobs, started, watch, N_measurement_tx_cnt, N_measurement_rx_cnt, earliest_pt,
                  answers, counted, printed, unserved>>
  BY DEF RttPcc, rtt, program, ft
<1>4. doing = "await" /\ (ToPt \/ ToFt) /\ i = 1 /\ Len(air) = 1 /\ DOMAIN air = {1}
  BY PacketOfDatagram
<1>5. Air(Nat)  BY <1>1 DEF RttType
<1>6. Air(Nat)' /\ (Idle \/ ToPt \/ ToFt)'
  <2>1. CASE Drop(i)
    <3>1. Air(Nat)' /\ Len(air') = 0  BY <2>1, <1>4, <1>5, DropPacket
    <3>2. air' = <<>>
      <4>1. air' \in Seq(Packets(Nat))  BY <3>1 DEF Air
      <4> QED  BY <3>1, <4>1, EmptySeq
    <3>3. jobs = <<>> /\ answers = <<>>  BY <1>4 DEF ToPt, ToFt, Underway
    <3>4. Idle'  BY <3>2, <3>3, <1>3 DEF Idle
    <3> QED  BY <3>1, <3>4
  <2>2. CASE Proceed(i)
    <3>1. /\ Air(Nat)' /\ Len(air') = Len(air)
          /\ air'[1].radio = air[1].radio /\ air'[1].at = air[1].at /\ air'[1].tag = air[1].tag
      BY <2>2, <1>4, <1>5, ProceedPacket
    <3>2. ToPt => ToPt'  BY <3>1, <1>3 DEF ToPt, Underway
    <3>3. ToFt => ToFt'  BY <3>1, <1>3 DEF ToFt, Underway
    <3> QED  BY <3>1, <3>2, <3>3, <1>4
  <2> QED  BY <2>1, <2>2, <1>2
<1>7. RttType'  BY <1>1, <1>3, <1>6 DEF RttType
<1>8. DatagramInv'  BY <1>1, <1>3, <1>4, <1>6 DEF DatagramInv, Where
<1>9. EarliestInv'  BY <1>1, <1>3 DEF EarliestInv
<1>10. CountInv'  BY <1>1, <1>3 DEF CountInv
<1>11. AnswerInv'  BY <1>1, <1>3 DEF AnswerInv
<1> QED  BY <1>7, <1>8, <1>9, <1>10, <1>11 DEF RttInv

\* The FT hands the datagram to the program with the time since it was sent.
LEMMA FtPdcKeeps ==
    ASSUME RttInv, NEW i \in DOMAIN air, FtPdc(i)
    PROVE  RttInv'
<1> USE RttConstants
<1>1. RttType /\ DatagramInv /\ EarliestInv /\ CountInv /\ AnswerInv  BY DEF RttInv
<1>2. /\ air[i].radio = 2 /\ air[i].at + PacketLength <= 0 /\ Drop(i)
      /\ answers' = Append(answers, [about |-> air[i].tag, rtt |-> watch])
      /\ N_measurement_rx_cnt' = N_measurement_rx_cnt + 1
  BY DEF FtPdc, NextPdc
<1>3. UNCHANGED <<reports, earliest, failed, phase, doing, id, waited, N_measurements_cnt, rtt_success, got,
                  queue, jobs, started, watch, N_measurement_tx_cnt, earliest_pt, counted, printed, unserved>>
  BY DEF FtPdc, program
<1>4. /\ doing = "await" /\ (ToPt \/ ToFt) /\ i = 1 /\ Len(air) = 1 /\ DOMAIN air = {1}
      /\ air[1].at \in Int /\ air[1].tag \in Nat
  BY PacketOfDatagram
<1>5. ToFt  BY <1>2, <1>4, SMTT(60) DEF ToPt
<1>6. Underway /\ watch = waited /\ answers = <<>> /\ jobs = <<>> /\ (~unserved => air[1].tag = id)
  BY <1>5 DEF ToFt, Underway
<1>7. Air(Nat) /\ watch \in Nat /\ waited \in Nat /\ earliest_pt \in Int  BY <1>1 DEF RttType
<1>8. Air(Nat)' /\ air' = <<>>
  <2>1. Air(Nat)' /\ Len(air') = 0  BY <1>2, <1>4, <1>7, DropPacket
  <2>2. air' \in Seq(Packets(Nat))  BY <2>1 DEF Air
  <2> QED  BY <2>1, <2>2, EmptySeq
<1> DEFINE a == [about |-> air[1].tag, rtt |-> watch]
<1>9. a \in Answers /\ a.about = air[1].tag /\ a.rtt = watch  BY <1>4, <1>7 DEF Answers
<1>10. answers' = Append(answers, a)  BY <1>2, <1>4
<1> HIDE DEF a
<1>11. answers' = <<a>> /\ answers' \in Seq(Answers)
  <2>1. answers \in Seq(Answers)  BY <1>1 DEF RttType
  <2> QED  BY <2>1, <1>6, <1>9, <1>10, AppendElement
<1>12. Len(answers') = 1 /\ answers'[1] = a  BY <1>11
<1>13. watch >= RoundTrip /\ earliest_pt <= 0
  <2>1. /\ air[1].at + waited >= 2 * Turnaround + PacketLength /\ air[1].at + PacketLength <= 0
        /\ earliest_pt <= 0 \/ earliest_pt <= air[1].at + PacketLength
    BY <1>2, <1>4, <1>5 DEF ToFt
  <2>2. air[1].at \in Int  BY <1>4
  <2>3. waited >= 2 * Turnaround + PacketLength + PacketLength  BY <2>1, <2>2, <1>7
  <2>4. earliest_pt <= 0  BY <2>1, <2>2, <1>7
  <2> QED  BY <2>3, <2>4, <1>6
<1>14. RttType'
  <2>1. N_measurement_rx_cnt' \in Nat  BY <1>1, <1>2 DEF RttType
  <2> QED  BY <2>1, <1>1, <1>3, <1>8, <1>11 DEF RttType
<1>15. Answered'
  <2>1. a.rtt <= waited /\ a.rtt >= RoundTrip  BY <1>6, <1>7, <1>9, <1>13
  <2> QED  BY <2>1, <1>3, <1>6, <1>8, <1>9, <1>12, <1>13 DEF Answered
<1>16. DatagramInv'  BY <1>1, <1>3, <1>4, <1>15 DEF DatagramInv, Where
<1>17. EarliestInv'  BY <1>1, <1>3 DEF EarliestInv
<1>18. CountInv'
  <2> SUFFICES ASSUME ~unserved' PROVE CountInv'  BY DEF CountInv
  <2>1. counted.rx \in Nat /\ Len(answers) = 0  BY <1>1, <1>6 DEF RttType, Tally
  <2>2. N_measurement_rx_cnt = counted.rx  BY <2>1, <1>1, <1>3 DEF CountInv
  <2>3. N_measurement_rx_cnt' = counted'.rx + Len(answers')  BY <2>1, <2>2, <1>2, <1>3, <1>12
  <2> QED  BY <2>3, <1>1, <1>3 DEF CountInv
<1>19. AnswerInv'  BY <1>1, <1>3 DEF AnswerInv
<1> QED  BY <1>14, <1>16, <1>17, <1>18, <1>19 DEF RttInv

\* The PT sends the datagram back as soon as it can.
LEMMA PtPdcKeeps ==
    ASSUME RttInv, NEW i \in DOMAIN air, PtPdc(i)
    PROVE  RttInv'
<1> USE RttConstants
<1>1. RttType /\ DatagramInv /\ EarliestInv /\ CountInv /\ AnswerInv  BY DEF RttInv
<1>2. /\ doing = "await" /\ (ToPt \/ ToFt) /\ i = 1 /\ Len(air) = 1 /\ DOMAIN air = {1}
      /\ air \in Seq(Packets(Nat))
      /\ air[1].at \in Int /\ air[1].tag \in Nat /\ air[1].at + PacketLength >= -Lag
  BY PacketOfDatagram
<1>3. air[1].radio = 1 /\ air[1].at + PacketLength <= 0  BY <1>2 DEF PtPdc, NextPdc
<1>4. UNCHANGED <<reports, earliest, failed, phase, doing, id, waited, N_measurements_cnt, rtt_success, got,
                  queue, jobs, started, watch, N_measurement_tx_cnt, N_measurement_rx_cnt, answers, counted,
                  printed, unserved>>
  BY DEF PtPdc, program, ft
<1>5. ToPt  BY <1>2, <1>3 DEF ToFt
<1>6. /\ air[1].at + waited = Turnaround /\ earliest_pt <= 0 /\ jobs = <<>> /\ answers = <<>>
      /\ watch = waited /\ (~unserved => air[1].tag = id)
  BY <1>5 DEF ToPt, Underway
<1>7. waited \in Nat /\ earliest_pt \in Int /\ earliest \in Int  BY <1>1 DEF RttType
<1>8. waited >= Turnaround + PacketLength /\ waited <= Turnaround + PacketLength + Lag
  <2>1. /\ air[1].at \in Int /\ air[1].at + PacketLength >= -Lag /\ air[1].at + PacketLength <= 0
        /\ air[1].at + waited = Turnaround
    BY <1>2, <1>3, <1>6
  <2> QED  BY <2>1, <1>7
<1>9. asapAfter(earliest_pt) = Turnaround  BY <1>6, <1>7 DEF asapAfter
<1>10. Available(2) > 0
  <2>1. {k \in DOMAIN air : air[k].radio = 2 /\ air[k].at > 0} = {}  BY <1>2, <1>3
  <2>2. Cardinality({k \in DOMAIN air : air[k].radio = 2 /\ air[k].at > 0}) = 0
    BY <2>1, FS_EmptySet
  <2>3. Available(2) = NofProcesses - 0  BY <2>2 DEF Available
  <2> QED  BY <2>3, RadioAssumption
<1> DEFINE q == buffer_tx_meta_t(2, Turnaround, "pt", air[1].tag)
<1>11. <<q>> # <<>>
  <2>1. Len(<<q>>) = 1 /\ Len(<<>>) = 0  OBVIOUS
  <2> QED  BY <2>1
<1>12. air' = RemoveAt(air, 1) \o <<q>> /\ earliest_pt' = Turnaround + PacketLength
  BY <1>2, <1>9, <1>10, <1>11 DEF PtPdc
<1>13. /\ q \in Packets(Nat) /\ q.radio = 2 /\ q.at = Turnaround /\ q.ahead = Turnaround
       /\ q.tag = air[1].tag
  BY <1>2 DEF buffer_tx_meta_t, Packets
<1> HIDE DEF q
<1>14. air' = <<q>>
  <2>1. RemoveAt(air, 1) \in Seq(Packets(Nat)) /\ Len(RemoveAt(air, 1)) = 0
    <3>1. 1 \in 1..Len(air) /\ air \in Seq(Packets(Nat)) /\ Len(air) = 1  BY <1>2
    <3>2. /\ RemoveAt(air, 1) \in Seq(Packets(Nat))
          /\ Len(RemoveAt(air, 1)) = Len(air) - 1
      BY <3>1, RemoveAtElements
    <3> QED  BY <3>1, <3>2
  <2>2. RemoveAt(air, 1) = <<>>  BY <2>1, EmptySeq
  <2>3. <<q>> \in Seq(Packets(Nat))  BY <1>13
  <2> QED  BY <2>2, <2>3, <1>12, ConcatEmptySeq
<1>15. Len(air') = 1 /\ air'[1] = q  BY <1>14
<1>16. Air(Nat)'  BY <1>13, <1>14, OnePacket
<1>17. RttType'
  <2>1. earliest_pt' \in Int  BY <1>12
  <2> QED  BY <2>1, <1>1, <1>4, <1>16 DEF RttType
<1>18. ToFt'
  <2>1. Underway'  BY <1>4, <1>6, <1>13, <1>15 DEF Underway
  <2>2. air'[1].radio = 2 /\ air'[1].at = Turnaround /\ waited' = waited
    BY <1>4, <1>13, <1>15
  <2>3. /\ Turnaround + waited >= 2 * Turnaround + PacketLength
        /\ Turnaround + waited <= 2 * Turnaround + PacketLength + Lag
    BY <1>7, <1>8
  <2>4. /\ air'[1].at + waited' >= 2 * Turnaround + PacketLength
        /\ air'[1].at + waited' <= 2 * Turnaround + PacketLength + Lag
        /\ earliest_pt' <= air'[1].at + PacketLength
    BY <2>2, <2>3, <1>12
  <2> QED  BY <2>1, <2>2, <2>4 DEF ToFt
<1>19. DatagramInv'  BY <1>1, <1>2, <1>4, <1>18 DEF DatagramInv, Where
<1>20. EarliestInv'  BY <1>1, <1>2, <1>4, <1>7, <1>8, <1>12, SMTT(60) DEF EarliestInv
<1>21. CountInv'  BY <1>1, <1>4 DEF CountInv
<1>22. AnswerInv'  BY <1>1, <1>4 DEF AnswerInv
<1> QED  BY <1>17, <1>19, <1>20, <1>21, <1>22 DEF RttInv

LEMMA SoonerByOne ==
    ASSUME NEW e \in Int, NEW f \in Int, NEW w \in Nat, NEW b \in Nat,
           e <= 0 => f <= 0, e > 0 => f = e - 1, e <= 0 \/ e + w <= b
    PROVE  f <= 0 \/ f + (w + 1) <= b
OBVIOUS

\* The packet and the stopwatch of the FT move on together.
LEMMA RttTimeKeeps ==
    ASSUME RttInv, RttTime
    PROVE  RttInv'
<1> USE RttConstants
<1>1. RttType /\ DatagramInv /\ EarliestInv /\ CountInv /\ AnswerInv  BY DEF RttInv
<1>2. /\ PassTime /\ jobs = <<>> /\ doing # "send"
      /\ ~(doing = "await" /\ (answers # <<>> \/ waited = Timeout)) /\ ~(doing = "pause" /\ waited = Pause)
      /\ waited' = waited + 1 /\ watch' = (IF watch > Timeout THEN watch ELSE watch + 1)
      /\ earliest_pt' = Earlier(earliest_pt, -1)
  BY DEF RttTime
<1>3. UNCHANGED <<phase, doing, id, N_measurements_cnt, rtt_success, got, queue, jobs, started,
                  N_measurement_tx_cnt, N_measurement_rx_cnt, answers, counted, printed, unserved>>
  BY DEF RttTime
<1>4. earliest' = Earlier(earliest, -1) /\ failed' = failed  BY <1>2 DEF PassTime
<1>5. reports' = {}
  <2>1. reports = {}  BY <1>1 DEF RttType
  <2> QED  BY <2>1, <1>2 DEF PassTime
<1>6. waited \in Nat /\ watch \in Nat /\ earliest \in Int /\ earliest_pt \in Int /\ Air(Nat)
  BY <1>1 DEF RttType
<1>7. /\ Air(Nat)' /\ Len(air') = Len(air) /\ DOMAIN air' = DOMAIN air
      /\ \A k \in DOMAIN air : /\ air'[k].radio = air[k].radio /\ air'[k].at = air[k].at - 1
                               /\ air'[k].tag = air[k].tag
  BY <1>2, <1>6, TimePackets
<1>8. air = <<>> => air' = <<>>
  <2>1. air' \in Seq(Packets(Nat))  BY <1>7 DEF Air
  <2> QED  BY <2>1, <1>7, EmptySeq
<1>9. /\ earliest_pt' \in Int /\ (earliest_pt <= 0 => earliest_pt' <= 0)
      /\ earliest_pt > 0 => earliest_pt' = earliest_pt - 1
  BY <1>2, <1>6 DEF Earlier
<1>10. /\ earliest' \in Int /\ (earliest <= 0 => earliest' <= 0)
       /\ earliest > 0 => earliest' = earliest - 1
  BY <1>4, <1>6 DEF Earlier
<1>11. RttType'
  <2>1. waited' \in Nat /\ watch' \in Nat  BY <1>2, <1>6
  <2> QED  BY <2>1, <1>1, <1>3, <1>4, <1>5, <1>7, <1>9, <1>10 DEF RttType
<1>12. DatagramInv'
  <2>1. doing = "await" \/ doing = "pause"  BY <1>1, <1>2 DEF RttType
  <2>2. CASE doing = "pause"
    <3>1. waited' <= Pause  BY <2>2, <1>1, <1>2, <1>6 DEF DatagramInv
    <3>2. Where'  BY <2>2, <1>1, <1>2, <1>3, <1>8 DEF DatagramInv, Where
    <3> QED  BY <3>1, <3>2, <2>2, <1>1, <1>3 DEF DatagramInv
  <2>3. CASE doing = "await"
    <3>1. waited < Timeout /\ answers = <<>>  BY <2>3, <1>1, <1>2, <1>6 DEF DatagramInv
    <3>2. Idle \/ ToPt \/ ToFt
      <4>1. Len(answers) = 0 /\ jobs # <<0>>  BY <3>1, <1>2
      <4> QED  BY <4>1, <2>3, <1>1 DEF DatagramInv, Where, InJob, Answered
    <3>3. Idle => Idle'  BY <1>3, <1>8 DEF Idle
    <3>4. ASSUME Underway PROVE Underway' /\ air[1].at \in Int /\ air'[1].at = air[1].at - 1
                                /\ air'[1].radio = air[1].radio
      <4>1. 1 \in DOMAIN air /\ air[1].at \in Int
        <5>1. Len(air) = 1 /\ air \in Seq(Packets(Nat))  BY <3>4, <1>6 DEF Underway, Air
        <5>2. 1 \in DOMAIN air /\ air[1] \in Packets(Nat)  BY <5>1, OneElement
        <5> QED  BY <5>2 DEF Packets
      <4>2. watch' = waited'  BY <3>1, <3>4, <1>2, <1>6 DEF Underway
      <4> QED  BY <4>1, <4>2, <3>4, <1>3, <1>7 DEF Underway
    <3>5. ToPt => ToPt'
      <4> SUFFICES ASSUME ToPt PROVE ToPt'  OBVIOUS
      <4>1. Underway /\ air[1].radio = 1 /\ air[1].at + waited = Turnaround /\ earliest_pt <= 0
        BY DEF ToPt
      <4>2. air'[1].at + waited' = Turnaround  BY <4>1, <3>4, <1>2, <1>6
      <4> QED  BY <4>1, <4>2, <3>4, <1>9 DEF ToPt
    <3>6. ToFt => ToFt'
      <4> SUFFICES ASSUME ToFt PROVE ToFt'  OBVIOUS
      <4>1. Underway /\ air[1].radio = 2 /\ (earliest_pt <= 0 \/ earliest_pt <= air[1].at + PacketLength)
        BY DEF ToFt
      <4>2. air'[1].at + waited' = air[1].at + waited  BY <4>1, <3>4, <1>2, <1>6, SMTT(30)
      <4>3. earliest_pt' <= 0 \/ earliest_pt' <= air'[1].at + PacketLength
        <5>1. earliest_pt \in Int  BY <1>6
        <5> QED  BY <5>1, <4>1, <3>4, <1>9
      <4> QED  BY <4>1, <4>2, <4>3, <3>4 DEF ToFt
    <3>7. Where'  BY <3>2, <3>3, <3>5, <3>6, <2>3, <1>3 DEF Where
    <3>8. waited' <= Timeout  BY <3>1, <1>2, <1>6
    <3> QED  BY <3>7, <3>8, <2>3, <1>1, <1>3 DEF DatagramInv
  <2> QED  BY <2>1, <2>2, <2>3
<1>13. EarliestInv'
  <2>1. waited' = waited + 1 /\ doing' = doing /\ waited \in Nat  BY <1>2, <1>3, <1>6
  <2>2. earliest' <= 0 \/ (doing' = "await" /\ earliest' + waited' <= Turnaround + PacketLength)
    <3>1. earliest <= 0 \/ (doing = "await" /\ earliest + waited <= Turnaround + PacketLength)
      BY <1>1 DEF EarliestInv
    <3>2. earliest \in Int /\ Turnaround + PacketLength \in Nat  BY <1>6
    <3> QED  BY <3>1, <3>2, <2>1, <1>10, SoonerByOne
  <2>3. earliest_pt' <= 0 \/ (doing' = "await" /\ earliest_pt' + waited' <= RoundTrip + Lag)
    <3>1. earliest_pt <= 0 \/ (doing = "await" /\ earliest_pt + waited <= RoundTrip + Lag)
      BY <1>1 DEF EarliestInv
    <3>2. earliest_pt \in Int /\ RoundTrip + Lag \in Nat  BY <1>6
    <3> QED  BY <3>1, <3>2, <2>1, <1>9, SoonerByOne
  <2> QED  BY <2>2, <2>3 DEF EarliestInv
<1>14. CountInv'  BY <1>1, <1>3 DEF CountInv
<1>15. AnswerInv'  BY <1>1, <1>3 DEF AnswerInv
<1> QED  BY <1>11, <1>12, <1>13, <1>14, <1>15 DEF RttInv

LEMMA RttSteps ==
    ASSUME RttInv, RttNext
    PROVE  RttInv'
BY SendDatagramKeeps, TakeAnswerKeeps, NoAnswerKeeps, EndPauseKeeps, SendPrintKeeps, StartKeeps,
   ApplicationJobKeeps, PrintJobKeeps, RttPccKeeps, FtPdcKeeps, PtPdcKeeps, RttTimeKeeps
   DEF RttNext, RttProgram, RttReceive

LEMMA RttResults ==
    ASSUME RttInv
    PROVE  AnswerMatches
<1>1. failed = "none" /\ InOrder  BY DEF RttInv, RttType, Air
<1> QED  BY <1>1 DEF AnswerMatches, RttInv, CountInv, AnswerInv, RoundTrip

-----------------------------------------------------------------------------
(* The radio runs one firmware, the others stay as they are. *)

LEMMA InvStart == Init => Inv
<1> SUFFICES ASSUME Init PROVE Inv  OBVIOUS
<1>1. LoopbackVariables /\ TestsVariables /\ RttVariables  BY DEF Init
<1>2. CASE kind = "loopback" /\ LoopbackInit
  BY <1>1, <1>2, LoopbackStarts DEF Inv, LoopbackInit
<1>3. CASE kind = "tests" /\ TestsInit
  BY <1>1, <1>3, TestsStarts DEF Inv, TestsInit
<1>4. CASE kind = "rtt" /\ RttInit
  BY <1>1, <1>4, RttStarts DEF Inv, RttInit, RadioInit
<1> QED  BY <1>2, <1>3, <1>4 DEF Init

LEMMA Unchanged ==
    /\ UNCHANGED radio => UNCHANGED <<reports, air, earliest, failed>>
    /\ UNCHANGED loopback /\ LoopbackVariables => LoopbackVariables'
    /\ UNCHANGED tests /\ TestsVariables => TestsVariables'
    /\ UNCHANGED rtt /\ RttVariables => RttVariables'
<1>1. UNCHANGED radio => UNCHANGED <<reports, air, earliest, failed>>  BY DEF radio
<1>2. UNCHANGED loopback /\ LoopbackVariables => LoopbackVariables'
  <2> SUFFICES ASSUME UNCHANGED loopback, LoopbackVariables PROVE LoopbackVariables'  OBVIOUS
  <2>1. UNCHANGED <<variant, state, parameter_cnt, snr_cnt, nof_experiment_per_snr_cnt, result, PER, heard>>
    BY DEF loopback
  <2>2. UNCHANGED Cells  BY <2>1 DEF Cells
  <2> QED  BY <2>1, <2>2 DEF LoopbackVariables
<1>3. UNCHANGED tests /\ TestsVariables => TestsVariables'  BY DEF tests, TestsVariables
<1>4. UNCHANGED rtt /\ RttVariables => RttVariables'  BY DEF rtt, program, ft, RttVariables
<1> QED  BY <1>1, <1>2, <1>3, <1>4

LEMMA LoopbackStutters ==
    ASSUME LoopbackInv, UNCHANGED <<radio, loopback>>
    PROVE  LoopbackInv'
<1>1. UNCHANGED <<reports, air, earliest, failed, variant, state, parameter_cnt, snr_cnt,
                  nof_experiment_per_snr_cnt, result, PER, heard>>
  BY DEF radio, loopback
<1>2. UNCHANGED <<Cells, Current, Identity>>  BY <1>1 DEF Cells, Current, Identity
<1>3. LoopbackType'  BY <1>1, <1>2 DEF LoopbackInv, LoopbackType
<1>4. CallbackInv'  BY <1>1 DEF LoopbackInv, CallbackInv
<1>5. LoopbackAir'
  <2>1. Air(Cells)'
    <3>1. Air(Cells)  BY DEF LoopbackInv, LoopbackAir
    <3> QED  BY <3>1, <1>1, <1>2 DEF Air, InOrder
  <2> QED  BY <2>1, <1>1, <1>2 DEF LoopbackInv, LoopbackAir, DecodedBefore
<1>6. ExperimentInv'  BY <1>1, <1>2 DEF LoopbackInv, ExperimentInv
<1>7. SavedInv'  BY <1>1, <1>2 DEF LoopbackInv, SavedInv, Saved
<1> QED  BY <1>3, <1>4, <1>5, <1>6, <1>7 DEF LoopbackInv

LEMMA TestsStutters ==
    ASSUME TestsInv, UNCHANGED <<radio, tests>>
    PROVE  TestsInv'
<1>1. UNCHANGED <<reports, air, earliest, failed, name, timing, next, tx_last, S0, L0, R0, cnt, gain,
                  freqs_idx, N_measurement_cnt, tuned, scans, shown>>
  BY DEF radio, tests
<1>2. TestsType'  BY <1>1, SameAir DEF TestsInv, TestsType
<1>3. GainInv' /\ (shown.valid => shown.value = 0)'  BY <1>1 DEF TestsInv, GainInv
<1>4. (name = "txrxdelay" => DelayInv)'  BY <1>1 DEF TestsInv, DelayInv, DecodedBefore
<1>5. (name = "txrxagc" => AgcInv)'  BY <1>1 DEF TestsInv, AgcInv, PairInv, DecodedBefore
<1>6. (name = "chscanner" => ScanInv)'  BY <1>1 DEF TestsInv, ScanInv, Tuned
<1> QED  BY <1>2, <1>3, <1>4, <1>5, <1>6 DEF TestsInv

LEMMA RttStutters ==
    ASSUME RttInv, UNCHANGED <<radio, rtt>>
    PROVE  RttInv'
<1>1. UNCHANGED <<reports, air, earliest, failed, phase, doing, id, waited, N_measurements_cnt, rtt_success, got,
                  queue, jobs, started, watch, N_measurement_tx_cnt, N_measurement_rx_cnt, earliest_pt,
                  answers, counted, printed, unserved>>
  BY DEF radio, rtt, program, ft
<1>2. RttType'  BY <1>1, SameAir DEF RttInv, RttType
<1>3. Where'
  BY <1>1 DEF RttInv, DatagramInv, Where, Idle, InJob, ToPt, ToFt, Underway, Answered
<1>4. DatagramInv'  BY <1>1, <1>3 DEF RttInv, DatagramInv
<1>5. EarliestInv'  BY <1>1 DEF RttInv, EarliestInv
<1>6. CountInv'  BY <1>1 DEF RttInv, CountInv
<1>7. AnswerInv'  BY <1>1 DEF RttInv, AnswerInv
<1> QED  BY <1>2, <1>4, <1>5, <1>6, <1>7 DEF RttInv

LEMMA InvStep == Inv /\ [Next]_all => Inv'
<1> SUFFICES ASSUME Inv, [Next]_all PROVE Inv'  OBVIOUS
<1>1. CASE Loop
  <2>1. kind = "loopback" /\ LoopbackNext /\ UNCHANGED tests /\ UNCHANGED rtt /\ kind' = kind  BY <1>1 DEF Loop
  <2>2. LoopbackInv /\ TestsVariables /\ RttVariables  BY <2>1 DEF Inv
  <2>3. LoopbackInv' /\ TestsVariables' /\ RttVariables'  BY <2>1, <2>2, LoopbackSteps, Unchanged
  <2> QED  BY <2>1, <2>3 DEF Inv
<1>2. CASE Tests
  <2>1. kind = "tests" /\ TestsNext /\ UNCHANGED loopback /\ UNCHANGED rtt /\ kind' = kind  BY <1>2 DEF Tests
  <2>2. TestsInv /\ LoopbackVariables /\ RttVariables  BY <2>1 DEF Inv
  <2>3. TestsInv' /\ LoopbackVariables' /\ RttVariables'  BY <2>1, <2>2, TestsSteps, Unchanged
  <2> QED  BY <2>1, <2>3 DEF Inv
<1>3. CASE Rtt
  <2>1. kind = "rtt" /\ RttNext /\ UNCHANGED loopback /\ UNCHANGED tests /\ kind' = kind  BY <1>3 DEF Rtt
  <2>2. RttInv /\ LoopbackVariables /\ TestsVariables  BY <2>1 DEF Inv
  <2>3. RttInv' /\ LoopbackVariables' /\ TestsVariables'  BY <2>1, <2>2, RttSteps, Unchanged
  <2> QED  BY <2>1, <2>3 DEF Inv
<1>4. CASE UNCHANGED all
  <2>1. UNCHANGED radio /\ UNCHANGED loopback /\ UNCHANGED tests /\ UNCHANGED rtt /\ kind' = kind
    BY <1>4 DEF all
  <2>2. CASE kind = "loopback" /\ LoopbackInv /\ TestsVariables /\ RttVariables
    BY <2>1, <2>2, LoopbackStutters, Unchanged DEF Inv
  <2>3. CASE kind = "tests" /\ TestsInv /\ LoopbackVariables /\ RttVariables
    BY <2>1, <2>3, TestsStutters, Unchanged DEF Inv
  <2>4. CASE kind = "rtt" /\ RttInv /\ LoopbackVariables /\ TestsVariables
    BY <2>1, <2>4, RttStutters, Unchanged DEF Inv
  <2> QED  BY <2>2, <2>3, <2>4 DEF Inv
<1> QED  BY <1>1, <1>2, <1>3, <1>4 DEF Next

\* A firmware that does not run has no results yet, and the radio is in order for it, too.
LEMMA LoopbackNoResults ==
    ASSUME LoopbackVariables, failed = "none", InOrder
    PROVE  ResultsRight
<1>1. \A c \in Cells : PER[c] = NotSaved /\ heard[c] = NoCount  BY DEF LoopbackVariables
<1>2. state # "DEAD_END"  BY DEF LoopbackVariables
<1>3. nof_experiment_per_snr \in Nat  BY LoopbackAssumption
<1>4. /\ NoCount.n_pdc <= NoCount.n_pcc_and_plcf
      /\ NoCount.n_pcc_and_plcf <= nof_experiment_per_snr
  BY <1>3 DEF NoCount
<1> QED  BY <1>1, <1>2, <1>4 DEF ResultsRight

LEMMA TestsNoResults ==
    ASSUME TestsVariables, failed = "none", InOrder
    PROVE  MeasuresItsOwn
BY DEF MeasuresItsOwn, TestsVariables

LEMMA RttNoResults ==
    ASSUME RttVariables, failed = "none", InOrder
    PROVE  AnswerMatches
BY DEF AnswerMatches, RttVariables

LEMMA InvResults == Inv => MeasurementsRight
<1>1. LoopbackInv => failed = "none" /\ InOrder  BY DEF LoopbackInv, LoopbackType, LoopbackAir, Air
<1>2. TestsInv => failed = "none" /\ InOrder  BY DEF TestsInv, TestsType, Air
<1>3. RttInv => failed = "none" /\ InOrder  BY DEF RttInv, RttType, Air
<1> QED
  BY <1>1, <1>2, <1>3, LoopbackResults, TestsResults, RttResults, LoopbackNoResults, TestsNoResults,
     RttNoResults DEF Inv, MeasurementsRight

\* Whatever firmware the radio runs: loopback has one callback ahead and only packets of the current
\* row and column in the air, the pairs and scans of the tests are decoded or due before the next
\* callback, and in rtt the datagram that the program waits for is in one place only.
THEOREM MeasurementsInvariant == Spec => []Inv
<1> QED  BY InvStart, InvStep, PTL DEF Spec

\* Every result is of the packets it is said to be of: counts are saved for the parameter and the SNR
\* they were taken at, delays, gains and scans are of the packet pair and the frequency they are shown
\* for, and a round-trip time is that of the latest datagram.
THEOREM MeasurementsRightHolds == Spec => []MeasurementsRight
BY MeasurementsInvariant, InvResults, PTL
=============================================================================
