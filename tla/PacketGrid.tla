----------------------------- MODULE PacketGrid -----------------------------
(***************************************************************************)
(* The cells of a packet: which OFDM symbol and which subcarrier carries   *)
(* which DRS, PCC or PDC cell, as the transmitter (tx_t) fills the symbols *)
(* one after the other and as the receiver (rx_synced_t) reads them back   *)
(* through its processing stage, with channel estimates interpolated from  *)
(* one DRS symbol or from the two on either side.                          *)
(*                                                                         *)
(* Samples are represented by the symbol they stem from, complex values by *)
(* their position in the PCC or PDC.                                       *)
(***************************************************************************)
EXTENDS Integers, Sequences, FiniteSets, CodeBlocks

CONSTANTS Definitions,  \* packet_sizes_def_t: [u, b, PacketLengthType, PacketLength, tm_mode_index, mcs_index, Z]
          Strides       \* values of chestim_mode_lr_t_stride_default

ASSUME StridesAssumption == Strides \subseteq Nat \ {0}

\* as get_packet_sizes() asserts
ASSUME DefinitionsAssumption ==
    \A d \in Definitions :
        /\ d.u \in {1, 2, 4, 8} /\ d.b \in {1, 2, 4, 8, 12, 16}
        /\ d.PacketLengthType \in {0, 1} /\ d.PacketLength \in 1..16
        /\ d.tm_mode_index \in 0..11 /\ d.mcs_index \in 0..11 /\ d.Z \in {2048, 6144}


-----------------------------------------------------------------------------
(* Sizes of a packet. *)

N_SS(d)  == CASE d.tm_mode_index \in {2, 4, 8} -> 2
              [] d.tm_mode_index \in {6, 9} -> 4
              [] d.tm_mode_index = 11 -> 8
              [] OTHER -> 1
N_TS(d)  == CASE d.tm_mode_index \in {0, 3, 7} -> 1
              [] d.tm_mode_index \in {1, 2, 4, 8} -> 2
              [] d.tm_mode_index \in {5, 6, 9} -> 4
              [] OTHER -> 8

mcs(i) == << <<1, 1, 2>>, <<2, 1, 2>>, <<2, 3, 4>>, <<4, 1, 2>>, <<4, 3, 4>>, <<6, 2, 3>>,
             <<6, 3, 4>>, <<6, 5, 6>>, <<8, 3, 4>>, <<8, 5, 6>>, <<10, 3, 4>>, <<10, 5, 6>> >>[i + 1]
N_bps(d) == mcs(d.mcs_index)[1]

N_b_OCC(b) == 56 * b
N_PACKET_symb(d) == IF d.PacketLengthType = 0
                    THEN (d.PacketLength * 10 * d.u) \div (2 * d.u)
                    ELSE d.PacketLength * 10 * d.u
get_N_DF_symb(u, symb) == symb - (CASE u = 1 -> 2 [] u \in {2, 4} -> 3 [] OTHER -> 4)
N_DF_symb(d) == get_N_DF_symb(d.u, N_PACKET_symb(d))

N_step(N) == IF N <= 2 THEN 5 ELSE 10

nof_OFDM_symbols_carrying_DRS_per_TS(symb, N) ==
    (symb \div N_step(N)) + (IF N_step(N) = 10 /\ symb % 10 # 0 THEN 1 ELSE 0)

N_DRS_subc(d) == ((N_TS(d) * N_b_OCC(d.b)) \div 4)
                     * nof_OFDM_symbols_carrying_DRS_per_TS(N_PACKET_symb(d), N_TS(d))

pcc_cells == 98

N_PDC_subc(d) == LET n == N_DF_symb(d) * N_b_OCC(d.b) - N_DRS_subc(d) - pcc_cells
                 IN  IF n <= 0 THEN 0 ELSE n

G(d) == N_SS(d) * N_PDC_subc(d) * N_bps(d)

N_TB_bits(d) ==
    LET bits == (G(d) * mcs(d.mcs_index)[2]) \div mcs(d.mcs_index)[3]
        M    == CASE bits <= 512 -> 8 [] bits <= 1024 -> 16 [] bits <= 2048 -> 32 [] OTHER -> 64
        N_M  == (bits \div M) * M
    IN  IF N_M <= 24 THEN 0
        ELSE IF N_M <= d.Z THEN N_M - 24
        ELSE N_M - (CeilDiv(N_M - 24, d.Z) + 1) * 24

\* get_packet_sizes() returns a value
HasSizes(d) ==
    /\ ~(N_TS(d) = 4 /\ N_PACKET_symb(d) < 15)
    /\ ~(d.u = 8 /\ N_TS(d) = 8 /\ (N_PACKET_symb(d) < 20 \/ N_PACKET_symb(d) % 10 # 0))
    /\ N_PDC_subc(d) > 0
    /\ N_TB_bits(d) > 0
    /\ Segmentation(N_TB_bits(d), d.Z).F = 0

-----------------------------------------------------------------------------
(* Tables of pcc_t, drs_t and pdc_t, as their constructors fill them. A    *)
(* subcarrier is counted from the lowest occupied one, DC included.        *)

Bs == {d.b : d \in Definitions}
Ns == {1, 2, 4, 8}

Occupied(b) == (0..N_b_OCC(b)) \ {N_b_OCC(b) \div 2}

\* get_k_i_single: the cells of stream t in its even (n = 0) or odd (n = 1) DRS symbols
k_i(b, t, n) ==
    {IF p < N_b_OCC(b) \div 2 THEN p ELSE p + 1 :
        p \in {4 * i + ((t + 2 * (n % 2)) % 4) : i \in 0..(N_b_OCC(b) \div 4 - 1)}}

\* drs_t::get_k_i_linear: the DRS cells in symbol l of a packet of symb symbols
DrsCells(b, N, symb, l) ==
    UNION {k_i(b, x[1], x[2]) :
              x \in {y \in (0..N - 1) \X (0..nof_OFDM_symbols_carrying_DRS_per_TS(symb, N) - 1) :
                        l = 1 + y[1] \div 4 + y[2] * N_step(N)}}

PccFree == [b \in Bs |-> [N \in Ns |-> [l \in 1..5 |-> Occupied(b) \ DrsCells(b, N, 20, l)]]]

PccLeft == [b \in Bs |-> [N \in Ns |->
    LET left[l \in 1..5] == IF l = 1 THEN pcc_cells
                            ELSE IF left[l - 1] <= Cardinality(PccFree[b][N][l - 1]) THEN 0
                            ELSE left[l - 1] - Cardinality(PccFree[b][N][l - 1])
    IN  left]]

\* the free cell with this rank is taken as number Interleaved, out of a matrix of seven rows
R_PCC == 7
Interleaved(rank, U) == ((rank % (U \div R_PCC)) * R_PCC) + (rank \div (U \div R_PCC))

\* pcc_t::get_k_i_linear, symbol by symbol
PccCells == [b \in Bs |-> [N \in Ns |-> [l \in 1..5 |->
    LET free == PccFree[b][N][l]
        left == PccLeft[b][N][l]
    IN  IF Cardinality(free) < left THEN free
        ELSE {k \in free : Interleaved(Cardinality({j \in free : j < k}), Cardinality(free)) < left}]]]

\* l_all_symbols: the symbols that hold PCC cells, in order
PccSymbols == [b \in Bs |-> [N \in Ns |-> {l \in 1..5 : PccCells[b][N][l] # {}}]]
PccSymbol(b, N, i) == CHOOSE l \in PccSymbols[b][N] : Cardinality({m \in PccSymbols[b][N] : m < l}) = i

\* pdc_t::get_k_i_linear for the symbols that repeat in every packet, fully occupied ones marked
FULLY_OCCUPIED == 10
PdcCells == [b \in Bs |-> [N \in Ns |-> [l \in 0..20 |->
    LET cells == (Occupied(b) \ DrsCells(b, N, 30, l)) \ (IF l \in 1..5 THEN PccCells[b][N][l] ELSE {})
    IN  IF l = 0 THEN {}
        ELSE IF l # FULLY_OCCUPIED /\ Cardinality(cells) = N_b_OCC(b) THEN {Least(cells)}
        ELSE cells]]]

\* pdc_t::is_symbol_index: the row of the table that symbol l uses
l_limit(N) == IF N <= 2 THEN 6 ELSE 11
l_repeat_PerDrs == 5
l_repeat == 10
l_equivalent(b, N, l) ==
    LET row == IF l <= l_limit(N) THEN l ELSE l - ((l - l_limit(N)) \div l_repeat) * l_repeat
    IN  IF Cardinality(PdcCells[b][N][row]) = 1 THEN FULLY_OCCUPIED ELSE row

-----------------------------------------------------------------------------
(* The packet, symbol by symbol. *)

VARIABLES
  psdef, lr_default, stride, \* the packet, chestim_mode_lr_default and its stride
  part,                      \* where the transmitter, then the receiver, is in its code
  failed,                    \* the assertion that failed, or "none"
  ofdm_symb_idx,
  drs,                       \* drs_t: [l_next, n: parity of k_i, TS_first]
  pcc_cnt,                   \* pcc_t: number of symbols already found
  cnt,                       \* [PCC_idx, DRS_idx, PDC_bits_idx, PDC_subc_idx, residual, cb_idx]
  fec,                       \* fec_t's configuration of the packet: [seg, Qm, G]
  air,                       \* per symbol sent: [drs, pcc, pdc], each <<>> or what was written
  ps_idx, ofdm_symb_ps_idx, chestim_mode_lr,
  stage,                     \* processing stage: relative index -> symbol
  now,                       \* ofdm_symbol_now: relative index it points to
  TS_last,
  zf, interlaced,            \* pilots of a stream; of both slots of a stream
  est,                       \* latest interpolation: [at, lr, ps, pilots]
  read                       \* latest cells read: [kind, symbol, row, from], and the index asked for

config == <<psdef, lr_default, stride, fec>>
sender == <<config, air>>
estimator == <<stage, now, zf, interlaced, est, TS_last, chestim_mode_lr>>
stageidx == <<ps_idx, ofdm_symb_ps_idx>>
grid == <<sender, part, failed, ofdm_symb_idx, drs, pcc_cnt, cnt, stageidx, estimator, read>>

b == psdef.b
N_eff_TX == N_TS(psdef)
step == N_step(N_eff_TX)
ps_t_length == CASE N_eff_TX <= 2 -> 6 [] N_eff_TX = 4 -> 11 [] OTHER -> 12
Counters == [PCC_idx |-> 0, DRS_idx |-> 0, PDC_bits_idx |-> 0, PDC_subc_idx |-> 0, residual |-> 0,
             cb_idx |-> 0]

NoPilots == [symbol |-> 0, n |-> 0]
GridInit ==
    /\ psdef \in {d \in Definitions : HasSizes(d)}
    /\ lr_default \in BOOLEAN
    /\ stride \in IF lr_default THEN Strides ELSE {1}
    /\ fec = [seg |-> Segmentation(N_TB_bits(psdef), psdef.Z), Qm |-> N_bps(psdef), G |-> G(psdef)]
    /\ part = "tx" /\ failed = "none" /\ ofdm_symb_idx = 1
    /\ drs = [l_next |-> 1, n |-> 0, TS_first |-> 0]
    /\ pcc_cnt = 0 /\ cnt = Counters /\ air = <<>>
    /\ ps_idx = 0 /\ ofdm_symb_ps_idx = 0 /\ chestim_mode_lr = FALSE
    /\ stage = [i \in 0..11 |-> 0] /\ now = 0 /\ TS_last = 0
    /\ zf = [ts \in 0..7 |-> NoPilots]
    /\ interlaced = [ts \in 0..7 |-> <<NoPilots, NoPilots>>]
    /\ est = [at |-> 0, lr |-> FALSE, ps |-> 0, pilots |-> zf]
    /\ read = <<>>

(* drs_t, pcc_t and pdc_t as both sides step through them. *)

IsDrs(l) == l = drs.l_next
get_ts_idx_last == IF drs.TS_first = 0 THEN IF N_eff_TX < 4 THEN N_eff_TX - 1 ELSE 3 ELSE 7
Advanced == IF N_eff_TX <= 4
            THEN [drs EXCEPT !.l_next = @ + step, !.n = 1 - @]
            ELSE [l_next |-> drs.l_next + (IF drs.l_next % 2 = 1 THEN 1 ELSE 9),
                  n |-> IF drs.l_next % 2 = 1 THEN drs.n ELSE 1 - drs.n,
                  TS_first |-> 4 - drs.TS_first]
DrsSize == (get_ts_idx_last - drs.TS_first + 1) * (N_b_OCC(b) \div 4)

IsPcc(l) == /\ pcc_cnt < Cardinality(PccSymbols[b][N_eff_TX])
            /\ l = PccSymbol(b, N_eff_TX, pcc_cnt)
PccSize(l) == Cardinality(PccCells[b][N_eff_TX][l])

Row(l) == l_equivalent(b, N_eff_TX, l)
IsPdc(l) == PdcCells[b][N_eff_TX][Row(l)] # {}
PdcSize(l) == Cardinality(PdcCells[b][N_eff_TX][Row(l)])

(* tx_t::generate_tx_packet *)

\* run_pdc: whole bytes are mapped to cells, what a symbol does not need stays for the next one
NewBits(l) == LET cells == N_SS(psdef) * PdcSize(l)
                  need  == CeilDiv((cells - cnt.residual) * N_bps(psdef), 24) * 24
                  rest  == G(psdef) - cnt.PDC_bits_idx
              IN  IF cells < cnt.residual \/ need > rest THEN rest ELSE need
Residual(l) == (cnt.residual + NewBits(l) \div N_bps(psdef)) - N_SS(psdef) * PdcSize(l)
PdcMapped(l) == /\ NewBits(l) % N_bps(psdef) = 0
                /\ cnt.PDC_bits_idx < G(psdef) => cnt.PDC_bits_idx % 8 = 0
                /\ Residual(l) \in 0..23

Transmit ==
    LET l == ofdm_symb_idx IN
    /\ part = "tx" /\ l <= N_DF_symb(psdef)
    /\ air' = Append(air,
         [drs |-> IF IsDrs(l) THEN <<drs.TS_first, get_ts_idx_last, drs.n>> ELSE <<>>,
          pcc |-> IF IsPcc(l) THEN <<l, cnt.PCC_idx>> ELSE <<>>,
          pdc |-> IF IsPdc(l) THEN <<Row(l), (cnt.PDC_bits_idx \div N_bps(psdef)) - cnt.residual>>
                  ELSE <<>>])
    /\ drs' = IF IsDrs(l) THEN Advanced ELSE drs
    /\ pcc_cnt' = IF IsPcc(l) THEN pcc_cnt + 1 ELSE pcc_cnt
    /\ cnt' = [PCC_idx      |-> cnt.PCC_idx + (IF IsPcc(l) THEN PccSize(l) ELSE 0),
               DRS_idx      |-> cnt.DRS_idx + (IF IsDrs(l) THEN DrsSize ELSE 0),
               PDC_bits_idx |-> cnt.PDC_bits_idx + (IF IsPdc(l) THEN NewBits(l) ELSE 0),
               PDC_subc_idx |-> cnt.PDC_subc_idx + (IF IsPdc(l) THEN N_SS(psdef) * PdcSize(l) ELSE 0),
               residual     |-> IF IsPdc(l) THEN Residual(l) ELSE cnt.residual,
               cb_idx       |-> IF IsPdc(l)
                                THEN Encode(fec, cnt.cb_idx, cnt.PDC_bits_idx + NewBits(l))
                                ELSE cnt.cb_idx]
    /\ failed' = IF IsPdc(l) /\ ~PdcMapped(l) THEN "tx" ELSE "none"
    /\ part' = IF failed' = "none" THEN "tx" ELSE "over"
    /\ ofdm_symb_idx' = l + 1
    /\ UNCHANGED <<config, stageidx, estimator, read>>

\* the numbers of cells and bits that both sides check at the end of a packet
EverythingFound ==
    /\ cnt.PCC_idx = pcc_cells
    /\ cnt.DRS_idx = N_DRS_subc(psdef)
    /\ cnt.PDC_bits_idx = G(psdef)
    /\ cnt.PDC_subc_idx = N_PDC_subc(psdef) * N_SS(psdef)
    /\ cnt.residual = 0

\* the packet is complete; the receiver reconfigures its own drs_t, pcc_t and pdc_t
Transmitted ==
    /\ part = "tx" /\ ofdm_symb_idx > N_DF_symb(psdef)
    /\ IF EverythingFound /\ wp_enc(fec, cnt.cb_idx) = fec.G THEN part' = "pcc" /\ failed' = failed
       ELSE part' = "over" /\ failed' = "tx"
    /\ drs' = [l_next |-> 1, n |-> 0, TS_first |-> 0]
    /\ pcc_cnt' = 0 /\ cnt' = Counters /\ ofdm_symb_idx' = 1
    /\ UNCHANGED <<sender, stageidx, estimator, read>>

(* rx_synced_t *)

\* run_mix_resample and run_cp_fft_scale: the next symbol is put onto the stage
Receive == /\ stage' = [stage EXCEPT ![ofdm_symb_ps_idx] = ofdm_symb_idx]
           /\ now' = ofdm_symb_ps_idx

Slot_SameInEveryStage(ts) == (((ts % 4) \div 2) + (IF ofdm_symb_ps_idx <= 1 THEN 0 ELSE 1)) % 2
\* channel_antenna_t::get_write_offsets: the slot a pilot takes among the interlaced ones
Slot(ts) == (((ts % 4) \div 2) + ps_idx + (IF ofdm_symb_ps_idx <= 1 THEN 0 ELSE 1)) % 2

\* run_drs_chestim_zf of the symbol just received, in this mode
DrsIndexOk(lr) == lr \/ ofdm_symb_ps_idx <= (IF N_eff_TX <= 4 THEN 0 ELSE 1)
Chestim ==
    LET streams == drs.TS_first..get_ts_idx_last
        pilot   == [symbol |-> ofdm_symb_idx, n |-> drs.n]
    IN  /\ zf' = [ts \in 0..7 |-> IF ts \in streams THEN pilot ELSE zf[ts]]
        /\ interlaced' = [ts \in 0..7 |-> IF ts \in streams
                                          THEN [interlaced[ts] EXCEPT ![Slot(ts) + 1] = pilot]
                                          ELSE interlaced[ts]]
        /\ TS_last' = get_ts_idx_last
        /\ drs' = Advanced

\* run_drs_ch_interpolation; at is the symbol that the estimate is meant for
lut_length(lr) == IF lr THEN step + 1 ELSE 1
Interpolate(lr, first, last, pilots) ==
    est' = [at |-> 1 + ps_idx * step + ofdm_symb_ps_idx, lr |-> lr, ps |-> ps_idx,
            pilots |-> [ts \in first..last |-> pilots[ts]]]

\* a symbol in the mode that uses the DRS symbol to the left only
EstimateLeft ==
    \/ /\ ~IsDrs(ofdm_symb_idx)
       /\ failed' = failed /\ UNCHANGED <<zf, interlaced, TS_last, drs, est>>
    \/ /\ IsDrs(ofdm_symb_idx) /\ Chestim
       /\ Interpolate(FALSE, drs.TS_first, TS_last', zf')
       /\ failed' = IF ~DrsIndexOk(FALSE) THEN "index"
                    ELSE IF ofdm_symb_ps_idx >= lut_length(FALSE) THEN "t_idx" ELSE failed
DrsCount == IF IsDrs(ofdm_symb_idx) THEN DrsSize ELSE 0

\* run_pdc of the symbol asked for, at the pointer as it is now
ReadPdc(l, at) == [kind |-> "pdc", symbol |-> stage'[at], row |-> Row(l), asked |-> l,
                   from |-> cnt.PDC_bits_idx \div N_bps(psdef)]
PdcRead(l, c) ==
    LET cells == PdcSize(l) * N_SS(psdef)
        bits  == c.PDC_bits_idx + cells * N_bps(psdef)
    IN  IF IsPdc(l) THEN [c EXCEPT !.PDC_subc_idx = @ + cells, !.PDC_bits_idx = bits,
                                   !.cb_idx = Decode(fec, @, bits)]
        ELSE c
Goes(next) == part' = IF failed' = "none" THEN next ELSE "over"

\* demoddecod_rx_pcc: one symbol
pcc_symbol_idx_max == Greatest(PccSymbols[b][N_eff_TX])
PccSymbolRead ==
    LET l == ofdm_symb_idx IN
    /\ part = "pcc" /\ l <= pcc_symbol_idx_max
    /\ Receive /\ EstimateLeft
    /\ pcc_cnt' = IF IsPcc(l) THEN pcc_cnt + 1 ELSE pcc_cnt
    /\ read' = IF IsPcc(l) THEN [kind |-> "pcc", symbol |-> stage'[now'], row |-> l, asked |-> l,
                                 from |-> cnt.PCC_idx]
               ELSE <<>>
    /\ cnt' = [cnt EXCEPT !.PCC_idx = @ + (IF IsPcc(l) THEN PccSize(l) ELSE 0), !.DRS_idx = @ + DrsCount]
    /\ ofdm_symb_idx' = l + 1 /\ ofdm_symb_ps_idx' = ofdm_symb_ps_idx + 1
    /\ Goes("pcc")
    /\ UNCHANGED <<sender, ps_idx, chestim_mode_lr>>

\* the PLCF is decoded (a packet of several spatial streams is left alone), the PDC begins
nof_full_ps == (N_DF_symb(psdef) - (ps_t_length - step)) \div step
PdcBegins ==
    /\ part = "pcc" /\ ofdm_symb_idx > pcc_symbol_idx_max
    /\ failed' = IF N_SS(psdef) > 1 THEN "blocked"
                 ELSE IF ofdm_symb_idx > N_DF_symb(psdef) THEN "short" ELSE "none"
    /\ LET lr == lr_default /\ nof_full_ps > 0 IN
         /\ Goes(IF lr THEN "collect" ELSE "again")
         /\ chestim_mode_lr' = lr
         /\ ofdm_symb_ps_idx' = IF lr THEN ofdm_symb_ps_idx ELSE 0
    /\ UNCHANGED <<sender, ofdm_symb_idx, drs, pcc_cnt, cnt, ps_idx, stage, now, TS_last,
                   zf, interlaced, est, read>>

\* run_pdc_ps_in_chestim_mode_lr_t: up to the DRS symbol to the right of the stage ...
final_idx == ps_t_length + ps_idx * step
relative_start_Zero == 0
relative_start == IF ps_idx = 0 THEN 0 ELSE 1
Collect ==
    /\ part = "collect" /\ ofdm_symb_idx <= final_idx
    /\ Receive
    /\ IF IsDrs(ofdm_symb_idx) THEN Chestim ELSE UNCHANGED <<zf, interlaced, TS_last, drs>>
    /\ cnt' = [cnt EXCEPT !.DRS_idx = @ + DrsCount]
    /\ ofdm_symb_idx' = ofdm_symb_idx + 1 /\ ofdm_symb_ps_idx' = ofdm_symb_ps_idx + 1
    /\ UNCHANGED <<sender, part, failed, pcc_cnt, ps_idx, chestim_mode_lr, est, read>>
Collected ==
    /\ part = "collect" /\ ofdm_symb_idx > final_idx
    /\ part' = "read" /\ ofdm_symb_ps_idx' = relative_start /\ read' = <<>>
    /\ UNCHANGED <<sender, failed, ofdm_symb_idx, drs, pcc_cnt, cnt, ps_idx, estimator>>

\* ... then once more over the stage, with estimates from both sides
ReadStage ==
    LET l == 1 + ps_idx * step + ofdm_symb_ps_idx IN
    /\ part = "read" /\ ofdm_symb_ps_idx <= step
    /\ now' = ofdm_symb_ps_idx /\ stage' = stage
    /\ IF (ofdm_symb_ps_idx - relative_start) % stride = 0
       THEN Interpolate(TRUE, 0, TS_last, interlaced) ELSE est' = est
    /\ read' = IF IsPdc(l) THEN ReadPdc(l, now') ELSE <<>>
    /\ cnt' = PdcRead(l, cnt)
    /\ ofdm_symb_ps_idx' = ofdm_symb_ps_idx + 1
    /\ UNCHANGED <<sender, part, failed, ofdm_symb_idx, drs, pcc_cnt, ps_idx, chestim_mode_lr,
                   TS_last, zf, interlaced>>
StageDone ==
    /\ part = "read" /\ ofdm_symb_ps_idx > step
    /\ ps_idx' = ps_idx + 1
    /\ LET more == ps_idx' < nof_full_ps IN
         /\ ofdm_symb_ps_idx' = IF more THEN 1 ELSE 0
         /\ part' = IF more THEN "collect" ELSE "left"
         /\ chestim_mode_lr' = more
    /\ UNCHANGED <<sender, failed, ofdm_symb_idx, drs, pcc_cnt, cnt, stage, now, TS_last,
                   zf, interlaced, est, read>>

\* run_pdc_ps_in_chestim_mode_lr_f: first the symbols that the PCC came with
Again ==
    LET i == ofdm_symb_ps_idx + 1 IN
    /\ part = "again" /\ i < ofdm_symb_idx
    /\ stage' = stage
    /\ read' = IF IsPdc(i) THEN ReadPdc(i, now) ELSE <<>>
    /\ cnt' = PdcRead(i, cnt)
    /\ ofdm_symb_ps_idx' = i
    /\ part' = IF i + 1 = ofdm_symb_idx THEN "left" ELSE "again"
    /\ UNCHANGED <<sender, failed, ofdm_symb_idx, drs, pcc_cnt, ps_idx, chestim_mode_lr, now,
                   TS_last, zf, interlaced, est>>

\* then all that follow
ReadLeft ==
    LET l == ofdm_symb_idx IN
    /\ part = "left" /\ l <= N_DF_symb(psdef)
    /\ Receive /\ EstimateLeft
    /\ read' = IF IsPdc(l) THEN ReadPdc(l, now') ELSE <<>>
    /\ cnt' = PdcRead(l, [cnt EXCEPT !.DRS_idx = @ + DrsCount])
    /\ LET full == ofdm_symb_ps_idx + 1 = step IN
         /\ ofdm_symb_ps_idx' = IF full THEN 0 ELSE ofdm_symb_ps_idx + 1
         /\ ps_idx' = IF full THEN ps_idx + 1 ELSE ps_idx
    /\ ofdm_symb_idx' = l + 1
    /\ Goes("left")
    /\ UNCHANGED <<sender, pcc_cnt, chestim_mode_lr>>

Received ==
    /\ part = "left" /\ ofdm_symb_idx > N_DF_symb(psdef)
    /\ part' = "over"
    /\ failed' = IF EverythingFound /\ wp_dec(fec, cnt.cb_idx) - 24 = N_TB_bits(psdef) THEN "none" ELSE "rx"
    /\ UNCHANGED <<sender, ofdm_symb_idx, drs, pcc_cnt, cnt, stageidx, estimator, read>>

GridNext ==
    \/ Transmit \/ Transmitted \/ PccSymbolRead \/ PdcBegins
    \/ Collect \/ Collected \/ ReadStage \/ StageDone \/ Again \/ ReadLeft \/ Received

-----------------------------------------------------------------------------
(* Properties. *)

\* tx_t fills every occupied subcarrier of every symbol (the DC one excepted) exactly once: the
\* pilots of its streams, the PCC and the PDC never meet and leave nothing free.
EveryCellOnce ==
    (part = "tx" /\ air # <<>>) =>
        LET l == Len(air)
            a == air[l]
            pieces == (IF a.drs = <<>> THEN {} ELSE {k_i(b, ts, a.drs[3]) : ts \in a.drs[1]..a.drs[2]})
                      \cup (IF a.pcc = <<>> THEN {} ELSE {PccCells[b][N_eff_TX][a.pcc[1]]})
                      \cup (IF a.pdc = <<>> THEN {} ELSE {PdcCells[b][N_eff_TX][a.pdc[1]]})
        IN  /\ \A x, y \in pieces : x = y \/ x \cap y = {}
            /\ UNION pieces = Occupied(b)

\* What rx_synced_t takes from its processing stage for a symbol are the cells and the position in
\* the PCC or PDC that tx_t wrote there, and it ends with all of them read, except for the packets
\* it leaves alone and those that run into the assertions on the symbol index.
ReadsAsWritten ==
    /\ read # <<>> =>
         LET a == air[read.symbol] IN
         IF read.kind = "pcc" THEN a.pcc = <<read.row, read.from>>
         ELSE a.pdc = <<read.row, read.from>>
    /\ failed = "t_idx" => N_eff_TX = 8
    /\ failed = "short" => N_DF_symb(psdef) = pcc_symbol_idx_max
    /\ failed \notin {"tx", "rx", "index"}

\* tx_t never maps a bit that fec_t has not yet encoded. rx_synced_t decodes a code block from the
\* bits that stem from it, from its first one on (the last modulation symbol may be left out), once
\* they are all received and no later, so that the MAC gets the transport block as it arrives.
CodeblocksAsEncoded ==
    /\ part = "tx" => cnt.PDC_bits_idx <= wp_enc(fec, cnt.cb_idx)
    /\ part \in {"collect", "read", "again", "left"} =>
         /\ \A i \in 0..cnt.cb_idx - 1 :
               /\ rp(fec, i) = wp_enc(fec, i)
               /\ n_e2(fec, i) \in {n_e(fec, i), n_e(fec, i) - fec.Qm}
               /\ rp(fec, i) + n_e2(fec, i) <= cnt.PDC_bits_idx
         /\ cnt.cb_idx < fec.seg.C => wp_enc(fec, cnt.cb_idx + 1) > cnt.PDC_bits_idx

\* Where the LUT expects the pilots of stream ts for a stage: symbol and cell offset, slot by slot.
Expected(ts, ps, lr) ==
    LET t     == (ts + 2 * (ps % 2)) % 4
        left  == <<1 + ps * step + ts \div 4, t>>
        right == <<1 + (ps + 1) * step + ts \div 4, (t + 2) % 4>>
    IN  IF ~lr THEN <<left>> ELSE IF t < 2 THEN <<left, right>> ELSE <<right, left>>
Place(ts, pilot) == <<pilot.symbol, (ts + 2 * pilot.n) % 4>>

\* The channel is interpolated from pilots that stem from the symbols and subcarriers that the look
\* up table was made for, and a symbol is read with an estimate of its own stage, no older than the
\* stride (or, after the last DRS symbol, than a stage and the stride).
PilotsAsExpected ==
    /\ (est.at > 0 /\ failed = "none") =>
         \A ts \in DOMAIN est.pilots :
            LET p == est.pilots[ts] IN
            IF est.lr THEN [i \in 1..2 |-> Place(ts, p[i])] = Expected(ts, est.ps, TRUE)
            ELSE <<Place(ts, p)>> = Expected(ts, est.ps, FALSE)
    /\ read # <<>> =>
         IF part = "read"
         THEN est.lr /\ est.ps = ps_idx /\ read.asked - est.at \in 0..stride - 1
         ELSE read.asked - est.at \in 0..(step + stride - 1)
=============================================================================
