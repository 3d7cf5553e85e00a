---------------------------- MODULE CodeBlocks -----------------------------
(***************************************************************************)
(* Segmentation of a transport block into code blocks, and which bits of   *)
(* the PDC belong to which code block: for the encoder, which encodes as   *)
(* many blocks as the next OFDM symbol needs, and for the decoder, which   *)
(* decodes as many as have been received.                                  *)
(***************************************************************************)
EXTENDS Integers

CeilDiv(a, b) == (a + b - 1) \div b
Least(S) == CHOOSE x \in S : \A y \in S : x <= y
Greatest(S) == CHOOSE x \in S : \A y \in S : x >= y

\* the code block sizes of the turbo code
tc_cb_sizes == {8 * i : i \in 5..64} \cup {16 * i : i \in 33..64}
                   \cup {32 * i : i \in 33..64} \cup {64 * i : i \in 33..96}

\* srsran_cbsegm_FIX, for tbs > 0: C2 blocks of K2 bits, then C - C2 of K1 bits, F of them filler
BlocksOf(C, Bp, K1, K2) ==
    LET C2 == IF C = 1 \/ K1 = K2 THEN 0 ELSE (C * K1 - Bp) \div (K1 - K2)
    IN  [C |-> C, C2 |-> C2, K1 |-> K1, K2 |-> K2, F |-> (C - C2) * K1 + C2 * K2 - Bp]
BlocksFor(C, Bp) ==
    LET K1 == Least({k \in tc_cb_sizes : k >= CeilDiv(Bp, C)})
        K2 == IF C = 1 THEN 0 ELSE IF K1 = 40 THEN K1 ELSE Greatest({k \in tc_cb_sizes : k < K1})
    IN  BlocksOf(C, Bp, K1, K2)
Segmentation(tbs, Z) ==
    LET B  == tbs + 24
        C  == IF B <= Z THEN 1 ELSE CeilDiv(B, Z - 24)
    IN  BlocksFor(C, IF B <= Z THEN B ELSE B + 24 * C)

\* A packet p: [seg, Qm, G]. Gp modulation symbols are shared out among the blocks.
Gp(p) == p.G \div p.Qm
gamma(p) == Gp(p) % p.seg.C
Share(p) == p.Qm * (Gp(p) \div p.seg.C)

\* pdc_encode_codeblocks: size of block i, and the write pointer once i blocks are encoded
n_e(p, i) == IF i <= p.seg.C - gamma(p) - 1 THEN Share(p) ELSE p.Qm * CeilDiv(Gp(p), p.seg.C)
wp_enc(p, i) == LET large == i - (p.seg.C - gamma(p))
                IN  i * Share(p) + (IF large > 0 THEN large * p.Qm ELSE 0)
\* the number of blocks encoded after the call, if there were i before and that many bits are due
Encode(p, i, nof_d_bits_minimum) ==
    Least({j \in i..p.seg.C : j = p.seg.C \/ wp_enc(p, j) >= nof_d_bits_minimum})

\* pdc_decode_codeblocks: the bits of block i start at rp and are n_e2 in number
n_e2(p, i) == IF i > p.seg.C - gamma(p) THEN Share(p) + p.Qm ELSE Share(p)
rp_EqualShares(p, i) == i * Share(p)
rp(p, i) == IF i > p.seg.C - gamma(p)
            THEN (p.seg.C - gamma(p)) * Share(p) + (i - (p.seg.C - gamma(p))) * n_e2(p, i)
            ELSE i * Share(p)
Decode(p, i, nof_d_bits_maximum) ==
    Greatest({j \in i..p.seg.C : \A k \in i..j - 1 : rp(p, k) + n_e2(p, k) <= nof_d_bits_maximum})
\* bits of the transport block and its CRC written once i blocks are decoded
wp_dec(p, i) == LET crc == IF p.seg.C = 1 THEN 0 ELSE 24
                    short == IF i < p.seg.C2 THEN i ELSE p.seg.C2
                IN  short * (p.seg.K2 - crc) + (i - short) * (p.seg.K1 - crc)
=============================================================================
