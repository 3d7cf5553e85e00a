---------------------------- MODULE PacketProofs ----------------------------
(***************************************************************************)
(* Packets, in two parts.                                                  *)
(*                                                                         *)
(* The decoder of MAC PDUs takes any octets: whatever a packet contains,   *)
(* however its octets are cut into symbols and whatever an earlier packet  *)
(* left in the buffer, no assertion fails, as long as the build activates  *)
(* no type of which unpack() relies on valid fields.  The build of the     *)
(* repository is one of these.                                             *)
(*                                                                         *)
(* The cells of a packet: whatever its sizes, the transmitter never maps a *)
(* bit that is not encoded yet, and the receiver decodes a code block as   *)
(* soon as its bits are there, from where the encoder put them.  The       *)
(* channel is interpolated from the pilots that the look up table was made *)
(* for, with estimates that are no older than the stride.  Pilots, PCC and *)
(* PDC fill every occupied subcarrier of every symbol exactly once.        *)
(* Whatever the receiver reads from its stage for a symbol is what the     *)
(* transmitter wrote there, as long as the MCS is one that both accept.    *)
(***************************************************************************)
EXTENDS PacketReception, PacketGrid, FiniteSetTheorems, SequenceTheorems,
        WellFoundedInduction, TLAPS

-----------------------------------------------------------------------------
(* Any octets. *)

(* The types whose unpack() neither asserts that the fields are valid nor  *)
(* raises an exception if one is missing (mmie_activate.hpp).              *)
Robust ==
  {"Padding", "HigherLayerSignalling", "UserPlaneData", "NetworkBeacon", "ClusterBeacon",
   "AssociationRelease", "SecurityInfo", "RouteInfo", "RadioDeviceStatus", "PowerTarget",
   "TimeAnnounce", "MeasurementReport"}

States ==
  {"MAC_HEADER_TYPE", "MAC_COMMON_HEADER", "MAC_MUX_HEADER_UNPACK_MAC_EXT_IE_TYPE",
   "A_MAC_MUX_HEADER_UNPACK_LENGTH_OR_FIXED_SIZE", "B_MAC_MESSAGE_IE_PEEK", "MAC_MESSAGE_IE_UNPACK",
   "MAC_PDU_CHECK_IF_DONE", "MAC_PDU_DONE", "MAC_PDU_PREMATURE_ABORT"}

(* What each state relies on.  The octet of the multiplexing header is     *)
(* read twice, the first time maybe before the symbols that bring its      *)
(* length: it must have been written by then, and still lead to the type.  *)
StateInv ==
  /\ state = "MAC_HEADER_TYPE" => N_bytes_required = 1
  /\ state = "MAC_MUX_HEADER_UNPACK_MAC_EXT_IE_TYPE" => N_bytes_required = 1
  /\ state = "A_MAC_MUX_HEADER_UNPACK_LENGTH_OR_FIXED_SIZE" =>
       /\ a_cnt_r < a_cnt_w
       /\ mmie = unpack_mac_ext_ie_type(packet.tb[a_cnt_r + 1], Activated)
       /\ mmie \in Robust \ ({"Padding"} \cup Peeking)
       /\ N_bytes_required = Mmh_Size(packet.tb[a_cnt_r + 1])
  /\ state = "B_MAC_MESSAGE_IE_PEEK" =>
       mmie \in Robust \cap Peeking /\ N_bytes_required = MinToPeek[mmie]
  /\ state = "MAC_MESSAGE_IE_UNPACK" => mmie \in Robust \ {"Padding"}
  /\ state = "MAC_PDU_DONE" => ~running /\ a_cnt_r = a_cnt_w_tb
  /\ state = "MAC_PDU_PREMATURE_ABORT" => N_bytes_required = 0

(* Between two calls of decode() the decoder has read all there is, or it  *)
(* waits for octets that the transport block still has.                    *)
RestInv ==
  \/ a_cnt_w = 0
  \/ state \in {"MAC_PDU_PREMATURE_ABORT", "MAC_PDU_DONE"} /\ a_cnt_r = a_cnt_w
  \/ a_cnt_w < a_cnt_r + N_bytes_required /\ a_cnt_r + N_bytes_required <= a_cnt_w_tb

DecoderInv ==
  /\ packet \in Packets /\ Activated \subseteq Robust /\ stale \in 0..255
  /\ a_cnt_w \in Nat /\ a_cnt_r \in Nat /\ a_cnt_r <= a_cnt_w
  /\ N_bytes_required \in Nat /\ state \in States /\ running \in BOOLEAN
  /\ assertion = "none"
  /\ running => phase = "pdc"
  /\ phase = "pdc" => a_cnt_w <= a_cnt_w_tb /\ StateInv
  /\ phase = "pdc" /\ ~running => RestInv

-----------------------------------------------------------------------------
(* Bit fields and optional fields. *)

(* A field of n bits is less than 2^n. *)
LEMMA FieldRange ==
  ASSUME NEW x \in Nat
  PROVE  /\ Field(x, 0, 1) \in 0..1 /\ Field(x, 1, 1) \in 0..1 /\ Field(x, 2, 1) \in 0..1
         /\ Field(x, 3, 1) \in 0..1 /\ Field(x, 4, 1) \in 0..1 /\ Field(x, 5, 1) \in 0..1
         /\ Field(x, 6, 2) \in 0..3 /\ Field(x, 0, 2) \in 0..3 /\ Field(x, 0, 4) \in 0..15
<1>1. /\ 2^0 = 1 /\ 2^1 = 2 /\ 2^2 = 4 /\ 2^3 = 8 /\ 2^4 = 16 /\ 2^5 = 32 /\ 2^6 = 64
  OBVIOUS
<1>2. \A y \in Nat \ {0} : x \div y \in Int
  OBVIOUS
<1>3. \A y \in Int : y % 2 \in 0..1 /\ y % 4 \in 0..3 /\ y % 16 \in 0..15
  OBVIOUS
<1> QED  BY <1>1, <1>2, <1>3, SMTT(60) DEF Field

(* A number of one octet or two is less than 256 or 65536. *)
Numbers(o) ==
  /\ b2l_lower(o, 1, 1) \in 0..255
  /\ b2l_lower(o, 1, 2) \in Nat /\ b2l_lower(o, 1, 2) <= 65535

LEMMA NumberRange ==
  ASSUME NEW o, NEW x \in 0..255, NEW y \in 0..255, o[2] = x, o[3] = y
  PROVE  Numbers(o)
<1> DEFINE F(n, v) == [i \in 0..n |-> IF i = 0 THEN 0 ELSE 256 * v[i - 1] + o[1 + i]]
           one == x
           two == 256 * x + y
<1>1. one \in 0..255 /\ two \in Nat /\ two <= 65535
  OBVIOUS
<1>2. ASSUME NEW n \in 1..2
      PROVE  b2l_lower(o, 1, n) = IF n = 1 THEN one ELSE two
  <2> DEFINE w == [i \in 0..n |-> IF i = 0 THEN 0 ELSE IF i = 1 THEN one ELSE two]
             v == CHOOSE v : v = F(n, v)
  <2>1. w = F(n, w)
    <3>1. w[0] = 0 /\ w[1] = one /\ (n = 2 => w[2] = two)
      OBVIOUS
    <3>2. 256 * w[0] + o[1 + 1] = one /\ 256 * w[1] + o[1 + 2] = two
      <4> HIDE DEF w
      <4> QED  BY <3>1
    <3>3. SUFFICES ASSUME NEW i \in 0..n PROVE w[i] = F(n, w)[i]
      <4> DEFINE u == F(n, w)
      <4>1. /\ DOMAIN w = 0..n /\ w = [i \in DOMAIN w |-> w[i]]
            /\ DOMAIN u = 0..n /\ u = [i \in DOMAIN u |-> u[i]]
        OBVIOUS
      <4> HIDE DEF w, u
      <4> QED  BY <4>1 DEF u
    <3>4. F(n, w)[i] = IF i = 0 THEN 0 ELSE 256 * w[i - 1] + o[1 + i]
      <4> HIDE DEF w
      <4> QED  OBVIOUS
    <3>5. i = 0 \/ i = 1 \/ (i = 2 /\ n = 2)
      OBVIOUS
    <3> HIDE DEF F, w, one, two
    <3> QED  BY <3>1, <3>2, <3>4, <3>5
  <2>2. v = F(n, v)
    <3> HIDE DEF F, w
    <3> QED  BY <2>1
  <2>3. b2l_lower(o, 1, n) = v[n]
    BY DEF b2l_lower
  <2> HIDE DEF v
  <2>4. \A i \in 0..n : v[i] = IF i = 0 THEN 0 ELSE 256 * v[i - 1] + o[1 + i]
    <3> DEFINE u == F(n, v)
    <3>1. \A i \in 0..n : u[i] = IF i = 0 THEN 0 ELSE 256 * v[i - 1] + o[1 + i]
      OBVIOUS
    <3> QED  BY <2>2, <3>1
  <2> HIDE DEF F
  <2>5. v[0] = 0 /\ v[1] = one
    BY <2>4
  <2>6. n = 2 => v[2] = two
    BY <2>4, <2>5
  <2> QED  BY <2>3, <2>5, <2>6
<1> HIDE DEF one, two
<1> QED  BY <1>1, <1>2 DEF Numbers

Nothing(at) == [at |-> at, m |-> << >>]

Solves(w, o, at, items) ==
  w = [n \in 0..Len(items) |-> IF n = 0 THEN Nothing(at) ELSE OptionalField(o, w[n - 1], items[n])]

Reads(parts, o, at, items) ==
  parts[0] = Nothing(at) /\ \A n \in 1..Len(items) : parts[n] = OptionalField(o, parts[n - 1], items[n])

(* Optionals reads one field after the other.  That its recursion has a    *)
(* solution is shown by naming one, w.                                     *)
LEMMA OptionalsSteps ==
  ASSUME NEW o, NEW at, NEW items, Len(items) \in Nat, NEW w, Solves(w, o, at, items)
  PROVE  \E parts : Reads(parts, o, at, items) /\ Optionals(o, at, items) = parts[Len(items)]
<1> DEFINE R(r) == [n \in 0..Len(items) |->
                      IF n = 0 THEN Nothing(at) ELSE OptionalField(o, r[n - 1], items[n])]
           parts == CHOOSE r : r = R(r)
<1>1. w = R(w)
  BY DEF Solves
<1>2. parts = R(parts)
  <2> HIDE DEF R
  <2> QED  BY <1>1
<1>3. Optionals(o, at, items) = parts[Len(items)]
  BY DEF Optionals, Nothing
<1> HIDE DEF parts
<1> DEFINE s == R(parts)
<1>4. s[0] = Nothing(at) /\ \A n \in 1..Len(items) : s[n] = OptionalField(o, parts[n - 1], items[n])
  OBVIOUS
<1> QED  BY <1>2, <1>3, <1>4 DEF Reads

(* Four fields, and five. *)
LEMMA OptionalsFour ==
  ASSUME NEW o, NEW at, NEW a, NEW bb, NEW c, NEW d
  PROVE  \E r1, r2, r3, r4 :
           /\ r1 = OptionalField(o, Nothing(at), a) /\ r2 = OptionalField(o, r1, bb)
           /\ r3 = OptionalField(o, r2, c) /\ r4 = OptionalField(o, r3, d)
           /\ Optionals(o, at, <<a, bb, c, d>>) = r4
<1> DEFINE items == <<a, bb, c, d>>
           q1 == OptionalField(o, Nothing(at), a)
           q2 == OptionalField(o, q1, bb)
           q3 == OptionalField(o, q2, c)
           q4 == OptionalField(o, q3, d)
           w == [n \in 0..4 |-> IF n = 0 THEN Nothing(at) ELSE IF n = 1 THEN q1 ELSE IF n = 2 THEN q2
                                ELSE IF n = 3 THEN q3 ELSE q4]
           v == [n \in 0..4 |-> IF n = 0 THEN Nothing(at) ELSE OptionalField(o, w[n - 1], items[n])]
<1>1. Len(items) = 4 /\ items[1] = a /\ items[2] = bb /\ items[3] = c /\ items[4] = d
  OBVIOUS
<1> HIDE DEF items
<1>2. w = v
  <2>1. SUFFICES ASSUME NEW n \in 0..4 PROVE w[n] = v[n]
    OBVIOUS
  <2>2. n = 0 \/ n = 1 \/ n = 2 \/ n = 3 \/ n = 4
    OBVIOUS
  <2> QED  BY <2>2, <1>1
<1>3. PICK parts : /\ Optionals(o, at, items) = parts[4] /\ parts[0] = Nothing(at)
                  /\ \A n \in 1..4 : parts[n] = OptionalField(o, parts[n - 1], items[n])
  <2> HIDE DEF w
  <2>0. Len(items) \in Nat
    BY <1>1
  <2>1. Solves(w, o, at, items)
    BY <1>1, <1>2 DEF Solves
  <2>2. \E parts : Reads(parts, o, at, items) /\ Optionals(o, at, items) = parts[Len(items)]
    BY <2>0, <2>1, OptionalsSteps
  <2> QED  BY <1>1, <2>2 DEF Reads
<1>4. /\ parts[1] = OptionalField(o, parts[0], a) /\ parts[2] = OptionalField(o, parts[1], bb)
      /\ parts[3] = OptionalField(o, parts[2], c) /\ parts[4] = OptionalField(o, parts[3], d)
  BY <1>1, <1>3
<1> QED  BY <1>3, <1>4 DEF items

LEMMA OptionalsFive ==
  ASSUME NEW o, NEW at, NEW a, NEW bb, NEW c, NEW d, NEW e
  PROVE  \E r1, r2, r3, r4, r5 :
           /\ r1 = OptionalField(o, Nothing(at), a) /\ r2 = OptionalField(o, r1, bb)
           /\ r3 = OptionalField(o, r2, c) /\ r4 = OptionalField(o, r3, d)
           /\ r5 = OptionalField(o, r4, e)
           /\ Optionals(o, at, <<a, bb, c, d, e>>) = r5
<1> DEFINE items == <<a, bb, c, d, e>>
           q1 == OptionalField(o, Nothing(at), a)
           q2 == OptionalField(o, q1, bb)
           q3 == OptionalField(o, q2, c)
           q4 == OptionalField(o, q3, d)
           q5 == OptionalField(o, q4, e)
           w == [n \in 0..5 |-> IF n = 0 THEN Nothing(at) ELSE IF n = 1 THEN q1 ELSE IF n = 2 THEN q2
                                ELSE IF n = 3 THEN q3 ELSE IF n = 4 THEN q4 ELSE q5]
           v == [n \in 0..5 |-> IF n = 0 THEN Nothing(at) ELSE OptionalField(o, w[n - 1], items[n])]
<1>1. /\ Len(items) = 5
      /\ items[1] = a /\ items[2] = bb /\ items[3] = c /\ items[4] = d /\ items[5] = e
  OBVIOUS
<1> HIDE DEF items
<1>2. w = v
  <2>1. SUFFICES ASSUME NEW n \in 0..5 PROVE w[n] = v[n]
    OBVIOUS
  <2>2. n = 0 \/ n = 1 \/ n = 2 \/ n = 3 \/ n = 4 \/ n = 5
    OBVIOUS
  <2> QED  BY <2>2, <1>1
<1>3. PICK parts : /\ Optionals(o, at, items) = parts[5] /\ parts[0] = Nothing(at)
                  /\ \A n \in 1..5 : parts[n] = OptionalField(o, parts[n - 1], items[n])
  <2> HIDE DEF w
  <2>0. Len(items) \in Nat
    BY <1>1
  <2>1. Solves(w, o, at, items)
    BY <1>1, <1>2 DEF Solves
  <2>2. \E parts : Reads(parts, o, at, items) /\ Optionals(o, at, items) = parts[Len(items)]
    BY <2>0, <2>1, OptionalsSteps
  <2> QED  BY <1>1, <2>2 DEF Reads
<1>4. /\ parts[1] = OptionalField(o, parts[0], a) /\ parts[2] = OptionalField(o, parts[1], bb)
      /\ parts[3] = OptionalField(o, parts[2], c) /\ parts[4] = OptionalField(o, parts[3], d)
      /\ parts[5] = OptionalField(o, parts[4], e)
  BY <1>1, <1>3
<1> QED  BY <1>3, <1>4 DEF items

(* An optional field takes its octets, and its name is new, if it is there. *)
Took(s, r, name, there, n) ==
  /\ s.at = IF there = 0 THEN r.at ELSE r.at + n
  /\ DOMAIN s.m = IF there = 0 THEN DOMAIN r.m ELSE {name} \cup DOMAIN r.m

LEMMA OptionalFieldReads ==
  ASSUME NEW o, NEW r, NEW name, NEW there \in 0..1, NEW n, NEW bits
  PROVE  Took(OptionalField(o, r, <<name, there, n, bits>>), r, name, there, n)
  BY DEF OptionalField, Took

-----------------------------------------------------------------------------
(* unpack() stops where get_packed_size() of what it has read says.        *)

LEMMA NetworkBeaconAt ==
  ASSUME NEW o, o[1] \in Nat
  PROVE  NetworkBeacon_Unpack(o).at = NetworkBeacon_Size(NetworkBeacon_Unpack(o).m)
<1> DEFINE channels == Field(o[1], 0, 2)
           Included(n) == IF channels >= n THEN 1 ELSE 0
           p == Field(o[1], 4, 1)
           c == Field(o[1], 2, 1)
           items == << <<"clusters_max_tx_power", p, 1, 4>>,
                       <<"current_cluster_channel", c, 2, 5>>,
                       <<"network_beacon_channel_0", Included(1), 2, 5>>,
                       <<"network_beacon_channel_1", Included(2), 2, 5>>,
                       <<"network_beacon_channel_2", Included(3), 2, 5>> >>
           r == Optionals(o, 8, items)
           head == [has_power_constraints |-> Field(o[1], 3, 1),
                    network_beacon_period |-> Field(o[2], 4, 4),
                    cluster_beacon_period |-> Field(o[2], 0, 4),
                    next_cluster_channel |-> o[4] + (Field(o[3], 0, 5) * 256),
                    time_to_next |-> b2l_lower(o, 4, 4)]
           m == Merge(head, r.m)
<1>1. NetworkBeacon_Unpack(o) = [at |-> r.at, m |-> m]
  BY DEF NetworkBeacon_Unpack
<1>2. p \in 0..1 /\ c \in 0..1 /\ Included(1) \in 0..1 /\ Included(2) \in 0..1 /\ Included(3) \in 0..1
  BY FieldRange
<1> HIDE DEF p, c, Included
<1>3. PICK r1, r2, r3, r4, r5 :
        /\ r1 = OptionalField(o, Nothing(8), <<"clusters_max_tx_power", p, 1, 4>>)
        /\ r2 = OptionalField(o, r1, <<"current_cluster_channel", c, 2, 5>>)
        /\ r3 = OptionalField(o, r2, <<"network_beacon_channel_0", Included(1), 2, 5>>)
        /\ r4 = OptionalField(o, r3, <<"network_beacon_channel_1", Included(2), 2, 5>>)
        /\ r5 = OptionalField(o, r4, <<"network_beacon_channel_2", Included(3), 2, 5>>)
        /\ r = r5
  BY OptionalsFive
<1>took.
      /\ Took(r1, Nothing(8), "clusters_max_tx_power", p, 1)
      /\ Took(r2, r1, "current_cluster_channel", c, 2)
      /\ Took(r3, r2, "network_beacon_channel_0", Included(1), 2)
      /\ Took(r4, r3, "network_beacon_channel_1", Included(2), 2)
      /\ Took(r, r4, "network_beacon_channel_2", Included(3), 2)
  BY <1>2, <1>3, OptionalFieldReads, SMTT(60)
<1> HIDE DEF r
<1>4. /\ r1.at = IF p = 0 THEN 8 ELSE 9
      /\ DOMAIN r1.m = IF p = 0 THEN {} ELSE {"clusters_max_tx_power"}
  BY <1>took DEF Took, Nothing
<1>5. /\ r2.at = IF c = 0 THEN r1.at ELSE r1.at + 2
      /\ DOMAIN r2.m = IF c = 0 THEN DOMAIN r1.m ELSE {"current_cluster_channel"} \cup DOMAIN r1.m
  BY <1>took DEF Took
<1>6. /\ r3.at = IF Included(1) = 0 THEN r2.at ELSE r2.at + 2
      /\ DOMAIN r3.m = IF Included(1) = 0 THEN DOMAIN r2.m
                       ELSE {"network_beacon_channel_0"} \cup DOMAIN r2.m
  BY <1>took DEF Took
<1>7. /\ r4.at = IF Included(2) = 0 THEN r3.at ELSE r3.at + 2
      /\ DOMAIN r4.m = IF Included(2) = 0 THEN DOMAIN r3.m
                       ELSE {"network_beacon_channel_1"} \cup DOMAIN r3.m
  BY <1>took DEF Took
<1>8. /\ r.at = IF Included(3) = 0 THEN r4.at ELSE r4.at + 2
      /\ DOMAIN r.m = IF Included(3) = 0 THEN DOMAIN r4.m
                      ELSE {"network_beacon_channel_2"} \cup DOMAIN r4.m
  BY <1>took DEF Took
<1>9. DOMAIN m = {"has_power_constraints", "network_beacon_period", "cluster_beacon_period",
                  "next_cluster_channel", "time_to_next"} \cup DOMAIN r.m
  BY DEF Merge
<1> HIDE DEF m
<1>10. /\ Has(m, "clusters_max_tx_power") = p /\ Has(m, "current_cluster_channel") = c
       /\ Has(m, "network_beacon_channel_0") = Included(1)
       /\ Has(m, "network_beacon_channel_1") = Included(2)
       /\ Has(m, "network_beacon_channel_2") = Included(3)
  BY <1>2, <1>4, <1>5, <1>6, <1>7, <1>8, <1>9 DEF Has
<1>11. r.at = 8 + p + 2 * c + 2 * (Included(1) + Included(2) + Included(3))
  BY <1>2, <1>4, <1>5, <1>6, <1>7, <1>8
<1> QED  BY <1>1, <1>10, <1>11 DEF NetworkBeacon_Size, NetworkBeacon_Channels

LEMMA ClusterBeaconAt ==
  ASSUME NEW o, o[2] \in Nat, NEW u
  PROVE  ClusterBeacon_Unpack(o, u).at = ClusterBeacon_Size(ClusterBeacon_Unpack(o, u).m, u)
<1> DEFINE p == Field(o[2], 4, 1)
           f == Field(o[2], 2, 1)
           c == Field(o[2], 1, 1)
           t == Field(o[2], 0, 1)
           n == FrameOffsetSize(u)
           items == << <<"clusters_max_tx_power", p, 1, 4>>,
                       <<"frame_offset", f, n, 8>>,
                       <<"next_cluster_channel", c, 2, 5>>,
                       <<"time_to_next", t, 4, 8>> >>
           r == Optionals(o, 4, items)
           head == [system_frame_number |-> o[1],
                    has_power_constraints |-> Field(o[2], 3, 1),
                    network_beacon_period |-> Field(o[3], 4, 4),
                    cluster_beacon_period |-> Field(o[3], 0, 4),
                    count_to_trigger |-> Field(o[4], 4, 4),
                    rel_quality |-> Field(o[4], 2, 2),
                    min_quality |-> Field(o[4], 0, 2)]
           m == Merge(head, r.m)
<1>1. ClusterBeacon_Unpack(o, u) = [at |-> r.at, m |-> m]
  BY DEF ClusterBeacon_Unpack
<1>2. p \in 0..1 /\ f \in 0..1 /\ c \in 0..1 /\ t \in 0..1 /\ n \in 1..2
  BY FieldRange DEF FrameOffsetSize
<1> HIDE DEF p, f, c, t, n
<1>3. PICK r1, r2, r3, r4 :
        /\ r1 = OptionalField(o, Nothing(4), <<"clusters_max_tx_power", p, 1, 4>>)
        /\ r2 = OptionalField(o, r1, <<"frame_offset", f, n, 8>>)
        /\ r3 = OptionalField(o, r2, <<"next_cluster_channel", c, 2, 5>>)
        /\ r4 = OptionalField(o, r3, <<"time_to_next", t, 4, 8>>)
        /\ r = r4
  BY OptionalsFour
<1>took.
      /\ Took(r1, Nothing(4), "clusters_max_tx_power", p, 1)
      /\ Took(r2, r1, "frame_offset", f, n)
      /\ Took(r3, r2, "next_cluster_channel", c, 2)
      /\ Took(r, r3, "time_to_next", t, 4)
  BY <1>2, <1>3, OptionalFieldReads
<1> HIDE DEF r
<1>4. /\ r1.at = IF p = 0 THEN 4 ELSE 5
      /\ DOMAIN r1.m = IF p = 0 THEN {} ELSE {"clusters_max_tx_power"}
  BY <1>took DEF Took, Nothing
<1>5. /\ r2.at = IF f = 0 THEN r1.at ELSE r1.at + n
      /\ DOMAIN r2.m = IF f = 0 THEN DOMAIN r1.m ELSE {"frame_offset"} \cup DOMAIN r1.m
  BY <1>took DEF Took
<1>6. /\ r3.at = IF c = 0 THEN r2.at ELSE r2.at + 2
      /\ DOMAIN r3.m = IF c = 0 THEN DOMAIN r2.m ELSE {"next_cluster_channel"} \cup DOMAIN r2.m
  BY <1>took DEF Took
<1>7. /\ r.at = IF t = 0 THEN r3.at ELSE r3.at + 4
      /\ DOMAIN r.m = IF t = 0 THEN DOMAIN r3.m ELSE {"time_to_next"} \cup DOMAIN r3.m
  BY <1>took DEF Took
<1>8. DOMAIN m = {"system_frame_number", "has_power_constraints", "network_beacon_period",
                  "cluster_beacon_period", "count_to_trigger", "rel_quality", "min_quality"}
                 \cup DOMAIN r.m
  BY DEF Merge
<1> HIDE DEF m
<1>9. /\ Has(m, "clusters_max_tx_power") = p /\ Has(m, "frame_offset") = f
      /\ Has(m, "next_cluster_channel") = c /\ Has(m, "time_to_next") = t
  BY <1>2, <1>4, <1>5, <1>6, <1>7, <1>8 DEF Has
<1>10. r.at = 4 + p + f * n + 2 * c + 4 * t
  <2>1. f * n = IF f = 0 THEN 0 ELSE n
    BY <1>2
  <2> QED  BY <1>2, <1>4, <1>5, <1>6, <1>7, <2>1
<1> QED  BY <1>1, <1>9, <1>10 DEF ClusterBeacon_Size, n

LEMMA MeasurementReportAt ==
  ASSUME NEW o, o[1] \in Nat
  PROVE  MeasurementReport_Unpack(o).at = MeasurementReport_Size(MeasurementReport_Unpack(o).m)
<1> DEFINE a == Field(o[1], 4, 1)
           bb == Field(o[1], 3, 1)
           c == Field(o[1], 2, 1)
           d == Field(o[1], 1, 1)
           items == << <<"measurement_result_snr", a, 1, 8>>,
                       <<"measurement_result_rssi_2", bb, 1, 8>>,
                       <<"measurement_result_rssi_1", c, 1, 8>>,
                       <<"measurement_result_tx_count", d, 1, 8>> >>
           r == Optionals(o, 1, items)
           m == Merge([rach |-> Field(o[1], 0, 1)], r.m)
           Counted(x) == IsFiniteSet(DOMAIN x.m) /\ x.at = 1 + Cardinality(DOMAIN x.m)
<1>1. MeasurementReport_Unpack(o) = [at |-> r.at, m |-> m]
  BY DEF MeasurementReport_Unpack
<1>2. a \in 0..1 /\ bb \in 0..1 /\ c \in 0..1 /\ d \in 0..1
  BY FieldRange
<1> HIDE DEF a, bb, c, d
<1>3. PICK r1, r2, r3, r4 :
        /\ r1 = OptionalField(o, Nothing(1), <<"measurement_result_snr", a, 1, 8>>)
        /\ r2 = OptionalField(o, r1, <<"measurement_result_rssi_2", bb, 1, 8>>)
        /\ r3 = OptionalField(o, r2, <<"measurement_result_rssi_1", c, 1, 8>>)
        /\ r4 = OptionalField(o, r3, <<"measurement_result_tx_count", d, 1, 8>>)
        /\ r = r4
  BY OptionalsFour
<1>took.
      /\ Took(r1, Nothing(1), "measurement_result_snr", a, 1)
      /\ Took(r2, r1, "measurement_result_rssi_2", bb, 1)
      /\ Took(r3, r2, "measurement_result_rssi_1", c, 1)
      /\ Took(r, r3, "measurement_result_tx_count", d, 1)
  BY <1>2, <1>3, OptionalFieldReads
<1> HIDE DEF r
<1>4. ASSUME NEW s, NEW x, NEW name, NEW there \in 0..1, Counted(x), name \notin DOMAIN x.m,
             Took(s, x, name, there, 1)
      PROVE  Counted(s)
  <2>1. CASE there = 0
    BY <2>1, <1>4 DEF Took
  <2>2. CASE there = 1
    <3>1. DOMAIN s.m = DOMAIN x.m \cup {name} /\ s.at = x.at + 1
      BY <2>2, <1>4 DEF Took
    <3>2. /\ IsFiniteSet(DOMAIN x.m \cup {name})
          /\ Cardinality(DOMAIN x.m \cup {name}) = Cardinality(DOMAIN x.m) + 1
          /\ Cardinality(DOMAIN x.m) \in Nat
      BY <1>4, FS_AddElement, FS_CardinalityType
    <3> QED  BY <1>4, <3>1, <3>2
  <2> QED  BY <2>1, <2>2
<1>5. Counted(Nothing(1)) /\ DOMAIN Nothing(1).m = {}
  BY FS_EmptySet DEF Nothing
<1>6. /\ "measurement_result_rssi_2" \notin DOMAIN r1.m
      /\ "measurement_result_rssi_1" \notin DOMAIN r2.m
      /\ "measurement_result_tx_count" \notin DOMAIN r3.m
      /\ "rach" \notin DOMAIN r.m
  BY <1>took, <1>5 DEF Took
<1>7. Counted(r)
  <2> HIDE DEF Counted
  <2>1. Counted(r1)
    BY <1>2, <1>4, <1>5, <1>took
  <2>2. Counted(r2)
    BY <2>1, <1>2, <1>4, <1>6, <1>took
  <2>3. Counted(r3)
    BY <2>2, <1>2, <1>4, <1>6, <1>took
  <2> QED  BY <2>3, <1>2, <1>4, <1>6, <1>took
<1>8. DOMAIN m \ {"rach"} = DOMAIN r.m
  <2>1. DOMAIN m = {"rach"} \cup DOMAIN r.m
    BY DEF Merge
  <2> QED  BY <2>1, <1>6
<1>9. /\ MeasurementReport_Unpack(o).at = r.at
      /\ MeasurementReport_Unpack(o).m = m
  BY <1>1
<1> HIDE DEF m
<1> QED  BY <1>7, <1>8, <1>9 DEF MeasurementReport_Size

-----------------------------------------------------------------------------
(* The octets of the buffer, and what the multiplexing header makes of them. *)

(* At every position in reach lies an octet, and what has been written is  *)
(* the octet of the transport block.                                       *)
LEMMA BufferOctets ==
  ASSUME packet.tb \in Seq(0..255), stale \in 0..255, a_cnt_w \in Nat, a_cnt_w <= a_cnt_w_tb,
         NEW k \in Nat, k <= a_cnt_w, NEW i \in 1..16
  PROVE  /\ Buffer(k)[i] \in 0..255
         /\ k + i <= a_cnt_w => Buffer(k)[i] = packet.tb[k + i]
<1>1. a_cnt_w_tb \in Nat /\ \A j \in 1..a_cnt_w_tb : packet.tb[j] \in 0..255
  <2> DEFINE tb == packet.tb
  <2>1. tb \in Seq(0..255) /\ a_cnt_w_tb = Len(tb)
    BY DEF a_cnt_w_tb
  <2>2. Len(tb) \in Nat /\ \A j \in 1..Len(tb) : tb[j] \in 0..255
    <3> HIDE DEF tb
    <3> QED  BY <2>1, LenProperties
  <2> QED  BY <2>1, <2>2
<1>2. i \in 1..(a_cnt_w_tb - k + 16)
  BY <1>1
<1>3. Buffer(k)[i] = IF k + i <= a_cnt_w THEN packet.tb[k + i] ELSE stale
  BY <1>2 DEF Buffer
<1>4. k + i <= a_cnt_w => k + i \in 1..a_cnt_w_tb
  BY <1>1
<1> QED  BY <1>1, <1>3, <1>4, ZenonT(60)

\* The first octets of what is left in the buffer.
LEMMA FirstOctets ==
  ASSUME packet.tb \in Seq(0..255), stale \in 0..255, a_cnt_w \in Nat, a_cnt_w <= a_cnt_w_tb,
         NEW k \in Nat, k <= a_cnt_w
  PROVE  /\ Buffer(k)[1] \in 0..255 /\ Buffer(k)[2] \in 0..255 /\ Buffer(k)[3] \in 0..255
         /\ k + 1 <= a_cnt_w => Buffer(k)[1] = packet.tb[k + 1]
<1>1. 1 \in 1..16 /\ 2 \in 1..16 /\ 3 \in 1..16
  OBVIOUS
<1>2. Buffer(k)[1] \in 0..255 /\ (k + 1 <= a_cnt_w => Buffer(k)[1] = packet.tb[k + 1])
  BY <1>1, BufferOctets, ZenonT(60)
<1>3. Buffer(k)[2] \in 0..255
  BY <1>1, BufferOctets, ZenonT(60)
<1>4. Buffer(k)[3] \in 0..255
  BY <1>1, BufferOctets, ZenonT(60)
<1> QED  BY <1>2, <1>3, <1>4, Zenon

(* A type that is found is activated and fits the extension field.         *)
LEMMA TypeFound ==
  ASSUME NEW octet \in 0..255, NEW B, B \subseteq Robust,
         NEW type, type = unpack_mac_ext_ie_type(octet, B), type \notin {"nullptr", "Padding"}
  PROVE  /\ type \in Robust
         /\ Field(octet, 6, 2) = 0 => type \in Peeking \cup DOMAIN FixedSize
         /\ Field(octet, 6, 2) \in 1..2 => type \in Flowing
         /\ Field(octet, 6, 2) = 3 => type = "RadioDeviceStatus"
<1> DEFINE ext == Field(octet, 6, 2)
           table == IF ext = 3 THEN OneBitTypes[Field(octet, 5, 1) + 1] ELSE IeTypes
           code == Field(octet, 0, IF ext = 3 THEN 5 ELSE 6)
           found == {t \in DOMAIN table \cap B : code \in table[t] /\ (ext = 3 \/ t \in TypesOfExt(ext))}
<1>1. type = IF found = {} THEN "nullptr" ELSE CHOOSE t \in found : TRUE
  BY DEF unpack_mac_ext_ie_type
<1>2. type \in found
  BY <1>1
<1>3. type \in DOMAIN table /\ type \in Robust /\ (ext = 3 \/ type \in TypesOfExt(ext))
  BY <1>2
<1>4. ext \in 0..3 /\ Field(octet, 5, 1) \in 0..1
  BY FieldRange
<1>5. ext = 3 => type \in {"Padding", "ConfigurationRequest", "RadioDeviceStatus"}
  <2> HAVE ext = 3
  <2>1. table = OneBitTypes[1] \/ table = OneBitTypes[2]
    BY <1>4
  <2>2. DOMAIN OneBitTypes[1] = {"Padding", "ConfigurationRequest"}
        /\ DOMAIN OneBitTypes[2] = {"Padding", "RadioDeviceStatus"}
    BY DEF OneBitTypes
  <2> HIDE DEF table
  <2> QED  BY <1>3, <2>1, <2>2
<1>6. ext # 3 => type \in DOMAIN IeTypes /\ type \in TypesOfExt(ext)
  BY <1>3
<1> HIDE DEF ext, table, found
<1>7. ext = 0 => type \in DOMAIN IeTypes \ (Flowing \cup {"GroupAssignment"})
  BY <1>6 DEF TypesOfExt
<1>8. ext \in 1..2 => type \in Flowing \cup {"GroupAssignment", "Padding"}
  BY <1>6 DEF TypesOfExt
<1>9. "GroupAssignment" \notin Robust /\ "ConfigurationRequest" \notin Robust
  BY DEF Robust
<1>10. Robust \subseteq Peeking \cup DOMAIN FixedSize \cup Flowing \cup {"Padding"}
  BY DEF Robust, Peeking, MinToPeek, FixedSize, Flowing
<1>11. ext = 0 => type \in Peeking \cup DOMAIN FixedSize
  BY <1>3, <1>7, <1>10
<1> QED  BY <1>3, <1>5, <1>8, <1>9, <1>11 DEF ext

(* The length that follows from a multiplexing header is a number.         *)
LengthOf(o, type) ==
  LET length == unpack_length(o) IN IF length < UNDEFINED_NUMERIC_32 THEN length ELSE FixedSize[type]

LEMMA LengthFound ==
  ASSUME NEW o, NEW x \in 0..255, NEW y \in 0..255, NEW z \in 0..255,
         o[1] = x, o[2] = y, o[3] = z, NEW type,
         Field(x, 6, 2) = 0 => type \in DOMAIN FixedSize
  PROVE  LengthOf(o, type) \in Nat
<1> DEFINE ext == Field(x, 6, 2)
           length == unpack_length(o)
<1>1. ext \in 0..3 /\ Field(x, 5, 1) \in 0..1
  BY FieldRange
<1>2. length = CASE ext = 0 -> UNDEFINED_NUMERIC_32
                 [] ext \in 1..2 -> b2l_lower(o, 1, ext)
                 [] ext = 3 -> Field(x, 5, 1)
  BY DEF unpack_length
<1>3. Numbers(o)
  BY NumberRange, ZenonT(60)
<1> HIDE DEF ext, length
<1>4. CASE ext = 0
  <2>1. length = UNDEFINED_NUMERIC_32
    BY <1>2, <1>4
  <2>2. type \in DOMAIN FixedSize
    BY <1>4 DEF ext
  <2>3. FixedSize[type] \in Nat
    BY <2>2 DEF FixedSize, AssociationRelease_Size
  <2>4. ~(UNDEFINED_NUMERIC_32 < UNDEFINED_NUMERIC_32)
    BY DEF UNDEFINED_NUMERIC_32
  <2> QED  BY <2>1, <2>3, <2>4 DEF LengthOf, length
<1>5. CASE ext = 1
  BY <1>2, <1>3, <1>5 DEF LengthOf, Numbers, length, UNDEFINED_NUMERIC_32
<1>6. CASE ext = 2
  BY <1>2, <1>3, <1>6 DEF LengthOf, Numbers, length, UNDEFINED_NUMERIC_32
<1>7. CASE ext = 3
  BY <1>1, <1>2, <1>7 DEF LengthOf, length, UNDEFINED_NUMERIC_32
<1> QED  BY <1>1, <1>4, <1>5, <1>6, <1>7

(* The robust types that peek, and the sizes they peek.                    *)
LEMMA PeekingRobust == Peeking \cap Robust = {"NetworkBeacon", "ClusterBeacon", "MeasurementReport"}
  BY DEF Peeking, MinToPeek, Robust

LEMMA PeekFound ==
  ASSUME NEW type \in Peeking \cap Robust, NEW o, o[1] \in Nat, o[2] \in Nat, NEW u
  PROVE  Peek(type, o, u) \in Nat
<1>1. CASE type = "NetworkBeacon"
  <2>1. Peek(type, o, u) = NetworkBeacon_Peek(o)
    BY <1>1 DEF Peek
  <2> QED  BY <2>1, FieldRange DEF NetworkBeacon_Peek
<1>2. CASE type = "ClusterBeacon"
  <2>1. Peek(type, o, u) = ClusterBeacon_Peek(o, u)
    BY <1>2 DEF Peek
  <2>2. FrameOffsetSize(u) \in 1..2
    BY DEF FrameOffsetSize
  <2>3. Field(o[2], 2, 1) = 0 \/ Field(o[2], 2, 1) = 1
    BY FieldRange
  <2>4. Field(o[2], 2, 1) * FrameOffsetSize(u) \in 0..2
    BY <2>2, <2>3
  <2> QED  BY <2>1, <2>4, FieldRange DEF ClusterBeacon_Peek
<1>3. CASE type = "MeasurementReport"
  <2>1. Peek(type, o, u) = MeasurementReport_Peek(o)
    BY <1>3 DEF Peek
  <2> QED  BY <2>1, FieldRange DEF MeasurementReport_Peek
<1> QED  BY <1>1, <1>2, <1>3, PeekingRobust

(* unpack() of these stops where their size says.                          *)
LEMMA UnpackAt ==
  ASSUME NEW type \in Peeking \cap Robust, NEW o, o[1] \in Nat, o[2] \in Nat, NEW u, NEW length
  PROVE  Unpack(type, o, length, u).at = Size(type, Unpack(type, o, length, u).m, u)
<1>1. CASE type = "NetworkBeacon"
  <2>1. Unpack(type, o, length, u) = NetworkBeacon_Unpack(o)
    BY <1>1 DEF Unpack, FixedSize
  <2>2. \A m : Size(type, m, u) = NetworkBeacon_Size(m)
    BY <1>1 DEF Size, FixedSize
  <2> QED  BY <2>1, <2>2, NetworkBeaconAt
<1>2. CASE type = "ClusterBeacon"
  <2>1. Unpack(type, o, length, u) = ClusterBeacon_Unpack(o, u)
    BY <1>2 DEF Unpack, FixedSize
  <2>2. \A m : Size(type, m, u) = ClusterBeacon_Size(m, u)
    BY <1>2 DEF Size, FixedSize
  <2> QED  BY <2>1, <2>2, ClusterBeaconAt
<1>3. CASE type = "MeasurementReport"
  <2>1. Unpack(type, o, length, u) = MeasurementReport_Unpack(o)
    BY <1>3 DEF Unpack, FixedSize
  <2>2. \A m : Size(type, m, u) = MeasurementReport_Size(m)
    BY <1>3 DEF Size, FixedSize
  <2> QED  BY <2>1, <2>2, MeasurementReportAt
<1> QED  BY <1>1, <1>2, <1>3, PeekingRobust

-----------------------------------------------------------------------------
(* Every step keeps the invariant. *)

LEMMA DecoderInit == Init /\ Activated \subseteq Robust => DecoderInv
<1> SUFFICES ASSUME Init, Activated \subseteq Robust PROVE DecoderInv
  OBVIOUS
<1>1. packet \in Packets
  BY DEF Init
<1>2. /\ phase = "search" /\ stale = 0 /\ a_cnt_w = 0 /\ a_cnt_r = 0
      /\ running = FALSE /\ state = "MAC_HEADER_TYPE" /\ N_bytes_required = 1 /\ assertion = "none"
  BY DEF Init
<1>3. state \in States /\ stale \in 0..255
  BY <1>2 DEF States
<1>4. running \in BOOLEAN
  BY <1>2
<1> QED  BY <1>1, <1>2, <1>3, <1>4 DEF DecoderInv

(* What a turn of the loop finds: octets that are there, and what a turn   *)
(* that goes on in state s with n octets must establish.                   *)
LEMMA TurnFacts ==
  ASSUME DecoderInv, NEW s, Turn(s)
  PROVE  /\ phase = "pdc" /\ StateInv /\ state = s
         /\ packet.tb \in Seq(0..255) /\ stale \in 0..255
         /\ a_cnt_w_tb \in Nat /\ a_cnt_w <= a_cnt_w_tb
         /\ a_cnt_r + N_bytes_required \in Nat /\ a_cnt_r + N_bytes_required <= a_cnt_w
         /\ phase' = phase /\ packet' = packet /\ Activated' = Activated /\ stale' = stale
         /\ a_cnt_w' = a_cnt_w /\ a_cnt_w_tb' = a_cnt_w_tb
<1>1. packet.tb \in Seq(0..255)
  BY ReceptionAssumption DEF DecoderInv
<1>2. a_cnt_w_tb \in Nat
  BY <1>1, LenProperties DEF a_cnt_w_tb
<1>3. UNCHANGED <<Activated, packet, phase, plcf, stale>> /\ a_cnt_w' = a_cnt_w
  BY DEF Turn, receptionVars
<1> QED  BY <1>1, <1>2, <1>3 DEF DecoderInv, Turn, Enough, a_cnt_w_tb

(* A turn that leaves the decoder running. *)
LEMMA TurnKeeps ==
  ASSUME DecoderInv, NEW s, Turn(s), StateInv', running' = TRUE, assertion' = "none",
         a_cnt_r' \in Nat, a_cnt_r' <= a_cnt_w, N_bytes_required' \in Nat, state' \in States
  PROVE  DecoderInv'
<1>1. /\ phase = "pdc" /\ a_cnt_w_tb \in Nat /\ a_cnt_w <= a_cnt_w_tb
      /\ phase' = phase /\ packet' = packet /\ Activated' = Activated /\ stale' = stale
      /\ a_cnt_w' = a_cnt_w /\ a_cnt_w_tb' = a_cnt_w_tb
  BY TurnFacts
<1> QED  BY <1>1 DEF DecoderInv

LEMMA AbortKeeps ==
  ASSUME DecoderInv, NEW s, Turn(s), Abort, UNCHANGED <<a_cnt_r, running, assertion>>
  PROVE  DecoderInv'
<1>1. StateInv' /\ N_bytes_required' \in Nat /\ state' \in States
  BY DEF Abort, Prepare, StateInv, States
<1>2. running' = TRUE /\ assertion' = "none" /\ a_cnt_r' \in Nat /\ a_cnt_r' <= a_cnt_w
  BY DEF Turn, DecoderInv
<1> QED  BY <1>1, <1>2, TurnKeeps

LEMMA HeaderTypeKeeps == DecoderInv /\ MAC_HEADER_TYPE => DecoderInv'
<1> SUFFICES ASSUME DecoderInv, MAC_HEADER_TYPE PROVE DecoderInv'
  OBVIOUS
<1> DEFINE octet == Buffer(0)[1]
           type == Field(octet, 0, 4)
<1>1. Turn("MAC_HEADER_TYPE") /\ UNCHANGED <<running, assertion>>
  BY DEF MAC_HEADER_TYPE
<1>2. CASE ~MacHeader_UnpackReturns(octet)
  <2>1. Abort /\ UNCHANGED a_cnt_r
    BY <1>2 DEF MAC_HEADER_TYPE
  <2> QED  BY <1>1, <2>1, AbortKeeps
<1>3. CASE MacHeader_UnpackReturns(octet)
  <2>1. a_cnt_r' = a_cnt_r + N_bytes_required /\ Prepare("MAC_COMMON_HEADER", CommonHeader_Size(type))
    BY <1>3 DEF MAC_HEADER_TYPE
  <2>2. octet \in 0..255
    <3>1. /\ packet.tb \in Seq(0..255) /\ stale \in 0..255 /\ a_cnt_w \in Nat /\ a_cnt_w <= a_cnt_w_tb
          /\ 0 \in Nat /\ 0 <= a_cnt_w
      BY <1>1, TurnFacts DEF DecoderInv
    <3> QED  BY <3>1, FirstOctets, Zenon
  <2>3. type \in 0..4
    BY <1>3, <2>2, FieldRange DEF MacHeader_UnpackReturns
  <2> HIDE DEF type
  <2>4. CommonHeader_Size(type) \in Nat
    BY <2>3 DEF CommonHeader_Size
  <2>5. StateInv' /\ N_bytes_required' \in Nat /\ state' \in States
    BY <2>1, <2>4 DEF Prepare, StateInv, States
  <2>6. running' = TRUE /\ assertion' = "none" /\ a_cnt_r' \in Nat /\ a_cnt_r' <= a_cnt_w
    BY <1>1, <2>1, TurnFacts DEF Turn, DecoderInv
  <2> QED  BY <1>1, <2>5, <2>6, TurnKeeps
<1> QED  BY <1>2, <1>3

LEMMA CommonHeaderKeeps == DecoderInv /\ MAC_COMMON_HEADER => DecoderInv'
<1> SUFFICES ASSUME DecoderInv, MAC_COMMON_HEADER PROVE DecoderInv'
  OBVIOUS
<1>1. Turn("MAC_COMMON_HEADER") /\ UNCHANGED <<running, assertion>>
  BY DEF MAC_COMMON_HEADER
<1>2. \/ Abort /\ UNCHANGED a_cnt_r
      \/ /\ a_cnt_r' = a_cnt_r + N_bytes_required
         /\ Prepare("MAC_MUX_HEADER_UNPACK_MAC_EXT_IE_TYPE", 1)
  BY DEF MAC_COMMON_HEADER
<1>3. CASE Abort /\ UNCHANGED a_cnt_r
  BY <1>1, <1>3, AbortKeeps
<1>4. CASE /\ a_cnt_r' = a_cnt_r + N_bytes_required
           /\ Prepare("MAC_MUX_HEADER_UNPACK_MAC_EXT_IE_TYPE", 1)
  <2>1. StateInv' /\ N_bytes_required' \in Nat /\ state' \in States
    BY <1>4 DEF Prepare, StateInv, States
  <2>2. running' = TRUE /\ assertion' = "none" /\ a_cnt_r' \in Nat /\ a_cnt_r' <= a_cnt_w
    BY <1>1, <1>4, TurnFacts DEF Turn, DecoderInv
  <2> QED  BY <1>1, <2>1, <2>2, TurnKeeps
<1> QED  BY <1>2, <1>3, <1>4

(* The octet that has led to the type is one of the transport block.       *)
LEMMA TypeKeeps == DecoderInv /\ MAC_MUX_HEADER_UNPACK_MAC_EXT_IE_TYPE => DecoderInv'
<1> SUFFICES ASSUME DecoderInv, MAC_MUX_HEADER_UNPACK_MAC_EXT_IE_TYPE PROVE DecoderInv'
  OBVIOUS
<1> DEFINE octet == Buffer(a_cnt_r)[1]
           type == unpack_mac_ext_ie_type(octet, Activated)
<1>1. Turn("MAC_MUX_HEADER_UNPACK_MAC_EXT_IE_TYPE") /\ UNCHANGED <<running, assertion>>
  BY DEF MAC_MUX_HEADER_UNPACK_MAC_EXT_IE_TYPE
<1>2. N_bytes_required = 1 /\ a_cnt_r \in Nat /\ a_cnt_r + 1 <= a_cnt_w /\ a_cnt_w \in Nat
  BY <1>1, TurnFacts DEF StateInv, DecoderInv
<1>3. octet = packet.tb[a_cnt_r + 1] /\ octet \in 0..255
  <2>1. /\ packet.tb \in Seq(0..255) /\ stale \in 0..255 /\ a_cnt_w \in Nat
        /\ a_cnt_w <= a_cnt_w_tb /\ a_cnt_r <= a_cnt_w
    BY <1>1, <1>2, TurnFacts
  <2> QED  BY <1>2, <2>1, FirstOctets, Zenon
<1>4. CASE type \in {"nullptr", "Padding"} \/ NextIndex(type) >= PoolSize(type)
  <2>1. Abort /\ UNCHANGED a_cnt_r
    BY <1>4 DEF MAC_MUX_HEADER_UNPACK_MAC_EXT_IE_TYPE
  <2> QED  BY <1>1, <2>1, AbortKeeps
<1>5. CASE type \notin {"nullptr", "Padding"} /\ ~(NextIndex(type) >= PoolSize(type))
  <2>1. mmie' = type
    BY <1>5 DEF MAC_MUX_HEADER_UNPACK_MAC_EXT_IE_TYPE
  <2>2. /\ type \in Peeking => /\ a_cnt_r' = a_cnt_r + N_bytes_required
                               /\ Prepare("B_MAC_MESSAGE_IE_PEEK", MinToPeek[type])
        /\ type \notin Peeking =>
             /\ Prepare("A_MAC_MUX_HEADER_UNPACK_LENGTH_OR_FIXED_SIZE", Mmh_Size(octet))
             /\ UNCHANGED a_cnt_r
    BY <1>5 DEF MAC_MUX_HEADER_UNPACK_MAC_EXT_IE_TYPE
  <2>3. type \in Robust
    BY <1>3, <1>5, TypeFound DEF DecoderInv
  <2>4. /\ packet' = packet /\ Activated' = Activated /\ a_cnt_w' = a_cnt_w
    BY <1>1, TurnFacts
  <2>5. running' = TRUE /\ assertion' = "none" /\ a_cnt_r' \in Nat /\ a_cnt_r' <= a_cnt_w
    BY <1>1, <1>2, <2>2 DEF Turn, DecoderInv
  <2>6. CASE type \in Peeking
    <3>1. MinToPeek[type] \in Nat
      BY <2>6 DEF Peeking, MinToPeek
    <3>2. StateInv' /\ N_bytes_required' \in Nat /\ state' \in States
      <4> HIDE DEF type
      <4> QED  BY <2>1, <2>2, <2>3, <2>6, <3>1 DEF Prepare, StateInv, States
    <3> QED  BY <1>1, <2>5, <3>2, TurnKeeps
  <2>7. CASE type \notin Peeking
    <3>1. Mmh_Size(octet) \in Nat
      <4>1. \A x \in 0..255 : Mmh_Size(x) \in Nat
        BY FieldRange DEF Mmh_Size
      <4> QED  BY <1>3, <4>1
    <3>2. type = unpack_mac_ext_ie_type(packet.tb[a_cnt_r + 1], Activated)
      BY <1>3
    <3>3. Mmh_Size(octet) = Mmh_Size(packet.tb[a_cnt_r + 1])
      BY <1>3
    <3> HIDE DEF type, octet
    <3>4. StateInv' /\ N_bytes_required' \in Nat /\ state' \in States
      BY <1>2, <1>5, <2>1, <2>2, <2>3, <2>4, <2>7, <3>1, <3>2, <3>3 DEF Prepare, StateInv, States
    <3> QED  BY <1>1, <2>5, <3>4, TurnKeeps
  <2> QED  BY <2>6, <2>7
<1> QED  BY <1>4, <1>5

LEMMA LengthKeeps == DecoderInv /\ A_MAC_MUX_HEADER_UNPACK_LENGTH_OR_FIXED_SIZE => DecoderInv'
<1> SUFFICES ASSUME DecoderInv, A_MAC_MUX_HEADER_UNPACK_LENGTH_OR_FIXED_SIZE PROVE DecoderInv'
  OBVIOUS
<1> DEFINE o == Buffer(a_cnt_r)
           length == unpack_length(o)
           n == IF length < UNDEFINED_NUMERIC_32 THEN length ELSE FixedSize[mmie]
<1>1. /\ Turn("A_MAC_MUX_HEADER_UNPACK_LENGTH_OR_FIXED_SIZE")
      /\ UNCHANGED <<running, mmie, assertion>>
      /\ a_cnt_r' = a_cnt_r + N_bytes_required /\ Prepare("MAC_MESSAGE_IE_UNPACK", n)
  BY DEF A_MAC_MUX_HEADER_UNPACK_LENGTH_OR_FIXED_SIZE
<1>2. /\ a_cnt_r \in Nat /\ a_cnt_r < a_cnt_w /\ a_cnt_w \in Nat
      /\ mmie = unpack_mac_ext_ie_type(packet.tb[a_cnt_r + 1], Activated)
      /\ mmie \in Robust \ ({"Padding"} \cup Peeking)
  BY <1>1, TurnFacts DEF StateInv, DecoderInv
<1>3. o[1] \in 0..255 /\ o[2] \in 0..255 /\ o[3] \in 0..255 /\ o[1] = packet.tb[a_cnt_r + 1]
  <2>1. /\ packet.tb \in Seq(0..255) /\ stale \in 0..255 /\ a_cnt_w \in Nat
        /\ a_cnt_w <= a_cnt_w_tb /\ a_cnt_r <= a_cnt_w /\ a_cnt_r + 1 <= a_cnt_w
    BY <1>1, <1>2, TurnFacts
  <2> QED  BY <1>2, <2>1, FirstOctets, ZenonT(60)
<1> HIDE DEF o
<1>4. Field(o[1], 6, 2) = 0 => mmie \in DOMAIN FixedSize
  <2>1. mmie # "nullptr" /\ Activated \subseteq Robust
    BY <1>2 DEF Robust, DecoderInv
  <2>2. Field(o[1], 6, 2) = 0 => mmie \in Peeking \cup DOMAIN FixedSize
    BY <1>2, <1>3, <2>1, TypeFound, SMTT(60)
  <2> QED  BY <1>2, <2>2
<1>5. n \in Nat
  <2> DEFINE x == o[1]
             y == o[2]
             z == o[3]
  <2>1. /\ x \in 0..255 /\ y \in 0..255 /\ z \in 0..255
        /\ o[1] = x /\ o[2] = y /\ o[3] = z
    BY <1>3
  <2>2. Field(x, 6, 2) = 0 => mmie \in DOMAIN FixedSize
    BY <1>4
  <2> HIDE DEF x, y, z
  <2>3. LengthOf(o, mmie) \in Nat
    BY <2>1, <2>2, LengthFound, ZenonT(60)
  <2> QED  BY <2>3 DEF LengthOf
<1> HIDE DEF n
<1>6. StateInv' /\ N_bytes_required' \in Nat /\ state' \in States
  BY <1>1, <1>2, <1>5 DEF Prepare, StateInv, States
<1>7. running' = TRUE /\ assertion' = "none" /\ a_cnt_r' \in Nat /\ a_cnt_r' <= a_cnt_w
  BY <1>1, TurnFacts DEF Turn, DecoderInv
<1> QED  BY <1>1, <1>6, <1>7, TurnKeeps

LEMMA PeekKeeps == DecoderInv /\ B_MAC_MESSAGE_IE_PEEK => DecoderInv'
<1> SUFFICES ASSUME DecoderInv, B_MAC_MESSAGE_IE_PEEK PROVE DecoderInv'
  OBVIOUS
<1> DEFINE o == Buffer(a_cnt_r)
           size == Peek(mmie, o, mu)
<1>1. /\ Turn("B_MAC_MESSAGE_IE_PEEK") /\ UNCHANGED <<running, a_cnt_r, mmie, assertion>>
      /\ IF size = -1 THEN Abort ELSE Prepare("MAC_MESSAGE_IE_UNPACK", size)
  BY DEF B_MAC_MESSAGE_IE_PEEK
<1>2. a_cnt_r \in Nat /\ a_cnt_w \in Nat /\ a_cnt_r <= a_cnt_w /\ mmie \in Robust \cap Peeking
  BY <1>1, TurnFacts DEF StateInv, DecoderInv
<1>3. o[1] \in 0..255 /\ o[2] \in 0..255
  <2>1. packet.tb \in Seq(0..255) /\ stale \in 0..255 /\ a_cnt_w <= a_cnt_w_tb
    BY <1>1, TurnFacts
  <2> QED  BY <1>2, <2>1, FirstOctets, Zenon
<1> HIDE DEF o
<1>4. size \in Nat
  <2>1. o[1] \in Nat /\ o[2] \in Nat
    BY <1>3
  <2> QED  BY <1>2, <2>1, PeekFound
<1>5. Prepare("MAC_MESSAGE_IE_UNPACK", size)
  <2> HIDE DEF size
  <2> QED  BY <1>1, <1>4
<1>6. StateInv' /\ N_bytes_required' \in Nat /\ state' \in States
  <2>1. "Padding" \notin Peeking
    BY DEF Peeking, MinToPeek
  <2> HIDE DEF size
  <2> QED  BY <1>1, <1>2, <1>4, <1>5, <2>1 DEF Prepare, StateInv, States
<1>7. running' = TRUE /\ assertion' = "none" /\ a_cnt_r' \in Nat /\ a_cnt_r' <= a_cnt_w
  BY <1>1, <1>2 DEF Turn, DecoderInv
<1> QED  BY <1>1, <1>6, <1>7, TurnKeeps

(* No branch of unpack() that ends the program is taken.                   *)
LEMMA UnpackKeeps == DecoderInv /\ MAC_MESSAGE_IE_UNPACK => DecoderInv'
<1> SUFFICES ASSUME DecoderInv, MAC_MESSAGE_IE_UNPACK PROVE DecoderInv'
  OBVIOUS
<1> DEFINE o == Buffer(a_cnt_r)
           u == UnpackMmie(o)
           valid == mmie \in Flowing \/ Valid(mmie, u.m, o, mu)
<1>1. /\ Turn("MAC_MESSAGE_IE_UNPACK")
      /\ a_cnt_r' = a_cnt_r + N_bytes_required
      /\ running' = (assertion' = "none") /\ Prepare("MAC_PDU_CHECK_IF_DONE", 0)
  BY DEF MAC_MESSAGE_IE_UNPACK
<1>2. assertion' = CASE mmie \in Flowing -> assertion
                     [] mmie = "ConfigurationRequest" -> "must be flowing"
                     [] Raises(mmie, u.m) -> "std::bad_optional_access"
                     [] ~valid /\ mmie \in SizeAssertsValid -> "is not valid"
                     [] mmie \in Peeking /\ u.at # Size(mmie, u.m, mu) -> "lengths do not match"
                     [] OTHER -> assertion
  BY DEF MAC_MESSAGE_IE_UNPACK
<1>3. a_cnt_r \in Nat /\ a_cnt_w \in Nat /\ a_cnt_r <= a_cnt_w /\ mmie \in Robust
  BY <1>1, TurnFacts DEF StateInv, DecoderInv
<1>4. o[1] \in Nat /\ o[2] \in Nat
  <2>1. packet.tb \in Seq(0..255) /\ stale \in 0..255 /\ a_cnt_w <= a_cnt_w_tb
    BY <1>1, TurnFacts
  <2>2. o[1] \in 0..255 /\ o[2] \in 0..255
    BY <1>3, <2>1, FirstOctets, Zenon
  <2> HIDE DEF o
  <2> QED  BY <2>2
<1>5. mmie # "ConfigurationRequest" /\ mmie \notin SizeAssertsValid /\ ~Raises(mmie, u.m)
  <2> HIDE DEF u
  <2> QED  BY <1>3 DEF Robust, SizeAssertsValid, Raises
<1>6. mmie \in Peeking => u.at = Size(mmie, u.m, mu)
  <2> HAVE mmie \in Peeking
  <2>1. mmie \notin Flowing
    BY DEF Peeking, MinToPeek, Flowing
  <2>2. u = Unpack(mmie, o, N_bytes_required, mu)
    BY <2>1 DEF UnpackMmie
  <2> HIDE DEF o, u
  <2> QED  BY <1>3, <1>4, <2>2, UnpackAt
<1>7. assertion' = assertion
  <2> HIDE DEF u, valid
  <2> QED  BY <1>2, <1>5, <1>6
<1>8. assertion' = "none"
  BY <1>7 DEF DecoderInv
<1>9. running' = TRUE
  BY <1>1, <1>8
<1>10. StateInv' /\ N_bytes_required' \in Nat /\ state' \in States
  BY <1>1 DEF Prepare, StateInv, States
<1>11. a_cnt_r' \in Nat /\ a_cnt_r' <= a_cnt_w
  BY <1>1, TurnFacts
<1> QED  BY <1>1, <1>8, <1>9, <1>10, <1>11, TurnKeeps

LEMMA DoneKeeps == DecoderInv /\ MAC_PDU_CHECK_IF_DONE => DecoderInv'
<1> SUFFICES ASSUME DecoderInv, MAC_PDU_CHECK_IF_DONE PROVE DecoderInv'
  OBVIOUS
<1>1. Turn("MAC_PDU_CHECK_IF_DONE") /\ UNCHANGED <<a_cnt_r, assertion>>
  BY DEF MAC_PDU_CHECK_IF_DONE
<1>2. CASE a_cnt_r < a_cnt_w_tb
  <2>1. Prepare("MAC_MUX_HEADER_UNPACK_MAC_EXT_IE_TYPE", 1) /\ UNCHANGED running
    BY <1>2 DEF MAC_PDU_CHECK_IF_DONE
  <2>2. StateInv' /\ N_bytes_required' \in Nat /\ state' \in States
    BY <2>1 DEF Prepare, StateInv, States
  <2>3. running' = TRUE /\ assertion' = "none" /\ a_cnt_r' \in Nat /\ a_cnt_r' <= a_cnt_w
    BY <1>1, <2>1 DEF Turn, DecoderInv
  <2> QED  BY <1>1, <2>2, <2>3, TurnKeeps
<1>3. CASE ~(a_cnt_r < a_cnt_w_tb)
  <2>1. state' = "MAC_PDU_DONE" /\ running' = FALSE /\ UNCHANGED N_bytes_required
    BY <1>3 DEF MAC_PDU_CHECK_IF_DONE
  <2>2. /\ phase = "pdc" /\ a_cnt_w_tb \in Nat /\ a_cnt_w <= a_cnt_w_tb
        /\ phase' = phase /\ packet' = packet /\ Activated' = Activated /\ stale' = stale
        /\ a_cnt_w' = a_cnt_w /\ a_cnt_w_tb' = a_cnt_w_tb
    BY <1>1, TurnFacts
  <2>3. a_cnt_r \in Nat /\ a_cnt_r <= a_cnt_w /\ a_cnt_w \in Nat
    BY DEF DecoderInv
  <2>4. a_cnt_r = a_cnt_w /\ a_cnt_w = a_cnt_w_tb
    BY <1>3, <2>2, <2>3
  <2>5. StateInv' /\ RestInv' /\ state' \in States
    BY <1>1, <2>1, <2>2, <2>4 DEF StateInv, RestInv, States
  <2>6. running' \in BOOLEAN /\ ~running'
    BY <2>1
  <2> QED  BY <1>1, <2>1, <2>2, <2>5, <2>6 DEF DecoderInv
<1> QED  BY <1>2, <1>3

(* decode() gives up: what is left counts as read.                         *)
LEMMA GiveUpKeeps == DecoderInv /\ MAC_PDU_PREMATURE_ABORT => DecoderInv'
<1> SUFFICES ASSUME DecoderInv, MAC_PDU_PREMATURE_ABORT PROVE DecoderInv'
  OBVIOUS
<1>1. /\ running /\ state' = "MAC_PDU_PREMATURE_ABORT" /\ N_bytes_required' = 0
      /\ a_cnt_r' = a_cnt_w /\ running' = FALSE
  BY DEF MAC_PDU_PREMATURE_ABORT
<1>2. /\ Activated' = Activated /\ packet' = packet /\ phase' = phase /\ stale' = stale
      /\ a_cnt_w' = a_cnt_w /\ assertion' = assertion /\ a_cnt_w_tb' = a_cnt_w_tb
  BY DEF MAC_PDU_PREMATURE_ABORT, receptionVars, a_cnt_w_tb
<1>3. StateInv' /\ RestInv' /\ state' \in States
  BY <1>1, <1>2 DEF StateInv, RestInv, States
<1>4. running' \in BOOLEAN /\ ~running'
  BY <1>1
<1> QED  BY <1>1, <1>2, <1>3, <1>4 DEF DecoderInv

(* decode() returns because too few octets have come: the rest are still   *)
(* to come.                                                                *)
LEMMA ReturnKeeps == DecoderInv /\ Return => DecoderInv'
<1> SUFFICES ASSUME DecoderInv, Return PROVE DecoderInv'
  OBVIOUS
<1>1. running /\ ~TooManyRequired /\ ~Enough /\ running' = FALSE
  BY DEF Return
<1>2. /\ Activated' = Activated /\ packet' = packet /\ phase' = phase /\ stale' = stale
      /\ a_cnt_w' = a_cnt_w /\ assertion' = assertion /\ a_cnt_w_tb' = a_cnt_w_tb
      /\ state' = state /\ N_bytes_required' = N_bytes_required /\ a_cnt_r' = a_cnt_r
      /\ mmie' = mmie
  BY DEF Return, receptionVars, a_cnt_w_tb
<1>3. /\ a_cnt_w \in Nat /\ a_cnt_r \in Nat /\ N_bytes_required \in Nat
      /\ phase = "pdc" /\ StateInv
  BY <1>1 DEF DecoderInv
<1>4. a_cnt_w_tb \in Nat
  <2>1. packet.tb \in Seq(0..255)
    BY ReceptionAssumption DEF DecoderInv
  <2> QED  BY <2>1, LenProperties DEF a_cnt_w_tb
<1>5. RestInv'
  BY <1>1, <1>2, <1>3, <1>4 DEF RestInv, TooManyRequired, Enough
<1>6. running' \in BOOLEAN /\ ~running'
  BY <1>1
<1>7. StateInv'
  BY <1>1, <1>2, <1>3 DEF StateInv
<1> QED  BY <1>2, <1>5, <1>6, <1>7 DEF DecoderInv

(* The receiver finds a packet, and decides to decode it.                  *)
LEMMA FindingKeeps == DecoderInv /\ (\E p \in Packets : demoddecod_rx_pcc(p)) => DecoderInv'
<1> SUFFICES ASSUME DecoderInv, NEW p \in Packets, demoddecod_rx_pcc(p) PROVE DecoderInv'
  OBVIOUS
<1>1. phase = "search" /\ packet' = p
  BY DEF demoddecod_rx_pcc
<1>2. phase' \in {"no_plcf", "pcc"}
  BY DEF demoddecod_rx_pcc
<1>3. UNCHANGED <<Activated, stale, decoderVars, a_cnt_w>>
  BY DEF demoddecod_rx_pcc
<1>4. /\ Activated' = Activated /\ stale' = stale /\ a_cnt_w' = a_cnt_w /\ a_cnt_r' = a_cnt_r
      /\ N_bytes_required' = N_bytes_required /\ state' = state /\ running' = running
      /\ assertion' = assertion
  BY <1>3 DEF decoderVars
<1>5. ~running
  BY <1>1 DEF DecoderInv
<1> QED  BY <1>1, <1>2, <1>4, <1>5 DEF DecoderInv

LEMMA ConfigurationKeeps == DecoderInv /\ set_configuration => DecoderInv'
<1> SUFFICES ASSUME DecoderInv, set_configuration PROVE DecoderInv'
  OBVIOUS
<1>1. /\ phase = "pcc" /\ phase' = "pdc" /\ stale' \in {0, 255} /\ a_cnt_w' = 0 /\ a_cnt_r' = 0
      /\ state' = "MAC_HEADER_TYPE" /\ N_bytes_required' = 1
      /\ Activated' = Activated /\ packet' = packet /\ running' = running
      /\ assertion' = assertion
  BY DEF set_configuration
<1>2. StateInv' /\ RestInv' /\ state' \in States
  BY <1>1 DEF StateInv, RestInv, States
<1>3. a_cnt_w_tb' \in Nat
  <2>1. packet.tb \in Seq(0..255)
    BY ReceptionAssumption DEF DecoderInv
  <2> QED  BY <1>1, <2>1, LenProperties DEF a_cnt_w_tb
<1>4. ~running /\ stale' \in 0..255
  BY <1>1 DEF DecoderInv
<1> QED  BY <1>1, <1>2, <1>3, <1>4 DEF DecoderInv

LEMMA SymbolKeeps == DecoderInv /\ (\E n \in Octets : run_pdc(n)) => DecoderInv'
<1> SUFFICES ASSUME DecoderInv, NEW n \in Octets, run_pdc(n) PROVE DecoderInv'
  OBVIOUS
<1>1. /\ phase = "pdc" /\ ~running /\ a_cnt_w < a_cnt_w_tb
      /\ a_cnt_w' = Min({a_cnt_w + n, a_cnt_w_tb}) /\ running' = TRUE
  BY DEF run_pdc
<1>2. /\ Activated' = Activated /\ packet' = packet /\ phase' = phase /\ stale' = stale
      /\ assertion' = assertion /\ a_cnt_w_tb' = a_cnt_w_tb /\ state' = state
      /\ N_bytes_required' = N_bytes_required /\ a_cnt_r' = a_cnt_r /\ mmie' = mmie
  BY DEF run_pdc, receptionVars, a_cnt_w_tb
<1>3. /\ a_cnt_w \in Nat /\ a_cnt_r \in Nat /\ a_cnt_r <= a_cnt_w /\ StateInv
  BY <1>1 DEF DecoderInv
<1>4. a_cnt_w_tb \in Nat /\ n \in Nat
  <2>1. packet.tb \in Seq(0..255)
    BY ReceptionAssumption DEF DecoderInv
  <2> QED  BY <2>1, ReceptionAssumption, LenProperties DEF a_cnt_w_tb
<1>5. a_cnt_w' \in Nat /\ a_cnt_w <= a_cnt_w' /\ a_cnt_w' <= a_cnt_w_tb
  <2> DEFINE S == {a_cnt_w + n, a_cnt_w_tb}
  <2>1. \E x \in S : \A y \in S : x <= y
    BY <1>3, <1>4
  <2>2. Min(S) \in S /\ \A y \in S : Min(S) <= y
    BY <2>1 DEF Min
  <2> QED  BY <1>1, <1>3, <1>4, <2>2
<1>6. state # "MAC_PDU_DONE"
  BY <1>1, <1>3, <1>4 DEF StateInv
<1>7. StateInv'
  BY <1>2, <1>3, <1>5, <1>6 DEF StateInv
<1>8. running' \in BOOLEAN /\ running'
  BY <1>1
<1>9. a_cnt_r' <= a_cnt_w'
  BY <1>2, <1>3, <1>5
<1> QED  BY <1>1, <1>2, <1>5, <1>7, <1>8, <1>9 DEF DecoderInv

(* When all octets have come the decoder has come to an end.               *)
LEMMA ReportKeeps == DecoderInv /\ report => DecoderInv'
<1> SUFFICES ASSUME DecoderInv, report PROVE DecoderInv'
  OBVIOUS
<1>1. /\ phase = "pdc" /\ ~running /\ a_cnt_w = a_cnt_w_tb /\ phase' = "search"
      /\ Activated' = Activated /\ packet' = packet /\ stale' = stale /\ a_cnt_w' = a_cnt_w
      /\ state' = state /\ N_bytes_required' = N_bytes_required /\ a_cnt_r' = a_cnt_r
      /\ running' = running
  BY DEF report, Complete
<1>2. /\ a_cnt_w \in Nat /\ a_cnt_r \in Nat /\ N_bytes_required \in Nat /\ RestInv
  BY <1>1 DEF DecoderInv
<1>3. a_cnt_w_tb # 0
  <2>1. packet.tb \in Seq(0..255) /\ packet.tb # << >>
    BY ReceptionAssumption DEF DecoderInv
  <2> QED  BY <2>1, EmptySeq DEF a_cnt_w_tb
<1>4. a_cnt_r = a_cnt_w_tb /\ state \in {"MAC_PDU_DONE", "MAC_PDU_PREMATURE_ABORT"}
  BY <1>1, <1>2, <1>3 DEF RestInv
<1>5. assertion' = "none"
  BY <1>4, Zenon DEF report
<1> QED  BY <1>1, <1>5 DEF DecoderInv

LEMMA DecoderNext == DecoderInv /\ [Next]_vars => DecoderInv'
<1> SUFFICES ASSUME DecoderInv, [Next]_vars PROVE DecoderInv'
  OBVIOUS
<1>1. CASE \E p \in Packets : demoddecod_rx_pcc(p)
  BY <1>1, FindingKeeps
<1>2. CASE set_configuration
  BY <1>2, ConfigurationKeeps
<1>3. CASE \E n \in Octets : run_pdc(n)
  BY <1>3, SymbolKeeps
<1>4. CASE decode
  BY <1>4, GiveUpKeeps, ReturnKeeps, HeaderTypeKeeps, CommonHeaderKeeps, TypeKeeps, LengthKeeps,
     PeekKeeps, UnpackKeeps, DoneKeeps DEF decode
<1>5. CASE report
  BY <1>5, ReportKeeps
<1>6. CASE UNCHANGED vars
  BY <1>6 DEF vars, receptionVars, decoderVars, DecoderInv, StateInv, RestInv, a_cnt_w_tb
<1> QED  BY <1>1, <1>2, <1>3, <1>4, <1>5, <1>6 DEF Next

(* In a build whose types are robust, as the build of the repository is,   *)
(* no octets make an assertion of mac_pdu_decoder_t fail or an exception   *)
(* leave it (mac_pdu_decoder.cpp:71, :72, :289, :315, :334), and it never  *)
(* reads more octets than have been decoded: for all packets, valid or     *)
(* not, for all ways in which they are cut into symbols, and whatever an   *)
(* earlier packet has left in the buffer.  The exception NoAssertionFails  *)
(* makes for other builds is not needed.                                   *)
THEOREM NoAssertionFailsHolds ==
    Spec /\ Activated \subseteq Robust => [](NoAssertionFails /\ assertion = "none")
<1>1. DecoderInv => NoAssertionFails /\ assertion = "none"
  BY DEF DecoderInv, NoAssertionFails
<1> QED  BY <1>1, DecoderInit, DecoderNext, PTL DEF Spec

-----------------------------------------------------------------------------
(* The cells of a packet. *)

\* Every nonempty set of naturals has a least element, every nonempty set of integers between two
\* bounds a least and a greatest one.
LEMMA LeastNatural ==
    ASSUME NEW T, T \subseteq Nat, T # {}
    PROVE  \E n \in T : \A m \in T : n <= m
<1> DEFINE R == {x \in Nat \X Nat : x[1] < x[2]}
<1>1. OpToRel(<, Nat) = R
  BY DEF OpToRel
<1>2. IsWellFoundedOn(R, Nat)
  BY <1>1, NatLessThanWellFounded
<1>3. \E n \in T : \A m \in T : ~(<<m, n>> \in R)
  BY <1>2, WFMin, Zenon
<1>4. \A m, n \in Nat : ~(<<m, n>> \in R) => n <= m
  OBVIOUS
<1> HIDE DEF R
<1> QED  BY <1>3, <1>4

LEMMA Extremes ==
    ASSUME NEW x \in Int, NEW y \in Int, NEW S, S \subseteq x..y, S # {}
    PROVE  /\ Least(S) \in S /\ \A m \in S : Least(S) <= m
           /\ Greatest(S) \in S /\ \A m \in S : Greatest(S) >= m
<1>1. \E n \in S : \A m \in S : n <= m
  <2> DEFINE T == {n - x : n \in S}
  <2>1. T \subseteq Nat
    OBVIOUS
  <2>2. T # {}
    <3>1. PICK n \in S : TRUE
      OBVIOUS
    <3>2. n - x \in T
      BY <3>1
    <3> QED  BY <3>2
  <2>3. PICK t \in T : \A s \in T : t <= s
    <3> HIDE DEF T
    <3> QED  BY <2>1, <2>2, LeastNatural
  <2>4. PICK n \in S : t = n - x
    OBVIOUS
  <2>5. \A m \in S : n - x <= m - x
    BY <2>3, <2>4
  <2>6. \A m \in S : n <= m
    BY <2>5
  <2> QED  BY <2>6
<1>2. \E n \in S : \A m \in S : n >= m
  <2> DEFINE T == {y - n : n \in S}
  <2>1. T \subseteq Nat
    OBVIOUS
  <2>2. T # {}
    <3>1. PICK n \in S : TRUE
      OBVIOUS
    <3>2. y - n \in T
      BY <3>1
    <3> QED  BY <3>2
  <2>3. PICK t \in T : \A s \in T : t <= s
    <3> HIDE DEF T
    <3> QED  BY <2>1, <2>2, LeastNatural
  <2>4. PICK n \in S : t = y - n
    OBVIOUS
  <2>5. \A m \in S : y - n <= y - m
    BY <2>3, <2>4
  <2>6. \A m \in S : n >= m
    BY <2>5
  <2> QED  BY <2>6
<1> QED  BY <1>1, <1>2 DEF Least, Greatest

-----------------------------------------------------------------------------
(* Sizes of a packet. *)

LEMMA Modes ==
    ASSUME NEW d \in Definitions
    PROVE  /\ N_SS(d) \in {1, 2, 4, 8} /\ N_TS(d) \in {1, 2, 4, 8}
           /\ N_bps(d) \in {1, 2, 4, 6, 8, 10}
           /\ mcs(d.mcs_index)[2] \in 1..5 /\ mcs(d.mcs_index)[3] \in 2..6
           /\ mcs(d.mcs_index)[2] < mcs(d.mcs_index)[3]
<1>1. N_SS(d) \in {1, 2, 4, 8} /\ N_TS(d) \in {1, 2, 4, 8}
  BY DefinitionsAssumption DEF N_SS, N_TS
<1>2. /\ N_bps(d) \in {1, 2, 4, 6, 8, 10}
      /\ mcs(d.mcs_index)[2] \in 1..5 /\ mcs(d.mcs_index)[3] \in 2..6
      /\ mcs(d.mcs_index)[2] < mcs(d.mcs_index)[3]
  <2>1. d.mcs_index \in {0, 1, 2, 3, 4, 5, 6, 7, 8, 9, 10, 11}
    BY DefinitionsAssumption
  <2> QED  BY <2>1 DEF mcs, N_bps
<1> QED  BY <1>1, <1>2

LEMMA Quotient ==
    ASSUME NEW x \in Nat, NEW y \in Nat \ {0}
    PROVE  /\ x \div y \in Nat /\ x % y \in 0..y - 1
           /\ x = y * (x \div y) + (x % y)
<1>1. x \div y \in Nat /\ x % y \in 0..y - 1
  OBVIOUS
<1>2. x % y = x - (x \div y) * y
  OBVIOUS
<1> DEFINE q == x \div y
           k == x % y
<1>3. q \in Nat /\ k \in Int /\ k = x - q * y
  BY <1>1, <1>2
<1> HIDE DEF q, k
<1>4. x = y * q + k
  BY <1>3
<1>5. x = y * (x \div y) + (x % y)
  BY <1>4 DEF q, k
<1> QED  BY <1>1, <1>5, Zenon

LEMMA QuotientOf ==
    ASSUME NEW y \in Nat \ {0}, NEW q \in Nat, NEW k \in 0..y - 1
    PROVE  (y * q + k) \div y = q
OBVIOUS

\* Subslots of five symbols, slots of ten times the subcarrier scaling factor.
WholeSubslots(n) == n \in 5..1280 /\ n % 5 = 0

LEMMA SymbolsOfSlots ==
    ASSUME NEW L \in 1..16, NEW u \in {1, 2, 4, 8}
    PROVE  WholeSubslots((L * 10 * u) \div (2 * u)) /\ WholeSubslots(L * 10 * u)
<1>1. u = 1 \/ u = 2 \/ u = 4 \/ u = 8
  OBVIOUS
<1>2. (L * 10 * u) \div (2 * u) = 5 * L
  <2>1. 2 * u \in Nat \ {0} /\ 5 * L \in Nat /\ 0 \in 0..(2 * u) - 1
    OBVIOUS
  <2>2. L * 10 * u = (2 * u) * (5 * L) + 0
    BY <1>1
  <2>3. ((2 * u) * (5 * L) + 0) \div (2 * u) = 5 * L
    BY <2>1, QuotientOf, Zenon
  <2> QED  BY <2>2, <2>3, Zenon
<1>3. WholeSubslots(5 * L)
  BY DEF WholeSubslots
<1>4. WholeSubslots(L * 10 * u)
  BY <1>1 DEF WholeSubslots
<1> QED  BY <1>2, <1>3, <1>4, Zenon

LEMMA Sizes ==
    ASSUME NEW d \in Definitions
    PROVE  /\ N_PACKET_symb(d) \in 5..1280 /\ N_PACKET_symb(d) % 5 = 0
           /\ N_b_OCC(d.b) \in {56, 112, 224, 448, 672, 896}
           /\ N_DF_symb(d) \in Int
<1>1. /\ d.u \in {1, 2, 4, 8} /\ d.b \in {1, 2, 4, 8, 12, 16}
      /\ d.PacketLengthType \in {0, 1} /\ d.PacketLength \in 1..16
  BY DefinitionsAssumption
<1>2. N_PACKET_symb(d) \in 5..1280 /\ N_PACKET_symb(d) % 5 = 0
  <2>1. /\ WholeSubslots((d.PacketLength * 10 * d.u) \div (2 * d.u))
        /\ WholeSubslots(d.PacketLength * 10 * d.u)
    BY <1>1, SymbolsOfSlots, Zenon
  <2>2. WholeSubslots(N_PACKET_symb(d))
    BY <2>1, Zenon DEF N_PACKET_symb
  <2> QED  BY <2>2, SMTT(60) DEF WholeSubslots
<1>3. N_b_OCC(d.b) \in {56, 112, 224, 448, 672, 896}
  BY <1>1 DEF N_b_OCC
<1>4. N_DF_symb(d) \in Int
  <2>1. ASSUME NEW u, NEW n \in Int PROVE get_N_DF_symb(u, n) \in Int
    BY DEF get_N_DF_symb
  <2>2. N_PACKET_symb(d) \in Int
    BY <1>2
  <2> QED  BY <2>1, <2>2, Zenon DEF N_DF_symb
<1> QED  BY <1>2, <1>3, <1>4

-----------------------------------------------------------------------------
(* Code blocks. *)

\* What configures fec_t: no more code blocks than modulation symbols.
Codable(p) ==
    /\ p.seg.C \in Nat \ {0} /\ p.Qm \in Nat \ {0} /\ p.G \in Nat
    /\ \E g \in Nat : p.G = p.Qm * g /\ g >= p.seg.C

\* Every block has a share of the modulation symbols, and gamma of them have one more.
LEMMA Shares ==
    ASSUME NEW p, Codable(p)
    PROVE  /\ Gp(p) \in Nat /\ p.G = p.Qm * Gp(p)
           /\ gamma(p) \in 0..p.seg.C - 1
           /\ Share(p) \in Nat /\ Share(p) >= p.Qm
           /\ gamma(p) > 0 => p.Qm * CeilDiv(Gp(p), p.seg.C) = Share(p) + p.Qm
           /\ p.seg.C * Share(p) + gamma(p) * p.Qm = p.G
<1> DEFINE C == p.seg.C
           Q == p.Qm
           g == Gp(p)
<1>1. C \in Nat \ {0} /\ Q \in Nat \ {0}
  BY DEF Codable
<1>2. g \in Nat /\ p.G = Q * g /\ g >= C
  <2>1. PICK n \in Nat : p.G = Q * n /\ n >= C
    BY DEF Codable
  <2>2. (Q * n) \div Q = n
    BY <1>1
  <2> QED  BY <2>1, <2>2 DEF Gp
<1> DEFINE s == g \div C
           r == g % C
<1>3. s \in Nat /\ r \in 0..C - 1 /\ g = C * s + r
  BY <1>1, <1>2, Quotient
<1>4. gamma(p) = r /\ Share(p) = Q * s
  BY DEF gamma, Share
<1> HIDE DEF C, Q, g, s, r
<1>5. s >= 1
  <2>1. s = 0 => g = r
    BY <1>1, <1>3
  <2> QED  BY <1>1, <1>2, <1>3, <2>1
<1>6. Q * s \in Nat /\ Q * s >= Q
  <2>1. PICK t \in Nat : s = t + 1
    BY <1>3, <1>5
  <2>2. Q * (t + 1) = Q * t + Q /\ Q * t \in Nat
    BY <1>1
  <2> QED  BY <1>1, <2>1, <2>2
<1>7. r > 0 => CeilDiv(g, C) = s + 1
  <2> SUFFICES ASSUME r > 0 PROVE CeilDiv(g, C) = s + 1
    OBVIOUS
  <2>1. g + C - 1 = C * (s + 1) + (r - 1) /\ r - 1 \in 0..C - 1
    <3>1. C * (s + 1) = C * s + C
      BY <1>1, <1>3
    <3> QED  BY <1>1, <1>3, <3>1
  <2>2. (C * (s + 1) + (r - 1)) \div C = s + 1
    <3>1. s + 1 \in Nat
      BY <1>3
    <3> QED  BY <1>1, <2>1, <3>1, QuotientOf
  <2> QED  BY <2>1, <2>2 DEF CeilDiv
<1>8. Q * (s + 1) = Q * s + Q
  BY <1>1, <1>3
<1>9. C * (Q * s) + r * Q = Q * g
  <2>1. \A a, c, m, k \in Int : c * (a * m) + k * a = a * (c * m + k)
    OBVIOUS
  <2> QED  BY <1>1, <1>3, <2>1
<1> QED  BY <1>1, <1>2, <1>3, <1>4, <1>6, <1>7, <1>8, <1>9 DEF C, Q, g

\* Both sides agree on where a block begins and, up to a modulation symbol, where it ends.
LEMMA Blocks ==
    ASSUME NEW p, Codable(p), NEW i \in Nat, i < p.seg.C
    PROVE  /\ rp(p, i) = wp_enc(p, i) /\ rp(p, i) \in Nat
           /\ n_e(p, i) \in Nat /\ n_e(p, i) > 0
           /\ n_e2(p, i) \in {n_e(p, i), n_e(p, i) - p.Qm}
           /\ wp_enc(p, i + 1) = wp_enc(p, i) + n_e(p, i)
           /\ rp(p, i) + n_e2(p, i) \in Nat
           /\ rp(p, i) + n_e2(p, i) <= wp_enc(p, i + 1)
<1> DEFINE C == p.seg.C
           Q == p.Qm
           S == Share(p)
           k == C - gamma(p)
<1>1. C \in Nat \ {0} /\ Q \in Nat \ {0} /\ S \in Nat /\ S >= Q /\ gamma(p) \in 0..C - 1 /\ k \in 1..C
  BY Shares DEF Codable
<1>2. gamma(p) > 0 => p.Qm * CeilDiv(Gp(p), p.seg.C) = S + Q
  BY Shares
<1>3. /\ n_e(p, i) = (IF i <= k - 1 THEN S ELSE S + Q)
      /\ n_e2(p, i) = (IF i > k THEN S + Q ELSE S)
      /\ rp(p, i) = (IF i > k THEN k * S + (i - k) * (S + Q) ELSE i * S)
  <2>1. i <= k - 1 \/ gamma(p) > 0
    BY <1>1
  <2>2. (i <= p.seg.C - gamma(p) - 1) <=> (i <= k - 1)
    OBVIOUS
  <2>3. n_e(p, i) = (IF i <= k - 1 THEN S ELSE S + Q)
    BY <1>2, <2>1, <2>2 DEF n_e
  <2> QED  BY <2>3 DEF n_e2, rp
<1>4. \A j \in Nat : wp_enc(p, j) = j * S + (IF j - k > 0 THEN (j - k) * Q ELSE 0)
  BY DEF wp_enc
<1> HIDE DEF C, Q, S, k
<1>5. i * S \in Nat /\ (i + 1) * S = i * S + S
  BY <1>1
<1>6. ASSUME i < k
      PROVE  wp_enc(p, i) = i * S /\ wp_enc(p, i + 1) = i * S + S
  <2>1. wp_enc(p, i) = i * S + (IF i - k > 0 THEN (i - k) * Q ELSE 0)
    BY <1>4
  <2>2. wp_enc(p, i + 1) = (i + 1) * S + (IF (i + 1) - k > 0 THEN ((i + 1) - k) * Q ELSE 0)
    BY <1>4
  <2>3. ~(i - k > 0) /\ ~((i + 1) - k > 0)
    BY <1>1, <1>6
  <2>4. wp_enc(p, i) = i * S + 0
    BY <2>1, <2>3, Zenon
  <2>5. wp_enc(p, i + 1) = (i + 1) * S + 0
    BY <2>2, <2>3, Zenon
  <2> QED  BY <1>1, <1>5, <2>4, <2>5
<1>7. ASSUME i >= k
      PROVE  /\ wp_enc(p, i) = i * S + (i - k) * Q /\ (i - k) * Q \in Nat
             /\ wp_enc(p, i + 1) = i * S + (i - k) * Q + (S + Q)
             /\ k * S + (i - k) * (S + Q) = i * S + (i - k) * Q
  <2>1. PICK e \in Nat : e = i - k /\ i = k + e
    BY <1>1, <1>7
  <2>2. e * Q \in Nat /\ (e + 1) * Q = e * Q + Q /\ i + 1 - k = e + 1
    BY <1>1, <2>1
  <2>3. wp_enc(p, i) = i * S + e * Q
    <3>1. wp_enc(p, i) = i * S + (IF i - k > 0 THEN (i - k) * Q ELSE 0)
      BY <1>4
    <3>2. (IF e > 0 THEN e * Q ELSE 0) = e * Q
      BY <1>1, <2>1
    <3> QED  BY <2>1, <3>1, <3>2
  <2>4. wp_enc(p, i + 1) = (i + 1) * S + (e + 1) * Q
    <3>1. i + 1 \in Nat /\ (i + 1) - k = e + 1 /\ e + 1 > 0
      BY <1>1, <2>1
    <3> QED  BY <1>4, <3>1
  <2>5. k * S + e * (S + Q) = i * S + e * Q
    <3>1. \A v, w, x, y \in Int : v * x + w * (x + y) = (v + w) * x + w * y
      OBVIOUS
    <3> QED  BY <1>1, <2>1, <3>1
  <2> QED  BY <1>1, <1>5, <2>1, <2>2, <2>3, <2>4, <2>5
<1>8. CASE i < k
  BY <1>1, <1>3, <1>5, <1>6, <1>8 DEF Q
<1>9. CASE i >= k
  <2>1. CASE i > k
    BY <1>1, <1>3, <1>5, <1>7, <1>9, <2>1, SMTT(60) DEF Q
  <2>2. CASE i = k
    <3>1. (i - k) * Q = 0
      BY <1>1, <2>2
    <3>2. wp_enc(p, i) = i * S /\ wp_enc(p, i + 1) = i * S + (S + Q)
      BY <1>1, <1>5, <1>7, <1>9, <3>1
    <3>3. ~(i <= k - 1) /\ ~(i > k)
      BY <1>1, <2>2
    <3>4. n_e(p, i) = S + Q /\ n_e2(p, i) = S /\ rp(p, i) = i * S
      BY <1>3, <3>3
    <3> QED  BY <1>1, <1>5, <3>2, <3>4 DEF Q
  <2> QED  BY <1>1, <1>9, <2>1, <2>2
<1> QED  BY <1>1, <1>8, <1>9

\* After a call as many blocks are encoded as the bits that are due need, or all.
LEMMA EncodeEnough ==
    ASSUME NEW p, Codable(p), NEW i \in 0..p.seg.C, NEW m \in Int, m <= p.G
    PROVE  /\ Encode(p, i, m) \in 0..p.seg.C
           /\ wp_enc(p, Encode(p, i, m)) >= m
<1> DEFINE S == {j \in i..p.seg.C : j = p.seg.C \/ wp_enc(p, j) >= m}
<1>1. p.seg.C \in Nat /\ i \in Int /\ S \subseteq i..p.seg.C /\ p.seg.C \in S
  BY DEF Codable
<1>2. Least(S) \in S
  <2>1. S # {} /\ p.seg.C \in Int
    BY <1>1
  <2> HIDE DEF S
  <2> QED  BY <1>1, <2>1, Extremes, Zenon
<1>3. wp_enc(p, p.seg.C) = p.G
  <2>1. p.seg.C - (p.seg.C - gamma(p)) = gamma(p) /\ gamma(p) \in Nat
    BY <1>1, Shares
  <2>2. gamma(p) * p.Qm = IF gamma(p) > 0 THEN gamma(p) * p.Qm ELSE 0
    BY <2>1 DEF Codable
  <2> QED  BY <2>1, <2>2, Shares DEF wp_enc
<1> QED  BY <1>1, <1>2, <1>3 DEF Encode

\* After a call those blocks are decoded whose bits have been received, and no others.
LEMMA DecodeAll ==
    ASSUME NEW p, Codable(p), NEW i \in 0..p.seg.C, NEW m \in Int
    PROVE  /\ Decode(p, i, m) \in i..p.seg.C
           /\ \A k \in i..Decode(p, i, m) - 1 : rp(p, k) + n_e2(p, k) <= m
           /\ Decode(p, i, m) < p.seg.C =>
                  rp(p, Decode(p, i, m)) + n_e2(p, Decode(p, i, m)) > m
<1> DEFINE S == {j \in i..p.seg.C : \A k \in i..j - 1 : rp(p, k) + n_e2(p, k) <= m}
           D == Decode(p, i, m)
<1>1. p.seg.C \in Nat /\ i \in Int /\ S \subseteq i..p.seg.C /\ i \in S
  BY DEF Codable
<1>2. D \in S /\ \A j \in S : D >= j
  <2>1. Greatest(S) \in S /\ \A j \in S : Greatest(S) >= j
    <3>1. S # {} /\ p.seg.C \in Int
      BY <1>1
    <3> HIDE DEF S
    <3> QED  BY <1>1, <3>1, Extremes, Zenon
  <2> QED  BY <2>1 DEF Decode
<1>3. D \in i..p.seg.C /\ \A k \in i..D - 1 : rp(p, k) + n_e2(p, k) <= m
  <2> HIDE DEF D
  <2> QED  BY <1>2
<1>4. ASSUME D < p.seg.C, ~(rp(p, D) + n_e2(p, D) > m)
      PROVE  FALSE
  <2> HIDE DEF D
  <2>1. D \in Nat
    BY <1>1, <1>3
  <2>2. rp(p, D) + n_e2(p, D) \in Nat
    BY <1>4, <2>1, Blocks
  <2>3. D + 1 \in S
    BY <1>1, <1>3, <1>4, <2>1, <2>2
  <2> QED  BY <1>2, <2>1, <2>3
<1> QED  BY <1>3, <1>4

\* Rounding down to a multiple, and a code rate.
LEMMA RoundedDown ==
    ASSUME NEW x \in Nat, NEW y \in Nat \ {0}
    PROVE  (x \div y) * y \in Nat /\ (x \div y) * y <= x
<1> DEFINE q == x \div y
           k == x % y
<1>1. q \in Nat /\ k \in 0..y - 1 /\ x = y * q + k
  BY Quotient
<1> HIDE DEF q, k
<1>2. y * q \in Nat /\ y * q = q * y
  BY <1>1
<1>3. q * y \in Nat /\ q * y <= x
  BY <1>1, <1>2
<1> QED  BY <1>3 DEF q

LEMMA Coded ==
    ASSUME NEW x \in Nat, NEW n \in 1..5, NEW m \in 2..6, n < m
    PROVE  (x * n) \div m \in Nat /\ (x * n) \div m <= x
<1>1. n \in {1, 2, 3, 4, 5} /\ m \in {2, 3, 4, 5, 6}
  OBVIOUS
<1> QED  BY <1>1

\* The sizes of a packet that get_packet_sizes() accepts.
LEMMA CellsAndBits ==
    ASSUME NEW d \in Definitions, HasSizes(d)
    PROVE  /\ N_PDC_subc(d) \in Nat \ {0} /\ G(d) \in Nat
           /\ G(d) = N_bps(d) * (N_SS(d) * N_PDC_subc(d))
           /\ N_SS(d) * N_PDC_subc(d) \in Nat \ {0}
           /\ N_TB_bits(d) \in Nat \ {0} /\ N_TB_bits(d) + 24 <= G(d)
<1>1. N_PDC_subc(d) \in Nat \ {0}
  <2>1. N_DF_symb(d) * N_b_OCC(d.b) \in Int
    BY Sizes
  <2>2. N_DRS_subc(d) \in Int
    <3>1. nof_OFDM_symbols_carrying_DRS_per_TS(N_PACKET_symb(d), N_TS(d)) \in Int
      BY Sizes, Modes, SMTT(60) DEF nof_OFDM_symbols_carrying_DRS_per_TS, N_step
    <3>2. (N_TS(d) * N_b_OCC(d.b)) \div 4 \in Int
      BY Sizes, Modes
    <3> QED  BY <3>1, <3>2 DEF N_DRS_subc
  <2>3. PICK n \in Int : n = N_DF_symb(d) * N_b_OCC(d.b) - N_DRS_subc(d) - pcc_cells
    BY <2>1, <2>2 DEF pcc_cells
  <2>4. N_PDC_subc(d) = IF n <= 0 THEN 0 ELSE n
    BY <2>3 DEF N_PDC_subc
  <2> QED  BY <2>3, <2>4 DEF HasSizes
<1>2. N_SS(d) * N_PDC_subc(d) \in Nat \ {0}
  BY <1>1, Modes
<1>3. G(d) = N_bps(d) * (N_SS(d) * N_PDC_subc(d)) /\ G(d) \in Nat
  BY <1>1, <1>2, Modes DEF G
<1> DEFINE bits == (G(d) * mcs(d.mcs_index)[2]) \div mcs(d.mcs_index)[3]
           M == CASE bits <= 512 -> 8 [] bits <= 1024 -> 16 [] bits <= 2048 -> 32 [] OTHER -> 64
           N_M == (bits \div M) * M
           tail == (CeilDiv(N_M - 24, d.Z) + 1) * 24
<1>4. bits \in Nat /\ bits <= G(d)
  BY <1>3, Modes, Coded
<1>5. N_TB_bits(d) = IF N_M <= 24 THEN 0 ELSE IF N_M <= d.Z THEN N_M - 24 ELSE N_M - tail
  BY DEF N_TB_bits
<1>6. N_M \in Nat /\ N_M <= bits
  <2>1. M \in {8, 16, 32, 64}
    BY <1>4
  <2> HIDE DEF M, bits
  <2> QED  BY <1>4, <2>1, RoundedDown
<1> HIDE DEF N_M
<1>7. N_M > 24 => tail \in Nat /\ tail >= 24
  <2> SUFFICES ASSUME N_M > 24 PROVE tail \in Nat /\ tail >= 24
    OBVIOUS
  <2>1. d.Z \in {2048, 6144}
    BY DefinitionsAssumption
  <2>2. CeilDiv(N_M - 24, d.Z) \in Nat
    BY <1>6, <2>1 DEF CeilDiv
  <2> QED  BY <2>2
<1> HIDE DEF tail, bits
<1>8. N_TB_bits(d) # 0 /\ N_TB_bits(d) > 0
  BY DEF HasSizes
<1>9. N_TB_bits(d) \in Nat \ {0} /\ N_TB_bits(d) + 24 <= G(d)
  BY <1>3, <1>4, <1>5, <1>6, <1>7, <1>8
<1> QED  BY <1>1, <1>2, <1>3, <1>9

LEMMA ConfigCodable ==
    ASSUME NEW d \in Definitions, HasSizes(d)
    PROVE  Codable([seg |-> Segmentation(N_TB_bits(d), d.Z), Qm |-> N_bps(d), G |-> G(d)])
<1> DEFINE g == N_SS(d) * N_PDC_subc(d)
           B == N_TB_bits(d) + 24
           C == IF B <= d.Z THEN 1 ELSE CeilDiv(B, d.Z - 24)
<1>1. Segmentation(N_TB_bits(d), d.Z).C = C
  <2>1. PICK Bp : Segmentation(N_TB_bits(d), d.Z) = BlocksFor(C, Bp)
    BY DEF Segmentation
  <2>2. PICK K1, K2 : BlocksFor(C, Bp) = BlocksOf(C, Bp, K1, K2)
    <3> HIDE DEF C
    <3> QED  BY Zenon DEF BlocksFor
  <2> HIDE DEF C
  <2>3. BlocksOf(C, Bp, K1, K2).C = C
    BY DEF BlocksOf
  <2> QED  BY <2>1, <2>2, <2>3
<1>2. g \in Nat \ {0} /\ G(d) = N_bps(d) * g /\ G(d) \in Nat /\ B \in Nat \ {0} /\ B <= G(d)
  BY CellsAndBits
<1>3. d.Z \in {2048, 6144} /\ N_bps(d) \in {1, 2, 4, 6, 8, 10}
  BY Modes, DefinitionsAssumption
<1> HIDE DEF g, B
<1>4. B <= 10 * g
  BY <1>2, <1>3
<1>5. C \in Nat \ {0} /\ C <= g
  BY <1>2, <1>3, <1>4 DEF CeilDiv
<1> HIDE DEF C
<1> QED  BY <1>1, <1>2, <1>3, <1>5 DEF Codable

-----------------------------------------------------------------------------
(* Tables. *)

LEMMA Bounded ==
    ASSUME NEW n \in Nat, NEW S, S \subseteq 0..n
    PROVE  /\ IsFiniteSet(S) /\ Cardinality(S) \in Nat
           /\ S # {} => Least(S) \in S
<1>1. IsFiniteSet(0..n)
  BY FS_Interval
<1>2. S \in SUBSET (0..n)
  OBVIOUS
<1>3. IsFiniteSet(S)
  BY <1>1, <1>2, FS_Subset
<1>4. Cardinality(S) \in Nat
  BY <1>3, FS_CardinalityType
<1>5. S # {} => Least(S) \in S
  <2>1. 0 \in Int /\ n \in Int
    OBVIOUS
  <2> QED  BY <2>1, Extremes
<1> QED  BY <1>3, <1>4, <1>5

LEMMA LeastCell ==
    \A n \in Nat : \A S : S \subseteq 0..n /\ Cardinality(S) > 0 => Least(S) \in S
<1>1. SUFFICES ASSUME NEW n \in Nat, NEW S, S \subseteq 0..n, Cardinality(S) > 0
              PROVE  Least(S) \in S
  BY Zenon
<1>2. Cardinality({}) = 0
  BY FS_EmptySet
<1>3. S # {}
  BY <1>1, <1>2
<1> QED  BY <1>1, <1>3, Bounded

\* What the tables contain are cells of a symbol.
LEMMA FiniteCells ==
    ASSUME NEW b0 \in Bs
    PROVE  /\ N_b_OCC(b0) \in {56, 112, 224, 448, 672, 896}
           /\ IsFiniteSet(Occupied(b0))
           /\ \A N \in Ns, l \in 0..20 : /\ PdcCells[b0][N][l] \subseteq Occupied(b0)
                                        /\ IsFiniteSet(PdcCells[b0][N][l])
                                        /\ Cardinality(PdcCells[b0][N][l]) \in Nat
           /\ \A N \in Ns, l \in 1..5 : /\ PccCells[b0][N][l] \subseteq Occupied(b0)
                                       /\ IsFiniteSet(PccCells[b0][N][l])
                                       /\ Cardinality(PccCells[b0][N][l]) \in Nat
<1>1. N_b_OCC(b0) \in {56, 112, 224, 448, 672, 896}
  <2>1. PICK d \in Definitions : b0 = d.b
    BY DEF Bs
  <2> QED  BY <2>1, Sizes
<1>2. IsFiniteSet(Occupied(b0))
  <2>1. PICK n \in Nat : n = N_b_OCC(b0)
    BY <1>1
  <2>2. Occupied(b0) \subseteq 0..n
    BY <2>1 DEF Occupied
  <2> QED  BY <2>2, Bounded
<1>3. \A N \in Ns, l \in 0..20 : PdcCells[b0][N][l] \subseteq Occupied(b0)
  <2> SUFFICES ASSUME NEW N \in Ns, NEW l \in 0..20
               PROVE  PdcCells[b0][N][l] \subseteq Occupied(b0)
    OBVIOUS
  <2> DEFINE cells == (Occupied(b0) \ DrsCells(b0, N, 30, l))
                         \ (IF l \in 1..5 THEN PccCells[b0][N][l] ELSE {})
  <2>1. PdcCells[b0][N][l] = IF l = 0 THEN {}
            ELSE IF l # FULLY_OCCUPIED /\ Cardinality(cells) = N_b_OCC(b0) THEN {Least(cells)}
            ELSE cells
    BY DEF PdcCells
  <2>2. cells \subseteq Occupied(b0)
    OBVIOUS
  <2>3. Cardinality(cells) = N_b_OCC(b0) => Least(cells) \in cells
    <3>1. PICK n \in Nat : n = N_b_OCC(b0) /\ n > 0
      BY <1>1
    <3>2. cells \subseteq 0..n
      BY <2>2, <3>1 DEF Occupied
    <3> HIDE DEF cells
    <3>3. Cardinality(cells) = N_b_OCC(b0) => Cardinality(cells) > 0
      BY <3>1
    <3>4. \A S : S \subseteq 0..n /\ Cardinality(S) > 0 => Least(S) \in S
      BY <3>1, LeastCell, Zenon
    <3> QED  BY <3>2, <3>3, <3>4, Zenon
  <2> HIDE DEF cells
  <2> QED  BY <2>1, <2>2, <2>3
<1>4. \A N \in Ns, l \in 1..5 : PccCells[b0][N][l] \subseteq Occupied(b0)
  <2> SUFFICES ASSUME NEW N \in Ns, NEW l \in 1..5
               PROVE  PccCells[b0][N][l] \subseteq Occupied(b0)
    OBVIOUS
  <2>1. PccFree[b0][N][l] \subseteq Occupied(b0)
    BY DEF PccFree
  <2>2. PccCells[b0][N][l] \subseteq PccFree[b0][N][l]
    BY DEF PccCells
  <2> QED  BY <2>1, <2>2
<1>5. \A S : S \subseteq Occupied(b0) => IsFiniteSet(S) /\ Cardinality(S) \in Nat
  BY <1>2, FS_Subset, FS_CardinalityType
<1> QED  BY <1>1, <1>2, <1>3, <1>4, <1>5

LEMMA Rows ==
    ASSUME NEW b0, NEW N \in Ns, NEW l \in Nat
    PROVE  l_equivalent(b0, N, l) \in 0..20
<1> DEFINE row == IF l <= l_limit(N) THEN l ELSE l - ((l - l_limit(N)) \div l_repeat) * l_repeat
<1>1. row \in 0..20
  BY DEF l_limit, l_repeat, Ns
<1>2. l_equivalent(b0, N, l) = IF Cardinality(PdcCells[b0][N][row]) = 1 THEN FULLY_OCCUPIED ELSE row
  BY DEF l_equivalent
<1> HIDE DEF row
<1> QED  BY <1>1, <1>2 DEF FULLY_OCCUPIED

-----------------------------------------------------------------------------
(* Which code blocks are encoded and decoded, as the packet proceeds. *)

\* The receiver has decoded the blocks that the bits contain, and no others.
Decoded(p, bits, i) ==
    /\ i \in 0..p.seg.C
    /\ \A k \in 0..i - 1 : rp(p, k) + n_e2(p, k) <= bits
    /\ i < p.seg.C => wp_enc(p, i + 1) > bits

Receiving == {"collect", "read", "again", "left"}

\* The packet has sizes and fec_t is configured for it, whole indices; what the bits that are due
\* (sender) or received (receiver) say about the code blocks.
GridConfig ==
    /\ psdef \in Definitions /\ HasSizes(psdef)
    /\ fec = [seg |-> Segmentation(N_TB_bits(psdef), psdef.Z), Qm |-> N_bps(psdef), G |-> G(psdef)]
GridIndices ==
    /\ ofdm_symb_idx \in Nat \ {0} /\ ps_idx \in Nat /\ ofdm_symb_ps_idx \in Nat
    /\ DOMAIN cnt = {"PCC_idx", "DRS_idx", "PDC_bits_idx", "PDC_subc_idx", "residual", "cb_idx"}
    /\ cnt.PDC_bits_idx \in Int /\ cnt.residual \in Int
BlockState ==
    /\ part \in {"tx", "pcc", "over"} \cup Receiving
    /\ part = "tx" => /\ cnt.cb_idx \in 0..fec.seg.C /\ cnt.PDC_bits_idx <= fec.G
                      /\ cnt.PDC_bits_idx <= wp_enc(fec, cnt.cb_idx)
    /\ part = "pcc" => cnt.PDC_bits_idx = 0 /\ cnt.cb_idx = 0
    /\ part \in Receiving => Decoded(fec, cnt.PDC_bits_idx, cnt.cb_idx)
BlockInv == GridConfig /\ GridIndices /\ BlockState

LEMMA Configured ==
    ASSUME GridConfig
    PROVE  /\ Codable(fec) /\ fec.G = G(psdef) /\ fec.G \in Nat /\ fec.seg.C \in Nat \ {0}
           /\ N_bps(psdef) \in {1, 2, 4, 6, 8, 10} /\ N_SS(psdef) \in {1, 2, 4, 8}
           /\ N_eff_TX \in Ns /\ step \in {5, 10} /\ N_DF_symb(psdef) \in Int /\ b \in Bs
<1>1. Codable(fec)
  BY ConfigCodable DEF GridConfig
<1>2. fec.G = G(psdef)
  BY DEF GridConfig
<1>3. /\ N_bps(psdef) \in {1, 2, 4, 6, 8, 10} /\ N_SS(psdef) \in {1, 2, 4, 8}
      /\ N_eff_TX \in Ns /\ step \in {5, 10}
  BY Modes DEF GridConfig, N_eff_TX, Ns, step, N_step
<1>4. N_DF_symb(psdef) \in Int /\ b \in Bs
  BY Sizes DEF GridConfig, Bs, b
<1> QED  BY <1>1, <1>2, <1>3, <1>4 DEF Codable

\* The symbols of a packet have a number of PDC cells.
LEMMA CellsOfSymbol ==
    ASSUME GridConfig, NEW l \in Nat
    PROVE  Row(l) \in 0..20 /\ PdcSize(l) \in Nat
<1>1. Row(l) \in 0..20
  BY Configured, Rows DEF Row
<1>2. \A N \in Ns, k \in 0..20 : Cardinality(PdcCells[b][N][k]) \in Nat
  BY Configured, FiniteCells
<1> QED  BY <1>1, <1>2, Configured DEF PdcSize

\* None is encoded or decoded to begin with.
LEMMA NothingYet ==
    ASSUME NEW p, Codable(p)
    PROVE  wp_enc(p, 0) >= 0 /\ Decoded(p, 0, 0)
<1>1. p.seg.C \in Nat \ {0}
  BY DEF Codable
<1>2. wp_enc(p, 0) \in Nat /\ wp_enc(p, 0 + 1) > 0
  <2>1. 0 \in Nat /\ 0 < p.seg.C
    BY <1>1
  <2>2. /\ rp(p, 0) = wp_enc(p, 0) /\ rp(p, 0) \in Nat
        /\ n_e(p, 0) \in Nat /\ n_e(p, 0) > 0
        /\ wp_enc(p, 0 + 1) = wp_enc(p, 0) + n_e(p, 0)
    BY <2>1, Blocks
  <2> QED  BY <2>2
<1> QED  BY <1>1, <1>2 DEF Decoded

\* A call of pdc_decode_codeblocks with the bits of one more symbol.
LEMMA DecodedFurther ==
    ASSUME NEW p, Codable(p), NEW bits \in Int, NEW more \in Int, more >= bits, NEW i,
           Decoded(p, bits, i)
    PROVE  Decoded(p, more, Decode(p, i, more))
<1> DEFINE D == Decode(p, i, more)
<1>1. p.seg.C \in Nat \ {0} /\ i \in 0..p.seg.C
  BY DEF Codable, Decoded
<1>2. /\ D \in i..p.seg.C
      /\ \A k \in i..D - 1 : rp(p, k) + n_e2(p, k) <= more
      /\ D < p.seg.C => rp(p, D) + n_e2(p, D) > more
  BY <1>1, DecodeAll
<1> HIDE DEF D
<1>3. \A k \in 0..i - 1 : rp(p, k) + n_e2(p, k) <= more
  <2> SUFFICES ASSUME NEW k \in 0..i - 1 PROVE rp(p, k) + n_e2(p, k) <= more
    OBVIOUS
  <2>1. k \in Nat /\ k < p.seg.C
    BY <1>1
  <2>2. rp(p, k) + n_e2(p, k) \in Nat
    BY <2>1, Blocks
  <2>3. rp(p, k) + n_e2(p, k) <= bits
    BY DEF Decoded
  <2> QED  BY <2>2, <2>3
<1>4. D < p.seg.C => wp_enc(p, D + 1) > more
  <2> SUFFICES ASSUME D < p.seg.C PROVE wp_enc(p, D + 1) > more
    OBVIOUS
  <2>1. D \in Nat
    BY <1>1, <1>2
  <2>2. /\ rp(p, D) + n_e2(p, D) \in Nat /\ rp(p, D) + n_e2(p, D) <= wp_enc(p, D + 1)
        /\ wp_enc(p, D + 1) = wp_enc(p, D) + n_e(p, D)
        /\ rp(p, D) = wp_enc(p, D) /\ rp(p, D) \in Nat /\ n_e(p, D) \in Nat
    BY <2>1, Blocks
  <2> QED  BY <1>2, <2>2
<1>5. Decoded(p, more, D)
  BY <1>1, <1>2, <1>3, <1>4 DEF Decoded
<1> QED  BY <1>5 DEF D

\* run_pdc of the receiver, whichever symbol and counters it is given.
LEMMA ReadFurther ==
    ASSUME GridConfig, NEW l \in Nat, NEW c,
           DOMAIN c = {"PCC_idx", "DRS_idx", "PDC_bits_idx", "PDC_subc_idx", "residual", "cb_idx"},
           c.PDC_bits_idx \in Int, c.residual \in Int,
           Decoded(fec, c.PDC_bits_idx, c.cb_idx)
    PROVE  /\ DOMAIN PdcRead(l, c) = DOMAIN c
           /\ PdcRead(l, c).PDC_bits_idx \in Int /\ PdcRead(l, c).residual \in Int
           /\ Decoded(fec, PdcRead(l, c).PDC_bits_idx, PdcRead(l, c).cb_idx)
<1> DEFINE cells == PdcSize(l) * N_SS(psdef)
           bits  == c.PDC_bits_idx + cells * N_bps(psdef)
<1>1. bits \in Int /\ bits >= c.PDC_bits_idx
  <2>1. cells \in Nat
    BY CellsOfSymbol, Configured
  <2> HIDE DEF cells
  <2>2. cells * N_bps(psdef) \in Nat
    BY <2>1, Configured
  <2> QED  BY <2>2
<1>2. Decoded(fec, bits, Decode(fec, c.cb_idx, bits))
  <2> HIDE DEF bits
  <2> QED  BY <1>1, Configured, DecodedFurther
<1>3. PdcRead(l, c) = IF IsPdc(l) THEN [c EXCEPT !.PDC_subc_idx = @ + cells, !.PDC_bits_idx = bits,
                                                 !.cb_idx = Decode(fec, @, bits)]
                      ELSE c
  BY DEF PdcRead
<1> HIDE DEF cells, bits
<1> QED  BY <1>1, <1>2, <1>3

\* The transmitter maps what a symbol needs, and encodes the blocks it stems from before.
LEMMA TransmitStep ==
    ASSUME BlockInv, Transmit PROVE BlockInv'
<1> DEFINE l == ofdm_symb_idx
           bits == cnt.PDC_bits_idx + NewBits(l)
<1>1. /\ GridConfig /\ GridIndices /\ part = "tx"
      /\ cnt.cb_idx \in 0..fec.seg.C /\ cnt.PDC_bits_idx <= fec.G
      /\ cnt.PDC_bits_idx <= wp_enc(fec, cnt.cb_idx)
  BY DEF BlockInv, BlockState, Transmit
<1>2. bits \in Int /\ bits <= fec.G /\ NewBits(l) \in Int
  <2>1. PdcSize(l) \in Nat
    BY <1>1, CellsOfSymbol DEF GridIndices
  <2>2. N_SS(psdef) * PdcSize(l) \in Int
    BY <1>1, <2>1, Configured
  <2> DEFINE cells == N_SS(psdef) * PdcSize(l)
             need  == CeilDiv((cells - cnt.residual) * N_bps(psdef), 24) * 24
             rest  == G(psdef) - cnt.PDC_bits_idx
  <2>3. NewBits(l) = IF cells < cnt.residual \/ need > rest THEN rest ELSE need
    BY DEF NewBits
  <2>4. need \in Int
    <3>1. (cells - cnt.residual) * N_bps(psdef) \in Int
      <4> HIDE DEF cells
      <4> QED  BY <1>1, <2>2, Configured DEF GridIndices, cells
    <3>2. PICK x \in Int : x = (cells - cnt.residual) * N_bps(psdef)
      BY <3>1
    <3>3. CeilDiv(x, 24) \in Int
      BY DEF CeilDiv
    <3> QED  BY <3>2, <3>3
  <2>5. rest \in Int /\ cnt.PDC_bits_idx \in Int /\ G(psdef) = fec.G /\ fec.G \in Nat
    BY <1>1, Configured DEF GridIndices
  <2> HIDE DEF cells, need
  <2> QED  BY <2>3, <2>4, <2>5
<1>3. /\ Encode(fec, cnt.cb_idx, bits) \in 0..fec.seg.C
      /\ wp_enc(fec, Encode(fec, cnt.cb_idx, bits)) >= bits
  <2> HIDE DEF bits
  <2> QED  BY <1>1, <1>2, Configured, EncodeEnough
<1>4. /\ cnt'.PDC_bits_idx = cnt.PDC_bits_idx + (IF IsPdc(l) THEN NewBits(l) ELSE 0)
      /\ cnt'.residual = IF IsPdc(l) THEN Residual(l) ELSE cnt.residual
      /\ cnt'.cb_idx = IF IsPdc(l) THEN Encode(fec, cnt.cb_idx, bits) ELSE cnt.cb_idx
      /\ DOMAIN cnt' = {"PCC_idx", "DRS_idx", "PDC_bits_idx", "PDC_subc_idx", "residual", "cb_idx"}
  BY DEF Transmit
<1>5. /\ UNCHANGED <<psdef, fec, ps_idx, ofdm_symb_ps_idx>>
      /\ ofdm_symb_idx' = ofdm_symb_idx + 1 /\ part' \in {"tx", "over"}
  BY DEF Transmit, config, stageidx
<1>6. Residual(l) \in Int
  <2>1. PdcSize(l) \in Nat
    BY <1>1, CellsOfSymbol DEF GridIndices
  <2>2. N_SS(psdef) * PdcSize(l) \in Int
    BY <1>1, <2>1, Configured
  <2>3. NewBits(l) \div N_bps(psdef) \in Int
    BY <1>1, <1>2, Configured
  <2> QED  BY <1>1, <2>2, <2>3 DEF Residual, GridIndices
<1> HIDE DEF bits
<1>7. GridConfig'
  BY <1>1, <1>5 DEF GridConfig
<1>8. GridIndices'
  BY <1>1, <1>2, <1>4, <1>5, <1>6 DEF GridIndices
<1>9. BlockState'
  <2>1. /\ cnt'.PDC_bits_idx <= fec.G /\ cnt'.cb_idx \in 0..fec.seg.C
        /\ cnt'.PDC_bits_idx <= wp_enc(fec, cnt'.cb_idx)
    <3>1. CASE IsPdc(l)
      BY <1>2, <1>3, <1>4, <3>1 DEF bits
    <3>2. CASE ~IsPdc(l)
      <4>1. cnt'.PDC_bits_idx = cnt.PDC_bits_idx /\ cnt'.cb_idx = cnt.cb_idx
        BY <1>1, <1>4, <3>2 DEF GridIndices
      <4> QED  BY <1>1, <4>1
    <3> QED  BY <3>1, <3>2
  <2> QED  BY <1>5, <2>1 DEF BlockState, Receiving
<1> QED  BY <1>7, <1>8, <1>9 DEF BlockInv

\* What the receiver does before the PDC, and between the symbols of it, changes no code block.
LEMMA BlocksAlone ==
    ASSUME BlockInv, Transmitted \/ PccSymbolRead \/ PdcBegins \/ Collect \/ Collected
                         \/ StageDone \/ Received
    PROVE  BlockInv'
<1>1. GridConfig /\ GridIndices /\ BlockState /\ step \in {5, 10} /\ Codable(fec)
  BY Configured DEF BlockInv
<1>2. UNCHANGED <<psdef, fec>>
  BY DEF Transmitted, PccSymbolRead, PdcBegins, Collect, Collected, StageDone, Received, sender,
         config, Goes
<1>3. GridConfig'
  BY <1>1, <1>2 DEF GridConfig
<1>4. CASE Transmitted
  <2>1. cnt' = Counters /\ UNCHANGED stageidx /\ ofdm_symb_idx' = 1 /\ part' \in {"pcc", "over"}
    BY <1>4 DEF Transmitted
  <2>2. GridIndices'
    BY <1>1, <2>1 DEF GridIndices, Counters, stageidx
  <2>3. BlockState'
    BY <2>1 DEF BlockState, Counters, Receiving
  <2> QED  BY <1>3, <2>2, <2>3 DEF BlockInv
<1>5. CASE PccSymbolRead
  <2>1. /\ part = "pcc" /\ part' \in {"pcc", "over"} /\ UNCHANGED ps_idx
        /\ ofdm_symb_idx' = ofdm_symb_idx + 1 /\ ofdm_symb_ps_idx' = ofdm_symb_ps_idx + 1
        /\ cnt'.PDC_bits_idx = cnt.PDC_bits_idx /\ cnt'.residual = cnt.residual
        /\ cnt'.cb_idx = cnt.cb_idx /\ DOMAIN cnt' = DOMAIN cnt
    BY <1>1, <1>5 DEF PccSymbolRead, Goes, GridIndices
  <2>2. GridIndices'
    BY <1>1, <2>1 DEF GridIndices
  <2>3. BlockState'
    BY <1>1, <2>1 DEF BlockState, Receiving
  <2> QED  BY <1>3, <2>2, <2>3 DEF BlockInv
<1>6. CASE PdcBegins
  <2>1. /\ part = "pcc" /\ part' \in {"collect", "again", "over"} /\ UNCHANGED <<ps_idx, cnt>>
        /\ ofdm_symb_idx' = ofdm_symb_idx /\ ofdm_symb_ps_idx' \in {ofdm_symb_ps_idx, 0}
    BY <1>6 DEF PdcBegins, Goes
  <2>2. GridIndices'
    BY <1>1, <2>1 DEF GridIndices
  <2>3. BlockState'
    <3>1. cnt'.PDC_bits_idx = 0 /\ cnt'.cb_idx = 0
      BY <1>1, <2>1 DEF BlockState
    <3>2. Decoded(fec, 0, 0)
      BY <1>1, NothingYet
    <3>3. Decoded(fec, cnt.PDC_bits_idx, cnt.cb_idx)'
      BY <1>2, <3>1, <3>2
    <3> QED  BY <2>1, <3>3 DEF BlockState, Receiving
  <2> QED  BY <1>3, <2>2, <2>3 DEF BlockInv
<1>7. CASE Collect \/ Collected
  <2>1. /\ part = "collect" /\ part' \in {"collect", "read"} /\ UNCHANGED ps_idx
        /\ ofdm_symb_idx' \in {ofdm_symb_idx, ofdm_symb_idx + 1}
        /\ ofdm_symb_ps_idx' \in {ofdm_symb_ps_idx + 1, 0, 1}
        /\ cnt'.PDC_bits_idx = cnt.PDC_bits_idx /\ cnt'.residual = cnt.residual
        /\ cnt'.cb_idx = cnt.cb_idx /\ DOMAIN cnt' = DOMAIN cnt
    <3>1. CASE Collect
      BY <1>1, <3>1 DEF Collect, GridIndices
    <3>2. CASE Collected
      BY <3>2 DEF Collected, relative_start
    <3> QED  BY <1>7, <3>1, <3>2
  <2>2. GridIndices'
    BY <1>1, <2>1 DEF GridIndices
  <2>3. BlockState'
    <3>1. Decoded(fec, cnt.PDC_bits_idx, cnt.cb_idx)
      BY <1>1, <2>1 DEF BlockState, Receiving
    <3>2. Decoded(fec, cnt.PDC_bits_idx, cnt.cb_idx)'
      BY <1>2, <2>1, <3>1
    <3> QED  BY <2>1, <3>2 DEF BlockState, Receiving
  <2> QED  BY <1>3, <2>2, <2>3 DEF BlockInv
<1>8. CASE StageDone \/ Received
  <2>1. /\ part \in {"read", "left"} /\ part' \in {"collect", "left", "over"} /\ UNCHANGED cnt
        /\ ofdm_symb_idx' = ofdm_symb_idx /\ ps_idx' \in {ps_idx, ps_idx + 1}
        /\ ofdm_symb_ps_idx' \in {ofdm_symb_ps_idx, 0, 1}
    BY <1>8 DEF StageDone, Received, stageidx
  <2>2. GridIndices'
    BY <1>1, <2>1 DEF GridIndices
  <2>3. BlockState'
    <3>1. Decoded(fec, cnt.PDC_bits_idx, cnt.cb_idx)
      BY <1>1, <2>1 DEF BlockState, Receiving
    <3>2. Decoded(fec, cnt.PDC_bits_idx, cnt.cb_idx)'
      BY <1>2, <2>1, <3>1
    <3> QED  BY <2>1, <3>2 DEF BlockState, Receiving
  <2> QED  BY <1>3, <2>2, <2>3 DEF BlockInv
<1> QED  BY <1>4, <1>5, <1>6, <1>7, <1>8

\* A symbol of the PDC is read: of a stage, once more after the PCC, or as it arrives.
LEMMA ReadStep ==
    ASSUME BlockInv, ReadStage \/ Again \/ ReadLeft
    PROVE  BlockInv'
<1>1. GridConfig /\ GridIndices /\ BlockState /\ step \in {5, 10}
  BY Configured DEF BlockInv
<1>2. UNCHANGED <<psdef, fec>> /\ part \in Receiving
  BY DEF ReadStage, Again, ReadLeft, sender, config, Receiving
<1>3. GridConfig'
  BY <1>1, <1>2 DEF GridConfig
<1>4. Decoded(fec, cnt.PDC_bits_idx, cnt.cb_idx)
  BY <1>1, <1>2 DEF BlockState
<1> DEFINE Good(c) == /\ DOMAIN c = {"PCC_idx", "DRS_idx", "PDC_bits_idx", "PDC_subc_idx",
                                     "residual", "cb_idx"}
                      /\ c.PDC_bits_idx \in Int /\ c.residual \in Int
                      /\ Decoded(fec, c.PDC_bits_idx, c.cb_idx)
<1>5. /\ Good(cnt')
      /\ ofdm_symb_idx' \in Nat \ {0} /\ ps_idx' \in Nat /\ ofdm_symb_ps_idx' \in Nat
      /\ part' \in Receiving \cup {"over"}
  <2>1. \A l \in Nat : \A c : Good(c) => Good(PdcRead(l, c))
    BY <1>1, ReadFurther
  <2>2. Good(cnt)
    BY <1>1, <1>4 DEF GridIndices
  <2> HIDE DEF Good
  <2>3. CASE ReadStage
    <3> DEFINE l == 1 + ps_idx * step + ofdm_symb_ps_idx
    <3>1. l \in Nat
      BY <1>1 DEF GridIndices
    <3>2. cnt' = PdcRead(l, cnt)
      BY <2>3 DEF ReadStage
    <3> HIDE DEF l
    <3>3. Good(cnt')
      BY <2>1, <2>2, <3>1, <3>2
    <3> QED  BY <1>1, <2>3, <3>3 DEF ReadStage, GridIndices, Receiving
  <2>4. CASE Again
    <3>1. ofdm_symb_ps_idx + 1 \in Nat
      BY <1>1 DEF GridIndices
    <3>2. cnt' = PdcRead(ofdm_symb_ps_idx + 1, cnt)
      BY <2>4 DEF Again
    <3>3. Good(cnt')
      BY <2>1, <2>2, <3>1, <3>2
    <3> QED  BY <1>1, <2>4, <3>3 DEF Again, GridIndices, Receiving
  <2>5. CASE ReadLeft
    <3> DEFINE c == [cnt EXCEPT !.DRS_idx = @ + DrsCount]
    <3>1. ofdm_symb_idx \in Nat
      BY <1>1 DEF GridIndices
    <3>2. cnt' = PdcRead(ofdm_symb_idx, c)
      BY <2>5 DEF ReadLeft
    <3>3. Good(c)
      BY <2>2 DEF Good
    <3> HIDE DEF c
    <3>4. Good(cnt')
      BY <2>1, <3>1, <3>2, <3>3
    <3> QED  BY <1>1, <2>5, <3>4, SMTT(60) DEF ReadLeft, GridIndices, Receiving, Goes
  <2> QED  BY <2>3, <2>4, <2>5
<1>6. GridIndices' /\ BlockState'
  <2>1. Decoded(fec, cnt.PDC_bits_idx, cnt.cb_idx)'
    BY <1>2, <1>5
  <2> QED  BY <1>5, <2>1 DEF GridIndices, BlockState, Receiving
<1> QED  BY <1>3, <1>6 DEF BlockInv

LEMMA BlockInit == ASSUME GridInit PROVE BlockInv
<1>1. GridConfig
  BY DEF GridInit, GridConfig
<1>2. GridIndices
  BY DEF GridInit, GridIndices, Counters
<1>3. BlockState
  <2>1. Codable(fec) /\ fec.G \in Nat /\ fec.seg.C \in Nat \ {0}
    BY <1>1, Configured
  <2>2. wp_enc(fec, 0) >= 0
    BY <2>1, NothingYet
  <2> QED  BY <2>1, <2>2 DEF GridInit, BlockState, Counters, Receiving
<1> QED  BY <1>1, <1>2, <1>3 DEF BlockInv

LEMMA BlockNext == ASSUME BlockInv, [GridNext]_grid PROVE BlockInv'
<1>1. CASE UNCHANGED grid
  BY <1>1 DEF BlockInv, GridConfig, GridIndices, BlockState, Decoded, grid, sender, config, stageidx
<1>2. CASE GridNext
  BY <1>2, TransmitStep, BlocksAlone, ReadStep DEF GridNext
<1> QED  BY <1>1, <1>2

\* tx_t never maps a bit that is not encoded yet, and rx_synced_t decodes a code block once its bits
\* are there and no later, from where the encoder put them: for every packet that has sizes.
THEOREM CodeblocksHold == GridInit /\ [][GridNext]_grid => []CodeblocksAsEncoded
<1>1. GridInit => BlockInv
  BY BlockInit
<1>2. BlockInv /\ [GridNext]_grid => BlockInv'
  BY BlockNext
<1>3. BlockInv => CodeblocksAsEncoded
  <2> SUFFICES ASSUME BlockInv PROVE CodeblocksAsEncoded
    OBVIOUS
  <2>1. Codable(fec) /\ fec.seg.C \in Nat \ {0}
    BY Configured DEF BlockInv
  <2>2. ASSUME part \in Receiving
        PROVE  /\ \A i \in 0..cnt.cb_idx - 1 :
                    /\ rp(fec, i) = wp_enc(fec, i)
                    /\ n_e2(fec, i) \in {n_e(fec, i), n_e(fec, i) - fec.Qm}
                    /\ rp(fec, i) + n_e2(fec, i) <= cnt.PDC_bits_idx
               /\ cnt.cb_idx < fec.seg.C => wp_enc(fec, cnt.cb_idx + 1) > cnt.PDC_bits_idx
    <3>1. Decoded(fec, cnt.PDC_bits_idx, cnt.cb_idx)
      BY <2>2 DEF BlockInv, BlockState
    <3>2. \A i \in 0..cnt.cb_idx - 1 : i \in Nat /\ i < fec.seg.C
      BY <2>1, <3>1 DEF Decoded
    <3> QED  BY <2>1, <3>1, <3>2, Blocks DEF Decoded
  <2> QED  BY <2>2 DEF CodeblocksAsEncoded, BlockInv, BlockState, Receiving
<1> QED  BY <1>1, <1>2, <1>3, PTL

-----------------------------------------------------------------------------
(* The pilots, symbol by symbol. *)

\* The second four of eight streams have their pilots in a symbol of their own.
SecondSymbol == IF N_eff_TX = 8 THEN 1 ELSE 0

\* DRS symbol number j as stream ts has it: the pilot and the slot it belongs to.
PilotOf(ts, j) == [symbol |-> 1 + j * step + ts \div 4, n |-> j % 2]
SlotOf(ts, j) == (((ts % 4) \div 2) + j) % 2

\* drs_t is about to find number k for the first (h = 0) or the second (h = 1) four streams.
DrsDue(k, h) ==
    /\ k \in Nat /\ h \in {0, 1} /\ (h = 1 => N_eff_TX = 8)
    /\ drs = [l_next |-> (1 + k * step) + h, n |-> k % 2, TS_first |-> 4 * h]
DrsState(k, h) ==
    /\ DrsDue(k, h)
    /\ k + h > 0 => TS_last = IF h = 0 THEN N_eff_TX - 1 ELSE 3
DrsFollows(k, h, k2, h2) ==
    IF N_eff_TX = 8 /\ h = 0 THEN k2 = k /\ h2 = 1 ELSE k2 = k + 1 /\ h2 = 0

\* The last two pilots that each stream has received are in their slots.
ReceivedOf(ts, k, h) == IF ts \div 4 < h THEN k + 1 ELSE k
Interlaced(k, h) ==
    /\ interlaced \in [0..7 -> [1..2 -> [symbol : Int, n : Int]]]
    /\ \A ts \in 0..N_eff_TX - 1 : \A j \in Nat :
          j \in {ReceivedOf(ts, k, h) - 1, ReceivedOf(ts, k, h) - 2} =>
              interlaced[ts][SlotOf(ts, j) + 1] = PilotOf(ts, j)

\* No DRS symbol has been left out.
LastDrs(k, h) == IF h = 1 THEN 1 + k * step ELSE ((1 + k * step) - step) + SecondSymbol
Between(k, h) == LastDrs(k, h) < ofdm_symb_idx /\ ofdm_symb_idx <= (1 + k * step) + h

EstimateRight ==
    \A ts \in DOMAIN est.pilots :
        LET p == est.pilots[ts] IN
        IF est.lr THEN [i \in 1..2 |-> Place(ts, p[i])] = Expected(ts, est.ps, TRUE)
        ELSE <<Place(ts, p)>> = Expected(ts, est.ps, FALSE)
ReadInTime ==
    read # <<>> =>
         IF part = "read"
         THEN est.lr /\ est.ps = ps_idx /\ read.asked - est.at \in 0..stride - 1
         ELSE read.asked - est.at \in 0..(step + stride - 1)

\* Where the indices are, part by part.
PilotsPcc(k, h) ==
    /\ DrsState(k, h) /\ Interlaced(k, h) /\ Between(k, h) /\ k + h <= 1
    /\ ps_idx = 0 /\ ofdm_symb_idx = 1 + ofdm_symb_ps_idx
    /\ k + h > 0 => est.at = 1
PilotsAgain(k, h) ==
    /\ DrsState(k, h) /\ Between(k, h) /\ k + h <= 1
    /\ ps_idx = 0 /\ ofdm_symb_ps_idx < ofdm_symb_idx
    /\ k + h > 0 => est.at = 1
PilotsCollect(k, h) ==
    /\ DrsState(k, h) /\ Interlaced(k, h) /\ Between(k, h)
    /\ ps_idx < nof_full_ps /\ ofdm_symb_idx <= final_idx + 1
    /\ ps_idx > 0 => ofdm_symb_ps_idx > 0
    /\ ofdm_symb_idx = IF ps_idx = 0 THEN 1 + ofdm_symb_ps_idx
                       ELSE ((1 + SecondSymbol) + ps_idx * step) + ofdm_symb_ps_idx
PilotsRead ==
    /\ DrsState(ps_idx + 2, 0) /\ Interlaced(ps_idx + 2, 0)
    /\ ps_idx < nof_full_ps /\ ofdm_symb_idx = final_idx + 1
    /\ ofdm_symb_ps_idx \in relative_start..step + 1
    /\ ofdm_symb_ps_idx > relative_start =>
         /\ est.lr /\ est.ps = ps_idx
         /\ est.at = ((1 + ps_idx * step) + (ofdm_symb_ps_idx - 1))
                        - ((ofdm_symb_ps_idx - 1 - relative_start) % stride)
\* without stages read before, and with them
PilotsLeftOnly(k, h) ==
    /\ DrsState(k, h) /\ Between(k, h) /\ k + h > 0
    /\ ofdm_symb_idx = (1 + ps_idx * step) + ofdm_symb_ps_idx /\ ofdm_symb_ps_idx <= step
    /\ est.at = IF h = 1 THEN 1 + k * step ELSE (1 + k * step) - step
PilotsRest(k, h) ==
    /\ DrsState(k, h)
    /\ ofdm_symb_idx = ((2 + SecondSymbol) + ps_idx * step) + ofdm_symb_ps_idx
    /\ est.at \in (2 + nof_full_ps * step) - stride .. 1 + nof_full_ps * step
    /\ ofdm_symb_idx > 1 + nof_full_ps * step

PilotState ==
    /\ part # "over" => failed = "none"
    /\ (est.at > 0 /\ failed = "none") => EstimateRight
    /\ ReadInTime
    /\ part = "tx" => /\ read = <<>> /\ est.at = 0 /\ ps_idx = 0 /\ ofdm_symb_ps_idx = 0
                      /\ interlaced \in [0..7 -> [1..2 -> [symbol : Int, n : Int]]]
    /\ part = "pcc" => \E k \in Nat, h \in {0, 1} : PilotsPcc(k, h)
    /\ part = "again" => \E k \in Nat, h \in {0, 1} : PilotsAgain(k, h)
    /\ part = "collect" => \E k \in Nat, h \in {0, 1} : PilotsCollect(k, h)
    /\ part = "read" => PilotsRead
    /\ part = "left" => \E k \in Nat, h \in {0, 1} : PilotsLeftOnly(k, h) \/ PilotsRest(k, h)
PilotInv == BlockInv /\ stride \in Nat \ {0} /\ PilotState

\* The stages of a packet, by the number of its streams.
LEMMA Shapes ==
    ASSUME GridConfig
    PROVE  /\ N_eff_TX \in {1, 2, 4, 8} /\ step \in {5, 10} /\ SecondSymbol \in {0, 1}
           /\ ps_t_length = step + (1 + SecondSymbol)
           /\ N_eff_TX = 8 => step = 10 /\ SecondSymbol = 1
           /\ N_eff_TX # 8 => SecondSymbol = 0
           /\ N_DF_symb(psdef) \in Int
<1>1. N_eff_TX \in {1, 2, 4, 8} /\ N_DF_symb(psdef) \in Int
  BY Configured DEF Ns
<1>2. /\ step = (IF N_eff_TX <= 2 THEN 5 ELSE 10)
      /\ ps_t_length = (CASE N_eff_TX <= 2 -> 6 [] N_eff_TX = 4 -> 11 [] OTHER -> 12)
      /\ SecondSymbol = (IF N_eff_TX = 8 THEN 1 ELSE 0)
  BY DEF step, N_step, ps_t_length, SecondSymbol
<1> HIDE DEF N_eff_TX
<1> QED  BY <1>1, <1>2

\* Products with the step, which is five or ten.
LEMMA Products ==
    ASSUME NEW s \in {5, 10}, NEW k \in Int
    PROVE  /\ k * s \in Int /\ (k \in Nat => k * s \in Nat)
           /\ (k + 1) * s = k * s + s /\ (k + 2) * s = (k * s + s) + s
<1>1. CASE s = 5
  BY <1>1
<1>2. CASE s = 10
  BY <1>2
<1> QED  BY <1>1, <1>2

\* Comparing multiples of the step compares the numbers of the DRS symbols.
LEMMA Ordered ==
    ASSUME NEW s \in {5, 10}, NEW k \in Int, NEW j \in Int
    PROVE  /\ k * s < j * s + s => k <= j
           /\ k * s < ((j * s + s) + s) => k <= j + 1
           /\ k <= j => k * s <= j * s
<1>1. CASE s = 5
  BY <1>1
<1>2. CASE s = 10
  BY <1>2
<1> QED  BY <1>1, <1>2

\* What is left of a packet behind its whole stages is less than a stage.
LEMMA WholeStages ==
    ASSUME GridConfig
    PROVE  /\ nof_full_ps \in Int
           /\ N_DF_symb(psdef) <= ((nof_full_ps * step + step) + SecondSymbol)
<1>1. \A s \in {5, 10} : \A x \in Int :
          /\ x \div s \in Int /\ x <= ((x \div s) * s + s) - 1
  <2> SUFFICES ASSUME NEW s \in {5, 10}, NEW x \in Int
               PROVE  x \div s \in Int /\ x <= ((x \div s) * s + s) - 1
    OBVIOUS
  <2>1. CASE s = 5
    BY <2>1
  <2>2. CASE s = 10
    BY <2>2
  <2> QED  BY <2>1, <2>2
<1>2. /\ N_DF_symb(psdef) \in Int /\ step \in {5, 10} /\ SecondSymbol \in {0, 1}
      /\ ps_t_length = step + (1 + SecondSymbol)
  BY Shapes
<1>3. PICK x \in Int : x = N_DF_symb(psdef) - (ps_t_length - step)
  BY <1>2
<1>4. nof_full_ps = x \div step
  BY <1>3 DEF nof_full_ps
<1>5. nof_full_ps \in Int /\ x <= (nof_full_ps * step + step) - 1
  BY <1>1, <1>2, <1>4
<1>6. nof_full_ps * step \in Int
  BY <1>2, <1>5
<1> HIDE DEF nof_full_ps
<1> QED  BY <1>2, <1>3, <1>5, <1>6

\* Number k of the first or second four streams is followed by the one that drs_t advances to.
LEMMA DrsNumbers ==
    ASSUME GridConfig, NEW k \in Nat, NEW h \in {0, 1}, DrsDue(k, h),
           NEW k2, NEW h2, DrsFollows(k, h, k2, h2)
    PROVE  /\ k2 \in Nat /\ h2 \in {0, 1} /\ k2 + h2 > 0
           /\ Advanced = [l_next |-> (1 + k2 * step) + h2, n |-> k2 % 2, TS_first |-> 4 * h2]
           /\ get_ts_idx_last = IF h2 = 0 THEN N_eff_TX - 1 ELSE 3
           /\ \A ts \in 0..7 : ts \in drs.TS_first..get_ts_idx_last
                                   <=> ts \in 0..N_eff_TX - 1 /\ ts \div 4 = h
<1>1. /\ N_eff_TX \in {1, 2, 4, 8} /\ step \in {5, 10} /\ (N_eff_TX = 8 => step = 10)
  BY Shapes
<1>2. /\ drs = [l_next |-> (1 + k * step) + h, n |-> k % 2, TS_first |-> 4 * h]
      /\ h = 1 => N_eff_TX = 8
  BY DEF DrsDue
<1>3. IF N_eff_TX = 8 /\ h = 0 THEN k2 = k /\ h2 = 1 ELSE k2 = k + 1 /\ h2 = 0
  BY DEF DrsFollows
<1>4. k2 \in Nat /\ h2 \in {0, 1} /\ k2 + h2 > 0
  BY <1>3
<1>5. get_ts_idx_last = IF h = 0 THEN (IF N_eff_TX < 4 THEN N_eff_TX - 1 ELSE 3) ELSE 7
  BY <1>2 DEF get_ts_idx_last
<1>6. Advanced = IF N_eff_TX <= 4
            THEN [l_next |-> drs.l_next + step, n |-> 1 - drs.n, TS_first |-> drs.TS_first]
            ELSE [l_next |-> drs.l_next + (IF drs.l_next % 2 = 1 THEN 1 ELSE 9),
                  n |-> IF drs.l_next % 2 = 1 THEN drs.n ELSE 1 - drs.n,
                  TS_first |-> 4 - drs.TS_first]
  <2> DEFINE L == (1 + k * step) + h
             M == k % 2
             F == 4 * h
  <2>1. drs = [l_next |-> L, n |-> M, TS_first |-> F]
    BY <1>2
  <2> HIDE DEF L, M, F
  <2>2. drs.l_next = L /\ drs.n = M /\ drs.TS_first = F
    BY <2>1
  <2>3. [drs EXCEPT !.l_next = @ + step, !.n = 1 - @]
           = [l_next |-> drs.l_next + step, n |-> 1 - drs.n, TS_first |-> drs.TS_first]
    <3>1. [drs EXCEPT !.l_next = @ + step, !.n = 1 - @]
              \in [l_next : {drs.l_next + step}, n : {1 - drs.n}, TS_first : {drs.TS_first}]
      BY <2>1, <2>2
    <3>2. \A x, y, z : \A r \in [l_next : {x}, n : {y}, TS_first : {z}] :
             r = [l_next |-> x, n |-> y, TS_first |-> z]
      OBVIOUS
    <3> QED  BY <3>1, <3>2, Zenon
  <2> QED  BY <2>3, Zenon DEF Advanced
<1>7. 1 - (k % 2) = (k + 1) % 2
  OBVIOUS
<1> HIDE DEF N_eff_TX, get_ts_idx_last
<1>8. Advanced = [l_next |-> (1 + k2 * step) + h2, n |-> k2 % 2, TS_first |-> 4 * h2]
  <2>1. CASE N_eff_TX # 8
    <3>1. N_eff_TX <= 4 /\ h = 0 /\ k2 = k + 1 /\ h2 = 0
      BY <1>1, <1>2, <1>3, <2>1
    <3>2. (k + 1) * step = k * step + step /\ k * step \in Int /\ step \in Int
      BY <1>1, Products
    <3>3. drs.l_next + step = (1 + k2 * step) + h2 /\ drs.TS_first = 4 * h2
      BY <1>2, <3>1, <3>2
    <3> QED  BY <1>2, <1>6, <1>7, <3>1, <3>3
  <2>2. CASE N_eff_TX = 8 /\ h = 0
    <3>1. k2 = k /\ h2 = 1 /\ step = 10 /\ ~(N_eff_TX <= 4)
      BY <1>1, <1>3, <2>2
    <3>2. drs.l_next = 1 + k * 10 /\ drs.l_next % 2 = 1 /\ drs.TS_first = 0
      BY <1>2, <2>2, <3>1
    <3>3. drs.l_next + 1 = (1 + k2 * step) + h2
      BY <3>1, <3>2
    <3> QED  BY <1>2, <1>6, <3>1, <3>2, <3>3
  <2>3. CASE N_eff_TX = 8 /\ h = 1
    <3>1. k2 = k + 1 /\ h2 = 0 /\ step = 10 /\ ~(N_eff_TX <= 4)
      BY <1>1, <1>3, <2>3
    <3>2. drs.l_next = 2 + k * 10 /\ drs.l_next % 2 # 1 /\ drs.TS_first = 4
      BY <1>2, <2>3, <3>1
    <3>3. drs.l_next + 9 = (1 + k2 * step) + h2
      BY <3>1, <3>2
    <3> QED  BY <1>2, <1>6, <1>7, <3>1, <3>2, <3>3
  <2> QED  BY <2>1, <2>2, <2>3
<1>9. get_ts_idx_last = IF h2 = 0 THEN N_eff_TX - 1 ELSE 3
  BY <1>1, <1>2, <1>3, <1>5
<1>10. \A ts \in 0..7 : ts \in drs.TS_first..get_ts_idx_last <=> ts \in 0..N_eff_TX - 1 /\ ts \div 4 = h
  <2>1. drs.TS_first = 4 * h
    BY <1>2
  <2> QED  BY <1>1, <1>2, <1>5, <2>1
<1> QED  BY <1>4, <1>8, <1>9, <1>10

\* The sizes of a packet stay as they are.
LEMMA SamePacket ==
    ASSUME UNCHANGED psdef
    PROVE  /\ N_eff_TX' = N_eff_TX /\ step' = step /\ SecondSymbol' = SecondSymbol
           /\ ps_t_length' = ps_t_length /\ nof_full_ps' = nof_full_ps
<1>1. N_eff_TX' = N_eff_TX
  BY DEF N_eff_TX
<1>2. step' = step /\ SecondSymbol' = SecondSymbol /\ ps_t_length' = ps_t_length
  BY <1>1 DEF step, SecondSymbol, ps_t_length
<1> QED  BY <1>1, <1>2 DEF nof_full_ps

\* No DRS symbol: everything stays, and the next symbol is not beyond the DRS symbol that is due.
LEMMA StillDue ==
    ASSUME GridConfig, GridIndices, UNCHANGED <<psdef, drs>>,
           NEW k \in Nat, NEW h \in {0, 1}, DrsDue(k, h)
    PROVE  /\ DrsDue(k, h)'
           /\ (UNCHANGED ofdm_symb_idx /\ Between(k, h) => Between(k, h)')
           /\ (~IsDrs(ofdm_symb_idx) /\ ofdm_symb_idx' = ofdm_symb_idx + 1 /\ Between(k, h)
                  => Between(k, h)')
<1>1. /\ N_eff_TX' = N_eff_TX /\ step' = step /\ SecondSymbol' = SecondSymbol
      /\ step \in {5, 10} /\ SecondSymbol \in {0, 1} /\ N_eff_TX \in {1, 2, 4, 8}
  BY SamePacket, Shapes
<1>2. DrsDue(k, h)'
  BY <1>1 DEF DrsDue
<1>3. UNCHANGED ofdm_symb_idx /\ Between(k, h) => Between(k, h)'
  BY <1>1 DEF Between, LastDrs
<1>4. ASSUME ~IsDrs(ofdm_symb_idx), ofdm_symb_idx' = ofdm_symb_idx + 1, Between(k, h)
      PROVE  Between(k, h)'
  <2>1. PICK x \in Nat : x = k * step
    BY <1>1, Products
  <2>2. drs.l_next = (1 + x) + h
    BY <2>1 DEF DrsDue
  <2>3. /\ LastDrs(k, h) < ofdm_symb_idx /\ ofdm_symb_idx <= (1 + x) + h
        /\ ofdm_symb_idx # (1 + x) + h
    BY <1>4, <2>1, <2>2 DEF Between, IsDrs
  <2>4. LastDrs(k, h) \in Int /\ LastDrs(k, h)' = LastDrs(k, h)
    BY <1>1, <2>1 DEF LastDrs
  <2>5. LastDrs(k, h) < ofdm_symb_idx + 1 /\ ofdm_symb_idx + 1 <= (1 + x) + h
    BY <2>3, <2>4 DEF GridIndices
  <2> QED  BY <1>1, <1>4, <2>1, <2>4, <2>5 DEF Between
<1> QED  BY <1>2, <1>3, <1>4

LEMMA NoDrs ==
    ASSUME GridConfig, GridIndices, UNCHANGED <<psdef, drs, TS_last, interlaced>>,
           NEW k \in Nat, NEW h \in {0, 1}, DrsState(k, h)
    PROVE  /\ DrsState(k, h)' /\ (Interlaced(k, h) => Interlaced(k, h)')
           /\ (UNCHANGED ofdm_symb_idx /\ Between(k, h) => Between(k, h)')
           /\ (~IsDrs(ofdm_symb_idx) /\ ofdm_symb_idx' = ofdm_symb_idx + 1 /\ Between(k, h)
                  => Between(k, h)')
<1>1. N_eff_TX' = N_eff_TX /\ step' = step /\ DrsDue(k, h)
  BY SamePacket DEF DrsState
<1>2. DrsState(k, h)'
  BY <1>1, StillDue DEF DrsState
<1>3. Interlaced(k, h) => Interlaced(k, h)'
  BY <1>1 DEF Interlaced, ReceivedOf, SlotOf, PilotOf
<1> QED  BY <1>1, <1>2, <1>3, StillDue

\* A DRS symbol: drs_t goes on to the next one.
LEMMA NextDue ==
    ASSUME GridConfig, GridIndices, UNCHANGED psdef, ofdm_symb_idx' = ofdm_symb_idx + 1,
           NEW k \in Nat, NEW h \in {0, 1}, DrsDue(k, h), IsDrs(ofdm_symb_idx), drs' = Advanced,
           NEW k2, NEW h2, DrsFollows(k, h, k2, h2)
    PROVE  DrsDue(k2, h2)' /\ Between(k2, h2)'
<1>1. /\ N_eff_TX' = N_eff_TX /\ step' = step /\ SecondSymbol' = SecondSymbol
      /\ step \in {5, 10} /\ SecondSymbol \in {0, 1} /\ N_eff_TX \in {1, 2, 4, 8}
      /\ N_eff_TX = 8 => SecondSymbol = 1
      /\ N_eff_TX # 8 => SecondSymbol = 0
  BY SamePacket, Shapes
<1>2. /\ k2 \in Nat /\ h2 \in {0, 1} /\ k2 + h2 > 0
      /\ drs' = [l_next |-> (1 + k2 * step) + h2, n |-> k2 % 2, TS_first |-> 4 * h2]
  BY DrsNumbers
<1>3. IF N_eff_TX = 8 /\ h = 0 THEN k2 = k /\ h2 = 1 ELSE k2 = k + 1 /\ h2 = 0
  BY DEF DrsFollows
<1>4. DrsDue(k2, h2)'
  BY <1>1, <1>2, <1>3 DEF DrsDue
<1>5. Between(k2, h2)'
  <2>1. PICK x \in Nat : x = k * step
    BY <1>1, Products
  <2>2. (k + 1) * step = x + step
    BY <1>1, <2>1, Products
  <2>3. ofdm_symb_idx = (1 + x) + h /\ (h = 1 => N_eff_TX = 8)
    BY <2>1 DEF IsDrs, DrsDue
  <2>4. CASE N_eff_TX = 8 /\ h = 0
    <3>1. LastDrs(k2, h2) = 1 + x /\ (1 + k2 * step) + h2 = 2 + x
      BY <1>3, <2>1, <2>4 DEF LastDrs
    <3> QED  BY <1>1, <2>3, <2>4, <3>1 DEF Between, LastDrs
  <2>5. CASE ~(N_eff_TX = 8 /\ h = 0)
    <3>1. k2 * step = x + step /\ h2 = 0
      BY <1>3, <2>2, <2>5
    <3>2. LastDrs(k2, h2) = (1 + x) + SecondSymbol
      BY <1>1, <3>1 DEF LastDrs
    <3>3. ofdm_symb_idx + 1 > (1 + x) + SecondSymbol /\ ofdm_symb_idx + 1 <= (1 + (x + step)) + 0
      BY <1>1, <2>3, <2>5
    <3>4. LastDrs(k2, h2)' = LastDrs(k2, h2)
      BY <1>1 DEF LastDrs
    <3> QED  BY <1>1, <3>1, <3>2, <3>3, <3>4 DEF Between
  <2> QED  BY <2>4, <2>5
<1> QED  BY <1>4, <1>5

LEMMA DrsStep ==
    ASSUME GridConfig, GridIndices, UNCHANGED psdef, ofdm_symb_idx' = ofdm_symb_idx + 1,
           NEW k \in Nat, NEW h \in {0, 1}, DrsState(k, h), IsDrs(ofdm_symb_idx),
           drs' = Advanced, TS_last' = get_ts_idx_last,
           NEW k2, NEW h2, DrsFollows(k, h, k2, h2)
    PROVE  DrsState(k2, h2)' /\ Between(k2, h2)'
<1>1. N_eff_TX' = N_eff_TX /\ DrsDue(k, h)
  BY SamePacket DEF DrsState
<1>2. DrsDue(k2, h2)' /\ Between(k2, h2)'
  BY <1>1, NextDue
<1>3. TS_last' = IF h2 = 0 THEN N_eff_TX - 1 ELSE 3
  BY <1>1, DrsNumbers
<1> QED  BY <1>1, <1>2, <1>3 DEF DrsState

\* The pilots of a DRS symbol take the slot of the ones before the last.
LEMMA SlotsStep ==
    ASSUME GridConfig, GridIndices, UNCHANGED psdef,
           NEW k \in Nat, NEW h \in {0, 1}, DrsState(k, h), IsDrs(ofdm_symb_idx), Chestim,
           NEW k2, NEW h2, DrsFollows(k, h, k2, h2), Interlaced(k, h),
           k = ps_idx + (IF ofdm_symb_ps_idx <= 1 THEN 0 ELSE 1)
    PROVE  Interlaced(k2, h2)'
<1> DEFINE streams == drs.TS_first..get_ts_idx_last
           pilot == [symbol |-> ofdm_symb_idx, n |-> drs.n]
<1>1. /\ N_eff_TX' = N_eff_TX /\ step' = step
      /\ step \in {5, 10} /\ N_eff_TX \in {1, 2, 4, 8}
  BY SamePacket, Shapes
<1>2. /\ \A ts \in 0..7 : ts \in streams <=> ts \in 0..N_eff_TX - 1 /\ ts \div 4 = h
      /\ drs.l_next = (1 + k * step) + h /\ drs.n = k % 2 /\ (h = 1 => N_eff_TX = 8)
      /\ IF N_eff_TX = 8 /\ h = 0 THEN k2 = k /\ h2 = 1 ELSE k2 = k + 1 /\ h2 = 0
  BY DrsNumbers, ZenonT(60) DEF DrsState, DrsDue, DrsFollows
<1>3. interlaced' = [ts \in 0..7 |-> IF ts \in streams
                                     THEN [interlaced[ts] EXCEPT ![Slot(ts) + 1] = pilot]
                                     ELSE interlaced[ts]]
  BY DEF Chestim
<1>4. pilot \in [symbol : Int, n : Int]
  BY <1>2 DEF GridIndices
<1>5. \A ts \in 0..7 : Slot(ts) = SlotOf(ts, k) /\ SlotOf(ts, k) + 1 \in 1..2
  <2>1. PICK p \in Nat : p = ps_idx
    BY DEF GridIndices
  <2>2. CASE ofdm_symb_ps_idx <= 1
    BY <2>1, <2>2 DEF Slot, SlotOf
  <2>3. CASE ~(ofdm_symb_ps_idx <= 1)
    BY <2>1, <2>3 DEF Slot, SlotOf
  <2> QED  BY <2>2, <2>3
<1> HIDE DEF pilot, streams
<1>6. interlaced' \in [0..7 -> [1..2 -> [symbol : Int, n : Int]]]
  BY <1>3, <1>4, <1>5 DEF Interlaced
<1>7. ASSUME NEW ts \in 0..N_eff_TX - 1
      PROVE  /\ ts \in 0..7 /\ ts \div 4 \in {0, 1}
             /\ ReceivedOf(ts, k2, h2) = IF ts \div 4 = h THEN k + 1 ELSE ReceivedOf(ts, k, h)
             /\ ts \div 4 = h => ReceivedOf(ts, k, h) = k
  BY <1>1, <1>2 DEF ReceivedOf
<1>8. ASSUME NEW ts \in 0..N_eff_TX - 1, NEW j \in Nat,
             j \in {ReceivedOf(ts, k2, h2) - 1, ReceivedOf(ts, k2, h2) - 2}
      PROVE  interlaced'[ts][SlotOf(ts, j) + 1] = PilotOf(ts, j)
  <2>1. CASE ts \div 4 # h
    <3>1. interlaced'[ts] = interlaced[ts] /\ ReceivedOf(ts, k2, h2) = ReceivedOf(ts, k, h)
      BY <1>2, <1>3, <1>7, <2>1
    <3> QED  BY <1>8, <3>1 DEF Interlaced
  <2>2. CASE ts \div 4 = h
    <3>1. interlaced'[ts] = [interlaced[ts] EXCEPT ![SlotOf(ts, k) + 1] = pilot]
      BY <1>2, <1>3, <1>5, <1>7, <2>2
    <3>2. interlaced[ts] \in [1..2 -> [symbol : Int, n : Int]] /\ SlotOf(ts, k) + 1 \in 1..2
      BY <1>5, <1>7 DEF Interlaced
    <3>3. j \in {k, k - 1}
      BY <1>7, <1>8, <2>2
    <3>4. CASE j = k
      <4>1. interlaced'[ts][SlotOf(ts, k) + 1] = pilot
        BY <3>1, <3>2
      <4>2. pilot = PilotOf(ts, k)
        BY <1>2, <2>2 DEF pilot, PilotOf, IsDrs
      <4> QED  BY <3>4, <4>1, <4>2
    <3>5. CASE j = k - 1
      <4>1. SlotOf(ts, j) + 1 # SlotOf(ts, k) + 1 /\ SlotOf(ts, j) + 1 \in 1..2
        BY <1>7, <3>5, SMTT(60) DEF SlotOf
      <4>2. interlaced'[ts][SlotOf(ts, j) + 1] = interlaced[ts][SlotOf(ts, j) + 1]
        BY <3>1, <3>2, <4>1
      <4>3. j = ReceivedOf(ts, k, h) - 1
        BY <1>7, <2>2, <3>5
      <4> QED  BY <4>2, <4>3 DEF Interlaced
    <3> QED  BY <3>3, <3>4, <3>5
  <2> QED  BY <2>1, <2>2
<1>9. \A ts, j : PilotOf(ts, j)' = PilotOf(ts, j)
  BY <1>1 DEF PilotOf
<1> QED  BY <1>1, <1>6, <1>8, <1>9 DEF Interlaced

\* The mode that uses the DRS symbol to the left: at a DRS symbol there is a new estimate, which is
\* the expected one unless an assertion fails.
LEMMA LeftEstimate ==
    ASSUME GridConfig, GridIndices, UNCHANGED psdef, EstimateLeft, failed = "none",
           NEW k \in Nat, NEW h \in {0, 1}, DrsState(k, h), IsDrs(ofdm_symb_idx)
    PROVE  /\ est'.at = (1 + ps_idx * step) + ofdm_symb_ps_idx
           /\ failed' = "none" => ofdm_symb_ps_idx = 0
           /\ k = ps_idx /\ h = 0 => EstimateRight'
           /\ drs' = Advanced /\ TS_last' = get_ts_idx_last
<1> DEFINE streams == drs.TS_first..get_ts_idx_last
           pilot == [symbol |-> ofdm_symb_idx, n |-> drs.n]
<1>1. /\ Chestim /\ Interpolate(FALSE, drs.TS_first, TS_last', zf')
      /\ failed' = IF ~DrsIndexOk(FALSE) THEN "index"
                   ELSE IF ofdm_symb_ps_idx >= lut_length(FALSE) THEN "t_idx" ELSE failed
  BY DEF EstimateLeft
<1>2. /\ est' = [at |-> 1 + ps_idx * step + ofdm_symb_ps_idx, lr |-> FALSE, ps |-> ps_idx,
                 pilots |-> [ts \in drs.TS_first..TS_last' |-> zf'[ts]]]
      /\ zf' = [ts \in 0..7 |-> IF ts \in streams THEN pilot ELSE zf[ts]]
      /\ drs' = Advanced /\ TS_last' = get_ts_idx_last
  BY <1>1 DEF Interpolate, Chestim
<1>3. failed' = "none" => ofdm_symb_ps_idx = 0
  <2>1. lut_length(FALSE) = 1
    BY DEF lut_length
  <2>2. failed' = "none" => ~(ofdm_symb_ps_idx >= 1)
    BY <1>1, <2>1
  <2> QED  BY <2>2 DEF GridIndices
<1>4. ASSUME k = ps_idx, h = 0
      PROVE  EstimateRight'
  <2>1. /\ N_eff_TX' = N_eff_TX /\ step' = step
        /\ step \in {5, 10} /\ N_eff_TX \in {1, 2, 4, 8}
    BY SamePacket, Shapes
  <2>2. /\ drs.TS_first = 0 /\ pilot = [symbol |-> 1 + ps_idx * step, n |-> ps_idx % 2]
    <3>1. ps_idx * step \in Nat
      BY <2>1, Products DEF GridIndices
    <3> QED  BY <1>4, <3>1 DEF DrsState, DrsDue, IsDrs
  <2>3. get_ts_idx_last \in 0..3
    BY <2>1, <2>2 DEF get_ts_idx_last
  <2> HIDE DEF pilot
  <2>4. ASSUME NEW ts \in 0..3
        PROVE  <<Place(ts, pilot)>> = Expected(ts, ps_idx, FALSE)
    <3>1. PICK x \in Nat : x = ps_idx * step
      BY <2>1, Products DEF GridIndices
    <3>2. ts \div 4 = 0 /\ ps_idx % 2 \in {0, 1}
      BY DEF GridIndices
    <3>3. Place(ts, pilot) = <<1 + x, (ts + 2 * (ps_idx % 2)) % 4>>
      BY <2>2, <3>1 DEF Place
    <3>4. Expected(ts, ps_idx, FALSE) = <<<<(1 + x) + 0, (ts + 2 * (ps_idx % 2)) % 4>>>>
      BY <3>1, <3>2 DEF Expected
    <3>5. (1 + x) + 0 = 1 + x
      BY <3>1
    <3> QED  BY <3>3, <3>4, <3>5, Zenon
  <2>5. /\ DOMAIN est'.pilots \subseteq 0..3 /\ est'.lr = FALSE /\ est'.ps = ps_idx
        /\ \A ts \in DOMAIN est'.pilots : est'.pilots[ts] = pilot
    BY <1>2, <2>2, <2>3
  <2>6. \A ts, p : Expected(ts, p, FALSE)' = Expected(ts, p, FALSE)
    BY <2>1 DEF Expected
  <2> QED  BY <2>4, <2>5, <2>6 DEF EstimateRight
<1> QED  BY <1>2, <1>3, <1>4

\* As long as no symbol has been left out, DRS symbols are the first ones of their stages.
LEMMA LeftStep ==
    ASSUME GridConfig, GridIndices, UNCHANGED psdef, EstimateLeft, failed = "none",
           ofdm_symb_idx' = ofdm_symb_idx + 1, ofdm_symb_idx = (1 + ps_idx * step) + ofdm_symb_ps_idx,
           ofdm_symb_ps_idx <= step,
           NEW k \in Nat, NEW h \in {0, 1}, DrsState(k, h), Between(k, h),
           k + h > 0 => est.at = IF h = 1 THEN 1 + k * step ELSE (1 + k * step) - step
    PROVE  /\ ofdm_symb_idx - est'.at \in 0..step - 1
           /\ failed' = "none" =>
                /\ ofdm_symb_ps_idx < step
                /\ est' = est \/ EstimateRight'
                /\ \E k2 \in Nat, h2 \in {0, 1} :
                      /\ DrsState(k2, h2)' /\ Between(k2, h2)' /\ k2 + h2 > 0
                      /\ est'.at = IF h2 = 1 THEN 1 + k2 * step ELSE (1 + k2 * step) - step
                      /\ IF IsDrs(ofdm_symb_idx) THEN DrsFollows(k, h, k2, h2) /\ k = ps_idx /\ h = 0
                         ELSE k2 = k /\ h2 = h
<1>1. /\ N_eff_TX' = N_eff_TX /\ step' = step /\ SecondSymbol' = SecondSymbol
      /\ step \in {5, 10} /\ SecondSymbol \in {0, 1} /\ N_eff_TX \in {1, 2, 4, 8}
      /\ N_eff_TX = 8 => SecondSymbol = 1
      /\ N_eff_TX # 8 => SecondSymbol = 0
  BY SamePacket, Shapes
<1>2. PICK s \in {5, 10} : s = step
  BY <1>1
<1>3. PICK x \in Nat : x = k * step
  BY <1>1, Products
<1>4. PICK y \in Nat : y = ps_idx * step
  BY <1>1, Products DEF GridIndices
<1>5. drs.l_next = (1 + x) + h /\ (h = 1 => N_eff_TX = 8)
  BY <1>3 DEF DrsState, DrsDue
<1>6. /\ ofdm_symb_idx <= (1 + x) + h
      /\ IF h = 1 THEN 1 + x < ofdm_symb_idx ELSE ((1 + x) - s) + SecondSymbol < ofdm_symb_idx
  BY <1>2, <1>3 DEF Between, LastDrs
<1>7. ofdm_symb_idx = (1 + y) + ofdm_symb_ps_idx /\ ofdm_symb_ps_idx \in Nat /\ ofdm_symb_ps_idx <= s
  BY <1>2, <1>4 DEF GridIndices
<1>8. CASE IsDrs(ofdm_symb_idx)
  <2>1. /\ est'.at = (1 + ps_idx * step) + ofdm_symb_ps_idx
        /\ failed' = "none" => ofdm_symb_ps_idx = 0
        /\ k = ps_idx /\ h = 0 => EstimateRight'
        /\ drs' = Advanced /\ TS_last' = get_ts_idx_last
    BY <1>8, LeftEstimate
  <2>2. ofdm_symb_idx - est'.at \in 0..step - 1
    BY <1>1, <1>4, <1>7, <2>1
  <2>3. ASSUME failed' = "none"
        PROVE  /\ ofdm_symb_ps_idx < step
               /\ EstimateRight' /\ k = ps_idx /\ h = 0
               /\ \E k2 \in Nat, h2 \in {0, 1} :
                     /\ DrsState(k2, h2)' /\ Between(k2, h2)' /\ k2 + h2 > 0
                     /\ est'.at = IF h2 = 1 THEN 1 + k2 * step ELSE (1 + k2 * step) - step
                     /\ DrsFollows(k, h, k2, h2)
    <3>1. ofdm_symb_ps_idx = 0 /\ y = x + h /\ ofdm_symb_idx = (1 + x) + h
      BY <1>5, <1>7, <1>8, <2>1, <2>3 DEF IsDrs
    <3>2. k = ps_idx /\ h = 0
      <4>1. ps_idx \in Nat
        BY DEF GridIndices
      <4>2. k * s = x /\ ps_idx * s = y
        BY <1>2, <1>3, <1>4
      <4>3. k <= ps_idx
        <5>1. k * s < ps_idx * s + s
          BY <3>1, <4>2
        <5> QED  BY <4>1, <5>1, Ordered
      <4>4. ps_idx <= k
        <5>1. ps_idx * s < k * s + s
          BY <3>1, <4>2
        <5> QED  BY <4>1, <5>1, Ordered
      <4>5. k = ps_idx
        BY <4>1, <4>3, <4>4
      <4> QED  BY <3>1, <4>2, <4>5
    <3>3. EstimateRight' /\ ofdm_symb_ps_idx < step
      BY <1>1, <2>1, <3>1, <3>2
    <3>n. PICK k2 \in Nat, h2 \in {0, 1} :
              IF N_eff_TX = 8 THEN k2 = k /\ h2 = 1 ELSE k2 = k + 1 /\ h2 = 0
      OBVIOUS
    <3>4. DrsFollows(k, h, k2, h2) /\ k2 + h2 > 0
      BY <3>2, <3>n DEF DrsFollows
    <3>5. est'.at = IF h2 = 1 THEN 1 + k2 * step ELSE (1 + k2 * step) - step
      <4>1. (k + 1) * step = x + step
        BY <1>1, <1>3, Products
      <4> QED  BY <1>1, <1>3, <1>4, <2>1, <3>1, <3>2, <3>n, <4>1
    <3>6. DrsState(k2, h2)' /\ Between(k2, h2)'
      BY <1>8, <2>1, <3>4, DrsStep
    <3> QED  BY <3>2, <3>3, <3>4, <3>5, <3>6
  <2> QED  BY <1>8, <2>2, <2>3
<1>9. CASE ~IsDrs(ofdm_symb_idx)
  <2>1. UNCHANGED <<drs, TS_last, est>> /\ failed' = failed
    BY <1>9 DEF EstimateLeft
  <2>2. ofdm_symb_idx # (1 + x) + h
    BY <1>5, <1>9 DEF IsDrs
  <2>3. k + h > 0
    <3>1. ofdm_symb_idx \in Nat \ {0}
      BY DEF GridIndices
    <3>2. k = 0 => x = 0
      BY <1>1, <1>3
    <3> QED  BY <1>6, <2>2, <3>1, <3>2
  <2>4. est.at = IF h = 1 THEN 1 + x ELSE (1 + x) - s
    BY <1>2, <1>3, <2>3
  <2>5. ofdm_symb_idx - est'.at \in 0..step - 1
    BY <1>1, <1>2, <1>6, <1>7, <2>1, <2>2, <2>4
  <2>6. ofdm_symb_ps_idx < step
    <3>1. SUFFICES ASSUME ofdm_symb_ps_idx = s PROVE FALSE
      BY <1>2, <1>7
    <3>2. k * s = x /\ ps_idx * s = y /\ ps_idx \in Nat
      BY <1>2, <1>3, <1>4 DEF GridIndices
    <3>3. k <= ps_idx + 1
      <4>1. k * s < (ps_idx * s + s) + s
        BY <1>1, <1>6, <1>7, <3>1, <3>2
      <4> QED  BY <3>2, <4>1, Ordered
    <3>4. ps_idx <= k - 1
      <4>1. (k - 1) * s = x - s
        <5>1. k - 1 \in Int /\ (k - 1) + 1 = k
          OBVIOUS
        <5>2. ((k - 1) + 1) * s = (k - 1) * s + s /\ (k - 1) * s \in Int
          BY <5>1, Products
        <5> QED  BY <3>2, <5>1, <5>2
      <4>2. ps_idx * s < (k - 1) * s + s
        BY <1>6, <1>7, <2>2, <3>1, <3>2, <4>1
      <4> QED  BY <3>2, <4>2, Ordered
    <3>5. k = ps_idx + 1 /\ x = y + s
      <4>1. k = ps_idx + 1
        BY <3>2, <3>3, <3>4
      <4> QED  BY <3>2, <4>1, Products
    <3> QED  BY <1>6, <1>7, <2>2, <3>1, <3>5
  <2>7. DrsState(k, h)' /\ Between(k, h)'
    <3>1. UNCHANGED interlaced
      BY <1>9 DEF EstimateLeft
    <3> QED  BY <1>9, <2>1, <3>1, NoDrs
  <2> QED  BY <1>9, <2>1, <2>3, <2>4, <2>5, <2>6, <2>7, <1>2, <1>3
<1> QED  BY <1>8, <1>9

\* An estimate that is not replaced stays right.
LEMMA SameEstimate ==
    ASSUME UNCHANGED <<psdef, est>>
    PROVE  EstimateRight' <=> EstimateRight
<1>1. step' = step
  BY SamePacket
<1>2. \A ts, p, lr : Expected(ts, p, lr)' = Expected(ts, p, lr)
  BY <1>1 DEF Expected
<1> QED  BY <1>2 DEF EstimateRight

\* Nothing is received while the packet is sent.
LEMMA PilotsTransmit ==
    ASSUME PilotInv, Transmit
    PROVE  PilotState'
<1>1. /\ part = "tx" /\ part' \in {"tx", "over"} /\ failed' \in {"tx", "none"}
      /\ part' # "over" => failed' = "none"
      /\ UNCHANGED <<psdef, read, est, ps_idx, ofdm_symb_ps_idx, interlaced>>
  BY DEF Transmit, config, stageidx, estimator
<1>2. /\ read = <<>> /\ est.at = 0 /\ ps_idx = 0 /\ ofdm_symb_ps_idx = 0
      /\ interlaced \in [0..7 -> [1..2 -> [symbol : Int, n : Int]]]
  BY <1>1 DEF PilotInv, PilotState
<1>3. ReadInTime'
  BY <1>1, <1>2 DEF ReadInTime
<1>4. est'.at = 0 /\ ~(est'.at > 0)
  BY <1>1, <1>2
<1> QED  BY <1>1, <1>2, <1>3, <1>4 DEF PilotState

\* The receiver begins once the packet is sent.
LEMMA PilotsTransmitted ==
    ASSUME PilotInv, Transmitted
    PROVE  PilotState'
<1>1. /\ part = "tx" /\ part' \in {"pcc", "over"}
      /\ UNCHANGED <<psdef, read, est, ps_idx, ofdm_symb_ps_idx, interlaced>>
      /\ drs' = [l_next |-> 1, n |-> 0, TS_first |-> 0] /\ ofdm_symb_idx' = 1
  BY DEF Transmitted, sender, config, stageidx, estimator
<1>2. /\ read = <<>> /\ est.at = 0 /\ ps_idx = 0 /\ ofdm_symb_ps_idx = 0
      /\ interlaced \in [0..7 -> [1..2 -> [symbol : Int, n : Int]]]
      /\ failed = "none"
  BY <1>1 DEF PilotInv, PilotState
<1>3. part' = "pcc" => failed' = "none"
  BY <1>2 DEF Transmitted
<1>4. PilotsPcc(0, 0)'
  <2>1. step' \in {5, 10} /\ SecondSymbol' \in {0, 1} /\ 0 * step' = 0
    <3>1. step' = step /\ SecondSymbol' = SecondSymbol /\ step \in {5, 10} /\ SecondSymbol \in {0, 1}
      BY <1>1, SamePacket, Shapes DEF PilotInv, BlockInv
    <3> QED  BY <3>1
  <2>2. DrsState(0, 0)'
    BY <1>1, <2>1 DEF DrsState, DrsDue
  <2>3. Interlaced(0, 0)'
    <3>1. \A ts : ~(ts \div 4 < 0) => ReceivedOf(ts, 0, 0) = 0
      BY DEF ReceivedOf
    <3>2. N_eff_TX' \in {1, 2, 4, 8}
      BY <1>1, SamePacket, Shapes DEF PilotInv, BlockInv
    <3>3. \A ts \in 0..N_eff_TX' - 1 : ~(ts \div 4 < 0)
      BY <3>2
    <3>4. \A j \in Nat : j \notin {0 - 1, 0 - 2}
      OBVIOUS
    <3> QED  BY <1>1, <1>2, <3>1, <3>3, <3>4 DEF Interlaced
  <2>4. Between(0, 0)'
    <3>1. LastDrs(0, 0)' = ((1 + 0) - step') + SecondSymbol'
      BY <2>1 DEF LastDrs
    <3>2. LastDrs(0, 0)' < 1 /\ 1 <= (1 + 0 * step') + 0
      <4>1. PICK a \in {5, 10}, c \in {0, 1} : a = step' /\ c = SecondSymbol'
        BY <2>1
      <4>2. ((1 + 0) - a) + c < 1 /\ 1 <= (1 + 0) + 0
        OBVIOUS
      <4> QED  BY <2>1, <3>1, <4>1, <4>2
    <3> QED  BY <1>1, <3>2 DEF Between
  <2> QED  BY <1>1, <1>2, <2>2, <2>3, <2>4 DEF PilotsPcc
<1>5. ReadInTime'
  BY <1>1, <1>2 DEF ReadInTime
<1>6. est'.at = 0 /\ ~(est'.at > 0)
  BY <1>1, <1>2
<1>7. \E k \in Nat, h \in {0, 1} : PilotsPcc(k, h)'
  <2>1. 0 \in Nat /\ 0 \in {0, 1}
    OBVIOUS
  <2> QED  BY <1>4, <2>1, Zenon
<1> QED  BY <1>1, <1>3, <1>5, <1>6, <1>7 DEF PilotState

\* A symbol of the PCC.
LEMMA PilotsPccSymbol ==
    ASSUME PilotInv, PccSymbolRead
    PROVE  PilotState'
<1>1. /\ GridConfig /\ GridIndices /\ stride \in Nat \ {0} /\ part = "pcc" /\ failed = "none"
      /\ est.at > 0 => EstimateRight
      /\ \E k \in Nat, h \in {0, 1} : PilotsPcc(k, h)
  BY DEF PilotInv, BlockInv, PilotState, PccSymbolRead
<1>2. PICK k \in Nat, h \in {0, 1} : PilotsPcc(k, h)
  BY <1>1
<1>3. /\ DrsState(k, h) /\ Interlaced(k, h) /\ Between(k, h) /\ k + h <= 1
      /\ ps_idx = 0 /\ ofdm_symb_idx = 1 + ofdm_symb_ps_idx
      /\ k + h > 0 => est.at = 1
  BY <1>2 DEF PilotsPcc
<1>4. /\ EstimateLeft /\ UNCHANGED <<psdef, stride, ps_idx>>
      /\ ofdm_symb_idx' = ofdm_symb_idx + 1 /\ ofdm_symb_ps_idx' = ofdm_symb_ps_idx + 1
      /\ read' # <<>> => read'.asked = ofdm_symb_idx
      /\ part' = IF failed' = "none" THEN "pcc" ELSE "over"
  BY DEF PccSymbolRead, sender, config, Goes
<1>5. /\ step \in {5, 10} /\ step' = step /\ 0 * step = 0 /\ 1 * step = step
  <2>1. step \in {5, 10} /\ step' = step
    BY <1>1, <1>4, SamePacket, Shapes
  <2> QED  BY <2>1
<1>6. k + h > 0 => est.at = IF h = 1 THEN 1 + k * step ELSE (1 + k * step) - step
  <2>1. (k = 0 /\ h \in {0, 1}) \/ (k = 1 /\ h = 0)
    BY <1>3
  <2> QED  BY <1>3, <1>5, <2>1
<1>7. ofdm_symb_idx = (1 + ps_idx * step) + ofdm_symb_ps_idx /\ ofdm_symb_ps_idx <= step
  <2>1. (k = 0 /\ h \in {0, 1}) \/ (k = 1 /\ h = 0)
    BY <1>3
  <2> QED  BY <1>1, <1>3, <1>5, <2>1 DEF Between, GridIndices
<1>8. /\ ofdm_symb_idx - est'.at \in 0..step - 1
      /\ failed' = "none" =>
           /\ est' = est \/ EstimateRight'
           /\ \E k2 \in Nat, h2 \in {0, 1} :
                 /\ DrsState(k2, h2)' /\ Between(k2, h2)' /\ k2 + h2 > 0
                 /\ est'.at = IF h2 = 1 THEN 1 + k2 * step ELSE (1 + k2 * step) - step
                 /\ IF IsDrs(ofdm_symb_idx) THEN DrsFollows(k, h, k2, h2) /\ k = ps_idx /\ h = 0
                    ELSE k2 = k /\ h2 = h
  BY <1>1, <1>3, <1>4, <1>6, <1>7, LeftStep
<1>9. ReadInTime'
  BY <1>1, <1>4, <1>5, <1>8, SMTT(60) DEF ReadInTime
<1>10. CASE failed' # "none"
  BY <1>4, <1>9, <1>10 DEF PilotState
<1>11. CASE failed' = "none"
  <2>1. PICK k2 \in Nat, h2 \in {0, 1} :
                 /\ DrsState(k2, h2)' /\ Between(k2, h2)' /\ k2 + h2 > 0
                 /\ est'.at = IF h2 = 1 THEN 1 + k2 * step ELSE (1 + k2 * step) - step
                 /\ IF IsDrs(ofdm_symb_idx) THEN DrsFollows(k, h, k2, h2) /\ k = ps_idx /\ h = 0
                    ELSE k2 = k /\ h2 = h
    BY <1>8, <1>11
  <2>2. k2 + h2 <= 1 /\ est'.at = 1
    <3>1. (k2 = 0 /\ h2 = 1) \/ (k2 = 1 /\ h2 = 0)
      BY <1>3, <2>1 DEF DrsFollows
    <3> QED  BY <1>5, <2>1, <3>1
  <2>3. Interlaced(k2, h2)'
    <3>1. CASE IsDrs(ofdm_symb_idx)
      <4>1. k = 0 /\ h = 0 /\ DrsFollows(k, h, k2, h2) /\ ofdm_symb_ps_idx <= 1
        BY <1>1, <1>3, <1>5, <2>1, <3>1 DEF IsDrs, DrsState, DrsDue, GridIndices
      <4>2. Chestim
        BY <1>4, <3>1 DEF EstimateLeft
      <4>3. k = ps_idx + (IF ofdm_symb_ps_idx <= 1 THEN 0 ELSE 1)
        BY <1>3, <4>1
      <4> QED  BY <1>1, <1>3, <1>4, <3>1, <4>1, <4>2, <4>3, SlotsStep
    <3>2. CASE ~IsDrs(ofdm_symb_idx)
      <4>1. UNCHANGED <<drs, TS_last, interlaced>> /\ k2 = k /\ h2 = h
        BY <1>4, <2>1, <3>2 DEF EstimateLeft
      <4> QED  BY <1>1, <1>3, <1>4, <4>1, NoDrs
    <3> QED  BY <3>1, <3>2
  <2>4. PilotsPcc(k2, h2)'
    BY <1>1, <1>3, <1>4, <2>1, <2>2, <2>3 DEF PilotsPcc, GridIndices
  <2>5. EstimateRight'
    <3>1. CASE est' = est
      <4>1. est.at > 0
        BY <2>2, <3>1
      <4> QED  BY <1>1, <1>4, <3>1, <4>1, SameEstimate
    <3> QED  BY <1>8, <1>11, <3>1
  <2> QED  BY <1>4, <1>9, <1>11, <2>4, <2>5 DEF PilotState
<1> QED  BY <1>10, <1>11

\* The PLCF is decoded, and the mode is chosen.
LEMMA PilotsPdcBegins ==
    ASSUME PilotInv, PdcBegins
    PROVE  PilotState'
<1>1. /\ GridConfig /\ GridIndices /\ stride \in Nat \ {0} /\ part = "pcc" /\ failed = "none"
      /\ est.at > 0 => EstimateRight
      /\ ReadInTime
      /\ \E k \in Nat, h \in {0, 1} : PilotsPcc(k, h)
  BY DEF PilotInv, BlockInv, PilotState, PdcBegins
<1>2. PICK k \in Nat, h \in {0, 1} : PilotsPcc(k, h)
  BY <1>1
<1>3. /\ DrsState(k, h) /\ Interlaced(k, h) /\ Between(k, h) /\ k + h <= 1
      /\ ps_idx = 0 /\ ofdm_symb_idx = 1 + ofdm_symb_ps_idx
      /\ k + h > 0 => est.at = 1
  BY <1>2 DEF PilotsPcc
<1>4. /\ UNCHANGED <<psdef, stride, ps_idx, drs, TS_last, interlaced, est, read, ofdm_symb_idx>>
      /\ part' = IF failed' = "none" THEN IF lr_default /\ nof_full_ps > 0 THEN "collect" ELSE "again"
                 ELSE "over"
      /\ ofdm_symb_ps_idx' = IF lr_default /\ nof_full_ps > 0 THEN ofdm_symb_ps_idx ELSE 0
  BY DEF PdcBegins, sender, config, Goes
<1>5. /\ step \in {5, 10} /\ SecondSymbol \in {0, 1} /\ 0 * step = 0 /\ 1 * step = step
      /\ ps_t_length = step + (1 + SecondSymbol) /\ nof_full_ps \in Int
      /\ step' = step /\ SecondSymbol' = SecondSymbol /\ ps_t_length' = ps_t_length
      /\ nof_full_ps' = nof_full_ps
  <2>1. step \in {5, 10} => 0 * step = 0 /\ 1 * step = step
    OBVIOUS
  <2> QED  BY <1>1, <1>4, <2>1, SamePacket, Shapes, WholeStages
<1>6. DrsState(k, h)' /\ Interlaced(k, h)' /\ Between(k, h)'
  BY <1>1, <1>3, <1>4, NoDrs
<1>7. ReadInTime'
  BY <1>1, <1>4, <1>5 DEF ReadInTime
<1>8. EstimateRight' <=> EstimateRight
  BY <1>4, SameEstimate
<1>9. CASE part' = "over"
  BY <1>1, <1>4, <1>7, <1>8, <1>9 DEF PilotState
<1>10. CASE part' = "again"
  <2>1. failed' = "none"
    BY <1>4, <1>10
  <2>2. ofdm_symb_ps_idx' = 0 /\ ofdm_symb_idx \in Nat \ {0}
    BY <1>1, <1>4, <1>10, <2>1 DEF GridIndices
  <2>3. PilotsAgain(k, h)'
    BY <1>3, <1>4, <1>6, <2>2 DEF PilotsAgain
  <2> QED  BY <1>1, <1>4, <1>7, <1>8, <1>10, <2>1, <2>3 DEF PilotState
<1>11. CASE part' = "collect"
  <2>1. failed' = "none" /\ nof_full_ps > 0
    BY <1>4, <1>11
  <2>2. ofdm_symb_ps_idx' = ofdm_symb_ps_idx
    BY <1>4, <1>11, <2>1
  <2>3. ofdm_symb_idx <= ps_t_length + 1
    <3>1. (k = 0 /\ h \in {0, 1}) \/ (k = 1 /\ h = 0)
      BY <1>3
    <3>2. ofdm_symb_idx <= (1 + k * step) + h
      BY <1>3 DEF Between
    <3>3. ofdm_symb_idx \in Nat
      BY <1>1 DEF GridIndices
    <3> QED  BY <1>5, <3>1, <3>2, <3>3
  <2>4. final_idx' = ps_t_length
    BY <1>3, <1>4, <1>5 DEF final_idx
  <2>5. PilotsCollect(k, h)'
    BY <1>3, <1>4, <1>5, <1>6, <2>1, <2>2, <2>3, <2>4 DEF PilotsCollect
  <2> QED  BY <1>1, <1>4, <1>7, <1>8, <1>11, <2>1, <2>5 DEF PilotState
<1> QED  BY <1>4, <1>9, <1>10, <1>11

\* The symbols that the PCC came with are read with the estimate of the first one.
LEMMA PilotsAgainStep ==
    ASSUME PilotInv, Again
    PROVE  PilotState'
<1>1. /\ GridConfig /\ GridIndices /\ stride \in Nat \ {0} /\ part = "again" /\ failed = "none"
      /\ est.at > 0 => EstimateRight
      /\ \E k \in Nat, h \in {0, 1} : PilotsAgain(k, h)
  BY DEF PilotInv, BlockInv, PilotState, Again
<1>2. PICK k \in Nat, h \in {0, 1} : PilotsAgain(k, h)
  BY <1>1
<1>3. /\ DrsState(k, h) /\ Between(k, h) /\ k + h <= 1
      /\ ps_idx = 0 /\ ofdm_symb_ps_idx < ofdm_symb_idx
      /\ k + h > 0 => est.at = 1
  BY <1>2 DEF PilotsAgain
<1>4. /\ UNCHANGED <<psdef, stride, ps_idx, drs, TS_last, interlaced, est, ofdm_symb_idx, failed>>
      /\ read' # <<>> => read'.asked = ofdm_symb_ps_idx + 1
      /\ ofdm_symb_ps_idx + 1 < ofdm_symb_idx /\ ofdm_symb_ps_idx' = ofdm_symb_ps_idx + 1
      /\ part' = IF (ofdm_symb_ps_idx + 1) + 1 = ofdm_symb_idx THEN "left" ELSE "again"
  BY DEF Again, sender, config, ReadPdc
<1>5. /\ step \in {5, 10} /\ step' = step /\ 0 * step = 0 /\ 1 * step = step
  <2>1. step \in {5, 10} /\ step' = step
    BY <1>1, <1>4, SamePacket, Shapes
  <2> QED  BY <2>1
<1>6. DrsState(k, h)' /\ Between(k, h)'
  BY <1>1, <1>3, <1>4, NoDrs
<1>7. /\ ofdm_symb_idx <= 1 + step /\ k + h > 0 /\ ofdm_symb_idx \in Nat /\ ofdm_symb_ps_idx \in Nat
  <2>1. (k = 0 /\ h \in {0, 1}) \/ (k = 1 /\ h = 0)
    BY <1>3
  <2>2. ofdm_symb_idx <= (1 + k * step) + h /\ ofdm_symb_idx \in Nat /\ ofdm_symb_ps_idx \in Nat
    BY <1>1, <1>3 DEF Between, GridIndices
  <2>3. ofdm_symb_idx > 1
    BY <1>4, <2>2
  <2> QED  BY <1>5, <2>1, <2>2, <2>3
<1>8. ReadInTime'
  <2>1. (ofdm_symb_ps_idx + 1) - 1 \in 0..(step + stride - 1)
    BY <1>1, <1>4, <1>5, <1>7
  <2> QED  BY <1>3, <1>4, <1>5, <1>7, <2>1 DEF ReadInTime
<1>9. EstimateRight'
  BY <1>1, <1>3, <1>4, <1>7, SameEstimate
<1>10. CASE part' = "again"
  <2>1. PilotsAgain(k, h)'
    BY <1>3, <1>4, <1>6 DEF PilotsAgain
  <2> QED  BY <1>1, <1>4, <1>8, <1>9, <1>10, <2>1 DEF PilotState
<1>11. CASE part' = "left"
  <2>1. (ofdm_symb_ps_idx + 1) + 1 = ofdm_symb_idx
    BY <1>4, <1>11
  <2>2. ofdm_symb_idx = (1 + 0 * step) + (ofdm_symb_ps_idx + 1) /\ ofdm_symb_ps_idx + 1 <= step
    BY <1>5, <1>7, <2>1
  <2>3. est'.at = IF h = 1 THEN 1 + k * step ELSE (1 + k * step) - step
    <3>1. (k = 0 /\ h = 1) \/ (k = 1 /\ h = 0)
      BY <1>3, <1>7
    <3> QED  BY <1>3, <1>4, <1>5, <1>7, <3>1
  <2>4. PilotsLeftOnly(k, h)'
    BY <1>3, <1>4, <1>5, <1>6, <1>7, <2>2, <2>3 DEF PilotsLeftOnly
  <2> QED  BY <1>1, <1>4, <1>8, <1>9, <1>11, <2>4 DEF PilotState
<1> QED  BY <1>4, <1>10, <1>11

\* The last symbol of a stage contains the last pilots that it needs.
LEMMA CollectedAll ==
    ASSUME NEW s \in {5, 10}, NEW w \in {0, 1}, NEW k \in Nat, NEW h \in {0, 1}, h = 1 => w = 1,
           NEW p \in Nat, NEW l \in Int,
           IF h = 1 THEN 1 + k * s < l ELSE ((1 + k * s) - s) + w < l,
           l <= (1 + k * s) + h, l = (((p * s + s) + s) - s) + (2 + w)
    PROVE  k = p + 2 /\ h = 0
<1>1. /\ k * s \in Nat /\ p * s \in Nat /\ (p + 2) * s = (p * s + s) + s
      /\ (p + 1) * s = p * s + s
  BY Products
<1>2. PICK x \in Nat, y \in Nat : x = k * s /\ y = p * s
  BY <1>1
<1>3. p + 1 < k
  <2>1. CASE k <= p + 1
    <3>1. x <= y + s
      BY <1>1, <1>2, <2>1, Ordered
    <3> QED  BY <1>2, <3>1
  <2> QED  BY <2>1
<1>4. p + 2 <= k
  BY <1>3
<1>5. (p + 2) * s <= k * s
  BY <1>4, Ordered
<1>6. h = 0
  BY <1>1, <1>2, <1>5
<1>7. k <= p + 2
  <2>1. k * s < (p + 2) * s + s
    BY <1>1, <1>2, <1>6
  <2> QED  BY <2>1, Ordered
<1> QED  BY <1>4, <1>6, <1>7

\* A DRS symbol of the first two kinds that a stage begins and ends with.
LEMMA CollectedSlot ==
    ASSUME NEW s \in {5, 10}, NEW w \in {0, 1}, NEW k \in Nat, NEW h \in {0, 1}, h = 1 => w = 1,
           NEW p \in Nat, NEW i \in Nat, NEW l \in Int,
           l = (1 + k * s) + h, l <= (p * s + s) + (1 + w),
           p > 0 => i > 0, l = IF p = 0 THEN 1 + i ELSE ((1 + w) + p * s) + i
    PROVE  k = p + (IF i <= 1 THEN 0 ELSE 1)
<1>1. /\ k * s \in Nat /\ p * s \in Nat /\ (p + 1) * s = p * s + s
      /\ (p = 0 => p * s = 0)
  BY Products
<1>2. PICK x \in Nat, y \in Nat : x = k * s /\ y = p * s
  BY <1>1
<1>3. k <= p + 1
  <2>1. k * s < (p * s + s) + s
    BY <1>2
  <2> QED  BY <2>1, Ordered
<1>4. CASE p = 0
  <2>1. (k = 0 /\ x = 0) \/ (k = 1 /\ x = s)
    BY <1>1, <1>2, <1>3, <1>4
  <2> QED  BY <1>1, <1>2, <1>4, <2>1
<1>5. CASE p > 0
  <2>1. x + h = (y + w) + i /\ i > 0
    BY <1>2, <1>5
  <2>2. p < k
    <3>1. CASE k <= p
      <4>1. x <= y
        BY <1>2, <3>1, Ordered
      <4> QED  BY <2>1, <4>1
    <3> QED  BY <3>1
  <2>3. k = p + 1
    BY <1>3, <2>2
  <2>4. x = y + s
    BY <1>1, <1>2, <2>3
  <2>5. i > 1
    BY <2>1, <2>4
  <2> QED  BY <2>3, <2>5
<1> QED  BY <1>4, <1>5

\* A symbol is put onto the stage.
LEMMA PilotsCollectStep ==
    ASSUME PilotInv, Collect
    PROVE  PilotState'
<1>1. /\ GridConfig /\ GridIndices /\ stride \in Nat \ {0} /\ part = "collect" /\ failed = "none"
      /\ est.at > 0 => EstimateRight
      /\ ReadInTime
      /\ \E k \in Nat, h \in {0, 1} : PilotsCollect(k, h)
  BY DEF PilotInv, BlockInv, PilotState, Collect
<1>2. PICK k \in Nat, h \in {0, 1} : PilotsCollect(k, h)
  BY <1>1
<1>3. /\ DrsState(k, h) /\ Interlaced(k, h) /\ Between(k, h)
      /\ ps_idx < nof_full_ps
      /\ ps_idx > 0 => ofdm_symb_ps_idx > 0
      /\ ofdm_symb_idx = IF ps_idx = 0 THEN 1 + ofdm_symb_ps_idx
                         ELSE ((1 + SecondSymbol) + ps_idx * step) + ofdm_symb_ps_idx
  BY <1>2 DEF PilotsCollect
<1>4. /\ IF IsDrs(ofdm_symb_idx) THEN Chestim ELSE UNCHANGED <<interlaced, TS_last, drs>>
      /\ UNCHANGED <<psdef, stride, ps_idx, est, failed, part, read>>
      /\ ofdm_symb_idx' = ofdm_symb_idx + 1 /\ ofdm_symb_ps_idx' = ofdm_symb_ps_idx + 1
      /\ ofdm_symb_idx <= final_idx
  BY DEF Collect, sender, config
<1>5. /\ step \in {5, 10} /\ SecondSymbol \in {0, 1} /\ (N_eff_TX = 8 => SecondSymbol = 1)
      /\ ps_t_length = step + (1 + SecondSymbol) /\ nof_full_ps \in Int
      /\ step' = step /\ SecondSymbol' = SecondSymbol /\ ps_t_length' = ps_t_length
      /\ nof_full_ps' = nof_full_ps
      /\ ofdm_symb_idx \in Nat /\ ps_idx \in Nat /\ ofdm_symb_ps_idx \in Nat
      /\ ps_idx * step \in Nat
  <2>1. step \in {5, 10} /\ ps_idx \in Nat
    BY <1>1, Shapes DEF GridIndices
  <2> QED  BY <1>1, <1>4, <2>1, SamePacket, Shapes, WholeStages, Products DEF GridIndices
<1>6. final_idx' = final_idx /\ final_idx = (ps_idx * step + step) + (1 + SecondSymbol)
  BY <1>4, <1>5 DEF final_idx
<1>7. \E k2 \in Nat, h2 \in {0, 1} : DrsState(k2, h2)' /\ Between(k2, h2)' /\ Interlaced(k2, h2)'
  <2>1. CASE IsDrs(ofdm_symb_idx)
    <3>1. PICK k2 \in Nat, h2 \in {0, 1} : DrsFollows(k, h, k2, h2)
      BY DEF DrsFollows
    <3>2. Chestim /\ drs' = Advanced /\ TS_last' = get_ts_idx_last
      BY <1>4, <2>1 DEF Chestim
    <3>3. DrsState(k2, h2)' /\ Between(k2, h2)'
      BY <1>1, <1>3, <1>4, <2>1, <3>1, <3>2, DrsStep
    <3>4. k = ps_idx + (IF ofdm_symb_ps_idx <= 1 THEN 0 ELSE 1)
      <4>1. ofdm_symb_idx = (1 + k * step) + h /\ (h = 1 => SecondSymbol = 1)
        BY <1>3, <1>5, <2>1 DEF IsDrs, DrsState, DrsDue
      <4>2. ofdm_symb_idx <= (ps_idx * step + step) + (1 + SecondSymbol)
        BY <1>4, <1>6
      <4>3. PICK s \in {5, 10}, w \in {0, 1}, p \in Nat, i \in Nat, l \in Int :
               s = step /\ w = SecondSymbol /\ p = ps_idx /\ i = ofdm_symb_ps_idx /\ l = ofdm_symb_idx
        BY <1>5
      <4>4. /\ l = (1 + k * s) + h /\ l <= (p * s + s) + (1 + w) /\ (h = 1 => w = 1)
            /\ p > 0 => i > 0
            /\ l = IF p = 0 THEN 1 + i ELSE ((1 + w) + p * s) + i
        BY <1>3, <4>1, <4>2, <4>3
      <4> QED  BY <4>3, <4>4, CollectedSlot
    <3>5. Interlaced(k2, h2)'
      BY <1>1, <1>3, <1>4, <2>1, <3>1, <3>2, <3>4, SlotsStep
    <3> QED  BY <3>3, <3>5
  <2>2. CASE ~IsDrs(ofdm_symb_idx)
    BY <1>1, <1>3, <1>4, <2>2, NoDrs
  <2> QED  BY <2>1, <2>2
<1>8. PICK k2 \in Nat, h2 \in {0, 1} : DrsState(k2, h2)' /\ Between(k2, h2)' /\ Interlaced(k2, h2)'
  BY <1>7
<1>9. PilotsCollect(k2, h2)'
  <2>1. ofdm_symb_idx + 1 <= final_idx + 1 /\ ofdm_symb_ps_idx + 1 > 0
    BY <1>4, <1>5, <1>6
  <2>2. ofdm_symb_idx + 1 = IF ps_idx = 0 THEN 1 + (ofdm_symb_ps_idx + 1)
                            ELSE ((1 + SecondSymbol) + ps_idx * step) + (ofdm_symb_ps_idx + 1)
    BY <1>3, <1>5
  <2> QED  BY <1>3, <1>4, <1>5, <1>6, <1>8, <2>1, <2>2 DEF PilotsCollect
<1>10. ReadInTime'
  BY <1>1, <1>4, <1>5 DEF ReadInTime
<1>11. EstimateRight' <=> EstimateRight
  BY <1>4, SameEstimate
<1>12. \E a \in Nat, c \in {0, 1} : PilotsCollect(a, c)'
  BY <1>9
<1> QED  BY <1>1, <1>4, <1>10, <1>11, <1>12 DEF PilotState

\* The stage is complete: the last DRS symbol that was received is the one to its right.
LEMMA PilotsCollected ==
    ASSUME PilotInv, Collected
    PROVE  PilotState'
<1>1. /\ GridConfig /\ GridIndices /\ stride \in Nat \ {0} /\ part = "collect" /\ failed = "none"
      /\ est.at > 0 => EstimateRight
      /\ \E k \in Nat, h \in {0, 1} : PilotsCollect(k, h)
  BY DEF PilotInv, BlockInv, PilotState, Collected
<1>2. PICK k \in Nat, h \in {0, 1} : PilotsCollect(k, h)
  BY <1>1
<1>3. /\ DrsState(k, h) /\ Interlaced(k, h) /\ Between(k, h)
      /\ ps_idx < nof_full_ps /\ ofdm_symb_idx <= final_idx + 1
  BY <1>2 DEF PilotsCollect
<1>4. /\ UNCHANGED <<psdef, stride, ps_idx, est, failed, ofdm_symb_idx, drs, TS_last, interlaced>>
      /\ ofdm_symb_idx > final_idx /\ part' = "read" /\ ofdm_symb_ps_idx' = relative_start
      /\ read' = <<>>
  BY DEF Collected, sender, config, estimator
<1>5. /\ step \in {5, 10} /\ SecondSymbol \in {0, 1} /\ (N_eff_TX = 8 => SecondSymbol = 1)
      /\ ps_t_length = step + (1 + SecondSymbol)
      /\ step' = step /\ SecondSymbol' = SecondSymbol /\ ps_t_length' = ps_t_length
      /\ nof_full_ps' = nof_full_ps
      /\ ofdm_symb_idx \in Nat /\ ps_idx \in Nat /\ ps_idx * step \in Nat
  <2>1. step \in {5, 10} /\ ps_idx \in Nat
    BY <1>1, Shapes DEF GridIndices
  <2> QED  BY <1>1, <1>4, <2>1, SamePacket, Shapes, Products DEF GridIndices
<1>6. final_idx' = final_idx /\ final_idx = (ps_idx * step + step) + (1 + SecondSymbol)
  BY <1>4, <1>5 DEF final_idx
<1>7. ofdm_symb_idx = final_idx + 1
  BY <1>3, <1>4, <1>5, <1>6
<1>8. k = ps_idx + 2 /\ h = 0
  <2>1. PICK s \in {5, 10}, w \in {0, 1}, p \in Nat, l \in Int :
           s = step /\ w = SecondSymbol /\ p = ps_idx /\ l = ofdm_symb_idx
    BY <1>5
  <2>2. h = 1 => w = 1
    BY <1>3, <1>5, <2>1 DEF DrsState, DrsDue
  <2>3. /\ IF h = 1 THEN 1 + k * s < l ELSE ((1 + k * s) - s) + w < l
        /\ l <= (1 + k * s) + h
    BY <1>3, <2>1 DEF Between, LastDrs
  <2>4. l = (((p * s + s) + s) - s) + (2 + w)
    BY <1>5, <1>6, <1>7, <2>1
  <2> QED  BY <2>1, <2>2, <2>3, <2>4, CollectedAll
<1>9. DrsState(ps_idx + 2, 0)' /\ Interlaced(ps_idx + 2, 0)'
  <2>1. DrsState(k, 0)' /\ Interlaced(k, 0)'
    BY <1>1, <1>3, <1>4, <1>8, NoDrs
  <2>2. k = (ps_idx + 2)'
    BY <1>4, <1>8
  <2> QED  BY <2>1, <2>2
<1>10. relative_start' = relative_start /\ relative_start \in {0, 1}
  BY <1>4 DEF relative_start
<1>11. PilotsRead'
  <2>1. ofdm_symb_ps_idx' \in relative_start'..step' + 1 /\ ~(ofdm_symb_ps_idx' > relative_start')
    BY <1>4, <1>5, <1>10
  <2> QED  BY <1>3, <1>4, <1>5, <1>6, <1>7, <1>9, <2>1 DEF PilotsRead
<1>12. EstimateRight' <=> EstimateRight
  BY <1>4, SameEstimate
<1>13. ReadInTime'
  BY <1>4 DEF ReadInTime
<1> QED  BY <1>1, <1>4, <1>11, <1>12, <1>13 DEF PilotState

\* The number of symbols since the last estimate.
LEMMA Counting ==
    ASSUME NEW x \in Nat, NEW m \in Nat \ {0}
    PROVE  /\ (x % m) \in 0..m - 1
           /\ (x % m) # 0 => x > 0 /\ ((x - 1) % m) = (x % m) - 1
<1>1. (x % m) \in 0..m - 1 /\ x = m * (x \div m) + (x % m) /\ x \div m \in Nat
  BY Quotient
<1>2. ASSUME (x % m) # 0
      PROVE  x > 0 /\ ((x - 1) % m) = (x % m) - 1
  <2> DEFINE q == x \div m
             r == x % m
  <2>1. q \in Nat /\ r \in 1..m - 1 /\ x = m * q + r
    BY <1>1, <1>2
  <2> HIDE DEF q, r
  <2>2. m * q \in Nat
    BY <2>1
  <2>3. x > 0 /\ x - 1 = m * q + (r - 1) /\ r - 1 \in 0..m - 1
    BY <2>1, <2>2
  <2>4. PICK y \in Nat : y = m * q + (r - 1)
    BY <2>2, <2>3
  <2>5. y \div m = q
    BY <2>1, <2>3, <2>4, QuotientOf
  <2>6. y = m * q + (y % m) /\ (y % m) \in 0..m - 1
    BY <2>4, <2>5, Quotient, ZenonT(60)
  <2>7. (y % m) = r - 1
    BY <2>1, <2>2, <2>4, <2>6
  <2> QED  BY <2>3, <2>4, <2>7 DEF r
<1> QED  BY <1>1, <1>2

\* Both pilots of every stream are the expected ones once the stage is complete.
LEMMA BothPilots ==
    ASSUME GridConfig, GridIndices, Interlaced(ps_idx + 2, 0), NEW ts \in 0..N_eff_TX - 1
    PROVE  [i \in 1..2 |-> Place(ts, interlaced[ts][i])] = Expected(ts, ps_idx, TRUE)
<1>1. N_eff_TX \in {1, 2, 4, 8} /\ step \in {5, 10} /\ ps_idx \in Nat
  BY Shapes DEF GridIndices
<1>2. PICK x \in Nat : x = ps_idx * step
  BY <1>1, Products
<1>3. (ps_idx + 1) * step = x + step
  BY <1>1, <1>2, Products
<1>4. ts \in 0..7 /\ (ts \div 4) \in {0, 1} /\ (ts % 4) \in 0..3 /\ (ps_idx % 2) \in {0, 1}
  BY <1>1
<1>5. ReceivedOf(ts, ps_idx + 2, 0) = ps_idx + 2
  <2>1. ~(ts \div 4 < 0)
    BY <1>4
  <2> QED  BY <2>1 DEF ReceivedOf
<1>6. /\ interlaced[ts][SlotOf(ts, ps_idx) + 1] = PilotOf(ts, ps_idx)
      /\ interlaced[ts][SlotOf(ts, ps_idx + 1) + 1] = PilotOf(ts, ps_idx + 1)
  <2>1. /\ ps_idx \in {(ps_idx + 2) - 1, (ps_idx + 2) - 2}
        /\ ps_idx + 1 \in {(ps_idx + 2) - 1, (ps_idx + 2) - 2}
        /\ ps_idx \in Nat /\ ps_idx + 1 \in Nat
    BY <1>1
  <2> QED  BY <1>5, <2>1 DEF Interlaced
<1> DEFINE t == (ts + 2 * (ps_idx % 2)) % 4
           left == <<1 + ps_idx * step + ts \div 4, t>>
           right == <<1 + (ps_idx + 1) * step + ts \div 4, (t + 2) % 4>>
<1>7. Expected(ts, ps_idx, TRUE) = IF t < 2 THEN <<left, right>> ELSE <<right, left>>
  BY DEF Expected
<1>8. Place(ts, PilotOf(ts, ps_idx)) = left /\ Place(ts, PilotOf(ts, ps_idx + 1)) = right
  <2>1. Place(ts, PilotOf(ts, ps_idx)) = left
    BY DEF Place, PilotOf
  <2>2. (ts + 2 * ((ps_idx + 1) % 2)) % 4 = (t + 2) % 4
    <3>1. PICK p \in Nat : p = ps_idx
      BY <1>1
    <3>2. (ts + 2 * ((p + 1) % 2)) % 4 = (((ts + 2 * (p % 2)) % 4) + 2) % 4
      <4>1. CASE (p % 2) = 0
        <5>1. ((p + 1) % 2) = 1
          BY <4>1
        <5> QED  BY <1>4, <4>1, <5>1
      <4>2. CASE (p % 2) = 1
        <5>1. ((p + 1) % 2) = 0
          BY <4>2
        <5> QED  BY <1>4, <4>2, <5>1
      <4> QED  BY <1>4, <3>1, <4>1, <4>2
    <3> QED  BY <3>1, <3>2
  <2>3. Place(ts, PilotOf(ts, ps_idx + 1)) = right
    BY <2>2 DEF Place, PilotOf
  <2> QED  BY <2>1, <2>3
<1>9. IF t < 2 THEN SlotOf(ts, ps_idx) = 0 /\ SlotOf(ts, ps_idx + 1) = 1
      ELSE SlotOf(ts, ps_idx) = 1 /\ SlotOf(ts, ps_idx + 1) = 0
  <2>1. PICK p \in Nat : p = ps_idx
    BY <1>1
  <2>2. CASE (p % 2) = 0
    <3>1. t = ts % 4 /\ ((ts % 4) < 2 <=> ((ts % 4) \div 2) = 0) /\ ((ts % 4) \div 2) \in {0, 1}
      BY <1>4, <2>1, <2>2
    <3>2. \A a \in {0, 1} : ((a + p) % 2) = a /\ ((a + (p + 1)) % 2) = 1 - a
      BY <2>2
    <3> HIDE DEF t
    <3> QED  BY <2>1, <3>1, <3>2 DEF SlotOf
  <2>3. CASE (p % 2) = 1
    <3>1. t = (ts + 2) % 4 /\ (t < 2 <=> ((ts % 4) \div 2) = 1) /\ ((ts % 4) \div 2) \in {0, 1}
      BY <1>4, <2>1, <2>3
    <3>2. \A a \in {0, 1} : ((a + p) % 2) = 1 - a /\ ((a + (p + 1)) % 2) = a
      BY <2>3
    <3> HIDE DEF t
    <3> QED  BY <2>1, <3>1, <3>2 DEF SlotOf
  <2> QED  BY <1>4, <2>1, <2>2, <2>3
<1> HIDE DEF t, left, right
<1>10. CASE t < 2
  <2>1. Place(ts, interlaced[ts][1]) = left /\ Place(ts, interlaced[ts][2]) = right
    BY <1>6, <1>8, <1>9, <1>10
  <2>2. [i \in 1..2 |-> Place(ts, interlaced[ts][i])] = [i \in 1..2 |-> IF i = 1 THEN left ELSE right]
    BY <2>1
  <2>3. <<left, right>> = [i \in 1..2 |-> IF i = 1 THEN left ELSE right]
    OBVIOUS
  <2>4. Expected(ts, ps_idx, TRUE) = <<left, right>>
    BY <1>7, <1>10
  <2> QED  BY <2>2, <2>3, <2>4
<1>11. CASE ~(t < 2)
  <2>1. Place(ts, interlaced[ts][2]) = left /\ Place(ts, interlaced[ts][1]) = right
    BY <1>6, <1>8, <1>9, <1>11
  <2>2. [i \in 1..2 |-> Place(ts, interlaced[ts][i])] = [i \in 1..2 |-> IF i = 1 THEN right ELSE left]
    BY <2>1
  <2>3. <<right, left>> = [i \in 1..2 |-> IF i = 1 THEN right ELSE left]
    OBVIOUS
  <2>4. Expected(ts, ps_idx, TRUE) = <<right, left>>
    BY <1>7, <1>11
  <2> QED  BY <2>2, <2>3, <2>4
<1> QED  BY <1>10, <1>11

\* A symbol of the stage is read, with a new estimate once per stride.
LEMMA PilotsReadStage ==
    ASSUME PilotInv, ReadStage
    PROVE  PilotState'
<1> DEFINE i == ofdm_symb_ps_idx
           l == (1 + ps_idx * step) + i
           x == i - relative_start
<1>1. /\ GridConfig /\ GridIndices /\ stride \in Nat \ {0} /\ part = "read" /\ failed = "none"
      /\ est.at > 0 => EstimateRight
      /\ PilotsRead
  BY DEF PilotInv, BlockInv, PilotState, ReadStage
<1>2. /\ DrsState(ps_idx + 2, 0) /\ Interlaced(ps_idx + 2, 0)
      /\ ps_idx < nof_full_ps /\ ofdm_symb_idx = final_idx + 1
      /\ i \in relative_start..step + 1
      /\ i > relative_start =>
           /\ est.lr /\ est.ps = ps_idx
           /\ est.at = ((1 + ps_idx * step) + (i - 1)) - ((i - 1 - relative_start) % stride)
  BY <1>1 DEF PilotsRead
<1>3. /\ UNCHANGED <<psdef, stride, ps_idx, failed, part, ofdm_symb_idx, drs, TS_last, interlaced>>
      /\ i <= step /\ ofdm_symb_ps_idx' = i + 1
      /\ read' # <<>> => read'.asked = l
      /\ IF (x % stride) = 0 THEN Interpolate(TRUE, 0, TS_last, interlaced) ELSE est' = est
  BY DEF ReadStage, sender, config, ReadPdc
<1>4. /\ step \in {5, 10} /\ SecondSymbol \in {0, 1} /\ N_eff_TX \in {1, 2, 4, 8}
      /\ step' = step /\ N_eff_TX' = N_eff_TX /\ SecondSymbol' = SecondSymbol
      /\ nof_full_ps' = nof_full_ps /\ ps_t_length' = ps_t_length
      /\ ps_idx \in Nat /\ i \in Nat /\ ps_idx * step \in Nat
      /\ relative_start \in {0, 1} /\ relative_start' = relative_start
  <2>1. step \in {5, 10} /\ ps_idx \in Nat
    BY <1>1, Shapes DEF GridIndices
  <2> QED  BY <1>1, <1>3, <2>1, SamePacket, Shapes, Products DEF GridIndices, relative_start
<1>5. final_idx' = final_idx
  BY <1>3, <1>4 DEF final_idx
<1>6. x \in Nat /\ i = x + relative_start /\ (i > relative_start <=> x > 0)
  BY <1>2, <1>4
<1>7. /\ (x % stride) \in 0..stride - 1
      /\ (x % stride) # 0 => x > 0 /\ ((x - 1) % stride) = (x % stride) - 1
  <2> HIDE DEF x
  <2> QED  BY <1>1, <1>6, Counting
<1>8. PICK y \in Nat : y = ps_idx * step
  BY <1>4
<1>9. /\ est'.lr /\ est'.ps = ps_idx /\ est'.at = l - (x % stride)
      /\ EstimateRight'
  <2>1. CASE (x % stride) = 0
    <3>1. est' = [at |-> 1 + ps_idx * step + i, lr |-> TRUE, ps |-> ps_idx,
                  pilots |-> [ts \in 0..TS_last |-> interlaced[ts]]]
      BY <1>3, <2>1 DEF Interpolate
    <3>2. TS_last = N_eff_TX - 1
      BY <1>2, <1>4 DEF DrsState, DrsDue
    <3>3. \A ts \in 0..N_eff_TX - 1 :
             [j \in 1..2 |-> Place(ts, interlaced[ts][j])] = Expected(ts, ps_idx, TRUE)
      BY <1>1, <1>2, BothPilots
    <3>4. \A ts : Expected(ts, ps_idx, TRUE)' = Expected(ts, ps_idx, TRUE)
      BY <1>3, <1>4 DEF Expected
    <3>5. /\ est'.lr = TRUE /\ est'.ps = ps_idx /\ DOMAIN est'.pilots = 0..N_eff_TX - 1
          /\ \A ts \in 0..N_eff_TX - 1 : est'.pilots[ts] = interlaced[ts]
      BY <3>1, <3>2
    <3>6. EstimateRight'
      <4>1. ASSUME NEW ts \in DOMAIN est'.pilots
            PROVE  [j \in 1..2 |-> Place(ts, est'.pilots[ts][j])] = Expected(ts, est.ps, TRUE)'
        <5>1. ts \in 0..N_eff_TX - 1 /\ est'.pilots[ts] = interlaced[ts]
          BY <3>5, <4>1
        <5>2. Expected(ts, est.ps, TRUE)' = Expected(ts, ps_idx, TRUE)
          BY <1>4, <3>5 DEF Expected
        <5> QED  BY <3>3, <5>1, <5>2
      <4> QED  BY <3>5, <4>1 DEF EstimateRight
    <3>7. est'.at = l - (x % stride)
      BY <1>4, <1>8, <2>1, <3>1
    <3> QED  BY <3>5, <3>6, <3>7
  <2>2. CASE (x % stride) # 0
    <3>1. est' = est /\ x > 0 /\ i > relative_start
      BY <1>3, <1>6, <1>7, <2>2
    <3>2. est.lr /\ est.ps = ps_idx
          /\ est.at = ((1 + ps_idx * step) + (i - 1)) - ((i - 1 - relative_start) % stride)
      BY <1>2, <3>1
    <3>3. i - 1 - relative_start = x - 1
      BY <1>4
    <3>4. PICK a \in Nat : a = (x % stride)
      BY <1>7
    <3>5. ((i - 1 - relative_start) % stride) = a - 1
      BY <1>7, <2>2, <3>3, <3>4
    <3>6. est.at = ((1 + y) + (i - 1)) - (a - 1) /\ l = (1 + y) + i
      BY <1>8, <3>2, <3>5
    <3>7. est.at = l - (x % stride)
      BY <1>4, <3>4, <3>6
    <3>8. est.at > 0
      <4>1. a <= x
        <5>1. x = stride * (x \div stride) + (x % stride) /\ x \div stride \in Nat
          <6> HIDE DEF x
          <6> QED  BY <1>1, <1>6, <1>7, <3>4, Quotient
        <5>2. stride * (x \div stride) \in Nat
          <6> DEFINE q == x \div stride
          <6>1. q \in Nat
            BY <5>1
          <6> HIDE DEF q
          <6>2. stride * q \in Nat
            BY <1>1, <6>1
          <6> QED  BY <6>2 DEF q
        <5> QED  BY <1>6, <3>4, <5>1, <5>2
      <4> QED  BY <1>4, <1>6, <1>8, <3>6, <4>1
    <3>9. EstimateRight'
      BY <1>1, <1>3, <3>1, <3>8, SameEstimate
    <3> QED  BY <3>1, <3>2, <3>7, <3>9
  <2> QED  BY <2>1, <2>2
<1>10. ReadInTime'
  <2>1. l - (l - (x % stride)) \in 0..stride - 1
    BY <1>4, <1>7, <1>8
  <2> HIDE DEF l, x
  <2>2. part' = "read" /\ ps_idx' = ps_idx /\ stride' = stride
    BY <1>1, <1>3
  <2> QED  BY <1>3, <1>9, <2>1, <2>2 DEF ReadInTime
<1>11. PilotsRead'
  <2>1. DrsState(ps_idx + 2, 0)' /\ Interlaced(ps_idx + 2, 0)'
    <3>1. PICK k \in Nat : k = ps_idx + 2
      BY <1>4
    <3>2. DrsState(k, 0) /\ Interlaced(k, 0)
      BY <1>2, <3>1
    <3>3. DrsState(k, 0)' /\ Interlaced(k, 0)'
      BY <1>1, <1>3, <3>2, NoDrs
    <3>4. k = (ps_idx + 2)'
      BY <1>3, <3>1
    <3> QED  BY <3>3, <3>4
  <2>2. i + 1 \in relative_start..step + 1
    BY <1>2, <1>3, <1>4
  <2>3. est'.at = ((1 + ps_idx * step) + ((i + 1) - 1)) - (((i + 1) - 1 - relative_start) % stride)
    <3>1. (i + 1) - 1 = i /\ (i + 1) - 1 - relative_start = x
      BY <1>4
    <3> QED  BY <1>9, <3>1
  <2> HIDE DEF i
  <2> QED  BY <1>2, <1>3, <1>4, <1>5, <1>9, <2>1, <2>2, <2>3 DEF PilotsRead, i
<1> QED  BY <1>1, <1>3, <1>9, <1>10, <1>11 DEF PilotState

\* A stage is left for the next one, or for the symbols that belong to none.
LEMMA PilotsStageDone ==
    ASSUME PilotInv, StageDone
    PROVE  PilotState'
<1>1. /\ GridConfig /\ GridIndices /\ stride \in Nat \ {0} /\ part = "read" /\ failed = "none"
      /\ est.at > 0 => EstimateRight
      /\ ReadInTime /\ PilotsRead
  BY DEF PilotInv, BlockInv, PilotState, StageDone
<1>2. /\ DrsState(ps_idx + 2, 0) /\ Interlaced(ps_idx + 2, 0)
      /\ ps_idx < nof_full_ps /\ ofdm_symb_idx = final_idx + 1
      /\ ofdm_symb_ps_idx \in relative_start..step + 1
      /\ ofdm_symb_ps_idx > relative_start =>
           est.at = ((1 + ps_idx * step) + (ofdm_symb_ps_idx - 1))
                        - ((ofdm_symb_ps_idx - 1 - relative_start) % stride)
  BY <1>1 DEF PilotsRead
<1>3. /\ UNCHANGED <<psdef, stride, failed, ofdm_symb_idx, drs, TS_last, interlaced, est, read>>
      /\ ofdm_symb_ps_idx > step /\ ps_idx' = ps_idx + 1
      /\ ofdm_symb_ps_idx' = IF ps_idx + 1 < nof_full_ps THEN 1 ELSE 0
      /\ part' = IF ps_idx + 1 < nof_full_ps THEN "collect" ELSE "left"
  <2>1. nof_full_ps' = nof_full_ps
    BY SamePacket DEF StageDone, sender, config
  <2> QED  BY <2>1 DEF StageDone, sender, config
<1>4. /\ step \in {5, 10} /\ SecondSymbol \in {0, 1} /\ ps_t_length = step + (1 + SecondSymbol)
      /\ step' = step /\ SecondSymbol' = SecondSymbol
      /\ nof_full_ps' = nof_full_ps /\ ps_t_length' = ps_t_length /\ nof_full_ps \in Int
      /\ ps_idx \in Nat /\ ofdm_symb_ps_idx \in Nat
      /\ relative_start \in {0, 1}
  BY <1>1, <1>3, SamePacket, Shapes, WholeStages DEF GridIndices, relative_start
<1>5. PICK y \in Nat : y = ps_idx * step
  BY <1>4, Products
<1>6. (ps_idx + 1) * step = y + step /\ (ps_idx + 2) * step = (y + step) + step
  BY <1>4, <1>5, Products
<1>7. ofdm_symb_idx = (y + step) + (2 + SecondSymbol) /\ ofdm_symb_ps_idx = step + 1
  BY <1>2, <1>3, <1>4, <1>5 DEF final_idx
<1>8. PICK k \in Nat : k = ps_idx + 2
  BY <1>4
<1>9. DrsState(k, 0)' /\ Interlaced(k, 0)' /\ Between(k, 0)'
  <2>1. Between(k, 0)
    <3>1. k * step = (y + step) + step
      BY <1>6, <1>8
    <3>2. LastDrs(k, 0) = (1 + y + step) + SecondSymbol
      BY <1>4, <3>1 DEF LastDrs
    <3> QED  BY <1>4, <1>7, <3>1, <3>2 DEF Between
  <2> QED  BY <1>1, <1>2, <1>3, <1>8, <2>1, NoDrs
<1>10. ReadInTime'
  BY <1>1, <1>3, <1>4 DEF ReadInTime
<1>11. EstimateRight' <=> EstimateRight
  BY <1>3, SameEstimate
<1>12. CASE ps_idx + 1 < nof_full_ps
  <2>1. final_idx' = (step + (1 + SecondSymbol)) + (y + step)
    BY <1>3, <1>4, <1>6 DEF final_idx
  <2>2. /\ ofdm_symb_idx <= ((step + (1 + SecondSymbol)) + (y + step)) + 1 /\ ps_idx + 1 > 0
        /\ ofdm_symb_idx = ((1 + SecondSymbol) + (y + step)) + 1
    BY <1>4, <1>7
  <2>3. PilotsCollect(k, 0)'
    BY <1>3, <1>4, <1>6, <1>9, <1>12, <2>1, <2>2 DEF PilotsCollect
  <2>4. \E a \in Nat, c \in {0, 1} : PilotsCollect(a, c)'
    BY <2>3
  <2> QED  BY <1>1, <1>3, <1>10, <1>11, <1>12, <2>4 DEF PilotState
<1>13. CASE ~(ps_idx + 1 < nof_full_ps)
  <2>1. nof_full_ps = ps_idx + 1
    BY <1>2, <1>4, <1>13
  <2>2. est.at \in (2 + (y + step)) - stride .. 1 + (y + step)
    <3>1. PICK a \in Nat : a = ((ofdm_symb_ps_idx - 1 - relative_start) % stride) /\ a <= stride - 1
      <4>1. ofdm_symb_ps_idx - 1 - relative_start \in Nat
        BY <1>4, <1>7
      <4> DEFINE x == ofdm_symb_ps_idx - 1 - relative_start
      <4> HIDE DEF x
      <4>2. (x % stride) \in 0..stride - 1
        BY <1>1, <4>1, Counting DEF x
      <4> QED  BY <1>1, <4>2 DEF x
    <3>2. est.at = ((1 + y) + (ofdm_symb_ps_idx - 1)) - a
      BY <1>2, <1>4, <1>5, <1>7, <3>1
    <3> QED  BY <1>1, <1>4, <1>7, <3>1, <3>2
  <2>3. PilotsRest(k, 0)'
    <3>1. nof_full_ps * step = y + step
      BY <1>6, <2>1
    <3>2. ofdm_symb_idx = ((2 + SecondSymbol) + (y + step)) + 0 /\ ofdm_symb_idx > 1 + (y + step)
      BY <1>4, <1>7
    <3>3. ofdm_symb_ps_idx' = 0
      BY <1>3, <1>13
    <3> QED  BY <1>3, <1>4, <1>6, <1>9, <2>1, <2>2, <3>1, <3>2, <3>3 DEF PilotsRest
  <2>4. \E a \in Nat, c \in {0, 1} : PilotsRest(a, c)'
    BY <2>3
  <2> QED  BY <1>1, <1>3, <1>10, <1>11, <1>13, <2>4 DEF PilotState
<1> QED  BY <1>12, <1>13

\* A symbol is read as it arrives.
LEMMA PilotsReadLeft ==
    ASSUME PilotInv, ReadLeft
    PROVE  PilotState'
<1>1. /\ GridConfig /\ GridIndices /\ stride \in Nat \ {0} /\ part = "left" /\ failed = "none"
      /\ est.at > 0 => EstimateRight
      /\ \E k \in Nat, h \in {0, 1} : PilotsLeftOnly(k, h) \/ PilotsRest(k, h)
  BY DEF PilotInv, BlockInv, PilotState, ReadLeft
<1>2. /\ EstimateLeft /\ UNCHANGED <<psdef, stride>>
      /\ ofdm_symb_idx <= N_DF_symb(psdef)
      /\ ofdm_symb_idx' = ofdm_symb_idx + 1
      /\ ofdm_symb_ps_idx' = IF ofdm_symb_ps_idx + 1 = step THEN 0 ELSE ofdm_symb_ps_idx + 1
      /\ ps_idx' = IF ofdm_symb_ps_idx + 1 = step THEN ps_idx + 1 ELSE ps_idx
      /\ read' # <<>> => read'.asked = ofdm_symb_idx
      /\ part' = IF failed' = "none" THEN "left" ELSE "over"
  BY DEF ReadLeft, sender, config, Goes, ReadPdc
<1>3. /\ step \in {5, 10} /\ SecondSymbol \in {0, 1}
      /\ (N_eff_TX = 8 => step = 10 /\ SecondSymbol = 1) /\ (N_eff_TX # 8 => SecondSymbol = 0)
      /\ step' = step /\ SecondSymbol' = SecondSymbol /\ N_eff_TX' = N_eff_TX
      /\ nof_full_ps' = nof_full_ps /\ nof_full_ps \in Int
      /\ ofdm_symb_idx \in Nat \ {0} /\ ps_idx \in Nat /\ ofdm_symb_ps_idx \in Nat
  BY <1>1, <1>2, SamePacket, Shapes, WholeStages DEF GridIndices
<1>4. PICK y \in Nat : y = ps_idx * step
  BY <1>3, Products
<1>5. (ps_idx + 1) * step = y + step
  BY <1>3, <1>4, Products
<1>6. /\ ps_idx' \in Nat /\ ps_idx' * step + ofdm_symb_ps_idx' = (y + ofdm_symb_ps_idx) + 1
      /\ ps_idx' * step \in Int /\ ofdm_symb_ps_idx' \in Nat
  <2>1. CASE ofdm_symb_ps_idx + 1 = step
    <3>1. ps_idx' * step = y + step /\ ofdm_symb_ps_idx' = 0
      BY <1>2, <1>5, <2>1
    <3> QED  BY <1>2, <1>3, <2>1, <3>1
  <2>2. CASE ofdm_symb_ps_idx + 1 # step
    <3>1. ps_idx' * step = y /\ ofdm_symb_ps_idx' = ofdm_symb_ps_idx + 1
      BY <1>2, <1>4, <2>2
    <3> QED  BY <1>2, <1>3, <2>2, <3>1
  <2> QED  BY <2>1, <2>2
<1>7. PICK k \in Nat, h \in {0, 1} : PilotsLeftOnly(k, h) \/ PilotsRest(k, h)
  BY <1>1
<1>8. CASE PilotsLeftOnly(k, h)
  <2>1. /\ DrsState(k, h) /\ Between(k, h) /\ k + h > 0
        /\ ofdm_symb_idx = (1 + ps_idx * step) + ofdm_symb_ps_idx /\ ofdm_symb_ps_idx <= step
        /\ est.at = IF h = 1 THEN 1 + k * step ELSE (1 + k * step) - step
    BY <1>8 DEF PilotsLeftOnly
  <2>2. /\ ofdm_symb_idx - est'.at \in 0..step - 1
        /\ failed' = "none" =>
             /\ ofdm_symb_ps_idx < step
             /\ est' = est \/ EstimateRight'
             /\ \E k2 \in Nat, h2 \in {0, 1} :
                   /\ DrsState(k2, h2)' /\ Between(k2, h2)' /\ k2 + h2 > 0
                   /\ est'.at = IF h2 = 1 THEN 1 + k2 * step ELSE (1 + k2 * step) - step
    <3>1. k + h > 0 => est.at = IF h = 1 THEN 1 + k * step ELSE (1 + k * step) - step
      BY <2>1
    <3> QED  BY <1>1, <1>2, <2>1, <3>1, LeftStep
  <2>3. ReadInTime'
    <3>1. part' # "read"
      BY <1>2
    <3>2. ofdm_symb_idx - est'.at \in 0..(step + stride - 1)
      BY <1>1, <1>3, <2>2
    <3> QED  BY <1>2, <1>3, <3>1, <3>2 DEF ReadInTime
  <2>4. CASE failed' # "none"
    BY <1>2, <2>3, <2>4 DEF PilotState
  <2>5. CASE failed' = "none"
    <3>1. PICK k2 \in Nat, h2 \in {0, 1} :
             /\ DrsState(k2, h2)' /\ Between(k2, h2)' /\ k2 + h2 > 0
             /\ est'.at = IF h2 = 1 THEN 1 + k2 * step ELSE (1 + k2 * step) - step
      BY <2>2, <2>5
    <3>2. PilotsLeftOnly(k2, h2)'
      <4>1. ofdm_symb_idx + 1 = (1 + ps_idx' * step) + ofdm_symb_ps_idx'
        <5>1. PICK u \in Int, v \in Nat : u = ps_idx' * step /\ v = ofdm_symb_ps_idx'
          BY <1>6
        <5>2. u + v = (y + ofdm_symb_ps_idx) + 1
          BY <1>6, <5>1
        <5>3. ofdm_symb_idx + 1 = (1 + u) + v
          BY <1>3, <1>4, <2>1, <5>2
        <5> QED  BY <5>1, <5>3
      <4>2. ofdm_symb_ps_idx' <= step
        BY <1>2, <1>3, <2>2, <2>5
      <4> QED  BY <1>2, <1>3, <3>1, <4>1, <4>2 DEF PilotsLeftOnly
    <3>3. (est'.at > 0 /\ failed' = "none") => EstimateRight'
      <4>1. CASE est' = est
        BY <1>1, <1>2, <4>1, SameEstimate
      <4> QED  BY <2>2, <2>5, <4>1
    <3>4. \E a \in Nat, c \in {0, 1} : PilotsLeftOnly(a, c)' \/ PilotsRest(a, c)'
      BY <3>2
    <3> QED  BY <1>2, <2>3, <2>5, <3>3, <3>4 DEF PilotState
  <2> QED  BY <2>4, <2>5
<1>9. CASE PilotsRest(k, h)
  <2>1. /\ DrsState(k, h)
        /\ ofdm_symb_idx = ((2 + SecondSymbol) + ps_idx * step) + ofdm_symb_ps_idx
        /\ est.at \in (2 + nof_full_ps * step) - stride .. 1 + nof_full_ps * step
        /\ ofdm_symb_idx > 1 + nof_full_ps * step
    BY <1>9 DEF PilotsRest
  <2>2. PICK z \in Int : z = nof_full_ps * step
    BY <1>3, Products
  <2>3. ofdm_symb_idx <= (z + step) + SecondSymbol
    <3>1. N_DF_symb(psdef) <= (z + step) + SecondSymbol /\ N_DF_symb(psdef) \in Int
      BY <1>1, <2>2, WholeStages, Shapes
    <3> QED  BY <1>2, <1>3, <2>2, <3>1
  <2>4. CASE IsDrs(ofdm_symb_idx)
    <3>1. /\ est'.at = (1 + ps_idx * step) + ofdm_symb_ps_idx
          /\ failed' = "none" => ofdm_symb_ps_idx = 0
      BY <1>1, <1>2, <2>1, <2>4, LeftEstimate
    <3>2. ofdm_symb_idx - est'.at \in 0..(step + stride - 1)
      BY <1>1, <1>3, <1>4, <2>1, <3>1
    <3>3. failed' # "none"
      <4>1. SUFFICES ASSUME ofdm_symb_ps_idx = 0 PROVE FALSE
        BY <3>1
      <4>2. ofdm_symb_idx = (1 + k * step) + h /\ (h = 1 => N_eff_TX = 8)
        BY <2>1, <2>4 DEF IsDrs, DrsState, DrsDue
      <4>3. PICK x \in Nat : x = k * step
        BY <1>3, Products
      <4>4. y + (1 + SecondSymbol) = x + h
        BY <1>3, <1>4, <2>1, <4>1, <4>2, <4>3
      <4>5. PICK s \in {5, 10} : s = step
        BY <1>3
      <4>6. k <= ps_idx
        <5>1. k * s < ps_idx * s + s
          BY <1>3, <1>4, <4>2, <4>3, <4>4, <4>5
        <5> QED  BY <1>3, <5>1, Ordered
      <4>7. x <= y
        <5>1. k * s <= ps_idx * s
          BY <1>3, <4>6, Ordered
        <5> QED  BY <1>4, <4>3, <4>5, <5>1
      <4> QED  BY <1>3, <4>2, <4>4, <4>7
    <3>4. ReadInTime'
      <4>1. part' # "read"
        BY <1>2
      <4> QED  BY <1>2, <1>3, <3>2, <4>1 DEF ReadInTime
    <3> QED  BY <1>2, <3>3, <3>4 DEF PilotState
  <2>5. CASE ~IsDrs(ofdm_symb_idx)
    <3>1. UNCHANGED <<drs, TS_last, est, interlaced>> /\ failed' = "none"
      BY <1>1, <1>2, <2>5 DEF EstimateLeft
    <3>2. DrsState(k, h)'
      BY <1>1, <1>2, <2>1, <3>1, NoDrs
    <3>3. PilotsRest(k, h)'
      <4>1. ofdm_symb_idx + 1 = ((2 + SecondSymbol) + ps_idx' * step) + ofdm_symb_ps_idx'
        <5>1. PICK u \in Int, v \in Nat : u = ps_idx' * step /\ v = ofdm_symb_ps_idx'
          BY <1>6
        <5>2. u + v = (y + ofdm_symb_ps_idx) + 1
          BY <1>6, <5>1
        <5>3. ofdm_symb_idx + 1 = ((2 + SecondSymbol) + u) + v
          BY <1>3, <1>4, <2>1, <5>2
        <5> QED  BY <5>1, <5>3
      <4>2. ofdm_symb_idx + 1 > 1 + nof_full_ps * step
        BY <1>3, <2>1, <2>2
      <4> QED  BY <1>2, <1>3, <2>1, <3>1, <3>2, <4>1, <4>2 DEF PilotsRest
    <3>4. ofdm_symb_idx - est.at \in 0..(step + stride - 1)
      BY <1>1, <1>3, <2>1, <2>2, <2>3
    <3>5. ReadInTime'
      <4>1. part' # "read"
        BY <1>2
      <4> QED  BY <1>2, <1>3, <3>1, <3>4, <4>1 DEF ReadInTime
    <3>6. EstimateRight' <=> EstimateRight
      BY <1>2, <3>1, SameEstimate
    <3>7. \E a \in Nat, c \in {0, 1} : PilotsLeftOnly(a, c)' \/ PilotsRest(a, c)'
      BY <3>3
    <3> QED  BY <1>1, <1>2, <3>1, <3>5, <3>6, <3>7 DEF PilotState
  <2> QED  BY <2>4, <2>5
<1> QED  BY <1>7, <1>8, <1>9

\* Any symbol that the receiver takes.
LEMMA PilotsReceived ==
    ASSUME PilotInv, Received
    PROVE  PilotState'
<1>1. /\ part = "left" /\ part' = "over" /\ failed = "none"
      /\ (est.at > 0) => EstimateRight
      /\ ReadInTime
      /\ UNCHANGED <<psdef, stride, est, read, ps_idx>>
  BY DEF PilotInv, PilotState, Received, sender, config, estimator, stageidx
<1>2. EstimateRight' <=> EstimateRight
  BY <1>1, SameEstimate
<1>3. ReadInTime'
  BY <1>1, SamePacket DEF ReadInTime
<1> QED  BY <1>1, <1>2, <1>3 DEF PilotState

\* Nothing happens.
LEMMA PilotsUnchanged ==
    ASSUME PilotInv, UNCHANGED grid
    PROVE  PilotState'
<1>1. UNCHANGED <<psdef, stride, part, failed, ofdm_symb_idx, drs, ps_idx, ofdm_symb_ps_idx,
                  TS_last, interlaced, est, read>>
  BY DEF grid, sender, config, stageidx, estimator
<1>2. /\ step' = step /\ N_eff_TX' = N_eff_TX /\ SecondSymbol' = SecondSymbol
      /\ ps_t_length' = ps_t_length /\ nof_full_ps' = nof_full_ps
      /\ final_idx' = final_idx /\ relative_start' = relative_start
  BY <1>1, SamePacket DEF final_idx, relative_start
<1>3. \A k, h : /\ DrsState(k, h)' <=> DrsState(k, h)
                /\ Interlaced(k, h)' <=> Interlaced(k, h)
                /\ Between(k, h)' <=> Between(k, h)
  BY <1>1, <1>2 DEF DrsState, DrsDue, Interlaced, Between, LastDrs, ReceivedOf, PilotOf
<1>4. \A k, h : /\ PilotsPcc(k, h)' <=> PilotsPcc(k, h)
                /\ PilotsAgain(k, h)' <=> PilotsAgain(k, h)
                /\ PilotsCollect(k, h)' <=> PilotsCollect(k, h)
                /\ PilotsLeftOnly(k, h)' <=> PilotsLeftOnly(k, h)
                /\ PilotsRest(k, h)' <=> PilotsRest(k, h)
  BY <1>1, <1>2, <1>3 DEF PilotsPcc, PilotsAgain, PilotsCollect, PilotsLeftOnly, PilotsRest
<1>5. PilotsRead' <=> PilotsRead
  BY <1>1, <1>2, <1>3 DEF PilotsRead
<1>6. (EstimateRight' <=> EstimateRight) /\ (ReadInTime' <=> ReadInTime)
  BY <1>1, <1>2, SameEstimate DEF ReadInTime
<1> QED  BY <1>1, <1>4, <1>5, <1>6 DEF PilotInv, PilotState

LEMMA PilotInit == ASSUME GridInit PROVE PilotInv
<1>1. BlockInv
  BY BlockInit
<1>2. stride \in Nat \ {0}
  BY StridesAssumption DEF GridInit
<1>3. interlaced \in [0..7 -> [1..2 -> [symbol : Int, n : Int]]]
  <2>1. NoPilots \in [symbol : Int, n : Int]
    BY DEF NoPilots
  <2>2. <<NoPilots, NoPilots>> \in [1..2 -> [symbol : Int, n : Int]]
    BY <2>1
  <2> QED  BY <2>2 DEF GridInit
<1>4. PilotState
  <2>1. /\ part = "tx" /\ failed = "none" /\ est.at = 0 /\ read = <<>> /\ ps_idx = 0
        /\ ofdm_symb_ps_idx = 0 /\ ~(est.at > 0)
    BY DEF GridInit
  <2> QED  BY <1>3, <2>1 DEF PilotState, ReadInTime
<1> QED  BY <1>1, <1>2, <1>4 DEF PilotInv

LEMMA PilotNext == ASSUME PilotInv, [GridNext]_grid PROVE PilotInv'
<1>1. BlockInv'
  BY BlockNext DEF PilotInv
<1>2. (stride \in Nat \ {0})'
  <2>1. UNCHANGED stride
    BY DEF GridNext, Transmit, Transmitted, PccSymbolRead, PdcBegins, Collect, Collected,
           ReadStage, StageDone, Again, ReadLeft, Received, grid, sender, config
  <2> QED  BY <2>1 DEF PilotInv
<1>3. PilotState'
  BY PilotsTransmit, PilotsTransmitted, PilotsPccSymbol, PilotsPdcBegins, PilotsCollectStep,
     PilotsCollected, PilotsReadStage, PilotsStageDone, PilotsAgainStep, PilotsReadLeft,
     PilotsReceived, PilotsUnchanged DEF GridNext
<1> QED  BY <1>1, <1>2, <1>3 DEF PilotInv

\* The channel is interpolated from the pilots that the look up table was made for, and a symbol is
\* read with an estimate of its stage that is no older than the stride.
THEOREM PilotsHold == GridInit /\ [][GridNext]_grid => []PilotsAsExpected
<1>1. GridInit => PilotInv
  BY PilotInit
<1>2. PilotInv /\ [GridNext]_grid => PilotInv'
  BY PilotNext
<1>3. PilotInv => PilotsAsExpected
  BY DEF PilotInv, PilotState, EstimateRight, ReadInTime, PilotsAsExpected
<1> QED  BY <1>1, <1>2, <1>3, PTL

-----------------------------------------------------------------------------
(* The cells of a symbol, each of them once. *)

\* Every fourth cell of a symbol.
Comb(b0, r) ==
    {IF p < N_b_OCC(b0) \div 2 THEN p ELSE p + 1 :
        p \in {4 * i + r : i \in 0..(N_b_OCC(b0) \div 4 - 1)}}

\* Four combs are the occupied subcarriers, and each has a multiple of seven teeth.
LEMMA Combs ==
    ASSUME NEW b0 \in Bs
    PROVE  /\ \A t, n : k_i(b0, t, n) = Comb(b0, (t + 2 * (n % 2)) % 4)
           /\ \A r \in 0..3 : /\ Comb(b0, r) \subseteq Occupied(b0)
                              /\ \E x, y \in Comb(b0, r) : x # y
                              /\ \E q \in Nat : Cardinality(Comb(b0, r)) = 7 * q
           /\ \A r, s \in 0..3 : r # s => Comb(b0, r) \cap Comb(b0, s) = {}
           /\ \A x \in Occupied(b0) : \E r \in 0..3 : x \in Comb(b0, r)
<1>1. PICK q \in {14, 28, 56, 112, 168, 224} : N_b_OCC(b0) = 4 * q
  BY FiniteCells
<1>2. N_b_OCC(b0) \div 2 = 2 * q /\ N_b_OCC(b0) \div 4 - 1 = q - 1
  BY <1>1
<1> DEFINE cell(p) == IF p < 2 * q THEN p ELSE p + 1
<1>3. ASSUME NEW r \in 0..3
      PROVE  /\ \A i \in 0..q - 1 : cell(4 * i + r) \in Comb(b0, r)
             /\ \A x \in Comb(b0, r) : \E i \in 0..q - 1 : x = cell(4 * i + r)
  <2> DEFINE places == {4 * i + r : i \in 0..q - 1}
  <2>1. Comb(b0, r) = {cell(p) : p \in places}
    <3>1. PICK x, y : x = N_b_OCC(b0) \div 2 /\ y = N_b_OCC(b0) \div 4 - 1
      OBVIOUS
    <3>2. Comb(b0, r) = {IF p < x THEN p ELSE p + 1 : p \in {4 * i + r : i \in 0..y}}
      BY <3>1, Zenon DEF Comb
    <3>3. x = 2 * q /\ y = q - 1
      BY <1>2, <3>1
    <3> QED  BY <3>2, <3>3
  <2>2. (\A i \in 0..q - 1 : 4 * i + r \in places) /\ \A p \in places : \E i \in 0..q - 1 : p = 4 * i + r
    OBVIOUS
  <2> HIDE DEF cell, places
  <2> QED  BY <2>1, <2>2
<1>4. Occupied(b0) = (0..4 * q) \ {2 * q}
  BY <1>1, <1>2 DEF Occupied
<1>5. ASSUME NEW r \in 0..3 PROVE Comb(b0, r) \subseteq Occupied(b0)
  BY <1>3, <1>4
<1>6. ASSUME NEW r \in 0..3 PROVE \E x, y \in Comb(b0, r) : x # y
  <2>1. 0 \in 0..q - 1 /\ 1 \in 0..q - 1
    OBVIOUS
  <2>2. cell(4 * 0 + r) # cell(4 * 1 + r)
    OBVIOUS
  <2>3. cell(4 * 0 + r) \in Comb(b0, r) /\ cell(4 * 1 + r) \in Comb(b0, r)
    BY <1>3, <2>1, Zenon
  <2> HIDE DEF cell
  <2> QED  BY <2>2, <2>3
<1>7. ASSUME NEW r \in 0..3 PROVE \E c \in Nat : Cardinality(Comb(b0, r)) = 7 * c
  <2> DEFINE f == [i \in 0..q - 1 |-> cell(4 * i + r)]
  <2>1. f \in [0..q - 1 -> Comb(b0, r)]
    BY <1>3
  <2>2. \A i, j \in 0..q - 1 : f[i] = f[j] => i = j
    OBVIOUS
  <2>3. \A x \in Comb(b0, r) : \E i \in 0..q - 1 : f[i] = x
    BY <1>3
  <2> HIDE DEF f, cell
  <2>4. f \in Injection(0..q - 1, Comb(b0, r)) /\ f \in Surjection(0..q - 1, Comb(b0, r))
    BY <2>1, <2>2, <2>3 DEF Injection, Surjection, IsInjective
  <2>5. Cardinality(0..q - 1) = q /\ IsFiniteSet(0..q - 1)
    BY FS_Interval
  <2>6. Cardinality(Comb(b0, r)) = q
    BY <2>4, <2>5, FS_Bijection DEF ExistsBijection, Bijection
  <2>7. PICK c \in {2, 4, 8, 16, 24, 32} : q = 7 * c
    OBVIOUS
  <2>8. c \in Nat /\ Cardinality(Comb(b0, r)) = 7 * c
    BY <2>6, <2>7
  <2> QED  BY <2>8, ZenonT(60)
<1>8. ASSUME NEW r \in 0..3, NEW s \in 0..3, r # s PROVE Comb(b0, r) \cap Comb(b0, s) = {}
  <2> SUFFICES ASSUME NEW x \in Comb(b0, r), x \in Comb(b0, s) PROVE FALSE
    OBVIOUS
  <2>1. PICK i \in 0..q - 1 : x = cell(4 * i + r)
    BY <1>3
  <2>2. PICK j \in 0..q - 1 : x = cell(4 * j + s)
    BY <1>3
  <2> QED  BY <1>8, <2>1, <2>2
<1>9. ASSUME NEW x \in Occupied(b0) PROVE \E r \in 0..3 : x \in Comb(b0, r)
  <2>1. PICK p \in 0..4 * q - 1 : x = cell(p)
    <3>1. CASE x < 2 * q
      BY <1>4, <3>1
    <3>2. CASE x > 2 * q
      <4>1. x - 1 \in 0..4 * q - 1 /\ x = cell(x - 1)
        BY <1>4, <3>2
      <4> QED  BY <4>1
    <3> QED  BY <1>4, <3>1, <3>2
  <2>2. p = 4 * (p \div 4) + (p % 4) /\ p \div 4 \in 0..q - 1 /\ p % 4 \in 0..3
    OBVIOUS
  <2> HIDE DEF cell
  <2> QED  BY <1>3, <2>1, <2>2
<1>10. \A t, n : k_i(b0, t, n) = Comb(b0, (t + 2 * (n % 2)) % 4)
  BY DEF k_i, Comb
<1> HIDE DEF cell
<1> QED  BY <1>5, <1>6, <1>7, <1>8, <1>9, <1>10

\* The elements of a finite set of naturals have all ranks from zero on.
RankIn(S, x) == Cardinality({y \in S : y < x})

LEMMA Ranks ==
    ASSUME NEW n \in Nat, NEW S, S \subseteq 0..n
    PROVE  /\ \A x \in Nat : RankIn(S, x) \in Nat
           /\ \A x \in Nat : RankIn(S, x + 1) = IF x \in S THEN RankIn(S, x) + 1 ELSE RankIn(S, x)
           /\ \A x \in S : RankIn(S, x) < Cardinality(S)
           /\ \A x, y \in S : RankIn(S, x) = RankIn(S, y) => x = y
           /\ \A j \in Nat : j < Cardinality(S) => \E x \in S : RankIn(S, x) = j
<1> DEFINE Below(x) == {y \in S : y < x}
<1>1. IsFiniteSet(S) /\ Cardinality(S) \in Nat
  BY Bounded
<1>2. ASSUME NEW x \in Nat
      PROVE  IsFiniteSet(Below(x)) /\ RankIn(S, x) = Cardinality(Below(x)) /\ RankIn(S, x) \in Nat
  <2>1. Below(x) \in SUBSET S
    OBVIOUS
  <2> HIDE DEF Below
  <2>2. IsFiniteSet(Below(x)) /\ Cardinality(Below(x)) \in Nat
    BY <1>1, <2>1, FS_Subset, FS_CardinalityType
  <2> QED  BY <2>2 DEF RankIn, Below
<1>3. ASSUME NEW x \in Nat
      PROVE  RankIn(S, x + 1) = IF x \in S THEN RankIn(S, x) + 1 ELSE RankIn(S, x)
  <2>1. CASE x \in S
    <3>0. \A y \in S : y \in Nat /\ (y < x + 1 <=> y < x \/ y = x)
      OBVIOUS
    <3>1. Below(x + 1) = Below(x) \cup {x} /\ x \notin Below(x)
      <4>1. x \notin Below(x)
        OBVIOUS
      <4>2. \A y : y \in Below(x + 1) <=> y \in Below(x) \cup {x}
        BY <2>1, <3>0
      <4> HIDE DEF Below
      <4> QED  BY <4>1, <4>2
    <3> HIDE DEF Below
    <3> QED  BY <1>2, <2>1, <3>1, FS_AddElement
  <2>2. CASE x \notin S
    <3>0. \A y \in S : y < x + 1 <=> y < x
      BY <2>2
    <3>1. Below(x + 1) = Below(x)
      BY <3>0
    <3> HIDE DEF Below
    <3> QED  BY <1>2, <2>2, <3>1
  <2> QED  BY <2>1, <2>2
<1>4. ASSUME NEW x \in Nat, NEW y \in Nat, x < y
      PROVE  RankIn(S, x) <= RankIn(S, y) /\ (x \in S => RankIn(S, x) < RankIn(S, y))
  <2>0. \A z \in S : z < x => z < y
    <3>1. S \subseteq Nat
      OBVIOUS
    <3> QED  BY <1>4, <3>1
  <2>1. Below(x) \in SUBSET Below(y) /\ (x \in S => x \in Below(y) /\ x \notin Below(x))
    <3>1. ~(x < x) /\ x < y
      BY <1>4
    <3>2. \A z \in Below(x) : z \in Below(y)
      BY <2>0
    <3>3. x \in S => x \in Below(y) /\ x \notin Below(x)
      BY <3>1
    <3> HIDE DEF Below
    <3> QED  BY <3>2, <3>3
  <2> HIDE DEF Below
  <2>2. Cardinality(Below(x)) <= Cardinality(Below(y))
    BY <1>2, <2>1, FS_Subset
  <2>3. Cardinality(Below(x)) = Cardinality(Below(y)) => Below(x) = Below(y)
    BY <1>2, <2>1, FS_Subset
  <2> QED  BY <1>2, <2>1, <2>2, <2>3
<1>5. Below(n + 1) = S /\ Below(0) = {} /\ S \subseteq Nat
  <2>1. \A y \in S : y \in Nat /\ y < n + 1 /\ ~(y < 0)
    OBVIOUS
  <2> QED  BY <2>1
<1>6. RankIn(S, n + 1) = Cardinality(S) /\ RankIn(S, 0) = 0
  <2>1. 0 \in Nat /\ n + 1 \in Nat
    OBVIOUS
  <2> HIDE DEF Below
  <2> QED  BY <1>2, <1>5, <2>1, FS_EmptySet
<1>7. ASSUME NEW x \in S PROVE RankIn(S, x) < Cardinality(S)
  <2>1. x \in Nat /\ n + 1 \in Nat /\ x < n + 1
    OBVIOUS
  <2> QED  BY <1>4, <1>6, <2>1
<1>8. ASSUME NEW x \in S, NEW y \in S, RankIn(S, x) = RankIn(S, y) PROVE x = y
  <2>1. x \in Nat /\ y \in Nat /\ (x < y \/ y < x \/ x = y)
    BY <1>5
  <2>2. RankIn(S, x) \in Nat /\ RankIn(S, y) \in Nat
    BY <1>2, <2>1
  <2>3. ~(x < y) /\ ~(y < x)
    BY <1>4, <1>8, <2>1, <2>2
  <2> QED  BY <2>1, <2>3
<1>9. ASSUME NEW j \in Nat, j < Cardinality(S) PROVE \E x \in S : RankIn(S, x) = j
  <2> DEFINE T == {x \in Nat : RankIn(S, x) > j}
  <2>1. T \subseteq Nat /\ n + 1 \in T
    BY <1>6, <1>9
  <2>2. PICK x \in T : \A y \in T : x <= y
    <3> HIDE DEF T
    <3> QED  BY <2>1, LeastNatural
  <2>3. x \in Nat /\ x > 0 /\ RankIn(S, x) > j
    BY <1>6, <2>2
  <2>4. x - 1 \in Nat /\ (x - 1) + 1 = x /\ x - 1 \notin T
    BY <2>2, <2>3
  <2>5. PICK y : y = x - 1
    OBVIOUS
  <2>6. y \in Nat /\ y + 1 = x /\ y \notin T
    BY <2>4, <2>5
  <2>7. RankIn(S, y + 1) > j /\ RankIn(S, y) <= j /\ RankIn(S, y) \in Nat
    <3>1. RankIn(S, y + 1) > j
      BY <2>3, <2>6
    <3>2. RankIn(S, y) \in Nat /\ ~(RankIn(S, y) > j)
      BY <1>2, <2>6
    <3> QED  BY <3>1, <3>2
  <2>8. y \in S /\ RankIn(S, y) = j
    BY <1>3, <2>6, <2>7
  <2> QED  BY <2>8
<1> HIDE DEF Below
<1> QED  BY <1>2, <1>3, <1>7, <1>8, <1>9

\* The DRS cells of a symbol, by the numbers of streams.
Teeth(b0, N, j) == UNION {Comb(b0, (t + 2 * (j % 2)) % 4) : t \in 0..N - 1}

\* One, two and four combs.
LEMMA TeethOf ==
    ASSUME NEW b0 \in Bs, NEW j \in Nat
    PROVE  /\ Teeth(b0, 1, j) = Comb(b0, 2 * (j % 2))
           /\ Teeth(b0, 2, j) = Comb(b0, 2 * (j % 2)) \cup Comb(b0, 2 * (j % 2) + 1)
           /\ Teeth(b0, 4, j) = Occupied(b0)
<1>1. j % 2 \in {0, 1}
  OBVIOUS
<1>2. PICK e \in {0, 1} : e = j % 2
  BY <1>1
<1>3. Teeth(b0, 1, j) = Comb(b0, 2 * e)
  <2>1. 0..1 - 1 = {0} /\ (0 + 2 * e) % 4 = 2 * e
    OBVIOUS
  <2> DEFINE tooth(t) == Comb(b0, (t + 2 * e) % 4)
  <2>2. Teeth(b0, 1, j) = UNION {tooth(t) : t \in {0}}
    BY <1>2, <2>1 DEF Teeth
  <2>3. tooth(0) = Comb(b0, 2 * e)
    BY <2>1
  <2> HIDE DEF tooth
  <2>4. UNION {tooth(t) : t \in {0}} = tooth(0)
    OBVIOUS
  <2> QED  BY <2>2, <2>3, <2>4, Zenon
<1>4. Teeth(b0, 2, j) = Comb(b0, 2 * e) \cup Comb(b0, 2 * e + 1)
  <2>1. 0..2 - 1 = {0, 1} /\ (0 + 2 * e) % 4 = 2 * e /\ (1 + 2 * e) % 4 = 2 * e + 1
    OBVIOUS
  <2>2. Teeth(b0, 2, j) = UNION {Comb(b0, (t + 2 * e) % 4) : t \in {0, 1}}
    BY <1>2, <2>1 DEF Teeth
  <2> QED  BY <2>1, <2>2
<1>5. Teeth(b0, 4, j) = Occupied(b0)
  <2>1. \A r \in 0..3 : \E t \in 0..4 - 1 : (t + 2 * e) % 4 = r
    <3> TAKE r \in 0..3
    <3>1. CASE e = 0
      BY <3>1
    <3>2. CASE e = 1
      <4>1. (r + 2) % 4 \in 0..4 - 1 /\ (((r + 2) % 4) + 2 * e) % 4 = r
        BY <3>2
      <4> QED  BY <4>1
    <3> QED  BY <3>1, <3>2
  <2>2. \A t \in 0..4 - 1 : (t + 2 * e) % 4 \in 0..3
    OBVIOUS
  <2>3. Teeth(b0, 4, j) = UNION {Comb(b0, (t + 2 * e) % 4) : t \in 0..4 - 1}
    BY <1>2 DEF Teeth
  <2>4. \A x \in Teeth(b0, 4, j) : x \in Occupied(b0)
    BY <2>2, <2>3, Combs
  <2>5. \A x \in Occupied(b0) : x \in Teeth(b0, 4, j)
    <3> TAKE x \in Occupied(b0)
    <3>1. PICK r \in 0..3 : x \in Comb(b0, r)
      BY Combs
    <3>2. PICK t \in 0..4 - 1 : (t + 2 * e) % 4 = r
      BY <2>1
    <3> QED  BY <2>3, <3>1, <3>2
  <2> QED  BY <2>4, <2>5
<1> QED  BY <1>2, <1>3, <1>4, <1>5

\* The DRS cells of the tables, which are made for 20 and for 30 symbols.
LEMMA DrsTable ==
    ASSUME NEW b0 \in Bs, NEW N \in Ns, NEW l \in 1..20, NEW symb \in {20, 30},
           symb = 20 => l <= 5
    PROVE  /\ N <= 2 => /\ \A j \in Nat : l = 1 + 5 * j => DrsCells(b0, N, symb, l) = Teeth(b0, N, j)
                        /\ (\A j \in Nat : l # 1 + 5 * j) => DrsCells(b0, N, symb, l) = {}
           /\ N > 2 => /\ \A j \in Nat, h \in 0..(N \div 4) - 1 :
                             l = (1 + 10 * j) + h => DrsCells(b0, N, symb, l) = Occupied(b0)
                       /\ (\A j \in Nat, h \in 0..(N \div 4) - 1 : l # (1 + 10 * j) + h)
                             => DrsCells(b0, N, symb, l) = {}
<1> DEFINE last == nof_OFDM_symbols_carrying_DRS_per_TS(symb, N) - 1
           here(t, j) == t \in 0..N - 1 /\ j \in 0..last /\ l = 1 + t \div 4 + j * N_step(N)
<1>1. \A x : x \in DrsCells(b0, N, symb, l)
             <=> \E t, j : here(t, j) /\ x \in Comb(b0, (t + 2 * (j % 2)) % 4)
  <2> DEFINE P == {y \in (0..N - 1) \X (0..last) : l = 1 + y[1] \div 4 + y[2] * N_step(N)}
  <2>1. DrsCells(b0, N, symb, l) = UNION {k_i(b0, y[1], y[2]) : y \in P}
    BY DEF DrsCells
  <2>2. \A y \in P : here(y[1], y[2])
    OBVIOUS
  <2>3. \A t, j : here(t, j) => <<t, j>> \in P
    OBVIOUS
  <2>4. \A t, j : k_i(b0, t, j) = Comb(b0, (t + 2 * (j % 2)) % 4)
    BY Combs
  <2> HIDE DEF P, here
  <2>5. ASSUME NEW x, x \in DrsCells(b0, N, symb, l)
        PROVE  \E t, j : here(t, j) /\ x \in Comb(b0, (t + 2 * (j % 2)) % 4)
    <3>1. PICK y \in P : x \in k_i(b0, y[1], y[2])
      BY <2>1, <2>5
    <3> QED  BY <2>2, <2>4, <3>1
  <2>6. ASSUME NEW x, NEW t, NEW j, here(t, j), x \in Comb(b0, (t + 2 * (j % 2)) % 4)
        PROVE  x \in DrsCells(b0, N, symb, l)
    <3>1. <<t, j>> \in P /\ x \in k_i(b0, t, j)
      BY <2>3, <2>4, <2>6
    <3>2. k_i(b0, <<t, j>>[1], <<t, j>>[2]) = k_i(b0, t, j)
      OBVIOUS
    <3> QED  BY <2>1, <3>1, <3>2
  <2> QED  BY <2>5, <2>6
<1>2. CASE N <= 2
  <2>1. N_step(N) = 5 /\ N \in {1, 2} /\ last = symb \div 5 - 1
    BY <1>2 DEF N_step, Ns, nof_OFDM_symbols_carrying_DRS_per_TS
  <2>2. \A t, j : here(t, j) <=> t \in 0..N - 1 /\ j \in 0..last /\ l = 1 + 5 * j
    BY <2>1
  <2>3. \A j \in Nat : l = 1 + 5 * j => j \in 0..last
    BY <2>1
  <2> HIDE DEF here, last
  <2>4. ASSUME NEW j \in Nat, l = 1 + 5 * j PROVE DrsCells(b0, N, symb, l) = Teeth(b0, N, j)
    <3>1. \A t, i : here(t, i) <=> t \in 0..N - 1 /\ i = j
      BY <2>2, <2>3, <2>4 DEF last
    <3>2. \A x : x \in DrsCells(b0, N, symb, l)
                 <=> \E t \in 0..N - 1 : x \in Comb(b0, (t + 2 * (j % 2)) % 4)
      BY <1>1, <3>1
    <3> QED  BY <3>2 DEF Teeth
  <2>5. ASSUME \A j \in Nat : l # 1 + 5 * j PROVE DrsCells(b0, N, symb, l) = {}
    <3>1. \A t, j : ~here(t, j)
      BY <2>2, <2>5 DEF last
    <3> QED  BY <1>1, <3>1
  <2>6. ~(N > 2)
    BY <2>1
  <2> QED  BY <2>4, <2>5, <2>6
<1>3. CASE N > 2
  <2>1. N_step(N) = 10 /\ N \in {4, 8} /\ last = symb \div 10 - 1
    BY <1>3 DEF N_step, Ns, nof_OFDM_symbols_carrying_DRS_per_TS
  <2>2. \A t, j : here(t, j) <=> t \in 0..N - 1 /\ j \in 0..last /\ l = (1 + 10 * j) + (t \div 4)
    BY <2>1
  <2>3. \A j \in Nat, h \in 0..(N \div 4) - 1 : l = (1 + 10 * j) + h => j \in 0..last
    BY <2>1
  <2>4. \A r \in 0..3, h \in 0..(N \div 4) - 1 : 4 * h + r \in 0..N - 1 /\ (4 * h + r) \div 4 = h
    BY <2>1
  <2>5. \A t \in 0..N - 1 : t \div 4 \in 0..(N \div 4) - 1
    BY <2>1
  <2> HIDE DEF here, last
  <2>6. ASSUME NEW j \in Nat, NEW h \in 0..(N \div 4) - 1, l = (1 + 10 * j) + h
        PROVE  DrsCells(b0, N, symb, l) = Occupied(b0)
    <3>1. \A x \in Occupied(b0) : x \in DrsCells(b0, N, symb, l)
      <4> TAKE x \in Occupied(b0)
      <4>1. x \in Teeth(b0, 4, j)
        BY TeethOf
      <4>2. PICK r \in 0..4 - 1 : x \in Comb(b0, (r + 2 * (j % 2)) % 4)
        BY <4>1 DEF Teeth
      <4>3. here(4 * h + r, j)
        <5>1. r \in 0..3
          OBVIOUS
        <5>2. 4 * h + r \in 0..N - 1 /\ (4 * h + r) \div 4 = h
          BY <2>4, <5>1
        <5>3. j \in 0..last
          BY <2>3, <2>6
        <5> QED  BY <2>2, <2>6, <5>2, <5>3
      <4>4. ((4 * h + r) + 2 * (j % 2)) % 4 = (r + 2 * (j % 2)) % 4
        <5>1. h \in Nat /\ j % 2 \in Nat
          BY <2>1
        <5>2. \A y \in Nat, z \in Nat : (4 * y + z) % 4 = z % 4
          OBVIOUS
        <5>3. (4 * h + r) + 2 * (j % 2) = 4 * h + (r + 2 * (j % 2))
          BY <5>1
        <5> QED  BY <5>1, <5>2, <5>3
      <4> QED  BY <1>1, <4>2, <4>3, <4>4
    <3>2. \A x \in DrsCells(b0, N, symb, l) : x \in Occupied(b0)
      <4> TAKE x \in DrsCells(b0, N, symb, l)
      <4>1. PICK t, i : here(t, i) /\ x \in Comb(b0, (t + 2 * (i % 2)) % 4)
        BY <1>1
      <4>2. (t + 2 * (i % 2)) % 4 \in 0..3
        <5>1. t \in Nat
          BY <2>1, <2>2, <4>1
        <5>2. i \in Nat
          BY <2>2, <4>1
        <5> QED  BY <5>1, <5>2
      <4> QED  BY <4>1, <4>2, Combs
    <3> QED  BY <3>1, <3>2
  <2>7. ASSUME \A j \in Nat, h \in 0..(N \div 4) - 1 : l # (1 + 10 * j) + h
        PROVE  DrsCells(b0, N, symb, l) = {}
    <3>1. \A t, j : ~here(t, j)
      BY <2>2, <2>5, <2>7 DEF last
    <3> QED  BY <1>1, <3>1
  <2>8. ~(N <= 2)
    BY <2>1
  <2> QED  BY <2>6, <2>7, <2>8
<1>4. N <= 2 \/ N > 2
  BY DEF Ns
<1>5. N <= 2 => ~(N > 2)
  BY DEF Ns
<1> QED  BY <1>2, <1>3, <1>4, <1>5

\* The matrix of seven rows leaves no single cell.
LEMMA Untaken ==
    ASSUME NEW n \in Nat, NEW S, S \subseteq 0..n, NEW c \in Nat, Cardinality(S) = 7 * c,
           NEW m \in Nat, m <= c
    PROVE  Cardinality({k \in S : ~(Interleaved(RankIn(S, k), Cardinality(S)) < 7 * m)}) # 1
<1> DEFINE T == {k \in S : ~(Interleaved(RankIn(S, k), Cardinality(S)) < 7 * m)}
<1>1. IsFiniteSet(T) /\ Cardinality(T) \in Nat
  <2>1. T \subseteq 0..n
    OBVIOUS
  <2> HIDE DEF T
  <2> QED  BY <2>1, Bounded
<1>2. (7 * c) \div 7 = c
  OBVIOUS
<1>3. \A k : Interleaved(RankIn(S, k), Cardinality(S)) = ((RankIn(S, k) % c) * 7) + (RankIn(S, k) \div c)
  BY <1>2 DEF Interleaved, R_PCC
<1>4. CASE m = c
  <2>1. ASSUME NEW k \in T PROVE FALSE
    <3>0. k \in S /\ k \in Nat
      OBVIOUS
    <3>1. RankIn(S, k) \in Nat /\ RankIn(S, k) < Cardinality(S)
      BY <3>0, Ranks
    <3>2. PICK x \in Nat : x = RankIn(S, k) /\ x < 7 * c
      BY <3>1
    <3>3. c \in Nat \ {0}
      BY <3>2
    <3>4. x \div c \in Nat /\ x % c \in 0..c - 1 /\ x = c * (x \div c) + (x % c)
      BY <3>2, <3>3, Quotient
    <3>5. PICK y \in Nat, z \in Nat : y = x \div c /\ z = x % c /\ z <= c - 1
      BY <3>3, <3>4
    <3>6. c * y <= x
      BY <3>4, <3>5
    <3>7. y < 7
      <4>1. ~(y >= 7) \/ c * y >= c * 7
        BY <3>3, <3>5
      <4> QED  BY <3>2, <3>5, <3>6, <4>1
    <3>8. z * 7 + y < 7 * m
      BY <1>4, <3>5, <3>7
    <3>9. ~(Interleaved(RankIn(S, k), Cardinality(S)) < 7 * m)
      OBVIOUS
    <3> QED  BY <1>3, <3>2, <3>5, <3>8, <3>9
  <2>2. T = {}
    <3> HIDE DEF T
    <3> QED  BY <2>1
  <2> HIDE DEF T
  <2> QED  BY <2>2, FS_EmptySet DEF T
<1>5. CASE m < c
  <2>1. c \in Nat \ {0} /\ c - 1 \in Nat /\ 2 * c - 1 \in Nat
    BY <1>5
  <2>2. (c - 1) \div c = 0 /\ (c - 1) % c = c - 1
    <3>1. c - 1 = c * 0 + (c - 1)
      OBVIOUS
    <3> QED  BY <2>1, <3>1, QuotientOf
  <2>3. (2 * c - 1) \div c = 1 /\ (2 * c - 1) % c = c - 1
    <3>1. 2 * c - 1 = c * 1 + (c - 1)
      OBVIOUS
    <3> QED  BY <2>1, <3>1, QuotientOf
  <2> HIDE DEF T
  <2>4. \A j \in Nat : j < Cardinality(S) => \E k \in S : RankIn(S, k) = j
    BY Ranks
  <2>5. PICK k1 \in S, k2 \in S : RankIn(S, k1) = c - 1 /\ RankIn(S, k2) = 2 * c - 1
    <3>1. c - 1 < Cardinality(S) /\ 2 * c - 1 < Cardinality(S)
      BY <2>1
    <3> QED  BY <2>1, <2>4, <3>1
  <2>6. k1 \in T
    <3>1. ~((c - 1) * 7 + 0 < 7 * m)
      BY <1>5
    <3>2. Interleaved(RankIn(S, k1), Cardinality(S)) = (c - 1) * 7 + 0
      BY <1>3, <2>2, <2>5
    <3> QED  BY <3>1, <3>2 DEF T
  <2>7. k2 \in T
    <3>1. ~((c - 1) * 7 + 1 < 7 * m)
      BY <1>5
    <3>2. Interleaved(RankIn(S, k2), Cardinality(S)) = (c - 1) * 7 + 1
      BY <1>3, <2>3, <2>5
    <3> QED  BY <3>1, <3>2 DEF T
  <2>8. k1 # k2
    BY <2>1, <2>5
  <2>9. ~\E x : T = {x}
    BY <2>6, <2>7, <2>8
  <2> QED  BY <1>1, <2>9, FS_Singleton DEF T
<1> QED  BY <1>4, <1>5

\* What is free for the PCC and what is left of it are multiples of seven.
Sevenfold(S) == IsFiniteSet(S) /\ \E c \in Nat : Cardinality(S) = 7 * c

\* Two of them without a common cell.
LEMMA SevenfoldUnion ==
    ASSUME NEW S, NEW T, Sevenfold(S), Sevenfold(T), S \cap T = {}
    PROVE  Sevenfold(S \cup T)
<1>1. PICK x \in Nat, y \in Nat : Cardinality(S) = 7 * x /\ Cardinality(T) = 7 * y
  BY DEF Sevenfold
<1>2. IsFiniteSet(S) /\ IsFiniteSet(T) /\ Cardinality(S \cap T) = 0
  BY FS_EmptySet DEF Sevenfold
<1>3. /\ IsFiniteSet(S \cup T)
      /\ Cardinality(S \cup T) = Cardinality(S) + Cardinality(T) - Cardinality(S \cap T)
  BY <1>2, FS_Union
<1>4. Cardinality(S \cup T) = 7 * (x + y) /\ x + y \in Nat
  BY <1>1, <1>2, <1>3
<1> QED  BY <1>3, <1>4 DEF Sevenfold

\* What is left of the PCC after a symbol.
LEMMA LeftNext ==
    ASSUME NEW b0, NEW N, b0 \in Bs, N \in Ns
    PROVE  /\ PccLeft[b0][N][1] = 98
           /\ \A l \in 1..4 : PccLeft[b0][N][l + 1]
                  = IF PccLeft[b0][N][l] <= Cardinality(PccFree[b0][N][l]) THEN 0
                    ELSE PccLeft[b0][N][l] - Cardinality(PccFree[b0][N][l])
<1> DEFINE F(x, l) == IF x <= Cardinality(PccFree[b0][N][l]) THEN 0
                      ELSE x - Cardinality(PccFree[b0][N][l])
           R(r) == [l \in 1..5 |-> IF l = 1 THEN pcc_cells
                                   ELSE IF r[l - 1] <= Cardinality(PccFree[b0][N][l - 1]) THEN 0
                                   ELSE r[l - 1] - Cardinality(PccFree[b0][N][l - 1])]
<1> DEFINE left == CHOOSE r : r = R(r)
<1>13. PICK w : w = R(w)
  <2>1. PICK w2 : w2 = F(98, 1)
    OBVIOUS
  <2>2. PICK w3 : w3 = F(w2, 2)
    OBVIOUS
  <2>3. PICK w4 : w4 = F(w3, 3)
    OBVIOUS
  <2>4. PICK w5 : w5 = F(w4, 4)
    OBVIOUS
  <2> DEFINE w == [l \in 1..5 |-> IF l = 1 THEN 98 ELSE IF l = 2 THEN w2 ELSE IF l = 3 THEN w3
                                  ELSE IF l = 4 THEN w4 ELSE w5]
  <2>5. w = R(w)
    <3>1. SUFFICES ASSUME NEW l \in 1..5 PROVE w[l] = R(w)[l]
      OBVIOUS
    <3>2. l = 1 \/ l = 2 \/ l = 3 \/ l = 4 \/ l = 5
      OBVIOUS
    <3>3. w[1] = 98 /\ w[2] = w2 /\ w[3] = w3 /\ w[4] = w4 /\ w[5] = w5
      OBVIOUS
    <3>4. R(w)[l] = IF l = 1 THEN 98 ELSE F(w[l - 1], l - 1)
      BY DEF pcc_cells
    <3> HIDE DEF R, w, F
    <3>5. /\ l = 1 => w[l] = R(w)[l]
          /\ l = 2 => w[l] = R(w)[l]
      BY <2>1, <3>3, <3>4
    <3>6. /\ l = 3 => w[l] = R(w)[l]
          /\ l = 4 => w[l] = R(w)[l]
          /\ l = 5 => w[l] = R(w)[l]
      BY <2>2, <2>3, <2>4, <3>3, <3>4
    <3> QED  BY <3>2, <3>5, <3>6
  <2> QED  BY <2>5
<1>14. PccLeft[b0][N] = left
  BY ZenonT(60) DEF PccLeft
<1>15. left = R(left)
  <2> HIDE DEF R
  <2> QED  BY <1>13
<1> HIDE DEF left
<1>16. left[1] = 98 /\ \A l \in 1..4 : left[l + 1] = F(left[l], l)
  <2> DEFINE s == R(left)
  <2>1. s[1] = 98 /\ \A l \in 1..4 : s[l + 1] = F(left[l], l)
    BY DEF pcc_cells
  <2> QED  BY <1>15, <2>1
<1> QED  BY <1>14, <1>16

LEMMA Sevens ==
    ASSUME NEW b0 \in Bs, NEW N \in Ns
    PROVE  \A l \in 1..5 : /\ \E c \in Nat : Cardinality(PccFree[b0][N][l]) = 7 * c
                           /\ \E m \in Nat : PccLeft[b0][N][l] = 7 * m
<1>1. ASSUME NEW r \in 0..3 PROVE Sevenfold(Comb(b0, r)) /\ Comb(b0, r) \subseteq Occupied(b0)
  BY Combs, FiniteCells, FS_Subset DEF Sevenfold
<1>2. \A r, s \in 0..3 : r # s => Comb(b0, r) \cap Comb(b0, s) = {}
  BY Combs
<1>3. PICK C0, C1, C2, C3 : C0 = Comb(b0, 0) /\ C1 = Comb(b0, 1) /\ C2 = Comb(b0, 2) /\ C3 = Comb(b0, 3)
  OBVIOUS
<1>4. /\ Sevenfold(C0) /\ Sevenfold(C1) /\ Sevenfold(C2) /\ Sevenfold(C3)
      /\ C0 \cap C1 = {} /\ C0 \cap C2 = {} /\ C0 \cap C3 = {}
      /\ C1 \cap C2 = {} /\ C1 \cap C3 = {} /\ C2 \cap C3 = {}
  BY <1>1, <1>2, <1>3
<1>5. Occupied(b0) = (C0 \cup C1) \cup (C2 \cup C3)
  <2>1. \A r \in 0..3 : r = 0 \/ r = 1 \/ r = 2 \/ r = 3
    OBVIOUS
  <2>2. \A x \in Occupied(b0) : x \in (C0 \cup C1) \cup (C2 \cup C3)
    BY <1>3, <2>1, Combs
  <2> QED  BY <1>1, <1>3, <2>2
<1>6. Sevenfold(C2 \cup C3) /\ Sevenfold(C0 \cup C1)
  BY <1>4, SevenfoldUnion
<1>7. Sevenfold(C1 \cup (C2 \cup C3))
  <2>1. C1 \cap (C2 \cup C3) = {}
    BY <1>4
  <2> QED  BY <1>4, <1>6, <2>1, SevenfoldUnion
<1>8. Sevenfold(Occupied(b0))
  <2>1. (C0 \cup C1) \cap (C2 \cup C3) = {}
    BY <1>4
  <2> QED  BY <1>5, <1>6, <2>1, SevenfoldUnion
<1>9. Sevenfold({})
  <2>1. IsFiniteSet({}) /\ Cardinality({}) = 7 * 0
    BY FS_EmptySet
  <2> QED  BY <2>1 DEF Sevenfold
<1>10. /\ Occupied(b0) \ C0 = C1 \cup (C2 \cup C3)
       /\ Occupied(b0) \ (C0 \cup C1) = C2 \cup C3
       /\ Occupied(b0) \ {} = Occupied(b0)
       /\ Occupied(b0) \ Occupied(b0) = {}
  BY <1>4, <1>5
<1>11. \A S \in {{}, Occupied(b0), C0, C0 \cup C1} : Sevenfold(Occupied(b0) \ S)
  BY <1>6, <1>7, <1>8, <1>9, <1>10
<1>12. ASSUME NEW l \in 1..5 PROVE \E c \in Nat : Cardinality(PccFree[b0][N][l]) = 7 * c
  <2>1. PccFree[b0][N][l] = Occupied(b0) \ DrsCells(b0, N, 20, l)
    BY DEF PccFree
  <2>2. DrsCells(b0, N, 20, l) \in {{}, Occupied(b0), C0, C0 \cup C1}
    <3>0. l \in 1..20 /\ 20 \in {20, 30} /\ l <= 5
      OBVIOUS
    <3>1. CASE N > 2
      BY <3>0, <3>1, DrsTable
    <3>2. CASE N <= 2
      <4>1. N \in {1, 2}
        BY <3>2 DEF Ns
      <4>2. CASE l = 1
        <5>1. DrsCells(b0, N, 20, l) = Teeth(b0, N, 0)
          <6>1. 0 \in Nat /\ l = 1 + 5 * 0
            BY <4>2
          <6> QED  BY <3>0, <3>2, <6>1, DrsTable
        <5>2. 2 * (0 % 2) = 0 /\ 2 * (0 % 2) + 1 = 1 /\ 0 \in Nat
          OBVIOUS
        <5> QED  BY <1>3, <4>1, <5>1, <5>2, TeethOf
      <4>3. CASE l # 1
        <5>1. \A j \in Nat : l # 1 + 5 * j
          BY <4>3
        <5> QED  BY <3>0, <3>2, <5>1, DrsTable
      <4> QED  BY <4>2, <4>3
    <3>3. N <= 2 \/ N > 2
      BY DEF Ns
    <3> QED  BY <3>1, <3>2, <3>3
  <2> QED  BY <1>11, <2>1, <2>2 DEF Sevenfold
<1> DEFINE F(x, l) == IF x <= Cardinality(PccFree[b0][N][l]) THEN 0
                      ELSE x - Cardinality(PccFree[b0][N][l])
<1>13. PICK left : left = PccLeft[b0][N]
  OBVIOUS
<1>14. PccLeft[b0][N] = left
  BY <1>13
<1>16. left[1] = 98 /\ \A l \in 1..4 : left[l + 1] = F(left[l], l)
  BY <1>13, LeftNext
<1>17. ASSUME NEW x, NEW l \in 1..4, \E m \in Nat : x = 7 * m PROVE \E m \in Nat : F(x, l) = 7 * m
  <2>1. PICK m \in Nat : x = 7 * m
    BY <1>17
  <2>2. PICK c \in Nat : Cardinality(PccFree[b0][N][l]) = 7 * c
    BY <1>12
  <2>3. F(x, l) = IF 7 * m <= 7 * c THEN 0 ELSE 7 * m - 7 * c
    BY <2>1, <2>2
  <2> HIDE DEF F
  <2>4. CASE m <= c
    <3>1. F(x, l) = 7 * 0
      BY <2>3, <2>4
    <3> QED  BY <3>1
  <2>5. CASE m > c
    <3>1. F(x, l) = 7 * (m - c) /\ m - c \in Nat
      BY <2>3, <2>5
    <3> QED  BY <3>1
  <2> QED  BY <2>4, <2>5
<1> HIDE DEF F
<1>18. \A l \in 1..5 : \E m \in Nat : left[l] = 7 * m
  <2>1. 98 = 7 * 14 /\ 14 \in Nat
    OBVIOUS
  <2>2. \E m \in Nat : left[1] = 7 * m
    BY <1>16, <2>1
  <2>3. \E m \in Nat : left[2] = 7 * m
    <3>1. left[2] = F(left[1], 1)
      BY <1>16
    <3> QED  BY <1>17, <2>2, <3>1
  <2>4. \E m \in Nat : left[3] = 7 * m
    <3>1. left[3] = F(left[2], 2)
      BY <1>16
    <3> QED  BY <1>17, <2>3, <3>1
  <2>5. \E m \in Nat : left[4] = 7 * m
    <3>1. left[4] = F(left[3], 3)
      BY <1>16
    <3> QED  BY <1>17, <2>4, <3>1
  <2>6. \E m \in Nat : left[5] = 7 * m
    <3>1. left[5] = F(left[4], 4)
      BY <1>16
    <3> QED  BY <1>17, <2>5, <3>1
  <2> QED  BY <2>2, <2>3, <2>4, <2>5, <2>6
<1> QED  BY <1>12, <1>14, <1>18

\* The row of the table for a symbol before fully occupied ones are replaced, and what is in it.
RawRow(N, l) == IF l <= l_limit(N) THEN l ELSE l - ((l - l_limit(N)) \div l_repeat) * l_repeat
PccIn(b0, N, r) == IF r \in 1..5 THEN PccCells[b0][N][r] ELSE {}
PdcIn(b0, N, r) == (Occupied(b0) \ DrsCells(b0, N, 30, r)) \ PccIn(b0, N, r)

\* Rows repeat every ten symbols.
LEMMA RowNumbers ==
    ASSUME NEW N \in Ns, NEW l \in Nat \ {0}
    PROVE  /\ RawRow(N, l) \in 1..20 /\ (N <= 2 => RawRow(N, l) <= 15)
           /\ RawRow(N, l) \in 1..5 <=> l \in 1..5
           /\ l \in 1..5 => RawRow(N, l) = l
           /\ \E q \in Nat : l = RawRow(N, l) + 10 * q
<1>1. PICK m \in {6, 11} : m = l_limit(N) /\ (N <= 2 => m = 6)
  BY DEF l_limit, Ns
<1>2. CASE l <= m
  <2>1. RawRow(N, l) = l /\ l = RawRow(N, l) + 10 * 0
    BY <1>1, <1>2 DEF RawRow
  <2> QED  BY <1>1, <1>2, <2>1
<1>3. CASE l > m
  <2>1. PICK q \in Nat : q = (l - m) \div 10
    BY <1>1, <1>3
  <2>2. RawRow(N, l) = l - q * 10
    BY <1>1, <1>3, <2>1 DEF RawRow, l_repeat
  <2>3. l - q * 10 \in m..m + 9
    BY <1>1, <1>3, <2>1
  <2>4. l = RawRow(N, l) + 10 * q
    BY <2>2
  <2> QED  BY <1>1, <1>3, <2>2, <2>3, <2>4
<1> QED  BY <1>1, <1>2, <1>3

\* The PCC takes cells that no pilot uses, in the table of the PDC as well.
LEMMA PccWithin ==
    ASSUME NEW b0 \in Bs, NEW N \in Ns, NEW l \in 1..5
    PROVE  /\ DrsCells(b0, N, 20, l) = DrsCells(b0, N, 30, l)
           /\ PccCells[b0][N][l] \subseteq Occupied(b0) \ DrsCells(b0, N, 30, l)
<1>1. l \in 1..20 /\ l <= 5 /\ 20 \in {20, 30} /\ 30 \in {20, 30}
  OBVIOUS
<1>2. DrsCells(b0, N, 20, l) = DrsCells(b0, N, 30, l)
  <2>1. CASE N <= 2
    <3>1. CASE \E j \in Nat : l = 1 + 5 * j
      <4>1. PICK j \in Nat : l = 1 + 5 * j
        BY <3>1
      <4>2. DrsCells(b0, N, 20, l) = Teeth(b0, N, j)
        BY <1>1, <2>1, <4>1, DrsTable
      <4>3. DrsCells(b0, N, 30, l) = Teeth(b0, N, j)
        BY <1>1, <2>1, <4>1, DrsTable
      <4> QED  BY <4>2, <4>3
    <3>2. CASE \A j \in Nat : l # 1 + 5 * j
      <4>1. DrsCells(b0, N, 20, l) = {}
        BY <1>1, <2>1, <3>2, DrsTable
      <4>2. DrsCells(b0, N, 30, l) = {}
        BY <1>1, <2>1, <3>2, DrsTable
      <4> QED  BY <4>1, <4>2
    <3> QED  BY <3>1, <3>2
  <2>2. CASE N > 2
    <3>1. CASE \E j \in Nat, h \in 0..(N \div 4) - 1 : l = (1 + 10 * j) + h
      <4>1. PICK j \in Nat, h \in 0..(N \div 4) - 1 : l = (1 + 10 * j) + h
        BY <3>1
      <4>2. DrsCells(b0, N, 20, l) = Occupied(b0)
        BY <1>1, <2>2, <4>1, DrsTable
      <4>3. DrsCells(b0, N, 30, l) = Occupied(b0)
        BY <1>1, <2>2, <4>1, DrsTable
      <4> QED  BY <4>2, <4>3
    <3>2. CASE \A j \in Nat, h \in 0..(N \div 4) - 1 : l # (1 + 10 * j) + h
      <4>1. DrsCells(b0, N, 20, l) = {}
        BY <1>1, <2>2, <3>2, DrsTable
      <4>2. DrsCells(b0, N, 30, l) = {}
        BY <1>1, <2>2, <3>2, DrsTable
      <4> QED  BY <4>1, <4>2
    <3> QED  BY <3>1, <3>2
  <2>3. N <= 2 \/ N > 2
    BY DEF Ns
  <2> QED  BY <2>1, <2>2, <2>3
<1>3. PccFree[b0][N][l] = Occupied(b0) \ DrsCells(b0, N, 20, l)
  BY DEF PccFree
<1>4. PccCells[b0][N][l] \subseteq PccFree[b0][N][l]
  BY DEF PccCells
<1> QED  BY <1>2, <1>3, <1>4

\* No symbol has a single PDC cell, which is the mark of a fully occupied one.
LEMMA NotOne ==
    ASSUME NEW b0 \in Bs, NEW N \in Ns, NEW r \in 1..20, N <= 2 => r <= 15
    PROVE  Cardinality(PdcIn(b0, N, r)) # 1
<1>1. \A S : S \subseteq Occupied(b0) => IsFiniteSet(S)
  BY FiniteCells, FS_Subset
<1>2. CASE r \in 1..5
  <2>1. PICK n \in Nat : n = N_b_OCC(b0)
    BY FiniteCells
  <2>2. PICK S : S = PccFree[b0][N][r]
    OBVIOUS
  <2>3. S = Occupied(b0) \ DrsCells(b0, N, 30, r) /\ S \subseteq 0..n
    BY <1>2, <2>1, <2>2, PccWithin DEF PccFree, Occupied
  <2>4. PICK c \in Nat, m \in Nat : Cardinality(S) = 7 * c /\ PccLeft[b0][N][r] = 7 * m
    BY <1>2, <2>2, Sevens
  <2>5. PccCells[b0][N][r] = IF 7 * c < 7 * m THEN S
             ELSE {k \in S : Interleaved(RankIn(S, k), Cardinality(S)) < 7 * m}
    BY <1>2, <2>2, <2>4 DEF PccCells, RankIn
  <2>6. PdcIn(b0, N, r) = S \ PccCells[b0][N][r]
    BY <1>2, <2>3 DEF PdcIn, PccIn
  <2>7. CASE 7 * c < 7 * m
    <3>1. PdcIn(b0, N, r) = {}
      BY <2>5, <2>6, <2>7
    <3> QED  BY <3>1, FS_EmptySet
  <2>8. CASE ~(7 * c < 7 * m)
    <3>1. PdcIn(b0, N, r) = {k \in S : ~(Interleaved(RankIn(S, k), Cardinality(S)) < 7 * m)}
      BY <2>5, <2>6, <2>8
    <3>2. m <= c
      BY <2>8
    <3>3. S \subseteq 0..n /\ Cardinality(S) = 7 * c
      BY <2>3, <2>4
    <3>4. Cardinality({k \in S : ~(Interleaved(RankIn(S, k), Cardinality(S)) < 7 * m)}) # 1
      BY <3>2, <3>3, Untaken
    <3> QED  BY <3>1, <3>4
  <2> QED  BY <2>7, <2>8
<1>3. CASE r \notin 1..5
  <2>1. PdcIn(b0, N, r) = Occupied(b0) \ DrsCells(b0, N, 30, r)
    BY <1>3 DEF PdcIn, PccIn
  <2>2. CASE \E s \in 0..3 : Comb(b0, s) \subseteq PdcIn(b0, N, r)
    <3>1. PICK s \in 0..3 : Comb(b0, s) \subseteq PdcIn(b0, N, r)
      BY <2>2
    <3>2. PICK x \in Comb(b0, s), y \in Comb(b0, s) : x # y
      BY Combs
    <3>3. IsFiniteSet(PdcIn(b0, N, r)) /\ ~\E z : PdcIn(b0, N, r) = {z}
      BY <1>1, <2>1, <3>1, <3>2
    <3> QED  BY <3>3, FS_Singleton
  <2>3. CASE PdcIn(b0, N, r) = {}
    BY <2>3, FS_EmptySet
  <2>4. DrsCells(b0, N, 30, r) = Occupied(b0) => PdcIn(b0, N, r) = {}
    BY <2>1
  <2>5. \A s \in 0..3 : Comb(b0, s) \cap DrsCells(b0, N, 30, r) = {} => Comb(b0, s) \subseteq PdcIn(b0, N, r)
    BY <2>1, Combs
  <2>6. 0 \in 0..3 /\ 3 \in 0..3 /\ 30 \in {20, 30} /\ 30 # 20
    OBVIOUS
  <2>7. CASE N > 2
    <3>1. DrsCells(b0, N, 30, r) \in {{}, Occupied(b0)}
      BY <2>6, <2>7, DrsTable
    <3> QED  BY <2>2, <2>3, <2>4, <2>5, <2>6, <3>1
  <2>8. CASE N <= 2
    <3>1. CASE \A j \in Nat : r # 1 + 5 * j
      <4>1. DrsCells(b0, N, 30, r) = {}
        BY <2>6, <2>8, <3>1, DrsTable
      <4> QED  BY <2>2, <2>5, <2>6, <4>1
    <3>2. CASE \E j \in Nat : r = 1 + 5 * j
      <4>1. PICK j \in Nat : r = 1 + 5 * j
        BY <3>2
      <4>2. DrsCells(b0, N, 30, r) = Teeth(b0, N, j)
        BY <2>6, <2>8, <4>1, DrsTable
      <4>3. PICK e \in {0, 1} : e = j % 2
        OBVIOUS
      <4>4. Teeth(b0, N, j) \subseteq Comb(b0, 2 * e) \cup Comb(b0, 2 * e + 1)
        <5>1. N \in {1, 2}
          BY <2>8 DEF Ns
        <5> QED  BY <4>3, <5>1, TeethOf
      <4>5. PICK s \in 0..3 : s # 2 * e /\ s # 2 * e + 1
        <5>1. e = 0 => 3 # 2 * e /\ 3 # 2 * e + 1
          OBVIOUS
        <5>2. e = 1 => 0 # 2 * e /\ 0 # 2 * e + 1
          OBVIOUS
        <5> QED  BY <2>6, <5>1, <5>2
      <4>6. Comb(b0, s) \cap Comb(b0, 2 * e) = {} /\ Comb(b0, s) \cap Comb(b0, 2 * e + 1) = {}
        <5>1. 2 * e \in 0..3 /\ 2 * e + 1 \in 0..3
          OBVIOUS
        <5> QED  BY <4>5, <5>1, Combs
      <4> QED  BY <2>2, <2>5, <4>2, <4>4, <4>6
    <3> QED  BY <3>1, <3>2
  <2>9. N <= 2 \/ N > 2
    BY DEF Ns
  <2> QED  BY <2>7, <2>8, <2>9
<1> QED  BY <1>2, <1>3

\* The row of the table that a symbol uses contains its PDC cells, also if it is replaced.
LEMMA PdcRow ==
    ASSUME NEW b0 \in Bs, NEW N \in Ns, NEW l \in Nat \ {0}
    PROVE  PdcCells[b0][N][l_equivalent(b0, N, l)] = PdcIn(b0, N, RawRow(N, l))
<1>1. PICK r \in 1..20 : r = RawRow(N, l) /\ (N <= 2 => r <= 15)
  BY RowNumbers
<1>2. l_equivalent(b0, N, l) = IF Cardinality(PdcCells[b0][N][r]) = 1 THEN 10 ELSE r
  BY <1>1 DEF l_equivalent, RawRow, FULLY_OCCUPIED
<1>3. \A s \in 1..20 : PdcCells[b0][N][s]
             = IF s # 10 /\ Cardinality(PdcIn(b0, N, s)) = N_b_OCC(b0) THEN {Least(PdcIn(b0, N, s))}
               ELSE PdcIn(b0, N, s)
  BY DEF PdcCells, PdcIn, PccIn, FULLY_OCCUPIED
<1>4. CASE r # 10 /\ Cardinality(PdcIn(b0, N, r)) = N_b_OCC(b0)
  <2>1. PdcIn(b0, N, r) = Occupied(b0)
    <3>1. PdcIn(b0, N, r) \in SUBSET Occupied(b0)
      BY DEF PdcIn
    <3>2. Cardinality(Occupied(b0)) = N_b_OCC(b0) /\ IsFiniteSet(Occupied(b0))
      <4>1. PICK n \in Nat \ {0} : n = N_b_OCC(b0) /\ n \div 2 \in 0..n
        BY FiniteCells
      <4>2. IsFiniteSet(0..n) /\ Cardinality(0..n) = n + 1
        BY <4>1, FS_Interval
      <4>3. Occupied(b0) = (0..n) \ {n \div 2}
        BY <4>1 DEF Occupied
      <4>4. Cardinality((0..n) \ {n \div 2}) = Cardinality(0..n) - 1 /\ IsFiniteSet((0..n) \ {n \div 2})
        BY <4>1, <4>2, FS_RemoveElement
      <4> QED  BY <4>1, <4>2, <4>3, <4>4
    <3> QED  BY <1>4, <3>1, <3>2, FS_Subset
  <2>2. PdcCells[b0][N][r] = {Least(PdcIn(b0, N, r))}
    BY <1>3, <1>4
  <2>3. l_equivalent(b0, N, l) = 10
    BY <1>2, <2>2, FS_Singleton
  <2>4. PdcIn(b0, N, 10) = Occupied(b0)
    <3>1. DrsCells(b0, N, 30, 10) = {}
      <4>0. 10 \in 1..20 /\ 30 \in {20, 30} /\ 30 # 20
        OBVIOUS
      <4>1. \A j \in Nat : 10 # 1 + 5 * j
        OBVIOUS
      <4>2. N > 2 => \A j \in Nat, h \in 0..(N \div 4) - 1 : 10 # (1 + 10 * j) + h
        BY DEF Ns
      <4>3. N <= 2 \/ N > 2
        BY DEF Ns
      <4> QED  BY <4>0, <4>1, <4>2, <4>3, DrsTable
    <3> QED  BY <3>1 DEF PdcIn, PccIn
  <2> QED  BY <1>1, <1>3, <2>1, <2>3, <2>4
<1>5. CASE ~(r # 10 /\ Cardinality(PdcIn(b0, N, r)) = N_b_OCC(b0))
  <2>1. PdcCells[b0][N][r] = PdcIn(b0, N, r)
    BY <1>3, <1>5
  <2>2. Cardinality(PdcIn(b0, N, r)) # 1
    BY <1>1, NotOne
  <2> QED  BY <1>1, <1>2, <2>1, <2>2
<1> QED  BY <1>4, <1>5

\* The pilots that are due in a symbol are those of its row in the table; between the symbols that
\* drs_t stops at there are none.
LEMMA PilotCells ==
    ASSUME GridConfig, GridIndices, NEW k \in Nat, NEW h \in {0, 1}, DrsDue(k, h), Between(k, h)
    PROVE  LET l == ofdm_symb_idx
               r == RawRow(N_eff_TX, l)
           IN  IF IsDrs(l)
               THEN /\ DrsCells(b, N_eff_TX, 30, r)
                          = UNION {k_i(b, ts, drs.n) : ts \in drs.TS_first..get_ts_idx_last}
                    /\ drs.n \in {0, 1} /\ drs.TS_first \in Nat /\ get_ts_idx_last \in Nat
               ELSE DrsCells(b, N_eff_TX, 30, r) = {}
<1>1. PICK N \in Ns : N = N_eff_TX
  BY Configured
<1>2. PICK b0 \in Bs : b0 = b
  BY Configured
<1>3. PICK l \in Nat \ {0} : l = ofdm_symb_idx
  BY DEF GridIndices
<1>4. PICK r \in 1..20 : r = RawRow(N, l) /\ (N <= 2 => r <= 15)
  BY RowNumbers
<1>5. PICK q \in Nat : l = r + 10 * q
  BY <1>4, RowNumbers
<1>6. N \in {1, 2, 4, 8} /\ step = (IF N <= 2 THEN 5 ELSE 10) /\ SecondSymbol = (IF N = 8 THEN 1 ELSE 0)
  BY <1>1 DEF Ns, step, N_step, SecondSymbol
<1>7. /\ drs = [l_next |-> (1 + k * step) + h, n |-> k % 2, TS_first |-> 4 * h] /\ (h = 1 => N = 8)
      /\ IsDrs(l) <=> l = (1 + k * step) + h
  BY <1>1 DEF DrsDue, IsDrs
<1>8. LastDrs(k, h) < l /\ l <= (1 + k * step) + h
  BY <1>3 DEF Between
<1>9. LastDrs(k, h) = IF h = 1 THEN 1 + k * step ELSE ((1 + k * step) - step) + SecondSymbol
  BY DEF LastDrs
<1>10. get_ts_idx_last = IF h = 0 THEN (IF N < 4 THEN N - 1 ELSE 3) ELSE 7
  BY <1>1, <1>7 DEF get_ts_idx_last
<1>11. drs.n = k % 2 /\ drs.n \in {0, 1} /\ drs.TS_first = 4 * h /\ get_ts_idx_last \in Nat
  BY <1>6, <1>7, <1>10
<1> DEFINE pilots == UNION {k_i(b, ts, drs.n) : ts \in drs.TS_first..get_ts_idx_last}
<1>12. \A x : x \in pilots <=> \E ts \in 4 * h..get_ts_idx_last : x \in Comb(b0, (ts + 2 * (k % 2)) % 4)
  <2>1. \A ts : k_i(b, ts, drs.n) = Comb(b0, (ts + 2 * (k % 2)) % 4)
    <3>1. drs.n % 2 = k % 2
      BY <1>11
    <3> QED  BY <1>2, <3>1, Combs
  <2> QED  BY <1>11, <2>1
<1> HIDE DEF pilots
<1>13. 30 \in {20, 30} /\ 30 # 20
  OBVIOUS
<1>14. CASE N <= 2
  <2>1. step = 5 /\ h = 0 /\ SecondSymbol = 0 /\ get_ts_idx_last = N - 1 /\ ~(N > 2)
    BY <1>6, <1>7, <1>10, <1>14
  <2>2. (1 + k * 5) - 5 < l /\ l <= 1 + k * 5 /\ (IsDrs(l) <=> l = 1 + k * 5)
    BY <1>7, <1>8, <1>9, <2>1
  <2>3. CASE IsDrs(l)
    <3>1. PICK j \in Nat : j = k - 2 * q
      BY <1>5, <2>2, <2>3
    <3>2. r = 1 + 5 * j /\ j % 2 = k % 2
      BY <1>5, <2>2, <2>3, <3>1
    <3>3. DrsCells(b0, N, 30, r) = Teeth(b0, N, j)
      BY <1>4, <1>13, <1>14, <3>2, DrsTable
    <3>4. \A x : x \in Teeth(b0, N, j) <=> \E ts \in 0..N - 1 : x \in Comb(b0, (ts + 2 * (k % 2)) % 4)
      BY <3>2 DEF Teeth
    <3>5. \A x : x \in Teeth(b0, N, j) <=> x \in pilots
      BY <1>12, <2>1, <3>4
    <3>6. Teeth(b0, N, j) = pilots
      BY <3>5
    <3> QED  BY <1>1, <1>2, <1>3, <1>4, <1>11, <2>3, <3>3, <3>6 DEF pilots
  <2>4. CASE ~IsDrs(l)
    <3>1. ASSUME NEW j \in Nat, r = 1 + 5 * j PROVE FALSE
      <4>1. l = 1 + 5 * (j + 2 * q)
        BY <1>5, <3>1
      <4>2. PICK i \in Nat : i = j + 2 * q
        OBVIOUS
      <4>3. l = 1 + 5 * i
        BY <4>1, <4>2
      <4> QED  BY <2>2, <2>4, <4>3
    <3>2. DrsCells(b0, N, 30, r) = {}
      BY <1>4, <1>13, <1>14, <3>1, DrsTable
    <3> QED  BY <1>1, <1>2, <1>3, <1>4, <2>4, <3>2
  <2> QED  BY <2>3, <2>4
<1>15. CASE N > 2
  <2>1. step = 10 /\ N \in {4, 8} /\ get_ts_idx_last = 4 * h + 3 /\ h \in 0..(N \div 4) - 1
    BY <1>6, <1>7, <1>10, <1>15
  <2>2. /\ LastDrs(k, h) < l /\ l <= (1 + k * 10) + h /\ (IsDrs(l) <=> l = (1 + k * 10) + h)
        /\ LastDrs(k, h) = IF h = 1 THEN 1 + k * 10 ELSE IF N = 8 THEN (1 + k * 10) - 9 ELSE (1 + k * 10) - 10
    BY <1>6, <1>7, <1>8, <1>9, <2>1
  <2>3. CASE IsDrs(l)
    <3>1. PICK j \in Nat : j = k - q
      BY <1>5, <2>2, <2>3
    <3>2. r = (1 + 10 * j) + h
      BY <1>5, <2>2, <2>3, <3>1
    <3>3. DrsCells(b0, N, 30, r) = Occupied(b0)
      BY <1>4, <1>13, <1>15, <2>1, <3>2, DrsTable
    <3>4. \A t \in 0..4 - 1 : /\ 4 * h + t \in 4 * h..get_ts_idx_last
                             /\ ((4 * h + t) + 2 * (k % 2)) % 4 = (t + 2 * (k % 2)) % 4
      <4> TAKE t \in 0..4 - 1
      <4>1. PICK e \in {0, 1} : e = k % 2
        OBVIOUS
      <4>2. ((4 * h + t) + 2 * e) % 4 = (t + 2 * e) % 4
        OBVIOUS
      <4> QED  BY <2>1, <4>1, <4>2
    <3>5. \A ts \in 4 * h..get_ts_idx_last : ts - 4 * h \in 0..4 - 1 /\ 4 * h + (ts - 4 * h) = ts
      BY <2>1
    <3>6. \A x : x \in Teeth(b0, 4, k) <=> \E t \in 0..4 - 1 : x \in Comb(b0, (t + 2 * (k % 2)) % 4)
      BY DEF Teeth
    <3>7. \A x : x \in Teeth(b0, 4, k) => x \in pilots
      BY <1>12, <3>4, <3>6
    <3>8. \A x : x \in pilots => x \in Teeth(b0, 4, k)
      <4> SUFFICES ASSUME NEW x, x \in pilots PROVE x \in Teeth(b0, 4, k)
        OBVIOUS
      <4>1. PICK ts \in 4 * h..get_ts_idx_last : x \in Comb(b0, (ts + 2 * (k % 2)) % 4)
        BY <1>12
      <4>2. PICK t \in 0..4 - 1 : ts = 4 * h + t
        BY <3>5
      <4> QED  BY <3>4, <3>6, <4>1, <4>2
    <3>9. Teeth(b0, 4, k) = Occupied(b0)
      BY TeethOf
    <3>10. pilots = Occupied(b0)
      BY <3>7, <3>8, <3>9
    <3> QED  BY <1>1, <1>2, <1>3, <1>4, <1>11, <2>3, <3>3, <3>10 DEF pilots
  <2>4. CASE ~IsDrs(l)
    <3>1. ASSUME NEW j \in Nat, NEW g \in 0..(N \div 4) - 1, r = (1 + 10 * j) + g PROVE FALSE
      <4>1. PICK i \in Nat : i = j + q
        OBVIOUS
      <4>2. l = (1 + 10 * i) + g
        BY <1>5, <3>1, <4>1
      <4>3. g \in {0, 1} /\ (g = 1 => N = 8)
        BY <2>1
      <4> QED  BY <2>1, <2>2, <2>4, <4>2, <4>3
    <3>2. DrsCells(b0, N, 30, r) = {}
      BY <1>4, <1>13, <1>15, <3>1, DrsTable
    <3> QED  BY <1>1, <1>2, <1>3, <1>4, <2>4, <3>2
  <2> QED  BY <2>3, <2>4
<1>16. N <= 2 \/ N > 2
  BY <1>6
<1> QED  BY <1>14, <1>15, <1>16

\* What has been written for a symbol are pieces that do not meet and leave nothing free.
Covered(a) ==
    LET pieces == (IF a.drs = <<>> THEN {} ELSE {k_i(b, ts, a.drs[3]) : ts \in a.drs[1]..a.drs[2]})
                  \cup (IF a.pcc = <<>> THEN {} ELSE {PccCells[b][N_eff_TX][a.pcc[1]]})
                  \cup (IF a.pdc = <<>> THEN {} ELSE {PdcCells[b][N_eff_TX][a.pdc[1]]})
    IN  /\ \A x, y \in pieces : x = y \/ x \cap y = {}
        /\ UNION pieces = Occupied(b)

\* pcc_t has found the symbols before this one.
PccFound == pcc_cnt = RankIn(PccSymbols[b][N_eff_TX], ofdm_symb_idx)

SentState ==
    part = "tx" => /\ \E S : air \in Seq(S)
                   /\ ofdm_symb_idx = Len(air) + 1 /\ PccFound
                   /\ \E k \in Nat, h \in {0, 1} : DrsDue(k, h) /\ Between(k, h)
                   /\ air # <<>> => Covered(air[Len(air)])
CellInv == BlockInv /\ SentState

\* pcc_t stops at the symbols that contain PCC cells.
LEMMA PccOf ==
    ASSUME GridConfig, GridIndices, PccFound
    PROVE  /\ IsPcc(ofdm_symb_idx) <=> ofdm_symb_idx \in PccSymbols[b][N_eff_TX]
           /\ RankIn(PccSymbols[b][N_eff_TX], ofdm_symb_idx + 1)
                  = IF IsPcc(ofdm_symb_idx) THEN pcc_cnt + 1 ELSE pcc_cnt
           /\ ofdm_symb_idx \in PccSymbols[b][N_eff_TX]
                  <=> PccIn(b, N_eff_TX, ofdm_symb_idx) # {}
<1>1. PICK P : P = PccSymbols[b][N_eff_TX]
  OBVIOUS
<1>2. b \in Bs /\ N_eff_TX \in Ns
  BY Configured
<1>3. P = {m \in 1..5 : PccCells[b][N_eff_TX][m] # {}} /\ P \subseteq 0..5
  BY <1>1, <1>2 DEF PccSymbols
<1>4. /\ \A x \in Nat : RankIn(P, x) \in Nat
      /\ \A x \in Nat : RankIn(P, x + 1) = IF x \in P THEN RankIn(P, x) + 1 ELSE RankIn(P, x)
      /\ \A x \in P : RankIn(P, x) < Cardinality(P)
      /\ \A x, y \in P : RankIn(P, x) = RankIn(P, y) => x = y
      /\ \A j \in Nat : j < Cardinality(P) => \E x \in P : RankIn(P, x) = j
  <2>1. PICK n \in Nat : n = 5
    OBVIOUS
  <2>2. P \subseteq 0..n
    BY <1>3, <2>1
  <2> QED  BY <2>2, Ranks, Zenon
<1>5. PICK l \in Nat \ {0} : l = ofdm_symb_idx
  BY DEF GridIndices
<1>6. pcc_cnt = RankIn(P, l) /\ pcc_cnt \in Nat
  BY <1>4, <1>1, <1>5 DEF PccFound
<1>7. IsPcc(l) <=> pcc_cnt < Cardinality(P) /\ l = CHOOSE x \in P : RankIn(P, x) = pcc_cnt
  BY <1>1 DEF IsPcc, PccSymbol, RankIn
<1>8. ASSUME l \in P PROVE IsPcc(l)
  <2>1. l = CHOOSE x \in P : RankIn(P, x) = pcc_cnt
    BY <1>4, <1>6, <1>8
  <2> QED  BY <1>4, <1>6, <1>7, <1>8, <2>1
<1>9. ASSUME IsPcc(l) PROVE l \in P
  <2>1. pcc_cnt < Cardinality(P)
    BY <1>7, <1>9
  <2>2. \E x \in P : RankIn(P, x) = pcc_cnt
    BY <1>4, <1>6, <2>1
  <2> QED  BY <1>7, <1>9, <2>2
<1>10. RankIn(P, l + 1) = IF IsPcc(l) THEN pcc_cnt + 1 ELSE pcc_cnt
  BY <1>4, <1>6, <1>8, <1>9
<1>11. l \in P <=> PccIn(b, N_eff_TX, l) # {}
  BY <1>3 DEF PccIn
<1> QED  BY <1>1, <1>5, <1>8, <1>9, <1>10, <1>11

\* tx_t fills a symbol.
LEMMA SymbolCovered ==
    ASSUME GridConfig, GridIndices, PccFound,
           NEW k \in Nat, NEW h \in {0, 1}, DrsDue(k, h), Between(k, h),
           NEW a, NEW l, l = ofdm_symb_idx, NEW i, NEW j,
           a.drs = (IF IsDrs(l) THEN <<drs.TS_first, get_ts_idx_last, drs.n>> ELSE <<>>),
           a.pcc = (IF IsPcc(l) THEN <<l, i>> ELSE <<>>),
           a.pdc = (IF IsPdc(l) THEN <<Row(l), j>> ELSE <<>>)
    PROVE  Covered(a)
<1>1. b \in Bs /\ N_eff_TX \in Ns /\ l \in Nat \ {0}
  BY Configured DEF GridIndices
<1>2. PICK r : r = RawRow(N_eff_TX, l)
  OBVIOUS
<1>3. r \in 1..20 /\ (r \in 1..5 <=> l \in 1..5) /\ (l \in 1..5 => r = l)
  BY <1>1, <1>2, RowNumbers
<1>4. PICK D, P, C : /\ D = DrsCells(b, N_eff_TX, 30, r) /\ P = PccIn(b, N_eff_TX, r)
                     /\ C = PdcIn(b, N_eff_TX, r)
  OBVIOUS
<1>5. C = (Occupied(b) \ D) \ P
  BY <1>4 DEF PdcIn
<1>6. P \subseteq Occupied(b) \ D
  <2>1. CASE r \in 1..5
    BY <1>1, <1>4, <2>1, PccWithin DEF PccIn
  <2>2. CASE r \notin 1..5
    BY <1>4, <2>2 DEF PccIn
  <2> QED  BY <2>1, <2>2
<1> DEFINE pd == IF a.drs = <<>> THEN {} ELSE {k_i(b, ts, a.drs[3]) : ts \in a.drs[1]..a.drs[2]}
           pp == IF a.pcc = <<>> THEN {} ELSE {PccCells[b][N_eff_TX][a.pcc[1]]}
           pc == IF a.pdc = <<>> THEN {} ELSE {PdcCells[b][N_eff_TX][a.pdc[1]]}
<1>7. UNION pd = D /\ (\A x, y \in pd : x = y \/ x \cap y = {}) /\ D \subseteq Occupied(b)
  <2>1. CASE IsDrs(l)
    <3>1. PICK f, g, n : f = drs.TS_first /\ g = get_ts_idx_last /\ n = drs.n
      OBVIOUS
    <3>2. D = UNION {k_i(b, ts, n) : ts \in f..g} /\ n \in {0, 1} /\ f \in Nat /\ g \in Nat
      BY <1>2, <1>4, <2>1, <3>1, PilotCells
    <3>3. a.drs = <<f, g, n>>
      BY <2>1, <3>1
    <3>4. pd = {k_i(b, ts, n) : ts \in f..g}
      BY <3>3
    <3>5. \A ts \in f..g : \E s \in 0..3 : k_i(b, ts, n) = Comb(b, s)
      <4> TAKE ts \in f..g
      <4>1. (ts + 2 * (n % 2)) % 4 \in 0..3
        BY <3>2
      <4>2. k_i(b, ts, n) = Comb(b, (ts + 2 * (n % 2)) % 4)
        BY <1>1, Combs
      <4> QED  BY <4>1, <4>2
    <3> HIDE DEF pd
    <3>6. \A x \in pd : \E s \in 0..3 : x = Comb(b, s)
      BY <3>4, <3>5
    <3>7. \A x, y \in pd : x = y \/ x \cap y = {}
      BY <1>1, <3>6, Combs
    <3>8. \A x \in pd : x \subseteq Occupied(b)
      BY <1>1, <3>6, Combs
    <3> QED  BY <3>2, <3>4, <3>7, <3>8
  <2>2. CASE ~IsDrs(l)
    <3>1. D = {} /\ a.drs = <<>>
      BY <1>2, <1>4, <2>2, PilotCells
    <3> QED  BY <3>1
  <2> QED  BY <2>1, <2>2
<1>8. UNION pp = P /\ \A x \in pp : x = P
  <2>1. IsPcc(l) <=> PccIn(b, N_eff_TX, l) # {}
    BY PccOf
  <2>2. PccIn(b, N_eff_TX, l) = P
    BY <1>3, <1>4 DEF PccIn
  <2>3. CASE IsPcc(l)
    <3>1. a.pcc = <<l, i>> /\ l \in 1..5
      BY <2>1, <2>3 DEF PccIn
    <3>2. pp = {PccCells[b][N_eff_TX][l]}
      BY <3>1
    <3> QED  BY <2>2, <3>1, <3>2 DEF PccIn
  <2>4. CASE ~IsPcc(l)
    BY <2>1, <2>2, <2>4
  <2> QED  BY <2>3, <2>4
<1>9. UNION pc = C /\ \A x \in pc : x = C
  <2>1. PdcCells[b][N_eff_TX][Row(l)] = C
    BY <1>1, <1>2, <1>4, PdcRow DEF Row
  <2>2. IsPdc(l) <=> C # {}
    BY <2>1 DEF IsPdc
  <2>3. CASE IsPdc(l)
    <3>1. a.pdc = <<Row(l), j>>
      BY <2>3
    <3>2. pc = {PdcCells[b][N_eff_TX][Row(l)]}
      BY <3>1, SMTT(60)
    <3> QED  BY <2>1, <3>2
  <2>4. CASE ~IsPdc(l)
    BY <2>2, <2>4
  <2> QED  BY <2>3, <2>4
<1> HIDE DEF pd, pp, pc
<1>10. UNION (pd \cup pp \cup pc) = Occupied(b)
  BY <1>5, <1>6, <1>7, <1>8, <1>9
<1>11. \A x, y \in pd \cup pp \cup pc : x = y \/ x \cap y = {}
  <2>1. \A x \in pd : x \cap P = {} /\ x \cap C = {}
    BY <1>5, <1>6, <1>7
  <2>2. P \cap C = {}
    BY <1>5
  <2> QED  BY <1>7, <1>8, <1>9, <2>1, <2>2
<1> QED  BY <1>10, <1>11 DEF Covered, pd, pp, pc

\* Nothing is sent to begin with.
LEMMA SentInit == ASSUME GridInit PROVE CellInv
<1>1. BlockInv /\ GridConfig /\ GridIndices
  BY BlockInit DEF BlockInv
<1>2. ofdm_symb_idx = Len(air) + 1 /\ air \in Seq({}) /\ air = <<>>
  BY DEF GridInit
<1>3. PccFound
  <2>1. PICK P : P = PccSymbols[b][N_eff_TX]
    OBVIOUS
  <2>2. b \in Bs /\ N_eff_TX \in Ns
    BY <1>1, Configured
  <2>3. \A m \in P : m \in 1..5
    BY <2>1, <2>2 DEF PccSymbols
  <2>4. {m \in P : m < 1} = {}
    BY <2>3
  <2>5. RankIn(P, 1) = 0
    BY <2>4, FS_EmptySet DEF RankIn
  <2> QED  BY <2>1, <2>5 DEF PccFound, GridInit
<1>4. DrsDue(0, 0) /\ Between(0, 0)
  <2>1. step \in {5, 10} /\ SecondSymbol \in {0, 1}
    BY <1>1, Shapes
  <2>2. 0 * step = 0 /\ 0 % 2 = 0
    BY <2>1
  <2>3. DrsDue(0, 0)
    BY <2>2 DEF DrsDue, GridInit
  <2>4. LastDrs(0, 0) = (1 - step) + SecondSymbol
    BY <2>2 DEF LastDrs
  <2> QED  BY <2>1, <2>2, <2>3, <2>4 DEF Between, GridInit
<1> QED  BY <1>1, <1>2, <1>3, <1>4 DEF CellInv, SentState

\* tx_t is the only one who writes.
LEMMA SentNext == ASSUME CellInv, [GridNext]_grid PROVE CellInv'
<1>1. BlockInv' /\ BlockInv /\ GridConfig /\ GridIndices
  BY BlockNext DEF CellInv, BlockInv
<1>2. CASE Transmit
  <2>1. part = "tx" /\ UNCHANGED psdef /\ ofdm_symb_idx' = ofdm_symb_idx + 1
    BY <1>2 DEF Transmit, config
  <2>2. PICK S : air \in Seq(S)
    BY <2>1 DEF CellInv, SentState
  <2>3. ofdm_symb_idx = Len(air) + 1 /\ PccFound
    BY <2>1 DEF CellInv, SentState
  <2>4. PICK k \in Nat, h \in {0, 1} : DrsDue(k, h) /\ Between(k, h)
    BY <2>1 DEF CellInv, SentState
  <2>5. N_eff_TX' = N_eff_TX /\ b' = b
    BY <2>1, SamePacket DEF b
  <2>6. PICK l : l = ofdm_symb_idx
    OBVIOUS
  <2>7. PICK a : /\ air' = Append(air, a)
                 /\ a.drs = (IF IsDrs(l) THEN <<drs.TS_first, get_ts_idx_last, drs.n>> ELSE <<>>)
                 /\ a.pcc = (IF IsPcc(l) THEN <<l, cnt.PCC_idx>> ELSE <<>>)
                 /\ a.pdc = (IF IsPdc(l) THEN <<Row(l), (cnt.PDC_bits_idx \div N_bps(psdef)) - cnt.residual>>
                             ELSE <<>>)
    <3>1. PICK x, y, z :
             /\ x = (IF IsDrs(l) THEN <<drs.TS_first, get_ts_idx_last, drs.n>> ELSE <<>>)
             /\ y = (IF IsPcc(l) THEN <<l, cnt.PCC_idx>> ELSE <<>>)
             /\ z = (IF IsPdc(l) THEN <<Row(l), (cnt.PDC_bits_idx \div N_bps(psdef)) - cnt.residual>>
                     ELSE <<>>)
      OBVIOUS
    <3>2. air' = Append(air, [drs |-> x, pcc |-> y, pdc |-> z])
      BY <1>2, <2>6, <3>1 DEF Transmit
    <3>3. PICK a : a = [drs |-> x, pcc |-> y, pdc |-> z]
      OBVIOUS
    <3>4. a.drs = x /\ a.pcc = y /\ a.pdc = z
      BY <3>3
    <3> QED  BY <3>1, <3>2, <3>3, <3>4
  <2>8. Covered(a)
    BY <1>1, <2>3, <2>4, <2>6, <2>7, SymbolCovered
  <2>9. /\ air' \in Seq(S \cup {a}) /\ Len(air') = Len(air) + 1 /\ air'[Len(air')] = a
    BY <2>2, <2>7
  <2>10. PccFound'
    <3>1. pcc_cnt' = IF IsPcc(ofdm_symb_idx) THEN pcc_cnt + 1 ELSE pcc_cnt
      BY <1>2 DEF Transmit
    <3>2. pcc_cnt' = RankIn(PccSymbols[b][N_eff_TX], ofdm_symb_idx + 1)
      BY <1>1, <2>3, <3>1, PccOf
    <3> QED  BY <2>1, <2>5, <3>2 DEF PccFound
  <2>11. \E k2 \in Nat, h2 \in {0, 1} : DrsDue(k2, h2)' /\ Between(k2, h2)'
    <3>1. CASE IsDrs(ofdm_symb_idx)
      <4>1. drs' = Advanced
        BY <1>2, <3>1 DEF Transmit
      <4>2. PICK k2 \in Nat, h2 \in {0, 1} : DrsFollows(k, h, k2, h2)
        <5>1. CASE N_eff_TX = 8 /\ h = 0
          BY <5>1 DEF DrsFollows
        <5>2. CASE ~(N_eff_TX = 8 /\ h = 0)
          <6>1. k + 1 \in Nat /\ 0 \in {0, 1} /\ DrsFollows(k, h, k + 1, 0)
            BY <5>2 DEF DrsFollows
          <6> QED  BY <6>1
        <5> QED  BY <5>1, <5>2
      <4> QED  BY <1>1, <2>1, <2>4, <3>1, <4>1, <4>2, NextDue
    <3>2. CASE ~IsDrs(ofdm_symb_idx)
      <4>1. drs' = drs
        BY <1>2, <3>2 DEF Transmit
      <4> QED  BY <1>1, <2>1, <2>4, <3>2, <4>1, StillDue
    <3> QED  BY <3>1, <3>2
  <2>12. Covered(a)'
    BY <2>5, <2>8 DEF Covered
  <2>13. ofdm_symb_idx' = Len(air') + 1
    BY <2>1, <2>2, <2>3, <2>9
  <2> QED  BY <1>1, <2>9, <2>10, <2>11, <2>12, <2>13 DEF CellInv, SentState
<1>3. CASE UNCHANGED grid
  <2>1. UNCHANGED <<psdef, part, air, ofdm_symb_idx, pcc_cnt, drs>>
    BY <1>3 DEF grid, sender, config
  <2>2. N_eff_TX' = N_eff_TX /\ b' = b /\ step' = step /\ SecondSymbol' = SecondSymbol
    BY <2>1, SamePacket DEF b
  <2>3. CASE part = "tx"
    <3>1. PICK S : air \in Seq(S)
      BY <2>3 DEF CellInv, SentState
    <3>2. PICK k \in Nat, h \in {0, 1} : DrsDue(k, h) /\ Between(k, h)
      BY <2>3 DEF CellInv, SentState
    <3>3. PICK a : a = air[Len(air)]
      OBVIOUS
    <3>4. ofdm_symb_idx = Len(air) + 1 /\ PccFound /\ (air # <<>> => Covered(a))
      BY <2>3, <3>3 DEF CellInv, SentState
    <3>5. PccFound'
      BY <2>1, <2>2, <3>4 DEF PccFound
    <3>6. DrsDue(k, h)' /\ Between(k, h)'
      BY <2>1, <2>2, <3>2 DEF DrsDue, Between, LastDrs
    <3>7. air # <<>> => Covered(a)'
      BY <2>2, <3>4 DEF Covered
    <3>8. air' \in Seq(S) /\ ofdm_symb_idx' = Len(air') + 1 /\ air'[Len(air')] = a
      BY <2>1, <3>1, <3>3, <3>4
    <3> QED  BY <1>1, <2>1, <3>5, <3>6, <3>7, <3>8 DEF CellInv, SentState
  <2>4. CASE part # "tx"
    <3>1. part' # "tx"
      BY <2>1, <2>4
    <3> QED  BY <1>1, <3>1 DEF CellInv, SentState
  <2> QED  BY <2>3, <2>4
<1>4. CASE GridNext /\ ~Transmit
  <2>1. part' # "tx"
    <3>1. part # "tx" \/ Transmitted
      BY <1>4 DEF GridNext, PccSymbolRead, PdcBegins, Collect, Collected, ReadStage, StageDone,
                  Again, ReadLeft, Received
    <3> QED  BY <1>4, <3>1 DEF GridNext, Transmitted, PccSymbolRead, PdcBegins, Collect, Collected,
                               ReadStage, StageDone, Again, ReadLeft, Received, Goes
  <2> QED  BY <1>1, <2>1 DEF CellInv, SentState
<1> QED  BY <1>2, <1>3, <1>4

\* tx_t fills every occupied subcarrier of every symbol exactly once, with pilots, PCC or PDC, for
\* every packet that has sizes.
THEOREM CellsFilled == GridInit /\ [][GridNext]_grid => []EveryCellOnce
<1>1. GridInit => CellInv
  BY SentInit
<1>2. CellInv /\ [GridNext]_grid => CellInv'
  BY SentNext
<1>3. CellInv => EveryCellOnce
  <2> SUFFICES ASSUME CellInv, part = "tx", air # <<>> PROVE Covered(air[Len(air)])
    BY Zenon DEF EveryCellOnce, Covered
  <2> QED  BY Zenon DEF CellInv, SentState
<1> QED  BY <1>1, <1>2, <1>3, PTL

-----------------------------------------------------------------------------
(* What the receiver reads, cell by cell. *)

\* A property that every natural number passes on to the next one.
LEMMA Inductive ==
    ASSUME NEW S, 0 \in S, \A n \in Nat : n \in S => n + 1 \in S
    PROVE  \A n \in Nat : n \in S
<1> DEFINE T == {n \in Nat : n \notin S}
<1> SUFFICES ASSUME T # {} PROVE FALSE
  OBVIOUS
<1>1. PICK n \in T : \A m \in T : n <= m
  <2>1. T \subseteq Nat
    OBVIOUS
  <2> HIDE DEF T
  <2> QED  BY <2>1, LeastNatural
<1>2. n \in Nat /\ n # 0
  OBVIOUS
<1>3. n - 1 \in Nat /\ n - 1 \notin T /\ (n - 1) + 1 = n
  BY <1>1, <1>2
<1> QED  BY <1>1, <1>3

Quarter(b0) == N_b_OCC(b0) \div 4

\* A comb has a quarter of the cells.
LEMMA CombSize ==
    ASSUME NEW b0 \in Bs
    PROVE  /\ Quarter(b0) \in {14, 28, 56, 112, 168, 224} /\ N_b_OCC(b0) = 4 * Quarter(b0)
           /\ \A r \in 0..3 : /\ IsFiniteSet(Comb(b0, r))
                              /\ Cardinality(Comb(b0, r)) = Quarter(b0)
           /\ IsFiniteSet(Occupied(b0)) /\ Cardinality(Occupied(b0)) = 4 * Quarter(b0)
<1>1. PICK q \in {14, 28, 56, 112, 168, 224} : N_b_OCC(b0) = 4 * q
  BY FiniteCells
<1>2. N_b_OCC(b0) \div 2 = 2 * q /\ N_b_OCC(b0) \div 4 - 1 = q - 1 /\ Quarter(b0) = q
  BY <1>1 DEF Quarter
<1> DEFINE cell(p) == IF p < 2 * q THEN p ELSE p + 1
<1>3. ASSUME NEW r \in 0..3
      PROVE  IsFiniteSet(Comb(b0, r)) /\ Cardinality(Comb(b0, r)) = q
  <2> DEFINE places == {4 * i + r : i \in 0..q - 1}
             f == [i \in 0..q - 1 |-> cell(4 * i + r)]
  <2>1. Comb(b0, r) = {cell(p) : p \in places}
    <3>1. PICK x, y : x = N_b_OCC(b0) \div 2 /\ y = N_b_OCC(b0) \div 4 - 1
      OBVIOUS
    <3>2. Comb(b0, r) = {IF p < x THEN p ELSE p + 1 : p \in {4 * i + r : i \in 0..y}}
      BY <3>1, Zenon DEF Comb
    <3>3. x = 2 * q /\ y = q - 1
      BY <1>2, <3>1
    <3> QED  BY <3>2, <3>3
  <2>2. (\A i \in 0..q - 1 : 4 * i + r \in places) /\ \A p \in places : \E i \in 0..q - 1 : p = 4 * i + r
    OBVIOUS
  <2>3. \A i, j \in 0..q - 1 : f[i] = f[j] => i = j
    OBVIOUS
  <2>4. f = [i \in 0..q - 1 |-> cell(4 * i + r)]
    OBVIOUS
  <2> HIDE DEF cell, places, f
  <2>5. f \in [0..q - 1 -> Comb(b0, r)] /\ \A x \in Comb(b0, r) : \E i \in 0..q - 1 : f[i] = x
    BY <2>1, <2>2, <2>4
  <2>6. f \in Injection(0..q - 1, Comb(b0, r)) /\ f \in Surjection(0..q - 1, Comb(b0, r))
    BY <2>3, <2>5 DEF Injection, Surjection, IsInjective
  <2>7. Cardinality(0..q - 1) = q /\ IsFiniteSet(0..q - 1)
    BY FS_Interval
  <2> QED  BY <2>6, <2>7, FS_Bijection DEF ExistsBijection, Bijection
<1>4. IsFiniteSet(Occupied(b0)) /\ Cardinality(Occupied(b0)) = 4 * q
  <2>1. Occupied(b0) = (0..4 * q) \ {2 * q}
    BY <1>1, <1>2 DEF Occupied
  <2>2. IsFiniteSet(0..4 * q) /\ Cardinality(0..4 * q) = 4 * q + 1
    BY FS_Interval
  <2>3. /\ IsFiniteSet((0..4 * q) \ {2 * q})
        /\ Cardinality((0..4 * q) \ {2 * q}) = 4 * q
    <3>1. PICK S, x : S = 0..4 * q /\ x = 2 * q
      OBVIOUS
    <3>2. x \in S /\ IsFiniteSet(S) /\ Cardinality(S) = 4 * q + 1
      BY <2>2, <3>1
    <3>3. IsFiniteSet(S \ {x}) /\ Cardinality(S \ {x}) = Cardinality(S) - 1
      BY <3>2, FS_RemoveElement
    <3>4. Cardinality(S \ {x}) = 4 * q
      BY <3>2, <3>3
    <3> QED  BY <3>1, <3>3, <3>4
  <2> QED  BY <2>1, <2>3
<1> QED  BY <1>1, <1>2, <1>3, <1>4

\* The parts of a set without a common element.
LEMMA Parts ==
    ASSUME NEW S, NEW T, IsFiniteSet(S), IsFiniteSet(T), S \cap T = {}
    PROVE  /\ IsFiniteSet(S \cup T) /\ Cardinality(S \cup T) = Cardinality(S) + Cardinality(T)
           /\ Cardinality(S) \in Nat /\ Cardinality(T) \in Nat
<1>1. Cardinality(S \cap T) = 0
  BY FS_EmptySet
<1>2. Cardinality(S) \in Nat /\ Cardinality(T) \in Nat
  BY FS_CardinalityType
<1>3. /\ IsFiniteSet(S \cup T)
      /\ Cardinality(S \cup T) = Cardinality(S) + Cardinality(T) - Cardinality(S \cap T)
  BY FS_Union
<1> QED  BY <1>1, <1>2, <1>3

\* The number of pilots in the first m symbols of a packet, and in one of them.
PilotsUpTo(b0, N, m) ==
    IF N <= 2 THEN (N * Quarter(b0)) * ((m + 4) \div 5)
    ELSE IF N = 4 THEN (4 * Quarter(b0)) * ((m + 9) \div 10)
    ELSE (4 * Quarter(b0)) * (((m + 9) \div 10) + ((m + 8) \div 10))

\* A row of the table of pilots.
LEMMA PilotRow ==
    ASSUME NEW b0 \in Bs, NEW N \in Ns, NEW m \in Nat, NEW r, r = RawRow(N, m + 1)
    PROVE  /\ IsFiniteSet(DrsCells(b0, N, 30, r)) /\ DrsCells(b0, N, 30, r) \subseteq Occupied(b0)
           /\ N <= 2 => Cardinality(DrsCells(b0, N, 30, r)) = IF m % 5 = 0 THEN N * Quarter(b0) ELSE 0
           /\ N = 4 => Cardinality(DrsCells(b0, N, 30, r)) = IF m % 10 = 0 THEN 4 * Quarter(b0) ELSE 0
           /\ N = 8 => Cardinality(DrsCells(b0, N, 30, r))
                            = IF m % 10 \in {0, 1} THEN 4 * Quarter(b0) ELSE 0
<1>1. r \in 1..20 /\ (N <= 2 => r <= 15) /\ m + 1 \in Nat \ {0}
  BY RowNumbers
<1>2. PICK q \in Nat : m + 1 = r + 10 * q
  BY <1>1, RowNumbers
<1>3. 30 \in {20, 30} /\ 30 # 20 /\ N \in {1, 2, 4, 8}
  BY DEF Ns
<1>4. IsFiniteSet({}) /\ Cardinality({}) = 0
  BY FS_EmptySet
<1>5. IsFiniteSet(Occupied(b0)) /\ Cardinality(Occupied(b0)) = 4 * Quarter(b0) /\ Quarter(b0) \in Nat
  BY CombSize
<1>6. CASE N <= 2
  <2>1. CASE m % 5 = 0
    <3>1. PICK j \in Nat : r = 1 + 5 * j
      <4>1. r - 1 \in Nat /\ (r - 1) % 5 = 0
        BY <1>1, <1>2, <2>1
      <4>2. PICK x \in 0..19 : x = r - 1 /\ x % 5 = 0
        BY <1>1, <4>1
      <4>3. x = 5 * (x \div 5) /\ x \div 5 \in Nat
        BY <4>2
      <4> QED  BY <1>1, <4>2, <4>3
    <3>2. DrsCells(b0, N, 30, r) = Teeth(b0, N, j)
      BY <1>1, <1>3, <1>6, <3>1, DrsTable
    <3>3. PICK e \in {0, 1} : e = j % 2
      OBVIOUS
    <3>4. /\ 2 * e \in 0..3 /\ 2 * e + 1 \in 0..3 /\ 2 * e # 2 * e + 1
      OBVIOUS
    <3>5. PICK S, T : S = Comb(b0, 2 * e) /\ T = Comb(b0, 2 * e + 1)
      OBVIOUS
    <3>6. /\ IsFiniteSet(S) /\ IsFiniteSet(T) /\ S \cap T = {}
          /\ Cardinality(S) = Quarter(b0) /\ Cardinality(T) = Quarter(b0)
          /\ S \subseteq Occupied(b0) /\ T \subseteq Occupied(b0)
      BY <3>4, <3>5, CombSize, Combs
    <3>7. IsFiniteSet(S \cup T) /\ Cardinality(S \cup T) = 2 * Quarter(b0)
      <4>1. IsFiniteSet(S \cup T) /\ Cardinality(S \cup T) = Cardinality(S) + Cardinality(T)
        BY <3>6, Parts
      <4> QED  BY <1>5, <3>6, <4>1
    <3>8. (N = 1 => Teeth(b0, N, j) = S) /\ (N = 2 => Teeth(b0, N, j) = S \cup T)
      BY <3>3, <3>5, TeethOf
    <3>9. N = 1 \/ N = 2
      BY <1>3, <1>6
    <3>10. N = 1 => N * Quarter(b0) = Quarter(b0)
      BY <1>5
    <3>11. /\ IsFiniteSet(DrsCells(b0, N, 30, r)) /\ DrsCells(b0, N, 30, r) \subseteq Occupied(b0)
           /\ Cardinality(DrsCells(b0, N, 30, r)) = N * Quarter(b0)
      <4>1. CASE N = 1
        BY <3>2, <3>6, <3>8, <3>10, <4>1
      <4>2. CASE N = 2
        BY <3>2, <3>6, <3>7, <3>8, <4>2
      <4> QED  BY <3>9, <4>1, <4>2
    <3>12. N # 4 /\ N # 8
      BY <3>9
    <3> QED  BY <1>6, <2>1, <3>11, <3>12
  <2>2. CASE m % 5 # 0
    <3>1. \A j \in Nat : r # 1 + 5 * j
      BY <1>1, <1>2, <2>2
    <3>2. DrsCells(b0, N, 30, r) = {}
      BY <1>1, <1>3, <1>6, <3>1, DrsTable
    <3> QED  BY <1>4, <1>6, <2>2, <3>2
  <2> QED  BY <2>1, <2>2
<1>7. CASE N > 2
  <2>1. N \in {4, 8} /\ ~(N <= 2) /\ (N = 4 => N \div 4 - 1 = 0) /\ (N = 8 => N \div 4 - 1 = 1)
    BY <1>3, <1>7
  <2>2. PICK d \in 0..9 : d = m % 10 /\ d = (r - 1) % 10
    BY <1>1, <1>2
  <2>3. PICK j \in Nat : r = 1 + 10 * j + d
    <3>1. PICK x \in 0..19 : x = r - 1
      BY <1>1
    <3>2. PICK y \in Nat : y = x \div 10
      OBVIOUS
    <3>3. x % 10 = d
      BY <2>2, <3>1
    <3>4. x = 10 * y + d
      BY <3>2, <3>3
    <3>5. r = x + 1
      BY <1>1, <3>1
    <3>6. r = 1 + 10 * y + d
      BY <3>4, <3>5
    <3> QED  BY <3>6
  <2>4. CASE d = 0 \/ (d = 1 /\ N = 8)
    <3>1. DrsCells(b0, N, 30, r) = Occupied(b0)
      <4>1. d \in 0..(N \div 4) - 1 /\ r = (1 + 10 * j) + d
        BY <2>1, <2>3, <2>4
      <4>2. \A i \in Nat, g \in 0..(N \div 4) - 1 :
                r = (1 + 10 * i) + g => DrsCells(b0, N, 30, r) = Occupied(b0)
        BY <1>1, <1>3, <1>7, DrsTable, ZenonT(60)
      <4> QED  BY <4>1, <4>2
    <3> QED  BY <1>5, <2>1, <2>2, <2>4, <3>1
  <2>5. CASE ~(d = 0 \/ (d = 1 /\ N = 8))
    <3>1. \A i \in Nat, h \in 0..(N \div 4) - 1 : r # (1 + 10 * i) + h
      BY <2>1, <2>3, <2>5
    <3>2. DrsCells(b0, N, 30, r) = {}
      BY <1>1, <1>3, <1>7, <3>1, DrsTable, ZenonT(60)
    <3> QED  BY <1>4, <2>1, <2>2, <2>5, <3>2
  <2> QED  BY <2>4, <2>5
<1> QED  BY <1>3, <1>6, <1>7

LEMMA PilotsNext ==
    ASSUME NEW b0 \in Bs, NEW N \in Ns, NEW m \in Nat
    PROVE  /\ PilotsUpTo(b0, N, m) \in Nat /\ PilotsUpTo(b0, N, 0) = 0
           /\ PilotsUpTo(b0, N, m + 1)
                = PilotsUpTo(b0, N, m) + Cardinality(DrsCells(b0, N, 30, RawRow(N, m + 1)))
<1>1. N \in {1, 2, 4, 8} /\ Quarter(b0) \in Nat
  BY CombSize DEF Ns
<1>2. PICK D \in Nat : D = Cardinality(DrsCells(b0, N, 30, RawRow(N, m + 1)))
  <2>1. IsFiniteSet(DrsCells(b0, N, 30, RawRow(N, m + 1)))
    BY PilotRow
  <2> QED  BY <2>1, FS_CardinalityType
<1>3. /\ (m + 5) \div 5 = ((m + 4) \div 5) + (IF m % 5 = 0 THEN 1 ELSE 0)
      /\ (m + 10) \div 10 = ((m + 9) \div 10) + (IF m % 10 = 0 THEN 1 ELSE 0)
      /\ (m + 9) \div 10 = ((m + 8) \div 10) + (IF m % 10 = 1 THEN 1 ELSE 0)
  OBVIOUS
<1>4. PICK x \in Nat, y \in Nat, z \in Nat : x = (m + 4) \div 5 /\ y = (m + 9) \div 10 /\ z = (m + 8) \div 10
  OBVIOUS
<1>5. /\ (m + 1) + 4 = m + 5 /\ (m + 1) + 9 = m + 10 /\ (m + 1) + 8 = m + 9
      /\ (0 + 4) \div 5 = 0 /\ (0 + 9) \div 10 = 0 /\ (0 + 8) \div 10 = 0
  OBVIOUS
<1>6. \A w, v \in Nat : w * (v + 1) = w * v + w /\ w * v \in Nat /\ w * 0 = 0 /\ w * (v + 0) = w * v
  OBVIOUS
<1>7. CASE N <= 2
  <2>1. PICK w \in Nat : w = N * Quarter(b0)
    BY <1>1
  <2>2. PilotsUpTo(b0, N, m) = w * x /\ PilotsUpTo(b0, N, 0) = w * 0
    BY <1>4, <1>5, <1>7, <2>1 DEF PilotsUpTo
  <2>3. PilotsUpTo(b0, N, m + 1) = w * (x + (IF m % 5 = 0 THEN 1 ELSE 0))
    BY <1>3, <1>4, <1>5, <1>7, <2>1 DEF PilotsUpTo
  <2>4. D = IF m % 5 = 0 THEN w ELSE 0
    BY <1>2, <1>7, <2>1, PilotRow
  <2>5. CASE m % 5 = 0
    BY <1>2, <1>6, <2>2, <2>3, <2>4, <2>5
  <2>6. CASE m % 5 # 0
    BY <1>2, <1>6, <2>2, <2>3, <2>4, <2>6
  <2> QED  BY <2>5, <2>6
<1>8. CASE N = 4
  <2>0. ~(N <= 2)
    BY <1>8
  <2>1. PICK w \in Nat : w = 4 * Quarter(b0)
    BY <1>1
  <2>2. PilotsUpTo(b0, N, m) = w * y /\ PilotsUpTo(b0, N, 0) = w * 0
    BY <1>4, <1>5, <1>8, <2>0, <2>1 DEF PilotsUpTo
  <2>3. PilotsUpTo(b0, N, m + 1) = w * (y + (IF m % 10 = 0 THEN 1 ELSE 0))
    BY <1>3, <1>4, <1>5, <1>8, <2>0, <2>1 DEF PilotsUpTo
  <2>4. D = IF m % 10 = 0 THEN w ELSE 0
    BY <1>2, <1>8, <2>1, PilotRow
  <2>5. CASE m % 10 = 0
    BY <1>2, <1>6, <2>2, <2>3, <2>4, <2>5
  <2>6. CASE m % 10 # 0
    BY <1>2, <1>6, <2>2, <2>3, <2>4, <2>6
  <2> QED  BY <2>5, <2>6
<1>9. CASE N = 8
  <2>0. ~(N <= 2) /\ N # 4
    BY <1>9
  <2>1. PICK w \in Nat : w = 4 * Quarter(b0)
    BY <1>1
  <2>2. PilotsUpTo(b0, N, m) = w * (y + z) /\ PilotsUpTo(b0, N, 0) = w * (0 + 0)
    BY <1>4, <1>5, <1>9, <2>0, <2>1 DEF PilotsUpTo
  <2>3. PilotsUpTo(b0, N, m + 1)
            = w * ((y + (IF m % 10 = 0 THEN 1 ELSE 0)) + (z + (IF m % 10 = 1 THEN 1 ELSE 0)))
    BY <1>3, <1>4, <1>5, <1>9, <2>0, <2>1 DEF PilotsUpTo
  <2>4. D = IF m % 10 \in {0, 1} THEN w ELSE 0
    BY <1>2, <1>9, <2>1, PilotRow
  <2>5. PICK v \in Nat : v = y + z
    OBVIOUS
  <2>6. (y + 1) + (z + 0) = v + 1 /\ (y + 0) + (z + 1) = v + 1 /\ (y + 0) + (z + 0) = v
    BY <2>5
  <2>7. CASE m % 10 = 0
    BY <1>2, <1>6, <2>2, <2>3, <2>4, <2>5, <2>6, <2>7
  <2>8. CASE m % 10 = 1
    BY <1>2, <1>6, <2>2, <2>3, <2>4, <2>5, <2>6, <2>8
  <2>9. CASE m % 10 \notin {0, 1}
    BY <1>2, <1>6, <2>2, <2>3, <2>4, <2>5, <2>6, <2>9
  <2> QED  BY <2>7, <2>8, <2>9
<1> QED  BY <1>1, <1>7, <1>8, <1>9

\* As many cells as are left are taken out of the matrix of seven rows.
LEMMA Taken ==
    ASSUME NEW n \in Nat, NEW S, S \subseteq 0..n, NEW c \in Nat, Cardinality(S) = 7 * c,
           NEW m \in Nat, m <= c
    PROVE  Cardinality({k \in S : Interleaved(RankIn(S, k), Cardinality(S)) < 7 * m}) = 7 * m
<1> DEFINE T == {k \in S : Interleaved(RankIn(S, k), Cardinality(S)) < 7 * m}
           f == [k \in T |-> Interleaved(RankIn(S, k), Cardinality(S))]
<1>1. IsFiniteSet(T) /\ Cardinality(T) \in Nat
  <2>1. T \subseteq 0..n
    OBVIOUS
  <2> HIDE DEF T
  <2> QED  BY <2>1, Bounded
<1>2. (7 * c) \div 7 = c
  OBVIOUS
<1>3. \A k : Interleaved(RankIn(S, k), Cardinality(S)) = ((RankIn(S, k) % c) * 7) + (RankIn(S, k) \div c)
  BY <1>2 DEF Interleaved, R_PCC
<1>0. /\ \A k \in S : RankIn(S, k) \in Nat /\ RankIn(S, k) < Cardinality(S)
      /\ \A j, k \in S : RankIn(S, j) = RankIn(S, k) => j = k
      /\ \A j \in Nat : j < Cardinality(S) => \E k \in S : RankIn(S, k) = j
  <2>1. \A k \in S : k \in Nat
    OBVIOUS
  <2> QED  BY <2>1, Ranks, Zenon
<1>4. ASSUME NEW k \in S
      PROVE  \E y \in 0..6, z \in 0..c - 1 :
                /\ RankIn(S, k) = c * y + z
                /\ Interleaved(RankIn(S, k), Cardinality(S)) = z * 7 + y
  <2>1. RankIn(S, k) \in Nat /\ RankIn(S, k) < Cardinality(S)
    BY <1>0
  <2>2. PICK x \in Nat : x = RankIn(S, k) /\ x < 7 * c
    BY <2>1
  <2>3. c \in Nat \ {0}
    BY <2>2
  <2>4. x \div c \in Nat /\ x % c \in 0..c - 1 /\ x = c * (x \div c) + (x % c)
    BY <2>2, <2>3, Quotient
  <2>5. PICK y \in Nat, z \in Nat : y = x \div c /\ z = x % c /\ z \in 0..c - 1
    BY <2>3, <2>4
  <2>6. x = c * y + z
    BY <2>4, <2>5
  <2>7. y \in 0..6
    <3>1. ~(y >= 7) \/ c * y >= c * 7
      BY <2>3, <2>5
    <3>2. PICK w \in Nat : w = c * y
      BY <2>5
    <3>3. w <= x /\ c * 7 = 7 * c
      BY <2>5, <2>6, <3>2
    <3> QED  BY <2>2, <2>5, <3>1, <3>2, <3>3
  <2>8. Interleaved(RankIn(S, k), Cardinality(S)) = z * 7 + y
    BY <1>3, <2>2, <2>5
  <2> QED  BY <2>2, <2>5, <2>6, <2>7, <2>8
<1>5. f \in [T -> 0..7 * m - 1]
  <2>1. ASSUME NEW k \in T PROVE Interleaved(RankIn(S, k), Cardinality(S)) \in 0..7 * m - 1
    <3>1. PICK y \in 0..6, z \in 0..c - 1 :
              Interleaved(RankIn(S, k), Cardinality(S)) = z * 7 + y
      BY <1>4
    <3>2. z * 7 + y < 7 * m
      BY <3>1
    <3> QED  BY <3>1, <3>2
  <2> QED  BY <2>1
<1>6. ASSUME NEW j \in T, NEW k \in T, f[j] = f[k] PROVE j = k
  <2>1. j \in S /\ k \in S
    OBVIOUS
  <2>2. PICK y \in 0..6, z \in 0..c - 1 :
            RankIn(S, j) = c * y + z /\ Interleaved(RankIn(S, j), Cardinality(S)) = z * 7 + y
    BY <1>4, <2>1
  <2>3. PICK w \in 0..6, x \in 0..c - 1 :
            RankIn(S, k) = c * w + x /\ Interleaved(RankIn(S, k), Cardinality(S)) = x * 7 + w
    BY <1>4, <2>1
  <2>4. z * 7 + y = x * 7 + w
    BY <1>6, <2>2, <2>3
  <2>5. z = x /\ y = w
    BY <2>4
  <2>6. RankIn(S, j) = RankIn(S, k)
    BY <2>2, <2>3, <2>5
  <2> HIDE DEF T
  <2> QED  BY <1>0, <2>1, <2>6
<1>7. ASSUME NEW v \in 0..7 * m - 1 PROVE \E k \in T : f[k] = v
  <2>1. PICK y \in 0..6, z \in Nat : v = z * 7 + y
    <3>1. v % 7 \in 0..6 /\ v \div 7 \in Nat /\ v = (v \div 7) * 7 + (v % 7)
      OBVIOUS
    <3> QED  BY <3>1
  <2>2. z \in 0..c - 1 /\ z < m
    BY <2>1
  <2>3. c \in Nat \ {0}
    BY <2>2
  <2>4. PICK j \in Nat : j = c * y + z
    BY <2>1, <2>2
  <2>5. j < 7 * c
    <3>1. c * y <= c * 6
      <4>1. y = 0 \/ y = 1 \/ y = 2 \/ y = 3 \/ y = 4 \/ y = 5 \/ y = 6
        OBVIOUS
      <4> QED  BY <2>3, <4>1
    <3> QED  BY <2>2, <2>3, <2>4, <3>1
  <2>6. PICK k \in S : RankIn(S, k) = j
    BY <1>0, <2>4, <2>5
  <2>7. j \div c = y
    BY <2>1, <2>2, <2>3, <2>4, QuotientOf
  <2>8. j % c = z
    <3>1. j = c * (j \div c) + (j % c) /\ j % c \in 0..c - 1
      BY <2>3, <2>4, Quotient
    <3>2. PICK w \in Int : w = j % c
      BY <3>1
    <3>3. j = c * y + w
      BY <2>7, <3>1, <3>2
    <3> QED  BY <2>2, <2>3, <2>4, <3>2, <3>3
  <2>9. Interleaved(RankIn(S, k), Cardinality(S)) = v
    BY <1>3, <2>1, <2>6, <2>7, <2>8
  <2>10. k \in T
    BY <2>9
  <2> QED  BY <2>9, <2>10
<1>8. IsFiniteSet(0..7 * m - 1) /\ Cardinality(0..7 * m - 1) = 7 * m
  BY FS_Interval
<1> HIDE DEF T, f
<1>9. f \in Injection(T, 0..7 * m - 1) /\ f \in Surjection(T, 0..7 * m - 1)
  BY <1>5, <1>6, <1>7 DEF Injection, Surjection, IsInjective
<1>10. Cardinality(0..7 * m - 1) = Cardinality(T)
  BY <1>1, <1>9, FS_Bijection DEF ExistsBijection, Bijection
<1> QED  BY <1>8, <1>10 DEF T

\* The PCC takes what is left of it, or all that is free.
LEMMA PccTaken ==
    ASSUME NEW b0 \in Bs, NEW N \in Ns, NEW l \in 1..5
    PROVE  LET left == PccLeft[b0][N][l]
               free == Cardinality(PccFree[b0][N][l])
           IN  /\ left \in Nat /\ free \in Nat
               /\ Cardinality(PccCells[b0][N][l]) = IF free < left THEN free ELSE left
               /\ free <= left => PccCells[b0][N][l] = PccFree[b0][N][l]
<1>1. PICK n \in Nat : n = N_b_OCC(b0)
  BY FiniteCells
<1>2. PICK S : S = PccFree[b0][N][l]
  OBVIOUS
<1>3. S \subseteq 0..n
  BY <1>1, <1>2 DEF PccFree, Occupied
<1>4. PICK c \in Nat, m \in Nat : Cardinality(S) = 7 * c /\ PccLeft[b0][N][l] = 7 * m
  BY <1>2, Sevens
<1>5. PICK T : T = {k \in S : Interleaved(RankIn(S, k), Cardinality(S)) < 7 * m}
  OBVIOUS
<1>6. PccCells[b0][N][l] = IF 7 * c < 7 * m THEN S ELSE T
  BY <1>2, <1>4, <1>5 DEF PccCells, RankIn
<1>7. m <= c => Cardinality(T) = 7 * m
  BY <1>3, <1>4, <1>5, Taken, ZenonT(60)
<1>8. m = c => T = S
  <2> SUFFICES ASSUME m = c PROVE T = S
    OBVIOUS
  <2>1. T \in SUBSET S /\ IsFiniteSet(S)
    BY <1>3, <1>5, Bounded
  <2>2. Cardinality(S) = Cardinality(T)
    BY <1>4, <1>7
  <2> QED  BY <2>1, <2>2, FS_Subset
<1>9. CASE m <= c
  <2>1. PccCells[b0][N][l] = T
    BY <1>6, <1>9
  <2> QED  BY <1>2, <1>4, <1>7, <1>8, <1>9, <2>1
<1>10. CASE m > c
  <2>1. PccCells[b0][N][l] = S
    BY <1>6, <1>10
  <2> QED  BY <1>2, <1>4, <1>10, <2>1
<1> QED  BY <1>9, <1>10

\* The number of cells of the PCC and of the PDC in the first m symbols.
PccUpTo(b0, N, m) == IF m <= 4 THEN 98 - PccLeft[b0][N][m + 1] ELSE 98
PdcUpTo(b0, N, m) == (((4 * Quarter(b0)) * m) - PilotsUpTo(b0, N, m)) - PccUpTo(b0, N, m)

\* The PCC ends within four symbols; it leaves no cell to the PDC before its last one.
LEMMA PccNext ==
    ASSUME NEW b0 \in Bs, NEW N \in Ns, NEW m \in Nat
    PROVE  /\ PccUpTo(b0, N, m) \in 0..98 /\ PccUpTo(b0, N, 0) = 0
           /\ m >= 4 => PccUpTo(b0, N, m) = 98
           /\ IsFiniteSet(PccIn(b0, N, m + 1))
           /\ PccUpTo(b0, N, m + 1) = PccUpTo(b0, N, m) + Cardinality(PccIn(b0, N, m + 1))
           /\ PccUpTo(b0, N, m + 1) < 98 => PdcIn(b0, N, RawRow(N, m + 1)) = {}
           /\ N = 8 => PccUpTo(b0, N, 2) = 0
<1> DEFINE left(l) == PccLeft[b0][N][l]
           free(l) == Cardinality(PccFree[b0][N][l])
<1>1. \A l \in 1..5 : /\ left(l) \in Nat /\ free(l) \in Nat
                      /\ Cardinality(PccCells[b0][N][l]) = IF free(l) < left(l) THEN free(l) ELSE left(l)
                      /\ free(l) <= left(l) => PccCells[b0][N][l] = PccFree[b0][N][l]
  BY PccTaken
<1>2. left(1) = 98 /\ \A l \in 1..4 : left(l + 1) = IF left(l) <= free(l) THEN 0 ELSE left(l) - free(l)
  BY LeftNext
<1>3. ASSUME NEW l \in 1..5
      PROVE  free(l) = 4 * Quarter(b0) - Cardinality(DrsCells(b0, N, 30, l))
  <2>1. PICK D : D = DrsCells(b0, N, 30, l)
    OBVIOUS
  <2>2. PccFree[b0][N][l] = Occupied(b0) \ D
    BY <2>1, PccWithin DEF PccFree
  <2>3. D \subseteq Occupied(b0)
    <3>1. RawRow(N, (l - 1) + 1) = l /\ l - 1 \in Nat
      BY RowNumbers
    <3> QED  BY <2>1, <3>1, PilotRow
  <2>4. IsFiniteSet(Occupied(b0)) /\ Cardinality(Occupied(b0)) = 4 * Quarter(b0) /\ Quarter(b0) \in Nat
    BY CombSize
  <2>5. IsFiniteSet(D) /\ IsFiniteSet(Occupied(b0) \ D) /\ D \cap (Occupied(b0) \ D) = {}
    BY <2>3, <2>4, FS_Subset
  <2>6. D \cup (Occupied(b0) \ D) = Occupied(b0)
    BY <2>3
  <2>7. /\ Cardinality(Occupied(b0)) = Cardinality(D) + Cardinality(Occupied(b0) \ D)
        /\ Cardinality(D) \in Nat /\ Cardinality(Occupied(b0) \ D) \in Nat
    BY <2>5, <2>6, Parts
  <2> QED  BY <2>1, <2>2, <2>4, <2>7
<1>4. ASSUME NEW l \in 1..5
      PROVE  /\ N # 8 /\ l \in 2..4 => free(l) = 4 * Quarter(b0)
             /\ N = 8 /\ l \in 3..4 => free(l) = 4 * Quarter(b0)
             /\ N = 8 /\ l \in 1..2 => free(l) = 0
  <2>1. PICK i \in 0..4 : i = l - 1
    OBVIOUS
  <2>2. RawRow(N, i + 1) = l /\ i \in Nat
    BY <2>1, RowNumbers
  <2>3. Quarter(b0) \in Nat /\ N \in {1, 2, 4, 8}
    BY CombSize DEF Ns
  <2>4. /\ N <= 2 => Cardinality(DrsCells(b0, N, 30, l)) = IF i % 5 = 0 THEN N * Quarter(b0) ELSE 0
        /\ N = 4 => Cardinality(DrsCells(b0, N, 30, l)) = IF i % 10 = 0 THEN 4 * Quarter(b0) ELSE 0
        /\ N = 8 => Cardinality(DrsCells(b0, N, 30, l))
                            = IF i % 10 \in {0, 1} THEN 4 * Quarter(b0) ELSE 0
    BY <2>2, PilotRow
  <2>5. free(l) = 4 * Quarter(b0) - Cardinality(DrsCells(b0, N, 30, l))
    BY <1>3
  <2> HIDE DEF free
  <2>6. CASE l = 1
    BY <2>1, <2>3, <2>4, <2>5, <2>6
  <2>7. CASE l = 2
    BY <2>1, <2>3, <2>4, <2>5, <2>7
  <2>8. CASE l \in 3..4
    <3>1. i % 5 # 0 /\ i % 10 # 0 /\ i % 10 # 1
      BY <2>1, <2>8
    <3>2. Cardinality(DrsCells(b0, N, 30, l)) = 0
      BY <2>3, <2>4, <3>1
    <3> QED  BY <2>3, <2>5, <2>8, <3>2
  <2>9. CASE l = 5
    BY <2>9
  <2> QED  BY <2>6, <2>7, <2>8, <2>9
<1>5. 4 * Quarter(b0) \in Nat /\ 4 * Quarter(b0) >= 56
  BY CombSize
<1> HIDE DEF left, free
<1>6. /\ left(2) = IF left(1) <= free(1) THEN 0 ELSE left(1) - free(1)
      /\ left(3) = IF left(2) <= free(2) THEN 0 ELSE left(2) - free(2)
      /\ left(4) = IF left(3) <= free(3) THEN 0 ELSE left(3) - free(3)
      /\ left(5) = IF left(4) <= free(4) THEN 0 ELSE left(4) - free(4)
  BY <1>2
<1>7. /\ free(1) \in Nat /\ free(2) \in Nat /\ free(3) \in Nat /\ free(4) \in Nat
      /\ N # 8 => free(2) >= 56 /\ free(3) >= 56
      /\ N = 8 => free(1) = 0 /\ free(2) = 0 /\ free(3) >= 56 /\ free(4) >= 56
  <2>1. 1 \in 1..5 /\ 2 \in 1..5 /\ 3 \in 1..5 /\ 4 \in 1..5
    OBVIOUS
  <2>2. 2 \in 2..4 /\ 3 \in 2..4 /\ 3 \in 3..4 /\ 4 \in 3..4 /\ 1 \in 1..2 /\ 2 \in 1..2
    OBVIOUS
  <2> QED  BY <1>1, <1>4, <1>5, <2>1, <2>2
<1>8. left(5) = 0 /\ \A l \in 1..5 : left(l) \in 0..98
  <2>1. left(1) = 98
    BY <1>2
  <2>2. left(2) \in 0..98
    BY <1>6, <1>7, <2>1
  <2>3. left(3) \in 0..98 /\ (N # 8 => left(3) <= 42)
    BY <1>6, <1>7, <2>2
  <2>4. left(4) \in 0..98 /\ (N # 8 => left(4) = 0) /\ (N = 8 => left(4) <= 42)
    BY <1>6, <1>7, <2>3
  <2>5. left(5) = 0
    BY <1>6, <1>7, <2>4
  <2>6. \A l \in 1..5 : l = 1 \/ l = 2 \/ l = 3 \/ l = 4 \/ l = 5
    OBVIOUS
  <2> QED  BY <2>1, <2>2, <2>3, <2>4, <2>5, <2>6
<1>9. \A i \in Nat : PccUpTo(b0, N, i) = IF i <= 4 THEN 98 - left(i + 1) ELSE 98
  BY DEF PccUpTo, left
<1>10. ASSUME NEW i \in Nat PROVE PccUpTo(b0, N, i) \in 0..98 /\ (i >= 4 => PccUpTo(b0, N, i) = 98)
  <2>1. CASE i <= 4
    <3>1. i + 1 \in 1..5 /\ left(i + 1) \in 0..98 /\ (i = 4 => left(i + 1) = 0)
      BY <1>8, <2>1
    <3> QED  BY <1>9, <2>1, <3>1
  <2>2. CASE i > 4
    BY <1>9, <2>2
  <2> QED  BY <2>1, <2>2
<1>11. PccUpTo(b0, N, 0) = 0
  BY <1>2, <1>9
<1>12. /\ IsFiniteSet(PccIn(b0, N, m + 1))
       /\ PccUpTo(b0, N, m + 1) = PccUpTo(b0, N, m) + Cardinality(PccIn(b0, N, m + 1))
  <2>1. CASE m + 1 \in 1..5
    <3>1. PICK l \in 1..5 : l = m + 1
      BY <2>1
    <3>2. IsFiniteSet(PccIn(b0, N, l)) /\ PccIn(b0, N, l) = PccCells[b0][N][l]
      BY FiniteCells DEF PccIn
    <3>3. Cardinality(PccIn(b0, N, l)) = IF free(l) < left(l) THEN free(l) ELSE left(l)
      BY <1>1, <3>2
    <3>4. CASE l <= 4
      <4>1. left(l + 1) = IF left(l) <= free(l) THEN 0 ELSE left(l) - free(l)
        BY <1>2, <3>4
      <4>2. left(l) \in Nat /\ free(l) \in Nat
        BY <1>1
      <4>3. PccUpTo(b0, N, m) = 98 - left(l) /\ PccUpTo(b0, N, l) = 98 - left(l + 1)
        <5>1. m <= 4 /\ m + 1 = l /\ l \in Nat
          BY <3>1, <3>4
        <5> QED  BY <1>9, <3>4, <5>1
      <4> QED  BY <3>1, <3>2, <3>3, <4>1, <4>2, <4>3
    <3>5. CASE l = 5
      <4>1. PccUpTo(b0, N, m) = 98 /\ PccUpTo(b0, N, l) = 98
        <5>1. m >= 4 /\ l >= 4 /\ l \in Nat
          BY <3>1, <3>5
        <5> QED  BY <1>10, <5>1
      <4>2. left(l) = 0 /\ free(l) \in Nat
        BY <1>1, <1>8, <3>5
      <4> QED  BY <3>1, <3>2, <3>3, <4>1, <4>2
    <3> QED  BY <3>4, <3>5
  <2>2. CASE m + 1 \notin 1..5
    <3>1. PccIn(b0, N, m + 1) = {}
      BY <2>2 DEF PccIn
    <3>2. PccUpTo(b0, N, m) = 98 /\ PccUpTo(b0, N, m + 1) = 98
      BY <1>10, <2>2
    <3> QED  BY <3>1, <3>2, FS_EmptySet
  <2> QED  BY <2>1, <2>2
<1>13. ASSUME PccUpTo(b0, N, m + 1) < 98 PROVE PdcIn(b0, N, RawRow(N, m + 1)) = {}
  <2>1. m + 1 < 4 /\ m + 1 \in Nat
    BY <1>10, <1>13
  <2>2. PICK l \in 1..3 : l = m + 1
    BY <2>1
  <2>3. RawRow(N, l) = l /\ l \in 1..5 /\ l \in 1..4
    BY RowNumbers
  <2>4. left(l + 1) > 0
    <3>1. PccUpTo(b0, N, l) = 98 - left(l + 1) /\ left(l + 1) \in Nat
      BY <1>1, <1>9
    <3> QED  BY <1>13, <2>2, <3>1
  <2>5. free(l) <= left(l)
    BY <1>1, <1>2, <2>3, <2>4
  <2>6. PccCells[b0][N][l] = PccFree[b0][N][l]
    BY <1>1, <2>3, <2>5
  <2>7. PccFree[b0][N][l] = Occupied(b0) \ DrsCells(b0, N, 30, l)
    BY <2>3, PccWithin DEF PccFree
  <2> QED  BY <2>2, <2>3, <2>6, <2>7 DEF PdcIn, PccIn
<1>14. N = 8 => PccUpTo(b0, N, 2) = 0
  <2> SUFFICES ASSUME N = 8 PROVE PccUpTo(b0, N, 2) = 0
    OBVIOUS
  <2>1. left(3) = 98
    BY <1>2, <1>6, <1>7
  <2> QED  BY <1>9, <2>1
<1> QED  BY <1>10, <1>11, <1>12, <1>13, <1>14

\* What the pilots and the PCC leave is the PDC; behind the PCC it is a whole comb or none.
LEMMA PdcNext ==
    ASSUME NEW b0 \in Bs, NEW N \in Ns, NEW m \in Nat
    PROVE  LET size == Cardinality(PdcIn(b0, N, RawRow(N, m + 1)))
           IN  /\ PdcUpTo(b0, N, m) \in Int /\ PdcUpTo(b0, N, 0) = 0 /\ size \in Nat
               /\ PdcUpTo(b0, N, m + 1) = PdcUpTo(b0, N, m) + size
               /\ size = 0 <=> PdcIn(b0, N, RawRow(N, m + 1)) = {}
               /\ PccUpTo(b0, N, m) = 98 => size = 0 \/ size >= 28
<1>1. PICK r : r = RawRow(N, m + 1)
  OBVIOUS
<1>2. r \in 1..5 <=> m + 1 \in 1..5
  BY <1>1, RowNumbers
<1>3. r \in 1..5 => r = m + 1
  BY <1>1, RowNumbers
<1>4. PICK D, P, C : D = DrsCells(b0, N, 30, r) /\ P = PccIn(b0, N, m + 1) /\ C = PdcIn(b0, N, r)
  OBVIOUS
<1>5. P = PccIn(b0, N, r)
  BY <1>2, <1>3, <1>4 DEF PccIn
<1>6. C = (Occupied(b0) \ D) \ P
  BY <1>4, <1>5 DEF PdcIn
<1>7. D \subseteq Occupied(b0) /\ IsFiniteSet(D)
  BY <1>1, <1>4, PilotRow
<1>8. P \subseteq Occupied(b0) \ D
  <2>1. CASE r \in 1..5
    BY <1>4, <1>5, <2>1, PccWithin DEF PccIn
  <2>2. CASE r \notin 1..5
    BY <1>5, <2>2 DEF PccIn
  <2> QED  BY <2>1, <2>2
<1>9. PICK q \in Nat : q = Quarter(b0) /\ q >= 14
  BY CombSize
<1>10. IsFiniteSet(Occupied(b0)) /\ Cardinality(Occupied(b0)) = 4 * q
  BY <1>9, CombSize
<1>11. IsFiniteSet(P) /\ IsFiniteSet(C)
  BY <1>6, <1>8, <1>10, FS_Subset
<1>12. PICK s \in Nat, t \in Nat, u \in Nat : s = Cardinality(D) /\ t = Cardinality(P) /\ u = Cardinality(C)
  BY <1>7, <1>11, FS_CardinalityType
<1>13. s + t + u = 4 * q
  <2>1. D \cap P = {} /\ (D \cup P) \cap C = {} /\ (D \cup P) \cup C = Occupied(b0)
    BY <1>6, <1>7, <1>8
  <2>2. IsFiniteSet(D \cup P) /\ Cardinality(D \cup P) = s + t
    <3>1. IsFiniteSet(D \cup P) /\ Cardinality(D \cup P) = Cardinality(D) + Cardinality(P)
      BY <1>7, <1>11, <2>1, Parts
    <3> QED  BY <1>12, <3>1
  <2>3. Cardinality((D \cup P) \cup C) = Cardinality(D \cup P) + Cardinality(C)
    BY <1>11, <2>1, <2>2, Parts
  <2>4. 4 * q = (s + t) + u
    BY <1>10, <1>12, <2>1, <2>2, <2>3
  <2> QED  BY <2>4
<1>14. /\ PilotsUpTo(b0, N, m) \in Nat /\ PilotsUpTo(b0, N, 0) = 0
       /\ PilotsUpTo(b0, N, m + 1) = PilotsUpTo(b0, N, m) + s
  BY <1>1, <1>4, <1>12, PilotsNext
<1>15. /\ PccUpTo(b0, N, m) \in 0..98 /\ PccUpTo(b0, N, 0) = 0
       /\ PccUpTo(b0, N, m + 1) = PccUpTo(b0, N, m) + t
  BY <1>4, <1>12, PccNext
<1>16. (4 * q) * m \in Int /\ (4 * q) * (m + 1) = (4 * q) * m + 4 * q /\ (4 * q) * 0 = 0
  OBVIOUS
<1>17. \A i : PdcUpTo(b0, N, i) = (((4 * q) * i) - PilotsUpTo(b0, N, i)) - PccUpTo(b0, N, i)
  BY <1>9 DEF PdcUpTo
<1>18. PdcUpTo(b0, N, m + 1) = PdcUpTo(b0, N, m) + u
  <2>1. PICK x \in Int : x = (4 * q) * m
    BY <1>16
  <2>2. PICK y \in Nat : y = PilotsUpTo(b0, N, m)
    BY <1>14
  <2>3. PICK z \in 0..98 : z = PccUpTo(b0, N, m)
    BY <1>15
  <2>4. PdcUpTo(b0, N, m) = (x - y) - z
    BY <1>17, <2>1, <2>2, <2>3
  <2>5. PdcUpTo(b0, N, m + 1) = ((x + 4 * q) - (y + s)) - (z + t)
    BY <1>14, <1>15, <1>16, <1>17, <2>1, <2>2, <2>3
  <2> QED  BY <1>13, <2>4, <2>5
<1>19. PdcUpTo(b0, N, m) \in Int /\ PdcUpTo(b0, N, 0) = 0
  BY <1>14, <1>15, <1>16, <1>17
<1>20. u = 0 <=> C = {}
  BY <1>11, <1>12, FS_EmptySet
<1>21. ASSUME PccUpTo(b0, N, m) = 98 PROVE u = 0 \/ u >= 28
  <2>1. t = 0
    <3>1. PccUpTo(b0, N, m + 1) \in 0..98
      <4>1. m + 1 \in Nat
        OBVIOUS
      <4> QED  BY <4>1, PccNext
    <3> QED  BY <1>15, <1>21, <3>1
  <2>2. N \in {1, 2, 4, 8}
    BY DEF Ns
  <2>3. /\ N <= 2 => s = IF m % 5 = 0 THEN N * q ELSE 0
        /\ N = 4 => s = IF m % 10 = 0 THEN 4 * q ELSE 0
        /\ N = 8 => s = IF m % 10 \in {0, 1} THEN 4 * q ELSE 0
    BY <1>1, <1>4, <1>9, <1>12, PilotRow
  <2>4. s \in {0, q, 2 * q, 4 * q}
    BY <1>9, <2>2, <2>3
  <2> QED  BY <1>9, <1>13, <2>1, <2>4
<1> QED  BY <1>1, <1>4, <1>12, <1>18, <1>19, <1>20, <1>21

\* The number of PDC cells grows from symbol to symbol, and is zero until the PCC ends.
LEMMA PdcGrows ==
    ASSUME NEW b0 \in Bs, NEW N \in Ns, NEW m \in Nat, NEW n \in Nat, m <= n
    PROVE  /\ PdcUpTo(b0, N, m) <= PdcUpTo(b0, N, n) /\ PdcUpTo(b0, N, m) \in Nat
           /\ PccUpTo(b0, N, m) <= PccUpTo(b0, N, n)
<1>1. ASSUME NEW i \in Nat
      PROVE  /\ \A j \in Nat : PdcUpTo(b0, N, i) <= PdcUpTo(b0, N, i + j)
             /\ \A j \in Nat : PccUpTo(b0, N, i) <= PccUpTo(b0, N, i + j)
  <2> DEFINE S == {j \in Nat : /\ PdcUpTo(b0, N, i) <= PdcUpTo(b0, N, i + j)
                               /\ PccUpTo(b0, N, i) <= PccUpTo(b0, N, i + j)}
  <2>0. PdcUpTo(b0, N, i) \in Int /\ PccUpTo(b0, N, i) \in 0..98 /\ i + 0 = i
    BY PdcNext, PccNext
  <2>1. 0 \in S
    BY <2>0
  <2>2. ASSUME NEW j \in Nat, j \in S PROVE j + 1 \in S
    <3>1. PICK k \in Nat : k = i + j /\ i + (j + 1) = k + 1
      OBVIOUS
    <3>2. /\ PdcUpTo(b0, N, k) \in Int
          /\ \E size \in Nat : PdcUpTo(b0, N, k + 1) = PdcUpTo(b0, N, k) + size
      BY PdcNext
    <3>3. /\ PccUpTo(b0, N, k) \in 0..98
          /\ \E size \in Nat : PccUpTo(b0, N, k + 1) = PccUpTo(b0, N, k) + size
      <4>1. /\ IsFiniteSet(PccIn(b0, N, k + 1)) /\ PccUpTo(b0, N, k) \in 0..98
            /\ PccUpTo(b0, N, k + 1) = PccUpTo(b0, N, k) + Cardinality(PccIn(b0, N, k + 1))
        BY PccNext
      <4>2. Cardinality(PccIn(b0, N, k + 1)) \in Nat
        BY <4>1, FS_CardinalityType
      <4> QED  BY <4>1, <4>2
    <3>4. PICK x \in Nat : PdcUpTo(b0, N, k + 1) = PdcUpTo(b0, N, k) + x
      BY <3>2
    <3>5. PICK y \in Nat : PccUpTo(b0, N, k + 1) = PccUpTo(b0, N, k) + y
      BY <3>3
    <3>6. /\ PdcUpTo(b0, N, i) <= PdcUpTo(b0, N, k)
          /\ PccUpTo(b0, N, i) <= PccUpTo(b0, N, k)
      BY <2>2, <3>1
    <3>7. PdcUpTo(b0, N, i) <= PdcUpTo(b0, N, k + 1)
      BY <2>0, <3>2, <3>4, <3>6
    <3>8. PccUpTo(b0, N, i) <= PccUpTo(b0, N, k + 1)
      BY <2>0, <3>3, <3>5, <3>6
    <3> QED  BY <3>1, <3>7, <3>8
  <2>3. \A j \in Nat : j \in S
    <3> HIDE DEF S
    <3> QED  BY <2>1, <2>2, Inductive
  <2> QED  BY <2>3
<1>2. PICK j \in Nat : n = m + j
  <2>1. n = m + (n - m) /\ n - m \in Nat
    OBVIOUS
  <2> QED  BY <2>1
<1>3. PdcUpTo(b0, N, 0) <= PdcUpTo(b0, N, 0 + m) /\ 0 + m = m
  BY <1>1
<1>4. PdcUpTo(b0, N, 0) = 0 /\ PdcUpTo(b0, N, m) \in Int
  BY PdcNext
<1> QED  BY <1>1, <1>2, <1>3, <1>4

LEMMA PccFirst ==
    ASSUME NEW b0 \in Bs, NEW N \in Ns
    PROVE  \A m \in Nat : PccUpTo(b0, N, m) < 98 => PdcUpTo(b0, N, m) = 0
<1> DEFINE S == {m \in Nat : PccUpTo(b0, N, m) < 98 => PdcUpTo(b0, N, m) = 0}
<1>1. 0 \in S
  BY PdcNext
<1>2. ASSUME NEW m \in Nat, m \in S PROVE m + 1 \in S
  <2>1. ASSUME PccUpTo(b0, N, m + 1) < 98 PROVE PdcUpTo(b0, N, m + 1) = 0
    <3>1. PccUpTo(b0, N, m) <= PccUpTo(b0, N, m + 1)
      BY PdcGrows
    <3>2. PccUpTo(b0, N, m) \in 0..98 /\ PccUpTo(b0, N, m + 1) \in 0..98
      <4>1. m + 1 \in Nat
        OBVIOUS
      <4> QED  BY <4>1, PccNext
    <3>3. PdcUpTo(b0, N, m) = 0
      BY <1>2, <2>1, <3>1, <3>2
    <3>4. PdcIn(b0, N, RawRow(N, m + 1)) = {}
      BY <2>1, PccNext
    <3>5. PICK size : size = Cardinality(PdcIn(b0, N, RawRow(N, m + 1)))
      OBVIOUS
    <3>6. PdcUpTo(b0, N, m + 1) = PdcUpTo(b0, N, m) + size /\ size = 0
      BY <3>4, <3>5, PdcNext
    <3> QED  BY <3>3, <3>6
  <2> QED  BY <2>1
<1>3. \A m \in Nat : m \in S
  <2> HIDE DEF S
  <2> QED  BY <1>1, <1>2, Inductive
<1> QED  BY <1>3

\* All cells of a packet: what get_packet_sizes() says.
LEMMA Totals ==
    ASSUME NEW d \in Definitions, HasSizes(d)
    PROVE  /\ d.b \in Bs /\ N_TS(d) \in Ns /\ N_DF_symb(d) \in Nat \ {0}
           /\ PilotsUpTo(d.b, N_TS(d), N_DF_symb(d)) = N_DRS_subc(d)
           /\ PccUpTo(d.b, N_TS(d), N_DF_symb(d)) = 98
           /\ PdcUpTo(d.b, N_TS(d), N_DF_symb(d)) = N_PDC_subc(d)
<1>1. PICK b0 \in Bs : b0 = d.b
  BY DEF Bs
<1>2. PICK N \in Ns : N = N_TS(d)
  BY Modes DEF Ns
<1>3. N \in {1, 2, 4, 8} /\ d.u \in {1, 2, 4, 8}
  BY DefinitionsAssumption DEF Ns
<1>4. PICK sym \in 5..1280 : sym = N_PACKET_symb(d) /\ sym % 5 = 0
  BY Sizes
<1>5. PICK q \in Nat : q = Quarter(b0) /\ N_b_OCC(b0) = 4 * q /\ q >= 14
  BY CombSize
<1>6. PICK F \in Nat \ {0} : /\ F = N_DF_symb(d) /\ F \in {sym - 2, sym - 3, sym - 4}
                             /\ d.u # 8 => F # sym - 4
  <2>1. N_DF_symb(d) = sym - (CASE d.u = 1 -> 2 [] d.u \in {2, 4} -> 3 [] OTHER -> 4)
    BY <1>4 DEF N_DF_symb, get_N_DF_symb
  <2>2. /\ d.u = 1 => N_DF_symb(d) = sym - 2
        /\ d.u \in {2, 4} => N_DF_symb(d) = sym - 3
        /\ d.u = 8 => N_DF_symb(d) = sym - 4
    BY <2>1
  <2>3. sym - 2 \in Nat \ {0} /\ sym - 3 \in Nat \ {0} /\ sym - 4 \in Nat \ {0}
        /\ sym - 3 # sym - 4 /\ sym - 2 # sym - 4
    OBVIOUS
  <2> QED  BY <1>3, <2>2, <2>3
<1>7. PICK x \in Nat : sym = 5 * x
  <2>1. sym = 5 * (sym \div 5) /\ sym \div 5 \in Nat
    BY <1>4
  <2> QED  BY <2>1
<1> DEFINE nof == nof_OFDM_symbols_carrying_DRS_per_TS(sym, N)
<1>8. N_DRS_subc(d) = (N * q) * nof
  <2>1. (N * N_b_OCC(b0)) \div 4 = N * q
    <3>1. /\ (1 * (4 * q)) \div 4 = 1 * q /\ (2 * (4 * q)) \div 4 = 2 * q
          /\ (4 * (4 * q)) \div 4 = 4 * q /\ (8 * (4 * q)) \div 4 = 8 * q
      OBVIOUS
    <3> QED  BY <1>3, <1>5, <3>1
  <2> QED  BY <1>1, <1>2, <1>4, <2>1 DEF N_DRS_subc
<1>9. PilotsUpTo(b0, N, F) = N_DRS_subc(d)
  <2>1. CASE N <= 2
    <3>1. nof = sym \div 5
      BY <1>3, <2>1 DEF nof_OFDM_symbols_carrying_DRS_per_TS, N_step
    <3>2. (F + 4) \div 5 = sym \div 5
      BY <1>6, <1>7
    <3>3. PilotsUpTo(b0, N, F) = (N * q) * ((F + 4) \div 5)
      BY <1>5, <2>1 DEF PilotsUpTo
    <3> QED  BY <1>8, <3>1, <3>2, <3>3
  <2>2. CASE N > 2
    <3>0. N \in {4, 8} /\ ~(N <= 2)
      BY <1>3, <2>2
    <3>1. nof = (sym \div 10) + (IF sym % 10 # 0 THEN 1 ELSE 0)
      BY <3>0 DEF nof_OFDM_symbols_carrying_DRS_per_TS, N_step
    <3>2. PICK y \in Nat : sym = 10 * y \/ sym = 10 * y + 5
      <4>1. x = 2 * (x \div 2) \/ x = 2 * (x \div 2) + 1
        OBVIOUS
      <4>2. x \div 2 \in Nat
        OBVIOUS
      <4> QED  BY <1>7, <4>1, <4>2
    <3>3. (F + 9) \div 10 = nof /\ nof \in Nat
      BY <1>6, <3>1, <3>2, SMTT(60)
    <3>4. CASE N = 4
      <4>1. PilotsUpTo(b0, N, F) = (4 * q) * ((F + 9) \div 10)
        BY <1>5, <3>0, <3>4 DEF PilotsUpTo
      <4> QED  BY <1>8, <3>3, <3>4, <4>1
    <3>5. CASE N = 8
      <4>1. ~(d.u = 8 /\ sym % 10 # 0)
        BY <1>2, <1>4, <3>5 DEF HasSizes
      <4>2. (F + 8) \div 10 = nof
        <5>1. CASE sym = 10 * y
          BY <1>6, <3>1, <3>2, <5>1
        <5>2. CASE sym = 10 * y + 5
          <6>1. sym % 10 # 0
            BY <5>2
          <6>2. F # sym - 4
            BY <1>6, <4>1, <6>1
          <6> QED  BY <1>6, <3>1, <5>2, <6>1, <6>2
        <5> QED  BY <3>2, <5>1, <5>2
      <4>3. PilotsUpTo(b0, N, F) = (4 * q) * (((F + 9) \div 10) + ((F + 8) \div 10))
        BY <1>5, <3>0, <3>5 DEF PilotsUpTo
      <4>4. PICK z \in Nat : z = nof
        BY <3>3
      <4>5. (8 * q) * z = (4 * q) * (z + z)
        OBVIOUS
      <4> QED  BY <1>8, <3>3, <3>5, <4>2, <4>3, <4>4, <4>5
    <3> QED  BY <3>0, <3>4, <3>5
  <2> QED  BY <1>3, <2>1, <2>2
<1>10. PICK D \in Nat : D = N_DRS_subc(d)
  BY <1>9, PilotsNext
<1>11. N_PDC_subc(d) = F * (4 * q) - D - 98 /\ N_PDC_subc(d) > 0
  <2>1. N_PDC_subc(d) > 0
    BY DEF HasSizes
  <2>2. PICK n : n = F * (4 * q) - D - 98
    OBVIOUS
  <2>3. N_PDC_subc(d) = IF n <= 0 THEN 0 ELSE n
    BY <1>1, <1>5, <1>6, <1>10, <2>2 DEF N_PDC_subc, pcc_cells
  <2> QED  BY <2>1, <2>2, <2>3
<1>12. PICK P \in 0..98 : P = PccUpTo(b0, N, F)
  BY PccNext
<1>13. PICK X \in Int : X = (4 * q) * F /\ X = F * (4 * q)
  OBVIOUS
<1>14. PdcUpTo(b0, N, F) = X - D - P
  BY <1>5, <1>9, <1>10, <1>12, <1>13 DEF PdcUpTo
<1>15. P = 98
  <2> SUFFICES ASSUME P < 98 PROVE FALSE
    BY <1>12
  <2>1. PdcUpTo(b0, N, F) = 0
    BY <1>12, PccFirst
  <2> QED  BY <1>11, <1>12, <1>13, <1>14, <2>1
<1> QED  BY <1>1, <1>2, <1>6, <1>9, <1>11, <1>12, <1>13, <1>14, <1>15

\* The encoder's write pointer never exceeds the bits of the packet and ends there; a receiver that
\* has all bits has decoded all code blocks.
LEMMA LastBlock ==
    ASSUME NEW p, Codable(p)
    PROVE  /\ \A j \in 0..p.seg.C : wp_enc(p, j) <= p.G /\ wp_enc(p, j) \in Int
           /\ \A i : Decoded(p, p.G, i) => i = p.seg.C
<1>1. PICK C \in Nat \ {0} : C = p.seg.C
  BY DEF Codable
<1>2. PICK Q \in Nat \ {0} : Q = p.Qm
  BY DEF Codable
<1>3. /\ gamma(p) \in 0..C - 1 /\ Share(p) \in Nat /\ p.G \in Nat
      /\ C * Share(p) + gamma(p) * Q = p.G
  BY <1>1, <1>2, Shares DEF Codable
<1>4. PICK g \in 0..C - 1 : g = gamma(p)
  BY <1>3
<1>5. PICK S \in Nat : S = Share(p)
  BY <1>3
<1>6. \A j \in 0..C : wp_enc(p, j) = j * S + (IF j - (C - g) > 0 THEN (j - (C - g)) * Q ELSE 0)
  BY <1>1, <1>2, <1>4, <1>5 DEF wp_enc
<1>7. ASSUME NEW j \in 0..C PROVE wp_enc(p, j) <= p.G /\ wp_enc(p, j) \in Int
  <2>1. PICK e \in Nat : C = j + e
    <3>1. C = j + (C - j) /\ C - j \in Nat
      OBVIOUS
    <3> QED  BY <3>1
  <2>2. C * S = j * S + e * S /\ e * S \in Nat /\ j * S \in Nat
    BY <2>1
  <2>3. g * Q \in Nat
    OBVIOUS
  <2>4. CASE ~(j - (C - g) > 0)
    <3>1. wp_enc(p, j) = j * S + 0
      BY <1>6, <2>4, Zenon
    <3> QED  BY <1>3, <1>4, <1>5, <2>2, <2>3, <3>1
  <2>5. CASE j - (C - g) > 0
    <3>1. PICK f \in Nat : f = j - (C - g) /\ g = f + e
      BY <2>1, <2>5
    <3>2. g * Q = f * Q + e * Q /\ f * Q \in Nat /\ e * Q \in Nat
      BY <3>1
    <3>3. wp_enc(p, j) = j * S + f * Q
      BY <1>6, <2>5, <3>1
    <3> QED  BY <1>3, <1>4, <1>5, <2>2, <3>2, <3>3
  <2> QED  BY <2>4, <2>5
<1>8. ASSUME NEW i, Decoded(p, p.G, i) PROVE i = p.seg.C
  <2>1. i \in 0..C /\ (i < C => wp_enc(p, i + 1) > p.G)
    BY <1>1, <1>8 DEF Decoded
  <2>2. i < C => wp_enc(p, i + 1) <= p.G /\ wp_enc(p, i + 1) \in Int
    BY <1>7, <2>1
  <2>3. ~(i < C)
    <3>1. PICK w \in Int : i < C => w = wp_enc(p, i + 1)
      BY <2>2
    <3>2. PICK G0 \in Nat : G0 = p.G
      BY <1>3
    <3> QED  BY <2>1, <2>2, <3>1, <3>2
  <2> QED  BY <1>1, <2>1, <2>3
<1> QED  BY <1>1, <1>7, <1>8

\* The smallest size of the turbo code that is large enough, and the next smaller one.
AtLeast(q) == {k \in tc_cb_sizes : k >= q}
Below(q)   == {k \in tc_cb_sizes : k < q}

LEMMA TurboRange == \E hi \in Nat : hi >= 6144 /\ hi \in tc_cb_sizes /\ tc_cb_sizes \subseteq 40..hi
                                    /\ 40 \in tc_cb_sizes
<1> DEFINE A == {8 * i : i \in 5..64}
           E == {16 * i : i \in 33..64}
           I == {32 * i : i \in 33..64}
           O == {64 * i : i \in 33..96}
<1>1. tc_cb_sizes = ((A \cup E) \cup I) \cup O
  BY DEF tc_cb_sizes
<1>2. \A x \in tc_cb_sizes : x \in Nat /\ x >= 40 /\ x <= 6144
  <2>1. \A x \in A : x \in Nat /\ x >= 40 /\ x <= 6144
    OBVIOUS
  <2>2. \A x \in E : x \in Nat /\ x >= 40 /\ x <= 6144
    OBVIOUS
  <2>3. \A x \in I : x \in Nat /\ x >= 40 /\ x <= 6144
    OBVIOUS
  <2>4. \A x \in O : x \in Nat /\ x >= 40 /\ x <= 6144
    OBVIOUS
  <2> HIDE DEF A, E, I, O
  <2> QED  BY <1>1, <2>1, <2>2, <2>3, <2>4
<1>3. 40 \in A /\ 6144 \in O
  <2>1. \E i \in 5..64 : 40 = 8 * i
    <3>1. 5 \in 5..64 /\ 40 = 8 * 5
      OBVIOUS
    <3> QED  BY <3>1
  <2>2. \E i \in 33..96 : 6144 = 64 * i
    <3>1. 96 \in 33..96 /\ 6144 = 64 * 96
      OBVIOUS
    <3> QED  BY <3>1
  <2> QED  BY <2>1, <2>2
<1> HIDE DEF A, E, I, O
<1>4. 40 \in tc_cb_sizes /\ 6144 \in tc_cb_sizes
  BY <1>1, <1>3
<1>5. \E hi \in Nat : hi = 6144
  OBVIOUS
<1>6. ASSUME NEW hi \in Nat, \A x \in tc_cb_sizes : x <= hi
      PROVE  tc_cb_sizes \subseteq 40..hi
  BY <1>2, <1>6
<1> QED  BY <1>2, <1>4, <1>5, <1>6

LEMMA TurboSizes ==
    ASSUME NEW q \in Nat, NEW lo \in Nat, NEW hi \in Nat, q <= hi,
           tc_cb_sizes \subseteq lo..hi, hi \in tc_cb_sizes, lo \in tc_cb_sizes
    PROVE  /\ Least(AtLeast(q)) \in lo..hi
           /\ Least(AtLeast(q)) # lo => /\ Greatest(Below(Least(AtLeast(q)))) \in lo..hi
                                        /\ Greatest(Below(Least(AtLeast(q)))) < Least(AtLeast(q))
                                        /\ Greatest(Below(Least(AtLeast(q)))) < q
<1>1. tc_cb_sizes \subseteq lo..hi /\ hi \in tc_cb_sizes /\ lo \in tc_cb_sizes
  OBVIOUS
<1>2. AtLeast(q) \subseteq lo..hi /\ hi \in AtLeast(q) /\ \A k \in AtLeast(q) : k >= q
  <2>1. hi >= q
    OBVIOUS
  <2> QED  BY <1>1, <2>1 DEF AtLeast
<1>3. Least(AtLeast(q)) \in AtLeast(q) /\ \A k \in AtLeast(q) : Least(AtLeast(q)) <= k
  <2>1. AtLeast(q) # {} /\ lo \in Int /\ hi \in Int
    BY <1>2
  <2> QED  BY <1>2, <2>1, Extremes
<1>4. PICK k1 \in lo..hi : k1 = Least(AtLeast(q)) /\ k1 >= q
  BY <1>2, <1>3
<1>5. ASSUME k1 # lo
      PROVE  Greatest(Below(k1)) \in Below(k1) /\ Below(k1) \subseteq lo..hi
  <2>1. lo < k1
    BY <1>4, <1>5
  <2>2. Below(k1) \subseteq lo..hi /\ lo \in Below(k1)
    BY <1>1, <2>1 DEF Below
  <2>3. Below(k1) # {} /\ lo \in Int /\ hi \in Int
    BY <2>2
  <2> QED  BY <2>2, <2>3, Extremes
<1>6. ASSUME k1 # lo
      PROVE  Greatest(Below(k1)) \in lo..hi /\ Greatest(Below(k1)) < k1 /\ Greatest(Below(k1)) < q
  <2>1. PICK x \in lo..hi : x = Greatest(Below(k1))
    BY <1>5, <1>6
  <2>2. x < k1 /\ x \in tc_cb_sizes
    BY <1>5, <1>6, <2>1 DEF Below
  <2>3. x >= q => x \in AtLeast(q)
    BY <2>2 DEF AtLeast
  <2>4. ~(x >= q)
    <3>1. x >= q => k1 <= x
      BY <1>3, <1>4, <2>3
    <3> QED  BY <1>4, <2>1, <2>2, <3>1
  <2> QED  BY <2>1, <2>2, <2>4
<1> QED  BY <1>4, <1>6

\* Without filler bits the code blocks hold the transport block with its CRC, and their own CRCs.
LEMMA WholeBlocks ==
    ASSUME NEW d \in Definitions, HasSizes(d), NEW p, p.seg = Segmentation(N_TB_bits(d), d.Z)
    PROVE  wp_dec(p, p.seg.C) - 24 = N_TB_bits(d)
<1>1. PICK T \in Nat \ {0} : T = N_TB_bits(d)
  BY CellsAndBits
<1>2. PICK Z \in {2048, 6144} : Z = d.Z
  BY DefinitionsAssumption
<1> DEFINE B  == T + 24
           C0 == IF B <= Z THEN 1 ELSE CeilDiv(B, Z - 24)
<1>3. PICK C \in Nat \ {0} : C = C0 /\ (C = 1 <=> B <= Z) /\ (C # 1 => B <= C * (Z - 24))
  <2>1. C0 \in Nat \ {0} /\ (C0 = 1 <=> B <= Z) /\ (C0 # 1 => B <= C0 * (Z - 24))
    <3>1. CASE Z = 2048
      BY <3>1 DEF CeilDiv
    <3>2. CASE Z = 6144
      BY <3>2 DEF CeilDiv
    <3> QED  BY <3>1, <3>2
  <2> QED  BY <2>1
<1>4. PICK Bp \in Nat \ {0} : Bp = (IF B <= Z THEN B ELSE B + 24 * C)
  BY <1>3
<1>5. PICK q \in Nat : q = CeilDiv(Bp, C) /\ C * q <= Bp + C - 1 /\ q <= Z
  <2>1. PICK x \in Nat : x = Bp + C - 1
    BY <1>3, <1>4
  <2>2. x \div C \in Nat /\ x % C \in 0..C - 1 /\ x = C * (x \div C) + (x % C)
    <3> HIDE DEF C0
    <3> QED  BY Quotient
  <2>3. PICK y \in Nat : y = x \div C
    BY <2>2
  <2>4. PICK r \in 0..C - 1 : r = x % C
    BY <2>2
  <2>5. C * y + r = x /\ C * y \in Nat
    BY <2>2, <2>3, <2>4
  <2>6. Bp <= C * Z
    <3>1. C * (Z - 24) = C * Z - 24 * C /\ C * Z \in Nat
      BY <1>2, <1>3
    <3> QED  BY <1>2, <1>3, <1>4, <3>1
  <2>7. y <= Z
    <3>1. SUFFICES ASSUME y > Z PROVE FALSE
      OBVIOUS
    <3>2. PICK e \in Nat : y = Z + 1 + e
      <4>1. y = Z + 1 + (y - Z - 1) /\ y - Z - 1 \in Nat
        BY <1>2, <2>3, <3>1
      <4> QED  BY <4>1
    <3>3. C * y = C * Z + C + C * e /\ C * e \in Nat /\ C * Z \in Nat
      BY <1>2, <1>3, <3>2
    <3> QED  BY <1>3, <1>4, <2>1, <2>4, <2>5, <2>6, <3>3
  <2> QED  BY <2>1, <2>3, <2>4, <2>5, <2>7 DEF CeilDiv
<1> HIDE DEF C0
<1> DEFINE K1 == Least({k \in tc_cb_sizes : k >= q})
           Small == Greatest({k \in tc_cb_sizes : k < K1})
           K2 == IF C = 1 THEN 0 ELSE IF K1 = 40 THEN K1 ELSE Small
           C2 == IF C = 1 \/ K1 = K2 THEN 0 ELSE (C * K1 - Bp) \div (K1 - K2)
<1>6. Segmentation(T, Z) = [C |-> C, C2 |-> C2, K1 |-> K1, K2 |-> K2,
                            F |-> (C - C2) * K1 + C2 * K2 - Bp]
  <2>1. C = IF T + 24 <= Z THEN 1 ELSE CeilDiv(T + 24, Z - 24)
    BY <1>3 DEF C0
  <2>2. Bp = IF T + 24 <= Z THEN T + 24 ELSE (T + 24) + 24 * C
    BY <1>4
  <2>3. Segmentation(T, Z) = BlocksFor(C, Bp)
    <3> HIDE DEF K1, Small, K2, C2
    <3> QED  BY <2>1, <2>2 DEF Segmentation
  <2>4. BlocksFor(C, Bp) = BlocksOf(C, Bp, K1, K2)
    <3> HIDE DEF C2
    <3> QED  BY <1>5 DEF BlocksFor
  <2>5. BlocksOf(C, Bp, K1, K2) = [C |-> C, C2 |-> C2, K1 |-> K1, K2 |-> K2,
                                   F |-> (C - C2) * K1 + C2 * K2 - Bp]
    <3> HIDE DEF K1, Small, K2
    <3> QED  BY DEF BlocksOf
  <2> QED  BY <2>3, <2>4, <2>5
<1>8. PICK hi \in Nat : /\ hi >= 6144 /\ hi \in tc_cb_sizes /\ tc_cb_sizes \subseteq 40..hi
                       /\ 40 \in tc_cb_sizes
  BY TurboRange
<1>9. PICK lo \in Nat : /\ lo = 40 /\ hi \in tc_cb_sizes /\ tc_cb_sizes \subseteq lo..hi
                       /\ lo \in tc_cb_sizes
  BY <1>8
<1>7. K1 \in lo..hi /\ (K1 # lo => Small \in lo..hi /\ Small < K1 /\ Small < q)
  <2>1. q <= hi
    BY <1>2, <1>5, <1>8
  <2>2. K1 = Least(AtLeast(q)) /\ Small = Greatest(Below(K1))
    BY DEF AtLeast, Below
  <2> HIDE DEF K1, Small
  <2> QED  BY <1>9, <2>1, <2>2, TurboSizes
<1> HIDE DEF K1, Small
<1>10. PICK k1 \in Nat : k1 = K1
  BY <1>7
<1>11. PICK k2 \in Nat : k2 = K2 /\ (C = 1 => k2 = 0) /\ (C # 1 => k2 <= k1 /\ (k2 # k1 => C * k2 < Bp))
  <2>1. CASE C = 1
    <3>1. K2 = 0
      BY <2>1
    <3> HIDE DEF K2
    <3> QED  BY <2>1, <3>1
  <2>2. CASE C # 1 /\ K1 = lo
    <3>1. K2 = k1
      <4>1. K1 = 40
        BY <1>9, <2>2
      <4> QED  BY <1>10, <2>2, <4>1
    <3> HIDE DEF K2
    <3> QED  BY <1>10, <2>2, <3>1
  <2>3. CASE C # 1 /\ K1 # lo
    <3>1. K2 = Small
      <4>1. K1 # 40
        BY <1>9, <2>3
      <4> QED  BY <2>3, <4>1
    <3>2. PICK x \in lo..hi : x = K2 /\ x < k1 /\ x < q
      <4> HIDE DEF K2
      <4> QED  BY <1>7, <1>10, <2>3, <3>1
    <3>4. PICK e \in Nat : q = x + 1 + e
      <4>1. q = x + 1 + (q - x - 1) /\ q - x - 1 \in Nat
        BY <1>5, <3>2
      <4> QED  BY <4>1
    <3>5. C * q = C * x + C + C * e /\ C * e \in Nat /\ C * x \in Nat
      <4>1. \A c, v, w \in Nat : c * (v + 1 + w) = c * v + c + c * w /\ c * w \in Nat /\ c * v \in Nat
        OBVIOUS
      <4>2. C \in Nat /\ x \in Nat
        <5> HIDE DEF K2
        <5> QED  BY <1>3, <3>2
      <4> QED  BY <3>4, <4>1, <4>2
    <3>6. C * x < Bp
      BY <1>3, <1>4, <1>5, <3>5
    <3> HIDE DEF K2
    <3> QED  BY <2>3, <3>2, <3>6
  <2> HIDE DEF K2, C2
  <2> QED  BY <2>1, <2>2, <2>3
<1> HIDE DEF K2
<1>12. C2 = IF C = 1 \/ k1 = k2 THEN 0 ELSE (C * k1 - Bp) \div (k1 - k2)
  BY <1>10, <1>11
<1> HIDE DEF C2
<1>13. C2 \in Int
  <2>1. C = 1 \/ k1 = k2 \/ k1 - k2 \in Nat \ {0}
    <3>1. C # 1 /\ k1 # k2 => k2 < k1
      BY <1>11
    <3> QED  BY <3>1
  <2>2. C * k1 - Bp \in Int
    BY <1>3, <1>4, <1>10
  <2> QED  BY <1>12, <2>1, <2>2
<1>14. PICK c2 \in Int : c2 = C2
  BY <1>13
<1>15. (C - c2) * k1 + c2 * k2 = Bp
  <2>1. Segmentation(T, Z).F = 0
    BY <1>1, <1>2 DEF HasSizes
  <2>2. (C - c2) * k1 + c2 * k2 - Bp = 0
    <3> QED  BY <1>6, <1>10, <1>11, <1>14, <2>1
  <2>3. (C - c2) * k1 \in Int /\ c2 * k2 \in Int
    BY <1>3, <1>10, <1>11, <1>14
  <2> QED  BY <1>4, <2>2, <2>3
<1>16. /\ p.seg.C = C /\ p.seg.C2 = c2 /\ p.seg.K1 = k1 /\ p.seg.K2 = k2
  <2> QED  BY <1>1, <1>2, <1>6, <1>10, <1>11, <1>14
<1>17. CASE C = 1
  <2>1. c2 = 0 /\ Bp = T + 24
    BY <1>3, <1>4, <1>12, <1>14, <1>17
  <2>2. wp_dec(p, 1) = 0 * (k2 - 0) + (1 - 0) * (k1 - 0)
    BY <1>16, <1>17, <2>1 DEF wp_dec
  <2>3. k1 = Bp
    BY <1>4, <1>10, <1>11, <1>15, <1>17, <2>1
  <2> QED  BY <1>1, <1>10, <1>11, <1>16, <1>17, <2>1, <2>2, <2>3
<1>18. CASE C # 1
  <2>1. c2 <= C
    <3>1. CASE k1 = k2
      <4>1. c2 = 0
        BY <1>12, <1>14, <3>1
      <4> QED  BY <1>3, <4>1
    <3>2. CASE k1 # k2
      <4>1. SUFFICES ASSUME c2 > C PROVE FALSE
        BY <1>3, <1>14
      <4>2. PICK e \in Nat : c2 = C + e
        <5>1. c2 = C + (c2 - C) /\ c2 - C \in Nat
          BY <1>3, <1>14, <4>1
        <5> QED  BY <5>1
      <4>3. PICK f \in Nat : k1 = k2 + f
        <5>1. k1 = k2 + (k1 - k2) /\ k1 - k2 \in Nat
          BY <1>10, <1>11, <1>18
        <5> QED  BY <5>1
      <4>4. (C - c2) * k1 + c2 * k2 = C * k2 - e * f
        <5>1. \A c, v, w, x \in Int : (c - (c + v)) * (w + x) + (c + v) * w = c * w - v * x
          OBVIOUS
        <5>2. C \in Int /\ k2 \in Int /\ e \in Int /\ f \in Int
          BY <1>11
        <5> QED  BY <4>2, <4>3, <5>1, <5>2
      <4>5. e * f \in Nat /\ C * k2 \in Nat
        <5>1. \A v, w \in Nat : v * w \in Nat
          OBVIOUS
        <5>2. C \in Nat /\ k2 \in Nat
          BY <1>11
        <5> QED  BY <5>1, <5>2
      <4> QED  BY <1>4, <1>11, <1>15, <1>18, <3>2, <4>4, <4>5
    <3> QED  BY <3>1, <3>2
  <2>2. wp_dec(p, C) = c2 * (k2 - 24) + (C - c2) * (k1 - 24)
    <3>1. (IF C < c2 THEN C ELSE c2) = c2
      BY <1>3, <1>14, <2>1
    <3> QED  BY <1>16, <1>18, <3>1 DEF wp_dec
  <2>3. c2 * (k2 - 24) + (C - c2) * (k1 - 24) = ((C - c2) * k1 + c2 * k2) - 24 * C
    <3>1. \A c, v, w, x \in Int : v * (w - 24) + (c - v) * (x - 24) = ((c - v) * x + v * w) - 24 * c
      OBVIOUS
    <3>2. C \in Int /\ k2 \in Int /\ k1 \in Int
      BY <1>10, <1>11
    <3> QED  BY <1>14, <3>1, <3>2
  <2>4. Bp = (T + 24) + 24 * C
    BY <1>3, <1>4, <1>18
  <2> QED  BY <1>1, <1>3, <1>15, <1>16, <2>2, <2>3, <2>4
<1> QED  BY <1>17, <1>18

\* A factor that is not zero can be cancelled.
LEMMA Cancelled ==
    ASSUME NEW q \in {1, 2, 4, 6, 8}, NEW x \in Int, NEW y \in Int, q * x = q * y
    PROVE  x = y
<1>1. CASE q = 1
  BY <1>1
<1>2. CASE q = 2
  BY <1>2
<1>3. CASE q = 4
  BY <1>3
<1>4. CASE q = 6
  BY <1>4
<1>5. CASE q = 8
  BY <1>5
<1> QED  BY <1>1, <1>2, <1>3, <1>4, <1>5

\* run_pdc maps whole bytes: with a modulation whose symbols have a divisor of 24 bits, fewer
\* symbols than 24 are left over, none at the end of the packet.
MappingCall(q, s, r, c, M, bits, need, new, res) ==
    /\ q \in {1, 2, 4, 6, 8} /\ s \in Nat /\ r \in 0..23 /\ c \in Nat /\ M \in Nat
    /\ s + c <= M /\ (r > 0 => c >= 28)
    /\ bits \in Nat /\ bits = q * (s + r) /\ bits <= q * M /\ (bits < q * M => bits % 24 = 0)
    /\ need \in Int /\ need = CeilDiv((c - r) * q, 24) * 24
    /\ new \in Int /\ new = (IF c < r \/ need > q * M - bits THEN q * M - bits ELSE need)
    /\ res \in Int /\ res = (r + new \div q) - c

LEMMA Mapping ==
    ASSUME NEW q, NEW s, NEW r, NEW c, NEW M, NEW bits, NEW need, NEW new, NEW res,
           MappingCall(q, s, r, c, M, bits, need, new, res)
    PROVE  /\ new % q = 0 /\ (bits < q * M => bits % 8 = 0) /\ res \in 0..23 /\ new \in Nat
           /\ bits + new = q * ((s + c) + res) /\ bits + new <= q * M
           /\ bits + new < q * M => (bits + new) % 24 = 0
<1> /\ q \in {1, 2, 4, 6, 8} /\ s \in Nat /\ r \in 0..23 /\ c \in Nat /\ M \in Nat
    /\ s + c <= M /\ (r > 0 => c >= 28)
    /\ bits \in Nat /\ bits = q * (s + r) /\ bits <= q * M /\ (bits < q * M => bits % 24 = 0)
    /\ need \in Int /\ need = CeilDiv((c - r) * q, 24) * 24
    /\ new \in Int /\ new = (IF c < r \/ need > q * M - bits THEN q * M - bits ELSE need)
    /\ res \in Int /\ res = (r + new \div q) - c
  BY DEF MappingCall
<1>1. PICK k \in Nat : need = 24 * k /\ (c - r) * q <= need /\ need < (c - r) * q + 24
  <2>1. c - r \in Nat
    OBVIOUS
  <2>2. PICK x \in Nat : x = (c - r) * q
    BY <2>1
  <2>3. (x + 24 - 1) \div 24 \in Nat /\ x <= ((x + 24 - 1) \div 24) * 24
        /\ ((x + 24 - 1) \div 24) * 24 < x + 24
    OBVIOUS
  <2>4. need = ((x + 24 - 1) \div 24) * 24
    BY <2>2 DEF CeilDiv
  <2> QED  BY <2>2, <2>3, <2>4
<1>2. ~(c < r)
  OBVIOUS
<1>3. \E e \in Nat : new = q * e
  <2>1. CASE need > q * M - bits
    <3>1. new = q * M - q * (s + r)
      BY <2>1
    <3>2. s + r <= M
      <4>1. CASE q = 1
        BY <4>1
      <4>2. CASE q = 2
        BY <4>2
      <4>3. CASE q = 4
        BY <4>3
      <4>4. CASE q = 6
        BY <4>4
      <4>5. CASE q = 8
        BY <4>5
      <4> QED  BY <4>1, <4>2, <4>3, <4>4, <4>5
    <3>3. new = q * (M - (s + r)) /\ M - (s + r) \in Nat
      <4>1. q * (M - (s + r)) = q * M - q * (s + r)
        OBVIOUS
      <4> QED  BY <3>1, <3>2, <4>1
    <3> QED  BY <3>3
  <2>2. CASE ~(need > q * M - bits)
    <3>1. new = 24 * k
      BY <1>1, <1>2, <2>2
    <3>2. 24 * k = 1 * (24 * k) /\ 24 * k = 2 * (12 * k) /\ 24 * k = 4 * (6 * k)
          /\ 24 * k = 6 * (4 * k) /\ 24 * k = 8 * (3 * k)
          /\ 24 * k \in Nat /\ 12 * k \in Nat /\ 6 * k \in Nat /\ 4 * k \in Nat /\ 3 * k \in Nat
      OBVIOUS
    <3> QED  BY <3>1, <3>2
  <2> QED  BY <2>1, <2>2
<1>4. PICK e \in Nat : new = q * e
  BY <1>3
<1>5. new \div q = e /\ new % q = 0 /\ new \in Nat
  BY <1>4
<1>6. res = (r + e) - c
  BY <1>5
<1>7. bits + new = q * ((s + c) + res)
  <2>1. q * (s + r) + q * e = q * ((s + c) + ((r + e) - c))
    OBVIOUS
  <2> QED  BY <1>4, <1>6, <2>1
<1>8. bits + new <= q * M /\ (bits + new < q * M => new = need /\ bits < q * M)
  <2>1. PICK g \in Nat : g = q * M
    OBVIOUS
  <2>2. new = (IF need > g - bits THEN g - bits ELSE need) /\ bits <= g
    BY <1>2, <2>1
  <2>3. bits + new <= g /\ (bits + new < g => new = need /\ bits < g)
    BY <1>5, <2>2
  <2> QED  BY <2>1, <2>3
<1>9. bits + new < q * M => (bits + new) % 24 = 0
  <2> SUFFICES ASSUME bits + new < q * M PROVE (bits + new) % 24 = 0
    OBVIOUS
  <2>1. bits % 24 = 0 /\ new = 24 * k
    BY <1>1, <1>8
  <2> QED  BY <2>1
<1>10. res \in 0..23
  <2>1. CASE need > q * M - bits
    <3>1. new = q * M - bits
      BY <2>1
    <3>2. q * ((s + c) + res) = q * M
      BY <1>7, <3>1
    <3>3. res = M - (s + c)
      <4>1. (s + c) + res \in Int /\ M \in Int
        OBVIOUS
      <4>2. (s + c) + res = M
        BY <3>2, <4>1, Cancelled
      <4> QED  BY <4>2
    <3>4. q * res < 24
      <4>1. q * M - bits < (c - r) * q + 24
        BY <1>1, <2>1
      <4>2. q * res = (q * M - q * (s + r)) - (c - r) * q
        <5>1. q * (M - (s + c)) = (q * M - q * (s + r)) - (c - r) * q
          OBVIOUS
        <5> QED  BY <3>3, <5>1
      <4>3. PICK g \in Int : g = q * M
        OBVIOUS
      <4>4. PICK f \in Int : f = (c - r) * q
        OBVIOUS
      <4> QED  BY <4>1, <4>2, <4>3, <4>4
    <3>5. res \in Nat
      BY <3>3
    <3>6. res <= q * res
      <4>1. CASE q = 1
        BY <3>5, <4>1
      <4>2. CASE q = 2
        BY <3>5, <4>2
      <4>3. CASE q = 4
        BY <3>5, <4>3
      <4>4. CASE q = 6
        BY <3>5, <4>4
      <4>5. CASE q = 8
        BY <3>5, <4>5
      <4> QED  BY <4>1, <4>2, <4>3, <4>4, <4>5
    <3>7. PICK y \in Int : y = q * res
      OBVIOUS
    <3>8. y < 24 /\ res <= y
      BY <3>4, <3>6, <3>7
    <3>9. \A u \in Nat, v \in Int : v < 24 /\ u <= v => u \in 0..23
      OBVIOUS
    <3> QED  BY <3>5, <3>8, <3>9
  <2>2. CASE ~(need > q * M - bits)
    <3>1. q * e = need
      BY <1>2, <1>4, <2>2
    <3>2. (c - r) * q <= q * e /\ q * e < (c - r) * q + 24
      BY <1>1, <3>1
    <3>3. c - r <= e /\ e < (c - r) + 24
      <4>1. CASE q = 1
        BY <3>2, <4>1
      <4>2. CASE q = 2
        BY <3>2, <4>2
      <4>3. CASE q = 4
        BY <3>2, <4>3
      <4>4. CASE q = 6
        BY <3>2, <4>4
      <4>5. CASE q = 8
        BY <3>2, <4>5
      <4> QED  BY <4>1, <4>2, <4>3, <4>4, <4>5
    <3> QED  BY <1>6, <3>3
  <2> QED  BY <2>1, <2>2
<1>11. bits < q * M => bits % 8 = 0
  <2> SUFFICES ASSUME bits % 24 = 0 PROVE bits % 8 = 0
    OBVIOUS
  <2> QED  OBVIOUS
<1> QED  BY <1>5, <1>7, <1>8, <1>9, <1>10, <1>11

\* One symbol of a packet: its cells, and what follows for the numbers of all cells up to it.
LEMMA OneSymbol ==
    ASSUME GridConfig, NEW m \in Nat, NEW l, l = m + 1
    PROVE  /\ PdcSize(l) \in Nat /\ (IsPdc(l) <=> PdcSize(l) # 0)
           /\ PdcUpTo(b, N_eff_TX, l) = PdcUpTo(b, N_eff_TX, m) + PdcSize(l)
           /\ PdcUpTo(b, N_eff_TX, m) \in Nat /\ PdcUpTo(b, N_eff_TX, 0) = 0
           /\ PccUpTo(b, N_eff_TX, m) = 98 => PdcSize(l) = 0 \/ PdcSize(l) >= 28
           /\ PccUpTo(b, N_eff_TX, m) # 98 => PdcUpTo(b, N_eff_TX, m) = 0
           /\ PccUpTo(b, N_eff_TX, l) # 98 => ~IsPdc(l)
           /\ PccUpTo(b, N_eff_TX, m) \in 0..98 /\ PccUpTo(b, N_eff_TX, 0) = 0
           /\ PccUpTo(b, N_eff_TX, l)
                = PccUpTo(b, N_eff_TX, m) + (IF PccIn(b, N_eff_TX, l) # {} THEN PccSize(l) ELSE 0)
           /\ PccIn(b, N_eff_TX, l) # {} => PccSize(l) \in Nat \ {0} /\ l \in 1..5
<1>1. PICK N \in Ns : N = N_eff_TX
  BY Configured
<1>2. PICK b0 \in Bs : b0 = b
  BY Configured
<1>3. l \in Nat \ {0}
  OBVIOUS
<1>4. PdcCells[b0][N][Row(l)] = PdcIn(b0, N, RawRow(N, l))
  BY <1>1, <1>2, <1>3, PdcRow DEF Row
<1>5. PICK c : c = Cardinality(PdcIn(b0, N, RawRow(N, l)))
  OBVIOUS
<1>6. PdcSize(l) = c /\ (IsPdc(l) <=> PdcIn(b0, N, RawRow(N, l)) # {})
  BY <1>1, <1>2, <1>4, <1>5 DEF PdcSize, IsPdc
<1>7. /\ PdcUpTo(b0, N, m) \in Int /\ PdcUpTo(b0, N, 0) = 0 /\ c \in Nat
      /\ PdcUpTo(b0, N, l) = PdcUpTo(b0, N, m) + c
      /\ c = 0 <=> PdcIn(b0, N, RawRow(N, l)) = {}
      /\ PccUpTo(b0, N, m) = 98 => c = 0 \/ c >= 28
  BY <1>5, PdcNext, ZenonT(60)
<1>8. /\ PccUpTo(b0, N, m) \in 0..98 /\ PccUpTo(b0, N, 0) = 0
      /\ IsFiniteSet(PccIn(b0, N, l))
      /\ PccUpTo(b0, N, l) = PccUpTo(b0, N, m) + Cardinality(PccIn(b0, N, l))
      /\ PccUpTo(b0, N, l) < 98 => PdcIn(b0, N, RawRow(N, l)) = {}
  BY PccNext
<1>9. PccUpTo(b0, N, l) \in 0..98
  BY <1>3, PccNext
<1>10. PdcUpTo(b0, N, m) \in Nat
  <2>1. m <= m
    OBVIOUS
  <2> QED  BY <2>1, PdcGrows
<1>11. PccUpTo(b0, N, m) < 98 => PdcUpTo(b0, N, m) = 0
  BY PccFirst
<1>12. /\ PccIn(b0, N, l) # {} => PccSize(l) = Cardinality(PccIn(b0, N, l)) /\ l \in 1..5
       /\ PccIn(b0, N, l) # {} => Cardinality(PccIn(b0, N, l)) \in Nat \ {0}
       /\ PccIn(b0, N, l) = {} => Cardinality(PccIn(b0, N, l)) = 0
  <2>1. PccIn(b0, N, l) # {} => PccSize(l) = Cardinality(PccIn(b0, N, l)) /\ l \in 1..5
    BY <1>1, <1>2 DEF PccIn, PccSize
  <2>2. /\ Cardinality(PccIn(b0, N, l)) \in Nat
        /\ Cardinality(PccIn(b0, N, l)) = 0 <=> PccIn(b0, N, l) = {}
    BY <1>8, FS_CardinalityType, FS_EmptySet
  <2> QED  BY <2>1, <2>2
<1>13. PccUpTo(b0, N, l)
           = PccUpTo(b0, N, m) + (IF PccIn(b0, N, l) # {} THEN PccSize(l) ELSE 0)
  BY <1>8, <1>12
<1>14. PccUpTo(b0, N, m) # 98 => PdcUpTo(b0, N, m) = 0
  BY <1>8, <1>11
<1>15. PccUpTo(b0, N, l) # 98 => ~IsPdc(l)
  BY <1>6, <1>8, <1>9
<1> QED  BY <1>1, <1>2, <1>6, <1>7, <1>8, <1>10, <1>12, <1>13, <1>14, <1>15

\* The pilots that drs_t adds for a symbol are those of the symbol.
LEMMA PilotsAdded ==
    ASSUME GridConfig, NEW l, l = ofdm_symb_idx, l \in Nat \ {0},
           NEW k \in Nat, NEW h \in {0, 1}, DrsDue(k, h), Between(k, h), GridIndices
    PROVE  /\ PilotsUpTo(b, N_eff_TX, l) = PilotsUpTo(b, N_eff_TX, l - 1) + DrsCount
           /\ PilotsUpTo(b, N_eff_TX, l - 1) \in Nat /\ DrsCount \in Nat
           /\ PilotsUpTo(b, N_eff_TX, 0) = 0
           /\ DrsCount = IF IsDrs(l) THEN DrsSize ELSE 0
<1>1. PICK N \in Ns : N = N_eff_TX
  BY Configured
<1>2. PICK b0 \in Bs : b0 = b
  BY Configured
<1>3. PICK m \in Nat : m = l - 1 /\ l = m + 1
  OBVIOUS
<1>4. PICK q \in Nat : q = Quarter(b0) /\ q = N_b_OCC(b0) \div 4
  BY CombSize DEF Quarter
<1>5. PICK r : r = RawRow(N, l)
  OBVIOUS
<1>6. PICK c : c = Cardinality(DrsCells(b0, N, 30, r))
  OBVIOUS
<1>7. /\ PilotsUpTo(b0, N, m) \in Nat /\ PilotsUpTo(b0, N, 0) = 0
      /\ PilotsUpTo(b0, N, l) = PilotsUpTo(b0, N, m) + c
  BY <1>3, <1>5, <1>6, PilotsNext
<1>8. /\ N <= 2 => c = IF m % 5 = 0 THEN N * q ELSE 0
      /\ N = 4 => c = IF m % 10 = 0 THEN 4 * q ELSE 0
      /\ N = 8 => c = IF m % 10 \in {0, 1} THEN 4 * q ELSE 0
  <2>1. r = RawRow(N, m + 1)
    BY <1>3, <1>5
  <2>2. /\ N <= 2 => Cardinality(DrsCells(b0, N, 30, r)) = IF m % 5 = 0 THEN N * Quarter(b0) ELSE 0
        /\ N = 4 => Cardinality(DrsCells(b0, N, 30, r)) = IF m % 10 = 0 THEN 4 * Quarter(b0) ELSE 0
        /\ N = 8 => Cardinality(DrsCells(b0, N, 30, r))
                        = IF m % 10 \in {0, 1} THEN 4 * Quarter(b0) ELSE 0
    BY <2>1, PilotRow
  <2> QED  BY <1>4, <1>6, <2>2, Zenon
<1>9. DrsCount = IF IsDrs(l) THEN DrsSize ELSE 0
  BY DEF DrsCount
<1>10. CASE ~IsDrs(l)
  <2>1. DrsCells(b0, N, 30, r) = {}
    BY <1>1, <1>2, <1>5, <1>10, PilotCells
  <2>2. c = 0
    BY <1>6, <2>1, FS_EmptySet
  <2> QED  BY <1>1, <1>2, <1>3, <1>7, <1>9, <1>10, <2>2
<1>11. CASE IsDrs(l)
  <2>1. /\ N \in {1, 2, 4, 8} /\ step = (IF N <= 2 THEN 5 ELSE 10) /\ (h = 1 => N = 8)
        /\ drs.l_next = (1 + k * step) + h /\ drs.TS_first = 4 * h
    BY <1>1 DEF Ns, step, N_step, DrsDue
  <2>2. l = (1 + k * step) + h /\ m = k * step + h
    <3>1. l = (1 + k * step) + h
      BY <1>11, <2>1 DEF IsDrs
    <3>2. PICK x \in Nat : x = k * step
      BY <2>1, Products
    <3> QED  BY <1>3, <3>1, <3>2
  <2>3. get_ts_idx_last = IF h = 0 THEN (IF N < 4 THEN N - 1 ELSE 3) ELSE 7
    BY <1>1, <2>1 DEF get_ts_idx_last
  <2>4. DrsSize = (get_ts_idx_last - drs.TS_first + 1) * q
    BY <1>2, <1>4 DEF DrsSize
  <2>5. c = DrsSize
    <3>1. CASE N = 1
      <4>1. m % 5 = 0 /\ DrsSize = q
        BY <2>1, <2>2, <2>3, <2>4, <3>1
      <4> QED  BY <1>8, <3>1, <4>1
    <3>2. CASE N = 2
      <4>1. m % 5 = 0 /\ DrsSize = 2 * q
        BY <2>1, <2>2, <2>3, <2>4, <3>2
      <4> QED  BY <1>8, <3>2, <4>1
    <3>3. CASE N = 4
      <4>1. m % 10 = 0 /\ DrsSize = 4 * q
        BY <2>1, <2>2, <2>3, <2>4, <3>3
      <4> QED  BY <1>8, <3>3, <4>1
    <3>4. CASE N = 8
      <4>1. m % 10 \in {0, 1}
        BY <2>1, <2>2, <3>4
      <4>2. DrsSize = 4 * q
        BY <2>1, <2>3, <2>4, <3>4
      <4> QED  BY <1>8, <3>4, <4>1, <4>2
    <3> QED  BY <2>1, <3>1, <3>2, <3>3, <3>4
  <2>6. c \in Nat
    <3>1. DrsSize \in {q, 2 * q, 4 * q, 0}
      BY <1>8, <2>1, <2>5
    <3> QED  BY <2>5, <3>1
  <2> QED  BY <1>1, <1>2, <1>3, <1>7, <1>9, <1>11, <2>5, <2>6
<1> QED  BY <1>10, <1>11

-----------------------------------------------------------------------------
(* What is written for a symbol and how many cells and bits are due before it. *)

\* The modulations that tx_t and rx_synced_t accept: symbols of 1, 2, 4, 6 or 8 bits.
McsLimit == \A d \in Definitions : d.mcs_index <= 9

\* what is sent for symbol m
Written(m, a) ==
    /\ a.pcc = IF PccIn(b, N_eff_TX, m) # {} THEN <<m, PccUpTo(b, N_eff_TX, m - 1)>> ELSE <<>>
    /\ a.pdc = IF IsPdc(m) THEN <<Row(m), N_SS(psdef) * PdcUpTo(b, N_eff_TX, m - 1)>> ELSE <<>>
AirRight(n) == \A m \in 1..n : Written(m, air[m])

\* m symbols are complete
SentCounts(m) ==
    /\ cnt.DRS_idx = PilotsUpTo(b, N_eff_TX, m) /\ cnt.PCC_idx = PccUpTo(b, N_eff_TX, m)
    /\ cnt.PDC_subc_idx = N_SS(psdef) * PdcUpTo(b, N_eff_TX, m)
    /\ cnt.residual \in 0..23
    /\ cnt.PDC_bits_idx \in Nat /\ cnt.PDC_bits_idx <= G(psdef)
    /\ cnt.PDC_bits_idx = N_bps(psdef) * (cnt.PDC_subc_idx + cnt.residual)
    /\ cnt.PDC_bits_idx < G(psdef) => cnt.PDC_bits_idx % 24 = 0
    /\ PccUpTo(b, N_eff_TX, m) # 98 => cnt.residual = 0
WrittenState ==
    part = "tx" => \E m \in Nat : /\ ofdm_symb_idx = m + 1 /\ m <= N_DF_symb(psdef)
                                  /\ SentCounts(m) /\ AirRight(m)

\* The packet as a whole.
LEMMA WholePacket ==
    ASSUME GridConfig, McsLimit
    PROVE  /\ N_bps(psdef) \in {1, 2, 4, 6, 8} /\ N_SS(psdef) \in {1, 2, 4, 8}
           /\ N_DF_symb(psdef) \in Nat \ {0}
           /\ N_PDC_subc(psdef) \in Nat /\ G(psdef) = N_bps(psdef) * (N_SS(psdef) * N_PDC_subc(psdef))
           /\ PilotsUpTo(b, N_eff_TX, N_DF_symb(psdef)) = N_DRS_subc(psdef)
           /\ PccUpTo(b, N_eff_TX, N_DF_symb(psdef)) = 98
           /\ PdcUpTo(b, N_eff_TX, N_DF_symb(psdef)) = N_PDC_subc(psdef)
<1>1. psdef \in Definitions /\ HasSizes(psdef)
  BY DEF GridConfig
<1>2. N_bps(psdef) \in {1, 2, 4, 6, 8}
  <2>1. psdef.mcs_index \in {0, 1, 2, 3, 4, 5, 6, 7, 8, 9}
    BY <1>1, DefinitionsAssumption DEF McsLimit
  <2> QED  BY <2>1 DEF N_bps, mcs
<1>3. N_PDC_subc(psdef) \in Nat /\ G(psdef) = N_bps(psdef) * (N_SS(psdef) * N_PDC_subc(psdef))
  BY <1>1, CellsAndBits
<1>4. /\ N_DF_symb(psdef) \in Nat \ {0}
      /\ PilotsUpTo(psdef.b, N_TS(psdef), N_DF_symb(psdef)) = N_DRS_subc(psdef)
      /\ PccUpTo(psdef.b, N_TS(psdef), N_DF_symb(psdef)) = 98
      /\ PdcUpTo(psdef.b, N_TS(psdef), N_DF_symb(psdef)) = N_PDC_subc(psdef)
  BY <1>1, Totals
<1>5. b = psdef.b /\ N_eff_TX = N_TS(psdef)
  BY DEF b, N_eff_TX
<1> QED  BY <1>2, <1>3, <1>4, <1>5, Configured

\* run_pdc of the transmitter.
LEMMA PdcOfSymbol ==
    ASSUME GridConfig, McsLimit, NEW m \in Nat, m < N_DF_symb(psdef), SentCounts(m), NEW l, l = m + 1,
           IsPdc(l)
    PROVE  /\ PdcMapped(l) /\ NewBits(l) \in Nat /\ Residual(l) \in 0..23
           /\ (cnt.PDC_bits_idx \div N_bps(psdef)) - cnt.residual = N_SS(psdef) * PdcUpTo(b, N_eff_TX, m)
           /\ cnt.PDC_bits_idx + NewBits(l) <= G(psdef)
           /\ cnt.PDC_subc_idx + N_SS(psdef) * PdcSize(l) = N_SS(psdef) * PdcUpTo(b, N_eff_TX, l)
           /\ cnt.PDC_bits_idx + NewBits(l)
                = N_bps(psdef) * ((cnt.PDC_subc_idx + N_SS(psdef) * PdcSize(l)) + Residual(l))
           /\ cnt.PDC_bits_idx + NewBits(l) < G(psdef) => (cnt.PDC_bits_idx + NewBits(l)) % 24 = 0
           /\ PccUpTo(b, N_eff_TX, l) = 98
<1>1. PICK q \in {1, 2, 4, 6, 8} : q = N_bps(psdef)
  BY WholePacket
<1>2. PICK S \in {1, 2, 4, 8} : S = N_SS(psdef)
  BY WholePacket
<1>3. PICK n \in Nat : n = N_DF_symb(psdef)
  BY WholePacket
<1>4. PICK T \in Nat : T = N_PDC_subc(psdef) /\ G(psdef) = q * (S * T)
  BY <1>1, <1>2, WholePacket
<1>5. PICK w \in Nat : w = PdcSize(l) /\ w # 0
  BY OneSymbol
<1>6. PICK x \in Nat : /\ x = PdcUpTo(b, N_eff_TX, m) /\ PdcUpTo(b, N_eff_TX, l) = x + w
  BY <1>5, OneSymbol
<1>7. x + w <= T
  <2>1. l \in Nat /\ l <= n /\ n \in Nat
    BY <1>3
  <2>2. b \in Bs /\ N_eff_TX \in Ns
    BY Configured
  <2>3. PdcUpTo(b, N_eff_TX, l) <= PdcUpTo(b, N_eff_TX, n)
    BY <2>1, <2>2, PdcGrows
  <2>4. PdcUpTo(b, N_eff_TX, n) = T
    BY <1>3, <1>4, WholePacket
  <2> QED  BY <1>6, <2>3, <2>4
<1>8. PICK r \in 0..23 : r = cnt.residual
  BY DEF SentCounts
<1>9. PICK s \in Nat : s = S * x /\ s = cnt.PDC_subc_idx
  BY <1>2, <1>6 DEF SentCounts
<1>10. PICK c \in Nat : c = S * w /\ c >= w
  BY <1>5
<1>11. PICK M \in Nat : M = S * T /\ G(psdef) = q * M
  BY <1>4
<1>12. s + c <= M /\ s + c = S * (x + w)
  <2>1. S = 1 \/ S = 2 \/ S = 4 \/ S = 8
    OBVIOUS
  <2> QED  BY <1>7, <1>9, <1>10, <1>11, <2>1
<1>13. PICK bits \in Nat : /\ bits = cnt.PDC_bits_idx /\ bits = q * (s + r) /\ bits <= q * M
                           /\ bits < q * M => bits % 24 = 0
  BY <1>1, <1>8, <1>9, <1>11 DEF SentCounts
<1>14. r > 0 => c >= 28
  <2>1. r > 0 => PccUpTo(b, N_eff_TX, m) = 98
    BY <1>8 DEF SentCounts
  <2>2. PccUpTo(b, N_eff_TX, m) = 98 => w = 0 \/ w >= 28
    BY <1>5, OneSymbol
  <2> QED  BY <1>5, <1>10, <2>1, <2>2
<1>15. PICK need \in Int : need = CeilDiv((c - r) * q, 24) * 24
  <2>1. (c - r) * q \in Int
    OBVIOUS
  <2>2. PICK y \in Int : y = (c - r) * q
    BY <2>1
  <2>3. CeilDiv(y, 24) \in Int
    BY DEF CeilDiv
  <2> QED  BY <2>2, <2>3
<1>16. PICK new \in Int : new = IF c < r \/ need > q * M - bits THEN q * M - bits ELSE need
  BY <1>15
<1>17. new = NewBits(l)
  BY <1>1, <1>2, <1>5, <1>8, <1>10, <1>11, <1>13, <1>15, <1>16 DEF NewBits
<1>18. PICK res \in Int : res = (r + new \div q) - c
  <2>1. \A y \in {1, 2, 4, 6, 8} : new \div y \in Int
    OBVIOUS
  <2>2. PICK e \in Int : e = new \div q
    BY <2>1
  <2> QED  BY <2>2
<1>19. res = Residual(l)
  BY <1>1, <1>2, <1>5, <1>8, <1>10, <1>17, <1>18 DEF Residual
<1>20. /\ new % q = 0 /\ (bits < q * M => bits % 8 = 0) /\ res \in 0..23 /\ new \in Nat
       /\ bits + new = q * ((s + c) + res) /\ bits + new <= q * M
       /\ bits + new < q * M => (bits + new) % 24 = 0
  <2>1. MappingCall(q, s, r, c, M, bits, need, new, res)
    BY <1>12, <1>13, <1>14, <1>15, <1>16, <1>18 DEF MappingCall
  <2> QED  BY <2>1, Mapping
<1>21. PdcMapped(l)
  BY <1>1, <1>11, <1>13, <1>17, <1>19, <1>20 DEF PdcMapped
<1>22. (bits \div q) - r = s
  <2>1. (q * (s + r)) \div q = s + r
    OBVIOUS
  <2> QED  BY <1>13, <2>1
<1>23. PccUpTo(b, N_eff_TX, l) = 98
  BY OneSymbol
<1>24. /\ N_bps(psdef) = q /\ G(psdef) = q * M /\ cnt.residual = r /\ cnt.PDC_bits_idx = bits
       /\ cnt.PDC_subc_idx = s /\ NewBits(l) = new /\ Residual(l) = res /\ PdcSize(l) = w
       /\ N_SS(psdef) = S /\ PdcUpTo(b, N_eff_TX, m) = x /\ PdcUpTo(b, N_eff_TX, l) = x + w
       /\ S * w = c /\ S * x = s /\ S * (x + w) = s + c
  BY <1>1, <1>2, <1>5, <1>6, <1>8, <1>9, <1>10, <1>11, <1>12, <1>13, <1>17, <1>19
<1> QED  BY <1>20, <1>21, <1>22, <1>23, <1>24, Zenon

\* The tables of a packet stay as they are.
LEMMA SameTables ==
    ASSUME UNCHANGED psdef
    PROVE  /\ b' = b /\ N_eff_TX' = N_eff_TX /\ step' = step /\ pcc_symbol_idx_max' = pcc_symbol_idx_max
           /\ N_DF_symb(psdef)' = N_DF_symb(psdef)
           /\ \A l : /\ IsPdc(l)' = IsPdc(l) /\ Row(l)' = Row(l)
                     /\ PilotsUpTo(b, N_eff_TX, l)' = PilotsUpTo(b, N_eff_TX, l)
                     /\ PccUpTo(b, N_eff_TX, l)' = PccUpTo(b, N_eff_TX, l)
                     /\ PdcUpTo(b, N_eff_TX, l)' = PdcUpTo(b, N_eff_TX, l)
<1>1. b' = b /\ N_eff_TX' = N_eff_TX /\ step' = step
  BY SamePacket DEF b
<1>2. pcc_symbol_idx_max' = pcc_symbol_idx_max
  BY <1>1 DEF pcc_symbol_idx_max
<1>3. \A l : IsPdc(l)' = IsPdc(l) /\ Row(l)' = Row(l)
  BY <1>1 DEF IsPdc, Row
<1>4. N_DF_symb(psdef)' = N_DF_symb(psdef)
  OBVIOUS
<1>5. \A l : /\ PilotsUpTo(b, N_eff_TX, l)' = PilotsUpTo(b, N_eff_TX, l)
             /\ PccUpTo(b, N_eff_TX, l)' = PccUpTo(b, N_eff_TX, l)
             /\ PdcUpTo(b, N_eff_TX, l)' = PdcUpTo(b, N_eff_TX, l)
  BY <1>1
<1> QED  BY <1>1, <1>2, <1>3, <1>4, <1>5

\* The last symbol with PCC cells.
LEMMA PccLast ==
    ASSUME GridConfig, McsLimit
    PROVE  /\ pcc_symbol_idx_max \in 1..4 /\ (N_eff_TX = 8 => pcc_symbol_idx_max >= 3)
           /\ pcc_symbol_idx_max <= N_DF_symb(psdef)
           /\ PccUpTo(b, N_eff_TX, pcc_symbol_idx_max) = 98
           /\ \A i \in Nat : i < pcc_symbol_idx_max => PccUpTo(b, N_eff_TX, i) # 98
<1>1. PICK N \in Ns : N = N_eff_TX
  BY Configured
<1>2. PICK b0 \in Bs : b0 = b
  BY Configured
<1>3. PICK P : P = PccSymbols[b0][N]
  OBVIOUS
<1>4. P \subseteq 1..5 /\ \A l \in 1..5 : l \in P <=> PccIn(b0, N, l) # {}
  BY <1>3 DEF PccSymbols, PccIn
<1>5. \A m \in Nat : /\ PccUpTo(b0, N, m) \in 0..98
                     /\ PccIn(b0, N, m + 1) = {} => PccUpTo(b0, N, m + 1) = PccUpTo(b0, N, m)
                     /\ PccIn(b0, N, m + 1) # {} => PccUpTo(b0, N, m + 1) > PccUpTo(b0, N, m)
  <2> TAKE m \in Nat
  <2>1. PICK l \in Nat : l = m + 1
    OBVIOUS
  <2>2. /\ PccUpTo(b0, N, m) \in 0..98
        /\ PccUpTo(b0, N, l)
             = PccUpTo(b0, N, m) + (IF PccIn(b0, N, l) # {} THEN PccSize(l) ELSE 0)
        /\ PccIn(b0, N, l) # {} => PccSize(l) \in Nat \ {0}
    BY <1>1, <1>2, <2>1, OneSymbol, ZenonT(60)
  <2> QED  BY <2>1, <2>2
<1>6. PccUpTo(b0, N, 0) = 0 /\ PccUpTo(b0, N, 4) = 98 /\ (N = 8 => PccUpTo(b0, N, 2) = 0)
  <2>1. 4 \in Nat /\ 4 >= 4 /\ 0 \in Nat
    OBVIOUS
  <2> QED  BY <2>1, PccNext
<1>7. 5 \notin P
  <2>1. 4 \in Nat /\ 5 \in Nat /\ 4 + 1 = 5
    OBVIOUS
  <2>2. PccUpTo(b0, N, 5) \in 0..98 /\ (PccIn(b0, N, 5) # {} => PccUpTo(b0, N, 5) > PccUpTo(b0, N, 4))
    BY <1>5, <2>1
  <2>3. PccIn(b0, N, 5) = {}
    BY <1>6, <2>2
  <2> QED  BY <1>4, <2>3
<1>8. P # {}
  <2>1. SUFFICES ASSUME P = {} PROVE FALSE
    OBVIOUS
  <2>2. \A l \in 1..4 : PccIn(b0, N, l) = {}
    BY <1>4, <2>1
  <2>3. PccUpTo(b0, N, 0 + 1) = PccUpTo(b0, N, 0) /\ PccUpTo(b0, N, 1 + 1) = PccUpTo(b0, N, 1)
    BY <1>5, <2>2
  <2>4. PccUpTo(b0, N, 2 + 1) = PccUpTo(b0, N, 2) /\ PccUpTo(b0, N, 3 + 1) = PccUpTo(b0, N, 3)
    BY <1>5, <2>2
  <2>5. 0 + 1 = 1 /\ 1 + 1 = 2 /\ 2 + 1 = 3 /\ 3 + 1 = 4
    OBVIOUS
  <2> QED  BY <1>6, <2>3, <2>4, <2>5
<1>9. PICK g : g = Greatest(P) /\ g = pcc_symbol_idx_max
  BY <1>1, <1>2, <1>3 DEF pcc_symbol_idx_max
<1>10. g \in P /\ \A m \in P : g >= m
  <2>1. PICK lo \in Int : lo = 1
    OBVIOUS
  <2>2. PICK hi \in Int : hi = 5
    OBVIOUS
  <2>3. P \subseteq lo..hi
    BY <1>4, <2>1, <2>2
  <2> QED  BY <1>8, <1>9, <2>3, Extremes, Zenon
<1>11. g \in 1..4 /\ PccIn(b0, N, g) # {}
  BY <1>4, <1>7, <1>10
<1>12. \A l \in 1..4 : l > g => PccIn(b0, N, l) = {}
  BY <1>4, <1>10, <1>11
<1>13. PccUpTo(b0, N, g) = 98
  <2>1. 0 + 1 = 1 /\ 1 + 1 = 2 /\ 2 + 1 = 3 /\ 3 + 1 = 4
    OBVIOUS
  <2>2. g < 2 => PccUpTo(b0, N, 1 + 1) = PccUpTo(b0, N, 1)
    BY <1>5, <1>11, <1>12
  <2>3. g < 3 => PccUpTo(b0, N, 2 + 1) = PccUpTo(b0, N, 2)
    BY <1>5, <1>11, <1>12
  <2>4. g < 4 => PccUpTo(b0, N, 3 + 1) = PccUpTo(b0, N, 3)
    BY <1>5, <1>11, <1>12
  <2>5. g = 1 \/ g = 2 \/ g = 3 \/ g = 4
    BY <1>11
  <2> QED  BY <1>6, <2>1, <2>2, <2>3, <2>4, <2>5
<1>14. ASSUME NEW i \in Nat, i < g PROVE PccUpTo(b0, N, i) # 98
  <2>1. PICK f \in Nat : g = f + 1 /\ i <= f
    <3>1. g = (g - 1) + 1 /\ g - 1 \in Nat /\ i <= g - 1
      BY <1>11, <1>14
    <3> QED  BY <3>1
  <2>2. /\ PccUpTo(b0, N, f) \in 0..98 /\ PccUpTo(b0, N, i) \in 0..98
        /\ PccUpTo(b0, N, f + 1) > PccUpTo(b0, N, f)
    BY <1>5, <1>11, <2>1
  <2>3. PccUpTo(b0, N, i) <= PccUpTo(b0, N, f)
    BY <2>1, PdcGrows
  <2> QED  BY <1>13, <2>1, <2>2, <2>3
<1>15. g <= N_DF_symb(psdef)
  <2>1. PICK n \in Nat : n = N_DF_symb(psdef) /\ PccUpTo(b0, N, n) = 98
    BY <1>1, <1>2, WholePacket
  <2> QED  BY <1>11, <1>14, <2>1
<1>16. N = 8 => g >= 3
  <2>1. N = 8 => ~(g <= 2)
    <3>1. g <= 2 => PccUpTo(b0, N, g) <= PccUpTo(b0, N, 2)
      <4>1. g \in Nat /\ 2 \in Nat
        BY <1>11
      <4> QED  BY <4>1, PdcGrows
    <3> QED  BY <1>6, <1>13, <3>1
  <2> QED  BY <1>11, <2>1
<1> QED  BY <1>1, <1>2, <1>9, <1>11, <1>13, <1>14, <1>15, <1>16


\* What is to be sent does not change.
LEMMA SameWritten ==
    ASSUME UNCHANGED psdef PROVE \A m, a : Written(m, a)' <=> Written(m, a)
<1>1. b' = b /\ N_eff_TX' = N_eff_TX
  BY SameTables
<1>2. \A m : /\ IsPdc(m)' = IsPdc(m) /\ Row(m)' = Row(m)
             /\ PccUpTo(b, N_eff_TX, m - 1)' = PccUpTo(b, N_eff_TX, m - 1)
             /\ PdcUpTo(b, N_eff_TX, m - 1)' = PdcUpTo(b, N_eff_TX, m - 1)
             /\ PccIn(b, N_eff_TX, m)' = PccIn(b, N_eff_TX, m)
  BY <1>1, SameTables
<1> QED  BY <1>2 DEF Written

LEMMA WrittenInit == ASSUME GridInit PROVE WrittenState
<1>1. BlockInv /\ GridConfig /\ G(psdef) \in Nat
  BY BlockInit, Configured DEF BlockInv
<1>2. /\ PccUpTo(b, N_eff_TX, 0) = 0 /\ PdcUpTo(b, N_eff_TX, 0) = 0
  <2>1. PICK m \in Nat, l \in Nat : m = 0 /\ l = m + 1
    OBVIOUS
  <2> QED  BY <1>1, <2>1, OneSymbol
<1>3. PilotsUpTo(b, N_eff_TX, 0) = 0
  <2>1. 0 \in Nat
    OBVIOUS
  <2>2. b \in Bs /\ N_eff_TX \in Ns
    BY <1>1, Configured
  <2> QED  BY <2>1, <2>2, PilotsNext
<1>4. SentCounts(0)
  <2>1. /\ cnt.PCC_idx = 0 /\ cnt.DRS_idx = 0 /\ cnt.PDC_bits_idx = 0 /\ cnt.PDC_subc_idx = 0
        /\ cnt.residual = 0
    BY DEF GridInit, Counters
  <2>2. N_SS(psdef) * 0 = 0 /\ N_bps(psdef) * (0 + 0) = 0
    BY <1>1, Configured
  <2> QED  BY <1>1, <1>2, <1>3, <2>1, <2>2 DEF SentCounts
<1>5. AirRight(0)
  BY DEF AirRight
<1>6. ofdm_symb_idx = 0 + 1 /\ 0 \in Nat
  BY DEF GridInit
<1>7. 0 <= N_DF_symb(psdef)
  BY <1>1, Totals DEF GridConfig
<1> QED  BY <1>4, <1>5, <1>6, <1>7 DEF WrittenState

\* tx_t fills a symbol.
LEMMA WrittenTransmit ==
    ASSUME CellInv, McsLimit, WrittenState, Transmit
    PROVE  WrittenState' /\ failed' = "none"
<1>1. GridConfig /\ GridIndices /\ part = "tx"
  BY DEF CellInv, BlockInv, Transmit
<1>2. PICK m \in Nat : /\ ofdm_symb_idx = m + 1 /\ m <= N_DF_symb(psdef)
                       /\ SentCounts(m) /\ AirRight(m)
  BY <1>1 DEF WrittenState
<1>3. PICK l \in Nat : l = m + 1 /\ l = ofdm_symb_idx
  BY <1>2
<1>4. PICK n \in Nat : n = N_DF_symb(psdef) /\ l <= n
  BY <1>1, <1>3, WholePacket DEF Transmit
<1>5. UNCHANGED psdef /\ ofdm_symb_idx' = l + 1
  BY <1>3 DEF Transmit, config
<1>6. PccFound /\ \E k \in Nat, h \in {0, 1} : DrsDue(k, h) /\ Between(k, h)
  BY <1>1 DEF CellInv, SentState
<1>7. PICK q, S : q = N_bps(psdef) /\ S = N_SS(psdef)
  OBVIOUS
<1>8. q \in {1, 2, 4, 6, 8} /\ S \in {1, 2, 4, 8} /\ G(psdef) \in Nat
  BY <1>1, <1>7, WholePacket, Configured
<1> DEFINE Up(x) == PdcUpTo(b, N_eff_TX, x)
           Pcc(x) == PccUpTo(b, N_eff_TX, x)
           Drs(x) == PilotsUpTo(b, N_eff_TX, x)
<1>9. /\ PdcSize(l) \in Nat /\ (IsPdc(l) <=> PdcSize(l) # 0) /\ Up(l) = Up(m) + PdcSize(l)
      /\ Up(m) \in Nat /\ Pcc(m) \in 0..98 /\ (Pcc(l) # 98 => ~IsPdc(l))
      /\ Pcc(l) = Pcc(m) + (IF PccIn(b, N_eff_TX, l) # {} THEN PccSize(l) ELSE 0)
      /\ PccIn(b, N_eff_TX, l) # {} => PccSize(l) \in Nat \ {0}
  BY <1>1, <1>3, OneSymbol, ZenonT(60)
<1>10. Drs(l) = Drs(m) + DrsCount /\ Drs(m) \in Nat /\ DrsCount = IF IsDrs(l) THEN DrsSize ELSE 0
  <2>1. l \in Nat \ {0} /\ m = l - 1
    BY <1>3
  <2> QED  BY <1>1, <1>3, <1>6, <2>1, PilotsAdded
<1>11. IsPcc(l) <=> PccIn(b, N_eff_TX, l) # {}
  BY <1>1, <1>3, <1>6, PccOf
<1>12. PICK a : /\ air' = Append(air, a)
                /\ a.pcc = (IF IsPcc(l) THEN <<l, cnt.PCC_idx>> ELSE <<>>)
                /\ a.pdc = (IF IsPdc(l) THEN <<Row(l), (cnt.PDC_bits_idx \div N_bps(psdef)) - cnt.residual>>
                            ELSE <<>>)
  <2>1. PICK x, y, z :
           /\ x = (IF IsDrs(l) THEN <<drs.TS_first, get_ts_idx_last, drs.n>> ELSE <<>>)
           /\ y = (IF IsPcc(l) THEN <<l, cnt.PCC_idx>> ELSE <<>>)
           /\ z = (IF IsPdc(l) THEN <<Row(l), (cnt.PDC_bits_idx \div N_bps(psdef)) - cnt.residual>>
                   ELSE <<>>)
    OBVIOUS
  <2>2. air' = Append(air, [drs |-> x, pcc |-> y, pdc |-> z])
    BY <1>3, <2>1 DEF Transmit
  <2>3. PICK a : a = [drs |-> x, pcc |-> y, pdc |-> z]
    OBVIOUS
  <2>4. a.drs = x /\ a.pcc = y /\ a.pdc = z
    BY <2>3
  <2> QED  BY <2>1, <2>2, <2>3, <2>4
<1>13. /\ cnt'.PCC_idx = cnt.PCC_idx + (IF IsPcc(l) THEN PccSize(l) ELSE 0)
       /\ cnt'.DRS_idx = cnt.DRS_idx + (IF IsDrs(l) THEN DrsSize ELSE 0)
       /\ cnt'.PDC_bits_idx = cnt.PDC_bits_idx + (IF IsPdc(l) THEN NewBits(l) ELSE 0)
       /\ cnt'.PDC_subc_idx = cnt.PDC_subc_idx + (IF IsPdc(l) THEN S * PdcSize(l) ELSE 0)
       /\ cnt'.residual = IF IsPdc(l) THEN Residual(l) ELSE cnt.residual
       /\ failed' = IF IsPdc(l) /\ ~PdcMapped(l) THEN "tx" ELSE "none"
       /\ part' = IF failed' = "none" THEN "tx" ELSE "over"
  BY <1>3, <1>7 DEF Transmit
<1>14. IsPdc(l) =>
           /\ PdcMapped(l) /\ NewBits(l) \in Nat /\ Residual(l) \in 0..23
           /\ (cnt.PDC_bits_idx \div N_bps(psdef)) - cnt.residual = S * Up(m)
           /\ cnt.PDC_bits_idx + NewBits(l) <= G(psdef)
           /\ cnt.PDC_subc_idx + S * PdcSize(l) = S * Up(l)
           /\ cnt.PDC_bits_idx + NewBits(l)
                = q * ((cnt.PDC_subc_idx + S * PdcSize(l)) + Residual(l))
           /\ cnt.PDC_bits_idx + NewBits(l) < G(psdef) => (cnt.PDC_bits_idx + NewBits(l)) % 24 = 0
           /\ Pcc(l) = 98
  <2>1. m < N_DF_symb(psdef)
    BY <1>3, <1>4
  <2> QED  BY <1>1, <1>2, <1>3, <1>7, <2>1, PdcOfSymbol
<1>15. /\ cnt.DRS_idx = Drs(m) /\ cnt.PCC_idx = Pcc(m) /\ cnt.PDC_subc_idx = S * Up(m)
       /\ cnt.residual \in 0..23 /\ cnt.PDC_bits_idx \in Nat /\ cnt.PDC_bits_idx <= G(psdef)
       /\ cnt.PDC_bits_idx = q * (cnt.PDC_subc_idx + cnt.residual)
       /\ cnt.PDC_bits_idx < G(psdef) => cnt.PDC_bits_idx % 24 = 0
       /\ Pcc(m) # 98 => cnt.residual = 0
  BY <1>2, <1>7 DEF SentCounts
<1> HIDE DEF Up, Pcc, Drs
<1>16. cnt'.PCC_idx = Pcc(l) /\ cnt'.DRS_idx = Drs(l)
  BY <1>9, <1>10, <1>11, <1>13, <1>15
<1>17. /\ cnt'.PDC_subc_idx = S * Up(l) /\ cnt'.residual \in 0..23
       /\ cnt'.PDC_bits_idx \in Nat /\ cnt'.PDC_bits_idx <= G(psdef)
       /\ cnt'.PDC_bits_idx = q * (cnt'.PDC_subc_idx + cnt'.residual)
       /\ cnt'.PDC_bits_idx < G(psdef) => cnt'.PDC_bits_idx % 24 = 0
       /\ Pcc(l) # 98 => cnt'.residual = 0
  <2>1. CASE IsPdc(l)
    <3>1. /\ cnt'.PDC_bits_idx = cnt.PDC_bits_idx + NewBits(l) /\ cnt'.residual = Residual(l)
          /\ cnt'.PDC_subc_idx = cnt.PDC_subc_idx + S * PdcSize(l)
      BY <1>13, <2>1
    <3>2. cnt'.PDC_bits_idx \in Nat
      BY <1>14, <1>15, <2>1, <3>1
    <3> QED  BY <1>14, <2>1, <3>1, <3>2
  <2>2. CASE ~IsPdc(l)
    <3>1. PICK x \in Nat : x = S * Up(m) /\ Up(l) = Up(m)
      BY <1>8, <1>9, <2>2
    <3>2. /\ cnt'.PDC_bits_idx = cnt.PDC_bits_idx /\ cnt'.residual = cnt.residual
          /\ cnt'.PDC_subc_idx = cnt.PDC_subc_idx
      BY <1>13, <1>15, <2>2, <3>1
    <3>3. Pcc(l) # 98 => Pcc(m) # 98
      <4>1. Pcc(m) = 98 => Pcc(l) = 98
        <5>1. PccUpTo(b, N_eff_TX, m) <= PccUpTo(b, N_eff_TX, l)
          <6>1. b \in Bs /\ N_eff_TX \in Ns /\ m <= l
            BY <1>1, <1>3, Configured
          <6> QED  BY <1>3, <6>1, PdcGrows
        <5>2. PccUpTo(b, N_eff_TX, l) \in 0..98
          <6>1. PICK z : z = l + 1
            OBVIOUS
          <6> QED  BY <1>1, <1>3, <6>1, OneSymbol
        <5> QED  BY <5>1, <5>2 DEF Pcc
      <4> QED  BY <4>1
    <3> QED  BY <1>15, <3>1, <3>2, <3>3
  <2> QED  BY <2>1, <2>2
<1>18. failed' = "none" /\ part' = "tx"
  BY <1>13, <1>14
<1>19. SentCounts(l)'
  <2>1. /\ PilotsUpTo(b, N_eff_TX, l)' = Drs(l) /\ PccUpTo(b, N_eff_TX, l)' = Pcc(l)
        /\ PdcUpTo(b, N_eff_TX, l)' = Up(l)
    BY <1>5, SameTables DEF Drs, Pcc, Up
  <2>2. N_SS(psdef)' = S /\ N_bps(psdef)' = q /\ G(psdef)' = G(psdef)
    BY <1>5, <1>7
  <2> QED  BY <1>16, <1>17, <2>1, <2>2 DEF SentCounts
<1>20. AirRight(l)'
  <2>1. PICK T : air \in Seq(T)
    BY <1>1 DEF CellInv, SentState
  <2>2. Len(air) = m /\ Len(air) \in Nat
    BY <1>1, <1>2, <2>1 DEF CellInv, SentState
  <2>3. air'[l] = a /\ \A i \in 1..m : air'[i] = air[i]
    BY <1>3, <1>12, <2>1, <2>2
  <2>4. Written(l, a)
    <3>1. m = l - 1
      BY <1>3
    <3> QED  BY <1>7, <1>11, <1>12, <1>14, <1>15, <3>1 DEF Written, Up, Pcc
  <2>5. \A i \in 1..l : Written(i, air'[i])
    <3>1. \A i \in 1..l : i \in 1..m \/ i = l
      BY <1>3
    <3> QED  BY <1>2, <2>3, <2>4, <3>1 DEF AirRight
  <2>6. \A i \in 1..l : Written(i, air[i])'
    <3>1. \A i \in 1..l : \A c : Written(i, c) => Written(i, c)'
      BY <1>5, SameWritten
    <3> QED  BY <2>5, <3>1
  <2> QED  BY <2>6 DEF AirRight
<1>21. l <= N_DF_symb(psdef)'
  BY <1>4, <1>5
<1> QED  BY <1>5, <1>18, <1>19, <1>20, <1>21, <1>3 DEF WrittenState

-----------------------------------------------------------------------------
(* What the receiver has on its stage and has counted, part by part. *)

\* The pilots of m symbols and the PDC cells of i symbols are counted.
ReadCounts(m, i) ==
    /\ ofdm_symb_idx = m + 1
    /\ cnt.DRS_idx = PilotsUpTo(b, N_eff_TX, m) /\ cnt.residual = 0
    /\ cnt.PDC_subc_idx = N_SS(psdef) * PdcUpTo(b, N_eff_TX, i)
    /\ cnt.PDC_bits_idx = N_bps(psdef) * (N_SS(psdef) * PdcUpTo(b, N_eff_TX, i))
\* The stage holds the symbols that belong to it, from index x to before index y.
Staged(x, y) == \A j \in x..y - 1 : stage[j] = (1 + ps_idx * step) + j
Due == \E k \in Nat, h \in {0, 1} : DrsDue(k, h) /\ Between(k, h)

RxPcc(m) ==
    /\ ReadCounts(m, 0) /\ m <= pcc_symbol_idx_max /\ (N_eff_TX = 8 => m <= 1)
    /\ PccFound /\ cnt.PCC_idx = PccUpTo(b, N_eff_TX, m)
    /\ ofdm_symb_ps_idx = m /\ ps_idx = 0 /\ Staged(0, m) /\ (m > 0 => now = m - 1)
RxAgain(m, i) ==
    /\ ReadCounts(m, i) /\ m = pcc_symbol_idx_max /\ i < m
    /\ ofdm_symb_ps_idx = i /\ stage[now] = m
RxCollect(m, i) ==
    /\ ReadCounts(m, i) /\ i = ps_idx * step + relative_start
    /\ ofdm_symb_ps_idx >= relative_start /\ Staged(relative_start, ofdm_symb_ps_idx)
RxRead(m, i) ==
    /\ ReadCounts(m, i) /\ i = ps_idx * step + ofdm_symb_ps_idx
    /\ Staged(relative_start, step + 1)
RxLeft(m) == ReadCounts(m, m) /\ m <= N_DF_symb(psdef) /\ ofdm_symb_ps_idx < step

RxState ==
    /\ part \in {"pcc"} \cup Receiving => AirRight(N_DF_symb(psdef)) /\ Due /\ DOMAIN stage = 0..11
    /\ part \in Receiving => cnt.PCC_idx = 98 /\ N_eff_TX # 8
    /\ part = "tx" => DOMAIN stage = 0..11
    /\ part = "pcc" => \E m \in Nat : RxPcc(m)
    /\ part = "again" => \E m, i \in Nat : RxAgain(m, i)
    /\ part = "collect" => \E m, i \in Nat : RxCollect(m, i)
    /\ part = "read" => \E m, i \in Nat : RxRead(m, i)
    /\ part = "left" => \E m \in Nat : RxLeft(m)
ReadInv == PilotInv /\ CellInv /\ WrittenState /\ RxState /\ ReadsAsWritten

\* The DRS symbols stay in step, whether this is one of them or not.
LEMMA DueStays ==
    ASSUME GridConfig, GridIndices, Due, UNCHANGED <<psdef, drs, ofdm_symb_idx>>
    PROVE  Due'
BY StillDue DEF Due

LEMMA DueNext ==
    ASSUME GridConfig, GridIndices, Due, UNCHANGED psdef, ofdm_symb_idx' = ofdm_symb_idx + 1,
           drs' = IF IsDrs(ofdm_symb_idx) THEN Advanced ELSE drs
    PROVE  Due'
<1>1. PICK k \in Nat, h \in {0, 1} : DrsDue(k, h) /\ Between(k, h)
  BY DEF Due
<1>2. CASE IsDrs(ofdm_symb_idx)
  <2>1. PICK k2 \in Nat, h2 \in {0, 1} : DrsFollows(k, h, k2, h2)
    <3>1. CASE N_eff_TX = 8 /\ h = 0
      BY <3>1 DEF DrsFollows
    <3>2. CASE ~(N_eff_TX = 8 /\ h = 0)
      <4>1. k + 1 \in Nat /\ 0 \in {0, 1} /\ DrsFollows(k, h, k + 1, 0)
        BY <3>2 DEF DrsFollows
      <4> QED  BY <4>1
    <3> QED  BY <3>1, <3>2
  <2>2. drs' = Advanced
    BY <1>2
  <2> QED  BY <1>1, <1>2, <2>1, <2>2, NextDue DEF Due
<1>3. CASE ~IsDrs(ofdm_symb_idx)
  <2>1. drs' = drs
    BY <1>3
  <2> QED  BY <1>1, <1>3, <2>1, StillDue DEF Due
<1> QED  BY <1>2, <1>3

\* Three bookkeeping facts about the symbol that is received: its pilots, what was sent, its stage.
LEMMA PilotsCounted ==
    ASSUME GridConfig, GridIndices, Due, NEW m \in Nat, NEW i, ReadCounts(m, i)
    PROVE  cnt.DRS_idx + DrsCount = PilotsUpTo(b, N_eff_TX, m + 1)
<1>1. PICK k \in Nat, h \in {0, 1} : DrsDue(k, h) /\ Between(k, h)
  BY DEF Due
<1>2. PICK l \in Nat \ {0} : l = ofdm_symb_idx /\ m = l - 1 /\ l = m + 1
  BY DEF ReadCounts
<1>3. PilotsUpTo(b, N_eff_TX, l) = PilotsUpTo(b, N_eff_TX, l - 1) + DrsCount
  BY <1>1, <1>2, PilotsAdded
<1> QED  BY <1>2, <1>3 DEF ReadCounts

LEMMA AirStays ==
    ASSUME UNCHANGED <<psdef, air>>, AirRight(N_DF_symb(psdef))
    PROVE  AirRight(N_DF_symb(psdef))'
<1>1. PICK n : n = N_DF_symb(psdef)
  OBVIOUS
<1>2. \A i \in 1..n : Written(i, air[i])
  BY <1>1 DEF AirRight
<1>3. \A i \in 1..n : Written(i, air[i])'
  <2>1. \A i, a : Written(i, a)' <=> Written(i, a)
    BY SameWritten
  <2> QED  BY <1>2, <2>1
<1>4. N_DF_symb(psdef)' = n
  BY <1>1
<1> QED  BY <1>3, <1>4 DEF AirRight

\* tx_t finds all cells at the end, and all bits are encoded and mapped.
LEMMA ReadTransmitted ==
    ASSUME ReadInv, McsLimit, Transmitted
    PROVE  RxState' /\ ReadsAsWritten'
<1>1. /\ GridConfig /\ GridIndices /\ BlockState /\ part = "tx" /\ failed = "none" /\ read = <<>>
      /\ ps_idx = 0 /\ ofdm_symb_ps_idx = 0 /\ DOMAIN stage = 0..11
  BY DEF ReadInv, PilotInv, PilotState, BlockInv, RxState, Transmitted
<1>2. PICK m \in Nat : /\ ofdm_symb_idx = m + 1 /\ m <= N_DF_symb(psdef)
                       /\ SentCounts(m) /\ AirRight(m)
  BY <1>1 DEF ReadInv, WrittenState
<1>3. m = N_DF_symb(psdef)
  <2>1. PICK n \in Nat : n = N_DF_symb(psdef)
    BY <1>1, WholePacket
  <2>2. m + 1 > n
    BY <1>2, <2>1 DEF Transmitted
  <2> QED  BY <1>2, <2>1, <2>2
<1>4. PICK q \in {1, 2, 4, 6, 8}, S \in {1, 2, 4, 8} : q = N_bps(psdef) /\ S = N_SS(psdef)
  BY <1>1, WholePacket
<1>5. PICK T \in Nat : T = N_PDC_subc(psdef) /\ G(psdef) = q * (S * T)
  BY <1>1, <1>4, WholePacket
<1>6. PICK M \in Nat : M = S * T /\ M = T * S /\ G(psdef) = q * M
  BY <1>5
<1>7. /\ PilotsUpTo(b, N_eff_TX, m) = N_DRS_subc(psdef) /\ PccUpTo(b, N_eff_TX, m) = 98
      /\ PdcUpTo(b, N_eff_TX, m) = T
  BY <1>1, <1>3, <1>5, WholePacket
<1>8. /\ cnt.DRS_idx = N_DRS_subc(psdef) /\ cnt.PCC_idx = 98 /\ cnt.PDC_subc_idx = M
      /\ cnt.residual \in 0..23 /\ cnt.PDC_bits_idx \in Nat /\ cnt.PDC_bits_idx <= q * M
      /\ cnt.PDC_bits_idx = q * (cnt.PDC_subc_idx + cnt.residual)
  BY <1>2, <1>4, <1>6, <1>7 DEF SentCounts
<1>9. cnt.residual = 0 /\ cnt.PDC_bits_idx = q * M
  <2>1. PICK r \in 0..23 : r = cnt.residual
    BY <1>8
  <2>2. q * (M + r) <= q * M
    BY <1>8, <2>1
  <2>3. r = 0
    BY <2>2
  <2> QED  BY <1>8, <2>1, <2>3
<1>10. EverythingFound
  BY <1>4, <1>5, <1>6, <1>8, <1>9 DEF EverythingFound, pcc_cells
<1>11. wp_enc(fec, cnt.cb_idx) = fec.G
  <2>1. fec.G = q * M /\ Codable(fec)
    BY <1>1, <1>6, Configured
  <2>2. cnt.cb_idx \in 0..fec.seg.C /\ cnt.PDC_bits_idx <= wp_enc(fec, cnt.cb_idx)
    BY <1>1 DEF BlockState
  <2>3. wp_enc(fec, cnt.cb_idx) <= fec.G /\ wp_enc(fec, cnt.cb_idx) \in Int
    BY <2>1, <2>2, LastBlock
  <2> QED  BY <1>9, <2>1, <2>2, <2>3
<1>12. /\ part' = "pcc" /\ failed' = "none" /\ UNCHANGED <<psdef, air, read, stage, ps_idx, ofdm_symb_ps_idx>>
       /\ drs' = [l_next |-> 1, n |-> 0, TS_first |-> 0] /\ pcc_cnt' = 0 /\ cnt' = Counters
       /\ ofdm_symb_idx' = 1
  BY <1>1, <1>10, <1>11 DEF Transmitted, sender, config, stageidx, estimator
<1>13. /\ b' = b /\ N_eff_TX' = N_eff_TX /\ step' = step /\ SecondSymbol' = SecondSymbol
       /\ step \in {5, 10} /\ SecondSymbol \in {0, 1} /\ b \in Bs /\ N_eff_TX \in Ns
       /\ pcc_symbol_idx_max' = pcc_symbol_idx_max /\ pcc_symbol_idx_max \in 1..4
  BY <1>1, <1>12, SamePacket, SameTables, Shapes, Configured, PccLast
<1>14. Due'
  <2>1. 0 * step = 0 /\ 0 % 2 = 0
    BY <1>13
  <2>2. DrsDue(0, 0)'
    BY <1>12, <1>13, <2>1 DEF DrsDue
  <2>3. LastDrs(0, 0)' = (1 - step) + SecondSymbol
    BY <1>13, <2>1 DEF LastDrs
  <2>4. Between(0, 0)'
    BY <1>12, <1>13, <2>1, <2>3 DEF Between
  <2>5. 0 \in Nat /\ 0 \in {0, 1}
    OBVIOUS
  <2> QED  BY <2>2, <2>4, <2>5 DEF Due
<1>15. PccFound'
  <2>1. PICK P : P = PccSymbols[b][N_eff_TX]
    OBVIOUS
  <2>2. \A x \in P : x \in 1..5
    BY <1>13, <2>1 DEF PccSymbols
  <2>3. {x \in P : x < 1} = {}
    BY <2>2
  <2>4. RankIn(P, 1) = 0
    BY <2>3, FS_EmptySet DEF RankIn
  <2> QED  BY <1>12, <1>13, <2>1, <2>4 DEF PccFound
<1>16. ReadCounts(0, 0)'
  <2>1. PccUpTo(b, N_eff_TX, 0) = 0 /\ PdcUpTo(b, N_eff_TX, 0) = 0
    <3>1. PICK o \in Nat, l \in Nat : o = 0 /\ l = o + 1
      OBVIOUS
    <3> QED  BY <1>1, <3>1, OneSymbol
  <2>2. PilotsUpTo(b, N_eff_TX, 0) = 0
    <3>1. 0 \in Nat
      OBVIOUS
    <3> QED  BY <1>13, <3>1, PilotsNext
  <2>3. /\ PdcUpTo(b, N_eff_TX, 0)' = 0 /\ PilotsUpTo(b, N_eff_TX, 0)' = 0
        /\ N_SS(psdef)' = S /\ N_bps(psdef)' = q
    BY <1>4, <1>12, <1>13, <2>1, <2>2
  <2>4. S * 0 = 0 /\ q * 0 = 0
    OBVIOUS
  <2> QED  BY <1>12, <2>3, <2>4 DEF ReadCounts, Counters
<1>17. RxPcc(0)'
  <2>1. PccUpTo(b, N_eff_TX, 0)' = 0
    <3>1. PICK o \in Nat, l \in Nat : o = 0 /\ l = o + 1
      OBVIOUS
    <3>2. PccUpTo(b, N_eff_TX, 0) = 0
      BY <1>1, <3>1, OneSymbol
    <3> QED  BY <1>12, <3>2, SameTables
  <2>2. cnt'.PCC_idx = 0
    BY <1>12 DEF Counters
  <2>3. Staged(0, 0)'
    BY DEF Staged
  <2>4. 0 <= pcc_symbol_idx_max' /\ 0 <= 1 /\ ~(0 > 0)
    BY <1>13
  <2> QED  BY <1>1, <1>12, <1>15, <1>16, <2>1, <2>2, <2>3, <2>4 DEF RxPcc
<1>18. AirRight(N_DF_symb(psdef))'
  BY <1>2, <1>3, <1>12, AirStays
<1>19. RxState'
  <2>1. 0 \in Nat
    OBVIOUS
  <2>2. \E o \in Nat : RxPcc(o)'
    BY <1>17, <2>1
  <2>3. DOMAIN stage' = 0..11
    BY <1>1, <1>12
  <2> QED  BY <1>12, <1>14, <1>18, <2>2, <2>3 DEF RxState, Receiving
<1>20. ReadsAsWritten'
  BY <1>1, <1>12 DEF ReadsAsWritten
<1> QED  BY <1>19, <1>20

\* run_pdc of the receiver counts the cells and bits of the symbol it is asked for.
LEMMA CellsRead ==
    ASSUME GridConfig, McsLimit, NEW i \in Nat, NEW l, l = i + 1, NEW c,
           DOMAIN c = {"PCC_idx", "DRS_idx", "PDC_bits_idx", "PDC_subc_idx", "residual", "cb_idx"},
           c.PDC_subc_idx = N_SS(psdef) * PdcUpTo(b, N_eff_TX, i),
           c.PDC_bits_idx = N_bps(psdef) * (N_SS(psdef) * PdcUpTo(b, N_eff_TX, i))
    PROVE  /\ PdcRead(l, c).PDC_subc_idx = N_SS(psdef) * PdcUpTo(b, N_eff_TX, l)
           /\ PdcRead(l, c).PDC_bits_idx = N_bps(psdef) * (N_SS(psdef) * PdcUpTo(b, N_eff_TX, l))
           /\ PdcRead(l, c).PCC_idx = c.PCC_idx /\ PdcRead(l, c).DRS_idx = c.DRS_idx
           /\ PdcRead(l, c).residual = c.residual
<1>1. PICK q \in {1, 2, 4, 6, 8}, S \in {1, 2, 4, 8} : q = N_bps(psdef) /\ S = N_SS(psdef)
  BY WholePacket
<1>2. PICK x \in Nat, w \in Nat : /\ x = PdcUpTo(b, N_eff_TX, i) /\ w = PdcSize(l)
                                  /\ PdcUpTo(b, N_eff_TX, l) = x + w /\ (IsPdc(l) <=> w # 0)
  <2>1. /\ PdcSize(l) \in Nat /\ (IsPdc(l) <=> PdcSize(l) # 0) /\ PdcUpTo(b, N_eff_TX, i) \in Nat
        /\ PdcUpTo(b, N_eff_TX, l) = PdcUpTo(b, N_eff_TX, i) + PdcSize(l)
    BY OneSymbol
  <2> QED  BY <2>1
<1>3. PICK C : C = w * S
  OBVIOUS
<1>4. C \in Nat /\ S * x + C = S * (x + w) /\ q * (S * x) + C * q = q * (S * (x + w))
  <2>1. C \in Nat /\ S * x \in Nat /\ S * x + C = S * (x + w)
    BY <1>3
  <2>2. PICK y \in Nat : y = S * x
    BY <2>1
  <2>3. q * y + C * q = q * (y + C)
    BY <2>1
  <2> QED  BY <2>1, <2>2, <2>3
<1>5. PICK D : D = Decode(fec, c.cb_idx, q * (S * x) + C * q)
  OBVIOUS
<1>6. PdcRead(l, c) = IF IsPdc(l) THEN [c EXCEPT !.PDC_subc_idx = @ + C,
                                                 !.PDC_bits_idx = q * (S * x) + C * q, !.cb_idx = D]
                      ELSE c
  BY <1>1, <1>2, <1>3, <1>5 DEF PdcRead
<1>7. CASE IsPdc(l)
  <2>1. /\ PdcRead(l, c).PDC_subc_idx = S * x + C
        /\ PdcRead(l, c).PDC_bits_idx = q * (S * x) + C * q
        /\ PdcRead(l, c).PCC_idx = c.PCC_idx /\ PdcRead(l, c).DRS_idx = c.DRS_idx
        /\ PdcRead(l, c).residual = c.residual
    BY <1>1, <1>2, <1>6, <1>7
  <2> QED  BY <1>1, <1>2, <1>4, <2>1
<1>8. CASE ~IsPdc(l)
  <2>1. x + w = x
    BY <1>2, <1>8
  <2> QED  BY <1>1, <1>2, <1>6, <1>8, <2>1
<1> QED  BY <1>7, <1>8

\* A symbol of the PDC that is taken from where it is on the stage is what was sent.
LEMMA SymbolRead ==
    ASSUME GridConfig, McsLimit, NEW m, NEW i \in Nat, ReadCounts(m, i), NEW l, l = i + 1,
           l <= N_DF_symb(psdef), AirRight(N_DF_symb(psdef)), UNCHANGED <<psdef, air>>,
           failed' = "none", NEW at, IsPdc(l) => stage'[at] = l,
           read' = IF IsPdc(l) THEN ReadPdc(l, at) ELSE <<>>
    PROVE  ReadsAsWritten'
<1>1. failed' \notin {"tx", "rx", "index", "t_idx", "short"}
  OBVIOUS
<1>2. CASE ~IsPdc(l)
  BY <1>1, <1>2 DEF ReadsAsWritten
<1>3. CASE IsPdc(l)
  <2>1. PICK q \in {1, 2, 4, 6, 8}, S \in {1, 2, 4, 8} : q = N_bps(psdef) /\ S = N_SS(psdef)
    BY WholePacket
  <2>2. PICK x \in Nat : x = PdcUpTo(b, N_eff_TX, i)
    BY OneSymbol
  <2>3. PICK y \in Nat : y = S * x
    OBVIOUS
  <2>4. cnt.PDC_bits_idx = q * y /\ (q * y) \div q = y
    <3>1. cnt.PDC_bits_idx = q * y
      BY <2>1, <2>2, <2>3 DEF ReadCounts
    <3>2. (q * y) \div q = y
      OBVIOUS
    <3> QED  BY <3>1, <3>2
  <2>5. read' = [kind |-> "pdc", symbol |-> l, row |-> Row(l), asked |-> l, from |-> y]
    BY <1>3, <2>1, <2>4 DEF ReadPdc
  <2>6. Written(l, air[l])
    <3>1. PICK n \in Nat : n = N_DF_symb(psdef)
      BY WholePacket
    <3>2. l \in 1..n
      BY <3>1
    <3> QED  BY <3>1, <3>2 DEF AirRight
  <2>7. air[l].pdc = <<Row(l), S * PdcUpTo(b, N_eff_TX, l - 1)>>
    BY <1>3, <2>1, <2>6 DEF Written
  <2>8. l - 1 = i
    OBVIOUS
  <2>9. air'[l].pdc = <<Row(l), y>>
    BY <2>2, <2>3, <2>7, <2>8
  <2>10. read'.kind = "pdc" /\ air'[read'.symbol].pdc = <<read'.row, read'.from>> /\ "pdc" # "pcc"
    BY <2>5, <2>9
  <2> QED  BY <1>1, <2>10 DEF ReadsAsWritten
<1> QED  BY <1>2, <1>3

\* A symbol that the PCC is looked for in.
LEMMA ReadPccSymbol ==
    ASSUME ReadInv, McsLimit, PccSymbolRead
    PROVE  RxState' /\ ReadsAsWritten'
<1>1. /\ GridConfig /\ GridIndices /\ part = "pcc" /\ failed = "none"
      /\ \E k \in Nat, h \in {0, 1} : PilotsPcc(k, h)
      /\ AirRight(N_DF_symb(psdef)) /\ Due /\ DOMAIN stage = 0..11 /\ \E m \in Nat : RxPcc(m)
  BY DEF ReadInv, PilotInv, PilotState, BlockInv, RxState, PccSymbolRead
<1>2. PICK m \in Nat : RxPcc(m)
  BY <1>1
<1>3. PICK M \in 1..4 : /\ M = pcc_symbol_idx_max /\ M <= N_DF_symb(psdef)
                        /\ N_DF_symb(psdef) \in Nat
  BY <1>1, PccLast, WholePacket
<1>4. /\ ReadCounts(m, 0) /\ (N_eff_TX = 8 => m <= 1) /\ PccFound /\ ps_idx = 0
      /\ cnt.PCC_idx = PccUpTo(b, N_eff_TX, m) /\ ofdm_symb_ps_idx = m /\ Staged(0, m)
  BY <1>2 DEF RxPcc
<1>5. PICK l \in 1..4 : l = ofdm_symb_idx /\ l = m + 1 /\ l <= M
  <2>1. ofdm_symb_idx = m + 1 /\ ofdm_symb_idx <= M
    BY <1>3, <1>4 DEF ReadCounts, PccSymbolRead
  <2> QED  BY <2>1
<1>6. /\ UNCHANGED <<psdef, air, ps_idx>> /\ EstimateLeft
      /\ stage' = [stage EXCEPT ![m] = l] /\ now' = m
      /\ pcc_cnt' = IF IsPcc(l) THEN pcc_cnt + 1 ELSE pcc_cnt
      /\ read' = IF IsPcc(l) THEN [kind |-> "pcc", symbol |-> stage'[m], row |-> l, asked |-> l,
                                   from |-> cnt.PCC_idx]
                 ELSE <<>>
      /\ cnt' = [cnt EXCEPT !.PCC_idx = @ + (IF IsPcc(l) THEN PccSize(l) ELSE 0),
                            !.DRS_idx = @ + DrsCount]
      /\ ofdm_symb_idx' = l + 1 /\ ofdm_symb_ps_idx' = m + 1
      /\ part' = IF failed' = "none" THEN "pcc" ELSE "over"
  BY <1>4, <1>5 DEF PccSymbolRead, Receive, sender, config, Goes
<1>7. /\ N_eff_TX \in {1, 2, 4, 8} /\ step \in {5, 10} /\ SecondSymbol \in {0, 1}
      /\ (N_eff_TX = 8 => step = 10 /\ SecondSymbol = 1)
  BY <1>1, Shapes
<1>8. PICK k \in Nat, h \in {0, 1} : /\ DrsDue(k, h) /\ Between(k, h) /\ k + h <= 1
  BY <1>1 DEF PilotsPcc, DrsState
<1>9. IsDrs(l) <=> l = (1 + k * step) + h
  BY <1>8 DEF IsDrs, DrsDue
<1>10. (k = 0 /\ h = 0) \/ (k = 1 /\ h = 0) \/ (k = 0 /\ h = 1 /\ N_eff_TX = 8)
  BY <1>8 DEF DrsDue
<1>11. N_eff_TX # 8 /\ IsDrs(l) => m = 0
  BY <1>5, <1>7, <1>9, <1>10
<1>12. N_eff_TX = 8 /\ m = 1 => IsDrs(l)
  <2>1. SUFFICES ASSUME N_eff_TX = 8, m = 1 PROVE IsDrs(l)
    OBVIOUS
  <2>2. LastDrs(k, h) < 2 /\ 2 <= (1 + k * 10) + h
    BY <1>5, <1>7, <1>8, <2>1 DEF Between
  <2>3. LastDrs(k, h) = IF h = 1 THEN 1 + k * 10 ELSE ((1 + k * 10) - 10) + 1
    BY <1>7, <2>1 DEF LastDrs
  <2> QED  BY <1>5, <1>7, <1>9, <1>10, <2>1, <2>2, <2>3
<1>13. /\ failed' \in {"none", "t_idx"} /\ (failed' = "t_idx" => N_eff_TX = 8)
       /\ N_eff_TX = 8 /\ m = 1 => failed' = "t_idx"
       /\ drs' = IF IsDrs(l) THEN Advanced ELSE drs
  <2>1. CASE ~IsDrs(l)
    <3>1. failed' = "none" /\ drs' = drs
      BY <1>1, <1>5, <1>6, <2>1 DEF EstimateLeft
    <3> QED  BY <1>12, <2>1, <3>1
  <2>2. CASE IsDrs(l)
    <3>1. drs' = Advanced
      BY <1>5, <1>6, <2>2 DEF EstimateLeft, Chestim
    <3>2. failed' = IF ~(m <= (IF N_eff_TX <= 4 THEN 0 ELSE 1)) THEN "index"
                    ELSE IF m >= 1 THEN "t_idx" ELSE "none"
      BY <1>1, <1>4, <1>5, <1>6, <2>2 DEF EstimateLeft, DrsIndexOk, lut_length
    <3> QED  BY <1>4, <1>7, <1>11, <2>2, <3>1, <3>2
  <2> QED  BY <2>1, <2>2
<1>14. /\ IsPcc(l) <=> PccIn(b, N_eff_TX, l) # {}
       /\ RankIn(PccSymbols[b][N_eff_TX], l + 1) = pcc_cnt'
  BY <1>1, <1>4, <1>5, <1>6, PccOf
<1>15. /\ stage'[m] = l /\ DOMAIN stage' = 0..11 /\ \A j \in 0..m - 1 : stage'[j] = stage[j]
  BY <1>1, <1>5, <1>6, SMTT(60)
<1>16. ReadsAsWritten'
  <2>1. /\ failed' \notin {"tx", "rx", "index", "short"} /\ (failed' = "t_idx" => N_eff_TX' = 8)
    BY <1>6, <1>13, SamePacket
  <2>2. CASE ~IsPcc(l)
    BY <1>6, <2>1, <2>2 DEF ReadsAsWritten
  <2>3. CASE IsPcc(l)
    <3>1. Written(l, air[l])
      BY <1>1, <1>3, <1>5 DEF AirRight
    <3>2. l - 1 = m
      BY <1>5
    <3>3. air[l].pcc = <<l, cnt.PCC_idx>>
      BY <1>4, <1>14, <2>3, <3>1, <3>2 DEF Written
    <3>4. read' = [kind |-> "pcc", symbol |-> l, row |-> l, asked |-> l, from |-> cnt.PCC_idx]
      BY <1>6, <1>15, <2>3
    <3>5. read'.kind = "pcc" /\ air'[read'.symbol].pcc = <<read'.row, read'.from>>
      BY <1>6, <3>3, <3>4
    <3> QED  BY <2>1, <3>5 DEF ReadsAsWritten
  <2> QED  BY <2>2, <2>3
<1>17. CASE failed' # "none"
  BY <1>6, <1>16, <1>17 DEF RxState, Receiving
<1>18. CASE failed' = "none"
  <2>1. part' = "pcc"
    BY <1>6, <1>18
  <2>2. Due'
    BY <1>1, <1>5, <1>6, <1>13, DueNext
  <2>3. AirRight(N_DF_symb(psdef))'
    BY <1>1, <1>6, AirStays
  <2>4. PICK n \in Nat : n = l /\ n = m + 1
    BY <1>5
  <2>5. /\ cnt'.DRS_idx = cnt.DRS_idx + DrsCount /\ cnt'.residual = cnt.residual
        /\ cnt'.PDC_subc_idx = cnt.PDC_subc_idx /\ cnt'.PDC_bits_idx = cnt.PDC_bits_idx
        /\ cnt'.PCC_idx = cnt.PCC_idx + (IF IsPcc(l) THEN PccSize(l) ELSE 0)
    BY <1>1, <1>6 DEF GridIndices
  <2>6. cnt'.DRS_idx = PilotsUpTo(b, N_eff_TX, n)
    BY <1>1, <1>4, <2>4, <2>5, PilotsCounted
  <2>7. cnt'.PCC_idx = PccUpTo(b, N_eff_TX, n)
    <3>1. PccUpTo(b, N_eff_TX, n)
              = PccUpTo(b, N_eff_TX, m) + (IF PccIn(b, N_eff_TX, n) # {} THEN PccSize(n) ELSE 0)
      BY <1>1, <2>4, OneSymbol
    <3> QED  BY <1>4, <1>14, <2>4, <2>5, <3>1
  <2>8. ReadCounts(n, 0)'
    <3>1. /\ PilotsUpTo(b, N_eff_TX, n)' = PilotsUpTo(b, N_eff_TX, n)
          /\ PdcUpTo(b, N_eff_TX, 0)' = PdcUpTo(b, N_eff_TX, 0)
      BY <1>6, SameTables
    <3>2. N_SS(psdef)' = N_SS(psdef) /\ N_bps(psdef)' = N_bps(psdef)
      BY <1>6
    <3> QED  BY <1>4, <1>6, <2>4, <2>5, <2>6, <3>1, <3>2 DEF ReadCounts
  <2>9. PccFound'
    <3>1. b' = b /\ N_eff_TX' = N_eff_TX
      BY <1>6, SameTables
    <3> QED  BY <1>6, <1>14, <3>1 DEF PccFound
  <2>10. Staged(0, n)'
    <3>1. ps_idx' = 0 /\ 0 * step' = 0 /\ 0 * step = 0
      <4>1. step' = step
        BY <1>6, SamePacket
      <4> QED  BY <1>4, <1>6, <1>7, <4>1
    <3>2. \A j \in 0..m - 1 : stage[j] = (1 + 0) + j
      BY <1>4, <3>1 DEF Staged
    <3>3. \A j \in 0..n - 1 : stage'[j] = (1 + 0) + j
      <4>1. \A j \in 0..n - 1 : j \in 0..m - 1 \/ j = m
        BY <2>4
      <4>2. stage'[m] = (1 + 0) + m
        BY <1>15, <1>5
      <4> QED  BY <1>15, <3>2, <4>1, <4>2
    <3> QED  BY <3>1, <3>3 DEF Staged
  <2>11. RxPcc(n)'
    <3>1. N_eff_TX' = 8 => n <= 1
      BY <1>4, <1>6, <1>13, <1>18, <2>4, SamePacket
    <3>2. n <= pcc_symbol_idx_max'
      BY <1>3, <1>5, <1>6, <2>4, SameTables
    <3>3. cnt'.PCC_idx = PccUpTo(b, N_eff_TX, n)'
      BY <1>6, <2>7, SameTables
    <3>4. ofdm_symb_ps_idx' = n /\ ps_idx' = 0 /\ now' = n - 1
      BY <1>4, <1>6, <2>4
    <3> QED  BY <2>8, <2>9, <2>10, <3>1, <3>2, <3>3, <3>4 DEF RxPcc
  <2> QED  BY <1>15, <1>16, <2>1, <2>2, <2>3, <2>11 DEF RxState, Receiving
<1> QED  BY <1>17, <1>18

\* The counters after a call of run_pdc, and without one.
LEMMA CountsRead ==
    ASSUME GridConfig, McsLimit, UNCHANGED psdef, NEW m, NEW i \in Nat, ReadCounts(m, i), NEW n,
           ofdm_symb_idx' = n + 1, NEW l, l = i + 1, NEW c,
           DOMAIN c = {"PCC_idx", "DRS_idx", "PDC_bits_idx", "PDC_subc_idx", "residual", "cb_idx"},
           c.PDC_subc_idx = cnt.PDC_subc_idx, c.PDC_bits_idx = cnt.PDC_bits_idx,
           c.residual = cnt.residual, c.DRS_idx = PilotsUpTo(b, N_eff_TX, n), cnt' = PdcRead(l, c)
    PROVE  ReadCounts(n, l)' /\ cnt'.PCC_idx = c.PCC_idx
<1>1. /\ c.PDC_subc_idx = N_SS(psdef) * PdcUpTo(b, N_eff_TX, i) /\ c.residual = 0
      /\ c.PDC_bits_idx = N_bps(psdef) * (N_SS(psdef) * PdcUpTo(b, N_eff_TX, i))
  BY DEF ReadCounts
<1>2. /\ cnt'.PDC_subc_idx = N_SS(psdef) * PdcUpTo(b, N_eff_TX, l)
      /\ cnt'.PDC_bits_idx = N_bps(psdef) * (N_SS(psdef) * PdcUpTo(b, N_eff_TX, l))
      /\ cnt'.PCC_idx = c.PCC_idx /\ cnt'.DRS_idx = c.DRS_idx /\ cnt'.residual = c.residual
  BY <1>1, CellsRead
<1>3. /\ PilotsUpTo(b, N_eff_TX, n)' = PilotsUpTo(b, N_eff_TX, n)
      /\ PdcUpTo(b, N_eff_TX, l)' = PdcUpTo(b, N_eff_TX, l)
      /\ N_SS(psdef)' = N_SS(psdef) /\ N_bps(psdef)' = N_bps(psdef)
  BY SameTables
<1> QED  BY <1>1, <1>2, <1>3 DEF ReadCounts

LEMMA CountsStay ==
    ASSUME UNCHANGED <<psdef, cnt, ofdm_symb_idx>>, NEW m, NEW i, ReadCounts(m, i)
    PROVE  ReadCounts(m, i)'
<1>1. /\ PilotsUpTo(b, N_eff_TX, m)' = PilotsUpTo(b, N_eff_TX, m)
      /\ PdcUpTo(b, N_eff_TX, i)' = PdcUpTo(b, N_eff_TX, i)
      /\ N_SS(psdef)' = N_SS(psdef) /\ N_bps(psdef)' = N_bps(psdef)
  BY SameTables
<1> QED  BY <1>1 DEF ReadCounts

LEMMA ReadsStay ==
    ASSUME UNCHANGED <<psdef, air, read, failed>>, ReadsAsWritten PROVE ReadsAsWritten'
<1>1. N_eff_TX' = N_eff_TX /\ pcc_symbol_idx_max' = pcc_symbol_idx_max
  BY SameTables
<1>2. N_DF_symb(psdef)' = N_DF_symb(psdef)
  OBVIOUS
<1> QED  BY <1>1, <1>2 DEF ReadsAsWritten

\* The PCC is complete.
LEMMA ReadPdcBegins ==
    ASSUME ReadInv, McsLimit, PdcBegins
    PROVE  RxState' /\ ReadsAsWritten'
<1>1. /\ GridConfig /\ GridIndices /\ part = "pcc" /\ failed = "none" /\ ReadsAsWritten
      /\ AirRight(N_DF_symb(psdef)) /\ Due /\ DOMAIN stage = 0..11 /\ \E m \in Nat : RxPcc(m)
  BY DEF ReadInv, PilotInv, PilotState, BlockInv, RxState, PdcBegins
<1>2. PICK m \in Nat : RxPcc(m)
  BY <1>1
<1>3. PICK M \in 1..4 : /\ M = pcc_symbol_idx_max /\ M <= N_DF_symb(psdef)
                        /\ (N_eff_TX = 8 => M >= 3) /\ PccUpTo(b, N_eff_TX, M) = 98
  BY <1>1, PccLast
<1>4. /\ ReadCounts(m, 0) /\ (N_eff_TX = 8 => m <= 1) /\ ps_idx = 0 /\ m <= M
      /\ cnt.PCC_idx = PccUpTo(b, N_eff_TX, m) /\ ofdm_symb_ps_idx = m /\ Staged(0, m)
      /\ m > 0 => now = m - 1
  BY <1>2, <1>3 DEF RxPcc
<1>5. ofdm_symb_idx = m + 1 /\ m = M
  <2>1. ofdm_symb_idx = m + 1 /\ ofdm_symb_idx > M
    BY <1>3, <1>4 DEF ReadCounts, PdcBegins
  <2> QED  BY <1>4, <2>1
<1>6. cnt.PCC_idx = 98 /\ N_eff_TX # 8
  BY <1>3, <1>4, <1>5
<1>7. PICK n \in Nat : n = N_DF_symb(psdef) /\ M <= n
  BY <1>1, <1>3, WholePacket
<1>8. PICK lr \in BOOLEAN : lr = (lr_default /\ nof_full_ps > 0)
  OBVIOUS
<1>9. /\ UNCHANGED <<psdef, air, ofdm_symb_idx, drs, cnt, ps_idx, stage, now, read>>
      /\ failed' = IF N_SS(psdef) > 1 THEN "blocked" ELSE IF M + 1 > n THEN "short" ELSE "none"
      /\ part' = IF failed' = "none" THEN IF lr THEN "collect" ELSE "again" ELSE "over"
      /\ ofdm_symb_ps_idx' = IF lr THEN m ELSE 0
  BY <1>4, <1>5, <1>7, <1>8 DEF PdcBegins, sender, config, Goes
<1>10. step \in {5, 10} /\ step' = step /\ 0 * step = 0
  <2>1. step \in {5, 10} /\ step' = step
    BY <1>1, <1>9, Shapes, SamePacket
  <2> QED  BY <2>1
<1>11. /\ N_eff_TX' = N_eff_TX /\ pcc_symbol_idx_max' = pcc_symbol_idx_max
       /\ N_DF_symb(psdef)' = N_DF_symb(psdef)
  BY <1>9, SameTables
<1>12. ReadsAsWritten'
  <2>1. failed' \in {"blocked", "short", "none"} /\ (failed' = "short" => M = n)
    BY <1>7, <1>9
  <2>2. N_DF_symb(psdef)' = n /\ pcc_symbol_idx_max' = M
    BY <1>3, <1>7, <1>11
  <2> QED  BY <1>1, <1>9, <2>1, <2>2 DEF ReadsAsWritten
<1>13. Due' /\ AirRight(N_DF_symb(psdef))' /\ DOMAIN stage' = 0..11 /\ ReadCounts(m, 0)'
  BY <1>1, <1>4, <1>9, DueStays, AirStays, CountsStay
<1>14. part' = "collect" => RxCollect(m, 0)'
  <2>1. SUFFICES ASSUME part' = "collect" PROVE RxCollect(m, 0)'
    OBVIOUS
  <2>2. ps_idx' = 0 /\ relative_start' = 0 /\ ofdm_symb_ps_idx' = m
    BY <1>4, <1>9, <2>1 DEF relative_start
  <2>3. Staged(0, m)'
    BY <1>4, <1>9, <1>10 DEF Staged
  <2>4. 0 = 0 * step' + 0 /\ m >= 0
    BY <1>10
  <2> QED  BY <1>13, <2>2, <2>3, <2>4 DEF RxCollect
<1>15. part' = "again" => RxAgain(m, 0)'
  <2>1. SUFFICES ASSUME part' = "again" PROVE RxAgain(m, 0)'
    OBVIOUS
  <2>2. ofdm_symb_ps_idx' = 0
    BY <1>9, <2>1
  <2>3. stage[m - 1] = m
    <3>1. m - 1 \in 0..m - 1
      BY <1>5
    <3>2. stage[m - 1] = (1 + 0) + (m - 1)
      BY <1>4, <1>10, <3>1 DEF Staged
    <3> QED  BY <3>2
  <2>4. stage'[now'] = m
    BY <1>4, <1>5, <1>9, <2>3
  <2>5. m = pcc_symbol_idx_max' /\ 0 < m
    BY <1>3, <1>5, <1>11
  <2> QED  BY <1>13, <2>2, <2>4, <2>5 DEF RxAgain
<1>16. 0 \in Nat /\ part' \in {"collect", "again", "over"}
  BY <1>9
<1> QED  BY <1>6, <1>9, <1>11, <1>12, <1>13, <1>14, <1>15, <1>16 DEF RxState, Receiving

\* Once more over the symbols of the PCC: only the last one holds PDC cells, and it is on the stage.
LEMMA ReadAgain ==
    ASSUME ReadInv, McsLimit, Again
    PROVE  RxState' /\ ReadsAsWritten'
<1>1. /\ GridConfig /\ GridIndices /\ part = "again" /\ failed = "none"
      /\ AirRight(N_DF_symb(psdef)) /\ Due /\ DOMAIN stage = 0..11 /\ \E m, i \in Nat : RxAgain(m, i)
      /\ cnt.PCC_idx = 98 /\ N_eff_TX # 8
  BY DEF ReadInv, PilotInv, PilotState, BlockInv, RxState, Receiving, Again
<1>2. PICK m \in Nat, i \in Nat : RxAgain(m, i)
  BY <1>1
<1>3. PICK M \in 1..4 : /\ M = pcc_symbol_idx_max /\ M <= N_DF_symb(psdef)
                        /\ \A x \in Nat : x < M => PccUpTo(b, N_eff_TX, x) # 98
  BY <1>1, PccLast
<1>4. ReadCounts(m, i) /\ m = M /\ i < m /\ ofdm_symb_ps_idx = i /\ stage[now] = m
  BY <1>2, <1>3 DEF RxAgain
<1>5. PICK l \in Nat : l = i + 1 /\ l <= M
  BY <1>4
<1>6. ofdm_symb_idx = m + 1
  BY <1>4 DEF ReadCounts
<1>7. /\ UNCHANGED <<psdef, air, failed, ofdm_symb_idx, drs, ps_idx, stage, now>>
      /\ read' = IF IsPdc(l) THEN ReadPdc(l, now) ELSE <<>>
      /\ cnt' = PdcRead(l, cnt) /\ ofdm_symb_ps_idx' = l
      /\ part' = IF l + 1 = m + 1 THEN "left" ELSE "again"
  BY <1>4, <1>5, <1>6 DEF Again, sender, config
<1>8. IsPdc(l) => l = m
  <2>1. l < M => PccUpTo(b, N_eff_TX, l) # 98
    BY <1>3
  <2>2. PccUpTo(b, N_eff_TX, l) # 98 => ~IsPdc(l)
    BY <1>1, <1>5, OneSymbol, ZenonT(60)
  <2> QED  BY <1>4, <1>5, <2>1, <2>2
<1>9. ReadsAsWritten'
  <2>1. PICK n \in Nat : n = N_DF_symb(psdef) /\ l <= n
    BY <1>1, <1>3, <1>5, WholePacket
  <2>2. IsPdc(l) => stage'[now] = l
    BY <1>4, <1>7, <1>8
  <2>3. failed' = "none" /\ UNCHANGED <<psdef, air>>
    BY <1>1, <1>7
  <2> QED  BY <1>1, <1>4, <1>5, <1>7, <2>1, <2>2, <2>3, SymbolRead, SMTT(60)
<1>10. ReadCounts(m, l)' /\ cnt'.PCC_idx = 98
  <2>1. ofdm_symb_idx' = m + 1 /\ UNCHANGED psdef
    BY <1>6, <1>7
  <2>2. cnt.DRS_idx = PilotsUpTo(b, N_eff_TX, m)
    BY <1>4 DEF ReadCounts
  <2>3. DOMAIN cnt = {"PCC_idx", "DRS_idx", "PDC_bits_idx", "PDC_subc_idx", "residual", "cb_idx"}
    BY <1>1 DEF GridIndices
  <2> QED  BY <1>1, <1>4, <1>5, <1>7, <2>1, <2>2, <2>3, CountsRead
<1>11. Due' /\ AirRight(N_DF_symb(psdef))' /\ DOMAIN stage' = 0..11 /\ N_eff_TX' # 8
  BY <1>1, <1>7, DueStays, AirStays, SamePacket
<1>12. part' = "left" => RxLeft(m)'
  <2>1. SUFFICES ASSUME part' = "left" PROVE RxLeft(m)'
    OBVIOUS
  <2>2. l = m
    BY <1>5, <1>7, <2>1
  <2>3. step' \in {5, 10} /\ N_DF_symb(psdef)' = N_DF_symb(psdef)
    BY <1>1, <1>7, Shapes, SamePacket
  <2>4. ofdm_symb_ps_idx' < step'
    BY <1>5, <1>7, <2>3
  <2> QED  BY <1>3, <1>4, <1>10, <2>2, <2>3, <2>4 DEF RxLeft
<1>13. part' = "again" => RxAgain(m, l)'
  <2>1. SUFFICES ASSUME part' = "again" PROVE RxAgain(m, l)'
    OBVIOUS
  <2>2. l < m
    BY <1>4, <1>5, <1>7, <2>1
  <2>3. pcc_symbol_idx_max' = m /\ stage'[now'] = m
    BY <1>3, <1>4, <1>7, SameTables
  <2> QED  BY <1>7, <1>10, <2>2, <2>3 DEF RxAgain
<1> QED  BY <1>7, <1>9, <1>10, <1>11, <1>12, <1>13 DEF RxState, Receiving

\* The whole stages are within the packet.
LEMMA FullStages ==
    ASSUME GridConfig PROVE nof_full_ps * step + 1 <= N_DF_symb(psdef)
<1>1. \A s \in {5, 10} : \A x \in Int : x \div s \in Int /\ (x \div s) * s <= x
  <2> SUFFICES ASSUME NEW s \in {5, 10}, NEW x \in Int
               PROVE  x \div s \in Int /\ (x \div s) * s <= x
    OBVIOUS
  <2>1. CASE s = 5
    BY <2>1
  <2>2. CASE s = 10
    BY <2>2
  <2> QED  BY <2>1, <2>2
<1>2. /\ N_DF_symb(psdef) \in Int /\ step \in {5, 10} /\ SecondSymbol \in {0, 1}
      /\ ps_t_length = step + (1 + SecondSymbol)
  BY Shapes
<1>3. PICK x \in Int : x = N_DF_symb(psdef) - (ps_t_length - step)
  BY <1>2
<1>4. nof_full_ps = x \div step
  BY <1>3 DEF nof_full_ps
<1>5. nof_full_ps \in Int /\ nof_full_ps * step <= x /\ nof_full_ps * step \in Int
  BY <1>1, <1>2, <1>4, Products
<1> HIDE DEF nof_full_ps
<1> QED  BY <1>2, <1>3, <1>5

\* Where the symbols are, when the number of streams has no second DRS symbol.
LEMMA CollectPlace ==
    ASSUME PilotInv, part = "collect", N_eff_TX # 8
    PROVE  /\ step \in {5, 10} /\ SecondSymbol = 0 /\ ps_idx * step \in Nat
           /\ ofdm_symb_idx = (1 + ps_idx * step) + ofdm_symb_ps_idx
           /\ final_idx = (1 + ps_idx * step) + step /\ ofdm_symb_idx <= final_idx + 1
           /\ ps_idx \in Nat /\ ofdm_symb_ps_idx \in Nat /\ relative_start \in {0, 1}
<1>1. /\ GridConfig /\ GridIndices /\ \E k \in Nat, h \in {0, 1} : PilotsCollect(k, h)
  BY DEF PilotInv, PilotState, BlockInv
<1>2. /\ step \in {5, 10} /\ SecondSymbol = 0 /\ ps_t_length = step + (1 + SecondSymbol)
      /\ ps_idx \in Nat /\ ofdm_symb_ps_idx \in Nat /\ relative_start \in {0, 1}
  BY <1>1, Shapes DEF GridIndices, relative_start
<1>3. PICK y \in Nat : y = ps_idx * step /\ (ps_idx = 0 => y = 0)
  BY <1>2
<1>4. /\ ofdm_symb_idx <= final_idx + 1
      /\ ofdm_symb_idx = IF ps_idx = 0 THEN 1 + ofdm_symb_ps_idx
                         ELSE ((1 + SecondSymbol) + ps_idx * step) + ofdm_symb_ps_idx
  BY <1>1 DEF PilotsCollect
<1>5. ofdm_symb_idx = (1 + y) + ofdm_symb_ps_idx
  BY <1>2, <1>3, <1>4
<1>6. final_idx = (1 + y) + step
  BY <1>2, <1>3 DEF final_idx
<1> QED  BY <1>2, <1>3, <1>4, <1>5, <1>6

\* A symbol is put onto the stage.
LEMMA ReadCollect ==
    ASSUME ReadInv, McsLimit, Collect
    PROVE  RxState' /\ ReadsAsWritten'
<1>1. /\ GridConfig /\ GridIndices /\ part = "collect" /\ failed = "none" /\ ReadsAsWritten
      /\ AirRight(N_DF_symb(psdef)) /\ Due /\ DOMAIN stage = 0..11
      /\ \E m, i \in Nat : RxCollect(m, i)
      /\ cnt.PCC_idx = 98 /\ N_eff_TX # 8 /\ PilotInv
  BY DEF ReadInv, PilotInv, PilotState, BlockInv, RxState, Receiving, Collect
<1>2. PICK m \in Nat, i \in Nat : RxCollect(m, i)
  BY <1>1
<1>3. /\ ReadCounts(m, i) /\ i = ps_idx * step + relative_start
      /\ ofdm_symb_ps_idx >= relative_start /\ Staged(relative_start, ofdm_symb_ps_idx)
  BY <1>2 DEF RxCollect
<1>4. PICK y \in Nat : y = ps_idx * step
  BY <1>1, CollectPlace
<1>5. PICK r \in {0, 1} : r = relative_start
  BY <1>1, CollectPlace
<1>6. PICK o \in Nat : o = ofdm_symb_ps_idx /\ o >= r
  BY <1>1, <1>3, <1>5, CollectPlace
<1>7. PICK l \in Nat : l = ofdm_symb_idx /\ l = (1 + y) + o /\ l = m + 1
  BY <1>1, <1>3, <1>4, <1>6, CollectPlace DEF ReadCounts
<1>8. o <= 10
  <2>1. step \in {5, 10} /\ final_idx = (1 + y) + step /\ l <= final_idx
    BY <1>1, <1>4, <1>7, CollectPlace DEF Collect
  <2> QED  BY <1>7, <2>1
<1>9. /\ UNCHANGED <<psdef, air, failed, part, ps_idx, read>>
      /\ stage' = [stage EXCEPT ![o] = l] /\ ofdm_symb_idx' = l + 1 /\ ofdm_symb_ps_idx' = o + 1
      /\ cnt' = [cnt EXCEPT !.DRS_idx = @ + DrsCount]
      /\ drs' = IF IsDrs(l) THEN Advanced ELSE drs
  BY <1>6, <1>7 DEF Collect, Receive, Chestim, sender, config
<1>10. /\ Due' /\ AirRight(N_DF_symb(psdef))' /\ ReadsAsWritten' /\ N_eff_TX' # 8 /\ step' = step
       /\ relative_start' = r
  BY <1>1, <1>5, <1>7, <1>9, DueNext, AirStays, ReadsStay, SamePacket DEF relative_start
<1>11. /\ stage'[o] = l /\ DOMAIN stage' = 0..11 /\ \A j \in r..o - 1 : stage'[j] = stage[j]
  BY <1>1, <1>8, <1>9
<1>12. Staged(r, o + 1)'
  <2>1. \A j \in r..o - 1 : stage[j] = (1 + y) + j
    BY <1>3, <1>4, <1>5, <1>6 DEF Staged
  <2>2. \A j \in r..(o + 1) - 1 : stage'[j] = (1 + y) + j
    <3>1. \A j \in r..(o + 1) - 1 : j \in r..o - 1 \/ j = o
      OBVIOUS
    <3> QED  BY <1>7, <1>11, <2>1, <3>1
  <2>3. ps_idx' * step' = y
    BY <1>4, <1>9, <1>10
  <2> QED  BY <2>2, <2>3 DEF Staged
<1>13. ReadCounts(l, i)' /\ cnt'.PCC_idx = 98
  <2>1. /\ cnt'.DRS_idx = cnt.DRS_idx + DrsCount /\ cnt'.residual = cnt.residual
        /\ cnt'.PDC_subc_idx = cnt.PDC_subc_idx /\ cnt'.PDC_bits_idx = cnt.PDC_bits_idx
        /\ cnt'.PCC_idx = cnt.PCC_idx
    BY <1>1, <1>9 DEF GridIndices
  <2>2. cnt'.DRS_idx = PilotsUpTo(b, N_eff_TX, l)
    BY <1>1, <1>3, <1>7, <2>1, PilotsCounted
  <2>3. /\ PilotsUpTo(b, N_eff_TX, l)' = PilotsUpTo(b, N_eff_TX, l)
        /\ PdcUpTo(b, N_eff_TX, i)' = PdcUpTo(b, N_eff_TX, i)
    BY <1>9, SameTables
  <2>4. N_SS(psdef)' = N_SS(psdef) /\ N_bps(psdef)' = N_bps(psdef)
    BY <1>9
  <2> QED  BY <1>1, <1>3, <1>9, <2>1, <2>2, <2>3, <2>4 DEF ReadCounts
<1>14. RxCollect(l, i)'
  <2>1. i = ps_idx' * step' + r
    BY <1>3, <1>5, <1>9, <1>10
  <2>2. o + 1 >= r
    BY <1>6
  <2> QED  BY <1>9, <1>10, <1>12, <1>13, <2>1, <2>2 DEF RxCollect
<1> QED  BY <1>1, <1>9, <1>10, <1>11, <1>13, <1>14 DEF RxState, Receiving

\* The stage is complete.
LEMMA ReadCollected ==
    ASSUME ReadInv, McsLimit, Collected
    PROVE  RxState' /\ ReadsAsWritten'
<1>1. /\ GridConfig /\ GridIndices /\ part = "collect" /\ failed = "none"
      /\ AirRight(N_DF_symb(psdef)) /\ Due /\ DOMAIN stage = 0..11
      /\ \E m, i \in Nat : RxCollect(m, i)
      /\ cnt.PCC_idx = 98 /\ N_eff_TX # 8 /\ PilotInv
  BY DEF ReadInv, PilotInv, PilotState, BlockInv, RxState, Receiving, Collected
<1>2. PICK m \in Nat, i \in Nat : RxCollect(m, i)
  BY <1>1
<1>3. /\ ReadCounts(m, i) /\ i = ps_idx * step + relative_start
      /\ Staged(relative_start, ofdm_symb_ps_idx)
  BY <1>2 DEF RxCollect
<1>4. ofdm_symb_ps_idx = step + 1
  <2>1. PICK y \in Nat : y = ps_idx * step
    BY <1>1, CollectPlace
  <2>2. PICK o \in Nat : o = ofdm_symb_ps_idx
    BY <1>1, CollectPlace
  <2>3. /\ step \in {5, 10} /\ final_idx = (1 + y) + step /\ ofdm_symb_idx = (1 + y) + o
        /\ ofdm_symb_idx <= final_idx + 1 /\ ofdm_symb_idx > final_idx
    BY <1>1, <2>1, <2>2, CollectPlace DEF Collected
  <2> QED  BY <2>2, <2>3
<1>5. /\ UNCHANGED <<psdef, air, failed, ofdm_symb_idx, drs, cnt, ps_idx, stage>>
      /\ part' = "read" /\ ofdm_symb_ps_idx' = relative_start /\ read' = <<>>
  BY DEF Collected, sender, config, estimator
<1>6. /\ Due' /\ AirRight(N_DF_symb(psdef))' /\ N_eff_TX' # 8 /\ step' = step
      /\ relative_start' = relative_start /\ ReadCounts(m, i)'
  BY <1>1, <1>3, <1>5, DueStays, AirStays, SamePacket, CountsStay DEF relative_start
<1>7. Staged(relative_start, step + 1)'
  BY <1>3, <1>4, <1>5, <1>6 DEF Staged
<1>8. RxRead(m, i)'
  BY <1>3, <1>5, <1>6, <1>7 DEF RxRead
<1>9. ReadsAsWritten'
  BY <1>1, <1>5 DEF ReadsAsWritten
<1> QED  BY <1>1, <1>5, <1>6, <1>8, <1>9 DEF RxState, Receiving

\* A symbol of the stage.
LEMMA ReadReadStage ==
    ASSUME ReadInv, McsLimit, ReadStage
    PROVE  RxState' /\ ReadsAsWritten'
<1>1. /\ GridConfig /\ GridIndices /\ part = "read" /\ failed = "none"
      /\ AirRight(N_DF_symb(psdef)) /\ Due /\ DOMAIN stage = 0..11
      /\ \E m, i \in Nat : RxRead(m, i)
      /\ cnt.PCC_idx = 98 /\ N_eff_TX # 8 /\ PilotsRead
  BY DEF ReadInv, PilotInv, PilotState, BlockInv, RxState, Receiving, ReadStage
<1>2. PICK m \in Nat, i \in Nat : RxRead(m, i)
  BY <1>1
<1>3. /\ ReadCounts(m, i) /\ i = ps_idx * step + ofdm_symb_ps_idx
      /\ Staged(relative_start, step + 1)
  BY <1>2 DEF RxRead
<1>4. PICK s \in {5, 10} : s = step
  BY <1>1, Shapes
<1>5. PICK p \in Nat : p = ps_idx
  BY <1>1 DEF GridIndices
<1>6. PICK y \in Nat : y = p * s /\ y = ps_idx * step
  BY <1>4, <1>5
<1>7. PICK r \in {0, 1} : r = relative_start
  BY DEF relative_start
<1>8. PICK o \in r..s : o = ofdm_symb_ps_idx
  BY <1>1, <1>4, <1>7 DEF PilotsRead, ReadStage
<1>9. PICK l \in Nat : l = (1 + y) + o /\ l = i + 1
  BY <1>3, <1>6, <1>8
<1>10. PICK n \in Nat : n = N_DF_symb(psdef)
  BY <1>1, WholePacket
<1>11. l <= n
  <2>1. PICK w \in Int : w = nof_full_ps
    BY <1>1, WholeStages
  <2>2. p < w
    BY <1>1, <1>5, <2>1 DEF PilotsRead
  <2>3. w * s + 1 <= n
    BY <1>1, <1>4, <1>10, <2>1, FullStages
  <2>4. (p + 1) * s <= w * s /\ (p + 1) * s = y + s
    <3>1. p + 1 <= w /\ p + 1 \in Int
      BY <2>2
    <3> QED  BY <1>6, <3>1, Ordered, Products
  <2>5. PICK v \in Int : v = w * s
    BY Products
  <2> QED  BY <1>8, <1>9, <2>3, <2>4, <2>5
<1>12. /\ UNCHANGED <<psdef, air, failed, part, ofdm_symb_idx, drs, ps_idx, stage>>
       /\ read' = IF IsPdc(l) THEN ReadPdc(l, o) ELSE <<>>
       /\ cnt' = PdcRead(l, cnt) /\ ofdm_symb_ps_idx' = o + 1
  <2>1. 1 + ps_idx * step + ofdm_symb_ps_idx = l
    BY <1>6, <1>8, <1>9
  <2>2. now' = o
    BY <1>8 DEF ReadStage
  <2>3. /\ UNCHANGED <<psdef, air, failed, part, ofdm_symb_idx, drs, ps_idx, stage>>
        /\ ofdm_symb_ps_idx' = o + 1
    BY <1>8 DEF ReadStage, sender, config
  <2>4. read' = (IF IsPdc(l) THEN ReadPdc(l, o) ELSE <<>>) /\ cnt' = PdcRead(l, cnt)
    BY <2>1, <2>2 DEF ReadStage
  <2> QED  BY <2>3, <2>4
<1>13. stage'[o] = l
  <2>1. o \in r..(s + 1) - 1
    BY <1>8
  <2>2. stage[o] = (1 + y) + o
    BY <1>3, <1>4, <1>6, <1>7, <2>1 DEF Staged
  <2> QED  BY <1>9, <1>12, <2>2
<1>14. ReadsAsWritten'
  <2>1. l <= N_DF_symb(psdef) /\ failed' = "none" /\ UNCHANGED <<psdef, air>>
    BY <1>1, <1>10, <1>11, <1>12
  <2> QED  BY <1>1, <1>3, <1>9, <1>12, <1>13, <2>1, SymbolRead, SMTT(60)
<1>15. ReadCounts(m, l)' /\ cnt'.PCC_idx = 98
  <2>1. ofdm_symb_idx' = m + 1 /\ UNCHANGED psdef
    BY <1>3, <1>12 DEF ReadCounts
  <2>2. cnt.DRS_idx = PilotsUpTo(b, N_eff_TX, m)
    BY <1>3 DEF ReadCounts
  <2>3. DOMAIN cnt = {"PCC_idx", "DRS_idx", "PDC_bits_idx", "PDC_subc_idx", "residual", "cb_idx"}
    BY <1>1 DEF GridIndices
  <2> QED  BY <1>1, <1>3, <1>9, <1>12, <2>1, <2>2, <2>3, CountsRead, SMTT(60)
<1>16. /\ Due' /\ AirRight(N_DF_symb(psdef))' /\ N_eff_TX' # 8 /\ step' = step
       /\ relative_start' = relative_start
  BY <1>1, <1>12, DueStays, AirStays, SamePacket DEF relative_start
<1>17. RxRead(m, l)'
  <2>1. Staged(relative_start, step + 1)'
    BY <1>3, <1>12, <1>16 DEF Staged
  <2>2. l = ps_idx' * step' + (o + 1)
    BY <1>6, <1>9, <1>12, <1>16
  <2> QED  BY <1>12, <1>15, <2>1, <2>2 DEF RxRead
<1> QED  BY <1>1, <1>12, <1>14, <1>15, <1>16, <1>17 DEF RxState, Receiving

\* The next stage, or what is left behind the last one.
LEMMA ReadStageDone ==
    ASSUME ReadInv, McsLimit, StageDone
    PROVE  RxState' /\ ReadsAsWritten'
<1>1. /\ GridConfig /\ GridIndices /\ part = "read" /\ failed = "none" /\ ReadsAsWritten
      /\ AirRight(N_DF_symb(psdef)) /\ Due /\ DOMAIN stage = 0..11
      /\ \E m, i \in Nat : RxRead(m, i)
      /\ cnt.PCC_idx = 98 /\ N_eff_TX # 8 /\ PilotsRead
  BY DEF ReadInv, PilotInv, PilotState, BlockInv, RxState, Receiving, StageDone
<1>2. PICK m \in Nat, i \in Nat : RxRead(m, i)
  BY <1>1
<1>3. ReadCounts(m, i) /\ i = ps_idx * step + ofdm_symb_ps_idx
  BY <1>2 DEF RxRead
<1>4. PICK s \in {5, 10} : s = step
  BY <1>1, Shapes
<1>5. PICK p \in Nat : p = ps_idx
  BY <1>1 DEF GridIndices
<1>6. PICK y \in Nat : y = p * s /\ y = ps_idx * step /\ (p + 1) * s = y + s
  BY <1>4, <1>5, Products
<1>7. ofdm_symb_ps_idx = s + 1 /\ ofdm_symb_idx = (y + s) + 2
  <2>1. ofdm_symb_ps_idx \in relative_start..step + 1 /\ ofdm_symb_idx = final_idx + 1
    BY <1>1 DEF PilotsRead
  <2>2. ofdm_symb_ps_idx > step /\ relative_start \in {0, 1}
    BY DEF StageDone, relative_start
  <2>3. ps_t_length = s + 1
    BY <1>1, <1>4, Shapes
  <2>4. final_idx = (s + 1) + y
    BY <1>6, <2>3 DEF final_idx
  <2> QED  BY <1>4, <2>1, <2>2, <2>4
<1>8. m = (y + s) + 1 /\ i = m
  BY <1>3, <1>6, <1>7 DEF ReadCounts
<1>9. PICK more : more = (p + 1 < nof_full_ps)
  OBVIOUS
<1>10. /\ UNCHANGED <<psdef, air, failed, ofdm_symb_idx, drs, cnt, stage, read>>
       /\ ps_idx' = p + 1 /\ ofdm_symb_ps_idx' = (IF more THEN 1 ELSE 0)
       /\ part' = IF more THEN "collect" ELSE "left"
  <2>1. nof_full_ps' = nof_full_ps
    BY SamePacket DEF StageDone, sender, config
  <2> QED  BY <1>5, <1>9, <2>1 DEF StageDone, sender, config
<1>11. /\ Due' /\ AirRight(N_DF_symb(psdef))' /\ N_eff_TX' # 8 /\ step' = s /\ ReadCounts(m, m)'
       /\ ReadsAsWritten'
  BY <1>1, <1>3, <1>4, <1>8, <1>10, DueStays, AirStays, ReadsStay, SamePacket, CountsStay
<1>12. more => RxCollect(m, m)'
  <2>1. SUFFICES ASSUME more PROVE RxCollect(m, m)'
    OBVIOUS
  <2>2. relative_start' = 1 /\ ofdm_symb_ps_idx' = 1
    BY <1>10, <2>1 DEF relative_start
  <2>3. Staged(1, 1)'
    BY DEF Staged
  <2>4. m = ps_idx' * step' + 1 /\ 1 >= 1
    BY <1>6, <1>8, <1>10, <1>11
  <2> QED  BY <1>11, <2>2, <2>3, <2>4 DEF RxCollect
<1>13. ~more => RxLeft(m)'
  <2>1. SUFFICES ASSUME ~more PROVE RxLeft(m)'
    OBVIOUS
  <2>2. PICK n \in Nat : n = N_DF_symb(psdef) /\ n = N_DF_symb(psdef)'
    BY <1>1, <1>10, WholePacket
  <2>3. PICK w \in Int : w = nof_full_ps /\ p < w
    BY <1>1, <1>5, WholeStages DEF PilotsRead
  <2>4. w * s + 1 <= n
    BY <1>1, <1>4, <2>2, <2>3, FullStages
  <2>5. (p + 1) * s <= w * s
    <3>1. p + 1 <= w /\ p + 1 \in Int
      BY <2>3
    <3> QED  BY <3>1, Ordered
  <2>6. m <= n
    <3>1. PICK v \in Int : v = w * s
      BY Products
    <3> QED  BY <1>6, <1>8, <2>4, <2>5, <3>1
  <2>7. ofdm_symb_ps_idx' < step'
    BY <1>10, <1>11, <2>1
  <2> QED  BY <1>11, <2>2, <2>6, <2>7 DEF RxLeft
<1> QED  BY <1>1, <1>10, <1>11, <1>12, <1>13 DEF RxState, Receiving

\* A symbol that is read as it arrives: a DRS symbol is where a stage begins.
LEMMA LeftUnfailed ==
    ASSUME PilotInv, ReadLeft, N_eff_TX # 8, ofdm_symb_ps_idx < step
    PROVE  failed' = "none"
<1>1. /\ GridConfig /\ GridIndices /\ part = "left" /\ failed = "none"
      /\ \E k \in Nat, h \in {0, 1} : PilotsLeftOnly(k, h) \/ PilotsRest(k, h)
  BY DEF PilotInv, PilotState, BlockInv, ReadLeft
<1>2. EstimateLeft /\ ofdm_symb_idx <= N_DF_symb(psdef)
  BY DEF ReadLeft
<1>3. CASE ~IsDrs(ofdm_symb_idx)
  BY <1>1, <1>2, <1>3 DEF EstimateLeft
<1>4. CASE IsDrs(ofdm_symb_idx)
  <2>1. PICK k \in Nat, h \in {0, 1} : DrsDue(k, h) /\ (PilotsLeftOnly(k, h) \/ PilotsRest(k, h))
    BY <1>1 DEF PilotsLeftOnly, PilotsRest, DrsState
  <2>2. PICK s \in {5, 10} : s = step
    BY <1>1, Shapes
  <2>3. PICK x \in Nat : x = k * s /\ x = k * step
    BY <2>2, Products
  <2>4. ofdm_symb_idx = 1 + x
    BY <1>4, <2>1, <2>3 DEF DrsDue, IsDrs
  <2>5. PICK p \in Nat : p = ps_idx
    BY <1>1 DEF GridIndices
  <2>6. PICK y \in Nat : y = p * s /\ y = ps_idx * step
    BY <2>2, <2>5, Products
  <2>7. PICK o \in Nat : o = ofdm_symb_ps_idx /\ o < s
    BY <1>1, <2>2 DEF GridIndices
  <2>8. o = 0
    <3>1. CASE PilotsLeftOnly(k, h)
      <4>1. 1 + x = (1 + y) + o
        BY <2>4, <2>6, <2>7, <3>1 DEF PilotsLeftOnly
      <4>2. k * s < p * s + s /\ (o > 0 => p * s < k * s + 0)
        BY <2>3, <2>6, <2>7, <4>1
      <4>3. k <= p
        BY <4>2, Ordered
      <4>4. k * s <= p * s
        BY <4>3, Ordered
      <4> QED  BY <2>3, <2>6, <4>1, <4>4
    <3>2. CASE PilotsRest(k, h)
      <4>1. PICK w \in Int : w = nof_full_ps
        BY <1>1, WholeStages
      <4>2. PICK z \in Int : z = w * s /\ z = nof_full_ps * step
        BY <2>2, <4>1, Products
      <4>3. 1 + x > 1 + z
        BY <2>4, <3>2, <4>2 DEF PilotsRest
      <4>4. 1 + x <= z + s
        <5>1. PICK n \in Int : n = N_DF_symb(psdef)
          BY <1>1, Shapes
        <5>2. SecondSymbol = 0
          BY DEF SecondSymbol
        <5>3. n <= ((z + s) + 0)
          BY <1>1, <2>2, <4>2, <5>1, <5>2, WholeStages
        <5> QED  BY <1>2, <2>4, <5>1, <5>3
      <4>5. k <= w
        <5>1. k * s < w * s + s
          BY <2>3, <4>2, <4>4
        <5> QED  BY <5>1, Ordered
      <4>6. k * s <= w * s
        BY <4>5, Ordered
      <4> QED  BY <2>3, <4>2, <4>3, <4>6
    <3> QED  BY <2>1, <3>1, <3>2
  <2>9. DrsIndexOk(FALSE) /\ ~(ofdm_symb_ps_idx >= lut_length(FALSE))
    <3>1. ofdm_symb_ps_idx = 0
      BY <2>7, <2>8
    <3>2. 0 <= (IF N_eff_TX <= 4 THEN 0 ELSE 1)
      OBVIOUS
    <3>3. DrsIndexOk(FALSE)
      BY <3>1, <3>2 DEF DrsIndexOk
    <3>4. ~(ofdm_symb_ps_idx >= lut_length(FALSE))
      BY <3>1 DEF lut_length
    <3> QED  BY <3>3, <3>4
  <2> QED  BY <1>1, <1>2, <1>4, <2>9 DEF EstimateLeft
<1> QED  BY <1>3, <1>4

LEMMA ReadReadLeft ==
    ASSUME ReadInv, McsLimit, ReadLeft
    PROVE  RxState' /\ ReadsAsWritten'
<1>1. /\ GridConfig /\ GridIndices /\ part = "left" /\ failed = "none"
      /\ AirRight(N_DF_symb(psdef)) /\ Due /\ DOMAIN stage = 0..11 /\ \E m \in Nat : RxLeft(m)
      /\ cnt.PCC_idx = 98 /\ N_eff_TX # 8 /\ PilotInv
  BY DEF ReadInv, PilotInv, PilotState, BlockInv, RxState, Receiving, ReadLeft
<1>2. PICK m \in Nat : RxLeft(m)
  BY <1>1
<1>3. ReadCounts(m, m) /\ ofdm_symb_ps_idx < step
  BY <1>2 DEF RxLeft
<1>4. PICK s \in {5, 10} : s = step
  BY <1>1, Shapes
<1>5. PICK o \in Nat : o = ofdm_symb_ps_idx /\ o < s
  BY <1>1, <1>3, <1>4 DEF GridIndices
<1>6. PICK n \in Nat : n = N_DF_symb(psdef)
  BY <1>1, WholePacket
<1>7. PICK l \in Nat : l = ofdm_symb_idx /\ l = m + 1 /\ l <= n
  BY <1>3, <1>6 DEF ReadCounts, ReadLeft
<1>8. failed' = "none"
  BY <1>1, <1>3, LeftUnfailed
<1>9. /\ UNCHANGED <<psdef, air>> /\ stage' = [stage EXCEPT ![o] = l] /\ now' = o
      /\ read' = (IF IsPdc(l) THEN ReadPdc(l, o) ELSE <<>>)
      /\ cnt' = PdcRead(l, [cnt EXCEPT !.DRS_idx = @ + DrsCount])
      /\ ofdm_symb_ps_idx' = (IF o + 1 = s THEN 0 ELSE o + 1) /\ ofdm_symb_idx' = l + 1
      /\ part' = "left" /\ drs' = IF IsDrs(l) THEN Advanced ELSE drs
  <2>1. /\ UNCHANGED <<psdef, air>> /\ stage' = [stage EXCEPT ![o] = l] /\ now' = o
        /\ cnt' = PdcRead(l, [cnt EXCEPT !.DRS_idx = @ + DrsCount])
        /\ ofdm_symb_ps_idx' = (IF o + 1 = s THEN 0 ELSE o + 1) /\ ofdm_symb_idx' = l + 1
        /\ part' = "left"
    BY <1>4, <1>5, <1>7, <1>8 DEF ReadLeft, Receive, sender, config, Goes
  <2>2. read' = (IF IsPdc(l) THEN ReadPdc(l, o) ELSE <<>>)
    BY <1>7, <2>1 DEF ReadLeft
  <2>3. drs' = IF IsDrs(l) THEN Advanced ELSE drs
    BY <1>7 DEF ReadLeft, EstimateLeft, Chestim
  <2> QED  BY <2>1, <2>2, <2>3
<1>10. stage'[o] = l /\ DOMAIN stage' = 0..11
  BY <1>1, <1>5, <1>9, SMTT(60)
<1>11. ReadsAsWritten'
  <2>1. l <= N_DF_symb(psdef) /\ (IsPdc(l) => stage'[o] = l)
    BY <1>6, <1>7, <1>10
  <2> QED  BY <1>1, <1>3, <1>7, <1>8, <1>9, <2>1, SymbolRead, SMTT(60)
<1>12. ReadCounts(l, l)' /\ cnt'.PCC_idx = 98
  <2>1. PICK c : c = [cnt EXCEPT !.DRS_idx = @ + DrsCount]
    OBVIOUS
  <2>2. /\ DOMAIN c = {"PCC_idx", "DRS_idx", "PDC_bits_idx", "PDC_subc_idx", "residual", "cb_idx"}
        /\ c.DRS_idx = cnt.DRS_idx + DrsCount /\ c.residual = cnt.residual
        /\ c.PDC_subc_idx = cnt.PDC_subc_idx /\ c.PDC_bits_idx = cnt.PDC_bits_idx
        /\ c.PCC_idx = 98
    BY <1>1, <2>1 DEF GridIndices
  <2>3. c.DRS_idx = PilotsUpTo(b, N_eff_TX, l)
    BY <1>1, <1>3, <1>7, <2>2, PilotsCounted
  <2>4. cnt' = PdcRead(l, c) /\ ofdm_symb_idx' = l + 1 /\ UNCHANGED psdef
    BY <1>9, <2>1
  <2> QED  BY <1>1, <1>3, <1>7, <2>2, <2>3, <2>4, CountsRead
<1>13. Due' /\ AirRight(N_DF_symb(psdef))' /\ N_eff_TX' # 8 /\ step' = s
  BY <1>1, <1>4, <1>7, <1>9, DueNext, AirStays, SamePacket
<1>14. RxLeft(l)'
  <2>1. l <= N_DF_symb(psdef)'
    BY <1>6, <1>7, <1>9
  <2>2. ofdm_symb_ps_idx' < step'
    BY <1>5, <1>9, <1>13
  <2> QED  BY <1>12, <2>1, <2>2 DEF RxLeft
<1> QED  BY <1>9, <1>10, <1>11, <1>12, <1>13, <1>14 DEF RxState, Receiving

\* All is read.
LEMMA ReadReceived ==
    ASSUME ReadInv, McsLimit, Received
    PROVE  RxState' /\ ReadsAsWritten'
<1>1. /\ GridConfig /\ GridIndices /\ BlockState /\ part = "left" /\ ReadsAsWritten
      /\ \E m \in Nat : RxLeft(m) /\ cnt.PCC_idx = 98
  BY DEF ReadInv, PilotInv, BlockInv, RxState, Receiving, Received
<1>2. PICK m \in Nat : RxLeft(m)
  BY <1>1
<1>3. PICK n \in Nat : n = N_DF_symb(psdef)
  BY <1>1, WholePacket
<1>4. ReadCounts(m, m) /\ m = n
  <2>1. ReadCounts(m, m) /\ m <= n
    BY <1>2, <1>3 DEF RxLeft
  <2>2. m + 1 > n
    BY <1>3, <2>1 DEF ReadCounts, Received
  <2> QED  BY <1>3, <2>1, <2>2
<1>5. PICK q \in {1, 2, 4, 6, 8}, S \in {1, 2, 4, 8} : q = N_bps(psdef) /\ S = N_SS(psdef)
  BY <1>1, WholePacket
<1>6. PICK T \in Nat : T = N_PDC_subc(psdef) /\ G(psdef) = q * (S * T)
  BY <1>1, <1>5, WholePacket
<1>7. PilotsUpTo(b, N_eff_TX, m) = N_DRS_subc(psdef) /\ PdcUpTo(b, N_eff_TX, m) = T
  BY <1>1, <1>3, <1>4, <1>6, WholePacket
<1>8. /\ cnt.DRS_idx = N_DRS_subc(psdef) /\ cnt.PDC_subc_idx = S * T /\ cnt.residual = 0
      /\ cnt.PDC_bits_idx = G(psdef)
  BY <1>4, <1>5, <1>6, <1>7 DEF ReadCounts
<1>9. EverythingFound
  <2>1. S * T = T * S
    BY <1>5, <1>6
  <2> QED  BY <1>1, <1>5, <1>6, <1>8, <2>1 DEF EverythingFound, pcc_cells
<1>10. wp_dec(fec, cnt.cb_idx) - 24 = N_TB_bits(psdef)
  <2>1. Codable(fec) /\ fec.G = cnt.PDC_bits_idx
    BY <1>1, <1>8, Configured
  <2>2. Decoded(fec, fec.G, cnt.cb_idx)
    BY <1>1, <2>1 DEF BlockState, Receiving
  <2>3. cnt.cb_idx = fec.seg.C
    BY <2>1, <2>2, LastBlock
  <2>4. /\ psdef \in Definitions /\ HasSizes(psdef)
        /\ fec.seg = Segmentation(N_TB_bits(psdef), psdef.Z)
    BY <1>1 DEF GridConfig
  <2> QED  BY <2>3, <2>4, WholeBlocks
<1>11. /\ UNCHANGED <<psdef, air, read>> /\ part' = "over" /\ failed' = "none"
  BY <1>9, <1>10 DEF Received, sender, config
<1>12. ReadsAsWritten'
  BY <1>1, <1>11 DEF ReadsAsWritten
<1> QED  BY <1>11, <1>12 DEF RxState, Receiving

\* tx_t fills a symbol, nothing is read.
LEMMA ReadTransmit ==
    ASSUME ReadInv, McsLimit, Transmit
    PROVE  RxState' /\ ReadsAsWritten'
<1>1. /\ part = "tx" /\ read = <<>> /\ DOMAIN stage = 0..11
  BY DEF ReadInv, PilotInv, PilotState, RxState, Transmit
<1>2. failed' = "none"
  BY WrittenTransmit DEF ReadInv
<1>3. /\ part' = "tx" /\ UNCHANGED <<read, stage>>
  BY <1>2 DEF Transmit, estimator
<1>4. ReadsAsWritten'
  BY <1>1, <1>2, <1>3 DEF ReadsAsWritten
<1> QED  BY <1>1, <1>3, <1>4 DEF RxState, Receiving

\* Nothing happens.
LEMMA ReadUnchanged ==
    ASSUME ReadInv, UNCHANGED grid
    PROVE  WrittenState' /\ RxState' /\ ReadsAsWritten'
<1>1. UNCHANGED <<psdef, part, failed, ofdm_symb_idx, drs, pcc_cnt, cnt, air, ps_idx,
                  ofdm_symb_ps_idx, stage, now, read>>
  BY DEF grid, sender, config, stageidx, estimator
<1>2. /\ b' = b /\ N_eff_TX' = N_eff_TX /\ step' = step /\ SecondSymbol' = SecondSymbol
      /\ pcc_symbol_idx_max' = pcc_symbol_idx_max /\ relative_start' = relative_start
      /\ N_DF_symb(psdef)' = N_DF_symb(psdef)
  BY <1>1, SamePacket, SameTables DEF relative_start
<1>3. ReadsAsWritten'
  BY <1>1, ReadsStay DEF ReadInv
<1>4. \A n : AirRight(n)' <=> AirRight(n)
  <2>1. \A i, a : Written(i, a)' <=> Written(i, a)
    BY <1>1, SameWritten
  <2> QED  BY <1>1, <2>1 DEF AirRight
<1>5. \A m, i : /\ ReadCounts(m, i)' <=> ReadCounts(m, i)
                /\ Staged(m, i)' <=> Staged(m, i)
                /\ SentCounts(m)' <=> SentCounts(m)
  BY <1>1, <1>2, SameTables DEF ReadCounts, Staged, SentCounts
<1>6. (Due' <=> Due) /\ (PccFound' <=> PccFound)
  BY <1>1, <1>2 DEF Due, DrsDue, Between, LastDrs, PccFound
<1>7. \A m, i : /\ RxPcc(m)' <=> RxPcc(m)
                /\ RxAgain(m, i)' <=> RxAgain(m, i)
                /\ RxCollect(m, i)' <=> RxCollect(m, i)
                /\ RxRead(m, i)' <=> RxRead(m, i)
                /\ RxLeft(m)' <=> RxLeft(m)
  <2> TAKE m, i
  <2>1. PccUpTo(b, N_eff_TX, m)' = PccUpTo(b, N_eff_TX, m)
    BY <1>1, SameTables
  <2>2. Staged(0, m)' <=> Staged(0, m)
    BY <1>5
  <2>3. RxPcc(m)' <=> RxPcc(m)
    BY <1>1, <1>2, <1>5, <1>6, <2>1, <2>2 DEF RxPcc
  <2>4. RxAgain(m, i)' <=> RxAgain(m, i)
    BY <1>1, <1>2, <1>5 DEF RxAgain
  <2>5. RxCollect(m, i)' <=> RxCollect(m, i)
    <3>1. Staged(relative_start, ofdm_symb_ps_idx)' <=> Staged(relative_start, ofdm_symb_ps_idx)
      BY <1>1, <1>2 DEF Staged
    <3> QED  BY <1>1, <1>2, <1>5, <3>1 DEF RxCollect
  <2>6. RxRead(m, i)' <=> RxRead(m, i)
    <3>1. Staged(relative_start, step + 1)' <=> Staged(relative_start, step + 1)
      BY <1>1, <1>2 DEF Staged
    <3> QED  BY <1>1, <1>2, <1>5, <3>1 DEF RxRead
  <2>7. RxLeft(m)' <=> RxLeft(m)
    BY <1>1, <1>2, <1>5 DEF RxLeft
  <2> QED  BY <2>3, <2>4, <2>5, <2>6, <2>7
<1>8. WrittenState'
  BY <1>1, <1>2, <1>4, <1>5 DEF ReadInv, WrittenState
<1>9. RxState'
  <2>1. RxState
    BY DEF ReadInv
  <2> QED  BY <1>1, <1>2, <1>4, <1>6, <1>7, <2>1 DEF RxState
<1> QED  BY <1>3, <1>8, <1>9

LEMMA ReadInit == ASSUME GridInit PROVE ReadInv
<1>1. PilotInv /\ CellInv /\ WrittenState
  BY PilotInit, SentInit, WrittenInit
<1>2. part = "tx" /\ failed = "none" /\ read = <<>> /\ DOMAIN stage = 0..11
  BY DEF GridInit
<1>3. RxState /\ ReadsAsWritten
  BY <1>2 DEF RxState, ReadsAsWritten, Receiving
<1> QED  BY <1>1, <1>3 DEF ReadInv

LEMMA ReadNext == ASSUME ReadInv, McsLimit, [GridNext]_grid PROVE ReadInv'
<1>1. PilotInv' /\ CellInv'
  BY PilotNext, SentNext DEF ReadInv
<1>2. CASE UNCHANGED grid
  BY <1>1, <1>2, ReadUnchanged DEF ReadInv
<1>3. CASE GridNext
  <2>1. RxState' /\ ReadsAsWritten'
    BY <1>3, ReadTransmit, ReadTransmitted, ReadPccSymbol, ReadPdcBegins, ReadCollect, ReadCollected,
       ReadReadStage, ReadStageDone, ReadAgain, ReadReadLeft, ReadReceived DEF GridNext
  <2>2. WrittenState'
    <3>1. CASE Transmit
      BY <3>1, WrittenTransmit DEF ReadInv
    <3>2. CASE ~Transmit
      <4>1. part # "tx" \/ Transmitted
        BY <1>3, <3>2 DEF GridNext, PccSymbolRead, PdcBegins, Collect, Collected, ReadStage,
                          StageDone, Again, ReadLeft, Received
      <4>2. part' # "tx"
        BY <1>3, <3>2, <4>1 DEF GridNext, Transmitted, PccSymbolRead, PdcBegins, Collect, Collected,
                                ReadStage, StageDone, Again, ReadLeft, Received, Goes
      <4> QED  BY <4>2 DEF WrittenState
    <3> QED  BY <3>1, <3>2
  <2> QED  BY <1>1, <2>1, <2>2 DEF ReadInv
<1> QED  BY <1>2, <1>3

\* What rx_synced_t takes from its processing stage for a symbol are the cells and the position in
\* the PCC or PDC that tx_t wrote there, and at the end all cells and code blocks are read: for every
\* packet that has sizes and a modulation that tx_t and rx_synced_t accept.
THEOREM ReadsHold == GridInit /\ [][GridNext]_grid /\ McsLimit => []ReadsAsWritten
<1>1. GridInit => ReadInv
  BY ReadInit
<1>2. ReadInv /\ McsLimit /\ [GridNext]_grid => ReadInv'
  BY ReadNext
<1>3. ReadInv => ReadsAsWritten
  BY DEF ReadInv
<1>4. McsLimit => McsLimit'
  BY DEF McsLimit
<1> QED  BY <1>1, <1>2, <1>3, <1>4, PTL
=============================================================================
