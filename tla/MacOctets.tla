------------------------------ MODULE MacOctets ------------------------------
(***************************************************************************)
(* What the coders of sections_part4 share: bit fields in an octet,        *)
(* numbers in network byte order, optional fields one after the other, and *)
(* the ranges of the enumerations of the standard.                         *)
(*                                                                         *)
(* A packed message is a sequence of octets, octet k of the source is      *)
(* o[k + 1].  An unpacked message is a function from the names of the      *)
(* fields it has to their values, so a std::optional that has no value is  *)
(* a name outside of its domain.  A flag is 0 or 1.  A coded value outside *)
(* of its enumeration, which from_coded_value() turns into not_defined, is *)
(* kept: it is refused by Valid in both cases.                             *)
(***************************************************************************)
EXTENDS Integers, Sequences, FiniteSets, SequencesExt

(* has_value() as the number it becomes when it is shifted or multiplied. *)
Has(m, f) == IF f \in DOMAIN m THEN 1 ELSE 0

(* The test of is_valid(): the fields that are there are in range. *)
InRange(m, fields) == \A f \in DOMAIN m \cap DOMAIN fields : m[f] \in fields[f]

(* v << shift, stored to an octet. *)
Shl(v, shift) == (v * 2^shift) % 256

(* (octet >> shift) & bitmask_lsb<width>() *)
Field(octet, shift, width) == (octet \div 2^shift) % 2^width

(* The n lower octets of v in network byte order, and back. *)
l2b_lower(v, n) == [i \in 1..n |-> (v \div 256^(n - i)) % 256]
b2l_lower(o, at, n) ==
  LET v[i \in 0..n] == IF i = 0 THEN 0 ELSE 256 * v[i - 1] + o[at + i] IN v[n]

(* An optional field of n octets, as every pack() appends it. *)
Opt(m, f, n) == IF f \in DOMAIN m THEN l2b_lower(m[f], n) ELSE << >>

(* The fields of m and those of n: @@ of module TLC.                       *)
Merge(m, n) == [f \in DOMAIN m \cup DOMAIN n |-> IF f \in DOMAIN m THEN m[f] ELSE n[f]]

(* Optional fields as unpack() reads them one after the other from octet   *)
(* at: <<name, is it there, number of octets, bits used of the first>>.    *)
(* Of what was read before, before.at is the octet behind it.              *)
OptionalField(o, before, it) ==
  IF it[2] = 0 THEN before
  ELSE [at |-> before.at + it[3],
        m |-> [f \in {it[1]} \cup DOMAIN before.m |->
                 IF f # it[1] THEN before.m[f]
                 ELSE b2l_lower(<<Field(o[before.at + 1], 0, it[4])>>
                                  \o SubSeq(o, before.at + 2, before.at + it[3]), 0, it[3])]]

Optionals(o, at, items) ==
  LET read[n \in 0..Len(items)] ==
        IF n = 0 THEN [at |-> at, m |-> << >>] ELSE OptionalField(o, read[n - 1], items[n])
  IN read[Len(items)]

(* get_absolute_channel_frequency_numbering(): the lowest and the highest  *)
(* channel of bands 1 to 19.                                               *)
Bands ==
  << <<1657, 1677>>, <<1680, 1700>>, <<2258, 2352>>, <<524, 552>>, <<1, 22>>, <<288, 411>>,
     <<309, 321>>, <<1137, 1234>>, <<1691, 1711>>, <<1806, 1822>>, <<2142, 2256>>,
     <<2374, 2511>>, <<3126, 3183>>, <<3184, 3298>>, <<3299, 3356>>, <<3994, 4103>>,
     <<4392, 4466>>, <<4105, 4203>>, <<4265, 4391>> >>

is_absolute_channel_number_in_range ==
  {n \in 0..8191 : \E b \in 1..19 : Bands[b][1] <= n /\ n <= Bands[b][2]}

(* A bool, and the enumerations as the set of their valid values. *)
Flag == 0..1
clusters_max_tx_power_t == 3..15
network_beacon_period_t == 0..6
cluster_beacon_period_t == 0..10
count_to_trigger_t == 0..15
quality_threshold_t == 0..3
setup_cause_t == 0..6
max_harq_retransmission_delay_t == 0..30
flow_id_t == 1..6
=============================================================================
