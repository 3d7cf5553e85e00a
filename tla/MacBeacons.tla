----------------------------- MODULE MacBeacons -----------------------------
(***************************************************************************)
(* Network beacon message and cluster beacon message: for each message its *)
(* is_valid(), get_packed_size(), pack(), unpack() and                     *)
(* get_packed_size_by_peeking().  pack() and unpack() are translated one   *)
(* by one, so that nothing but the code makes them inverse to each other.  *)
(* unpack() returns the fields and the octet at which it stopped.          *)
(***************************************************************************)
EXTENDS MacOctets

-----------------------------------------------------------------------------
(* network_beacon_message_t *)

NetworkBeacon_Fields ==
  [clusters_max_tx_power |-> clusters_max_tx_power_t, has_power_constraints |-> Flag,
   current_cluster_channel |-> is_absolute_channel_number_in_range,
   network_beacon_channel_0 |-> is_absolute_channel_number_in_range,
   network_beacon_channel_1 |-> is_absolute_channel_number_in_range,
   network_beacon_channel_2 |-> is_absolute_channel_number_in_range,
   network_beacon_period |-> network_beacon_period_t,
   cluster_beacon_period |-> cluster_beacon_period_t,
   next_cluster_channel |-> is_absolute_channel_number_in_range, time_to_next |-> Nat]

NetworkBeacon_Valid(m) == InRange(m, NetworkBeacon_Fields)

NetworkBeacon_Channels(m) ==
  Has(m, "network_beacon_channel_0") + Has(m, "network_beacon_channel_1")
    + Has(m, "network_beacon_channel_2")

NetworkBeacon_Size(m) ==
  8 + Has(m, "clusters_max_tx_power") + 2 * Has(m, "current_cluster_channel")
    + 2 * NetworkBeacon_Channels(m)

NetworkBeacon_Pack(m) ==
  << Shl(Has(m, "clusters_max_tx_power"), 4) + Shl(m.has_power_constraints, 3)
       + Shl(Has(m, "current_cluster_channel"), 2) + NetworkBeacon_Channels(m),
     Shl(m.network_beacon_period, 4) + m.cluster_beacon_period >>
  \o l2b_lower(m.next_cluster_channel, 2) \o l2b_lower(m.time_to_next, 4)
  \o Opt(m, "clusters_max_tx_power", 1) \o Opt(m, "current_cluster_channel", 2)
  \o Opt(m, "network_beacon_channel_0", 2) \o Opt(m, "network_beacon_channel_1", 2)
  \o Opt(m, "network_beacon_channel_2", 2)

NetworkBeacon_Unpack(o) ==
  LET channels == Field(o[1], 0, 2)
      Included(n) == IF channels >= n THEN 1 ELSE 0
      r == Optionals(o, 8,
             << <<"clusters_max_tx_power", Field(o[1], 4, 1), 1, 4>>,
                <<"current_cluster_channel", Field(o[1], 2, 1), 2, 5>>,
                <<"network_beacon_channel_0", Included(1), 2, 5>>,
                <<"network_beacon_channel_1", Included(2), 2, 5>>,
                <<"network_beacon_channel_2", Included(3), 2, 5>> >>)
  IN [at |-> r.at,
      m |-> Merge([has_power_constraints |-> Field(o[1], 3, 1),
                   network_beacon_period |-> Field(o[2], 4, 4),
                   cluster_beacon_period |-> Field(o[2], 0, 4),
                   next_cluster_channel |-> o[4] + (Field(o[3], 0, 5) * 256),
                   time_to_next |-> b2l_lower(o, 4, 4)], r.m)]

NetworkBeacon_Peek(o) ==
  8 + Field(o[1], 4, 1) + 2 * Field(o[1], 2, 1) + 2 * Field(o[1], 0, 2)

-----------------------------------------------------------------------------
(* cluster_beacon_message_t: the frame offset has one octet or two, as the *)
(* subcarrier scaling factor mu says.                                      *)

FrameOffsetSize(mu) == IF mu <= 4 THEN 1 ELSE 2

ClusterBeacon_Fields(mu) ==
  [system_frame_number |-> 0..255, clusters_max_tx_power |-> clusters_max_tx_power_t,
   has_power_constraints |-> Flag, frame_offset |-> 0..(256^FrameOffsetSize(mu) - 1),
   next_cluster_channel |-> is_absolute_channel_number_in_range, time_to_next |-> Nat,
   network_beacon_period |-> network_beacon_period_t,
   cluster_beacon_period |-> cluster_beacon_period_t,
   count_to_trigger |-> count_to_trigger_t,
   rel_quality |-> quality_threshold_t, min_quality |-> quality_threshold_t]

ClusterBeacon_Valid(m, mu) == InRange(m, ClusterBeacon_Fields(mu))

ClusterBeacon_Size(m, mu) ==
  4 + Has(m, "clusters_max_tx_power") + Has(m, "frame_offset") * FrameOffsetSize(mu)
    + 2 * Has(m, "next_cluster_channel") + 4 * Has(m, "time_to_next")

ClusterBeacon_Pack(m, mu) ==
  << m.system_frame_number,
     Shl(Has(m, "clusters_max_tx_power"), 4) + Shl(m.has_power_constraints, 3)
       + Shl(Has(m, "frame_offset"), 2) + Shl(Has(m, "next_cluster_channel"), 1)
       + Has(m, "time_to_next"),
     Shl(m.network_beacon_period, 4) + m.cluster_beacon_period,
     Shl(m.count_to_trigger, 4) + Shl(m.rel_quality, 2) + m.min_quality >>
  \o Opt(m, "clusters_max_tx_power", 1) \o Opt(m, "frame_offset", FrameOffsetSize(mu))
  \o Opt(m, "next_cluster_channel", 2) \o Opt(m, "time_to_next", 4)

ClusterBeacon_Unpack(o, mu) ==
  LET r == Optionals(o, 4,
             << <<"clusters_max_tx_power", Field(o[2], 4, 1), 1, 4>>,
                <<"frame_offset", Field(o[2], 2, 1), FrameOffsetSize(mu), 8>>,
                <<"next_cluster_channel", Field(o[2], 1, 1), 2, 5>>,
                <<"time_to_next", Field(o[2], 0, 1), 4, 8>> >>)
  IN [at |-> r.at,
      m |-> Merge([system_frame_number |-> o[1],
                   has_power_constraints |-> Field(o[2], 3, 1),
                   network_beacon_period |-> Field(o[3], 4, 4),
                   cluster_beacon_period |-> Field(o[3], 0, 4),
                   count_to_trigger |-> Field(o[4], 4, 4),
                   rel_quality |-> Field(o[4], 2, 2),
                   min_quality |-> Field(o[4], 0, 2)], r.m)]

ClusterBeacon_Peek(o, mu) ==
  4 + Field(o[2], 4, 1) + Field(o[2], 2, 1) * FrameOffsetSize(mu) + 2 * Field(o[2], 1, 1)
    + 4 * Field(o[2], 0, 1)

-----------------------------------------------------------------------------
(* The transmit power of the beacon in dBm and its coded value.            *)

tx_power_table == << -13, -6, -3, 0, 3, 6, 10, 14, 19, 23, 26, 29, 32 >>

(* The smallest entry of the table that is not below dBm, or the last one; *)
(* the entry itself, not its position, is cast to the coded value.         *)
clusters_max_tx_power_from_dBm(dBm) ==
  LET above == {i \in 1..13 : tx_power_table[i] >= dBm}
  IN tx_power_table[IF above = {} THEN 13 ELSE CHOOSE i \in above : \A k \in above : i <= k]

(* std::array::at() raises an exception outside of the table. *)
clusters_max_tx_power_to_dBm(coded) ==
  IF coded - 3 \in 0..12 THEN tx_power_table[coded - 3 + 1] ELSE "std::out_of_range"
=============================================================================
