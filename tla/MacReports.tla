----------------------------- MODULE MacReports -----------------------------
(***************************************************************************)
(* The information elements by which a radio device reports about itself   *)
(* and what it hears: RD capability, neighbouring, broadcast indication,   *)
(* group assignment, load info and measurement report.                     *)
(***************************************************************************)
EXTENDS MacOctets

-----------------------------------------------------------------------------
(* rd_capability_ie_t: a PHY capability is a function from the names of    *)
(* PhyLayout to values; an additional one has mu and beta, too.            *)

phy_capability_t ==
  [rd_power_class |-> 0..2, max_nss_for_rx |-> 0..3, rx_for_tx_diversity |-> 0..3,
   rx_gain_index |-> 0..8, max_mcs |-> 0..9, soft_buffer_size |-> 0..8,
   nof_harq_processes |-> 0..3, harq_feedback_delay |-> 0..6, mu |-> 0..3, beta |-> 0..5]

PhyOctets(c) ==
  << Shl(c.rd_power_class, 4) + Shl(c.max_nss_for_rx, 2) + c.rx_for_tx_diversity,
     Shl(c.rx_gain_index, 4) + c.max_mcs,
     Shl(c.soft_buffer_size, 4) + Shl(c.nof_harq_processes, 2),
     Shl(c.harq_feedback_delay, 4) >>

PhyFrom(o, at) ==
  [rd_power_class |-> Field(o[at + 1], 4, 3), max_nss_for_rx |-> Field(o[at + 1], 2, 2),
   rx_for_tx_diversity |-> Field(o[at + 1], 0, 2),
   rx_gain_index |-> Field(o[at + 2], 4, 4), max_mcs |-> Field(o[at + 2], 0, 4),
   soft_buffer_size |-> Field(o[at + 3], 4, 4), nof_harq_processes |-> Field(o[at + 3], 2, 2),
   harq_feedback_delay |-> Field(o[at + 4], 4, 4)]

RDCapability_Fields ==
  [release |-> 1..4, operating_modes |-> 0..2, supports_mesh_system_operation |-> Flag,
   supports_scheduled_data_transfer_service |-> Flag, mac_security |-> Flag,
   dlc_service_type |-> 0..4]

RDCapability_Valid(m) ==
  /\ Len(m.additional_phy_capabilities) <= 7
  /\ \A i \in 1..Len(m.additional_phy_capabilities) :
       InRange(m.additional_phy_capabilities[i], phy_capability_t)
  /\ InRange(m, RDCapability_Fields)
  /\ InRange(m.phy_capability, phy_capability_t)

RDCapability_Size(m) == 7 + 5 * Len(m.additional_phy_capabilities)

RDCapability_Pack(m) ==
  << Shl(Len(m.additional_phy_capabilities), 5) + m.release,
     Shl(m.operating_modes, 2) + Shl(m.supports_mesh_system_operation, 1)
       + m.supports_scheduled_data_transfer_service,
     Shl(m.mac_security, 5) + Shl(m.dlc_service_type, 2) >>
  \o PhyOctets(m.phy_capability)
  \o FlattenSeq([i \in 1..Len(m.additional_phy_capabilities) |->
       LET c == m.additional_phy_capabilities[i]
       IN << Shl(c.mu, 5) + Shl(c.beta, 1) >> \o PhyOctets(c)])

RDCapability_Peek(o) == 7 + 5 * Field(o[1], 5, 3)

RDCapability_Unpack(o) ==
  [at |-> RDCapability_Peek(o),
   m |-> [release |-> Field(o[1], 0, 5),
          operating_modes |-> Field(o[2], 2, 2),
          supports_mesh_system_operation |-> Field(o[2], 1, 1),
          supports_scheduled_data_transfer_service |-> Field(o[2], 0, 1),
          mac_security |-> Field(o[3], 5, 3), dlc_service_type |-> Field(o[3], 2, 3),
          phy_capability |-> PhyFrom(o, 3),
          additional_phy_capabilities |->
            [i \in 1..((RDCapability_Peek(o) - 7) \div 5) |->
               LET at == 7 + 5 * (i - 1)
               IN [mu |-> Field(o[at + 1], 5, 3), beta |-> Field(o[at + 1], 1, 4)]
                  @@ PhyFrom(o, at + 1)]]]

-----------------------------------------------------------------------------
(* neighbouring_ie_t: is_valid() and pack() call std::optional::value()    *)
(* before has_value().                                                     *)

Neighbouring_Raises(m) == ~({"radio_device_class", "next_cluster_channel"} \subseteq DOMAIN m)

Neighbouring_Fields ==
  [short_rd_id |-> 0..65535, radio_device_class |-> [mu : 0..3, beta : 0..5],
   measurement_result_snr |-> 0..255, measurement_result_rssi_2 |-> 0..255,
   has_power_constraints |-> Flag, next_cluster_channel |-> is_absolute_channel_number_in_range,
   time_to_next |-> Nat, network_beacon_period |-> network_beacon_period_t,
   cluster_beacon_period |-> cluster_beacon_period_t]

Neighbouring_Valid(m) == InRange(m, Neighbouring_Fields)

Neighbouring_Size(m) ==
  4 + Has(m, "radio_device_class") + Has(m, "measurement_result_snr")
    + Has(m, "measurement_result_rssi_2") + 2 * Has(m, "next_cluster_channel")
    + 4 * Has(m, "time_to_next")

(* The channel is shifted by five bits, and by eight when it is unpacked.  *)
Neighbouring_Pack(m) ==
  l2b_lower(m.short_rd_id, 2)
  \o << Shl(Has(m, "radio_device_class"), 5) + Shl(Has(m, "measurement_result_snr"), 4)
          + Shl(Has(m, "measurement_result_rssi_2"), 3) + Shl(m.has_power_constraints, 2)
          + Shl(Has(m, "next_cluster_channel"), 1) + Has(m, "time_to_next"),
        Shl(m.network_beacon_period, 4) + m.cluster_beacon_period >>
  \o (IF Has(m, "next_cluster_channel") = 0 THEN << >>
      ELSE << Field(m.next_cluster_channel, 5, 8), Field(m.next_cluster_channel, 0, 8) >>)
  \o Opt(m, "time_to_next", 4)
  \o Opt(m, "measurement_result_rssi_2", 1) \o Opt(m, "measurement_result_snr", 1)
  \o (IF Has(m, "radio_device_class") = 0 THEN << >>
      ELSE << Shl(m.radio_device_class.mu, 5) + Shl(m.radio_device_class.beta, 1) >>)

(* The network beacon period is not shifted back. *)
Neighbouring_Unpack(o) ==
  LET r == Optionals(o, 4,
             << <<"next_cluster_channel", Field(o[3], 1, 1), 2, 5>>,
                <<"time_to_next", Field(o[3], 0, 1), 4, 8>>,
                <<"measurement_result_rssi_2", Field(o[3], 3, 1), 1, 8>>,
                <<"measurement_result_snr", Field(o[3], 4, 1), 1, 8>> >>)
      class == Field(o[3], 5, 1)
  IN [at |-> r.at + class,
      m |-> [short_rd_id |-> b2l_lower(o, 0, 2),
             has_power_constraints |-> Field(o[3], 2, 1),
             network_beacon_period |-> 16 * Field(o[4], 4, 4),
             cluster_beacon_period |-> Field(o[4], 0, 4)]
            @@ r.m
            @@ (IF class = 0 THEN << >>
                ELSE "radio_device_class" :> [mu |-> Field(o[r.at + 1], 5, 3),
                                              beta |-> Field(o[r.at + 1], 1, 4)])]

(* The flag of the channel is taken in place, so it is 2 and not 1. *)
Neighbouring_Peek(o) ==
  4 + Field(o[3], 5, 1) + Field(o[3], 4, 1) + Field(o[3], 3, 1) + 2 * (2 * Field(o[3], 1, 1))
    + 4 * Field(o[3], 0, 1)

-----------------------------------------------------------------------------
(* broadcast_indication_ie_t: a paging (indication type 0) or a random     *)
(* access response (1).  ID type 0 is short.  Of the feedback, 0 is none,  *)
(* 1 MCS, 2 and 3 MIMO for two and four antennas; its value is a channel   *)
(* quality or [nof_layers, codebook_index].                                *)

CodebookIndexMax(feedback) == IF feedback = 2 THEN <<5, 2>> ELSE <<27, 21, 4>>

BroadcastIndication_Valid(m) ==
  /\ m.indication_type \in 0..1 /\ m.id_type \in 0..1
  /\ m.id_type = 0 => m.rd_id \in 0..65535
  /\ m.indication_type = 1 =>
       /\ m.id_type = 0 /\ m.ack_nack \in 0..1 /\ m.feedback \in 0..3
       /\ m.feedback = 1 => m.mcs_mimo_feedback \in 1..12
       /\ m.feedback \in {2, 3} =>
            LET limit == CodebookIndexMax(m.feedback) IN
            /\ m.mcs_mimo_feedback.nof_layers \in 0..(Len(limit) - 1)
            /\ m.mcs_mimo_feedback.codebook_index <= limit[m.mcs_mimo_feedback.nof_layers + 1]

BroadcastIndication_Size(m) ==
  (IF m.id_type = 0 THEN 3 ELSE 5) + (IF m.indication_type = 1 /\ m.feedback # 0 THEN 1 ELSE 0)

BroadcastIndication_Pack(m) ==
  << Shl(m.indication_type, 5) + Shl(m.id_type, 4) + m.resource_allocation_ie_follows
       + (IF m.indication_type = 1 THEN Shl(m.ack_nack, 3) + Shl(m.feedback, 1) ELSE 0) >>
  \o l2b_lower(m.rd_id, IF m.id_type = 0 THEN 2 ELSE 4)
  \o (IF m.indication_type = 0 \/ m.feedback = 0 THEN << >>
      ELSE IF m.feedback = 1 THEN << m.mcs_mimo_feedback >>
      ELSE << Shl(m.mcs_mimo_feedback.nof_layers, IF m.feedback = 2 THEN 3 ELSE 6)
                + m.mcs_mimo_feedback.codebook_index >>)

(* The feedback is masked but not shifted back, so 1 becomes 2, and from   *)
(* 2 on it is out of range.                                                *)
BroadcastIndication_Unpack(o) ==
  LET id_type == Field(o[1], 4, 1)
      at == IF id_type = 0 THEN 3 ELSE 5
      feedback == 2 * Field(o[1], 1, 2)
      head == [indication_type |-> Field(o[1], 5, 3), id_type |-> id_type,
               resource_allocation_ie_follows |-> Field(o[1], 0, 1),
               rd_id |-> b2l_lower(o, 1, at - 1)]
      response == [ack_nack |-> Field(o[1], 3, 1), feedback |-> feedback]
  IN IF head.indication_type # 1 THEN [at |-> at, m |-> head]
     ELSE IF feedback # 2 THEN [at |-> at, m |-> head @@ response]
     ELSE [at |-> at + 1,
           m |-> head @@ response @@ ("mcs_mimo_feedback" :>
                   [nof_layers |-> Field(o[at + 1], 3, 1), codebook_index |-> Field(o[at + 1], 0, 3)])]

(* A reserved type returns UNDEFINED_NUMERIC_32 as a size: Undefined. *)
BroadcastIndication_Peek(o, Undefined) ==
  IF Field(o[1], 5, 3) > 1 THEN Undefined
  ELSE (IF Field(o[1], 4, 1) = 0 THEN 3 ELSE 5)
       + (IF Field(o[1], 5, 3) = 1 /\ Field(o[1], 1, 2) # 0 THEN 1 ELSE 0)

-----------------------------------------------------------------------------
(* group_assignment_ie_t: single is 1, multiple is 0.  The number of       *)
(* assignments follows from the length in the multiplexing header.         *)

GroupAssignment_Fields ==
  [single |-> Flag, group_id |-> 0..127,
   resource_assignments |-> Seq([direct : Flag, resource_tag : 0..127])]

GroupAssignment_Valid(m) ==
  /\ InRange(m, GroupAssignment_Fields)
  /\ IF m.single = 1 THEN Len(m.resource_assignments) = 1 ELSE Len(m.resource_assignments) >= 2

GroupAssignment_Size(m) == 1 + Len(m.resource_assignments)

GroupAssignment_Pack(m) ==
  << Shl(m.single, 7) + m.group_id >>
  \o [i \in 1..Len(m.resource_assignments) |->
        Shl(m.resource_assignments[i].direct, 7) + m.resource_assignments[i].resource_tag]

GroupAssignment_Unpack(o, length) ==
  [at |-> length,
   m |-> [single |-> Field(o[1], 7, 1), group_id |-> Field(o[1], 0, 7),
          resource_assignments |-> [i \in 1..(length - 1) |->
            [direct |-> Field(o[i + 1], 7, 1), resource_tag |-> Field(o[i + 1], 0, 7)]]]]

-----------------------------------------------------------------------------
(* load_info_ie_t: max_assoc says whether a number of radio devices has    *)
(* one octet (0) or two (1).                                               *)

LoadInfo_Fields(max_assoc) ==
  [max_assoc |-> Flag, rd_pt_load_percentage |-> 0..255, rach_load_percentage |-> 0..255,
   percentage_subslots_free |-> 0..255, percentage_subslots_busy |-> 0..255,
   traffic_load_percentage |-> 0..255,
   max_nof_associated_rd |-> 0..(IF max_assoc = 0 THEN 255 ELSE 65535),
   rd_ft_load_percentage |-> 0..255]

LoadInfo_Valid(m) == InRange(m, LoadInfo_Fields(m.max_assoc))

LoadInfo_Size(m) ==
  4 + m.max_assoc + Has(m, "rd_pt_load_percentage") + Has(m, "rach_load_percentage")
    + 2 * Has(m, "percentage_subslots_free")

LoadInfo_Pack(m) ==
  << Shl(m.max_assoc, 3) + Shl(Has(m, "rd_pt_load_percentage"), 2)
       + Shl(Has(m, "rach_load_percentage"), 1) + Has(m, "percentage_subslots_free"),
     m.traffic_load_percentage >>
  \o l2b_lower(m.max_nof_associated_rd, 1 + m.max_assoc) \o << m.rd_ft_load_percentage >>
  \o Opt(m, "rd_pt_load_percentage", 1) \o Opt(m, "rach_load_percentage", 1)
  \o Opt(m, "percentage_subslots_free", 1) \o Opt(m, "percentage_subslots_busy", 1)

LoadInfo_Unpack(o) ==
  LET max_assoc == Field(o[1], 3, 1)
      r == Optionals(o, 4 + max_assoc,
             << <<"rd_pt_load_percentage", Field(o[1], 2, 1), 1, 8>>,
                <<"rach_load_percentage", Field(o[1], 1, 1), 1, 8>>,
                <<"percentage_subslots_free", Field(o[1], 0, 1), 1, 8>>,
                <<"percentage_subslots_busy", Field(o[1], 0, 1), 1, 8>> >>)
  IN [at |-> r.at,
      m |-> Merge([max_assoc |-> max_assoc, traffic_load_percentage |-> o[2],
                   max_nof_associated_rd |-> b2l_lower(o, 2, 1 + max_assoc),
                   rd_ft_load_percentage |-> o[4 + max_assoc]], r.m)]

(* Two flags are taken in place, so they are 4 and 2 and not 1. *)
LoadInfo_Peek(o) ==
  4 + Field(o[1], 3, 1) + 4 * Field(o[1], 2, 1) + 2 * Field(o[1], 1, 1) + 2 * Field(o[1], 0, 1)

-----------------------------------------------------------------------------
(* measurement_report_ie_t *)

MeasurementReport_Fields ==
  [measurement_result_snr |-> 0..255, measurement_result_rssi_2 |-> 0..255,
   measurement_result_rssi_1 |-> 0..255, measurement_result_tx_count |-> 0..255, rach |-> Flag]

MeasurementReport_Valid(m) == InRange(m, MeasurementReport_Fields)

MeasurementReport_Size(m) == 1 + Cardinality(DOMAIN m \ {"rach"})

MeasurementReport_Pack(m) ==
  << Shl(Has(m, "measurement_result_snr"), 4) + Shl(Has(m, "measurement_result_rssi_2"), 3)
       + Shl(Has(m, "measurement_result_rssi_1"), 2) + Shl(Has(m, "measurement_result_tx_count"), 1)
       + m.rach >>
  \o Opt(m, "measurement_result_snr", 1) \o Opt(m, "measurement_result_rssi_2", 1)
  \o Opt(m, "measurement_result_rssi_1", 1) \o Opt(m, "measurement_result_tx_count", 1)

MeasurementReport_Unpack(o) ==
  LET r == Optionals(o, 1,
             << <<"measurement_result_snr", Field(o[1], 4, 1), 1, 8>>,
                <<"measurement_result_rssi_2", Field(o[1], 3, 1), 1, 8>>,
                <<"measurement_result_rssi_1", Field(o[1], 2, 1), 1, 8>>,
                <<"measurement_result_tx_count", Field(o[1], 1, 1), 1, 8>> >>)
  IN [at |-> r.at, m |-> Merge([rach |-> Field(o[1], 0, 1)], r.m)]

(* The flag of the TX count is taken in place, so it is 2 and not 1. *)
MeasurementReport_Peek(o) ==
  1 + Field(o[1], 4, 1) + Field(o[1], 3, 1) + Field(o[1], 2, 1) + 2 * Field(o[1], 1, 1)
=============================================================================
