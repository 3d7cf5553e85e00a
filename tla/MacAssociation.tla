--------------------------- MODULE MacAssociation ---------------------------
(***************************************************************************)
(* The messages by which a portable part associates with a fixed part and  *)
(* the two change the association: association request, response and       *)
(* release, reconfiguration request and response.                          *)
(*                                                                         *)
(* A HARQ configuration is [N_harq_processes, max_harq_retransmission_     *)
(* delay].  Some is_valid() call std::optional::value() before they ask    *)
(* has_value(): that raises an exception, ..._Raises(m) below.             *)
(***************************************************************************)
EXTENDS MacOctets

harq_configuration_t ==
  [N_harq_processes : 0..7, max_harq_retransmission_delay : max_harq_retransmission_delay_t]

HarqOctet(h) == Shl(h.N_harq_processes, 5) + h.max_harq_retransmission_delay

unpack_harq_config(octet) ==
  [N_harq_processes |-> Field(octet, 5, 3), max_harq_retransmission_delay |-> Field(octet, 0, 5)]

(* A std::set is packed in ascending order. *)
Ascending(S) == SetToSortSeq(S, <)

(* An optional field that is packed to one octet by Code, as unpack reads it. *)
OptionalOctet(o, at, name, there, Decode(_)) ==
  IF there = 1 THEN name :> Decode(o[at + 1]) ELSE << >>

-----------------------------------------------------------------------------
(* association_request_message_t *)

AssociationRequest_Fields ==
  [setup_cause |-> setup_cause_t, has_power_constraints |-> Flag,
   harq_tx |-> harq_configuration_t, harq_rx |-> harq_configuration_t,
   flow_ids |-> SUBSET flow_id_t \ {{}},
   ft_configuration |->
     [network_beacon_period : network_beacon_period_t,
      cluster_beacon_period : cluster_beacon_period_t,
      next_cluster_channel : is_absolute_channel_number_in_range, time_to_next : Nat],
   current_cluster_channel |-> is_absolute_channel_number_in_range]

AssociationRequest_Valid(m) == InRange(m, AssociationRequest_Fields)

AssociationRequest_Size(m) ==
  4 + Cardinality(m.flow_ids) + 7 * Has(m, "ft_configuration")
    + 2 * Has(m, "current_cluster_channel")

AssociationRequest_Pack(m) ==
  << Shl(m.setup_cause, 5) + Shl(Cardinality(m.flow_ids), 2) + Shl(m.has_power_constraints, 1)
       + Has(m, "ft_configuration"),
     Shl(Has(m, "current_cluster_channel"), 7),
     HarqOctet(m.harq_tx), HarqOctet(m.harq_rx) >>
  \o Ascending(m.flow_ids)
  \o (IF Has(m, "ft_configuration") = 0 THEN << >>
      ELSE << Shl(m.ft_configuration.network_beacon_period, 4)
                + m.ft_configuration.cluster_beacon_period >>
           \o l2b_lower(m.ft_configuration.next_cluster_channel, 2)
           \o l2b_lower(m.ft_configuration.time_to_next, 4))
  \o Opt(m, "current_cluster_channel", 2)

(* The network beacon period is masked by bitmask_msb<4>(), the four upper *)
(* bits of 32, and not shifted: of an octet nothing is left of it.         *)
AssociationRequest_Unpack(o) ==
  LET flows == Field(o[1], 2, 3)
      is_operating_in_ft_mode == Field(o[1], 0, 1)
      ft == 4 + flows
      channel == ft + 7 * is_operating_in_ft_mode
      r == Optionals(o, channel, << <<"current_cluster_channel", Field(o[2], 7, 1), 2, 5>> >>)
  IN [at |-> r.at,
      m |-> [setup_cause |-> Field(o[1], 5, 3),
             has_power_constraints |-> Field(o[1], 1, 1),
             harq_tx |-> unpack_harq_config(o[3]),
             harq_rx |-> unpack_harq_config(o[4]),
             flow_ids |-> {Field(o[4 + n], 0, 6) : n \in 1..flows}]
            @@ r.m
            @@ (IF is_operating_in_ft_mode = 0 THEN << >>
                ELSE "ft_configuration" :>
                       [network_beacon_period |-> 0,
                        cluster_beacon_period |-> Field(o[ft + 1], 0, 4),
                        next_cluster_channel |-> (Field(o[ft + 2], 0, 5) * 256) + o[ft + 3],
                        time_to_next |-> b2l_lower(o, ft + 3, 4)])]

(* NONRESERVED_FIELD_SET_TO_RESERVED is -1. *)
AssociationRequest_Peek(o) ==
  LET flows == Field(o[1], 2, 3) IN
  IF flows = 7 THEN -1 ELSE 4 + flows + 7 * Field(o[1], 0, 1) + 2 * Field(o[2], 7, 1)

-----------------------------------------------------------------------------
(* association_response_message_t.  nof_flows_accepted: none is 0,         *)
(* as_included is 1 and as_requested is 7.                                 *)

FlowsAccepted(m, flows) ==
  IF m.nof_flows_accepted = 1 THEN Cardinality(flows) ELSE m.nof_flows_accepted

AssociationResponse_Fields ==
  [reject_info |-> [reject_cause : 0..4, reject_time : 0..8],
   harq_configuration |-> [rx : harq_configuration_t, tx : harq_configuration_t],
   nof_flows_accepted |-> {0, 1, 7}, flow_ids |-> SUBSET flow_id_t,
   group_info |-> [group_id : 0..127, resource_tag : 0..127], tx_power |-> Flag]

AssociationResponse_Valid(m) ==
  IF "reject_info" \in DOMAIN m
  THEN m.reject_info \in AssociationResponse_Fields.reject_info
  ELSE /\ InRange(m, AssociationResponse_Fields)
       /\ m.nof_flows_accepted = 1 => m.flow_ids # {}

AssociationResponse_Size(m) ==
  IF "reject_info" \in DOMAIN m THEN 2
  ELSE 1 + 2 * Has(m, "harq_configuration") + Cardinality(m.flow_ids) + 2 * Has(m, "group_info")

AssociationResponse_Pack(m) ==
  IF "reject_info" \in DOMAIN m
  THEN << 0, Shl(m.reject_info.reject_cause, 4) + m.reject_info.reject_time >>
  ELSE << 128 + Shl(Has(m, "harq_configuration"), 5) + Shl(FlowsAccepted(m, m.flow_ids), 2)
            + Shl(Has(m, "group_info"), 1) + m.tx_power >>
       \o (IF Has(m, "harq_configuration") = 0 THEN << >>
           ELSE << HarqOctet(m.harq_configuration.rx), HarqOctet(m.harq_configuration.tx) >>)
       \o Ascending(m.flow_ids)
       \o (IF Has(m, "group_info") = 0 THEN << >>
           ELSE << m.group_info.group_id, m.group_info.resource_tag >>)

(* ~mac_pdu_offset[0] >> 7: the octet is promoted to int before it is      *)
(* inverted, so the result is -1 or -2 and never 0.                        *)
IsRejected(octet) == (-1 - octet) \div 128 # 0

AssociationResponse_Unpack(o) ==
  IF IsRejected(o[1])
  THEN [at |-> 2, m |-> "reject_info" :> [reject_cause |-> Field(o[2], 4, 4),
                                          reject_time |-> Field(o[2], 0, 4)]]
  ELSE LET accepted == Field(o[1], 2, 3)
           included == IF accepted \in {0, 7} THEN 0 ELSE accepted
           flow == 1 + 2 * Field(o[1], 5, 1)
           group == flow + included
       IN [at |-> group + 2 * Field(o[1], 1, 1),
           m |-> [nof_flows_accepted |-> IF accepted \in {0, 7} THEN accepted ELSE 1,
                  flow_ids |-> {Field(o[flow + n], 0, 6) : n \in 1..included},
                  tx_power |-> Field(o[1], 0, 1)]
                 @@ (IF Field(o[1], 5, 1) = 0 THEN << >>
                     ELSE "harq_configuration" :> [rx |-> unpack_harq_config(o[2]),
                                                   tx |-> unpack_harq_config(o[3])])
                 @@ (IF Field(o[1], 1, 1) = 0 THEN << >>
                     ELSE "group_info" :> [group_id |-> Field(o[group + 1], 0, 7),
                                           resource_tag |-> Field(o[group + 2], 0, 7)])]

(* The group field is taken in place, so it is 2 and not 1. *)
AssociationResponse_Peek(o) ==
  LET flows == Field(o[1], 2, 3) IN
  IF IsRejected(o[1]) THEN 2
  ELSE 1 + 2 * Field(o[1], 5, 1) + (IF flows = 7 THEN 0 ELSE flows) + 2 * (2 * Field(o[1], 1, 1))

-----------------------------------------------------------------------------
(* association_release_message_t: one octet, without peeking.              *)

AssociationRelease_Fields == [release_cause |-> 0..9]
AssociationRelease_Valid(m) == InRange(m, AssociationRelease_Fields)
AssociationRelease_Size == 1
AssociationRelease_Pack(m) == << Shl(m.release_cause, 4) >>
AssociationRelease_Unpack(o) == [at |-> 1, m |-> [release_cause |-> Field(o[1], 4, 4)]]

-----------------------------------------------------------------------------
(* reconfiguration_request_message_t and reconfiguration_response_message_t *)
(* A flow is [id, is_released]; flows are ordered by their id alone.       *)

Reconfiguration_Raises(m) ==
  "harq_configuration_tx" \notin DOMAIN m \/ "harq_configuration_rx" \notin DOMAIN m

Reconfiguration_Fields ==
  [harq_configuration_tx |-> harq_configuration_t,
   harq_configuration_rx |-> harq_configuration_t,
   rd_capability_ie_follows |-> Flag, radio_resource_change |-> 0..3,
   flows |-> SUBSET [id : flow_id_t, is_released : Flag], nof_flows_accepted |-> {0, 1, 7}]

Reconfiguration_Valid(m) == InRange(m, Reconfiguration_Fields)

FlowOctets(flows) ==
  LET s == SetToSortSeq(flows, LAMBDA f, g : f.id < g.id)
  IN [i \in 1..Len(s) |-> Shl(s[i].is_released, 7) + s[i].id]

FlowsFrom(o, at, n) ==
  {[id |-> Field(o[at + i], 0, 6), is_released |-> Field(o[at + i], 7, 1)] : i \in 1..n}

(* The first octet, the HARQ configurations and the flows, which both      *)
(* messages pack alike.                                                    *)
Reconfiguration_Pack(m, flows) ==
  << Shl(Has(m, "harq_configuration_tx"), 7) + Shl(Has(m, "harq_configuration_rx"), 6)
       + Shl(m.rd_capability_ie_follows, 5) + Shl(flows, 2) + m.radio_resource_change >>
  \o (IF Has(m, "harq_configuration_tx") = 0 THEN << >> ELSE << HarqOctet(m.harq_configuration_tx) >>)
  \o (IF Has(m, "harq_configuration_rx") = 0 THEN << >> ELSE << HarqOctet(m.harq_configuration_rx) >>)
  \o FlowOctets(m.flows)

Reconfiguration_Unpack(o, flows) ==
  LET tx == Field(o[1], 7, 1)
      rx == Field(o[1], 6, 1)
  IN [rd_capability_ie_follows |-> Field(o[1], 5, 1),
      radio_resource_change |-> Field(o[1], 0, 2),
      flows |-> FlowsFrom(o, 1 + tx + rx, flows)]
     @@ OptionalOctet(o, 1, "harq_configuration_tx", tx, unpack_harq_config)
     @@ OptionalOctet(o, 1 + tx, "harq_configuration_rx", rx, unpack_harq_config)

ReconfigurationRequest_Size(m) ==
  1 + Has(m, "harq_configuration_tx") + Has(m, "harq_configuration_rx") + Cardinality(m.flows)

ReconfigurationRequest_Pack(m) == Reconfiguration_Pack(m, Cardinality(m.flows))

ReconfigurationRequest_Unpack(o) ==
  LET flows == Field(o[1], 2, 3)
  IN [at |-> 1 + Field(o[1], 7, 1) + Field(o[1], 6, 1) + flows, m |-> Reconfiguration_Unpack(o, flows)]

ReconfigurationRequest_Peek(o) ==
  LET flows == Field(o[1], 2, 3)
  IN IF flows = 7 THEN -1 ELSE 1 + Field(o[1], 7, 1) + Field(o[1], 6, 1) + flows

ReconfigurationResponse_Valid(m) ==
  /\ Reconfiguration_Valid(m)
  /\ m.nof_flows_accepted = 1 => m.flows # {}

ReconfigurationResponse_Size(m) ==
  1 + Has(m, "harq_configuration_tx") + Has(m, "harq_configuration_rx")
    + (IF m.nof_flows_accepted = 1 THEN Cardinality(m.flows) ELSE 0)

ReconfigurationResponse_Pack(m) == Reconfiguration_Pack(m, FlowsAccepted(m, m.flows))

ReconfigurationResponse_Unpack(o) ==
  LET accepted == Field(o[1], 2, 3)
      included == IF accepted \in {0, 7} THEN 0 ELSE accepted
  IN [at |-> 1 + Field(o[1], 7, 1) + Field(o[1], 6, 1) + included,
      m |-> "nof_flows_accepted" :> (IF accepted \in {0, 7} THEN accepted ELSE 1)
            @@ Reconfiguration_Unpack(o, included)]

ReconfigurationResponse_Peek(o) ==
  LET flows == Field(o[1], 2, 3)
  IN 1 + Field(o[1], 7, 1) + Field(o[1], 6, 1) + (IF flows = 7 THEN 0 ELSE flows)
=============================================================================
