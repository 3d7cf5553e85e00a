----------------------------- MODULE MCMessages -----------------------------
(***************************************************************************)
(* Messages for TLC.  For every message: all fields at their lowest value  *)
(* with and without the optional ones, all at their highest, and each      *)
(* optional one alone; of these, all that a sender can pack.               *)
(***************************************************************************)
EXTENDS MacPdu

Candidates ==
  {0, 1, 2, 3, 4, 5, 6, 7, 8, 9, 10, 11, 12, 15, 30, 45, 60, 63, 127, 255, 4095, 4466, 16777215,
   65535, 2147483647}
Lowest(S) == CHOOSE x \in Candidates \cap S : \A y \in Candidates \cap S : x <= y
Highest(S) == CHOOSE x \in Candidates \cap S : \A y \in Candidates \cap S : y <= x

(* Bounds of the fields that are not numbers. *)
HarqLow == [N_harq_processes |-> 0, max_harq_retransmission_delay |-> 0]
HarqHigh == [N_harq_processes |-> 7, max_harq_retransmission_delay |-> 30]
AllocationLow == [start_subslot |-> 0, length_type |-> 0, length |-> 0]
AllocationHigh == [start_subslot |-> 255, length_type |-> 1, length |-> 127]
RepetitionLow == [repeat_type |-> 0, repetition |-> 1, validity |-> 0]
RepetitionHigh == [repeat_type |-> 1, repetition |-> 255, validity |-> 255]
Specific(r, n) == ("allow_specific_repeated_resources" :> n) @@ r

Structured ==
  [harq_tx |-> <<HarqLow, HarqHigh>>, harq_rx |-> <<HarqHigh, HarqLow>>,
   flow_ids |-> <<{1}, flow_id_t>>,
   ft_configuration |->
     <<[network_beacon_period |-> 0, cluster_beacon_period |-> 0, next_cluster_channel |-> 1,
        time_to_next |-> 0],
       [network_beacon_period |-> 6, cluster_beacon_period |-> 10, next_cluster_channel |-> 4466,
        time_to_next |-> 2147483647]>>,
   reject_info |-> <<[reject_cause |-> 0, reject_time |-> 8], [reject_cause |-> 4, reject_time |-> 0]>>,
   harq_configuration_tx |-> <<HarqLow, HarqHigh>>, harq_configuration_rx |-> <<HarqHigh, HarqLow>>,
   flows |-> <<{[id |-> 2, is_released |-> 1]}, [id : {1, 3, 6}, is_released : {0}]>>,
   nof_flows_accepted |-> <<1, 1>>,
   allocation_dl |-> <<AllocationLow, AllocationHigh>>,
   allocation_ul |-> <<AllocationHigh, AllocationLow>>, allocation |-> <<AllocationLow, AllocationHigh>>,
   repeat_info |-> <<RepetitionLow, RepetitionHigh>>,
   radio_device_class |-> <<[mu |-> 0, beta |-> 0], [mu |-> 3, beta |-> 5]>>]

Bound(F, f, k) ==
  IF f \in DOMAIN Structured THEN Structured[f][k] ELSE IF k = 1 THEN Lowest(F[f]) ELSE Highest(F[f])

Messages(F, required) ==
  LET all == DOMAIN F
      Is(fields, k) == [f \in fields |-> Bound(F, f, k)]
  IN {Is(all, 1), Is(all, 2), Is(required, 1), Is(required, 2)}
     \cup {Is(required \cup {f}, 2) : f \in all}
     \cup {[Is(all, 1) EXCEPT ![f] = Bound(F, f, 2)] : f \in all}

PhyLow == [f \in DOMAIN phy_capability_t \ {"mu", "beta"} |-> Lowest(phy_capability_t[f])]
PhyHigh == [f \in DOMAIN phy_capability_t |-> Highest(phy_capability_t[f])]

BeaconFields == {"has_power_constraints", "network_beacon_period", "cluster_beacon_period"}

(* An association is accepted with no, one or two flows. *)
Responses ==
  {"reject_info" :> Structured.reject_info[k] : k \in 1..2}
  \cup {[nof_flows_accepted |-> 1, flow_ids |-> flows, tx_power |-> 1] : flows \in {{1}, {2, 5}}}
  \cup {[nof_flows_accepted |-> 7, flow_ids |-> {}, tx_power |-> 0]}

Indications ==
  {[indication_type |-> 0, id_type |-> t, rd_id |-> 65535, resource_allocation_ie_follows |-> 1] :
     t \in 0..1}
  \cup LET response == [indication_type |-> 1, id_type |-> 0, rd_id |-> 1,
                        resource_allocation_ie_follows |-> 0, ack_nack |-> 1]
           mimo(n, k) == [nof_layers |-> n, codebook_index |-> k]
       IN {[response EXCEPT !.ack_nack = a] @@ [feedback |-> 0] : a \in 0..1}
          \cup {response @@ [feedback |-> 1, mcs_mimo_feedback |-> mcs] : mcs \in {1, 12}}
          \cup {response @@ [feedback |-> 2, mcs_mimo_feedback |-> mimo(1, 2)],
                response @@ [feedback |-> 3, mcs_mimo_feedback |-> mimo(0, 27)]}

Loads ==
  LET required == {"max_assoc", "traffic_load_percentage", "max_nof_associated_rd",
                   "rd_ft_load_percentage"}
  IN {m \in UNION {Messages(LoadInfo_Fields(n), required) : n \in 0..1} :
        Has(m, "percentage_subslots_free") = Has(m, "percentage_subslots_busy")}

AllOf(type, mu) ==
  CASE type = "NetworkBeacon" ->
         Messages(NetworkBeacon_Fields, BeaconFields \cup {"next_cluster_channel", "time_to_next"})
    [] type = "ClusterBeacon" ->
         Messages(ClusterBeacon_Fields(mu),
                  BeaconFields \cup {"system_frame_number", "count_to_trigger", "rel_quality",
                                     "min_quality"})
    [] type = "AssociationRequest" ->
         Messages(AssociationRequest_Fields,
                  {"setup_cause", "has_power_constraints", "harq_tx", "harq_rx", "flow_ids"})
    [] type = "AssociationResponse" -> Responses
    [] type = "ReconfigurationRequest" ->
         {[f \in DOMAIN m \ {"nof_flows_accepted"} |-> m[f]] :
            m \in Messages(Reconfiguration_Fields,
                           DOMAIN Reconfiguration_Fields \ {"harq_configuration_tx"})}
    [] type = "ReconfigurationResponse" ->
         Messages(Reconfiguration_Fields, DOMAIN Reconfiguration_Fields \ {"harq_configuration_rx"})
    [] type = "ResourceAllocation" ->
         {"is_additional_allocation" :> 0}
         \cup {IF "repeat_info" \in DOMAIN m
               THEN [m EXCEPT !.repeat_info = Specific(m.repeat_info, n)] ELSE m :
                 m \in Messages(ResourceAllocation_Fields(mu),
                                {"is_additional_allocation", "allocation_dl", "allocation_ul",
                                 "repeat_info"})
                       \cup Messages(ResourceAllocation_Fields(mu),
                                     {"is_additional_allocation", "allocation_dl"}), n \in 0..1}
    [] type = "RandomAccess" ->
         Messages(RandomAccess_Fields(mu),
                  DOMAIN RandomAccess_Fields(mu) \ {"sfn_offset", "channel", "channel_2"})
    [] type = "RDCapability" ->
         {m @@ [phy_capability |-> PhyLow,
                additional_phy_capabilities |-> [i \in 1..n |-> PhyHigh]] :
            m \in Messages(RDCapability_Fields, DOMAIN RDCapability_Fields), n \in {0, 2}}
    [] type = "Neighbouring" ->
         Messages(Neighbouring_Fields,
                  {"short_rd_id", "has_power_constraints", "network_beacon_period",
                   "cluster_beacon_period"})
    [] type = "BroadcastIndication" -> Indications
    [] type = "LoadInfo" -> Loads
    [] type = "MeasurementReport" -> Messages(MeasurementReport_Fields, {"rach"})
    [] type = "SecurityInfo" -> Messages(SecurityInfo_Fields, DOMAIN SecurityInfo_Fields)
    [] type = "RouteInfo" -> Messages(RouteInfo_Fields, DOMAIN RouteInfo_Fields)
    [] type = "RadioDeviceStatus" -> Messages(RadioDeviceStatus_Fields, DOMAIN RadioDeviceStatus_Fields)
    [] type = "PowerTarget" -> Messages(PowerTarget_Fields, DOMAIN PowerTarget_Fields)
    [] type = "TimeAnnounce" -> Messages(TimeAnnounce_Fields, DOMAIN TimeAnnounce_Fields)
    [] type = "AssociationRelease" -> Messages(AssociationRelease_Fields, DOMAIN AssociationRelease_Fields)

MessagesOf(type, mu) == {m \in AllOf(type, mu) : PackReturns(type, m, mu)}

(* A configuration request has neither pack() nor data to copy, a group    *)
(* assignment no valid mac_ext: neither can be sent.                       *)
Types == (DOMAIN MinToPeek \cup DOMAIN FixedSize) \ {"ConfigurationRequest"}
=============================================================================
