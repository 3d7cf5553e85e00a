------------------------------- MODULE MacPdu -------------------------------
(***************************************************************************)
(* A MAC PDU: the MAC header type, the MAC common header and, each behind  *)
(* a MAC multiplexing header, the MAC messages and information elements    *)
(* (MMIEs).  An MMIE is [type, m]; the m of a flowing one (user plane      *)
(* data, higher layer signalling) is [flow, data], of padding the number   *)
(* of its octets.  A header is [security, type, m].                        *)
(***************************************************************************)
EXTENDS MacBeacons, MacAssociation, MacResources, MacReports

(* std::numeric_limits<uint32_t>::max() in the code. *)
UNDEFINED_NUMERIC_32 == 2147483647

-----------------------------------------------------------------------------
(* mac_header_type_t and mac_common_header_t *)

mac_header_type_ec == <<"DATA_MAC_PDU", "Beacon", "Unicast", "RD_Broadcasting", "mch_empty">>

MacHeader_Pack(security, type) == << Shl(security, 4) + type >>

(* Version 0 alone is valid, and no header type above mch_empty. *)
MacHeader_UnpackReturns(octet) == Field(octet, 6, 2) = 0 /\ Field(octet, 0, 4) <= 4

CommonHeader_Size(type) == <<2, 7, 10, 6, 0>>[type + 1]

is_valid_LongRadioDeviceID == Nat \ {0}

DataMacPdu_Fields == [Reserved |-> {0}, Reset |-> Flag, Sequence_number |-> 0..4095]
Beacon_Fields ==
  [Transmitter_Address |-> is_valid_LongRadioDeviceID, Network_ID_3_lsb |-> 0..(2^24 - 1)]
RdBroadcasting_Fields == DataMacPdu_Fields @@ [Transmitter_Address |-> is_valid_LongRadioDeviceID]
Unicast_Fields == RdBroadcasting_Fields @@ [Receiver_Address |-> is_valid_LongRadioDeviceID]

CommonHeader_Fields(type) ==
  <<DataMacPdu_Fields, Beacon_Fields, Unicast_Fields, RdBroadcasting_Fields, << >> >>[type + 1]
CommonHeader_Valid(type, m) == InRange(m, CommonHeader_Fields(type))

DataMacPdu_Pack(m) ==
  << Shl(m.Reserved, 5) + Shl(m.Reset, 4) + (m.Sequence_number \div 256), m.Sequence_number % 256 >>
(* A network ID of 24 bits is packed by l2b_upper, which takes the three   *)
(* upper octets of four: the lowest octet of the ID is lost.               *)
Beacon_Pack(m) == l2b_lower(m.Network_ID_3_lsb \div 256, 3) \o l2b_lower(m.Transmitter_Address, 4)
Unicast_Pack(m) ==
  DataMacPdu_Pack(m) \o l2b_lower(m.Receiver_Address, 4) \o l2b_lower(m.Transmitter_Address, 4)
RdBroadcasting_Pack(m) == DataMacPdu_Pack(m) \o l2b_lower(m.Transmitter_Address, 4)

CommonHeader_Pack(type, m) ==
  CASE type = 0 -> DataMacPdu_Pack(m)
    [] type = 1 -> Beacon_Pack(m)
    [] type = 2 -> Unicast_Pack(m)
    [] type = 3 -> RdBroadcasting_Pack(m)
    [] type = 4 -> << >>

DataMacPdu_Unpack(o) ==
  [Reserved |-> Field(o[1], 5, 3), Reset |-> Field(o[1], 4, 1),
   Sequence_number |-> Field(o[1], 0, 4) * 256 + o[2]]
Beacon_Unpack(o) ==
  [Network_ID_3_lsb |-> b2l_lower(o, 0, 3) * 256, Transmitter_Address |-> b2l_lower(o, 3, 4)]
Unicast_Unpack(o) ==
  DataMacPdu_Unpack(o)
  @@ [Receiver_Address |-> b2l_lower(o, 2, 4), Transmitter_Address |-> b2l_lower(o, 6, 4)]
RdBroadcasting_Unpack(o) == DataMacPdu_Unpack(o) @@ [Transmitter_Address |-> b2l_lower(o, 2, 4)]

CommonHeader_Unpack(type, o) ==
  CASE type = 0 -> DataMacPdu_Unpack(o)
    [] type = 1 -> Beacon_Unpack(o)
    [] type = 2 -> Unicast_Unpack(o)
    [] type = 3 -> RdBroadcasting_Unpack(o)
    [] type = 4 -> << >>

-----------------------------------------------------------------------------
(* mac_multiplexing_header_t *)

(* ie_type_mac_ext_00_01_10_t, ..._11_len_0_t and ..._11_len_1_t *)
IeTypes ==
  [Padding |-> {0}, HigherLayerSignalling |-> 1..2, UserPlaneData |-> 3..6, NetworkBeacon |-> {8},
   ClusterBeacon |-> {9}, AssociationRequest |-> {10}, AssociationResponse |-> {11},
   AssociationRelease |-> {12}, ReconfigurationRequest |-> {13}, ReconfigurationResponse |-> {14},
   SecurityInfo |-> {16}, RouteInfo |-> {17}, ResourceAllocation |-> {18}, RandomAccess |-> {19},
   RDCapability |-> {20}, Neighbouring |-> {21}, BroadcastIndication |-> {22},
   GroupAssignment |-> {23}, LoadInfo |-> {24}, MeasurementReport |-> {25},
   PowerTarget |-> {29}, TimeAnnounce |-> {30}]

OneBitTypes == << [Padding |-> {0}, ConfigurationRequest |-> {1}],
                  [Padding |-> {0}, RadioDeviceStatus |-> {1}] >>

Flowing == {"HigherLayerSignalling", "UserPlaneData"}

(* Every type has one extension field, a flowing one two, and padding      *)
(* those of its lengths.                                                   *)
TypesOfExt(ext) ==
  CASE ext = 0 -> DOMAIN IeTypes \ (Flowing \cup {"GroupAssignment"})
    [] ext = 1 -> Flowing \cup {"GroupAssignment", "Padding"}
    [] ext = 2 -> Flowing \cup {"GroupAssignment"}

(* Activated is what mmie_activate.hpp leaves in; "nullptr" is no type. *)
unpack_mac_ext_ie_type(octet, Activated) ==
  LET ext == Field(octet, 6, 2)
      table == IF ext = 3 THEN OneBitTypes[Field(octet, 5, 1) + 1] ELSE IeTypes
      code == Field(octet, 0, IF ext = 3 THEN 5 ELSE 6)
      found == {t \in DOMAIN table \cap Activated :
                  code \in table[t] /\ (ext = 3 \/ t \in TypesOfExt(ext))}
  IN IF found = {} THEN "nullptr" ELSE CHOOSE t \in found : TRUE

Mmh_Size(octet) == 1 + (IF Field(octet, 6, 2) = 3 THEN 0 ELSE Field(octet, 6, 2))

unpack_length(o) ==
  LET ext == Field(o[1], 6, 2)
  IN CASE ext = 0 -> UNDEFINED_NUMERIC_32
       [] ext \in 1..2 -> b2l_lower(o, 1, ext)
       [] ext = 3 -> Field(o[1], 5, 1)

-----------------------------------------------------------------------------
(* The elements of fixed size. *)

SecurityInfo_Fields == [key_index |-> 0..3, security_iv_type |-> 0..2, hpc |-> Nat]
RouteInfo_Fields ==
  [sink_address |-> Nat, route_cost |-> 0..255, application_sequence_number |-> 0..255]
RadioDeviceStatus_Fields == [status_flag |-> 1..2, duration |-> 0..11]
PowerTarget_Fields == [power_target_dBm_coded |-> 45..60]
TimeAnnounce_Fields ==
  [time_type |-> 0..2, N_frames_until_full_sec |-> 0..255, full_sec |-> Nat,
   tai_minus_utc_seconds |-> 0..255]

SecurityInfo_Pack(m) == << Shl(m.key_index, 4) + m.security_iv_type >> \o l2b_lower(m.hpc, 4)
SecurityInfo_Unpack(o) ==
  [key_index |-> Field(o[1], 4, 2), security_iv_type |-> Field(o[1], 0, 4), hpc |-> b2l_lower(o, 1, 4)]
(* The security mode is the version, and it must be mode 1. *)
SecurityInfo_Valid(m, o) == Field(o[1], 6, 2) = 0 /\ InRange(m, SecurityInfo_Fields)

RouteInfo_Pack(m) ==
  l2b_lower(m.sink_address, 4) \o << m.route_cost, m.application_sequence_number >>
RouteInfo_Unpack(o) ==
  [sink_address |-> b2l_lower(o, 0, 4), route_cost |-> o[5], application_sequence_number |-> o[6]]

RadioDeviceStatus_Pack(m) == << Shl(m.status_flag, 4) + m.duration >>
RadioDeviceStatus_Unpack(o) == [status_flag |-> Field(o[1], 4, 2), duration |-> Field(o[1], 0, 4)]

PowerTarget_Pack(m) == << m.power_target_dBm_coded >>
PowerTarget_Unpack(o) == [power_target_dBm_coded |-> o[1]]

(* The seconds have eight octets, of which the model has four. *)
TimeAnnounce_Pack(m) ==
  << m.time_type, m.N_frames_until_full_sec >> \o l2b_lower(0, 4) \o l2b_lower(m.full_sec, 4)
  \o << m.tai_minus_utc_seconds >>
TimeAnnounce_Unpack(o) ==
  [time_type |-> o[1], N_frames_until_full_sec |-> o[2], full_sec |-> b2l_lower(o, 6, 4),
   tai_minus_utc_seconds |-> o[11]]
TimeAnnounce_Valid(m, o) == InRange(m, TimeAnnounce_Fields) /\ o[3] < 128

FixedSize ==
  [SecurityInfo |-> 5, RouteInfo |-> 6, RadioDeviceStatus |-> 1, ConfigurationRequest |-> 0,
   PowerTarget |-> 1, TimeAnnounce |-> 11, AssociationRelease |-> AssociationRelease_Size]

Fixed_Pack(type, m) ==
  CASE type = "SecurityInfo" -> SecurityInfo_Pack(m)
    [] type = "RouteInfo" -> RouteInfo_Pack(m)
    [] type = "RadioDeviceStatus" -> RadioDeviceStatus_Pack(m)
    [] type = "ConfigurationRequest" -> << >>
    [] type = "PowerTarget" -> PowerTarget_Pack(m)
    [] type = "TimeAnnounce" -> TimeAnnounce_Pack(m)
    [] type = "AssociationRelease" -> AssociationRelease_Pack(m)

Fixed_Unpack(type, o) ==
  CASE type = "SecurityInfo" -> SecurityInfo_Unpack(o)
    [] type = "RouteInfo" -> RouteInfo_Unpack(o)
    [] type = "RadioDeviceStatus" -> RadioDeviceStatus_Unpack(o)
    [] type = "ConfigurationRequest" -> << >>
    [] type = "PowerTarget" -> PowerTarget_Unpack(o)
    [] type = "TimeAnnounce" -> TimeAnnounce_Unpack(o)
    [] type = "AssociationRelease" -> AssociationRelease_Unpack(o).m

Fixed_Valid(type, m, o) ==
  CASE type = "SecurityInfo" -> SecurityInfo_Valid(m, o)
    [] type \in {"RouteInfo", "ConfigurationRequest"} -> TRUE
    [] type = "RadioDeviceStatus" -> InRange(m, RadioDeviceStatus_Fields)
    [] type = "PowerTarget" -> InRange(m, PowerTarget_Fields)
    [] type = "TimeAnnounce" -> TimeAnnounce_Valid(m, o)
    [] type = "AssociationRelease" -> AssociationRelease_Valid(m)

-----------------------------------------------------------------------------
(* Every element that tells its own size, and what a receiver does with    *)
(* it: how many octets it needs to know the size, the size (-1 is a        *)
(* peek_errc), the fields, whether unpack() returns true, and whether it   *)
(* calls std::optional::value() on nothing.                                *)

MinToPeek ==
  [NetworkBeacon |-> 1, ClusterBeacon |-> 2, AssociationRequest |-> 2, AssociationResponse |-> 1,
   ReconfigurationRequest |-> 1, ReconfigurationResponse |-> 1, ResourceAllocation |-> 2,
   RandomAccess |-> 1, RDCapability |-> 1, Neighbouring |-> 3, BroadcastIndication |-> 1,
   LoadInfo |-> 1, MeasurementReport |-> 1]

Peeking == DOMAIN MinToPeek

Peek(type, o, mu) ==
  CASE type = "NetworkBeacon" -> NetworkBeacon_Peek(o)
    [] type = "ClusterBeacon" -> ClusterBeacon_Peek(o, mu)
    [] type = "AssociationRequest" -> AssociationRequest_Peek(o)
    [] type = "AssociationResponse" -> AssociationResponse_Peek(o)
    [] type = "ReconfigurationRequest" -> ReconfigurationRequest_Peek(o)
    [] type = "ReconfigurationResponse" -> ReconfigurationResponse_Peek(o)
    [] type = "ResourceAllocation" -> ResourceAllocation_Peek(o, mu)
    [] type = "RandomAccess" -> RandomAccess_Peek(o, mu)
    [] type = "RDCapability" -> RDCapability_Peek(o)
    [] type = "Neighbouring" -> Neighbouring_Peek(o)
    [] type = "BroadcastIndication" -> BroadcastIndication_Peek(o, UNDEFINED_NUMERIC_32)
    [] type = "LoadInfo" -> LoadInfo_Peek(o)
    [] type = "MeasurementReport" -> MeasurementReport_Peek(o)

(* [at, m]: where unpack() stops and what it has read. *)
Unpack(type, o, length, mu) ==
  CASE type = "NetworkBeacon" -> NetworkBeacon_Unpack(o)
    [] type = "ClusterBeacon" -> ClusterBeacon_Unpack(o, mu)
    [] type = "AssociationRequest" -> AssociationRequest_Unpack(o)
    [] type = "AssociationResponse" -> AssociationResponse_Unpack(o)
    [] type = "ReconfigurationRequest" -> ReconfigurationRequest_Unpack(o)
    [] type = "ReconfigurationResponse" -> ReconfigurationResponse_Unpack(o)
    [] type = "ResourceAllocation" -> ResourceAllocation_Unpack(o, mu)
    [] type = "RandomAccess" -> RandomAccess_Unpack(o, mu)
    [] type = "RDCapability" -> RDCapability_Unpack(o)
    [] type = "Neighbouring" -> Neighbouring_Unpack(o)
    [] type = "BroadcastIndication" -> BroadcastIndication_Unpack(o)
    [] type = "GroupAssignment" -> GroupAssignment_Unpack(o, length)
    [] type = "LoadInfo" -> LoadInfo_Unpack(o)
    [] type = "MeasurementReport" -> MeasurementReport_Unpack(o)
    [] type \in DOMAIN FixedSize -> [at |-> FixedSize[type], m |-> Fixed_Unpack(type, o)]

Valid(type, m, o, mu) ==
  CASE type = "NetworkBeacon" -> NetworkBeacon_Valid(m)
    [] type = "ClusterBeacon" -> ClusterBeacon_Valid(m, mu)
    [] type = "AssociationRequest" -> AssociationRequest_Valid(m)
    [] type = "AssociationResponse" -> AssociationResponse_Valid(m)
    [] type = "ReconfigurationRequest" -> Reconfiguration_Valid(m)
    [] type = "ReconfigurationResponse" -> ReconfigurationResponse_Valid(m)
    [] type = "ResourceAllocation" -> ResourceAllocation_Valid(m, mu)
    [] type = "RandomAccess" -> RandomAccess_Valid(m, mu)
    [] type = "RDCapability" -> RDCapability_Valid(m)
    [] type = "Neighbouring" -> Neighbouring_Valid(m)
    [] type = "BroadcastIndication" -> BroadcastIndication_Valid(m)
    [] type = "GroupAssignment" -> GroupAssignment_Valid(m)
    [] type = "LoadInfo" -> LoadInfo_Valid(m)
    [] type = "MeasurementReport" -> MeasurementReport_Valid(m)
    [] type \in DOMAIN FixedSize -> Fixed_Valid(type, m, o)

(* get_packed_size() of these asserts is_valid(), and unpack() calls it. *)
SizeAssertsValid ==
  {"AssociationRequest", "AssociationResponse", "ReconfigurationRequest", "ReconfigurationResponse",
   "ResourceAllocation", "RandomAccess", "RDCapability", "BroadcastIndication", "GroupAssignment",
   "LoadInfo"}

Raises(type, m) ==
  CASE type \in {"ReconfigurationRequest", "ReconfigurationResponse"} -> Reconfiguration_Raises(m)
    [] type = "ResourceAllocation" -> ResourceAllocation_Raises(m)
    [] type = "RandomAccess" -> RandomAccess_Raises(m)
    [] type = "Neighbouring" -> Neighbouring_Raises(m)
    [] OTHER -> FALSE

-----------------------------------------------------------------------------
(* The transmitter: get_packed_size_of_sdu(), pack() and pack_mmh_sdu().   *)

Size(type, m, mu) ==
  CASE type = "NetworkBeacon" -> NetworkBeacon_Size(m)
    [] type = "ClusterBeacon" -> ClusterBeacon_Size(m, mu)
    [] type = "AssociationRequest" -> AssociationRequest_Size(m)
    [] type = "AssociationResponse" -> AssociationResponse_Size(m)
    [] type = "ReconfigurationRequest" -> ReconfigurationRequest_Size(m)
    [] type = "ReconfigurationResponse" -> ReconfigurationResponse_Size(m)
    [] type = "ResourceAllocation" -> ResourceAllocation_Size(m, mu)
    [] type = "RandomAccess" -> RandomAccess_Size(m, mu)
    [] type = "RDCapability" -> RDCapability_Size(m)
    [] type = "Neighbouring" -> Neighbouring_Size(m)
    [] type = "BroadcastIndication" -> BroadcastIndication_Size(m)
    [] type = "GroupAssignment" -> GroupAssignment_Size(m)
    [] type = "LoadInfo" -> LoadInfo_Size(m)
    [] type = "MeasurementReport" -> MeasurementReport_Size(m)
    [] type \in DOMAIN FixedSize -> FixedSize[type]

Pack(type, m, mu) ==
  CASE type = "NetworkBeacon" -> NetworkBeacon_Pack(m)
    [] type = "ClusterBeacon" -> ClusterBeacon_Pack(m, mu)
    [] type = "AssociationRequest" -> AssociationRequest_Pack(m)
    [] type = "AssociationResponse" -> AssociationResponse_Pack(m)
    [] type = "ReconfigurationRequest" -> ReconfigurationRequest_Pack(m)
    [] type = "ReconfigurationResponse" -> ReconfigurationResponse_Pack(m)
    [] type = "ResourceAllocation" -> ResourceAllocation_Pack(m, mu)
    [] type = "RandomAccess" -> RandomAccess_Pack(m, mu)
    [] type = "RDCapability" -> RDCapability_Pack(m)
    [] type = "Neighbouring" -> Neighbouring_Pack(m)
    [] type = "BroadcastIndication" -> BroadcastIndication_Pack(m)
    [] type = "GroupAssignment" -> GroupAssignment_Pack(m)
    [] type = "LoadInfo" -> LoadInfo_Pack(m)
    [] type = "MeasurementReport" -> MeasurementReport_Pack(m)
    [] type \in DOMAIN FixedSize -> Fixed_Pack(type, m)

(* No std::optional without a value is read and no assertion of pack()     *)
(* fails: otherwise the sender ends, and nothing is sent.                  *)
PackReturns(type, m, mu) ==
  /\ ~Raises(type, m)
  /\ LET o == Pack(type, m, mu)
     IN Valid(type, m, o, mu) /\ (type \in Peeking => Peek(type, o, mu) = Len(o))

(* set_data_size(): a flowing element has a length of one octet or two. *)
Flowing_Pack(type, m) ==
  LET size == Len(m.data)
      ext == IF size <= 255 THEN 1 ELSE 2
      code == (IF type = "UserPlaneData" THEN 2 ELSE 0) + m.flow
  IN << Shl(ext, 6) + code >> \o l2b_lower(size, ext) \o m.data

(* set_nof_padding_bytes(n) and pack_mmh_sdu(). *)
Padding_Pack(n) ==
  CASE n = 1 -> << 192 >>
    [] n = 2 -> << 224, 0 >>
    [] n > 2 -> << 64, n - 2 >> \o [i \in 1..(n - 2) |-> 0]

pack_mmh_sdu(mmie, mu) ==
  CASE mmie.type \in Flowing -> Flowing_Pack(mmie.type, mmie.m)
    [] mmie.type = "ConfigurationRequest" -> << 193 >>
    [] mmie.type = "RadioDeviceStatus" -> << 225 >> \o Fixed_Pack(mmie.type, mmie.m)
    [] OTHER -> << CHOOSE c \in IeTypes[mmie.type] : TRUE >> \o Pack(mmie.type, mmie.m, mu)

N_PADDING_BYTES_MAX == 257

(* In pieces of at most N_PADDING_BYTES_MAX octets. *)
fill_with_padding_ies(n) ==
  FlattenSeq([i \in 1..(n \div N_PADDING_BYTES_MAX) |-> Padding_Pack(N_PADDING_BYTES_MAX)])
  \o (IF n % N_PADDING_BYTES_MAX = 0 THEN << >> ELSE Padding_Pack(n % N_PADDING_BYTES_MAX))

(* What firmware packs: the MAC header type, the common header, the MMIEs, *)
(* and padding up to the N_TB_byte octets of the transport block.          *)
MacPdu_Pack(header, mmies, mu) ==
  MacHeader_Pack(header.security, header.type) \o CommonHeader_Pack(header.type, header.m)
  \o FlattenSeq([i \in 1..Len(mmies) |-> pack_mmh_sdu(mmies[i], mu)])

MacPdu_Fill(pdu, N_TB_byte) == pdu \o fill_with_padding_ies(N_TB_byte - Len(pdu))
=============================================================================
