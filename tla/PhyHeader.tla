----------------------------- MODULE PhyHeader -----------------------------
(***************************************************************************)
(* The physical header field: PLCF type 1 (plcf_10_t) and type 2 with      *)
(* header format 0 (plcf_20_t) and 1 (plcf_21_t), the feedback info in the *)
(* last two octets of a type 2, and what plcf_decoder_t accepts of a       *)
(* radio device class.                                                     *)
(*                                                                         *)
(* A feedback is a function from the names of its format's fields.  A PLCF *)
(* is a function from the names of its fields, of which feedback is one;   *)
(* the format of the feedback is FeedbackFormat.                           *)
(***************************************************************************)
EXTENDS MacOctets

-----------------------------------------------------------------------------
(* feedback_info_t *)

UNDEFINED == -1

mcs_2_cqi(mcs) == mcs + 1
cqi_2_mcs(cqi) == IF cqi \in 1..12 THEN cqi - 1 ELSE UNDEFINED

(* Status 0 is empty, status k holds up to 2^(k + 3) octets, 15 any more.  *)
buffer_size_2_buffer_status(size) ==
  IF size = 0 THEN 0
  ELSE LET k == {n \in 1..14 : size <= 2^(n + 3)}
       IN IF k = {} THEN 15 ELSE CHOOSE n \in k : \A i \in k : n <= i

buffer_status_2_buffer_size_lower_Upper(status) == IF status = 0 THEN 0 ELSE 2^(status + 3)
buffer_status_2_buffer_size_lower(status) == IF status <= 1 THEN 0 ELSE 2^(status + 2)

(* The fields of a format: <<name, octet, shift, bits, valid values>>, in  *)
(* the order they are packed.  Buffer_Size and MCS are coded.              *)
HarqProcess(name, octet, shift) == <<name, octet, shift, 3, 0..7>>
Acknowledgement(name, octet, shift) == <<name, octet, shift, 1, 0..1>>
BufferSize == <<"Buffer_Size", 2, 4, 4, Nat>>
ChannelQuality == <<"MCS", 2, 0, 4, 0..11>>

FeedbackInfo_F1 ==
  {HarqProcess("HARQ_Process_number", 1, 1), Acknowledgement("Transmission_feedback", 1, 0),
   BufferSize, ChannelQuality}
FeedbackInfo_F2 ==
  {<<"Codebook_index", 1, 1, 3, 0..7>>, <<"MIMO_feedback", 1, 0, 1, 0..1>>,
   BufferSize, ChannelQuality}
FeedbackInfo_F3 ==
  {HarqProcess("HARQ_Process_number_0", 1, 1), Acknowledgement("Transmission_feedback_0", 1, 0),
   HarqProcess("HARQ_Process_number_1", 2, 5), Acknowledgement("Transmission_feedback_1", 2, 4),
   ChannelQuality}
FeedbackInfo_F4 ==
  {<<"HARQ_feedback_bitmap_high", 1, 0, 4, 0..15>>, <<"HARQ_feedback_bitmap_low", 2, 4, 4, 0..15>>,
   ChannelQuality}
FeedbackInfo_F5 ==
  {HarqProcess("HARQ_Process_number", 1, 1), Acknowledgement("Transmission_feedback", 1, 0),
   <<"MIMO_feedback", 2, 6, 2, 0..3>>, <<"Codebook_index", 2, 0, 6, 0..63>>}
FeedbackInfo_F6 ==
  {HarqProcess("HARQ_Process_number", 1, 1), <<"Reserved", 1, 0, 1, {0}>>, BufferSize, ChannelQuality}

FeedbackFields ==
  <<FeedbackInfo_F1, FeedbackInfo_F2, FeedbackInfo_F3, FeedbackInfo_F4, FeedbackInfo_F5,
    FeedbackInfo_F6>>

FeedbackCode(name, value) ==
  CASE name = "Buffer_Size" -> buffer_size_2_buffer_status(value)
    [] name = "MCS" -> mcs_2_cqi(value)
    [] OTHER -> value

FeedbackDecode(name, code) ==
  CASE name = "Buffer_Size" -> buffer_status_2_buffer_size_lower(code)
    [] name = "MCS" -> cqi_2_mcs(code)
    [] OTHER -> code

(* feedback_info_pool_t: four bits beside the format and one more octet.   *)
PackFeedback(format, f) ==
  IF format = 0 THEN <<0, 0>>
  ELSE [octet \in 1..2 |->
          FoldSet(LAMBDA fld, sum : sum + Shl(FeedbackCode(fld[1], f[fld[1]]), fld[3]), 0,
                  {fld \in FeedbackFields[format] : fld[2] = octet})]

UnpackFeedback(format, o) ==
  LET fields == IF format \in 1..6 THEN FeedbackFields[format] ELSE {}
  IN [name \in {fld[1] : fld \in fields} |->
        LET fld == CHOOSE x \in fields : x[1] = name
        IN FeedbackDecode(name, Field(o[fld[2]], fld[3], fld[4]))]

(* Format 0 has all bits zero, format 7 and above does not exist. *)
FeedbackValid(format, o) ==
  \/ format = 0 /\ Field(o[1], 0, 4) = 0 /\ o[2] = 0
  \/ /\ format \in 1..6
     /\ \A fld \in FeedbackFields[format] : UnpackFeedback(format, o)[fld[1]] \in fld[5]

-----------------------------------------------------------------------------
(* plcf_base_t, plcf_10_t, plcf_20_t, plcf_21_t *)

plcf_tx_power_table == << -40, -30, -20, -16, -12, -8, -4, 0, 4, 7, 10, 13, 16, 19, 21, 23 >>

(* std::lower_bound, or the last entry. *)
set_TransmitPower(dBm) ==
  LET above == {i \in 1..16 : plcf_tx_power_table[i] >= dBm}
  IN (IF above = {} THEN 16 ELSE CHOOSE i \in above : \A k \in above : i <= k) - 1

N_SS_coded_lut_rev == <<1, 2, 4, 8>>

(* Type and header format. *)
Plcf_10 == <<1, 0>>
Plcf_20 == <<2, 0>>
Plcf_21 == <<2, 1>>
PlcfSize(type) == IF type = 1 THEN 5 ELSE 10

is_valid_ShortNetworkID == 1..255
is_valid_ShortRadioDeviceID == 1..65535

PlcfBase_Fields(kind) ==
  [HeaderFormat |-> {kind[2]}, PacketLengthType |-> 0..1, PacketLength_m1 |-> 0..15,
   TransmitPower |-> 0..15]
Plcf10_Fields ==
  [DFMCS |-> 0..7, Reserved |-> {0}, ShortNetworkID |-> is_valid_ShortNetworkID,
   TransmitterIdentity |-> is_valid_ShortRadioDeviceID]
Plcf21_Fields ==
  [DFMCS |-> 0..11, ReceiverIdentity |-> is_valid_ShortRadioDeviceID,
   NumberOfSpatialStreams |-> 0..3, FeedbackFormat |-> 0..15] @@ Plcf10_Fields
Plcf20_Fields ==
  [DFRedundancyVersion |-> 0..3, DFNewDataIndication |-> 0..1, DFHARQProcessNumber |-> 0..7]
  @@ [f \in DOMAIN Plcf21_Fields \ {"Reserved"} |-> Plcf21_Fields[f]]

Plcf_Fields(kind) ==
  PlcfBase_Fields(kind) @@ (CASE kind = Plcf_10 -> Plcf10_Fields
                              [] kind = Plcf_20 -> Plcf20_Fields
                              [] kind = Plcf_21 -> Plcf21_Fields)
Plcf_Valid(kind, p) == InRange(p, Plcf_Fields(kind))

PlcfBase_Pack(p) == << Shl(p.HeaderFormat, 5) + Shl(p.PacketLengthType, 4) + p.PacketLength_m1 >>
Identities(p) == << p.ShortNetworkID >> \o l2b_lower(p.TransmitterIdentity, 2)
Plcf10_Pack(p) ==
  PlcfBase_Pack(p) \o Identities(p) \o << Shl(p.TransmitPower, 4) + Shl(p.Reserved, 3) + p.DFMCS >>
Plcf2_Pack(p, octet7) ==
  LET feedback == PackFeedback(p.FeedbackFormat, p.feedback)
  IN PlcfBase_Pack(p) \o Identities(p) \o << Shl(p.TransmitPower, 4) + p.DFMCS >>
     \o l2b_lower(p.ReceiverIdentity, 2) \o << octet7 >>
     \o << Shl(p.FeedbackFormat, 4) + feedback[1], feedback[2] >>
Plcf20_Pack(p) ==
  Plcf2_Pack(p, Shl(p.NumberOfSpatialStreams, 6) + Shl(p.DFRedundancyVersion, 4)
                  + Shl(p.DFNewDataIndication, 3) + p.DFHARQProcessNumber)
Plcf21_Pack(p) == Plcf2_Pack(p, Shl(p.NumberOfSpatialStreams, 6) + p.Reserved)

Plcf_Pack(kind, p) ==
  CASE kind = Plcf_10 -> Plcf10_Pack(p)
    [] kind = Plcf_20 -> Plcf20_Pack(p)
    [] kind = Plcf_21 -> Plcf21_Pack(p)

PlcfBase_Unpack(o) ==
  [HeaderFormat |-> Field(o[1], 5, 3), PacketLengthType |-> Field(o[1], 4, 1),
   PacketLength_m1 |-> Field(o[1], 0, 4), ShortNetworkID |-> o[2],
   TransmitterIdentity |-> b2l_lower(o, 2, 2), TransmitPower |-> Field(o[5], 4, 4)]
Plcf10_Unpack(o) ==
  PlcfBase_Unpack(o) @@ [Reserved |-> Field(o[5], 3, 1), DFMCS |-> Field(o[5], 0, 3)]
Plcf2_Unpack(o) ==
  PlcfBase_Unpack(o)
  @@ [DFMCS |-> Field(o[5], 0, 4), ReceiverIdentity |-> b2l_lower(o, 5, 2),
      NumberOfSpatialStreams |-> Field(o[8], 6, 2), FeedbackFormat |-> Field(o[9], 4, 4),
      feedback |-> UnpackFeedback(Field(o[9], 4, 4), SubSeq(o, 9, 10))]
Plcf20_Unpack(o) ==
  Plcf2_Unpack(o)
  @@ [DFRedundancyVersion |-> Field(o[8], 4, 2), DFNewDataIndication |-> Field(o[8], 3, 1),
      DFHARQProcessNumber |-> Field(o[8], 0, 3)]
Plcf21_Unpack(o) == Plcf2_Unpack(o) @@ [Reserved |-> Field(o[8], 0, 6)]

Plcf_Unpack(kind, o) ==
  CASE kind = Plcf_10 -> Plcf10_Unpack(o)
    [] kind = Plcf_20 -> Plcf20_Unpack(o)
    [] kind = Plcf_21 -> Plcf21_Unpack(o)

(* unpack() returns whether the header is accepted. *)
Plcf_UnpackReturns(kind, o) ==
  /\ kind[1] = 2 => FeedbackValid(Field(o[9], 4, 4), SubSeq(o, 9, 10))
  /\ Plcf_Valid(kind, Plcf_Unpack(kind, o))

-----------------------------------------------------------------------------
(* plcf_decoder_t: a header format of which there is a class, a valid      *)
(* header, and nothing beyond the radio device class rdc.                  *)

get_PacketLength(p) == p.PacketLength_m1 + 1
get_N_SS(p) == IF "NumberOfSpatialStreams" \in DOMAIN p
               THEN N_SS_coded_lut_rev[p.NumberOfSpatialStreams + 1] ELSE 1
get_DFRedundancyVersion(p) == IF "DFRedundancyVersion" \in DOMAIN p THEN p.DFRedundancyVersion ELSE 0

check_rdc_limits(p, rdc) ==
  /\ get_PacketLength(p) <= rdc.PacketLength_max
  /\ p.DFMCS <= rdc.mcs_index_max
  /\ get_N_SS(p) <= rdc.N_SS_max

Candidate(type, o) == <<type, Field(o[1], 5, 3)>>

PlcfAccepted(type, o, rdc) ==
  /\ Candidate(type, o) \in {Plcf_10, Plcf_20, Plcf_21}
  /\ Plcf_UnpackReturns(Candidate(type, o), o)
  /\ check_rdc_limits(Plcf_Unpack(Candidate(type, o), o), rdc)
=============================================================================
