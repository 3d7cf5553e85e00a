--------------------------- MODULE PacketReception ---------------------------
(***************************************************************************)
(* How a worker receives packets, one after the other: rx_synced_t reads   *)
(* the PCC and tries both PLCF types with plcf_decoder_t, and if firmware  *)
(* then wants the PDC, decodes it symbol by symbol.  After every symbol,   *)
(* fec_t has decoded as many code blocks as it has the bits for, and       *)
(* mac_pdu_decoder_t::decode() is called with the number of octets that    *)
(* are there so far: it goes on where it stopped, and stops where the      *)
(* octets end.  One turn of the loop in decode() is one step.              *)
(*                                                                         *)
(* The HARQ buffer holds octets of an earlier packet where nothing has     *)
(* been written yet (stale).  A packet with a wrong CRC is decoded too;    *)
(* it is only not reported.                                                *)
(***************************************************************************)
EXTENDS PhyHeader, MacPdu

CONSTANTS
  (* What is sent: [plcf, type, p, tb, header, mmies, intact, more], the octets   *)
  (* of the PLCF, its type and fields, the octets of the transport block,   *)
  (* its header and MMIEs, whether the CRC of the transport block holds, and *)
  (* whether another packet is received after it (a bound).                 *)
  Packets,
  (* mmie_activate.hpp: the types the multiplexing header recognizes, in    *)
  (* the build as it is and in builds with more of them activated           *)
  Shipped, Builds,
  (* the radio device class, [PacketLength_max, mcs_index_max, N_SS_max]    *)
  rdc,
  mu,
  (* How many octets more a symbol may bring (a bound) *)
  Octets

(* A transport block has at least one octet (packet_sizes.cpp).            *)
ASSUME ReceptionAssumption ==
  /\ \A p \in Packets : p.tb \in Seq(0..255) /\ p.tb # << >>
  /\ Octets \subseteq Nat

VARIABLES
  Activated,          (* the build *)
  packet,             (* the packet on the air *)
  phase,              (* "search", "no_plcf", "pcc" or "pdc" *)
  plcf,               (* what plcf_decoder holds: a PLCF of each type, or << >> *)
  stale,              (* what the buffer holds where nothing is written *)
  a_cnt_w, a_cnt_r,   (* octets written, octets read *)
  running,            (* decode() has been called and has not returned *)
  state, N_bytes_required,
  header,             (* mht_effective and mch_effective: [security, type, m], or << >> *)
  mmh, mmie,          (* the multiplexing header as octets, the type of the MMIE *)
  index_next_ie, mmie_decoded_vec,
  assertion           (* the assertion or exception that ended the program *)

receptionVars == <<Activated, packet, phase, plcf, stale>>
decoderVars == <<state, N_bytes_required, a_cnt_r, running, header, mmh, mmie, index_next_ie,
                 mmie_decoded_vec, assertion>>
vars == <<receptionVars, decoderVars, a_cnt_w>>

a_cnt_w_tb == Len(packet.tb)

(* The HARQ buffer from octet k on.  What is not written yet is stale,     *)
(* and so is what lies behind the transport block.                         *)
Buffer(k) == [i \in 1..(a_cnt_w_tb - k + 16) |-> IF k + i <= a_cnt_w THEN packet.tb[k + i] ELSE stale]

PoolSize(type) == IF type \in Flowing THEN 8 ELSE 1

-----------------------------------------------------------------------------
(* rx_synced_t *)

Init ==
  /\ packet \in {p \in Packets : p.more} /\ Activated \in Builds
  /\ phase = "search" /\ plcf = <<<< >>, << >>>> /\ stale = 0
  /\ a_cnt_w = 0 /\ a_cnt_r = 0 /\ running = FALSE
  /\ state = "MAC_HEADER_TYPE" /\ N_bytes_required = 1 /\ header = << >>
  /\ mmh = << >> /\ mmie = "nullptr" /\ index_next_ie = << >> /\ mmie_decoded_vec = << >>
  /\ assertion = "none"

(* demoddecod_rx_pcc(): set_configuration(), then decode_and_rdc_check()   *)
(* for the type whose CRC is correct.  A packet with a wrong CRC of the    *)
(* transport block is sent to the build as it is alone: of the types it    *)
(* leaves out, get_packed_size() does assert that the octets are valid.    *)
demoddecod_rx_pcc(p) ==
  /\ phase = "search" /\ assertion = "none"
  /\ p.intact \/ Activated = Shipped
  /\ packet' = p
  /\ plcf' = [type \in 1..2 |-> IF p.type = type /\ PlcfAccepted(type, p.plcf, rdc)
                                THEN Plcf_Unpack(Candidate(type, p.plcf), p.plcf) ELSE << >>]
  /\ phase' = IF plcf' = <<<< >>, << >>>> THEN "no_plcf" ELSE "pcc"
  /\ UNCHANGED <<Activated, stale, decoderVars, a_cnt_w>>

NoneTaken == [type \in DOMAIN index_next_ie |-> 0]

(* demoddecod_rx_pdc(): mac_pdu_decoder_t::set_configuration(). *)
set_configuration ==
  /\ phase = "pcc"
  /\ phase' = "pdc" /\ stale' \in {0, 255}
  /\ a_cnt_w' = 0 /\ a_cnt_r' = 0
  /\ state' = "MAC_HEADER_TYPE" /\ N_bytes_required' = 1
  /\ header' = << >> /\ mmh' = << >> /\ mmie' = "nullptr"
  /\ index_next_ie' = NoneTaken
  /\ mmie_decoded_vec' = << >>
  /\ UNCHANGED <<Activated, packet, plcf, running, assertion>>

(* run_pdc(): one more symbol, and n octets more are decoded, possibly     *)
(* none.  The last symbol is the one that completes the transport block.   *)
run_pdc(n) ==
  /\ phase = "pdc" /\ ~running /\ assertion = "none"
  /\ a_cnt_w < a_cnt_w_tb
  /\ a_cnt_w' = Min({a_cnt_w + n, a_cnt_w_tb})
  /\ running' = TRUE
  /\ UNCHANGED <<receptionVars, state, N_bytes_required, a_cnt_r, header, mmh, mmie, index_next_ie,
                 mmie_decoded_vec, assertion>>

Complete == phase = "pdc" /\ ~running /\ a_cnt_w = a_cnt_w_tb

(* has_reached_valid_final_state(), and the report to firmware. *)
report ==
  /\ Complete /\ assertion = "none"
  /\ phase' = "search"
  /\ assertion' = IF /\ a_cnt_r = a_cnt_w_tb
                     /\ state \in {"MAC_PDU_DONE", "MAC_PDU_PREMATURE_ABORT"}
                  THEN "none" ELSE "mac_pdu_decoder invalid final state"
  /\ UNCHANGED <<Activated, packet, plcf, stale, a_cnt_w, state, N_bytes_required, a_cnt_r, running, header, mmh,
                 mmie, index_next_ie, mmie_decoded_vec>>

-----------------------------------------------------------------------------
(* mac_pdu_decoder_t::decode(): every turn of the loop.                    *)

TooManyRequired_OffByOne == a_cnt_r + N_bytes_required > a_cnt_w_tb + 1

TooManyRequired == a_cnt_r + N_bytes_required > a_cnt_w_tb

(* The octets the state needs are more than the transport block has, or    *)
(* an earlier turn gave up: the rest counts as read.                       *)
MAC_PDU_PREMATURE_ABORT ==
  /\ running
  /\ TooManyRequired \/ state = "MAC_PDU_PREMATURE_ABORT"
  /\ state' = "MAC_PDU_PREMATURE_ABORT" /\ N_bytes_required' = 0
  /\ a_cnt_r' = a_cnt_w /\ running' = FALSE
  /\ UNCHANGED <<receptionVars, a_cnt_w, header, mmh, mmie, index_next_ie, mmie_decoded_vec, assertion>>

Enough == a_cnt_w - a_cnt_r >= N_bytes_required

(* Not collected yet. *)
Return ==
  /\ running /\ ~TooManyRequired
  /\ ~Enough
  /\ running' = FALSE
  /\ UNCHANGED <<receptionVars, a_cnt_w, state, N_bytes_required, a_cnt_r, header, mmh, mmie,
                 index_next_ie, mmie_decoded_vec, assertion>>

Turn(s) ==
  /\ running /\ ~TooManyRequired /\ Enough
  /\ state = s
  /\ UNCHANGED <<receptionVars, a_cnt_w>>

Prepare(s, n) == state' = s /\ N_bytes_required' = n
Abort == Prepare("MAC_PDU_PREMATURE_ABORT", 0)

MAC_HEADER_TYPE ==
  /\ Turn("MAC_HEADER_TYPE")
  /\ LET octet == Buffer(0)[1]
         type == Field(octet, 0, 4)
     IN IF ~MacHeader_UnpackReturns(octet) THEN Abort /\ UNCHANGED <<a_cnt_r, header>>
        ELSE /\ header' = [security |-> Field(octet, 4, 2), type |-> type]
             /\ a_cnt_r' = a_cnt_r + N_bytes_required
             /\ Prepare("MAC_COMMON_HEADER", CommonHeader_Size(type))
  /\ UNCHANGED <<running, mmh, mmie, index_next_ie, mmie_decoded_vec, assertion>>

MAC_COMMON_HEADER ==
  /\ Turn("MAC_COMMON_HEADER")
  /\ LET m == CommonHeader_Unpack(header.type, Buffer(a_cnt_r))
     IN IF ~CommonHeader_Valid(header.type, m) THEN Abort /\ UNCHANGED <<a_cnt_r, header>>
        ELSE /\ header' = [security |-> header.security, type |-> header.type, m |-> m]
             /\ a_cnt_r' = a_cnt_r + N_bytes_required
             /\ Prepare("MAC_MUX_HEADER_UNPACK_MAC_EXT_IE_TYPE", 1)
  /\ UNCHANGED <<running, mmh, mmie, index_next_ie, mmie_decoded_vec, assertion>>

NextIndex(type) == IF type \in DOMAIN index_next_ie THEN index_next_ie[type] ELSE 0

(* A type that is unknown or not activated, padding, or a type of which    *)
(* the pool has no other element ends the PDU.                             *)
MAC_MUX_HEADER_UNPACK_MAC_EXT_IE_TYPE ==
  /\ Turn("MAC_MUX_HEADER_UNPACK_MAC_EXT_IE_TYPE")
  /\ LET octet == Buffer(a_cnt_r)[1]
         type == unpack_mac_ext_ie_type(octet, Activated)
     IN /\ mmh' = <<octet>>
        /\ IF type \in {"nullptr", "Padding"} THEN Abort /\ UNCHANGED <<a_cnt_r, mmie>>
           ELSE IF NextIndex(type) >= PoolSize(type)
           THEN Abort /\ mmie' = "nullptr" /\ UNCHANGED a_cnt_r
           ELSE /\ mmie' = type
                /\ IF type \in Peeking
                   THEN /\ a_cnt_r' = a_cnt_r + N_bytes_required
                        /\ Prepare("B_MAC_MESSAGE_IE_PEEK", MinToPeek[type])
                   ELSE /\ Prepare("A_MAC_MUX_HEADER_UNPACK_LENGTH_OR_FIXED_SIZE", Mmh_Size(octet))
                        /\ UNCHANGED a_cnt_r
  /\ UNCHANGED <<running, header, index_next_ie, mmie_decoded_vec, assertion>>

A_MAC_MUX_HEADER_UNPACK_LENGTH_OR_FIXED_SIZE ==
  /\ Turn("A_MAC_MUX_HEADER_UNPACK_LENGTH_OR_FIXED_SIZE")
  /\ LET length == unpack_length(Buffer(a_cnt_r))
     IN /\ mmh' = SubSeq(Buffer(a_cnt_r), 1, N_bytes_required)
        /\ Prepare("MAC_MESSAGE_IE_UNPACK",
                   IF length < UNDEFINED_NUMERIC_32 THEN length ELSE FixedSize[mmie])
  /\ a_cnt_r' = a_cnt_r + N_bytes_required
  /\ UNCHANGED <<running, header, mmie, index_next_ie, mmie_decoded_vec, assertion>>

B_MAC_MESSAGE_IE_PEEK ==
  /\ Turn("B_MAC_MESSAGE_IE_PEEK")
  /\ LET size == Peek(mmie, Buffer(a_cnt_r), mu)
     IN IF size = -1 THEN Abort ELSE Prepare("MAC_MESSAGE_IE_UNPACK", size)
  /\ UNCHANGED <<running, a_cnt_r, header, mmh, mmie, index_next_ie, mmie_decoded_vec, assertion>>

(* Of a flowing MMIE, only where its data is. *)
UnpackMmie(o) ==
  IF mmie \in Flowing
  THEN [at |-> N_bytes_required,
        m |-> [flow |-> Field(mmh[1], 0, 6) - (IF mmie = "UserPlaneData" THEN 2 ELSE 0),
               data |-> SubSeq(o, 1, N_bytes_required)]]
  ELSE Unpack(mmie, o, N_bytes_required, mu)

(* A flowing MMIE is only pointed at, any other one is unpacked; an        *)
(* invalid one is skipped.  configuration_request_ie_t is neither flowing  *)
(* nor packing.                                                            *)
MAC_MESSAGE_IE_UNPACK ==
  /\ Turn("MAC_MESSAGE_IE_UNPACK")
  /\ \E o \in {Buffer(a_cnt_r)} : \E u \in {UnpackMmie(o)} :
       LET valid == mmie \in Flowing \/ Valid(mmie, u.m, o, mu)
       IN /\ assertion' = CASE mmie \in Flowing -> assertion
                            [] mmie = "ConfigurationRequest" -> "must be flowing"
                            [] Raises(mmie, u.m) -> "std::bad_optional_access"
                            [] ~valid /\ mmie \in SizeAssertsValid -> "is not valid"
                            [] mmie \in Peeking /\ u.at # Size(mmie, u.m, mu) -> "lengths do not match"
                            [] OTHER -> assertion
          /\ IF valid
             THEN /\ index_next_ie' = [type \in {mmie} \cup DOMAIN index_next_ie |->
                                         NextIndex(type) + (IF type = mmie THEN 1 ELSE 0)]
                  /\ mmie_decoded_vec' = Append(mmie_decoded_vec, [type |-> mmie, m |-> u.m])
             ELSE UNCHANGED <<index_next_ie, mmie_decoded_vec>>
  /\ a_cnt_r' = a_cnt_r + N_bytes_required
  /\ running' = (assertion' = "none")
  /\ Prepare("MAC_PDU_CHECK_IF_DONE", 0)
  /\ UNCHANGED <<header, mmh, mmie>>

MAC_PDU_CHECK_IF_DONE ==
  /\ Turn("MAC_PDU_CHECK_IF_DONE")
  /\ IF a_cnt_r < a_cnt_w_tb
     THEN Prepare("MAC_MUX_HEADER_UNPACK_MAC_EXT_IE_TYPE", 1) /\ UNCHANGED running
     ELSE state' = "MAC_PDU_DONE" /\ running' = FALSE /\ UNCHANGED N_bytes_required
  /\ UNCHANGED <<a_cnt_r, header, mmh, mmie, index_next_ie, mmie_decoded_vec, assertion>>

decode ==
  \/ MAC_PDU_PREMATURE_ABORT \/ Return
  \/ MAC_HEADER_TYPE \/ MAC_COMMON_HEADER
  \/ MAC_MUX_HEADER_UNPACK_MAC_EXT_IE_TYPE \/ A_MAC_MUX_HEADER_UNPACK_LENGTH_OR_FIXED_SIZE
  \/ B_MAC_MESSAGE_IE_PEEK \/ MAC_MESSAGE_IE_UNPACK \/ MAC_PDU_CHECK_IF_DONE

Next ==
  \/ phase = "search" /\ packet.more /\ \E p \in Packets : demoddecod_rx_pcc(p)
  \/ set_configuration
  \/ ~running /\ \E n \in Octets : run_pdc(n)
  \/ decode
  \/ report

Spec == Init /\ [][Next]_vars

-----------------------------------------------------------------------------
(* Properties *)

(* What a sender's pack() accepts and the receiver's unpack() does not     *)
(* give back: of network beacon channels only their number is sent         *)
(* (network_beacon_message.cpp:160), the network beacon period of a fixed  *)
(* part is masked away (association_request_message.cpp:234), every        *)
(* association response is taken for a rejection                           *)
(* (association_response_message.cpp:201), and the feedback of a broadcast *)
(* indication is not shifted back (broadcast_indication_ie.cpp:199).       *)
Lossy(mmie_) ==
  LET m == mmie_.m
      there(f) == f \in DOMAIN m
  IN \/ /\ mmie_.type = "NetworkBeacon"
        /\ \/ there("network_beacon_channel_1") /\ ~there("network_beacon_channel_0")
           \/ there("network_beacon_channel_2") /\ ~there("network_beacon_channel_1")
     \/ /\ mmie_.type = "AssociationRequest" /\ there("ft_configuration")
        /\ m.ft_configuration.network_beacon_period # 0
     \/ mmie_.type = "AssociationResponse" /\ ~there("reject_info")
     \/ mmie_.type = "BroadcastIndication" /\ m.indication_type = 1 /\ m.feedback # 0

AsSent(received, sent) == received.type = sent.type /\ (Lossy(sent) \/ received.m = sent.m)

(* Of the network ID in a beacon header the lowest octet is lost           *)
(* (mac_common_header.cpp:88, :93).                                        *)
HeaderAsSent(received, sent) ==
  IF sent.type # 1 THEN received = sent
  ELSE received = [sent EXCEPT !.m.Network_ID_3_lsb = @ - (@ % 256)]

(* Whatever the octets are, valid, garbage after a wrong CRC or of a type  *)
(* that is not activated, none of the assertions of the decoder fails and  *)
(* no exception leaves it (mac_pdu_decoder.cpp:71, :72, :289, :315, :334), *)
(* unless a build activates the broadcast indication and receives one with *)
(* feedback, whose get_packed_size() asserts that it is valid.             *)
NoAssertionFails ==
  /\ a_cnt_r <= a_cnt_w
  /\ \/ assertion = "none"
     \/ /\ "BroadcastIndication" \in Activated
        /\ \E i \in DOMAIN packet.mmies :
             packet.mmies[i].type = "BroadcastIndication" /\ Lossy(packet.mmies[i])

(* Of a packet whose CRC holds the decoder has at any time, in the middle  *)
(* of the packet too, exactly the first MMIEs that were sent: however the  *)
(* octets are cut into symbols, it never interprets one that is not there  *)
(* yet and loses none (mac_pdu_decoder.cpp:84).                            *)
DecodedIsPrefix ==
  phase = "pdc" /\ packet.intact =>
    /\ Len(mmie_decoded_vec) <= Len(packet.mmies)
    /\ \A i \in DOMAIN mmie_decoded_vec : AsSent(mmie_decoded_vec[i], packet.mmies[i])

(* When all octets have come, the header and every MMIE are as they were   *)
(* sent, up to the first that is not activated, for which the pool of the  *)
(* receiver has no element left (mac_pdu_decoder.cpp:343), or that ends    *)
(* the transport block and is shorter than the decoder needs to know its   *)
(* size.                                                                   *)
Receivable(mmies, n) ==
  \A type \in {mmies[i].type : i \in 1..n} :
    /\ type \in Activated
    /\ Cardinality({i \in 1..n : mmies[i].type = type}) <= PoolSize(type)

CutOff ==
  LET n == Len(packet.mmies)
      last == packet.mmies[n]
      size == Size(last.type, last.m, mu)
  IN /\ n > 0 /\ last.type \in Peeking /\ size < MinToPeek[last.type]
     /\ Len(MacPdu_Pack(packet.header, packet.mmies, mu)) - size + MinToPeek[last.type] > a_cnt_w_tb

PduAsSent ==
  Complete /\ packet.intact /\ assertion = "none" =>
    /\ HeaderAsSent(header, packet.header)
    /\ Receivable(packet.mmies, Len(mmie_decoded_vec))
    /\ \/ Len(mmie_decoded_vec) = Len(packet.mmies)
       \/ ~Receivable(packet.mmies, Len(mmie_decoded_vec) + 1)
       \/ CutOff /\ Len(mmie_decoded_vec) = Len(packet.mmies) - 1

(* A PLCF is accepted if and only if a device of this class can receive    *)
(* the packet, under the type it was sent with, and then it says what was  *)
(* sent (plcf_decoder.cpp:53).  Of a buffer the receiver is told a lower   *)
(* bound of the size, which is at least half of it from 17 octets on.      *)
BufferAsSent(size, received) ==
  received <= size /\ (size \in 17..131072 => size <= 2 * received)

FeedbackAsSent(f, received) ==
  /\ DOMAIN received = DOMAIN f
  /\ \A name \in DOMAIN f :
       IF name = "Buffer_Size" THEN BufferAsSent(f[name], received[name])
                               ELSE received[name] = f[name]

PlcfAsSent ==
  LET p == packet.p
      received == plcf[packet.type]
  IN /\ phase = "no_plcf" => ~check_rdc_limits(p, rdc)
     /\ phase \in {"pcc", "pdc"} =>
          /\ check_rdc_limits(p, rdc)
          /\ DOMAIN received = DOMAIN p
          /\ \A f \in DOMAIN p :
               IF f = "feedback" THEN FeedbackAsSent(p[f], received[f]) ELSE received[f] = p[f]

(* What the firmware gets is what was sent, in both parts of the packet,   *)
(* and at any time before it is the beginning of it, save what Lossy,      *)
(* HeaderAsSent and CutOff name.                                           *)
ReceivedAsSent == PlcfAsSent /\ PduAsSent /\ DecodedIsPrefix
=============================================================================
