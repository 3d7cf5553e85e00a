------------------------- MODULE MCPacketReception -------------------------
(***************************************************************************)
(* Packets for TLC.                                                        *)
(***************************************************************************)
EXTENDS PacketReception, MCMessages

-----------------------------------------------------------------------------
(* Physical headers. *)

FieldsOf(kind) ==
  {"HeaderFormat", "PacketLengthType", "PacketLength_m1", "ShortNetworkID", "TransmitterIdentity",
   "TransmitPower", "DFMCS"}
  \cup (IF kind = Plcf_20 THEN {"DFRedundancyVersion", "DFNewDataIndication", "DFHARQProcessNumber"}
        ELSE {"Reserved"})
  \cup (IF kind = Plcf_10 THEN {} ELSE {"ReceiverIdentity", "NumberOfSpatialStreams"})

(* The buffer sizes at both ends of some of the ranges. *)
FeedbackBound(name, S, k) ==
  IF name = "Buffer_Size" THEN (IF k = 1 THEN 0 ELSE 131072)
  ELSE IF k = 1 THEN Lowest(S) ELSE Highest(S)

Feedbacks(format) ==
  IF format = 0 THEN {<< >>}
  ELSE LET names == {fld[1] : fld \in FeedbackFields[format]}
           S(name) == (CHOOSE fld \in FeedbackFields[format] : fld[1] = name)[5]
           low == [name \in names |-> FeedbackBound(name, S(name), 1)]
       IN {low, [name \in names |-> FeedbackBound(name, S(name), 2)]}
          \cup {[low EXCEPT ![name] = FeedbackBound(name, S(name), 2)] : name \in names}
          \cup {[low EXCEPT ![name] = size] : name \in names \cap {"Buffer_Size"},
                                             size \in {1, 16, 17, 32, 33, 1000, 131072}}

Headers(kind) ==
  LET F == [f \in FieldsOf(kind) |-> Plcf_Fields(kind)[f]]
      low == [f \in DOMAIN F |-> Lowest(F[f])]
  IN IF kind = Plcf_10 THEN Messages(F, DOMAIN F)
     ELSE {m @@ [FeedbackFormat |-> 0, feedback |-> << >>] : m \in Messages(F, DOMAIN F)}
          \cup UNION {{low @@ [FeedbackFormat |-> n, feedback |-> f] : f \in Feedbacks(n)} : n \in 1..6}

-----------------------------------------------------------------------------
(* Packets. *)

Packet(kind, p, tb, header_, mmies, intact) ==
  [type |-> kind[1], p |-> p, plcf |-> Plcf_Pack(kind, p), tb |-> tb, header |-> header_,
   mmies |-> mmies, intact |-> intact, more |-> FALSE]

Plain == CHOOSE p \in Headers(Plcf_10) : p.PacketLength_m1 = 0 /\ p.DFMCS = 0
Empty == [security |-> 0, type |-> 4, m |-> << >>]
Sent(header_, mmies, padding) ==
  LET pdu == MacPdu_Pack(header_, mmies, mu)
  IN Packet(Plcf_10, Plain, MacPdu_Fill(pdu, Len(pdu) + padding), header_, mmies, TRUE)

Data(type, flow, n) == [type |-> type, m |-> [flow |-> flow, data |-> [i \in 1..n |-> (i * 37) % 256]]]
Mmie(type, m) == [type |-> type, m |-> m]

(* No padding, and as much as makes a short element readable.              *)
Paddings(type, m) ==
  {0} \cup IF type \in Peeking THEN {n \in {MinToPeek[type] - Size(type, m, mu)} : n > 0} ELSE {}

(* Every PLCF with an empty PDU, every common header, every MMIE alone,    *)
(* the build's MMIEs together, more data than the pool has elements for,   *)
(* and all kinds of padding.                                               *)
IntactPackets ==
  UNION {{Packet(kind, p, <<4, 192>>, Empty, << >>, TRUE) : p \in Headers(kind)} :
           kind \in {Plcf_10, Plcf_20, Plcf_21}}
  \cup UNION {{Sent([security |-> s, type |-> t, m |-> m], << >>, 1) :
                 m \in Messages(CommonHeader_Fields(t), DOMAIN CommonHeader_Fields(t))} :
                 t \in 0..3, s \in {0, 3}}
  \cup UNION {{Sent(Empty, <<Mmie(type, m)>>, n) : n \in Paddings(type, m)} :
           <<type, m>> \in UNION {{type} \X MessagesOf(type, mu) : type \in Types}}
  \cup {Sent(Empty, <<Data(type, 2, n), Mmie("PowerTarget", [power_target_dBm_coded |-> 50])>>, 0) :
          type \in Flowing, n \in {1, 2, 5}}
  \cup {Sent(Empty, [i \in 1..9 |-> Data("UserPlaneData", 1 + (i % 4), 1)], 0),
        Sent(Empty, [i \in 1..2 |-> Mmie("PowerTarget", [power_target_dBm_coded |-> 44 + i])], 3)}
  \cup {Sent(Empty, <<Data("UserPlaneData", 4, 1)>>, n) : n \in 0..4}

(* Every first octet, every multiplexing header, a common header that is   *)
(* not valid, MMIEs of the build that are not valid, and one that is       *)
(* longer than the transport block.                                        *)
GarbagePackets ==
  {Packet(Plcf_10, Plain, tb, Empty, << >>, FALSE) :
     tb \in {<<o, 0, 0, 0>> : o \in 0..255} \cup {<<4, o, 1, 2, 200, 7>> : o \in 0..255}
            \cup {<<2, 0, 0, 0, 0, 0, 0, 0, 0, 0, 0, 192>>, <<0, 224, 0, 29, 50>>,
                  <<4, 9, 0, 31, 112, 0, 0, 0, 0, 0, 0, 0, 0, 0, 29, 45>>, <<4, 29, 44, 29, 45>>,
                  <<4, 30, 3, 0, 0, 0, 0, 0, 0, 0, 0, 0, 0, 29, 45>>,
                  <<4, 67, 4, 0, 0, 0>>, <<4, 131, 0, 0, 29, 45>>}}

(* After which the decoder is used again: one that takes all of a pool,    *)
(* and one whose length is longer than what there is.                      *)
EarlierPackets ==
  {[p EXCEPT !.more = TRUE] :
     p \in {Sent(Empty, [i \in 1..8 |-> Data("UserPlaneData", 1, 1)], 0),
            Packet(Plcf_10, Plain, <<4, 67, 200, 1, 2>>, Empty, << >>, FALSE)}}

MCPackets == IntactPackets \cup GarbagePackets \cup EarlierPackets

MCShipped ==
  {"Padding", "UserPlaneData", "ClusterBeacon", "PowerTarget", "TimeAnnounce"}
MCBuilds == {MCShipped, Types \cup Flowing \cup {"Padding"}}
MCrdc == [PacketLength_max |-> 8, mcs_index_max |-> 7, N_SS_max |-> 4]
=============================================================================
