---------------------------- MODULE MacResources ----------------------------
(***************************************************************************)
(* Resource allocation IE and random access resource IE.  Their subslots   *)
(* have one octet or two, as mu says; an allocation is [start_subslot,     *)
(* length_type, length], a repetition [repeat_type, repetition, validity]  *)
(* and, for allocations, allow_specific_repeated_resources.  is_valid()    *)
(* calls std::optional::value() before has_value(), see ..._Raises.        *)
(***************************************************************************)
EXTENDS MacOctets

SubslotSize(mu) == IF mu <= 4 THEN 1 ELSE 2

allocation_t(mu) ==
  [start_subslot : 0..(256^SubslotSize(mu) - 1), length_type : Flag, length : 0..127]

AllocationOctets(a, mu) ==
  l2b_lower(a.start_subslot, SubslotSize(mu)) \o << Shl(a.length_type, 7) + a.length >>

AllocationFrom(o, at, mu) ==
  LET octet == o[at + SubslotSize(mu) + 1]
  IN [start_subslot |-> b2l_lower(o, at, SubslotSize(mu)),
      length_type |-> Field(octet, 7, 1), length |-> Field(octet, 0, 7)]

repetition_t == [repeat_type : Flag, repetition : 1..255, validity : 0..255]

RepetitionOctets(m) ==
  IF Has(m, "repeat_info") = 0 THEN << >> ELSE << m.repeat_info.repetition, m.repeat_info.validity >>

-----------------------------------------------------------------------------
(* resource_allocation_ie_t *)

ReleaseAll(m) == "allocation_dl" \notin DOMAIN m /\ "allocation_ul" \notin DOMAIN m

ResourceAllocation_Raises(m) ==
  ~ReleaseAll(m) /\ ~({"allocation_dl", "allocation_ul", "repeat_info"} \subseteq DOMAIN m)

ResourceAllocation_Fields(mu) ==
  [allocation_dl |-> allocation_t(mu), allocation_ul |-> allocation_t(mu),
   is_additional_allocation |-> Flag, short_rd_id |-> 0..65535,
   repeat_info |-> [repeat_type : Flag, allow_specific_repeated_resources : Flag,
                    repetition : 1..255, validity : 0..255],
   sfn_offset |-> 0..255, channel |-> is_absolute_channel_number_in_range,
   dect_scheduled_resource_failure |-> 2..11]

ResourceAllocation_Valid(m, mu) == ReleaseAll(m) \/ InRange(m, ResourceAllocation_Fields(mu))

ResourceAllocation_Size(m, mu) ==
  IF ReleaseAll(m) THEN 1
  ELSE 3 + SubslotSize(mu)
         + Has(m, "allocation_dl") * Has(m, "allocation_ul") * (1 + SubslotSize(mu))
         + 2 * Has(m, "short_rd_id") + 2 * Has(m, "repeat_info") + Has(m, "sfn_offset")
         + 2 * Has(m, "channel") + Has(m, "dect_scheduled_resource_failure")

(* repeat_t: frames 1, subslots 2, and 2 more with specific resources. *)
Repeat(m) ==
  IF Has(m, "repeat_info") = 0 THEN 0
  ELSE 1 + m.repeat_info.repeat_type + 2 * m.repeat_info.allow_specific_repeated_resources

ResourceAllocation_Pack(m, mu) ==
  IF ReleaseAll(m) THEN << 0 >>
  ELSE << Shl(Has(m, "allocation_ul"), 7) + Shl(Has(m, "allocation_dl"), 6)
            + Shl(m.is_additional_allocation, 5) + Shl(Has(m, "short_rd_id"), 4)
            + Shl(Repeat(m), 1) + Has(m, "sfn_offset"),
          Shl(Has(m, "channel"), 7) + Shl(Has(m, "dect_scheduled_resource_failure"), 6) >>
       \o (IF Has(m, "allocation_dl") = 0 THEN << >> ELSE AllocationOctets(m.allocation_dl, mu))
       \o (IF Has(m, "allocation_ul") = 0 THEN << >> ELSE AllocationOctets(m.allocation_ul, mu))
       \o Opt(m, "short_rd_id", 2) \o RepetitionOctets(m) \o Opt(m, "sfn_offset", 1)
       \o Opt(m, "channel", 2) \o Opt(m, "dect_scheduled_resource_failure", 1)

ResourceAllocation_Unpack(o, mu) ==
  LET dl == Field(o[1], 6, 1)
      ul == Field(o[1], 7, 1)
      size == 1 + SubslotSize(mu)
      repeat == Field(o[1], 1, 3)
      repeated == IF repeat \in 1..4 THEN 1 ELSE 0
      head == Optionals(o, 2 + (dl + ul) * size,
                        << <<"short_rd_id", Field(o[1], 4, 1), 2, 8>> >>)
      tail == Optionals(o, head.at + 2 * repeated,
                << <<"sfn_offset", Field(o[1], 0, 1), 1, 8>>,
                   <<"channel", Field(o[2], 7, 1), 2, 5>>,
                   <<"dect_scheduled_resource_failure", Field(o[2], 6, 1), 1, 4>> >>)
  IN IF dl + ul = 0 THEN [at |-> 1, m |-> [is_additional_allocation |-> 0]]
     ELSE [at |-> tail.at,
           m |-> [is_additional_allocation |-> Field(o[1], 5, 1)] @@ head.m @@ tail.m
                 @@ (IF dl = 0 THEN << >> ELSE "allocation_dl" :> AllocationFrom(o, 2, mu))
                 @@ (IF ul = 0 THEN << >>
                     ELSE "allocation_ul" :> AllocationFrom(o, 2 + dl * size, mu))
                 @@ (IF repeated = 0 THEN << >>
                     ELSE "repeat_info" :>
                            [repeat_type |-> (repeat - 1) % 2,
                             allow_specific_repeated_resources |-> (repeat - 1) \div 2,
                             repetition |-> o[head.at + 1], validity |-> o[head.at + 2]])]

ResourceAllocation_Peek(o, mu) ==
  LET type == Field(o[1], 6, 2)
      repeat == Field(o[1], 1, 3)
  IN IF type = 0 THEN 1
     ELSE IF repeat > 4 THEN -1
     ELSE (CASE mu <= 4 /\ type = 3 -> 6 [] mu <= 4 /\ type # 3 -> 4
             [] mu > 4 /\ type = 3 -> 8 [] mu > 4 /\ type # 3 -> 5)
          + 2 * Field(o[1], 4, 1) + (IF repeat = 0 THEN 0 ELSE 2) + Field(o[1], 0, 1)
          + 2 * Field(o[2], 7, 1) + Field(o[2], 6, 1)

-----------------------------------------------------------------------------
(* random_access_resource_ie_t *)

RandomAccess_Raises(m) == "repeat_info" \notin DOMAIN m

RandomAccess_Fields(mu) ==
  [repeat_info |-> repetition_t, sfn_offset |-> 0..255,
   channel |-> is_absolute_channel_number_in_range,
   channel_2 |-> is_absolute_channel_number_in_range, allocation |-> allocation_t(mu),
   max_rach_length_type |-> Flag, max_rach_length |-> 0..15, cw_min |-> 0..7,
   dect_delay |-> Flag, response_window_length |-> 0..15, cw_max |-> 0..7]

RandomAccess_Valid(m, mu) == InRange(m, RandomAccess_Fields(mu))

RandomAccess_Size(m, mu) ==
  4 + SubslotSize(mu) + 2 * Has(m, "repeat_info") + Has(m, "sfn_offset")
    + 2 * Has(m, "channel") + 2 * Has(m, "channel_2")

RandomAccess_Pack(m, mu) ==
  << Shl(Has(m, "sfn_offset"), 2) + Shl(Has(m, "channel"), 1) + Has(m, "channel_2")
       + Shl(IF Has(m, "repeat_info") = 0 THEN 0 ELSE 1 + m.repeat_info.repeat_type, 3) >>
  \o AllocationOctets(m.allocation, mu)
  \o << Shl(m.max_rach_length_type, 7) + Shl(m.max_rach_length, 3) + m.cw_min,
        Shl(m.dect_delay, 7) + Shl(m.response_window_length, 3) + m.cw_max >>
  \o RepetitionOctets(m) \o Opt(m, "sfn_offset", 1) \o Opt(m, "channel", 2) \o Opt(m, "channel_2", 2)

RandomAccess_Unpack(o, mu) ==
  LET at == 2 + SubslotSize(mu)
      repeat == Field(o[1], 3, 2)
      repeated == IF repeat = 0 THEN 0 ELSE 1
      tail == Optionals(o, at + 2 + 2 * repeated,
                << <<"sfn_offset", Field(o[1], 2, 1), 1, 8>>,
                   <<"channel", Field(o[1], 1, 1), 2, 5>>,
                   <<"channel_2", Field(o[1], 0, 1), 2, 5>> >>)
  IN [at |-> tail.at,
      m |-> [allocation |-> AllocationFrom(o, 1, mu),
             max_rach_length_type |-> Field(o[at + 1], 7, 1),
             max_rach_length |-> Field(o[at + 1], 3, 4),
             cw_min |-> Field(o[at + 1], 0, 3),
             dect_delay |-> Field(o[at + 2], 7, 1),
             response_window_length |-> Field(o[at + 2], 3, 4),
             cw_max |-> Field(o[at + 2], 0, 3)]
            @@ tail.m
            @@ (IF repeated = 0 THEN << >>
                ELSE "repeat_info" :> [repeat_type |-> repeat - 1, repetition |-> o[at + 3],
                                       validity |-> o[at + 4]])]

(* The flags of the SFN offset and of the first channel are taken in       *)
(* place, so they are 4 and 2 and not 1.                                   *)
RandomAccess_Peek(o, mu) ==
  LET repeat == Field(o[1], 3, 2)
  IN IF repeat = 3 THEN -1
     ELSE 4 + SubslotSize(mu) + (IF repeat = 0 THEN 0 ELSE 2) + 4 * Field(o[1], 2, 1)
          + 2 * (2 * Field(o[1], 1, 1)) + 2 * Field(o[1], 0, 1)
=============================================================================
