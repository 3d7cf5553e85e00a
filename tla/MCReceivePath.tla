--------------------------- MODULE MCReceivePath ---------------------------
(***************************************************************************)
(* What is sent on its way to the receiver, on one of five levels per      *)
(* behaviour: the cells of a packet, its samples, its STF in the stream of *)
(* samples, its PLCF and MAC PDU, or the ring the samples arrive in.  The  *)
(* levels share nothing: the others wait in one of their initial states.   *)
(***************************************************************************)
EXTENDS PacketGrid, PacketSamples, SyncSearch, MCPacketReception, RxBuffer

VARIABLE level
path_vars == <<grid, samples, sync, vars, buffer_vars, level>>

\* Cells: packets of every numerology and number of transmit streams, with up to 30 data symbols:
\* the rows of the PDC table repeat at least once.
MCDefinitions ==
    [u : {1, 2, 8}, b : {1, 2, 4}, PacketLengthType : {0}, PacketLength : 1..6,
     tm_mode_index : {0, 1, 2, 5, 6, 10}, mcs_index : {0, 1, 3, 5, 8}, Z : {2048}]
    \cup
    [u : {4, 8}, b : {1}, PacketLengthType : {1}, PacketLength : {1},
     tm_mode_index : {0, 1, 5}, mcs_index : {1, 5}, Z : {6144}]
MCStrides == {1, 2, 3}

\* Samples: every ratio of the rates, packets narrower than the class, units that are shorter and
\* longer than a symbol, and both DFTs that are no multiple of the packet's.
Transmission(u, n, w, class, os, rate, units) ==
    [u |-> u, b |-> w, class |-> [u |-> class[1], b |-> class[2]], os_min |-> os,
     hw_samp_rate |-> rate, enforce |-> TRUE, GI_percentage |-> 5, units |-> units, N_DF_symb |-> n]
MCTransmissions ==
    {Transmission(1, 5, 1, <<1, 1>>, os, 1728 * os, units) : os \in {1, 2, 4}, units \in {1, 3}}
    \cup {Transmission(u, 7, 1, <<2, 1>>, os, 3840 * os, units) :
              u \in {1, 2}, os \in {1, 2}, units \in {1, 2}}
    \cup {Transmission(8, 16, 1, <<8, 1>>, 1, 15360, 1),
          [Transmission(8, 16, 1, <<8, 1>>, 1, 15360, 2) EXCEPT !.enforce = FALSE,
                                                                !.GI_percentage = 100]}
    \cup {Transmission(2, 3, w, <<2, 12>>, 2, 122880, 4) : w \in {1, 4, 12}}
    \cup {Transmission(2, 3, w, <<2, 12>>, 1, 61440, 4) : w \in {4, 8, 12}}
    \cup {Transmission(1, 5, w, <<1, 16>>, 1, 30720, 2) : w \in {8, 12, 16}}

\* STFs: one packet at every position relative to a chunk, and two or three in a row with gaps of
\* two patterns and more, weaker or stronger than the one before, or heard by one antenna only.
Heard(start, length, x, y) == [start |-> start, length |-> length, amplitude |-> <<x, y>>]
OnePacket(u, chunks) ==
    {[u |-> u, A |-> chunks, unit |-> 20, packets |-> {Heard(s, 164, x[1], x[2])}] :
        s \in chunks..(2 * chunks - 1), x \in {<<1, 0>>, <<2, 0>>, <<6, 2>>}}
TwoPackets(u, chunks) ==
    {[u |-> u, A |-> chunks, unit |-> 33,
      packets |-> {Heard(s, 164 + longer, 4, 1), Heard(s + 164 + longer + gap, 164, x, 2)}] :
        s \in {chunks - 30, chunks - 3, chunks + 17, 2 * chunks - 60, 2 * chunks - 40},
        x \in {0, 2, 6}, gap \in {16, 17, 20}, longer \in {0, 70}}
MCSignals ==
    OnePacket(1, 112) \cup OnePacket(2, 100) \cup TwoPackets(1, 112) \cup TwoPackets(2, 144)
    \cup {[u |-> u, A |-> 120, unit |-> 33,
           packets |-> {Heard(s, 164, 4, 1), Heard(s + 180, 164, x, 2), Heard(s + 400, 200, 2, 9)}] :
              u \in {1, 2}, s \in {-40, 0, 7, 20, 60}, x \in {0, 2, 4, 8}}
MCPowerRange == <<80, 100000>>

\* Ring: one reader, a hardware whose time is rounded down, and a start in the past.
OneReader == {1}
Rounding == {-1, 0}
FromPast == {-22, -2}

PathInit ==
    /\ level \in {"cells", "samples", "stf", "pdu", "ring"}
    /\ level # "cells" => /\ psdef = CHOOSE d \in Definitions : HasSizes(d)
                          /\ lr_default = FALSE /\ stride = 1
    /\ level # "samples" => transmission = CHOOSE t \in Transmissions : ~t.enforce
    /\ level # "stf" => signal = CHOOSE s \in Signals : TRUE
    /\ level # "pdu" => packet = (CHOOSE p \in Packets : p.more) /\ Activated = Shipped
    /\ Init /\ BufferInit /\ SamplesInit /\ SyncInit /\ GridInit

PathNext ==
    \/ level = "cells" /\ GridNext /\ UNCHANGED <<samples, sync, vars, buffer_vars, level>>
    \/ level = "samples" /\ SamplesNext /\ UNCHANGED <<grid, sync, vars, buffer_vars, level>>
    \/ level = "stf" /\ SyncNext /\ UNCHANGED <<grid, samples, vars, buffer_vars, level>>
    \/ level = "pdu" /\ Next /\ UNCHANGED <<grid, samples, sync, buffer_vars, level>>
    \/ level = "ring" /\ BufferNext /\ UNCHANGED <<grid, samples, sync, vars, level>>

PathSpec == PathInit /\ [][PathNext]_path_vars
=============================================================================
