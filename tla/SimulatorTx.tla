---------------------------- MODULE SimulatorTx ----------------------------
(***************************************************************************)
(* The TX thread of a simulated radio, hw_simulator_t::work_tx().  Time    *)
(* passes in steps of one spp: in each the thread writes spp_size samples  *)
(* into the virtual space, zeros or samples of packets.  A packet may end  *)
(* and the next one begin within one spp.                                  *)
(*                                                                         *)
(* The virtual space is abstracted to a writer that is never refused;      *)
(* VirtualSpace models when it is.                                         *)
(***************************************************************************)
EXTENDS TxPool

CONSTANTS
    SppSize,     \* spp_size
    Turnaround,  \* how far ahead the firmware plans, tmin_t::turnaround
    LastTime     \* bound: the simulation ends

ASSUME SimulatorAssumption ==
    /\ SppSize \in Nat \ {0} /\ Turnaround \in Nat /\ LastTime \in Nat
    /\ Turnaround >= 2 * SppSize
    /\ \A n \in Packet : SppSize < Packets[n].len

VARIABLES
    spc,
    order_id,    \* tx_order_id_expected
    idx,         \* buffer_tx_idx
    plen, time,  \* tx_length_samples, tx_time_64
    zeros,       \* nof_spp_zero
    offset,      \* spp_offset
    this,        \* tx_length_samples_this_spp
    pcnt,        \* tx_length_samples_cnt
    now,         \* now_64
    spp,         \* chunks in vspptx
    chunks       \* history: chunks written into the virtual space

spp_vars == <<spc, order_id, idx, plen, time, zeros, offset, this, pcnt, now, spp, chunks>>
simulator_vars == <<pool_vars, spp_vars>>

SimulatorInit ==
    /\ PoolInit
    /\ spc = "loop" /\ order_id = 0 /\ idx = None
    /\ plen = 0 /\ time = 0 /\ zeros = 0 /\ offset = 0 /\ this = 0 /\ pcnt = 0
    /\ now = 0 /\ spp = <<>> /\ chunks = <<>>

\* Firmware and workers keep up with the radio: a packet is asked for early enough,
\* and is transmittable before time t if the thread would be beyond its time then.
\* The thread asserts it ("transmission time ... earlier than current time").
InTime(t) ==
    \A n \in 1 .. taken : Packets[n].order = order_id /\ n \notin dropped =>
        Packets[n].time >= t \/ Available(order_id) # {}

-----------------------------------------------------------------------------

\* The top of the loop: is the expected packet there?
FindExpected ==
    /\ spc = "loop"
    /\ \/ \E b \in Available(order_id) :
            /\ idx' = b /\ plen' = tx_length[b] /\ time' = meta[b].time
            /\ zeros' = (meta[b].time - now) \div SppSize
            /\ spc' = "zeros"
       \/ /\ Available(order_id) = {} /\ InTime(now + SppSize) /\ now + SppSize <= LastTime
          /\ spc' = "silent"
          /\ UNCHANGED <<idx, plen, time, zeros>>
    /\ UNCHANGED <<pool_vars, order_id, offset, this, pcnt, now, spp, chunks>>

\* Without a packet the thread writes zeros.
WriteSilence ==
    /\ spc = "silent"
    /\ now' = now + SppSize
    /\ spc' = "loop"
    /\ UNCHANGED <<pool_vars, order_id, idx, plen, time, zeros, offset, this, pcnt, spp, chunks>>

\* Zeros up to the spp in which the packet begins ...
WriteZeros ==
    /\ spc = "zeros"
    /\ IF zeros > 0
       THEN /\ now' = now + SppSize /\ zeros' = zeros - 1
            /\ UNCHANGED <<spc, offset, pcnt>>
       ELSE /\ offset' = time - now /\ pcnt' = 0
            /\ spc' = "samples"
            /\ UNCHANGED <<now, zeros>>
    /\ UNCHANGED <<pool_vars, order_id, idx, plen, time, this, spp, chunks>>

\* ... and then its samples, as many as fit.  With the last ones the buffer is
\* released.
PutSamples ==
    LET k == IF plen - pcnt < SppSize - offset THEN plen - pcnt ELSE SppSize - offset IN
    /\ spc = "samples"
    /\ Written(idx, pcnt + k)
    /\ spp' = Append(spp, Chunk(idx, pcnt, pcnt + k, now + offset))
    /\ this' = k /\ pcnt' = pcnt + k
    /\ IF pcnt + k = plen
       THEN Release(idx) /\ spc' = "uncount"
       ELSE UNCHANGED <<locks, streams>> /\ spc' = "write"
    /\ UNCHANGED <<new_cnt, asleep, workers, order_id, idx, plen, time, zeros, offset, now, chunks>>

SubtractCount ==
    /\ spc = "uncount"
    /\ new_cnt' = new_cnt - 1
    /\ spc' = "order"
    /\ UNCHANGED <<locks, streams, asleep, workers, order_id, idx, plen, time, zeros, offset, this,
                   pcnt, now, spp, chunks>>

\* The next id is read from the buffer that was just released.  If the packet
\* ends within the spp, another one may begin in it.
FollowingId == IF meta[idx].next < 0 THEN order_id + 1 ELSE meta[idx].next

Order ==
    /\ spc = "order"
    /\ order_id' = FollowingId
    /\ spc' = IF offset + this < SppSize THEN "ahead" ELSE "write"
    /\ UNCHANGED <<pool_vars, idx, plen, time, zeros, offset, this, pcnt, now, spp, chunks>>

\* If the next packet is there, its length and time become the current ones,
\* also when it begins in a later spp.
Begins_Never(b) == FALSE
Begins(b) == meta[b].time < now + SppSize

LookAheadInSpp ==
    /\ spc = "ahead" /\ InTime(now + SppSize)
    /\ \/ \E b \in Available(order_id) :
            /\ idx' = b /\ plen' = tx_length[b] /\ time' = meta[b].time
            /\ IF Begins(b)
               THEN pcnt' = 0 /\ offset' = meta[b].time - now /\ spc' = "joined"
               ELSE spc' = "write" /\ UNCHANGED <<pcnt, offset>>
       \/ /\ Available(order_id) = {}
          /\ idx' = None /\ spc' = "write"
          /\ UNCHANGED <<plen, time, pcnt, offset>>
    /\ UNCHANGED <<pool_vars, order_id, zeros, this, now, spp, chunks>>

\* The first samples of the packet that joined the spp.
PutJoined ==
    LET k == SppSize - offset IN
    /\ spc = "joined"
    /\ Written(idx, k)
    /\ spp' = Append(spp, Chunk(idx, 0, k, now + offset))
    /\ this' = k /\ pcnt' = k
    /\ spc' = "write"
    /\ UNCHANGED <<pool_vars, order_id, idx, plen, time, zeros, offset, now, chunks>>

\* The spp goes into the virtual space.  The packet goes on as long as the counter
\* is below the length.
WriteSpp ==
    /\ spc = "write"
    /\ chunks' = chunks \o spp /\ spp' = <<>>
    /\ now' = now + SppSize /\ offset' = 0
    /\ spc' = IF pcnt < plen THEN "samples" ELSE "loop"
    /\ UNCHANGED <<pool_vars, order_id, idx, plen, time, zeros, this, pcnt>>

-----------------------------------------------------------------------------

WorkTx ==
    \/ FindExpected \/ WriteSilence \/ WriteZeros
    \/ PutSamples \/ SubtractCount \/ Order \/ LookAheadInSpp \/ PutJoined \/ WriteSpp

\* The firmware asks for a packet ahead of its time.
AskForPacket(w) ==
    /\ taken < Len(Packets) /\ Packets[taken + 1].time >= now + Turnaround
    /\ Take(w) /\ UNCHANGED spp_vars

KeepGenerating(w) == Generate(w) /\ UNCHANGED spp_vars

Over == now + SppSize > LastTime /\ spc = "loop" /\ UNCHANGED simulator_vars

SimulatorNext ==
    \/ WorkTx
    \/ \E w \in Worker : AskForPacket(w) \/ KeepGenerating(w)
    \/ Over

SimulatorSpec == SimulatorInit /\ [][SimulatorNext]_simulator_vars

-----------------------------------------------------------------------------
(* Properties *)

EndOf(c) == c.at + (c.to - c.from)

\* A packet goes on at the sample, and at the instant, at which it was left.
GoesOn(prev, c) == c.packet = prev.packet /\ c.from = prev.to /\ c.at = EndOf(prev)

\* The next one is the one expected, and starts with its first sample at its time ...
Starts(c) == c.from = 0 /\ c.at = Packets[c.packet].time

\* ... unless it was looked up while the one before ended within an spp, and begins
\* in a later one.  Its length then replaces the other's and the counter is not reset
\* (hw_simulator.cpp:507): a longer packet goes on where the one before ended, from
\* its middle, with the next spp and too early.
CutOff(prev, c) ==
    /\ c.from = Packets[prev.packet].len /\ c.from < Packets[c.packet].len
    /\ EndOf(prev) < c.at /\ c.at < EndOf(prev) + SppSize /\ c.at <= Packets[c.packet].time

AsAskedOrCut(s) ==
    \A i \in DOMAIN s :
        LET c == s[i] IN
        /\ c.packet # 0
        /\ IF i = 1 THEN Packets[c.packet].order = 0 /\ Starts(c)
           ELSE LET prev == s[i - 1] IN
                IF prev.to < Packets[prev.packet].len THEN GoesOn(prev, c)
                ELSE /\ Packets[c.packet].order = Follower(prev.packet)
                     /\ Starts(c) \/ CutOff(prev, c)

\* What enters the virtual space is what the firmware asked for: packets in its order,
\* at their times, every sample once and generated before, but for packets that are cut.
WrittenAsAskedOrCut == AsAskedOrCut(chunks)

\* "We now keep transmitting zeros until the packets starts, and then we transmit the
\* actual samples" (hw_simulator.cpp:368): every sample is written at its time.  It is
\* not when a packet is cut.
WrittenOnTime ==
    \A i \in DOMAIN chunks : chunks[i].at = Packets[chunks[i].packet].time + chunks[i].from

\* Plans of all firmware of the repository: ids follow one another, and packets do not
\* overlap.
End(n) == Packets[n].time + Packets[n].len

Planned ==
    \A n \in Packet :
        /\ Packets[n].order = n - 1 /\ Packets[n].next = None
        /\ n + 1 \in Packet => Packets[n + 1].time >= End(n)

=============================================================================
