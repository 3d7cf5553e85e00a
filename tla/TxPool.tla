------------------------------- MODULE TxPool -------------------------------
(***************************************************************************)
(* The TX buffers of one radio (buffer_tx_pool_t, buffer_tx_t) and the     *)
(* worker_tx_rx_t threads that fill them (tx_t).  The thread that empties  *)
(* them belongs to the radio: UsrpTx and SimulatorTx add it.               *)
(*                                                                         *)
(* A buffer is outer-locked from the moment a worker takes it until its    *)
(* last sample has been read, and inner-locked once it is transmittable.   *)
(* That happens before its samples exist: the radio is held back by the    *)
(* number of samples the worker has published.                             *)
(*                                                                         *)
(* The firmware numbers packets and chooses their times under the token,   *)
(* in the order of Packets; workers generate them concurrently.            *)
(***************************************************************************)
EXTENDS Integers, Sequences, FiniteSets

CONSTANTS
    NofBuffers,   \* nof_buffer_tx
    Worker,       \* threads that generate packets
    Packets,      \* bound: the packets the firmware asks for, a sequence of
                  \* [order, next, time, len], the buffer_tx_meta_t and length
    Symbol        \* samples of an OFDM symbol

Buffer == 0 .. NofBuffers - 1
Packet == 1 .. Len(Packets)

\* No id and no time, -1 in buffer_tx_meta_t.
None == -1

ASSUME PoolAssumption ==
    /\ NofBuffers \in Nat \ {0} /\ IsFiniteSet(Worker) /\ Symbol \in Nat \ {0}
    /\ Packets \in Seq([order : Nat, next : Nat \cup {None}, time : Nat, len : Nat \ {0}])
    /\ \A m, n \in Packet : m # n => Packets[m].order # Packets[n].order
    /\ \A n \in Packet : Packets[n].next # Packets[n].order

VARIABLES
    outer, inner,  \* locks of lockable_outer_inner_t
    tx_length,     \* [Buffer -> Nat], tx_length_samples
    tx_cnt,        \* [Buffer -> Nat], tx_length_samples_cnt
    meta,          \* [Buffer -> buffer_tx_meta_t]
    content,       \* what is in ant_streams: the first samples of a packet
    new_cnt,       \* tx_new_packet_cnt
    asleep,        \* the TX thread waits for tx_new_packet_cv
    pc, packet, buffer, written,  \* of each worker
    taken,         \* packets the firmware has asked for
    dropped        \* history: packets without a buffer

locks      == <<outer, inner>>
streams    == <<tx_length, tx_cnt, meta, content>>
workers    == <<pc, packet, buffer, written, taken, dropped>>
pool_vars  == <<locks, streams, new_cnt, asleep, workers>>

Meta(n)      == [order |-> Packets[n].order, next |-> Packets[n].next, time |-> Packets[n].time]
Content(n, k) == [packet |-> n, samples |-> k]

PoolTypeOK ==
    /\ outer \in [Buffer -> BOOLEAN] /\ inner \in [Buffer -> BOOLEAN]
    /\ tx_length \in [Buffer -> Nat] /\ tx_cnt \in [Buffer -> Nat]
    /\ meta \in [Buffer -> [order : Nat \cup {None}, next : Nat \cup {None}, time : Nat \cup {None}]]
    /\ content \in [Buffer -> [packet : Packet \cup {0}, samples : Nat]]
    /\ new_cnt \in Int /\ asleep \in BOOLEAN
    /\ pc \in [Worker -> {"idle", "scan", "announce", "count", "notify", "fill", "publish"}]
    /\ packet \in [Worker -> Packet \cup {0}] /\ buffer \in [Worker -> Buffer]
    /\ written \in [Worker -> Nat]
    /\ taken \in 0 .. Len(Packets) /\ dropped \subseteq Packet

PoolInit ==
    /\ outer = [b \in Buffer |-> FALSE] /\ inner = [b \in Buffer |-> FALSE]
    /\ tx_length = [b \in Buffer |-> 0] /\ tx_cnt = [b \in Buffer |-> 0]
    /\ meta = [b \in Buffer |-> [order |-> None, next |-> None, time |-> None]]
    /\ content = [b \in Buffer |-> Content(0, 0)]
    /\ new_cnt = 0 /\ asleep = FALSE
    /\ pc = [w \in Worker |-> "idle"] /\ packet = [w \in Worker |-> 0]
    /\ buffer = [w \in Worker |-> 0] /\ written = [w \in Worker |-> 0]
    /\ taken = 0 /\ dropped = {}

Goto(w, l) == pc' = [pc EXCEPT ![w] = l]

-----------------------------------------------------------------------------
(* Workers *)

\* The firmware returned a tx_descriptor_t with the next id.
Take(w) ==
    /\ pc[w] = "idle" /\ taken < Len(Packets)
    /\ taken' = taken + 1
    /\ packet' = [packet EXCEPT ![w] = taken + 1]
    /\ buffer' = [buffer EXCEPT ![w] = 0]
    /\ written' = [written EXCEPT ![w] = 0]
    /\ Goto(w, "scan")
    /\ UNCHANGED <<locks, streams, new_cnt, asleep, dropped>>

\* One try_lock_outer() of get_buffer_tx_to_fill(), which goes over each buffer
\* once.  With a buffer the worker goes on to get_ant_streams().  Without one
\* the packet is dropped and its id is never transmitted; a build with assertions
\* ends the program there.
TryLock(w) ==
    /\ pc[w] = "scan"
    /\ LET b == buffer[w] IN
       IF ~outer[b]
       THEN /\ outer' = [outer EXCEPT ![b] = TRUE]
            /\ tx_length' = [tx_length EXCEPT ![b] = Packets[packet[w]].len]
            /\ content' = [content EXCEPT ![b] = Content(packet[w], 0)]
            /\ Goto(w, "announce")
            /\ UNCHANGED <<buffer, dropped>>
       ELSE /\ IF b + 1 < NofBuffers
               THEN buffer' = [buffer EXCEPT ![w] = b + 1] /\ UNCHANGED <<pc, dropped>>
               ELSE dropped' = dropped \cup {packet[w]} /\ Goto(w, "idle") /\ UNCHANGED buffer
            /\ UNCHANGED <<outer, tx_length, content>>
    /\ UNCHANGED <<inner, tx_cnt, meta, new_cnt, asleep, packet, written, taken>>

\* set_transmittable(): the meta data, then lock_inner() ...
Announce(w) ==
    /\ pc[w] = "announce"
    /\ meta' = [meta EXCEPT ![buffer[w]] = Meta(packet[w])]
    /\ inner' = [inner EXCEPT ![buffer[w]] = TRUE]
    /\ Goto(w, "count")
    /\ UNCHANGED <<outer, tx_length, tx_cnt, content, new_cnt, asleep, packet, buffer, written,
                   taken, dropped>>

\* ... then the counter, under the mutex ...
Count(w) ==
    /\ pc[w] = "count"
    /\ new_cnt' = new_cnt + 1
    /\ Goto(w, "notify")
    /\ UNCHANGED <<locks, streams, asleep, packet, buffer, written, taken, dropped>>

\* ... and then notify_all(), without it.
Notify(w) ==
    /\ pc[w] = "notify"
    /\ asleep' = FALSE
    /\ Goto(w, "fill")
    /\ UNCHANGED <<locks, streams, new_cnt, packet, buffer, written, taken, dropped>>

\* Symbol by symbol, the guard interval of at least one sample comes last.
Progress(k, len) == IF k >= len - 1 THEN len ELSE IF k + Symbol < len THEN k + Symbol ELSE len - 1

Fill(w) ==
    /\ pc[w] = "fill"
    /\ LET k == Progress(written[w], Packets[packet[w]].len) IN
       /\ written' = [written EXCEPT ![w] = k]
       /\ content' = [content EXCEPT ![buffer[w]] = Content(packet[w], k)]
    /\ Goto(w, "publish")
    /\ UNCHANGED <<locks, tx_length, tx_cnt, meta, new_cnt, asleep, packet, buffer, taken, dropped>>

\* set_tx_length_samples_cnt(), the last time with the full length.
Publish(w) ==
    /\ pc[w] = "publish"
    /\ tx_cnt' = [tx_cnt EXCEPT ![buffer[w]] = written[w]]
    /\ Goto(w, IF written[w] = Packets[packet[w]].len THEN "idle" ELSE "fill")
    /\ UNCHANGED <<locks, tx_length, meta, content, new_cnt, asleep, packet, buffer, written, taken,
                   dropped>>

\* A worker that generates a packet goes on.
Generate(w) == TryLock(w) \/ Announce(w) \/ Count(w) \/ Notify(w) \/ Fill(w) \/ Publish(w)

-----------------------------------------------------------------------------
(* For the TX thread of the radio *)

\* get_specific_tx_order_id_if_available()
Available(order) == {b \in Buffer : inner[b] /\ meta[b].order = order}

\* wait_for_samples_busy_nto() returns.
Written(b, k) == tx_cnt[b] >= k

\* set_transmitted_or_abort() up to unlock_outer(), the counter follows.  The
\* next expected id remains in the meta data.
Release(b) ==
    /\ tx_length' = [tx_length EXCEPT ![b] = 0]
    /\ tx_cnt' = [tx_cnt EXCEPT ![b] = 0]
    /\ meta' = [meta EXCEPT ![b].order = None, ![b].time = None]
    /\ inner' = [inner EXCEPT ![b] = FALSE]
    /\ outer' = [outer EXCEPT ![b] = FALSE]
    /\ UNCHANGED content

\* Samples from .. to - 1 of buffer b leave the radio at time "at".  Samples
\* that were not written are nobody's, packet 0.
Chunk(b, from, to, at) ==
    [packet |-> IF content[b].samples >= to THEN content[b].packet ELSE 0,
     from |-> from, to |-> to, at |-> at]

\* The id the firmware wants to follow packet n.
Follower(n) == IF Packets[n].next = None THEN Packets[n].order + 1 ELSE Packets[n].next

-----------------------------------------------------------------------------
(* Properties of the pool, whatever the radio *)

=============================================================================
