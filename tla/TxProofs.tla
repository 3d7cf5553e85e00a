------------------------------ MODULE TxProofs ------------------------------
(***************************************************************************)
(* The TX threads of both radios, for every number of buffers, workers and *)
(* packets.  The thread of the USRP radio never sleeps through the packet  *)
(* it waits for, and what it sends is what the firmware asked for; the     *)
(* thread of the simulated radio writes what the firmware asked for, at    *)
(* its time.                                                               *)
(*                                                                         *)
(* The first argument counts: tx_new_packet_cnt is the number of buffers   *)
(* that are transmittable, less those whose worker has not counted yet,    *)
(* and one more while the TX thread is about to subtract a buffer it has   *)
(* released.  So a counter equal to the reference zero, with a packet      *)
(* there, leaves a worker about to count; later references only grow.      *)
(***************************************************************************)
EXTENDS UsrpTx, SimulatorTx, FiniteSetTheorems, SequenceTheorems, TLAPS

\* Types of the variables that matter.
MetaData == [order : Nat \cup {None}, next : Nat \cup {None}, time : Nat \cup {None}]

PoolTypes ==
    /\ outer \in [Buffer -> BOOLEAN] /\ inner \in [Buffer -> BOOLEAN]
    /\ meta \in [Buffer -> MetaData]
    /\ new_cnt \in Int /\ asleep \in BOOLEAN
    /\ pc \in [Worker -> {"idle", "scan", "announce", "count", "notify", "fill", "publish"}]
    /\ packet \in [Worker -> Packet \cup {0}] /\ buffer \in [Worker -> Buffer]
    /\ taken \in 0 .. Len(Packets)

ThreadTypes ==
    /\ tpc \in Tpc /\ expected \in Int /\ ref \in Int
    /\ current \in Buffer /\ next_buffer \in Buffer \cup {None}

Types == PoolTypes /\ ThreadTypes

\* Who owns a buffer: a worker until it announces it, then the radio.
Owners ==
    /\ \A b \in Buffer : inner[b] => outer[b] /\ \E n \in Packet : meta[b] = Meta(n)
    /\ \A w \in Worker : pc[w] = "announce" => outer[buffer[w]] /\ ~inner[buffer[w]]
    /\ \A v, w \in Worker : v # w /\ pc[v] = "announce" /\ pc[w] = "announce" =>
           buffer[v] # buffer[w]
    /\ \A w \in Worker : pc[w] # "idle" => packet[w] \in Packet

\* The buffers the TX thread holds are transmittable, and the next one is another one.
Holds ==
    /\ tpc \in {"burst", "packet", "send", "final", "release"} => inner[current]
    /\ tpc \in {"burst", "packet"} => meta[current].order = expected
    /\ tpc \in {"send", "final", "release"} => meta[current].order # expected
    /\ next_buffer # None => /\ tpc \in {"final", "release", "uncount"}
                             /\ inner[next_buffer] /\ meta[next_buffer].order = expected

Transmittable == {b \in Buffer : inner[b]}
Uncounted     == {w \in Worker : pc[w] = "count"}
Released      == IF tpc = "uncount" THEN 1 ELSE 0

Counted == new_cnt = Cardinality(Transmittable) - Cardinality(Uncounted) + Released

Waiting ==
    /\ asleep => tpc = "wait"
    /\ tpc = "wait" => ref <= new_cnt
    /\ asleep /\ new_cnt # ref => \E w \in Worker : pc[w] = "notify"
    /\ tpc = "wait" /\ new_cnt = ref /\ Available(expected) # {} => Uncounted # {}

IInv == Types /\ Owners /\ Holds /\ Counted /\ Waiting

-----------------------------------------------------------------------------

\* What a packet's meta data are.
LEMMA MetaType ==
    ASSUME PoolAssumption, NEW n \in Packet
    PROVE  /\ Meta(n) \in MetaData
           /\ Meta(n).order = Packets[n].order /\ Meta(n).next = Packets[n].next
           /\ Meta(n).order \in Nat /\ Meta(n).next \in Nat \cup {None}
<1> DEFINE Record == [order : Nat, next : Nat \cup {None}, time : Nat, len : Nat \ {0}]
<1>1. Packets \in Seq(Record) /\ n \in 1 .. Len(Packets)
  BY DEF PoolAssumption, Packet
<1>2. Packets[n] \in Record
  <2> HIDE DEF Record
  <2> QED  BY <1>1
<1> QED  BY <1>2 DEF Meta, MetaData

\* The sets that are counted are finite.
LEMMA Finite ==
    ASSUME PoolAssumption, Types
    PROVE  /\ IsFiniteSet(Transmittable) /\ Cardinality(Transmittable) \in Nat
           /\ IsFiniteSet(Uncounted) /\ Cardinality(Uncounted) \in Nat
<1>1. IsFiniteSet(Buffer)
  BY FS_Interval DEF Buffer, PoolAssumption
<1>2. IsFiniteSet(Transmittable)
  BY <1>1, FS_Subset DEF Transmittable
<1>3. IsFiniteSet(Uncounted)
  BY FS_Subset DEF Uncounted, PoolAssumption
<1> QED  BY <1>2, <1>3, FS_CardinalityType

\* Initially nothing is transmittable and nobody waits.
LEMMA InitIInv == ASSUME PoolAssumption, Init PROVE IInv
<1> USE DEF Init, PoolInit
<1>1. Types
  <2>1. 0 \in Buffer
    BY DEF Buffer, PoolAssumption
  <2>2. taken \in 0 .. Len(Packets)
    BY DEF PoolAssumption
  <2>3. meta \in [Buffer -> MetaData]
    BY DEF MetaData, None
  <2>4. outer \in [Buffer -> BOOLEAN] /\ inner \in [Buffer -> BOOLEAN]
    OBVIOUS
  <2>5. /\ pc \in [Worker -> {"idle", "scan", "announce", "count", "notify", "fill", "publish"}]
        /\ packet \in [Worker -> Packet \cup {0}] /\ buffer \in [Worker -> Buffer]
    BY <2>1
  <2>6. tpc \in Tpc /\ current \in Buffer /\ next_buffer \in Buffer \cup {None}
    BY <2>1 DEF Tpc
  <2>7. new_cnt \in Int /\ expected \in Int /\ ref \in Int
    OBVIOUS
  <2>8. asleep \in BOOLEAN
    OBVIOUS
  <2> QED  BY <2>2, <2>3, <2>4, <2>5, <2>6, <2>7, <2>8 DEF Types, PoolTypes, ThreadTypes
<1>2. Owners /\ Holds
  BY DEF Owners, Holds
<1>3. Transmittable = {} /\ Uncounted = {}
  BY DEF Transmittable, Uncounted
<1>4. Counted
  BY <1>3, FS_EmptySet DEF Counted, Released
<1>5. Waiting
  BY DEF Waiting
<1> QED  BY <1>1, <1>2, <1>4, <1>5 DEF IInv

-----------------------------------------------------------------------------

\* Types are preserved by the workers ...
LEMMA PoolTypesKept ==
    ASSUME PoolAssumption, PoolTypes, Owners, NEW w \in Worker, Take(w) \/ Generate(w)
    PROVE  PoolTypes'
<1> USE DEF PoolTypes, Goto
<1>1. CASE Take(w)
  <2>1. taken + 1 \in Packet /\ taken' \in 0 .. Len(Packets)
    BY <1>1 DEF Take, Packet, PoolAssumption
  <2>2. 0 \in Buffer
    BY DEF Buffer, PoolAssumption
  <2>3. packet' \in [Worker -> Packet \cup {0}] /\ buffer' \in [Worker -> Buffer]
    BY <1>1, <2>1, <2>2 DEF Take
  <2>4. pc' \in [Worker -> {"idle", "scan", "announce", "count", "notify", "fill", "publish"}]
    BY <1>1 DEF Take
  <2> QED  BY <1>1, <2>1, <2>3, <2>4 DEF Take, locks, streams
<1>2. CASE Generate(w)
  <2>1. CASE TryLock(w)
    <3>1. buffer[w] + 1 < NofBuffers => buffer[w] + 1 \in Buffer
      BY DEF Buffer, PoolAssumption
    <3>2. outer' \in [Buffer -> BOOLEAN] /\ buffer' \in [Worker -> Buffer]
      BY <2>1, <3>1 DEF TryLock
    <3>3. pc' \in [Worker -> {"idle", "scan", "announce", "count", "notify", "fill", "publish"}]
      BY <2>1, ZenonT(60) DEF TryLock
    <3> QED  BY <1>2, <2>1, <3>2, <3>3 DEF TryLock
  <2>2. CASE Announce(w)
    <3>1. packet[w] \in Packet
      BY <2>2 DEF Announce, Owners
    <3>2. Meta(packet[w]) \in MetaData
      BY <3>1, MetaType
    <3>3. meta' \in [Buffer -> MetaData] /\ inner' \in [Buffer -> BOOLEAN]
      BY <2>2, <3>2 DEF Announce
    <3> QED  BY <1>2, <2>2, <3>3 DEF Announce
  <2>3. CASE Count(w)
    BY <1>2, <2>3 DEF Count, locks, streams
  <2>4. CASE Notify(w)
    BY <1>2, <2>4 DEF Notify, locks, streams
  <2>5. CASE Fill(w)
    BY <1>2, <2>5 DEF Fill, locks
  <2>6. CASE Publish(w)
    BY <1>2, <2>6 DEF Publish, locks
  <2> QED  BY <1>2, <2>1, <2>2, <2>3, <2>4, <2>5, <2>6 DEF Generate
<1> QED  BY <1>1, <1>2

\* A release resets the meta data but for the next id.
LEMMA ReleaseTypes ==
    ASSUME PoolTypes, NEW r \in Buffer, Release(r), new_cnt' \in Int, asleep' \in BOOLEAN,
           UNCHANGED workers
    PROVE  PoolTypes'
<1> USE DEF PoolTypes
<1>1. meta[r] \in MetaData
  OBVIOUS
<1>2. [meta[r] EXCEPT !.order = None, !.time = None] \in MetaData
  BY <1>1 DEF MetaData
<1>3. \A b \in Buffer : meta'[b] = meta[b] \/ meta'[b] \in MetaData
  BY <1>2 DEF Release
<1> QED  BY <1>3 DEF Release, workers

LEMMA WorkerTypes ==
    ASSUME PoolAssumption, Types, Owners, NEW w \in Worker, TakePacket(w) \/ GeneratePacket(w)
    PROVE  Types'
<1>1. PoolTypes'
  BY PoolTypesKept DEF Types, TakePacket, GeneratePacket
<1> QED  BY <1>1 DEF Types, ThreadTypes, TakePacket, GeneratePacket, radio_vars

\* ... and by the TX thread and the main thread.
LEMMA RadioTypes ==
    ASSUME PoolAssumption, Types, Owners, Holds,
           TxStep \/ Timeout \/ Stop \/ UNCHANGED vars
    PROVE  Types'
<1> USE DEF Types, PoolTypes, ThreadTypes, pool_vars, locks, streams, workers, Tpc
<1>1. CASE Search
  BY <1>1 DEF Search, Begin, Available
<1>2. CASE Enter \/ WakeUp
  <2>1. PICK r \in {0, ref} : WaitWith(r)
    BY <1>2 DEF Enter, WakeUp, FirstReference
  <2>2. ref' \in Int /\ current' \in Buffer /\ tpc' \in Tpc /\ asleep' \in BOOLEAN
    BY <2>1 DEF WaitWith, Begin, Available
  <2> QED  BY <1>2, <2>2 DEF Enter, WakeUp
<1>3. CASE Timeout
  BY <1>3 DEF Timeout
<1>4. CASE StartOfBurst
  BY <1>4 DEF StartOfBurst
<1>5. CASE StartOfPacket
  <2>1. NextExpected(current) \in Int
    <3>1. meta[current] \in MetaData
      OBVIOUS
    <3> QED  BY <3>1 DEF NextExpected, MetaData, None
  <2> QED  BY <1>5, <2>1 DEF StartOfPacket
<1>6. CASE SendSpp
  BY <1>6 DEF SendSpp
<1>7. CASE LookAhead
  BY <1>7 DEF LookAhead, Available
<1>8. CASE SendFinal
  BY <1>8 DEF SendFinal
<1>9. CASE ReleaseBuffer
  <2>1. PoolTypes'
    BY <1>9, ReleaseTypes DEF ReleaseBuffer
  <2> QED  BY <1>9, <2>1 DEF ReleaseBuffer
<1>10. CASE Uncount
  BY <1>10 DEF Uncount
<1>11. CASE Exit
  BY <1>11 DEF Exit
<1>12. CASE Stop
  BY <1>12 DEF Stop
<1>13. CASE UNCHANGED vars
  BY <1>13 DEF vars, radio_vars
<1> QED  BY <1>1, <1>2, <1>3, <1>4, <1>5, <1>6, <1>7, <1>8, <1>9, <1>10, <1>11, <1>12, <1>13
         DEF TxStep

-----------------------------------------------------------------------------

\* Buffers change hands: a worker takes an unlocked one and announces it.  What the
\* radio has found transmittable remains so.
LEMMA OwnersKept ==
    ASSUME PoolAssumption, PoolTypes, Owners, NEW w \in Worker, Take(w) \/ Generate(w)
    PROVE  Owners' /\ \A c \in Buffer : inner[c] => inner'[c] /\ meta'[c] = meta[c]
<1> USE DEF PoolTypes, Owners, Goto
<1>1. CASE Take(w)
  <2>1. taken + 1 \in Packet
    BY <1>1 DEF Take, Packet, PoolAssumption
  <2> QED  BY <1>1, <2>1, SMTT(60) DEF Take, locks, streams
<1>2. CASE TryLock(w)
  <2>1. inner' = inner /\ meta' = meta /\ packet' = packet
    BY <1>2 DEF TryLock
  <2>2. /\ \A b \in Buffer : outer[b] => outer'[b]
        /\ \A v \in Worker : v # w => pc'[v] = pc[v] /\ buffer'[v] = buffer[v]
        /\ pc[w] = "scan"
        /\ pc'[w] = "announce" => ~outer[buffer[w]] /\ outer'[buffer[w]] /\ buffer'[w] = buffer[w]
    BY <1>2 DEF TryLock
  <2>3. \A v \in Worker : pc'[v] = "announce" => outer'[buffer'[v]] /\ ~inner'[buffer'[v]]
    BY <2>1, <2>2, ZenonT(60)
  <2>4. \A v, u \in Worker : v # u /\ pc'[v] = "announce" /\ pc'[u] = "announce" =>
            buffer'[v] # buffer'[u]
    BY <2>1, <2>2
  <2>5. \A v \in Worker : pc'[v] # "idle" => packet'[v] \in Packet
    BY <2>1, <2>2
  <2>6. Owners'
    BY <2>1, <2>2, <2>3, <2>4, <2>5
  <2> QED  BY <2>1, <2>6
<1>3. CASE Announce(w)
  <2> DEFINE b == buffer[w]
  <2>1. b \in Buffer /\ ~inner[b] /\ outer[b] /\ packet[w] \in Packet
    BY <1>3 DEF Announce
  <2>2. /\ inner' = [inner EXCEPT ![b] = TRUE] /\ meta' = [meta EXCEPT ![b] = Meta(packet[w])]
        /\ pc' = [pc EXCEPT ![w] = "count"]
        /\ UNCHANGED <<outer, buffer, packet>>
    BY <1>3 DEF Announce
  <2>3. Owners'
    <3>1. \A c \in Buffer : inner'[c] => outer'[c] /\ \E n \in Packet : meta'[c] = Meta(n)
      <4>1. \A c \in Buffer : c # b /\ inner'[c] => inner[c] /\ meta'[c] = meta[c]
        BY <2>1, <2>2
      <4>2. meta'[b] = Meta(packet[w])
        BY <2>1, <2>2
      <4> QED  BY <2>1, <2>2, <4>1, <4>2
    <3>2. \A v \in Worker : pc'[v] = "announce" => v # w /\ pc[v] = "announce" /\ buffer[v] # b
      BY <1>3, <2>1, <2>2 DEF Announce
    <3>3. \A v \in Worker : pc'[v] = "announce" => outer'[buffer'[v]] /\ ~inner'[buffer'[v]]
      BY <2>1, <2>2, <3>2
    <3>4. \A v \in Worker : pc'[v] # "idle" => packet'[v] \in Packet
      BY <2>1, <2>2
    <3> HIDE DEF b
    <3> QED  BY <2>2, <3>1, <3>2, <3>3, <3>4
  <2> QED  BY <2>1, <2>2, <2>3
<1>4. CASE Count(w)
  BY <1>4 DEF Count, locks, streams
<1>5. CASE Notify(w)
  BY <1>5 DEF Notify, locks, streams
<1>6. CASE Fill(w)
  BY <1>6, SMTT(60) DEF Fill, locks
<1>7. CASE Publish(w)
  BY <1>7, SMTT(60) DEF Publish, locks
<1> QED  BY <1>1, <1>2, <1>3, <1>4, <1>5, <1>6, <1>7 DEF Generate

LEMMA WorkerOwners ==
    ASSUME PoolAssumption, Types, Owners, Holds, NEW w \in Worker,
           TakePacket(w) \/ GeneratePacket(w)
    PROVE  Owners' /\ Holds'
<1>1. Owners' /\ \A c \in Buffer : inner[c] => inner'[c] /\ meta'[c] = meta[c]
  BY OwnersKept DEF Types, TakePacket, GeneratePacket
<1>2. UNCHANGED <<tpc, current, next_buffer, expected>>
  BY DEF TakePacket, GeneratePacket, radio_vars
<1>3. current \in Buffer /\ next_buffer \in Buffer \cup {None}
  BY DEF Types, ThreadTypes
<1> QED  BY <1>1, <1>2, <1>3 DEF Holds

\* A transmittable buffer is released.
LEMMA ReleaseOwners ==
    ASSUME PoolTypes, Owners, NEW r \in Buffer, inner[r], Release(r), UNCHANGED workers
    PROVE  Owners'
<1> USE DEF PoolTypes
<1>2. /\ inner' = [inner EXCEPT ![r] = FALSE] /\ outer' = [outer EXCEPT ![r] = FALSE]
      /\ \A b \in Buffer : b # r => meta'[b] = meta[b]
      /\ UNCHANGED <<pc, buffer, packet>>
  BY DEF Release, workers
<1>3. \A b \in Buffer : inner'[b] => b # r /\ inner[b] /\ outer'[b] = outer[b]
  BY <1>2
<1>4. ASSUME NEW b \in Buffer, inner'[b]
      PROVE  outer'[b] /\ \E n \in Packet : meta'[b] = Meta(n)
  <2>1. b # r /\ inner[b] /\ outer'[b] = outer[b] /\ meta'[b] = meta[b]
    BY <1>2, <1>3, <1>4
  <2>2. PICK n \in Packet : meta[b] = Meta(n)
    BY <2>1 DEF Owners
  <2> QED  BY <2>1, <2>2 DEF Owners
<1>5. \A w \in Worker : pc'[w] = "announce" => outer'[buffer'[w]] /\ ~inner'[buffer'[w]]
  BY <1>2 DEF Owners
<1>6. /\ \A v, w \in Worker : v # w /\ pc'[v] = "announce" /\ pc'[w] = "announce" =>
             buffer'[v] # buffer'[w]
      /\ \A w \in Worker : pc'[w] # "idle" => packet'[w] \in Packet
  BY <1>2 DEF Owners
<1> QED  BY <1>4, <1>5, <1>6 DEF Owners

\* The TX thread only holds what it has found transmittable, until it releases it.
LEMMA RadioOwners ==
    ASSUME PoolAssumption, Types, Owners, Holds,
           TxStep \/ Timeout \/ Stop \/ UNCHANGED vars
    PROVE  Owners' /\ Holds'
<1> USE DEF pool_vars, locks, streams, workers
<1>1. CASE Search
  BY <1>1 DEF Search, Begin, Available, Owners, Holds, Types, PoolTypes, ThreadTypes
<1>2. CASE Enter \/ WakeUp
  <2>1. PICK r : WaitWith(r)
    BY <1>2 DEF Enter, WakeUp
  <2>2. next_buffer = None
    BY <1>2 DEF Enter, WakeUp, Holds
  <2> QED  BY <1>2, <2>1, <2>2 DEF Enter, WakeUp, WaitWith, Begin, Available, Owners, Holds, Types, PoolTypes, ThreadTypes
<1>3. CASE Timeout
  BY <1>3 DEF Timeout, Owners, Holds
<1>4. CASE StartOfBurst
  BY <1>4 DEF StartOfBurst, Owners, Holds
<1>5. CASE StartOfPacket
  <2>1. PICK n \in Packet : meta[current] = Meta(n)
    BY <1>5 DEF StartOfPacket, Owners, Holds, Types, PoolTypes, ThreadTypes
  <2>2. /\ Meta(n).order = expected /\ Meta(n).next # Meta(n).order
        /\ Meta(n).order \in Nat /\ Meta(n).next \in Nat \cup {None}
    BY <1>5, <2>1, MetaType DEF StartOfPacket, Holds, PoolAssumption
  <2>3. meta[current].order # NextExpected(current)
    BY <2>1, <2>2 DEF NextExpected, None
  <2>4. next_buffer = None
    BY <1>5 DEF StartOfPacket, Holds
  <2> QED  BY <1>5, <2>3, <2>4 DEF StartOfPacket, Owners, Holds
<1>6. CASE SendSpp
  BY <1>6 DEF SendSpp, Owners, Holds
<1>7. CASE LookAhead
  BY <1>7 DEF LookAhead, Available, Owners, Holds, Types, PoolTypes, ThreadTypes
<1>8. CASE SendFinal
  BY <1>8 DEF SendFinal, Owners, Holds
<1>9. CASE ReleaseBuffer
  <2>1. inner[current] /\ current \in Buffer
    BY <1>9 DEF ReleaseBuffer, Holds, Types, PoolTypes, ThreadTypes
  <2>2. /\ inner' = [inner EXCEPT ![current] = FALSE]
        /\ outer' = [outer EXCEPT ![current] = FALSE]
        /\ \A b \in Buffer : b # current => meta'[b] = meta[b]
        /\ UNCHANGED <<pc, buffer, packet, next_buffer, expected, current>> /\ tpc' = "uncount"
    BY <1>9 DEF ReleaseBuffer, Release, Types, PoolTypes, ThreadTypes
  <2>3. Owners'
    BY <1>9, <2>1, ReleaseOwners DEF Types, ReleaseBuffer
  <2>4. next_buffer # None => next_buffer \in Buffer /\ next_buffer # current
    BY <1>9 DEF ReleaseBuffer, Holds, Types, PoolTypes, ThreadTypes
  <2>5. Holds'
    BY <2>2, <2>4 DEF Holds, Types, PoolTypes, ThreadTypes
  <2> QED  BY <2>3, <2>5
<1>10. CASE Uncount
  BY <1>10 DEF Uncount, Owners, Holds
<1>11. CASE Exit
  BY <1>11 DEF Exit, Owners, Holds
<1>12. CASE Stop
  BY <1>12 DEF Stop, Owners, Holds
<1>13. CASE UNCHANGED vars
  BY <1>13 DEF vars, radio_vars, Owners, Holds
<1> QED  BY <1>1, <1>2, <1>3, <1>4, <1>5, <1>6, <1>7, <1>8, <1>9, <1>10, <1>11, <1>12, <1>13
         DEF TxStep

-----------------------------------------------------------------------------

\* The counter follows the transmittable buffers: up behind the workers, down
\* behind the TX thread.
LEMMA CountedInv ==
    ASSUME PoolAssumption, Types, Owners, Holds, Counted, Next \/ UNCHANGED vars
    PROVE  Counted'
<1> USE DEF Types, PoolTypes, ThreadTypes
<1>1. ASSUME NEW w \in Worker, TakePacket(w) \/ GeneratePacket(w)
      PROVE  Counted'
  <2>1. tpc' = tpc
    BY <1>1 DEF TakePacket, GeneratePacket, radio_vars
  <2>2. CASE keep_running /\ Announce(w)
    <3>1. buffer[w] \in Buffer /\ buffer[w] \notin Transmittable /\ w \notin Uncounted
      BY <2>2 DEF Announce, Owners, Transmittable, Uncounted
    <3>2. Transmittable' = Transmittable \cup {buffer[w]}
      BY <2>2, <3>1 DEF Announce, Transmittable
    <3>3. Uncounted' = Uncounted \cup {w}
      BY <2>2 DEF Announce, Goto, Uncounted
    <3>4. /\ Cardinality(Transmittable') = Cardinality(Transmittable) + 1
          /\ Cardinality(Uncounted') = Cardinality(Uncounted) + 1
      BY <3>1, <3>2, <3>3, Finite, FS_AddElement
    <3>5. new_cnt' = new_cnt
      BY <2>2 DEF Announce
    <3> QED  BY <2>1, <3>4, <3>5, Finite DEF Counted, Released
  <2>3. CASE keep_running /\ Count(w)
    <3>1. Transmittable' = Transmittable
      BY <2>3 DEF Count, Transmittable, locks
    <3>2. Uncounted' = Uncounted \ {w} /\ w \in Uncounted
      BY <2>3 DEF Count, Goto, Uncounted
    <3>3. Cardinality(Uncounted') = Cardinality(Uncounted) - 1
      BY <3>2, Finite, FS_RemoveElement
    <3>4. new_cnt' = new_cnt + 1
      BY <2>3 DEF Count
    <3> QED  BY <2>1, <3>1, <3>3, <3>4, Finite DEF Counted, Released
  <2>4. CASE Take(w) \/ TryLock(w) \/ Notify(w) \/ Fill(w) \/ Publish(w)
    <3>1. inner' = inner /\ new_cnt' = new_cnt
      BY <2>4 DEF Take, TryLock, Notify, Fill, Publish, locks
    <3>2. \A v \in Worker : pc'[v] = "count" <=> pc[v] = "count"
      BY <2>4, ZenonT(60) DEF Take, TryLock, Notify, Fill, Publish, Goto
    <3>3. Transmittable' = Transmittable /\ Uncounted' = Uncounted
      BY <3>1, <3>2 DEF Transmittable, Uncounted
    <3> QED  BY <2>1, <3>1, <3>3 DEF Counted, Released
  <2> QED  BY <1>1, <2>2, <2>3, <2>4 DEF TakePacket, GeneratePacket, Generate
<1>2. CASE ReleaseBuffer
  <2>1. current \in Transmittable /\ Transmittable' = Transmittable \ {current}
    BY <1>2 DEF ReleaseBuffer, Release, Holds, Transmittable
  <2>2. Cardinality(Transmittable') = Cardinality(Transmittable) - 1
    BY <2>1, Finite, FS_RemoveElement
  <2>3. /\ Uncounted' = Uncounted /\ new_cnt' = new_cnt
        /\ tpc = "release" /\ tpc' = "uncount"
    BY <1>2 DEF ReleaseBuffer, Uncounted, workers
  <2> QED  BY <2>2, <2>3, Finite DEF Counted, Released
<1>3. CASE Uncount
  <2>1. /\ Transmittable' = Transmittable /\ Uncounted' = Uncounted
        /\ new_cnt' = new_cnt - 1 /\ tpc = "uncount" /\ tpc' # "uncount"
    BY <1>3 DEF Uncount, Transmittable, Uncounted, locks, workers
  <2> QED  BY <2>1, Finite DEF Counted, Released
<1>4. CASE \/ Search \/ Enter \/ WakeUp \/ Timeout \/ StartOfBurst \/ StartOfPacket \/ SendSpp
           \/ LookAhead \/ SendFinal \/ Exit \/ Stop \/ UNCHANGED vars
  <2>1. inner' = inner /\ pc' = pc /\ new_cnt' = new_cnt
    BY <1>4 DEF Search, Enter, WakeUp, Timeout, StartOfBurst, StartOfPacket, SendSpp, LookAhead,
                SendFinal, Exit, Stop, vars, pool_vars, locks, workers
  <2>2. tpc = "uncount" <=> tpc' = "uncount"
    BY <1>4 DEF Search, Enter, WakeUp, WaitWith, Begin, Timeout, StartOfBurst, StartOfPacket,
                SendSpp, LookAhead, SendFinal, Exit, Stop, vars, radio_vars
  <2> QED  BY <2>1, <2>2 DEF Counted, Released, Transmittable, Uncounted
<1> QED  BY <1>1, <1>2, <1>3, <1>4 DEF Next, TxStep, Terminated

\* With a packet there and the counter at zero, some worker has not counted.
LEMMA ZeroMeansUncounted ==
    ASSUME PoolAssumption, Types, Counted, tpc # "uncount", new_cnt = 0, Transmittable # {}
    PROVE  Uncounted # {}
<1>1. Cardinality(Transmittable) # 0
  BY Finite, FS_EmptySet
<1>2. Cardinality(Uncounted) # 0
  BY <1>1, Finite DEF Counted, Released
<1> QED  BY <1>2, FS_EmptySet

\* A sleeping TX thread is woken by whoever has not counted or notified yet.
LEMMA WaitingInv ==
    ASSUME PoolAssumption, Types, Owners, Holds, Counted, Waiting, Next \/ UNCHANGED vars
    PROVE  Waiting'
<1> USE DEF Types, PoolTypes, ThreadTypes
<1>1. ASSUME NEW w \in Worker, TakePacket(w) \/ GeneratePacket(w)
      PROVE  Waiting'
  <2> USE DEF Waiting
  <2>1. UNCHANGED <<tpc, ref, expected>>
    BY <1>1 DEF TakePacket, GeneratePacket, radio_vars
  <2>2. CASE Announce(w)
    <3>1. w \in Uncounted' /\ UNCHANGED <<asleep, new_cnt>>
      BY <2>2 DEF Announce, Goto, Uncounted
    <3>2. \A v \in Worker : pc[v] = "notify" => pc'[v] = "notify"
      BY <2>2 DEF Announce, Goto
    <3> QED  BY <2>1, <3>1, <3>2
  <2>3. CASE Count(w)
    <3>1. pc'[w] = "notify" /\ new_cnt' = new_cnt + 1 /\ asleep' = asleep
      BY <2>3 DEF Count, Goto
    <3>2. tpc = "wait" => new_cnt' # ref
      BY <3>1
    <3> QED  BY <2>1, <3>1, <3>2
  <2>4. CASE Notify(w)
    <3>1. asleep' = FALSE /\ UNCHANGED <<new_cnt, inner, meta>>
      BY <2>4 DEF Notify, locks, streams
    <3>2. Uncounted' = Uncounted
      BY <2>4 DEF Notify, Goto, Uncounted
    <3> QED  BY <2>1, <3>1, <3>2 DEF Available
  <2>5. CASE Take(w) \/ TryLock(w) \/ Fill(w) \/ Publish(w)
    <3>1. UNCHANGED <<asleep, new_cnt, inner, meta>>
      BY <2>5 DEF Take, TryLock, Fill, Publish, locks, streams
    <3>2. \A v \in Worker : /\ pc'[v] = "count" <=> pc[v] = "count"
                            /\ pc'[v] = "notify" <=> pc[v] = "notify"
      BY <2>5, ZenonT(60) DEF Take, TryLock, Fill, Publish, Goto
    <3>3. Uncounted' = Uncounted /\ Available(expected)' = Available(expected)
      BY <2>1, <3>1, <3>2 DEF Uncounted, Available
    <3> QED  BY <2>1, <3>1, <3>2, <3>3
  <2> QED  BY <1>1, <2>2, <2>3, <2>4, <2>5 DEF TakePacket, GeneratePacket, Generate
<1>2. ASSUME NEW r \in Int, WaitWith(r), UNCHANGED <<locks, streams, new_cnt, workers, expected>>,
             new_cnt = r /\ Available(expected) # {} => Uncounted # {}, ~asleep
      PROVE  Waiting'
  <2>1. Uncounted' = Uncounted /\ Available(expected)' = Available(expected)
    BY <1>2 DEF Uncounted, Available, workers, locks, streams
  <2>2. new_cnt' = new_cnt /\ new_cnt \in Int
    BY <1>2
  <2>3. CASE new_cnt = r /\ ref' = r /\ asleep' = TRUE /\ tpc' = "wait"
    <3>1. ref' = new_cnt'
      BY <2>2, <2>3
    <3>2. Available(expected)' # {} => Uncounted' # {}
      BY <1>2, <2>1, <2>3
    <3> QED  BY <2>2, <2>3, <3>1, <3>2 DEF Waiting
  <2>4. CASE Available(expected) = {} /\ ref' = new_cnt /\ asleep' = TRUE /\ tpc' = "wait"
    <3>1. ref' = new_cnt' /\ Available(expected)' = {}
      BY <2>1, <2>2, <2>4
    <3> QED  BY <2>2, <2>4, <3>1 DEF Waiting
  <2>5. CASE tpc' = "burst" /\ asleep' = asleep
    BY <1>2, <2>5 DEF Waiting
  <2> QED  BY <1>2, <2>3, <2>4, <2>5 DEF WaitWith, Begin
<1>3. CASE Enter
  <2>1. new_cnt = 0 /\ Available(expected) # {} => Uncounted # {}
    BY <1>3, ZeroMeansUncounted DEF Enter, Available, Transmittable
  <2>2. ~asleep
    BY <1>3 DEF Enter, Waiting
  <2> QED  BY <1>2, <1>3, <2>1, <2>2 DEF Enter, FirstReference
<1>4. CASE WakeUp
  BY <1>2, <1>4 DEF WakeUp, Waiting
<1>5. CASE \/ Search \/ Timeout \/ StartOfBurst \/ StartOfPacket \/ SendSpp \/ LookAhead \/ SendFinal
           \/ ReleaseBuffer \/ Uncount \/ Exit
  <2>1. ~asleep' /\ tpc' # "wait"
    BY <1>5 DEF Search, Begin, Timeout, StartOfBurst, StartOfPacket, SendSpp, LookAhead, SendFinal,
                ReleaseBuffer, Uncount, Exit, Waiting, pool_vars
  <2> QED  BY <2>1 DEF Waiting
<1>6. CASE Stop \/ UNCHANGED vars
  BY <1>6 DEF Stop, vars, pool_vars, radio_vars, locks, streams, workers, Waiting, Uncounted, Available
<1> QED  BY <1>1, <1>3, <1>4, <1>5, <1>6 DEF Next, TxStep, Terminated

\* The strengthening is inductive.
LEMMA NextIInv == ASSUME PoolAssumption, IInv, [Next]_vars PROVE IInv'
<1>1. CASE \E w \in Worker : TakePacket(w) \/ GeneratePacket(w)
  BY <1>1, WorkerTypes, WorkerOwners, CountedInv, WaitingInv DEF IInv, Next
<1>2. CASE TxStep \/ Timeout \/ Stop \/ UNCHANGED vars
  BY <1>2, RadioTypes, RadioOwners, CountedInv, WaitingInv DEF IInv, Next
<1> QED  BY <1>1, <1>2 DEF Next, Terminated

\* The TX thread does not sleep through its packet: asleep, its reference is the
\* counter, and a worker is yet to count; or it is not, and a worker is yet to notify.
LEMMA IInvImplies == IInv => NoLostWakeup
BY DEF IInv, Waiting, NoLostWakeup, Uncounted

\* wait_for_specific_tx_order_id_to() never loses a wake-up, whatever the number of
\* buffers and workers and whatever the firmware asks for: while the packet is there
\* and the TX thread asleep, a worker is between lock_inner() and notify_all().
THEOREM NoLostWakeupTheorem == Spec => []NoLostWakeup
<1>1. Init => IInv
  BY InitIInv, PoolAssumption
<1>2. IInv /\ [Next]_vars => IInv'
  BY NextIInv, PoolAssumption
<1> QED  BY <1>1, <1>2, IInvImplies, PTL DEF Spec

-----------------------------------------------------------------------------
(***************************************************************************)
(* What goes to the radio is what the firmware asked for.                  *)
(*                                                                         *)
(* A buffer belongs to one worker until its samples are complete, and it   *)
(* is not released before: the TX thread waits for the number of samples   *)
(* the worker has published, which never exceeds those it has written.     *)
(* So the packet of the current buffer remains the same from the search to *)
(* the release, and the samples sent, the time of the next one and the id  *)
(* that is expected are those of this packet.                              *)
(***************************************************************************)

SampleTypes ==
    /\ tx_length \in [Buffer -> Nat] /\ tx_cnt \in [Buffer -> Nat]
    /\ content \in [Buffer -> [packet : Packet \cup {0}, samples : Nat]]
    /\ written \in [Worker -> Nat]

\* A worker that has a buffer.
Busy(w) == pc[w] \in {"announce", "count", "notify", "fill", "publish"}

\* The buffer it fills is not complete.
Filling(w) ==
    LET b == buffer[w]
        n == packet[w]
    IN  /\ outer[b] /\ (pc[w] # "announce" => inner[b])
        /\ content[b].packet = n /\ tx_length[b] = Packets[n].len
        /\ written[w] = content[b].samples
        /\ tx_cnt[b] < Packets[n].len /\ written[w] <= Packets[n].len

Fillers ==
    /\ \A w \in Worker : Busy(w) => Filling(w)
    /\ \A v, w \in Worker : v # w /\ Busy(v) /\ Busy(w) => buffer[v] # buffer[w]
    /\ \A w \in Worker : pc[w] = "scan" => written[w] = 0

\* What a transmittable buffer says about its packet is true.
Faithful ==
    \A b \in Buffer :
        /\ inner[b] => /\ content[b].packet \in Packet
                       /\ meta[b] = Meta(content[b].packet)
                       /\ tx_length[b] = Packets[content[b].packet].len
        /\ tx_cnt[b] <= content[b].samples
        /\ ~outer[b] => tx_cnt[b] = 0

PoolInv == SampleTypes /\ Fillers /\ Faithful

\* The packet of the current buffer.
Now == content[current].packet

SendTypes == gap \in Int /\ length \in Nat /\ cnt \in Nat /\ clock \in Int

\* The time of the next sample, and what is left of the packet.
Clock ==
    /\ tpc = "packet" => clock = Packets[Now].time - Advance
    /\ tpc \in {"send", "final"} =>
           /\ clock = Packets[Now].time - Advance + cnt
           /\ cnt < length /\ expected = Follower(Now)
    /\ tpc \in {"send", "final", "release"} => length = Packets[Now].len
    /\ tpc \in {"final", "release"} => Written(current, length)
    /\ tpc = "final" /\ next_buffer # None => gap = GapTo(next_buffer)
    /\ tpc \in {"release", "uncount"} /\ next_buffer # None =>
           clock = meta[next_buffer].time - Advance

Chunks == [packet : Packet, from : Nat, to : Nat, at : Int]

\* The chunk that was sent last: is its packet complete, and which one follows it?
Last == sent[Len(sent)]
Complete == sent # <<>> => Last.to = Packets[Last.packet].len
Due == IF sent = <<>> THEN 0 ELSE Follower(Last.packet)

Progressing ==
    /\ sent \in Seq(Chunks)
    /\ tpc \notin {"send", "final"} => Complete /\ expected = Due
    /\ tpc \in {"send", "final"} =>
           IF cnt = 0 THEN Complete /\ Packets[Now].order = Due
                      ELSE sent # <<>> /\ Last.packet = Now /\ Last.to = cnt

SendInv == PoolInv /\ SendTypes /\ Clock /\ Progressing /\ SentAsAsked

-----------------------------------------------------------------------------

LEMMA PacketFields ==
    ASSUME PoolAssumption, NEW n \in Packet
    PROVE  /\ Packets[n].len \in Nat /\ Packets[n].len > 0 /\ Packets[n].time \in Nat
           /\ Packets[n].order \in Nat /\ Packets[n].next \in Nat \cup {None}
           /\ Meta(n).time = Packets[n].time
<1> DEFINE Record == [order : Nat, next : Nat \cup {None}, time : Nat, len : Nat \ {0}]
<1>1. Packets \in Seq(Record) /\ n \in 1 .. Len(Packets)
  BY DEF PoolAssumption, Packet
<1>2. Packets[n] \in Record
  <2> HIDE DEF Record
  <2> QED  BY <1>1
<1> QED  BY <1>2, SMTT(60) DEF Meta

\* What the radio can rely on while workers go on: a buffer that is transmittable
\* remains the same, and samples only become more.
Stable ==
    \A b \in Buffer : inner[b] =>
        /\ inner'[b] /\ meta'[b] = meta[b] /\ content'[b].packet = content[b].packet
        /\ tx_length'[b] = tx_length[b] /\ tx_cnt'[b] >= tx_cnt[b]

\* The firmware gives a packet to an idle worker.
LEMMA TakePool ==
    ASSUME PoolAssumption, PoolTypes, Owners, PoolInv, NEW w \in Worker, Take(w)
    PROVE  PoolInv' /\ Stable
<1> USE DEF PoolTypes
<1>1. /\ pc[w] = "idle" /\ pc' = [pc EXCEPT ![w] = "scan"]
      /\ packet' = [packet EXCEPT ![w] = taken + 1] /\ buffer' = [buffer EXCEPT ![w] = 0]
      /\ written' = [written EXCEPT ![w] = 0]
      /\ UNCHANGED <<outer, inner, tx_length, tx_cnt, meta, content>>
  BY DEF Take, Goto, locks, streams
<1>2. SampleTypes' /\ Faithful' /\ Stable
  BY <1>1 DEF PoolInv, SampleTypes, Faithful, Stable
<1>3. \A v \in Worker : v # w => /\ pc'[v] = pc[v] /\ packet'[v] = packet[v]
                                 /\ buffer'[v] = buffer[v] /\ written'[v] = written[v]
  BY <1>1 DEF PoolInv, SampleTypes
<1>4. pc'[w] = "scan" /\ written'[w] = 0
  BY <1>1 DEF PoolInv, SampleTypes
<1>5. \A v \in Worker : v # w /\ Busy(v) => Filling(v)'
  BY <1>1, <1>3 DEF PoolInv, Fillers, Filling
<1>6. \A v \in Worker : Busy(v)' => v # w /\ Busy(v)
  BY <1>3, <1>4 DEF Busy
<1>7. Fillers'
  <2>1. \A v \in Worker : Busy(v)' => Filling(v)'
    BY <1>5, <1>6
  <2>2. \A v, u \in Worker : v # u /\ Busy(v)' /\ Busy(u)' => buffer'[v] # buffer'[u]
    BY <1>3, <1>6 DEF PoolInv, Fillers
  <2>3. \A v \in Worker : pc'[v] = "scan" => written'[v] = 0
    BY <1>3, <1>4 DEF PoolInv, Fillers
  <2> QED  BY <2>1, <2>2, <2>3 DEF Fillers
<1> QED  BY <1>2, <1>7 DEF PoolInv

\* A worker that goes on with the buffer b it has, and with nobody else's.
LEMMA FillerPool ==
    ASSUME PoolAssumption, PoolTypes, Owners, PoolInv, NEW w \in Worker, Busy(w),
           SampleTypes', UNCHANGED <<outer, packet, buffer>>,
           \A v \in Worker : v # w => pc'[v] = pc[v] /\ written'[v] = written[v],
           pc'[w] # "scan", Busy(w)' => Filling(w)',
           \A b \in Buffer : b # buffer[w] =>
               /\ inner'[b] = inner[b] /\ meta'[b] = meta[b] /\ content'[b] = content[b]
               /\ tx_length'[b] = tx_length[b] /\ tx_cnt'[b] = tx_cnt[b]
    PROVE  Fillers'
<1> USE DEF PoolInv
<1>1. buffer[w] \in Buffer /\ \A v \in Worker : buffer[v] \in Buffer
  BY DEF PoolTypes
<1>2. ASSUME NEW v \in Worker, v # w, Busy(v)' PROVE Filling(v)'
  <2>1. Busy(v) /\ buffer[v] # buffer[w] /\ Filling(v)
    BY <1>2 DEF Busy, Fillers
  <2>2. /\ inner'[buffer[v]] = inner[buffer[v]] /\ content'[buffer[v]] = content[buffer[v]]
        /\ tx_length'[buffer[v]] = tx_length[buffer[v]] /\ tx_cnt'[buffer[v]] = tx_cnt[buffer[v]]
    BY <1>1, <2>1
  <2> QED  BY <1>2, <2>1, <2>2 DEF Filling
<1>3. \A v \in Worker : Busy(v)' => Filling(v)'
  BY <1>2
<1>4. \A v \in Worker : Busy(v)' => Busy(v)
  BY DEF Busy
<1>5. \A v, u \in Worker : v # u /\ Busy(v)' /\ Busy(u)' => buffer'[v] # buffer'[u]
  BY <1>4 DEF Fillers
<1>6. \A v \in Worker : pc'[v] = "scan" => written'[v] = 0
  BY DEF Fillers
<1> QED  BY <1>3, <1>5, <1>6 DEF Fillers

\* get_buffer_tx_to_fill(): only an unlocked buffer is taken.
LEMMA TryLockPool ==
    ASSUME PoolAssumption, PoolTypes, Owners, PoolInv, NEW w \in Worker, TryLock(w)
    PROVE  PoolInv' /\ Stable
<1> USE DEF PoolTypes, PoolInv
<1> DEFINE b == buffer[w]
           n == packet[w]
<1>1. /\ pc[w] = "scan" /\ n \in Packet /\ written[w] = 0 /\ b \in Buffer
      /\ UNCHANGED <<inner, tx_cnt, meta, packet, written>>
  BY DEF TryLock, Owners, Fillers
<1>2. Packets[n].len \in Nat /\ Packets[n].len > 0
  BY <1>1, PacketFields
<1>3. CASE ~outer[b]
  <2>1. /\ outer' = [outer EXCEPT ![b] = TRUE] /\ buffer' = buffer
        /\ tx_length' = [tx_length EXCEPT ![b] = Packets[n].len]
        /\ content' = [content EXCEPT ![b] = Content(n, 0)]
        /\ pc' = [pc EXCEPT ![w] = "announce"]
    BY <1>3 DEF TryLock, Goto
  <2>2. SampleTypes'
    BY <1>1, <1>2, <2>1 DEF SampleTypes, Content
  <2>3. ~inner[b] /\ tx_cnt[b] = 0
    BY <1>1, <1>3 DEF Owners, Faithful
  <2>4. /\ content'[b].packet = n /\ content'[b].samples = 0 /\ tx_length'[b] = Packets[n].len /\ outer'[b]
        /\ pc'[w] = "announce"
    BY <1>1, <2>1 DEF SampleTypes, Content
  <2>5. /\ \A c \in Buffer : c # b => /\ outer'[c] = outer[c] /\ content'[c] = content[c]
                                      /\ tx_length'[c] = tx_length[c]
        /\ \A v \in Worker : v # w => pc'[v] = pc[v]
    BY <2>1 DEF SampleTypes
  <2> HIDE DEF b, n
  <2>6. Faithful' /\ Stable
    <3>1. ASSUME NEW c \in Buffer
          PROVE  /\ inner'[c] => /\ content'[c].packet \in Packet /\ meta'[c] = Meta(content'[c].packet)
                                 /\ tx_length'[c] = Packets[content'[c].packet].len
                 /\ tx_cnt'[c] <= content'[c].samples
                 /\ ~outer'[c] => tx_cnt'[c] = 0
      <4>1. inner'[c] = inner[c] /\ meta'[c] = meta[c] /\ tx_cnt'[c] = tx_cnt[c]
        BY <1>1
      <4>2. CASE c = b
        BY <2>3, <2>4, <4>1, <4>2, SMTT(20)
      <4>3. CASE c # b
        BY <2>5, <4>1, <4>3, ZenonT(60) DEF Faithful
      <4> QED  BY <4>2, <4>3
    <3>2. ASSUME NEW c \in Buffer, inner[c]
          PROVE  /\ inner'[c] /\ meta'[c] = meta[c] /\ content'[c].packet = content[c].packet
                 /\ tx_length'[c] = tx_length[c] /\ tx_cnt'[c] >= tx_cnt[c]
      <4>1. c # b /\ tx_cnt[c] \in Nat
        BY <2>3, <3>2 DEF SampleTypes
      <4>2. tx_cnt'[c] = tx_cnt[c] /\ inner'[c] = inner[c] /\ meta'[c] = meta[c]
        BY <1>1
      <4> QED  BY <2>5, <3>2, <4>1, <4>2
    <3>3. Faithful'
      BY <3>1 DEF Faithful
    <3>4. Stable
      BY <3>2 DEF Stable
    <3> QED  BY <3>3, <3>4
  <2>7. Fillers'
    <3>1. Filling(w)'
      BY <1>1, <1>2, <2>1, <2>3, <2>4, SMTT(20) DEF Filling, b, n
    <3>2. ASSUME NEW v \in Worker, v # w, Busy(v)' PROVE Filling(v)' /\ buffer[v] # b /\ Busy(v)
      <4>1. Busy(v) /\ Filling(v) /\ buffer[v] \in Buffer
        BY <2>5, <3>2 DEF Busy, Fillers
      <4>2. buffer[v] # b
        BY <1>3, <4>1 DEF Filling
      <4>3. Filling(v)'
        BY <1>1, <2>1, <2>5, <3>2, <4>1, <4>2 DEF Filling
      <4> QED  BY <4>1, <4>2, <4>3
    <3>3. \A v \in Worker : Busy(v)' => Filling(v)'
      BY <3>1, <3>2
    <3>4. \A v, u \in Worker : v # u /\ Busy(v)' /\ Busy(u)' => buffer'[v] # buffer'[u]
      BY <2>1, <3>2 DEF Fillers, b
    <3>5. \A v \in Worker : pc'[v] = "scan" => written'[v] = 0
      BY <1>1, <2>4, <2>5 DEF Fillers
    <3> QED  BY <3>3, <3>4, <3>5 DEF Fillers
  <2> QED  BY <2>2, <2>6, <2>7
<1>4. CASE outer[b]
  <2>1. /\ UNCHANGED <<outer, tx_length, content>>
        /\ \A v \in Worker : v # w => pc'[v] = pc[v] /\ buffer'[v] = buffer[v]
        /\ pc'[w] \in {"scan", "idle"}
    BY <1>1, <1>4 DEF TryLock, Goto
  <2>2. SampleTypes' /\ Faithful' /\ Stable
    BY <1>1, <2>1 DEF SampleTypes, Faithful, Stable
  <2>3. \A v \in Worker : Busy(v)' => v # w /\ Busy(v)
    BY <2>1 DEF Busy
  <2>4. \A v \in Worker : Busy(v)' => Filling(v)'
    BY <1>1, <2>1, <2>3, SMTT(20) DEF Fillers, Filling
  <2>5. \A v, u \in Worker : v # u /\ Busy(v)' /\ Busy(u)' => buffer'[v] # buffer'[u]
    BY <2>1, <2>3 DEF Fillers
  <2>6. \A v \in Worker : pc'[v] = "scan" => written'[v] = 0
    BY <1>1, <2>1 DEF Fillers
  <2>7. Fillers'
    BY <2>4, <2>5, <2>6 DEF Fillers
  <2> QED  BY <2>2, <2>7
<1> QED  BY <1>3, <1>4

\* set_transmittable() and what follows: samples are written and then published.
LEMMA FillPool ==
    ASSUME PoolAssumption, PoolTypes, Owners, PoolInv, NEW w \in Worker,
           Announce(w) \/ Count(w) \/ Notify(w) \/ Fill(w) \/ Publish(w)
    PROVE  PoolInv' /\ Stable
<1> DEFINE b == buffer[w]
           n == packet[w]
           len == Packets[n].len
<1>1. /\ pc[w] \in {"announce", "count", "notify", "fill", "publish"} /\ n \in Packet /\ b \in Buffer
      /\ UNCHANGED <<outer, tx_length, packet, buffer>>
  BY DEF Announce, Count, Notify, Fill, Publish, locks, streams, PoolTypes, Owners
<1>2. Busy(w) /\ Filling(w)
  BY <1>1 DEF Busy, PoolInv, Fillers
<1>3. /\ outer[b] /\ (pc[w] # "announce" => inner[b]) /\ content[b].packet = n /\ tx_length[b] = len
      /\ written[w] = content[b].samples /\ tx_cnt[b] < len /\ written[w] <= len
      /\ tx_cnt[b] <= content[b].samples
  BY <1>1, <1>2 DEF Filling, PoolInv, Faithful
<1>4. /\ len \in Nat /\ len > 0 /\ written[w] \in Nat /\ tx_cnt[b] \in Nat
      /\ content[b] \in [packet : Packet \cup {0}, samples : Nat]
  BY <1>1, PacketFields DEF PoolInv, SampleTypes
<1> DEFINE Others == /\ \A v \in Worker : v # w => pc'[v] = pc[v] /\ written'[v] = written[v]
                     /\ \A c \in Buffer : c # b =>
                           /\ inner'[c] = inner[c] /\ meta'[c] = meta[c] /\ content'[c] = content[c]
                           /\ tx_length'[c] = tx_length[c] /\ tx_cnt'[c] = tx_cnt[c]
           Own == /\ content'[b].packet = n /\ written'[w] = content'[b].samples /\ written'[w] <= len
                  /\ tx_cnt'[b] <= content'[b].samples /\ tx_cnt'[b] >= tx_cnt[b]
                  /\ inner'[b] /\ (inner[b] => meta'[b] = meta[b]) /\ meta'[b] = Meta(n)
                  /\ pc'[w] # "scan" /\ (Busy(w)' => tx_cnt'[b] < len)
<1>5. SampleTypes' /\ Others /\ Own
  <2>m. inner[b] => meta[b] = Meta(n)
    BY <1>1, <1>3 DEF PoolInv, Faithful
  <2>p. pc \in [Worker -> {"idle", "scan", "announce", "count", "notify", "fill", "publish"}]
    BY DEF PoolTypes
  <2>t. SampleTypes
    BY DEF PoolInv
  <2>1. CASE Announce(w)
    <3>1. /\ pc[w] = "announce"
          /\ meta' = [meta EXCEPT ![b] = Meta(n)] /\ inner' = [inner EXCEPT ![b] = TRUE]
          /\ pc' = [pc EXCEPT ![w] = "count"] /\ UNCHANGED <<tx_length, tx_cnt, content, written>>
      BY <2>1 DEF Announce, Goto
    <3>2. ~inner[b]
      BY <1>1, <3>1 DEF Owners
    <3>3. SampleTypes'
      BY <2>t, <3>1 DEF SampleTypes
    <3>4. meta'[b] = Meta(n) /\ inner'[b] /\ pc'[w] = "count"
      BY <1>1, <2>p, <3>1 DEF PoolTypes
    <3>5. Others
      BY <1>1, <2>p, <3>1 DEF PoolTypes
    <3> HIDE DEF b, n, len, Others
    <3> QED  BY <1>3, <1>4, <3>1, <3>2, <3>3, <3>4, <3>5
  <2>2. CASE Count(w) \/ Notify(w)
    <3>1. /\ pc[w] # "announce"
          /\ pc' = [pc EXCEPT ![w] = "notify"] \/ pc' = [pc EXCEPT ![w] = "fill"]
          /\ UNCHANGED <<inner, meta, tx_length, tx_cnt, content, written>>
      BY <2>2 DEF Count, Notify, Goto, locks, streams
    <3>2. SampleTypes'
      BY <2>t, <3>1 DEF SampleTypes
    <3>3. Others /\ pc'[w] # "scan"
      BY <2>p, <3>1
    <3> HIDE DEF b, n, len, Others
    <3> QED  BY <1>3, <1>4, <2>m, <3>1, <3>2, <3>3
  <2>3. CASE Fill(w)
    <3> DEFINE k == Progress(written[w], len)
    <3>1. /\ pc[w] = "fill" /\ pc' = [pc EXCEPT ![w] = "publish"]
          /\ written' = [written EXCEPT ![w] = k]
          /\ content' = [content EXCEPT ![b] = Content(n, k)]
          /\ UNCHANGED <<inner, meta, tx_length, tx_cnt>>
      BY <2>3 DEF Fill, Goto, locks
    <3>2. k \in Nat /\ k <= len /\ k >= written[w]
      <4>1. Symbol \in Nat
        BY DEF PoolAssumption
      <4> HIDE DEF len
      <4> QED  BY <1>3, <1>4, <4>1, SMTT(20) DEF Progress
    <3>3. SampleTypes'
      BY <1>1, <2>t, <3>1, <3>2 DEF SampleTypes, Content
    <3>4. /\ written'[w] = k /\ pc'[w] = "publish" /\ content'[b].packet = n /\ content'[b].samples = k
      BY <1>1, <2>p, <2>t, <3>1 DEF SampleTypes, Content
    <3>5. Others
      BY <1>1, <2>p, <2>t, <3>1 DEF SampleTypes
    <3> HIDE DEF b, n, len, Others
    <3> QED  BY <1>3, <1>4, <2>m, <3>1, <3>2, <3>3, <3>4, <3>5
  <2>4. CASE Publish(w)
    <3>1. /\ pc[w] = "publish" /\ tx_cnt' = [tx_cnt EXCEPT ![b] = written[w]]
          /\ pc' = [pc EXCEPT ![w] = IF written[w] = len THEN "idle" ELSE "fill"]
          /\ UNCHANGED <<inner, meta, tx_length, content, written>>
      BY <2>4 DEF Publish, Goto, locks
    <3>2. SampleTypes'
      BY <1>1, <1>4, <2>t, <3>1 DEF SampleTypes
    <3>3. /\ tx_cnt'[b] = written[w]
          /\ pc'[w] = IF written[w] = len THEN "idle" ELSE "fill"
      BY <1>1, <2>p, <2>t, <3>1 DEF SampleTypes
    <3>4. Others
      BY <1>1, <2>p, <2>t, <3>1 DEF SampleTypes
    <3>5. Busy(w)' => written[w] < len
      <4>1. Busy(w)' => written[w] # len
        BY <3>3 DEF Busy
      <4> HIDE DEF len
      <4> QED  BY <1>3, <1>4, <4>1
    <3> HIDE DEF b, n, len, Others
    <3> QED  BY <1>3, <1>4, <2>m, <3>1, <3>2, <3>3, <3>4, <3>5
  <2> QED  BY <2>1, <2>2, <2>3, <2>4
<1>6. Busy(w)' => Filling(w)'
  BY <1>1, <1>3, <1>5 DEF Filling
<1>7. Fillers'
  BY <1>1, <1>2, <1>5, <1>6, FillerPool
<1>8. Faithful' /\ Stable
  <2>1. ASSUME NEW c \in Buffer
        PROVE  /\ inner'[c] => /\ content'[c].packet \in Packet /\ meta'[c] = Meta(content'[c].packet)
                               /\ tx_length'[c] = Packets[content'[c].packet].len
               /\ tx_cnt'[c] <= content'[c].samples
               /\ ~outer'[c] => tx_cnt'[c] = 0
    <3>1. CASE c = b
      BY <1>1, <1>3, <1>5, <3>1
    <3>2. CASE c # b
      <4>1. /\ inner'[c] = inner[c] /\ meta'[c] = meta[c] /\ content'[c] = content[c]
            /\ tx_length'[c] = tx_length[c] /\ tx_cnt'[c] = tx_cnt[c] /\ outer'[c] = outer[c]
        BY <1>1, <1>5, <3>2
      <4>2. /\ inner[c] => /\ content[c].packet \in Packet /\ meta[c] = Meta(content[c].packet)
                           /\ tx_length[c] = Packets[content[c].packet].len
            /\ tx_cnt[c] <= content[c].samples
            /\ ~outer[c] => tx_cnt[c] = 0
        BY DEF PoolInv, Faithful
      <4> HIDE DEF Others, Own
      <4> QED  BY <4>1, <4>2, Zenon
    <3> QED  BY <3>1, <3>2
  <2>2. ASSUME NEW c \in Buffer, inner[c]
        PROVE  /\ inner'[c] /\ meta'[c] = meta[c] /\ content'[c].packet = content[c].packet
               /\ tx_length'[c] = tx_length[c] /\ tx_cnt'[c] >= tx_cnt[c]
    <3>1. CASE c = b
      BY <1>1, <1>3, <1>5, <2>2, <3>1
    <3>2. CASE c # b
      <4>1. tx_cnt[c] \in Nat
        BY DEF PoolInv, SampleTypes
      <4> QED  BY <1>1, <1>5, <2>2, <3>2, <4>1, SMTT(60)
    <3> QED  BY <3>1, <3>2
  <2> QED  BY <2>1, <2>2 DEF Faithful, Stable
<1> QED  BY <1>5, <1>7, <1>8 DEF PoolInv

\* The pool whatever the workers do.
LEMMA WorkerPool ==
    ASSUME PoolAssumption, PoolTypes, Owners, PoolInv, NEW w \in Worker, Take(w) \/ Generate(w)
    PROVE  PoolInv' /\ Stable
BY TakePool, TryLockPool, FillPool DEF Generate

-----------------------------------------------------------------------------

\* Initially nothing is sent.
LEMMA InitSend == ASSUME PoolAssumption, UsrpAssumption, Init PROVE SendInv
<1> USE DEF Init, PoolInit
<1>1. SampleTypes
  BY DEF SampleTypes, Content
<1>2. Fillers
  BY DEF Fillers, Busy
<1>3. Faithful
  BY DEF Faithful, Content
<1>4. SendTypes /\ Clock
  BY DEF SendTypes, Clock
<1>5. Progressing
  BY DEF Progressing, Complete, Due
<1>6. SentAsAsked
  BY DEF SentAsAsked, SamplesOnTime, PacketsInOrder
<1> QED  BY <1>1, <1>2, <1>3, <1>4, <1>5, <1>6 DEF SendInv, PoolInv

\* While workers go on nothing changes for the TX thread.
LEMMA WorkerSend ==
    ASSUME PoolAssumption, UsrpAssumption, IInv, SendInv, NEW w \in Worker,
           TakePacket(w) \/ GeneratePacket(w)
    PROVE  SendInv'
<1> USE DEF SendInv
<1>1. PoolInv' /\ Stable
  BY WorkerPool DEF IInv, Types, TakePacket, GeneratePacket
<1>2. UNCHANGED <<tpc, expected, current, next_buffer, gap, length, cnt, clock, sent>>
  BY DEF TakePacket, GeneratePacket, radio_vars
<1>3. current \in Buffer /\ (next_buffer # None => next_buffer \in Buffer /\ inner[next_buffer])
  BY DEF IInv, Types, PoolTypes, ThreadTypes, Holds
<1>4. tpc \in {"burst", "packet", "send", "final", "release"} =>
         /\ Now' = Now /\ meta'[current] = meta[current] /\ tx_length'[current] = tx_length[current]
         /\ tx_cnt'[current] >= tx_cnt[current]
  <2>1. tpc \in {"burst", "packet", "send", "final", "release"} => inner[current]
    BY DEF IInv, Holds
  <2>2. inner[current] =>
           /\ content'[current].packet = content[current].packet /\ meta'[current] = meta[current]
           /\ tx_length'[current] = tx_length[current] /\ tx_cnt'[current] >= tx_cnt[current]
    BY <1>1, <1>3 DEF Stable
  <2> QED  BY <1>2, <2>1, <2>2 DEF Now
<1>5. next_buffer # None => meta'[next_buffer] = meta[next_buffer]
  BY <1>1, <1>3 DEF Stable
<1>6. SendTypes'
  BY <1>2 DEF SendTypes
<1>7. Clock'
  <2>1. tx_cnt[current] \in Nat /\ tx_cnt'[current] \in Nat /\ length \in Nat
    BY <1>1, <1>3 DEF PoolInv, SampleTypes, SendTypes
  <2>2. tpc \in {"final", "release"} => Written(current, length)'
    BY <1>2, <1>4, <2>1 DEF Clock, Written
  <2>3. tpc = "final" /\ next_buffer # None => GapTo(next_buffer)' = GapTo(next_buffer)
    BY <1>2, <1>4, <1>5 DEF GapTo
  <2> QED  BY <1>2, <1>4, <1>5, <2>2, <2>3 DEF Clock
<1>8. Progressing'
  BY <1>2, <1>4 DEF Progressing, Complete, Due, Last
<1>9. SentAsAsked'
  BY <1>2 DEF SentAsAsked, SamplesOnTime, PacketsInOrder
<1> QED  BY <1>1, <1>6, <1>7, <1>8, <1>9

LEMMA SamePool ==
    ASSUME PoolInv, UNCHANGED <<locks, streams, workers>>
    PROVE  PoolInv'
BY DEF PoolInv, SampleTypes, Fillers, Filling, Busy, Faithful, locks, streams, workers

\* What the search has found is a packet of the firmware.
LEMMA CurrentPacket ==
    ASSUME PoolAssumption, PoolInv, NEW b \in Buffer, inner[b]
    PROVE  /\ content[b].packet \in Packet /\ meta[b] = Meta(content[b].packet)
           /\ meta[b].time = Packets[content[b].packet].time
           /\ meta[b].order = Packets[content[b].packet].order
           /\ meta[b].next = Packets[content[b].packet].next
           /\ tx_length[b] = Packets[content[b].packet].len
BY MetaType, PacketFields, ZenonT(60) DEF PoolInv, Faithful

\* Nobody fills the buffer r that is released: its worker has published all samples.
LEMMA ReleasePool ==
    ASSUME PoolAssumption, PoolTypes, Owners, PoolInv, NEW r \in Buffer, inner[r],
           Written(r, Packets[content[r].packet].len), Release(r), UNCHANGED workers
    PROVE  PoolInv'
<1> USE DEF PoolInv
<1>1. /\ tx_cnt[r] >= Packets[content[r].packet].len /\ content[r].packet \in Packet
      /\ Packets[content[r].packet].len \in Nat /\ tx_cnt[r] \in Nat
  BY CurrentPacket, PacketFields DEF Written, SampleTypes
<1>2. /\ inner' = [inner EXCEPT ![r] = FALSE] /\ outer' = [outer EXCEPT ![r] = FALSE]
      /\ tx_length' = [tx_length EXCEPT ![r] = 0] /\ tx_cnt' = [tx_cnt EXCEPT ![r] = 0]
      /\ meta' = [meta EXCEPT ![r].order = None, ![r].time = None]
      /\ UNCHANGED <<content, pc, packet, buffer, written>>
  BY DEF Release, workers
<1>3. SampleTypes'
  BY <1>1, <1>2 DEF SampleTypes
<1>4. ~inner'[r] /\ ~outer'[r] /\ tx_cnt'[r] = 0
  BY <1>1, <1>2 DEF PoolTypes, SampleTypes
<1>5. \A b \in Buffer : b # r =>
         /\ inner'[b] = inner[b] /\ outer'[b] = outer[b] /\ meta'[b] = meta[b]
         /\ tx_length'[b] = tx_length[b] /\ tx_cnt'[b] = tx_cnt[b]
  BY <1>2 DEF PoolTypes, SampleTypes
<1>6. ASSUME NEW w \in Worker, Busy(w) PROVE buffer[w] # r /\ Filling(w)'
  <2>1. Filling(w) /\ buffer[w] \in Buffer
    BY <1>6 DEF Fillers, PoolTypes
  <2>2. buffer[w] # r
    <3> SUFFICES ASSUME buffer[w] = r PROVE FALSE
      OBVIOUS
    <3>1. content[r].packet = packet[w] /\ tx_cnt[r] < Packets[packet[w]].len
      BY <2>1 DEF Filling
    <3> QED  BY <1>1, <3>1, SMTT(60)
  <2> QED  BY <1>2, <1>5, <2>1, <2>2 DEF Filling
<1>7. Fillers'
  BY <1>2, <1>6 DEF Fillers, Busy
<1>8. Faithful'
  <2> SUFFICES ASSUME NEW b \in Buffer
               PROVE  /\ inner'[b] => /\ content'[b].packet \in Packet /\ meta'[b] = Meta(content'[b].packet)
                                      /\ tx_length'[b] = Packets[content'[b].packet].len
                      /\ tx_cnt'[b] <= content'[b].samples
                      /\ ~outer'[b] => tx_cnt'[b] = 0
    BY DEF Faithful
  <2>1. CASE b = r
    <3>1. content'[b].samples \in Nat
      BY <1>3 DEF SampleTypes
    <3> QED  BY <1>4, <2>1, <3>1
  <2>2. CASE b # r
    BY <1>2, <1>5, <2>2, ZenonT(60) DEF Faithful
  <2> QED  BY <2>1, <2>2
<1> QED  BY <1>3, <1>7, <1>8

\* send() of k samples continues the packet or begins the one that is due, in time.
LEMMA SendsNext ==
    ASSUME PoolAssumption, UsrpAssumption, IInv, SendInv, tpc \in {"send", "final"},
           NEW k \in Nat, k > 0, cnt + k <= length, Written(current, cnt + k),
           sent' = Append(sent, Chunk(current, cnt, cnt + k, clock))
    PROVE  /\ sent' \in Seq(Chunks) /\ sent' # <<>> /\ SentAsAsked'
           /\ Last'.packet = Now /\ Last'.to = cnt + k
<1> USE DEF SendInv
<1>1. current \in Buffer /\ inner[current]
  BY DEF IInv, Types, PoolTypes, ThreadTypes, Holds
<1>2. Now \in Packet /\ content[current].samples >= cnt + k
  <2>1. /\ content[current].samples \in Nat /\ tx_cnt[current] \in Nat /\ cnt + k \in Nat
        /\ tx_cnt[current] <= content[current].samples
    BY <1>1 DEF PoolInv, SampleTypes, Faithful, SendTypes
  <2> QED  BY <1>1, <2>1, CurrentPacket DEF Now, Written
<1> DEFINE chunk == [packet |-> Now, from |-> cnt, to |-> cnt + k, at |-> clock]
           n == Len(sent)
<1>3. Chunk(current, cnt, cnt + k, clock) = chunk /\ chunk \in Chunks
  BY <1>2 DEF Chunk, Chunks, SendTypes, Now
<1>4. /\ sent \in Seq(Chunks) /\ n \in Nat /\ sent' \in Seq(Chunks) /\ Len(sent') = n + 1
      /\ sent'[n + 1] = chunk /\ \A c \in 1..n : sent'[c] = sent[c]
  BY <1>3, SMTT(60) DEF Progressing
<1>5. Last' = chunk /\ sent' # <<>>
  BY <1>4 DEF Last
<1>6. clock = Packets[Now].time - Advance + cnt /\ length = Packets[Now].len /\ Now # 0
  BY <1>2, SMTT(60) DEF Clock, Packet
<1> HIDE DEF chunk
<1>7. chunk.packet = Now /\ chunk.from = cnt /\ chunk.to = cnt + k /\ chunk.at = clock
  BY DEF chunk
<1>8. DOMAIN sent = 1..n /\ DOMAIN sent' = 1..(n + 1) /\ \A c \in 1..(n + 1) : c \in 1..n \/ c = n + 1
  BY <1>4
<1>9. SamplesOnTime'
  <2> SUFFICES ASSUME NEW c \in 1..(n + 1)
               PROVE  /\ sent'[c].packet # 0
                      /\ sent'[c].at = Packets[sent'[c].packet].time - Advance + sent'[c].from
    BY <1>8 DEF SamplesOnTime
  <2>1. CASE c \in 1..n
    BY <1>4, <1>8, <2>1 DEF SentAsAsked, SamplesOnTime
  <2>2. CASE c = n + 1
    BY <1>4, <1>6, <1>7, <2>2
  <2> QED  BY <1>8, <2>1, <2>2
<1>10. PacketsInOrder'
  <2> SUFFICES ASSUME NEW c \in 1..(n + 1)
               PROVE  LET m == sent'[c].packet
                          prev == IF c = 1 THEN [packet |-> 0, to |-> 0] ELSE sent'[c - 1]
                      IN  IF prev.packet # 0 /\ prev.to < Packets[prev.packet].len
                          THEN m = prev.packet /\ sent'[c].from = prev.to
                          ELSE /\ sent'[c].from = 0
                               /\ Packets[m].order = IF c = 1 THEN 0 ELSE Follower(prev.packet)
    BY <1>8 DEF PacketsInOrder
  <2>1. CASE c \in 1..n
    <3>1. sent'[c] = sent[c] /\ (c # 1 => sent'[c - 1] = sent[c - 1])
      <4>1. c # 1 => c - 1 \in 1..n
        BY <1>4, <2>1
      <4> QED  BY <1>4, <2>1, <4>1
    <3> QED  BY <1>8, <2>1, <3>1, ZenonT(60) DEF SentAsAsked, PacketsInOrder
  <2>2. CASE c = n + 1
    <3>1. sent'[c] = chunk /\ (c = 1 <=> sent = <<>>)
      BY <1>4, <2>2
    <3>2. c # 1 => sent'[c - 1] = Last /\ Last \in Chunks
      BY <1>4, <2>2 DEF Last
    <3>3. CASE cnt = 0
      <4>1. Complete /\ Packets[Now].order = Due
        BY <3>3 DEF Progressing
      <4>2. c = 1 => Packets[Now].order = 0
        BY <3>1, <4>1 DEF Due
      <4>3. c # 1 => /\ Last.to = Packets[Last.packet].len /\ Packets[Now].order = Follower(Last.packet)
                     /\ ~(Last.to < Packets[Last.packet].len)
        <5> SUFFICES ASSUME c # 1
                     PROVE  /\ Last.to = Packets[Last.packet].len
                            /\ Packets[Now].order = Follower(Last.packet)
                            /\ ~(Last.to < Packets[Last.packet].len)
          OBVIOUS
        <5>1. Last.to = Packets[Last.packet].len /\ Last.to \in Nat
          BY <3>1, <3>2, <4>1 DEF Complete, Chunks
        <5>2. Packets[Now].order = Follower(Last.packet)
          BY <3>1, <4>1 DEF Due
        <5> QED  BY <5>1, <5>2, SMTT(60)
      <4> QED  BY <1>7, <3>1, <3>2, <3>3, <4>2, <4>3
    <3>4. CASE cnt # 0
      <4>1. sent # <<>> /\ Last.packet = Now /\ Last.to = cnt /\ cnt < length
        BY <3>4 DEF Progressing, Clock
      <4> QED  BY <1>6, <1>7, <3>1, <3>2, <4>1
    <3> QED  BY <3>3, <3>4
  <2> QED  BY <1>8, <2>1, <2>2
<1> QED  BY <1>4, <1>5, <1>7, <1>9, <1>10 DEF SentAsAsked

\* The arithmetic of the clock: samples sent, samples left, zeros for the gap.
LEMMA ClockAdvances ==
    ASSUME NEW t \in Int, NEW a \in Int, NEW c \in Int, NEW k \in Int
    PROVE  (t - a + c) + k = t - a + (c + k)
OBVIOUS

LEMMA SamplesLeft ==
    ASSUME NEW l \in Int, NEW c \in Int, c < l, NEW k \in Int, k = l - c
    PROVE  k \in Nat /\ k > 0 /\ c + k = l
OBVIOUS

\* The TX thread, step by step.
LEMMA RadioSend ==
    ASSUME PoolAssumption, UsrpAssumption, IInv, SendInv, TxStep \/ Timeout \/ Stop \/ UNCHANGED vars
    PROVE  SendInv'
<1> USE DEF SendInv
<1>s. Spp \in Nat /\ Spp > 0 /\ Advance \in Nat
  BY DEF UsrpAssumption
<1>t. current \in Buffer /\ gap \in Int /\ length \in Nat /\ cnt \in Nat /\ clock \in Int
  BY DEF IInv, Types, PoolTypes, ThreadTypes, SendTypes
<1>1. CASE Search \/ Enter \/ WakeUp \/ Timeout \/ Exit
  <2>1. UNCHANGED <<locks, streams, workers>>
    BY <1>1 DEF Search, Enter, WakeUp, Timeout, Exit, pool_vars
  <2>2. /\ UNCHANGED <<expected, next_buffer, gap, length, cnt, clock, sent>>
        /\ tpc \in {"loop", "enter", "wait"} /\ tpc' \in {"loop", "enter", "wait", "burst", "exited"}
    BY <1>1 DEF Search, Enter, WakeUp, WaitWith, Begin, Timeout, Exit
  <2>3. Clock' /\ SendTypes'
    BY <2>2 DEF Clock, SendTypes
  <2>4. Progressing' /\ SentAsAsked'
    BY <2>2 DEF Progressing, Complete, Due, Last, SentAsAsked, SamplesOnTime, PacketsInOrder
  <2> QED  BY <2>1, <2>3, <2>4, SamePool
<1>2. CASE Stop \/ UNCHANGED vars
  <2>1. /\ UNCHANGED <<locks, streams, workers>>
        /\ UNCHANGED <<tpc, expected, current, next_buffer, gap, length, cnt, clock, sent>>
    BY <1>2 DEF Stop, vars, pool_vars, radio_vars
  <2>2. UNCHANGED <<content, meta, tx_cnt>>
    BY <2>1 DEF streams
  <2>3. Clock' /\ SendTypes'
    BY <2>1, <2>2 DEF Clock, SendTypes, Now, Written, GapTo
  <2>4. Progressing' /\ SentAsAsked'
    BY <2>1, <2>2 DEF Progressing, Complete, Due, Last, Now, SentAsAsked, SamplesOnTime, PacketsInOrder
  <2> QED  BY <2>1, <2>3, <2>4, SamePool
<1>3. CASE StartOfBurst
  <2>1. /\ UNCHANGED <<locks, streams, workers>> /\ tpc = "burst" /\ tpc' = "packet"
        /\ clock' = meta[current].time - Advance
        /\ UNCHANGED <<expected, current, next_buffer, gap, length, cnt, sent>>
    BY <1>3 DEF StartOfBurst, pool_vars
  <2>2. inner[current] /\ Now' = Now
    BY <2>1 DEF IInv, Holds, Now, streams
  <2>3. Now \in Packet /\ meta[current].time = Packets[Now].time
    BY <1>t, <2>2, CurrentPacket DEF Now
  <2>4. clock' = Packets[Now].time - Advance /\ clock' \in Int
    BY <1>s, <2>1, <2>3, PacketFields, SMTT(60)
  <2>5. Clock' /\ SendTypes'
    BY <2>1, <2>2, <2>4 DEF Clock, SendTypes
  <2>6. Progressing' /\ SentAsAsked'
    BY <2>1 DEF Progressing, Complete, Due, Last, SentAsAsked, SamplesOnTime, PacketsInOrder
  <2> QED  BY <2>1, <2>5, <2>6, SamePool
<1>4. CASE StartOfPacket
  <2>1. /\ UNCHANGED <<locks, streams, workers>> /\ tpc = "packet" /\ tpc' = "send"
        /\ expected' = NextExpected(current) /\ length' = tx_length[current] /\ cnt' = 0
        /\ UNCHANGED <<current, next_buffer, gap, clock, sent>>
    BY <1>4 DEF StartOfPacket, pool_vars
  <2>2. inner[current] /\ Now' = Now /\ meta[current].order = expected
    BY <2>1 DEF IInv, Holds, Now, streams
  <2>3. /\ Now \in Packet /\ meta[current].next = Packets[Now].next
        /\ Packets[Now].order = expected /\ tx_length[current] = Packets[Now].len
    BY <1>t, <2>2, CurrentPacket DEF Now
  <2>4. /\ Packets[Now].len \in Nat /\ Packets[Now].len > 0 /\ Packets[Now].next \in Nat \cup {None}
        /\ Packets[Now].time \in Nat
    BY <2>3, PacketFields
  <2>5. expected' = Follower(Now)
    <3>1. meta[current].next < 0 <=> Packets[Now].next = None
      BY <2>3, <2>4, SMTT(60) DEF None
    <3> QED  BY <2>1, <2>3, <3>1 DEF NextExpected, Follower
  <2>6. clock = Packets[Now].time - Advance
    BY <2>1 DEF Clock
  <2>7. Clock' /\ SendTypes'
    BY <1>s, <1>t, <2>1, <2>2, <2>3, <2>4, <2>5, <2>6 DEF Clock, SendTypes
  <2>8. Complete /\ Packets[Now].order = Due
    BY <2>1, <2>3 DEF Progressing
  <2>9. Progressing' /\ SentAsAsked'
    BY <2>1, <2>2, <2>8 DEF Progressing, Complete, Due, Last, SentAsAsked, SamplesOnTime, PacketsInOrder
  <2> QED  BY <2>1, <2>7, <2>9, SamePool
<1>5. CASE SendSpp
  <2>1. /\ UNCHANGED <<locks, streams, workers>> /\ tpc = "send" /\ tpc' = "send"
        /\ length - cnt > Spp /\ Written(current, cnt + Spp)
        /\ gap' = 0 /\ cnt' = cnt + Spp /\ clock' = clock + Spp + 0
        /\ sent' = Append(sent, Chunk(current, cnt, cnt + Spp, clock))
        /\ UNCHANGED <<expected, current, next_buffer, length>>
    BY <1>5 DEF SendSpp, Transmit, pool_vars
  <2>2. Now' = Now /\ cnt + Spp < length /\ cnt' # 0 /\ cnt' \in Nat /\ clock' = clock + Spp /\ clock' \in Int
    BY <1>s, <1>t, <2>1 DEF Now, streams
  <2>3. /\ sent' \in Seq(Chunks) /\ sent' # <<>> /\ SentAsAsked' /\ Last'.packet = Now /\ Last'.to = cnt + Spp
    <3>1. tpc \in {"send", "final"} /\ Spp \in Nat /\ Spp > 0 /\ cnt + Spp <= length
      BY <1>s, <1>t, <2>1, <2>2
    <3>2. Written(current, cnt + Spp) /\ sent' = Append(sent, Chunk(current, cnt, cnt + Spp, clock))
      BY <2>1
    <3> QED  BY <3>1, <3>2, SendsNext
  <2>4. inner[current]
    BY <2>1 DEF IInv, Holds
  <2>5. Packets[Now].time \in Nat
    BY <1>t, <2>4, CurrentPacket, PacketFields DEF Now
  <2>6. clock' = Packets[Now].time - Advance + cnt'
    <3>1. clock = Packets[Now].time - Advance + cnt
      BY <2>1 DEF Clock
    <3>2. Packets[Now].time \in Int /\ Advance \in Int /\ cnt \in Int /\ Spp \in Int
      BY <1>s, <1>t, <2>5
    <3>3. (Packets[Now].time - Advance + cnt) + Spp = Packets[Now].time - Advance + (cnt + Spp)
      BY <3>2, ClockAdvances, SMTT(60)
    <3> QED  BY <2>1, <2>2, <3>1, <3>3
  <2>7. Clock' /\ SendTypes'
    <3>1. length = Packets[Now].len /\ expected = Follower(Now)
      BY <2>1 DEF Clock
    <3>2. length' = Packets[Now'].len /\ expected' = Follower(Now') /\ cnt' < length'
      BY <2>1, <2>2, <3>1
    <3>3. Clock'
      BY <2>1, <2>2, <2>6, <3>2 DEF Clock
    <3> QED  BY <1>t, <2>1, <2>2, <3>3 DEF SendTypes
  <2>8. Progressing'
    BY <2>1, <2>2, <2>3 DEF Progressing
  <2> QED  BY <2>1, <2>3, <2>7, <2>8, SamePool
<1>6. CASE LookAhead
  <2>1. /\ UNCHANGED <<locks, streams, workers>> /\ tpc = "send" /\ tpc' = "final"
        /\ Written(current, length)
        /\ UNCHANGED <<expected, current, length, cnt, clock, sent>>
    BY <1>6 DEF LookAhead, pool_vars
  <2>2. /\ next_buffer' # None => gap' = GapTo(next_buffer')
        /\ gap' \in Int
    <3>1. CASE next_buffer' = None /\ gap' = 0
      BY <3>1
    <3>2. ASSUME NEW b \in Available(expected), next_buffer' = b, gap' = GapTo(b)
          PROVE  gap' \in Int
      <4>1. meta[b].time \in Int /\ meta[current].time \in Int
        <5>1. b \in Buffer /\ \A c \in Buffer : meta[c] \in MetaData
          BY <3>2 DEF Available, IInv, Types, PoolTypes, ThreadTypes
        <5>2. meta[b] \in MetaData /\ meta[current] \in MetaData
          BY <1>t, <5>1
        <5> QED  BY <5>2 DEF MetaData, None
      <4> QED  BY <1>t, <3>2, <4>1, SMTT(20) DEF GapTo
    <3> QED  BY <1>6, <3>1, <3>2 DEF LookAhead
  <2>3. UNCHANGED <<content, meta, tx_cnt>> /\ Now' = Now
    BY <2>1 DEF streams, Now
  <2>4. next_buffer' # None => gap' = GapTo(next_buffer)'
    BY <2>1, <2>2, <2>3 DEF GapTo
  <2>5. Clock' /\ SendTypes'
    BY <1>t, <2>1, <2>2, <2>3, <2>4 DEF Clock, SendTypes, Written
  <2>6. Progressing' /\ SentAsAsked'
    BY <2>1, <2>3 DEF Progressing, Complete, Due, Last, SentAsAsked, SamplesOnTime, PacketsInOrder
  <2> QED  BY <2>1, <2>5, <2>6, SamePool
<1>7. CASE SendFinal
  <2> PICK k \in Int : k = length - cnt
    BY <1>t
  <2>1. /\ UNCHANGED <<locks, streams, workers>> /\ tpc = "final" /\ tpc' = "release" /\ gap' = gap
        /\ cnt' = cnt + k /\ clock' = clock + k + gap
        /\ sent' = Append(sent, Chunk(current, cnt, cnt + k, clock))
        /\ UNCHANGED <<expected, current, next_buffer, length>>
    BY <1>7 DEF SendFinal, Transmit, pool_vars
  <2>2. /\ cnt < length /\ Written(current, length) /\ length = Packets[Now].len
        /\ clock = Packets[Now].time - Advance + cnt /\ expected = Follower(Now)
        /\ next_buffer # None => gap = GapTo(next_buffer)
    BY <2>1 DEF Clock
  <2>3. k \in Nat /\ k > 0 /\ cnt + k = length /\ cnt' \in Nat /\ clock' \in Int
    <3>1. length \in Int /\ cnt \in Int /\ cnt < length
      BY <1>t, <2>2, SMTT(60)
    <3>2. k \in Nat /\ k > 0 /\ cnt + k = length
      BY <3>1, SamplesLeft
    <3> QED  BY <1>t, <2>1, <3>2, SMTT(60)
  <2>4. /\ sent' \in Seq(Chunks) /\ sent' # <<>> /\ SentAsAsked' /\ Last'.packet = Now /\ Last'.to = length
    <3>1. tpc \in {"send", "final"} /\ k \in Nat /\ k > 0 /\ cnt + k <= length
      BY <1>t, <2>1, <2>3
    <3>2. Written(current, cnt + k) /\ sent' = Append(sent, Chunk(current, cnt, cnt + k, clock))
      BY <2>1, <2>2, <2>3
    <3> QED  BY <2>3, <3>1, <3>2, SendsNext
  <2>5. Now' = Now /\ UNCHANGED <<content, meta, tx_cnt>>
    BY <2>1 DEF Now, streams
  <2>6. next_buffer # None => clock' = meta[next_buffer].time - Advance
    <3> SUFFICES ASSUME next_buffer # None PROVE clock' = meta[next_buffer].time - Advance
      OBVIOUS
    <3>1. next_buffer \in Buffer /\ inner[next_buffer] /\ inner[current]
      BY <2>1 DEF IInv, Types, PoolTypes, ThreadTypes, Holds
    <3>2. meta[current].time = Packets[Now].time /\ Packets[Now].time \in Nat
      BY <1>t, <3>1, CurrentPacket, PacketFields DEF Now
    <3>3. meta[next_buffer].time \in Nat
      BY <3>1, CurrentPacket, PacketFields
    <3>4. gap = meta[next_buffer].time - (Packets[Now].time + length)
      BY <2>2, <3>2 DEF GapTo
    <3>5. clock' = (Packets[Now].time - Advance + cnt) + k + gap
      BY <2>1, <2>2
    <3>6. Packets[Now].time \in Int /\ meta[next_buffer].time \in Int
      BY <3>2, <3>3, SMTT(60)
    <3>7. Advance \in Int /\ cnt \in Int /\ length \in Int /\ gap \in Int /\ k \in Int
      BY <1>s, <1>t
    <3>8. cnt + k = length
      BY <2>3
    <3>9. (Packets[Now].time - Advance + cnt) + k + gap = meta[next_buffer].time - Advance
      <4>1. PICK t \in Int, u \in Int : t = Packets[Now].time /\ u = meta[next_buffer].time
        BY <3>6
      <4>2. gap = u - (t + length)
        BY <3>4, <4>1
      <4>3. (t - Advance + cnt) + k + gap = u - Advance
        BY <3>7, <3>8, <4>2, SMTT(30)
      <4> QED  BY <4>1, <4>3
    <3> QED  BY <3>5, <3>9
  <2>7. Clock' /\ SendTypes'
    BY <1>t, <2>1, <2>2, <2>3, <2>5, <2>6 DEF Clock, SendTypes, Written
  <2>8. Progressing'
    BY <2>1, <2>2, <2>4 DEF Progressing, Complete, Due
  <2> QED  BY <2>1, <2>4, <2>7, <2>8, SamePool
<1>8. CASE ReleaseBuffer
  <2>1. /\ tpc = "release" /\ tpc' = "uncount"
        /\ UNCHANGED <<expected, current, next_buffer, gap, length, cnt, clock, sent>>
    BY <1>8 DEF ReleaseBuffer
  <2>2. next_buffer # None => meta'[next_buffer] = meta[next_buffer]
    <3>1. next_buffer # None => next_buffer \in Buffer /\ next_buffer # current
      BY <2>1 DEF IInv, Types, PoolTypes, ThreadTypes, Holds
    <3> QED  BY <1>8, <3>1 DEF ReleaseBuffer, Release, IInv, Types, PoolTypes, ThreadTypes
  <2>3. Clock' /\ SendTypes'
    BY <2>1, <2>2 DEF Clock, SendTypes
  <2>4. Progressing' /\ SentAsAsked'
    BY <2>1 DEF Progressing, Complete, Due, Last, SentAsAsked, SamplesOnTime, PacketsInOrder
  <2>5. PoolInv'
    <3>1. inner[current] /\ Written(current, Packets[content[current].packet].len)
      BY <2>1 DEF IInv, Holds, Clock, Now
    <3> QED  BY <1>8, <1>t, <3>1, ReleasePool DEF ReleaseBuffer, IInv, Types
  <2> QED  BY <2>3, <2>4, <2>5
<1>9. CASE Uncount
  <2>1. /\ UNCHANGED <<locks, streams, workers>> /\ tpc = "uncount" /\ tpc' \in {"loop", "packet"}
        /\ tpc' = "packet" => next_buffer # None /\ current' = next_buffer
        /\ UNCHANGED <<expected, gap, length, cnt, clock, sent>>
    BY <1>9 DEF Uncount
  <2>2. tpc' = "packet" => clock' = Packets[Now'].time - Advance
    <3> SUFFICES ASSUME tpc' = "packet" PROVE clock' = Packets[Now'].time - Advance
      OBVIOUS
    <3>1. next_buffer # None /\ next_buffer \in Buffer /\ inner[next_buffer]
      BY <2>1 DEF IInv, Types, PoolTypes, ThreadTypes, Holds
    <3>2. clock = meta[next_buffer].time - Advance
      BY <2>1, <3>1 DEF Clock
    <3>3. Now' = content[next_buffer].packet
      BY <2>1 DEF Now, streams
    <3> QED  BY <2>1, <3>1, <3>2, <3>3, CurrentPacket
  <2>3. Clock' /\ SendTypes'
    BY <2>1, <2>2 DEF Clock, SendTypes
  <2>4. Progressing' /\ SentAsAsked'
    BY <2>1 DEF Progressing, Complete, Due, Last, SentAsAsked, SamplesOnTime, PacketsInOrder
  <2> QED  BY <2>1, <2>3, <2>4, SamePool
<1> QED  BY <1>1, <1>2, <1>3, <1>4, <1>5, <1>6, <1>7, <1>8, <1>9 DEF TxStep

(* work_tx() of the USRP radio: whatever the firmware asks for, every sample leaves
   the radio at its time, and packets are sent completely and in the order of their
   ids, in bursts or one by one, while workers still write the samples to come. *)
THEOREM SentAsAskedHolds == Spec => []SentAsAsked
<1>1. Init => IInv /\ SendInv
  BY InitIInv, InitSend, PoolAssumption, UsrpAssumption
<1>2. IInv /\ SendInv /\ [Next]_vars => IInv' /\ SendInv'
  <2> SUFFICES ASSUME IInv, SendInv, [Next]_vars PROVE IInv' /\ SendInv'
    OBVIOUS
  <2>1. IInv'
    BY NextIInv, PoolAssumption
  <2>2. SendInv'
    BY WorkerSend, RadioSend, PoolAssumption, UsrpAssumption DEF Next, Terminated
  <2> QED  BY <2>1, <2>2
<1>3. SendInv => SentAsAsked
  BY DEF SendInv
<1> QED  BY <1>1, <1>2, <1>3, PTL DEF Spec

-----------------------------------------------------------------------------
(***************************************************************************)
(* The simulated radio shares the pool and the workers with the USRP       *)
(* radio.  Its TX thread counts the samples of a packet across several spp *)
(* and lets the next packet begin in the spp in which the last one ends.   *)
(***************************************************************************)
\* The packet whose id is expected.
DuePacket == order_id + 1

\* What has been written and what is being put together.
Line == chunks \o spp
Latest == Line[Len(Line)]

\* Nothing but whole packets, the latest being the one before the one that is due ...
Between == IF Line = <<>> THEN order_id = 0
                          ELSE Latest.packet = order_id /\ Latest.to = Packets[order_id].len

\* ... or the first cnt samples of the one that is due.
Within == Line # <<>> /\ Latest.packet = DuePacket /\ Latest.to = pcnt

\* Where the samples that were put last have ended.
Front == EndOf(Latest)

\* The counter still is that of the packet before the one that is due.
Stale == Line # <<>> /\ Between /\ pcnt = Packets[order_id].len

\* The packet that is due is not asked for too late.
NotBefore(t) == DuePacket \in 1 .. taken /\ DuePacket \notin dropped => Packets[DuePacket].time >= t

\* The buffer that is read contains the packet that is due.
Reading ==
    /\ idx \in Buffer /\ inner[idx] /\ meta[idx].order = order_id
    /\ plen = Packets[DuePacket].len /\ time = Packets[DuePacket].time

SimulatorTypes ==
    /\ spc \in {"loop", "silent", "zeros", "samples", "uncount", "order", "ahead", "joined", "write"}
    /\ order_id \in Nat /\ idx \in Buffer \cup {None}
    /\ plen \in Int /\ time \in Int /\ zeros \in Int /\ offset \in Int /\ this \in Int /\ pcnt \in Int
    /\ now \in Nat /\ \E k \in Nat : now = k * SppSize
    /\ chunks \in Seq(Chunks) /\ spp \in Seq(Chunks)

\* Where the next sample goes, and what is left of the packet.
Searching ==
    /\ spc \in {"loop", "silent", "zeros"} => Between /\ spp = <<>>
    /\ spc = "loop" => NotBefore(now)
    /\ spc = "silent" => NotBefore(now + SppSize)
    /\ spc = "zeros" => Reading /\ zeros >= 0 /\ now + zeros * SppSize <= time
                                /\ time < now + zeros * SppSize + SppSize
Putting ==
    /\ spc = "samples" =>
           /\ Reading /\ offset >= 0 /\ offset < SppSize /\ pcnt >= 0 /\ pcnt < plen
           /\ now + offset <= time + pcnt
           /\ \/ pcnt = 0 /\ Between /\ now + offset = time
              \/ Within /\ now + offset = Front
              \/ Stale /\ now + offset <= time /\ Front < now + offset /\ now + offset < Front + SppSize
    /\ spc = "joined" => /\ Reading /\ offset >= 0 /\ offset < SppSize /\ now + offset = time /\ Between
Ending ==
    /\ spc \in {"uncount", "order"} =>
           /\ Within /\ pcnt = Packets[DuePacket].len /\ plen = pcnt /\ idx \in Buffer
           /\ now + offset + this = Front /\ Front <= Packets[DuePacket].time + Packets[DuePacket].len
           /\ offset + this > 0 /\ offset + this <= SppSize
    /\ spc = "ahead" =>
           /\ Stale /\ plen = pcnt
           /\ now + offset + this = Front /\ Front <= Packets[order_id].time + Packets[order_id].len
           /\ offset + this > 0 /\ offset + this < SppSize
    /\ spc = "write" =>
           IF pcnt < plen
           THEN /\ Reading /\ pcnt >= 0 /\ now + SppSize <= time + pcnt
                /\ \/ Within /\ now + SppSize = Front
                   \/ /\ Stale /\ now + SppSize <= time
                      /\ Front < now + SppSize /\ now + SppSize < Front + SppSize
           ELSE Between /\ NotBefore(now + SppSize)

\* A packet is given to one worker, and is dropped or gets one buffer.
Issued ==
    /\ dropped \subseteq 1 .. taken
    /\ \A w \in Worker : pc[w] # "idle" => packet[w] \in 1 .. taken /\ packet[w] \notin dropped
    /\ \A v, w \in Worker : v # w /\ pc[v] # "idle" /\ pc[w] # "idle" => packet[v] # packet[w]
    /\ \A b \in Buffer : inner[b] =>
           /\ content[b].packet \in 1 .. taken /\ content[b].packet \notin dropped
           /\ \A w \in Worker : pc[w] \in {"scan", "announce"} => packet[w] # content[b].packet

\* No buffer, not even one that was released, names another id for the next packet.
NoOtherIds == \A b \in Buffer : meta[b].next = None

BufferInv == PoolTypes /\ Owners /\ PoolInv /\ Issued /\ NoOtherIds

SimulatorInv == BufferInv /\ SimulatorTypes /\ Searching /\ Putting /\ Ending /\ AsAskedOrCut(Line)

-----------------------------------------------------------------------------

\* No two workers and buffers have the same packet.
LEMMA IssuedKept ==
    ASSUME PoolAssumption, PoolTypes, Owners, PoolInv, Issued, NEW w \in Worker, Take(w) \/ Generate(w)
    PROVE  Issued'
<1> USE DEF PoolTypes, Issued, Goto
<1>1. CASE Take(w)
  <2>1. /\ taken \in Nat /\ taken' = taken + 1 /\ packet' = [packet EXCEPT ![w] = taken + 1]
        /\ pc' = [pc EXCEPT ![w] = "scan"] /\ UNCHANGED <<inner, content, dropped>>
    BY <1>1 DEF Take, locks, streams, PoolAssumption
  <2>2. taken + 1 \notin 1 .. taken /\ 1 .. taken \subseteq 1 .. taken' /\ taken + 1 \in 1 .. taken'
    BY <2>1
  <2>3. \A v \in Worker : v # w => pc'[v] = pc[v] /\ packet'[v] = packet[v]
    BY <2>1
  <2>4. pc'[w] = "scan" /\ packet'[w] = taken + 1
    BY <2>1
  <2> HIDE DEF PoolTypes
  <2> QED  BY <2>1, <2>2, <2>3, <2>4
<1>2. CASE TryLock(w)
  <2>1. /\ pc[w] = "scan" /\ UNCHANGED <<inner, packet, taken>>
        /\ \A v \in Worker : v # w => pc'[v] = pc[v]
    BY <1>2 DEF TryLock
  <2>2. CASE ~outer[buffer[w]]
    <3>1. /\ UNCHANGED dropped /\ pc'[w] = "announce"
          /\ \A b \in Buffer : b # buffer[w] => content'[b] = content[b]
      BY <1>2, <2>2 DEF TryLock, PoolInv, SampleTypes
    <3>2. \A b \in Buffer : inner[b] => b # buffer[w]
      BY <2>2 DEF Owners
    <3>3. ASSUME NEW b \in Buffer, inner[b]
          PROVE  /\ content'[b].packet \in 1 .. taken /\ content'[b].packet \notin dropped
                 /\ \A v \in Worker : pc'[v] \in {"scan", "announce"} => packet[v] # content'[b].packet
      <4>1. content'[b] = content[b]
        BY <3>1, <3>2, <3>3
      <4> QED  BY <2>1, <3>3, <4>1, SMTT(60)
    <3>4. \A v \in Worker : pc'[v] # "idle" => pc[v] # "idle"
      BY <2>1
    <3> HIDE DEF PoolTypes
    <3> QED  BY <2>1, <3>1, <3>3, <3>4
  <2>3. CASE outer[buffer[w]]
    <3>1. content' = content
      BY <1>2, <2>3 DEF TryLock
    <3>2. CASE dropped' = dropped /\ pc' = pc
      BY <2>1, <3>1, <3>2
    <3>3. CASE dropped' = dropped \cup {packet[w]} /\ pc'[w] = "idle"
      <4>1. packet[w] \in 1 .. taken /\ dropped' \subseteq 1 .. taken
        BY <2>1, <3>3
      <4>2. \A v \in Worker : v # w /\ pc[v] # "idle" => packet[v] \notin dropped'
        BY <2>1, <3>3
      <4>3. \A b \in Buffer : inner[b] => content[b].packet \notin dropped'
        BY <2>1, <3>3
      <4> HIDE DEF PoolTypes
      <4> QED  BY <2>1, <3>1, <3>3, <4>1, <4>2, <4>3
    <3>4. \/ dropped' = dropped /\ pc' = pc
          \/ dropped' = dropped \cup {packet[w]} /\ pc'[w] = "idle"
      BY <1>2, <2>3 DEF TryLock
    <3> QED  BY <3>2, <3>3, <3>4
  <2> QED  BY <2>2, <2>3
<1>3. CASE Announce(w)
  <2>1. /\ pc[w] = "announce" /\ pc'[w] = "count" /\ inner' = [inner EXCEPT ![buffer[w]] = TRUE]
        /\ \A v \in Worker : v # w => pc'[v] = pc[v]
        /\ UNCHANGED <<content, packet, taken, dropped>>
    BY <1>3 DEF Announce
  <2>2. content[buffer[w]].packet = packet[w]
    BY <2>1 DEF PoolInv, Fillers, Busy, Filling
  <2>3. \A b \in Buffer : inner'[b] => inner[b] \/ b = buffer[w]
    BY <2>1
  <2>4. \A b \in Buffer : inner'[b] =>
           /\ content'[b].packet \in 1 .. taken' /\ content'[b].packet \notin dropped'
           /\ \A v \in Worker : pc'[v] \in {"scan", "announce"} => packet'[v] # content'[b].packet
    <3> SUFFICES ASSUME NEW b \in Buffer, inner'[b]
                 PROVE  /\ content[b].packet \in 1 .. taken /\ content[b].packet \notin dropped
                        /\ \A v \in Worker : v # w /\ pc[v] \in {"scan", "announce"} =>
                               packet[v] # content[b].packet
      BY <2>1
    <3> QED  BY <2>1, <2>2, <2>3, SMTT(60)
  <2> QED  BY <2>1, <2>4, SMTT(60)
<1>4. CASE Count(w) \/ Notify(w) \/ Fill(w) \/ Publish(w)
  <2>1. /\ pc[w] \notin {"idle", "scan", "announce"} /\ pc'[w] \notin {"scan", "announce"}
        /\ \A v \in Worker : v # w => pc'[v] = pc[v]
        /\ UNCHANGED <<inner, packet, taken, dropped>>
    BY <1>4, ZenonT(60) DEF Count, Notify, Fill, Publish, locks
  <2>2. \A b \in Buffer : inner[b] => content'[b].packet = content[b].packet
    <3>1. CASE Fill(w)
      <4>1. content[buffer[w]].packet = packet[w]
        BY <3>1 DEF Fill, PoolInv, Fillers, Busy, Filling
      <4> QED  BY <3>1, <4>1 DEF Fill, Content, PoolInv, SampleTypes
    <3>2. CASE Count(w) \/ Notify(w) \/ Publish(w)
      BY <3>2 DEF Count, Notify, Publish, streams
    <3> QED  BY <1>4, <3>1, <3>2
  <2>3. \A v \in Worker : pc'[v] # "idle" => pc[v] # "idle"
    BY <2>1
  <2>4. dropped' \subseteq 1 .. taken'
    BY <2>1
  <2>5. \A v \in Worker : pc'[v] # "idle" => packet'[v] \in 1 .. taken' /\ packet'[v] \notin dropped'
    BY <2>1, <2>3
  <2>6. \A u, v \in Worker : u # v /\ pc'[u] # "idle" /\ pc'[v] # "idle" => packet'[u] # packet'[v]
    BY <2>1, <2>3
  <2>7. \A b \in Buffer : inner'[b] =>
           /\ content'[b].packet \in 1 .. taken' /\ content'[b].packet \notin dropped'
           /\ \A v \in Worker : pc'[v] \in {"scan", "announce"} => packet'[v] # content'[b].packet
    <3> SUFFICES ASSUME NEW b \in Buffer, inner'[b]
                 PROVE  /\ content'[b].packet \in 1 .. taken' /\ content'[b].packet \notin dropped'
                        /\ \A v \in Worker : pc'[v] \in {"scan", "announce"} =>
                               packet'[v] # content'[b].packet
      OBVIOUS
    <3>1. /\ content[b].packet \in 1 .. taken /\ content[b].packet \notin dropped
          /\ \A v \in Worker : pc[v] \in {"scan", "announce"} => packet[v] # content[b].packet
      BY <2>1
    <3>2. \A v \in Worker : pc'[v] \in {"scan", "announce"} => pc[v] \in {"scan", "announce"}
      BY <2>1
    <3>3. content'[b].packet = content[b].packet
      BY <2>1, <2>2
    <3> QED  BY <2>1, <3>1, <3>2, <3>3
  <2> QED  BY <2>4, <2>5, <2>6, <2>7
<1> QED  BY <1>1, <1>2, <1>3, <1>4 DEF Generate

\* What a plan says of a packet and of the next one.
LEMMA PlannedPacket ==
    ASSUME PoolAssumption, Planned, NEW n \in Packet
    PROVE  /\ Packets[n].order = n - 1 /\ Packets[n].next = None /\ Follower(n) = n
           /\ n \in Nat /\ n > 0
           /\ n + 1 \in Packet => Packets[n + 1].time >= Packets[n].time + Packets[n].len
<1>1. Packets[n].order = n - 1 /\ Packets[n].next = None
  BY DEF Planned
<1>2. n + 1 \in Packet => Packets[n + 1].time >= Packets[n].time + Packets[n].len
  BY DEF Planned, End
<1>3. n \in Nat /\ n > 0
  BY DEF Packet, PoolAssumption
<1> QED  BY <1>1, <1>2, <1>3 DEF Follower

LEMMA EndType ==
    ASSUME PoolAssumption, NEW n \in Packet
    PROVE  /\ Packets[n].time \in Int /\ Packets[n].len \in Int
           /\ Packets[n].time + Packets[n].len \in Int
<1>1. Packets[n].time \in Int /\ Packets[n].len \in Int
  BY PacketFields
<1>2. \A a, b \in Int : a + b \in Int
  OBVIOUS
<1> QED  BY <1>1, <1>2, Zenon

LEMMA NextIds ==
    ASSUME PoolAssumption, Planned, NEW n \in Packet
    PROVE  Meta(n).next = None
BY PlannedPacket, MetaType

\* What the workers do keeps the buffers consistent.
LEMMA WorkerBuffers ==
    ASSUME PoolAssumption, Planned, BufferInv, NEW w \in Worker, Take(w) \/ Generate(w)
    PROVE  BufferInv' /\ Stable
<1>1. PoolTypes' /\ Owners' /\ PoolInv' /\ Issued' /\ Stable
  BY PoolTypesKept, OwnersKept, WorkerPool, IssuedKept DEF BufferInv
<1>2. NoOtherIds'
  <2>1. CASE Announce(w)
    <3>1. packet[w] \in Packet /\ meta' = [meta EXCEPT ![buffer[w]] = Meta(packet[w])]
      BY <2>1 DEF Announce, BufferInv, Owners
    <3>2. \A b \in Buffer : meta'[b] = meta[b] \/ meta'[b] = Meta(packet[w])
      BY <3>1 DEF BufferInv, PoolTypes
    <3> QED  BY <3>1, <3>2, NextIds DEF BufferInv, NoOtherIds
  <2>2. CASE ~Announce(w)
    <3>1. meta' = meta
      BY <2>2 DEF Take, Generate, TryLock, Count, Notify, Fill, Publish, streams
    <3> QED  BY <3>1 DEF BufferInv, NoOtherIds
  <2> QED  BY <2>1, <2>2
<1> QED  BY <1>1, <1>2 DEF BufferInv

\* So does a release.
LEMMA ReleaseBuffers ==
    ASSUME PoolAssumption, BufferInv, NEW r \in Buffer, inner[r],
           Written(r, Packets[content[r].packet].len), Release(r),
           new_cnt' \in Int, asleep' \in BOOLEAN, UNCHANGED workers
    PROVE  BufferInv'
<1>1. PoolTypes' /\ Owners' /\ PoolInv'
  BY ReleaseTypes, ReleaseOwners, ReleasePool DEF BufferInv
<1>2. \A b \in Buffer : inner'[b] => inner[b]
  BY DEF Release, BufferInv, PoolTypes
<1>3. Issued'
  BY <1>2 DEF Release, BufferInv, Issued, workers
<1>4. NoOtherIds'
  <2>1. \A b \in Buffer : meta[b] \in MetaData
    BY DEF BufferInv, PoolTypes
  <2>2. \A b \in Buffer : meta'[b].next = meta[b].next
    BY <2>1 DEF Release, MetaData, BufferInv, PoolTypes
  <2> QED  BY <2>2 DEF BufferInv, NoOtherIds
<1> QED  BY <1>1, <1>3, <1>4 DEF BufferInv

LEMMA SameBuffers ==
    ASSUME BufferInv, UNCHANGED <<locks, streams, asleep, workers>>, new_cnt' \in Int
    PROVE  BufferInv'
<1>1. PoolInv'
  BY SamePool DEF BufferInv
<1>2. PoolTypes' /\ Owners' /\ Issued' /\ NoOtherIds'
  BY DEF BufferInv, PoolTypes, Owners, Issued, NoOtherIds, locks, streams, workers
<1> QED  BY <1>1, <1>2 DEF BufferInv

-----------------------------------------------------------------------------

\* Whole spp before a packet, and the samples that are left.
LEMMA Quotient ==
    ASSUME NEW d \in Nat, NEW s \in Nat \ {0}
    PROVE  /\ d \div s \in Nat
           /\ (d \div s) * s <= d /\ d < (d \div s) * s + s
           /\ d % s = d - (d \div s) * s
OBVIOUS

LEMMA ProductType ==
    ASSUME NEW a \in Nat, NEW b \in Nat
    PROVE  a * b \in Nat
OBVIOUS

LEMMA OneLess ==
    ASSUME NEW z \in Nat \ {0}, NEW s \in Nat
    PROVE  z - 1 \in Nat /\ (z - 1) * s + s = z * s
OBVIOUS

\* The buffer the thread finds contains the packet that is due.
LEMMA DueBuffer ==
    ASSUME PoolAssumption, BufferInv, Planned, order_id \in Nat,
           NEW b \in Buffer, inner[b], meta[b].order = order_id
    PROVE  /\ DuePacket \in Packet /\ content[b].packet = DuePacket
           /\ tx_length[b] = Packets[DuePacket].len /\ meta[b].time = Packets[DuePacket].time
           /\ meta[b].next = None
           /\ DuePacket \in 1 .. taken /\ DuePacket \notin dropped
<1>1. /\ content[b].packet \in Packet
      /\ meta[b].time = Packets[content[b].packet].time
      /\ meta[b].order = Packets[content[b].packet].order
      /\ meta[b].next = Packets[content[b].packet].next
      /\ tx_length[b] = Packets[content[b].packet].len
  BY CurrentPacket DEF BufferInv
<1>2. content[b].packet = DuePacket
  BY <1>1, PlannedPacket, SMTT(60) DEF DuePacket
<1>3. content[b].packet \in 1 .. taken /\ content[b].packet \notin dropped
  BY DEF BufferInv, Issued
<1> QED  BY <1>1, <1>2, <1>3, PlannedPacket

-----------------------------------------------------------------------------

\* The line grows by a chunk, and is moved into the virtual space.
LEMMA LineGrows ==
    ASSUME chunks \in Seq(Chunks), spp \in Seq(Chunks), NEW c \in Chunks,
           spp' = Append(spp, c), chunks' = chunks
    PROVE  /\ spp' \in Seq(Chunks) /\ Line \in Seq(Chunks) /\ Line' = Append(Line, c)
           /\ Line' # <<>> /\ Latest' = c
<1>1. spp' \in Seq(Chunks) /\ Line \in Seq(Chunks) /\ <<c>> \in Seq(Chunks)
  BY AppendProperties, ConcatProperties DEF Line
<1>2. Line' = Append(Line, c)
  <2>1. spp' = spp \o <<c>>
    BY AppendIsConcat
  <2>2. (chunks \o spp) \o <<c>> = chunks \o (spp \o <<c>>)
    BY <1>1, ConcatAssociative, SMTT(60)
  <2>3. Append(Line, c) = Line \o <<c>>
    BY <1>1, AppendIsConcat
  <2> QED  BY <2>1, <2>2, <2>3 DEF Line
<1>3. /\ Line' # <<>> /\ Len(Line') = Len(Line) + 1 /\ Line'[Len(Line) + 1] = c
  BY <1>1, <1>2, AppendProperties
<1> QED  BY <1>1, <1>2, <1>3 DEF Latest

LEMMA LineMoves ==
    ASSUME chunks \in Seq(Chunks), spp \in Seq(Chunks), chunks' = chunks \o spp, spp' = <<>>
    PROVE  chunks' \in Seq(Chunks) /\ spp' \in Seq(Chunks) /\ Line' = Line
<1>1. chunks' \in Seq(Chunks) /\ spp' \in Seq(Chunks)
  BY ConcatProperties, EmptySeq
<1> QED  BY <1>1, ConcatEmptySeq DEF Line

\* What is true of the line is true of what is in the virtual space.
LEMMA LineIsSent ==
    ASSUME chunks \in Seq(Chunks), spp \in Seq(Chunks), AsAskedOrCut(Line)
    PROVE  AsAskedOrCut(chunks)
<1>1. /\ Len(chunks) \in Nat /\ Len(spp) \in Nat /\ DOMAIN chunks = 1 .. Len(chunks)
      /\ Len(Line) = Len(chunks) + Len(spp) /\ DOMAIN Line = 1 .. Len(chunks) + Len(spp)
      /\ \A i \in 1 .. Len(chunks) + Len(spp) : i <= Len(chunks) => Line[i] = chunks[i]
  BY ConcatProperties, LenProperties DEF Line
<1>2. \A i \in DOMAIN chunks : /\ i \in DOMAIN Line /\ Line[i] = chunks[i]
                               /\ i # 1 => Line[i - 1] = chunks[i - 1]
  BY <1>1
<1> QED  BY <1>2, ZenonT(60) DEF AsAskedOrCut

\* A chunk that begins the packet that is due, goes on with it or cuts it.
LEMMA LineContinues ==
    ASSUME PoolAssumption, Planned, NEW s \in Seq(Chunks), AsAskedOrCut(s), NEW c \in Chunks,
           order_id \in Nat, DuePacket \in Packet, c.packet = DuePacket,
           \/ /\ Starts(c)
              /\ IF s = <<>> THEN order_id = 0
                 ELSE s[Len(s)].packet = order_id /\ s[Len(s)].to = Packets[order_id].len
           \/ /\ s # <<>> /\ c.from < Packets[DuePacket].len /\ GoesOn(s[Len(s)], c)
           \/ /\ s # <<>> /\ s[Len(s)].packet = order_id /\ s[Len(s)].to = Packets[order_id].len
              /\ CutOff(s[Len(s)], c)
    PROVE  AsAskedOrCut(Append(s, c))
<1> DEFINE n == Len(s)
           r == Append(s, c)
           Right(a, i) ==
               /\ a[i].packet # 0
               /\ IF i = 1 THEN Packets[a[i].packet].order = 0 /\ Starts(a[i])
                  ELSE IF a[i - 1].to < Packets[a[i - 1].packet].len THEN GoesOn(a[i - 1], a[i])
                       ELSE /\ Packets[a[i].packet].order = Follower(a[i - 1].packet)
                            /\ Starts(a[i]) \/ CutOff(a[i - 1], a[i])
<1>1. /\ n \in Nat /\ DOMAIN s = 1 .. n /\ r \in Seq(Chunks) /\ DOMAIN r = 1 .. n + 1
      /\ \A i \in 1 .. n : r[i] = s[i]
  BY AppendProperties, LenProperties
<1>2. r[n + 1] = c
  BY AppendProperties
<1>3. s # <<>> => n \in 1 .. n /\ s[n] \in Chunks
  BY EmptySeq, LenProperties, SMTT(60)
<1>4. n = 0 <=> s = <<>>
  BY EmptySeq
<1>5. DuePacket # 0 /\ Packets[DuePacket].order = order_id
  <2>1. Packets[DuePacket].order = DuePacket - 1 /\ DuePacket > 0 /\ DuePacket \in Nat
    BY PlannedPacket
  <2> QED  BY <2>1 DEF DuePacket
<1>s. \A i \in 1 .. n : Right(s, i)
  BY <1>1 DEF AsAskedOrCut
<1>r. (\A i \in 1 .. n + 1 : Right(r, i)) => AsAskedOrCut(r)
  BY <1>1 DEF AsAskedOrCut
<1> HIDE DEF r
<1> SUFFICES ASSUME NEW i \in 1 .. n + 1 PROVE Right(r, i)
  BY <1>r DEF r
<1>6. CASE i \in 1 .. n
  <2>1. r[i] = s[i] /\ (i # 1 => r[i - 1] = s[i - 1])
    <3>1. n \in Nat
      BY <1>1
    <3> HIDE DEF n
    <3>2. i # 1 => i - 1 \in 1 .. n
      BY <1>6, <3>1
    <3> QED  BY <1>1, <1>6, <3>2
  <2>2. Right(s, i)
    BY <1>s, <1>6
  <2> QED  BY <2>1, <2>2
<1>7. CASE i = n + 1
  <2>1. r[i] = c /\ (i = 1 <=> s = <<>>)
    BY <1>1, <1>2, <1>4, <1>7, SMTT(60)
  <2>2. i # 1 => r[i - 1] = s[n] /\ s[n].packet \in Packet /\ s[n].to \in Nat
    BY <1>1, <1>3, <1>7, <2>1, SMTT(60) DEF Chunks
  <2>3. CASE s = <<>>
    BY <1>5, <2>1, <2>3
  <2>4. CASE /\ s # <<>> /\ s[n].packet = order_id /\ s[n].to = Packets[order_id].len
             /\ Starts(c) \/ CutOff(s[n], c)
    <3>1. ~(s[n].to < Packets[s[n].packet].len) /\ Follower(s[n].packet) = order_id
      BY <2>1, <2>2, <2>4, PlannedPacket, SMTT(60)
    <3> QED  BY <1>5, <2>1, <2>2, <2>4, <3>1
  <2>5. CASE s # <<>> /\ c.from < Packets[DuePacket].len /\ GoesOn(s[n], c)
    <3>1. s[n].to < Packets[s[n].packet].len
      BY <2>5 DEF GoesOn
    <3> QED  BY <1>5, <2>1, <2>2, <2>5, <3>1
  <2> QED  BY <2>3, <2>4, <2>5
<1> QED  BY <1>6, <1>7, SMTT(60)

-----------------------------------------------------------------------------

\* What the steps rely on.
SimulatorFacts == PoolAssumption /\ SimulatorAssumption /\ Planned

LEMMA SppType ==
    ASSUME SimulatorFacts
    PROVE  /\ SppSize \in Nat \ {0} /\ SppSize > 0 /\ Turnaround \in Nat /\ Turnaround >= SppSize
           /\ \A n \in Packet : SppSize < Packets[n].len
BY DEF SimulatorFacts, SimulatorAssumption

\* Initially nothing has been written.
LEMMA InitSimulator == ASSUME SimulatorFacts, SimulatorInit PROVE SimulatorInv
<1> USE DEF SimulatorInit, PoolInit
<1>1. PoolTypes
  <2>1. 0 \in Buffer
    BY DEF SimulatorFacts, Buffer, PoolAssumption
  <2>2. taken \in 0 .. Len(Packets)
    BY DEF SimulatorFacts, PoolAssumption
  <2>3. meta \in [Buffer -> MetaData]
    BY DEF MetaData, None
  <2>4. outer \in [Buffer -> BOOLEAN] /\ inner \in [Buffer -> BOOLEAN]
    OBVIOUS
  <2>5. /\ pc \in [Worker -> {"idle", "scan", "announce", "count", "notify", "fill", "publish"}]
        /\ packet \in [Worker -> Packet \cup {0}] /\ buffer \in [Worker -> Buffer]
    BY <2>1
  <2>6. new_cnt \in Int
    OBVIOUS
  <2>7. asleep \in BOOLEAN
    OBVIOUS
  <2> QED  BY <2>2, <2>3, <2>4, <2>5, <2>6, <2>7 DEF PoolTypes
<1>2. \A b \in Buffer : ~inner[b] /\ tx_cnt[b] = 0
  OBVIOUS
<1>3. Owners /\ Issued /\ NoOtherIds
  <2>1. NoOtherIds
    BY DEF NoOtherIds
  <2> QED  BY <1>2, <2>1 DEF Owners, Issued
<1>4. PoolInv
  <2>1. /\ content = [b \in Buffer |-> [packet |-> 0, samples |-> 0]]
        /\ tx_length = [b \in Buffer |-> 0] /\ tx_cnt = [b \in Buffer |-> 0]
        /\ written = [w \in Worker |-> 0]
    BY DEF Content
  <2>2. SampleTypes
    BY <2>1 DEF SampleTypes
  <2>3. Fillers
    BY DEF Fillers, Busy
  <2>4. Faithful
    BY <1>2, <2>1 DEF Faithful
  <2> QED  BY <2>2, <2>3, <2>4 DEF PoolInv
<1>5. Line = <<>>
  BY ConcatEmptySeq, EmptySeq DEF Line
<1>6. SimulatorTypes
  <2>1. 0 = 0 * SppSize
    BY SppType
  <2> QED  BY <2>1, EmptySeq DEF SimulatorTypes, None
<1>7. Searching /\ Putting /\ Ending
  <2>1. NotBefore(now)
    BY <1>1 DEF NotBefore, PoolTypes
  <2> QED  BY <1>5, <2>1 DEF Searching, Putting, Ending, Between
<1>8. AsAskedOrCut(Line)
  BY <1>5 DEF AsAskedOrCut
<1> QED  BY <1>1, <1>3, <1>4, <1>6, <1>7, <1>8 DEF SimulatorInv, BufferInv

\* The firmware plans ahead.
LEMMA PlansAhead ==
    ASSUME SimulatorFacts, SimulatorInv, NEW w \in Worker,
           AskForPacket(w) \/ KeepGenerating(w)
    PROVE  /\ NotBefore(now) => NotBefore(now)'
           /\ NotBefore(now + SppSize) => NotBefore(now + SppSize)'
<1>1. now' = now /\ order_id' = order_id /\ DuePacket' = DuePacket
  BY DEF AskForPacket, KeepGenerating, spp_vars, DuePacket
<1>2. CASE AskForPacket(w)
  <2>1. /\ taken' = taken + 1 /\ dropped' = dropped /\ Packets[taken + 1].time >= now + Turnaround
        /\ taken + 1 \in Packet /\ taken \in Nat
    BY <1>2 DEF AskForPacket, Take, SimulatorInv, BufferInv, PoolTypes, Packet,
                SimulatorFacts, PoolAssumption
  <2>2. Packets[taken + 1].time \in Nat
    BY <2>1, PacketFields DEF SimulatorFacts
  <2>3. now \in Nat /\ Turnaround \in Nat /\ Turnaround >= SppSize /\ SppSize \in Nat
    BY SppType DEF SimulatorInv, SimulatorTypes
  <2>4. Packets[taken + 1].time >= now /\ Packets[taken + 1].time >= now + SppSize
    BY <2>1, <2>2, <2>3
  <2>5. DuePacket \in 1 .. taken' => DuePacket \in 1 .. taken \/ DuePacket = taken + 1
    BY <2>1
  <2> QED  BY <1>1, <2>1, <2>4, <2>5 DEF NotBefore
<1>3. CASE KeepGenerating(w)
  <2>1. Generate(w)
    BY <1>3 DEF KeepGenerating
  <2>2. taken' = taken /\ dropped \subseteq dropped'
    BY <2>1 DEF Generate, TryLock, Announce, Count, Notify, Fill, Publish
  <2> QED  BY <1>1, <2>2 DEF NotBefore
<1> QED  BY <1>2, <1>3

\* While workers go on nothing changes for the thread.
LEMMA SimulatorWorker ==
    ASSUME SimulatorFacts, SimulatorInv, NEW w \in Worker,
           AskForPacket(w) \/ KeepGenerating(w)
    PROVE  SimulatorInv'
<1>1. Take(w) \/ Generate(w)
  BY DEF AskForPacket, KeepGenerating
<1>2. BufferInv' /\ Stable
  BY <1>1, WorkerBuffers DEF SimulatorInv, SimulatorFacts
<1>3. UNCHANGED <<spc, order_id, idx, plen, time, zeros, offset, this, pcnt, now, spp, chunks>>
  BY DEF AskForPacket, KeepGenerating, spp_vars
<1>4. Reading => Reading'
  BY <1>2, <1>3 DEF Reading, Stable, DuePacket
<1>5. /\ Line' = Line /\ Latest' = Latest /\ Front' = Front
      /\ (Between' <=> Between) /\ (Within' <=> Within) /\ (Stale' <=> Stale)
  BY <1>3 DEF Line, Latest, Front, Between, Within, Stale, DuePacket, Front, Stale
<1>6. SimulatorTypes' /\ AsAskedOrCut(Line)'
  BY <1>3, <1>5 DEF SimulatorInv, SimulatorTypes, AsAskedOrCut
<1>7. Searching' /\ Putting' /\ Ending'
  <2>1. Searching'
    BY <1>3, <1>4, <1>5, PlansAhead DEF SimulatorInv, Searching
  <2>2. Putting'
    BY <1>3, <1>4, <1>5 DEF SimulatorInv, Putting
  <2>3. Ending'
    BY <1>3, <1>4, <1>5, PlansAhead DEF SimulatorInv, Ending, DuePacket
  <2> QED  BY <2>1, <2>2, <2>3
<1> QED  BY <1>2, <1>6, <1>7 DEF SimulatorInv

\* The thread, step by step.  First, without a packet and up to its first sample.
LEMMA SearchStep ==
    ASSUME SimulatorFacts, SimulatorInv,
           FindExpected \/ WriteSilence \/ WriteZeros
    PROVE  SimulatorInv'
<1> USE DEF SimulatorInv
<1>f. PoolAssumption /\ SppSize \in Nat \ {0} /\ SppSize > 0
  BY SppType DEF SimulatorFacts
<1>t. /\ order_id \in Nat /\ now \in Nat /\ zeros \in Int /\ time \in Int /\ pcnt \in Int
      /\ chunks \in Seq(Chunks) /\ spp \in Seq(Chunks)
  BY DEF SimulatorTypes
<1>k. PICK k \in Nat : now = k * SppSize
  BY DEF SimulatorTypes
<1>n. k + 1 \in Nat /\ now + SppSize = (k + 1) * SppSize /\ now + SppSize \in Nat
  BY <1>f, <1>t, <1>k
<1>0. /\ UNCHANGED pool_vars /\ UNCHANGED <<order_id, chunks, spp>>
      /\ spc \in {"loop", "silent", "zeros"}
  BY DEF FindExpected, WriteSilence, WriteZeros
<1>1. BufferInv'
  BY <1>0, SameBuffers DEF pool_vars, BufferInv, PoolTypes
<1>2. /\ Line' = Line /\ Latest' = Latest /\ (Between' <=> Between) /\ Between /\ spp = <<>>
      /\ DuePacket' = DuePacket /\ AsAskedOrCut(Line)'
  BY <1>0 DEF Line, Latest, Between, Searching, DuePacket, AsAskedOrCut
<1>3. UNCHANGED <<taken, dropped, inner, meta>>
  BY <1>0 DEF pool_vars, locks, streams, workers
<1>4. CASE FindExpected
  <2>1. CASE spc' = "silent"
    <3>1. /\ spc = "loop" /\ UNCHANGED <<now, idx, plen, time, zeros, offset, this, pcnt>>
          /\ Available(order_id) = {} /\ InTime(now + SppSize)
      BY <1>4, <2>1 DEF FindExpected
    <3>2. NotBefore(now + SppSize)
      <4> SUFFICES ASSUME DuePacket \in 1 .. taken, DuePacket \notin dropped
                   PROVE  Packets[DuePacket].time >= now + SppSize
        BY DEF NotBefore
      <4>1. DuePacket \in Packet
        BY DEF BufferInv, PoolTypes, Packet, PoolAssumption, SimulatorFacts
      <4>2. Packets[DuePacket].order = order_id
        <5>1. Packets[DuePacket].order = DuePacket - 1
          BY <4>1, PlannedPacket DEF SimulatorFacts
        <5> QED  BY <1>t, <5>1 DEF DuePacket
      <4> QED  BY <3>1, <4>2 DEF InTime
    <3>3. Searching'
      BY <1>0, <1>2, <1>3, <2>1, <3>1, <3>2 DEF Searching, NotBefore
    <3>4. Putting' /\ Ending' /\ SimulatorTypes'
      BY <1>0, <2>1, <3>1 DEF Putting, Ending, SimulatorTypes
    <3> QED  BY <1>1, <1>2, <3>3, <3>4
  <2>2. CASE spc' # "silent"
    <3>1. PICK b \in Available(order_id) :
             /\ spc = "loop" /\ spc' = "zeros" /\ idx' = b /\ plen' = tx_length[b]
             /\ time' = meta[b].time /\ zeros' = (meta[b].time - now) \div SppSize
             /\ UNCHANGED <<now, offset, this, pcnt>>
      BY <1>4, <2>2 DEF FindExpected
    <3>2. b \in Buffer /\ inner[b] /\ meta[b].order = order_id
      BY <3>1 DEF Available
    <3>3. /\ DuePacket \in Packet /\ tx_length[b] = Packets[DuePacket].len
          /\ meta[b].time = Packets[DuePacket].time
          /\ DuePacket \in 1 .. taken /\ DuePacket \notin dropped
      BY <1>t, <3>2, DueBuffer DEF SimulatorFacts
    <3>4. /\ Packets[DuePacket].time \in Nat /\ Packets[DuePacket].len \in Nat
          /\ Packets[DuePacket].time >= now
      BY <1>f, <3>1, <3>3, PacketFields DEF Searching, NotBefore
    <3>5. PICK d \in Nat : d = meta[b].time - now
      BY <1>t, <3>3, <3>4
    <3>6. zeros' \in Nat /\ zeros' * SppSize <= d /\ d < zeros' * SppSize + SppSize
      BY <1>f, <3>1, <3>5, Quotient
    <3>7. zeros' * SppSize \in Nat
      BY <1>f, <3>6, ProductType
    <3>8. time' \in Int /\ now + zeros' * SppSize <= time' /\ time' < now + zeros' * SppSize + SppSize
      <4>1. time' \in Int /\ time' = now + d
        BY <1>t, <3>1, <3>3, <3>4, <3>5
      <4>2. PICK z \in Nat : z = zeros' * SppSize
        BY <3>7
      <4>3. now \in Int /\ SppSize \in Int
        BY <1>t, <1>f
      <4>4. z <= d /\ d < z + SppSize
        BY <3>6, <4>2
      <4>5. now + z <= now + d /\ now + d < now + z + SppSize
        BY <4>3, <4>4
      <4> QED  BY <4>1, <4>2, <4>5
    <3>9. Reading'
      BY <1>0, <1>2, <1>3, <3>1, <3>2, <3>3 DEF Reading
    <3>10. Searching'
      BY <1>0, <1>2, <3>1, <3>6, <3>8, <3>9 DEF Searching
    <3>11. Putting' /\ Ending' /\ SimulatorTypes'
      BY <1>0, <3>1, <3>2, <3>3, <3>4, <3>6, <3>8 DEF Putting, Ending, SimulatorTypes
    <3> QED  BY <1>1, <1>2, <3>10, <3>11
  <2> QED  BY <2>1, <2>2
<1>5. CASE WriteSilence
  <2>1. /\ spc = "silent" /\ spc' = "loop" /\ now' = now + SppSize
        /\ UNCHANGED <<idx, plen, time, zeros, offset, this, pcnt>>
    BY <1>5 DEF WriteSilence
  <2>2. Searching'
    BY <1>0, <1>2, <1>3, <2>1 DEF Searching, NotBefore
  <2>3. Putting' /\ Ending' /\ SimulatorTypes'
    BY <1>0, <1>n, <2>1 DEF Putting, Ending, SimulatorTypes
  <2> QED  BY <1>1, <1>2, <2>2, <2>3
<1>6. CASE WriteZeros
  <2>1. spc = "zeros" /\ UNCHANGED <<idx, plen, time, this>>
    BY <1>6 DEF WriteZeros
  <2>2. /\ Reading /\ zeros \in Nat /\ now + zeros * SppSize <= time /\ time < now + zeros * SppSize + SppSize
    BY <1>t, <2>1 DEF Searching
  <2>3. Reading'
    BY <1>0, <1>2, <1>3, <2>1, <2>2 DEF Reading
  <2>4. CASE zeros > 0
    <3>1. now' = now + SppSize /\ zeros' = zeros - 1 /\ UNCHANGED <<spc, offset, pcnt>>
      BY <1>6, <2>4 DEF WriteZeros
    <3>2. zeros' \in Nat /\ zeros' * SppSize + SppSize = zeros * SppSize
      BY <1>f, <2>2, <2>4, <3>1, OneLess
    <3>3. zeros * SppSize \in Nat /\ zeros' * SppSize \in Nat
      BY <1>f, <2>2, <3>2, ProductType
    <3>4. now' + zeros' * SppSize = now + zeros * SppSize
      BY <1>t, <1>f, <3>1, <3>2, <3>3
    <3>5. Searching'
      BY <1>0, <1>2, <2>1, <2>2, <2>3, <3>1, <3>2, <3>4 DEF Searching
    <3>6. Putting' /\ Ending' /\ SimulatorTypes'
      BY <1>0, <1>n, <2>1, <3>1, <3>2 DEF Putting, Ending, SimulatorTypes
    <3> QED  BY <1>1, <1>2, <3>5, <3>6
  <2>5. CASE ~(zeros > 0)
    <3>1. now' = now /\ offset' = time - now /\ pcnt' = 0 /\ spc' = "samples" /\ UNCHANGED zeros
      BY <1>6, <2>5 DEF WriteZeros
    <3>2. zeros = 0 /\ zeros * SppSize = 0
      BY <1>f, <2>2, <2>5
    <3>3. offset' \in Int /\ offset' >= 0 /\ offset' < SppSize /\ now + offset' = time
      BY <1>f, <1>t, <2>2, <3>1, <3>2
    <3>4. plen > 0 /\ plen \in Int
      <4>1. DuePacket \in Packet
        BY <1>t, <2>2, DueBuffer DEF Reading, SimulatorFacts
      <4> QED  BY <1>f, <2>2, <4>1, PacketFields, SMTT(60) DEF Reading
    <3>5. Putting'
      BY <1>t, <1>2, <2>1, <2>3, <3>1, <3>3, <3>4 DEF Putting
    <3>6. Searching' /\ Ending' /\ SimulatorTypes'
      BY <1>0, <2>1, <3>1, <3>3 DEF Searching, Ending, SimulatorTypes
    <3> QED  BY <1>1, <1>2, <3>5, <3>6
  <2> QED  BY <2>4, <2>5
<1> QED  BY <1>4, <1>5, <1>6

\* Samples are read after they have been published, so they are those of the packet.
LEMMA ReadChunk ==
    ASSUME SimulatorFacts, BufferInv, order_id \in Nat, Reading,
           NEW f \in Nat, NEW t \in Nat, NEW a \in Int, Written(idx, t)
    PROVE  /\ Chunk(idx, f, t, a) = [packet |-> DuePacket, from |-> f, to |-> t, at |-> a]
           /\ Chunk(idx, f, t, a) \in Chunks
<1>1. DuePacket \in Packet /\ content[idx].packet = DuePacket
  BY DueBuffer DEF SimulatorFacts, Reading
<1>2. content[idx].samples \in Nat /\ tx_cnt[idx] \in Nat /\ tx_cnt[idx] <= content[idx].samples
  BY DEF Reading, BufferInv, PoolInv, SampleTypes, Faithful
<1>3. content[idx].samples >= t
  BY <1>2 DEF Written
<1>4. Chunk(idx, f, t, a) = [packet |-> DuePacket, from |-> f, to |-> t, at |-> a]
  BY <1>1, <1>3 DEF Chunk
<1> QED  BY <1>1, <1>4 DEF Chunks

LEMMA HowMany ==
    ASSUME NEW l \in Int, NEW c \in Int, NEW s \in Int, NEW o \in Int,
           0 <= c, c < l, 0 <= o, o < s,
           NEW k, k = IF l - c < s - o THEN l - c ELSE s - o
    PROVE  /\ k \in Int /\ k > 0 /\ c + k \in Nat /\ c + k <= l /\ o + k <= s
           /\ c + k # l => o + k = s
OBVIOUS

LEMMA SampleAfter ==
    ASSUME NEW n \in Int, NEW o \in Int, NEW t \in Int, NEW c \in Int, NEW k \in Int, n + o <= t + c
    PROVE  (n + o) + k <= t + (c + k) /\ n + (o + k) <= t + (c + k)
OBVIOUS

\* The samples of a packet that fit into the spp; with the last ones it is released.
LEMMA PutStep ==
    ASSUME SimulatorFacts, SimulatorInv, PutSamples
    PROVE  SimulatorInv'
<1> USE DEF SimulatorInv
<1>f. PoolAssumption /\ Planned /\ SppSize \in Nat \ {0} /\ SppSize > 0
  BY SppType DEF SimulatorFacts
<1>t. /\ order_id \in Nat /\ now \in Nat /\ plen \in Int /\ time \in Int /\ offset \in Int /\ pcnt \in Int
      /\ chunks \in Seq(Chunks) /\ spp \in Seq(Chunks)
  BY DEF SimulatorTypes
<1>1. /\ spc = "samples" /\ Reading /\ offset >= 0 /\ offset < SppSize /\ pcnt >= 0 /\ pcnt < plen
      /\ now + offset <= time + pcnt
  BY DEF PutSamples, Putting
<1>a. \/ pcnt = 0 /\ Between /\ now + offset = time
      \/ Within /\ now + offset = Front
      \/ Stale /\ now + offset <= time /\ Front < now + offset /\ now + offset < Front + SppSize
  BY DEF PutSamples, Putting
<1> DEFINE k == IF plen - pcnt < SppSize - offset THEN plen - pcnt ELSE SppSize - offset
<1>2. k = IF plen - pcnt < SppSize - offset THEN plen - pcnt ELSE SppSize - offset
  OBVIOUS
<1> HIDE DEF k
<1>3. /\ Written(idx, pcnt + k)
      /\ spp' = Append(spp, Chunk(idx, pcnt, pcnt + k, now + offset))
      /\ this' = k /\ pcnt' = pcnt + k
      /\ IF pcnt + k = plen
         THEN Release(idx) /\ spc' = "uncount"
         ELSE UNCHANGED <<locks, streams>> /\ spc' = "write"
      /\ UNCHANGED <<new_cnt, asleep, workers, order_id, idx, plen, time, zeros, offset, now, chunks>>
  BY <1>2 DEF PutSamples
<1>4. /\ k > 0 /\ pcnt + k \in Nat /\ pcnt \in Nat /\ pcnt + k <= plen /\ offset + k <= SppSize
      /\ pcnt + k # plen => offset + k = SppSize
      /\ now + offset \in Int /\ k \in Int
  <2>1. plen \in Int /\ pcnt \in Int /\ SppSize \in Int /\ offset \in Int
    BY <1>f, <1>t
  <2>2. 0 <= pcnt /\ pcnt < plen /\ 0 <= offset /\ offset < SppSize
    BY <1>f, <1>t, <1>1
  <2>3. /\ k \in Int /\ k > 0 /\ pcnt + k \in Nat /\ pcnt + k <= plen /\ offset + k <= SppSize
        /\ pcnt + k # plen => offset + k = SppSize
    BY <1>2, <2>1, <2>2, HowMany
  <2> QED  BY <1>t, <2>2, <2>3
<1>5. /\ DuePacket \in Packet /\ content[idx].packet = DuePacket
      /\ Packets[DuePacket].len = plen /\ Packets[DuePacket].time = time
  BY <1>f, <1>t, <1>1, DueBuffer DEF Reading
<1> DEFINE c == [packet |-> DuePacket, from |-> pcnt, to |-> pcnt + k, at |-> now + offset]
<1>6. Chunk(idx, pcnt, pcnt + k, now + offset) = c /\ c \in Chunks
  BY <1>t, <1>1, <1>3, <1>4, ReadChunk
<1>7. c.packet = DuePacket /\ c.from = pcnt /\ c.to = pcnt + k /\ c.at = now + offset
  OBVIOUS
<1> HIDE DEF c
<1>8. /\ spp' \in Seq(Chunks) /\ Line \in Seq(Chunks) /\ Line' = Append(Line, c)
      /\ Line' # <<>> /\ Latest' = c
  BY <1>t, <1>3, <1>6, LineGrows
<1>9. DuePacket' = DuePacket /\ Within' /\ Front' = (now + offset) + k
  <2>1. EndOf(c) = (now + offset) + k
    BY <1>4, <1>7 DEF EndOf
  <2> QED  BY <1>3, <1>7, <1>8, <2>1 DEF DuePacket, Within, Front
<1>10. AsAskedOrCut(Line)'
  <2>1. \/ Between /\ Starts(c)
        \/ Line # <<>> /\ c.from < Packets[DuePacket].len /\ GoesOn(Latest, c)
        \/ Stale /\ CutOff(Latest, c)
    <3>1. CASE pcnt = 0 /\ Between /\ now + offset = time
      BY <1>5, <1>7, <3>1 DEF Starts
    <3>2. CASE Within /\ now + offset = Front
      BY <1>1, <1>5, <1>7, <3>2 DEF Within, Front, GoesOn
    <3>3. CASE Stale /\ now + offset <= time /\ Front < now + offset /\ now + offset < Front + SppSize
      BY <1>1, <1>5, <1>7, <3>3 DEF Stale, Between, Front, CutOff
    <3> QED  BY <1>a, <3>1, <3>2, <3>3
  <2>2. AsAskedOrCut(Append(Line, c))
    BY <1>f, <1>t, <1>5, <1>6, <1>7, <1>8, <2>1, LineContinues DEF Latest, Between, Stale
  <2>3. AsAskedOrCut(Line') <=> AsAskedOrCut(Line)'
    BY DEF AsAskedOrCut
  <2> QED  BY <1>8, <2>2, <2>3
<1>11. SimulatorTypes'
  BY <1>3, <1>4, <1>8, SMTT(60) DEF SimulatorTypes
<1>12. CASE pcnt + k = plen
  <2>1. Release(idx) /\ spc' = "uncount"
    BY <1>3, <1>12
  <2>2. BufferInv'
    <3>1. idx \in Buffer /\ inner[idx] /\ Written(idx, Packets[content[idx].packet].len)
      BY <1>1, <1>3, <1>5, <1>12 DEF Reading
    <3>2. new_cnt' \in Int /\ asleep' \in BOOLEAN
      BY <1>3 DEF BufferInv, PoolTypes
    <3> QED  BY <1>f, <1>3, <2>1, <3>1, <3>2, ReleaseBuffers
  <2>3. now + offset + k = Front' /\ Front' <= Packets[DuePacket].time + Packets[DuePacket].len
    <3>1. (now + offset) + k <= time + (pcnt + k)
      BY <1>t, <1>1, <1>4, SampleAfter
    <3> QED  BY <1>5, <1>9, <1>12, <3>1
  <2>4. Ending'
    <3>1. offset + k > 0
      BY <1>t, <1>1, <1>4
    <3>2. idx \in Buffer
      BY <1>1 DEF Reading
    <3> QED  BY <1>3, <1>4, <1>5, <1>9, <1>12, <2>1, <2>3, <3>1, <3>2 DEF Ending
  <2>5. Searching' /\ Putting'
    BY <2>1 DEF Searching, Putting
  <2> QED  BY <1>10, <1>11, <2>2, <2>4, <2>5
<1>13. CASE pcnt + k # plen
  <2>1. UNCHANGED <<locks, streams>> /\ spc' = "write"
    BY <1>3, <1>13
  <2>2. BufferInv'
    BY <1>3, <2>1, SameBuffers DEF BufferInv, PoolTypes
  <2>3. Reading'
    BY <1>1, <1>3, <1>9, <2>1 DEF Reading, locks, streams
  <2>4. pcnt' < plen' /\ pcnt' >= 0 /\ now' + SppSize <= time' + pcnt' /\ now' + SppSize = Front'
    <3>1. now + (offset + k) <= time + (pcnt + k) /\ offset + k = SppSize
      BY <1>t, <1>1, <1>4, <1>13, SampleAfter
    <3>2. now + SppSize <= time + (pcnt + k)
      BY <3>1, Zenon
    <3>3. pcnt + k < plen /\ pcnt + k >= 0
      BY <1>t, <1>1, <1>4, <1>13
    <3>4. (now + offset) + k = now + (offset + k)
      BY <1>t, <1>4
    <3> QED  BY <1>3, <1>9, <3>1, <3>2, <3>3, <3>4
  <2>5. Ending'
    BY <1>9, <2>1, <2>3, <2>4 DEF Ending
  <2>6. Searching' /\ Putting'
    BY <2>1 DEF Searching, Putting
  <2> QED  BY <1>10, <1>11, <2>2, <2>5, <2>6
<1> QED  BY <1>12, <1>13

\* The first samples of a packet that begins where another one has ended.
LEMMA JoinStep ==
    ASSUME SimulatorFacts, SimulatorInv, PutJoined
    PROVE  SimulatorInv'
<1> USE DEF SimulatorInv
<1>f. PoolAssumption /\ Planned /\ SppSize \in Nat \ {0} /\ SppSize > 0
  BY SppType DEF SimulatorFacts
<1>t. /\ order_id \in Nat /\ now \in Nat /\ plen \in Int /\ time \in Int /\ offset \in Int
      /\ chunks \in Seq(Chunks) /\ spp \in Seq(Chunks)
  BY DEF SimulatorTypes
<1>1. /\ spc = "joined" /\ Reading /\ offset >= 0 /\ offset < SppSize /\ now + offset = time /\ Between
  BY DEF PutJoined, Putting
<1>2. PICK k \in Int : k = SppSize - offset
  BY <1>f, <1>t
<1>3. /\ Written(idx, k) /\ spp' = Append(spp, Chunk(idx, 0, k, now + offset))
      /\ this' = k /\ pcnt' = k /\ spc' = "write" /\ UNCHANGED pool_vars
      /\ UNCHANGED <<order_id, idx, plen, time, zeros, offset, now, chunks>>
  BY <1>2 DEF PutJoined
<1>4. /\ DuePacket \in Packet /\ content[idx].packet = DuePacket
      /\ Packets[DuePacket].len = plen /\ Packets[DuePacket].time = time
  BY <1>f, <1>t, <1>1, DueBuffer DEF Reading
<1>5. k > 0 /\ k \in Nat /\ k < plen /\ now + SppSize = time + k /\ now + offset \in Int
  <2>1. SppSize < plen
    BY <1>4, SppType
  <2> QED  BY <1>f, <1>t, <1>1, <1>2, <2>1, SMTT(60)
<1> DEFINE c == [packet |-> DuePacket, from |-> 0, to |-> k, at |-> now + offset]
<1>6. Chunk(idx, 0, k, now + offset) = c /\ c \in Chunks
  BY <1>t, <1>1, <1>3, <1>5, ReadChunk
<1>7. c.packet = DuePacket /\ c.from = 0 /\ c.to = k /\ c.at = now + offset
  OBVIOUS
<1> HIDE DEF c
<1>8. /\ spp' \in Seq(Chunks) /\ Line \in Seq(Chunks) /\ Line' = Append(Line, c)
      /\ Line' # <<>> /\ Latest' = c
  BY <1>t, <1>3, <1>6, LineGrows
<1>9. DuePacket' = DuePacket /\ Within' /\ Front' = now + SppSize
  <2>1. EndOf(c) = now + SppSize
    BY <1>f, <1>t, <1>2, <1>7 DEF EndOf
  <2> QED  BY <1>3, <1>7, <1>8, <2>1 DEF DuePacket, Within, Front
<1>10. AsAskedOrCut(Line)'
  <2>1. Starts(c)
    BY <1>1, <1>4, <1>7 DEF Starts
  <2>2. AsAskedOrCut(Append(Line, c))
    BY <1>f, <1>t, <1>1, <1>4, <1>6, <1>7, <1>8, <2>1, LineContinues DEF Latest, Between
  <2>3. AsAskedOrCut(Line') <=> AsAskedOrCut(Line)'
    BY DEF AsAskedOrCut
  <2> QED  BY <1>8, <2>2, <2>3
<1>11. SimulatorTypes'
  BY <1>3, <1>5, <1>8 DEF SimulatorTypes
<1>12. BufferInv'
  BY <1>3, SameBuffers DEF pool_vars, BufferInv, PoolTypes
<1>13. Reading'
  BY <1>1, <1>3, <1>9 DEF Reading, pool_vars, locks, streams
<1>14. Searching' /\ Putting' /\ Ending'
  <2>1. now' + SppSize <= time' + pcnt' /\ now' + SppSize = Front' /\ pcnt' >= 0
    BY <1>f, <1>t, <1>3, <1>5, <1>9
  <2> QED  BY <1>3, <1>5, <1>9, <1>13, <2>1 DEF Searching, Putting, Ending
<1> QED  BY <1>10, <1>11, <1>12, <1>14

\* After the last sample: the next id, and the packet that may begin in the same spp.
LEMMA OrderStep ==
    ASSUME SimulatorFacts, SimulatorInv, SubtractCount \/ Order
    PROVE  SimulatorInv'
<1> USE DEF SimulatorInv
<1>f. PoolAssumption /\ Planned /\ SppSize \in Nat \ {0} /\ SppSize > 0
  BY SppType DEF SimulatorFacts
<1>t. /\ order_id \in Nat /\ now \in Nat /\ offset \in Int /\ this \in Int
      /\ chunks \in Seq(Chunks) /\ spp \in Seq(Chunks)
  BY DEF SimulatorTypes
<1>1. /\ spc \in {"uncount", "order"}
      /\ UNCHANGED <<locks, streams, asleep, workers>>
      /\ UNCHANGED <<idx, plen, time, zeros, offset, this, pcnt, now, spp, chunks>>
  BY DEF SubtractCount, Order, pool_vars
<1>2. /\ Within /\ pcnt = Packets[DuePacket].len /\ plen = pcnt /\ idx \in Buffer
      /\ now + offset + this = Front /\ Front <= Packets[DuePacket].time + Packets[DuePacket].len
      /\ offset + this > 0 /\ offset + this <= SppSize
  BY <1>1 DEF Ending
<1>3. Line' = Line /\ Latest' = Latest /\ Front' = Front /\ AsAskedOrCut(Line)'
  BY <1>1 DEF Line, Latest, Front, AsAskedOrCut
<1>4. CASE SubtractCount
  <2>1. spc = "uncount" /\ spc' = "order" /\ new_cnt' = new_cnt - 1 /\ order_id' = order_id
    BY <1>4 DEF SubtractCount
  <2>2. BufferInv'
    <3>1. new_cnt' \in Int
      BY <2>1 DEF BufferInv, PoolTypes
    <3> QED  BY <1>1, <3>1, SameBuffers
  <2>3. Ending'
    BY <1>1, <1>2, <1>3, <2>1 DEF Ending, Within, DuePacket
  <2>4. Searching' /\ Putting' /\ SimulatorTypes'
    BY <1>1, <2>1 DEF Searching, Putting, SimulatorTypes
  <2> QED  BY <1>3, <2>2, <2>3, <2>4
<1>5. CASE Order
  <2>1. /\ spc = "order" /\ new_cnt' = new_cnt
        /\ order_id' = FollowingId
        /\ spc' = IF offset + this < SppSize THEN "ahead" ELSE "write"
    BY <1>5 DEF Order, pool_vars
  <2>2. order_id' = DuePacket
    <3>1. meta[idx].next = -1
      BY <1>2 DEF BufferInv, NoOtherIds, None
    <3> QED  BY <2>1, <3>1 DEF FollowingId, DuePacket
  <2>3. DuePacket \in Packet
    <3>1. Line \in Seq(Chunks)
      BY <1>t, ConcatProperties DEF Line
    <3>2. Latest \in Chunks
      BY <1>2, <3>1, EmptySeq, LenProperties DEF Latest, Within
    <3> QED  BY <1>2, <3>2 DEF Within, Chunks
  <2>4. BufferInv'
    BY <1>1, <2>1, SameBuffers DEF BufferInv, PoolTypes
  <2>5. Between' /\ Stale' /\ plen' = pcnt'
    BY <1>1, <1>2, <1>3, <2>2 DEF Between, Within, Stale
  <2>6. SimulatorTypes'
    BY <1>1, <1>t, <2>1, <2>2 DEF SimulatorTypes, DuePacket
  <2>7. Searching' /\ Putting'
    BY <2>1 DEF Searching, Putting
  <2>8. CASE offset + this < SppSize
    BY <1>1, <1>2, <1>3, <2>1, <2>2, <2>4, <2>5, <2>6, <2>7, <2>8 DEF Ending
  <2>9. CASE ~(offset + this < SppSize)
    <3>1. now + offset + this = now + SppSize
      <4>1. PICK o \in Int, k \in Int : o = offset /\ k = this
        BY <1>t
      <4>2. SppSize \in Int /\ now \in Int
        BY <1>f, <1>t
      <4>3. o + k = SppSize
        BY <1>2, <2>9, <4>1, <4>2
      <4>4. now + o + k = now + SppSize
        BY <4>1, <4>2, <4>3
      <4> QED  BY <4>1, <4>4
    <3>2. NotBefore(now + SppSize)'
      <4> SUFFICES ASSUME DuePacket' \in 1 .. taken'
                   PROVE  Packets[DuePacket'].time >= now + SppSize
        BY <1>1 DEF NotBefore
      <4>1. DuePacket' = DuePacket + 1
        BY <2>2 DEF DuePacket
      <4>2. DuePacket + 1 \in Packet
        BY <1>1, <4>1 DEF BufferInv, PoolTypes, Packet, PoolAssumption, workers
      <4>3. Packets[DuePacket + 1].time >= Packets[DuePacket].time + Packets[DuePacket].len
        BY <1>f, <2>3, <4>2, PlannedPacket
      <4>4. /\ Packets[DuePacket + 1].time \in Int /\ now + SppSize \in Int
            /\ Packets[DuePacket].time + Packets[DuePacket].len \in Int
        <5>1. now + SppSize \in Int
          BY <1>f, <1>t
        <5> QED  BY <1>f, <2>3, <4>2, <5>1, EndType, Zenon
      <4>5. now + SppSize <= Packets[DuePacket].time + Packets[DuePacket].len
        BY <1>2, <3>1, Zenon
      <4>6. \A a, b, c \in Int : a >= b /\ c <= b => a >= c
        OBVIOUS
      <4>7. Packets[DuePacket + 1].time >= now + SppSize
        BY <4>3, <4>4, <4>5, <4>6, Zenon
      <4> QED  BY <4>1, <4>7, Zenon
    <3>3. ~(pcnt' < plen')
      <4>1. pcnt \in Int
        BY DEF SimulatorTypes
      <4> QED  BY <1>1, <1>2, <4>1
    <3>4. Ending'
      BY <2>1, <2>5, <2>9, <3>2, <3>3 DEF Ending
    <3> QED  BY <1>3, <2>4, <2>6, <2>7, <3>4
  <2> QED  BY <2>8, <2>9
<1> QED  BY <1>4, <1>5

LEMMA OffsetOf ==
    ASSUME NEW n \in Nat, NEW t \in Nat, NEW s \in Nat, n <= t, t < n + s
    PROVE  t - n >= 0 /\ t - n < s /\ n + (t - n) = t /\ t - n \in Int
OBVIOUS

\* A packet that has ended within the spp, and when the next one begins.
LEMMA LookAheadStep ==
    ASSUME SimulatorFacts, SimulatorInv, LookAheadInSpp
    PROVE  SimulatorInv'
<1> USE DEF SimulatorInv
<1>f. PoolAssumption /\ Planned /\ SppSize \in Nat \ {0} /\ SppSize > 0
  BY SppType DEF SimulatorFacts
<1>t. /\ order_id \in Nat /\ now \in Nat /\ offset \in Int /\ this \in Int /\ pcnt \in Int
      /\ chunks \in Seq(Chunks) /\ spp \in Seq(Chunks)
  BY DEF SimulatorTypes
<1>1. /\ spc = "ahead" /\ InTime(now + SppSize)
      /\ \/ \E b \in Available(order_id) :
              /\ idx' = b /\ plen' = tx_length[b] /\ time' = meta[b].time
              /\ IF meta[b].time < now + SppSize
                 THEN pcnt' = 0 /\ offset' = meta[b].time - now /\ spc' = "joined"
                 ELSE spc' = "write" /\ UNCHANGED <<pcnt, offset>>
         \/ /\ Available(order_id) = {}
            /\ idx' = None /\ spc' = "write"
            /\ UNCHANGED <<plen, time, pcnt, offset>>
      /\ UNCHANGED pool_vars /\ UNCHANGED <<order_id, zeros, this, now, spp, chunks>>
  BY DEF LookAheadInSpp, Begins
<1>2. /\ Stale /\ Line # <<>> /\ Between /\ pcnt = Packets[order_id].len /\ plen = pcnt
      /\ now + offset + this = Front /\ Front <= Packets[order_id].time + Packets[order_id].len
      /\ offset + this > 0 /\ offset + this < SppSize
  BY <1>1 DEF Ending, Stale
<1>3. /\ Line' = Line /\ Latest' = Latest /\ Front' = Front /\ Between' /\ DuePacket' = DuePacket
      /\ AsAskedOrCut(Line)' /\ UNCHANGED <<taken, dropped, inner, meta>>
  BY <1>1, <1>2, ZenonT(60) DEF Line, Latest, Front, Between, DuePacket, AsAskedOrCut, pool_vars, locks, streams, workers
<1>4. BufferInv'
  BY <1>1, SameBuffers DEF pool_vars, BufferInv, PoolTypes
<1>5. order_id \in Packet
  <2>1. Line \in Seq(Chunks)
    BY <1>t, ConcatProperties DEF Line
  <2>2. Latest \in Chunks
    BY <1>2, <2>1, EmptySeq, LenProperties DEF Latest
  <2> QED  BY <1>2, <2>2 DEF Between, Chunks
<1>6. PICK e \in Nat : e = Front /\ now < e /\ e < now + SppSize
  <2>1. now + offset + this \in Int /\ now < now + offset + this /\ now + offset + this < now + SppSize
    BY <1>f, <1>t, <1>2
  <2>2. now + offset + this \in Nat
    BY <1>t, <2>1
  <2> QED  BY <1>2, <2>1, <2>2
<1>7. Searching'
  BY <1>1 DEF Searching
<1>8. CASE Available(order_id) = {} /\ spc' = "write" /\ UNCHANGED <<plen, time, pcnt, offset>>
  <2>1. NotBefore(now + SppSize)
    <3> SUFFICES ASSUME DuePacket \in 1 .. taken, DuePacket \notin dropped
                 PROVE  Packets[DuePacket].time >= now + SppSize
      BY DEF NotBefore
    <3>1. DuePacket \in Packet
      BY <1>f DEF BufferInv, PoolTypes, Packet, PoolAssumption
    <3>2. Packets[DuePacket].order = order_id
      <4>1. Packets[DuePacket].order = DuePacket - 1
        BY <1>f, <3>1, PlannedPacket
      <4> QED  BY <1>t, <4>1 DEF DuePacket
    <3> QED  BY <1>1, <1>8, <3>2 DEF InTime
  <2>2. NotBefore(now + SppSize)' /\ ~(pcnt' < plen')
    <3>1. NotBefore(now + SppSize)'
      BY <1>1, <1>3, <2>1 DEF NotBefore
    <3>2. ~(pcnt < pcnt)
      BY <1>t
    <3> QED  BY <1>2, <1>8, <3>1, <3>2
  <2>3. idx' = None \/ idx' \in Buffer
    BY <1>1 DEF Available
  <2>4. SimulatorTypes'
    BY <1>1, <1>8, <2>3 DEF SimulatorTypes
  <2>5. Putting' /\ Ending'
    BY <1>3, <1>8, <2>2 DEF Putting, Ending
  <2> QED  BY <1>3, <1>4, <1>7, <2>4, <2>5
<1>9. ASSUME NEW b \in Available(order_id),
             idx' = b, plen' = tx_length[b], time' = meta[b].time,
             IF meta[b].time < now + SppSize
             THEN pcnt' = 0 /\ offset' = meta[b].time - now /\ spc' = "joined"
             ELSE spc' = "write" /\ UNCHANGED <<pcnt, offset>>
      PROVE  SimulatorInv'
  <2>1. b \in Buffer /\ inner[b] /\ meta[b].order = order_id
    BY DEF Available
  <2>2. /\ DuePacket \in Packet /\ tx_length[b] = Packets[DuePacket].len
        /\ meta[b].time = Packets[DuePacket].time
    BY <1>f, <1>t, <2>1, DueBuffer
  <2>3. Packets[DuePacket].time \in Nat /\ Packets[DuePacket].len \in Nat /\ Packets[DuePacket].time >= e
    <3>1. Packets[DuePacket].time \in Nat /\ Packets[DuePacket].len \in Nat
      BY <1>f, <2>2, PacketFields
    <3>2. Packets[DuePacket].time >= Packets[order_id].time + Packets[order_id].len
      BY <1>f, <1>5, <2>2, PlannedPacket DEF DuePacket
    <3>3. Packets[order_id].time + Packets[order_id].len \in Int
      BY <1>f, <1>5, EndType, Zenon
    <3> QED  BY <1>2, <1>6, <3>1, <3>2, <3>3
  <2>4. Reading'
    BY <1>1, <1>3, <1>9, <2>1, <2>2 DEF Reading
  <2>5. CASE meta[b].time < now + SppSize
    <3>1. pcnt' = 0 /\ offset' = time' - now /\ spc' = "joined" /\ time' = Packets[DuePacket].time
      BY <1>9, <2>2, <2>5
    <3>2. offset' >= 0 /\ offset' < SppSize /\ now' + offset' = time' /\ offset' \in Int
      <4>1. PICK t \in Nat : t = Packets[DuePacket].time
        BY <2>3
      <4>2. t >= e /\ t < now + SppSize /\ time' = t
        BY <2>2, <2>3, <2>5, <3>1, <4>1
      <4>3. t - now >= 0 /\ t - now < SppSize /\ now + (t - now) = t /\ t - now \in Int
        <5>1. now <= t
          BY <1>t, <1>6, <4>2
        <5> QED  BY <1>f, <1>t, <4>2, <5>1, OffsetOf
      <4> QED  BY <1>1, <3>1, <4>2, <4>3
    <3>3. SimulatorTypes'
      <4>1. idx' \in Buffer /\ plen' \in Int /\ time' \in Int /\ pcnt' \in Int /\ offset' \in Int
        BY <1>9, <2>1, <2>2, <2>3, <3>1, <3>2
      <4> QED  BY <1>1, <3>1, <4>1 DEF SimulatorTypes
    <3>4. Putting' /\ Ending'
      BY <1>3, <2>4, <3>1, <3>2 DEF Putting, Ending
    <3> QED  BY <1>3, <1>4, <1>7, <3>3, <3>4
  <2>6. CASE ~(meta[b].time < now + SppSize)
    <3>1. spc' = "write" /\ UNCHANGED <<pcnt, offset>>
      BY <1>9, <2>6
    <3>2. Packets[DuePacket].time >= now + SppSize
      <4>1. PICK t \in Nat : t = Packets[DuePacket].time
        BY <2>3
      <4>2. PICK x \in Int : x = now + SppSize
        BY <1>f, <1>t
      <4>3. ~(t < x)
        BY <2>2, <2>6, <4>1, <4>2
      <4> QED  BY <4>1, <4>2, <4>3
    <3>3. Stale'
      BY <1>2, <1>3, <1>1, <3>1 DEF Stale
    <3>4. /\ pcnt' >= 0 /\ now' + SppSize <= time' /\ now' + SppSize <= time' + pcnt'
          /\ Front' < now' + SppSize /\ now' + SppSize < Front' + SppSize
      <4>1. PICK t \in Nat : t = Packets[DuePacket].time
        BY <2>3
      <4>2. pcnt >= 0
        BY <1>f, <1>2, <1>5, PacketFields
      <4>3. now + SppSize <= t /\ now + SppSize <= t + pcnt
        <5>1. PICK x \in Int : x = now + SppSize
          BY <1>f, <1>t
        <5>2. x <= t
          BY <3>2, <4>1, <5>1
        <5> QED  BY <1>t, <4>2, <5>1, <5>2
      <4>4. Front < now + SppSize /\ now + SppSize < Front + SppSize
        BY <1>f, <1>t, <1>6
      <4> QED  BY <1>1, <1>3, <1>9, <2>2, <3>1, <4>1, <4>2, <4>3, <4>4
    <3>5. Between' /\ NotBefore(now + SppSize)'
      BY <1>1, <1>3, <3>2 DEF NotBefore
    <3>6. SimulatorTypes'
      BY <1>1, <1>9, <2>1, <2>2, <2>3, <3>1 DEF SimulatorTypes
    <3>7. Putting' /\ Ending'
      BY <2>4, <3>1, <3>3, <3>4, <3>5 DEF Putting, Ending
    <3> QED  BY <1>3, <1>4, <1>7, <3>6, <3>7
  <2> QED  BY <2>5, <2>6
<1> QED  BY <1>1, <1>8, <1>9

\* The spp goes into the virtual space.
LEMMA WriteStep ==
    ASSUME SimulatorFacts, SimulatorInv, WriteSpp
    PROVE  SimulatorInv'
<1> USE DEF SimulatorInv
<1>f. SppSize \in Nat \ {0} /\ SppSize > 0
  BY SppType
<1>t. /\ now \in Nat /\ time \in Int /\ pcnt \in Int
      /\ chunks \in Seq(Chunks) /\ spp \in Seq(Chunks)
  BY DEF SimulatorTypes
<1>1. /\ spc = "write" /\ chunks' = chunks \o spp /\ spp' = <<>> /\ now' = now + SppSize /\ offset' = 0
      /\ spc' = IF pcnt < plen THEN "samples" ELSE "loop"
      /\ UNCHANGED pool_vars /\ UNCHANGED <<order_id, idx, plen, time, zeros, this, pcnt>>
  BY DEF WriteSpp
<1>2. IF pcnt < plen
      THEN /\ Reading /\ pcnt >= 0 /\ now + SppSize <= time + pcnt
           /\ \/ Within /\ now + SppSize = Front
              \/ /\ Stale /\ now + SppSize <= time
                 /\ Front < now + SppSize /\ now + SppSize < Front + SppSize
      ELSE Between /\ NotBefore(now + SppSize)
  BY <1>1 DEF Ending
<1>3. chunks' \in Seq(Chunks) /\ spp' \in Seq(Chunks) /\ Line' = Line
  BY <1>t, <1>1, LineMoves
<1>4. /\ Latest' = Latest /\ Front' = Front /\ AsAskedOrCut(Line)' /\ DuePacket' = DuePacket
      /\ (Between => Between') /\ (Within => Within') /\ (Stale => Stale')
  BY <1>1, <1>3 DEF Latest, Front, AsAskedOrCut, DuePacket, Between, Within, Stale
<1>5. BufferInv'
  BY <1>1, SameBuffers DEF pool_vars, BufferInv, PoolTypes
<1>6. SimulatorTypes'
  <2>1. \E k \in Nat : now' = k * SppSize
    <3>1. PICK k \in Nat : now = k * SppSize
      BY DEF SimulatorTypes
    <3>2. k + 1 \in Nat /\ now' = (k + 1) * SppSize
      BY <1>f, <1>1, <3>1
    <3> QED  BY <3>2
  <2>2. now' \in Nat /\ offset' \in Int /\ spc' \in {"samples", "loop"}
    BY <1>f, <1>t, <1>1
  <2> QED  BY <1>1, <1>3, <2>1, <2>2 DEF SimulatorTypes
<1>7. UNCHANGED <<taken, dropped, inner, meta>>
  BY <1>1 DEF pool_vars, locks, streams, workers
<1>8. CASE pcnt < plen
  <2>1. Reading' /\ pcnt' >= 0 /\ pcnt' < plen' /\ offset' = 0 /\ now' + offset' = now + SppSize
    BY <1>f, <1>t, <1>1, <1>2, <1>4, <1>7, <1>8 DEF Reading
  <2>2. \/ Within' /\ now' + offset' = Front'
        \/ /\ Stale' /\ now' + offset' <= time'
           /\ Front' < now' + offset' /\ now' + offset' < Front' + SppSize
    BY <1>1, <1>2, <1>4, <1>8, <2>1
  <2>3. now' + offset' <= time' + pcnt'
    BY <1>1, <1>2, <1>8, <2>1
  <2>4. spc' = "samples" /\ offset' >= 0 /\ offset' < SppSize
    BY <1>f, <1>1, <1>8, <2>1
  <2>5. Searching' /\ Putting' /\ Ending'
    BY <2>1, <2>2, <2>3, <2>4 DEF Searching, Putting, Ending
  <2> QED  BY <1>4, <1>5, <1>6, <2>5
<1>9. CASE ~(pcnt < plen)
  <2>1. Between' /\ NotBefore(now)'
    BY <1>1, <1>2, <1>4, <1>7, <1>9 DEF NotBefore
  <2>2. Searching' /\ Putting' /\ Ending'
    BY <1>1, <1>9, <2>1 DEF Searching, Putting, Ending
  <2> QED  BY <1>4, <1>5, <1>6, <2>2
<1> QED  BY <1>8, <1>9

\* Nothing happens.
LEMMA SameSimulator ==
    ASSUME SimulatorInv, UNCHANGED simulator_vars
    PROVE  SimulatorInv'
<1>1. /\ UNCHANGED pool_vars
      /\ UNCHANGED <<spc, order_id, idx, plen, time, zeros, offset, this, pcnt, now, spp, chunks>>
  BY DEF simulator_vars, spp_vars
<1>2. BufferInv'
  BY <1>1, SameBuffers DEF SimulatorInv, pool_vars, BufferInv, PoolTypes
<1>3. /\ Line' = Line /\ Latest' = Latest /\ Front' = Front /\ DuePacket' = DuePacket
      /\ (Between' <=> Between) /\ (Within' <=> Within) /\ (Stale' <=> Stale) /\ (Reading' <=> Reading)
      /\ (NotBefore(now)' <=> NotBefore(now)) /\ (NotBefore(now + SppSize)' <=> NotBefore(now + SppSize))
  BY <1>1 DEF Line, Latest, Front, DuePacket, Between, Within, Stale, Reading, NotBefore, pool_vars,
              locks, streams, workers
<1>4. SimulatorTypes' /\ AsAskedOrCut(Line)'
  BY <1>1, <1>3 DEF SimulatorInv, SimulatorTypes, AsAskedOrCut
<1>5. Searching' /\ Putting' /\ Ending'
  <2>1. Searching' /\ Putting'
    BY <1>1, <1>3 DEF SimulatorInv, Searching, Putting
  <2>2. Ending'
    BY <1>1, <1>3 DEF SimulatorInv, Ending
  <2> QED  BY <2>1, <2>2
<1> QED  BY <1>2, <1>4, <1>5 DEF SimulatorInv

LEMMA SimulatorInvariant ==
    ASSUME SimulatorFacts
    PROVE  SimulatorSpec => []SimulatorInv
<1>1. SimulatorInit => SimulatorInv
  BY InitSimulator
<1>2. SimulatorInv /\ [SimulatorNext]_(simulator_vars) => SimulatorInv'
  <2> SUFFICES ASSUME SimulatorInv, [SimulatorNext]_(simulator_vars)
               PROVE  SimulatorInv'
    OBVIOUS
  <2>1. CASE \E w \in Worker : AskForPacket(w) \/ KeepGenerating(w)
    BY <2>1, SimulatorWorker
  <2>2. CASE WorkTx
    BY <2>2, SearchStep, PutStep, OrderStep, LookAheadStep, JoinStep, WriteStep DEF WorkTx
  <2>3. CASE UNCHANGED simulator_vars
    BY <2>3, SameSimulator
  <2> QED  BY <2>1, <2>2, <2>3 DEF SimulatorNext, Over
<1> QED  BY <1>1, <1>2, PTL DEF SimulatorSpec

\* What the thread of the simulated radio writes into the virtual space is what the
\* firmware asked for: packet after packet in the order of their ids, each completely
\* and every sample at its time, also when a packet begins in the spp in which the last
\* one ends (hw_simulator_t::work_tx, hw_simulator.cpp:382).  The only exception is a
\* packet that begins in a later spp than that in which it was looked up and is longer
\* than the one before (hw_simulator.cpp:507): it is sent from its middle, after a gap
\* of less than an spp and not after its time.
THEOREM WrittenAsAskedOrCutHolds ==
    ASSUME SimulatorFacts
    PROVE  SimulatorSpec => []WrittenAsAskedOrCut
<1>1. SimulatorInv => WrittenAsAskedOrCut
  BY LineIsSent DEF SimulatorInv, SimulatorTypes, WrittenAsAskedOrCut
<1> QED  BY <1>1, SimulatorInvariant, PTL

\* The assertions of that thread hold if packets are generated in time (InTime), also in
\* plans in which packets are cut: "transmission time of expected packet earlier than
\* current time" (hw_simulator.cpp:383, 518), "nof leading samples larger than one spp"
\* (414, 529) and "more samples counted than packet has in total" (454).
FoundInTime ==
    /\ spc = "loop" => \A b \in Available(order_id) : meta[b].time >= now
    /\ spc = "zeros" => now <= time
    /\ spc \in {"samples", "joined"} => 0 <= offset /\ offset < SppSize
    /\ spc = "samples" => 0 <= pcnt /\ pcnt < plen
    /\ spc = "ahead" => \A b \in Available(order_id) : meta[b].time >= now + offset + this

THEOREM FoundInTimeHolds ==
    ASSUME SimulatorFacts
    PROVE  SimulatorSpec => []FoundInTime
<1>1. SimulatorInv => FoundInTime
  <2> SUFFICES ASSUME SimulatorInv PROVE FoundInTime
    OBVIOUS
  <2>f. PoolAssumption /\ Planned /\ BufferInv /\ order_id \in Nat
    BY DEF SimulatorFacts, SimulatorInv, SimulatorTypes
  <2>a. ASSUME NEW b \in Available(order_id)
        PROVE  /\ DuePacket \in Packet /\ meta[b].time = Packets[DuePacket].time
               /\ DuePacket \in 1 .. taken /\ DuePacket \notin dropped
    <3>1. b \in Buffer /\ inner[b] /\ meta[b].order = order_id
      BY DEF Available
    <3> QED  BY <2>f, <3>1, DueBuffer
  <2>1. ASSUME spc = "loop", NEW b \in Available(order_id) PROVE meta[b].time >= now
    BY <2>1, <2>a DEF SimulatorInv, Searching, NotBefore
  <2>2. ASSUME spc = "zeros" PROVE now <= time
    <3>1. zeros \in Nat /\ now + zeros * SppSize <= time /\ now \in Nat /\ time \in Int
      BY <2>2 DEF SimulatorInv, Searching, SimulatorTypes
    <3>2. zeros * SppSize \in Nat
      BY <3>1, SppType, ProductType
    <3> QED  BY <3>1, <3>2
  <2>3. spc \in {"samples", "joined"} => 0 <= offset /\ offset < SppSize
    BY SppType DEF SimulatorInv, SimulatorTypes, Putting
  <2>4. spc = "samples" => 0 <= pcnt /\ pcnt < plen
    BY DEF SimulatorInv, Putting
  <2>5. ASSUME spc = "ahead", NEW b \in Available(order_id)
        PROVE  meta[b].time >= now + offset + this
    <3>1. /\ Stale /\ now + offset + this = Front
          /\ Front <= Packets[order_id].time + Packets[order_id].len
      BY <2>5 DEF SimulatorInv, Ending
    <3>2. order_id \in Packet
      <4>1. chunks \in Seq(Chunks) /\ spp \in Seq(Chunks)
        BY DEF SimulatorInv, SimulatorTypes
      <4>2. Line \in Seq(Chunks)
        BY <4>1, ConcatProperties DEF Line
      <4>3. Latest \in Chunks
        BY <3>1, <4>2, EmptySeq, LenProperties DEF Latest, Stale
      <4> QED  BY <3>1, <4>3 DEF Stale, Between, Chunks
    <3>3. Packets[DuePacket].time >= Packets[order_id].time + Packets[order_id].len
      BY <2>f, <2>a, <3>2, PlannedPacket DEF DuePacket
    <3>4. now + offset + this \in Int
      BY DEF SimulatorInv, SimulatorTypes
    <3>5. Packets[DuePacket].time \in Int /\ Packets[order_id].time + Packets[order_id].len \in Int
      BY <2>f, <2>a, <3>2, EndType, Zenon
    <3>6. now + offset + this <= Packets[order_id].time + Packets[order_id].len
      BY <3>1, Zenon
    <3>7. \A x, y, z \in Int : x >= y /\ z <= y => x >= z
      OBVIOUS
    <3>8. Packets[DuePacket].time >= now + offset + this
      BY <3>3, <3>4, <3>5, <3>6, <3>7, Zenon
    <3> QED  BY <2>a, <3>8, Zenon
  <2> QED  BY <2>1, <2>2, <2>3, <2>4, <2>5 DEF FoundInTime
<1> QED  BY <1>1, SimulatorInvariant, PTL

=============================================================================
