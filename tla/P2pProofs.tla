-------------------------------- MODULE P2pProofs --------------------------------
(***************************************************************************)
(* No two packets of the p2p firmware meet on the air, and nobody sends    *)
(* who has no right to do so any more, for every number of PTs, of         *)
(* resources and of HARQ processes, every period and validity, and         *)
(* whichever packets are lost.                                             *)
(*                                                                         *)
(* All beacons are a whole number of periods apart: there is an anchor to  *)
(* which every beacon time known to any device is congruent, however old   *)
(* it is.  A packet therefore lies in the same place of its period for     *)
(* every device, and places of different devices do not overlap.  Packets  *)
(* of one device follow each other.                                        *)
(***************************************************************************)
EXTENDS P2p, WellFoundedInduction, TLAPS

Packets == [start : Int, len : Int, rx : SUBSET Devices, pdc : SUBSET Devices,
            data : Seq(Nat), generated : BOOLEAN]
Reports == [at : Int, handle : {"nothing", "start", "steady", "dissociation"}]
Records == [state : {"off", "start", "steady", "dissociation", "nop"},
            stopping : BOOLEAN, released : BOOLEAN, report : Reports,
            known : Int, sent : BOOLEAN, sched : Int, earliest : Int, job : BOOLEAN]
Queues(d) == [Peers(d) -> Seq(Nat)]
Works(d) == [r : Records, q : Queues(d), a : Seq(Packets), left : BOOLEAN]

(* Time t is offset o after a beacon of the anchor a. *)
InFrame(t, a, o) == \E k \in Int : t = a + o + BeaconPeriod * k

Resources == 0..(N_resources - 1)
UlStart(p, i) == OffsetBeacon + p * (Ul + Dl) + stride * i

UplinkOf(p, t, a) == t.len = Ul /\ \E i \in Resources : InFrame(t.start, a, UlStart(p, i))
Downlink(t, a) ==
    /\ t.data # <<>> /\ t.len = Dl
    /\ \E p \in Pts, i \in Resources : InFrame(t.start, a, UlStart(p, i) + Ul)
Beacon(t, a) == t.data = <<>> /\ t.len = OffsetBeacon /\ t.rx \subseteq Pts /\ InFrame(t.start, a, 0)

(* A packet lies where packets of its device belong. *)
Placed(d, t, a) == IF d = FT THEN Beacon(t, a) \/ Downlink(t, a) ELSE UplinkOf(d, t, a)

(* The device with record r and packets s. *)
DeviceInv(d, r, s, a) ==
    /\ r \in Records /\ s \in Seq(Packets)
    /\ r.known = Far \/ InFrame(r.known, a, 0)
    /\ \A i \in DOMAIN s : Placed(d, s[i], a) /\ End(s[i]) <= ValidAfterNow + BeaconPeriod
    /\ \A i, j \in DOMAIN s : i < j => End(s[i]) <= s[j].start
    /\ r.state = "dissociation" =>
          r.report.handle = "dissociation" /\ \A i \in DOMAIN s : End(s[i]) <= r.report.at
    /\ r.released => r.state = "nop" /\ \A i \in DOMAIN s : End(s[i]) <= 0

(* A PT knows no later beacon than the last one, sent at time b. *)
PtInv(r, s, b) ==
    /\ r.known <= b
    /\ \A i \in DOMAIN s : End(s[i]) <= r.earliest /\ s[i].start < b + ValidAfterBeacon

(* The FT has sent nothing into its next beacon. *)
FtInv(r, s, a) ==
    /\ r.known <= PrepareDuration
    /\ \A i \in DOMAIN s :
          /\ End(s[i]) <= Max2(r.earliest, r.known + OffsetBeacon)
          /\ s[i].data = <<>> => s[i].start <= r.known
    /\ r.state = "steady" =>
          /\ InFrame(r.sched, a, 0) /\ r.known <= r.sched
          /\ r.report = [at |-> r.sched - PrepareDuration, handle |-> "steady"]
          /\ r.sent => r.sched = r.known + BeaconPeriod
          /\ \A i \in DOMAIN s : End(s[i]) <= r.sched
    /\ r.state \in {"off", "start"} => ~r.sent

BeforeFirstBeacon == dev[FT].state \in {"off", "start"}

Anchored(a) ==
    /\ \A d \in Devices : DeviceInv(d, dev[d], air[d], a)
    /\ \A p \in Pts : PtInv(dev[p], air[p], dev[FT].known)
    /\ FtInv(dev[FT], air[FT], a)

IInv ==
    /\ dev \in [Devices -> Records] /\ air \in [Devices -> Seq(Packets)]
    /\ queue = [d \in Devices |-> queue[d]] /\ \A d \in Devices : queue[d] \in Queues(d)
    /\ BeforeFirstBeacon => \A d \in Devices : dev[d].known = Far /\ air[d] = <<>>
    /\ \E a \in Int : Anchored(a)

--------------------------------------------------------------------------------
(* Numbers *)

LEMMA Constants ==
    /\ N_pt \in Nat /\ N_pt > 0 /\ N_resources \in Nat /\ N_resources > 0
    /\ BeaconPeriod \in Nat /\ BeaconPeriod > 0 /\ OffsetBeacon \in Nat /\ OffsetBeacon > 0
    /\ Ul \in Nat /\ Ul > 0 /\ Dl \in Nat /\ Dl > 0 /\ Turnaround \in Nat /\ Turnaround > 0
    /\ MaxDelay \in Nat /\ ValidAfterNow \in Nat /\ ValidAfterBeacon \in Nat
    /\ PrepareDuration \in Nat /\ PrepareDuration >= MaxDelay + Turnaround
    /\ PrepareDuration <= ValidAfterNow
    /\ FirstBeacon \in Nat /\ FirstBeacon >= PrepareDuration
    /\ ValidAfterBeacon >= BeaconPeriod
    /\ DissociationTime \in Nat /\ DissociationTime >= ValidAfterNow + BeaconPeriod
    /\ OffsetBeacon + (Ul + Dl) * N_pt * N_resources <= BeaconPeriod
    /\ NofProcesses \in Nat /\ RxDelay \in Nat /\ max_simultaneous_tx_unicast \in Nat
    /\ Sizes \subseteq Nat /\ Far = -(ValidAfterBeacon + BeaconPeriod + RxDelay) /\ Far \in Int
    /\ FT \in Devices /\ FT \notin Pts /\ FT = N_pt /\ \A d : d \in Pts <=> d \in Devices /\ d # FT
    /\ \A d \in Devices : d \in Nat /\ d <= N_pt
<1>1. /\ N_pt \in Nat /\ N_pt > 0 /\ PrepareDuration \in Int /\ FirstBeacon \in Int
      /\ DissociationTime \in Int
  BY P2pAssumption
<1>p. \A t \in {BeaconPeriod, ValidAfterBeacon, ValidAfterNow, Turnaround, OffsetBeacon, Ul, Dl,
               N_resources, MaxDelay} : t > 0
  BY P2pAssumption
<1>2. /\ N_resources \in Int /\ N_resources > 0 /\ BeaconPeriod \in Int /\ BeaconPeriod > 0
      /\ OffsetBeacon \in Int /\ OffsetBeacon > 0 /\ Ul \in Int /\ Ul > 0 /\ Dl \in Int /\ Dl > 0
  BY <1>p, P2pAssumption
<1>3. /\ Turnaround \in Int /\ Turnaround > 0 /\ MaxDelay \in Int /\ MaxDelay > 0
      /\ ValidAfterNow \in Int /\ ValidAfterNow > 0
      /\ ValidAfterBeacon \in Int /\ ValidAfterBeacon > 0
  BY <1>p, P2pAssumption
<1>4. \A d : d \in Pts <=> d \in Devices /\ d # FT
  BY <1>1 DEF Pts, Devices, FT
<1>5. FT \in Devices /\ FT \notin Pts /\ FT = N_pt /\ \A d \in Devices : d \in Nat /\ d <= N_pt
  BY <1>1 DEF Pts, Devices, FT
<1>6. /\ PrepareDuration >= MaxDelay + Turnaround /\ FirstBeacon >= PrepareDuration
      /\ PrepareDuration <= ValidAfterNow /\ DissociationTime >= ValidAfterNow + BeaconPeriod
      /\ NofProcesses \in Nat /\ RxDelay \in Nat /\ max_simultaneous_tx_unicast \in Nat
      /\ Sizes \subseteq Nat /\ ValidAfterBeacon >= BeaconPeriod
      /\ OffsetBeacon + (Ul + Dl) * N_pt * N_resources <= BeaconPeriod
  BY P2pAssumption
<1>7. Far = -(ValidAfterBeacon + BeaconPeriod + RxDelay) /\ Far \in Int
  BY <1>2, <1>3, <1>6 DEF Far
<1>8. PrepareDuration \in Nat /\ FirstBeacon \in Nat /\ DissociationTime \in Nat
  <2>1. PrepareDuration >= 0
    BY <1>1, <1>3, <1>6
  <2>2. FirstBeacon >= 0 /\ DissociationTime >= 0
    BY <1>1, <1>2, <1>3, <1>6, <2>1
  <2> QED  BY <2>1, <2>2, <1>1
<1>9. /\ N_resources \in Nat /\ BeaconPeriod \in Nat /\ OffsetBeacon \in Nat /\ Ul \in Nat /\ Dl \in Nat
      /\ Turnaround \in Nat /\ MaxDelay \in Nat /\ ValidAfterNow \in Nat /\ ValidAfterBeacon \in Nat
  BY <1>2, <1>3
<1> QED  BY <1>1, <1>2, <1>3, <1>4, <1>5, <1>6, <1>7, <1>8, <1>9

LEMMA Multiples ==
    ASSUME NEW m \in Int, NEW n \in Int, NEW c \in Nat, m < n
    PROVE  m * c + c <= n * c /\ m * c \in Int /\ n * c \in Int
<1>1. (n - m - 1) * c >= 0
  <2>1. n - m - 1 \in Nat
    OBVIOUS
  <2> QED  BY <2>1, SMTT(30)
<1>2. (n - m - 1) * c = n * c - m * c - c
  BY SMTT(30)
<1> QED  BY <1>1, <1>2

LEMMA LeastExists ==
    ASSUME NEW S, S \subseteq Nat, S # {}
    PROVE  \E c \in S : \A o \in S : c <= o
<1> DEFINE Less == {ss \in Nat \X Nat : ss[1] < ss[2]}
<1>1. IsWellFoundedOn(Less, Nat)
  BY NatLessThanWellFounded DEF OpToRel
<1>2. \A x, y \in Nat : <<y, x>> \in Less <=> y < x
  OBVIOUS
<1> HIDE DEF Less
<1>3. PICK c \in S : \A o \in S : ~(<<o, c>> \in Less)
  BY <1>1, WFMin
<1>4. ASSUME NEW o \in S PROVE c <= o
  <2>1. c \in Nat /\ o \in Nat
    OBVIOUS
  <2>2. ~(o < c)
    BY <1>2, <1>3, <2>1
  <2> QED  BY <2>1, <2>2
<1> QED  BY <1>4

LEMMA GreatestExists ==
    ASSUME NEW S, NEW n \in Nat, S \subseteq 0..n, S # {}
    PROVE  \E c \in S : \A o \in S : c >= o
<1> DEFINE T == {x \in Nat : n - x \in S}
<1>1. PICK s \in S : s \in 0..n
  OBVIOUS
<1>2. n - s \in T
  <2>1. n - s \in Nat /\ n - (n - s) = s
    BY <1>1
  <2> QED  BY <2>1
<1>3. PICK c \in T : \A o \in T : c <= o
  BY <1>2, LeastExists
<1>4. n - c \in S /\ c \in Nat
  BY <1>3
<1>5. ASSUME NEW o \in S PROVE n - c >= o
  <2>1. o \in 0..n /\ n - o \in Nat /\ n - (n - o) = o
    OBVIOUS
  <2>2. n - o \in T
    BY <2>1
  <2> QED  BY <1>3, <1>4, <2>1, <2>2
<1> QED  BY <1>4, <1>5

(* What is a multiple of the period later has the same place in the frame. *)
LEMMA FrameOf ==
    ASSUME NEW t \in Int, NEW known \in Int, NEW a \in Int, NEW o \in Int,
           InFrame(known, a, 0), (t - known - o) % BeaconPeriod = 0
    PROVE  InFrame(t, a, o) /\ InFrame(t, known, o)
<1>c. BeaconPeriod \in Nat /\ BeaconPeriod > 0
  BY Constants
<1>1. PICK k \in Int : known = a + 0 + BeaconPeriod * k
  BY DEF InFrame
<1>2. PICK x \in Int : x = t - known - o
  OBVIOUS
<1>3. PICK j \in Int : x = BeaconPeriod * j + (x % BeaconPeriod)
  <2>1. x \div BeaconPeriod \in Int /\ x = BeaconPeriod * (x \div BeaconPeriod) + (x % BeaconPeriod)
    BY <1>c
  <2> QED  BY <2>1
<1>4. x = BeaconPeriod * j /\ BeaconPeriod * j \in Int /\ BeaconPeriod * k \in Int
  BY <1>2, <1>3, <1>c
<1>5. t = known + o + BeaconPeriod * j
  BY <1>2, <1>4
<1>6. BeaconPeriod * (k + j) = BeaconPeriod * k + BeaconPeriod * j
  BY <1>c, SMTT(30)
<1>7. t = a + o + BeaconPeriod * (k + j) /\ k + j \in Int
  BY <1>1, <1>4, <1>5, <1>6
<1> QED  BY <1>5, <1>7 DEF InFrame

LEMMA FrameMoves ==
    ASSUME NEW t \in Int, NEW a \in Int, NEW o \in Int, InFrame(t, a, o)
    PROVE  InFrame(t - 1, a - 1, o)
<1>1. PICK k \in Int : t = a + o + BeaconPeriod * k
  BY DEF InFrame
<1>2. BeaconPeriod * k \in Int
  BY Constants
<1>3. t - 1 = (a - 1) + o + BeaconPeriod * k
  BY <1>1, <1>2
<1> QED  BY <1>3 DEF InFrame

LEMMA NextFrame ==
    ASSUME NEW t \in Int, NEW a \in Int, InFrame(t, a, 0)
    PROVE  InFrame(t + BeaconPeriod, a, 0)
<1>1. PICK k \in Int : t = a + 0 + BeaconPeriod * k
  BY DEF InFrame
<1>2. BeaconPeriod * k \in Int /\ BeaconPeriod * (k + 1) = BeaconPeriod * k + BeaconPeriod
  BY Constants, SMTT(30)
<1>3. t + BeaconPeriod = a + 0 + BeaconPeriod * (k + 1) /\ k + 1 \in Int
  BY <1>1, <1>2, Constants
<1> QED  BY <1>3 DEF InFrame

(* Different places in the frame do not overlap. *)
LEMMA PlacesApart ==
    ASSUME NEW s \in Int, NEW t \in Int, NEW a \in Int, NEW o \in Nat, NEW p \in Nat,
           NEW l \in Nat, NEW m \in Nat,
           InFrame(s, a, o), InFrame(t, a, p), o + l <= p, p + m <= BeaconPeriod
    PROVE  s + l <= t \/ t + m <= s
<1>c. BeaconPeriod \in Nat /\ BeaconPeriod > 0
  BY Constants
<1>1. PICK j \in Int, k \in Int : s = a + o + BeaconPeriod * j /\ t = a + p + BeaconPeriod * k
  BY DEF InFrame
<1>2. PICK x \in Int, y \in Int : x = BeaconPeriod * j /\ y = BeaconPeriod * k
  BY <1>c
<1>3. CASE j <= k
  <2>1. x <= y
    <3>1. CASE j = k
      BY <3>1, <1>2
    <3>2. CASE j < k
      <4>1. j * BeaconPeriod + BeaconPeriod <= k * BeaconPeriod /\ j * BeaconPeriod \in Int
        BY <1>c, <3>2, Multiples
      <4>2. j * BeaconPeriod = x /\ k * BeaconPeriod = y
        BY <1>c, <1>2, SMTT(30)
      <4> QED  BY <1>c, <4>1, <4>2
    <3> QED  BY <1>3, <3>1, <3>2
  <2> QED  BY <1>1, <1>2, <2>1
<1>4. CASE k < j
  <2>1. k * BeaconPeriod + BeaconPeriod <= j * BeaconPeriod
    BY <1>c, <1>4, Multiples
  <2>2. j * BeaconPeriod = x /\ k * BeaconPeriod = y
    BY <1>c, <1>2, SMTT(30)
  <2>3. y + BeaconPeriod <= x
    BY <2>1, <2>2
  <2> QED  BY <1>1, <1>2, <2>3, <1>c
<1> QED  BY <1>3, <1>4

--------------------------------------------------------------------------------
(* Places in the frame *)

LEMMA SlotOf ==
    ASSUME NEW p \in Pts, NEW i \in Resources
    PROVE  /\ p + N_pt * i \in Nat /\ UlStart(p, i) = OffsetBeacon + (p + N_pt * i) * (Ul + Dl)
           /\ UlStart(p, i) \in Nat /\ UlStart(p, i) >= OffsetBeacon
           /\ UlStart(p, i) + (Ul + Dl) <= BeaconPeriod
<1> DEFINE m == p + N_pt * i
           c == Ul + Dl
           n == N_pt * N_resources
<1>1. p \in Nat /\ p < N_pt /\ i \in Nat /\ i < N_resources /\ N_pt \in Nat /\ N_resources \in Nat
  BY Constants DEF Pts, Resources
<1>2. m \in Nat /\ n \in Nat /\ m < n
  <2>1. i * N_pt + N_pt <= N_resources * N_pt /\ i * N_pt \in Int /\ N_resources * N_pt \in Int
    BY <1>1, Multiples
  <2>2. N_pt * i = i * N_pt /\ n = N_resources * N_pt
    BY <1>1, SMTT(30)
  <2>3. N_pt * i \in Nat
    BY <1>1, SMTT(30)
  <2> QED  BY <1>1, <2>1, <2>2, <2>3
<1>3. c \in Nat /\ c > 0
  BY Constants
<1>4. UlStart(p, i) = OffsetBeacon + m * c
  <2>1. p * c + (c * N_pt) * i = (p + N_pt * i) * c
    BY <1>1, <1>3, SMTT(30)
  <2>2. p * c \in Int /\ (c * N_pt) * i \in Int /\ OffsetBeacon \in Int
    BY <1>1, <1>3, Constants
  <2>3. UlStart(p, i) = OffsetBeacon + p * c + (c * N_pt) * i
    BY DEF UlStart, stride
  <2> QED  BY <2>1, <2>2, <2>3
<1>5. m * c + c <= n * c /\ m * c \in Int /\ n * c \in Int
  <2> HIDE DEF m, n, c
  <2> QED  BY <1>2, <1>3, Multiples
<1>6. m * c >= 0
  <2> HIDE DEF m, n, c
  <2> QED  BY <1>2, <1>3, SMTT(30)
<1>7. (Ul + Dl) * N_pt * N_resources = n * c
  BY <1>1, <1>3, SMTT(30)
<1>8. OffsetBeacon + n * c <= BeaconPeriod
  BY <1>7, Constants
<1>9. /\ OffsetBeacon + m * c \in Nat /\ OffsetBeacon + m * c >= OffsetBeacon
      /\ OffsetBeacon + m * c + c <= BeaconPeriod
  <2> HIDE DEF m, n, c
  <2> QED  BY <1>3, <1>5, <1>6, <1>8, Constants
<1> QED  BY <1>2, <1>4, <1>9

(* Slots with different numbers follow each other. *)
LEMMA SlotsFollow ==
    ASSUME NEW p \in Pts, NEW i \in Resources, NEW q \in Pts, NEW j \in Resources,
           p + N_pt * i # q + N_pt * j
    PROVE  \/ UlStart(p, i) + (Ul + Dl) <= UlStart(q, j)
           \/ UlStart(q, j) + (Ul + Dl) <= UlStart(p, i)
<1> DEFINE m == p + N_pt * i
           n == q + N_pt * j
           c == Ul + Dl
<1>1. /\ m \in Nat /\ n \in Nat /\ c \in Nat /\ m # n
      /\ UlStart(p, i) = OffsetBeacon + m * c /\ UlStart(q, j) = OffsetBeacon + n * c
      /\ OffsetBeacon \in Nat
  BY SlotOf, Constants
<1>c. c = Ul + Dl
  OBVIOUS
<1> HIDE DEF m, n, c
<1>2. CASE m < n
  <2>1. m * c + c <= n * c /\ m * c \in Int /\ n * c \in Int
    BY <1>1, <1>2, Multiples
  <2> QED  BY <1>1, <1>c, <2>1
<1>3. CASE n < m
  <2>1. n * c + c <= m * c /\ m * c \in Int /\ n * c \in Int
    BY <1>1, <1>3, Multiples
  <2> QED  BY <1>1, <1>c, <2>1
<1> QED  BY <1>1, <1>2, <1>3

(* The resources of different PTs have different numbers. *)
LEMMA PtsHaveOwnSlots ==
    ASSUME NEW p \in Pts, NEW i \in Resources, NEW q \in Pts, NEW j \in Resources, p # q
    PROVE  p + N_pt * i # q + N_pt * j
<1>1. /\ p \in Nat /\ p < N_pt /\ q \in Nat /\ q < N_pt /\ i \in Nat /\ j \in Nat
      /\ N_pt \in Nat
  BY Constants DEF Pts, Resources
<1>2. PICK x \in Int, y \in Int : x = i * N_pt /\ y = j * N_pt
  BY <1>1
<1>3. N_pt * i = x /\ N_pt * j = y
  BY <1>1, <1>2, SMTT(30)
<1>4. CASE i = j
  BY <1>1, <1>3, <1>4
<1>5. CASE i < j
  <2>1. x + N_pt <= y
    BY <1>1, <1>2, <1>5, Multiples
  <2> QED  BY <1>1, <1>3, <2>1
<1>6. CASE j < i
  <2>1. y + N_pt <= x
    BY <1>1, <1>2, <1>6, Multiples
  <2> QED  BY <1>1, <1>3, <2>1
<1> QED  BY <1>1, <1>4, <1>5, <1>6

Apart(t, u) == End(t) <= u.start \/ End(u) <= t.start

(* Packets of different devices never meet, whenever they were asked for. *)
LEMMA UplinksApart ==
    ASSUME NEW a \in Int, NEW t \in Packets, NEW u \in Packets,
           NEW p \in Pts, NEW q \in Pts, p # q, UplinkOf(p, t, a), UplinkOf(q, u, a)
    PROVE  Apart(t, u)
<1>1. PICK i \in Resources, j \in Resources :
         /\ t.len = Ul /\ InFrame(t.start, a, UlStart(p, i))
         /\ u.len = Ul /\ InFrame(u.start, a, UlStart(q, j))
  BY DEF UplinkOf
<1>2. PICK x \in Nat, y \in Nat :
         /\ x = UlStart(p, i) /\ y = UlStart(q, j)
         /\ x + Ul <= y \/ y + Ul <= x
         /\ x + Ul <= BeaconPeriod /\ y + Ul <= BeaconPeriod
  BY SlotOf, SlotsFollow, PtsHaveOwnSlots, Constants
<1>3. t.start \in Int /\ u.start \in Int /\ Ul \in Nat
  BY Constants DEF Packets
<1>4. t.start + Ul <= u.start \/ u.start + Ul <= t.start
  <2>1. CASE x + Ul <= y
    BY <1>1, <1>2, <1>3, <2>1, PlacesApart
  <2>2. CASE y + Ul <= x
    BY <1>1, <1>2, <1>3, <2>2, PlacesApart
  <2> QED  BY <1>2, <2>1, <2>2
<1> QED  BY <1>1, <1>4 DEF Apart, End

LEMMA FtApart ==
    ASSUME NEW a \in Int, NEW t \in Packets, NEW u \in Packets, NEW q \in Pts,
           Beacon(t, a) \/ Downlink(t, a), UplinkOf(q, u, a)
    PROVE  Apart(t, u)
<1>1. PICK j \in Resources : u.len = Ul /\ InFrame(u.start, a, UlStart(q, j))
  BY DEF UplinkOf
<1>2. PICK y \in Nat : y = UlStart(q, j) /\ y >= OffsetBeacon /\ y + Ul <= BeaconPeriod
  BY SlotOf, Constants
<1>3. /\ t.start \in Int /\ u.start \in Int /\ Ul \in Nat /\ Dl \in Nat /\ OffsetBeacon \in Nat
      /\ BeaconPeriod \in Nat
  BY Constants DEF Packets
<1>4. CASE Beacon(t, a)
  <2>1. t.len = OffsetBeacon /\ InFrame(t.start, a, 0)
    BY <1>4 DEF Beacon
  <2>2. 0 + OffsetBeacon <= y
    BY <1>2, <1>3
  <2>3. t.start + OffsetBeacon <= u.start \/ u.start + Ul <= t.start
    BY <1>1, <1>2, <1>3, <2>1, <2>2, PlacesApart
  <2> QED  BY <1>1, <2>1, <2>3 DEF Apart, End
<1>5. CASE Downlink(t, a)
  <2>1. PICK p \in Pts, i \in Resources : t.len = Dl /\ InFrame(t.start, a, UlStart(p, i) + Ul)
    BY <1>5 DEF Downlink
  <2>2. PICK x \in Nat : x = UlStart(p, i) + Ul /\ x + Dl <= BeaconPeriod
    BY SlotOf, Constants
  <2>3. x + Dl <= y \/ y + Ul <= x
    <3>1. UlStart(p, i) \in Nat
      BY SlotOf
    <3>2. CASE p + N_pt * i = q + N_pt * j
      <4>1. UlStart(p, i) = y
        BY <1>2, <3>2, SlotOf
      <4> QED  BY <1>2, <1>3, <2>2, <4>1
    <3>3. CASE p + N_pt * i # q + N_pt * j
      <4>1. UlStart(p, i) + (Ul + Dl) <= y \/ y + (Ul + Dl) <= UlStart(p, i)
        BY <1>2, <3>3, SlotsFollow
      <4> QED  BY <1>2, <1>3, <2>2, <3>1, <4>1
    <3> QED  BY <3>2, <3>3
  <2>4. t.start + Dl <= u.start \/ u.start + Ul <= t.start
    <3>1. CASE x + Dl <= y
      BY <1>1, <1>2, <1>3, <2>1, <2>2, <3>1, PlacesApart
    <3>2. CASE y + Ul <= x
      BY <1>1, <1>2, <1>3, <2>1, <2>2, <3>2, PlacesApart
    <3> QED  BY <2>3, <3>1, <3>2
  <2> QED  BY <1>1, <2>1, <2>4 DEF Apart, End
<1> QED  BY <1>4, <1>5

LEMMA DevicesApart ==
    ASSUME NEW a \in Int, NEW t \in Packets, NEW u \in Packets,
           NEW d \in Devices, NEW e \in Devices, d # e, Placed(d, t, a), Placed(e, u, a)
    PROVE  Apart(t, u)
<1>1. CASE d # FT /\ e # FT
  BY <1>1, UplinksApart, Constants DEF Placed
<1>2. CASE d = FT
  BY <1>2, FtApart, Constants DEF Placed
<1>3. CASE e = FT
  <2>1. Apart(u, t)
    BY <1>3, FtApart, Constants DEF Placed
  <2> QED  BY <2>1 DEF Apart
<1> QED  BY <1>1, <1>2, <1>3

(* The invariant implies that no packets meet. *)
LEMMA IInvNoCollision == IInv => NoCollision
<1> SUFFICES ASSUME IInv, NEW x \in OnAir, NEW y \in OnAir, x # y
             PROVE  Apart(At(x), At(y))
  BY DEF NoCollision, Apart
<1>1. PICK a \in Int : \A d \in Devices : DeviceInv(d, dev[d], air[d], a)
  BY DEF IInv, Anchored
<1>2. PICK d, i : d \in Devices /\ i \in DOMAIN air[d] /\ x = <<d, i>>
  BY DEF OnAir
<1>3. PICK e, j : e \in Devices /\ j \in DOMAIN air[e] /\ y = <<e, j>>
  BY DEF OnAir
<1>4. /\ At(x) = air[d][i] /\ At(y) = air[e][j] /\ air[d][i] \in Packets /\ air[e][j] \in Packets
      /\ i \in Nat /\ j \in Nat
  BY <1>1, <1>2, <1>3 DEF At, DeviceInv
<1>5. CASE d # e
  <2>1. Placed(d, air[d][i], a) /\ Placed(e, air[e][j], a)
    BY <1>1, <1>2, <1>3 DEF DeviceInv
  <2>2. Apart(air[d][i], air[e][j])
    BY <1>2, <1>3, <1>4, <1>5, <2>1, DevicesApart
  <2> QED  BY <1>4, <2>2
<1>6. CASE d = e
  <2>1. i < j \/ j < i
    BY <1>2, <1>3, <1>4, <1>6
  <2>2. \A m, n \in DOMAIN air[d] : m < n => End(air[d][m]) <= air[d][n].start
    BY <1>1, <1>2 DEF DeviceInv
  <2> QED  BY <1>2, <1>3, <1>4, <1>6, <2>1, <2>2 DEF Apart
<1> QED  BY <1>5, <1>6

(* The invariant implies that nobody sends for too long. *)
LEMMA IInvSilence == IInv => Silence
<1> SUFFICES ASSUME IInv PROVE Silence
  OBVIOUS
<1>1. PICK a \in Int : Anchored(a)
  BY DEF IInv
<1>2. SilentWithoutBeacon
  BY <1>1 DEF Anchored, PtInv, SilentWithoutBeacon
<1>3. QuietWhenReleased
  BY <1>1 DEF Anchored, DeviceInv, QuietWhenReleased, Over
<1> QED  BY <1>2, <1>3 DEF Silence

--------------------------------------------------------------------------------
(* Opportunities *)

LEMMA FirstStartIs ==
    ASSUME NEW offsets \in SUBSET Int, NEW known \in Int, NEW earliest \in Nat, NEW latest \in Int,
           FirstStart(offsets, known, earliest, latest) # None
    PROVE  LET start == FirstStart(offsets, known, earliest, latest) IN
           /\ start \in Int /\ start >= earliest /\ start >= known /\ start < latest
           /\ \E o \in offsets : (start - known - o) % BeaconPeriod = 0
<1> DEFINE starts == {t \in Max2(earliest, known)..(latest - 1) :
                         \E o \in offsets : (t - known - o) % BeaconPeriod = 0}
           start == FirstStart(offsets, known, earliest, latest)
<1>1. start = IF starts = {} THEN None ELSE Min(starts)
  BY DEF FirstStart
<1>2. Max2(earliest, known) \in Nat /\ Max2(earliest, known) >= earliest /\ Max2(earliest, known) >= known
  BY DEF Max2
<1>3. \A t \in starts : t \in Nat /\ t >= earliest /\ t >= known /\ t < latest
  BY <1>2
<1>4. starts # {} /\ start = Min(starts)
  BY <1>1
<1>5. \A t \in starts : \E o \in offsets : (t - known - o) % BeaconPeriod = 0
  OBVIOUS
<1> HIDE DEF starts
<1>6. \E t \in starts : \A u \in starts : t <= u
  BY <1>3, <1>4, LeastExists
<1>7. start \in starts
  BY <1>4, <1>6 DEF Min
<1> QED  BY <1>3, <1>5, <1>7

LEMMA EarliestIs ==
    ASSUME NEW e \in Int
    PROVE  Earliest(e) \in Nat /\ Earliest(e) >= e /\ Earliest(e) > 0
BY Constants DEF Earliest, Max2

LEMMA OffsetsAre ==
    ASSUME NEW p \in Pts
    PROVE  /\ OffsetUl(p) \in SUBSET Int /\ OffsetDl(p) \in SUBSET Int
           /\ \A o \in OffsetUl(p) : \E i \in Resources : o = UlStart(p, i)
           /\ \A o \in OffsetDl(p) : \E i \in Resources : o = UlStart(p, i) + Ul
<1>1. \A i \in Resources : UlStart(p, i) \in Int /\ UlStart(p, i) + Ul \in Int
  BY SlotOf, Constants
<1>2. OffsetUl(p) = {UlStart(p, i) : i \in Resources}
  BY DEF OffsetUl, UlStart, Resources
<1>3. \A o \in OffsetDl(p) : \E i \in Resources : o = UlStart(p, i) + Ul
  BY <1>2 DEF OffsetDl
<1> QED  BY <1>1, <1>2, <1>3

(* A PT sends in its resources, not before its last packet and not for longer
   than is valid. *)
LEMMA UplinkOpportunity ==
    ASSUME NEW p \in Pts, NEW r \in Records, NEW a \in Int,
           r.known = Far \/ InFrame(r.known, a, 0), TxOpportunity(r, p, p) # None
    PROVE  LET start == TxOpportunity(r, p, p) IN
           /\ start \in Int /\ start >= r.earliest /\ r.known # Far
           /\ start < r.known + ValidAfterBeacon /\ start < ValidAfterNow
           /\ \E i \in Resources : InFrame(start, a, UlStart(p, i))
<1> DEFINE start == TxOpportunity(r, p, p)
<1>1. start = FirstStart(OffsetUl(p), r.known, Earliest(r.earliest), LatestUl(r.known))
  BY Constants DEF TxOpportunity
<1>2. PICK known \in Int, e \in Int : known = r.known /\ e = r.earliest
  BY DEF Records
<1>3. /\ LatestUl(known) \in Int /\ LatestUl(known) <= known + ValidAfterBeacon
      /\ LatestUl(known) <= ValidAfterNow
  BY Constants DEF LatestUl, Min2
<1>4. /\ start \in Int /\ start >= Earliest(e) /\ start >= known /\ start < LatestUl(known)
      /\ \E o \in OffsetUl(p) : (start - known - o) % BeaconPeriod = 0
  BY <1>1, <1>2, <1>3, OffsetsAre, EarliestIs, FirstStartIs
<1> HIDE DEF start
<1>5. start >= e /\ start > 0 /\ start < known + ValidAfterBeacon /\ start < ValidAfterNow
  BY <1>2, <1>3, <1>4, EarliestIs, Constants
<1>6. known # Far
  BY <1>2, <1>4, <1>5, Constants
<1>7. \E i \in Resources : InFrame(start, a, UlStart(p, i))
  <2>1. PICK o \in OffsetUl(p) : (start - known - o) % BeaconPeriod = 0
    BY <1>4
  <2>2. PICK i \in Resources : o = UlStart(p, i) /\ o \in Int
    BY OffsetsAre
  <2>3. InFrame(start, a, o)
    BY <1>2, <1>4, <1>6, <2>1, <2>2, FrameOf
  <2> QED  BY <2>2, <2>3
<1> QED  BY <1>2, <1>4, <1>5, <1>6, <1>7 DEF start

(* The FT sends after its last packet, and within the period of its last beacon. *)
LEMMA DownlinkOpportunity ==
    ASSUME NEW p \in Pts, NEW r \in Records, NEW a \in Int,
           r.known = Far \/ InFrame(r.known, a, 0), TxOpportunity(r, FT, p) # None
    PROVE  LET start == TxOpportunity(r, FT, p) IN
           /\ start \in Int /\ start >= r.earliest /\ r.sent /\ r.known # Far
           /\ start >= r.known + OffsetBeacon /\ start + Dl <= r.known + BeaconPeriod
           /\ \E i \in Resources : InFrame(start, a, UlStart(p, i) + Ul)
<1> DEFINE start == TxOpportunity(r, FT, p)
<1>1. r.sent /\ start = FirstStart(OffsetDl(p), r.known, Earliest(r.earliest), r.known + BeaconPeriod)
  BY DEF TxOpportunity
<1>2. PICK known \in Int, e \in Int : known = r.known /\ e = r.earliest
  BY DEF Records
<1>c. BeaconPeriod \in Nat /\ BeaconPeriod > 0 /\ Ul \in Nat /\ Dl \in Nat /\ Dl > 0 /\ OffsetBeacon \in Nat
  BY Constants
<1>4. /\ start \in Int /\ start >= Earliest(e) /\ start >= known /\ start < known + BeaconPeriod
      /\ \E o \in OffsetDl(p) : (start - known - o) % BeaconPeriod = 0
  BY <1>1, <1>2, <1>c, OffsetsAre, EarliestIs, FirstStartIs
<1> HIDE DEF start
<1>5. start >= e /\ start > 0
  BY <1>2, <1>4, EarliestIs
<1>6. known # Far
  BY <1>2, <1>4, <1>5, Constants
<1>7. PICK o \in OffsetDl(p) : (start - known - o) % BeaconPeriod = 0
  BY <1>4
<1>8. PICK i \in Resources : o = UlStart(p, i) + Ul
  BY OffsetsAre
<1>9. o \in Nat /\ o >= OffsetBeacon /\ o + Dl <= BeaconPeriod
  BY <1>8, <1>c, SlotOf
<1>10. InFrame(start, a, o) /\ InFrame(start, known, o)
  <2>1. InFrame(known, a, 0) /\ o \in Int /\ start \in Int
    BY <1>2, <1>4, <1>6, <1>9
  <2>2. InFrame(start, a, o)
    BY <1>7, <2>1, FrameOf
  <2>3. InFrame(start, known, o)
    BY <1>7, <2>1, FrameOf
  <2> QED  BY <2>2, <2>3
<1>11. start = known + o
  <2>1. PICK j \in Int, x \in Int : start = known + o + x /\ x = j * BeaconPeriod
    <3>1. PICK j \in Int : start = known + o + BeaconPeriod * j
      BY <1>10 DEF InFrame
    <3>2. BeaconPeriod * j = j * BeaconPeriod /\ j * BeaconPeriod \in Int
      BY <1>c, SMTT(30)
    <3>3. start = known + o + j * BeaconPeriod
      BY <3>1, <3>2, Zenon
    <3> QED  BY <3>2, <3>3
  <2>2. CASE j = 0
    <3>1. x = 0
      BY <1>c, <2>1, <2>2
    <3> QED  BY <2>1, <3>1, <1>2, <1>9
  <2>3. CASE j > 0
    <3>1. 0 * BeaconPeriod + BeaconPeriod <= j * BeaconPeriod
      BY <1>c, <2>3, Multiples
    <3>2. x >= BeaconPeriod
      BY <1>c, <2>1, <3>1
    <3> QED  BY <1>2, <1>4, <1>9, <1>c, <2>1, <3>2
  <2>4. CASE j < 0
    <3>1. j * BeaconPeriod + BeaconPeriod <= 0 * BeaconPeriod
      BY <1>c, <2>4, Multiples
    <3>2. x + BeaconPeriod <= 0
      BY <1>c, <2>1, <3>1
    <3> QED  BY <1>2, <1>4, <1>9, <1>c, <2>1, <3>2
  <2> QED  BY <2>2, <2>3, <2>4
<1>12. start >= known + OffsetBeacon /\ start + Dl <= known + BeaconPeriod
  BY <1>2, <1>9, <1>11, <1>c
<1> QED  BY <1>1, <1>2, <1>4, <1>5, <1>6, <1>8, <1>10, <1>12 DEF start

--------------------------------------------------------------------------------
(* Packets asked for *)

LEMMA FittingIs ==
    ASSUME NEW q \in Seq(Nat)
    PROVE  Fitting(q) \in 0..Len(q)
<1> DEFINE S == {n \in 0..Len(q) : n = 0 \/ SizeOf(SubSeq(q, 1, n)) < N_TB}
<1>1. Len(q) \in Nat /\ 0 \in S /\ S \subseteq 0..Len(q)
  OBVIOUS
<1>2. Fitting(q) = Max(S)
  BY DEF Fitting
<1> HIDE DEF S
<1>3. \E c \in S : \A o \in S : c >= o
  BY <1>1, GreatestExists
<1>4. Max(S) \in S
  BY <1>3 DEF Max
<1> QED  BY <1>1, <1>2, <1>4

Later(r, e) == [r EXCEPT !.earliest = e]

LEMMA LaterIs ==
    ASSUME NEW r \in Records, NEW e \in Int
    PROVE  /\ Later(r, e) \in Records /\ Later(r, e).earliest = e
           /\ Later(r, e).state = r.state /\ Later(r, e).released = r.released
           /\ Later(r, e).report = r.report /\ Later(r, e).known = r.known
           /\ Later(r, e).sent = r.sent /\ Later(r, e).sched = r.sched
BY DEF Records, Later

LEMMA PacketIs ==
    ASSUME NEW start \in Int, NEW len \in Int, NEW rx \in SUBSET Devices, NEW data \in Seq(Nat)
    PROVE  LET t == Packet(start, len, rx, data) IN
           t \in Packets /\ t.start = start /\ t.len = len /\ t.data = data /\ t.rx = rx /\ End(t) = start + len
<1>1. PICK t : t = Packet(start, len, rx, data)
  OBVIOUS
<1>2. /\ t = [start |-> start, len |-> len, rx |-> rx, pdc |-> {}, data |-> data, generated |-> FALSE]
  BY <1>1 DEF Packet
<1>3. t.start = start /\ t.len = len /\ t.data = data /\ t.rx = rx
  BY <1>2
<1>4. t \in Packets
  BY <1>2 DEF Packets
<1> QED  BY <1>1, <1>3, <1>4 DEF End

(* What worksub_tx_unicast() does to the work in progress w. *)
Sent(d, w, u, peer, start, len) ==
    /\ u \in Works(d) /\ u.r = Later(w.r, start + len)
    /\ \E data \in Seq(Nat) : data # <<>> /\ u.a = Append(w.a, Packet(start, len, {peer}, data))

LEMMA UnicastIs ==
    ASSUME NEW d \in Devices, NEW w \in Works(d), NEW peer \in Peers(d),
           NEW start \in Int, NEW len \in Int, TxUnicast(w, peer, start, len) # w
    PROVE  Sent(d, w, TxUnicast(w, peer, start, len), peer, start, len)
<1> DEFINE q == w.q[peer]
           n == Fitting(q)
           data == SubSeq(q, 1, n)
<1>1. q \in Seq(Nat) /\ w.q \in Queues(d) /\ w.r \in Records /\ w.a \in Seq(Packets) /\ w.left \in BOOLEAN
  BY DEF Works, Queues
<1>2. n \in 0..Len(q)
  BY <1>1, FittingIs
<1>3. PICK u : u = TxUnicast(w, peer, start, len)
  OBVIOUS
<1>4. ~(q = <<>> \/ ~ProcessFree(w.a) \/ n = 0)
  BY DEF TxUnicast
<1>5. PICK v : v = Later(w.r, start + len) /\ v \in Records
  <2>1. start + len \in Int
    OBVIOUS
  <2> QED  BY <1>1, <2>1, LaterIs
<1>6. PICK rest : rest = SubSeq(q, n + 1, Len(q)) /\ rest \in Seq(Nat)
  <2>1. n + 1 \in 1..(Len(q) + 1) /\ Len(q) \in Nat
    <3> HIDE DEF q, n
    <3> QED  BY <1>1, <1>2
  <2>2. SubSeq(q, n + 1, Len(q)) \in Seq(Nat)
    <3> HIDE DEF q, n
    <3> QED  BY <1>1, <2>1, SMTT(60)
  <2> QED  BY <2>2
<1>7. data \in Seq(Nat) /\ data # <<>>
  <2>1. n > 0 /\ n \in Nat /\ n <= Len(q)
    BY <1>1, <1>2, <1>4
  <2>2. data \in Seq(Nat) /\ Len(data) = n
    <3> HIDE DEF q, n
    <3> QED  BY <1>1, <2>1
  <2> HIDE DEF data, n
  <2> QED  BY <2>1, <2>2
<1> HIDE DEF data
<1>8. PICK s : s = Append(w.a, Packet(start, len, {peer}, data)) /\ s \in Seq(Packets)
  <2>1. {peer} \in SUBSET Devices
    BY Constants DEF Peers
  <2>2. Packet(start, len, {peer}, data) \in Packets
    BY <1>7, <2>1, PacketIs
  <2>3. Append(w.a, Packet(start, len, {peer}, data)) \in Seq(Packets)
    BY <1>1, <2>2
  <2> QED  BY <2>3
<1>9. u = [r |-> v, q |-> [w.q EXCEPT ![peer] = rest], a |-> s, left |-> w.left]
  BY <1>3, <1>4, <1>5, <1>6, <1>8 DEF TxUnicast, NextEarliest, Later, data
<1> HIDE DEF q, n
<1>10. [w.q EXCEPT ![peer] = rest] \in Queues(d)
  BY <1>1, <1>6 DEF Queues
<1>11. u \in Works(d) /\ u.r = v /\ u.a = s
  BY <1>1, <1>5, <1>8, <1>9, <1>10 DEF Works
<1> QED  BY <1>3, <1>5, <1>7, <1>8, <1>11 DEF Sent

(* A packet behind those of its device keeps what is said of the device. *)
LEMMA AppendKeeps ==
    ASSUME NEW d \in Devices, NEW a \in Int, NEW r \in Records, NEW s \in Seq(Packets),
           DeviceInv(d, r, s, a), NEW v \in Records, NEW t \in Packets,
           v.state = "steady", ~v.released, v.known = Far \/ InFrame(v.known, a, 0),
           Placed(d, t, a), End(t) <= ValidAfterNow + BeaconPeriod,
           \A i \in DOMAIN s : End(s[i]) <= t.start
    PROVE  DeviceInv(d, v, Append(s, t), a)
<1> DEFINE z == Append(s, t)
<1>1. /\ z \in Seq(Packets) /\ Len(s) \in Nat /\ Len(z) = Len(s) + 1 /\ z[Len(s) + 1] = t
      /\ DOMAIN s = 1..Len(s) /\ DOMAIN z = 1..(Len(s) + 1)
      /\ \A i \in DOMAIN s : z[i] = s[i]
  OBVIOUS
<1> HIDE DEF z
<1>2. \A i \in DOMAIN z : i \in DOMAIN s \/ i = Len(s) + 1
  BY <1>1
<1>3. \A i \in DOMAIN z : Placed(d, z[i], a) /\ End(z[i]) <= ValidAfterNow + BeaconPeriod
  BY <1>1, <1>2 DEF DeviceInv
<1>4. ASSUME NEW i \in DOMAIN z, NEW j \in DOMAIN z, i < j PROVE End(z[i]) <= z[j].start
  <2>1. i \in DOMAIN s /\ z[i] = s[i]
    BY <1>1, <1>4
  <2>2. CASE j \in DOMAIN s
    BY <1>1, <1>4, <2>1, <2>2 DEF DeviceInv
  <2>3. CASE j = Len(s) + 1
    BY <1>1, <2>1, <2>3
  <2> QED  BY <1>2, <2>2, <2>3
<1>5. DeviceInv(d, v, z, a)
  BY <1>1, <1>3, <1>4 DEF DeviceInv
<1> QED  BY <1>5 DEF z

LEMMA AppendMembers ==
    ASSUME NEW s \in Seq(Packets), NEW t \in Packets, NEW i \in DOMAIN Append(s, t)
    PROVE  (i \in DOMAIN s /\ Append(s, t)[i] = s[i]) \/ Append(s, t)[i] = t
<1>1. DOMAIN s = 1..Len(s) /\ DOMAIN Append(s, t) = 1..(Len(s) + 1) /\ Len(s) \in Nat
  OBVIOUS
<1> QED  BY <1>1

(* The work in progress of a device in its steady state, b being the time of the
   last beacon that the FT has sent; it is idle before the first one. *)
WorkInv(d, w, a, b, idle) ==
    /\ w \in Works(d) /\ w.r.state = "steady" /\ DeviceInv(d, w.r, w.a, a)
    /\ IF d = FT THEN FtInv(w.r, w.a, a) /\ w.r.known = b ELSE PtInv(w.r, w.a, b)
    /\ idle => w.r.known = Far /\ w.a = <<>>

LEMMA UplinkKeeps ==
    ASSUME NEW p \in Pts, NEW a \in Int, NEW b \in Int, NEW idle \in BOOLEAN, NEW w, WorkInv(p, w, a, b, idle),
           TxOpportunity(w.r, p, p) # None
    PROVE  WorkInv(p, TxUnicast(w, FT, TxOpportunity(w.r, p, p), Ul), a, b, idle)
<1>1. PICK start : start = TxOpportunity(w.r, p, p)
  OBVIOUS
<1> DEFINE u == TxUnicast(w, FT, start, Ul)
<1>2. /\ p \in Devices /\ p # FT /\ FT \in Peers(p) /\ Ul \in Nat /\ ValidAfterNow \in Nat
      /\ BeaconPeriod \in Nat /\ ValidAfterBeacon \in Nat /\ FT \in Devices
  BY Constants DEF Peers
<1>3. /\ w \in Works(p) /\ w.r \in Records /\ w.a \in Seq(Packets) /\ DeviceInv(p, w.r, w.a, a)
      /\ PtInv(w.r, w.a, b) /\ w.r.state = "steady" /\ ~w.r.released
      /\ w.r.known = Far \/ InFrame(w.r.known, a, 0)
  BY <1>2 DEF WorkInv, Works, DeviceInv
<1>4. /\ start \in Int /\ start >= w.r.earliest /\ w.r.known # Far
      /\ start < w.r.known + ValidAfterBeacon /\ start < ValidAfterNow
      /\ \E i \in Resources : InFrame(start, a, UlStart(p, i))
  BY <1>1, <1>3, UplinkOpportunity
<1> SUFFICES ASSUME u # w PROVE WorkInv(p, u, a, b, idle)
  BY <1>1 DEF WorkInv
<1>s. Sent(p, w, u, FT, start, Ul)
  <2>1. start \in Int /\ Ul \in Int
    BY <1>2, <1>4
  <2> QED  BY <1>2, <1>3, <2>1, UnicastIs
<1> HIDE DEF u
<1>5. /\ u \in Works(p) /\ u.r = Later(w.r, start + Ul) /\ u.a \in Seq(Packets)
  BY <1>s DEF Sent, Works
<1>6. PICK t \in Packets : /\ u.a = Append(w.a, t) /\ t.start = start /\ t.len = Ul
                           /\ t.data # <<>> /\ End(t) = start + Ul
  <2>1. PICK data \in Seq(Nat) : data # <<>> /\ u.a = Append(w.a, Packet(start, Ul, {FT}, data))
    BY <1>s DEF Sent
  <2>2. PICK v : v = Packet(start, Ul, {FT}, data)
    OBVIOUS
  <2>3. start \in Int /\ Ul \in Int /\ {FT} \in SUBSET Devices
    BY <1>2, <1>4
  <2>4. v \in Packets /\ v.start = start /\ v.len = Ul /\ v.data = data /\ End(v) = start + Ul
    BY <2>2, <2>3, PacketIs
  <2> QED  BY <2>1, <2>2, <2>4
<1>7. /\ u.r \in Records /\ u.r.earliest = start + Ul /\ u.r.state = "steady" /\ ~u.r.released
      /\ u.r.known = w.r.known
  <2>1. PICK e \in Int : e = start + Ul
    BY <1>2, <1>4
  <2>2. PICK r \in Records : r = w.r
    BY <1>3
  <2>3. u.r = Later(r, e)
    BY <1>5, <2>1, <2>2
  <2>4. /\ u.r \in Records /\ u.r.earliest = e /\ u.r.state = r.state /\ u.r.released = r.released
        /\ u.r.known = r.known /\ u.r.sched = r.sched /\ u.r.report = r.report /\ u.r.sent = r.sent
    BY <2>2, <2>3, LaterIs, SMTT(60)
  <2> QED  BY <1>3, <2>1, <2>2, <2>4
<1>8. Placed(p, t, a)
  BY <1>2, <1>4, <1>6 DEF Placed, UplinkOf
<1>9. End(t) <= ValidAfterNow + BeaconPeriod
  <2>0. PICK i \in Resources : InFrame(start, a, UlStart(p, i))
    BY <1>4
  <2>1. UlStart(p, i) + (Ul + Dl) <= BeaconPeriod /\ UlStart(p, i) \in Nat
    BY SlotOf
  <2>2. Ul \in Nat /\ Dl \in Nat /\ BeaconPeriod \in Nat
    BY Constants
  <2>3. Ul <= BeaconPeriod
    BY <2>1, <2>2
  <2>4. PICK n \in Int : n = start
    BY <1>4
  <2>5. n < ValidAfterNow /\ ValidAfterNow \in Nat
    BY <1>2, <1>4, <2>4
  <2>6. n + Ul <= ValidAfterNow + BeaconPeriod
    BY <2>2, <2>3, <2>5
  <2> QED  BY <1>6, <2>4, <2>6
<1>10. \A i \in DOMAIN w.a : End(w.a[i]) \in Int /\ End(w.a[i]) <= start
  <2> SUFFICES ASSUME NEW i \in DOMAIN w.a PROVE End(w.a[i]) \in Int /\ End(w.a[i]) <= start
    OBVIOUS
  <2>1. w.a[i] \in Packets /\ End(w.a[i]) <= w.r.earliest
    BY <1>3 DEF PtInv
  <2>2. w.a[i].start \in Int /\ w.a[i].len \in Int
    BY <2>1 DEF Packets
  <2>3. End(w.a[i]) \in Int
    BY <2>2 DEF End
  <2>4. w.r.earliest \in Int
    BY <1>3 DEF Records
  <2>5. start \in Int /\ start >= w.r.earliest
    BY <1>4
  <2> QED  BY <2>1, <2>3, <2>4, <2>5
<1>11. DeviceInv(p, u.r, u.a, a)
  <2>1. \A i \in DOMAIN w.a : End(w.a[i]) <= t.start
    BY <1>6, <1>10
  <2>2. u.r.known = Far \/ InFrame(u.r.known, a, 0)
    BY <1>3, <1>7
  <2>3. DeviceInv(p, u.r, Append(w.a, t), a)
    BY <1>2, <1>3, <1>7, <1>8, <1>9, <2>1, <2>2, AppendKeeps
  <2> QED  BY <1>6, <2>3
<1>12. PtInv(u.r, u.a, b)
  <2>1. u.r.known <= b /\ w.r.known \in Int
    BY <1>3, <1>7 DEF PtInv, Records
  <2>2. ASSUME NEW i \in DOMAIN u.a
        PROVE  End(u.a[i]) <= u.r.earliest /\ u.a[i].start < b + ValidAfterBeacon
    <3>1. CASE i \in DOMAIN w.a /\ u.a[i] = w.a[i]
      <4>1. End(w.a[i]) <= start /\ End(w.a[i]) \in Int /\ w.a[i].start < b + ValidAfterBeacon
        BY <1>3, <1>10, <3>1 DEF PtInv
      <4> QED  BY <1>2, <1>4, <1>7, <3>1, <4>1
    <3>2. CASE u.a[i] = t
      BY <1>2, <1>4, <1>6, <1>7, <2>1, <3>2, SMTT(60)
    <3> QED  BY <1>3, <1>5, <1>6, <3>1, <3>2, AppendMembers
  <2> QED  BY <2>1, <2>2 DEF PtInv
<1>i. ~idle
  BY <1>4 DEF WorkInv
<1> QED  BY <1>2, <1>5, <1>7, <1>11, <1>12, <1>i DEF WorkInv

LEMMA DownlinkKeeps ==
    ASSUME NEW p \in Pts, NEW a \in Int, NEW b \in Int, NEW idle \in BOOLEAN, NEW w, WorkInv(FT, w, a, b, idle),
           TxOpportunity(w.r, FT, p) # None
    PROVE  WorkInv(FT, TxUnicast(w, p, TxOpportunity(w.r, FT, p), Dl), a, b, idle)
<1>1. PICK start : start = TxOpportunity(w.r, FT, p)
  OBVIOUS
<1> DEFINE u == TxUnicast(w, p, start, Dl)
<1>2. /\ FT \in Devices /\ p \in Peers(FT) /\ Dl \in Nat /\ ValidAfterNow \in Nat /\ p \in Devices
      /\ BeaconPeriod \in Nat /\ OffsetBeacon \in Nat /\ PrepareDuration \in Nat
      /\ PrepareDuration <= ValidAfterNow
  BY Constants DEF Peers
<1>3. /\ w \in Works(FT) /\ w.r \in Records /\ w.a \in Seq(Packets) /\ DeviceInv(FT, w.r, w.a, a)
      /\ FtInv(w.r, w.a, a) /\ w.r.state = "steady" /\ ~w.r.released /\ w.r.known = b
      /\ w.r.known = Far \/ InFrame(w.r.known, a, 0)
  BY <1>2 DEF WorkInv, Works, DeviceInv
<1>4. /\ start \in Int /\ start >= w.r.earliest /\ w.r.sent /\ w.r.known # Far
      /\ start >= w.r.known + OffsetBeacon /\ start + Dl <= w.r.known + BeaconPeriod
      /\ \E i \in Resources : InFrame(start, a, UlStart(p, i) + Ul)
  BY <1>1, <1>3, DownlinkOpportunity
<1> SUFFICES ASSUME u # w PROVE WorkInv(FT, u, a, b, idle)
  BY <1>1 DEF WorkInv
<1>s. Sent(FT, w, u, p, start, Dl)
  <2>1. start \in Int /\ Dl \in Int
    BY <1>2, <1>4
  <2> QED  BY <1>2, <1>3, <2>1, UnicastIs
<1> HIDE DEF u
<1>5. /\ u \in Works(FT) /\ u.r = Later(w.r, start + Dl) /\ u.a \in Seq(Packets)
  BY <1>s DEF Sent, Works
<1>6. PICK t \in Packets : /\ u.a = Append(w.a, t) /\ t.start = start /\ t.len = Dl
                           /\ t.data # <<>> /\ End(t) = start + Dl
  <2>1. PICK data \in Seq(Nat) : data # <<>> /\ u.a = Append(w.a, Packet(start, Dl, {p}, data))
    BY <1>s DEF Sent
  <2>2. PICK v : v = Packet(start, Dl, {p}, data)
    OBVIOUS
  <2>3. start \in Int /\ Dl \in Int /\ {p} \in SUBSET Devices
    BY <1>2, <1>4
  <2>4. v \in Packets /\ v.start = start /\ v.len = Dl /\ v.data = data /\ End(v) = start + Dl
    BY <2>2, <2>3, PacketIs
  <2> QED  BY <2>1, <2>2, <2>4
<1>7. /\ u.r \in Records /\ u.r.earliest = start + Dl /\ u.r.state = "steady" /\ ~u.r.released
      /\ u.r.known = w.r.known /\ u.r.sched = w.r.sched /\ u.r.report = w.r.report
      /\ u.r.sent = w.r.sent
  <2>1. PICK e \in Int : e = start + Dl
    BY <1>2, <1>4
  <2>2. PICK r \in Records : r = w.r
    BY <1>3
  <2>3. u.r = Later(r, e)
    BY <1>5, <2>1, <2>2
  <2>4. /\ u.r \in Records /\ u.r.earliest = e /\ u.r.state = r.state /\ u.r.released = r.released
        /\ u.r.known = r.known /\ u.r.sched = r.sched /\ u.r.report = r.report /\ u.r.sent = r.sent
    BY <2>2, <2>3, LaterIs, SMTT(60)
  <2> QED  BY <1>3, <2>1, <2>2, <2>4
<1>8. Placed(FT, t, a)
  BY <1>4, <1>6 DEF Placed, Downlink
<1>n. /\ w.r.known \in Int /\ w.r.known <= PrepareDuration /\ w.r.sched \in Int /\ w.r.earliest \in Int
      /\ w.r.sched = w.r.known + BeaconPeriod
  BY <1>3, <1>4 DEF FtInv, Records
<1>9. End(t) <= ValidAfterNow + BeaconPeriod
  <2>1. PICK n \in Int, known \in Int : n = start + Dl /\ known = w.r.known
    BY <1>2, <1>4, <1>n
  <2>2. n <= known + BeaconPeriod /\ known <= PrepareDuration
    BY <1>4, <1>n, <2>1
  <2>3. n <= ValidAfterNow + BeaconPeriod
    BY <1>2, <2>2
  <2> QED  BY <1>6, <2>1, <2>3
<1>10. \A i \in DOMAIN w.a : End(w.a[i]) \in Int /\ End(w.a[i]) <= start
  <2> SUFFICES ASSUME NEW i \in DOMAIN w.a PROVE End(w.a[i]) \in Int /\ End(w.a[i]) <= start
    OBVIOUS
  <2>1. w.a[i] \in Packets /\ End(w.a[i]) <= Max2(w.r.earliest, w.r.known + OffsetBeacon)
    BY <1>3 DEF FtInv
  <2>2. End(w.a[i]) \in Int
    BY <1>3, <2>1 DEF End, Packets
  <2> QED  BY <1>2, <1>4, <1>n, <2>1, <2>2 DEF Max2
<1>11. DeviceInv(FT, u.r, u.a, a)
  <2>1. \A i \in DOMAIN w.a : End(w.a[i]) <= t.start
    BY <1>6, <1>10
  <2>2. u.r.known = Far \/ InFrame(u.r.known, a, 0)
    BY <1>3, <1>7
  <2>3. DeviceInv(FT, u.r, Append(w.a, t), a)
    BY <1>2, <1>3, <1>7, <1>8, <1>9, <2>1, <2>2, AppendKeeps
  <2> QED  BY <1>6, <2>3
<1>12. FtInv(u.r, u.a, a)
  <2>2. ASSUME NEW i \in DOMAIN u.a
        PROVE  /\ End(u.a[i]) <= Max2(u.r.earliest, u.r.known + OffsetBeacon)
               /\ u.a[i].data = <<>> => u.a[i].start <= u.r.known
               /\ End(u.a[i]) <= u.r.sched
    <3>1. CASE i \in DOMAIN w.a /\ u.a[i] = w.a[i]
      <4>1. /\ End(w.a[i]) <= start /\ End(w.a[i]) \in Int /\ End(w.a[i]) <= w.r.sched
            /\ w.a[i].data = <<>> => w.a[i].start <= w.r.known
        BY <1>3, <1>10, <3>1 DEF FtInv
      <4>2. End(w.a[i]) <= Max2(start + Dl, w.r.known + OffsetBeacon)
        <5>1. PICK e \in Int, k \in Int : e = start + Dl /\ k = w.r.known + OffsetBeacon
          BY <1>2, <1>4, <1>n
        <5>2. End(w.a[i]) <= e
          BY <1>2, <1>4, <4>1, <5>1
        <5> QED  BY <4>1, <5>1, <5>2 DEF Max2
      <4> QED  BY <1>7, <3>1, <4>1, <4>2
    <3>2. CASE u.a[i] = t
      <4>1. start + Dl <= Max2(start + Dl, w.r.known + OffsetBeacon)
        BY <1>2, <1>4, <1>n DEF Max2
      <4> QED  BY <1>2, <1>4, <1>6, <1>7, <1>n, <3>2, <4>1
    <3> QED  BY <1>3, <1>5, <1>6, <3>1, <3>2, AppendMembers
  <2> QED  BY <1>3, <1>7, <2>2 DEF FtInv
<1>13. u.r.known = b
  BY <1>3, <1>7
<1>i. ~idle
  BY <1>4 DEF WorkInv
<1> QED  BY <1>5, <1>7, <1>11, <1>12, <1>13, <1>i DEF WorkInv

LEMMA LeaveKeeps ==
    ASSUME NEW d \in Devices, NEW a, NEW b, NEW idle \in BOOLEAN, NEW w, WorkInv(d, w, a, b, idle)
    PROVE  WorkInv(d, Leave(w), a, b, idle)
<1>1. w \in Works(d)
  BY DEF WorkInv
<1>2. Leave(w).r = w.r /\ Leave(w).a = w.a /\ Leave(w) \in Works(d)
  BY <1>1 DEF Works, Leave
<1> QED  BY <1>2 DEF WorkInv

LEMMA StepKeeps ==
    ASSUME NEW d \in Devices, NEW a \in Int, NEW b \in Int, NEW idle \in BOOLEAN, NEW w, WorkInv(d, w, a, b, idle), NEW i \in Nat
    PROVE  WorkInv(d, Step(d, w, i), a, b, idle)
<1>1. CASE d = FT
  <2>1. PICK p : p = i % N_pt /\ p \in Pts
    BY Constants DEF Pts
  <2>2. CASE w.left \/ TxOpportunity(w.r, FT, p) = None
    <3>1. Step(d, w, i) = Leave(w)
      BY <1>1, <2>1, <2>2 DEF Step, Round
    <3> QED  BY <3>1, LeaveKeeps
  <2>3. CASE ~(w.left \/ TxOpportunity(w.r, FT, p) = None)
    <3>1. Step(d, w, i) = TxUnicast(w, p, TxOpportunity(w.r, FT, p), Dl)
      BY <1>1, <2>1, <2>3 DEF Step, Round
    <3> QED  BY <1>1, <2>1, <2>3, <3>1, DownlinkKeeps
  <2> QED  BY <2>2, <2>3
<1>2. CASE d # FT
  <2>1. d \in Pts
    BY <1>2, Constants
  <2> DEFINE sent == TxUnicast(w, FT, TxOpportunity(w.r, d, d), Ul)
  <2>2. Step(d, w, i) = IF w.left \/ TxOpportunity(w.r, d, d) = None \/ sent = w THEN Leave(w) ELSE sent
    BY <1>2 DEF Step, Again
  <2>3. CASE TxOpportunity(w.r, d, d) = None
    BY <2>2, <2>3, LeaveKeeps
  <2>4. CASE TxOpportunity(w.r, d, d) # None
    <3>1. WorkInv(d, sent, a, b, idle)
      BY <2>1, <2>4, UplinkKeeps
    <3> HIDE DEF sent
    <3> QED  BY <2>2, <3>1, LeaveKeeps
  <2> QED  BY <2>3, <2>4
<1> QED  BY <1>1, <1>2

(* The rounds of a work function, as a function of how many have been made. *)
RoundsOf(f, d, w, n) ==
    f = [m \in 0..n |-> IF m = 0 THEN w ELSE Step(d, f[m - 1], m - 1)]

LEMMA RoundsExist ==
    ASSUME NEW d, NEW w
    PROVE  \A n \in Nat : \E f : RoundsOf(f, d, w, n)
<1> DEFINE S == {n \in Nat : ~\E f : RoundsOf(f, d, w, n)}
<1> SUFFICES ASSUME S # {} PROVE FALSE
  OBVIOUS
<1>1. PICK n \in S : \A o \in S : n <= o
  <2>1. S \subseteq Nat
    OBVIOUS
  <2> HIDE DEF S
  <2> QED  BY <2>1, LeastExists
<1>2. n \in Nat /\ ~\E f : RoundsOf(f, d, w, n)
  OBVIOUS
<1>3. CASE n = 0
  <2> DEFINE f == [m \in 0..0 |-> w]
  <2>1. f = [m \in 0..0 |-> IF m = 0 THEN w ELSE Step(d, f[m - 1], m - 1)]
    OBVIOUS
  <2>2. RoundsOf(f, d, w, n)
    BY <1>3, <2>1 DEF RoundsOf
  <2> QED  BY <1>2, <2>2
<1>4. CASE n # 0
  <2>1. n - 1 \in Nat /\ n - 1 \notin S
    BY <1>1, <1>2, <1>4
  <2>2. PICK g : RoundsOf(g, d, w, n - 1)
    BY <2>1
  <2> DEFINE f == [m \in 0..n |-> IF m = 0 THEN w ELSE Step(d, g[m - 1], m - 1)]
  <2>3. ASSUME NEW m \in 0..(n - 1) PROVE f[m] = g[m]
    <3>1. m \in 0..n
      BY <1>2, <2>3
    <3>2. g[m] = IF m = 0 THEN w ELSE Step(d, g[m - 1], m - 1)
      BY <2>2, <2>3 DEF RoundsOf
    <3> QED  BY <3>1, <3>2
  <2>4. ASSUME NEW m \in 0..n PROVE f[m] = IF m = 0 THEN w ELSE Step(d, f[m - 1], m - 1)
    <3>1. CASE m = 0
      BY <3>1, <1>2
    <3>2. CASE m # 0
      <4>1. m - 1 \in 0..(n - 1)
        BY <1>2, <3>2
      <4>2. f[m - 1] = g[m - 1]
        BY <2>3, <4>1
      <4>3. f[m] = Step(d, g[m - 1], m - 1)
        BY <3>2
      <4> HIDE DEF f
      <4> QED  BY <3>2, <4>2, <4>3
    <3> QED  BY <3>1, <3>2
  <2>5. f = [m \in 0..n |-> f[m]]
    OBVIOUS
  <2> HIDE DEF f
  <2>6. f = [m \in 0..n |-> IF m = 0 THEN w ELSE Step(d, f[m - 1], m - 1)]
    BY <2>4, <2>5
  <2> QED  BY <1>2, <2>6 DEF RoundsOf
<1> QED  BY <1>3, <1>4

LEMMA ConsecutiveKeeps ==
    ASSUME NEW d \in Devices, NEW a \in Int, NEW b \in Int, NEW idle \in BOOLEAN, NEW w, WorkInv(d, w, a, b, idle)
    PROVE  WorkInv(d, Consecutive(d, w), a, b, idle)
<1> DEFINE n == Rounds(d)
           after == CHOOSE f : f = [m \in 0..n |-> IF m = 0 THEN w ELSE Step(d, f[m - 1], m - 1)]
<1>1. n \in Nat
  BY Constants DEF Rounds
<1>2. Consecutive(d, w) = after[n]
  BY DEF Consecutive
<1>3. after = CHOOSE f : RoundsOf(f, d, w, n)
  BY DEF RoundsOf
<1> HIDE DEF after, n
<1>4. RoundsOf(after, d, w, n)
  BY <1>1, <1>3, RoundsExist
<1>5. \A m \in 0..n : after[m] = IF m = 0 THEN w ELSE Step(d, after[m - 1], m - 1)
  BY <1>4 DEF RoundsOf
<1> DEFINE S == {m \in 0..n : ~WorkInv(d, after[m], a, b, idle)}
<1>6. ASSUME S # {} PROVE FALSE
  <2>1. PICK m \in S : \A o \in S : m <= o
    <3>1. S \subseteq Nat
      OBVIOUS
    <3> HIDE DEF S
    <3> QED  BY <1>6, <3>1, LeastExists
  <2>2. m \in 0..n /\ ~WorkInv(d, after[m], a, b, idle) /\ m \in Nat
    BY <1>1
  <2>3. m # 0
    BY <1>5, <2>2
  <2>4. m - 1 \in 0..n /\ m - 1 \notin S /\ m - 1 \in Nat
    BY <1>1, <2>1, <2>2, <2>3
  <2>5. WorkInv(d, after[m - 1], a, b, idle)
    BY <2>4
  <2>6. after[m] = Step(d, after[m - 1], m - 1)
    BY <1>5, <2>2, <2>3
  <2> QED  BY <2>2, <2>4, <2>5, <2>6, StepKeeps
<1>7. n \in 0..n
  BY <1>1
<1> QED  BY <1>2, <1>6, <1>7

--------------------------------------------------------------------------------
(* Steps of one device *)

LEMMA TypesOf ==
    ASSUME IInv, NEW d \in Devices
    PROVE  /\ dev[d] \in Records /\ air[d] \in Seq(Packets) /\ queue[d] \in Queues(d)
           /\ \A i \in DOMAIN air[d] : air[d][i] \in Packets
BY DEF IInv

(* Only device d changes. *)
LEMMA DeviceChanges ==
    ASSUME IInv, NEW a \in Int, Anchored(a), NEW d \in Devices,
           NEW v \in Records, NEW s \in Seq(Packets), NEW q \in Queues(d),
           dev' = [dev EXCEPT ![d] = v], air' = [air EXCEPT ![d] = s],
           queue' = [queue EXCEPT ![d] = q],
           DeviceInv(d, v, s, a),
           d # FT => PtInv(v, s, dev[FT].known),
           d = FT => FtInv(v, s, a) /\ v.known >= dev[FT].known,
           d # FT /\ BeforeFirstBeacon => v.known = Far /\ s = <<>>,
           d = FT /\ v.state \in {"off", "start"} => BeforeFirstBeacon /\ v.known = Far /\ s = <<>>
    PROVE  IInv'
<1>1. /\ dev' \in [Devices -> Records] /\ air' \in [Devices -> Seq(Packets)]
      /\ dev'[d] = v /\ air'[d] = s /\ queue'[d] = q
      /\ \A e \in Devices : e # d => dev'[e] = dev[e] /\ air'[e] = air[e] /\ queue'[e] = queue[e]
  BY DEF IInv
<1>2. queue' = [e \in Devices |-> queue'[e]] /\ \A e \in Devices : queue'[e] \in Queues(e)
  BY <1>1 DEF IInv
<1>3. \A e \in Devices : DeviceInv(e, dev'[e], air'[e], a)
  BY <1>1 DEF Anchored
<1>4. dev'[FT].known >= dev[FT].known /\ dev'[FT].known \in Int /\ dev[FT].known \in Int
  <2>1. dev[FT].known \in Int /\ dev'[FT].known \in Int
    BY <1>1, Constants DEF IInv, Records
  <2>2. CASE d = FT
    BY <1>1, <2>1, <2>2
  <2>3. CASE d # FT
    BY <1>1, <2>1, <2>3, Constants
  <2> QED  BY <2>1, <2>2, <2>3
<1>5. ASSUME NEW p \in Pts PROVE PtInv(dev'[p], air'[p], dev'[FT].known)
  <2>1. p \in Devices /\ p # FT
    BY Constants
  <2>2. PtInv(dev'[p], air'[p], dev[FT].known)
    <3>1. CASE p = d
      BY <1>1, <2>1, <3>1
    <3>2. CASE p # d
      BY <1>1, <2>1, <3>2 DEF Anchored
    <3> QED  BY <3>1, <3>2
  <2>3. dev'[p].known \in Int /\ \A i \in DOMAIN air'[p] : air'[p][i].start \in Int
    <3>1. dev'[p] \in Records /\ air'[p] \in Seq(Packets)
      BY <1>1, <2>1
    <3>2. \A i \in DOMAIN air'[p] : air'[p][i] \in Packets
      BY <3>1
    <3> QED  BY <3>1, <3>2 DEF Records, Packets
  <2> QED  BY <1>4, <2>2, <2>3, Constants, SMTT(60) DEF PtInv
<1>6. FtInv(dev'[FT], air'[FT], a)
  <2>1. CASE d = FT
    BY <1>1, <2>1
  <2>2. CASE d # FT
    BY <1>1, <2>2, Constants DEF Anchored
  <2> QED  BY <2>1, <2>2
<1>7. ASSUME dev'[FT].state \in {"off", "start"}, NEW e \in Devices
      PROVE  dev'[e].known = Far /\ air'[e] = <<>>
  <2>1. BeforeFirstBeacon
    BY <1>1, <1>7, Constants DEF BeforeFirstBeacon
  <2>2. CASE e = d
    BY <1>1, <1>7, <2>1, <2>2
  <2>3. CASE e # d
    BY <1>1, <2>1, <2>3 DEF IInv
  <2> QED  BY <2>2, <2>3
<1> QED  BY <1>1, <1>2, <1>3, <1>5, <1>6, <1>7 DEF IInv, Anchored, BeforeFirstBeacon

(* What remains of the packets of a device when some are forgotten. *)
Thin(z, s) ==
    /\ z \in Seq(Packets)
    /\ \E f \in [DOMAIN z -> DOMAIN s] :
          /\ \A j \in DOMAIN z : LET t == s[f[j]] IN
                /\ z[j].start = t.start /\ z[j].len = t.len /\ z[j].data = t.data
                /\ z[j].rx \subseteq t.rx
          /\ \A j, k \in DOMAIN z : j < k => f[j] < f[k]

LEMMA ConcatIs ==
    ASSUME NEW u \in Seq(Packets), NEW v \in Seq(Packets)
    PROVE  u \o v \in Seq(Packets) /\ Len(u \o v) = Len(u) + Len(v)
OBVIOUS

LEMMA LeftThins ==
    ASSUME NEW s \in Seq(Packets), NEW i \in DOMAIN s, NEW rx, rx \subseteq s[i].rx,
           NEW pdc \in SUBSET Devices
    PROVE  Thin(Left(s, i, rx, pdc), s)
<1>1. /\ DOMAIN s = 1..Len(s) /\ Len(s) \in Nat /\ s[i] \in Packets /\ i \in 1..Len(s)
  OBVIOUS
<1>2. CASE rx = {} /\ pdc = {}
  <2> DEFINE u == SubSeq(s, 1, i - 1)
             v == SubSeq(s, i + 1, Len(s))
             z == u \o v
             f == [j \in DOMAIN z |-> IF j < i THEN j ELSE j + 1]
  <2>1. /\ Len(u) = i - 1 /\ u \in Seq(Packets) /\ Len(v) = Len(s) - i /\ v \in Seq(Packets)
        /\ \A j \in 1..(i - 1) : u[j] = s[j]
        /\ \A j \in 1..(Len(s) - i) : v[j] = s[i + j]
    <3>1. Len(u) = i - 1 /\ u \in Seq(Packets) /\ \A j \in 1..(i - 1) : u[j] = s[j]
      BY <1>1
    <3>2. Len(v) = Len(s) - i
      BY <1>1
    <3>3. \A j \in 1..(Len(s) - i) : v[j] = s[i + j]
      BY <1>1
    <3>4. v \in Seq(Packets)
      BY <1>1
    <3> QED  BY <3>1, <3>2, <3>3, <3>4
  <2> HIDE DEF u, v
  <2>2. z \in Seq(Packets) /\ DOMAIN z = 1..(Len(s) - 1)
    <3>1. z \in Seq(Packets) /\ Len(z) = Len(u) + Len(v)
      BY <2>1, ConcatIs
    <3>2. Len(u) + Len(v) = Len(s) - 1
      BY <1>1, <2>1
    <3> HIDE DEF z
    <3> QED  BY <3>1, <3>2
  <2>3. \A j \in DOMAIN z : z[j] = s[f[j]]
    <3> SUFFICES ASSUME NEW j \in 1..(Len(s) - 1) PROVE z[j] = s[IF j < i THEN j ELSE j + 1]
      BY <2>2
    <3>1. CASE j < i
      BY <1>1, <2>1, <3>1
    <3>2. CASE j >= i
      <4>1. z[j] = v[j - (i - 1)] /\ j - (i - 1) \in 1..(Len(s) - i) /\ i + (j - (i - 1)) = j + 1
        BY <1>1, <2>1, <3>2, SMTT(60)
      <4>2. z[j] = s[j + 1]
        BY <2>1, <4>1
      <4> QED  BY <1>1, <3>2, <4>2
    <3> QED  BY <1>1, <3>1, <3>2, j >= i \/ j < i
  <2>4. f \in [DOMAIN z -> DOMAIN s] /\ \A j, k \in DOMAIN z : j < k => f[j] < f[k]
    <3> HIDE DEF z
    <3> QED  BY <1>1, <2>2
  <2>5. Left(s, i, rx, pdc) = z
    BY <1>2 DEF Left, RemoveAt, u, v
  <2> HIDE DEF z, f
  <2> QED  BY <2>2, <2>3, <2>4, <2>5 DEF Thin
<1>3. CASE ~(rx = {} /\ pdc = {})
  <2>1. PICK t : t = [s[i] EXCEPT !.rx = rx, !.pdc = pdc]
    OBVIOUS
  <2>2. /\ t \in Packets /\ t.start = s[i].start /\ t.len = s[i].len /\ t.data = s[i].data
        /\ t.rx \subseteq s[i].rx
    BY <1>1, <2>1 DEF Packets
  <2>3. PICK z : z = [s EXCEPT ![i] = t]
    OBVIOUS
  <2>4. Left(s, i, rx, pdc) = z
    BY <1>3, <2>1, <2>3 DEF Left
  <2>5. z \in Seq(Packets) /\ DOMAIN z = DOMAIN s /\ \A j \in DOMAIN z : z[j] = IF j = i THEN t ELSE s[j]
    BY <1>1, <2>2, <2>3
  <2> DEFINE f == [j \in DOMAIN z |-> j]
  <2>6. f \in [DOMAIN z -> DOMAIN s] /\ \A j \in DOMAIN z : f[j] = j
    BY <2>5
  <2> HIDE DEF f
  <2>7. \A j \in DOMAIN z :
           /\ z[j].start = s[f[j]].start /\ z[j].len = s[f[j]].len /\ z[j].data = s[f[j]].data
           /\ z[j].rx \subseteq s[f[j]].rx
    BY <2>2, <2>5, <2>6
  <2>8. \A j, k \in DOMAIN z : j < k => f[j] < f[k]
    BY <2>6
  <2> QED  BY <2>4, <2>5, <2>6, <2>7, <2>8 DEF Thin
<1> QED  BY <1>2, <1>3

LEMMA GenerateThins ==
    ASSUME NEW s \in Seq(Packets), NEW i \in DOMAIN s
    PROVE  Thin([s EXCEPT ![i].generated = TRUE], s)
<1>1. s[i] \in Packets
  OBVIOUS
<1>2. PICK t : t = [s[i] EXCEPT !.generated = TRUE]
  OBVIOUS
<1>3. /\ t \in Packets /\ t.start = s[i].start /\ t.len = s[i].len /\ t.data = s[i].data
      /\ t.rx = s[i].rx
  BY <1>1, <1>2 DEF Packets
<1>4. PICK z : z = [s EXCEPT ![i] = t]
  OBVIOUS
<1>5. z = [s EXCEPT ![i].generated = TRUE]
  BY <1>2, <1>4
<1>6. z \in Seq(Packets) /\ DOMAIN z = DOMAIN s /\ \A j \in DOMAIN z : z[j] = IF j = i THEN t ELSE s[j]
  BY <1>3, <1>4
<1> DEFINE f == [j \in DOMAIN z |-> j]
<1>7. f \in [DOMAIN z -> DOMAIN s] /\ \A j \in DOMAIN z : f[j] = j
  BY <1>6
<1> HIDE DEF f
<1>8. \A j \in DOMAIN z :
         /\ z[j].start = s[f[j]].start /\ z[j].len = s[f[j]].len /\ z[j].data = s[f[j]].data
         /\ z[j].rx \subseteq s[f[j]].rx
  BY <1>3, <1>6, <1>7
<1>9. \A j, k \in DOMAIN z : j < k => f[j] < f[k]
  BY <1>7
<1> QED  BY <1>5, <1>6, <1>7, <1>8, <1>9 DEF Thin

(* Nothing that is said of packets is lost with others. *)
LEMMA ThinKeeps ==
    ASSUME NEW z, NEW s, Thin(z, s), NEW r, NEW a, NEW b, NEW d
    PROVE  /\ DeviceInv(d, r, s, a) => DeviceInv(d, r, z, a)
           /\ PtInv(r, s, b) => PtInv(r, z, b)
           /\ FtInv(r, s, a) => FtInv(r, z, a)
<1>1. PICK f \in [DOMAIN z -> DOMAIN s] :
         /\ \A j \in DOMAIN z :
                /\ z[j].start = s[f[j]].start /\ z[j].len = s[f[j]].len /\ z[j].data = s[f[j]].data
                /\ z[j].rx \subseteq s[f[j]].rx
         /\ \A j, k \in DOMAIN z : j < k => f[j] < f[k]
  BY DEF Thin
<1>2. \A j \in DOMAIN z : /\ f[j] \in DOMAIN s /\ End(z[j]) = End(s[f[j]])
                          /\ z[j].start = s[f[j]].start /\ z[j].data = s[f[j]].data
                          /\ Placed(d, s[f[j]], a) => Placed(d, z[j], a)
  BY <1>1 DEF End, Placed, Beacon, Downlink, UplinkOf
<1>3. DeviceInv(d, r, s, a) => DeviceInv(d, r, z, a)
  <2> SUFFICES ASSUME DeviceInv(d, r, s, a) PROVE DeviceInv(d, r, z, a)
    OBVIOUS
  <2>1. z \in Seq(Packets)
    BY DEF Thin
  <2>2. \A j \in DOMAIN z : Placed(d, z[j], a) /\ End(z[j]) <= ValidAfterNow + BeaconPeriod
    BY <1>2 DEF DeviceInv
  <2>3. \A j, k \in DOMAIN z : j < k => End(z[j]) <= z[k].start
    BY <1>1, <1>2 DEF DeviceInv
  <2> QED  BY <1>2, <2>1, <2>2, <2>3 DEF DeviceInv
<1>4. PtInv(r, s, b) => PtInv(r, z, b)
  BY <1>2 DEF PtInv
<1>5. FtInv(r, s, a) => FtInv(r, z, a)
  BY <1>2 DEF FtInv
<1> QED  BY <1>3, <1>4, <1>5

LEMMA AirThins ==
    ASSUME IInv, NEW d \in Devices, air[d] # <<>>, NEW z, Thin(z, air[d]),
           air' = [air EXCEPT ![d] = z], UNCHANGED <<dev, queue>>
    PROVE  IInv'
<1>1. PICK a \in Int : Anchored(a)
  BY DEF IInv
<1>2. ~BeforeFirstBeacon
  BY DEF IInv
<1>3. dev[d] \in Records /\ z \in Seq(Packets) /\ queue[d] \in Queues(d) /\ dev[d].known \in Int
  BY TypesOf DEF Thin, Records
<1>4. dev' = [dev EXCEPT ![d] = dev[d]] /\ queue' = [queue EXCEPT ![d] = queue[d]]
  BY DEF IInv
<1>5. DeviceInv(d, dev[d], z, a)
  BY <1>1, ThinKeeps DEF Anchored
<1>6. d # FT => PtInv(dev[d], z, dev[FT].known)
  BY <1>1, ThinKeeps, Constants DEF Anchored
<1>7. d = FT => FtInv(dev[d], z, a) /\ dev[d].known >= dev[FT].known
  BY <1>1, <1>3, ThinKeeps DEF Anchored
<1>8. d = FT /\ dev[d].state \in {"off", "start"} => FALSE
  BY <1>2 DEF BeforeFirstBeacon
<1> QED  BY <1>1, <1>2, <1>3, <1>4, <1>5, <1>6, <1>7, <1>8, DeviceChanges

LEMMA GenerateKeepsIInv == ASSUME IInv, NEW d \in Devices, Generate(d) PROVE IInv'
<1>1. PICK i : i \in DOMAIN air[d] /\ air' = [air EXCEPT ![d][i].generated = TRUE]
  BY DEF Generate
<1>2. air' = [air EXCEPT ![d] = [air[d] EXCEPT ![i].generated = TRUE]]
  BY <1>1
<1>3. Thin([air[d] EXCEPT ![i].generated = TRUE], air[d]) /\ air[d] # <<>>
  BY <1>1, TypesOf, GenerateThins, SMTT(60)
<1> QED  BY <1>2, <1>3, AirThins DEF Generate

LEMMA LoseKeepsIInv == ASSUME IInv, NEW d \in Devices, Lose(d) PROVE IInv'
<1>1. PICK i, x : /\ i \in DOMAIN air[d]
                  /\ air' = [air EXCEPT ![d] = Left(air[d], i, air[d][i].rx \ {x}, air[d][i].pdc \ {x})]
  BY DEF Lose
<1>2. air[d][i] \in Packets /\ air[d] \in Seq(Packets) /\ air[d] # <<>>
  BY <1>1, TypesOf
<1>3. Thin(Left(air[d], i, air[d][i].rx \ {x}, air[d][i].pdc \ {x}), air[d])
  BY <1>1, <1>2, LeftThins DEF Packets
<1> QED  BY <1>1, <1>2, <1>3, AirThins DEF Lose

--------------------------------------------------------------------------------
(* Work functions *)

(* Records that differ in nothing the invariant tells apart. *)
Alike(v, r) ==
    /\ v \in Records /\ v.state = r.state /\ v.released = r.released /\ v.report = r.report
    /\ v.known = r.known /\ v.sent = r.sent /\ v.sched = r.sched /\ v.earliest = r.earliest

LEMMA AlikeKeeps ==
    ASSUME NEW v, NEW r, Alike(v, r), NEW s, NEW a, NEW b, NEW d
    PROVE  /\ DeviceInv(d, r, s, a) => DeviceInv(d, v, s, a)
           /\ PtInv(r, s, b) => PtInv(v, s, b)
           /\ FtInv(r, s, a) => FtInv(v, s, a)
BY DEF Alike, DeviceInv, PtInv, FtInv

LEMMA FlagsAlike ==
    ASSUME NEW r \in Records, NEW x \in BOOLEAN
    PROVE  Alike([r EXCEPT !.job = x], r) /\ Alike([r EXCEPT !.stopping = x], r)
BY DEF Alike, Records

LEMMA AlikeKeepsIInv ==
    ASSUME IInv, NEW d \in Devices, NEW v, Alike(v, dev[d]), NEW q \in Queues(d),
           dev' = [dev EXCEPT ![d] = v], queue' = [queue EXCEPT ![d] = q], UNCHANGED air
    PROVE  IInv'
<1>1. PICK a \in Int : Anchored(a)
  BY DEF IInv
<1>2. /\ v \in Records /\ v.known = dev[d].known /\ v.known \in Int /\ v.state = dev[d].state
      /\ air[d] \in Seq(Packets)
  BY TypesOf DEF Alike, Records
<1>3. air' = [air EXCEPT ![d] = air[d]]
  BY DEF IInv
<1>4. DeviceInv(d, v, air[d], a)
  BY <1>1, AlikeKeeps DEF Anchored
<1>5. d # FT => PtInv(v, air[d], dev[FT].known)
  BY <1>1, AlikeKeeps, Constants DEF Anchored
<1>6. d = FT => FtInv(v, air[d], a) /\ v.known >= dev[FT].known
  BY <1>1, <1>2, AlikeKeeps DEF Anchored
<1>7. BeforeFirstBeacon => v.known = Far /\ air[d] = <<>>
  BY <1>2 DEF IInv
<1>8. d = FT /\ v.state \in {"off", "start"} => BeforeFirstBeacon
  BY <1>2 DEF BeforeFirstBeacon
<1> QED  BY <1>1, <1>2, <1>3, <1>4, <1>5, <1>6, <1>7, <1>8, DeviceChanges

LEMMA DatagramKeepsIInv == ASSUME IInv, NEW d \in Devices, Datagram(d) PROVE IInv'
<1>1. PICK p \in Peers(d), s \in Sizes : queue' = [queue EXCEPT ![d][p] = Append(@, s)]
  BY DEF Datagram
<1>2. PICK q : q = [queue[d] EXCEPT ![p] = Append(queue[d][p], s)]
  OBVIOUS
<1>3. q \in Queues(d) /\ queue' = [queue EXCEPT ![d] = q]
  <2>1. queue[d] \in Queues(d) /\ queue[d][p] \in Seq(Nat) /\ s \in Nat
    BY TypesOf, Constants DEF Queues
  <2>2. Append(queue[d][p], s) \in Seq(Nat)
    BY <2>1
  <2> QED  BY <1>1, <1>2, <2>1, <2>2 DEF Queues
<1>4. PICK v : v = [dev[d] EXCEPT !.job = TRUE] /\ Alike(v, dev[d])
  BY TypesOf, FlagsAlike
<1>5. dev' = [dev EXCEPT ![d] = v] /\ UNCHANGED air
  BY <1>4 DEF Datagram
<1> QED  BY <1>3, <1>4, <1>5, AlikeKeepsIInv

LEMMA WorkStopKeepsIInv == ASSUME IInv, NEW d \in Devices, WorkStop(d) PROVE IInv'
<1>1. PICK v : v = [dev[d] EXCEPT !.stopping = TRUE] /\ Alike(v, dev[d])
  BY TypesOf, FlagsAlike
<1>2. dev' = [dev EXCEPT ![d] = v] /\ UNCHANGED air
  BY <1>1 DEF WorkStop
<1>3. queue' = [queue EXCEPT ![d] = queue[d]] /\ queue[d] \in Queues(d)
  BY TypesOf DEF WorkStop, IInv
<1> QED  BY <1>1, <1>2, <1>3, AlikeKeepsIInv

(* What a work function has done is as good as what it found. *)
LEMMA FinishKeepsIInv ==
    ASSUME IInv, NEW a \in Int, Anchored(a), NEW d \in Devices, NEW b \in Int, NEW w,
           NEW idle \in BOOLEAN, WorkInv(d, w, a, b, idle), Finish(d, w),
           d # FT => b = dev[FT].known /\ (BeforeFirstBeacon => idle),
           d = FT => b >= dev[FT].known
    PROVE  IInv'
<1>1. w.r \in Records /\ w.a \in Seq(Packets) /\ w.q \in Queues(d) /\ w.r.state = "steady"
  BY DEF WorkInv, Works
<1>2. /\ dev' = [dev EXCEPT ![d] = w.r] /\ queue' = [queue EXCEPT ![d] = w.q]
      /\ air' = [air EXCEPT ![d] = w.a]
  BY DEF Finish
<1>3. /\ DeviceInv(d, w.r, w.a, a)
      /\ d # FT => PtInv(w.r, w.a, dev[FT].known)
      /\ d = FT => FtInv(w.r, w.a, a) /\ w.r.known >= dev[FT].known
      /\ d # FT /\ BeforeFirstBeacon => w.r.known = Far /\ w.a = <<>>
  BY DEF WorkInv
<1> QED  BY <1>1, <1>2, <1>3, DeviceChanges

(* The work in progress with nothing done yet. *)
LEMMA WorkStarts ==
    ASSUME IInv, NEW a \in Int, Anchored(a), NEW d \in Devices, dev[d].state = "steady",
           NEW v, Alike(v, dev[d])
    PROVE  WorkInv(d, Work(d, v), a, dev[FT].known, BeforeFirstBeacon)
<1>1. PICK w : w = [r |-> v, q |-> queue[d], a |-> air[d], left |-> FALSE]
  OBVIOUS
<1>2. w = Work(d, v)
  BY <1>1 DEF Work
<1>3. v \in Records /\ v.state = "steady" /\ v.known = dev[d].known
  BY DEF Alike
<1>4. w \in Works(d) /\ w.r = v /\ w.a = air[d]
  BY <1>1, <1>3, TypesOf DEF Works
<1>5. DeviceInv(d, v, air[d], a)
  BY AlikeKeeps DEF Anchored
<1>6. IF d = FT THEN FtInv(v, air[d], a) /\ v.known = dev[FT].known
                ELSE PtInv(v, air[d], dev[FT].known)
  BY <1>3, AlikeKeeps, Constants DEF Anchored
<1>7. BeforeFirstBeacon => v.known = Far /\ air[d] = <<>>
  BY <1>3 DEF IInv
<1> QED  BY <1>2, <1>3, <1>4, <1>5, <1>6, <1>7 DEF WorkInv

LEMMA SameAlike == ASSUME NEW r \in Records PROVE Alike(r, r)
BY DEF Alike

LEMMA WorkApplicationKeepsIInv == ASSUME IInv, NEW d \in Devices, WorkApplication(d) PROVE IInv'
<1>1. PICK v : v = [dev[d] EXCEPT !.job = FALSE] /\ Alike(v, dev[d])
  BY TypesOf, FlagsAlike
<1>2. CASE dev[d].state # "steady"
  <2>1. dev' = [dev EXCEPT ![d] = v] /\ UNCHANGED <<queue, air>>
    BY <1>1, <1>2 DEF WorkApplication
  <2>2. queue' = [queue EXCEPT ![d] = queue[d]] /\ queue[d] \in Queues(d)
    BY <2>1, TypesOf DEF IInv
  <2> QED  BY <1>1, <2>1, <2>2, AlikeKeepsIInv
<1>3. CASE UNCHANGED <<dev, queue, air>>
  BY <1>3 DEF IInv, Anchored, BeforeFirstBeacon
<1>4. CASE dev[d].state = "steady" /\ Finish(d, Consecutive(d, Work(d, v)))
  <2>1. PICK a \in Int : Anchored(a)
    BY DEF IInv
  <2>2. PICK idle \in BOOLEAN : idle = BeforeFirstBeacon
    <3>1. BeforeFirstBeacon \in BOOLEAN
      BY DEF BeforeFirstBeacon
    <3> QED  BY <3>1, Zenon
  <2>3. dev[FT].known \in Int
    BY TypesOf, Constants DEF Records
  <2>4. WorkInv(d, Work(d, v), a, dev[FT].known, idle)
    BY <1>1, <1>4, <2>1, <2>2, WorkStarts
  <2>5. WorkInv(d, Consecutive(d, Work(d, v)), a, dev[FT].known, idle)
    BY <2>3, <2>4, ConsecutiveKeeps
  <2> QED  BY <1>4, <2>1, <2>2, <2>3, <2>5, FinishKeepsIInv
<1> QED  BY <1>1, <1>2, <1>3, <1>4 DEF WorkApplication, Unicast

(* The beacon starts the period of the packets that follow it. *)
LEMMA BeaconStarts ==
    ASSUME IInv, NEW a \in Int, Anchored(a), Called(FT), dev[FT].state = "steady"
    PROVE  /\ WorkInv(FT, TxBeacon(Work(FT, dev[FT])), a, dev[FT].sched, FALSE)
           /\ dev[FT].sched \in Int /\ dev[FT].sched >= dev[FT].known
<1>1. PICK r \in Records, s \in Seq(Packets) : r = dev[FT] /\ s = air[FT]
  BY TypesOf, Constants
<1>2. /\ DeviceInv(FT, r, s, a) /\ FtInv(r, s, a) /\ r.state = "steady"
      /\ r.sched \in Int /\ r.known \in Int /\ r.earliest \in Int
  BY <1>1, Constants DEF Anchored, Records
<1>3. /\ InFrame(r.sched, a, 0) /\ r.known <= r.sched
      /\ r.report = [at |-> r.sched - PrepareDuration, handle |-> "steady"]
      /\ \A i \in DOMAIN s : End(s[i]) <= r.sched
  BY <1>2 DEF FtInv
<1>4. r.report.at < 0 /\ r.report.at = r.sched - PrepareDuration
  BY <1>1, <1>3 DEF Called
<1>5. /\ BeaconPeriod \in Nat /\ OffsetBeacon \in Nat /\ OffsetBeacon <= BeaconPeriod
      /\ PrepareDuration \in Nat /\ PrepareDuration <= ValidAfterNow /\ ValidAfterNow \in Nat
      /\ FT \in Devices /\ BeaconPeriod > 0
  <2>1. 0 \in Pts /\ 0 \in Resources
    BY Constants DEF Pts, Resources
  <2>2. UlStart(0, 0) \in Nat /\ UlStart(0, 0) >= OffsetBeacon /\ UlStart(0, 0) + (Ul + Dl) <= BeaconPeriod
    BY <2>1, SlotOf
  <2>3. BeaconPeriod \in Nat /\ BeaconPeriod > 0 /\ OffsetBeacon \in Nat /\ Ul \in Nat /\ Dl \in Nat
    BY Constants
  <2>4. OffsetBeacon <= BeaconPeriod
    BY <2>2, <2>3
  <2> QED  BY <2>3, <2>4, Constants
<1>6. r.sched < PrepareDuration
  BY <1>2, <1>4, <1>5
<1>7. PICK next \in Int : next = r.sched + BeaconPeriod
  BY <1>2, <1>5
<1>8. PICK t \in Packets : /\ t = Packet(r.sched, OffsetBeacon, Pts, <<>>) /\ t.start = r.sched
                           /\ t.len = OffsetBeacon /\ t.data = <<>> /\ t.rx = Pts
                           /\ End(t) = r.sched + OffsetBeacon
  <2>1. <<>> \in Seq(Nat) /\ Pts \in SUBSET Devices
    BY Constants
  <2>2. PICK start \in Int, len \in Int : start = r.sched /\ len = OffsetBeacon
    BY <1>2, <1>5
  <2>3. PICK rx \in SUBSET Devices, data \in Seq(Nat) : rx = Pts /\ data = <<>>
    BY <2>1
  <2>4. PICK t : t = Packet(start, len, rx, data)
    OBVIOUS
  <2>5. /\ t \in Packets /\ t.start = start /\ t.len = len /\ t.data = data /\ t.rx = rx
        /\ End(t) = start + len
    BY <2>4, PacketIs
  <2> QED  BY <2>2, <2>3, <2>4, <2>5
<1>9. PICK v : v = [r EXCEPT !.earliest = r.sched, !.known = r.sched, !.sent = TRUE, !.sched = next,
                             !.report = [at |-> next - PrepareDuration, handle |-> "steady"]]
  OBVIOUS
<1>10. /\ v \in Records /\ v.earliest = r.sched /\ v.known = r.sched /\ v.sent /\ v.sched = next
       /\ v.report = [at |-> next - PrepareDuration, handle |-> "steady"]
       /\ v.state = "steady" /\ v.released = r.released
  <2>1. next - PrepareDuration \in Int
    BY <1>5
  <2>2. [at |-> next - PrepareDuration, handle |-> "steady"] \in Reports
    BY <2>1 DEF Reports
  <2> QED  BY <1>2, <1>7, <1>9, <2>2 DEF Records
<1>11. Placed(FT, t, a)
  BY <1>3, <1>8 DEF Placed, Beacon
<1>12. ~r.released
  BY <1>2 DEF DeviceInv
<1>13. End(t) <= ValidAfterNow + BeaconPeriod
  BY <1>2, <1>5, <1>6, <1>8
<1>14. \A i \in DOMAIN s : End(s[i]) <= t.start
  BY <1>3, <1>8
<1>15. DeviceInv(FT, v, Append(s, t), a)
  BY <1>2, <1>3, <1>5, <1>10, <1>11, <1>12, <1>13, <1>14, AppendKeeps
<1>16. FtInv(v, Append(s, t), a)
  <2>1. v.known <= PrepareDuration
    BY <1>2, <1>5, <1>6, <1>10
  <2>2. ASSUME NEW i \in DOMAIN Append(s, t)
        PROVE  LET u == Append(s, t)[i] IN
               /\ End(u) <= Max2(v.earliest, v.known + OffsetBeacon)
               /\ u.data = <<>> => u.start <= v.known
               /\ End(u) <= v.sched
    <3>1. PICK u : u = Append(s, t)[i]
      OBVIOUS
    <3>2. CASE i \in DOMAIN s /\ u = s[i]
      <4>1. /\ u \in Packets /\ End(u) <= r.sched /\ End(u) \in Int /\ u.start \in Int
            /\ u.data = <<>> => u.start <= r.known
        <5>1. u \in Packets
          BY <3>2
        <5>2. End(u) \in Int /\ u.start \in Int
          BY <5>1 DEF End, Packets
        <5>3. u.data = <<>> => u.start <= r.known
          BY <1>2, <3>2 DEF FtInv
        <5> QED  BY <1>3, <3>2, <5>1, <5>2, <5>3
      <4>2. End(u) <= Max2(r.sched, r.sched + OffsetBeacon) /\ End(u) <= next
        BY <1>2, <1>5, <1>7, <4>1, SMTT(60) DEF Max2
      <4>3. u.data = <<>> => u.start <= r.sched
        BY <1>2, <1>3, <4>1
      <4> QED  BY <1>10, <3>1, <4>2, <4>3
    <3>3. CASE u = t
      <4>1. r.sched + OffsetBeacon <= Max2(r.sched, r.sched + OffsetBeacon)
        BY <1>2, <1>5 DEF Max2
      <4>2. r.sched + OffsetBeacon <= next /\ r.sched <= r.sched
        BY <1>2, <1>5, <1>7
      <4> QED  BY <1>8, <1>10, <3>1, <3>3, <4>1, <4>2
    <3> QED  BY <3>1, <3>2, <3>3, AppendMembers
  <2>3. InFrame(v.sched, a, 0)
    BY <1>2, <1>3, <1>7, <1>10, NextFrame
  <2>4. v.known <= v.sched /\ v.sched = v.known + BeaconPeriod
    BY <1>2, <1>5, <1>7, <1>10
  <2> QED  BY <1>10, <2>1, <2>2, <2>3, <2>4 DEF FtInv
<1>17. PICK w : w = [r |-> v, q |-> queue[FT], a |-> Append(s, t), left |-> FALSE]
  OBVIOUS
<1>18. w = TxBeacon(Work(FT, dev[FT]))
  <2>1. Work(FT, dev[FT]) = [r |-> r, q |-> queue[FT], a |-> s, left |-> FALSE]
    BY <1>1 DEF Work
  <2>2. TxBeacon([r |-> r, q |-> queue[FT], a |-> s, left |-> FALSE]) =
           [[r |-> r, q |-> queue[FT], a |-> s, left |-> FALSE] EXCEPT !.a = Append(s, t), !.r = v]
    BY <1>7, <1>8, <1>9 DEF TxBeacon
  <2>3. TxBeacon([r |-> r, q |-> queue[FT], a |-> s, left |-> FALSE]) =
           [r |-> v, q |-> queue[FT], a |-> Append(s, t), left |-> FALSE]
    BY <2>2
  <2> QED  BY <1>17, <2>1, <2>3
<1>19. w \in Works(FT) /\ w.r = v /\ w.a = Append(s, t)
  <2>1. Append(s, t) \in Seq(Packets)
    OBVIOUS
  <2> QED  BY <1>5, <1>10, <1>17, <2>1, TypesOf DEF Works
<1>20. WorkInv(FT, w, a, r.sched, FALSE)
  BY <1>10, <1>15, <1>16, <1>19 DEF WorkInv
<1> QED  BY <1>1, <1>2, <1>3, <1>18, <1>20

LEMMA IrregularFtKeepsIInv == ASSUME IInv, IrregularFt PROVE IInv'
<1>1. PICK a \in Int : Anchored(a)
  BY DEF IInv
<1>2. CASE UNCHANGED <<dev, queue, air>>
  BY <1>2 DEF IInv, Anchored, BeforeFirstBeacon
<1>3. CASE Finish(FT, Consecutive(FT, TxBeacon(Work(FT, dev[FT]))))
  <2>1. Called(FT) /\ dev[FT].state = "steady"
    BY DEF IrregularFt
  <2>2. /\ WorkInv(FT, TxBeacon(Work(FT, dev[FT])), a, dev[FT].sched, FALSE)
        /\ dev[FT].sched \in Int /\ dev[FT].sched >= dev[FT].known
    BY <1>1, <2>1, BeaconStarts
  <2>3. WorkInv(FT, Consecutive(FT, TxBeacon(Work(FT, dev[FT]))), a, dev[FT].sched, FALSE)
    BY <2>2, ConsecutiveKeeps, Constants
  <2> QED  BY <1>1, <1>3, <2>2, <2>3, FinishKeepsIInv, Constants
<1> QED  BY <1>2, <1>3 DEF IrregularFt

LEMMA RecordChanges ==
    ASSUME NEW d, NEW a, NEW b, NEW r, NEW s, DeviceInv(d, r, s, a), NEW v \in Records,
           v.known = r.known,
           v.state = "dissociation" =>
              v.report.handle = "dissociation" /\ \A i \in DOMAIN s : End(s[i]) <= v.report.at,
           v.released => v.state = "nop" /\ \A i \in DOMAIN s : End(s[i]) <= 0
    PROVE  /\ DeviceInv(d, v, s, a)
           /\ v.earliest = r.earliest /\ PtInv(r, s, b) => PtInv(v, s, b)
BY DEF DeviceInv, PtInv

LEMMA IncrementedIs ==
    ASSUME NEW report \in Reports, NEW time \in Int
    PROVE  LET v == Incremented(report, time) IN
           v \in Reports /\ v.at = report.at + time /\ v.handle = report.handle
BY DEF Incremented, Reports

LEMMA IrregularPtKeepsIInv == ASSUME IInv, NEW p \in Pts, IrregularPt(p) PROVE IInv'
<1>1. PICK a \in Int : Anchored(a)
  BY DEF IInv
<1>2. PICK r \in Records, s \in Seq(Packets) : r = dev[p] /\ s = air[p]
  BY TypesOf, Constants
<1>3. PICK v : v = [r EXCEPT !.report = Incremented(r.report, BeaconPeriod)]
  OBVIOUS
<1>4. /\ v \in Records /\ v.state = r.state /\ v.released = r.released /\ v.known = r.known
      /\ v.earliest = r.earliest
  <2>1. r.report \in Reports
    BY DEF Records
  <2>2. Incremented(r.report, BeaconPeriod) \in Reports
    BY <2>1, IncrementedIs, Constants
  <2> QED  BY <1>3, <2>2 DEF Records
<1>5. /\ dev' = [dev EXCEPT ![p] = v] /\ air' = [air EXCEPT ![p] = s] /\ r.state = "steady"
      /\ queue' = [queue EXCEPT ![p] = queue[p]]
  BY <1>2, <1>3 DEF IrregularPt, IInv
<1>6. p \in Devices /\ p # FT /\ DeviceInv(p, r, s, a) /\ PtInv(r, s, dev[FT].known)
  BY <1>1, <1>2, Constants DEF Anchored
<1>7. DeviceInv(p, v, s, a) /\ PtInv(v, s, dev[FT].known)
  <2>1. v.state = "steady" /\ ~v.released
    BY <1>4, <1>5, <1>6 DEF DeviceInv
  <2> QED  BY <1>4, <1>6, <2>1, RecordChanges
<1>8. BeforeFirstBeacon => v.known = Far /\ s = <<>>
  BY <1>2, <1>4, <1>6 DEF IInv
<1> QED  BY <1>1, <1>4, <1>5, <1>6, <1>7, <1>8, DeviceChanges, TypesOf

(* The entries of the states. *)
LEMMA EnterSteadyIs ==
    ASSUME NEW r \in Records, NEW d
    PROVE  LET v == EnterSteady(r, d) IN
           /\ v \in Records /\ v.state = "steady" /\ v.released = r.released /\ v.known = r.known
           /\ v.sent = r.sent /\ v.earliest = r.earliest
           /\ d = FT => /\ v.sched = FirstBeacon
                        /\ v.report = [at |-> FirstBeacon - PrepareDuration, handle |-> "steady"]
<1>1. FirstBeacon \in Int /\ PrepareDuration \in Int /\ BeaconPeriod \in Int
  BY Constants
<1>2. CASE d = FT
  <2>1. PICK report : report = [at |-> FirstBeacon - PrepareDuration, handle |-> "steady"]
    OBVIOUS
  <2>2. report \in Reports
    BY <1>1, <2>1 DEF Reports
  <2>3. EnterSteady(r, d) = [r EXCEPT !.state = "steady", !.sched = FirstBeacon, !.report = report]
    BY <1>2, <2>1 DEF EnterSteady
  <2> QED  BY <1>1, <2>1, <2>2, <2>3 DEF Records
<1>3. CASE d # FT
  <2>1. PICK report : report = [at |-> BeaconPeriod, handle |-> "steady"]
    OBVIOUS
  <2>2. report \in Reports
    BY <1>1, <2>1 DEF Reports
  <2>3. EnterSteady(r, d) = [r EXCEPT !.state = "steady", !.report = report]
    BY <1>3, <2>1 DEF EnterSteady
  <2> QED  BY <1>3, <2>2, <2>3 DEF Records
<1> QED  BY <1>2, <1>3

LEMMA EnterDissociationIs ==
    ASSUME NEW r \in Records
    PROVE  LET v == EnterDissociation(r) IN
           /\ v \in Records /\ v.state = "dissociation" /\ v.released = r.released
           /\ v.known = r.known /\ v.sent = r.sent /\ v.earliest = r.earliest
           /\ v.report.at = DissociationTime /\ v.report.handle = "dissociation"
<1>1. PICK report : report = [at |-> DissociationTime, handle |-> "dissociation"]
  OBVIOUS
<1>2. report \in Reports
  BY <1>1, Constants DEF Reports
<1>3. EnterDissociation(r) = [r EXCEPT !.state = "dissociation", !.report = report]
  BY <1>1 DEF EnterDissociation
<1>4. PICK v : v = EnterDissociation(r)
  OBVIOUS
<1>5. /\ v \in Records /\ v.state = "dissociation" /\ v.released = r.released
      /\ v.known = r.known /\ v.sent = r.sent /\ v.earliest = r.earliest /\ v.report = report
  BY <1>2, <1>3, <1>4 DEF Records
<1> QED  BY <1>1, <1>4, <1>5

(* What a transition does, but for the FT entering its steady state. *)
LEMMA TransitionIs ==
    ASSUME NEW d \in Devices, NEW a \in Int, NEW r \in Records, NEW s \in Seq(Packets),
           DeviceInv(d, r, s, a), r.report.at < 0,
           ~(r.state = "start" /\ ~r.stopping /\ d = FT)
    PROVE  LET v == StateTransition(r, d) IN
           /\ v \in Records /\ DeviceInv(d, v, s, a) /\ v.known = r.known /\ v.earliest = r.earliest
           /\ v.sent = r.sent /\ (d = FT => v.state # "steady")
           /\ v.state \in {"off", "start"} => v.state = r.state
<1>1. PICK v : v = StateTransition(r, d)
  OBVIOUS
<1>2. /\ \A i \in DOMAIN s : End(s[i]) <= DissociationTime
      /\ \A i \in DOMAIN s : End(s[i]) \in Int
  <2> SUFFICES ASSUME NEW i \in DOMAIN s PROVE End(s[i]) <= DissociationTime /\ End(s[i]) \in Int
    OBVIOUS
  <2>1. s[i] \in Packets /\ End(s[i]) <= ValidAfterNow + BeaconPeriod
    BY DEF DeviceInv
  <2>2. End(s[i]) \in Int
    BY <2>1 DEF End, Packets
  <2> QED  BY <2>1, <2>2, Constants
<1>3. CASE r.state = "start" /\ r.stopping
  <2>1. PICK u : u = EnterSteady(r, d) /\ v = EnterDissociation(u)
    BY <1>1, <1>3 DEF StateTransition
  <2>2. u \in Records /\ u.released = r.released /\ u.known = r.known /\ u.sent = r.sent /\ u.earliest = r.earliest
    BY <2>1, EnterSteadyIs
  <2>3. /\ v \in Records /\ v.state = "dissociation" /\ v.released = r.released
        /\ v.known = r.known /\ v.sent = r.sent /\ v.earliest = r.earliest
        /\ v.report.at = DissociationTime /\ v.report.handle = "dissociation"
    BY <2>1, <2>2, EnterDissociationIs
  <2>4. ~r.released
    BY <1>3 DEF DeviceInv
  <2>5. DeviceInv(d, v, s, a)
    BY <1>2, <2>3, <2>4, RecordChanges
  <2> QED  BY <1>1, <2>3, <2>5
<1>4. CASE r.state = "start" /\ ~r.stopping
  <2>1. v = EnterSteady(r, d) /\ d # FT
    BY <1>1, <1>4 DEF StateTransition
  <2>2. /\ v \in Records /\ v.released = r.released /\ v.known = r.known /\ v.sent = r.sent
        /\ v.earliest = r.earliest /\ v.state = "steady"
    BY <2>1, EnterSteadyIs
  <2>3. ~r.released
    BY <1>4 DEF DeviceInv
  <2>4. DeviceInv(d, v, s, a)
    BY <2>2, <2>3, RecordChanges
  <2> QED  BY <1>1, <2>1, <2>2, <2>4
<1>5. CASE r.state = "steady"
  <2>1. v = EnterDissociation(r)
    BY <1>1, <1>5 DEF StateTransition
  <2>2. /\ v \in Records /\ v.state = "dissociation" /\ v.released = r.released
        /\ v.known = r.known /\ v.sent = r.sent /\ v.earliest = r.earliest
        /\ v.report.at = DissociationTime /\ v.report.handle = "dissociation"
    BY <2>1, EnterDissociationIs
  <2>3. ~r.released
    BY <1>5 DEF DeviceInv
  <2>4. DeviceInv(d, v, s, a)
    BY <1>2, <2>2, <2>3, RecordChanges
  <2> QED  BY <1>1, <2>2, <2>4
<1>6. NoReport \in Reports
  BY DEF NoReport, Reports
<1>7. CASE r.state = "dissociation"
  <2>1. v = [r EXCEPT !.state = "nop", !.report = NoReport, !.released = TRUE]
    BY <1>1, <1>7 DEF StateTransition
  <2>2. /\ v \in Records /\ v.state = "nop" /\ v.known = r.known /\ v.sent = r.sent
        /\ v.earliest = r.earliest
    BY <1>6, <2>1 DEF Records
  <2>3. r.report.at \in Int
    BY DEF Records, Reports
  <2>4. \A i \in DOMAIN s : End(s[i]) <= 0
    BY <1>2, <1>7, <2>3 DEF DeviceInv
  <2>5. DeviceInv(d, v, s, a)
    BY <2>2, <2>4, RecordChanges
  <2> QED  BY <1>1, <2>2, <2>5
<1>8. CASE r.state \in {"off", "nop"}
  <2>1. v = [r EXCEPT !.report = NoReport]
    BY <1>1, <1>8 DEF StateTransition
  <2>2. /\ v \in Records /\ v.state = r.state /\ v.known = r.known /\ v.sent = r.sent
        /\ v.earliest = r.earliest /\ v.released = r.released
    BY <1>6, <2>1 DEF Records
  <2>3. DeviceInv(d, v, s, a)
    BY <1>8, <2>2, RecordChanges DEF DeviceInv
  <2> QED  BY <1>1, <1>8, <2>2, <2>3
<1>9. r.state \in {"off", "start", "steady", "dissociation", "nop"}
  BY DEF Records
<1> QED  BY <1>3, <1>4, <1>5, <1>7, <1>8, <1>9

(* The first beacon that is scheduled is the anchor. *)
LEMMA FtEntersSteady ==
    ASSUME IInv, dev[FT].state = "start", dev' = [dev EXCEPT ![FT] = EnterSteady(@, FT)],
           UNCHANGED <<queue, air>>
    PROVE  IInv'
<1>1. PICK v : v = EnterSteady(dev[FT], FT)
  OBVIOUS
<1>2. FT \in Devices /\ dev[FT] \in Records /\ FT \notin Pts
  BY TypesOf, Constants
<1>3. /\ v \in Records /\ v.state = "steady" /\ v.released = dev[FT].released
      /\ v.known = dev[FT].known /\ v.sent = dev[FT].sent /\ v.sched = FirstBeacon
      /\ v.report = [at |-> FirstBeacon - PrepareDuration, handle |-> "steady"]
  BY <1>1, <1>2, EnterSteadyIs
<1>4. BeforeFirstBeacon /\ \A d \in Devices : dev[d].known = Far /\ air[d] = <<>>
  BY DEF BeforeFirstBeacon, IInv
<1>5. /\ dev' \in [Devices -> Records] /\ air' \in [Devices -> Seq(Packets)]
      /\ queue' = [d \in Devices |-> queue'[d]] /\ \A d \in Devices : queue'[d] \in Queues(d)
      /\ \A d \in Devices : dev'[d] = IF d = FT THEN v ELSE dev[d]
  BY <1>1, <1>3 DEF IInv
<1>6. PICK a \in Int : Anchored(a)
  BY DEF IInv
<1>7. ASSUME NEW d \in Devices PROVE DeviceInv(d, dev'[d], air'[d], FirstBeacon)
  <2>1. DeviceInv(d, dev[d], <<>>, a) /\ air'[d] = <<>>
    BY <1>4, <1>6 DEF Anchored
  <2>2. dev'[d] \in Records /\ dev'[d].known = Far /\ dev'[d].released = dev[d].released
    BY <1>3, <1>4, <1>5
  <2>3. dev'[d].state = "dissociation" => dev'[d] = dev[d]
    BY <1>3, <1>5
  <2>4. dev'[d].released => dev'[d].state = "nop"
    <3>1. CASE d = FT
      BY <1>3, <1>5, <2>1, <3>1 DEF DeviceInv
    <3>2. CASE d # FT
      BY <1>5, <2>1, <3>2 DEF DeviceInv
    <3> QED  BY <3>1, <3>2
  <2>5. DOMAIN <<>> = {} /\ <<>> \in Seq(Packets)
    OBVIOUS
  <2> QED  BY <2>1, <2>2, <2>3, <2>4, <2>5 DEF DeviceInv
<1>8. ASSUME NEW p \in Pts PROVE PtInv(dev'[p], air'[p], dev'[FT].known)
  <2>1. p \in Devices /\ p # FT
    BY Constants
  <2>2. dev'[p].known = Far /\ dev'[FT].known = Far /\ air'[p] = <<>>
    BY <1>2, <1>3, <1>4, <1>5, <2>1
  <2>3. DOMAIN <<>> = {} /\ Far <= Far
    BY Constants
  <2> QED  BY <2>2, <2>3 DEF PtInv
<1>9. FtInv(dev'[FT], air'[FT], FirstBeacon)
  <2>1. dev'[FT] = v /\ air'[FT] = <<>> /\ v.known = Far /\ ~v.sent
    BY <1>2, <1>3, <1>4, <1>5, <1>6 DEF Anchored, FtInv
  <2>2. InFrame(FirstBeacon, FirstBeacon, 0)
    <3>1. FirstBeacon = FirstBeacon + 0 + BeaconPeriod * 0
      BY Constants
    <3> QED  BY <3>1 DEF InFrame
  <2>3. Far <= PrepareDuration /\ Far <= FirstBeacon
    BY Constants
  <2>4. DOMAIN <<>> = {}
    OBVIOUS
  <2> QED  BY <1>3, <2>1, <2>2, <2>3, <2>4 DEF FtInv
<1>10. ~BeforeFirstBeacon'
  BY <1>2, <1>3, <1>5 DEF BeforeFirstBeacon
<1>11. FirstBeacon \in Int
  BY Constants
<1> QED  BY <1>5, <1>7, <1>8, <1>9, <1>10, <1>11 DEF IInv, Anchored

LEMMA TransitionKeepsIInv == ASSUME IInv, NEW d \in Devices, Transition(d) PROVE IInv'
<1>1. PICK a \in Int : Anchored(a)
  BY DEF IInv
<1>2. PICK r \in Records, s \in Seq(Packets) : r = dev[d] /\ s = air[d]
  BY TypesOf
<1>3. CASE r.state = "start" /\ ~r.stopping /\ d = FT
  <2>1. StateTransition(dev[d], d) = EnterSteady(dev[d], d)
    BY <1>2, <1>3 DEF StateTransition
  <2>2. dev' = [dev EXCEPT ![FT] = EnterSteady(dev[FT], FT)]
    BY <1>3, <2>1 DEF Transition
  <2> QED  BY <1>2, <1>3, <2>2, FtEntersSteady DEF Transition
<1>4. CASE ~(r.state = "start" /\ ~r.stopping /\ d = FT)
  <2>1. PICK v : v = StateTransition(r, d)
    OBVIOUS
  <2>2. DeviceInv(d, r, s, a) /\ r.report.at < 0 /\ r.known \in Int
    BY <1>1, <1>2 DEF Anchored, Transition, Called, Records
  <2>3. /\ v \in Records /\ DeviceInv(d, v, s, a) /\ v.known = r.known /\ v.earliest = r.earliest
        /\ v.sent = r.sent /\ (d = FT => v.state # "steady")
        /\ v.state \in {"off", "start"} => v.state = r.state
    BY <1>4, <2>1, <2>2, TransitionIs
  <2>4. /\ dev' = [dev EXCEPT ![d] = v] /\ air' = [air EXCEPT ![d] = s]
        /\ queue' = [queue EXCEPT ![d] = queue[d]]
    BY <1>2, <2>1 DEF Transition, IInv
  <2>5. d # FT => PtInv(v, s, dev[FT].known)
    BY <1>1, <1>2, <2>3, Constants DEF Anchored, PtInv
  <2>6. d = FT => FtInv(v, s, a) /\ v.known >= dev[FT].known
    BY <1>1, <1>2, <2>2, <2>3 DEF Anchored, FtInv
  <2>7. BeforeFirstBeacon => v.known = Far /\ s = <<>>
    BY <1>2, <2>3 DEF IInv
  <2>8. d = FT /\ v.state \in {"off", "start"} => BeforeFirstBeacon
    BY <1>2, <2>3 DEF BeforeFirstBeacon
  <2> QED  BY <1>1, <2>3, <2>4, <2>5, <2>6, <2>7, <2>8, DeviceChanges, TypesOf
<1> QED  BY <1>3, <1>4

--------------------------------------------------------------------------------
(* The beginning *)

LEMMA NothingSent == ASSUME NEW r, r.known = Far PROVE PtInv(r, <<>>, Far)
<1>1. Far <= Far /\ DOMAIN <<>> = {}
  BY Constants
<1> QED  BY <1>1 DEF PtInv

LEMMA InitIInv == Init => IInv
<1> SUFFICES ASSUME Init PROVE IInv
  OBVIOUS
<1>1. PICK r : r = [state |-> "off", stopping |-> FALSE, released |-> FALSE, report |-> NoReport,
                    known |-> Far, sent |-> FALSE, sched |-> 0, earliest |-> 0, job |-> FALSE]
  OBVIOUS
<1>2. r \in Records /\ r.known = Far /\ r.state = "off" /\ ~r.released /\ ~r.sent
  BY <1>1, Constants DEF Records, Reports, NoReport
<1>3. dev = [d \in Devices |-> r] /\ air = [d \in Devices |-> <<>>]
  BY <1>1 DEF Init
<1>4. /\ dev \in [Devices -> Records] /\ air \in [Devices -> Seq(Packets)]
      /\ \A d \in Devices : dev[d] = r /\ air[d] = <<>>
  BY <1>2, <1>3
<1>5. queue = [d \in Devices |-> queue[d]] /\ \A d \in Devices : queue[d] \in Queues(d)
  BY DEF Init, Queues
<1>6. ASSUME NEW d \in Devices PROVE DeviceInv(d, dev[d], air[d], 0)
  BY <1>2, <1>4 DEF DeviceInv
<1>7. \A p \in Pts : PtInv(dev[p], air[p], dev[FT].known)
  BY <1>2, <1>4, NothingSent, Constants
<1>8. FtInv(dev[FT], air[FT], 0)
  BY <1>2, <1>4, Constants DEF FtInv
<1> QED  BY <1>2, <1>4, <1>5, <1>6, <1>7, <1>8 DEF IInv, Anchored

LEMMA WorkStartKeepsIInv == ASSUME IInv, WorkStart PROVE IInv'
<1>1. PICK a \in Int : Anchored(a)
  BY DEF IInv
<1>2. BeforeFirstBeacon
  BY Constants DEF WorkStart, BeforeFirstBeacon
<1>3. PICK report : report = [at |-> 0, handle |-> "start"] /\ report \in Reports
  <2>1. [at |-> 0, handle |-> "start"] \in Reports
    BY DEF Reports
  <2> QED  BY <2>1
<1>4. \A d \in Devices : dev'[d] = [dev[d] EXCEPT !.state = "start", !.report = report]
  BY <1>3 DEF WorkStart
<1>5. ASSUME NEW d \in Devices
      PROVE  /\ dev'[d] \in Records /\ dev'[d].state = "start" /\ ~dev'[d].released
             /\ dev'[d].known = Far /\ air[d] = <<>> /\ dev'[d].sent = dev[d].sent
             /\ DeviceInv(d, dev'[d], air[d], a)
  <2>1. PICK r \in Records : r = dev[d]
    BY TypesOf
  <2> DEFINE v == dev'[d]
  <2>2. r.state = "off" /\ ~r.released /\ r.known = Far /\ air[d] = <<>> /\ DeviceInv(d, r, air[d], a)
    BY <1>1, <1>2, <2>1 DEF WorkStart, IInv, Anchored, DeviceInv
  <2>3. v = [r EXCEPT !.state = "start", !.report = report]
    BY <1>4, <2>1
  <2> HIDE DEF v
  <2>4. v \in Records /\ v.state = "start" /\ ~v.released /\ v.known = Far /\ v.sent = r.sent
    BY <1>3, <2>2, <2>3 DEF Records
  <2>5. DeviceInv(d, v, air[d], a)
    BY <2>2, <2>4, RecordChanges
  <2> QED  BY <2>1, <2>2, <2>4, <2>5 DEF v
<1>6. dev' \in [Devices -> Records] /\ UNCHANGED <<queue, air>>
  BY <1>5 DEF WorkStart
<1>7. \A p \in Pts : PtInv(dev'[p], air[p], dev'[FT].known)
  BY <1>5, NothingSent, Constants
<1>8. FtInv(dev'[FT], air[FT], a)
  <2>1. dev[FT].state \in {"off", "start"} /\ FtInv(dev[FT], air[FT], a)
    BY <1>1, <1>2 DEF Anchored, BeforeFirstBeacon
  <2>2. ~dev'[FT].sent
    BY <1>5, <2>1, Constants DEF FtInv
  <2> QED  BY <1>5, <2>2, Constants DEF FtInv
<1> QED  BY <1>5, <1>6, <1>7, <1>8 DEF IInv, Anchored

--------------------------------------------------------------------------------
(* Packets received *)

(* Whatever else is known of a device, the time of a beacon on the air may become
   the last one known. *)
LEMMA BeaconTimeKeeps ==
    ASSUME IInv, NEW a \in Int, Anchored(a), NEW i \in DOMAIN air[FT], NEW x \in air[FT][i].rx,
           air[FT][i].data = <<>>, dev[x].state = "steady",
           NEW v, v = [dev[x] EXCEPT !.known = air[FT][i].start]
    PROVE  /\ x \in Pts /\ v \in Records /\ v.state = "steady" /\ v.sent = dev[x].sent
           /\ DeviceInv(x, v, air[x], a) /\ PtInv(v, air[x], dev[FT].known)
<1>1. PICK t \in Packets : t = air[FT][i]
  BY TypesOf, Constants
<1>2. Placed(FT, t, a) /\ t.start <= dev[FT].known /\ t.start \in Int
  BY <1>1, Constants DEF Anchored, DeviceInv, FtInv, Packets
<1>3. x \in Pts /\ InFrame(t.start, a, 0)
  BY <1>1, <1>2 DEF Placed, Beacon, Downlink
<1>4. PICK r \in Records, s \in Seq(Packets) : r = dev[x] /\ s = air[x]
  BY <1>3, TypesOf, Constants
<1>5. x \in Devices /\ DeviceInv(x, r, s, a) /\ PtInv(r, s, dev[FT].known) /\ r.state = "steady"
  BY <1>3, <1>4, Constants DEF Anchored
<1>6. /\ v \in Records /\ v.state = r.state /\ v.released = r.released /\ v.known = t.start
      /\ v.earliest = r.earliest /\ v.sent = r.sent
  BY <1>1, <1>2, <1>4 DEF Records
<1>7. DeviceInv(x, v, s, a)
  BY <1>3, <1>5, <1>6 DEF DeviceInv
<1>8. PtInv(v, s, dev[FT].known)
  BY <1>2, <1>5, <1>6 DEF PtInv
<1> QED  BY <1>3, <1>4, <1>5, <1>6, <1>7, <1>8

(* The FT's packets grow fewer while another device changes. *)
LEMMA TwoChange ==
    ASSUME IInv, NEW a \in Int, Anchored(a), NEW d \in Devices, NEW x \in Devices, d # x,
           ~BeforeFirstBeacon,
           NEW z, Thin(z, air[d]), NEW v \in Records, NEW s \in Seq(Packets), NEW q \in Queues(x),
           dev' = [dev EXCEPT ![x] = v], queue' = [queue EXCEPT ![x] = q],
           air' = [[air EXCEPT ![d] = z] EXCEPT ![x] = s],
           DeviceInv(x, v, s, a), v.state \notin {"off", "start"},
           IF x = FT THEN FtInv(v, s, a) /\ v.known = dev[FT].known ELSE PtInv(v, s, dev[FT].known)
    PROVE  IInv'
<1>1. z \in Seq(Packets)
  BY DEF Thin
<1>2. /\ dev' \in [Devices -> Records] /\ air' \in [Devices -> Seq(Packets)]
      /\ dev'[x] = v /\ air'[x] = s /\ queue'[x] = q /\ air'[d] = z
      /\ \A e \in Devices : e # x => dev'[e] = dev[e] /\ queue'[e] = queue[e]
      /\ \A e \in Devices : e # x /\ e # d => air'[e] = air[e]
  BY <1>1 DEF IInv
<1>3. queue' = [e \in Devices |-> queue'[e]] /\ \A e \in Devices : queue'[e] \in Queues(e)
  BY <1>2 DEF IInv
<1>4. ASSUME NEW e \in Devices PROVE DeviceInv(e, dev'[e], air'[e], a)
  <2>1. CASE e = x
    BY <1>2, <2>1
  <2>2. CASE e = d
    BY <1>2, <2>2, ThinKeeps DEF Anchored
  <2>3. CASE e # x /\ e # d
    BY <1>2, <2>3 DEF Anchored
  <2> QED  BY <2>1, <2>2, <2>3
<1>5. dev'[FT].known = dev[FT].known
  BY <1>2, Constants
<1>6. ASSUME NEW p \in Pts PROVE PtInv(dev'[p], air'[p], dev'[FT].known)
  <2>0. p \in Devices /\ p # FT
    BY Constants
  <2>1. CASE p = x
    BY <1>2, <1>5, <2>0, <2>1
  <2>2. CASE p = d
    BY <1>2, <1>5, <2>2, ThinKeeps DEF Anchored
  <2>3. CASE p # x /\ p # d
    BY <1>2, <1>5, <2>0, <2>3 DEF Anchored
  <2> QED  BY <2>1, <2>2, <2>3
<1>7. FtInv(dev'[FT], air'[FT], a)
  <2>1. CASE FT = x
    BY <1>2, <2>1
  <2>2. CASE FT = d
    BY <1>2, <2>2, ThinKeeps DEF Anchored
  <2>3. CASE FT # x /\ FT # d
    BY <1>2, <2>3, Constants DEF Anchored
  <2> QED  BY <2>1, <2>2, <2>3
<1>8. dev'[FT].state \notin {"off", "start"}
  BY <1>2, Constants DEF BeforeFirstBeacon
<1> QED  BY <1>2, <1>3, <1>4, <1>6, <1>7, <1>8 DEF IInv, Anchored, BeforeFirstBeacon

LEMMA WorkPccKeepsIInv == ASSUME IInv, NEW d \in Devices, WorkPcc(d) PROVE IInv'
<1>1. PICK a \in Int : Anchored(a)
  BY DEF IInv
<1>2. PICK i \in DOMAIN air[d] : \E x \in air[d][i].rx :
         IF dev[x].state # "steady"
         THEN /\ air' = [air EXCEPT ![d] = Left(@, i, air[d][i].rx \ {x}, air[d][i].pdc)]
              /\ UNCHANGED dev
         ELSE /\ air' = [air EXCEPT ![d] = Left(@, i, air[d][i].rx \ {x}, air[d][i].pdc \cup {x})]
              /\ dev' = IF IsBeacon(d, air[d][i])
                        THEN [dev EXCEPT ![x].known = BeaconTime(air[d][i])] ELSE dev
  BY DEF WorkPcc
<1>3. PICK x \in air[d][i].rx :
         IF dev[x].state # "steady"
         THEN /\ air' = [air EXCEPT ![d] = Left(@, i, air[d][i].rx \ {x}, air[d][i].pdc)]
              /\ UNCHANGED dev
         ELSE /\ air' = [air EXCEPT ![d] = Left(@, i, air[d][i].rx \ {x}, air[d][i].pdc \cup {x})]
              /\ dev' = IF IsBeacon(d, air[d][i])
                        THEN [dev EXCEPT ![x].known = BeaconTime(air[d][i])] ELSE dev
  BY <1>2
<1>4. PICK t \in Packets, s \in Seq(Packets) :
         t = air[d][i] /\ s = air[d] /\ i \in DOMAIN s /\ air[d] # <<>> /\ x \in t.rx
  BY TypesOf
<1>5. t.rx \ {x} \subseteq t.rx /\ t.pdc \in SUBSET Devices /\ t.pdc \cup {x} \in SUBSET Devices
  BY <1>4 DEF Packets
<1>6. UNCHANGED queue
  BY DEF WorkPcc
<1>7. CASE dev[x].state # "steady"
  <2>1. PICK z : z = Left(s, i, t.rx \ {x}, t.pdc)
    OBVIOUS
  <2>2. Thin(z, s)
    BY <1>4, <1>5, <2>1, LeftThins
  <2>3. air' = [air EXCEPT ![d] = z] /\ UNCHANGED dev
    BY <1>3, <1>4, <1>7, <2>1
  <2> QED  BY <1>4, <1>6, <2>2, <2>3, AirThins
<1>8. CASE dev[x].state = "steady"
  <2>1. PICK z : z = Left(s, i, t.rx \ {x}, t.pdc \cup {x})
    OBVIOUS
  <2>2. Thin(z, s)
    BY <1>4, <1>5, <2>1, LeftThins
  <2>3. /\ air' = [air EXCEPT ![d] = z]
        /\ dev' = IF IsBeacon(d, t) THEN [dev EXCEPT ![x].known = t.start] ELSE dev
    BY <1>3, <1>4, <1>8, <2>1 DEF BeaconTime
  <2>4. CASE ~IsBeacon(d, t)
    BY <1>4, <1>6, <2>2, <2>3, <2>4, AirThins
  <2>5. CASE IsBeacon(d, t)
    <3>1. d = FT /\ t.data = <<>>
      BY <2>5 DEF IsBeacon
    <3>2. PICK v : v = [dev[x] EXCEPT !.known = air[FT][i].start]
      OBVIOUS
    <3>3. /\ x \in Pts /\ v \in Records /\ v.state = "steady"
          /\ DeviceInv(x, v, air[x], a) /\ PtInv(v, air[x], dev[FT].known)
      BY <1>1, <1>4, <1>8, <3>1, <3>2, BeaconTimeKeeps
    <3>4. /\ x \in Devices /\ x # FT /\ air[x] \in Seq(Packets) /\ queue[x] \in Queues(x)
      BY <3>3, Constants, TypesOf
    <3>5. dev' = [dev EXCEPT ![x] = v]
      BY <1>4, <2>3, <2>5, <3>1, <3>2
    <3>6. air' = [[air EXCEPT ![d] = z] EXCEPT ![x] = air[x]]
      BY <2>3, <3>1, <3>4 DEF IInv
    <3>7. queue' = [queue EXCEPT ![x] = queue[x]]
      BY <1>6 DEF IInv
    <3>8. ~BeforeFirstBeacon
      BY <1>4 DEF IInv
    <3> QED  BY <1>1, <1>4, <2>2, <3>1, <3>3, <3>4, <3>5, <3>6, <3>7, <3>8, TwoChange
  <2> QED  BY <2>4, <2>5
<1> QED  BY <1>7, <1>8

LEMMA WorkPdcKeepsIInv == ASSUME IInv, NEW d \in Devices, WorkPdc(d) PROVE IInv'
<1>1. PICK a \in Int : Anchored(a)
  BY DEF IInv
<1>2. PICK i \in DOMAIN air[d], s \in Seq(Packets), t \in Packets :
         /\ s = air[d] /\ t = s[i]
         /\ \E x \in t.pdc :
              LET rest == [air EXCEPT ![d] = Left(@, i, t.rx, t.pdc \ {x})] IN
              IF IsBeacon(d, t) /\ dev[x].state = "steady"
              THEN IF dev[x].known > 0
                   THEN UNCHANGED <<dev, queue, air>>
                   ELSE LET w == Consecutive(x, Work(x, dev[x]))
                        IN  /\ dev' = [dev EXCEPT ![x] = w.r]
                            /\ queue' = [queue EXCEPT ![x] = w.q]
                            /\ air' = [rest EXCEPT ![x] = w.a]
              ELSE air' = rest /\ UNCHANGED <<dev, queue>>
  <2>1. PICK s \in Seq(Packets) : s = air[d] /\ \A i \in DOMAIN s : s[i] \in Packets
    BY TypesOf
  <2> QED  BY <2>1 DEF WorkPdc
<1>3. PICK x \in t.pdc :
         \/ UNCHANGED <<dev, queue, air>>
         \/ air' = [air EXCEPT ![d] = Left(s, i, t.rx, t.pdc \ {x})] /\ UNCHANGED <<dev, queue>>
         \/ /\ IsBeacon(d, t) /\ dev[x].state = "steady"
            /\ dev' = [dev EXCEPT ![x] = Consecutive(x, Work(x, dev[x])).r]
            /\ queue' = [queue EXCEPT ![x] = Consecutive(x, Work(x, dev[x])).q]
            /\ air' = [[air EXCEPT ![d] = Left(s, i, t.rx, t.pdc \ {x})]
                           EXCEPT ![x] = Consecutive(x, Work(x, dev[x])).a]
  BY <1>2
<1> DEFINE z == Left(s, i, t.rx, t.pdc \ {x})
<1>4. x \in Devices /\ i \in DOMAIN s /\ air[d] # <<>> /\ ~BeforeFirstBeacon
  BY <1>2 DEF Packets, IInv
<1>5. Thin(z, s)
  <2>1. t.pdc \ {x} \in SUBSET Devices /\ t.rx \subseteq s[i].rx
    BY <1>2 DEF Packets
  <2> QED  BY <1>4, <2>1, LeftThins
<1>6. CASE UNCHANGED <<dev, queue, air>>
  BY <1>6 DEF IInv, Anchored, BeforeFirstBeacon
<1> HIDE DEF z
<1>7. CASE air' = [air EXCEPT ![d] = z] /\ UNCHANGED <<dev, queue>>
  BY <1>2, <1>4, <1>5, <1>7, AirThins
<1>8. CASE /\ IsBeacon(d, t) /\ dev[x].state = "steady"
           /\ dev' = [dev EXCEPT ![x] = Consecutive(x, Work(x, dev[x])).r]
           /\ queue' = [queue EXCEPT ![x] = Consecutive(x, Work(x, dev[x])).q]
           /\ air' = [[air EXCEPT ![d] = z] EXCEPT ![x] = Consecutive(x, Work(x, dev[x])).a]
  <2>1. PICK w : w = Consecutive(x, Work(x, dev[x]))
    OBVIOUS
  <2>2. dev[FT].known \in Int /\ Alike(dev[x], dev[x])
    BY <1>4, TypesOf, SameAlike, Constants DEF Records
  <2>i. PICK idle \in BOOLEAN : idle = BeforeFirstBeacon
    <3>1. BeforeFirstBeacon \in BOOLEAN
      BY DEF BeforeFirstBeacon
    <3> QED  BY <3>1, Zenon
  <2>3. WorkInv(x, w, a, dev[FT].known, idle)
    <3>1. WorkInv(x, Work(x, dev[x]), a, dev[FT].known, idle)
      BY <1>1, <1>4, <1>8, <2>2, <2>i, WorkStarts
    <3> QED  BY <1>4, <2>1, <2>2, <3>1, ConsecutiveKeeps
  <2>4. /\ dev' = [dev EXCEPT ![x] = w.r] /\ queue' = [queue EXCEPT ![x] = w.q]
        /\ air' = [[air EXCEPT ![d] = z] EXCEPT ![x] = w.a]
    BY <1>8, <2>1
  <2>5. CASE x = d
    <3>1. air' = [air EXCEPT ![x] = w.a]
      BY <2>4, <2>5 DEF IInv
    <3>2. Finish(x, w)
      BY <2>4, <3>1 DEF Finish
    <3> QED  BY <1>1, <1>4, <2>2, <2>3, <2>i, <3>2, FinishKeepsIInv
  <2>6. CASE x # d
    <3>1. w.r \in Records /\ w.a \in Seq(Packets) /\ w.q \in Queues(x) /\ w.r.state = "steady"
      BY <2>3 DEF WorkInv, Works
    <3>2. /\ DeviceInv(x, w.r, w.a, a)
          /\ IF x = FT THEN FtInv(w.r, w.a, a) /\ w.r.known = dev[FT].known
                       ELSE PtInv(w.r, w.a, dev[FT].known)
      BY <2>3 DEF WorkInv
    <3> QED  BY <1>1, <1>2, <1>4, <1>5, <2>4, <2>6, <3>1, <3>2, TwoChange
  <2> QED  BY <2>5, <2>6
<1> QED  BY <1>3, <1>6, <1>7, <1>8 DEF z

--------------------------------------------------------------------------------
(* Time passes for all devices: the anchor moves with the packets. *)

LEMMA FarBehind ==
    /\ Far \in Int /\ Far < -BeaconPeriod /\ BeaconPeriod \in Nat /\ BeaconPeriod > 0
    /\ PrepareDuration \in Nat /\ OffsetBeacon \in Nat
<1>1. /\ Far = -(ValidAfterBeacon + BeaconPeriod + RxDelay) /\ Far \in Int /\ BeaconPeriod \in Nat
      /\ ValidAfterBeacon \in Nat /\ RxDelay \in Nat /\ BeaconPeriod > 0
      /\ ValidAfterBeacon >= BeaconPeriod /\ PrepareDuration \in Nat /\ OffsetBeacon \in Nat
  BY Constants
<1> QED  BY <1>1

LEMMA PastIs ==
    ASSUME NEW t \in Int
    PROVE  /\ Past(t) \in Int /\ Past(t) >= t - 1 /\ Past(t) >= Far
           /\ t - 1 >= Far => Past(t) = t - 1
           /\ t - 1 < Far => Past(t) = Far
<1>1. Far \in Int
  BY Constants
<1> QED  BY <1>1 DEF Past, Max2

LEMMA AgedIs ==
    ASSUME NEW r \in Records
    PROVE  LET v == Aged(r) IN
           /\ v \in Records /\ v.state = r.state /\ v.released = r.released /\ v.sent = r.sent
           /\ v.known = Past(r.known) /\ v.sched = Past(r.sched)
           /\ v.earliest = Max2(r.earliest - 1, 0)
           /\ r.report.handle # "nothing" =>
                v.report.at = r.report.at - 1 /\ v.report.handle = r.report.handle
<1>1. PICK report : report = IF r.report = NoReport THEN r.report ELSE Incremented(r.report, -1)
  OBVIOUS
<1>2. /\ report \in Reports
      /\ r.report.handle # "nothing" =>
           report.at = r.report.at - 1 /\ report.handle = r.report.handle
  <2>1. r.report \in Reports
    BY DEF Records
  <2>2. PICK time \in Int : time = -1
    OBVIOUS
  <2>3. PICK u : u = Incremented(r.report, time)
    OBVIOUS
  <2>4. u \in Reports /\ u.at = r.report.at + time /\ u.handle = r.report.handle
    BY <2>1, <2>3, IncrementedIs
  <2>5. r.report.at \in Int /\ r.report.at + time = r.report.at - 1
    BY <2>1, <2>2 DEF Reports
  <2>6. CASE r.report = NoReport
    BY <1>1, <2>1, <2>6 DEF NoReport
  <2>7. CASE r.report # NoReport
    <3>1. report = u
      BY <1>1, <2>2, <2>3, <2>7
    <3> QED  BY <2>4, <2>5, <3>1
  <2> QED  BY <2>6, <2>7
<1>3. PICK known \in Int, sched \in Int, earliest \in Int :
         known = Past(r.known) /\ sched = Past(r.sched) /\ earliest = Max2(r.earliest - 1, 0)
  <2>1. r.known \in Int /\ r.sched \in Int /\ r.earliest \in Int
    BY DEF Records
  <2>2. Max2(r.earliest - 1, 0) \in Int
    BY <2>1 DEF Max2
  <2> QED  BY <2>1, <2>2, PastIs
<1>4. PICK v : v = Aged(r)
  OBVIOUS
<1>5. v = [r EXCEPT !.report = report, !.known = known, !.sched = sched, !.earliest = earliest]
  BY <1>1, <1>3, <1>4 DEF Aged
<1>6. /\ v \in Records /\ v.state = r.state /\ v.released = r.released /\ v.sent = r.sent
      /\ v.known = known /\ v.sched = sched /\ v.earliest = earliest /\ v.report = report
  BY <1>2, <1>5 DEF Records
<1> QED  BY <1>2, <1>3, <1>4, <1>6

(* The packets of a device a unit of time later. *)
Sooner(z, s) ==
    /\ z \in Seq(Packets) /\ DOMAIN z = DOMAIN s
    /\ \A i \in DOMAIN s :
          /\ z[i].start = s[i].start - 1 /\ z[i].len = s[i].len
          /\ z[i].data = s[i].data /\ z[i].rx = s[i].rx

LEMMA SoonerExists ==
    ASSUME NEW s \in Seq(Packets)
    PROVE  Sooner([i \in DOMAIN s |-> [s[i] EXCEPT !.start = @ - 1]], s)
<1>1. DOMAIN s = 1..Len(s) /\ Len(s) \in Nat /\ \A i \in DOMAIN s : s[i] \in Packets
  OBVIOUS
<1> DEFINE At1(i) == [s[i] EXCEPT !.start = @ - 1]
<1>2. ASSUME NEW i \in DOMAIN s
      PROVE  /\ At1(i) \in Packets /\ At1(i).start = s[i].start - 1 /\ At1(i).len = s[i].len
             /\ At1(i).data = s[i].data /\ At1(i).rx = s[i].rx
  <2>1. PICK t \in Packets, start \in Int : t = s[i] /\ start = t.start - 1
    <3>1. s[i] \in Packets /\ s[i].start - 1 \in Int
      BY <1>1, SMTT(60) DEF Packets
    <3> QED  BY <3>1
  <2>2. PICK u : u = [t EXCEPT !.start = start]
    OBVIOUS
  <2>3. u \in Packets /\ u.start = start /\ u.len = t.len /\ u.data = t.data /\ u.rx = t.rx
    BY <2>2 DEF Packets
  <2>4. At1(i) = u
    BY <2>1, <2>2
  <2> HIDE DEF At1
  <2> QED  BY <2>1, <2>3, <2>4
<1> DEFINE z == [i \in DOMAIN s |-> At1(i)]
<1>3. DOMAIN z = DOMAIN s /\ \A i \in DOMAIN s : z[i] = At1(i)
  OBVIOUS
<1>4. z \in Seq(Packets)
  <2>1. \A i \in 1..Len(s) : At1(i) \in Packets
    BY <1>1, <1>2
  <2> HIDE DEF At1
  <2> QED  BY <1>1, <2>1
<1> HIDE DEF z, At1
<1>5. Sooner(z, s)
  BY <1>2, <1>3, <1>4 DEF Sooner
<1> QED  BY <1>5 DEF z, At1

LEMMA PlacedSooner ==
    ASSUME NEW d \in Devices, NEW t \in Packets, NEW u \in Packets, NEW a \in Int, Placed(d, t, a),
           u.start = t.start - 1, u.len = t.len, u.data = t.data, u.rx = t.rx
    PROVE  Placed(d, u, a - 1)
<1>1. t.start \in Int
  BY DEF Packets
<1>2. ASSUME NEW o \in Int, InFrame(t.start, a, o) PROVE InFrame(u.start, a - 1, o)
  BY <1>1, <1>2, FrameMoves
<1>3. CASE d # FT
  <2>1. PICK i \in Resources : InFrame(t.start, a, UlStart(d, i))
    BY <1>3 DEF Placed, UplinkOf
  <2>2. UlStart(d, i) \in Int
    BY <1>3, SlotOf, Constants
  <2>3. InFrame(u.start, a - 1, UlStart(d, i))
    BY <1>2, <2>1, <2>2
  <2>4. u.len = Ul
    BY <1>3 DEF Placed, UplinkOf
  <2> QED  BY <1>3, <2>3, <2>4 DEF Placed, UplinkOf
<1>4. CASE d = FT /\ Beacon(t, a)
  BY <1>2, <1>4 DEF Placed, Beacon
<1>5. CASE d = FT /\ Downlink(t, a)
  <2>1. PICK p \in Pts, i \in Resources : InFrame(t.start, a, UlStart(p, i) + Ul)
    BY <1>5 DEF Downlink
  <2>2. UlStart(p, i) + Ul \in Int
    BY SlotOf, Constants
  <2>3. InFrame(u.start, a - 1, UlStart(p, i) + Ul)
    BY <1>2, <2>1, <2>2
  <2> QED  BY <1>5, <2>3 DEF Placed, Downlink
<1> QED  BY <1>3, <1>4, <1>5 DEF Placed

(* Past() of the time of a beacon is the time of a beacon, or that of none. *)
LEMMA KnownSooner ==
    ASSUME NEW t \in Int, NEW a \in Int, t = Far \/ InFrame(t, a, 0)
    PROVE  Past(t) = Far \/ InFrame(Past(t), a - 1, 0)
<1>1. t - 1 < Far \/ t - 1 >= Far
  BY Constants
<1>2. CASE t - 1 < Far
  BY <1>2, PastIs
<1>3. CASE t - 1 >= Far
  <2>1. Past(t) = t - 1 /\ t # Far
    BY <1>3, PastIs, Constants
  <2> QED  BY <2>1, FrameMoves
<1> QED  BY <1>1, <1>2, <1>3

LEMMA DeviceSooner ==
    ASSUME NEW d \in Devices, NEW r \in Records, NEW s \in Seq(Packets), NEW a \in Int,
           DeviceInv(d, r, s, a), NEW z, Sooner(z, s), NEW v, v = Aged(r)
    PROVE  DeviceInv(d, v, z, a - 1)
<1>1. /\ v \in Records /\ v.state = r.state /\ v.released = r.released
      /\ v.known = Past(r.known) /\ r.known \in Int
      /\ r.report.handle # "nothing" => v.report.at = r.report.at - 1 /\ v.report.handle = r.report.handle
  BY AgedIs DEF Records
<1>2. /\ z \in Seq(Packets) /\ DOMAIN z = DOMAIN s
      /\ \A i \in DOMAIN s : s[i] \in Packets /\ z[i] \in Packets
      /\ \A i \in DOMAIN s : z[i].start = s[i].start - 1 /\ z[i].len = s[i].len
                             /\ z[i].data = s[i].data /\ z[i].rx = s[i].rx
  BY DEF Sooner
<1>3. \A i \in DOMAIN s : /\ End(z[i]) = End(s[i]) - 1 /\ End(s[i]) \in Int /\ s[i].start \in Int
  <2> SUFFICES ASSUME NEW i \in DOMAIN s
               PROVE  /\ End(z[i]) = End(s[i]) - 1 /\ End(s[i]) \in Int /\ s[i].start \in Int
    OBVIOUS
  <2>1. s[i].start \in Int /\ s[i].len \in Int
    BY <1>2 DEF Packets
  <2>2. z[i].start = s[i].start - 1 /\ z[i].len = s[i].len
    BY <1>2
  <2> QED  BY <2>1, <2>2, SMTT(60) DEF End
<1>4. v.known = Far \/ InFrame(v.known, a - 1, 0)
  BY <1>1, KnownSooner DEF DeviceInv
<1>5. ASSUME NEW i \in DOMAIN z
      PROVE  Placed(d, z[i], a - 1) /\ End(z[i]) <= ValidAfterNow + BeaconPeriod
  <2>1. Placed(d, s[i], a) /\ End(s[i]) <= ValidAfterNow + BeaconPeriod
    BY <1>2, <1>5 DEF DeviceInv
  <2>2. Placed(d, z[i], a - 1)
    BY <1>2, <1>5, <2>1, PlacedSooner
  <2> QED  BY <1>2, <1>3, <1>5, <2>1, <2>2, Constants
<1>6. \A i, j \in DOMAIN z : i < j => End(z[i]) <= z[j].start
  <2> SUFFICES ASSUME NEW i \in DOMAIN z, NEW j \in DOMAIN z, i < j PROVE End(z[i]) <= z[j].start
    OBVIOUS
  <2>1. End(s[i]) <= s[j].start
    BY <1>2 DEF DeviceInv
  <2> QED  BY <1>2, <1>3, <2>1
<1>7. ASSUME v.state = "dissociation"
      PROVE  v.report.handle = "dissociation" /\ \A i \in DOMAIN z : End(z[i]) <= v.report.at
  <2>1. r.report.handle = "dissociation" /\ \A i \in DOMAIN s : End(s[i]) <= r.report.at
    BY <1>1, <1>7 DEF DeviceInv
  <2>2. r.report.at \in Int
    BY DEF Records, Reports
  <2> QED  BY <1>1, <1>2, <1>3, <2>1, <2>2
<1>8. v.released => v.state = "nop" /\ \A i \in DOMAIN z : End(z[i]) <= 0
  BY <1>1, <1>2, <1>3 DEF DeviceInv
<1> QED  BY <1>1, <1>2, <1>4, <1>5, <1>6, <1>7, <1>8 DEF DeviceInv

LEMMA EarlierIs == ASSUME NEW e \in Int PROVE Max2(e - 1, 0) \in Int /\ Max2(e - 1, 0) >= e - 1
BY DEF Max2

LEMMA PtSooner ==
    ASSUME NEW r \in Records, NEW s \in Seq(Packets), NEW b \in Int, PtInv(r, s, b),
           NEW z, Sooner(z, s), NEW v, v = Aged(r)
    PROVE  PtInv(v, z, Past(b))
<1>1. v.known = Past(r.known) /\ v.earliest = Max2(r.earliest - 1, 0) /\ r.known \in Int /\ r.earliest \in Int
  BY AgedIs DEF Records
<1>2. v.known <= Past(b)
  <2>1. r.known <= b
    BY DEF PtInv
  <2> QED  BY <1>1, <2>1, Constants DEF Past, Max2
<1>3. ASSUME NEW i \in DOMAIN z
      PROVE  End(z[i]) <= v.earliest /\ z[i].start < Past(b) + ValidAfterBeacon
  <2>1. i \in DOMAIN s /\ z[i].start = s[i].start - 1 /\ z[i].len = s[i].len /\ s[i] \in Packets
    BY <1>3 DEF Sooner
  <2>2. s[i].start \in Int /\ s[i].len \in Int
    BY <2>1 DEF Packets
  <2>3. End(s[i]) <= r.earliest /\ s[i].start < b + ValidAfterBeacon
    BY <2>1 DEF PtInv
  <2>4. Past(b) \in Int /\ Past(b) >= b - 1
    BY PastIs
  <2>5. End(z[i]) <= v.earliest
    <3>1. PICK e \in Int : e = v.earliest /\ e >= r.earliest - 1
      BY <1>1, EarlierIs
    <3>2. End(z[i]) = End(s[i]) - 1 /\ End(s[i]) \in Int
      BY <2>1, <2>2, SMTT(60) DEF End
    <3> QED  BY <1>1, <2>3, <3>1, <3>2
  <2>6. z[i].start < Past(b) + ValidAfterBeacon
    <3>1. ValidAfterBeacon \in Nat
      BY Constants
    <3> QED  BY <2>1, <2>2, <2>3, <2>4, <3>1
  <2> QED  BY <2>5, <2>6
<1> QED  BY <1>2, <1>3 DEF PtInv

(* The beacon of an FT in its steady state is not due yet. *)
LEMMA FtSooner ==
    ASSUME NEW r \in Records, NEW s \in Seq(Packets), NEW a \in Int, FtInv(r, s, a),
           r.report # NoReport => r.report.at > -MaxDelay,
           NEW z, Sooner(z, s), NEW v, v = Aged(r)
    PROVE  FtInv(v, z, a - 1)
<1>1. /\ v \in Records /\ v.state = r.state /\ v.sent = r.sent
      /\ v.known = Past(r.known) /\ v.sched = Past(r.sched) /\ v.earliest = Max2(r.earliest - 1, 0)
      /\ r.known \in Int /\ r.sched \in Int /\ r.earliest \in Int
      /\ r.report.handle # "nothing" => v.report.at = r.report.at - 1 /\ v.report.handle = r.report.handle
  BY AgedIs DEF Records
<1>2. Past(r.known) \in Int /\ Past(r.known) >= r.known - 1
  BY <1>1, PastIs
<1>3. v.known <= PrepareDuration
  <2>1. r.known <= PrepareDuration
    BY DEF FtInv
  <2> QED  BY <1>1, <2>1, FarBehind, SMTT(60) DEF Past, Max2
<1>4. ASSUME NEW i \in DOMAIN z
      PROVE  /\ i \in DOMAIN s /\ End(z[i]) = End(s[i]) - 1 /\ End(s[i]) \in Int
             /\ End(z[i]) <= Max2(v.earliest, v.known + OffsetBeacon)
             /\ z[i].data = <<>> => z[i].start <= v.known
  <2>1. /\ i \in DOMAIN s /\ z[i].start = s[i].start - 1 /\ z[i].len = s[i].len
        /\ z[i].data = s[i].data /\ s[i] \in Packets
    BY <1>4 DEF Sooner
  <2>2. s[i].start \in Int /\ s[i].len \in Int
    BY <2>1 DEF Packets
  <2>3. /\ End(s[i]) <= Max2(r.earliest, r.known + OffsetBeacon)
        /\ s[i].data = <<>> => s[i].start <= r.known
    BY <2>1 DEF FtInv
  <2>4. End(z[i]) = End(s[i]) - 1 /\ End(s[i]) \in Int
    BY <2>1, <2>2, SMTT(60) DEF End
  <2>5. End(z[i]) <= Max2(v.earliest, v.known + OffsetBeacon)
    <3>1. PICK e \in Int, k \in Int : e = v.earliest /\ k = v.known
      <4>1. Max2(r.earliest - 1, 0) \in Int
        BY <1>1 DEF Max2
      <4> QED  BY <1>1, <1>2, <4>1
    <3>2. e >= r.earliest - 1 /\ k >= r.known - 1
      <4>1. e >= r.earliest - 1
        BY <1>1, <3>1, EarlierIs
      <4>2. k >= r.known - 1
        BY <1>1, <1>2, <3>1
      <4> QED  BY <4>1, <4>2
    <3>3. End(s[i]) <= r.earliest \/ End(s[i]) <= r.known + OffsetBeacon
      BY <2>3 DEF Max2
    <3>4. End(z[i]) <= e \/ End(z[i]) <= k + OffsetBeacon
      BY <1>1, <2>4, <3>2, <3>3, FarBehind, SMTT(60)
    <3> QED  BY <2>4, <3>1, <3>4, FarBehind, SMTT(60) DEF Max2
  <2>6. z[i].data = <<>> => z[i].start <= v.known
    BY <1>1, <1>2, <2>1, <2>2, <2>3
  <2> QED  BY <2>1, <2>4, <2>5, <2>6
<1>5. ASSUME v.state = "steady"
      PROVE  /\ InFrame(v.sched, a - 1, 0) /\ v.known <= v.sched
             /\ v.report = [at |-> v.sched - PrepareDuration, handle |-> "steady"]
             /\ v.sent => v.sched = v.known + BeaconPeriod
             /\ \A i \in DOMAIN z : End(z[i]) <= v.sched
  <2>1. /\ InFrame(r.sched, a, 0) /\ r.known <= r.sched
        /\ r.report = [at |-> r.sched - PrepareDuration, handle |-> "steady"]
        /\ r.sent => r.sched = r.known + BeaconPeriod
        /\ \A i \in DOMAIN s : End(s[i]) <= r.sched
    BY <1>1, <1>5 DEF FtInv
  <2>2. r.report.at = r.sched - PrepareDuration /\ r.report.handle = "steady"
    BY <2>1
  <2>3. r.sched - PrepareDuration > -MaxDelay
    BY <2>2 DEF NoReport
  <2>4. r.sched - 1 >= 0
    BY <1>1, <2>3, Constants
  <2>5. v.sched = r.sched - 1
    <3>1. r.sched - 1 >= Far
      BY <1>1, <2>4, FarBehind
    <3> QED  BY <1>1, <3>1, PastIs
  <2>6. InFrame(v.sched, a - 1, 0)
    BY <1>1, <2>1, <2>5, FrameMoves
  <2>7. v.known <= v.sched
    BY <1>1, <2>1, <2>4, <2>5, FarBehind, SMTT(60) DEF Past, Max2
  <2>8. v.report = [at |-> v.sched - PrepareDuration, handle |-> "steady"]
    <3>1. v.report.at = v.sched - PrepareDuration
      BY <1>1, <2>2, <2>5, FarBehind
    <3>2. v.report.handle = "steady" /\ v.report \in Reports
      BY <1>1, <2>2 DEF Records
    <3> QED  BY <3>1, <3>2 DEF Reports
  <2>9. v.sent => v.sched = v.known + BeaconPeriod
    <3> SUFFICES ASSUME v.sent PROVE v.sched = v.known + BeaconPeriod
      OBVIOUS
    <3>1. r.sched = r.known + BeaconPeriod
      BY <1>1, <2>1
    <3>2. r.known - 1 >= Far
      BY <1>1, <2>4, <3>1, FarBehind, SMTT(60)
    <3>3. v.known = r.known - 1
      BY <1>1, <3>2, PastIs
    <3> QED  BY <1>1, <2>5, <3>1, <3>3, FarBehind
  <2>10. \A i \in DOMAIN z : End(z[i]) <= v.sched
    BY <1>1, <1>4, <2>1, <2>5
  <2> QED  BY <2>6, <2>7, <2>8, <2>9, <2>10
<1>6. v.state \in {"off", "start"} => ~v.sent
  BY <1>1 DEF FtInv
<1> QED  BY <1>3, <1>4, <1>5, <1>6 DEF FtInv

LEMMA TickKeepsIInv == ASSUME IInv, Tick PROVE IInv'
<1>1. PICK a \in Int : Anchored(a)
  BY DEF IInv
<1>2. \A d \in Devices : dev'[d] = Aged(dev[d]) /\ Sooner(air'[d], air[d])
  <2> SUFFICES ASSUME NEW d \in Devices PROVE dev'[d] = Aged(dev[d]) /\ Sooner(air'[d], air[d])
    OBVIOUS
  <2>1. dev'[d] = Aged(dev[d]) /\ air'[d] = [i \in DOMAIN air[d] |-> [air[d][i] EXCEPT !.start = @ - 1]]
    BY DEF Tick
  <2> QED  BY <2>1, SoonerExists, TypesOf
<1>3. ASSUME NEW d \in Devices
      PROVE  /\ dev'[d] \in Records /\ air'[d] \in Seq(Packets) /\ dev'[d].known = Past(dev[d].known)
             /\ dev'[d].state = dev[d].state /\ DeviceInv(d, dev'[d], air'[d], a - 1)
  <2>1. dev'[d] \in Records /\ dev'[d].known = Past(dev[d].known) /\ dev'[d].state = dev[d].state
    BY <1>2, TypesOf, AgedIs
  <2>2. air'[d] \in Seq(Packets)
    BY <1>2 DEF Sooner
  <2>3. DeviceInv(d, dev'[d], air'[d], a - 1)
    BY <1>1, <1>2, TypesOf, DeviceSooner DEF Anchored
  <2> QED  BY <2>1, <2>2, <2>3
<1>4. /\ dev' \in [Devices -> Records] /\ air' \in [Devices -> Seq(Packets)]
      /\ queue' = [d \in Devices |-> queue'[d]] /\ \A d \in Devices : queue'[d] \in Queues(d)
  BY <1>3 DEF Tick, IInv
<1>5. dev'[FT].known = Past(dev[FT].known) /\ dev[FT].known \in Int
  BY <1>3, TypesOf, Constants DEF Records
<1>6. ASSUME NEW p \in Pts PROVE PtInv(dev'[p], air'[p], dev'[FT].known)
  <2>1. PtInv(dev[p], air[p], dev[FT].known) /\ p \in Devices
    BY <1>1, Constants DEF Anchored
  <2> QED  BY <1>2, <1>5, <2>1, PtSooner, TypesOf
<1>7. FtInv(dev'[FT], air'[FT], a - 1)
  <2>1. FtInv(dev[FT], air[FT], a) /\ FT \in Devices
    BY <1>1, Constants DEF Anchored
  <2>2. dev[FT].report # NoReport => dev[FT].report.at > -MaxDelay
    BY <2>1 DEF Tick
  <2> QED  BY <1>2, <2>1, <2>2, FtSooner, TypesOf
<1>8. ASSUME BeforeFirstBeacon', NEW d \in Devices PROVE dev'[d].known = Far /\ air'[d] = <<>>
  <2>1. BeforeFirstBeacon
    BY <1>3, <1>8, Constants DEF BeforeFirstBeacon
  <2>2. dev[d].known = Far /\ air[d] = <<>>
    BY <2>1 DEF IInv
  <2>3. Past(Far) = Far
    BY Constants DEF Past, Max2
  <2>4. air'[d] \in Seq(Packets) /\ DOMAIN air'[d] = {}
    BY <1>2, <2>2 DEF Sooner
  <2>5. dev'[d].known = Far
    BY <1>3, <2>2, <2>3
  <2>6. air'[d] = <<>>
    <3>1. PICK z \in Seq(Packets) : z = air'[d] /\ DOMAIN z = {}
      BY <2>4
    <3>2. Len(z) \in Nat /\ DOMAIN z = 1..Len(z)
      OBVIOUS
    <3>3. Len(z) = 0
      <4>1. Len(z) >= 1 => 1 \in DOMAIN z
        BY <3>2
      <4> QED  BY <3>1, <3>2, <4>1
    <3> QED  BY <3>1, <3>3
  <2> QED  BY <2>5, <2>6
<1>9. Anchored(a - 1)'
  BY <1>3, <1>6, <1>7 DEF Anchored
<1> QED  BY <1>4, <1>8, <1>9 DEF IInv

--------------------------------------------------------------------------------
(* Every step *)

LEMMA NextKeepsIInv == ASSUME IInv, [Next]_vars PROVE IInv'
<1>1. CASE UNCHANGED vars
  BY <1>1 DEF vars, IInv, Anchored, BeforeFirstBeacon
<1>2. CASE WorkStart
  BY <1>2, WorkStartKeepsIInv
<1>3. CASE Tick
  BY <1>3, TickKeepsIInv
<1>4. ASSUME NEW d \in Devices, Datagram(d) \/ WorkStop(d) \/ FirmwareStep(d) \/ PhyStep(d) PROVE IInv'
  <2>1. CASE Datagram(d)
    BY <2>1, DatagramKeepsIInv
  <2>2. CASE WorkStop(d)
    BY <2>2, WorkStopKeepsIInv
  <2>3. CASE FirmwareStep(d)
    <3>1. CASE Transition(d)
      BY <3>1, TransitionKeepsIInv
    <3>2. CASE d = FT /\ IrregularFt
      BY <3>2, IrregularFtKeepsIInv
    <3>3. CASE d # FT /\ IrregularPt(d)
      BY <3>3, IrregularPtKeepsIInv, Constants
    <3>4. CASE WorkApplication(d)
      BY <3>4, WorkApplicationKeepsIInv
    <3> QED  BY <2>3, <3>1, <3>2, <3>3, <3>4 DEF FirmwareStep
  <2>4. CASE PhyStep(d)
    BY <2>4, GenerateKeepsIInv, LoseKeepsIInv, WorkPccKeepsIInv, WorkPdcKeepsIInv DEF PhyStep
  <2> QED  BY <1>4, <2>1, <2>2, <2>3, <2>4
<1> QED  BY <1>1, <1>2, <1>3, <1>4 DEF Next

(* No two packets meet on the air, whichever beacons a PT has missed and however
   old the time is it goes on with: get_tx_opportunity() of an FT and of its PTs
   place packets into disjoint resources of the beacon period. *)
THEOREM NoCollisionHolds == Spec => []NoCollision
<1>1. Init => IInv
  BY InitIInv
<1>2. IInv /\ [Next]_vars => IInv'
  BY NextKeepsIInv
<1>3. IInv => NoCollision
  BY IInvNoCollision
<1> QED  BY <1>1, <1>2, <1>3, PTL DEF Spec

(* A PT sends nothing after the validity of the last beacon of its FT, and after
   work_stop() no packet of the device is left on the air. *)
THEOREM SilenceHolds == Spec => []Silence
<1>1. Init => IInv
  BY InitIInv
<1>2. IInv /\ [Next]_vars => IInv'
  BY NextKeepsIInv
<1>3. IInv => Silence
  BY IInvSilence
<1> QED  BY <1>1, <1>2, <1>3, PTL DEF Spec

================================================================================
