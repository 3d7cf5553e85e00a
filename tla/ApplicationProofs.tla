--------------------------- MODULE ApplicationProofs ---------------------------
(***************************************************************************)
(* Datagrams keep their order through the queues of the application layer, *)
(* and a level that was looked at remains the level of the same datagram,  *)
(* for every number of connections, of slots and of datagrams.             *)
(*                                                                         *)
(* Everything about the ring is in a few lemmas: writing appends to the    *)
(* content of a queue, popping removes its head, whatever the indexes.     *)
(* The rest follows from who may do what: only the server writes to its    *)
(* queues and only the firmware pops from them, and the other way round    *)
(* for those of the client.                                                *)
(***************************************************************************)
EXTENDS Application, WellFoundedInduction, TLAPS

Queue == [vec : [Slots -> Nat], w_idx : Slots, r_idx : Slots]

QueueTypes ==
    /\ squeue \in [ServerConns -> Queue] /\ cqueue \in [ClientConns -> Queue]
    /\ ingress \in [ServerConns -> Seq(Nat)] /\ read \in [ServerConns -> Seq(Nat)]
    /\ egress \in [ClientConns -> Seq(Nat)] /\ forwarded \in [ClientConns -> Seq(Nat)]

(* The server works on connections with input until none is left. *)
ServerInv ==
    /\ server \in [pc : {"poll", "read", "enqueue", "joined"}, keep : BOOLEAN,
                   ready : SUBSET ServerConns, offered : [ServerConns -> Nat]]
    /\ server.pc \in {"read", "enqueue"} => server.ready # {}

(* The firmware works on the queue of one connection at a time. *)
FirmwareInv ==
    /\ jobs \in Seq(ServerConns)
    /\ fw \in [pc : {"idle", "read", "write"}, conn : Int, levels : Seq(Nat), cnt : Int, left : Int]
    /\ fw.pc = "read" => fw.conn \in ServerConns
    /\ fw.pc = "write" => fw.conn \in ClientConns

QueuesInv == QueueTypes /\ ServerInv /\ FirmwareInv /\ InOrder /\ LevelsMatch

--------------------------------------------------------------------------------
(* The ring *)

LEMMA Constants ==
    /\ N_datagram \in Nat /\ N_datagram > 0 /\ NofLevels \in Nat
    /\ 0 \in Slots /\ \A x : x \in Slots <=> x \in Nat /\ x < N_datagram
    /\ ServerConns \subseteq Nat /\ ClientConns \subseteq Nat
<1>1. N_datagram \in Nat \ {0} /\ NofLevels \in Nat \ {0}
  BY ApplicationAssumption
<1>2. ASSUME NEW Conns \in {ServerConns, ClientConns} PROVE Conns \subseteq Nat
  <2>1. Conns = 0..(Cardinality(Conns) - 1)
    BY ApplicationAssumption
  <2>2. ASSUME NEW n PROVE 0..n \subseteq Nat
    OBVIOUS
  <2> QED  BY <2>1, <2>2
<1> QED  BY <1>1, <1>2 DEF Slots

LEMMA SameSequence ==
    ASSUME NEW S, NEW s \in Seq(S), NEW t \in Seq(S), Len(s) = Len(t),
           \A i \in 1..Len(s) : s[i] = t[i]
    PROVE  s = t
BY DOMAIN s = 1..Len(s), DOMAIN t = 1..Len(t)

\* Indexes go round once at most.
LEMMA Wrap ==
    ASSUME NEW N \in Nat \ {0}, NEW x \in Nat
    PROVE  /\ x < N => x % N = x
           /\ x >= N /\ x < 2 * N => x % N = x - N
  BY Z3

LEMMA NextIndex ==
    ASSUME NEW x \in Slots
    PROVE  Next1(x) \in Slots /\ Next1(x) = IF x = N_datagram - 1 THEN 0 ELSE x + 1
<1>1. x \in Nat /\ x + 1 \in Nat /\ N_datagram \in Nat \ {0} /\ x + 1 <= N_datagram
  BY Constants
<1>2. CASE x + 1 < N_datagram
  <2>1. Next1(x) = x + 1
    BY <1>1, <1>2, Wrap DEF Next1
  <2>2. x + 1 \in Slots /\ x # N_datagram - 1
    BY <1>1, <1>2 DEF Slots
  <2> QED  BY <2>1, <2>2
<1>3. CASE x + 1 = N_datagram
  <2>1. x + 1 >= N_datagram /\ x + 1 < 2 * N_datagram
    BY <1>1, <1>3
  <2>2. Next1(x) = x + 1 - N_datagram
    BY <1>1, <2>1, Wrap, SMTT(60) DEF Next1
  <2>3. x + 1 - N_datagram = 0 /\ x = N_datagram - 1
    BY <1>1, <1>3
  <2> QED  BY <2>2, <2>3, Constants
<1>4. x + 1 < N_datagram \/ x + 1 = N_datagram
  BY <1>1
<1> QED  BY <1>2, <1>3, <1>4

\* A slot is never used, and the others are free or used.
LEMMA Used ==
    ASSUME NEW q \in Queue
    PROVE  /\ get_used(q) \in Nat /\ get_used(q) <= N_datagram - 1
           /\ get_free(q) = N_datagram - 1 - get_used(q)
           /\ q.w_idx \in Nat /\ q.r_idx \in Nat
<1>1. /\ q.w_idx \in Nat /\ q.w_idx < N_datagram /\ q.r_idx \in Nat /\ q.r_idx < N_datagram
      /\ N_datagram \in Nat
  BY Constants DEF Queue
<1> QED  BY <1>1 DEF get_used, get_free

\* Where datagram i, counted from the oldest, is.
At(q, i) == (q.r_idx + i - 1) % N_datagram

LEMMA Position ==
    ASSUME NEW q \in Queue, NEW i \in 1..N_datagram
    PROVE  /\ At(q, i) \in Slots
           /\ At(q, i) = IF q.r_idx + i - 1 < N_datagram THEN q.r_idx + i - 1
                                                       ELSE q.r_idx + i - 1 - N_datagram
<1>1. /\ q.r_idx \in Nat /\ q.r_idx < N_datagram /\ N_datagram \in Nat \ {0}
      /\ i \in Nat /\ i >= 1 /\ i <= N_datagram
  BY Constants DEF Queue
<1> DEFINE x == q.r_idx + i - 1
<1>2. x \in Nat /\ x < 2 * N_datagram /\ x = q.r_idx + i - 1
  BY <1>1
<1>3. At(q, i) = x % N_datagram
  BY DEF At
<1> HIDE DEF x
<1>4. At(q, i) = IF x < N_datagram THEN x ELSE x - N_datagram
  BY <1>1, <1>2, <1>3, Wrap
<1>5. At(q, i) \in Nat /\ At(q, i) < N_datagram
  BY <1>1, <1>2, <1>4
<1>6. At(q, i) \in Slots
  BY <1>5, Constants
<1>7. x = q.r_idx + i - 1
  BY <1>2
<1> QED  BY <1>1, <1>4, <1>6, <1>7

LEMMA ContentType ==
    ASSUME NEW q \in Queue
    PROVE  /\ Content(q) \in Seq(Nat) /\ Len(Content(q)) = get_used(q)
           /\ \A i \in 1..get_used(q) : Content(q)[i] = q.vec[At(q, i)]
<1>1. get_used(q) \in Nat /\ get_used(q) <= N_datagram
  BY Used, Constants
<1>2. \A i \in 1..get_used(q) : i \in 1..N_datagram
  BY <1>1, Constants
<1>3. \A i \in 1..get_used(q) : q.vec[At(q, i)] \in Nat
  BY <1>2, Position DEF Queue
<1>4. Content(q) = [i \in 1..get_used(q) |-> q.vec[At(q, i)]]
  BY DEF Content, At
<1> QED  BY <1>1, <1>3, <1>4

\* write_nto() appends.
LEMMA WriteAppends ==
    ASSUME NEW q \in Queue, NEW d \in Nat, get_free(q) > 0
    PROVE  write(q, d) \in Queue /\ Content(write(q, d)) = Append(Content(q), d)
<1> DEFINE p == write(q, d)
           used == get_used(q)
<1>1. /\ q.w_idx \in Slots /\ q.r_idx \in Slots /\ Next1(q.w_idx) \in Slots
      /\ Next1(q.w_idx) = IF q.w_idx = N_datagram - 1 THEN 0 ELSE q.w_idx + 1
  BY NextIndex DEF Queue
<1>2. /\ p.vec = [q.vec EXCEPT ![q.w_idx] = d] /\ p.r_idx = q.r_idx
      /\ p.w_idx = Next1(q.w_idx) /\ p \in Queue
  BY <1>1 DEF write, Queue
<1>3. /\ used \in Nat /\ used + 1 <= N_datagram - 1 /\ N_datagram \in Nat
      /\ q.w_idx \in Nat /\ q.r_idx \in Nat /\ q.w_idx < N_datagram /\ q.r_idx < N_datagram
      /\ used = IF q.w_idx >= q.r_idx THEN q.w_idx - q.r_idx ELSE q.w_idx + N_datagram - q.r_idx
  BY <1>1, Used, Constants DEF get_used
<1> HIDE DEF p, used
<1>4. get_used(p) = used + 1
  BY <1>1, <1>2, <1>3 DEF get_used
<1>5. ASSUME NEW i \in 1..(used + 1)
      PROVE  Content(p)[i] = IF i = used + 1 THEN d ELSE Content(q)[i]
  <2>1. i \in 1..N_datagram /\ i \in Int /\ i >= 1 /\ i <= used + 1
    BY <1>3
  <2>2. PICK s \in Slots : s = At(q, i)
    BY <2>1, Position
  <2>3. s = q.w_idx <=> i = used + 1
    <3>1. s = IF q.r_idx + i - 1 < N_datagram THEN q.r_idx + i - 1 ELSE q.r_idx + i - 1 - N_datagram
      BY <2>1, <2>2, Position
    <3> QED  BY <3>1, <2>1, <1>3
  <2>4. Content(p)[i] = p.vec[s]
    <3>1. At(p, i) = s
      BY <1>2, <2>2 DEF At
    <3> QED  BY <1>2, <1>4, <3>1, ContentType
  <2>5. p.vec[s] = IF s = q.w_idx THEN d ELSE q.vec[s]
    BY <1>2 DEF Queue
  <2>6. i # used + 1 => Content(q)[i] = q.vec[s]
    <3>1. i # used + 1 => i \in 1..get_used(q)
      BY <1>3, <2>1 DEF used
    <3> QED  BY <3>1, <2>2, ContentType
  <2> QED  BY <2>3, <2>4, <2>5, <2>6
<1>6. /\ Content(p) \in Seq(Nat) /\ Len(Content(p)) = used + 1
      /\ Content(q) \in Seq(Nat) /\ Len(Content(q)) = used
  BY <1>2, <1>4, ContentType DEF used
<1>7. Content(p) = Append(Content(q), d)
  <2> DEFINE s == Append(Content(q), d)
  <2>1. /\ s \in Seq(Nat) /\ Len(s) = used + 1
        /\ \A i \in 1..(used + 1) : s[i] = IF i = used + 1 THEN d ELSE Content(q)[i]
    <3>1. PICK t \in Seq(Nat) : t = Content(q) /\ Len(t) = used
      BY <1>6
    <3>2. s = Append(t, d)
      BY <3>1
    <3> HIDE DEF s
    <3>3. /\ Append(t, d) \in Seq(Nat) /\ Len(Append(t, d)) = Len(t) + 1
          /\ \A i \in 1..Len(t) : Append(t, d)[i] = t[i]
          /\ Append(t, d)[Len(t) + 1] = d
      BY <3>1
    <3> QED  BY <1>3, <3>1, <3>2, <3>3, SMTT(60)
  <2> HIDE DEF s
  <2>2. \A i \in 1..(used + 1) : Content(p)[i] = s[i]
    BY <1>5, <2>1
  <2>3. Content(p) = s
    BY <1>6, <2>1, <2>2, SameSequence
  <2> QED  BY <2>3 DEF s
<1> QED  BY <1>2, <1>7 DEF p

\* read_nto() returns the oldest datagram and removes it.
LEMMA PopRemoves ==
    ASSUME NEW q \in Queue, get_used(q) > 0
    PROVE  /\ pop(q) \in Queue /\ oldest(q) \in Nat
           /\ Content(q) = <<oldest(q)>> \o Content(pop(q))
           /\ Content(pop(q)) = Tail(Content(q))
<1> DEFINE p == pop(q)
           used == get_used(q)
<1>1. /\ q.w_idx \in Slots /\ q.r_idx \in Slots /\ Next1(q.r_idx) \in Slots
      /\ Next1(q.r_idx) = IF q.r_idx = N_datagram - 1 THEN 0 ELSE q.r_idx + 1
  BY NextIndex DEF Queue
<1>2. p.vec = q.vec /\ p.r_idx = Next1(q.r_idx) /\ p.w_idx = q.w_idx /\ p \in Queue
  BY <1>1 DEF pop, Queue
<1>3. /\ used \in Nat /\ used > 0 /\ used <= N_datagram - 1 /\ N_datagram \in Nat
      /\ q.w_idx \in Nat /\ q.r_idx \in Nat /\ q.w_idx < N_datagram /\ q.r_idx < N_datagram
      /\ used = IF q.w_idx >= q.r_idx THEN q.w_idx - q.r_idx ELSE q.w_idx + N_datagram - q.r_idx
  BY <1>1, Used, Constants DEF get_used
<1> HIDE DEF p, used
<1>4. get_used(p) = used - 1
  BY <1>1, <1>2, <1>3 DEF get_used
<1>5. ASSUME NEW i \in 1..(used - 1)
      PROVE  Content(p)[i] = Content(q)[i + 1]
  <2>1. i \in 1..N_datagram /\ i + 1 \in 1..N_datagram /\ i + 1 \in 1..used /\ i \in Nat /\ i >= 1
    BY <1>3
  <2>2. At(p, i) = At(q, i + 1)
    <3>1. At(p, i) = IF p.r_idx + i - 1 < N_datagram THEN p.r_idx + i - 1 ELSE p.r_idx + i - 1 - N_datagram
      BY <1>2, <2>1, Position
    <3>2. At(q, i + 1) = IF q.r_idx + (i + 1) - 1 < N_datagram THEN q.r_idx + (i + 1) - 1
                                                             ELSE q.r_idx + (i + 1) - 1 - N_datagram
      BY <2>1, Position
    <3>3. i + 1 <= used
      BY <2>1, <1>3
    <3> QED  BY <3>1, <3>2, <3>3, <1>1, <1>2, <1>3, <2>1
  <2>3. Content(p)[i] = p.vec[At(p, i)]
    BY <1>2, <1>4, ContentType
  <2>4. Content(q)[i + 1] = q.vec[At(q, i + 1)]
    BY <2>1, ContentType DEF used
  <2> QED  BY <1>2, <2>2, <2>3, <2>4
<1>6. oldest(q) = Content(q)[1] /\ oldest(q) \in Nat
  <2>1. 1 \in 1..N_datagram /\ 1 \in 1..used
    BY <1>3
  <2>2. At(q, 1) = q.r_idx
    BY <2>1, <1>3, Position
  <2>3. Content(q)[1] = q.vec[At(q, 1)]
    BY <2>1, ContentType DEF used
  <2> QED  BY <1>1, <2>2, <2>3 DEF oldest, Queue
<1>7. /\ Content(p) \in Seq(Nat) /\ Len(Content(p)) = used - 1
      /\ Content(q) \in Seq(Nat) /\ Len(Content(q)) = used
  BY <1>2, <1>4, ContentType DEF used
<1>8. Content(q) = <<oldest(q)>> \o Content(p)
  <2>1. \A i \in 1..used : i # 1 => i - 1 \in 1..(used - 1)
    BY <1>3
  <2>2. \A i \in 1..used : i # 1 => Content(q)[i] = Content(p)[i - 1]
    <3> TAKE i \in 1..used
    <3>1. i # 1 => Content(p)[i - 1] = Content(q)[(i - 1) + 1]
      BY <2>1, <1>5
    <3> QED  BY <3>1, <1>3
  <2> DEFINE s == <<oldest(q)>> \o Content(p)
  <2>3. s \in Seq(Nat) /\ Len(s) = used /\ s[1] = oldest(q)
        /\ \A i \in 1..used : i # 1 => s[i] = Content(p)[i - 1]
    BY <1>3, <1>6, <1>7
  <2> HIDE DEF s
  <2>4. \A i \in 1..used : Content(q)[i] = s[i]
    BY <1>6, <2>2, <2>3
  <2>5. Content(q) = s
    BY <1>7, <2>3, <2>4, SameSequence
  <2> QED  BY <2>5 DEF s
<1>9. Content(p) = Tail(Content(q))
  <2> DEFINE s == Tail(Content(q))
  <2>1. /\ s \in Seq(Nat) /\ Len(s) = used - 1
        /\ \A i \in 1..(used - 1) : s[i] = Content(q)[i + 1]
    BY <1>3, <1>7
  <2> HIDE DEF s
  <2>2. Content(p) = s
    BY <1>5, <1>7, <2>1, SameSequence
  <2> QED  BY <2>2 DEF s
<1> QED  BY <1>2, <1>6, <1>8, <1>9 DEF p

\* get_queue_level_nto() looks at the oldest datagrams.
LEMMA LevelsArePrefix ==
    ASSUME NEW q \in Queue, NEW n \in Nat
    PROVE  get_queue_level(q, n) \in Seq(Nat) /\ IsPrefix(get_queue_level(q, n), Content(q))
<1> DEFINE k == IF n < get_used(q) THEN n ELSE get_used(q)
           l == get_queue_level(q, n)
<1>1. get_used(q) \in Nat /\ k \in Nat /\ k <= get_used(q)
  BY Used
<1>2. l = [i \in 1..k |-> q.vec[At(q, i)]]
  BY DEF get_queue_level, At
<1> HIDE DEF l, k
<1>3. /\ Content(q) \in Seq(Nat) /\ Len(Content(q)) = get_used(q)
      /\ \A i \in 1..get_used(q) : Content(q)[i] = q.vec[At(q, i)]
  BY ContentType
<1>4. \A i \in 1..k : l[i] = Content(q)[i] /\ l[i] \in Nat
  BY <1>1, <1>2, <1>3
<1>5. l \in Seq(Nat) /\ Len(l) = k
  BY <1>1, <1>2, <1>4
<1>6. IsPrefix(l, Content(q))
  BY <1>1, <1>3, <1>4, <1>5 DEF IsPrefix
<1> QED  BY <1>5, <1>6 DEF l

LEMMA EmptyContent == EmptyQueue \in Queue /\ Content(EmptyQueue) = <<>>
<1>1. EmptyQueue \in Queue /\ get_used(EmptyQueue) = 0
  BY Constants DEF EmptyQueue, Queue, get_used
<1>2. Content(EmptyQueue) \in Seq(Nat) /\ Len(Content(EmptyQueue)) = 0
  BY <1>1, ContentType
<1> QED  BY <1>1, <1>2

--------------------------------------------------------------------------------
(* Sequences *)

LEMMA AppendToConcat ==
    ASSUME NEW s \in Seq(Nat), NEW t \in Seq(Nat), NEW d \in Nat
    PROVE  Append(s \o t, d) = s \o Append(t, d)
<1> DEFINE u == Append(s \o t, d)
           v == s \o Append(t, d)
<1>1. /\ u \in Seq(Nat) /\ v \in Seq(Nat) /\ Len(u) = Len(s) + Len(t) + 1 /\ Len(v) = Len(u)
      /\ Len(s) \in Nat /\ Len(t) \in Nat
  OBVIOUS
<1>2. \A i \in 1..Len(u) : u[i] = v[i]
  BY <1>1
<1> HIDE DEF u, v
<1>3. u = v
  BY <1>1, <1>2, SameSequence
<1> QED  BY <1>3 DEF u, v

LEMMA ConcatHead ==
    ASSUME NEW s \in Seq(Nat), NEW t \in Seq(Nat), NEW d \in Nat
    PROVE  s \o (<<d>> \o t) = Append(s, d) \o t
<1> DEFINE u == s \o (<<d>> \o t)
           v == Append(s, d) \o t
<1>1. /\ u \in Seq(Nat) /\ v \in Seq(Nat) /\ Len(u) = Len(s) + 1 + Len(t) /\ Len(v) = Len(u)
      /\ Len(s) \in Nat /\ Len(t) \in Nat
  OBVIOUS
<1>2. \A i \in 1..Len(u) : u[i] = v[i]
  BY <1>1
<1> HIDE DEF u, v
<1>3. u = v
  BY <1>1, <1>2, SameSequence
<1> QED  BY <1>3 DEF u, v

LEMMA PrefixMeans ==
    ASSUME NEW s \in Seq(Nat), NEW t \in Seq(Nat)
    PROVE  IsPrefix(s, t) <=> Len(s) <= Len(t) /\ \A i \in 1..Len(s) : s[i] = t[i]
<1>1. Len(s) \in Nat /\ Len(t) \in Nat
  OBVIOUS
<1>2. SubSeq(s, 1, Len(s)) = s
  OBVIOUS
<1>3. ASSUME Len(s) <= Len(t)
      PROVE  SubSeq(t, 1, Len(s)) = s <=> \A i \in 1..Len(s) : s[i] = t[i]
  <2> DEFINE u == SubSeq(t, 1, Len(s))
  <2>1. u \in Seq(Nat) /\ Len(u) = Len(s) /\ \A i \in 1..Len(s) : u[i] = t[i]
    BY <1>1, <1>3
  <2> HIDE DEF u
  <2>2. u = s <=> \A i \in 1..Len(s) : s[i] = t[i]
    BY <2>1, SameSequence
  <2> QED  BY <2>2 DEF u
<1> QED  BY <1>2, <1>3 DEF IsPrefix

LEMMA PrefixOfAppend ==
    ASSUME NEW s \in Seq(Nat), NEW t \in Seq(Nat), NEW d \in Nat, IsPrefix(s, t)
    PROVE  IsPrefix(s, Append(t, d))
<1>1. Len(s) \in Nat /\ Len(t) \in Nat /\ Len(s) <= Len(t) /\ \A i \in 1..Len(s) : s[i] = t[i]
  BY PrefixMeans
<1>2. /\ Append(t, d) \in Seq(Nat) /\ Len(Append(t, d)) = Len(t) + 1
      /\ \A i \in 1..Len(t) : Append(t, d)[i] = t[i]
  OBVIOUS
<1>3. \A i \in 1..Len(s) : s[i] = Append(t, d)[i]
  BY <1>1, <1>2
<1>4. Len(s) <= Len(Append(t, d))
  BY <1>1, <1>2
<1> QED  BY <1>2, <1>3, <1>4, PrefixMeans

LEMMA PrefixOfTail ==
    ASSUME NEW s \in Seq(Nat), NEW t \in Seq(Nat), s # <<>>, IsPrefix(s, t)
    PROVE  Tail(s) \in Seq(Nat) /\ IsPrefix(Tail(s), Tail(t))
<1>1. /\ Len(s) \in Nat /\ Len(t) \in Nat /\ Len(s) <= Len(t) /\ Len(s) > 0
      /\ \A i \in 1..Len(s) : s[i] = t[i]
  BY PrefixMeans
<1>2. /\ Tail(s) \in Seq(Nat) /\ Len(Tail(s)) = Len(s) - 1
      /\ \A i \in 1..(Len(s) - 1) : Tail(s)[i] = s[i + 1]
  BY <1>1
<1>3. /\ Tail(t) \in Seq(Nat) /\ Len(Tail(t)) = Len(t) - 1
      /\ \A i \in 1..(Len(t) - 1) : Tail(t)[i] = t[i + 1]
  BY <1>1
<1>4. \A i \in 1..Len(Tail(s)) : Tail(s)[i] = Tail(t)[i]
  BY <1>1, <1>2, <1>3
<1>5. Len(Tail(s)) <= Len(Tail(t))
  BY <1>1, <1>2, <1>3
<1>6. IsPrefix(Tail(s), Tail(t))
  BY <1>2, <1>3, <1>4, <1>5, PrefixMeans
<1> QED  BY <1>2, <1>6

--------------------------------------------------------------------------------
(* The connection that is served next *)

LEMMA LeastExists ==
    ASSUME NEW S, S \subseteq Nat, S # {}
    PROVE  \E c \in S : \A o \in S : c <= o
<1> DEFINE Less == {ss \in Nat \X Nat : ss[1] < ss[2]}
<1>1. IsWellFoundedOn(Less, Nat)
  BY NatLessThanWellFounded DEF OpToRel
<1>2. \A x, y \in Nat : <<y, x>> \in Less <=> y < x
  OBVIOUS
<1> HIDE DEF Less
<1>3. PICK c \in S : \A o \in S : ~(<<o, c>> \in Less)
  BY <1>1, WFMin
<1>4. ASSUME NEW o \in S PROVE c <= o
  <2>1. c \in Nat /\ o \in Nat
    OBVIOUS
  <2>2. ~(o < c)
    BY <1>2, <1>3, <2>1
  <2> QED  BY <2>1, <2>2
<1> QED  BY <1>4

LEMMA FirstIsReady ==
    ASSUME NEW ready, ready \subseteq ServerConns, ready # {}
    PROVE  First(ready) \in ready /\ First(ready) \in ServerConns
<1>1. \E c \in ready : \A o \in ready : c <= o
  BY LeastExists, Constants
<1> QED  BY <1>1 DEF First

--------------------------------------------------------------------------------
(* The steps *)

LEMMA InitQueues == Init => QueuesInv
<1> SUFFICES ASSUME Init PROVE QueuesInv
  OBVIOUS
<1> USE DEF Init
<1>1. QueueTypes
  BY EmptyContent DEF QueueTypes
<1>2. ServerInv
  BY DEF ServerInv
<1>3. FirmwareInv
  BY DEF FirmwareInv
<1>4. InOrder
  <2>1. <<>> = <<>> \o Content(EmptyQueue)
    BY EmptyContent
  <2> QED  BY <2>1 DEF InOrder
<1>5. LevelsMatch
  BY DEF LevelsMatch
<1> QED  BY <1>1, <1>2, <1>3, <1>4, <1>5 DEF QueuesInv

\* application_server_t::work_sc()
LEMMA ServerKeeps ==
    ASSUME QueuesInv, ServerStep
    PROVE  QueuesInv'
<1> USE DEF QueuesInv
<1>1. CASE ServerPoll
  <2>1. ServerInv'
    BY <1>1 DEF ServerPoll, ServerInv
  <2> QED  BY <1>1, <2>1 DEF ServerPoll, QueueTypes, FirmwareInv, InOrder, LevelsMatch
<1>2. ASSUME NEW s \in [pc : {"poll", "read", "enqueue", "joined"}, keep : BOOLEAN,
                        ready : SUBSET ServerConns, offered : [ServerConns -> Nat]],
             s.ready # {}, server' = AfterRead(s)
      PROVE  ServerInv'
  <2>1. PICK c \in s.ready : c = First(s.ready)
    BY <1>2, FirstIsReady
  <2>2. PICK p \in {"poll", "read"} : p = IF s.ready = {c} THEN "poll" ELSE "read"
    OBVIOUS
  <2>3. server' = [pc |-> p, keep |-> s.keep, ready |-> s.ready \ {c}, offered |-> s.offered]
    BY <1>2, <2>1, <2>2 DEF AfterRead
  <2>4. p = "read" => s.ready \ {c} # {}
    BY <2>1, <2>2
  <2> QED  BY <1>2, <2>3, <2>4 DEF ServerInv
<1>3. CASE ServerEnqueue
  <2>1. server.ready # {} /\ server.ready \subseteq ServerConns
    BY <1>3 DEF ServerEnqueue, ServerInv
  <2>2. First(server.ready) \in ServerConns
    BY <2>1, FirstIsReady
  <2>3. ServerInv'
    BY <1>2, <1>3, <2>1 DEF ServerEnqueue, ServerInv
  <2>4. jobs' \in Seq(ServerConns)
    BY <1>3, <2>2 DEF ServerEnqueue, FirmwareInv
  <2> QED  BY <1>3, <2>3, <2>4 DEF ServerEnqueue, QueueTypes, FirmwareInv, InOrder, LevelsMatch
<1>4. CASE ServerRead
  <2>1. server.ready # {} /\ server.ready \subseteq ServerConns
    BY <1>4 DEF ServerRead, ServerInv
  <2>2. PICK c \in ServerConns : c = First(server.ready)
    BY <2>1, FirstIsReady
  <2>3. PICK d \in Nat : d = server.offered[c] + 1
    BY <2>2 DEF ServerInv
  <2>4. PICK s : s = [server EXCEPT !.offered[c] = d]
    OBVIOUS
  <2>5. /\ s \in [pc : {"poll", "read", "enqueue", "joined"}, keep : BOOLEAN,
                  ready : SUBSET ServerConns, offered : [ServerConns -> Nat]]
        /\ s.ready # {}
    BY <2>1, <2>4 DEF ServerInv
  <2>6. UNCHANGED <<cqueue, egress, read, forwarded, jobs, fw>>
    BY <1>4 DEF ServerRead
  <2>7. CASE server' = AfterRead(s) /\ UNCHANGED <<squeue, ingress>>
    <3>1. ServerInv'
      BY <1>2, <2>5, <2>7
    <3> QED  BY <2>6, <2>7, <3>1 DEF QueueTypes, FirmwareInv, InOrder, LevelsMatch
  <2>8. CASE /\ get_free(squeue[c]) > 0
             /\ squeue' = [squeue EXCEPT ![c] = write(@, d)]
             /\ ingress' = [ingress EXCEPT ![c] = Append(@, d)]
             /\ server' = [s EXCEPT !.pc = "enqueue"]
    <3>1. ServerInv'
      BY <2>5, <2>8 DEF ServerInv
    <3>2. squeue[c] \in Queue /\ ingress[c] \in Seq(Nat) /\ read[c] \in Seq(Nat)
      BY DEF QueueTypes
    <3>3. PICK q \in Queue : q = write(squeue[c], d) /\ Content(q) = Append(Content(squeue[c]), d)
      BY <2>8, <3>2, WriteAppends
    <3>4. squeue'[c] = q /\ \A o \in ServerConns : o # c => squeue'[o] = squeue[o] /\ ingress'[o] = ingress[o]
      BY <2>8, <3>3 DEF QueueTypes
    <3>5. ingress'[c] = Append(ingress[c], d)
      BY <2>8 DEF QueueTypes
    <3>6. QueueTypes'
      <4>1. squeue' \in [ServerConns -> Queue]
        BY <2>8, <3>3 DEF QueueTypes
      <4>2. ingress' \in [ServerConns -> Seq(Nat)]
        BY <2>8, <3>2 DEF QueueTypes
      <4> QED  BY <2>6, <4>1, <4>2 DEF QueueTypes
    <3>7. InOrder'
      <4>1. ingress'[c] = read[c] \o Content(q)
        <5>1. ingress[c] = read[c] \o Content(squeue[c]) /\ Content(squeue[c]) \in Seq(Nat)
          BY <3>2, ContentType DEF InOrder
        <5> QED  BY <3>2, <3>3, <3>5, <5>1, AppendToConcat, ZenonT(60)
      <4>2. \A o \in ServerConns : ingress'[o] = read'[o] \o Content(squeue'[o])
        BY <2>6, <3>4, <4>1 DEF InOrder
      <4> QED  BY <2>6, <4>2 DEF InOrder
    <3>8. LevelsMatch'
      <4>1. CASE fw.pc = "read" /\ fw.conn = c
        <5>1. IsPrefix(fw.levels, Content(squeue[c])) /\ fw.levels \in Seq(Nat)
          BY <4>1 DEF LevelsMatch, FirmwareInv
        <5>2. IsPrefix(fw.levels, Content(q))
          BY <3>2, <3>3, <5>1, ContentType, PrefixOfAppend
        <5>3. IsPrefix(fw'.levels, Content(squeue'[fw'.conn]))
          BY <2>6, <3>4, <4>1, <5>2
        <5> QED  BY <5>3 DEF LevelsMatch
      <4>2. CASE fw.pc = "read" /\ fw.conn # c
        <5>1. squeue'[fw.conn] = squeue[fw.conn]
          BY <3>4, <4>2 DEF FirmwareInv
        <5> QED  BY <2>6, <5>1 DEF LevelsMatch
      <4>3. CASE fw.pc # "read"
        BY <2>6, <4>3 DEF LevelsMatch
      <4> QED  BY <4>1, <4>2, <4>3
    <3> QED  BY <2>6, <3>1, <3>6, <3>7, <3>8 DEF FirmwareInv
  <2> QED  BY <1>4, <2>2, <2>3, <2>4, <2>7, <2>8 DEF ServerRead
<1> QED  BY <1>1, <1>3, <1>4 DEF ServerStep

\* Outside of work_application() the levels do not matter.
LEMMA CallTypes ==
    ASSUME FirmwareInv, jobs' = jobs,
           NEW p \in {"idle", "write"}, NEW c \in Int, NEW l \in Seq(Nat), NEW n \in Int, NEW k \in Int,
           fw' = [pc |-> p, conn |-> c, levels |-> l, cnt |-> n, left |-> k],
           p = "write" => c \in ClientConns
    PROVE  FirmwareInv' /\ fw'.pc = p
BY DEF FirmwareInv

LEMMA CallFields ==
    ASSUME FirmwareInv
    PROVE  /\ fw.conn \in Int /\ fw.levels \in Seq(Nat) /\ fw.cnt \in Int /\ fw.left \in Int
           /\ fw = [pc |-> fw.pc, conn |-> fw.conn, levels |-> fw.levels, cnt |-> fw.cnt, left |-> fw.left]
BY DEF FirmwareInv

\* The work functions of the firmware
LEMMA FirmwareKeeps ==
    ASSUME QueuesInv, FirmwareStep \/ WorkPdc
    PROVE  QueuesInv'
<1> USE DEF QueuesInv
<1>0. UNCHANGED server
  BY Zenon DEF FirmwareStep, WorkApplication, ReadDatagram, ReturnApplication, WriteDatagram,
               TriggerForward, WorkPdc
<1>t. /\ fw.conn \in Int /\ fw.levels \in Seq(Nat) /\ fw.cnt \in Int /\ fw.left \in Int
      /\ fw.cnt + 1 \in Int /\ fw.left - 1 \in Int /\ <<>> \in Seq(Nat) /\ FirmwareInv
      /\ fw = [pc |-> fw.pc, conn |-> fw.conn, levels |-> fw.levels, cnt |-> fw.cnt, left |-> fw.left]
  BY CallFields
<1>1. CASE WorkApplication
  <2>1. /\ fw.pc = "idle" /\ jobs # <<>> /\ jobs' = Tail(jobs)
        /\ fw' = [fw EXCEPT !.pc = "read", !.conn = Head(jobs),
                            !.levels = get_queue_level(squeue[Head(jobs)], NofLevels)]
        /\ UNCHANGED <<squeue, cqueue, ingress, egress, read, forwarded>>
    BY <1>1 DEF WorkApplication
  <2>2. PICK c \in ServerConns : c = Head(jobs) /\ jobs' \in Seq(ServerConns)
    BY <2>1 DEF FirmwareInv
  <2>3. squeue[c] \in Queue
    BY DEF QueueTypes
  <2>4. PICK l \in Seq(Nat) : /\ l = get_queue_level(squeue[c], NofLevels)
                              /\ IsPrefix(l, Content(squeue[c]))
    BY <2>3, LevelsArePrefix, Constants
  <2>5. fw' = [fw EXCEPT !.pc = "read", !.conn = c, !.levels = l]
    BY <2>1, <2>2, <2>4
  <2>6. c \in Int
    BY Constants
  <2>7. fw'.pc = "read" /\ fw'.conn = c /\ fw'.levels = l
    BY <2>5 DEF FirmwareInv
  <2>8. FirmwareInv'
    BY <2>2, <2>5, <2>6, <2>7 DEF FirmwareInv
  <2>9. LevelsMatch'
    BY <2>1, <2>4, <2>7 DEF LevelsMatch
  <2> QED  BY <1>0, <2>1, <2>8, <2>9 DEF QueueTypes, ServerInv, InOrder
<1>2. CASE ReadDatagram
  <2>1. /\ fw.pc = "read" /\ fw.levels # <<>> /\ fw.conn \in ServerConns
        /\ UNCHANGED <<cqueue, ingress, egress, forwarded, jobs>>
        /\ fw' = [fw EXCEPT !.levels = Tail(@)]
    BY <1>2 DEF ReadDatagram, FirmwareInv
  <2>2. PICK c \in ServerConns : c = fw.conn
    BY <2>1
  <2>3. /\ get_used(squeue[c]) > 0
        /\ read' = [read EXCEPT ![c] = Append(@, oldest(squeue[c]))]
        /\ squeue' = [squeue EXCEPT ![c] = pop(@)]
    BY <1>2, <2>2 DEF ReadDatagram
  <2>4. squeue[c] \in Queue /\ ingress[c] \in Seq(Nat) /\ read[c] \in Seq(Nat)
    BY DEF QueueTypes
  <2>5. PICK q \in Queue, d \in Nat :
           /\ q = pop(squeue[c]) /\ d = oldest(squeue[c])
           /\ Content(squeue[c]) = <<d>> \o Content(q)
           /\ Content(q) = Tail(Content(squeue[c]))
    BY <2>3, <2>4, PopRemoves
  <2>6. /\ squeue'[c] = q /\ read'[c] = Append(read[c], d)
        /\ \A o \in ServerConns : o # c => squeue'[o] = squeue[o] /\ read'[o] = read[o]
    BY <2>3, <2>5 DEF QueueTypes
  <2>7. QueueTypes'
    <3>1. squeue' = [squeue EXCEPT ![c] = q] /\ read' = [read EXCEPT ![c] = Append(read[c], d)]
      BY <2>3, <2>5
    <3>2. Append(read[c], d) \in Seq(Nat)
      BY <2>4
    <3>3. squeue' \in [ServerConns -> Queue] /\ read' \in [ServerConns -> Seq(Nat)]
      BY <3>1, <3>2 DEF QueueTypes
    <3> QED  BY <2>1, <3>3 DEF QueueTypes
  <2>8. InOrder'
    <3>1. ingress[c] = read[c] \o (<<d>> \o Content(q)) /\ Content(q) \in Seq(Nat)
      BY <2>5, ContentType DEF InOrder
    <3>2. ingress'[c] = read'[c] \o Content(q)
      <4>1. PICK s \in Seq(Nat), t \in Seq(Nat) : s = read[c] /\ t = Content(q)
        BY <2>4, <3>1, Zenon
      <4>2. s \o (<<d>> \o t) = Append(s, d) \o t
        BY ConcatHead, Zenon
      <4> QED  BY <2>1, <2>6, <3>1, <4>1, <4>2, Zenon
    <3>3. \A o \in ServerConns : ingress'[o] = read'[o] \o Content(squeue'[o])
      BY <2>1, <2>6, <3>2 DEF InOrder
    <3> QED  BY <2>1, <3>3 DEF InOrder
  <2>9. FirmwareInv' /\ LevelsMatch'
    <3>1. IsPrefix(fw.levels, Content(squeue[c])) /\ fw.levels \in Seq(Nat)
      BY <2>1, <2>2 DEF LevelsMatch, FirmwareInv
    <3>2. PICK l \in Seq(Nat) : l = Tail(fw.levels) /\ IsPrefix(l, Content(q))
      BY <2>1, <2>4, <2>5, <3>1, ContentType, PrefixOfTail, ZenonT(60)
    <3>3. fw' = [fw EXCEPT !.levels = l]
      BY <2>1, <3>2
    <3>4. fw'.pc = "read" /\ fw'.conn = c /\ fw'.levels = l
      BY <2>1, <2>2, <3>3 DEF FirmwareInv
    <3>5. FirmwareInv'
      BY <2>1, <3>3, <3>4 DEF FirmwareInv
    <3>6. LevelsMatch'
      BY <2>6, <3>2, <3>4 DEF LevelsMatch
    <3> QED  BY <3>5, <3>6
  <2> QED  BY <1>0, <2>7, <2>8, <2>9 DEF ServerInv
<1>3. CASE ReturnApplication
  <2>1. /\ fw' = [fw EXCEPT !.pc = "idle", !.levels = <<>>]
        /\ UNCHANGED <<squeue, cqueue, ingress, egress, read, forwarded, jobs>>
    BY <1>3 DEF ReturnApplication
  <2>2. fw' = [pc |-> "idle", conn |-> fw.conn, levels |-> <<>>, cnt |-> fw.cnt, left |-> fw.left]
    BY <2>1, <1>t
  <2>3. FirmwareInv' /\ fw'.pc = "idle"
    <3>1. jobs' = jobs /\ "idle" \in {"idle", "write"} /\ "idle" # "write" /\ 0 \in Int
      BY <2>1
    <3> HIDE DEF QueuesInv
    <3> QED  BY <2>2, <3>1, <1>t, CallTypes
  <2> QED  BY <1>0, <2>1, <2>3 DEF QueueTypes, ServerInv, InOrder, LevelsMatch
<1>4. CASE WorkPdc
  <2>1. UNCHANGED <<squeue, cqueue, ingress, egress, read, forwarded, jobs>>
    BY <1>4 DEF WorkPdc
  <2>2. PICK c \in ClientConns, n \in Int : fw' = [fw EXCEPT !.pc = "write", !.conn = c, !.left = n, !.cnt = 0]
    <3>1. ASSUME NEW k PROVE 1..k \subseteq Int
      OBVIOUS
    <3>2. PICK c \in ClientConns : \E n \in 1..(MaxEgress - Total([e \in ClientConns |-> Len(egress[e])])) :
              fw' = [fw EXCEPT !.pc = "write", !.conn = c, !.left = n, !.cnt = 0]
      BY <1>4 DEF WorkPdc
    <3> QED  BY <3>1, <3>2
  <2>3. c \in Int
    BY Constants
  <2>5. fw' = [pc |-> "write", conn |-> c, levels |-> fw.levels, cnt |-> 0, left |-> n]
    BY <2>2, <1>t
  <2>4. FirmwareInv' /\ fw'.pc = "write"
    BY <2>1, <2>3, <2>5, <1>t, CallTypes
  <2> QED  BY <1>0, <2>1, <2>4 DEF QueueTypes, ServerInv, InOrder, LevelsMatch
<1>5. CASE WriteDatagram
  <2>1. fw.pc = "write" /\ fw.conn \in ClientConns /\ UNCHANGED <<squeue, ingress, read, forwarded, jobs>>
    BY <1>5 DEF WriteDatagram, FirmwareInv
  <2>2. PICK c \in ClientConns : c = fw.conn
    BY <2>1
  <2>3. cqueue[c] \in Queue /\ egress[c] \in Seq(Nat) /\ forwarded[c] \in Seq(Nat)
    BY DEF QueueTypes
  <2>4. PICK d \in Nat : d = Len(egress[c]) + 1
    BY <2>3
  <2>5. FirmwareInv' /\ fw'.pc = "write"
    <3>1. \/ fw' = [fw EXCEPT !.left = @ - 1, !.cnt = @ + 1]
          \/ fw' = [fw EXCEPT !.left = @ - 1]
      BY <1>5 DEF WriteDatagram
    <3>2. PICK n \in Int, k \in Int : fw' = [fw EXCEPT !.cnt = n, !.left = k]
      <4>1. fw.left - 1 \in Int /\ fw.cnt \in Int /\ fw.cnt + 1 \in Int
        BY <1>t
      <4>2. CASE fw' = [fw EXCEPT !.left = @ - 1, !.cnt = @ + 1]
        BY <4>1, <4>2
      <4>3. CASE fw' = [fw EXCEPT !.left = @ - 1]
        <5>1. fw' = [fw EXCEPT !.cnt = fw.cnt, !.left = fw.left - 1]
          BY <4>3, <1>t
        <5> QED  BY <4>1, <5>1
      <4> QED  BY <3>1, <4>2, <4>3
    <3>3. fw' = [pc |-> "write", conn |-> fw.conn, levels |-> fw.levels, cnt |-> n, left |-> k]
      BY <2>1, <3>2, <1>t
    <3> QED  BY <2>1, <3>3, <1>t, CallTypes
  <2>6. CASE UNCHANGED <<cqueue, egress>>
    BY <1>0, <2>1, <2>5, <2>6 DEF QueueTypes, ServerInv, InOrder, LevelsMatch
  <2>7. CASE /\ get_free(cqueue[c]) > 0
             /\ cqueue' = [cqueue EXCEPT ![c] = write(@, d)]
             /\ egress' = [egress EXCEPT ![c] = Append(@, d)]
    <3>1. PICK q \in Queue : q = write(cqueue[c], d) /\ Content(q) = Append(Content(cqueue[c]), d)
      BY <2>3, <2>7, WriteAppends
    <3>2. /\ cqueue'[c] = q /\ egress'[c] = Append(egress[c], d)
          /\ \A o \in ClientConns : o # c => cqueue'[o] = cqueue[o] /\ egress'[o] = egress[o]
      BY <2>7, <3>1 DEF QueueTypes
    <3>3. QueueTypes'
      <4>1. cqueue' \in [ClientConns -> Queue] /\ egress' \in [ClientConns -> Seq(Nat)]
        BY <2>3, <2>7, <3>1 DEF QueueTypes
      <4> QED  BY <2>1, <4>1 DEF QueueTypes
    <3>4. egress'[c] = forwarded[c] \o Content(q)
      <4>1. egress[c] = forwarded[c] \o Content(cqueue[c]) /\ Content(cqueue[c]) \in Seq(Nat)
        BY <2>3, ContentType DEF InOrder
      <4> QED  BY <2>3, <3>1, <3>2, <4>1, AppendToConcat, ZenonT(60)
    <3>5. \A o \in ClientConns : egress'[o] = forwarded'[o] \o Content(cqueue'[o])
      BY <2>1, <3>2, <3>4 DEF InOrder
    <3>6. InOrder'
      BY <2>1, <3>5 DEF InOrder
    <3> QED  BY <1>0, <2>5, <3>3, <3>6 DEF ServerInv, LevelsMatch
  <2> QED  BY <1>5, <2>2, <2>4, <2>6, <2>7 DEF WriteDatagram
<1>6. CASE TriggerForward
  <2>1. /\ fw' = [fw EXCEPT !.pc = "idle", !.cnt = 0]
        /\ UNCHANGED <<squeue, cqueue, ingress, egress, read, forwarded, jobs>>
    BY <1>6 DEF TriggerForward
  <2>2. fw' = [pc |-> "idle", conn |-> fw.conn, levels |-> fw.levels, cnt |-> 0, left |-> fw.left]
    BY <2>1, <1>t
  <2>3. FirmwareInv' /\ fw'.pc = "idle"
    <3>1. jobs' = jobs /\ "idle" \in {"idle", "write"} /\ "idle" # "write" /\ 0 \in Int
      BY <2>1
    <3> HIDE DEF QueuesInv
    <3> QED  BY <2>2, <3>1, <1>t, CallTypes
  <2> QED  BY <1>0, <2>1, <2>3 DEF QueueTypes, ServerInv, InOrder, LevelsMatch
<1> QED  BY <1>1, <1>2, <1>3, <1>4, <1>5, <1>6 DEF FirmwareStep

\* application_client_t::work_sc()
LEMMA ClientKeeps ==
    ASSUME QueuesInv, ClientStep \/ ClientTimeout
    PROVE  QueuesInv'
<1> USE DEF QueuesInv
<1>1. UNCHANGED <<squeue, ingress, egress, read, jobs, server, fw>>
  BY DEF ClientStep, ClientRunning, ClientWoken, ClientCheck, ClientForward, ClientRound,
         ClientTimeout
<1>2. CASE UNCHANGED <<cqueue, forwarded>>
  BY <1>1, <1>2 DEF QueueTypes, ServerInv, FirmwareInv, InOrder, LevelsMatch
<1>3. ASSUME NEW c \in ClientConns, get_used(cqueue[c]) > 0,
             forwarded' = [forwarded EXCEPT ![c] = Append(@, oldest(cqueue[c]))],
             cqueue' = [cqueue EXCEPT ![c] = pop(@)]
      PROVE  QueuesInv'
  <2>1. cqueue[c] \in Queue /\ egress[c] \in Seq(Nat) /\ forwarded[c] \in Seq(Nat)
    BY DEF QueueTypes
  <2>2. PICK q \in Queue, d \in Nat :
           /\ q = pop(cqueue[c]) /\ d = oldest(cqueue[c])
           /\ Content(cqueue[c]) = <<d>> \o Content(q)
    BY <1>3, <2>1, PopRemoves
  <2>3. /\ cqueue'[c] = q /\ forwarded'[c] = Append(forwarded[c], d)
        /\ \A o \in ClientConns : o # c => cqueue'[o] = cqueue[o] /\ forwarded'[o] = forwarded[o]
    BY <1>3, <2>2 DEF QueueTypes
  <2>4. QueueTypes'
    <3>1. cqueue' \in [ClientConns -> Queue] /\ forwarded' \in [ClientConns -> Seq(Nat)]
      BY <1>3, <2>1, <2>2 DEF QueueTypes
    <3> QED  BY <1>1, <3>1 DEF QueueTypes
  <2>5. InOrder'
    <3>1. egress[c] = forwarded[c] \o (<<d>> \o Content(q)) /\ Content(q) \in Seq(Nat)
      BY <2>2, ContentType DEF InOrder
    <3>c. forwarded[c] \o (<<d>> \o Content(q)) = Append(forwarded[c], d) \o Content(q)
      <4>1. forwarded[c] \in Seq(Nat) /\ Content(q) \in Seq(Nat) /\ d \in Nat
        BY <2>1, <2>2, <3>1
      <4> QED  BY <4>1, ConcatHead
    <3>2. egress'[c] = forwarded'[c] \o Content(q)
      <4>1. egress'[c] = Append(forwarded[c], d) \o Content(q)
        BY <1>1, <3>1, <3>c, Zenon
      <4> QED  BY <4>1, <2>3, Zenon
    <3>3. \A o \in ClientConns : egress'[o] = forwarded'[o] \o Content(cqueue'[o])
      BY <1>1, <2>3, <3>2 DEF InOrder
    <3> QED  BY <1>1, <3>3 DEF InOrder
  <2> QED  BY <1>1, <2>4, <2>5 DEF ServerInv, FirmwareInv, LevelsMatch
<1>4. CASE ClientForward
  BY <1>2, <1>3, <1>4 DEF ClientForward
<1>5. CASE ClientRunning \/ ClientWoken \/ ClientCheck \/ ClientRound \/ ClientTimeout
  BY <1>2, <1>5 DEF ClientRunning, ClientWoken, ClientCheck, ClientRound, ClientTimeout
<1> QED  BY <1>4, <1>5 DEF ClientStep

\* work_stop() only tells the threads to end.
LEMMA StopKeeps ==
    ASSUME QueuesInv, WorkStop
    PROVE  QueuesInv'
<1> USE DEF QueuesInv
<1>1. UNCHANGED <<squeue, cqueue, ingress, egress, read, forwarded, jobs, fw>>
  BY DEF WorkStop
<1>2. server' = server \/ server' = [server EXCEPT !.keep = FALSE]
  BY DEF WorkStop
<1>3. ServerInv'
  BY <1>2 DEF ServerInv
<1> QED  BY <1>1, <1>3 DEF QueueTypes, FirmwareInv, InOrder, LevelsMatch

LEMMA QueuesInvariant == Spec => []QueuesInv
<1>1. QueuesInv /\ [Next]_vars => QueuesInv'
  <2> SUFFICES ASSUME QueuesInv, [Next]_vars PROVE QueuesInv'
    OBVIOUS
  <2>1. CASE UNCHANGED vars
    BY <2>1 DEF vars, QueuesInv, QueueTypes, ServerInv, FirmwareInv, InOrder, LevelsMatch
  <2>2. CASE Terminated
    BY <2>1, <2>2 DEF Terminated
  <2>3. CASE ServerStep \/ FirmwareStep \/ WorkPdc \/ ClientStep \/ ClientTimeout \/ WorkStop
    BY <2>3, ServerKeeps, FirmwareKeeps, ClientKeeps, StopKeeps
  <2> QED  BY <2>1, <2>2, <2>3 DEF Next
<1> QED  BY InitQueues, <1>1, PTL DEF Spec

(* queue_t, application_server_t and application_client_t: on every connection
   datagrams are read in the order in which they were written, none twice and none
   left out, wherever the indexes are and whoever goes on at the same time. *)
THEOREM QueuesInOrder == Spec => []InOrder
<1>1. QueuesInv => InOrder
  BY DEF QueuesInv
<1> QED  BY <1>1, QueuesInvariant, PTL

(* worksub_tx_unicast_mac_sdu() packs datagrams by the levels it looked at before:
   they are those of the next datagrams, whatever the server has written since. *)
THEOREM LevelsStayTrue == Spec => []LevelsMatch
<1>1. QueuesInv => LevelsMatch
  BY DEF QueuesInv
<1> QED  BY <1>1, QueuesInvariant, PTL

================================================================================
