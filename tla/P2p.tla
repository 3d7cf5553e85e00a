---------------------------------- MODULE P2p ----------------------------------
(***************************************************************************)
(* The p2p firmware: one FT sends beacons and downlink packets, N_pt PTs   *)
(* follow its beacons and send uplink packets in their resources.  Every   *)
(* packet may be lost on its way to any receiver.  The firmware is called  *)
(* under the token, so each work function is one step; the packets it asks *)
(* for are generated later by a worker, which holds a HARQ process until   *)
(* then.                                                                   *)
(*                                                                         *)
(* All times are relative to the present: Tick() moves them one unit to    *)
(* the past.  Radios share one time base and the propagation takes no time.*)
(***************************************************************************)
EXTENDS Integers, Sequences, FiniteSets, SequencesExt, FiniteSetsExt

CONSTANTS N_pt,                 \* number of PTs
          BeaconPeriod, PrepareDuration, FirstBeacon,
          ValidAfterBeacon, ValidAfterNow, Turnaround,
          OffsetBeacon, Ul, Dl, N_resources,
          DissociationTime,
          max_simultaneous_tx_unicast,
          NofProcesses,         \* HARQ processes TX of a radio device
          N_TB,                 \* size of a transport block, less the headers
          Sizes,                \* sizes of the datagrams of the applications
          QueueLength,          \* datagrams in a queue of the server
          MaxDelay,             \* bound: delay of an irregular callback
          RxDelay               \* bound: delay of a received packet

Pts == 0..(N_pt - 1)
FT == N_pt
Devices == 0..N_pt

ASSUME P2pAssumption ==
    /\ N_pt \in Nat \ {0}
    /\ {BeaconPeriod, PrepareDuration, FirstBeacon, ValidAfterBeacon, ValidAfterNow, Turnaround,
        OffsetBeacon, Ul, Dl, N_resources, DissociationTime, MaxDelay} \subseteq Int
    /\ \A t \in {BeaconPeriod, ValidAfterBeacon, ValidAfterNow, Turnaround, OffsetBeacon, Ul, Dl,
                 N_resources, MaxDelay} : t > 0
    \* is_within_beacon_period()
    /\ OffsetBeacon + (Ul + Dl) * N_pt * N_resources <= BeaconPeriod
    /\ PrepareDuration >= MaxDelay + Turnaround /\ FirstBeacon >= PrepareDuration
    /\ ValidAfterBeacon >= BeaconPeriod
    /\ PrepareDuration <= ValidAfterNow /\ DissociationTime >= ValidAfterNow + BeaconPeriod
    /\ NofProcesses \in Nat /\ N_TB \in Nat /\ Sizes \subseteq Nat \ {0}
    /\ QueueLength \in Nat /\ RxDelay \in Nat /\ max_simultaneous_tx_unicast \in Nat

VARIABLES
    dev,     \* state machine, allocation and times of each radio device
    queue,   \* datagrams waiting in the application server of a device, per destination
    air,     \* packets asked for and on the air, per device, in the order of tx_order_id
    failed   \* an assertion failed

vars == <<dev, queue, air, failed>>

--------------------------------------------------------------------------------
(* Allocation of resources: allocation_pt_t *)

Max2(a, b) == IF a >= b THEN a ELSE b
Min2(a, b) == IF a <= b THEN a ELSE b

stride == (Ul + Dl) * N_pt
OffsetUl(p) == {OffsetBeacon + p * (Ul + Dl) + stride * i : i \in 0..(N_resources - 1)}
OffsetDl(p) == {o + Ul : o \in OffsetUl(p)}

None == -1

\* The first start of a resource within the limits.
FirstStart(offsets, known, earliest, latest) ==
    LET starts == {t \in Max2(earliest, known)..(latest - 1) :
                      \E o \in offsets : (t - known - o) % BeaconPeriod = 0}
    IN  IF starts = {} THEN None ELSE Min(starts)

Earliest(tx_earliest) == Max2(Turnaround, tx_earliest)

\* A plausible slip: the validity is counted from now only.
LatestUl_AfterNow(known) == ValidAfterNow

LatestUl(known) == Min2(known + ValidAfterBeacon, ValidAfterNow)

\* get_tx_opportunity() for the device record r.  Before the first beacon the FT
\* adds the period to the largest integer; the sum wraps to the past and no
\* opportunity is found.
TxOpportunity(r, d, p) ==
    IF d # FT THEN FirstStart(OffsetUl(p), r.known, Earliest(r.earliest), LatestUl(r.known))
    ELSE IF ~r.sent THEN None
    ELSE FirstStart(OffsetDl(p), r.known, Earliest(r.earliest), r.known + BeaconPeriod)

--------------------------------------------------------------------------------
(* Packets *)

Packet(start, len, receivers, data) ==
    [start |-> start, len |-> len, rx |-> receivers, pdc |-> {}, data |-> data, generated |-> FALSE]
End(t) == t.start + t.len

\* hpp.get_process_tx() finds a process that no packet holds.
ProcessFree(packets) == Cardinality({i \in DOMAIN packets : ~packets[i].generated}) < NofProcesses

\* worksub_tx_unicast_mac_sdu(): datagrams are taken as long as they fit.
SizeOf(data) == FoldLeft(+, 0, data)
Fitting(q) == Max({n \in 0..Len(q) : n = 0 \/ SizeOf(SubSeq(q, 1, n)) < N_TB})

(* The work in progress of a work function: the record of the device, its queues
   and packets, and whether the search has been left. *)
Work(d, r) == [r |-> r, q |-> queue[d], a |-> air[d], left |-> FALSE]
Leave(w) == [w EXCEPT !.left = TRUE]

NextEarliest(start, len) == start + len

\* worksub_tx_unicast(): a packet for peer, if there is data and a HARQ process.
TxUnicast(w, peer, start, len) ==
    LET q == w.q[peer]
        n == Fitting(q)
    IN  IF q = <<>> \/ ~ProcessFree(w.a) \/ n = 0
        THEN w
        ELSE [r |-> [w.r EXCEPT !.earliest = NextEarliest(start, len)],
              q |-> [w.q EXCEPT ![peer] = SubSeq(q, n + 1, Len(q))],
              a |-> Append(w.a, Packet(start, len, {peer}, SubSeq(q, 1, n))),
              left |-> w.left]

\* worksub_tx_unicast_consecutive() of the FT goes round its contacts, a packet
\* that cannot be sent notwithstanding, until one has no opportunity left.
Round(w, i) ==
    LET p == i % N_pt
        start == TxOpportunity(w.r, FT, p)
    IN  IF w.left \/ start = None THEN Leave(w)
        ELSE TxUnicast(w, p, start, Dl)

\* That of a PT ends with the first packet that cannot be sent.
Again(w, p) ==
    LET start == TxOpportunity(w.r, p, p)
        sent == TxUnicast(w, FT, start, Ul)
    IN  IF w.left \/ start = None \/ sent = w THEN Leave(w) ELSE sent

Rounds(d) == max_simultaneous_tx_unicast * (IF d = FT THEN N_pt ELSE 1)
Step(d, w, i) == IF d = FT THEN Round(w, i) ELSE Again(w, d)

Consecutive(d, w) ==
    LET after[n \in 0..Rounds(d)] == IF n = 0 THEN w ELSE Step(d, after[n - 1], n - 1)
    IN  after[Rounds(d)]

\* worksub_tx_beacon() and set_beacon_time_next()
TxBeacon(w) ==
    LET next == w.r.sched + BeaconPeriod IN
    [w EXCEPT !.a = Append(@, Packet(w.r.sched, OffsetBeacon, Pts, <<>>)),
              !.r = [@ EXCEPT !.earliest = w.r.sched, !.known = w.r.sched, !.sent = TRUE, !.sched = next,
                              !.report = [at |-> next - PrepareDuration, handle |-> "steady"]]]

Finish(d, w) ==
    /\ dev' = [dev EXCEPT ![d] = w.r]
    /\ queue' = [queue EXCEPT ![d] = w.q]
    /\ air' = [air EXCEPT ![d] = w.a]

--------------------------------------------------------------------------------
(* The states of the firmware: tfw_p2p_ft_t and tfw_p2p_pt_t.  A report is the
   irregular callback a device waits for; there is never more than one. *)

NoReport == [at |-> 0, handle |-> "nothing"]

\* get_same_with_time_increment()
Incremented(report, time) == [report EXCEPT !.at = @ + time]

Far == -(ValidAfterBeacon + BeaconPeriod + RxDelay)

Peers(d) == IF d = FT THEN Pts ELSE {FT}

Init ==
    /\ dev = [d \in Devices |->
                [state |-> "off", stopping |-> FALSE, released |-> FALSE, report |-> NoReport,
                 known |-> Far, sent |-> FALSE, sched |-> 0, earliest |-> 0, job |-> FALSE]]
    /\ queue = [d \in Devices |-> [p \in Peers(d) |-> <<>>]]
    /\ air = [d \in Devices |-> <<>>]
    /\ failed = FALSE

\* work_start(): resource (FT) or association (PT).  One program simulates all
\* radio devices and starts them at once.
WorkStart ==
    /\ \A d \in Devices : dev[d].state = "off"
    /\ dev' = [d \in Devices |->
                 [dev[d] EXCEPT !.state = "start", !.report = [at |-> 0, handle |-> "start"]]]
    /\ UNCHANGED <<queue, air, failed>>

\* A plausible slip: a PT, which sends nothing on its own, asks for no callback.
EnterSteady_NoCallback(r, d) ==
    IF d = FT
    THEN [r EXCEPT !.state = "steady", !.sched = FirstBeacon,
                   !.report = [at |-> FirstBeacon - PrepareDuration, handle |-> "steady"]]
    ELSE [r EXCEPT !.state = "steady", !.report = NoReport]

\* entry() of steady_ft_t and steady_pt_t
EnterSteady(r, d) ==
    IF d = FT
    THEN [r EXCEPT !.state = "steady", !.sched = FirstBeacon,
                   !.report = [at |-> FirstBeacon - PrepareDuration, handle |-> "steady"]]
    ELSE [r EXCEPT !.state = "steady", !.report = [at |-> BeaconPeriod, handle |-> "steady"]]

\* entry() of dissociation_ft_t and dissociation_pt_t
EnterDissociation(r) ==
    [r EXCEPT !.state = "dissociation", !.report = [at |-> DissociationTime, handle |-> "dissociation"]]

\* state_transitions()
StateTransition(r, d) ==
    CASE r.state = "start" /\ r.stopping -> EnterDissociation(EnterSteady(r, d))
      [] r.state = "start" /\ ~r.stopping -> EnterSteady(r, d)
      [] r.state = "steady" -> EnterDissociation(r)
      [] r.state = "dissociation" -> [r EXCEPT !.state = "nop", !.report = NoReport, !.released = TRUE]
      [] OTHER -> [r EXCEPT !.report = NoReport]

Called(d) == dev[d].report # NoReport /\ dev[d].report.at < 0

\* work_irregular() in any state but a steady one that goes on
Transition(d) ==
    /\ Called(d)
    /\ dev[d].state = "steady" => dev[d].stopping
    /\ dev' = [dev EXCEPT ![d] = StateTransition(@, d)]
    /\ UNCHANGED <<queue, air, failed>>

\* work_irregular() of steady_ft_t: the beacon, then downlink packets
IrregularFt ==
    /\ Called(FT) /\ dev[FT].state = "steady" /\ ~dev[FT].stopping
    /\ IF ProcessFree(air[FT])
       THEN LET w == Consecutive(FT, TxBeacon(Work(FT, dev[FT])))
            IN  Finish(FT, w) /\ UNCHANGED failed
       ELSE failed' = TRUE /\ UNCHANGED <<dev, queue, air>>

\* work_irregular() of steady_pt_t: only its own callbacks are run
IrregularPt(p) ==
    /\ Called(p) /\ dev[p].state = "steady" /\ ~dev[p].stopping
    /\ dev' = [dev EXCEPT ![p].report = Incremented(@, BeaconPeriod)]
    /\ UNCHANGED <<queue, air, failed>>

\* The server writes a datagram to its queue and enqueues a job.
Datagram(d) ==
    /\ ~dev[d].released
    /\ \E p \in Peers(d), s \in Sizes :
          /\ Len(queue[d][p]) < QueueLength
          /\ queue' = [queue EXCEPT ![d][p] = Append(@, s)]
    /\ dev' = [dev EXCEPT ![d].job = TRUE]
    /\ UNCHANGED <<air, failed>>

\* Packets for whatever a queue holds.  An uplink asserts that the last beacon
\* is not in the future.
Unicast(d, r) ==
    IF d # FT /\ r.known > 0
    THEN failed' = TRUE /\ UNCHANGED <<dev, queue, air>>
    ELSE Finish(d, Consecutive(d, Work(d, r))) /\ UNCHANGED failed

\* work_application(): only the steady states answer.
WorkApplication(d) ==
    LET r == [dev[d] EXCEPT !.job = FALSE] IN
    /\ dev[d].job
    /\ IF dev[d].state = "steady" THEN Unicast(d, r)
       ELSE dev' = [dev EXCEPT ![d] = r] /\ UNCHANGED <<queue, air, failed>>

\* work_stop() until it waits for the firmware
WorkStop(d) ==
    /\ dev[d].state # "off" /\ ~dev[d].stopping
    /\ dev' = [dev EXCEPT ![d].stopping = TRUE]
    /\ UNCHANGED <<queue, air, failed>>

--------------------------------------------------------------------------------
(* The physical layer and the channel *)

\* run_tx_chscan(): a worker generates a packet and finalizes its HARQ process.
Generate(d) ==
    /\ \E i \in DOMAIN air[d] :
          /\ ~air[d][i].generated /\ \A j \in 1..(i - 1) : air[d][j].generated
          /\ air' = [air EXCEPT ![d][i].generated = TRUE]
    /\ UNCHANGED <<dev, queue, failed>>

Over(t) == End(t) <= 0

\* A packet is forgotten when the last receiver is done with it.
Left(packets, i, rx, pdc) ==
    IF rx = {} /\ pdc = {} THEN RemoveAt(packets, i)
    ELSE [packets EXCEPT ![i] = [@ EXCEPT !.rx = rx, !.pdc = pdc]]

\* A receiver misses a packet, or cannot decode it.
Lose(d) ==
    /\ \E i \in DOMAIN air[d] : \E x \in air[d][i].rx \cup air[d][i].pdc :
          /\ Over(air[d][i])
          /\ air' = [air EXCEPT ![d] = Left(@, i, air[d][i].rx \ {x}, air[d][i].pdc \ {x})]
    /\ UNCHANGED <<dev, queue, failed>>

\* A plausible slip: the time is that of the end of the beacon.
BeaconTime_End(t) == End(t)

BeaconTime(t) == t.start
IsBeacon(d, t) == d = FT /\ t.data = <<>>

\* work_pcc(): worksub_pcc_10() takes the time of a beacon as the time of the
\* last one known.  Whoever is not the receiver of a unicast packet drops it.
WorkPcc(d) ==
    /\ \E i \in DOMAIN air[d] : \E x \in air[d][i].rx :
          LET t == air[d][i] IN
          /\ Over(t)
          /\ IF dev[x].state # "steady"
             THEN air' = [air EXCEPT ![d] = Left(@, i, t.rx \ {x}, t.pdc)] /\ UNCHANGED dev
             ELSE /\ air' = [air EXCEPT ![d] = Left(@, i, t.rx \ {x}, t.pdc \cup {x})]
                  /\ dev' = IF IsBeacon(d, t) THEN [dev EXCEPT ![x].known = BeaconTime(t)] ELSE dev
    /\ UNCHANGED <<queue, failed>>

\* work_pdc(): worksub_pdc_10() of a PT looks for uplinks, worksub_pdc_21()
\* passes datagrams to the client (Application).
WorkPdc(d) ==
    \E i \in DOMAIN air[d] : \E x \in air[d][i].pdc :
        LET t == air[d][i]
            rest == [air EXCEPT ![d] = Left(@, i, t.rx, t.pdc \ {x})]
        IN
        IF IsBeacon(d, t) /\ dev[x].state = "steady"
        THEN IF dev[x].known > 0
             THEN failed' = TRUE /\ UNCHANGED <<dev, queue, air>>
             ELSE LET w == Consecutive(x, Work(x, dev[x]))
                  IN  /\ dev' = [dev EXCEPT ![x] = w.r]
                      /\ queue' = [queue EXCEPT ![x] = w.q]
                      /\ air' = [rest EXCEPT ![x] = w.a]
                      /\ UNCHANGED failed
        ELSE air' = rest /\ UNCHANGED <<dev, queue, failed>>

\* Times older than any that matters are not told apart.
Past(t) == Max2(t - 1, Far)
Aged(r) ==
    [r EXCEPT !.report = IF @ = NoReport THEN @ ELSE Incremented(@, -1),
              !.known = Past(@), !.sched = Past(@), !.earliest = Max2(@ - 1, 0)]

\* Time passes as long as nothing is due: irregular callbacks are recognized in
\* time, packets are generated before they are sent, and received ones are
\* processed.
Tick ==
    /\ \A d \in Devices :
          /\ dev[d].report # NoReport => dev[d].report.at > -MaxDelay
          /\ \A i \in DOMAIN air[d] :
                LET t == air[d][i] IN
                /\ ~t.generated => t.start > 1
                /\ End(t) > -RxDelay
    /\ dev' = [d \in Devices |-> Aged(dev[d])]
    /\ air' = [d \in Devices |-> [i \in DOMAIN air[d] |-> [air[d][i] EXCEPT !.start = @ - 1]]]
    /\ UNCHANGED <<queue, failed>>

FirmwareStep(d) ==
    \/ Transition(d)
    \/ d = FT /\ IrregularFt
    \/ d # FT /\ IrregularPt(d)
    \/ WorkApplication(d)
PhyStep(d) == Generate(d) \/ Lose(d) \/ WorkPcc(d) \/ WorkPdc(d)

\* A failed assertion ends the program; nothing else does.
Next ==
    /\ ~failed
    /\ \/ \E d \in Devices : Datagram(d) \/ WorkStop(d) \/ FirmwareStep(d) \/ PhyStep(d)
       \/ WorkStart \/ Tick

Spec == Init /\ [][Next]_vars

(* Time goes on for ever, and so what is due is done: Tick() waits for it. *)
Fairness == <>[]failed \/ []<><<Tick>>_vars

FairSpec == Spec /\ Fairness

--------------------------------------------------------------------------------
(***************************************************************************)
(* Properties                                                              *)
(***************************************************************************)
OnAir == UNION {{<<d, i>> : i \in DOMAIN air[d]} : d \in Devices}
At(x) == air[x[1]][x[2]]

(* No two packets meet on the air, whichever beacons were lost and whenever the
   applications call: the FT never schedules a downlink into its next beacon,
   and a PT that goes on with an old beacon time stays in its resources. *)
NoCollision ==
    \A x, y \in OnAir : x # y => End(At(x)) <= At(y).start \/ End(At(y)) <= At(x).start

(* A PT does not send for longer than the validity after the last beacon the FT
   has sent: it falls silent with its FT. *)
SilentWithoutBeacon ==
    \A p \in Pts : \A i \in DOMAIN air[p] :
        End(air[p][i]) > 0 => air[p][i].start < dev[FT].known + ValidAfterBeacon

(* When work_stop() goes on, "all DECT NR+ connections were closed gracefully"
   (tfw_p2p_rd_t): no packet of the device is left to be sent. *)
QuietWhenReleased ==
    \A d \in Devices : dev[d].released => \A i \in DOMAIN air[d] : Over(air[d][i])

(* Nobody is on the air who has no right to be there any more. *)
Silence == SilentWithoutBeacon /\ QuietWhenReleased

(* Every device that is stopped is released, and no assertion fails before
   ("beacon not transmitted", "uplink times out-of-order"). *)
P2pStops == \A d \in Devices : dev[d].stopping ~> dev[d].released
================================================================================
