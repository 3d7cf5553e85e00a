------------------------------- MODULE UsrpTx -------------------------------
(***************************************************************************)
(* The TX thread of the USRP radio, hw_usrp_t::work_tx().  It waits for    *)
(* the packet with the id that is due and sends it in a burst; packets     *)
(* that follow with a small gap are sent in the same burst.  Only the      *)
(* first sample of a burst has a time, the others follow from the number   *)
(* of samples sent, gaps included.                                         *)
(***************************************************************************)
EXTENDS TxPool

CONSTANTS
    Spp,      \* spp_max, samples per call of send()
    Gap,      \* usrp_tx_gap_samples, negative: a packet per burst
    Advance   \* tx_time_advance_samples

ASSUME UsrpAssumption ==
    /\ Spp \in Nat \ {0} /\ Gap \in Int /\ Advance \in Nat
    /\ \A n \in Packet : Spp < Packets[n].len

VARIABLES
    keep_running,
    tpc,
    expected,      \* tx_order_id_expected
    ref,           \* tx_new_packet_cnt_ref
    current,       \* buffer that is sent
    next_buffer,   \* next_buffer_tx if the burst goes on, else None
    gap,           \* usrp_tx_gap_current_samples
    length,        \* tx_length_samples of the current packet
    cnt,           \* tx_length_samples_cnt: samples sent of it
    clock,         \* when the next sample of the burst leaves the radio
    sent           \* history: what was sent, a sequence of chunks

radio_vars == <<keep_running, tpc, expected, ref, current, next_buffer, gap, length, cnt, clock,
                sent>>
vars == <<pool_vars, radio_vars>>

Tpc == {"loop", "enter", "wait", "burst", "packet", "send", "final", "release", "uncount",
        "exited"}

TypeOK ==
    /\ PoolTypeOK
    /\ keep_running \in BOOLEAN /\ tpc \in Tpc
    /\ expected \in Nat /\ ref \in Int
    /\ current \in Buffer /\ next_buffer \in Buffer \cup {None}
    /\ gap \in Nat /\ length \in Nat /\ cnt \in 0 .. length
    /\ clock \in Int
    /\ asleep => tpc = "wait"

Init ==
    /\ PoolInit
    /\ keep_running = TRUE /\ tpc = "loop"
    /\ expected = 0 /\ ref = 0
    /\ current = 0 /\ next_buffer = None /\ gap = 0
    /\ length = 0 /\ cnt = 0 /\ clock = 0 /\ sent = <<>>

-----------------------------------------------------------------------------
(* wait_for_specific_tx_order_id_to() *)

Begin(b) == current' = b /\ tpc' = "burst"

\* The initial search, without the mutex.
Search ==
    /\ tpc = "loop" /\ keep_running
    /\ \/ \E b \in Available(expected) : Begin(b)
       \/ Available(expected) = {} /\ tpc' = "enter" /\ UNCHANGED current
    /\ UNCHANGED <<pool_vars, keep_running, expected, ref, next_buffer, gap, length, cnt, clock,
                   sent>>

\* One round of the loop under the mutex: sleep as long as the counter is the
\* reference r, else search again and take the counter as reference.
WaitWith(r) ==
    \/ /\ new_cnt = r
       /\ ref' = r /\ asleep' = TRUE /\ tpc' = "wait"
       /\ UNCHANGED current
    \/ /\ new_cnt # r /\ Available(expected) = {}
       /\ ref' = new_cnt /\ asleep' = TRUE /\ tpc' = "wait"
       /\ UNCHANGED current
    \/ /\ new_cnt # r
       /\ \E b \in Available(expected) : Begin(b)
       /\ ref' = new_cnt /\ UNCHANGED asleep

\* The reference is zero: no buffer has been checked under the mutex yet.
FirstReference == 0

Enter ==
    /\ tpc = "enter"
    /\ WaitWith(FirstReference)
    /\ UNCHANGED <<locks, streams, new_cnt, workers, keep_running, expected, next_buffer, gap,
                   length, cnt, clock, sent>>

\* Notified, or awake without a reason.
WakeUp ==
    /\ tpc = "wait" /\ ~asleep
    /\ WaitWith(ref)
    /\ UNCHANGED <<locks, streams, new_cnt, workers, keep_running, expected, next_buffer, gap,
                   length, cnt, clock, sent>>

\* cv_status::timeout
Timeout_WaitsAgain ==
    /\ tpc = "wait"
    /\ tpc' = "enter" /\ asleep' = FALSE
    /\ UNCHANGED <<locks, streams, new_cnt, workers, keep_running, expected, ref, current,
                   next_buffer, gap, length, cnt, clock, sent>>
Timeout ==
    /\ tpc = "wait"
    /\ tpc' = "loop" /\ asleep' = FALSE
    /\ UNCHANGED <<locks, streams, new_cnt, workers, keep_running, expected, ref, current,
                   next_buffer, gap, length, cnt, clock, sent>>

-----------------------------------------------------------------------------
(* Bursts *)

\* The first packet of the burst defines its time.
StartOfBurst ==
    /\ tpc = "burst"
    /\ clock' = meta[current].time - Advance
    /\ tpc' = "packet"
    /\ UNCHANGED <<pool_vars, keep_running, expected, ref, current, next_buffer, gap, length, cnt,
                   sent>>

\* What will be the next id, and how long is the packet?
NextExpected_AlwaysPlusOne(b) == expected + 1
NextExpected(b) == IF meta[b].next < 0 THEN expected + 1 ELSE meta[b].next

StartOfPacket ==
    /\ tpc = "packet"
    /\ expected' = NextExpected(current)
    /\ length' = tx_length[current]
    /\ cnt' = 0
    /\ tpc' = "send"
    /\ UNCHANGED <<pool_vars, keep_running, ref, current, next_buffer, gap, clock, sent>>

\* send() of samples that exist, k of them.
Transmit(k) ==
    /\ sent' = Append(sent, Chunk(current, cnt, cnt + k, clock))
    /\ cnt' = cnt + k
    /\ clock' = clock + k + gap'

\* As long as more than spp_max samples are left.
SendSpp ==
    /\ tpc = "send" /\ length - cnt > Spp
    /\ Written(current, cnt + Spp)
    /\ gap' = 0 /\ Transmit(Spp)
    /\ UNCHANGED <<pool_vars, keep_running, tpc, expected, ref, current, next_buffer, length>>

\* The last samples wait for the whole packet and for the decision whether the
\* next one belongs to the burst: it exists, and the gap is small enough.
GapTo_OfSamplesSent(b) == meta[b].time - (meta[current].time + cnt)
GapTo(b) == meta[b].time - (meta[current].time + length)

LookAhead ==
    /\ tpc = "send" /\ length - cnt <= Spp
    /\ Written(current, length)
    /\ \/ \E b \in Available(expected) :
            /\ Gap >= 0 /\ GapTo(b) <= Gap
            /\ next_buffer' = b /\ gap' = GapTo(b)
       \/ /\ \A b \in Available(expected) : Gap < 0 \/ GapTo(b) > Gap
          /\ next_buffer' = None /\ gap' = 0
    /\ tpc' = "final"
    /\ UNCHANGED <<pool_vars, keep_running, expected, ref, current, length, cnt, clock, sent>>

\* The last samples, and zeros for the gap.
SendFinal ==
    /\ tpc = "final"
    /\ UNCHANGED gap
    /\ Transmit(length - cnt)
    /\ tpc' = "release"
    /\ UNCHANGED <<pool_vars, keep_running, expected, ref, current, next_buffer, length>>

ReleaseBuffer ==
    /\ tpc = "release"
    /\ Release(current)
    /\ tpc' = "uncount"
    /\ UNCHANGED <<new_cnt, asleep, workers, keep_running, expected, ref, current, next_buffer, gap,
                   length, cnt, clock, sent>>

\* The rest of set_transmitted_or_abort(), then the next packet of the burst.
Uncount ==
    /\ tpc = "uncount"
    /\ new_cnt' = new_cnt - 1
    /\ IF next_buffer = None THEN tpc' = "loop" /\ UNCHANGED current
                             ELSE tpc' = "packet" /\ current' = next_buffer
    /\ next_buffer' = None
    /\ UNCHANGED <<locks, streams, asleep, workers, keep_running, expected, ref, gap, length, cnt,
                   clock, sent>>

Exit ==
    /\ tpc = "loop" /\ ~keep_running
    /\ tpc' = "exited"
    /\ UNCHANGED <<pool_vars, keep_running, expected, ref, current, next_buffer, gap, length, cnt,
                   clock, sent>>

\* hw_usrp_t::work_stop(), after the workers have been stopped.
Stop ==
    /\ keep_running /\ \A w \in Worker : pc[w] = "idle"
    /\ keep_running' = FALSE
    /\ UNCHANGED <<pool_vars, tpc, expected, ref, current, next_buffer, gap, length, cnt, clock,
                   sent>>

-----------------------------------------------------------------------------

TxStep ==
    \/ Search \/ Enter \/ WakeUp
    \/ StartOfBurst \/ StartOfPacket \/ SendSpp \/ LookAhead \/ SendFinal
    \/ ReleaseBuffer \/ Uncount \/ Exit

\* Workers terminate before the radio is stopped.
TakePacket(w)     == keep_running /\ Take(w) /\ UNCHANGED radio_vars
GeneratePacket(w) == keep_running /\ Generate(w) /\ UNCHANGED radio_vars

Terminated == tpc = "exited" /\ UNCHANGED vars

Next ==
    \/ TxStep
    \/ Timeout
    \/ \E w \in Worker : TakePacket(w) \/ GeneratePacket(w)
    \/ Stop
    \/ Terminated

Spec == Init /\ [][Next]_vars

\* The TX thread and workers with a packet run; nothing is assumed of the firmware.
\* The timeout is needed by nobody but work_stop(): as long as the radio runs,
\* notifications suffice.
Fairness ==
    /\ WF_vars(TxStep)
    /\ \A w \in Worker : WF_vars(GeneratePacket(w))
    /\ WF_vars(~keep_running /\ Timeout)

FairSpec == Spec /\ Fairness

-----------------------------------------------------------------------------
(* Properties *)

\* The TX thread never sleeps through the packet it waits for: if the packet is
\* there, a worker has not notified yet.  The thread holds no lock when it searches
\* first, a packet is visible before it is counted, and the first reference is zero,
\* a value the counter returns to whenever the radio is ahead of the workers.
NoLostWakeup ==
    asleep /\ Available(expected) # {} => \E w \in Worker : pc[w] \in {"count", "notify"}

\* Every sample leaves the radio at its time, whether its packet began the burst or
\* was joined to it.
SamplesOnTime ==
    \A c \in DOMAIN sent :
        sent[c].packet # 0 /\ sent[c].at = Packets[sent[c].packet].time - Advance + sent[c].from

\* Packets are sent completely, one after the other, in the order of the firmware.
PacketsInOrder ==
    \A c \in DOMAIN sent :
        LET n == sent[c].packet
            prev == IF c = 1 THEN [packet |-> 0, to |-> 0] ELSE sent[c - 1] IN
        IF prev.packet # 0 /\ prev.to < Packets[prev.packet].len
        THEN n = prev.packet /\ sent[c].from = prev.to
        ELSE /\ sent[c].from = 0
             /\ Packets[n].order = IF c = 1 THEN 0 ELSE Follower(prev.packet)

\* What goes to the radio is what the firmware asked for, sample by sample (work_tx, hw_usrp.cpp:883).
SentAsAsked == SamplesOnTime /\ PacketsInOrder

\* Every packet the firmware asks for is sent as long as the radio runs, unless some packet found no buffer:
\* the TX thread waits for the id of a dropped packet for ever.
EveryPacketSent ==
    \A n \in Packet :
        taken >= n ~>
            \/ ~keep_running \/ dropped # {}
            \/ \E c \in DOMAIN sent : sent[c].packet = n /\ sent[c].to = Packets[n].len

\* work_stop() joins the TX thread.
UsrpShutdown == ~keep_running ~> tpc = "exited"

=============================================================================
