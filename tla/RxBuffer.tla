-------------------------------- MODULE RxBuffer --------------------------------
(***************************************************************************)
(* The RX buffer of a radio: the RX thread writes what the hardware        *)
(* receives into a ring, corrects its time when the hardware has dropped   *)
(* samples, and publishes it; workers wait for a time and copy units of    *)
(* samples into their local buffers while the thread goes on writing.      *)
(*                                                                         *)
(* All times are relative to time_as_sample_cnt_64, the time of the next   *)
(* sample of the buffer.  The content of the ring is the time at which a   *)
(* sample was really received.                                             *)
(***************************************************************************)
EXTENDS Integers, FiniteSets

CONSTANTS Ring,             \* ant_streams_length_samples
          MaxNew,           \* nof_new_samples_max
          Unit,             \* ant_streams_unit_length_samples
          Prestream,        \* rx_prestream_64
          Period,           \* notification_period_samples
          Reader,           \* workers with a pacer
          Receives,         \* how many samples recv() returns
          Jitter,           \* error of the time of the hardware
          Gaps,             \* samples the hardware may drop at once
          MaxDrops,         \* bound: how often it does
          UnitsInRow,       \* units a reader copies in a row
          Starts            \* times, relative to now, a reader begins from

JitterRange == 1            \* acceptable_jitter_range_64

ASSUME RxBufferAssumption ==
    /\ {Ring, MaxNew, Unit} \subseteq Nat \ {0} /\ {Prestream, Period, MaxDrops} \subseteq Nat
    /\ Receives \subseteq 1..MaxNew /\ MaxNew * 8 <= Ring /\ Ring % Unit = 0
    /\ Jitter \subseteq -JitterRange..JitterRange /\ \A i, j \in Jitter : i - j <= 1
    /\ Gaps \subseteq Nat /\ UnitsInRow \subseteq Nat \ {0} /\ Starts \subseteq Int

VARIABLES
    pos,       \* index of the next sample, where the hardware writes to
    ring,      \* content of the buffer
    hw,        \* time at which the hardware receives its next sample
    fresh,     \* samples received, but not yet added to the buffer
    drops,     \* how often the hardware has dropped samples
    prestream, \* rx_prestream_64
    next,      \* notification_next
    lost,      \* times whose samples never came (not in the code)
    readers    \* state of the pacer of each worker

buffer_vars == <<pos, ring, hw, fresh, drops, prestream, next, lost, readers>>

Floor == MaxNew - Ring - 3     \* bound: all earlier times are alike, and too late
Past(t) == IF t < Floor THEN Floor ELSE t
Index(t) == (pos + t) % Ring

\* Until the first samples are published the time is zero for everybody.
Published == prestream < 0

\* What a worker does, the time it asks for, the distance between its target and
\* the time it last loaded, and the units it has still to copy.
Pacer(pc, at, ahead, left) == [pc |-> pc, at |-> at, ahead |-> ahead, left |-> left]
Idle == Pacer("idle", 0, 0, 0)

BufferInit ==
    /\ pos = 0 /\ hw = 0 /\ fresh = 0 /\ drops = 0
    /\ ring = [i \in 0..(Ring + MaxNew - 1) |-> Floor]
    /\ prestream = Prestream /\ next = 0
    /\ lost = Floor..-1
    /\ readers = [r \in Reader |-> Idle]

--------------------------------------------------------------------------------
(* The RX thread: hw_usrp_t::work_rx() *)

Written(n) ==
    [i \in DOMAIN ring |-> IF i \in pos..(pos + n - 1) THEN hw + (i - pos) ELSE ring[i]]

\* recv()
Recv(n) ==
    /\ fresh = 0
    /\ ring' = Written(n) /\ hw' = hw + n /\ fresh' = n
    /\ UNCHANGED <<pos, drops, prestream, next, lost, readers>>

\* recv() reports an overflow: what it has written is not added.
Overflow(n, gap) ==
    /\ fresh = 0 /\ drops < MaxDrops
    /\ ring' = Written(n) /\ hw' = hw + n + gap /\ drops' = drops + 1
    /\ UNCHANGED <<pos, fresh, prestream, next, lost, readers>>

Resync(error) == error < -JitterRange \/ JitterRange < error

\* A plausible slip: what was written beyond the end of the ring stays there.
Wrapped_Never(index, n) == ring

Wrapped(index, n) ==
    [i \in DOMAIN ring |-> IF i < index + n - Ring THEN ring[Ring + i] ELSE ring[i]]

\* A plausible slip: the next notification is put off by every new sample.
NextNotification_PutOff(now, due) == now + Period

NextNotification(now, due) == IF due THEN now + Period ELSE next

\* Waiting readers look at the time again after a notification.
Notify(due) ==
    [r \in Reader |-> IF due /\ readers[r].pc = "asleep" THEN "poll" ELSE readers[r].pc]

\* get_ant_streams_next(): the time is corrected by "jump", the samples are added,
\* and the new time is published.
Advance(jitter) ==
    LET reported == hw - fresh + jitter
        jump == IF Resync(-reported) THEN reported ELSE 0
        step == jump + fresh
        due == prestream - fresh < 0 /\ step >= next
        wrapped == Wrapped(Index(jump), fresh)
    IN  /\ fresh > 0
        /\ pos' = Index(step) /\ hw' = hw - step /\ fresh' = 0
        /\ ring' = [i \in DOMAIN ring |-> Past(wrapped[i] - step)]
        /\ prestream' = IF prestream < 0 THEN prestream ELSE prestream - fresh
        /\ next' = LET n == IF prestream - fresh < 0 THEN NextNotification(step, due) ELSE next
                   IN  Past(n - step)
        /\ lost' = {t \in {u - step : u \in lost \cup
                            IF jump = 0 THEN {}
                            ELSE 0..(jump + fresh - 1)} :
                       t >= Floor}
        /\ readers' = [r \in Reader |->
                         LET x == readers[r]
                         IN  IF x.pc = "idle" THEN Idle
                             ELSE Pacer(Notify(due)[r], Past(x.at - step), x.ahead, x.left)]
        /\ UNCHANGED drops

--------------------------------------------------------------------------------
(* The workers: rx_pacer_t *)

SetReader(r, f) ==
    /\ readers' = [readers EXCEPT ![r] = f]
    /\ UNCHANGED <<pos, ring, hw, fresh, drops, prestream, next, lost>>

Target(r) == readers[r].at + Unit

\* reset_localbuffer(), and filter_until_nto() or resample_until_nto(), which load
\* the time once
Begin(r) ==
    /\ readers[r].pc = "idle" /\ Published
    /\ \E t \in Starts, n \in UnitsInRow :
          SetReader(r, Pacer("copy", t, t + Unit, n))

Ready(ahead) == ahead <= 0

\* filter_single_unit(), resample_single_unit()
Copy(r) ==
    LET x == readers[r] IN
    /\ x.pc = "copy" /\ Ready(x.ahead)
    /\ SetReader(r, IF x.left = 1 THEN Idle
              ELSE Pacer("copy", IF x.at = Floor THEN Floor ELSE x.at + Unit, x.ahead + Unit, x.left - 1))

\* wait_until_nto(): a target that is just reached is waited for, too.
WaitUntil(r) ==
    LET x == readers[r] IN
    /\ x.pc = "copy" /\ ~Ready(x.ahead)
    /\ SetReader(r, Pacer(IF Target(r) < 0 THEN "copy" ELSE "wait", x.at, Target(r), x.left))

\* std::atomic::wait() returns at once if the time is not the one last loaded.
Sleep(r) ==
    LET x == readers[r] IN
    /\ x.pc = "wait"
    /\ SetReader(r, Pacer(IF Target(r) = x.ahead THEN "asleep" ELSE "poll", x.at, x.ahead, x.left))

Poll(r) ==
    LET x == readers[r] IN
    /\ x.pc = "poll"
    /\ SetReader(r, Pacer(IF Target(r) > 0 THEN "wait" ELSE "copy", x.at, Target(r), x.left))

--------------------------------------------------------------------------------
ReaderStep(r) == Begin(r) \/ Copy(r) \/ WaitUntil(r) \/ Sleep(r) \/ Poll(r)

RxStep ==
    \/ \E n \in Receives : Recv(n) \/ \E gap \in Gaps : Overflow(n, gap)
    \/ \E jitter \in Jitter : Advance(jitter)

BufferNext == RxStep \/ \E r \in Reader : ReaderStep(r)

BufferSpec == BufferInit /\ [][BufferNext]_buffer_vars

--------------------------------------------------------------------------------
(***************************************************************************)
(* Properties                                                              *)
(***************************************************************************)
Near(a, b) == a - b \in -2..2

(* A worker that is not too late copies samples of the time it asks for, save the
   jitter of the hardware and one sample, although the hardware writes to the
   ring at the same time and drops samples now and then.  Wrong are only the
   samples up to the end of the first call after a gap: "with the next call we
   should be locked back into the jitter range" (get_ant_streams_next()). *)
SamplesRight ==
    \A r \in Reader :
        LET x == readers[r] IN
        x.pc = "copy" /\ Ready(x.ahead) /\ -x.at <= Ring - MaxNew
            => \A t \in x.at..(x.at + Unit - 1) : t \in lost \/ Near(ring[Index(t)], t)

(* A worker that sleeps although its time has passed is woken within the period
   of the notifications. *)
WokenInTime ==
    \A r \in Reader : readers[r].pc = "asleep" => -Target(r) <= Period
================================================================================
