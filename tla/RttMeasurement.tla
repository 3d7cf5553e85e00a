--------------------------- MODULE RttMeasurement ----------------------------
(***************************************************************************)
(* The program rtt measures round-trip times with two devices that run the *)
(* firmware of the same name: each datagram goes to the FT (radio 1), over *)
(* the air to the PT (radio 2), and all the way back. One is under way at  *)
(* a time: the program waits for the answer or for its timeout.            *)
(*                                                                         *)
(* Datagrams and jobs are those of Application and JobPipeline; a datagram *)
(* is its number, modulo Ids, wherever it is copied to. A PDC with a wrong *)
(* CRC is answered like any other (work_pdc_error).                        *)
(***************************************************************************)
EXTENDS TestRadio

CONSTANTS
  Ids,           \* bound: numbers of datagrams before they repeat
  N_datagram,    \* slots of the server's queue, of which one stays empty
  Probes,        \* bound: probes until there is an answer
  Timeout,       \* RTT_UDP_TIMEOUT_BEFORE_ASSUMING_ERROR_US
  PerPrint,      \* RTT_MEASUREMENTS_PER_PRINT
  Pause          \* the program's sleeps

\* The timeout is longer than any round trip.
ASSUME RttAssumption ==
    /\ Ids \in Nat \ {0, 1} /\ Probes \in Nat \ {0} /\ N_datagram \in Nat \ {0, 1} /\ PerPrint \in Nat \ {0} /\ Pause \in Nat \ {0}
    /\ Timeout \in Nat /\ Timeout > 2 * (Turnaround + PacketLength + Lag)

VARIABLES
  phase,        \* of udp_thread_routine(): probe, measure, or what it does after a pause
  doing,        \* "send", "await" or "pause"
  id,           \* the latest datagram
  waited,       \* since it was sent, or since the pause began
  N_measurements_cnt,
  rtt_success,  \* entries of elapsed_mac2mac_ns that are not negative
  queue, jobs,  \* of the FT: queue of connection 0, and the connections announced
  started,      \* of the FT: "no", "cleared" by work_start(), "permeable" job queue
  watch,        \* of the FT: get_elapsed()
  N_measurement_tx_cnt, N_measurement_rx_cnt,
  earliest_pt,  \* tx_earliest_64 of the PT
  answers,      \* datagrams for the program, as [about, rtt]
  got,          \* history: the latest answer it took, with its own number and its wait
  counted,      \* history: what was sent and answered since the last print
  printed,      \* history: what the FT printed, and what it should have
  unserved      \* history: a datagram reached the queue after clear() but without a job

program == <<phase, doing, id, waited, N_measurements_cnt, rtt_success, got>>
ft == <<queue, jobs, started, watch, N_measurement_tx_cnt, N_measurement_rx_cnt>>
rtt == <<program, ft, earliest_pt, answers, counted, printed, unserved>>

Zero == [tx |-> 0, rx |-> 0]
\* main() and constructors
RttVariables ==
    /\ phase = "probe" /\ doing = "send" /\ id = 0 /\ waited = 0
    /\ N_measurements_cnt = 0 /\ rtt_success = 0
    /\ got = [about |-> 0, id |-> 0, rtt |-> 0, waited |-> 0]
    /\ queue = <<>> /\ jobs = <<>> /\ started = "no" /\ watch = 0
    /\ N_measurement_tx_cnt = 0 /\ N_measurement_rx_cnt = 0
    /\ earliest_pt = -1 /\ answers = <<>>
    /\ counted = Zero /\ printed = [is |-> Zero, ought |-> Zero] /\ unserved = FALSE
RttInit == RttVariables /\ RadioInit

-----------------------------------------------------------------------------
(* The program. *)

\* udp.tx, and the thread of application_server_t that puts the datagram into the queue
Fits == Len(queue) < N_datagram - 1
SendDatagram ==
    /\ doing = "send" /\ phase \in {"probe", "measure"}
    /\ phase = "probe" => counted.tx < Probes
    /\ id' = (id + 1) % Ids /\ doing' = "await" /\ waited' = 0
    /\ queue' = IF Fits THEN Append(queue, id') ELSE queue
    /\ jobs' = IF Fits /\ started = "permeable" THEN Append(jobs, 0) ELSE jobs
    /\ unserved' = (unserved \/ (Fits /\ started = "cleared"))
    /\ counted' = IF started = "permeable" THEN [counted EXCEPT !.tx = @ + 1] ELSE counted
    /\ UNCHANGED <<radio, phase, N_measurements_cnt, rtt_success, got, started, watch, N_measurement_tx_cnt,
                   N_measurement_rx_cnt, earliest_pt, answers, printed>>

\* what follows a measurement, probe_sdr_packet_length() or a sleep
Measured(success) ==
    /\ waited' = 0
    /\ IF phase = "probe"
       THEN /\ phase' = IF success THEN "print" ELSE "probe"
            /\ doing' = IF success THEN "send" ELSE "pause"
            /\ UNCHANGED <<N_measurements_cnt, rtt_success>>
       ELSE /\ N_measurements_cnt' = N_measurements_cnt + 1
            /\ rtt_success' = IF success THEN rtt_success + 1 ELSE rtt_success
            /\ phase' = IF N_measurements_cnt' = PerPrint THEN "print" ELSE "measure"
            /\ doing' = IF N_measurements_cnt' = PerPrint THEN "pause" ELSE "send"

TakeAnswer ==
    /\ doing = "await" /\ answers # <<>>
    /\ answers' = Tail(answers)
    /\ got' = [about |-> Head(answers).about, id |-> id, rtt |-> Head(answers).rtt, waited |-> waited]
    /\ counted' = [counted EXCEPT !.rx = @ + 1]
    /\ Measured(TRUE)
    /\ UNCHANGED <<radio, id, ft, earliest_pt, printed, unserved>>

NoAnswer ==
    /\ doing = "await" /\ answers = <<>> /\ waited = Timeout
    /\ Measured(FALSE)
    /\ UNCHANGED <<radio, id, got, ft, earliest_pt, answers, counted, printed, unserved>>

EndPause ==
    /\ doing = "pause" /\ waited = Pause
    /\ doing' = "send"
    /\ UNCHANGED <<radio, phase, id, waited, N_measurements_cnt, rtt_success, got, ft, earliest_pt, answers,
                   counted, printed, unserved>>

\* the datagram on the second connection; then the analysis, a sleep and the next measurements
SendPrint ==
    /\ doing = "send" /\ phase = "print"
    /\ jobs' = Append(jobs, 1)
    /\ failed' = IF rtt_success <= N_measurements_cnt /\ (rtt_success > 0 => got.rtt > 0) THEN failed ELSE "analyze"
    /\ phase' = "measure" /\ doing' = "pause" /\ waited' = 0
    /\ N_measurements_cnt' = 0 /\ rtt_success' = 0
    /\ UNCHANGED <<reports, air, earliest, id, got, queue, started, watch, N_measurement_tx_cnt,
                   N_measurement_rx_cnt, earliest_pt, answers, counted, printed, unserved>>

-----------------------------------------------------------------------------
(* The firmware. *)

\* work_start() and, some time after it, job_queue_t::set_permeable()
Start ==
    /\ \/ started = "no" /\ started' = "cleared" /\ queue' = <<>>
       \/ started = "cleared" /\ started' = "permeable" /\ queue' = queue
    /\ UNCHANGED <<radio, program, jobs, watch, N_measurement_tx_cnt, N_measurement_rx_cnt, earliest_pt,
                   answers, counted, printed, unserved>>

\* work_application() with the first connection, and generate_packet_asap()
watch_reset == watch' = 0
ApplicationJob ==
    /\ jobs # <<>> /\ Head(jobs) = 0 /\ jobs' = Tail(jobs)
    /\ watch_reset
    /\ N_measurement_tx_cnt' = N_measurement_tx_cnt + 1
    /\ IF Available(1) = 0 THEN UNCHANGED <<queue, air, earliest, failed>>
       ELSE IF queue = <<>> THEN failed' = "queue empty" /\ UNCHANGED <<queue, air, earliest>>
       ELSE /\ queue' = Tail(queue)
            /\ Generate(1, <<buffer_tx_meta_t(1, asap, "ft", Head(queue))>>)
            /\ earliest' = asap + PacketLength
            /\ failed' = failed
    /\ UNCHANGED <<reports, program, started, N_measurement_rx_cnt, earliest_pt, answers, counted, printed, unserved>>

\* work_application() with the second connection
PrintJob ==
    /\ jobs # <<>> /\ Head(jobs) = 1 /\ jobs' = Tail(jobs)
    /\ printed' = [is |-> [tx |-> N_measurement_tx_cnt, rx |-> N_measurement_rx_cnt], ought |-> counted]
    /\ counted' = Zero
    /\ N_measurement_tx_cnt' = 0 /\ N_measurement_rx_cnt' = 0
    /\ UNCHANGED <<radio, program, queue, started, watch, earliest_pt, answers, unserved>>

\* work_pcc() of the FT and of the PT
RttPcc(i) ==
    /\ NextPcc(i) /\ (Drop(i) \/ Proceed(i))
    /\ UNCHANGED <<reports, earliest, failed, rtt>>

\* work_pdc_internal() of the FT: the answer for the program
FtPdc(i) ==
    /\ NextPdc(i) /\ air[i].radio = 2
    /\ Drop(i)
    /\ answers' = Append(answers, [about |-> air[i].tag, rtt |-> watch])
    /\ N_measurement_rx_cnt' = N_measurement_rx_cnt + 1
    /\ UNCHANGED <<reports, earliest, failed, program, queue, jobs, started, watch, N_measurement_tx_cnt,
                   earliest_pt, counted, printed, unserved>>

\* work_pdc_internal() of the PT: the same datagram goes back
PtPdc(i) ==
    /\ NextPdc(i) /\ air[i].radio = 1
    /\ LET at   == asapAfter(earliest_pt)
           echo == IF Available(2) > 0 THEN <<buffer_tx_meta_t(2, at, "pt", air[i].tag)>> ELSE <<>>
       IN  /\ air' = RemoveAt(air, i) \o echo
           /\ earliest_pt' = IF echo = <<>> THEN earliest_pt ELSE at + PacketLength
    /\ UNCHANGED <<reports, earliest, failed, program, ft, answers, counted, printed, unserved>>

\* Jobs and answers do not wait; clocks stop where nobody reads them any more.
RttTime ==
    /\ PassTime /\ jobs = <<>>
    /\ ~(doing = "await" /\ (answers # <<>> \/ waited = Timeout))
    /\ ~(doing = "pause" /\ waited = Pause) /\ doing # "send"
    /\ waited' = waited + 1
    /\ watch' = IF watch > Timeout THEN watch ELSE watch + 1
    /\ earliest_pt' = Earlier(earliest_pt, -1)
    /\ UNCHANGED <<phase, doing, id, N_measurements_cnt, rtt_success, got, queue, jobs, started,
                   N_measurement_tx_cnt, N_measurement_rx_cnt, answers, counted, printed, unserved>>

RttProgram == SendDatagram \/ TakeAnswer \/ NoAnswer \/ EndPause \/ SendPrint
RttReceive == \E i \in DOMAIN air : RttPcc(i) \/ FtPdc(i) \/ PtPdc(i)
RttNext == RttProgram \/ Start \/ ApplicationJob \/ PrintJob \/ RttReceive \/ RttTime

-----------------------------------------------------------------------------
(* Properties. *)

\* Unless a datagram was left in the queue without a job while the FT started, an answer that the
\* program takes is the answer to its latest datagram, the time measured is that of this round trip, and
\* FT and program agree on how many packets were sent and came back when the FT prints. Both devices transmit in order.
AnswerMatches ==
    /\ failed = "none" /\ InOrder
    /\ ~unserved => /\ got.about = got.id /\ got.rtt <= got.waited
                    /\ got.id # 0 \/ got.waited > 0 => got.rtt >= 2 * (Turnaround + PacketLength)
                    /\ printed.is = printed.ought
=============================================================================
