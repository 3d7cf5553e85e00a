------------------------------ MODULE Application ------------------------------
(***************************************************************************)
(* The application layer: application_server_t takes datagrams from the    *)
(* outside, keeps them in one queue_t per connection and announces each    *)
(* with a job; application_client_t forwards datagrams the firmware wrote  *)
(* to its queues.  Server, client, firmware and the main thread run        *)
(* concurrently.  The firmware is called under the token, one call at a    *)
(* time (JobPipeline).                                                     *)
(*                                                                         *)
(* A datagram is a number; its size is the number too, so that levels and  *)
(* datagrams can be told apart.                                            *)
(***************************************************************************)
EXTENDS Integers, Sequences, FiniteSets, SequencesExt

CONSTANTS ServerConns,   \* connections of the server, each with a queue
          ClientConns,   \* connections of the client, each with a queue
          N_datagram,    \* slots of a queue
          NofLevels,     \* datagrams that fit into a MAC PDU
          MaxIngress,    \* bound: datagrams from the outside, in all
          MaxEgress      \* bound: datagrams from the radio, in all

ASSUME ApplicationAssumption ==
    /\ \A Conns \in {ServerConns, ClientConns} :
          IsFiniteSet(Conns) /\ Conns # {} /\ Conns = 0..(Cardinality(Conns) - 1)
    /\ N_datagram \in Nat \ {0} /\ NofLevels \in Nat \ {0}
    /\ MaxIngress \in Nat /\ MaxEgress \in Nat

VARIABLES
    squeue,     \* queues of the server: datagram_vec with w_idx and r_idx
    cqueue,     \* queues of the client
    ingress,    \* accepted[c]: what the server wrote to its queue, in order
    egress,     \* what the firmware wrote to the client's queue, in order
    read,       \* what the firmware read from the server's queue, in order
    forwarded,  \* what the client gave to the operating system, in order
    jobs,       \* application reports in the job queue (their connections)
    server,     \* application_server_t::work_sc()
    fw,         \* the work function being executed
    client,     \* application_client_t::work_sc()
    indicator_cnt,
    main,       \* work_stop() of the firmware
    failed      \* an assertion failed and ended the program

vars == <<squeue, cqueue, ingress, egress, read, forwarded, jobs, server, fw,
          client, indicator_cnt, main, failed>>

--------------------------------------------------------------------------------
(* queue_t: a ring of N_datagram slots of which one is never used. *)
Slots == 0..(N_datagram - 1)
EmptyQueue == [vec |-> [s \in Slots |-> 0], w_idx |-> 0, r_idx |-> 0]

\* A plausible slip: a slot too many, the write index reaches the read index.
get_free_AllSlots(q) == IF q.r_idx > q.w_idx THEN q.r_idx - q.w_idx
                                             ELSE q.r_idx + N_datagram - q.w_idx

get_free(q) == IF q.r_idx > q.w_idx THEN q.r_idx - q.w_idx - 1
                                    ELSE q.r_idx + N_datagram - q.w_idx - 1
get_used(q) == IF q.w_idx >= q.r_idx THEN q.w_idx - q.r_idx
                                     ELSE q.w_idx + N_datagram - q.r_idx

Next1(idx) == (idx + 1) % N_datagram

write(q, d) == [q EXCEPT !.vec[q.w_idx] = d, !.w_idx = Next1(@)]
oldest(q) == q.vec[q.r_idx]
pop(q) == [q EXCEPT !.r_idx = Next1(@)]

\* A plausible slip: levels are taken from the youngest datagrams.
get_queue_level_Youngest(q, n) ==
    [i \in 1..(IF n < get_used(q) THEN n ELSE get_used(q)) |-> q.vec[(q.w_idx + N_datagram - i) % N_datagram]]

\* The levels of the n oldest datagrams.
get_queue_level(q, n) ==
    [i \in 1..(IF n < get_used(q) THEN n ELSE get_used(q)) |-> q.vec[(q.r_idx + i - 1) % N_datagram]]

Content(q) == [i \in 1..get_used(q) |-> q.vec[(q.r_idx + i - 1) % N_datagram]]

--------------------------------------------------------------------------------
Init ==
    /\ squeue = [c \in ServerConns |-> EmptyQueue] /\ cqueue = [c \in ClientConns |-> EmptyQueue]
    /\ ingress = [c \in ServerConns |-> <<>>] /\ egress = [c \in ClientConns |-> <<>>]
    /\ read = [c \in ServerConns |-> <<>>] /\ forwarded = [c \in ClientConns |-> <<>>]
    /\ jobs = <<>>
    /\ server = [pc |-> "poll", keep |-> TRUE, ready |-> {}, offered |-> [c \in ServerConns |-> 0]]
    /\ fw = [pc |-> "idle", conn |-> 0, levels |-> <<>>, cnt |-> 0, left |-> 0]
    /\ client = [pc |-> "running", keep |-> TRUE, i |-> 0, empty |-> TRUE]
    /\ indicator_cnt = 0
    /\ main = "run"
    /\ failed = FALSE

(* application_server_t::work_sc() *)

Total(f) == FoldFunction(+, 0, f)

First(ready) == CHOOSE c \in ready : \A o \in ready : c <= o

\* poll() reports connections with input, times out, or the thread was told to end.
ServerPoll ==
    /\ server.pc = "poll"
    /\ IF ~server.keep
       THEN server' = [server EXCEPT !.pc = "joined"]
       ELSE \E R \in (SUBSET ServerConns) \ {{}} :
               /\ Total(server.offered) + Cardinality(R) <= MaxIngress
               /\ server' = [server EXCEPT !.pc = "read", !.ready = R]
    /\ UNCHANGED <<squeue, cqueue, ingress, egress, read, forwarded, jobs, fw, client,
                   indicator_cnt, main, failed>>

AfterRead(s) == [s EXCEPT !.ready = @ \ {First(@)},
                          !.pc = IF s.ready = {First(s.ready)} THEN "poll" ELSE "read"]

\* The next connection with input.  The filter keeps or discards the datagram
\* (IPv4 only), and a full queue discards it too.
ServerRead ==
    LET c == First(server.ready)
        d == server.offered[c] + 1
        s == [server EXCEPT !.offered[c] = d]
        taken == get_free(squeue[c]) > 0
    IN  /\ server.pc = "read"
        /\ \/ /\ taken
              /\ squeue' = [squeue EXCEPT ![c] = write(@, d)]
              /\ ingress' = [ingress EXCEPT ![c] = Append(@, d)]
              /\ server' = [s EXCEPT !.pc = "enqueue"]
           \/ /\ server' = AfterRead(s)
              /\ UNCHANGED <<squeue, ingress>>
        /\ UNCHANGED <<cqueue, egress, read, forwarded, jobs, fw, client, indicator_cnt,
                       main, failed>>

\* enqueue_job_nto() with the default protection time of zero.  After
\* set_impermeable() the queue takes no jobs.
ServerEnqueue ==
    /\ server.pc = "enqueue"
    /\ jobs' = IF main = "run" THEN Append(jobs, First(server.ready)) ELSE jobs
    /\ server' = AfterRead(server)
    /\ UNCHANGED <<squeue, cqueue, ingress, egress, read, forwarded, fw, client,
                   indicator_cnt, main, failed>>

(* The firmware: work_application() and work_pdc(), as tfw_p2p_t uses the queues. *)

WorkApplication ==
    /\ fw.pc = "idle" /\ jobs # <<>>
    /\ fw' = [fw EXCEPT !.pc = "read", !.conn = Head(jobs),
                        !.levels = get_queue_level(squeue[Head(jobs)], NofLevels)]
    /\ jobs' = Tail(jobs)
    /\ UNCHANGED <<squeue, cqueue, ingress, egress, read, forwarded, server, client,
                   indicator_cnt, main, failed>>

\* Datagrams are read as long as levels are left and the next one fits.
ReadDatagram ==
    /\ fw.pc = "read" /\ fw.levels # <<>>
    /\ get_used(squeue[fw.conn]) > 0
    /\ read' = [read EXCEPT ![fw.conn] = Append(@, oldest(squeue[fw.conn]))]
    /\ squeue' = [squeue EXCEPT ![fw.conn] = pop(@)]
    /\ fw' = [fw EXCEPT !.levels = Tail(@)]
    /\ UNCHANGED <<cqueue, ingress, egress, forwarded, jobs, server, client, indicator_cnt,
                   main, failed>>

ReturnApplication ==
    /\ fw.pc = "read"
    /\ fw' = [fw EXCEPT !.pc = "idle", !.levels = <<>>]
    /\ UNCHANGED <<squeue, cqueue, ingress, egress, read, forwarded, jobs, server, client,
                   indicator_cnt, main, failed>>

\* work_pdc() with the n datagrams of a received MAC PDU.
WorkPdc ==
    /\ fw.pc = "idle"
    /\ \E c \in ClientConns : \E n \in 1..(MaxEgress - Total([e \in ClientConns |-> Len(egress[e])])) :
          fw' = [fw EXCEPT !.pc = "write", !.conn = c, !.left = n, !.cnt = 0]
    /\ UNCHANGED <<squeue, cqueue, ingress, egress, read, forwarded, jobs, server, client,
                   indicator_cnt, main, failed>>

\* A datagram that does not fit into the queue is dropped and not counted.
WriteDatagram ==
    LET c == fw.conn
        d == Len(egress[c]) + 1
    IN  /\ fw.pc = "write" /\ fw.left > 0
        /\ IF get_free(cqueue[c]) > 0
           THEN /\ cqueue' = [cqueue EXCEPT ![c] = write(@, d)]
                /\ egress' = [egress EXCEPT ![c] = Append(@, d)]
                /\ fw' = [fw EXCEPT !.left = @ - 1, !.cnt = @ + 1]
           ELSE /\ fw' = [fw EXCEPT !.left = @ - 1]
                /\ UNCHANGED <<cqueue, egress>>
        /\ UNCHANGED <<squeue, ingress, read, forwarded, jobs, server, client,
                       indicator_cnt, main, failed>>

\* The client holds lockv from the moment it looks at the count to the moment it waits.
Locked == client.pc \in {"check", "forward"}

\* A plausible slip: one trigger per MAC PDU.
Count_PerPdu == IF fw.cnt > 0 THEN 1 ELSE 0

Count == fw.cnt

TriggerForward ==
    /\ fw.pc = "write" /\ fw.left = 0
    /\ ~Locked
    /\ indicator_cnt' = indicator_cnt + Count
    /\ client' = IF client.pc = "wait" THEN [client EXCEPT !.pc = "woken"] ELSE client
    /\ fw' = [fw EXCEPT !.pc = "idle", !.cnt = 0]
    /\ UNCHANGED <<squeue, cqueue, ingress, egress, read, forwarded, jobs, server, main,
                   failed>>

(* application_client_t::work_sc() *)

ClientRunning ==
    /\ client.pc = "running"
    /\ client' = [client EXCEPT !.pc = IF client.keep THEN "check" ELSE "joined"]
    /\ UNCHANGED <<squeue, cqueue, ingress, egress, read, forwarded, jobs, server, fw,
                   indicator_cnt, main, failed>>

\* wait_for() has returned because of a notification and holds lockv again.
ClientWoken ==
    /\ client.pc = "woken"
    /\ client' = [client EXCEPT !.pc = "check"]
    /\ UNCHANGED <<squeue, cqueue, ingress, egress, read, forwarded, jobs, server, fw,
                   indicator_cnt, main, failed>>

\* The test before and in forward_under_lock(); then the wait, which unlocks.
\* The count is compared as an unsigned number: below zero it is a large one.
ClientCheck ==
    /\ client.pc = "check"
    /\ client' = IF indicator_cnt # 0
                 THEN [client EXCEPT !.pc = "forward", !.i = 0, !.empty = TRUE]
                 ELSE [client EXCEPT !.pc = "wait"]
    /\ UNCHANGED <<squeue, cqueue, ingress, egress, read, forwarded, jobs, server, fw,
                   indicator_cnt, main, failed>>

\* One connection of a round.  No client filters a datagram.
ClientForward ==
    LET c == client.i IN
    /\ client.pc = "forward" /\ c \in ClientConns
    /\ IF get_used(cqueue[c]) > 0
       THEN /\ forwarded' = [forwarded EXCEPT ![c] = Append(@, oldest(cqueue[c]))]
            /\ cqueue' = [cqueue EXCEPT ![c] = pop(@)]
            /\ indicator_cnt' = indicator_cnt - 1
            /\ client' = [client EXCEPT !.i = c + 1, !.empty = FALSE]
       ELSE /\ client' = [client EXCEPT !.i = c + 1]
            /\ UNCHANGED <<cqueue, forwarded, indicator_cnt>>
    /\ UNCHANGED <<squeue, ingress, egress, read, jobs, server, fw, main, failed>>

\* The end of a round: an assertion says that one of the queues had data.
ClientRound ==
    /\ client.pc = "forward" /\ client.i \notin ClientConns
    /\ failed' = client.empty
    /\ client' = [client EXCEPT !.pc = "check"]
    /\ UNCHANGED <<squeue, cqueue, ingress, egress, read, forwarded, jobs, server, fw,
                   indicator_cnt, main>>

\* A plausible slip: the inner loop is not left.
AfterTimeout_Waits == "check"

\* wait_for() times out: unlock and look at keep_running.
AfterTimeout == "running"

ClientTimeout ==
    /\ client.pc \in {"wait", "woken"}
    /\ client' = [client EXCEPT !.pc = AfterTimeout]
    /\ UNCHANGED <<squeue, cqueue, ingress, egress, read, forwarded, jobs, server, fw,
                   indicator_cnt, main, failed>>

(* tfw_p2p_rd_t::work_stop(): the job queue is closed, then the server and
   finally the client are stopped and joined. *)
WorkStop ==
    /\ \/ /\ main = "run"
          /\ main' = "join_server" /\ server' = [server EXCEPT !.keep = FALSE]
          /\ UNCHANGED client
       \/ /\ main = "join_server" /\ server.pc = "joined"
          /\ main' = "join_client" /\ client' = [client EXCEPT !.keep = FALSE]
          /\ UNCHANGED server
       \/ /\ main = "join_client" /\ client.pc = "joined"
          /\ main' = "stopped"
          /\ UNCHANGED <<server, client>>
    /\ UNCHANGED <<squeue, cqueue, ingress, egress, read, forwarded, jobs, fw,
                   indicator_cnt, failed>>

ServerStep == ServerPoll \/ ServerRead \/ ServerEnqueue
FirmwareStep == WorkApplication \/ ReadDatagram \/ ReturnApplication \/ WriteDatagram \/ TriggerForward
ClientStep == ClientRunning \/ ClientWoken \/ ClientCheck \/ ClientForward \/ ClientRound

Terminated == (main = "stopped" \/ failed) /\ UNCHANGED vars

Next == \/ ~failed /\ (ServerStep \/ FirmwareStep \/ WorkPdc \/ ClientStep \/ ClientTimeout \/ WorkStop)
        \/ Terminated

(* Every thread goes on; nobody has to stop the program.  A wait ends after 100 ms, during which lockv is free
   for whoever waits for it, however often it was taken before. *)
Fairness == /\ WF_vars(~failed /\ ServerStep) /\ WF_vars(~failed /\ ClientStep)
            /\ WF_vars(~failed /\ ClientTimeout) /\ WF_vars(~failed /\ main # "run" /\ WorkStop)
            /\ SF_vars(~failed /\ FirmwareStep)

Spec == Init /\ [][Next]_vars
FairSpec == Spec /\ Fairness

--------------------------------------------------------------------------------
(***************************************************************************)
(* Properties                                                              *)
(***************************************************************************)
(* What is read is what was written, once and in order, in both directions
   and on every connection, while the other thread writes and the indexes
   wrap around. *)
InOrder ==
    /\ \A c \in ServerConns : ingress[c] = read[c] \o Content(squeue[c])
    /\ \A c \in ClientConns : egress[c] = forwarded[c] \o Content(cqueue[c])

(* worksub_tx_unicast_mac_sdu() packs the size of a datagram and reads the
   datagram afterwards, without a lock in between: the levels it holds are
   those of the next datagrams, although the server writes others meanwhile. *)
LevelsMatch ==
    fw.pc = "read" => IsPrefix(fw.levels, Content(squeue[fw.conn]))

(* forward_under_lock() asserts that a round over the queues finds data as
   long as data is indicated ("went over all queues and non has data"). *)
NoAssertionFails == ~failed

(* A datagram in a queue of the client is forwarded unless the program stops:
   no wake-up is lost and no datagram is left behind uncounted. *)
EveryDatagramForwarded ==
    \A c \in ClientConns : \A n \in 1..MaxEgress :
        Len(egress[c]) >= n ~> (Len(forwarded[c]) >= n \/ main # "run" \/ failed)

(* work_stop() joins the server and the client, whatever they are doing. *)
ApplicationStops == main = "join_server" ~> (main = "stopped" \/ failed)
================================================================================
