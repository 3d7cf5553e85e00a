--------------------------- MODULE FirmwareCalls ---------------------------
(***************************************************************************)
(* What the PHY promises a termination point firmware (tpoint.hpp): its    *)
(* work functions never run concurrently; work_start is called once, and   *)
(* before any other; work_regular, work_irregular, work_pcc and            *)
(* work_application are called in the FIFO order in which the jobs were    *)
(* put into the job queue of their pool; work_pdc is called at most once   *)
(* for a PCC whose PDC the firmware asked for, and never before that PCC;  *)
(* work_channel is called in no specific order.  That is Spec.  A firmware *)
(* behind several pools gets less, SpecOfPools: one work_start per pool,   *)
(* each before the other calls of its own pool only.                       *)
(***************************************************************************)
EXTENDS Naturals, Sequences

CONSTANTS Pool, Kind, NoCall

VARIABLES
    started,   \* pools for which work_start was called
    accepted,  \* [Pool -> Seq(Kind)], jobs ever accepted into the job queues
    served,    \* [Pool -> Nat], how many of them had their turn
    owed,      \* PCCs whose PDC the firmware waits for: set of <<pool, number>>
    inside     \* the call being executed, or NoCall

vars == <<started, accepted, served, owed, inside>>

Init ==
    /\ started = {}
    /\ accepted = [p \in Pool |-> <<>>]
    /\ served = [p \in Pool |-> 0]
    /\ owed = {}
    /\ inside = NoCall

CallStart(p) ==
    /\ inside = NoCall
    /\ started' = started \cup {p}
    /\ inside' = <<"start", p, 0>>
    /\ UNCHANGED <<accepted, served, owed>>

Accept(p, k) ==
    /\ accepted' = [accepted EXCEPT ![p] = Append(@, k)]
    /\ UNCHANGED <<started, served, owed, inside>>

\* The next job of a pool, and only the next one, may have its turn.
Turn(p) ==
    /\ inside = NoCall /\ served[p] < Len(accepted[p])
    /\ served' = [served EXCEPT ![p] = @ + 1]
    /\ UNCHANGED <<started, accepted, owed>>

CallFifo(p) ==
    Turn(p) /\ inside' = <<accepted[p][served[p] + 1], p, served[p] + 1>>

\* Nothing is called for a sync job whose PCC could not be decoded.
SkipSync(p) ==
    Turn(p) /\ accepted[p][served[p] + 1] = "sync" /\ UNCHANGED inside

CallPdc(d) ==
    /\ inside = NoCall /\ d \in owed
    /\ owed' = owed \ {d}
    /\ inside' = <<"pdc", d[1], d[2]>>
    /\ UNCHANGED <<started, accepted, served>>

CallChannel(p) ==
    /\ inside = NoCall
    /\ inside' = <<"channel", p, 0>>
    /\ UNCHANGED <<started, accepted, served, owed>>

\* A call returns; work_pcc may ask for the PDC.
ReturnCall ==
    /\ inside # NoCall
    /\ inside' = NoCall
    /\ \/ owed' = owed
       \/ inside[1] = "sync" /\ owed' = owed \cup {<<inside[2], inside[3]>>}
    /\ UNCHANGED <<started, accepted, served>>

\* What may follow work_start() for a pool.
CallForPool(p) == CallFifo(p) \/ SkipSync(p) \/ CallChannel(p)

Common ==
    \/ \E p \in Pool, k \in Kind : Accept(p, k)
    \/ \E d \in owed : CallPdc(d)
    \/ ReturnCall

\* "Called exactly once.", "Called before any other work-function.": the promise.
Next ==
    \/ Common
    \/ started = {} /\ \E p \in Pool : CallStart(p)
    \/ started # {} /\ \E p \in Pool : CallForPool(p)

Spec == Init /\ [][Next]_vars

\* The same once for every pool the firmware is attached to.
NextOfPools ==
    \/ Common
    \/ \E p \in Pool \ started : CallStart(p)
    \/ \E p \in started : CallForPool(p)

SpecOfPools == Init /\ [][NextOfPools]_vars

=============================================================================
