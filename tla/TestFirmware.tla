---------------------------- MODULE TestFirmware -----------------------------
(***************************************************************************)
(* A radio that runs one of the firmwares for measurements: loopback, one  *)
(* of txrxdelay, txrxagc and chscanner, or rtt with its program.           *)
(***************************************************************************)
EXTENDS Loopback, TxRxTests, RttMeasurement

VARIABLE kind
all == <<radio, loopback, tests, rtt, kind>>

Init ==
    /\ LoopbackVariables /\ TestsVariables /\ RttVariables
    /\ \/ kind = "loopback" /\ LoopbackInit /\ name = CHOOSE n \in Firmware : TRUE
       \/ kind = "tests" /\ TestsInit
       \/ kind = "rtt" /\ RttInit /\ name = CHOOSE n \in Firmware : TRUE
    /\ kind # "tests" => timing = CHOOSE t \in Timings : TRUE
    /\ kind # "loopback" => variant = CHOOSE v \in Variants : TRUE

Loop  == kind = "loopback" /\ LoopbackNext /\ UNCHANGED <<tests, rtt, kind>>
Tests == kind = "tests" /\ TestsNext /\ UNCHANGED <<loopback, rtt, kind>>
Rtt   == kind = "rtt" /\ RttNext /\ UNCHANGED <<loopback, tests, kind>>
Next == Loop \/ Tests \/ Rtt

Spec == /\ Init /\ [][Next]_all
        /\ WF_all(kind = "loopback" /\ LoopbackCallback /\ UNCHANGED <<tests, rtt, kind>>)
        /\ WF_all(kind = "loopback" /\ LoopbackReceive /\ UNCHANGED <<tests, rtt, kind>>)
        /\ WF_all(kind = "loopback" /\ LoopbackTime /\ UNCHANGED <<tests, rtt, kind>>)

\* Every result is of the packets it is said to be of: loopback counts for the parameter and SNR a
\* packet was sent with, txrxdelay, txrxagc and chscanner measure their own packets and channels, and
\* in rtt the program and both devices agree on the round trips.
MeasurementsRight == ResultsRight /\ MeasuresItsOwn /\ AnswerMatches

\* The loopback firmware comes to its end and asks for nothing any more.
Finishes == kind = "loopback" => MeasurementsFinish
=============================================================================
