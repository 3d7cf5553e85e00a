------------------------------ MODULE MCUsrpTx ------------------------------
(* Instances of UsrpTx.  The second packet follows without a gap, the third   *)
(* with a small and the fourth with a large one; the firmware skips an id.    *)
EXTENDS UsrpTx

MCPackets ==
    << [order |-> 0, next |-> None, time |-> 2, len |-> 3],
       [order |-> 1, next |-> 4, time |-> 5, len |-> 4],
       [order |-> 4, next |-> None, time |-> 10, len |-> 3],
       [order |-> 5, next |-> None, time |-> 19, len |-> 3] >>

=============================================================================
