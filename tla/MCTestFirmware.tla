--------------------------- MODULE MCTestFirmware ----------------------------
(***************************************************************************)
(* One of the measurement firmwares per behaviour.                         *)
(***************************************************************************)
EXTENDS TestFirmware

MCParameters == [snr |-> 2, ratio |-> 1, mmie |-> 2]
MCstt == [x_to_A |-> 1, A_to_B |-> 1, B_to_C |-> 1, C_to_B |-> 7, C_to_D |-> 7]
=============================================================================
