---------------------------- MODULE MCInterrupts ----------------------------
(***************************************************************************)
(* Interrupts for TLC: a mouse that reports two packets, one of them       *)
(* negative, waits of none to two ticks on a short counter, and a device   *)
(* without driver on the first line of the slave.                          *)
(***************************************************************************)
EXTENDS Interrupts

MCPackets == {[buttons |-> 1, dx |-> 1, dy |-> 0], [buttons |-> 0, dx |-> -1, dy |-> 2]}
=============================================================================
