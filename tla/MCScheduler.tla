----------------------------- MODULE MCScheduler ---------------------------
(***************************************************************************)
(* Scheduler for TLC: idle, two more PCBs and two priorities.              *)
(***************************************************************************)
EXTENDS Scheduler

CONSTANTS IDLE, P1, P2, NIL

Two == {IDLE, P1, P2}
=============================================================================
