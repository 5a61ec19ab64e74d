----------------------------- MODULE MCIrqMutex -----------------------------
(***************************************************************************)
(* IrqMutex for TLC: two outer locks and the heap's, the timer (line 0)    *)
(* and the keyboard (line 1), at most three lock() calls in one critical   *)
(* section or handler, so that HEAP is taken inside an outer lock and      *)
(* twice in a row.                                                         *)
(***************************************************************************)
EXTENDS IrqMutex
=============================================================================
