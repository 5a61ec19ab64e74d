------------------------------ MODULE MCMemory ------------------------------
(***************************************************************************)
(* Memory for TLC: tables of 4 entries, words of 4 bits, 16 frames, of     *)
(* which 12 are identity-mapped and 8 taken when the heap starts; a heap   *)
(* of 1 page that may grow to 5, across two tables; one page of other      *)
(* kernel code.                                                            *)
(***************************************************************************)
EXTENDS Memory
=============================================================================
