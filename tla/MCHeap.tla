------------------------------- MODULE MCHeap -------------------------------
(***************************************************************************)
(* Heap for TLC.  The header, the split slack, the word and the default    *)
(* alignment are the real ones; the page is 64 bytes, the heap starts with *)
(* 2 pages and may grow to 4, and a usize has 10 bits.                     *)
(***************************************************************************)
EXTENDS Heap
=============================================================================
