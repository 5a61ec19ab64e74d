------------------------------- MODULE MCJes -------------------------------
(***************************************************************************)
(* Jes for TLC: a table of three jobs, two address spaces, three           *)
(* priorities and six jobs altogether, so that slots are used again.       *)
(***************************************************************************)
EXTENDS Jes
=============================================================================
