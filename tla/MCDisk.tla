------------------------------- MODULE MCDisk -------------------------------
(***************************************************************************)
(* Disk for TLC: a drive of six sectors behind registers of one bit each,  *)
(* LBAs on the drive and past its end, two contents, and waits of two      *)
(* polls.                                                                  *)
(***************************************************************************)
EXTENDS Disk
=============================================================================
