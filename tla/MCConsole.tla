----------------------------- MODULE MCConsole -----------------------------
(***************************************************************************)
(* Console for TLC: a screen of three rows of two cells, two letters, and  *)
(* lines of up to two characters, so that a prompt and its line wrap       *)
(* around the end of the screen and past its corner.                       *)
(***************************************************************************)
EXTENDS Console
=============================================================================
