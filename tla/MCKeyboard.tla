----------------------------- MODULE MCKeyboard -----------------------------
(***************************************************************************)
(* Keyboard for TLC: a ring of three slots (two characters), which fills,  *)
(* wraps and overflows; one letter, one other key, one key with no         *)
(* character.                                                              *)
(***************************************************************************)
EXTENDS Keyboard
=============================================================================
