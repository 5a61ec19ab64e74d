------------------------------- MODULE MCVfs -------------------------------
(***************************************************************************)
(* Vfs for TLC: "/etc/", "/etc/motd", "/d/" and "/d/f"; and "/etc//", from *)
(* which clean() takes one slash.                                          *)
(***************************************************************************)
EXTENDS Vfs

MCPaths == {<< "etc", "" >>, << "etc", "motd" >>, << "d", "" >>, << "d", "f" >>,
            << "etc", "", "" >>}
MCNewFiles == {<< "d", "f" >>}
=============================================================================
