--------------------------- MODULE MCBufferCache ---------------------------
(***************************************************************************)
(* BufferCache for TLC: three sectors, a cache for two of them.            *)
(***************************************************************************)
EXTENDS BufferCache
=============================================================================
