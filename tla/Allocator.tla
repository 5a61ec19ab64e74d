----------------------------- MODULE Allocator ------------------------------
(***************************************************************************)
(* What an allocator promises, with no word about lists, headers or pages: *)
(* a new region is non-empty, lies in the arena, has the alignment asked   *)
(* for and shares no byte with a region still in use; a region leaves the  *)
(* set when it is freed and never otherwise.  A request may fail at any    *)
(* time, which changes nothing.                                            *)
(***************************************************************************)
EXTENDS Integers

CONSTANTS ArenaStart, ArenaEnd      \* the arena is [ArenaStart, ArenaEnd)

VARIABLE regions    \* records ptr, size, align

Disjoint(r, s) == r.ptr + r.size <= s.ptr \/ s.ptr + s.size <= r.ptr

InArena(r) == ArenaStart <= r.ptr /\ r.ptr + r.size <= ArenaEnd

Init == regions = {}

\* Some region r is handed out.
Allocate ==
    \E r \in regions' \ regions :
        /\ regions' = regions \cup {r}
        /\ r.size > 0 /\ InArena(r) /\ r.ptr % r.align = 0
        /\ \A s \in regions : Disjoint(r, s)

\* Some region is given back.
Release == \E r \in regions : regions' = regions \ {r}

Spec == Init /\ [][Allocate \/ Release]_regions
=============================================================================
