---------------------------- MODULE BoundedQueue ----------------------------
(***************************************************************************)
(* What the readers of an input device assume: characters come out in the  *)
(* order they went in, each at most once and unchanged, and at most        *)
(* `Capacity` wait.  A character may be refused when it arrives; once      *)
(* accepted it is lost only to Clear.                                      *)
(***************************************************************************)
EXTENDS Integers, Sequences

CONSTANTS Chars, Capacity, NoChar

VARIABLES
    queue,      \* the characters waiting
    delivered   \* the last character a reader got, NoChar at first

Init == queue = << >> /\ delivered = NoChar

Put(c) ==
    /\ Len(queue) < Capacity
    /\ queue' = Append(queue, c)
    /\ UNCHANGED delivered

Get ==
    /\ queue # << >>
    /\ queue' = Tail(queue)
    /\ delivered' = Head(queue)

Clear == queue' = << >> /\ UNCHANGED delivered

Next == (\E c \in Chars : Put(c)) \/ Get \/ Clear

Spec == Init /\ [][Next]_<<queue, delivered>>
=============================================================================
