---------------------------- MODULE SectorDevice ----------------------------
(***************************************************************************)
(* What the callers of a disk driver rely on: a store of sectors.  A call  *)
(* is made, and later it returns.  A read returns the content of its       *)
(* sector or fails; a write changes its own sector or is lost, and no      *)
(* sector changes otherwise.                                               *)
(***************************************************************************)
CONSTANTS Callers, Lbas, Data, Nothing

VARIABLES store, request, reply

devVars == <<store, request, reply>>

Idle == [op |-> "none", lba |-> 0, data |-> Nothing]

Init ==
    /\ store \in [Lbas -> Data \cup {Nothing}]
    /\ request = [c \in Callers |-> Idle]
    /\ reply = [c \in Callers |-> Nothing]

Ask(c) ==
    /\ request[c] = Idle
    /\ \E op \in {"read", "write", "identify"}, lba \in Lbas, data \in Data \cup {Nothing} :
          request' = [request EXCEPT ![c] = [op |-> op, lba |-> lba, data |-> data]]
    /\ UNCHANGED <<store, reply>>

\* A write takes effect at some moment of its call.
Commit(c) ==
    /\ request[c].op = "write"
    /\ store' = [store EXCEPT ![request[c].lba] = request[c].data]
    /\ UNCHANGED <<request, reply>>

\* The call returns; Nothing is the reply of a read that failed.
Answer(c) ==
    /\ request[c] # Idle
    /\ request' = [request EXCEPT ![c] = Idle]
    /\ reply' = [reply EXCEPT ![c] =
                    IF request[c].op = "read" THEN store[request[c].lba] ELSE Nothing]
    /\ UNCHANGED store

Fail(c) ==
    /\ request[c].op = "read"
    /\ request' = [request EXCEPT ![c] = Idle]
    /\ reply' = [reply EXCEPT ![c] = Nothing]
    /\ UNCHANGED store

Next == \E c \in Callers : Ask(c) \/ Commit(c) \/ Answer(c) \/ Fail(c)

Spec == Init /\ [][Next]_devVars
=============================================================================
