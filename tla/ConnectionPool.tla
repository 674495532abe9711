--------------------------- MODULE ConnectionPool ---------------------------
(***************************************************************************)
(* What a connection pool promises: a connection has at most one owner, an *)
(* owner has at most one connection, and a connection is taken from nobody *)
(* and given back by its owner.                                            *)
(***************************************************************************)
CONSTANTS Threads, Connections, Nobody

VARIABLE owner  \* owner[c]: the thread that connection c belongs to

Init == owner = [c \in Connections |-> Nobody]

Acquire(t, c) ==
    /\ owner[c] = Nobody
    /\ \A d \in Connections : owner[d] # t
    /\ owner' = [owner EXCEPT ![c] = t]

Release(t, c) ==
    /\ owner[c] = t
    /\ owner' = [owner EXCEPT ![c] = Nobody]

Next == \E t \in Threads, c \in Connections : Acquire(t, c) \/ Release(t, c)

Spec == Init /\ [][Next]_owner

=============================================================================
