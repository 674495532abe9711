----------------------------- MODULE LeaderLock -----------------------------
(***************************************************************************)
(* What the distributed lock gives the scheduler: a lock number is granted *)
(* to one replica, once, and a replica only ever claims a number that was  *)
(* granted to it.  Several replicas may claim numbers at the same time.    *)
(***************************************************************************)
CONSTANTS Backends, Numbers, NoNumber, Nobody

VARIABLES
    grantee,    \* the replica each number was granted to
    lockNumber  \* the number each replica claims

Init ==
    /\ grantee = [n \in Numbers |-> Nobody]
    /\ lockNumber = [b \in Backends |-> NoNumber]

Grant(b, n) ==
    /\ grantee[n] = Nobody
    /\ grantee' = [grantee EXCEPT ![n] = b]
    /\ UNCHANGED lockNumber

Claim(b, n) ==
    /\ grantee[n] = b
    /\ lockNumber' = [lockNumber EXCEPT ![b] = n]
    /\ UNCHANGED grantee

Drop(b) ==
    /\ lockNumber' = [lockNumber EXCEPT ![b] = NoNumber]
    /\ UNCHANGED grantee

Next == \E b \in Backends : Drop(b) \/ \E n \in Numbers : Grant(b, n) \/ Claim(b, n)

Spec == Init /\ [][Next]_<<grantee, lockNumber>>

=============================================================================
