---------------------------- MODULE SingleHolder ----------------------------
(* What DistributeLocker promises its callers: one at a time relies on the      *)
(* lock, and nobody gets it before the one who had it has lost or released it.  *)

CONSTANT Clients

VARIABLE holders   \* the clients that rely on the lock

Init == holders = {}

Acquire(c) == holders = {} /\ holders' = {c}
Lose(c) == c \in holders /\ holders' = holders \ {c}

Next == \E c \in Clients : Acquire(c) \/ Lose(c)

Spec == Init /\ [][Next]_holders
=============================================================================
