------------------------------- MODULE MCHub -------------------------------
(***************************************************************************)
(* Instances of Hub for TLC.                                               *)
(***************************************************************************)
EXTENDS HubProperties, TLC

CONSTANTS l1, l2, u1, c1, c2

OneUser == (l1 :> u1)
OneId == (l1 :> l1)

\* Two connections of one user; their ids and platforms follow the line, so that
\* the lines can be swapped.
SameUser == (l1 :> u1 @@ l2 :> u1)
OwnId == (l1 :> l1 @@ l2 :> l2)
Swap == Permutations({l1, l2})

\* Calls or faults, not both: fairness asks for neither, so it stays satisfiable.
OneKindSpec ==
    Init /\ [][Next /\ (spent'["call"] = 0 \/ spent'["fault"] = 0)]_vars /\ Fairness

\* Two callers that differ in nothing.
SwapCallers == Permutations({c1, c2})
=============================================================================
