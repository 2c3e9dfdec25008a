----------------------- MODULE MCDistributeLocker -----------------------
(* Instances of DistributeLocker for TLC. *)
EXTENDS DistributeLocker, TLC

Symmetry == Permutations(Clients)
=============================================================================
