-------------------------------- MODULE Nil --------------------------------
(***************************************************************************)
(* None is nil, of Go and of Redis: no number, and no client of a Cache.   *)
(***************************************************************************)
EXTENDS Integers

CONSTANT None

ASSUME NilAssumption == None \notin Int /\ None \notin {"m", "s"}
=============================================================================
