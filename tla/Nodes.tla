------------------------------- MODULE Nodes -------------------------------
(***************************************************************************)
(* What FastQueue and FastStack have in common: values in linked nodes,    *)
(* which are numbered in the order in which they are allocated; 0 is nil.  *)
(***************************************************************************)
EXTENDS Nil, Sequences

CONSTANTS Values,
          Batches,   \* what is put in by one call of InAll or PushAll
          MaxNodes   \* bound on the nodes that are allocated

ASSUME NodesAssumption == Batches \subseteq Seq(Values)
=============================================================================
