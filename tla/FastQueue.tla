----------------------------- MODULE FastQueue -----------------------------
(***************************************************************************)
(* collection_queue.go: a linked list with a pointer to its first and to   *)
(* its last node.  Every operation holds the queue's lock from its first   *)
(* statement to its last, so each is one step.                             *)
(***************************************************************************)
EXTENDS Nodes

VARIABLES first, last, size,   \* the fields of FastQueue
          value, next,         \* the fields of each node
          out                  \* what the last call of Out returned

queueVars == <<first, last, size, value, next, out>>

QueueInit ==
    /\ first = 0 /\ last = 0 /\ size = 0
    /\ value = <<>> /\ next = <<>> /\ out = None

\* Mutant: first is set only for the first node ever, by a test of last.
NewFirstIfAny == IF last = 0 THEN Len(value) + 1 ELSE first

\* The first node once there are new ones behind the last.
NewFirst == IF first = 0 THEN Len(value) + 1 ELSE first

\* What next of node m is after k new ones, each linked behind the last one of its time.
Linked(m, k) ==
    IF m = last THEN Len(value) + 1
    ELSE IF m <= Len(value) THEN next[m]
    ELSE IF m < Len(value) + k THEN m + 1 ELSE 0

\* In, with one value, and InAll, which returns at once when there is none.
InAll(vs) ==
    /\ vs # <<>> /\ Len(value) + Len(vs) <= MaxNodes
    /\ first' = NewFirst /\ last' = Len(value) + Len(vs)
    /\ value' = value \o vs
    /\ next' = [m \in 1 .. Len(value) + Len(vs) |-> Linked(m, Len(vs))]
    /\ size' = size + Len(vs)
    /\ UNCHANGED out
In(v) == InAll(<<v>>)

\* Out leaves last alone, also when it takes the only node.
Out ==
    /\ \/ /\ first = 0 /\ out' = None
          /\ UNCHANGED <<first, size>>
       \/ /\ first # 0 /\ out' = value[first]
          /\ first' = next[first] /\ size' = size - 1
    /\ UNCHANGED <<last, value, next>>

Clear ==
    /\ first' = 0 /\ last' = 0 /\ size' = 0
    /\ UNCHANGED <<value, next, out>>

QueueNext ==
    \/ \E v \in Values : In(v)
    \/ \E vs \in Batches : InAll(vs)
    \/ Out \/ Clear

QueueSpec == QueueInit /\ [][QueueNext]_queueVars
-----------------------------------------------------------------------------
\* What is inside: the values of the nodes from first on, which were allocated one after
\* the other.
Contents == IF first = 0 THEN <<>> ELSE SubSeq(value, first, Len(value))
Fifo == INSTANCE Fifo WITH queue <- Contents

\* The queue is first in, first out, and Size counts what Out can still return: Out
\* empties the list without resetting last, and In and InAll link behind it all the same.
QueueRefinesFifo == Fifo!Spec

QueueTypeOK ==
    /\ value \in Seq(Values) /\ next \in Seq(Nat) /\ Len(next) = Len(value)
    /\ first \in 0 .. Len(value) /\ last \in {0, Len(value)} /\ size \in Nat

\* The pointers lead from first through all nodes that were allocated after it to last.
Chained ==
    /\ first # 0 => last # 0 /\ size = Len(value) + 1 - first
    /\ first = 0 => size = 0
    /\ \A m \in 1 .. Len(value) :
           first # 0 /\ first <= m => next[m] = IF m = Len(value) THEN 0 ELSE m + 1
FastQueueInv == QueueTypeOK /\ Chained
=============================================================================
