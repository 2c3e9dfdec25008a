-------------------------------- MODULE Fifo --------------------------------
(* What FastQueue promises: values leave in the order in which they came in,  *)
(* none is lost or doubled, and Size tells how many are inside.                *)
EXTENDS Integers, Sequences

CONSTANTS Values, Batches, None

VARIABLES queue, \* the values inside, oldest first
          size,  \* what Size returns
          out    \* what the last call of Out returned

Init == queue = <<>> /\ size = 0 /\ out = None

InAll(vs) == queue' = queue \o vs /\ size' = size + Len(vs) /\ UNCHANGED out
Clear == queue' = <<>> /\ size' = 0 /\ UNCHANGED out
Out ==
    \/ queue = <<>> /\ out' = None /\ UNCHANGED <<queue, size>>
    \/ queue # <<>> /\ out' = Head(queue) /\ queue' = Tail(queue) /\ size' = size - 1

Next ==
    \/ \E v \in Values : InAll(<<v>>)
    \/ \E vs \in Batches : InAll(vs)
    \/ Clear \/ Out

Spec == Init /\ [][Next]_<<queue, size, out>>
=============================================================================
