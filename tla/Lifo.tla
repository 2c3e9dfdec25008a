-------------------------------- MODULE Lifo --------------------------------
(* What FastStack promises: the value pushed last leaves first, none is lost  *)
(* or doubled, and Size tells how many are inside.                             *)
EXTENDS Integers, Sequences

CONSTANTS Values, Batches, None

VARIABLES stack, \* the values inside, the top one first
          size,  \* what Size returns
          out    \* what the last call of Pop or Peek returned

Init == stack = <<>> /\ size = 0 /\ out = None

\* A batch as it lies on the stack: its last value is on top.
Piled(vs) == [n \in 1 .. Len(vs) |-> vs[(Len(vs) - n) + 1]]

PushAll(vs) == stack' = Piled(vs) \o stack /\ size' = size + Len(vs) /\ UNCHANGED out
Clear == stack' = <<>> /\ size' = 0 /\ UNCHANGED out
Peek == out' = (IF stack = <<>> THEN None ELSE Head(stack)) /\ UNCHANGED <<stack, size>>
Pop ==
    \/ stack = <<>> /\ out' = None /\ UNCHANGED <<stack, size>>
    \/ stack # <<>> /\ out' = Head(stack) /\ stack' = Tail(stack) /\ size' = size - 1

Next ==
    \/ \E v \in Values : PushAll(<<v>>)
    \/ \E vs \in Batches : PushAll(vs)
    \/ Clear \/ Peek \/ Pop

Spec == Init /\ [][Next]_<<stack, size, out>>
=============================================================================
