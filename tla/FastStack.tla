----------------------------- MODULE FastStack -----------------------------
(***************************************************************************)
(* collection_stack.go: a linked list with a pointer to its top node.      *)
(* Every operation holds the stack's lock from its first statement that    *)
(* touches the stack to its last, so each is one step.                     *)
(***************************************************************************)
EXTENDS Nodes

VARIABLES top, stackSize,         \* the fields of FastStack
          stackValue, stackNext,  \* the fields of each node
          popped                  \* what the last call of Pop or Peek returned

stackVars == <<top, stackSize, stackValue, stackNext, popped>>

StackInit ==
    top = 0 /\ stackSize = 0 /\ stackValue = <<>> /\ stackNext = <<>> /\ popped = None

\* Mutant: every node of a batch points to the top from before the batch.
BelowOldTop(n) == top

\* What the node of the n-th value of a batch is put on: the node made just before
\* it, or the old top.
Below(n) == IF n = 1 THEN top ELSE Len(stackValue) + n - 1

\* Push, with one value, and PushAll, which returns at once when there is none.
PushAll(vs) ==
    /\ vs # <<>> /\ Len(stackValue) + Len(vs) <= MaxNodes
    /\ stackValue' = stackValue \o vs
    /\ stackNext' = stackNext \o [n \in 1 .. Len(vs) |-> Below(n)]
    /\ top' = Len(stackValue) + Len(vs) /\ stackSize' = stackSize + Len(vs)
    /\ UNCHANGED popped
Push(v) == PushAll(<<v>>)

Pop ==
    /\ \/ top = 0 /\ popped' = None /\ UNCHANGED <<top, stackSize>>
       \/ /\ top # 0 /\ popped' = stackValue[top]
          /\ top' = stackNext[top] /\ stackSize' = stackSize - 1
    /\ UNCHANGED <<stackValue, stackNext>>

Peek ==
    /\ popped' = IF top = 0 THEN None ELSE stackValue[top]
    /\ UNCHANGED <<top, stackSize, stackValue, stackNext>>

ClearStack ==
    /\ top' = 0 /\ stackSize' = 0
    /\ UNCHANGED <<stackValue, stackNext, popped>>

StackNext ==
    \/ \E v \in Values : Push(v)
    \/ \E vs \in Batches : PushAll(vs)
    \/ Pop \/ Peek \/ ClearStack

StackSpec == StackInit /\ [][StackNext]_stackVars
-----------------------------------------------------------------------------
\* The values from node n down.
Down[n \in 0 .. Len(stackValue)] ==
    IF n = 0 THEN <<>> ELSE <<stackValue[n]>> \o Down[stackNext[n]]
Lifo == INSTANCE Lifo WITH stack <- Down[top], size <- stackSize, out <- popped

\* The stack is last in, first out, also across the values of one PushAll, and Size
\* counts what Pop can still return.
StackRefinesLifo == Lifo!Spec

\* Every node points to one that was allocated before it, or to none: no chain of
\* nodes is endless.
FastStackInv ==
    /\ stackValue \in Seq(Values) /\ stackNext \in Seq(Nat)
    /\ Len(stackNext) = Len(stackValue) /\ top \in 0 .. Len(stackValue)
    /\ \A n \in 1 .. Len(stackValue) : stackNext[n] < n
=============================================================================
