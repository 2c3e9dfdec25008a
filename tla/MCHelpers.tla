----------------------------- MODULE MCHelpers -----------------------------
(***************************************************************************)
(* The helpers, for TLC: FastQueue, FastStack, Slices, Calendar, Platform. *)
(* They share nothing, so a behaviour uses one of them.                    *)
(***************************************************************************)
EXTENDS FastQueue, FastStack, Slices, Calendar, Platform

CONSTANTS a, b

VARIABLE uses   \* the helper in use

TwoValues == {a, b}
SmallBatches == {<<>>, <<a, b>>, <<b, b, a>>}
SomeItems == {a, b, Comma, Space}

\* Over a leap day, in a place where the clocks change in March and October.
Day(y, m, d) == [y |-> y, m |-> m, d |-> d]
FirstDay == Day(2023, 8, 1)
LastDay == Day(2024, 11, 1)
InMarch == {Day(2024, 3, 31)}
InOctober == {Day(2023, 10, 29), Day(2024, 10, 27)}

Init ==
    /\ uses \in {"queue", "stack", "slice", "calendar", "platform"}
    /\ QueueInit /\ StackInit /\ SliceInit /\ CalendarInit /\ PlatformInit
Next ==
    /\ UNCHANGED uses
    /\ \/ uses = "queue" /\ QueueNext /\ UNCHANGED <<stackVars, arr, now, number>>
       \/ uses = "stack" /\ StackNext /\ UNCHANGED <<queueVars, arr, now, number>>
       \/ uses = "slice" /\ SliceNext /\ UNCHANGED <<queueVars, stackVars, now, number>>
       \/ uses = "calendar" /\ Tick /\ UNCHANGED <<queueVars, stackVars, arr, number>>
       \/ uses = "platform" /\ PlatformNext /\ UNCHANGED <<queueVars, stackVars, arr, now>>
Spec == Init /\ [][Next]_<<uses, queueVars, stackVars, arr, now, number>>
=============================================================================
