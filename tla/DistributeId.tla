---------------------------- MODULE DistributeId ----------------------------
(***************************************************************************)
(* distribute_id.go: ids counted up under one Redis key by every process.  *)
(* NewGenerator sets the key to its start unless it exists, once per       *)
(* process; Next increments it.  SETNX and INCRBY are atomic on the server *)
(* (external); their answers may be lost, and the Redis client may send a  *)
(* command again that the server has already executed.                     *)
(***************************************************************************)
EXTENDS Nil

CONSTANTS Procs,
          Starts,     \* the start a caller of NewGenerator asks for
          MaxValue    \* bound on the counter

ASSUME DistributeIdAssumption == Starts \subseteq Nat /\ MaxValue \in Nat

VARIABLES key,      \* the value under the key, None when there is none
          base,     \* the start the key was set to
          gen,      \* processes whose idGenerators has the key
          pc, answer,  \* each process's pending command and its answer
          last, ids    \* the id returned last, and those returned before it

vars == <<key, base, gen, pc, answer, last, ids>>

Init ==
    /\ key = None /\ base = None /\ gen = {}
    /\ pc = [p \in Procs |-> "idle"] /\ answer = [p \in Procs |-> None]
    /\ last = None /\ ids = {}

Goto(p, l) == pc' = [pc EXCEPT ![p] = l]

\* NewGenerator: the generator of the map, or a new one whose init sends SETNX.
NewGenerator(p) ==
    /\ pc[p] = "idle" /\ p \notin gen /\ Goto(p, "setnx")
    /\ UNCHANGED <<key, base, gen, answer, last, ids>>

\* Mutant: SET in place of SETNX.
SetAlways(p) ==
    /\ pc[p] = "setnx" /\ Goto(p, "set")
    /\ \E start \in Starts : key' = start /\ base' = start
    /\ UNCHANGED <<gen, answer, last, ids>>

SetNX(p) ==
    /\ pc[p] = "setnx" /\ Goto(p, "set")
    /\ \/ /\ key = None
          /\ \E start \in Starts : key' = start /\ base' = start
       \/ key # None /\ UNCHANGED <<key, base>>
    /\ UNCHANGED <<gen, answer, last, ids>>

\* SETNX answers, whichever process set the key: the generator is kept in the map.
Keep(p) ==
    /\ pc[p] = "set" /\ Goto(p, "idle") /\ gen' = gen \cup {p}
    /\ UNCHANGED <<key, base, answer, last, ids>>

NextId(p) ==
    /\ pc[p] = "idle" /\ p \in gen /\ Goto(p, "incrby")
    /\ UNCHANGED <<key, base, gen, answer, last, ids>>

IncrBy(p) ==
    /\ pc[p] = "incrby" /\ key < MaxValue /\ Goto(p, "incremented")
    /\ key' = key + 1 /\ answer' = [answer EXCEPT ![p] = key + 1]
    /\ UNCHANGED <<base, gen, last, ids>>

\* Next returns the answer of INCRBY.
Return(p) ==
    /\ pc[p] = "incremented" /\ Goto(p, "idle")
    /\ last' = answer[p] /\ ids' = ids \cup {last}
    /\ answer' = [answer EXCEPT ![p] = None]
    /\ UNCHANGED <<key, base, gen>>

\* The answer is lost and the Redis client sends the command again.
Resend(p) ==
    /\ \/ pc[p] = "set" /\ Goto(p, "setnx")
       \/ pc[p] = "incremented" /\ Goto(p, "incrby")
    /\ UNCHANGED <<key, base, gen, answer, last, ids>>

\* The command fails, executed or not: NewGenerator keeps no generator, Next
\* returns -1 and the error.
Fail(p) ==
    /\ pc[p] # "idle" /\ Goto(p, "idle")
    /\ answer' = [answer EXCEPT ![p] = None]
    /\ UNCHANGED <<key, base, gen, last, ids>>

\* Close clears idGenerators; a process that starts again begins without any.
Close(p) ==
    /\ p \in gen /\ pc[p] = "idle" /\ gen' = gen \ {p}
    /\ UNCHANGED <<key, base, pc, answer, last, ids>>

Next ==
    \E p \in Procs :
        \/ NewGenerator(p) \/ SetNX(p) \/ Keep(p) \/ NextId(p) \/ IncrBy(p) \/ Return(p)
        \/ Resend(p) \/ Fail(p) \/ Close(p)

Spec == Init /\ [][Next]_vars
-----------------------------------------------------------------------------
\* No id is returned twice, by any process, through restarts, lost answers and
\* commands sent again; all are above the start that took effect.
UniqueIds ==
    /\ last \notin ids \ {None}
    /\ last # None => base < last /\ last <= key

Issued == (ids \cup {last}) \ {None}
Answered(p) == pc[p] = "incremented"

TypeInv ==
    /\ key \in Int \cup {None} /\ base \in Int \cup {None} /\ gen \subseteq Procs
    /\ pc \in [Procs -> {"idle", "setnx", "set", "incrby", "incremented"}]
    /\ answer \in [Procs -> Int \cup {None}]
    /\ last \in Int \cup {None} /\ ids \subseteq Int \cup {None}

\* The key is set before anybody has a generator or an answer of SETNX.
KeyInv ==
    /\ key # None => base # None /\ base <= key
    /\ \A p \in Procs : p \in gen \/ pc[p] \in {"set", "incrby", "incremented"} => key # None

\* What is issued or on its way lies between the start and the counter, and an answer on
\* its way was given to nobody else.
AnswerInv ==
    /\ \A i \in Issued : key # None /\ base < i /\ i <= key
    /\ \A p \in Procs : Answered(p) =>
         answer[p] # None /\ base < answer[p] /\ answer[p] <= key /\ answer[p] \notin Issued
    /\ \A p, q \in Procs : Answered(p) /\ Answered(q) /\ p # q => answer[p] # answer[q]

\* The inductive invariant: the ids that NewGenerator, Next and Close have issued, and
\* those under way, are distinct and below the counter.
IdInv == TypeInv /\ KeyInv /\ AnswerInv /\ UniqueIds
=============================================================================
