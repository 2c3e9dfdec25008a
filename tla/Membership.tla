---------------------------- MODULE Membership ----------------------------
(***************************************************************************)
(* What the hub of hub.go promises about connections, without goroutines,  *)
(* locks, channels and lists: a connection waits until the hub takes it,   *)
(* joins the connections of its own user, and leaves for good, only after  *)
(* it has been told to close.                                              *)
(***************************************************************************)
CONSTANTS Lines, Users, UserOf

VARIABLES
    waiting,  \* the lines the hub has not taken yet
    joining,  \* the line the hub is taking in, if any
    members,  \* the lines of every user
    told      \* the lines that have been told to close

vars == <<waiting, joining, members, told>>

Init ==
    /\ waiting = Lines /\ joining = {} /\ told = {}
    /\ members = [u \in Users |-> {}]

\* The hub takes one line at a time.
Take(l) ==
    /\ joining = {} /\ l \in waiting
    /\ waiting' = waiting \ {l} /\ joining' = {l}
    /\ UNCHANGED <<members, told>>

Join(l) ==
    /\ joining = {l} /\ joining' = {}
    /\ members' = [members EXCEPT ![UserOf[l]] = @ \cup {l}]
    /\ UNCHANGED <<waiting, told>>

\* Told by the hub, or seen by the line itself while the hub lets it go.
Tell(l) ==
    /\ l \notin waiting \cup told /\ told' = told \cup {l}
    /\ UNCHANGED <<waiting, joining, members>>

\* Some of a user's lines leave together.
Leave(u, gone) ==
    /\ gone # {} /\ gone \subseteq members[u] \cap told
    /\ members' = [members EXCEPT ![u] = @ \ gone]
    /\ UNCHANGED <<waiting, joining, told>>

Next ==
    \/ \E l \in Lines : Take(l) \/ Join(l) \/ Tell(l)
    \/ \E u \in Users, gone \in SUBSET Lines : Leave(u, gone)

Spec == Init /\ [][Next]_vars
=============================================================================
