--------------------------- MODULE HubProperties ---------------------------
(***************************************************************************)
(* What the hub of hub.go keeps true, whatever the order in which its      *)
(* goroutines, the clients and the application run; the inductive          *)
(* invariant behind it; and what comments of hub.go promise.               *)
(***************************************************************************)
EXTENDS Hub

TaskStates == {"off", "read", "message", "select", "wait", "write", "error", "shut",
               "post", "done", "dead"}
ProcStates == {"idle", "closing", "pushing", "lock", "waiting", "sweep", "rlock", "push",
               "len", "delete", "make", "store", "count", "close", "closeWrite", "sleep",
               "done", "dead"}
ChanStates == {"nil", "open", "closed"}

LineType ==
    /\ conn \in [Lines -> {"none", "open", "closed"}]
    /\ starter \in [Lines -> {"idle", "reader", "writer", "register", "done"}]
    /\ task \in [Tasks -> [Lines -> TaskStates]]
    /\ leaving \in [Lines -> BOOLEAN]
    /\ seen \in [Lines -> SUBSET {"close", "write"}]
ChanType ==
    /\ closeChan \in [Lines -> ChanStates] /\ writeChan \in [Lines -> ChanStates]
    /\ queued \in [Lines -> 0..WriteCap]
ListType ==
    /\ lines \in [Lines -> Seq(Lines)]
    /\ wlock \in [Lines -> Procs \cup {None}] /\ rlocks \in [Lines -> SUBSET Procs]
MapType == connections \in [Users -> Lines \cup {None}] /\ connCount \in Int
HubChanType ==
    /\ messageChan \in 0..MessageCap /\ errorChan \in 0..ErrorCap /\ hubClosed \in 0..5
    /\ registeredChan \in Seq(Lines) /\ Len(registeredChan) <= RegisteredCap
    /\ unregisteredChan \in Seq(Lines) /\ Len(unregisteredChan) <= UnregisteredCap
LoopType ==
    /\ pc \in [Procs -> ProcStates]
    /\ obj \in [Procs -> Lines \cup {None}]
    /\ sel \in [Procs -> SUBSET Lines] /\ todo \in [Procs -> SUBSET Users]
    /\ rest \in [Procs -> Seq(Lines)] /\ kept \in [Procs -> Seq(Lines)]
HandlingType ==
    /\ handling \in [{"registrar", "unregistrar"} -> Lines \cup {None}]
    /\ delArr \subseteq Users
    /\ spent \in [Resources -> Nat]
    /\ crashed \in BOOLEAN

\* A goroutine that is inside an operation on a list has a list, and one that
\* handles a line has a line: no step dereferences a nil pointer.
HasObject ==
    /\ \A p \in Procs : pc[p] \in {"lock", "waiting", "sweep", "rlock", "push", "len"}
                            => obj[p] # None
    /\ pc["registrar"] # "idle" => Registering # None
    /\ pc["unregistrar"] # "idle" => Unregistering # None

\* Every variable has its type, and no goroutine works on a nil list or line.
TypeOK ==
    /\ LineType /\ ChanType /\ ListType /\ MapType /\ HubChanType /\ LoopType
    /\ HandlingType /\ HasObject

Elems(s) == {s[i] : i \in DOMAIN s}
Listed(l) == \E o \in Lines : l \in Elems(lines[o])

\* A list is only ever changed by the goroutine that holds its lock, and never
\* while a push reads it: the loops of UserLines run between Lock and Unlock
\* (a sweep) or RLock and RUnlock (a push), whoever waits in them and however long.
LockDiscipline ==
    /\ \A p \in Procs : pc[p] = "sweep" => wlock[obj[p]] = p
    /\ \A p \in Procs : pc[p] = "push" => p \in rlocks[obj[p]]
    /\ \A o \in Lines : wlock[o] # None => rlocks[o] = {}

\* A close or a push never reaches a line whose channels are still nil, where it
\* would wait for ever: the registrar makes both channels before it adds the line.
ListedHasChannels ==
    \A l \in Lines : Listed(l) => closeChan[l] # "nil" /\ writeChan[l] # "nil"

\* A user's list holds that user's connections only, also in lists that were
\* dropped from the map while somebody still uses them.
UserIsolation ==
    /\ \A u \in Users : connections[u] # None => UserOf[connections[u]] = u
    /\ \A o \in Lines : \A l \in Elems(lines[o]) : UserOf[l] = UserOf[o]

\* No connection is in two places: a line is in at most one list, once, whatever
\* the registrar, the sweeps and the deletions of users do in between.
ListedOnce ==
    \A o1, o2 \in Lines : \A i \in DOMAIN lines[o1], j \in DOMAIN lines[o2] :
        lines[o1][i] = lines[o2][j] => o1 = o2 /\ i = j

\* No connection is forgotten: once the registrar is done with a line, the line
\* stays in a list until its writer has been told to close.
NoSilentDrop ==
    \A l \in Lines :
        closeChan[l] # "nil" /\ handling["registrar"] # l => Listed(l) \/ leaving[l]

\* A goroutine that panicked in a loop over lines has left its lock behind it, also
\* when the pool recovers the panic and the hub runs on: the unlocks are deferred.
NoAbandonedLock ==
    \A p \in Procs, o \in Lines : pc[p] = "dead" => wlock[o] # p /\ p \notin rlocks[o]

\* As long as panics end the process, a sweep never waits for a writer that was
\* told to close before: a second close signal would hold the user's lock for ever.
NoSecondSignal ==
    ~PoolRecovers =>
        \A p \in Procs : \A l \in Lines :
            pc[p] = "sweep" /\ l \in Elems(rest[p]) /\ closeChan[l] = "open"
                => ~leaving[l]
-----------------------------------------------------------------------------
(* The inductive invariant.                                                *)

Distinct(s) == \A i, j \in DOMAIN s : s[i] = s[j] => i = j
Unadded(l) == Registering = l /\ pc["registrar"] \in {"make", "store", "lock", "waiting"}

\* The locks and the goroutines inside the loops agree, both ways.
LockInv ==
    /\ LockDiscipline
    /\ \A p \in Procs, o \in Lines : wlock[o] = p => pc[p] = "sweep" /\ obj[p] = o
    /\ \A p \in Procs, o \in Lines : p \in rlocks[o] => pc[p] = "push" /\ obj[p] = o

\* A line is on its way to the registrar, in its hands, or done with, and has no
\* channels before and both channels after.
RegistrationInv ==
    /\ \A l \in Lines : starter[l] # "done" => closeChan[l] = "nil"
    /\ \A l \in Elems(registeredChan) : starter[l] = "done" /\ closeChan[l] = "nil"
    /\ Distinct(registeredChan)
    /\ \A l \in Lines : closeChan[l] = "nil" => writeChan[l] = "nil" /\ ~leaving[l]
    /\ pc["registrar"] # "idle" => closeChan[Registering] # "nil"
    /\ pc["registrar"] \in {"lock", "waiting", "store", "count"}
           => writeChan[Registering] # "nil"
    /\ pc["registrar"] = "idle" => Registering = None
    /\ pc["registrar"] \in {"idle", "make", "store", "lock", "waiting", "count"}

\* The list the registrar has loaded belongs to the user of the line it adds.
OwnerInv ==
    /\ UserIsolation
    /\ pc["registrar"] \in {"lock", "waiting"}
           => UserOf[obj["registrar"]] = UserOf[Registering]

\* A sweep accounts for every line of the list it holds, and for no other.
SweepInv ==
    \A p \in Procs : pc[p] = "sweep" =>
        /\ Elems(rest[p]) \cup Elems(kept[p]) \subseteq Elems(lines[obj[p]])
        /\ \A l \in Elems(lines[obj[p]]) :
               l \in Elems(rest[p]) \cup Elems(kept[p]) \/ leaving[l]
        /\ Distinct(rest[p]) /\ Distinct(kept[p])
        /\ Elems(rest[p]) \cap Elems(kept[p]) = {}

\* Outside of a loop over lines the slice being built is empty.
KeptInv == \A p \in Procs : pc[p] \notin {"sweep", "dead"} => kept[p] = <<>>

\* A line stays listed until it is told to close; being added counts as listed.
DropInv ==
    /\ NoSilentDrop
    /\ pc["registrar"] = "count" => Listed(Registering) \/ leaving[Registering]

\* A line that was told to close, has an open closeChan and is still listed, has
\* just been passed by the sweep that holds the lock.
SignalInv ==
    ~PoolRecovers /\ ~crashed =>
        \A o \in Lines : \A l \in Elems(lines[o]) :
            leaving[l] /\ closeChan[l] = "open" =>
                /\ wlock[o] # None
                /\ l \notin Elems(rest[wlock[o]]) \cup Elems(kept[wlock[o]])

\* A line the registrar has yet to add is in no list; when it is told to close, it has
\* seen its channel closed.
UnaddedInv ==
    \A l \in Lines : Unadded(l) => ~Listed(l) /\ (leaving[l] => closeChan[l] = "closed")

\* The invariant that every step of the hub preserves.
HubInv ==
    /\ TypeOK /\ LockInv /\ RegistrationInv /\ ListedHasChannels /\ OwnerInv
    /\ ListedOnce /\ SweepInv /\ KeptInv /\ DropInv /\ SignalInv /\ UnaddedInv
-----------------------------------------------------------------------------
(* The abstract specification.                                             *)

\* A line waits as long as it has no channels, and joins while the registrar has it.
Waiting == {l \in Lines : closeChan[l] = "nil"}
Joining == {l \in Lines : Unadded(l)}
Told == {l \in Lines : leaving[l]}

\* The lines of a user, in the list of the map and in the lists dropped from it.
Members ==
    [u \in Users |->
        {l \in Lines : \E o \in Lines : UserOf[o] = u /\ l \in Elems(lines[o])}]

Connection == INSTANCE Membership WITH
    waiting <- Waiting, joining <- Joining, members <- Members, told <- Told

\* Whatever the registrar, the sweeps, the deletions of users and the panics do in
\* between, every connection goes one way: it joins the lists of its own user once,
\* leaves them only after it has been told to close, and never comes back.
ConnectionsGoOneWay == Connection!Spec
-----------------------------------------------------------------------------
(* Progress.                                                               *)

\* A writer whose running select began before the registrar made closeChan: it
\* can receive nothing and never looks at the field again.
Deaf(l) ==
    task["writer"][l] = "wait" /\ "close" \notin seen[l] /\ closeChan[l] # "nil"

\* Every sweep that closes connections under a user's lock ends, unless it meets a
\* writer that went into its select too early, or a writer that cannot post its
\* line because unregisteredChan is full: then the unregistrar may need the lock.
SweepCompletes ==
    \A p \in Procs :
        pc[p] = "sweep" ~>
            \/ pc[p] # "sweep" \/ crashed
            \/ \E l \in Lines : Deaf(l)
            \/ Len(unregisteredChan) = UnregisteredCap

\* A writer whose running select began before the registrar made writeChan.
DeafToMessages(l) ==
    task["writer"][l] = "wait" /\ "write" \notin seen[l] /\ writeChan[l] # "nil"

\* Every push that waits on a full writeChan under a user's read lock ends, with the
\* sweeps and pushes that wait for that lock behind it, unless it meets a writer that
\* went into its select too early, or one that cannot post its line.
PushCompletes ==
    \A p \in Callers :
        pc[p] = "push" ~>
            \/ pc[p] # "push" \/ crashed
            \/ \E l \in Lines : DeafToMessages(l)
            \/ Len(unregisteredChan) = UnregisteredCap

-----------------------------------------------------------------------------
(* What comments of hub.go say of the program, and the code does not keep. *)

\* LiveCount() counts the connections that are still up ("所有仍在连接状态的数量"),
\* so it is never negative.
LiveCountNotNegative == connCount >= 0

\* Lines are taken out of the list before their channels are closed, so that
\* nothing is sent on a closed channel ("先删后关，防止在关闭之后，出现向通道意外发送的情况").
NoSendOnClosed == \A p \in Procs : ~SendsOnClosed(p)

\* The unregistrar and the reaper delete a user who has no connection
\* ("如果用户没有连接，则删除用户"), never one who has.
DeleteOnlyEmpty ==
    [][pc["closer"] # "sleep" =>
         \A u \in Users :
            connections[u] # None /\ connections'[u] = None
                => lines[connections[u]] = <<>>]_vars

\* CloseAll closes all connections of the list ("关闭所有连接"): the call ends.
CloseAllEnds ==
    \A p \in Callers : pc[p] = "sweep" ~> pc[p] # "sweep" \/ crashed
=============================================================================
