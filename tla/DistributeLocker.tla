------------------------- MODULE DistributeLocker -------------------------
(***************************************************************************)
(* distribute_locker.go and retry-strategy.go: a lock on one Redis key,    *)
(* taken with SETNX and a time to live, refreshed and released by scripts  *)
(* that compare the owner.  A client is a goroutine, in any process, that  *)
(* locks the resource under its own owner name.                            *)
(*                                                                         *)
(* A command is sent, executed by the server once or more (the Redis       *)
(* client resends a command whose answer is lost), and answered; or it     *)
(* fails for the caller, executed or not, and may still reach the server   *)
(* at any later time.                                                      *)
(* "until" is not in the code: it is how long the holder of a              *)
(* DistributeLock may rely on it, counted from the moment the command that *)
(* granted it was sent.                                                    *)
(***************************************************************************)
EXTENDS Integers, FiniteSets

CONSTANTS
    Clients,   \* goroutines, each with an owner name of its own
    None,      \* no owner
    Ttl,       \* DistributeLockOptions.Ttl, in ticks
    Refreshes, \* the ttl arguments of Refresh, in ticks; 0 is below a millisecond
    Backoffs,  \* what RetryStrategy.Next returns; NoRetry returns 0
    Deadlines, \* how far the caller's context deadline is, when it has one
    MaxTime,   \* bound on the clock
    MaxLate    \* bound on the commands that are late at once

ASSUME LockerAssumption ==
    /\ None \notin Clients
    /\ Ttl \in Nat /\ MaxTime \in Nat /\ MaxLate \in Nat
    /\ Refreshes \subseteq Nat /\ Backoffs \subseteq Nat /\ Deadlines \subseteq Nat

VARIABLES
    now,       \* the clock
    key,       \* the owner stored under the resource's key
    expires,   \* when the key expires
    pc,        \* where each client is
    sent,      \* when the client's pending command was first sent
    ttl,       \* the ttl in the client's pending command
    answer,    \* the server's answer to it
    wake,      \* when the client's backoff ends
    deadline,  \* the deadline of the client's context
    late,      \* failed commands that may still reach the server
    until,     \* how long the client may rely on the lock
    closed     \* DistributeLocker.Close was called

server == <<key, expires>>
client == <<sent, ttl, answer, wake, deadline>>
vars == <<now, server, pc, client, late, until, closed>>

Init ==
    /\ now = 0 /\ key = None /\ expires = 0 /\ closed = FALSE
    /\ pc = [c \in Clients |-> "idle"]
    /\ sent = [c \in Clients |-> 0] /\ ttl = [c \in Clients |-> 0]
    /\ answer = [c \in Clients |-> FALSE]
    /\ wake = [c \in Clients |-> 0] /\ deadline = [c \in Clients |-> 0]
    /\ late = {} /\ until = [c \in Clients |-> 0]

\* What GET finds: a key past its time to live is gone.
Get == IF now < expires THEN key ELSE None
Minimum(a, b) == IF a < b THEN a ELSE b

Send(c, op, t) ==
    /\ pc' = [pc EXCEPT ![c] = op]
    /\ sent' = [sent EXCEPT ![c] = now]
    /\ ttl' = [ttl EXCEPT ![c] = t]

\* The call is over: its local variables are gone.
Settle(c, p) ==
    /\ pc' = [pc EXCEPT ![c] = p]
    /\ sent' = [sent EXCEPT ![c] = 0] /\ ttl' = [ttl EXCEPT ![c] = 0]
    /\ answer' = [answer EXCEPT ![c] = FALSE]
    /\ wake' = [wake EXCEPT ![c] = 0] /\ deadline' = [deadline EXCEPT ![c] = 0]
-----------------------------------------------------------------------------
\* LockWithOptions: the context's deadline is now + ttl when the caller's has none.
Lock(c) ==
    /\ pc[c] = "idle" /\ ~closed
    /\ \E d \in Deadlines \cup {Ttl} :
         /\ now + d <= MaxTime
         /\ deadline' = [deadline EXCEPT ![c] = now + d]
    /\ Send(c, "lock", Ttl)
    /\ UNCHANGED <<now, server, answer, wake, late, until, closed>>

\* Close sets redisClient to nil, and the next call of Lock dereferences it.
LockAfterClose(c) ==
    /\ pc[c] = "idle" /\ closed
    /\ pc' = [pc EXCEPT ![c] = "panic"]
    /\ UNCHANGED <<now, server, client, late, until, closed>>

\* The server executes SETNX with a time to live: whether it set the key.
SetNX(c, t) ==
    /\ key' = IF Get = None THEN c ELSE key
    /\ expires' = IF Get = None THEN now + t ELSE expires

\* Mutant: what SetNX answers is not looked at.
GrantedUnchecked(c) ==
    /\ pc[c] = "locked"
    /\ Settle(c, "held")
    /\ until' = [until EXCEPT ![c] = sent[c] + ttl[c]]
    /\ UNCHANGED <<now, server, late, closed>>

\* SetNX answers true: the lock is granted.
Granted(c) ==
    /\ pc[c] = "locked" /\ answer[c]
    /\ Settle(c, "held")
    /\ until' = [until EXCEPT ![c] = sent[c] + ttl[c]]
    /\ UNCHANGED <<now, server, late, closed>>

\* SetNX answers false and RetryStrategy.Next gives the backoff: none means
\* ErrLockFailed, otherwise the client waits.
Refused(c) ==
    /\ pc[c] = "locked" /\ ~answer[c]
    /\ \E b \in Backoffs :
         \/ b <= 0 /\ Settle(c, "idle")
         \/ /\ b > 0
            /\ pc' = [pc EXCEPT ![c] = "wait"]
            /\ wake' = [wake EXCEPT ![c] = now + b]
            /\ UNCHANGED <<sent, ttl, answer, deadline>>
    /\ UNCHANGED <<now, server, late, until, closed>>

\* Mutant: only the delay is waited for, not the context.
RetryForever(c) ==
    /\ pc[c] = "wait" /\ now >= wake[c]
    /\ Send(c, "lock", ttl[c])
    /\ UNCHANGED <<now, server, answer, wake, deadline, late, until, closed>>

\* The select after a refusal: ctx.Done() gives ErrLockFailed, and so does SetNX
\* once the context is done; the end of the delay sends SetNX again.
Retry(c) ==
    /\ pc[c] = "wait"
    /\ \/ now >= deadline[c] /\ Settle(c, "idle")
       \/ now >= wake[c] /\ closed /\ Settle(c, "panic")
       \/ /\ now >= wake[c] /\ now < deadline[c] /\ ~closed
          /\ Send(c, "lock", ttl[c])
          /\ wake' = [wake EXCEPT ![c] = 0]
          /\ UNCHANGED <<answer, deadline>>
    /\ UNCHANGED <<now, server, late, until, closed>>
-----------------------------------------------------------------------------
\* Refresh sends luaRefresh.  Until it is answered the holder can rely on neither
\* more than the old lease nor more than the new one.
Refresh(c, t) ==
    /\ pc[c] = "held" /\ ~closed
    /\ Send(c, "refresh", t)
    /\ until' = [until EXCEPT ![c] = Minimum(@, now + t)]
    /\ UNCHANGED <<now, server, answer, wake, deadline, late, closed>>

\* luaRefresh: PEXPIRE of no milliseconds deletes the key, and also answers 1.
LuaRefresh(c, t) ==
    /\ expires' = IF Get = c THEN now + t ELSE expires
    /\ key' = IF Get = c /\ t = 0 THEN None ELSE key

\* Refresh returns nil on 1 and ErrLockNotHeld otherwise.
Refreshed(c) ==
    /\ pc[c] = "refreshed"
    /\ Settle(c, IF answer[c] THEN "held" ELSE "idle")
    /\ until' = [until EXCEPT ![c] = IF answer[c] THEN sent[c] + ttl[c] ELSE 0]
    /\ UNCHANGED <<now, server, late, closed>>

\* Release sends luaRelease.
Release(c) ==
    /\ pc[c] = "held" /\ ~closed
    /\ Send(c, "release", 0)
    /\ until' = [until EXCEPT ![c] = 0]
    /\ UNCHANGED <<now, server, answer, wake, deadline, late, closed>>

\* Mutant: DEL without the comparison of the owner.
LuaReleaseUnchecked(c) ==
    /\ key' = None
    /\ UNCHANGED expires

\* luaRelease: DEL when the key holds the caller's owner.
LuaRelease(c) ==
    /\ key' = IF Get = c THEN None ELSE key
    /\ UNCHANGED expires

\* Release returns nil on 1 and ErrLockNotHeld otherwise.
Released(c) ==
    /\ pc[c] = "released"
    /\ Settle(c, "idle")
    /\ UNCHANGED <<now, server, late, until, closed>>
-----------------------------------------------------------------------------
\* The server executes the client's pending command.
Execute(c) ==
    /\ \/ /\ pc[c] = "lock" /\ SetNX(c, ttl[c])
          /\ pc' = [pc EXCEPT ![c] = "locked"]
          /\ answer' = [answer EXCEPT ![c] = (Get = None)]
       \/ /\ pc[c] = "refresh" /\ LuaRefresh(c, ttl[c])
          /\ pc' = [pc EXCEPT ![c] = "refreshed"]
          /\ answer' = [answer EXCEPT ![c] = (Get = c)]
       \/ /\ pc[c] = "release" /\ LuaRelease(c)
          /\ pc' = [pc EXCEPT ![c] = "released"]
          /\ answer' = [answer EXCEPT ![c] = (Get = c)]
    /\ UNCHANGED <<now, sent, ttl, wake, deadline, late, until, closed>>

\* The answer is lost and the Redis client sends the command again.
Resend(c) ==
    /\ ~closed
    /\ \/ pc[c] = "locked" /\ pc' = [pc EXCEPT ![c] = "lock"]
       \/ pc[c] = "refreshed" /\ pc' = [pc EXCEPT ![c] = "refresh"]
       \/ pc[c] = "released" /\ pc' = [pc EXCEPT ![c] = "release"]
    /\ UNCHANGED <<now, server, client, late, until, closed>>

\* The command returns an error.  LockWithOptions passes it on and gives no lock;
\* after Refresh and Release the caller still has its DistributeLock.  A command
\* the server has not executed yet may still be on its way.
Fail(c) ==
    /\ \/ /\ pc[c] \in {"lock", "refresh", "release"}
          /\ Cardinality(late) < MaxLate
          /\ late' = late \cup {<<c, pc[c], ttl[c]>>}
       \/ /\ pc[c] \in {"lock", "locked", "refresh", "refreshed", "release", "released"}
          /\ UNCHANGED late
    /\ Settle(c, IF pc[c] \in {"lock", "locked"} THEN "idle" ELSE "held")
    /\ UNCHANGED <<now, server, until, closed>>

\* A command that failed for the client reaches the server after all.
ExecuteLate(c) ==
    /\ \/ <<c, "lock", Ttl>> \in late /\ SetNX(c, Ttl)
       \/ \E t \in Refreshes : <<c, "refresh", t>> \in late /\ LuaRefresh(c, t)
       \/ <<c, "release", 0>> \in late /\ LuaRelease(c)
    /\ UNCHANGED <<now, pc, client, late, until, closed>>

\* The holder drops its DistributeLock, or its process dies, without Release.
Abandon(c) ==
    /\ pc[c] = "held"
    /\ pc' = [pc EXCEPT ![c] = "idle"]
    /\ until' = [until EXCEPT ![c] = 0]
    /\ UNCHANGED <<now, server, client, late, closed>>

\* DistributeLocker.Close closes the Redis client and forgets it.
Close ==
    /\ ~closed /\ closed' = TRUE
    /\ UNCHANGED <<now, server, pc, client, late, until>>

Tick ==
    /\ now < MaxTime /\ now' = now + 1
    /\ UNCHANGED <<server, pc, client, late, until, closed>>

Step(c) ==
    \/ Lock(c) \/ LockAfterClose(c) \/ Granted(c) \/ Refused(c) \/ Retry(c)
    \/ \E t \in Refreshes : Refresh(c, t)
    \/ Refreshed(c) \/ Release(c) \/ Released(c)
    \/ Execute(c) \/ Resend(c) \/ Fail(c) \/ ExecuteLate(c) \/ Abandon(c)

Next == Close \/ Tick \/ \E c \in Clients : Step(c)

Spec == Init /\ [][Next]_vars

\* A command returns, by its answer or by the Redis client's timeouts and its
\* bounded number of resends; a goroutine that can leave its select leaves it.
Return(c) == Granted(c) \/ Refused(c) \/ Fail(c)
FairSpec ==
    /\ Spec /\ WF_vars(Tick)
    /\ \A c \in Clients : WF_vars(Return(c)) /\ WF_vars(Retry(c))
-----------------------------------------------------------------------------
Commands == {"lock", "locked", "refresh", "refreshed", "release", "released"}

\* The type of the variables of DistributeLocker.
TypeOK ==
    /\ now \in Nat /\ key \in Clients \cup {None} /\ expires \in Nat
    /\ pc \in [Clients -> Commands \cup {"idle", "wait", "held", "panic"}]
    /\ sent \in [Clients -> Nat] /\ ttl \in [Clients -> Nat]
    /\ answer \in [Clients -> BOOLEAN]
    /\ wake \in [Clients -> Int] /\ deadline \in [Clients -> Nat]
    /\ late \subseteq Clients \X {"lock", "refresh", "release"} \X Nat
    /\ until \in [Clients -> Nat] /\ closed \in BOOLEAN

\* No Refresh or Release of the client failed while still on its way.
Clean(c) == \A m \in late : m[1] = c => m[2] = "lock"
Holds(c) == now < until[c]

\* What the SETNX and the owner comparison of the scripts are for: two owners never
\* both rely on the lock, whatever is resent, lost, late, refreshed to a shorter
\* time or abandoned, as long as no Refresh or Release of theirs is still on its way
\* after it failed (one that is would act on a later lock of the same owner).
MutualExclusion ==
    \A c, d \in Clients :
        Holds(c) /\ Holds(d) /\ Clean(c) /\ Clean(d) => c = d

\* The clients that rely on the lock and may.
Holders == {c \in Clients : Holds(c) /\ Clean(c)}
Single == INSTANCE SingleHolder WITH holders <- Holders

\* The lock passes from owner to owner one at a time: LockWithOptions gives it to a
\* client only when nobody relies on it any more, and no Refresh, Release, failure or
\* late command hands it over in any other way.
OneAtATime == Single!Spec

\* The inductive form: who relies on the lock owns the key, which does not expire
\* before; who is about to be told it has the lock does too.
Backed(c, t) == now < t /\ Clean(c) => key = c /\ t <= expires
Lease(c) ==
    /\ sent[c] <= now
    /\ Backed(c, until[c])
    /\ pc[c] \in {"locked", "refreshed"} /\ answer[c] => Backed(c, sent[c] + ttl[c])
    /\ pc[c] \in {"refresh", "refreshed"} => until[c] <= sent[c] + ttl[c]
    /\ pc[c] \notin {"held", "refresh", "refreshed"} => until[c] = 0
LeaseInv == \A c \in Clients : Lease(c)
LockerInv == TypeOK /\ LeaseInv

\* "make sure we don't retry forever" (distribute_locker.go:77): every call of
\* LockWithOptions returns, by its deadline if not before.
LockReturns ==
    \A c \in Clients :
        pc[c] \in {"lock", "locked", "wait"} ~> pc[c] \in {"idle", "held", "panic"}
=============================================================================
