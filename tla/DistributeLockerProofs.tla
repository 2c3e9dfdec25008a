---------------------- MODULE DistributeLockerProofs ----------------------
(***************************************************************************)
(* For any number of clients and any ttls, clock bound and number of late  *)
(* commands, LockerInv is inductive, it implies MutualExclusion, and the   *)
(* specification implements SingleHolder.                                  *)
(***************************************************************************)
EXTENDS DistributeLocker, TLAPS

\* A command of client c on the server leaves alone what backs another client:
\* SETNX acts on a free key only, the scripts on a key of their own owner only.
LEMMA ServerBacksOthers ==
    ASSUME NEW c \in Clients, NEW d \in Clients, c # d, NEW t \in Nat, NEW u \in Nat,
           TypeOK, now' = now, late \subseteq late', Backed(d, u),
           SetNX(c, t) \/ LuaRefresh(c, t) \/ LuaRelease(c) \/ UNCHANGED server
    PROVE  Backed(d, u)'
<1>1. Clean(d)' => Clean(d)
  BY DEF Clean
<1>2. d # None
  BY LockerAssumption
<1> QED
  BY <1>1, <1>2 DEF Backed, SetNX, LuaRefresh, LuaRelease, Get, server, TypeOK

\* What the end of a call leaves in a client's local variables has their types.
LEMMA SettleType ==
    ASSUME TypeOK, NEW c \in Clients, NEW p \in {"idle", "held", "panic"}, Settle(c, p),
           UNCHANGED <<now, server, closed>>, until' \in [Clients -> Nat],
           late' \subseteq Clients \X {"lock", "refresh", "release"} \X Nat
    PROVE  TypeOK'
<1>1. pc' \in [Clients -> Commands \cup {"idle", "wait", "held", "panic"}]
  BY DEF TypeOK, Settle
<1>2. sent' \in [Clients -> Nat] /\ ttl' \in [Clients -> Nat]
  BY DEF TypeOK, Settle
<1>3. answer' \in [Clients -> BOOLEAN]
  BY DEF TypeOK, Settle
<1>4. wake' \in [Clients -> Int] /\ deadline' \in [Clients -> Nat]
  BY DEF TypeOK, Settle
<1> QED
  BY <1>1, <1>2, <1>3, <1>4 DEF TypeOK, server

\* TypeOK is preserved by every step.
LEMMA LockerTypeStep == TypeOK /\ [Next]_vars => TypeOK'
<1> SUFFICES ASSUME TypeOK, [Next]_vars PROVE TypeOK'
  OBVIOUS
<1> USE LockerAssumption DEF TypeOK, Commands, vars, server, client, Send, Settle
<1>1. CASE Close
  BY <1>1 DEF Close
<1>2. CASE Tick
  BY <1>2 DEF Tick
<1>3. ASSUME NEW c \in Clients, Step(c) PROVE TypeOK'
  <2>1. CASE Lock(c)
    BY <2>1 DEF Lock
  <2>2. CASE LockAfterClose(c)
    BY <2>2 DEF LockAfterClose
  <2>3. CASE Granted(c)
    BY <2>3 DEF Granted
  <2>4. CASE Refused(c)
    <3>1. PICK b \in Backoffs : (b <= 0 /\ Settle(c, "idle")) \/
                                (b > 0 /\ pc' = [pc EXCEPT ![c] = "wait"] /\
                                 wake' = [wake EXCEPT ![c] = now + b] /\
                                 UNCHANGED <<sent, ttl, answer, deadline>>)
      BY <2>4 DEF Refused
    <3>2. UNCHANGED <<now, server, late, until, closed>>
      BY <2>4 DEF Refused
    <3>3. CASE Settle(c, "idle")
      BY <3>2, <3>3, SettleType
    <3>4. CASE ~Settle(c, "idle")
      BY <3>1, <3>2, <3>4
    <3> QED
      BY <3>3, <3>4
  <2>5. CASE Retry(c)
    <3>1. UNCHANGED <<now, server, late, until, closed>>
      BY <2>5 DEF Retry
    <3>2. CASE Settle(c, "idle") \/ Settle(c, "panic")
      <4>1. until' \in [Clients -> Nat]
            /\ late' \subseteq Clients \X {"lock", "refresh", "release"} \X Nat
        BY <3>1
      <4> QED
        BY ONLY <3>1, <3>2, <4>1, SettleType, TypeOK, c \in Clients
    <3>3. CASE Send(c, "lock", ttl[c]) /\ wake' = [wake EXCEPT ![c] = 0] /\
               UNCHANGED <<answer, deadline>>
      BY <3>1, <3>3
    <3> QED
      BY <2>5, <3>2, <3>3 DEF Retry
  <2>6. CASE \E t \in Refreshes : Refresh(c, t)
    BY <2>6 DEF Refresh, Minimum
  <2>7. CASE Refreshed(c)
    BY <2>7 DEF Refreshed
  <2>8. CASE Release(c)
    BY <2>8 DEF Release
  <2>9. CASE Released(c)
    BY <2>9 DEF Released
  <2>10. CASE Execute(c)
    <3>1. UNCHANGED <<now, sent, ttl, wake, deadline, late, until, closed>>
      BY <2>10 DEF Execute
    <3>2. answer' \in [Clients -> BOOLEAN]
      BY <2>10 DEF Execute
    <3>3. pc' \in [Clients -> Commands \cup {"idle", "wait", "held", "panic"}]
      BY <2>10 DEF Execute
    <3>4. key' \in Clients \cup {None} /\ expires' \in Nat
      BY <2>10 DEF Execute, SetNX, LuaRefresh, LuaRelease
    <3> QED
      BY <3>1, <3>2, <3>3, <3>4
  <2>11. CASE Resend(c)
    BY <2>11 DEF Resend
  <2>12. CASE Fail(c)
    <3>1. UNCHANGED <<now, server, until, closed>> /\ late' \subseteq late \cup {<<c, pc[c], ttl[c]>>}
      BY <2>12 DEF Fail
    <3>2. late' \subseteq Clients \X {"lock", "refresh", "release"} \X Nat
      BY <2>12 DEF Fail
    <3>3. Settle(c, "idle") \/ Settle(c, "held")
      BY <2>12 DEF Fail
    <3>4. until' \in [Clients -> Nat]
      BY <3>1
    <3> QED
      BY ONLY <3>1, <3>2, <3>3, <3>4, SettleType, TypeOK, c \in Clients
  <2>13. CASE ExecuteLate(c)
    <3>1. UNCHANGED <<now, pc, client, late, until, closed>>
      BY <2>13 DEF ExecuteLate
    <3>2. \E t \in Nat : SetNX(c, t) \/ LuaRefresh(c, t) \/ LuaRelease(c)
      BY <2>13 DEF ExecuteLate
    <3>3. key' \in Clients \cup {None} /\ expires' \in Nat
      BY <3>2 DEF SetNX, LuaRefresh, LuaRelease
    <3> QED
      BY <3>1, <3>3
  <2>14. CASE Abandon(c)
    BY <2>14 DEF Abandon
  <2> QED
    BY <1>3, <2>1, <2>2, <2>3, <2>4, <2>5, <2>6, <2>7, <2>8, <2>9, <2>10, <2>11,
       <2>12, <2>13, <2>14 DEF Step
<1>4. CASE UNCHANGED vars
  BY <1>4
<1> QED
  BY <1>1, <1>2, <1>3, <1>4 DEF Next

\* A step of client c keeps the lease of every other client.
LEMMA OthersKeepLease ==
    ASSUME LockerInv, NEW c \in Clients, NEW d \in Clients, d # c,
           now' = now, late \subseteq late',
           UNCHANGED <<pc[d], sent[d], ttl[d], answer[d], until[d]>>,
           \/ \E t \in Nat : SetNX(c, t) \/ LuaRefresh(c, t) \/ LuaRelease(c)
           \/ UNCHANGED server
    PROVE  Lease(d)'
<1>1. ASSUME NEW u \in Nat, Backed(d, u) PROVE Backed(d, u)'
  BY <1>1, ServerBacksOthers, 0 \in Nat DEF LockerInv
<1>2. Lease(d) /\ until[d] \in Nat /\ sent[d] + ttl[d] \in Nat
  BY DEF LockerInv, LeaseInv, TypeOK
<1>3. Backed(d, until[d]) => Backed(d, until[d])'
  BY <1>1, <1>2 DEF Backed
<1>4. Backed(d, sent[d] + ttl[d]) => Backed(d, sent[d] + ttl[d])'
  BY <1>1, <1>2 DEF Backed
<1> QED
  BY <1>2, <1>3, <1>4 DEF Lease

\* A command of client c on the server keeps what backs c itself: SETNX does not
\* change a key that is held, and Refresh has shortened the lease beforehand.
LEMMA ExecuteKeepsLease ==
    ASSUME LockerInv, NEW c \in Clients, Execute(c)
    PROVE  Lease(c)'
<1> USE DEF Lease, Backed
<1>1. /\ Lease(c) /\ now \in Nat /\ sent[c] \in Nat /\ ttl[c] \in Nat /\ until[c] \in Nat
      /\ expires \in Nat /\ c # None
  BY LockerAssumption DEF LockerInv, LeaseInv, TypeOK
<1>2. UNCHANGED <<now, sent, ttl, late, until>>
  BY DEF Execute
<1>3. Clean(c)' <=> Clean(c)
  BY <1>2 DEF Clean
<1>4. ASSUME pc[c] = "lock", SetNX(c, ttl[c]), pc'[c] = "locked", answer'[c] => Get = None
      PROVE  Lease(c)'
  <2>1. until[c] = 0
    BY <1>1, <1>4
  <2>2. answer'[c] => key' = c /\ expires' = now + ttl[c]
    BY <1>4 DEF SetNX
  <2>3. sent'[c] <= now' /\ Backed(c, until[c])'
    BY <1>1, <1>2, <2>1
  <2>4. answer'[c] => Backed(c, sent[c] + ttl[c])'
    BY <1>1, <1>2, <2>2
  <2> QED
    <3> HIDE DEF Backed
    <3> QED BY <1>2, <1>4, <2>1, <2>3, <2>4
<1>5. ASSUME pc[c] = "refresh", LuaRefresh(c, ttl[c]), pc'[c] = "refreshed", answer'[c] => Get = c
      PROVE  Lease(c)'
  <2>1. until[c] <= sent[c] + ttl[c]
    BY <1>1, <1>5
  <2>2. CASE Get = c
    <3>1. expires' = now + ttl[c] /\ (ttl[c] # 0 => key' = c)
      BY <1>1, <1>5, <2>2 DEF LuaRefresh, Get
    <3>2. sent[c] <= now /\ sent[c] + ttl[c] <= expires' /\ until[c] <= expires'
          /\ (now < until[c] \/ now < sent[c] + ttl[c] => key' = c)
      BY <1>1, <2>1, <3>1
    <3>3. Backed(c, until[c])' /\ Backed(c, sent[c] + ttl[c])'
      BY <1>2, <3>2
    <3> HIDE DEF Backed
    <3> QED
      BY <1>2, <1>5, <2>1, <3>2, <3>3
  <2>3. CASE Get # c
    <3>1. UNCHANGED <<key, expires>> /\ ~answer'[c]
      BY <1>5, <2>3 DEF LuaRefresh
    <3> QED
      BY <1>1, <1>2, <1>3, <1>5, <3>1
  <2> QED
    BY <2>2, <2>3
<1>6. ASSUME pc[c] = "release", pc'[c] = "released" PROVE Lease(c)'
  BY <1>1, <1>2, <1>6
<1>7. pc \in [Clients -> Commands \cup {"idle", "wait", "held", "panic"}] /\ answer \in [Clients -> BOOLEAN]
  BY DEF LockerInv, TypeOK
<1>8. \/ pc[c] = "lock" /\ SetNX(c, ttl[c]) /\ pc'[c] = "locked" /\ (answer'[c] => Get = None)
      \/ /\ pc[c] = "refresh" /\ LuaRefresh(c, ttl[c]) /\ pc'[c] = "refreshed"
         /\ (answer'[c] => Get = c)
      \/ pc[c] = "release" /\ pc'[c] = "released"
  BY <1>7 DEF Execute
<1> QED
  BY <1>4, <1>5, <1>6, <1>8

\* A late command of client c keeps what backs c: a late Refresh or Release means
\* that c is not clean.
LEMMA ExecuteLateKeepsLease ==
    ASSUME LockerInv, NEW c \in Clients, ExecuteLate(c)
    PROVE  Lease(c)'
<1> USE DEF Lease, Backed
<1>1. /\ Lease(c) /\ now \in Nat /\ sent[c] \in Nat /\ ttl[c] \in Nat /\ until[c] \in Nat
      /\ expires \in Nat /\ c # None
  BY LockerAssumption DEF LockerInv, LeaseInv, TypeOK
<1>2. UNCHANGED <<now, pc, sent, ttl, answer, late, until>>
  BY DEF ExecuteLate, client
<1>3. Clean(c)' <=> Clean(c)
  BY <1>2 DEF Clean
<1>4. CASE SetNX(c, Ttl)
  <2>1. \/ key' = key /\ expires' = expires
        \/ key' = c /\ expires' = now + Ttl /\ (key = c => expires <= now)
    BY <1>1, <1>4 DEF SetNX, Get
  <2>2. ASSUME NEW u \in Nat, Backed(c, u) PROVE Backed(c, u)'
    BY <1>1, <1>2, <1>3, <2>1, <2>2
  <2>3. sent[c] + ttl[c] \in Nat
    BY <1>1
  <2>4. /\ Backed(c, until[c]) => Backed(c, until[c])'
        /\ Backed(c, sent[c] + ttl[c]) => Backed(c, sent[c] + ttl[c])'
    BY <1>1, <1>2, <2>2, <2>3
  <2> HIDE DEF Backed
  <2> QED
    BY <1>1, <1>2, <2>4
<1>5. CASE ~SetNX(c, Ttl)
  <2>1. \E t : <<c, "refresh", t>> \in late \/ <<c, "release", 0>> \in late
    BY <1>5 DEF ExecuteLate
  <2>2. ~Clean(c)
    BY <2>1 DEF Clean
  <2> QED
    BY <1>1, <1>2, <1>3, <2>2
<1> QED
  BY <1>4, <1>5

\* The end of a call keeps the lease of the client, given what it may rely on.
LEMMA SettleKeepsLease ==
    ASSUME LockerInv, NEW c \in Clients, NEW p \in {"idle", "held", "panic"},
           Settle(c, p), UNCHANGED <<now, server>>, late \subseteq late',
           \/ until'[c] = 0
           \/ p = "held" /\ until'[c] = until[c]
           \/ p = "held" /\ until'[c] = sent[c] + ttl[c] /\ answer[c] /\ pc[c] \in {"locked", "refreshed"}
    PROVE  Lease(c)'
<1>1. /\ Lease(c) /\ now \in Nat /\ sent[c] \in Nat /\ ttl[c] \in Nat /\ until[c] \in Nat
  BY DEF LockerInv, LeaseInv, TypeOK
<1>2. pc'[c] = p /\ sent'[c] = 0 /\ answer'[c] = FALSE
  BY DEF LockerInv, TypeOK, Settle
<1>3. Clean(c)' => Clean(c)
  BY DEF Clean
<1>4. Backed(c, until[c])'
  BY <1>1, <1>2, <1>3 DEF Lease, Backed, server
<1> QED
  BY <1>1, <1>2, <1>4 DEF Lease

\* Every step of client c keeps the lease of c.
LEMMA OwnStepKeepsLease ==
    ASSUME LockerInv, NEW c \in Clients, Step(c)
    PROVE  Lease(c)'
<1>1. /\ Lease(c) /\ now \in Nat /\ sent[c] \in Nat /\ ttl[c] \in Nat /\ until[c] \in Nat
  BY DEF LockerInv, LeaseInv, TypeOK
<1>2. TypeOK
  BY DEF LockerInv
<1>3. CASE Lock(c)
  BY <1>1, <1>2, <1>3 DEF Lock, Send, Lease, Backed, TypeOK
<1>4. CASE LockAfterClose(c)
  BY <1>1, <1>2, <1>4 DEF LockAfterClose, Lease, Backed, TypeOK, client
<1>5. CASE Granted(c)
  <2>1. Settle(c, "held") /\ UNCHANGED <<now, server>> /\ late' = late
    BY <1>5 DEF Granted
  <2>2. until'[c] = sent[c] + ttl[c] /\ answer[c] /\ pc[c] \in {"locked", "refreshed"}
    BY <1>2, <1>5 DEF Granted, TypeOK
  <2> QED
    BY <2>1, <2>2, SettleKeepsLease
<1>6. CASE Refused(c)
  <2>1. until'[c] = 0 /\ UNCHANGED <<now, server>> /\ late' = late
    BY <1>1, <1>6 DEF Refused, Lease
  <2>2. CASE Settle(c, "idle")
    BY <2>1, <2>2, SettleKeepsLease
  <2>3. CASE pc'[c] = "wait" /\ UNCHANGED sent
    BY <1>1, <2>1, <2>3 DEF Lease, Backed
  <2> QED
    BY <1>2, <1>6, <2>2, <2>3 DEF Refused, TypeOK
<1>7. CASE Retry(c)
  <2>1. until'[c] = 0 /\ UNCHANGED <<now, server>> /\ late' = late
    BY <1>1, <1>7 DEF Retry, Lease
  <2>2. CASE Settle(c, "idle") \/ Settle(c, "panic")
    BY <2>1, <2>2, SettleKeepsLease
  <2>3. CASE Send(c, "lock", ttl[c])
    BY <1>1, <1>2, <2>1, <2>3 DEF Lease, Backed, Send, TypeOK
  <2> QED
    BY <1>7, <2>2, <2>3 DEF Retry
<1>8. ASSUME NEW t \in Refreshes, Refresh(c, t) PROVE Lease(c)'
  <2>1. t \in Nat
    BY LockerAssumption
  <2>2. pc'[c] = "refresh" /\ sent'[c] = now /\ ttl'[c] = t /\ UNCHANGED <<now, key, expires, late>>
    BY <1>2, <1>8 DEF Refresh, Send, TypeOK, server
  <2>3. until'[c] \in Nat /\ until'[c] <= until[c] /\ until'[c] <= now + t
    BY <1>1, <1>2, <1>8, <2>1 DEF Refresh, TypeOK, Minimum
  <2>4. Clean(c)' <=> Clean(c)
    BY <2>2 DEF Clean
  <2>5. Backed(c, until[c])'
    <3>1. Backed(c, until[c]) BY <1>1 DEF Lease
    <3>2. now \in Nat /\ until[c] \in Nat /\ expires \in Nat BY <1>2 DEF TypeOK
    <3> QED BY <2>2, <2>3, <2>4, <3>1, <3>2 DEF Backed
  <2>6. sent'[c] <= now' /\ until'[c] <= sent'[c] + ttl'[c]
    BY <1>2, <2>2, <2>3 DEF TypeOK
  <2> QED
    BY <2>2, <2>5, <2>6 DEF Lease
<1>9. CASE Refreshed(c)
  <2>1. UNCHANGED <<now, server>> /\ late' = late
    BY <1>9 DEF Refreshed
  <2>2. CASE answer[c]
    <3>1. Settle(c, "held") /\ until'[c] = sent[c] + ttl[c] /\ pc[c] \in {"locked", "refreshed"}
      BY <1>2, <1>9, <2>2 DEF Refreshed, TypeOK
    <3> QED
      BY <2>1, <2>2, <3>1, SettleKeepsLease
  <2>3. CASE ~answer[c]
    <3>1. Settle(c, "idle") /\ until'[c] = 0
      BY <1>2, <1>9, <2>3 DEF Refreshed, TypeOK
    <3> QED
      BY <2>1, <3>1, SettleKeepsLease
  <2> QED
    BY <2>2, <2>3
<1>10. CASE Release(c)
  BY <1>1, <1>2, <1>10 DEF Release, Send, Lease, Backed, TypeOK
<1>11. CASE Released(c)
  <2>1. Settle(c, "idle") /\ UNCHANGED <<now, server>> /\ late' = late /\ until'[c] = 0
    BY <1>1, <1>11 DEF Released, Lease
  <2> QED
    BY <2>1, SettleKeepsLease
<1>12. CASE Execute(c)
  BY <1>12, ExecuteKeepsLease
<1>13. CASE Resend(c)
  <2>1. UNCHANGED <<now, key, expires, sent, ttl, answer, late, until>>
    BY <1>13 DEF Resend, server, client
  <2>2. Clean(c)' <=> Clean(c)
    BY <2>1 DEF Clean
  <2>3. \/ pc[c] = "locked" /\ pc'[c] = "lock"
        \/ pc[c] = "refreshed" /\ pc'[c] = "refresh"
        \/ pc[c] = "released" /\ pc'[c] = "release"
    BY <1>2, <1>13 DEF Resend, TypeOK
  <2> QED
    BY <1>1, <2>1, <2>2, <2>3 DEF Lease, Backed
<1>14. CASE Fail(c)
  <2>1. UNCHANGED <<now, server>> /\ late \subseteq late' /\ until' = until
    BY <1>14 DEF Fail
  <2>2. CASE Settle(c, "held")
    BY <2>1, <2>2, SettleKeepsLease
  <2>3. CASE Settle(c, "idle") /\ pc[c] \in {"lock", "locked"}
    <3>1. until'[c] = 0
      BY <1>1, <2>1, <2>3 DEF Lease
    <3> QED
      BY <2>1, <2>3, <3>1, SettleKeepsLease
  <2> QED
    BY <1>14, <2>2, <2>3 DEF Fail
<1>15. CASE ExecuteLate(c)
  BY <1>15, ExecuteLateKeepsLease
<1>16. CASE Abandon(c)
  BY <1>1, <1>2, <1>16 DEF Abandon, Lease, Backed, TypeOK, client
<1> QED
  BY <1>3, <1>4, <1>5, <1>6, <1>7, <1>8, <1>9, <1>10, <1>11, <1>12, <1>13, <1>14, <1>15,
     <1>16 DEF Step

\* A step of client c changes no local variable of another client, and the server
\* only by a command of c.
LEMMA StepIsLocal ==
    ASSUME LockerInv, NEW c \in Clients, Step(c), NEW d \in Clients, d # c
    PROVE  /\ now' = now /\ late \subseteq late'
           /\ UNCHANGED <<pc[d], sent[d], ttl[d], answer[d], until[d]>>
           /\ \/ \E t \in Nat : SetNX(c, t) \/ LuaRefresh(c, t) \/ LuaRelease(c)
              \/ UNCHANGED server
<1> USE DEF TypeOK, client, Send, Settle
<1>1. TypeOK /\ Ttl \in Nat /\ 0 \in Nat /\ Refreshes \subseteq Nat /\ ttl[c] \in Nat
  BY LockerAssumption DEF LockerInv
<1>2. CASE Lock(c) \/ LockAfterClose(c) \/ Granted(c) \/ Released(c) \/ Abandon(c)
  BY <1>1, <1>2 DEF Lock, LockAfterClose, Granted, Released, Abandon
<1>3. CASE Refused(c) \/ Retry(c)
  BY <1>1, <1>3 DEF Refused, Retry
<1>4. CASE \E t \in Refreshes : Refresh(c, t)
  BY <1>1, <1>4 DEF Refresh
<1>5. CASE Refreshed(c) \/ Release(c) \/ Resend(c)
  BY <1>1, <1>5 DEF Refreshed, Release, Resend
<1>6. CASE Execute(c)
  BY <1>1, <1>6 DEF Execute
<1>7. CASE Fail(c)
  BY <1>1, <1>7 DEF Fail
<1>8. CASE ExecuteLate(c)
  BY <1>1, <1>8 DEF ExecuteLate
<1> QED
  BY <1>2, <1>3, <1>4, <1>5, <1>6, <1>7, <1>8 DEF Step

\* The inductive invariant of the lock: what the type of the variables, the lease of
\* every client and the key in Redis have to do with each other, in every behaviour
\* of Lock, Refresh, Release and their failures.
THEOREM LockerInvariant == Spec => []LockerInv
<1>1. Init => LockerInv
  <2>1. Init => TypeOK
    <3> SUFFICES ASSUME Init PROVE TypeOK
      OBVIOUS
    <3>1. pc \in [Clients -> Commands \cup {"idle", "wait", "held", "panic"}]
      BY DEF Init
    <3>2. now \in Nat /\ key \in Clients \cup {None} /\ expires \in Nat /\ closed \in BOOLEAN
      BY DEF Init
    <3>3. /\ sent \in [Clients -> Nat] /\ ttl \in [Clients -> Nat]
          /\ wake \in [Clients -> Int] /\ deadline \in [Clients -> Nat]
          /\ until \in [Clients -> Nat]
      BY DEF Init
    <3>4. answer \in [Clients -> BOOLEAN] /\ late = {}
      BY DEF Init
    <3> QED
      BY <3>1, <3>2, <3>3, <3>4 DEF TypeOK
  <2>2. Init => LeaseInv
    BY DEF Init, LeaseInv, Lease, Backed
  <2> QED
    BY <2>1, <2>2 DEF LockerInv
<1>2. LockerInv /\ [Next]_vars => LockerInv'
  <2> SUFFICES ASSUME LockerInv, [Next]_vars PROVE LeaseInv'
    BY LockerTypeStep DEF LockerInv
  <2>1. ASSUME NEW d \in Clients, UNCHANGED <<server, pc, client, late, until>>,
               now' = now \/ now' = now + 1
        PROVE  Lease(d)'
    <3>1. Lease(d) /\ now \in Nat /\ sent[d] \in Nat /\ ttl[d] \in Nat /\ until[d] \in Nat
      BY DEF LockerInv, LeaseInv, TypeOK
    <3>2. Clean(d)' <=> Clean(d)
      BY <2>1 DEF Clean
    <3>3. /\ UNCHANGED <<key, expires, pc, sent, ttl, answer, until>>
          /\ now' \in Nat /\ now <= now'
      BY <2>1, <3>1 DEF server, client
    <3>4. /\ Backed(d, until[d]) => Backed(d, until[d])'
          /\ Backed(d, sent[d] + ttl[d]) => Backed(d, sent[d] + ttl[d])'
      BY <3>1, <3>2, <3>3 DEF Backed
    <3>5. sent'[d] <= now'
      BY <3>1, <3>3 DEF Lease
    <3> QED
      BY <3>1, <3>3, <3>4, <3>5 DEF Lease
  <2>2. CASE Tick \/ Close \/ UNCHANGED vars
    BY <2>1, <2>2 DEF Tick, Close, vars, LeaseInv
  <2>3. ASSUME NEW c \in Clients, Step(c) PROVE LeaseInv'
    <3>1. ASSUME NEW d \in Clients PROVE Lease(d)'
      <4>1. CASE d = c
        BY <2>3, <4>1, OwnStepKeepsLease
      <4>2. CASE d # c
        BY <2>3, <4>2, StepIsLocal, OthersKeepLease
      <4> QED
        BY <4>1, <4>2
    <3> QED
      BY <3>1 DEF LeaseInv
  <2> QED
    BY <2>2, <2>3 DEF Next
<1> QED
  BY <1>1, <1>2, PTL DEF Spec

\* Two owners never both rely on the lock: SETNX, the ttl, and the owner comparison
\* in luaRefresh and luaRelease are enough, for any number of clients.
THEOREM LockerMutualExclusion == Spec => []MutualExclusion
<1>1. LockerInv => MutualExclusion
  BY DEF LockerInv, LeaseInv, Lease, Backed, MutualExclusion, Holds
<1> QED
  BY <1>1, LockerInvariant, PTL

\* A step of client c makes no other client a holder, and none stops being one.
LEMMA OthersHold ==
    ASSUME LockerInv, NEW c \in Clients, Step(c), NEW d \in Clients, d # c
    PROVE  d \in Holders' <=> d \in Holders
<1>1. now' = now /\ until'[d] = until[d] /\ late \subseteq late'
  BY StepIsLocal
<1>2. late' = late \/ \E op, t : late' = late \cup {<<c, op, t>>}
  <2>1. CASE Fail(c)
    BY <2>1, Zenon DEF Fail
  <2>2. CASE Lock(c) \/ LockAfterClose(c) \/ Granted(c) \/ Refused(c) \/ Retry(c)
    BY <2>2, Zenon DEF Lock, LockAfterClose, Granted, Refused, Retry
  <2>3. CASE Refreshed(c) \/ Release(c) \/ Released(c) \/ \E t \in Refreshes : Refresh(c, t)
    BY <2>3, Zenon DEF Refresh, Refreshed, Release, Released
  <2>4. CASE Execute(c) \/ Resend(c) \/ ExecuteLate(c) \/ Abandon(c)
    BY <2>4, Zenon DEF Execute, Resend, ExecuteLate, Abandon
  <2> QED
    BY <2>1, <2>2, <2>3, <2>4, Zenon DEF Step
<1>3. Clean(d)' <=> Clean(d)
  <2>1. ASSUME NEW m \in late', m[1] = d PROVE m \in late
    BY <1>2, <2>1
  <2> QED
    BY <1>1, <2>1 DEF Clean
<1>4. Holds(d)' <=> Holds(d)
  BY <1>1 DEF Holds
<1> QED
  BY <1>3, <1>4 DEF Holders

\* No step makes a client a holder whose clock only went on.
LEMMA WaitingHolds ==
    ASSUME LockerInv, UNCHANGED <<late, until>>, now' = now \/ now' = now + 1
    PROVE  Holders' \subseteq Holders
<1> SUFFICES ASSUME NEW d \in Clients, Holds(d)', Clean(d)'
             PROVE  Holds(d) /\ Clean(d)
  BY DEF Holders
<1>1. now \in Nat /\ until[d] \in Nat
  BY DEF LockerInv, TypeOK
<1>2. Holds(d)
  BY <1>1 DEF Holds
<1> QED
  BY <1>2 DEF Clean

\* DistributeLocker implements SingleHolder: who relies on the lock changes as an
\* exclusive lock allows, whatever LockWithOptions, Refresh, Release, the clock and
\* the server do.
THEOREM LockerOneAtATime == Spec => OneAtATime
<1> DEFINE AtMostOne == \A c, d \in Holders : c = d
<1>1. LockerInv => AtMostOne
  BY DEF LockerInv, LeaseInv, Lease, Backed, Holders, Holds
<1>2. LockerInv' => AtMostOne'
  BY <1>1, PTL
<1>3. Init => Single!Init
  <2> SUFFICES ASSUME Init PROVE Holders = {}
    BY DEF Single!Init
  <2>1. \A c \in Clients : ~ Holds(c)
    BY DEF Init, Holds
  <2> QED
    BY <2>1 DEF Holders
<1>4. LockerInv /\ LockerInv' /\ [Next]_vars => [Single!Next]_Holders
  <2> SUFFICES ASSUME LockerInv, LockerInv', [Next]_vars
               PROVE  Single!Next \/ Holders' = Holders
    OBVIOUS
  <2>1. AtMostOne /\ AtMostOne'
    BY <1>1, <1>2
  <2> HIDE DEF AtMostOne
  <2>2. Holders \subseteq Clients /\ Holders' \subseteq Clients
    BY DEF Holders
  <2>3. ASSUME NEW c \in Clients, Holders' \ {c} = Holders \ {c}
        PROVE  Single!Next \/ Holders' = Holders
    <3>1. CASE c \in Holders' /\ c \notin Holders
      <4>1. Holders' = {c} /\ Holders = {}
        BY <2>1, <2>3, <3>1 DEF AtMostOne
      <4> QED
        BY <4>1 DEF Single!Next, Single!Acquire
    <3>2. CASE c \in Holders /\ c \notin Holders'
      <4>1. Holders' = Holders \ {c}
        BY <2>3, <3>2
      <4> QED
        BY <3>2, <4>1 DEF Single!Next, Single!Lose
    <3> QED
      BY <2>3, <3>1, <3>2
  <2>4. CASE Tick \/ Close \/ UNCHANGED vars
    <3>1. Holders' \subseteq Holders
      BY <2>4, WaitingHolds DEF Tick, Close, vars
    <3>2. CASE Holders = {}
      BY <3>1, <3>2
    <3>3. CASE Holders # {}
      <4>1. PICK c \in Clients : Holders = {c}
        BY <2>1, <2>2, <3>3 DEF AtMostOne
      <4>2. Holders' \ {c} = Holders \ {c}
        BY <3>1, <4>1
      <4> QED
        BY <2>3, <4>2
    <3> QED
      BY <3>2, <3>3
  <2>5. ASSUME NEW c \in Clients, Step(c) PROVE Single!Next \/ Holders' = Holders
    <3>1. Holders' \ {c} = Holders \ {c}
      BY <2>2, <2>5, OthersHold
    <3> QED
      BY <2>3, <3>1
  <2> QED
    BY <2>4, <2>5 DEF Next
<1> QED
  BY <1>3, <1>4, LockerInvariant, PTL DEF Spec, OneAtATime, Single!Spec
=============================================================================
