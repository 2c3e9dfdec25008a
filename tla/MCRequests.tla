----------------------------- MODULE MCRequests -----------------------------
(***************************************************************************)
(* What comes in from clients, for TLC: frames on websockets (Inbound) and *)
(* http requests (RateLimiter).  The two share nothing, so a behaviour has *)
(* one of them.                                                            *)
(***************************************************************************)
EXTENDS Inbound, RateLimiter, FiniteSetsExt, TLC

CONSTANTS l1, l2, p1, i1, i2

\* Without a payload, with one, and with every bit of the request id set.
SomeMessages ==
    {[msgType |-> <<0, 0, 0, 1>>, requestId |-> <<0, 0, 1, 44>>,
      timestamp |-> <<1, 2, 3, 4>>, payload |-> None],
     [msgType |-> <<0, 0, 1, 2>>, requestId |-> <<255, 255, 255, 255>>,
      timestamp |-> <<1, 2, 3, 4>>, payload |-> p1]}
SomeShort == {Bytes(<<7, 7, 7, 7>>)}

SomeHeaders ==
    {[real |-> i1, forwarded |-> <<i2>>, remote |-> i2],
     [real |-> Absent, forwarded |-> <<Absent, i2>>, remote |-> i1],
     [real |-> Absent, forwarded |-> <<Absent>>, remote |-> Absent]}

SwapLines == Permutations({l1, l2})

inboundVars == <<vars, protocol>>

NeitherPart == [signer |-> FALSE, cryptor |-> FALSE]

RequestsInit ==
    /\ InboundInit /\ LimiterInit
    /\ protocol = NeitherPart \/ b = 1
RequestsNext ==
    \/ InboundNext /\ calls = 0 /\ inits = 1 /\ b = 1 /\ UNCHANGED limiterVars
    \/ /\ LimiterNext /\ UNCHANGED inboundVars
       /\ protocol = NeitherPart /\ frames = <<>> /\ \A l \in Lines : reader[l] = "read"
RequestsSpec == RequestsInit /\ [][RequestsNext]_<<inboundVars, limiterVars>>
-----------------------------------------------------------------------------
\* "令牌桶的容量：平均每秒最多有 count 个请求" (rate-limter.go:49): with no token put back,
\* an ip is let through at most count times (RateLimiterRace.cfg).
AtMostCount ==
    inits = 1 => \A i \in Ips :
        MapThenSumSet(LAMBDA k : admitted[k][i], Buckets)
            <= b + MapThenSumSet(LAMBDA k : added[k], MadeFor(i))
=============================================================================
