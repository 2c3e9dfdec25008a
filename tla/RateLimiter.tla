---------------------------- MODULE RateLimiter ----------------------------
(***************************************************************************)
(* rate-limter.go, and GetClientIp of ip.go: a token bucket per client ip, *)
(* kept in a global map that every RateLimitMiddleware makes anew.         *)
(* get looks under the read lock and, when there is no bucket, addIp makes *)
(* one under the write lock without looking again.  The bucket itself,     *)
(* golang.org/x/time/rate, is external: count tokens at first, one more    *)
(* every limitInterval, never more than count.                             *)
(***************************************************************************)
EXTENDS Integers, Sequences, FiniteSets

CONSTANTS Ips, Requests,
          Absent,     \* no bucket, no ip, a header without an ip
          Headers,    \* what a request tells of its client, see GetClientIp
          Counts,     \* the capacities that middlewares are made with
          MaxTokens,  \* bound on the tokens ever put back into a bucket
          MaxInits,   \* bound on the middlewares made
          MaxCalls    \* bound on the requests served

ASSUME LimiterAssumption ==
    /\ IsFiniteSet(Requests) /\ Counts \subseteq Nat /\ Absent \notin Ips \cup Nat
    /\ \A h \in Headers : h.forwarded \in Seq(Ips \cup {Absent})

VARIABLES ips,        \* ip -> its bucket in the map, or Absent
          tokens,     \* the tokens in each bucket made so far
          owner,      \* the ip that each was made for
          capacity,   \* the burst of each
          admitted,   \* how often each let through each ip
          added,      \* the tokens put back into each
          b, inits,   \* ipLimiter.b; the middlewares made so far
          pc, ip, lm, \* each request being served
          calls

buckets == <<tokens, owner, capacity, admitted, added>>
limiter == <<b, inits>>
request == <<pc, ip, lm>>
limiterVars == <<ips, buckets, limiter, request, calls>>

Buckets == DOMAIN tokens

LimiterInit ==
    /\ ips = [i \in Ips |-> Absent]
    /\ tokens = <<>> /\ owner = <<>> /\ capacity = <<>> /\ admitted = <<>> /\ added = <<>>
    /\ b \in Counts /\ inits = 1
    /\ pc = [r \in Requests |-> "idle"]
    /\ ip = [r \in Requests |-> Absent] /\ lm = [r \in Requests |-> Absent]
    /\ calls = 0

\* GetClientIp: the X-Real-IP header, else the first entry of X-Forwarded-For that is
\* an ip, else the remote address, else nothing.
GetClientIp(h) ==
    LET valid == {n \in DOMAIN h.forwarded : h.forwarded[n] \in Ips}
        first == CHOOSE n \in valid : \A m \in valid : n <= m
    IN  IF h.real \in Ips THEN h.real
        ELSE IF valid # {} THEN h.forwarded[first]
        ELSE IF h.remote \in Ips THEN h.remote ELSE Absent

\* RateLimitMiddleware is called again, before requests are served: init makes a new
\* map and sets the capacity for all middlewares, the earlier ones included.
NewMiddleware(n) ==
    /\ inits < MaxInits /\ inits' = inits + 1 /\ b' = n
    /\ \A r \in Requests : pc[r] = "idle"
    /\ ips' = [i \in Ips |-> Absent]
    /\ UNCHANGED <<buckets, request, calls>>

\* The middleware is entered.  Without an ip it sets a status and returns; it does not
\* abort, so the request is served.
Enter(r, h) ==
    /\ pc[r] = "idle" /\ calls < MaxCalls /\ calls' = calls + 1
    /\ \/ GetClientIp(h) = Absent /\ UNCHANGED <<pc, ip>>
       \/ /\ GetClientIp(h) # Absent
          /\ pc' = [pc EXCEPT ![r] = "get"] /\ ip' = [ip EXCEPT ![r] = GetClientIp(h)]
    /\ UNCHANGED <<ips, buckets, limiter, lm>>

\* get, under the read lock: the bucket found, if any.
Get(r) ==
    /\ pc[r] = "get"
    /\ lm' = [lm EXCEPT ![r] = ips[ip[r]]]
    /\ pc' = [pc EXCEPT ![r] = IF ips[ip[r]] = Absent THEN "addIp" ELSE "allow"]
    /\ UNCHANGED <<ips, buckets, limiter, ip, calls>>

\* rate.NewLimiter: a full bucket of capacity b for an ip.
NewLimiter(i) ==
    /\ tokens' = Append(tokens, b) /\ capacity' = Append(capacity, b)
    /\ owner' = Append(owner, i)
    /\ admitted' = Append(admitted, [j \in Ips |-> 0]) /\ added' = Append(added, 0)

\* Mutant: the new bucket is not stored in the map.
AddIpUnstored(r) ==
    /\ pc[r] = "addIp" /\ NewLimiter(ip[r])
    /\ lm' = [lm EXCEPT ![r] = Len(tokens) + 1]
    /\ pc' = [pc EXCEPT ![r] = "allow"]
    /\ UNCHANGED <<ips, limiter, ip, calls>>

\* addIp, under the write lock: a full bucket, stored over whatever is there.
AddIp(r) ==
    /\ pc[r] = "addIp" /\ NewLimiter(ip[r])
    /\ ips' = [ips EXCEPT ![ip[r]] = Len(tokens) + 1]
    /\ lm' = [lm EXCEPT ![r] = Len(tokens) + 1]
    /\ pc' = [pc EXCEPT ![r] = "allow"]
    /\ UNCHANGED <<limiter, ip, calls>>

\* Allow takes a token or refuses, and the middleware returns.
Allow(r) ==
    /\ pc[r] = "allow"
    /\ \/ /\ tokens[lm[r]] > 0
          /\ tokens' = [tokens EXCEPT ![lm[r]] = @ - 1]
          /\ admitted' = [admitted EXCEPT ![lm[r]][ip[r]] = @ + 1]
       \/ tokens[lm[r]] = 0 /\ UNCHANGED <<tokens, admitted>>
    /\ pc' = [pc EXCEPT ![r] = "idle"]
    /\ ip' = [ip EXCEPT ![r] = Absent] /\ lm' = [lm EXCEPT ![r] = Absent]
    /\ UNCHANGED <<ips, owner, capacity, limiter, added, calls>>

\* limitInterval has passed for a bucket (external).
Refill(k) ==
    /\ tokens[k] < capacity[k] /\ added[k] < MaxTokens
    /\ tokens' = [tokens EXCEPT ![k] = @ + 1]
    /\ added' = [added EXCEPT ![k] = @ + 1]
    /\ UNCHANGED <<ips, owner, capacity, limiter, request, admitted, calls>>

LimiterNext ==
    \/ \E n \in Counts : NewMiddleware(n)
    \/ \E r \in Requests : (\E h \in Headers : Enter(r, h)) \/ Get(r) \/ AddIp(r) \/ Allow(r)
    \/ \E k \in Buckets : Refill(k)

LimiterSpec == LimiterInit /\ [][LimiterNext]_limiterVars
-----------------------------------------------------------------------------
MadeFor(i) == {k \in Buckets : owner[k] = i}

\* A bucket lets through only the ip it was made for, and no more often than it had
\* tokens, those put back included; and per middleware made an ip has no more buckets
\* than requests that raced to make the first one: requests that come after them share
\* the last.
WithinBuckets ==
    /\ \A k \in Buckets : \A i \in Ips :
           admitted[k][i] <= IF i = owner[k] THEN capacity[k] + added[k] ELSE 0
    /\ \A i \in Ips : Cardinality(MadeFor(i)) <= Cardinality(Requests) * inits
-----------------------------------------------------------------------------
LimiterTypeOK ==
    /\ tokens \in Seq(Nat) /\ owner \in Seq(Ips) /\ capacity \in Seq(Nat)
    /\ admitted \in Seq([Ips -> Nat]) /\ added \in Seq(Nat)
    /\ Len(owner) = Len(tokens) /\ Len(capacity) = Len(tokens)
    /\ Len(admitted) = Len(tokens) /\ Len(added) = Len(tokens)
    /\ ips \in [Ips -> Nat \cup {Absent}] /\ b \in Nat /\ inits \in Nat \ {0}
    /\ pc \in [Requests -> {"idle", "get", "addIp", "allow"}]
    /\ ip \in [Requests -> Ips \cup {Absent}] /\ lm \in [Requests -> Nat \cup {Absent}]

\* The map leads from an ip to a bucket of its own, and so does a request's limiter.
OwnBucket ==
    /\ \A i \in Ips : ips[i] # Absent => ips[i] \in MadeFor(i)
    /\ \A r \in Requests :
           /\ pc[r] # "idle" => ip[r] \in Ips
           /\ pc[r] = "allow" => lm[r] \in MadeFor(ip[r])

\* Every token of a bucket is in it or was spent on its owner.
Accounts ==
    \A k \in Buckets :
        /\ tokens[k] + admitted[k][owner[k]] = capacity[k] + added[k]
        /\ \A i \in Ips \ {owner[k]} : admitted[k][i] = 0

\* Each request that found no bucket makes one more; once there is one in the map, only
\* those that looked before still will.
Racing(i) == {r \in Requests : pc[r] = "addIp" /\ ip[r] = i}
FewBuckets ==
    \A i \in Ips :
        IF ips[i] = Absent
        THEN Cardinality(MadeFor(i)) <= Cardinality(Requests) * (inits - 1)
        ELSE Cardinality(MadeFor(i)) + Cardinality(Racing(i)) <= Cardinality(Requests) * inits

LimiterInv == LimiterTypeOK /\ OwnBucket /\ Accounts /\ FewBuckets
=============================================================================
