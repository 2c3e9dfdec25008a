---------------------------- MODULE RedisProofs ----------------------------
(***************************************************************************)
(* What is shared through Redis.  IdInv is inductive: ids of               *)
(* distribute_id.go are unique for all processes, starts and bounds.       *)
(* CacheInv is inductive, for any callers, fields and number of calls.     *)
(***************************************************************************)
EXTENDS Cache, DistributeId, TLAPS

-----------------------------------------------------------------------------
(* Distributed ids.                                                        *)

IdStates == {"idle", "setnx", "set", "incrby", "incremented"}

\* A step that leaves the key, the answers and the issued ids alone, and lets nobody
\* get to an answer, keeps IdInv: NewGenerator, SETNX's answer, Next's call, Resend,
\* Fail and Close are such steps.
LEMMA QuietIdStep ==
    ASSUME IdInv, UNCHANGED <<key, base, last, ids>>,
           gen' \subseteq Procs, pc' \in [Procs -> IdStates],
           answer' \in [Procs -> Int \cup {None}],
           \A p \in Procs : Answered(p)' => Answered(p) /\ answer'[p] = answer[p],
           \A p \in Procs : p \in gen' \/ pc'[p] \in {"set", "incrby"} => key # None
    PROVE  IdInv'
<1>1. TypeInv' BY DEF IdInv, TypeInv, IdStates
<1>2. KeyInv' BY DEF IdInv, KeyInv, Answered
<1>3. AnswerInv' BY DEF IdInv, AnswerInv, Issued, Answered
<1>4. UniqueIds' BY DEF IdInv, UniqueIds
<1> QED BY <1>1, <1>2, <1>3, <1>4 DEF IdInv

\* SETNX keeps IdInv: it sets the key only when there is none, and then nothing is issued.
LEMMA SetNXKeepsIdInv == ASSUME IdInv, NEW p \in Procs, SetNX(p) PROVE IdInv'
<1>1. CASE key # None
  <2>1. UNCHANGED <<key, base, last, ids, gen, answer>> BY <1>1 DEF SetNX
  <2>2. pc' = [pc EXCEPT ![p] = "set"] BY DEF SetNX, Goto
  <2> QED BY <1>1, <2>1, <2>2, QuietIdStep DEF IdInv, TypeInv, KeyInv, IdStates, Answered
<1>2. CASE key = None
  <2>1. PICK start \in Starts : key' = start /\ base' = start BY <1>2 DEF SetNX
  <2>2. start \in Int /\ start # None BY DistributeIdAssumption, NilAssumption
  <2>3. pc' = [pc EXCEPT ![p] = "set"] /\ UNCHANGED <<gen, answer, last, ids>>
    BY DEF SetNX, Goto
  <2>4. Issued = {} /\ \A q \in Procs : ~Answered(q)
    BY <1>2 DEF IdInv, AnswerInv, KeyInv, Answered
  <2>5. TypeInv' BY <2>1, <2>2, <2>3 DEF IdInv, TypeInv
  <2>6. KeyInv' BY <2>1, <2>2, <2>3 DEF KeyInv
  <2>7. Issued' = {} /\ \A q \in Procs : ~Answered(q)'
    BY <2>3, <2>4 DEF IdInv, TypeInv, Issued, Answered
  <2>8. AnswerInv' BY <2>7 DEF AnswerInv
  <2>9. UniqueIds'
    <3>1. last' = None BY <2>7 DEF Issued
    <3> QED BY <3>1 DEF UniqueIds
  <2> QED BY <2>5, <2>6, <2>8, <2>9 DEF IdInv
<1> QED BY <1>1, <1>2

\* INCRBY keeps IdInv: its answer is above everything issued or under way.
LEMMA IncrByKeepsIdInv == ASSUME IdInv, NEW p \in Procs, IncrBy(p) PROVE IdInv'
<1>1. key # None /\ key \in Int /\ base \in Int /\ base <= key
  BY DEF IncrBy, IdInv, KeyInv, TypeInv
<1>2. /\ key' = key + 1 /\ answer' = [answer EXCEPT ![p] = key + 1]
      /\ pc' = [pc EXCEPT ![p] = "incremented"] /\ UNCHANGED <<base, gen, last, ids>>
  BY DEF IncrBy, Goto
<1>3. key' # None /\ key' \in Int BY <1>1, <1>2, DistributeIdAssumption, NilAssumption
<1>4. TypeInv' BY <1>1, <1>2 DEF IdInv, TypeInv
<1>5. KeyInv' BY <1>1, <1>2, <1>3 DEF IdInv, TypeInv, KeyInv
<1>6. Issued' = Issued /\ Issued \subseteq Int BY <1>2 DEF IdInv, TypeInv, Issued
<1>7. \A i \in Issued' : key' # None /\ base' < i /\ i <= key'
  BY <1>1, <1>2, <1>3, <1>6 DEF IdInv, AnswerInv
<1>8. \A q \in Procs : q # p /\ Answered(q)' =>
        /\ Answered(q) /\ answer'[q] = answer[q] /\ answer[q] \in Int
        /\ base < answer[q] /\ answer[q] <= key
  BY <1>2 DEF IdInv, AnswerInv, TypeInv, Answered
<1>9. answer'[p] = key + 1 BY <1>2 DEF IdInv, TypeInv
<1>10. answer'[p] \notin Issued'
  BY <1>1, <1>6, <1>9 DEF IdInv, AnswerInv
<1>11. \A q \in Procs : Answered(q)' =>
         answer'[q] # None /\ base' < answer'[q] /\ answer'[q] <= key' /\ answer'[q] \notin Issued'
  <2> SUFFICES ASSUME NEW q \in Procs, Answered(q)'
               PROVE  answer'[q] # None /\ base' < answer'[q] /\ answer'[q] <= key'
                      /\ answer'[q] \notin Issued'
    OBVIOUS
  <2>1. CASE q = p BY <2>1, <1>1, <1>2, <1>3, <1>9, <1>10
  <2>2. CASE q # p BY <2>2, <1>1, <1>2, <1>6, <1>8 DEF IdInv, AnswerInv
  <2> QED BY <2>1, <2>2
<1>12. \A q, r \in Procs : Answered(q)' /\ Answered(r)' /\ q # r => answer'[q] # answer'[r]
  <2> SUFFICES ASSUME NEW q \in Procs, NEW r \in Procs, Answered(q)', Answered(r)', q # r
               PROVE  answer'[q] # answer'[r]
    OBVIOUS
  <2>1. CASE q # p /\ r # p BY <2>1, <1>8 DEF IdInv, AnswerInv
  <2>2. CASE q = p BY <2>2, <1>1, <1>8, <1>9
  <2>3. CASE r = p BY <2>3, <1>1, <1>8, <1>9
  <2> QED BY <2>1, <2>2, <2>3
<1>13. AnswerInv' BY <1>7, <1>11, <1>12 DEF AnswerInv
<1>14. UniqueIds'
  <2>1. last' # None => last' \in Issued' BY DEF Issued
  <2> QED BY <2>1, <1>2, <1>7 DEF IdInv, UniqueIds
<1> QED BY <1>4, <1>5, <1>13, <1>14 DEF IdInv

\* Next's return keeps IdInv: the answer moves from under way to issued.
LEMMA ReturnKeepsIdInv == ASSUME IdInv, NEW p \in Procs, Return(p) PROVE IdInv'
<1>1. /\ Answered(p) /\ last' = answer[p] /\ ids' = ids \cup {last}
      /\ answer' = [answer EXCEPT ![p] = None] /\ pc' = [pc EXCEPT ![p] = "idle"]
      /\ UNCHANGED <<key, base, gen>>
  BY DEF Return, Goto, Answered
<1>2. answer[p] # None /\ base < answer[p] /\ answer[p] <= key /\ answer[p] \notin Issued
  BY <1>1 DEF IdInv, AnswerInv
<1>3. TypeInv' BY <1>1 DEF IdInv, TypeInv
<1>4. KeyInv' BY <1>1 DEF IdInv, TypeInv, KeyInv
<1>5. Issued' = Issued \cup {answer[p]} BY <1>1, <1>2 DEF Issued
<1>6. key # None BY <1>1 DEF IdInv, KeyInv, Answered
<1>7. \A q \in Procs : Answered(q)' => q # p /\ Answered(q) /\ answer'[q] = answer[q]
  BY <1>1 DEF IdInv, TypeInv, Answered
<1>8. \A i \in Issued' : key' # None /\ base' < i /\ i <= key'
  BY <1>1, <1>2, <1>5, <1>6 DEF IdInv, AnswerInv
<1>9. \A q \in Procs : Answered(q)' =>
        answer'[q] # None /\ base' < answer'[q] /\ answer'[q] <= key' /\ answer'[q] \notin Issued'
  BY <1>1, <1>5, <1>7 DEF IdInv, AnswerInv
<1>10. \A q, r \in Procs : Answered(q)' /\ Answered(r)' /\ q # r => answer'[q] # answer'[r]
  BY <1>7 DEF IdInv, AnswerInv
<1>11. AnswerInv' BY <1>8, <1>9, <1>10 DEF AnswerInv
<1>12. UniqueIds' BY <1>1, <1>2 DEF UniqueIds, Issued
<1> QED BY <1>3, <1>4, <1>11, <1>12 DEF IdInv

\* IdInv is an invariant of distribute_id.go's processes and the Redis server.
THEOREM DistributeIdInvariant == Spec => []IdInv
<1>1. Init => IdInv
  BY DistributeIdAssumption, NilAssumption
     DEF Init, IdInv, TypeInv, KeyInv, AnswerInv, UniqueIds, Issued, Answered
<1>2. IdInv /\ [Next]_vars => IdInv'
  <2> SUFFICES ASSUME IdInv, [Next]_vars PROVE IdInv' OBVIOUS
  <2>1. ASSUME NEW p \in Procs, NewGenerator(p) PROVE IdInv'
    BY <2>1, QuietIdStep DEF NewGenerator, Goto, IdInv, TypeInv, KeyInv, IdStates, Answered
  <2>2. ASSUME NEW p \in Procs, SetNX(p) PROVE IdInv' BY <2>2, SetNXKeepsIdInv
  <2>3. ASSUME NEW p \in Procs, Keep(p) PROVE IdInv'
    BY <2>3, QuietIdStep DEF Keep, Goto, IdInv, TypeInv, KeyInv, IdStates, Answered
  <2>4. ASSUME NEW p \in Procs, NextId(p) PROVE IdInv'
    BY <2>4, QuietIdStep DEF NextId, Goto, IdInv, TypeInv, KeyInv, IdStates, Answered
  <2>5. ASSUME NEW p \in Procs, IncrBy(p) PROVE IdInv' BY <2>5, IncrByKeepsIdInv
  <2>6. ASSUME NEW p \in Procs, Return(p) PROVE IdInv' BY <2>6, ReturnKeepsIdInv
  <2>7. ASSUME NEW p \in Procs, Resend(p) PROVE IdInv'
    BY <2>7, QuietIdStep DEF Resend, Goto, IdInv, TypeInv, KeyInv, IdStates, Answered
  <2>8. ASSUME NEW p \in Procs, Fail(p) PROVE IdInv'
    BY <2>8, QuietIdStep DEF Fail, Goto, IdInv, TypeInv, KeyInv, IdStates, Answered
  <2>9. ASSUME NEW p \in Procs, Close(p) PROVE IdInv'
    BY <2>9, QuietIdStep DEF Close, IdInv, TypeInv, KeyInv, IdStates, Answered
  <2>10. CASE UNCHANGED vars
    BY <2>10, QuietIdStep DEF vars, IdInv, TypeInv, KeyInv, IdStates, Answered
  <2> QED BY <2>1, <2>2, <2>3, <2>4, <2>5, <2>6, <2>7, <2>8, <2>9, <2>10 DEF Next
<1> QED BY <1>1, <1>2, PTL DEF Spec

\* No id is returned twice by Next, through restarts, lost answers and commands sent
\* again, for every set of processes and starts.
THEOREM DistributeIdUnique == Spec => []UniqueIds
<1>1. IdInv => UniqueIds BY DEF IdInv
<1> QED BY <1>1, DistributeIdInvariant, PTL
-----------------------------------------------------------------------------
(* The methods and the commands of Redis.                                  *)

\* What the table says of the methods for strings.
LEMMA StringRoutes ==
    \A r \in Range(StringMethods) : r[1] \in {"master", "slave"} /\ r[2] \in Ops \ {"BATCH"}
  BY DEF Range, StringMethods, Ops

\* What the table says of the methods for hashes.
LEMMA HashRoutes ==
    \A r \in Range(HashMethods) : r[1] \in {"master", "slave"} /\ r[2] \in Ops
  BY DEF Range, HashMethods, Ops

\* What the table says of the methods for sets.
LEMMA SetRoutes ==
    \A r \in Range(SetMethods) : r[1] \in {"master", "slave"} /\ r[2] \in Ops
  BY DEF Range, SetMethods, Ops

\* The number of writes that the slave does not have yet is a number.
LEMMA LinkLength ==
    ASSUME NEW E, NEW s \in Seq(E)
    PROVE  Len(s) \in Nat /\ DOMAIN s = 1 .. Len(s)
  OBVIOUS

\* A missing key is an entry.
LEMMA MissingType == Missing \in Entry /\ Missing.val = None /\ Missing.kind = "none"
  BY DEF Missing, Entry

\* A string is an entry.
LEMMA StringType ==
    ASSUME NEW n \in Nat, NEW t \in BOOLEAN
    PROVE  String(n, t) \in Entry /\ String(n, t).val = n /\ String(n, t).kind = "string"
  BY DEF String, Entry

\* A hash is an entry, and a missing key without fields.
LEMMA HashType ==
    ASSUME NEW fs \in SUBSET (Fields \cup {None}), NEW t \in BOOLEAN
    PROVE  /\ HashOf(fs, t) \in Entry /\ HashOf(fs, t).val = None
           /\ fs # {} => /\ HashOf(fs, t).kind = "hash" /\ HashOf(fs, t).fields = fs
                         /\ HashOf(fs, t).ttl = t
  BY DEF HashOf, Missing, Entry

\* What a command answers and makes of the key: no value but the one the key held or a
\* new one, and what it hands out it takes from the key.
Sound(r, e, n) ==
    /\ r.entry \in Entry /\ r.err \in BOOLEAN /\ r.val \in Nat \cup {None}
    /\ r.entry.val \in {None, e.val, n}
    /\ r.val # None => r.val = e.val /\ r.entry.val \in {None, n}

\* The parts of a result.
LEMMA ResultFields ==
    ASSUME NEW e, NEW v
    PROVE  /\ Result(e, v).entry = e /\ Result(e, v).err = FALSE /\ Result(e, v).val = v
           /\ WrongType(e).entry = e /\ WrongType(e).err = TRUE /\ WrongType(e).val = None
  BY DEF Result, WrongType

\* A result is sound when what it leaves and what it hands out are.
LEMMA ResultSound ==
    ASSUME NEW e, NEW n \in Nat, NEW g \in Entry, NEW v \in Nat \cup {None},
           g.val \in {None, e.val, n}, v # None => v = e.val /\ g.val \in {None, n}
    PROVE  Sound(Result(g, v), e, n)
  BY DEF Result, Sound

\* An error leaves the key alone.
LEMMA WrongTypeSound ==
    ASSUME NEW e \in Entry, NEW n \in Nat
    PROVE  Sound(WrongType(e), e, n)
  BY DEF WrongType, Sound, Entry

\* EXPIRE gives what there is a time to live, or deletes it.
LEMMA ExpireSound ==
    ASSUME NEW e \in Entry, NEW x \in {0, 1}, NEW n \in Nat
    PROVE  /\ Sound(EXPIRE(e, x), e, n) /\ EXPIRE(e, x).err = FALSE
           /\ x = 0 => EXPIRE(e, x).entry = Missing
           /\ x # 0 /\ e # Missing =>
                /\ EXPIRE(e, x).entry.ttl = TRUE /\ EXPIRE(e, x).entry.kind = e.kind
                /\ EXPIRE(e, x).entry.fields = e.fields
           /\ e = Missing => EXPIRE(e, x).entry = Missing
  <1>0. e.val \in Nat \cup {None} /\ None \in Nat \cup {None}
    BY DEF Entry
  <1>1. CASE e = Missing \/ x = 0
    <2>1. EXPIRE(e, x) = Result(Missing, None)
      BY <1>1 DEF EXPIRE
    <2>2. Sound(Result(Missing, None), e, n)
      BY <1>0, ResultSound, MissingType, Zenon
    <2>3. Result(Missing, None).entry = Missing /\ Result(Missing, None).err = FALSE
      BY DEF Result
    <2> QED BY <1>1, <2>1, <2>2, <2>3
  <1>2. CASE ~ (e = Missing \/ x = 0)
    <2> DEFINE g == [e EXCEPT !.ttl = TRUE]
    <2>1. /\ g \in Entry /\ g.val = e.val /\ g.ttl = TRUE /\ g.kind = e.kind
          /\ g.fields = e.fields
      BY DEF Entry
    <2>2. EXPIRE(e, x) = Result(g, None)
      BY <1>2 DEF EXPIRE
    <2> HIDE DEF g
    <2>3. Sound(Result(g, None), e, n)
      BY <1>0, <2>1, ResultSound, Zenon
    <2>4. Result(g, None).entry = g /\ Result(g, None).err = FALSE
      BY DEF Result
    <2> QED BY <1>2, <2>1, <2>2, <2>3, <2>4
  <1> QED BY <1>1, <1>2

\* HSET fails on a string, and only there; else the hash has the field.
LEMMA HSetSound ==
    ASSUME NEW e \in Entry, NEW f \in Fields \cup {None}, NEW n \in Nat
    PROVE  /\ Sound(HSET(e, f), e, n)
           /\ e.kind = "string" => HSET(e, f).err = TRUE /\ HSET(e, f).entry = e
           /\ e.kind # "string" =>
                /\ HSET(e, f).err = FALSE /\ HSET(e, f).entry.kind = "hash"
                /\ f \in HSET(e, f).entry.fields
  <1>1. e.fields \cup {f} \in SUBSET (Fields \cup {None}) /\ e.ttl \in BOOLEAN
        /\ e.val \in Nat \cup {None} /\ e.fields \cup {f} # {}
    BY DEF Entry
  <1>2. CASE e.kind = "string"
    <2>1. HSET(e, f) = WrongType(e)
      BY <1>2 DEF HSET
    <2> QED BY <1>2, <2>1, ResultFields, WrongTypeSound, Zenon
  <1>3. CASE e.kind # "string"
    <2> DEFINE g == HashOf(e.fields \cup {f}, e.ttl)
    <2>1. HSET(e, f) = Result(g, None)
      BY <1>3 DEF HSET
    <2>2. g \in Entry /\ g.val = None /\ g.kind = "hash" /\ g.fields = e.fields \cup {f}
      BY <1>1, HashType
    <2> HIDE DEF g
    <2>3. Sound(Result(g, None), e, n)
      BY <2>2, ResultSound, Zenon
    <2>4. f \in g.fields
      BY <2>2, Zenon
    <2>5. Result(g, None).entry = g /\ Result(g, None).err = FALSE
      BY DEF Result
    <2> QED BY <1>3, <2>1, <2>2, <2>3, <2>4, <2>5
  <1> QED BY <1>2, <1>3

\* Every command of Redis that Cache uses is sound.
LEMMA RedisSound ==
    ASSUME NEW e \in Entry, NEW c \in Command, c.op # "BATCH", NEW n \in Nat
    PROVE  Sound(Redis(e, c, n), e, n)
  <1>1. /\ c.op \in Ops \ {"BATCH"} /\ c.expiry \in {0, 1} /\ c.field \in Fields \cup {None}
        /\ (c.expiry > 0) \in BOOLEAN
    BY DEF Command
  <1>2. /\ e.val \in Nat \cup {None} /\ e.ttl \in BOOLEAN
        /\ e.fields \in SUBSET (Fields \cup {None})
    BY DEF Entry
  <1>3. CASE c.op = "READ"
    <2>1. Redis(e, c, n) = Result(e, None)
      BY <1>3 DEF Redis
    <2> QED BY <1>2, <2>1, ResultSound, Zenon
  <1>4. CASE c.op = "DEL"
    <2>1. Redis(e, c, n) = Result(Missing, None)
      BY <1>4 DEF Redis
    <2> QED BY <2>1, ResultSound, MissingType, Zenon
  <1>5. CASE c.op = "EXPIRE"
    <2>1. Redis(e, c, n) = EXPIRE(e, c.expiry)
      BY <1>5 DEF Redis
    <2> QED BY <1>1, <2>1, ExpireSound
  <1>a. \A t \in BOOLEAN : Sound(Result(String(n, t), None), e, n)
    BY StringType, ResultSound, NilAssumption
  <1>6. CASE c.op = "SET"
    <2>1. Redis(e, c, n) = Result(String(n, c.expiry > 0), None)
      BY <1>6 DEF Redis
    <2> QED BY <1>1, <1>a, <2>1
  <1>7. CASE c.op = "SETNX"
    <2>1. Redis(e, c, n) = Result(IF e = Missing THEN String(n, c.expiry > 0) ELSE e, None)
      BY <1>7 DEF Redis, SETNX
    <2>2. Sound(Result(e, None), e, n)
      BY <1>2, ResultSound, Zenon
    <2>3. CASE e = Missing
      <3>1. Redis(e, c, n) = Result(String(n, c.expiry > 0), None)
        BY <2>1, <2>3
      <3> QED BY <1>1, <1>a, <3>1
    <2>4. CASE e # Missing
      <3>1. Redis(e, c, n) = Result(e, None)
        BY <2>1, <2>4
      <3> QED BY <2>2, <3>1
    <2> QED BY <2>3, <2>4
  <1>8. CASE c.op = "INCRBY"
    <2>1. Redis(e, c, n) = IF e.kind = "hash" THEN WrongType(e) ELSE Result(String(n, e.ttl), None)
      BY <1>8 DEF Redis, INCRBY
    <2> QED BY <1>2, <1>a, <2>1, WrongTypeSound
  <1>9. CASE c.op = "GETSET"
    <2>1. Redis(e, c, n) = IF e.kind = "hash" THEN WrongType(e) ELSE Result(String(n, FALSE), e.val)
      BY <1>9 DEF Redis, GETSET
    <2>2. Sound(Result(String(n, FALSE), e.val), e, n)
      BY <1>2, StringType, ResultSound
    <2> QED BY <2>1, <2>2, WrongTypeSound
  <1>10. CASE c.op = "GETEX"
    <2>1. Redis(e, c, n) = GETEX(e, c.expiry)
      BY <1>10 DEF Redis
    <2> DEFINE g == IF e = Missing THEN e ELSE String(e.val, c.expiry > 0)
    <2>2. g \in Entry /\ g.val = e.val
      BY <1>1, <1>2 DEF Entry, String
    <2>3. GETEX(e, c.expiry) = IF e.kind = "hash" THEN WrongType(e) ELSE Result(g, None)
      BY DEF GETEX
    <2> HIDE DEF g
    <2>4. Sound(Result(g, None), e, n)
      BY <1>2, <2>2, ResultSound, Zenon
    <2> QED BY <2>1, <2>3, <2>4, WrongTypeSound
  <1>11. CASE c.op = "GETDEL"
    <2>1. Redis(e, c, n) = IF e.kind = "hash" THEN WrongType(e) ELSE Result(Missing, e.val)
      BY <1>11 DEF Redis, GETDEL
    <2>2. Sound(Result(Missing, e.val), e, n)
      BY <1>2, MissingType, ResultSound
    <2> QED BY <2>1, <2>2, WrongTypeSound
  <1>12. CASE c.op = "HSET"
    <2>1. Redis(e, c, n) = HSET(e, c.field)
      BY <1>12 DEF Redis
    <2> QED BY <1>1, <2>1, HSetSound
  <1>13. CASE c.op = "HDEL"
    <2>1. Redis(e, c, n) = HDEL(e, c.field)
      BY <1>13 DEF Redis
    <2>2. e.fields \ {c.field} \in SUBSET (Fields \cup {None})
      BY <1>2
    <2> DEFINE g == HashOf(e.fields \ {c.field}, e.ttl)
    <2>3. g \in Entry /\ g.val = None
      BY <1>2, <2>2, HashType
    <2>4. HDEL(e, c.field) = IF e.kind = "string" THEN WrongType(e) ELSE Result(g, None)
      BY DEF HDEL
    <2> HIDE DEF g
    <2>5. Sound(Result(g, None), e, n)
      BY <2>3, ResultSound, Zenon
    <2> QED BY <2>1, <2>4, <2>5, WrongTypeSound
  <1> QED BY <1>1, <1>3, <1>4, <1>5, <1>6, <1>7, <1>8, <1>9, <1>10, <1>11, <1>12, <1>13 DEF Ops
-----------------------------------------------------------------------------
(* What the master does with a command.                                    *)

\* A command c, executed with the answer x, leaves g with the key.
Leaves(c, x, g) ==
    /\ g \in Entry /\ x.writes = <<g>> /\ x.err \in BOOLEAN /\ x.val \in Nat \cup {None}
    /\ g.val \in {None, held.val, version}
    /\ x.val # None => x.val = held.val /\ g.val \in {None, version}
    /\ c.op = "BATCH" =>
         /\ TellsOutcome(c, [entry |-> g, err |-> x.err])
         /\ g.kind = "hash" => g.ttl

\* The two commands of HMSetAndExpiry: the first fails on a string and only there, the
\* second never does.
LEMMA BatchLeaves ==
    ASSUME held \in Entry, version \in Nat, NEW c \in Command, c.op = "BATCH"
    PROVE  \E g : Leaves(c, Executed(c), g)
  <1> DEFINE h == HSET(held, c.field)
             x == EXPIRE(h.entry, c.expiry)
             g == x.entry
  <1>1. c.field \in Fields \cup {None} /\ c.expiry \in {0, 1}
    BY DEF Command
  <1>2. /\ Sound(h, held, version)
        /\ held.kind = "string" => h.err = TRUE /\ h.entry = held
        /\ held.kind # "string" => /\ h.err = FALSE /\ h.entry.kind = "hash"
                                   /\ c.field \in h.entry.fields
    BY <1>1, HSetSound
  <1>3. h.entry \in Entry /\ h.entry.val \in {None, held.val, version} /\ h.err \in BOOLEAN
    BY <1>2 DEF Sound
  <1> HIDE DEF h
  <1>4. /\ Sound(x, h.entry, version) /\ x.err = FALSE
        /\ c.expiry = 0 => x.entry = Missing
        /\ c.expiry # 0 /\ h.entry # Missing =>
             /\ x.entry.ttl = TRUE /\ x.entry.kind = h.entry.kind
             /\ x.entry.fields = h.entry.fields
        /\ h.entry = Missing => x.entry = Missing
    BY <1>1, <1>3, ExpireSound
  <1> HIDE DEF x
  <1>5. g \in Entry /\ g.val \in {None, held.val, version}
    BY <1>3, <1>4 DEF Sound
  <1>6. Executed(c) = [writes |-> <<g>>, err |-> Batch(<<h, x>>), val |-> None]
    BY DEF Executed, HMSetThenExpire, TxPipelineWrites, h, x
  <1>7. Batch(<<h, x>>) = (h.err = TRUE)
    <2>1. DOMAIN <<h, x>> = {1, 2} /\ <<h, x>>[1] = h /\ <<h, x>>[2] = x /\ <<h, x>> # <<>>
      OBVIOUS
    <2> QED BY <1>3, <1>4, <2>1 DEF Batch, GetCmdResult
  <1>8. g.kind = "hash" => g.ttl = TRUE
    BY <1>1, <1>4, MissingType
  <1>9. TellsOutcome(c, [entry |-> g, err |-> Batch(<<h, x>>)])
    <2>1. CASE held.kind = "string"
      <3>1. g.kind # "hash"
        BY <1>1, <1>2, <1>4, <2>1, MissingType
      <3> QED BY <1>2, <1>7, <2>1, <3>1 DEF TellsOutcome
    <2>2. CASE held.kind # "string"
      <3>1. h.entry # Missing
        BY <1>2, <2>2, MissingType
      <3>2. c.expiry = 0 => g = Missing
        BY <1>4
      <3>3. c.expiry # 0 => g.kind = "hash" /\ c.field \in g.fields /\ g.ttl
        BY <1>2, <1>4, <2>2, <3>1
      <3>4. ~ Batch(<<h, x>>)
        BY <1>2, <1>7, <2>2
      <3> QED BY <3>2, <3>3, <3>4 DEF TellsOutcome
    <2> QED BY <2>1, <2>2
  <1>10. Batch(<<h, x>>) \in BOOLEAN
    BY <1>7
  <1> HIDE DEF g
  <1>11. Leaves(c, Executed(c), g)
    BY <1>5, <1>6, <1>8, <1>9, <1>10 DEF Leaves
  <1> QED BY <1>11

\* Every command leaves the key something, and HMSetAndExpiry says what.
LEMMA ExecutedLeaves ==
    ASSUME held \in Entry, version \in Nat, NEW c \in Command
    PROVE  \E g : Leaves(c, Executed(c), g)
  <1>1. CASE c.op = "BATCH"
    BY <1>1, BatchLeaves
  <1>2. CASE c.op # "BATCH"
    <2> DEFINE r == Redis(held, c, version)
    <2>1. Sound(r, held, version)
      BY <1>2, RedisSound
    <2>2. Executed(c) = [writes |-> <<r.entry>>, err |-> r.err, val |-> r.val]
      BY <1>2 DEF Executed
    <2> HIDE DEF r
    <2>3. Leaves(c, Executed(c), r.entry)
      BY <1>2, <2>1, <2>2 DEF Leaves, Sound
    <2> QED BY <2>3
  <1> QED BY <1>1, <1>2

\* A write of one state: the slave is no further behind what it had, and the key changes
\* with a new version.
LEMMA WriteOne ==
    ASSUME ServerInv, NEW g \in Entry, NEW b \in BOOLEAN, Write(<<g>>, b)
    PROVE  /\ held' = g /\ version' \in Nat /\ version' >= version
           /\ held' = held \/ version' = version + 1
           /\ link' \in Seq([entry : Entry, batch : BOOLEAN])
           /\ version' - Len(link') >= version - Len(link)
           /\ \A i \in DOMAIN link' : \/ link'[i] = [entry |-> g, batch |-> b]
                                      \/ i \in DOMAIN link /\ link'[i] = link[i]
  <1>0. link \in Seq([entry : Entry, batch : BOOLEAN]) /\ version \in Nat
    BY DEF ServerInv
  <1>1. CASE <<g>> = <<held>>
    <2>1. g = held
      BY <1>1
    <2>2. UNCHANGED <<held, link, version>>
      BY <1>1 DEF Write
    <2> QED BY <1>0, <2>1, <2>2
  <1>2. CASE <<g>> # <<held>>
    <2> DEFINE w == [entry |-> g, batch |-> b]
    <2>1. w \in [entry : Entry, batch : BOOLEAN]
      OBVIOUS
    <2>2. /\ held' = <<g>>[Len(<<g>>)] /\ version' = version + Len(<<g>>)
          /\ link' = IF hasSlave
                     THEN link \o [i \in DOMAIN <<g>> |-> [entry |-> <<g>>[i], batch |-> b]]
                     ELSE link
      BY <1>2 DEF Write
    <2>3. <<g>>[Len(<<g>>)] = g /\ Len(<<g>>) = 1
      OBVIOUS
    <2>4. [i \in DOMAIN <<g>> |-> [entry |-> <<g>>[i], batch |-> b]] = <<w>>
      OBVIOUS
    <2> HIDE DEF w
    <2>5. link' = link \o <<w>> \/ link' = link
      BY <2>2, <2>4
    <2>6. CASE link' = link \o <<w>>
      <3>1. /\ link' \in Seq([entry : Entry, batch : BOOLEAN]) /\ Len(link') = Len(link) + 1
            /\ \A i \in DOMAIN link' : \/ link'[i] = w
                                       \/ i \in DOMAIN link /\ link'[i] = link[i]
        BY <1>0, <2>1, <2>6
      <3> QED BY <1>0, <2>2, <2>3, <3>1 DEF w
    <2>7. CASE link' = link
      BY <1>0, <2>2, <2>3, <2>7
    <2> QED BY <2>5, <2>6, <2>7
  <1> QED BY <1>1, <1>2
-----------------------------------------------------------------------------
(* CacheInv is inductive.                                                  *)

\* The steps of NewCache and Close, which leave the servers and the callers alone.
LEMMA ClientStep ==
    ASSUME CacheInv, UNCHANGED <<held, link, version, caller, history>>, ClientInv'
    PROVE  CacheInv'
  <1>1. UNCHANGED <<held, link, version, place, call, reply, floor, known, taken>>
    BY DEF caller, history
  <1>2. CallersTypeOK' /\ ServerInv' /\ OnePlace'
    BY <1>1 DEF CacheInv, CallersTypeOK, ServerInv, OnePlace, AtomicExpiry, TakenOnce, Carries
  <1>3. \A p \in Callers : CallerInv(p)'
    BY <1>1 DEF CacheInv, CallerInv, Waiting, Shown, Carries, Replied
  <1> QED BY <1>2, <1>3 DEF CacheInv

\* A step that puts g on the master, if it writes at all: what it does to the servers.
ServerStep(g) ==
    /\ g \in Entry /\ held' = g /\ version' \in Nat /\ version' >= version
    /\ held' = held \/ version' = version + 1
    /\ g.val \in {None, held.val, version}
    /\ link' \in Seq([entry : Entry, batch : BOOLEAN])
    /\ version' - Len(link') >= version - Len(link)
    /\ \A i \in DOMAIN link' :
         \/ link'[i].batch /\ link'[i].entry.kind = "hash" => link'[i].entry.ttl
         \/ i \in DOMAIN link /\ link'[i] = link[i]

\* A step of the servers keeps their part of the invariant.
LEMMA ServerKeeps ==
    ASSUME ServerInv, NEW g, ServerStep(g), UNCHANGED known
    PROVE  ServerInv'
  <1>1. AtomicExpiry'
    BY DEF ServerInv, ServerStep, AtomicExpiry
  <1>2. held'.val # None => held'.val < version'
    <2>1. held'.val \in Nat \cup {None}
      BY DEF ServerStep, Entry
    <2>2. CASE held'.val = version
      BY <2>1, <2>2, NilAssumption DEF ServerInv, ServerStep
    <2>3. CASE held'.val = held.val
      BY <2>1, <2>3, NilAssumption DEF ServerInv, ServerStep
    <2> QED BY <2>2, <2>3 DEF ServerStep
  <1>3. version - Len(link) \in Int /\ version' - Len(link') \in Int
    BY LinkLength DEF ServerInv, ServerStep
  <1>4. known'["master"] <= version' /\ known'["slave"] <= version' - Len(link')
    BY <1>3 DEF ServerInv, ServerStep
  <1> QED BY <1>1, <1>2, <1>4 DEF ServerInv, ServerStep

\* A caller that takes no step.
Still(q) ==
    /\ place'[q] = place[q] /\ call'[q] = call[q] /\ reply'[q] = reply[q] /\ floor'[q] = floor[q]

\* So does a caller that takes no step, whatever the servers do.
LEMMA CallerKeeps ==
    ASSUME ServerInv, NEW q \in Callers, floor[q] \in Nat, CallerInv(q), Still(q),
           NEW g, ServerStep(g)
    PROVE  CallerInv(q)' /\ Carries(q)' = Carries(q)
  <1>1. /\ version \in Nat /\ version' \in Nat /\ version' >= version
        /\ version - Len(link) \in Int /\ version' - Len(link') \in Int
        /\ version' - Len(link') >= version - Len(link)
        /\ held'.val \in {None, held.val, version}
    BY LinkLength DEF ServerInv, ServerStep
  <1>2. Waiting(q)' = Waiting(q) /\ Carries(q)' = Carries(q)
        /\ Replied(q, "BATCH")' = Replied(q, "BATCH")
    BY DEF Still, Waiting, Carries, Replied
  <1>3. \A v \in Int : v <= Shown(call[q].client) => v <= Shown(call[q].client)'
    BY <1>1 DEF Shown, Still
  <1>4. ASSUME Carries(q) PROVE reply'[q].val < version' /\ reply'[q].val # held'.val
    <2>1. reply[q].val \in Nat /\ reply[q].val < version /\ reply[q].val # held.val
      BY <1>4 DEF CallerInv, Carries, Answer
    <2> QED BY <1>1, <2>1, NilAssumption DEF Still
  <1>5. CallerInv(q)'
    <2>1. Waiting(q) \/ place'[q] = "late" => call'[q] \in Command
      BY DEF CallerInv, Still
    <2>2. Waiting(q) => floor'[q] <= Shown(call[q].client)'
      BY <1>3 DEF CallerInv, Still
    <2>3. place'[q] = "answered" =>
            /\ reply'[q] \in Answer
            /\ floor'[q] <= reply'[q].version /\ reply'[q].version <= Shown(call[q].client)'
      BY <1>3 DEF CallerInv, Still, Answer
    <2>4. Replied(q, "BATCH") => TellsOutcome(call'[q], reply'[q])
      BY DEF CallerInv, Still
    <2> QED BY <1>2, <1>4, <2>1, <2>2, <2>3, <2>4, Zenon DEF CallerInv
  <1> QED BY <1>2, <1>5
\* A value stays in one place when no value is taken and no caller is handed one.
LEMMA PlaceKeeps ==
    ASSUME ServerInv, OnePlace, \A q \in Callers : CallerInv(q) /\ (Carries(q)' => Carries(q)),
           \A q \in Callers : Carries(q)' => reply'[q].val = reply[q].val,
           UNCHANGED taken, NEW g, ServerStep(g)
    PROVE  OnePlace'
  <1>1. /\ version \in Nat /\ version' \in Nat /\ version' >= version
        /\ held'.val \in {None, held.val, version}
    BY DEF ServerInv, ServerStep
  <1>2. \A i \in DOMAIN taken : taken[i] \in Nat /\ taken[i] < version /\ taken[i] # held.val
    BY DEF OnePlace
  <1>3. \A i \in DOMAIN taken : taken[i] < version' /\ taken[i] # held'.val
    BY <1>1, <1>2, NilAssumption
  <1>4. ASSUME NEW p \in Callers, Carries(p)'
        PROVE  /\ \A i \in DOMAIN taken : reply'[p].val # taken[i]
               /\ \A q \in Callers : Carries(q)' /\ reply'[p].val = reply'[q].val => p = q
    BY <1>4 DEF OnePlace
  <1>5. TakenOnce' /\ taken' \in Seq(Nat)
    BY DEF OnePlace, TakenOnce
  <1> QED BY <1>3, <1>4, <1>5, Zenon DEF OnePlace

\* What a step leaves alone when it does not touch the servers.
LEMMA NoWrite ==
    ASSUME ServerInv, UNCHANGED <<held, link, version>>
    PROVE  ServerStep(held)
  BY DEF ServerInv, ServerStep

\* The caller is done: it has nothing to show.
LEMMA ForgetKeeps ==
    ASSUME CallersTypeOK, NEW p \in Callers, Forget(p)
    PROVE  /\ CallersTypeOK' /\ CallerInv(p)' /\ ~ Carries(p)'
           /\ \A q \in Callers \ {p} : Still(q)
  <1>1. place'[p] = "idle"
    BY DEF CallersTypeOK, Forget, MoveTo
  <1>2. CallerInv(p)' /\ ~ Carries(p)'
    BY <1>1 DEF CallerInv, Carries, Waiting, Replied
  <1>3. \A q \in Callers \ {p} : Still(q)
    BY DEF CallersTypeOK, Forget, MoveTo, Still
  <1>4. CallersTypeOK'
    BY DEF CallersTypeOK, Forget, MoveTo
  <1> QED BY <1>2, <1>3, <1>4

\* The parts together, for a step of the caller p in which no value changes hands.
LEMMA CallerStep ==
    ASSUME CacheInv, NEW p \in Callers, NEW g, ServerStep(g),
           UNCHANGED <<clients, history>>, CallersTypeOK', CallerInv(p)',
           Carries(p)' => Carries(p) /\ reply'[p] = reply[p],
           \A q \in Callers \ {p} : Still(q)
    PROVE  CacheInv'
  <1>1. UNCHANGED <<life, master, slave, hasSlave, open, known, taken>>
    BY DEF clients, history
  <1>2. ServerInv'
    BY <1>1, ServerKeeps, Zenon DEF CacheInv
  <1>3. ASSUME NEW q \in Callers, q # p PROVE CallerInv(q)' /\ Carries(q)' = Carries(q)
    <2>1. floor[q] \in Nat
      BY DEF CacheInv, CallersTypeOK
    <2> QED BY <1>3, <2>1, CallerKeeps, Zenon DEF CacheInv
  <1>4. \A q \in Callers : CallerInv(q)'
    BY <1>3
  <1>5. \A q \in Callers : Carries(q)' => Carries(q)
    BY <1>3
  <1>6. \A q \in Callers : Carries(q)' => reply'[q].val = reply[q].val
    BY DEF Still
  <1>7. OnePlace'
    BY <1>1, <1>5, <1>6, PlaceKeeps, Zenon DEF CacheInv
  <1>8. ClientInv'
    BY <1>1 DEF CacheInv, ClientInv
  <1> QED BY <1>2, <1>4, <1>7, <1>8, Zenon DEF CacheInv
\* What a method passes on to its client.
LEMMA RouteTypes ==
    ASSUME NEW route \in Routes, NEW args \in Arguments(route[2])
    PROVE  /\ route[1] \in {"master", "slave"} /\ route[2] \in Ops
           /\ args[1] \in Fields \cup {None} /\ args[2] \in {0, 1}
  <1>1. route[1] \in {"master", "slave"} /\ route[2] \in Ops
    BY StringRoutes, HashRoutes, SetRoutes, Zenon DEF Routes
  <1>2. args[1] \in Fields \cup {None} /\ args[2] \in {0, 1}
    BY DEF Arguments
  <1> QED BY <1>1, <1>2

\* A call takes note of what is known to the server its client asks.
LEMMA BeginKeeps ==
    ASSUME CacheInv, NEW p \in Callers, NEW route \in Routes,
           NEW args \in Arguments(route[2]), Begin(p, route, args)
    PROVE  CacheInv'
  <1> DEFINE client == IF route[1] = "master" THEN master ELSE slave
             c == [client |-> client, op |-> route[2], field |-> args[1], expiry |-> args[2]]
             d == IF hasSlave THEN route[1] ELSE "master"
  <1>1. /\ route[1] \in {"master", "slave"} /\ route[2] \in Ops
        /\ args[1] \in Fields \cup {None} /\ args[2] \in {0, 1}
    BY RouteTypes, Zenon
  <1>2. /\ place' = [place EXCEPT ![p] = IF client = None THEN "panic" ELSE "sent"]
        /\ call' = [call EXCEPT ![p] = c] /\ floor' = [floor EXCEPT ![p] = known[d]]
        /\ UNCHANGED <<held, link, version, reply>> /\ UNCHANGED <<clients, history>>
    BY DEF Begin, ClientFor
  <1>3. /\ master \in {"m", None} /\ slave \in {IF hasSlave THEN "s" ELSE "m", None}
        /\ ServerInv /\ CallersTypeOK
    BY DEF CacheInv, ClientInv
  <1>4. client # None => client \in {"m", "s"} /\ (client = "s" => d = "slave")
                         /\ (client = "m" => d = "master")
    BY <1>1, <1>3
  <1>5. d \in {"master", "slave"} /\ known[d] \in Nat
    BY <1>1, <1>3 DEF ServerInv
  <1>6. client # None => c \in Command /\ known[d] <= Shown(client)
    <2>1. client # None => c \in Command
      BY <1>1, <1>4 DEF Command
    <2>2. client # None => known[d] <= Shown(client)
      BY <1>3, <1>4, NilAssumption DEF ServerInv, Shown
    <2> QED BY <2>1, <2>2
  <1>7. c.client = client
    OBVIOUS
  <1> HIDE DEF client, c, d
  <1>8. /\ place'[p] = (IF client = None THEN "panic" ELSE "sent") /\ call'[p] = c
        /\ floor'[p] = known[d] /\ CallersTypeOK'
        /\ \A q \in Callers \ {p} : Still(q)
    BY <1>2, <1>3, <1>5 DEF CallersTypeOK, Still
  <1>9. CallerInv(p)' /\ ~ Carries(p)'
    <2>1. place'[p] # "answered" /\ place'[p] # "late" /\ (Waiting(p)' => client # None)
      BY <1>8 DEF Waiting
    <2>2. Waiting(p)' => call'[p] \in Command
      BY <1>6, <1>8, <2>1
    <2>3. Waiting(p)' => floor'[p] <= Shown(call[p].client)'
      BY <1>2, <1>6, <1>7, <1>8, <2>1 DEF Shown
    <2> QED BY <2>1, <2>2, <2>3, Zenon DEF CallerInv, Carries, Replied
  <1>10. ServerStep(held)
    BY <1>2, <1>3, NoWrite, Zenon
  <1> QED BY <1>2, <1>8, <1>9, <1>10, CallerStep, Zenon

\* A command that is sent again shows no less than the first time.
LEMMA ResendKeeps ==
    ASSUME CacheInv, NEW p \in Callers, ResendCall(p)
    PROVE  CacheInv'
  <1>1. /\ place[p] = "answered" /\ place' = [place EXCEPT ![p] = "sent"]
        /\ reply' = [reply EXCEPT ![p] = None]
        /\ UNCHANGED <<held, link, version, call, floor>> /\ UNCHANGED <<clients, history>>
    BY DEF ResendCall, MoveTo
  <1>2. CallersTypeOK /\ ServerInv /\ CallerInv(p)
    BY DEF CacheInv
  <1>3. place'[p] = "sent" /\ CallersTypeOK' /\ \A q \in Callers \ {p} : Still(q)
    BY <1>1, <1>2 DEF CallersTypeOK, Still
  <1>4. CallerInv(p)' /\ ~ Carries(p)'
    BY <1>1, <1>2, <1>3 DEF CallerInv, Carries, Replied, Waiting, Shown
  <1>5. ServerStep(held)
    BY <1>1, <1>2, NoWrite, Zenon
  <1> QED BY <1>1, <1>3, <1>4, <1>5, CallerStep, Zenon

\* A call that failed promises nothing; its command may still be on its way.
LEMMA FailKeeps ==
    ASSUME CacheInv, NEW p \in Callers, FailCall(p)
    PROVE  CacheInv'
  <1>1. UNCHANGED <<held, link, version>> /\ UNCHANGED <<clients, history>>
    BY DEF FailCall, clients, history
  <1>2. CallersTypeOK /\ ServerInv /\ CallerInv(p)
    BY DEF CacheInv
  <1>3. ServerStep(held)
    BY <1>1, <1>2, NoWrite, Zenon
  <1>4. CASE Forget(p)
    <2>1. /\ CallersTypeOK' /\ CallerInv(p)' /\ ~ Carries(p)'
          /\ \A q \in Callers \ {p} : Still(q)
      BY <1>2, <1>4, ForgetKeeps, Zenon
    <2> QED BY <1>1, <1>3, <2>1, CallerStep, Zenon
  <1>5. CASE ~ Forget(p)
    <2>1. /\ place[p] = "sent" /\ place' = [place EXCEPT ![p] = "late"]
          /\ floor' = [floor EXCEPT ![p] = 0] /\ UNCHANGED <<call, reply>>
      BY <1>5 DEF FailCall, MoveTo
    <2>2. place'[p] = "late" /\ CallersTypeOK' /\ \A q \in Callers \ {p} : Still(q)
      BY <1>2, <2>1 DEF CallersTypeOK, Still
    <2>3. CallerInv(p)' /\ ~ Carries(p)'
      BY <1>2, <2>1, <2>2 DEF CallerInv, Carries, Replied, Waiting
    <2> QED BY <1>1, <1>3, <2>2, <2>3, CallerStep, Zenon
  <1> QED BY <1>4, <1>5
\* What the execution of a command does to the servers.
LEMMA ExecuteServer ==
    ASSUME CacheInv, NEW p \in Callers, Execute(p), NEW g,
           Leaves(call[p], Executed(call[p]), g)
    PROVE  /\ ServerStep(held')
           /\ call[p].op # "READ" => held' = g
  <1> DEFINE c == call[p]
  <1>1. ServerInv /\ g \in Entry /\ Executed(c).writes = <<g>>
    BY DEF CacheInv, Leaves
  <1>2. CASE c.op = "READ"
    <2>1. UNCHANGED <<held, link, version>>
      BY <1>2 DEF Execute
    <2>2. ServerStep(held) /\ held' = held
      BY <1>1, <2>1, NoWrite
    <2> QED BY <1>2, <2>2
  <1>3. CASE c.op # "READ"
    <2>1. Write(<<g>>, c.op = "BATCH")
      BY <1>1, <1>3 DEF Execute
    <2>2. (c.op = "BATCH") \in BOOLEAN
      OBVIOUS
    <2>3. /\ held' = g /\ version' \in Nat /\ version' >= version
          /\ held' = held \/ version' = version + 1
          /\ link' \in Seq([entry : Entry, batch : BOOLEAN])
          /\ version' - Len(link') >= version - Len(link)
          /\ \A i \in DOMAIN link' : \/ link'[i] = [entry |-> g, batch |-> (c.op = "BATCH")]
                                     \/ i \in DOMAIN link /\ link'[i] = link[i]
      BY <1>1, <2>1, <2>2, WriteOne
    <2>4. g.val \in {None, held.val, version} /\ (c.op = "BATCH" /\ g.kind = "hash" => g.ttl)
      BY DEF Leaves
    <2>5. ASSUME NEW i \in DOMAIN link'
          PROVE  \/ link'[i].batch /\ link'[i].entry.kind = "hash" => link'[i].entry.ttl
                 \/ i \in DOMAIN link /\ link'[i] = link[i]
      BY <2>3, <2>4
    <2>6. ServerStep(g)
      BY <1>1, <2>3, <2>4, <2>5 DEF ServerStep
    <2> QED BY <2>3, <2>6
  <1> QED BY <1>2, <1>3

\* The answer to a call shows what the call must show, and the value it hands out was
\* the key's until then.
LEMMA AnswerKeeps ==
    ASSUME CacheInv, NEW p \in Callers, Execute(p), place[p] = "sent", NEW g,
           Leaves(call[p], Executed(call[p]), g), ServerStep(held'),
           call[p].op # "READ" => held' = g
    PROVE  /\ CallersTypeOK' /\ CallerInv(p)' /\ \A q \in Callers \ {p} : Still(q)
           /\ Carries(p)' => reply'[p].val = held.val
  <1> DEFINE c == call[p]
             x == Executed(c)
             shows == IF c.client = "s" THEN version - Len(link) ELSE version'
             a == [version |-> shows, entry |-> held', err |-> x.err, val |-> x.val]
  <1>1. /\ place' = [place EXCEPT ![p] = "answered"] /\ reply' = [reply EXCEPT ![p] = a]
        /\ UNCHANGED <<call, floor>>
    BY DEF Execute, MoveTo
  <1>2. CallersTypeOK /\ ServerInv /\ CallerInv(p)
    BY DEF CacheInv
  <1>3. /\ place'[p] = "answered" /\ reply'[p] = a /\ call'[p] = c /\ floor'[p] = floor[p]
        /\ CallersTypeOK' /\ \A q \in Callers \ {p} : Still(q)
    <2> HIDE DEF a
    <2> QED BY <1>1, <1>2 DEF CallersTypeOK, Still
  <1>4. /\ version \in Nat /\ version' \in Nat /\ version' >= version
        /\ version - Len(link) \in Nat /\ version' - Len(link') \in Int
        /\ version' - Len(link') >= version - Len(link)
        /\ held'.val \in {None, held.val, version} /\ held' \in Entry
        /\ floor[p] \in Nat /\ c \in Command /\ floor[p] <= Shown(c.client)
    <2>1. Len(link) \in Nat /\ Len(link') \in Nat
      BY <1>2, LinkLength DEF ServerInv, ServerStep
    <2>2. version - Len(link) \in Nat
      BY <1>2, <2>1 DEF ServerInv
    <2>3. floor[p] \in Nat
      BY <1>2 DEF CallersTypeOK
    <2>4. c \in Command /\ floor[p] <= Shown(c.client)
      BY <1>2 DEF CallerInv, Waiting
    <2>5. version \in Nat /\ held \in Entry
      BY <1>2 DEF ServerInv
    <2>6. /\ version' \in Nat /\ version' >= version /\ version' - Len(link') \in Int
          /\ version' - Len(link') >= version - Len(link)
      BY <2>1, <2>5 DEF ServerStep
    <2>7. held'.val \in {None, held.val, version} /\ held' \in Entry
      BY <2>5 DEF ServerStep
    <2> QED BY <2>2, <2>3, <2>4, <2>5, <2>6, <2>7, Zenon
  <1>5. shows \in Nat /\ floor[p] <= shows /\ shows <= Shown(c.client)'
        /\ floor[p] <= Shown(call[p].client)'
    <2>1. call' = call /\ floor' = floor
      BY <1>1
    <2>2. Shown(c.client) = IF c.client = "s" THEN version - Len(link) ELSE version
      BY DEF Shown
    <2>3. Shown(c.client)' = IF c.client = "s" THEN version' - Len(link') ELSE version'
      BY <2>1 DEF Shown
    <2>4. Shown(call[p].client)' = Shown(c.client)'
      OBVIOUS
    <2>5. /\ version \in Nat /\ version' \in Nat /\ version' >= version
          /\ version - Len(link) \in Nat /\ version' - Len(link') \in Int
          /\ version' - Len(link') >= version - Len(link)
          /\ floor[p] \in Nat /\ floor[p] <= Shown(c.client)
      BY <1>4, Zenon
    <2> HIDE DEF c
    <2>6. CASE c.client = "s"
      BY <2>2, <2>3, <2>4, <2>5, <2>6
    <2>7. CASE c.client # "s"
      BY <2>2, <2>3, <2>4, <2>5, <2>7
    <2> QED BY <2>6, <2>7
  <1>6. x.err \in BOOLEAN /\ x.val \in Nat \cup {None}
        /\ (x.val # None => x.val = held.val /\ g.val \in {None, version})
    BY DEF Leaves
  <1>7. ASSUME c.op \in {"GETDEL", "GETSET"}, x.val # None
        PROVE  x.val = held.val /\ x.val < version' /\ x.val # held'.val
    <2>1. held' = g
      BY <1>7
    <2>2. held.val \in Nat /\ held.val < version /\ x.val = held.val
      BY <1>2, <1>6, <1>7 DEF ServerInv
    <2> QED BY <1>4, <1>6, <1>7, <2>1, <2>2, NilAssumption
  <1>8. c.op = "BATCH" => TellsOutcome(c, a)
    <2>1. ASSUME c.op = "BATCH" PROVE TellsOutcome(c, [entry |-> g, err |-> x.err]) /\ held' = g
      BY <2>1 DEF Leaves
    <2> QED BY <2>1 DEF TellsOutcome
  <1>9. a \in Answer /\ a.version = shows /\ a.val = x.val
    BY <1>4, <1>5, <1>6 DEF Answer
  <1> HIDE DEF c, x, shows, a
  <1>10. Carries(p)' => c.op \in {"GETDEL", "GETSET"} /\ x.val # None
    BY <1>3, <1>9 DEF Carries
  <1>11. Replied(p, "BATCH")' => TellsOutcome(call'[p], reply'[p])
    BY <1>3, <1>8 DEF Replied
  <1>12. floor'[p] <= Shown(call[p].client)' /\ reply'[p].version <= Shown(call[p].client)'
         /\ floor'[p] <= reply'[p].version
    BY <1>1, <1>3, <1>5, <1>9 DEF c
  <1>13. call'[p] \in Command /\ reply'[p] \in Answer
    BY <1>3, <1>4, <1>9
  <1>14. Carries(p)' => reply'[p].val = held.val /\ reply'[p].val < version'
                        /\ reply'[p].val # held'.val
    BY <1>3, <1>7, <1>9, <1>10
  <1>15. CallerInv(p)'
    BY <1>11, <1>12, <1>13, <1>14, Zenon DEF CallerInv
  <1> QED BY <1>3, <1>14, <1>15

\* The server executes a command.
LEMMA ExecuteKeeps ==
    ASSUME CacheInv, NEW p \in Callers, Execute(p)
    PROVE  CacheInv'
  <1>1. CallersTypeOK /\ ServerInv /\ CallerInv(p) /\ OnePlace
    BY DEF CacheInv
  <1>2. call[p] \in Command
    BY <1>1 DEF Execute, CallerInv, Waiting
  <1>3. PICK g : Leaves(call[p], Executed(call[p]), g)
    BY <1>1, <1>2, ExecutedLeaves DEF ServerInv
  <1>4. ServerStep(held') /\ (call[p].op # "READ" => held' = g)
    BY <1>3, ExecuteServer, Zenon
  <1>5. UNCHANGED <<clients, history>>
    BY DEF Execute
  <1>6. CASE place[p] = "late"
    <2>1. Forget(p)
      BY <1>6 DEF Execute
    <2>2. /\ CallersTypeOK' /\ CallerInv(p)' /\ ~ Carries(p)'
          /\ \A q \in Callers \ {p} : Still(q)
      BY <1>1, <2>1, ForgetKeeps, Zenon
    <2> QED BY <1>4, <1>5, <2>2, CallerStep, Zenon
  <1>7. CASE place[p] = "sent"
    <2>1. /\ CallersTypeOK' /\ CallerInv(p)' /\ \A q \in Callers \ {p} : Still(q)
          /\ Carries(p)' => reply'[p].val = held.val
      BY <1>3, <1>4, <1>7, AnswerKeeps, Zenon
    <2>2. ASSUME NEW q \in Callers, q # p
          PROVE  CallerInv(q)' /\ Carries(q)' = Carries(q) /\ reply'[q] = reply[q]
      <3>1. floor[q] \in Nat /\ CallerInv(q) /\ Still(q)
        BY <2>1, <2>2 DEF CacheInv, CallersTypeOK
      <3>2. CallerInv(q)' /\ Carries(q)' = Carries(q)
        BY <1>1, <1>4, <3>1, CallerKeeps, Zenon
      <3> QED BY <3>1, <3>2 DEF Still
    <2>3. \A q \in Callers : CallerInv(q)'
      BY <2>1, <2>2
    <2>4. ~ Carries(p)
      BY <1>7 DEF Carries
    <2>5. UNCHANGED taken /\ UNCHANGED known
      BY <1>5 DEF history
    <2>6. ServerInv'
      BY <1>1, <1>4, <2>5, ServerKeeps, Zenon
    <2>7. OnePlace'
      <3>1. /\ version \in Nat /\ version' \in Nat /\ version' >= version
            /\ held'.val \in {None, held.val, version}
        BY <1>1, <1>4 DEF ServerInv, ServerStep
      <3>2. \A i \in DOMAIN taken : taken[i] \in Nat /\ taken[i] < version /\ taken[i] # held.val
        BY <1>1 DEF OnePlace
      <3>3. \A i \in DOMAIN taken : taken[i] < version' /\ taken[i] # held'.val
        BY <3>1, <3>2, NilAssumption
      <3>4. \A q \in Callers : q # p /\ Carries(q)' => reply'[q].val # held.val
        BY <2>2 DEF CacheInv, CallerInv
      <3>5. ASSUME NEW r \in Callers, Carries(r)', NEW i \in DOMAIN taken
            PROVE  reply'[r].val # taken[i]
        <4>1. CASE r = p
          BY <2>1, <3>2, <3>5, <4>1
        <4>2. CASE r # p
          BY <1>1, <2>2, <3>5, <4>2 DEF OnePlace
        <4> QED BY <4>1, <4>2
      <3>6. ASSUME NEW r \in Callers, Carries(r)', NEW q \in Callers, Carries(q)',
                   reply'[r].val = reply'[q].val
            PROVE  r = q
        <4>1. CASE r # p /\ q # p
          BY <1>1, <2>2, <3>6, <4>1 DEF OnePlace
        <4>2. CASE r = p \/ q = p
          BY <2>1, <3>4, <3>6, <4>2
        <4> QED BY <4>1, <4>2
      <3>7. TakenOnce' /\ taken' \in Seq(Nat)
        BY <1>1, <2>5 DEF OnePlace, TakenOnce
      <3> QED BY <2>5, <3>3, <3>5, <3>6, <3>7, Zenon DEF OnePlace
    <2>8. ClientInv'
      BY <1>5 DEF CacheInv, ClientInv, clients
    <2> QED BY <2>1, <2>3, <2>6, <2>7, <2>8, Zenon DEF CacheInv
  <1> QED BY <1>6, <1>7 DEF Execute
\* A value that was not taken before can be taken.
LEMMA AppendNew ==
    ASSUME NEW s \in Seq(Nat), NEW v \in Nat, IsInjective(s), \A i \in DOMAIN s : s[i] # v
    PROVE  IsInjective(Append(s, v)) /\ Append(s, v) \in Seq(Nat)
           /\ \A i \in DOMAIN Append(s, v) : \/ i \in DOMAIN s /\ Append(s, v)[i] = s[i]
                                             \/ Append(s, v)[i] = v
  BY DEF IsInjective

\* What the method returns was known to the server that answered.
LEMMA ReturnServer ==
    ASSUME CacheInv, NEW p \in Callers, ReturnCall(p)
    PROVE  ServerInv'
  <1> DEFINE v == reply[p].version
             c == call[p]
  <1>1. /\ known' = [d \in {"master", "slave"} |->
                       IF (d = "master" \/ c.client = "s") /\ v > known[d]
                       THEN v ELSE known[d]]
        /\ UNCHANGED <<held, link, version>> /\ place[p] = "answered"
    BY DEF ReturnCall
  <1>2. ServerInv /\ CallerInv(p)
    BY DEF CacheInv
  <1>3. v \in Nat /\ v <= Shown(c.client)
    BY <1>1, <1>2 DEF CallerInv, Answer
  <1>4. /\ version \in Nat /\ Len(link) \in Nat /\ known["master"] \in Nat /\ known["slave"] \in Nat
        /\ known["master"] <= version /\ known["slave"] <= version - Len(link)
    BY <1>2, LinkLength DEF ServerInv
  <1>5. v <= version /\ (c.client = "s" => v <= version - Len(link))
    BY <1>3, <1>4 DEF Shown
  <1> HIDE DEF v, c
  <1>6. /\ known'["master"] \in Nat /\ known'["master"] <= version
        /\ known'["slave"] \in Nat /\ known'["slave"] <= version - Len(link)
    <2>1. known'["master"] = IF v > known["master"] THEN v ELSE known["master"]
      BY <1>1
    <2>2. known'["slave"] = IF c.client = "s" /\ v > known["slave"] THEN v ELSE known["slave"]
      BY <1>1
    <2> QED BY <1>3, <1>4, <1>5, <2>1, <2>2
  <1>7. known' \in [{"master", "slave"} -> Nat]
    BY <1>1, <1>6
  <1> QED BY <1>1, <1>2, <1>6, <1>7 DEF ServerInv, AtomicExpiry

\* A value that the method returns leaves the answer for the values taken.
LEMMA ReturnPlace ==
    ASSUME CacheInv, NEW p \in Callers, ReturnCall(p), ~ Carries(p)',
           \A q \in Callers \ {p} : Still(q)
    PROVE  OnePlace'
  <1> DEFINE v == reply[p].val
  <1>1. /\ taken' = IF Carries(p) THEN Append(taken, v) ELSE taken
        /\ UNCHANGED <<held, version>> /\ place[p] = "answered"
    BY DEF ReturnCall, Carries
  <1>2. ServerInv /\ CallerInv(p) /\ OnePlace
    BY DEF CacheInv
  <1>3. Carries(p) => v \in Nat /\ v < version /\ v # held.val /\ \A i \in DOMAIN taken : taken[i] # v
    BY <1>1, <1>2 DEF CallerInv, Answer, Carries, OnePlace
  <1>4. taken \in Seq(Nat) /\ IsInjective(taken)
        /\ \A i \in DOMAIN taken : taken[i] < version /\ taken[i] # held.val
    BY <1>2 DEF OnePlace, TakenOnce
  <1>5. \A q \in Callers : Carries(q)' => q # p /\ Carries(q) /\ reply'[q] = reply[q]
    BY DEF Still, Carries
  <1> HIDE DEF v
  <1>6. IsInjective(taken') /\ taken' \in Seq(Nat)
        /\ \A i \in DOMAIN taken' : \/ i \in DOMAIN taken /\ taken'[i] = taken[i]
                                    \/ Carries(p) /\ taken'[i] = v
    <2>1. CASE Carries(p)
      BY <1>1, <1>3, <1>4, <2>1, AppendNew
    <2>2. CASE ~ Carries(p)
      BY <1>1, <1>4, <2>2
    <2> QED BY <2>1, <2>2
  <1>7. \A i \in DOMAIN taken' : taken'[i] < version' /\ taken'[i] # held'.val
    BY <1>1, <1>3, <1>4, <1>6
  <1>8. ASSUME NEW r \in Callers, Carries(r)'
        PROVE  /\ \A i \in DOMAIN taken' : reply'[r].val # taken'[i]
               /\ \A q \in Callers : Carries(q)' /\ reply'[r].val = reply'[q].val => r = q
    <2>1. \A i \in DOMAIN taken : reply[r].val # taken[i]
      BY <1>2, <1>5, <1>8 DEF OnePlace
    <2>2. Carries(p) => reply[r].val # v
      BY <1>2, <1>5, <1>8 DEF OnePlace, v
    <2>3. \A q \in Callers : Carries(q)' /\ reply'[r].val = reply'[q].val => r = q
      BY <1>2, <1>5, <1>8 DEF OnePlace
    <2>4. reply'[r] = reply[r]
      BY <1>5, <1>8
    <2> QED BY <1>6, <2>1, <2>2, <2>3, <2>4
  <1> QED BY <1>6, <1>7, <1>8, Zenon DEF OnePlace, TakenOnce

\* The method returns.
LEMMA ReturnKeeps ==
    ASSUME CacheInv, NEW p \in Callers, ReturnCall(p)
    PROVE  CacheInv'
  <1>1. Forget(p) /\ UNCHANGED <<held, link, version>> /\ UNCHANGED clients
    BY DEF ReturnCall
  <1>2. CallersTypeOK /\ ServerInv
    BY DEF CacheInv
  <1>3. /\ CallersTypeOK' /\ CallerInv(p)' /\ ~ Carries(p)'
        /\ \A q \in Callers \ {p} : Still(q)
    BY <1>1, <1>2, ForgetKeeps, Zenon
  <1>4. ServerStep(held)
    BY <1>1, <1>2, NoWrite, Zenon
  <1>5. ASSUME NEW q \in Callers, q # p PROVE CallerInv(q)'
    <2>1. floor[q] \in Nat /\ CallerInv(q) /\ Still(q)
      BY <1>3, <1>5 DEF CacheInv, CallersTypeOK
    <2> QED BY <1>2, <1>4, <2>1, CallerKeeps, Zenon
  <1>6. \A q \in Callers : CallerInv(q)'
    BY <1>3, <1>5
  <1>7. ServerInv' /\ OnePlace'
    BY <1>3, ReturnServer, ReturnPlace, Zenon
  <1>8. ClientInv'
    BY <1>1 DEF CacheInv, ClientInv, clients
  <1> QED BY <1>3, <1>6, <1>7, <1>8, Zenon DEF CacheInv
\* A step of the servers alone.
LEMMA QuietStep ==
    ASSUME CacheInv, NEW g, ServerStep(g), UNCHANGED <<clients, caller, history>>
    PROVE  CacheInv'
  <1>1. UNCHANGED <<life, master, slave, hasSlave, open, place, call, reply, floor, known, taken>>
    BY DEF clients, caller, history
  <1>2. ServerInv'
    BY <1>1, ServerKeeps, Zenon DEF CacheInv
  <1>3. ASSUME NEW q \in Callers PROVE CallerInv(q)' /\ Carries(q)' = Carries(q)
    <2>1. floor[q] \in Nat /\ Still(q)
      BY <1>1 DEF CacheInv, CallersTypeOK, Still
    <2> QED BY <2>1, CallerKeeps, Zenon DEF CacheInv
  <1>4. OnePlace'
    <2>1. \A q \in Callers : Carries(q)' => Carries(q)
      BY <1>3
    <2>2. \A q \in Callers : Carries(q)' => reply'[q].val = reply[q].val
      BY <1>1
    <2> QED BY <1>1, <2>1, <2>2, PlaceKeeps, Zenon DEF CacheInv
  <1>5. CallersTypeOK' /\ ClientInv'
    BY <1>1 DEF CacheInv, CallersTypeOK, ClientInv
  <1> QED BY <1>2, <1>3, <1>4, <1>5, Zenon DEF CacheInv

\* The slave catches up with a write.
LEMMA ReplicateKeeps ==
    ASSUME CacheInv, Replicate
    PROVE  CacheInv'
  <1>1. /\ link # <<>> /\ link' = Tail(link) /\ UNCHANGED <<held, version>>
        /\ UNCHANGED <<clients, caller, history>>
    BY DEF Replicate
  <1>2. ServerInv
    BY DEF CacheInv
  <1>3. link \in Seq([entry : Entry, batch : BOOLEAN]) /\ version \in Nat /\ held \in Entry
        /\ AtomicExpiry
    BY <1>2 DEF ServerInv
  <1>4. /\ link' \in Seq([entry : Entry, batch : BOOLEAN]) /\ Len(link') = Len(link) - 1
        /\ \A i \in DOMAIN link' : i + 1 \in DOMAIN link /\ link'[i] = link[i + 1]
    BY <1>1, <1>3
  <1>5. \A i \in DOMAIN link' :
          link'[i].batch /\ link'[i].entry.kind = "hash" => link'[i].entry.ttl
    BY <1>3, <1>4 DEF AtomicExpiry
  <1>6. version' - Len(link') >= version - Len(link)
    BY <1>1, <1>3, <1>4, LinkLength
  <1>7. ServerStep(held)
    BY <1>1, <1>3, <1>4, <1>5, <1>6 DEF ServerStep
  <1> QED BY <1>1, <1>7, QuietStep, Zenon

\* The key expires.
LEMMA ExpiresKeeps ==
    ASSUME CacheInv, Expires
    PROVE  CacheInv'
  <1>1. Write(<<Missing>>, FALSE) /\ UNCHANGED <<clients, caller, history>>
    BY DEF Expires
  <1>2. ServerInv
    BY DEF CacheInv
  <1>3. /\ held' = Missing /\ version' \in Nat /\ version' >= version
        /\ held' = held \/ version' = version + 1
        /\ link' \in Seq([entry : Entry, batch : BOOLEAN])
        /\ version' - Len(link') >= version - Len(link)
        /\ \A i \in DOMAIN link' : \/ link'[i] = [entry |-> Missing, batch |-> FALSE]
                                   \/ i \in DOMAIN link /\ link'[i] = link[i]
    BY <1>1, <1>2, MissingType, WriteOne
  <1>4. ServerStep(Missing)
    BY <1>3, MissingType DEF ServerStep
  <1> QED BY <1>1, <1>4, QuietStep, Zenon

\* NewCache makes its clients, or fails.
LEMMA NewCacheKeeps ==
    ASSUME CacheInv, NEW slaveOpt \in BOOLEAN, NewCache(slaveOpt)
    PROVE  CacheInv'
  <1>1. UNCHANGED <<held, link, version, caller, history>>
    BY DEF NewCache
  <1>2. ClientInv'
    BY NilAssumption DEF CacheInv, ClientInv, NewCache
  <1> QED BY <1>1, <1>2, ClientStep, Zenon

\* Close, and the application that closes a client.
LEMMA CloseKeeps ==
    ASSUME CacheInv, CloseMaster \/ CloseSlave \/ \E client \in {master, slave} : CloseClient(client)
    PROVE  CacheInv'
  <1>1. UNCHANGED <<held, link, version, caller, history>>
    BY DEF CloseMaster, CloseSlave, CloseClient
  <1>2. ClientInv
    BY DEF CacheInv
  <1>3. CASE CloseMaster
    <2>1. ClientInv'
      BY <1>2, <1>3 DEF ClientInv, CloseMaster
    <2> QED BY <1>1, <2>1, ClientStep, Zenon
  <1>4. CASE CloseSlave
    <2>1. ClientInv'
      BY <1>2, <1>4 DEF ClientInv, CloseSlave
    <2> QED BY <1>1, <2>1, ClientStep, Zenon
  <1>5. CASE \E client \in {master, slave} : CloseClient(client)
    <2>1. ClientInv'
      BY <1>2, <1>5 DEF ClientInv, CloseClient
    <2> QED BY <1>1, <2>1, ClientStep, Zenon
  <1> QED BY <1>3, <1>4, <1>5

\* There is nothing at first.
LEMMA InitKeeps == CacheInit => CacheInv
  <1> SUFFICES ASSUME CacheInit PROVE CacheInv
    OBVIOUS
  <1>1. \A p \in Callers : place[p] = "idle"
    BY DEF CacheInit
  <1>2. \A p \in Callers : CallerInv(p) /\ ~ Carries(p)
    BY <1>1 DEF CallerInv, Waiting, Carries, Replied
  <1>3. CallersTypeOK
    BY DEF CacheInit, CallersTypeOK
  <1>4. ServerInv
    BY MissingType DEF CacheInit, ServerInv, AtomicExpiry
  <1>5. OnePlace
    BY <1>2 DEF CacheInit, OnePlace, TakenOnce, IsInjective
  <1>6. ClientInv
    BY DEF CacheInit, ClientInv
  <1> QED BY <1>2, <1>3, <1>4, <1>5, <1>6 DEF CacheInv

\* Every step of Cache keeps the invariant.
LEMMA CacheStep == CacheInv /\ [CacheNext]_cacheVars => CacheInv'
  <1> SUFFICES ASSUME CacheInv, [CacheNext]_cacheVars PROVE CacheInv'
    OBVIOUS
  <1>1. CASE \E slaveOpt \in BOOLEAN : NewCache(slaveOpt)
    BY <1>1, NewCacheKeeps, Zenon
  <1>2. ASSUME NEW p \in Callers,
               \E route \in Routes : \E args \in Arguments(route[2]) : Begin(p, route, args)
        PROVE  CacheInv'
    BY <1>2, BeginKeeps, Zenon
  <1>3. ASSUME NEW p \in Callers, Execute(p) \/ ReturnCall(p) \/ ResendCall(p) \/ FailCall(p)
        PROVE  CacheInv'
    BY <1>3, ExecuteKeeps, ReturnKeeps, ResendKeeps, FailKeeps, Zenon
  <1>4. CASE Replicate
    BY <1>4, ReplicateKeeps, Zenon
  <1>5. CASE Expires
    BY <1>5, ExpiresKeeps, Zenon
  <1>6. CASE CloseMaster \/ CloseSlave \/ \E client \in {master, slave} : CloseClient(client)
    BY <1>6, CloseKeeps, Zenon
  <1>7. CASE UNCHANGED cacheVars
    <2>1. UNCHANGED <<held, link, version, caller, history>> /\ UNCHANGED clients
      BY <1>7 DEF cacheVars
    <2>2. ClientInv'
      BY <2>1 DEF CacheInv, ClientInv, clients
    <2> QED BY <2>1, <2>2, ClientStep, Zenon
  <1> QED BY <1>1, <1>2, <1>3, <1>4, <1>5, <1>6, <1>7, Zenon DEF CacheNext

\* CacheInv holds of every Cache, for any callers, fields and number of calls.
THEOREM CacheInvariant == CacheSpec => []CacheInv
  BY InitKeeps, CacheStep, PTL DEF CacheSpec

\* No read goes back in time: one that returned shows every write that had returned before
\* it was called, or what the slave had shown by then.
THEOREM CacheReadsForward == CacheSpec => []ReadsGoForward
  <1>1. CacheInv => ReadsGoForward
    BY DEF CacheInv, CallersTypeOK, CallerInv, ReadsGoForward, Replied, Answer
  <1> QED BY <1>1, CacheInvariant, PTL

\* HMSetAndExpiry, a transaction, shows no hash without its time to live.
THEOREM CacheAtomicExpiry == CacheSpec => []AtomicExpiry
  <1>1. CacheInv => AtomicExpiry
    BY DEF CacheInv, ServerInv
  <1> QED BY <1>1, CacheInvariant, PTL

\* What HMSetAndExpiry returns says what the key holds, though Redis undoes nothing of a
\* transaction that fails.
THEOREM CacheBatchOutcome == CacheSpec => []BatchOutcome
  <1>1. CacheInv => BatchOutcome
    BY DEF CacheInv, CallerInv, BatchOutcome
  <1> QED BY <1>1, CacheInvariant, PTL

\* GetDel and GetSet hand out a value once, however often a command is sent again.
THEOREM CacheTakenOnce == CacheSpec => []TakenOnce
  <1>1. CacheInv => TakenOnce
    BY DEF CacheInv, OnePlace
  <1> QED BY <1>1, CacheInvariant, PTL

\* A Cache that Close left without clients has no open one.
THEOREM CacheCloseReleases == CacheSpec => []CloseReleases
  <1>1. CacheInv => CloseReleases
    BY DEF CacheInv, ClientInv, CloseReleases
  <1> QED BY <1>1, CacheInvariant, PTL
============================================================================
