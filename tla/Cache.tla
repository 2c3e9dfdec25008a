------------------------------- MODULE Cache -------------------------------
(***************************************************************************)
(* cache.go: writes go to a master, most reads to a slave, which is the    *)
(* same client when no slave is configured.  Redis is external: the master *)
(* executes one command or transaction at a time and its slave follows in  *)
(* the same order, later.  An answer may be lost, and the client may send  *)
(* a command again that was executed.                                      *)
(* One key is modelled.  What it holds is a string, whose value is a       *)
(* number that no other write uses, or a hash, given by its fields.  A set *)
(* is modelled as a hash, its members as fields: no key is used as both.   *)
(***************************************************************************)
EXTENDS Nil, Sequences, Functions

CONSTANTS Callers, Fields,
          MaxCalls     \* bound on calls of the cache's methods, lost answers and
                       \* failed commands

VARIABLES
    life,           \* "new", "up", "closing" or "failed"
    master, slave,  \* the fields of Cache: a client, or None
    hasSlave,       \* whether NewCache was given slaveOpt
    open,           \* the clients that are not closed
    held,           \* what the key holds on the master
    link,           \* what it held after each write that the slave does not have yet
    version,        \* the number of writes to the master
    place, call, reply,  \* each caller: where it is, its command and the answer
    floor,          \* the version that the answer of its call must show at least
    known,          \* the version that calls which returned have made or shown, and
                    \* the one that reads from the slave have shown
    taken,          \* the values that GetDel and GetSet returned
    calls

clients == <<life, master, slave, hasSlave, open>>
caller == <<place, call, reply, floor>>
history == <<known, taken>>
cacheVars == <<clients, held, link, version, caller, history, calls>>

Missing == [kind |-> "none", val |-> None, fields |-> {}, ttl |-> FALSE]
-----------------------------------------------------------------------------
\* The methods of Cache: the client each one uses, and its Redis command.  Commands that
\* do the same to the model's key share a name.
StringMethods == [
    KeyDel |-> <<"master", "DEL">>, KeyExists |-> <<"slave", "READ">>,
    KeyExpire |-> <<"master", "EXPIRE">>, KeyExpireAt |-> <<"master", "EXPIRE">>,
    DecrBy |-> <<"master", "INCRBY">>, IncrBy |-> <<"master", "INCRBY">>,
    IncrByFloat |-> <<"master", "INCRBY">>,
    Get |-> <<"slave", "READ">>, GetJson |-> <<"slave", "READ">>,
    Set |-> <<"master", "SET">>, SetJson |-> <<"master", "SET">>,
    SetNX |-> <<"master", "SETNX">>, GetSet |-> <<"master", "GETSET">>,
    GetExpire |-> <<"master", "GETEX">>, GetDel |-> <<"master", "GETDEL">>,
    MultiGet |-> <<"slave", "READ">>, MultiSet |-> <<"master", "SET">>,
    MultiSetNX |-> <<"master", "SETNX">>]

HashMethods == [
    HSetNX |-> <<"master", "HSET">>, HIncrBy |-> <<"master", "HSET">>,
    HIncrByFloat |-> <<"master", "HSET">>, HGet |-> <<"slave", "READ">>,
    HGetJson |-> <<"slave", "READ">>, HSet |-> <<"master", "HSET">>,
    HSetJson |-> <<"master", "HSET">>, HDel |-> <<"master", "HDEL">>,
    HExists |-> <<"master", "READ">>, HGetAll |-> <<"slave", "READ">>,
    HKeys |-> <<"slave", "READ">>, HLen |-> <<"slave", "READ">>,
    HMGet |-> <<"slave", "READ">>, HMSet |-> <<"master", "HSET">>,
    HVals |-> <<"slave", "READ">>, HMSetAndExpiry |-> <<"master", "BATCH">>]

SetMethods == [
    SAdd |-> <<"master", "HSET">>, SIsMember |-> <<"slave", "READ">>,
    SMultiIsMember |-> <<"slave", "READ">>, SMembers |-> <<"slave", "READ">>,
    SRemove |-> <<"master", "HDEL">>]

Routes == Range(StringMethods) \cup Range(HashMethods) \cup Range(SetMethods)
-----------------------------------------------------------------------------
\* Redis (external).  A command on what the key holds, e, gives what it holds then,
\* whether there is an error, and a value; n is the value a write uses.
Result(e, val) == [entry |-> e, err |-> FALSE, val |-> val]
WrongType(e) == [entry |-> e, err |-> TRUE, val |-> None]
String(n, ttl) == [kind |-> "string", val |-> n, fields |-> {}, ttl |-> ttl]
HashOf(fs, ttl) ==
    IF fs = {} THEN Missing ELSE [kind |-> "hash", val |-> None, fields |-> fs, ttl |-> ttl]

HSET(e, f) == IF e.kind = "string" THEN WrongType(e)
              ELSE Result(HashOf(e.fields \cup {f}, e.ttl), None)
HDEL(e, f) == IF e.kind = "string" THEN WrongType(e)
              ELSE Result(HashOf(e.fields \ {f}, e.ttl), None)

\* EXPIRE with 0 deletes the key; a missing key stays missing.
EXPIRE(e, expiry) ==
    Result(IF e = Missing \/ expiry = 0 THEN Missing ELSE [e EXCEPT !.ttl = TRUE], None)
SETNX(e, n, expiry) == Result(IF e = Missing THEN String(n, expiry > 0) ELSE e, None)
INCRBY(e, n) == IF e.kind = "hash" THEN WrongType(e) ELSE Result(String(n, e.ttl), None)
GETSET(e, n) == IF e.kind = "hash" THEN WrongType(e) ELSE Result(String(n, FALSE), e.val)

\* GETEX with 0 removes the time to live.
GETEX(e, expiry) ==
    IF e.kind = "hash" THEN WrongType(e)
    ELSE Result(IF e = Missing THEN e ELSE String(e.val, expiry > 0), None)

\* Mutant: a plain Get, as Get has it.
GetDelKeeps(e) == IF e.kind = "hash" THEN WrongType(e) ELSE Result(e, e.val)
GETDEL(e) == IF e.kind = "hash" THEN WrongType(e) ELSE Result(Missing, e.val)

Redis(e, c, n) ==
    CASE c.op = "READ"   -> Result(e, None)
      [] c.op = "DEL"    -> Result(Missing, None)
      [] c.op = "EXPIRE" -> EXPIRE(e, c.expiry)
      [] c.op = "SET"    -> Result(String(n, c.expiry > 0), None)
      [] c.op = "SETNX"  -> SETNX(e, n, c.expiry)
      [] c.op = "INCRBY" -> INCRBY(e, n)
      [] c.op = "GETSET" -> GETSET(e, n)
      [] c.op = "GETEX"  -> GETEX(e, c.expiry)
      [] c.op = "GETDEL" -> GETDEL(e)
      [] c.op = "HSET"   -> HSET(e, c.field)
      [] c.op = "HDEL"   -> HDEL(e, c.field)
-----------------------------------------------------------------------------
\* The two commands of HMSetAndExpiry, one after the other, on e.
HMSetThenExpire(e, c) ==
    LET hmset == HSET(e, c.field) IN <<hmset, EXPIRE(hmset.entry, c.expiry)>>

\* getCmdResult: the results, and among them the errors, of the commands of a
\* transaction; those of the types it lists, which HMSet and Expire have.
GetCmdResult(cmders) == {i \in DOMAIN cmders : cmders[i].err}

\* Mutant: only the error of the last command counts.
BatchLastError(cmders) == cmders[Len(cmders)].err

\* Batch reports an error when Exec does, which is when a command has one, when there
\* was no command, or when getCmdResult finds one; HMSetAndExpiry returns it.
Batch(cmders) ==
    \/ \E i \in DOMAIN cmders : cmders[i].err
    \/ cmders = <<>> \/ GetCmdResult(cmders) # {}

\* Mutant: Pipeline in place of TxPipeline, the commands execute one by one.
PipelineWrites(cmders) == <<cmders[1].entry, cmders[2].entry>>

\* What the master, and later its slave, show of a transaction: the end of it.
TxPipelineWrites(cmders) == <<cmders[Len(cmders)].entry>>

\* What the master does with a command: the states it goes through, and the answer.
\* An error of one command of a transaction does not undo the others.
Executed(c) ==
    LET cmders == HMSetThenExpire(held, c)
        r == Redis(held, c, version)
    IN  IF c.op = "BATCH"
        THEN [writes |-> TxPipelineWrites(cmders), err |-> Batch(cmders), val |-> None]
        ELSE [writes |-> <<r.entry>>, err |-> r.err, val |-> r.val]
-----------------------------------------------------------------------------
CacheInit ==
    /\ life = "new" /\ master = None /\ slave = None /\ hasSlave = FALSE /\ open = {}
    /\ held = Missing /\ link = <<>> /\ version = 0
    /\ place = [p \in Callers |-> "idle"] /\ call = [p \in Callers |-> None]
    /\ reply = [p \in Callers |-> None] /\ floor = [p \in Callers |-> 0]
    /\ known = [master |-> 0, slave |-> 0] /\ taken = <<>>
    /\ calls = 0

\* NewCache.  When a Ping fails, the clients made by then are not closed.
NewCache(slaveOpt) ==
    /\ life = "new" /\ hasSlave' = slaveOpt
    /\ \/ /\ life' = "up" /\ master' = "m" /\ slave' = IF slaveOpt THEN "s" ELSE "m"
          /\ open' = {master', slave'}
       \/ /\ life' = "failed" /\ UNCHANGED <<master, slave>>
          /\ \E made \in {{"m"}, IF slaveOpt THEN {"m", "s"} ELSE {"m"}} : open' = made
    /\ UNCHANGED <<held, link, version, caller, history, calls>>

Spend == calls < MaxCalls /\ calls' = calls + 1

\* Mutant: the reads are spread over both clients.
ClientsFor(route) == IF route[2] = "READ" THEN {master, slave} ELSE {master}

\* The client a method uses.
ClientFor(route) == {IF route[1] = "master" THEN master ELSE slave}

\* The arguments that a command looks at: a field, and an expiry of 0 or more.
Arguments(op) ==
    (IF op \in {"HSET", "HDEL", "BATCH"} THEN Fields ELSE {None})
    \X (IF op \in {"EXPIRE", "SET", "SETNX", "GETEX", "BATCH"} THEN {0, 1} ELSE {0})

\* A method is called; after Close its client is nil.  SetJson and HSetJson get here
\* when the value can be marshalled, and do nothing otherwise.
Begin(p, route, args) ==
    /\ life \in {"up", "closing"} /\ place[p] = "idle" /\ Spend
    /\ \E client \in ClientFor(route) :
         /\ place' = [place EXCEPT ![p] = IF client = None THEN "panic" ELSE "sent"]
         /\ call' = [call EXCEPT ![p] = [client |-> client, op |-> route[2],
                                         field |-> args[1], expiry |-> args[2]]]
    /\ floor' = [floor EXCEPT ![p] = known[IF hasSlave THEN route[1] ELSE "master"]]
    /\ UNCHANGED <<clients, held, link, version, reply, history>>

MoveTo(p, l) == place' = [place EXCEPT ![p] = l]

\* The caller is done with its call.
Forget(p) ==
    /\ MoveTo(p, "idle") /\ call' = [call EXCEPT ![p] = None]
    /\ reply' = [reply EXCEPT ![p] = None] /\ floor' = [floor EXCEPT ![p] = 0]

\* A write on the master, which its slave will see, unless it changes nothing.
Write(states, batch) ==
    IF states = <<held>> THEN UNCHANGED <<held, link, version>>
    ELSE /\ held' = states[Len(states)] /\ version' = version + Len(states)
         /\ link' = IF hasSlave
                    THEN link \o [i \in DOMAIN states |-> [entry |-> states[i], batch |-> batch]]
                    ELSE link

\* The server executes the command; a slave's shows what it has.  When the call has
\* failed by then, nobody waits for the answer.
Execute(p) ==
    LET c == call[p]
        x == Executed(c)
        shows == IF c.client = "s" THEN version - Len(link) ELSE version'
    IN  /\ place[p] \in {"sent", "late"}
        /\ IF c.op = "READ" THEN UNCHANGED <<held, link, version>>
           ELSE Write(x.writes, c.op = "BATCH")
        /\ \/ /\ place[p] = "sent" /\ c.client \in open /\ MoveTo(p, "answered")
              /\ reply' = [reply EXCEPT ![p] =
                   [version |-> shows, entry |-> held', err |-> x.err, val |-> x.val]]
              /\ UNCHANGED <<call, floor>>
           \/ place[p] = "late" /\ Forget(p)
        /\ UNCHANGED <<clients, history, calls>>

\* The method returns.
ReturnCall(p) ==
    LET c == call[p] a == reply[p]
    IN  /\ place[p] = "answered" /\ Forget(p)
        /\ known' = [d \in {"master", "slave"} |->
                       IF (d = "master" \/ c.client = "s") /\ a.version > known[d]
                       THEN a.version ELSE known[d]]
        /\ taken' = IF c.op \in {"GETDEL", "GETSET"} /\ a.val # None
                    THEN Append(taken, a.val) ELSE taken
        /\ UNCHANGED <<clients, held, link, version, calls>>

\* The answer is lost and the client sends the command again; or the method returns an
\* error, because the client is closed or for another reason, and the command may still
\* be on its way.
ResendCall(p) ==
    /\ place[p] = "answered" /\ Spend
    /\ MoveTo(p, "sent") /\ reply' = [reply EXCEPT ![p] = None]
    /\ UNCHANGED <<clients, held, link, version, call, floor, history>>
FailCall(p) ==
    /\ place[p] \in {"sent", "answered"}
    /\ \/ call[p].client \notin open /\ UNCHANGED calls
       \/ Spend
    /\ \/ Forget(p)
       \/ /\ place[p] = "sent" /\ call[p].op # "READ" /\ MoveTo(p, "late")
          /\ floor' = [floor EXCEPT ![p] = 0]
          /\ UNCHANGED <<call, reply>>
    /\ UNCHANGED <<clients, held, link, version, history>>

\* The slave executes the next write or transaction of the master.
Replicate ==
    /\ link # <<>> /\ link' = Tail(link)
    /\ UNCHANGED <<clients, held, version, caller, history, calls>>

\* The time to live ends.
Expires ==
    /\ held.ttl /\ Write(<<Missing>>, FALSE)
    /\ UNCHANGED <<clients, caller, history, calls>>

\* Mutant: Close returns when the client of the master was closed before.
CloseMasterReturns ==
    /\ life = "up" /\ Spend
    /\ master' = None /\ open' = open \ {master}
    /\ life' = IF master \in open THEN "closing" ELSE "up"
    /\ slave' = IF master \in open THEN slave ELSE None
    /\ UNCHANGED <<hasSlave, held, link, version, caller, history>>

\* Close, for the master.  When the client is closed already, Close returns the error.
CloseMaster ==
    /\ life = "up" /\ Spend
    /\ master' = None /\ open' = open \ {master}
    /\ life' = IF master \in open \cup {None} THEN "closing" ELSE "up"
    /\ UNCHANGED <<slave, hasSlave, held, link, version, caller, history>>

\* Close, for the slave, which may be the client that was just closed.
CloseSlave ==
    /\ life = "closing" /\ life' = "up"
    /\ slave' = None /\ open' = open \ {slave}
    /\ UNCHANGED <<master, hasSlave, held, link, version, caller, history, calls>>

\* The application closes a client it got from Master() or Slave().
CloseClient(client) ==
    /\ life = "up" /\ client \in open /\ Spend /\ open' = open \ {client}
    /\ UNCHANGED <<life, master, slave, hasSlave, held, link, version, caller, history>>

CacheNext ==
    \/ \E slaveOpt \in BOOLEAN : NewCache(slaveOpt)
    \/ \E p \in Callers :
         \/ \E route \in Routes : \E args \in Arguments(route[2]) : Begin(p, route, args)
         \/ Execute(p) \/ ReturnCall(p) \/ ResendCall(p) \/ FailCall(p)
    \/ Replicate \/ Expires \/ CloseMaster \/ CloseSlave
    \/ \E client \in {master, slave} : CloseClient(client)

CacheSpec == CacheInit /\ [][CacheNext]_cacheVars
-----------------------------------------------------------------------------
Replied(p, op) == place[p] = "answered" /\ call[p].op = op

\* A read shows every write that returned before the read was called, when there is no
\* slave or the method asks the master; and never less than an earlier read through the
\* slave has shown: Get, HGet and the others do not go back in time.
ReadsGoForward ==
    \A p \in Callers : Replied(p, "READ") => reply[p].version >= floor[p]

\* HMSetAndExpiry never lets the slave, or a reader of the master, see its hash without
\* a time to live, whatever is lost on the way.
AtomicExpiry ==
    \A i \in DOMAIN link :
        link[i].batch /\ link[i].entry.kind = "hash" => link[i].entry.ttl

\* The answer a to a call c of HMSetAndExpiry says what the key holds.
TellsOutcome(c, a) ==
    IF a.err THEN a.entry.kind # "hash"
    ELSE IF c.expiry = 0 THEN a.entry = Missing
    ELSE a.entry.kind = "hash" /\ c.field \in a.entry.fields /\ a.entry.ttl

\* When HMSetAndExpiry returns true the hash has the field and a time to live, or with
\* an expiry of 0 the key is gone.  An error, which the key's being a string makes,
\* leaves no hash.
BatchOutcome ==
    \A p \in Callers : Replied(p, "BATCH") => TellsOutcome(call[p], reply[p])

\* A value is handed out by GetDel or GetSet once, to one caller, also when answers are
\* lost and commands are sent again.
TakenOnce == IsInjective(taken)

\* A Cache whose clients are both nil has closed them, whether it shared one or had two
\* and whichever Close returned an error on the way: one that did can be called again.
CloseReleases ==
    life = "up" /\ master = None /\ slave = None => open = {}
-----------------------------------------------------------------------------
Entry == [kind : {"none", "string", "hash"}, val : Nat \cup {None},
          fields : SUBSET (Fields \cup {None}), ttl : BOOLEAN]
Ops == {"READ", "DEL", "EXPIRE", "SET", "SETNX", "INCRBY", "GETSET", "GETEX", "GETDEL",
        "HSET", "HDEL", "BATCH"}
Command == [client : {"m", "s"}, op : Ops, field : Fields \cup {None}, expiry : {0, 1}]
Answer == [version : Nat, entry : Entry, err : BOOLEAN, val : Nat \cup {None}]

Waiting(p) == place[p] \in {"sent", "answered"}

\* What a server shows: a slave does not have the writes on the link.
Shown(client) == IF client = "s" THEN version - Len(link) ELSE version

\* An answer that hands out a value.
Carries(p) ==
    place[p] = "answered" /\ call[p].op \in {"GETDEL", "GETSET"} /\ reply[p].val # None

CallersTypeOK ==
    /\ place \in [Callers -> {"idle", "sent", "answered", "late", "panic"}]
    /\ DOMAIN call = Callers /\ DOMAIN reply = Callers /\ floor \in [Callers -> Nat]

\* The servers: what calls have shown is on the server that showed it, the value that
\* the key holds is an old one, and no transaction on the link was split.
ServerInv ==
    /\ held \in Entry /\ link \in Seq([entry : Entry, batch : BOOLEAN]) /\ version \in Nat
    /\ known \in [{"master", "slave"} -> Nat]
    /\ known["master"] <= version /\ known["slave"] <= version - Len(link)
    /\ held.val # None => held.val < version
    /\ AtomicExpiry

\* A caller: its call will show, and its answer shows, what was known when the call was
\* made; the value it is handed is no longer the key's.
CallerInv(p) ==
    /\ Waiting(p) \/ place[p] = "late" => call[p] \in Command
    /\ Waiting(p) => floor[p] <= Shown(call[p].client)
    /\ place[p] = "answered" =>
         /\ reply[p] \in Answer
         /\ floor[p] <= reply[p].version /\ reply[p].version <= Shown(call[p].client)
    /\ Carries(p) => reply[p].val < version /\ reply[p].val # held.val
    /\ Replied(p, "BATCH") => TellsOutcome(call[p], reply[p])

\* A value is in one place: with the key, on its way to one caller, or taken; and a new
\* one is none of these.
OnePlace ==
    /\ taken \in Seq(Nat) /\ TakenOnce
    /\ \A i \in DOMAIN taken : taken[i] < version /\ taken[i] # held.val
    /\ \A p \in Callers : Carries(p) =>
         /\ \A i \in DOMAIN taken : reply[p].val # taken[i]
         /\ \A q \in Callers : Carries(q) /\ reply[p].val = reply[q].val => p = q

\* While a Cache is up, only its own clients are open, and the slave is a client of its
\* own when NewCache was given options for one.
ClientInv ==
    /\ life \in {"up", "closing"} => open \subseteq {master, slave} \ {None}
    /\ master \in {"m", None} /\ slave \in {IF hasSlave THEN "s" ELSE "m", None}
    /\ life \in {"new", "failed"} => master = None /\ slave = None

\* The inductive invariant of the methods of Cache and of NewCache and Close.
CacheInv ==
    /\ CallersTypeOK /\ ServerInv /\ OnePlace /\ ClientInv
    /\ \A p \in Callers : CallerInv(p)
=============================================================================
