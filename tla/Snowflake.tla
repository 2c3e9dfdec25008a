----------------------------- MODULE Snowflake -----------------------------
(***************************************************************************)
(* snowflake.go: 63-bit ids made of seconds since an epoch, a worker id    *)
(* and a sequence number within the second.  A generator's mutex is held   *)
(* for the whole of Next, so a call is one step, or two when the sequence  *)
(* numbers of the second have run out and it spins until the next one.     *)
(* The sizes of the fields are constants: 2^50, 2^3, 2^10 in the code.     *)
(***************************************************************************)
EXTENDS Integers

CONSTANTS
    Generators,                               \* Snowflake values, in any process
    timestampSize, workeridSize, sequenceSize,
    epoch,                                    \* 1672502400 in the code
    Start, MaxTime,                           \* bounds on the clock
    None

ASSUME SnowflakeAssumption ==
    /\ timestampSize \in Nat \ {0} /\ workeridSize \in Nat \ {0} /\ sequenceSize \in Nat \ {0}
    /\ epoch \in Nat \ {0} /\ Start \in Nat /\ Start >= epoch /\ MaxTime \in Nat
    /\ None \notin Int

VARIABLES
    now,        \* time.Now().Unix()
    workerid, timestamp, sequence,  \* the fields of each Snowflake
    spinning,   \* the generators inside the loop of Next
    last,       \* the id returned last
    ids         \* the ids returned before it

vars == <<now, workerid, timestamp, sequence, spinning, last, ids>>

timestampMax == timestampSize - 1
workeridMax == workeridSize - 1

Init ==
    /\ now = Start
    /\ workerid = [g \in Generators |-> None]
    /\ timestamp = [g \in Generators |-> 0]
    /\ sequence = [g \in Generators |-> 0]
    /\ spinning = {} /\ last = None /\ ids = {}

\* NewSnowflake accepts what fits the field.  That no two live generators share a
\* worker id, and that one is not made again in the second of the last id of that
\* worker, is up to the deployment.
NewSnowflake(g) ==
    /\ g \notin spinning /\ timestamp[g] < now
    /\ \E w \in -1 .. workeridSize :
         /\ ~(w < 0 \/ w > workeridMax)
         /\ \A h \in Generators \ {g} : workerid[h] # w
         /\ workerid[g] \in {None, w}
         /\ workerid' = [workerid EXCEPT ![g] = w]
    /\ timestamp' = [timestamp EXCEPT ![g] = 0]
    /\ sequence' = [sequence EXCEPT ![g] = 0]
    /\ UNCHANGED <<now, spinning, last, ids>>

\* The three fields in one number.
Id(t, w, s) == (t * workeridSize + w) * sequenceSize + s
GetWorkerId(sid) == (sid \div sequenceSize) % workeridSize
GetTimestamp(sid) == ((sid \div sequenceSize) \div workeridSize) % timestampSize
GetGenTimestamp(sid) == GetTimestamp(sid) + epoch

\* Mutant: no test of the time against its field.
ReturnUnchecked(g, s) ==
    /\ timestamp' = [timestamp EXCEPT ![g] = now]
    /\ last' = Id(now - epoch, workerid[g], s)
    /\ ids' = ids \cup {last}

\* The end of Next: 0 when the time no longer fits, an id otherwise.
Return(g, s) ==
    \/ /\ now - epoch > timestampMax
       /\ UNCHANGED <<timestamp, last, ids>>
    \/ /\ now - epoch <= timestampMax
       /\ timestamp' = [timestamp EXCEPT ![g] = now]
       /\ last' = Id(now - epoch, workerid[g], s)
       /\ ids' = ids \cup {last}

\* Mutant: sequence numbers that have run out start again in the same second.
Next1Wraps(g) ==
    LET s == IF timestamp[g] = now THEN (sequence[g] + 1) % sequenceSize ELSE 0
    IN  /\ workerid[g] # None /\ g \notin spinning
        /\ sequence' = [sequence EXCEPT ![g] = s]
        /\ Return(g, s)
        /\ UNCHANGED <<now, workerid, spinning>>

\* Next in a second with sequence numbers left: 0 in a new one.
Next1(g) ==
    LET s == IF timestamp[g] = now THEN (sequence[g] + 1) % sequenceSize ELSE 0
    IN  /\ workerid[g] # None /\ g \notin spinning
        /\ timestamp[g] = now => s # 0
        /\ sequence' = [sequence EXCEPT ![g] = s]
        /\ Return(g, s)
        /\ UNCHANGED <<now, workerid, spinning>>

\* Next when they have run out: the loop is entered ...
Spin(g) ==
    /\ workerid[g] # None /\ g \notin spinning
    /\ timestamp[g] = now /\ (sequence[g] + 1) % sequenceSize = 0
    /\ sequence' = [sequence EXCEPT ![g] = 0]
    /\ spinning' = spinning \cup {g}
    /\ UNCHANGED <<now, workerid, timestamp, last, ids>>

\* Mutant: the loop ends one second early.
LeaveSpinEarly(g) ==
    /\ g \in spinning /\ now >= timestamp[g]
    /\ Return(g, sequence[g])
    /\ spinning' = spinning \ {g}
    /\ UNCHANGED <<now, workerid, sequence>>

\* Mutant: the loop does not read the clock again.
LeaveSpinStale(g) ==
    /\ g \in spinning /\ timestamp[g] > timestamp[g]
    /\ Return(g, sequence[g])
    /\ spinning' = spinning \ {g}
    /\ UNCHANGED <<now, workerid, sequence>>

\* ... and left in a later second.
LeaveSpin(g) ==
    /\ g \in spinning /\ now > timestamp[g]
    /\ Return(g, sequence[g])
    /\ spinning' = spinning \ {g}
    /\ UNCHANGED <<now, workerid, sequence>>

Tick ==
    /\ now < MaxTime /\ now' = now + 1
    /\ UNCHANGED <<workerid, timestamp, sequence, spinning, last, ids>>

Next ==
    \/ Tick
    \/ \E g \in Generators : NewSnowflake(g) \/ Next1(g) \/ Spin(g) \/ LeaveSpin(g)

Spec == Init /\ [][Next]_vars

\* Each generator's mutex is released: the loop of Next ends when the clock moves.
FairSpec == Spec /\ WF_vars(Tick) /\ \A g \in Generators : WF_vars(LeaveSpin(g))

\* GetTimestampStatus, before the division by timestampMax: Go's integer division by
\* -epoch truncates towards 0.
TimestampStatus == -(now \div epoch)
-----------------------------------------------------------------------------
\* The type of the fields and of the ids that Next returns: every id fits 63 bits.
TypeOK ==
    /\ now \in Nat
    /\ workerid \in [Generators -> (0 .. workeridMax) \cup {None}]
    /\ timestamp \in [Generators -> Nat]
    /\ sequence \in [Generators -> 0 .. sequenceSize - 1]
    /\ spinning \subseteq Generators
    /\ last \in Nat \cup {None} /\ ids \subseteq Nat \cup {None}

\* No two calls of Next, on any generators, return the same id, however many calls
\* fall into one second and whenever a generator is made anew in a later one.
UniqueIds == last \notin ids \ {None}

\* From the id that Next returns, GetWorkerId and GetGenTimestamp read back the
\* worker it was called on and the second of the call: no field runs into another,
\* up to the last second that fits.
FieldsReadBack ==
    [][last' # last =>
          /\ GetGenTimestamp(last') = now
          /\ \E g \in Generators : workerid[g] = GetWorkerId(last') /\ timestamp'[g] = now]_vars

\* The inductive form: an id is of an earlier second, or of this one and of a
\* generator whose sequence number has passed it.
Issued(sid) ==
    \E g \in Generators, t \in 0 .. now - epoch, s \in 0 .. sequenceSize - 1 :
        /\ workerid[g] # None /\ sid = Id(t, workerid[g], s)
        /\ \/ t + epoch < now
           \/ /\ t + epoch = now /\ timestamp[g] = now
              /\ s <= sequence[g] \/ g \in spinning
SnowflakeInv ==
    /\ TypeOK /\ UniqueIds /\ now >= epoch
    /\ \A g, h \in Generators : workerid[g] = workerid[h] /\ workerid[g] # None => g = h
    /\ \A g \in spinning : workerid[g] # None
    /\ \A sid \in (ids \cup {last}) \ {None} : Issued(sid)

\* The ids of one worker increase from call to call, so that sorting by id sorts by
\* the time of the call.
IdsIncrease ==
    [][\A sid \in ids' : last' # last /\ sid # None /\ GetWorkerId(sid) = GetWorkerId(last')
          => sid < last']_vars

\* A call that has run out of sequence numbers returns once the second is over.
SpinEnds == \A g \in Generators : g \in spinning /\ now < MaxTime ~> g \notin spinning

\* "如果当前序列超出12bit长度，则需要等待下一秒" (snowflake.go:46): Next waits only after
\* 2^12 ids of the second, with 12 two more than the code's 10 bits.
WaitsAfter12Bits ==
    \A g \in spinning :
        \A s \in 0 .. 4 * sequenceSize - 1 :
            Id(timestamp[g] - epoch, workerid[g], 0) + s \in ids \cup {last}

\* "workerid must be between 0 and %d" with workeridMax-1 (snowflake.go:30).
WorkerIdAsStated == \A g \in Generators : workerid[g] # None => workerid[g] <= workeridMax - 1

\* "获取时间戳已使用的占比：范围（0.0 - 1.0）" (snowflake.go:88).
StatusInRange == TimestampStatus \in 0 .. timestampMax
=============================================================================
