-------------------------- MODULE SnowflakeProofs --------------------------
(***************************************************************************)
(* For any number of generators and any field sizes, no id is returned     *)
(* twice, the fields of an id can be read back, and SnowflakeInv is        *)
(* inductive.                                                              *)
(***************************************************************************)
EXTENDS Snowflake, TLAPS

\* A number with a digit below S appended determines both.
LEMMA Digits ==
    ASSUME NEW a \in Nat, NEW b \in Nat, NEW S \in Nat \ {0},
           NEW r \in 0 .. S - 1, NEW s \in 0 .. S - 1, a * S + r = b * S + s
    PROVE  a = b /\ r = s
BY Z3

\* The last digit and the rest of such a number.
LEMMA DigitBack ==
    ASSUME NEW a \in Nat, NEW S \in Nat \ {0}, NEW s \in 0 .. S - 1
    PROVE  (a * S + s) \div S = a /\ (a * S + s) % S = s
<1>1. (a * S + s) \div S = a
  BY Z3
<1>2. (a * S + s) % S = s
  BY <1>1, Z3
<1> QED
  BY <1>1, <1>2

\* Next composes an id of its fields without overlap: equal ids have equal fields.
LEMMA IdInjective ==
    ASSUME NEW t \in Nat, NEW u \in Nat, NEW w \in 0 .. workeridMax, NEW x \in 0 .. workeridMax,
           NEW s \in 0 .. sequenceSize - 1, NEW r \in 0 .. sequenceSize - 1,
           Id(t, w, s) = Id(u, x, r)
    PROVE  t = u /\ w = x /\ s = r
<1> DEFINE a == t * workeridSize + w
           b == u * workeridSize + x
<1>1. a \in Nat /\ b \in Nat
  BY SnowflakeAssumption DEF workeridMax
<1>2. a * sequenceSize + s = b * sequenceSize + r
  BY DEF Id
<1> HIDE DEF a, b
<1>3. a = b /\ s = r
  BY <1>1, <1>2, Digits, SnowflakeAssumption
<1>4. t = u /\ w = x
  BY <1>3, Digits, SnowflakeAssumption DEF a, b, workeridMax
<1> QED
  BY <1>3, <1>4

\* GetWorkerId and GetTimestamp invert the composition.
LEMMA ReadBack ==
    ASSUME NEW t \in 0 .. timestampMax, NEW w \in 0 .. workeridMax,
           NEW s \in 0 .. sequenceSize - 1
    PROVE  /\ Id(t, w, s) \in Nat
           /\ GetWorkerId(Id(t, w, s)) = w /\ GetTimestamp(Id(t, w, s)) = t
<1> DEFINE a == t * workeridSize + w
           i == a * sequenceSize + s
<1>1. a \in Nat
  BY SnowflakeAssumption DEF workeridMax, timestampMax
<1>2. a \div workeridSize = t /\ a % workeridSize = w
  BY DigitBack, SnowflakeAssumption DEF workeridMax, timestampMax
<1>3. t % timestampSize = t
  BY SnowflakeAssumption, Z3 DEF timestampMax
<1> HIDE DEF a
<1>4. i \div sequenceSize = a /\ i \in Nat
  BY <1>1, DigitBack, SnowflakeAssumption
<1>5. Id(t, w, s) = i
  BY DEF Id, a
<1> QED
  BY <1>2, <1>3, <1>4, <1>5 DEF GetWorkerId, GetTimestamp

\* The id of the current second that Next is about to return was not returned
\* before, and it leaves UniqueIds and Issued true.
LEMMA FreshId ==
    ASSUME SnowflakeInv, NEW g \in Generators, workerid[g] # None,
           NEW s \in 0 .. sequenceSize - 1,
           timestamp[g] = now => g \notin spinning /\ s > sequence[g]
    PROVE  /\ Id(now - epoch, workerid[g], s) \in Nat
           /\ Id(now - epoch, workerid[g], s) \notin (ids \cup {last}) \ {None}
<1> DEFINE i == Id(now - epoch, workerid[g], s)
<1>1. /\ now \in Nat /\ now - epoch \in Nat /\ workerid[g] \in 0 .. workeridMax
      /\ sequence[g] \in 0 .. sequenceSize - 1
  BY SnowflakeAssumption DEF SnowflakeInv, TypeOK
<1>2. i \in Nat
  BY <1>1, SnowflakeAssumption DEF Id, workeridMax
<1>3. ASSUME i \in (ids \cup {last}) \ {None} PROVE FALSE
  <2>1. Issued(i)
    BY <1>3 DEF SnowflakeInv
  <2>2. PICK h \in Generators, t \in 0 .. now - epoch, r \in 0 .. sequenceSize - 1 :
           /\ workerid[h] # None /\ i = Id(t, workerid[h], r)
           /\ \/ t + epoch < now
              \/ /\ t + epoch = now /\ timestamp[h] = now
                 /\ r <= sequence[h] \/ h \in spinning
    BY <2>1 DEF Issued
  <2>3. t \in Nat /\ workerid[h] \in 0 .. workeridMax
    BY <1>1, <2>2 DEF SnowflakeInv, TypeOK
  <2>4. t = now - epoch /\ workerid[g] = workerid[h] /\ s = r
    BY <1>1, <2>2, <2>3, IdInjective
  <2>5. g = h
    BY <2>2, <2>4 DEF SnowflakeInv
  <2> QED
    BY <1>1, <2>2, <2>3, <2>4, <2>5, SnowflakeAssumption
<1> QED
  BY <1>2, <1>3

\* An id stays issued while the clock does not go back and the generators keep what
\* the ids of the current second need.
LEMMA IssuedStays ==
    ASSUME SnowflakeInv, TypeOK', NEW sid, Issued(sid), now' >= now,
           \A g \in Generators :
              /\ workerid[g] # None => workerid'[g] = workerid[g]
              /\ timestamp[g] = now /\ now' = now =>
                    /\ timestamp'[g] = now
                    /\ g \notin spinning => sequence'[g] >= sequence[g] \/ g \in spinning'
                    /\ g \in spinning => g \in spinning'
    PROVE  Issued(sid)'
<1>1. PICK h \in Generators, t \in 0 .. now - epoch, r \in 0 .. sequenceSize - 1 :
         /\ workerid[h] # None /\ sid = Id(t, workerid[h], r)
         /\ \/ t + epoch < now
            \/ /\ t + epoch = now /\ timestamp[h] = now
               /\ r <= sequence[h] \/ h \in spinning
  BY DEF Issued
<1>2. now \in Nat /\ now' \in Nat /\ epoch \in Nat /\ t \in 0 .. now' - epoch
  <2>1. now \in Nat /\ now' \in Nat /\ epoch \in Nat
    BY SnowflakeAssumption DEF SnowflakeInv, TypeOK
  <2>2. t \in 0 .. now - epoch
    BY <1>1
  <2>3. \A m, n, e \in Nat : n >= m => 0 .. m - e \subseteq 0 .. n - e
    OBVIOUS
  <2> QED
    BY <2>1, <2>2, <2>3, Zenon
<1>3. workerid'[h] = workerid[h] /\ workerid'[h] # None /\ sid = Id(t, workerid'[h], r)
  BY <1>1
<1>4. CASE t + epoch < now'
  BY <1>2, <1>3, <1>4 DEF Issued
<1>5. CASE ~(t + epoch < now')
  <2>1. now' = now /\ t + epoch = now /\ timestamp[h] = now /\ (r <= sequence[h] \/ h \in spinning)
    BY <1>1, <1>2, <1>5
  <2>2. timestamp'[h] = now'
    BY <2>1
  <2>3. sequence[h] \in Int /\ sequence'[h] \in Int /\ r \in Int
    BY SnowflakeAssumption DEF SnowflakeInv, TypeOK
  <2>4. h \in spinning' \/ sequence'[h] >= sequence[h]
    BY <2>1
  <2>5. CASE h \in spinning'
    BY <1>2, <1>3, <2>1, <2>2, <2>5 DEF Issued
  <2>6. CASE h \notin spinning'
    <3>1. r <= sequence[h] /\ sequence'[h] >= sequence[h]
      BY <2>1, <2>4, <2>6
    <3> QED
      BY <1>2, <1>3, <2>1, <2>2, <2>3, <3>1 DEF Issued
  <2> QED
    BY <2>5, <2>6
<1> QED
  BY <1>4, <1>5

\* The masked increment of the sequence number: 0 when they have run out, one more
\* otherwise.
LEMMA MaskedIncrement ==
    ASSUME NEW S \in Nat \ {0}, NEW x \in 0 .. S - 1
    PROVE  (x + 1) % S \in 0 .. S - 1 /\ ((x + 1) % S # 0 => (x + 1) % S = x + 1)
<1>1. CASE x + 1 < S
  BY <1>1, Z3
<1>2. CASE x + 1 = S
  BY <1>2, Z3
<1> QED
  BY <1>1, <1>2

\* What a call of Next that does not spin does.
LEMMA NextStep ==
    ASSUME SnowflakeInv, NEW g \in Generators, Next1(g)
    PROVE  \E s \in 0 .. sequenceSize - 1 :
              /\ workerid[g] # None /\ g \notin spinning
              /\ timestamp[g] = now => s > sequence[g]
              /\ sequence' = [sequence EXCEPT ![g] = s] /\ Return(g, s)
              /\ UNCHANGED <<now, workerid, spinning>>
<1> DEFINE s == IF timestamp[g] = now THEN (sequence[g] + 1) % sequenceSize ELSE 0
<1>1. sequence[g] \in 0 .. sequenceSize - 1
  BY DEF SnowflakeInv, TypeOK
<1>2. s \in 0 .. sequenceSize - 1 /\ (timestamp[g] = now /\ s # 0 => s > sequence[g])
  BY <1>1, MaskedIncrement, SnowflakeAssumption
<1>3. /\ workerid[g] # None /\ g \notin spinning /\ (timestamp[g] = now => s # 0)
      /\ sequence' = [sequence EXCEPT ![g] = s] /\ Return(g, s)
      /\ UNCHANGED <<now, workerid, spinning>>
  BY DEF Next1
<1> HIDE DEF s
<1> QED
  BY <1>2, <1>3

\* TypeOK is preserved by every step.
LEMMA SnowflakeTypeStep == SnowflakeInv /\ [Next]_vars => TypeOK'
<1> SUFFICES ASSUME SnowflakeInv, [Next]_vars PROVE TypeOK'
  OBVIOUS
<1>1. TypeOK /\ now >= epoch
  BY DEF SnowflakeInv
<1>2. ASSUME NEW g \in Generators, workerid[g] # None, NEW s \in 0 .. sequenceSize - 1, Return(g, s)
      PROVE  /\ timestamp' \in [Generators -> Nat]
             /\ last' \in Nat \cup {None} /\ ids' \subseteq Nat \cup {None}
  <2>1. Id(now - epoch, workerid[g], s) \in Nat
    BY <1>1, <1>2, SnowflakeAssumption DEF Id, TypeOK, workeridMax
  <2> QED
    BY <1>1, <1>2, <2>1 DEF Return, TypeOK
<1>3. CASE UNCHANGED vars
  BY <1>1, <1>3 DEF TypeOK, vars
<1>4. CASE Tick
  BY <1>1, <1>4 DEF Tick, TypeOK
<1>5. ASSUME NEW g \in Generators, NewSnowflake(g) PROVE TypeOK'
  BY <1>1, <1>5, SnowflakeAssumption DEF NewSnowflake, TypeOK, workeridMax
<1>6. ASSUME NEW g \in Generators, Next1(g) PROVE TypeOK'
  <2>1. PICK s \in 0 .. sequenceSize - 1 :
           /\ sequence' = [sequence EXCEPT ![g] = s] /\ Return(g, s)
           /\ workerid[g] # None /\ UNCHANGED <<now, workerid, spinning>>
    BY <1>6, NextStep
  <2> QED
    BY <1>1, <1>2, <2>1 DEF TypeOK
<1>7. ASSUME NEW g \in Generators, Spin(g) PROVE TypeOK'
  BY <1>1, <1>7, SnowflakeAssumption DEF Spin, TypeOK
<1>8. ASSUME NEW g \in Generators, LeaveSpin(g) PROVE TypeOK'
  <2>1. sequence[g] \in 0 .. sequenceSize - 1 /\ workerid[g] # None
    BY <1>1, <1>8 DEF TypeOK, SnowflakeInv, LeaveSpin
  <2> QED
    BY <1>1, <1>2, <1>8, <2>1 DEF LeaveSpin, TypeOK
<1> QED
  BY <1>3, <1>4, <1>5, <1>6, <1>7, <1>8 DEF Next

\* A return of Next keeps the ids unique and issued.
LEMMA ReturnKeepsIds ==
    ASSUME SnowflakeInv, TypeOK', NEW g \in Generators, NEW s \in 0 .. sequenceSize - 1,
           workerid[g] # None, timestamp[g] = now => g \notin spinning /\ s > sequence[g],
           Return(g, s), sequence'[g] = s, UNCHANGED <<now, workerid>>, spinning' = spinning \ {g},
           \A h \in Generators \ {g} : sequence'[h] = sequence[h]
    PROVE  UniqueIds' /\ \A sid \in (ids' \cup {last'}) \ {None} : Issued(sid)'
<1> DEFINE i == Id(now - epoch, workerid[g], s)
<1>1. TypeOK /\ now >= epoch /\ epoch \in Nat /\ now \in Nat /\ UniqueIds
  BY SnowflakeAssumption DEF SnowflakeInv, TypeOK
<1>2. ASSUME NEW sid \in (ids \cup {last}) \ {None} PROVE Issued(sid)'
  <2>1. Issued(sid)
    BY <1>2 DEF SnowflakeInv
  <2>2. ASSUME NEW h \in Generators
        PROVE  /\ workerid[h] # None => workerid'[h] = workerid[h]
               /\ timestamp[h] = now /\ now' = now =>
                     /\ timestamp'[h] = now
                     /\ h \notin spinning => sequence'[h] >= sequence[h] \/ h \in spinning'
                     /\ h \in spinning => h \in spinning'
    <3>1. timestamp'[h] \in {timestamp[h], now} /\ sequence[h] \in Int /\ sequence'[h] \in Int
      BY <1>1, SnowflakeAssumption DEF Return, TypeOK
    <3> QED
      BY <1>1, <3>1
  <2> QED
    BY <1>1, <2>1, <2>2, IssuedStays
<1>3. CASE UNCHANGED <<timestamp, last, ids>>
  BY <1>1, <1>2, <1>3 DEF UniqueIds
<1>4. CASE timestamp' = [timestamp EXCEPT ![g] = now] /\ last' = i /\ ids' = ids \cup {last}
  <2>1. i \in Nat /\ i \notin (ids \cup {last}) \ {None}
    BY FreshId
  <2>2. Issued(i)'
    <3>1. timestamp'[g] = now' /\ now - epoch \in 0 .. now' - epoch /\ (now - epoch) + epoch = now'
      BY <1>1, <1>4 DEF TypeOK
    <3>2. i = Id(now - epoch, workerid'[g], s) /\ s <= sequence'[g]
      OBVIOUS
    <3> QED
      BY <3>1, <3>2 DEF Issued
  <2> QED
    BY <1>2, <1>4, <2>1, <2>2 DEF UniqueIds
<1> QED
  BY <1>3, <1>4 DEF Return

\* The inductive invariant of the generators, through calls of Next, the spinning
\* loop, restarts and the end of the timestamp field.
THEOREM SnowflakeInvariant == Spec => []SnowflakeInv
<1>1. Init => SnowflakeInv
  <2> SUFFICES ASSUME Init PROVE SnowflakeInv
    OBVIOUS
  <2>1. TypeOK
    BY SnowflakeAssumption DEF Init, TypeOK
  <2> QED
    BY <2>1, SnowflakeAssumption DEF Init, SnowflakeInv, UniqueIds
<1>2. SnowflakeInv /\ [Next]_vars => SnowflakeInv'
  <2> SUFFICES ASSUME SnowflakeInv, [Next]_vars PROVE SnowflakeInv'
    OBVIOUS
  <2>1. TypeOK /\ TypeOK' /\ UniqueIds /\ now >= epoch /\ epoch \in Nat
    BY SnowflakeTypeStep, SnowflakeAssumption DEF SnowflakeInv
  <2> DEFINE Own == \A g, h \in Generators : workerid[g] = workerid[h] /\ workerid[g] # None => g = h
             Made == \A g \in spinning : workerid[g] # None
             AllIssued == \A sid \in (ids \cup {last}) \ {None} : Issued(sid)
  <2>2. Own /\ Made /\ AllIssued
    BY DEF SnowflakeInv
  <2>3. SUFFICES UniqueIds' /\ now' >= epoch /\ Own' /\ Made' /\ AllIssued'
    BY <2>1 DEF SnowflakeInv
  <2>4. CASE Tick \/ UNCHANGED vars
    <3>1. UNCHANGED <<workerid, timestamp, sequence, spinning, last, ids>>
      BY <2>4 DEF Tick, vars
    <3>2. now' >= now /\ now \in Nat /\ now' \in Nat
      BY <2>1, <2>4 DEF Tick, vars, TypeOK
    <3>3. \A g \in Generators : sequence[g] \in Int
      BY <2>1, SnowflakeAssumption DEF TypeOK
    <3>4. AllIssued'
      BY <2>1, <2>2, <3>1, <3>2, <3>3, IssuedStays
    <3> QED
      BY <2>1, <2>2, <3>1, <3>2, <3>4 DEF UniqueIds
  <2>5. ASSUME NEW g \in Generators, NewSnowflake(g)
        PROVE  UniqueIds' /\ now' >= epoch /\ Own' /\ Made' /\ AllIssued'
    <3>1. UNCHANGED <<now, spinning, last, ids>> /\ g \notin spinning /\ timestamp[g] < now
      BY <2>5 DEF NewSnowflake
    <3>2. PICK w : /\ \A h \in Generators \ {g} : workerid[h] # w
                   /\ workerid[g] \in {None, w}
                   /\ workerid' = [workerid EXCEPT ![g] = w]
      BY <2>5 DEF NewSnowflake
    <3>3. Own' /\ Made'
      BY <2>1, <2>2, <3>1, <3>2 DEF TypeOK
    <3>4. ASSUME NEW h \in Generators
          PROVE  /\ workerid[h] # None => workerid'[h] = workerid[h]
                 /\ timestamp[h] = now =>
                       timestamp'[h] = timestamp[h] /\ sequence'[h] = sequence[h] /\ sequence[h] \in Int
      BY <2>1, <2>5, <3>1, <3>2, SnowflakeAssumption DEF NewSnowflake, TypeOK
    <3>5. AllIssued'
      BY <2>1, <2>2, <3>1, <3>4, IssuedStays DEF TypeOK
    <3> QED
      BY <2>1, <3>1, <3>3, <3>5 DEF UniqueIds
  <2>6. ASSUME NEW g \in Generators, Next1(g)
        PROVE  UniqueIds' /\ now' >= epoch /\ Own' /\ Made' /\ AllIssued'
    <3>1. PICK s \in 0 .. sequenceSize - 1 :
              /\ workerid[g] # None /\ g \notin spinning
              /\ timestamp[g] = now => s > sequence[g]
              /\ sequence' = [sequence EXCEPT ![g] = s] /\ Return(g, s)
              /\ UNCHANGED <<now, workerid, spinning>>
      BY <2>6, NextStep
    <3>2. sequence'[g] = s /\ \A h \in Generators \ {g} : sequence'[h] = sequence[h]
      BY <2>1, <3>1 DEF TypeOK
    <3>3. spinning' = spinning \ {g}
      BY <3>1
    <3>4. UniqueIds' /\ AllIssued'
      BY <2>1, <3>1, <3>2, <3>3, ReturnKeepsIds
    <3> QED
      BY <2>1, <2>2, <3>1, <3>4
  <2>7. ASSUME NEW g \in Generators, Spin(g)
        PROVE  UniqueIds' /\ now' >= epoch /\ Own' /\ Made' /\ AllIssued'
    <3>1. /\ UNCHANGED <<now, workerid, timestamp, last, ids>> /\ workerid[g] # None
          /\ spinning' = spinning \cup {g}
      BY <2>7 DEF Spin
    <3>2. \A h \in Generators : sequence[h] \in Int /\ (h # g => sequence'[h] = sequence[h])
      BY <2>1, <2>7, SnowflakeAssumption DEF Spin, TypeOK
    <3>3. AllIssued'
      BY <2>1, <2>2, <3>1, <3>2, IssuedStays DEF TypeOK
    <3> QED
      BY <2>1, <2>2, <3>1, <3>3 DEF UniqueIds
  <2>8. ASSUME NEW g \in Generators, LeaveSpin(g)
        PROVE  UniqueIds' /\ now' >= epoch /\ Own' /\ Made' /\ AllIssued'
    <3>1. /\ g \in spinning /\ timestamp[g] < now /\ Return(g, sequence[g])
          /\ spinning' = spinning \ {g} /\ UNCHANGED <<now, workerid, sequence>>
      BY <2>1, <2>8 DEF LeaveSpin, TypeOK
    <3>2. workerid[g] # None /\ sequence[g] \in 0 .. sequenceSize - 1 /\ timestamp[g] # now
      BY <2>1, <2>2, <3>1 DEF TypeOK
    <3>3. UniqueIds' /\ AllIssued'
      BY <2>1, <3>1, <3>2, ReturnKeepsIds
    <3> QED
      BY <2>1, <2>2, <3>1, <3>3
  <2> QED
    BY <2>4, <2>5, <2>6, <2>7, <2>8 DEF Next
<1> QED
  BY <1>1, <1>2, PTL DEF Spec

\* No two calls of Next return the same id, for any field sizes, any number of
\* generators with their own worker ids, and any number of calls in a second.
THEOREM SnowflakeUniqueIds == Spec => []UniqueIds
<1>1. SnowflakeInv => UniqueIds
  BY DEF SnowflakeInv
<1> QED
  BY <1>1, SnowflakeInvariant, PTL
-----------------------------------------------------------------------------
(* What a returned id tells.                                               *)

\* The product of a larger number is larger by a factor at least.
LEMMA TimesIncreases ==
    ASSUME NEW a \in Nat, NEW b \in Nat, a < b, NEW S \in Nat
    PROVE  a * S + S <= b * S
<1> DEFINE k == b - (a + 1)
<1>1. k \in Nat /\ b = (a + 1) + k
  OBVIOUS
<1> HIDE DEF k
<1>2. b * S = (a * S + S) + k * S
  BY <1>1, Z3
<1>3. k * S \in Nat /\ a * S \in Nat
  BY <1>1, Z3
<1> QED
  BY <1>2, <1>3

\* The ids of one worker are ordered as their seconds and sequence numbers are.
LEMMA IdOrder ==
    ASSUME NEW t \in Nat, NEW u \in Nat, NEW w \in 0 .. workeridMax,
           NEW s \in 0 .. sequenceSize - 1, NEW r \in 0 .. sequenceSize - 1,
           t < u \/ (t = u /\ s < r)
    PROVE  Id(t, w, s) < Id(u, w, r)
<1> DEFINE a == t * workeridSize + w
           b == u * workeridSize + w
<1>1. a \in Nat /\ b \in Nat
  BY SnowflakeAssumption DEF workeridMax
<1>2. a * sequenceSize \in Nat /\ b * sequenceSize \in Nat
  BY <1>1, SnowflakeAssumption, Z3
<1>3. CASE t < u
  <2>1. t * workeridSize + workeridSize <= u * workeridSize
    BY <1>3, TimesIncreases, SnowflakeAssumption
  <2>2. t * workeridSize \in Nat /\ u * workeridSize \in Nat
    BY SnowflakeAssumption, Z3
  <2>3. a < b
    BY <2>1, <2>2, SnowflakeAssumption DEF workeridMax
  <2> HIDE DEF a, b
  <2>4. a * sequenceSize + sequenceSize <= b * sequenceSize
    BY <1>1, <2>3, TimesIncreases, SnowflakeAssumption
  <2>5. a * sequenceSize + s < b * sequenceSize + r
    BY <1>2, <2>4, SnowflakeAssumption
  <2> QED
    BY <2>5 DEF Id, a, b
<1>4. CASE t = u /\ s < r
  <2>1. a = b
    BY <1>4
  <2> HIDE DEF a, b
  <2>2. a * sequenceSize + s < b * sequenceSize + r
    BY <1>2, <1>4, <2>1, SnowflakeAssumption
  <2> QED
    BY <2>2 DEF Id, a, b
<1> QED
  BY <1>3, <1>4

\* A step that returns an id is the end of Next on one generator, with a sequence number
\* that the generator has not used in this second.
LEMMA ReturnStep ==
    ASSUME SnowflakeInv, [Next]_vars, last' # last
    PROVE  \E g \in Generators, s \in 0 .. sequenceSize - 1 :
              /\ workerid[g] # None
              /\ timestamp[g] = now => g \notin spinning /\ s > sequence[g]
              /\ now - epoch <= timestampMax
              /\ timestamp' = [timestamp EXCEPT ![g] = now]
              /\ last' = Id(now - epoch, workerid[g], s) /\ ids' = ids \cup {last}
<1>1. ~ UNCHANGED vars /\ ~ Tick
  BY DEF vars, Tick
<1>2. PICK g \in Generators : Next1(g) \/ LeaveSpin(g)
  BY <1>1 DEF Next, NewSnowflake, Spin
<1>3. CASE Next1(g)
  <2>1. PICK s \in 0 .. sequenceSize - 1 :
            /\ workerid[g] # None /\ g \notin spinning
            /\ timestamp[g] = now => s > sequence[g]
            /\ sequence' = [sequence EXCEPT ![g] = s] /\ Return(g, s)
            /\ UNCHANGED <<now, workerid, spinning>>
    BY <1>3, NextStep
  <2> QED
    BY <2>1 DEF Return
<1>4. CASE LeaveSpin(g)
  <2>1. g \in spinning /\ timestamp[g] < now /\ Return(g, sequence[g])
    BY <1>4 DEF LeaveSpin, SnowflakeInv, TypeOK
  <2>2. /\ workerid[g] # None /\ sequence[g] \in 0 .. sequenceSize - 1
        /\ timestamp[g] # now
    BY <2>1 DEF SnowflakeInv, TypeOK
  <2> QED
    BY <2>1, <2>2 DEF Return
<1> QED
  BY <1>2, <1>3, <1>4

\* GetWorkerId and GetGenTimestamp read from an id the worker and the second of the call
\* of Next that returned it, for any sizes of the fields, up to the last second.
THEOREM SnowflakeFieldsReadBack == Spec => FieldsReadBack
<1> DEFINE A == last' # last =>
                  /\ GetGenTimestamp(last') = now
                  /\ \E g \in Generators :
                       workerid[g] = GetWorkerId(last') /\ timestamp'[g] = now
<1>1. SnowflakeInv /\ [Next]_vars => A
  <2> SUFFICES ASSUME SnowflakeInv, [Next]_vars, last' # last
               PROVE  /\ GetGenTimestamp(last') = now
                      /\ \E g \in Generators :
                           workerid[g] = GetWorkerId(last') /\ timestamp'[g] = now
    OBVIOUS
  <2>1. PICK g \in Generators, s \in 0 .. sequenceSize - 1 :
            /\ workerid[g] # None /\ now - epoch <= timestampMax
            /\ timestamp' = [timestamp EXCEPT ![g] = now]
            /\ last' = Id(now - epoch, workerid[g], s)
    BY ReturnStep
  <2>2. /\ now - epoch \in 0 .. timestampMax /\ workerid[g] \in 0 .. workeridMax
        /\ now \in Nat /\ timestamp'[g] = now
    BY <2>1, SnowflakeAssumption DEF SnowflakeInv, TypeOK, timestampMax
  <2>3. GetWorkerId(last') = workerid[g] /\ GetTimestamp(last') = now - epoch
    BY <2>1, <2>2, ReadBack
  <2>4. GetGenTimestamp(last') = now
    BY <2>2, <2>3, SnowflakeAssumption DEF GetGenTimestamp
  <2> QED
    BY <2>2, <2>3, <2>4
<1>2. SnowflakeInv /\ [Next]_vars => [A]_vars
  BY <1>1
<1> QED
  BY <1>2, SnowflakeInvariant, PTL DEF Spec, FieldsReadBack

\* The ids that Next returns for one worker increase, across seconds, spinning and
\* generators that are made anew.
THEOREM SnowflakeIdsIncrease == Spec => IdsIncrease
<1> DEFINE A == \A sid \in ids' :
                  last' # last /\ sid # None /\ GetWorkerId(sid) = GetWorkerId(last')
                    => sid < last'
<1>1. SnowflakeInv /\ [Next]_vars => A
  <2> SUFFICES ASSUME SnowflakeInv, [Next]_vars, NEW sid \in ids', last' # last, sid # None,
                      GetWorkerId(sid) = GetWorkerId(last')
               PROVE  sid < last'
    OBVIOUS
  <2>1. PICK g \in Generators, s \in 0 .. sequenceSize - 1 :
            /\ workerid[g] # None
            /\ timestamp[g] = now => g \notin spinning /\ s > sequence[g]
            /\ now - epoch <= timestampMax
            /\ last' = Id(now - epoch, workerid[g], s) /\ ids' = ids \cup {last}
    BY ReturnStep
  <2>2. Issued(sid)
    BY <2>1 DEF SnowflakeInv
  <2>3. PICK h \in Generators, t \in 0 .. now - epoch, r \in 0 .. sequenceSize - 1 :
           /\ workerid[h] # None /\ sid = Id(t, workerid[h], r)
           /\ \/ t + epoch < now
              \/ /\ t + epoch = now /\ timestamp[h] = now
                 /\ r <= sequence[h] \/ h \in spinning
    BY <2>2 DEF Issued
  <2>4. /\ now - epoch \in 0 .. timestampMax /\ t \in 0 .. timestampMax
        /\ workerid[g] \in 0 .. workeridMax /\ workerid[h] \in 0 .. workeridMax
        /\ now \in Nat /\ sequence[g] \in 0 .. sequenceSize - 1
    BY <2>1, <2>3, SnowflakeAssumption DEF SnowflakeInv, TypeOK, timestampMax
  <2>5. GetWorkerId(sid) = workerid[h] /\ GetWorkerId(last') = workerid[g]
    BY <2>1, <2>3, <2>4, ReadBack
  <2>6. g = h
    BY <2>1, <2>5 DEF SnowflakeInv
  <2>7. t < now - epoch \/ (t = now - epoch /\ r < s)
    BY <2>1, <2>3, <2>4, <2>6, SnowflakeAssumption
  <2>8. t \in Nat /\ now - epoch \in Nat
    BY <2>4, SnowflakeAssumption DEF timestampMax
  <2> QED
    BY <2>1, <2>3, <2>4, <2>6, <2>7, <2>8, IdOrder
<1>2. SnowflakeInv /\ [Next]_vars => [A]_vars
  BY <1>1
<1> QED
  BY <1>2, SnowflakeInvariant, PTL DEF Spec, IdsIncrease
=============================================================================
