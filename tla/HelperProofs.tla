---------------------------- MODULE HelperProofs ----------------------------
(***************************************************************************)
(* The message queue and the helpers, which share nothing.                 *)
(*                                                                         *)
(* QueueInv is inductive: for every number of consumers and messages and   *)
(* every batch size, message_queue.go loses no delivered message and       *)
(* acknowledges none the handler has not accepted.  For any values,        *)
(* FastQueue implements Fifo and FastStack implements Lifo.  For any       *)
(* calendar, what time.go computes of a moment covers it, and the date     *)
(* grows with it.  A platform that is parsed is a listed one.              *)
(***************************************************************************)
EXTENDS MessageQueue, FastQueue, FastStack, Calendar, Platform, DataLemmas

(* The message queue.                                                      *)

AckReady ==
    \A c \in Consumers : pc[c] = "ack" =>
        \A m \in batch[c] : First(m, batch[c]) => m \in handled \/ m \notin stream

\* A batch has no gaps: what is older than its last message is in it.
LEMMA OldestHasNoGap ==
    ASSUME NEW n \in Nat, NEW S \in SUBSET (1 .. n), NEW newest \in Oldest(S),
           NEW m \in S, m <= newest
    PROVE  m \in Oldest(S)
<1> DEFINE Older(x) == {k \in S : k < x}
<1>1. IsFiniteSet(S)
  <2>1. IsFiniteSet(1 .. n) BY FS_Interval
  <2> QED BY <2>1, FS_Subset
<1>2. Older(m) \subseteq Older(newest)
  <2>1. newest \in S BY DEF Oldest
  <2>2. ASSUME NEW k \in S, k < m PROVE k < newest
    <3>1. k \in Int /\ m \in Int /\ newest \in Int BY <2>1
    <3> QED BY <2>2, <3>1
  <2> QED BY <2>2
<1>3. IsFiniteSet(Older(newest)) /\ IsFiniteSet(Older(m)) BY <1>1, FS_Subset
<1>4. Cardinality(Older(m)) \in Nat /\ Cardinality(Older(newest)) \in Nat
  BY <1>3, FS_CardinalityType
<1>5. Cardinality(Older(m)) <= Cardinality(Older(newest)) BY <1>2, <1>3, FS_Subset
<1>6. Cardinality(Older(newest)) < batchSize BY DEF Oldest
<1> HIDE DEF Older
<1>7. Cardinality(Older(m)) < batchSize BY <1>4, <1>5, <1>6, MessageQueueAssumption
<1> QED BY <1>7 DEF Oldest, Older

\* A step of one consumer that leaves the server and the handled messages alone, and
\* that neither reaches XACK nor grows a batch beyond the delivered messages, keeps
\* QueueInv.
LEMMA LocalStep ==
    ASSUME QueueInv, NEW c \in Consumers, UNCHANGED <<server, handled>>,
           NEW b \in SUBSET (1 .. delivered), batch' = [batch EXCEPT ![c] = b],
           NEW l \in {"off", "select", "read", "handle", "done", "panic", "dead"},
           pc' = [pc EXCEPT ![c] = l]
    PROVE  QueueInv'
<1>1. TypeOK'
  <2>1. UNCHANGED <<published, stream, delivered, pending, acked, handled>> BY DEF server
  <2>2. /\ pc' \in [Consumers -> {"off", "select", "read", "handle", "ack", "done", "panic", "dead"}]
        /\ \A d \in Consumers : pc'[d] = "ack" => batch'[d] # {}
    BY DEF QueueInv, TypeOK
  <2>3. b \subseteq Int OBVIOUS
  <2>4. /\ batch' \in [Consumers -> SUBSET Int]
        /\ \A d \in Consumers : batch'[d] \subseteq 1 .. delivered
    BY <2>3 DEF QueueInv, TypeOK
  <2> QED BY <2>1, <2>2, <2>4 DEF QueueInv, TypeOK
<1>2. NoneLost' BY DEF QueueInv, NoneLost, server
<1>3. AckedWereHandled' BY DEF QueueInv, AckedWereHandled, server
<1>4. AckReady' BY DEF QueueInv, AckReady, TypeOK, First, server
<1> QED BY <1>1, <1>2, <1>3, <1>4 DEF QueueInv, AckReady

\* Publish keeps QueueInv: it adds an undelivered message, and trims what may be trimmed.
LEMMA PublishKeepsInv == ASSUME QueueInv, Publish PROVE QueueInv'
<1>1. /\ published \in Nat /\ published' = published + 1
      /\ delivered \in Nat /\ delivered <= published
      /\ UNCHANGED <<delivered, pending, handled, acked, pc, batch>>
  BY MessageQueueAssumption DEF QueueInv, TypeOK, Publish
<1>2. /\ \A m \in stream' : m \in stream \/ m = published + 1
      /\ published + 1 \in stream'
  BY DEF Publish
<1>3. \A m \in 1 .. delivered : m \notin stream => m \notin stream' BY <1>1, <1>2
<1>4. TypeOK' BY <1>1, <1>2, MessageQueueAssumption DEF QueueInv, TypeOK, Publish
<1>5. NoneLost' BY <1>1, <1>2 DEF QueueInv, NoneLost
<1>6. AckedWereHandled' BY <1>1, <1>3 DEF QueueInv, TypeOK, AckedWereHandled
<1>7. AckReady' BY <1>1, <1>3 DEF QueueInv, TypeOK, AckReady, First
<1> QED BY <1>4, <1>5, <1>6, <1>7 DEF QueueInv, AckReady

\* XREADGROUP with ">" keeps QueueInv: what becomes delivered becomes pending, with this
\* consumer alone.
LEMMA ReadNewKeepsInv == ASSUME QueueInv, NEW c \in Consumers, ReadNew(c) PROVE QueueInv'
<1> DEFINE after == {m \in stream : m > delivered}
           new == Oldest(after)
<1>1. PICK newest \in new : Last(newest, new) /\ delivered' = newest BY DEF ReadNew
<1>2. /\ pending' = [pending EXCEPT ![c] = @ \cup new]
      /\ batch' = [batch EXCEPT ![c] = new] /\ pc' = [pc EXCEPT ![c] = "handle"]
      /\ UNCHANGED <<published, stream, handled, acked>>
  BY DEF ReadNew, Goto
<1>3. published \in Nat /\ delivered \in Nat /\ delivered <= published
  BY MessageQueueAssumption DEF QueueInv, TypeOK
<1>4. new \subseteq after /\ after \subseteq 1 .. published BY DEF Oldest, QueueInv, TypeOK
<1>5. \A m \in new : m \in Int /\ m > delivered /\ m <= newest BY <1>1, <1>3, <1>4 DEF Last
<1>6. newest \in Int /\ delivered < newest /\ newest <= published BY <1>3, <1>4, <1>5
<1>7. \A m \in stream : m > delivered /\ m <= newest => m \in new
  BY <1>3, <1>4, OldestHasNoGap
<1> HIDE DEF after, new
<1>8. TypeOK'
  <2>1. pc' \in [Consumers -> {"off", "select", "read", "handle", "ack", "done", "panic", "dead"}]
    BY <1>2 DEF QueueInv, TypeOK
  <2>2. pending' \in [Consumers -> SUBSET Int] /\ batch' \in [Consumers -> SUBSET Int]
    BY <1>2, <1>5 DEF QueueInv, TypeOK
  <2>3. published' \in 0 .. MaxMessages /\ delivered' \in 0 .. published'
    BY <1>1, <1>2, <1>3, <1>6 DEF QueueInv, TypeOK
  <2>4. stream' \subseteq 1 .. published' /\ handled' \cup acked' \subseteq 1 .. delivered'
    BY <1>1, <1>2, <1>3, <1>6 DEF QueueInv, TypeOK
  <2>5. \A d \in Consumers : pending'[d] \cup batch'[d] \subseteq 1 .. delivered'
    <3>1. 1 .. delivered \subseteq 1 .. newest BY <1>3, <1>6
    <3>2. new \subseteq 1 .. newest BY <1>3, <1>5, <1>6
    <3>3. \A d \in Consumers : /\ pending'[d] \subseteq pending[d] \cup new
                               /\ batch'[d] \subseteq batch[d] \cup new
      BY <1>2 DEF QueueInv, TypeOK
    <3>4. \A d \in Consumers : pending[d] \cup batch[d] \subseteq 1 .. delivered
      BY DEF QueueInv, TypeOK
    <3> QED BY <3>1, <3>2, <3>3, <3>4, <1>1
  <2>6. \A d \in Consumers : pc'[d] = "ack" => batch'[d] # {}
    BY <1>2 DEF QueueInv, TypeOK
  <2> QED BY <2>1, <2>2, <2>3, <2>4, <2>5, <2>6 DEF TypeOK
<1>9. NoneLost'
  <2> SUFFICES ASSUME NEW m \in 1 .. published', ~(m > delivered'), m \notin acked', m \in stream'
               PROVE  \E d \in Consumers : m \in pending'[d]
    BY DEF NoneLost
  <2>1. CASE m > delivered
    <3>1. m \in new BY <2>1, <1>1, <1>2, <1>6, <1>7
    <3> QED BY <3>1, <1>2 DEF QueueInv, TypeOK
  <2>2. CASE ~(m > delivered)
    <3>1. PICK d \in Consumers : m \in pending[d] BY <2>2, <1>2 DEF QueueInv, NoneLost
    <3> QED BY <3>1, <1>2 DEF QueueInv, TypeOK
  <2> QED BY <2>1, <2>2
<1>10. AckedWereHandled'
  <2>1. \A d \in Consumers : pending[d] \cap new = {}
    BY <1>3, <1>5 DEF QueueInv, TypeOK
  <2>2. \A d, e \in Consumers : d # e => pending'[d] \cap pending'[e] = {}
    BY <2>1, <1>2 DEF QueueInv, TypeOK, AckedWereHandled
  <2> QED BY <2>2, <1>2 DEF QueueInv, AckedWereHandled
<1>11. AckReady' BY <1>2 DEF QueueInv, AckReady, TypeOK, First
<1> QED BY <1>8, <1>9, <1>10, <1>11 DEF QueueInv, AckReady

\* The handler's call keeps QueueInv: nil leads to XACK of the message it accepted.
LEMMA HandleKeepsInv == ASSUME QueueInv, NEW c \in Consumers, Handle(c) PROVE QueueInv'
<1>1. PICK m \in batch[c] :
        /\ First(m, batch[c])
        /\ \/ /\ pc' = [pc EXCEPT ![c] = "ack"]
              /\ handled' = handled \cup ({m} \cap stream) /\ UNCHANGED batch
           \/ batch' = [batch EXCEPT ![c] = @ \ {m}] /\ UNCHANGED <<pc, handled>>
  BY DEF Handle, Goto
<1>2. UNCHANGED server /\ pc[c] = "handle" BY DEF Handle
<1>3. CASE UNCHANGED <<pc, handled>> /\ batch' = [batch EXCEPT ![c] = @ \ {m}]
  <2>1. pc' = [pc EXCEPT ![c] = "handle"] BY <1>2, <1>3 DEF QueueInv, TypeOK
  <2>2. batch[c] \ {m} \subseteq 1 .. delivered BY DEF QueueInv, TypeOK
  <2> QED BY <2>1, <2>2, <1>2, <1>3, LocalStep
<1>4. CASE /\ pc' = [pc EXCEPT ![c] = "ack"] /\ UNCHANGED batch
           /\ handled' = handled \cup ({m} \cap stream)
  <2>1. m \in 1 .. delivered /\ delivered \in Nat BY DEF QueueInv, TypeOK
  <2>2. TypeOK' BY <1>2, <1>4, <2>1 DEF QueueInv, TypeOK, server
  <2>3. NoneLost' BY <1>2 DEF QueueInv, NoneLost, server
  <2>4. AckedWereHandled' BY <1>2, <1>4 DEF QueueInv, AckedWereHandled, server
  <2>5. \A k \in batch[c] : First(k, batch[c]) => k = m
    BY <1>1, <2>1 DEF First, QueueInv, TypeOK
  <2>6. AckReady' BY <2>5, <1>2, <1>4 DEF QueueInv, AckReady, TypeOK, First, server
  <2> QED BY <2>2, <2>3, <2>4, <2>6 DEF QueueInv, AckReady
<1> QED BY <1>1, <1>3, <1>4

\* XACK keeps QueueInv: what leaves the pending list is acknowledged, and was accepted.
LEMMA AckKeepsInv == ASSUME QueueInv, NEW c \in Consumers, Ack(c) PROVE QueueInv'
<1>1. PICK m \in batch[c] :
        /\ First(m, batch[c]) /\ batch' = [batch EXCEPT ![c] = @ \ {m}]
        /\ \/ acked' = acked \cup {m} /\ pending' = [pending EXCEPT ![c] = @ \ {m}]
           \/ UNCHANGED <<acked, pending>>
  BY DEF Ack
<1>2. /\ pc[c] = "ack" /\ pc' = [pc EXCEPT ![c] = "handle"]
      /\ UNCHANGED <<published, stream, delivered, handled>>
  BY DEF Ack, Goto
<1>3. m \in handled \/ m \notin stream BY <1>1, <1>2 DEF QueueInv
<1>4. m \in 1 .. delivered BY DEF QueueInv, TypeOK
<1>5. batch[c] \ {m} \subseteq 1 .. delivered BY DEF QueueInv, TypeOK
<1>6. CASE UNCHANGED <<acked, pending>>
  BY <1>1, <1>2, <1>5, <1>6, LocalStep DEF server
<1>7. CASE acked' = acked \cup {m} /\ pending' = [pending EXCEPT ![c] = @ \ {m}]
  <2>1. TypeOK' BY <1>1, <1>2, <1>4, <1>7 DEF QueueInv, TypeOK
  <2>2. NoneLost' BY <1>2, <1>7 DEF QueueInv, TypeOK, NoneLost
  <2>3. AckedWereHandled' BY <1>2, <1>3, <1>7 DEF QueueInv, TypeOK, AckedWereHandled
  <2>4. AckReady' BY <1>1, <1>2 DEF QueueInv, TypeOK, AckReady, First
  <2> QED BY <2>1, <2>2, <2>3, <2>4 DEF QueueInv, AckReady
<1> QED BY <1>1, <1>6, <1>7

\* QueueInv is an invariant of message_queue.go, its consumers and the stream.
THEOREM MessageQueueInvariant == Spec => []QueueInv
<1>1. Init => QueueInv
  BY MessageQueueAssumption DEF Init, QueueInv, TypeOK, NoneLost, AckedWereHandled
<1>2. QueueInv /\ [Next]_vars => QueueInv'
  <2> SUFFICES ASSUME QueueInv, [Next]_vars PROVE QueueInv' OBVIOUS
  <2>1. CASE Publish BY <2>1, PublishKeepsInv
  <2>2. CASE UNCHANGED <<server, handled, pc, batch>>
    BY <2>2 DEF QueueInv, TypeOK, NoneLost, AckedWereHandled, First, server
  <2>3. CASE BeginClose \/ EndClose \/ \E c \in Consumers : Cancel(c)
    BY <2>2, <2>3 DEF BeginClose, EndClose, Cancel
  <2>4. ASSUME NEW c \in Consumers, Subscribe(c) \/ Consume(c) \/ Crash(c) PROVE QueueInv'
    <3>1. batch[c] \in SUBSET (1 .. delivered) /\ batch = [batch EXCEPT ![c] = @]
      BY DEF QueueInv, TypeOK
    <3>2. CASE Subscribe(c)
      BY <3>1, <3>2, LocalStep DEF Subscribe, Goto
    <3>3. CASE Select(c) BY <3>1, <3>3, LocalStep DEF Select, Goto
    <3>4. CASE ReadNew(c) BY <3>4, ReadNewKeepsInv
    <3>5. CASE ReadPending(c)
      <4>1. Oldest(pending[c]) \subseteq 1 .. delivered BY DEF QueueInv, TypeOK, Oldest
      <4> QED BY <4>1, <3>5, LocalStep DEF ReadPending, Goto
    <3>6. CASE ReadFails(c) BY <3>1, <3>6, LocalStep DEF ReadFails, Goto
    <3>7. CASE Handle(c) BY <3>7, HandleKeepsInv
    <3>8. CASE Ack(c) BY <3>8, AckKeepsInv
    <3>9. CASE EndBatch(c) BY <3>9, LocalStep DEF EndBatch, Goto
    <3>10. CASE CommandPanics(c) BY <3>1, <3>10, LocalStep DEF CommandPanics, Goto
    <3>11. CASE ReceiveClose(c) BY <3>1, <3>11, LocalStep DEF ReceiveClose, Goto
    <3>12. CASE Crash(c) BY <3>12, LocalStep DEF Crash, Goto
    <3> QED BY <2>4, <3>2, <3>3, <3>4, <3>5, <3>6, <3>7, <3>8, <3>9, <3>10, <3>11, <3>12
            DEF Consume
  <2> QED BY <2>1, <2>2, <2>3, <2>4 DEF Next, vars
<1> QED BY <1>1, <1>2, PTL DEF Spec

\* A delivered message is pending or acknowledged, or was trimmed, whatever crashes,
\* fails, is cancelled or closed between XREADGROUP and XACK.
THEOREM MessageQueueLosesNone == Spec => []NoneLost
<1>1. QueueInv => NoneLost BY DEF QueueInv
<1> QED BY <1>1, MessageQueueInvariant, PTL

\* consume acknowledges no message that the handler has not accepted, and no message is
\* pending with two consumers.
THEOREM MessageQueueAcksHandled == Spec => []AckedWereHandled
<1>1. QueueInv => AckedWereHandled BY DEF QueueInv
<1> QED BY <1>1, MessageQueueInvariant, PTL
-----------------------------------------------------------------------------
(* The queue.                                                              *)

\* What a batch leaves in the nodes: the old ones keep their values, and so does every
\* old node but the last its pointer.
LEMMA BatchNodes ==
    ASSUME FastQueueInv, NEW vs \in Seq(Values), InAll(vs)
    PROVE  /\ Len(value) \in Nat /\ Len(vs) \in Nat \ {0}
           /\ value' \in Seq(Values) /\ Len(value') = Len(value) + Len(vs)
           /\ \A m \in 1 .. Len(value) : value'[m] = value[m]
           /\ \A n \in 1 .. Len(vs) : value'[Len(value) + n] = vs[n]
           /\ next' \in Seq(Nat) /\ Len(next') = Len(value')
<1>1. value \in Seq(Values) /\ Len(value) \in Nat /\ Len(vs) \in Nat \ {0}
  BY DEF FastQueueInv, QueueTypeOK, InAll
<1>2. /\ value' \in Seq(Values) /\ Len(value') = Len(value) + Len(vs)
      /\ \A m \in 1 .. Len(value) : value'[m] = value[m]
      /\ \A n \in 1 .. Len(vs) : value'[Len(value) + n] = vs[n]
  BY <1>1 DEF InAll
<1>3. ASSUME NEW m \in 1 .. Len(value) + Len(vs) PROVE Linked(m, Len(vs)) \in Nat
  <2>1. m <= Len(value) => next[m] \in Nat
    BY <1>1 DEF FastQueueInv, QueueTypeOK
  <2> QED
    BY <1>1, <2>1 DEF Linked
<1>4. next' \in [1 .. Len(value) + Len(vs) -> Nat]
  BY <1>3 DEF InAll
<1>5. next' \in Seq(Nat) /\ Len(next') = Len(value) + Len(vs)
  <2>1. Len(value) + Len(vs) \in Nat
    BY <1>1
  <2> QED
    BY <1>4, <2>1, FunctionAsSeq
<1> QED
  BY <1>1, <1>2, <1>5

\* In and InAll: the new nodes continue the chain, or begin one.
LEMMA InAllInv ==
    ASSUME FastQueueInv, NEW vs \in Seq(Values), InAll(vs)
    PROVE  FastQueueInv'
<1>1. /\ Len(value) \in Nat /\ Len(vs) \in Nat \ {0}
      /\ value' \in Seq(Values) /\ Len(value') = Len(value) + Len(vs)
      /\ next' \in Seq(Nat) /\ Len(next') = Len(value')
  BY BatchNodes
<1>2. /\ first' = (IF first = 0 THEN Len(value) + 1 ELSE first)
      /\ last' = Len(value') /\ size' = size + Len(vs)
  BY <1>1 DEF InAll, NewFirst
<1>3. /\ first \in 0 .. Len(value) /\ last \in {0, Len(value)} /\ size \in Nat
      /\ first # 0 => last # 0 /\ size = Len(value) + 1 - first
      /\ first = 0 => size = 0
  BY DEF FastQueueInv, QueueTypeOK, Chained
<1>4. QueueTypeOK'
  BY SMTT(30), <1>1, <1>2, <1>3 DEF QueueTypeOK
<1>5. first' # 0 /\ last' # 0 /\ size' = Len(value') + 1 - first'
  <2>1. CASE first = 0
    BY <1>1, <1>2, <1>3, <2>1
  <2>2. CASE first # 0
    <3>1. first' = first /\ size = Len(value) + 1 - first
      BY <1>2, <1>3, <2>2
    <3>2. Len(value') \in Nat \ {0} /\ last' = Len(value')
      BY <1>1, <1>2
    <3> QED
      BY <1>1, <1>2, <1>3, <2>2, <3>1, <3>2
  <2> QED
    BY <2>1, <2>2
<1>6. ASSUME NEW m \in 1 .. Len(value'), first' <= m
      PROVE  next'[m] = IF m = Len(value') THEN 0 ELSE m + 1
  <2>1. next'[m] = Linked(m, Len(vs))
    BY <1>1 DEF InAll
  <2>2. CASE m > Len(value)
    BY <1>1, <1>3, <2>1, <2>2 DEF Linked
  <2>3. CASE m <= Len(value)
    <3>1. first # 0 /\ first <= m /\ last = Len(value)
      BY <1>1, <1>2, <1>3, <1>6, <2>3
    <3>2. next[m] = IF m = Len(value) THEN 0 ELSE m + 1
      BY <1>1, <2>3, <3>1 DEF FastQueueInv, Chained
    <3> QED
      BY <1>1, <2>1, <2>3, <3>1, <3>2 DEF Linked
  <2> QED
    BY <1>1, <2>2, <2>3
<1>7. Chained'
  BY <1>5, <1>6 DEF Chained
<1> QED
  BY <1>4, <1>7 DEF FastQueueInv

\* The pointers of FastQueue form one chain, whatever Out and Clear leave behind.
THEOREM FastQueueInvariant == QueueSpec => []FastQueueInv
<1>1. QueueInit => FastQueueInv
  BY DEF QueueInit, FastQueueInv, QueueTypeOK, Chained
<1>2. FastQueueInv /\ [QueueNext]_queueVars => FastQueueInv'
  <2> SUFFICES ASSUME FastQueueInv, [QueueNext]_queueVars PROVE FastQueueInv'
    OBVIOUS
  <2>1. CASE \E v \in Values : In(v)
    <3>1. PICK v \in Values : InAll(<<v>>)
      BY <2>1 DEF In
    <3>2. <<v>> \in Seq(Values)
      OBVIOUS
    <3> QED
      BY <3>1, <3>2, InAllInv
  <2>2. CASE \E vs \in Batches : InAll(vs)
    BY <2>2, InAllInv, NodesAssumption
  <2>3. CASE Out
    <3>1. Len(value) \in Nat
      BY DEF FastQueueInv, QueueTypeOK
    <3>2. CASE first = 0
      BY <2>3, <3>2 DEF FastQueueInv, QueueTypeOK, Chained, Out
    <3>3. CASE first # 0
      <4>1. first' = IF first = Len(value) THEN 0 ELSE first + 1
        BY <2>3, <3>1, <3>3 DEF FastQueueInv, QueueTypeOK, Chained, Out
      <4>2. size' = size - 1 /\ UNCHANGED <<last, value, next>>
        BY <2>3, <3>3 DEF Out
      <4>3. /\ first \in 1 .. Len(value) /\ last = Len(value) /\ size = Len(value) + 1 - first
        BY <3>1, <3>3 DEF FastQueueInv, QueueTypeOK, Chained
      <4>4. QueueTypeOK'
        BY <3>1, <4>1, <4>2, <4>3 DEF FastQueueInv, QueueTypeOK
      <4>5. Chained'
        BY <3>1, <3>3, <4>1, <4>2, <4>3 DEF FastQueueInv, Chained
      <4> QED
        BY <4>4, <4>5 DEF FastQueueInv
    <3> QED
      BY <3>2, <3>3
  <2>4. CASE Clear
    BY <2>4 DEF FastQueueInv, QueueTypeOK, Chained, Clear
  <2>5. CASE UNCHANGED queueVars
    BY <2>5 DEF FastQueueInv, QueueTypeOK, Chained, queueVars
  <2> QED
    BY <2>1, <2>2, <2>3, <2>4, <2>5 DEF QueueNext
<1> QED
  BY <1>1, <1>2, PTL DEF QueueSpec

\* What is inside, item by item.
Inside ==
    /\ size \in Nat /\ Contents \in Seq(Values) /\ Len(Contents) = size
    /\ \A n \in 1 .. size : Contents[n] = value[first + n - 1]

\* What the queue holds, by its nodes; and so after a step.
LEMMA ContentsItems == FastQueueInv => Inside
<1> SUFFICES ASSUME FastQueueInv PROVE Inside
  OBVIOUS
<1>1. Len(value) \in Nat /\ value \in Seq(Values) /\ first \in 0 .. Len(value) /\ size \in Nat
  BY DEF FastQueueInv, QueueTypeOK
<1>2. CASE first = 0
  BY <1>1, <1>2 DEF FastQueueInv, Chained, Contents, Inside
<1>3. CASE first # 0
  <2>1. size = Len(value) + 1 - first /\ Contents = SubSeq(value, first, Len(value))
    BY <1>3 DEF FastQueueInv, Chained, Contents
  <2>2. /\ Contents \in Seq(Values) /\ Len(Contents) = size
        /\ \A n \in 1 .. size : Contents[n] = value[first + n - 1]
    BY <1>1, <1>3, <2>1
  <2> QED
    BY <1>1, <2>2 DEF Inside
<1> QED
  BY <1>2, <1>3

LEMMA ItemsAfter == FastQueueInv' => Inside'
BY ContentsItems, PTL

\* A batch goes behind what is inside.
LEMMA InAllIsFifo ==
    ASSUME FastQueueInv, FastQueueInv', NEW vs \in Seq(Values), InAll(vs)
    PROVE  Fifo!InAll(vs)
<1>1. /\ Len(value) \in Nat /\ Len(vs) \in Nat \ {0}
      /\ \A m \in 1 .. Len(value) : value'[m] = value[m]
      /\ \A n \in 1 .. Len(vs) : value'[Len(value) + n] = vs[n]
  BY BatchNodes
<1>2. /\ size \in Nat /\ Contents \in Seq(Values) /\ Len(Contents) = size
      /\ \A n \in 1 .. size : Contents[n] = value[first + n - 1]
  BY ContentsItems DEF Inside
<1>3. /\ first' = (IF first = 0 THEN Len(value) + 1 ELSE first)
      /\ size' = size + Len(vs) /\ out' = out
  BY DEF InAll, NewFirst
<1>4. /\ first \in 0 .. Len(value)
      /\ first = 0 => size = 0
      /\ first # 0 => size = Len(value) + 1 - first
  BY DEF FastQueueInv, QueueTypeOK, Chained
<1>5. first' = Len(value) + 1 - size
  BY <1>1, <1>2, <1>3, <1>4
<1>6. /\ Contents' \in Seq(Values) /\ Len(Contents') = size + Len(vs)
      /\ \A n \in 1 .. size + Len(vs) : Contents'[n] = value'[first' + n - 1]
  BY <1>3, ItemsAfter DEF Inside
<1>7. /\ Contents \o vs \in Seq(Values) /\ Len(Contents \o vs) = size + Len(vs)
      /\ \A n \in 1 .. size + Len(vs) :
             (Contents \o vs)[n] = IF n <= size THEN Contents[n] ELSE vs[n - size]
  BY <1>2, JoinedItems
<1>8. ASSUME NEW n \in 1 .. size + Len(vs) PROVE Contents'[n] = (Contents \o vs)[n]
  <2>1. CASE n <= size
    <3>1. first' = first /\ first + n - 1 \in 1 .. Len(value) /\ n \in 1 .. size
      BY <1>1, <1>2, <1>3, <1>4, <2>1
    <3>2. Contents'[n] = value[first + n - 1]
      BY <1>1, <1>6, <3>1
    <3> QED
      BY <1>2, <1>7, <2>1, <3>1, <3>2
  <2>2. CASE n > size
    <3>1. n - size \in 1 .. Len(vs) /\ first' + n - 1 = Len(value) + (n - size)
      BY <1>1, <1>2, <1>5, <2>2
    <3>2. Contents'[n] = vs[n - size]
      BY <1>1, <1>6, <3>1
    <3> QED
      BY <1>2, <1>7, <2>2, <3>2
  <2> QED
    BY <1>1, <1>2, <2>1, <2>2
<1>9. Contents' = Contents \o vs
  BY <1>6, <1>7, <1>8, SameItems
<1> QED
  BY <1>3, <1>9 DEF Fifo!InAll

\* Out takes what is in front.
LEMMA OutIsFifo ==
    ASSUME FastQueueInv, FastQueueInv', Out
    PROVE  Fifo!Out
<1>1. /\ size \in Nat /\ Contents \in Seq(Values) /\ Len(Contents) = size
      /\ \A n \in 1 .. size : Contents[n] = value[first + n - 1]
  BY ContentsItems DEF Inside
<1>2. Len(value) \in Nat /\ first \in 0 .. Len(value)
  BY DEF FastQueueInv, QueueTypeOK
<1>3. CASE first = 0
  <2>1. Contents = <<>> /\ Contents' = Contents
    BY <1>3 DEF Contents, Out
  <2> QED
    BY <1>3, <2>1 DEF Out, Fifo!Out
<1>4. CASE first # 0
  <2>1. /\ first' = (IF first = Len(value) THEN 0 ELSE first + 1)
        /\ size = Len(value) + 1 - first
        /\ size' = size - 1 /\ out' = value[first] /\ value' = value
    BY <1>2, <1>4 DEF FastQueueInv, Chained, Out
  <2>2. size > 0 /\ Contents # <<>>
    BY <1>1, <1>2, <1>4, <2>1
  <2>3. /\ Head(Contents) = Contents[1]
        /\ Tail(Contents) \in Seq(Values) /\ Len(Tail(Contents)) = size - 1
        /\ \A n \in 1 .. size - 1 : Tail(Contents)[n] = Contents[n + 1]
    BY <1>1, <2>2, TailItems
  <2>4. Contents[1] = value[first]
    <3>1. 1 \in 1 .. size /\ first + 1 - 1 = first
      BY <1>1, <1>2, <2>2
    <3> QED
      BY <1>1, <3>1
  <2>5. /\ Contents' \in Seq(Values) /\ Len(Contents') = size - 1
        /\ \A n \in 1 .. size - 1 : Contents'[n] = value[first' + n - 1]
    BY <2>1, ItemsAfter DEF Inside
  <2>6. ASSUME NEW n \in 1 .. size - 1 PROVE Contents'[n] = Tail(Contents)[n]
    <3>1. /\ n + 1 \in 1 .. size /\ first' = first + 1
          /\ first + 1 + n - 1 = first + (n + 1) - 1
      BY <1>1, <1>2, <2>1
    <3>2. Contents[n + 1] = value[first + (n + 1) - 1]
      BY <1>1, <3>1
    <3> QED
      BY <2>3, <2>5, <3>1, <3>2
  <2>7. Contents' = Tail(Contents)
    BY <2>3, <2>5, <2>6, SameItems
  <2> QED
    BY <2>1, <2>2, <2>3, <2>4, <2>7 DEF Fifo!Out
<1> QED
  BY <1>3, <1>4

\* FastQueue is first in, first out, for any values and batches: linking behind last,
\* which Out leaves on a node it has given away, loses nothing.
THEOREM QueueIsFifo == QueueSpec => QueueRefinesFifo
<1>1. QueueInit => Fifo!Init
  BY DEF QueueInit, Fifo!Init, Contents
<1>2. FastQueueInv /\ FastQueueInv' /\ [QueueNext]_queueVars => [Fifo!Next]_<<Contents, size, out>>
  <2> SUFFICES ASSUME FastQueueInv, FastQueueInv', [QueueNext]_queueVars
               PROVE  Fifo!Next \/ UNCHANGED <<Contents, size, out>>
    OBVIOUS
  <2>1. CASE \E v \in Values : In(v)
    <3>1. PICK v \in Values : InAll(<<v>>)
      BY <2>1 DEF In
    <3>2. <<v>> \in Seq(Values)
      OBVIOUS
    <3> QED
      BY <3>1, <3>2, InAllIsFifo DEF Fifo!Next
  <2>2. CASE \E vs \in Batches : InAll(vs)
    BY <2>2, InAllIsFifo, NodesAssumption DEF Fifo!Next
  <2>3. CASE Out
    BY <2>3, OutIsFifo DEF Fifo!Next
  <2>4. CASE Clear
    BY <2>4 DEF Clear, Contents, Fifo!Clear, Fifo!Next
  <2>5. CASE UNCHANGED queueVars
    BY <2>5 DEF queueVars, Contents
  <2> QED
    BY <2>1, <2>2, <2>3, <2>4, <2>5 DEF QueueNext
<1> QED
  BY <1>1, <1>2, FastQueueInvariant, PTL DEF QueueSpec, QueueRefinesFifo, Fifo!Spec
-----------------------------------------------------------------------------
(* The stack.                                                              *)

\* The nodes after a batch: the old ones are as they were, and each new one points to the
\* one made before it.
LEMMA PushedNodes ==
    ASSUME FastStackInv, NEW vs \in Seq(Values), PushAll(vs)
    PROVE  /\ Len(stackValue) \in Nat /\ Len(vs) \in Nat \ {0}
           /\ stackValue' \in Seq(Values) /\ Len(stackValue') = Len(stackValue) + Len(vs)
           /\ stackNext' \in Seq(Nat) /\ Len(stackNext') = Len(stackValue')
           /\ \A n \in 1 .. Len(stackValue) :
                  stackValue'[n] = stackValue[n] /\ stackNext'[n] = stackNext[n]
           /\ \A n \in 1 .. Len(vs) :
                  /\ stackValue'[Len(stackValue) + n] = vs[n]
                  /\ stackNext'[Len(stackValue) + n] = Below(n)
<1> DEFINE below == [n \in 1 .. Len(vs) |-> Below(n)]
<1>1. /\ stackValue \in Seq(Values) /\ stackNext \in Seq(Nat)
      /\ Len(stackValue) \in Nat /\ Len(stackNext) = Len(stackValue)
      /\ top \in 0 .. Len(stackValue) /\ Len(vs) \in Nat \ {0}
  BY DEF FastStackInv, PushAll
<1>2. \A n \in 1 .. Len(vs) : Below(n) \in Nat
  BY <1>1 DEF Below
<1>3. below \in Seq(Nat) /\ Len(below) = Len(vs)
  BY <1>1, <1>2
<1>4. stackValue' = stackValue \o vs /\ stackNext' = stackNext \o below
  BY DEF PushAll
<1>5. \A n \in 1 .. Len(vs) : below[n] = Below(n)
  OBVIOUS
<1> HIDE DEF below
<1>6. /\ stackValue' \in Seq(Values) /\ Len(stackValue') = Len(stackValue) + Len(vs)
      /\ \A n \in 1 .. Len(stackValue) + Len(vs) :
           stackValue'[n] = IF n <= Len(stackValue) THEN stackValue[n]
                            ELSE vs[n - Len(stackValue)]
  BY <1>1, <1>4, JoinedItems
<1>7. /\ stackNext' \in Seq(Nat) /\ Len(stackNext') = Len(stackValue) + Len(vs)
      /\ \A n \in 1 .. Len(stackValue) + Len(vs) :
           stackNext'[n] = IF n <= Len(stackValue) THEN stackNext[n]
                           ELSE below[n - Len(stackValue)]
  <2>1. /\ stackNext \o below \in Seq(Nat)
        /\ Len(stackNext \o below) = Len(stackNext) + Len(below)
        /\ \A n \in 1 .. Len(stackNext) + Len(below) :
             (stackNext \o below)[n] = IF n <= Len(stackNext) THEN stackNext[n]
                                       ELSE below[n - Len(stackNext)]
    BY ZenonT(30), <1>1, <1>3, JoinedItems
  <2> QED
    BY Zenon, <1>1, <1>3, <1>4, <2>1
<1>8. ASSUME NEW n \in 1 .. Len(stackValue)
      PROVE  stackValue'[n] = stackValue[n] /\ stackNext'[n] = stackNext[n]
  BY <1>1, <1>6, <1>7
<1>9. ASSUME NEW n \in 1 .. Len(vs)
      PROVE  /\ stackValue'[Len(stackValue) + n] = vs[n]
             /\ stackNext'[Len(stackValue) + n] = Below(n)
  <2>1. /\ Len(stackValue) + n \in 1 .. Len(stackValue) + Len(vs)
        /\ ~ (Len(stackValue) + n <= Len(stackValue))
        /\ (Len(stackValue) + n) - Len(stackValue) = n
    BY <1>1
  <2> QED
    BY <1>5, <1>6, <1>7, <2>1
<1> QED
  BY <1>1, <1>6, <1>7, <1>8, <1>9

\* A batch keeps the pointers downward.
LEMMA PushAllInv ==
    ASSUME FastStackInv, NEW vs \in Seq(Values), PushAll(vs)
    PROVE  FastStackInv'
<1>1. /\ Len(stackValue) \in Nat /\ Len(vs) \in Nat \ {0}
      /\ stackValue' \in Seq(Values) /\ Len(stackValue') = Len(stackValue) + Len(vs)
      /\ stackNext' \in Seq(Nat) /\ Len(stackNext') = Len(stackValue')
      /\ \A n \in 1 .. Len(stackValue) : stackNext'[n] = stackNext[n]
      /\ \A n \in 1 .. Len(vs) : stackNext'[Len(stackValue) + n] = Below(n)
  BY PushedNodes
<1>2. /\ top \in 0 .. Len(stackValue) /\ top' = Len(stackValue) + Len(vs)
      /\ \A n \in 1 .. Len(stackValue) : stackNext[n] < n
  BY DEF FastStackInv, PushAll
<1>3. ASSUME NEW n \in 1 .. Len(stackValue') PROVE stackNext'[n] < n
  <2>1. CASE n <= Len(stackValue)
    <3>1. n \in 1 .. Len(stackValue)
      BY <1>1, <2>1
    <3> QED
      BY Zenon, <1>1, <1>2, <3>1
  <2>2. CASE ~ (n <= Len(stackValue))
    <3> DEFINE j == n - Len(stackValue)
    <3>1. j \in 1 .. Len(vs) /\ Len(stackValue) + j = n
      BY <1>1, <2>2
    <3>2. stackNext'[n] = Below(j)
      BY <1>1, <3>1
    <3>3. Below(j) < n
      BY <1>1, <1>2, <3>1 DEF Below
    <3> QED
      BY <3>2, <3>3
  <2> QED
    BY <2>1, <2>2
<1>4. top' \in 0 .. Len(stackValue')
  BY <1>1, <1>2
<1> QED
  BY <1>1, <1>3, <1>4 DEF FastStackInv

\* FastStackInv holds in every reachable state of collection_stack.go: the pointers from
\* every node lead down to nil.
THEOREM FastStackInvariant == StackSpec => []FastStackInv
<1>1. StackInit => FastStackInv
  BY DEF StackInit, FastStackInv
<1>2. FastStackInv /\ [StackNext]_stackVars => FastStackInv'
  <2> SUFFICES ASSUME FastStackInv, [StackNext]_stackVars PROVE FastStackInv'
    OBVIOUS
  <2>1. CASE \E v \in Values : Push(v)
    <3>1. PICK v \in Values : PushAll(<<v>>)
      BY <2>1 DEF Push
    <3>2. <<v>> \in Seq(Values)
      OBVIOUS
    <3> QED
      BY <3>1, <3>2, PushAllInv
  <2>2. CASE \E vs \in Batches : PushAll(vs)
    BY <2>2, PushAllInv, NodesAssumption
  <2>3. CASE Pop
    <3>1. /\ stackValue' = stackValue /\ stackNext' = stackNext
          /\ top' = top \/ (top # 0 /\ top' = stackNext[top])
      BY Zenon, <2>3 DEF Pop
    <3>2. /\ stackValue \in Seq(Values) /\ stackNext \in Seq(Nat) /\ Len(stackValue) \in Nat
          /\ Len(stackNext) = Len(stackValue) /\ top \in 0 .. Len(stackValue)
          /\ \A n \in 1 .. Len(stackValue) : stackNext[n] < n
      BY DEF FastStackInv
    <3>3. ASSUME top # 0 PROVE stackNext[top] \in 0 .. Len(stackValue)
      BY <3>2, <3>3
    <3>4. top' \in 0 .. Len(stackValue)
      BY <3>1, <3>2, <3>3
    <3> QED
      BY <3>1, <3>2, <3>4 DEF FastStackInv
  <2>4. CASE Peek
    BY <2>4 DEF Peek, FastStackInv
  <2>5. CASE ClearStack
    BY <2>5 DEF ClearStack, FastStackInv
  <2>6. CASE UNCHANGED stackVars
    BY <2>6 DEF stackVars, FastStackInv
  <2> QED
    BY <2>1, <2>2, <2>3, <2>4, <2>5, <2>6 DEF StackNext
<1> QED
  BY <1>1, <1>2, PTL DEF StackSpec

\* What Down is: the value of the node, in front of what is below it.
DownEquations ==
    /\ \A n \in 0 .. Len(stackValue) : Down[n] \in Seq(Values)
    /\ Down[0] = <<>>
    /\ \A n \in 1 .. Len(stackValue) : Down[n] = <<stackValue[n]>> \o Down[stackNext[n]]

\* As the pointers lead downward, Down is defined by its recursion.
LEMMA DownIsDefined == FastStackInv => DownEquations
<1> SUFFICES ASSUME FastStackInv PROVE DownEquations
  OBVIOUS
<1> DEFINE N == Len(stackValue)
           step == [k \in 1 .. N |-> [s \in Seq(Values) |-> <<stackValue[k]>> \o s]]
<1>1. /\ N \in Nat /\ stackNext \in [1 .. N -> Nat]
      /\ \A k \in 1 .. N : stackNext[k] < k
      /\ \A k \in 1 .. N : stackValue[k] \in Values
  BY DEF FastStackInv
<1>2. step \in [1 .. N -> [Seq(Values) -> Seq(Values)]]
  <2>1. \A k \in 1 .. N : \A s \in Seq(Values) : <<stackValue[k]>> \o s \in Seq(Values)
    BY <1>1, FirstItem
  <2> QED
    BY <2>1
<1>3. \A k \in 1 .. N : \A s \in Seq(Values) : step[k][s] = <<stackValue[k]>> \o s
  OBVIOUS
<1>4. <<>> \in Seq(Values)
  OBVIOUS
<1> HIDE DEF step, N
<1>5. Descends(stackNext, N)
  BY <1>1 DEF Descends
<1>6. PICK f \in [0 .. N -> Seq(Values)] : Follows(f, <<>>, step, stackNext, N)
  BY <1>1, <1>2, <1>4, <1>5, Recursion
<1>7. ASSUME NEW k \in 1 .. N PROVE f[k] = <<stackValue[k]>> \o f[stackNext[k]]
  <2>1. stackNext[k] \in 0 .. N
    BY <1>1
  <2> QED
    BY <1>3, <1>6, <2>1 DEF Follows
<1>8. f = [n \in 0 .. N |-> IF n = 0 THEN <<>> ELSE <<stackValue[n]>> \o f[stackNext[n]]]
  <2>1. ASSUME NEW n \in 0 .. N
        PROVE  f[n] = IF n = 0 THEN <<>> ELSE <<stackValue[n]>> \o f[stackNext[n]]
    <3>1. n = 0 \/ n \in 1 .. N
      BY <1>1
    <3> QED
      BY Zenon, <1>6, <1>7, <3>1 DEF Follows
  <2> QED
    BY Zenon, <2>1
<1>9. Down = [n \in 0 .. N |->
                 IF n = 0 THEN <<>> ELSE <<stackValue[n]>> \o Down[stackNext[n]]]
  BY Zenon, <1>8 DEF Down, N
<1>10. Down[0] = <<>> /\ \A k \in 1 .. N : Down[k] = <<stackValue[k]>> \o Down[stackNext[k]]
  <2>1. 0 \in 0 .. N /\ \A k \in 1 .. N : k \in 0 .. N /\ k # 0
    BY <1>1
  <2> QED
    BY Zenon, <1>9, <2>1
<1>11. \A k \in 0 .. N : f[k] = Down[k]
  <2>1. GoesAlong(f, Down, stackNext, N)
    BY Zenon, <1>6, <1>7, <1>10 DEF GoesAlong, Follows
  <2> QED
    BY <1>1, <1>5, <2>1, SameRecursion
<1> QED
  BY Zenon, <1>6, <1>10, <1>11 DEF DownEquations, N

\* So it is after a step.
LEMMA DownIsDefinedAfter == FastStackInv' => DownEquations'
BY DownIsDefined, PTL

\* A batch goes on top of what is inside, the last of its values uppermost.
LEMMA PushAllIsLifo ==
    ASSUME FastStackInv, FastStackInv', NEW vs \in Seq(Values), PushAll(vs)
    PROVE  Lifo!PushAll(vs)
<1> DEFINE N == Len(stackValue)
           D == Down[top]
           pile(j) == [i \in 1 .. j + Len(D) |-> IF i <= j THEN vs[(j - i) + 1] ELSE D[i - j]]
           node(j) == IF j = 0 THEN top ELSE N + j
<1>1. /\ N \in Nat /\ Len(vs) \in Nat \ {0} /\ Len(stackValue') = N + Len(vs)
      /\ \A n \in 1 .. N : stackValue'[n] = stackValue[n] /\ stackNext'[n] = stackNext[n]
      /\ \A n \in 1 .. Len(vs) : stackValue'[N + n] = vs[n] /\ stackNext'[N + n] = Below(n)
  BY PushedNodes
<1>2. /\ stackNext \in [1 .. N -> Nat] /\ \A k \in 1 .. N : stackNext[k] < k
      /\ top \in 0 .. N
  BY <1>1 DEF FastStackInv
<1>3. /\ \A n \in 0 .. N : Down[n] \in Seq(Values)
      /\ Down[0] = <<>> /\ \A n \in 1 .. N : Down[n] = <<stackValue[n]>> \o Down[stackNext[n]]
  BY DownIsDefined DEF DownEquations
<1>4. /\ Down'[0] = <<>>
      /\ \A n \in 1 .. N + Len(vs) : Down'[n] = <<stackValue'[n]>> \o Down'[stackNext'[n]]
  BY <1>1, DownIsDefinedAfter DEF DownEquations
<1>5. \A n \in 0 .. N : Down'[n] = Down[n]
  <2>1. ASSUME NEW k \in 1 .. N, Down'[stackNext[k]] = Down[stackNext[k]]
        PROVE  Down'[k] = Down[k]
    <3>1. k \in 1 .. N + Len(vs)
      BY <1>1
    <3>2. Down'[k] = <<stackValue[k]>> \o Down'[stackNext[k]]
      BY Zenon, <1>1, <1>4, <3>1
    <3> QED
      BY Zenon, <1>3, <2>1, <3>2
  <2>2. Down'[0] = Down[0]
    BY <1>3, <1>4
  <2> QED
    <3>1. Descends(stackNext, N) /\ GoesAlong(Down', Down, stackNext, N)
      BY Zenon, <1>2, <2>1, <2>2 DEF Descends, GoesAlong
    <3> HIDE DEF N
    <3> QED
      BY <1>1, <3>1, SameRecursion
<1>6. D \in Seq(Values) /\ Len(D) \in Nat /\ Down'[top] = D
  BY <1>2, <1>3, <1>5
<1> HIDE DEF D
<1>7. ASSUME NEW j \in 0 .. Len(vs)
      PROVE  /\ pile(j) \in Seq(Values) /\ Len(pile(j)) = j + Len(D)
             /\ \A i \in 1 .. j + Len(D) :
                  pile(j)[i] = IF i <= j THEN vs[(j - i) + 1] ELSE D[i - j]
  <2>1. ASSUME NEW i \in 1 .. j + Len(D)
        PROVE  (IF i <= j THEN vs[(j - i) + 1] ELSE D[i - j]) \in Values
    <3>1. i <= j => (j - i) + 1 \in 1 .. Len(vs)
      BY <1>1, <1>6
    <3>2. ~ (i <= j) => i - j \in 1 .. Len(D)
      BY <1>6
    <3> QED
      BY <1>6, <3>1, <3>2
  <2>2. pile(j) \in [1 .. j + Len(D) -> Values] /\ j + Len(D) \in Nat
    BY <1>6, <2>1
  <2>3. \A i \in 1 .. j + Len(D) :
          pile(j)[i] = IF i <= j THEN vs[(j - i) + 1] ELSE D[i - j]
    OBVIOUS
  <2> HIDE DEF pile
  <2> QED
    BY Zenon, <2>2, <2>3, FunctionAsSeq
<1> HIDE DEF pile
<1>8. ASSUME NEW j \in 1 .. Len(vs) PROVE pile(j) = <<vs[j]>> \o pile(j - 1)
  <2> DEFINE l == <<vs[j]>> \o pile(j - 1)
  <2>1. j - 1 \in 0 .. Len(vs) /\ j \in 0 .. Len(vs) /\ vs[j] \in Values
    BY <1>1
  <2>2. /\ pile(j - 1) \in Seq(Values) /\ Len(pile(j - 1)) = (j - 1) + Len(D)
        /\ \A i \in 1 .. (j - 1) + Len(D) :
             pile(j - 1)[i] = IF i <= j - 1 THEN vs[((j - 1) - i) + 1] ELSE D[i - (j - 1)]
    BY Zenon, <1>7, <2>1
  <2>3. /\ pile(j) \in Seq(Values) /\ Len(pile(j)) = j + Len(D)
        /\ \A i \in 1 .. j + Len(D) :
             pile(j)[i] = IF i <= j THEN vs[(j - i) + 1] ELSE D[i - j]
    BY Zenon, <1>7, <2>1
  <2>4. /\ l \in Seq(Values) /\ Len(l) = Len(pile(j - 1)) + 1 /\ l[1] = vs[j]
        /\ \A i \in 1 .. Len(pile(j - 1)) : l[i + 1] = pile(j - 1)[i]
    BY <2>1, <2>2, FirstItem
  <2> HIDE DEF l
  <2>5. Len(l) = j + Len(D)
    BY <1>6, <2>2, <2>4
  <2>6. ASSUME NEW i \in 1 .. j + Len(D) PROVE pile(j)[i] = l[i]
    <3>1. CASE i = 1
      <4>1. i <= j /\ (j - i) + 1 = j
        BY <3>1
      <4> QED
        BY Zenon, <2>3, <2>4, <3>1, <4>1
    <3>2. CASE i # 1
      <4>1. i - 1 \in 1 .. (j - 1) + Len(D) /\ (i - 1) + 1 = i
        BY <1>6, <3>2
      <4>2. l[i] = pile(j - 1)[i - 1]
        BY Zenon, <2>2, <2>4, <4>1
      <4>3. /\ i <= j <=> i - 1 <= j - 1
            /\ ((j - 1) - (i - 1)) + 1 = (j - i) + 1
            /\ (i - 1) - (j - 1) = i - j
        BY <1>6
      <4> QED
        BY Zenon, <2>2, <2>3, <4>1, <4>2, <4>3
    <3> QED
      BY <3>1, <3>2
  <2> QED
    BY <2>3, <2>4, <2>5, <2>6, SameItems DEF l
<1>9. \A j \in 0 .. Len(vs) : Down'[node(j)] = pile(j)
  <2> DEFINE f == [j \in 0 .. Len(vs) |-> Down'[node(j)]]
             g == [j \in 0 .. Len(vs) |-> pile(j)]
             pred == [j \in 1 .. Len(vs) |-> j - 1]
  <2>1. pile(0) = D
    <3>1. 0 \in 0 .. Len(vs)
      BY <1>1
    <3>2. /\ pile(0) \in Seq(Values) /\ Len(pile(0)) = 0 + Len(D)
          /\ \A i \in 1 .. 0 + Len(D) :
               pile(0)[i] = IF i <= 0 THEN vs[(0 - i) + 1] ELSE D[i - 0]
      BY Zenon, <1>7, <3>1
    <3>3. Len(pile(0)) = Len(D) /\ \A i \in 1 .. Len(D) : pile(0)[i] = D[i]
      BY <1>6, <3>2
    <3> QED
      BY <1>6, <3>2, <3>3, SameItems
  <2>2. f[0] = g[0]
    <3>1. 0 \in 0 .. Len(vs) /\ node(0) = top
      BY <1>1
    <3> QED
      BY Zenon, <1>6, <2>1, <3>1
  <2>3. ASSUME NEW j \in 1 .. Len(vs), f[pred[j]] = g[pred[j]] PROVE f[j] = g[j]
    <3>1. /\ j \in 0 .. Len(vs) /\ j - 1 \in 0 .. Len(vs) /\ N + j \in 1 .. N + Len(vs)
          /\ pred[j] = j - 1 /\ node(j) = N + j
      BY <1>1
    <3>2. Below(j) = node(j - 1)
      BY <1>1, <3>1 DEF Below
    <3>3. f[j] = <<vs[j]>> \o Down'[node(j - 1)]
      <4>1. /\ Down'[N + j] = <<stackValue'[N + j]>> \o Down'[stackNext'[N + j]]
            /\ stackValue'[N + j] = vs[j] /\ stackNext'[N + j] = Below(j)
        BY Zenon, <1>1, <1>4, <3>1
      <4>2. f[j] = Down'[N + j]
        BY Zenon, <3>1
      <4> QED
        BY Zenon, <3>2, <4>1, <4>2
    <3>4. Down'[node(j - 1)] = pile(j - 1) /\ g[j] = pile(j)
      BY Zenon, <2>3, <3>1
    <3> QED
      BY Zenon, <1>8, <3>3, <3>4
  <2>4. pred \in [1 .. Len(vs) -> Nat] /\ \A k \in 1 .. Len(vs) : pred[k] < k
    BY <1>1
  <2>5. ASSUME NEW j \in 0 .. Len(vs) PROVE f[j] = Down'[node(j)] /\ g[j] = pile(j)
    OBVIOUS
  <2> HIDE DEF f, g, pred, node
  <2>6. \A j \in 0 .. Len(vs) : f[j] = g[j]
    <3>1. Descends(pred, Len(vs)) /\ GoesAlong(f, g, pred, Len(vs))
      BY Zenon, <2>2, <2>3, <2>4 DEF Descends, GoesAlong
    <3> QED
      BY <1>1, <3>1, SameRecursion
  <2> QED
    BY Zenon, <2>5, <2>6
<1>10. pile(Len(vs)) = Lifo!Piled(vs) \o D
  <2> DEFINE rev == Lifo!Piled(vs)
             r == rev \o D
  <2>1. rev \in Seq(Values) /\ Len(rev) = Len(vs)
    BY <1>1 DEF Lifo!Piled
  <2>2. \A i \in 1 .. Len(vs) : rev[i] = vs[(Len(vs) - i) + 1]
    BY Zenon DEF Lifo!Piled
  <2> HIDE DEF rev
  <2>3. /\ r \in Seq(Values) /\ Len(r) = Len(rev) + Len(D)
        /\ \A i \in 1 .. Len(rev) + Len(D) :
             r[i] = IF i <= Len(rev) THEN rev[i] ELSE D[i - Len(rev)]
    <3>1. rev \in Seq(Values) /\ D \in Seq(Values)
      BY <1>6, <2>1
    <3> QED
      BY ONLY <3>1, JoinedItems
  <2>4. /\ pile(Len(vs)) \in Seq(Values) /\ Len(pile(Len(vs))) = Len(vs) + Len(D)
        /\ \A i \in 1 .. Len(vs) + Len(D) :
             pile(Len(vs))[i] = IF i <= Len(vs) THEN vs[(Len(vs) - i) + 1] ELSE D[i - Len(vs)]
    <3>1. Len(vs) \in 0 .. Len(vs)
      BY <1>1
    <3> QED
      BY Zenon, <1>7, <3>1
  <2> HIDE DEF r
  <2>5. ASSUME NEW i \in 1 .. Len(vs) + Len(D) PROVE pile(Len(vs))[i] = r[i]
    <3>1. i <= Len(vs) => i \in 1 .. Len(vs)
      BY <1>1, <1>6
    <3> QED
      BY Zenon, <2>1, <2>2, <2>3, <2>4, <3>1
  <2> QED
    BY <2>1, <2>3, <2>4, <2>5, SameItems DEF r, rev
<1>11. Down'[top'] = Lifo!Piled(vs) \o D
  <2>1. top' = node(Len(vs)) /\ Len(vs) \in 0 .. Len(vs)
    BY <1>1 DEF PushAll
  <2> HIDE DEF node
  <2> QED
    BY Zenon, <1>9, <1>10, <2>1
<1>12. stackSize' = stackSize + Len(vs) /\ popped' = popped
  BY DEF PushAll
<1> QED
  BY Zenon, <1>11, <1>12 DEF Lifo!PushAll, D

\* Pop takes the uppermost value, and Peek shows it.
LEMMA PopIsLifo ==
    ASSUME FastStackInv, FastStackInv', Pop \/ Peek
    PROVE  Lifo!Pop \/ Lifo!Peek
<1>1. /\ Len(stackValue) \in Nat /\ top \in 0 .. Len(stackValue)
      /\ stackValue \in Seq(Values) /\ stackNext \in Seq(Nat)
      /\ Len(stackNext) = Len(stackValue)
      /\ \A n \in 1 .. Len(stackValue) : stackNext[n] < n
  BY DEF FastStackInv
<1>2. UNCHANGED Down
  BY Zenon DEF Down, Pop, Peek
<1>3. DownEquations
  BY DownIsDefined
<1>4. CASE top = 0
  <2>1. Down[top] = <<>> /\ popped' = None /\ UNCHANGED <<top, stackSize>>
    BY <1>3, <1>4 DEF DownEquations, Pop, Peek
  <2> QED
    BY <1>2, <2>1 DEF Lifo!Pop
<1>5. CASE top # 0
  <2>1. top \in 1 .. Len(stackValue) /\ stackNext[top] \in 0 .. Len(stackValue)
    BY <1>1, <1>5
  <2>2. /\ Down[top] # <<>> /\ Head(Down[top]) = stackValue[top]
        /\ Tail(Down[top]) = Down[stackNext[top]]
    <3>1. /\ stackValue[top] \in Values /\ Down[stackNext[top]] \in Seq(Values)
          /\ Down[top] = <<stackValue[top]>> \o Down[stackNext[top]]
      BY <1>1, <1>3, <2>1 DEF DownEquations
    <3> QED
      BY <3>1, FirstItem
  <2>3. CASE Pop
    <3>1. popped' = stackValue[top] /\ top' = stackNext[top] /\ stackSize' = stackSize - 1
      BY <1>5, <2>3 DEF Pop
    <3> QED
      BY Zenon, <1>2, <2>2, <3>1 DEF Lifo!Pop
  <2>4. CASE Peek
    <3>1. popped' = stackValue[top] /\ top' = top /\ stackSize' = stackSize
      BY <1>5, <2>4 DEF Peek
    <3> QED
      BY Zenon, <1>2, <2>2, <3>1 DEF Lifo!Peek
  <2> QED
    BY <2>3, <2>4
<1> QED
  BY <1>4, <1>5

\* FastStack is last in, first out, for any values and batches: what PushAll links in one
\* loop comes out in reverse, before everything that was inside.
THEOREM StackIsLifo == StackSpec => StackRefinesLifo
<1>1. StackInit => Lifo!Init
  <2>1. StackInit => FastStackInv
    BY DEF StackInit, FastStackInv
  <2> QED
    BY <2>1, DownIsDefined DEF StackInit, Lifo!Init, DownEquations
<1>2. FastStackInv /\ FastStackInv' /\ [StackNext]_stackVars
      => [Lifo!Next]_<<Down[top], stackSize, popped>>
  <2> SUFFICES ASSUME FastStackInv, FastStackInv', [StackNext]_stackVars
               PROVE  Lifo!Next \/ UNCHANGED <<Down[top], stackSize, popped>>
    OBVIOUS
  <2>1. CASE \E v \in Values : Push(v)
    <3>1. PICK v \in Values : PushAll(<<v>>)
      BY <2>1 DEF Push
    <3>2. <<v>> \in Seq(Values)
      OBVIOUS
    <3>3. Lifo!PushAll(<<v>>)
      BY <3>1, <3>2, PushAllIsLifo
    <3> QED
      BY Zenon, <3>3 DEF Lifo!Next
  <2>2. CASE \E vs \in Batches : PushAll(vs)
    <3>1. PICK vs \in Batches : PushAll(vs)
      BY <2>2
    <3>2. Lifo!PushAll(vs)
      BY <3>1, PushAllIsLifo, NodesAssumption
    <3> QED
      BY Zenon, <3>2 DEF Lifo!Next
  <2>3. CASE Pop \/ Peek
    BY Zenon, <2>3, PopIsLifo DEF Lifo!Next
  <2>4. CASE ClearStack
    <3>1. top' = 0 /\ stackSize' = 0 /\ popped' = popped
      BY <2>4 DEF ClearStack
    <3>2. Down'[0] = <<>>
      BY DownIsDefinedAfter DEF DownEquations
    <3> QED
      BY Zenon, <3>1, <3>2 DEF Lifo!Clear, Lifo!Next
  <2>5. CASE UNCHANGED stackVars
    <3>1. UNCHANGED Down
      BY Zenon, <2>5 DEF Down, stackVars
    <3> QED
      BY Zenon, <2>5, <3>1 DEF stackVars
  <2> QED
    BY <2>1, <2>2, <2>3, <2>4, <2>5 DEF StackNext
<1> QED
  BY <1>1, <1>2, FastStackInvariant, PTL DEF StackSpec, StackRefinesLifo, Lifo!Spec
-----------------------------------------------------------------------------
(* The calendar.                                                           *)

Moment(year, month, day, p) == [y |-> year, m |-> month, d |-> day, part |-> p]

\* A month has 28 to 31 days.
LEMMA DaysInMonth ==
    ASSUME NEW year \in Int, NEW month \in 1 .. 12
    PROVE  DaysIn(year, month) \in 28 .. 31
BY DEF DaysIn

\* How time.Date carries the months next to a year over.
LEMMA CarriedMonths ==
    ASSUME NEW year \in Int, NEW month \in 1 .. 12
    PROVE  /\ year + ((month - 1) \div 12) = year /\ ((month - 1) % 12) + 1 = month
           /\ year + (month \div 12) = IF month = 12 THEN year + 1 ELSE year
           /\ (month % 12) + 1 = IF month = 12 THEN 1 ELSE month + 1
           /\ year + ((month - 2) \div 12) = IF month = 1 THEN year - 1 ELSE year
           /\ ((month - 2) % 12) + 1 = IF month = 1 THEN 12 ELSE month - 1
OBVIOUS

\* A day of the calendar is what time.Date makes of it.
LEMMA DateOfDay ==
    ASSUME NEW year \in Int, NEW month \in 1 .. 12, NEW day \in 1 .. DaysIn(year, month), NEW p
    PROVE  Date(year, month, day, p) = Moment(year, month, day, p)
<1>1. /\ year + ((month + 0 - 1) \div 12) = year /\ ((month + 0 - 1) % 12) + 1 = month
  BY CarriedMonths
<1>2. ~ (day < 1) /\ ~ (day > DaysIn(year, month))
  BY DaysInMonth
<1> QED
  BY <1>1, <1>2 DEF Date, Moment

\* The first of the month after (year, month), of the month before, and the month's last.
After(year, month, p) ==
    IF month = 12 THEN Moment(year + 1, 1, 1, p) ELSE Moment(year, month + 1, 1, p)
YearBefore(year, month) == IF month = 1 THEN year - 1 ELSE year
MonthBefore(month) == IF month = 1 THEN 12 ELSE month - 1
LastOf(year, month, p) == Moment(year, month, DaysIn(year, month), p)

\* The month before a month is followed by it.
LEMMA BeforeAndAfter ==
    ASSUME NEW year \in Int, NEW month \in 1 .. 12, NEW p
    PROVE  /\ YearBefore(year, month) \in Int /\ MonthBefore(month) \in 1 .. 12
           /\ After(YearBefore(year, month), MonthBefore(month), p) = Moment(year, month, 1, p)
BY DEF YearBefore, MonthBefore, After

\* The first of the next month.
LEMMA DateOfNextMonth ==
    ASSUME NEW year \in Int, NEW month \in 1 .. 12, NEW p
    PROVE  Date(year, month + 1, 1, p) = After(year, month, p)
<1> DEFINE Y == IF month = 12 THEN year + 1 ELSE year
           M == IF month = 12 THEN 1 ELSE month + 1
<1>1. year + (((month + 1) + 0 - 1) \div 12) = Y /\ (((month + 1) + 0 - 1) % 12) + 1 = M
  BY CarriedMonths
<1>2. Y \in Int /\ M \in 1 .. 12
  OBVIOUS
<1>3. After(year, month, p) = Moment(Y, M, 1, p)
  BY DEF After
<1> HIDE DEF Y, M
<1>4. ~ (1 < 1) /\ ~ (1 > DaysIn(Y, M))
  BY <1>2, DaysInMonth
<1> QED
  BY <1>1, <1>3, <1>4 DEF Date, Moment

\* The day after a day of the calendar.
LEMMA DateOfNextDay ==
    ASSUME NEW year \in Int, NEW month \in 1 .. 12, NEW day \in 1 .. DaysIn(year, month), NEW p
    PROVE  Date(year, month, day + 1, p) =
             IF day < DaysIn(year, month) THEN Moment(year, month, day + 1, p)
             ELSE After(year, month, p)
<1>1. DaysIn(year, month) \in 28 .. 31
  BY DaysInMonth
<1>2. CASE day < DaysIn(year, month)
  <2>1. day + 1 \in 1 .. DaysIn(year, month)
    BY <1>1, <1>2
  <2> QED
    BY <1>2, <2>1, DateOfDay
<1>3. CASE ~ (day < DaysIn(year, month))
  <2> DEFINE Y == IF month = 12 THEN year + 1 ELSE year
             M == IF month = 12 THEN 1 ELSE month + 1
  <2>1. /\ year + ((month + 0 - 1) \div 12) = year /\ ((month + 0 - 1) % 12) + 1 = month
        /\ year + ((month + 1 - 1) \div 12) = Y /\ ((month + 1 - 1) % 12) + 1 = M
    BY CarriedMonths
  <2>2. ~ (day + 1 < 1) /\ day + 1 > DaysIn(year, month) /\ (day + 1) - DaysIn(year, month) = 1
    BY <1>1, <1>3
  <2>3. After(year, month, p) = Moment(Y, M, 1, p)
    BY DEF After
  <2> HIDE DEF Y, M
  <2>4. Date(year, month, day + 1, p) = [y |-> Y, m |-> M, d |-> 1, part |-> p]
    <3>1. \A e : ~ (e < 1) /\ e > DaysIn(year + ((month + 0 - 1) \div 12), ((month + 0 - 1) % 12) + 1)
            => Date(year, month, e, p) =
                 [y |-> year + ((month + 1 - 1) \div 12), m |-> ((month + 1 - 1) % 12) + 1,
                  d |-> e - DaysIn(year + ((month + 0 - 1) \div 12), ((month + 0 - 1) % 12) + 1),
                  part |-> p]
      BY Zenon DEF Date
    <3>2. \A e : ~ (e < 1) /\ e > DaysIn(year, month)
            => Date(year, month, e, p) = [y |-> Y, m |-> M, d |-> e - DaysIn(year, month), part |-> p]
      BY Zenon, <2>1, <3>1
    <3> DEFINE e == day + 1
    <3>3. ~ (e < 1) /\ e > DaysIn(year, month) /\ e - DaysIn(year, month) = 1
      BY <2>2
    <3> HIDE DEF e
    <3>4. Date(year, month, e, p) = [y |-> Y, m |-> M, d |-> 1, part |-> p]
      <4> DEFINE left == e - DaysIn(year, month)
      <4>1. Date(year, month, e, p) = [y |-> Y, m |-> M, d |-> left, part |-> p]
        BY Zenon, <3>2, <3>3
      <4>2. left = 1
        BY <3>3
      <4> HIDE DEF left
      <4> QED
        BY Zenon, <4>1, <4>2
    <3> QED
      BY <3>4 DEF e
  <2> QED
    BY <1>3, <2>3, <2>4 DEF Moment
<1> QED
  BY <1>2, <1>3

\* Day 0 is the last of the month before.
LEMMA DateOfDayZero ==
    ASSUME NEW year \in Int, NEW month \in 1 .. 12, NEW p
    PROVE  Date(year, month, 0, p) = LastOf(YearBefore(year, month), MonthBefore(month), p)
<1>1. /\ year + ((month + (-1) - 1) \div 12) = YearBefore(year, month)
      /\ ((month + (-1) - 1) % 12) + 1 = MonthBefore(month)
  BY CarriedMonths DEF YearBefore, MonthBefore
<1>2. DaysIn(YearBefore(year, month), MonthBefore(month)) \in 28 .. 31
  BY BeforeAndAfter, DaysInMonth
<1> QED
  BY <1>1, <1>2 DEF Date, LastOf, Moment

\* The same day of the month before, when that has it.
LEMMA DateOfLastMonth ==
    ASSUME NEW year \in Int, NEW month \in 1 .. 12, NEW p,
           NEW day \in 1 .. DaysIn(YearBefore(year, month), MonthBefore(month))
    PROVE  Date(year, month - 1, day, p) =
             Moment(YearBefore(year, month), MonthBefore(month), day, p)
<1>1. /\ year + (((month - 1) + 0 - 1) \div 12) = YearBefore(year, month)
      /\ (((month - 1) + 0 - 1) % 12) + 1 = MonthBefore(month)
  BY CarriedMonths DEF YearBefore, MonthBefore
<1>2. DaysIn(YearBefore(year, month), MonthBefore(month)) \in 28 .. 31
  BY BeforeAndAfter, DaysInMonth
<1>3. ~ (day < 1) /\ ~ (day > DaysIn(YearBefore(year, month), MonthBefore(month)))
  BY <1>2
<1> QED
  BY <1>1, <1>3 DEF Date, Moment

\* EndOfMonth is the last day of the month.
LEMMA EndOfMonthIs ==
    ASSUME NEW t, t.y \in Int, t.m \in 1 .. 12
    PROVE  EndOfMonth(t) = LastOf(t.y, t.m, LastSecond)
<1> DEFINE s == After(t.y, t.m, Midnight)
<1>1. Date(t.y, t.m + 1, 1, Midnight) = s
  BY DateOfNextMonth
<1>2. /\ s.y \in Int /\ s.m \in 1 .. 12 /\ s.d - 1 = 0
      /\ YearBefore(s.y, s.m) = t.y /\ MonthBefore(s.m) = t.m
  BY SMTT(30) DEF After, Moment, YearBefore, MonthBefore
<1> HIDE DEF s
<1>3. Date(s.y, s.m, 0, LastSecond) = LastOf(t.y, t.m, LastSecond)
  BY <1>2, DateOfDayZero
<1> QED
  BY Zenon, <1>1, <1>2, <1>3 DEF EndOfMonth

\* CalendarInv holds at every moment of a walk.
THEOREM CalendarInvariant == CalendarSpec => []CalendarInv
<1> USE DEF Midnight, LastNano
<1>1. CalendarInit => CalendarInv
  <2> SUFFICES ASSUME CalendarInit PROVE CalendarInv
    OBVIOUS
  <2>1. /\ From.y \in Int /\ From.y \in Nat /\ From.m \in 1 .. 12
        /\ From.d \in 1 .. DaysIn(From.y, From.m)
    BY CalendarAssumption
  <2>2. now = Moment(From.y, From.m, From.d, 0)
    BY <2>1, DateOfDay DEF CalendarInit, BeginOfDay
  <2> QED
    BY SMTT(30), <2>1, <2>2, DaysInMonth DEF CalendarInv, Moment
<1>2. CalendarInv /\ [Tick]_now => CalendarInv'
  <2> SUFFICES ASSUME CalendarInv, Tick PROVE CalendarInv'
    BY DEF CalendarInv
  <2>1. /\ now.y \in Nat /\ now.y \in Int /\ now.m \in 1 .. 12
        /\ DaysIn(now.y, now.m) \in 28 .. 31 /\ now.d \in 1 .. DaysIn(now.y, now.m)
    BY DaysInMonth DEF CalendarInv
  <2>2. CASE now.part = LastNano
    <3>1. now' = IF now.d < DaysIn(now.y, now.m) THEN Moment(now.y, now.m, now.d + 1, 0)
                 ELSE After(now.y, now.m, 0)
      BY <2>1, <2>2, DateOfNextDay DEF Tick
    <3>2. CASE now.d < DaysIn(now.y, now.m)
      BY <2>1, <3>1, <3>2 DEF CalendarInv, Moment
    <3>3. CASE ~ (now.d < DaysIn(now.y, now.m))
      <4>1. now'.y \in Nat /\ now'.m \in 1 .. 12 /\ now'.d = 1 /\ now'.part = 0
        BY <2>1, <3>1, <3>3 DEF After, Moment
      <4>2. now' = [y |-> now'.y, m |-> now'.m, d |-> now'.d, part |-> now'.part]
        BY <3>1, <3>3 DEF After, Moment
      <4>3. DaysIn(now'.y, now'.m) \in 28 .. 31
        BY <4>1, DaysInMonth
      <4> QED
        BY <4>1, <4>2, <4>3 DEF CalendarInv
    <3> QED
      BY <3>2, <3>3
  <2>3. CASE now.part # LastNano
    BY <2>1, <2>3 DEF CalendarInv, Tick
  <2> QED
    BY <2>2, <2>3
<1> QED
  BY <1>1, <1>2, PTL DEF CalendarSpec

\* What time.go gives at a moment of the calendar.
LEMMA Periods ==
    ASSUME CalendarInv
    PROVE  /\ now.y \in Int /\ now.m \in 1 .. 12 /\ DaysIn(now.y, now.m) \in 28 .. 31
           /\ now.d \in 1 .. DaysIn(now.y, now.m) /\ now.part \in Midnight .. LastNano
           /\ BeginOfDay(now) = Moment(now.y, now.m, now.d, Midnight)
           /\ EndOfDay(now) = Moment(now.y, now.m, now.d, LastNano)
           /\ BeginOfMonth(now) = Moment(now.y, now.m, 1, Midnight)
           /\ EndOfMonth(now) = LastOf(now.y, now.m, LastSecond)
           /\ BeginOfYear(now) = Moment(now.y, 1, 1, Midnight)
           /\ EndOfYear(now) = Moment(now.y, 12, 31, LastNano)
<1>1. /\ now.y \in Int /\ now.m \in 1 .. 12 /\ DaysIn(now.y, now.m) \in 28 .. 31
      /\ now.d \in 1 .. DaysIn(now.y, now.m) /\ now.part \in Midnight .. LastNano
  BY DaysInMonth DEF CalendarInv
<1>2. BeginOfDay(now) = Moment(now.y, now.m, now.d, Midnight)
  BY <1>1, DateOfDay DEF BeginOfDay
<1>3. EndOfDay(now) = Moment(now.y, now.m, now.d, LastNano)
  BY <1>1, DateOfDay DEF EndOfDay
<1>4. BeginOfMonth(now) = Moment(now.y, now.m, 1, Midnight)
  BY SMTT(30), <1>1, DateOfDay DEF BeginOfMonth
<1>5. EndOfMonth(now) = LastOf(now.y, now.m, LastSecond)
  BY <1>1, EndOfMonthIs
<1>6. DaysIn(now.y, 1) = 31 /\ DaysIn(now.y, 12) = 31
  BY DEF DaysIn
<1>7. BeginOfYear(now) = Moment(now.y, 1, 1, Midnight)
  BY <1>1, <1>6, DateOfDay DEF BeginOfYear
<1>8. EndOfYear(now) = Moment(now.y, 12, 31, LastNano)
  BY <1>1, <1>6, DateOfDay DEF EndOfYear
<1> QED
  BY Zenon, <1>1, <1>2, <1>3, <1>4, <1>5, <1>7, <1>8

\* Whatever the day, it lies in the day, the month and the year that time.go gives for it.
THEOREM CalendarPeriodsCover == CalendarSpec => []PeriodsCover
<1>1. CalendarInv => PeriodsCover
  <2> SUFFICES ASSUME CalendarInv PROVE PeriodsCover
    OBVIOUS
  <2> USE DEF Midnight, LastSecond, LastNano
  <2>1. /\ now.y \in Int /\ now.m \in 1 .. 12 /\ DaysIn(now.y, now.m) \in 28 .. 31
        /\ now.d \in 1 .. DaysIn(now.y, now.m) /\ now.part \in 0 .. 3
    BY Periods
  <2>2. Within(now, BeginOfDay(now), EndOfDay(now))
    BY <2>1, Periods DEF Within, Before, Moment
  <2>3. Within(now, BeginOfYear(now), EndOfYear(now))
    BY <2>1, Periods DEF Within, Before, Moment
  <2>4. ~ Before(now, BeginOfMonth(now))
    BY <2>1, Periods DEF Before, Moment
  <2>5. now.part # LastNano => ~ Before(EndOfMonth(now), now)
    BY <2>1, Periods DEF Before, Moment, LastOf
  <2>6. FollowedBy(EndOfMonth(now), Date(now.y, now.m + 1, 1, Midnight))
    <3>1. Date(now.y, now.m + 1, 1, Midnight) = After(now.y, now.m, Midnight)
      BY <2>1, DateOfNextMonth
    <3>2. Date(now.y, now.m, DaysIn(now.y, now.m) + 1, Midnight) = After(now.y, now.m, Midnight)
      <4>1. DaysIn(now.y, now.m) \in 1 .. DaysIn(now.y, now.m)
        BY <2>1
      <4> QED
        BY <2>1, <4>1, DateOfNextDay
    <3>3. /\ EndOfMonth(now).y = now.y /\ EndOfMonth(now).m = now.m
          /\ EndOfMonth(now).d = DaysIn(now.y, now.m)
      BY Periods DEF LastOf, Moment
    <3> QED
      BY Zenon, <3>1, <3>2, <3>3 DEF FollowedBy
  <2> QED
    BY Zenon, <2>2, <2>3, <2>4, <2>5, <2>6 DEF PeriodsCover
<1> QED
  BY <1>1, CalendarInvariant, PTL

\* ThisMonthRemainDays leads to the end of the month, in every month in which the clocks do
\* not go forward: hours that are repeated do not make up a day.
THEOREM CalendarRemainDays == CalendarSpec => []RemainDaysLead
<1>1. CalendarInv => RemainDaysLead
  <2> SUFFICES ASSUME CalendarInv, \A day \in Forward : <<day.y, day.m>> # <<now.y, now.m>>
               PROVE  ThisMonthRemainDays(now) = EndOfMonth(now).d - now.d
    BY DEF RemainDaysLead
  <2> DEFINE forward == {day \in Forward : day.y = now.y /\ day.m = now.m}
             back == {day \in Back : day.y = now.y /\ day.m = now.m}
  <2>1. Cardinality(forward) = 0
    <3>1. forward = {}
      BY Zenon
    <3> QED
      BY <3>1, FS_EmptySet
  <2>2. Cardinality(back) \in 0 .. 23
    <3>1. CASE back = {}
      BY <3>1, FS_EmptySet
    <3>2. CASE back # {}
      <4>1. PICK day \in back : TRUE
        BY <3>2
      <4>2. back = {e \in Back : e.y = day.y /\ e.m = day.m} /\ day \in Back
        BY Zenon, <4>1
      <4>3. Cardinality(back) < 24
        BY Zenon, <4>2, CalendarAssumption
      <4>4. IsFiniteSet(back)
        BY CalendarAssumption, FS_Subset
      <4>5. Cardinality(back) \in Nat
        BY <4>4, FS_CardinalityType
      <4> QED
        BY <4>3, <4>5
    <3> QED
      BY <3>1, <3>2
  <2>3. HoursOfMonth(now.y, now.m) = 24 * DaysIn(now.y, now.m) - Cardinality(forward) + Cardinality(back)
    BY Zenon DEF HoursOfMonth
  <2> HIDE DEF forward, back
  <2>4. DaysIn(now.y, now.m) \in 28 .. 31 /\ EndOfMonth(now).d = DaysIn(now.y, now.m)
    BY Periods DEF LastOf, Moment
  <2>5. HoursOfMonth(now.y, now.m) \div 24 = DaysIn(now.y, now.m)
    BY <2>1, <2>2, <2>3, <2>4
  <2> QED
    BY Zenon, <2>4, <2>5 DEF ThisMonthRemainDays, DaysOfMonth
<1> QED
  BY <1>1, CalendarInvariant, PTL

\* LastMonthFirstDay and LastMonthLastDay bracket the month before, over the turn of the
\* year too, on days that the month before has.
THEOREM CalendarLastMonth == CalendarSpec => []LastMonthPrecedes
<1>1. CalendarInv => LastMonthPrecedes
  <2> SUFFICES ASSUME CalendarInv PROVE LastMonthPrecedes
    OBVIOUS
  <2> DEFINE Y == YearBefore(now.y, now.m)
             M == MonthBefore(now.m)
             D == DaysIn(Y, M)
             started == BeginOfMonth(now)
  <2>1. /\ now.y \in Int /\ now.m \in 1 .. 12 /\ now.d \in Nat \ {0}
        /\ started = Moment(now.y, now.m, 1, Midnight)
    BY Periods
  <2>2. /\ Y \in Int /\ M \in 1 .. 12 /\ D \in 28 .. 31
        /\ After(Y, M, Midnight) = started
    BY <2>1, BeforeAndAfter, DaysInMonth
  <2>3. LastMonthLastDay(started).d = D
    <3>1. 1 \in 1 .. D /\ started.y = now.y /\ started.m = now.m /\ started.d = 1
      BY <2>1, <2>2 DEF Moment
    <3>2. Date(now.y, now.m - 1, 1, started.part) = Moment(Y, M, 1, started.part)
      BY <2>1, <3>1, DateOfLastMonth
    <3>3. LastMonthNow(started).y = Y /\ LastMonthNow(started).m = M
      <4>1. LastMonthNow(started) = Date(now.y, now.m - 1, 1, started.part)
        BY Zenon, <3>1 DEF LastMonthNow
      <4>2. LastMonthNow(started) = Moment(Y, M, 1, started.part)
        BY Zenon, <4>1, <3>2
      <4> HIDE DEF Y, M
      <4> QED BY <4>2 DEF Moment
    <3>4. LastMonthLastDay(started) = LastOf(Y, M, LastSecond)
      BY <2>2, <3>3, EndOfMonthIs DEF LastMonthLastDay
    <3> QED
      BY <3>4 DEF LastOf, Moment
  <2> HIDE DEF started
  <2> SUFFICES ASSUME now.d <= D
               PROVE  /\ FollowedBy(LastMonthLastDay(now), started)
                      /\ LastMonthFirstDay(now).d = 1
                      /\ Before(LastMonthFirstDay(now), LastMonthLastDay(now))
    BY Zenon, <2>3 DEF LastMonthPrecedes, started
  <2>4. LastMonthNow(now) = Moment(Y, M, now.d, now.part)
    <3>1. now.d \in 1 .. D
      BY <2>1, <2>2
    <3> QED
      BY <2>1, <3>1, DateOfLastMonth DEF LastMonthNow
  <2> HIDE DEF Y, M
  <2>5. LastMonthNow(now).y = Y /\ LastMonthNow(now).m = M
    BY <2>4 DEF Moment
  <2>6. LastMonthLastDay(now) = LastOf(Y, M, LastSecond)
    BY <2>2, <2>5, EndOfMonthIs DEF LastMonthLastDay
  <2>7. LastMonthFirstDay(now) = Moment(Y, M, 1, Midnight)
    <3>1. 1 \in 1 .. DaysIn(Y, M)
      BY <2>2
    <3> QED
      BY <2>2, <2>5, <3>1, DateOfDay DEF LastMonthFirstDay, BeginOfMonth
  <2>8. Date(Y, M, D + 1, Midnight) = started
    <3>1. D \in 1 .. DaysIn(Y, M) /\ ~ (D < DaysIn(Y, M))
      BY <2>2
    <3> QED
      BY <2>2, <3>1, DateOfNextDay
  <2>9. FollowedBy(LastMonthLastDay(now), started)
    BY <2>6, <2>8 DEF FollowedBy, LastOf, Moment
  <2> QED
    BY <2>2, <2>6, <2>7, <2>9 DEF Before, LastOf, Moment
<1> QED
  BY <1>1, CalendarInvariant, PTL

\* The recursions of Itoa and of Atoi.
DigitsOf(n) ==
    CHOOSE g : g = [k \in 0 .. n |-> IF k < 10 THEN <<k>> ELSE Append(g[k \div 10], k % 10)]
ReadOf(s) ==
    CHOOSE g : g = [i \in 0 .. Len(s) |-> IF i = 0 THEN 0 ELSE (10 * g[i - 1]) + s[i]]
Tenth(n) == [k \in 1 .. n |-> k \div 10]

\* The loop of Itoa goes down to a digit.
LEMMA TenthDescends == ASSUME NEW n \in Nat PROVE Descends(Tenth(n), n)
BY DEF Descends, Tenth

\* The loop of Itoa gives digits.
LEMMA DigitsOfIs ==
    ASSUME NEW n \in Nat
    PROVE  /\ DigitsOf(n) \in [0 .. n -> Seq(0 .. 9)]
           /\ \A k \in 0 .. n : DigitsOf(n)[k] =
                IF k < 10 THEN <<k>> ELSE Append(DigitsOf(n)[k \div 10], k % 10)
<1> DEFINE S == Seq(0 .. 9)
           step == [k \in 1 .. n |-> [s \in S |-> IF k < 10 THEN <<k>> ELSE Append(s, k % 10)]]
<1>1. <<0>> \in S /\ step \in [1 .. n -> [S -> S]]
  <2>1. ASSUME NEW k \in 1 .. n, NEW s \in S
        PROVE  (IF k < 10 THEN <<k>> ELSE Append(s, k % 10)) \in S
    <3>1. k % 10 \in 0 .. 9 /\ (k < 10 => k \in 0 .. 9)
      OBVIOUS
    <3>2. \A c \in 0 .. 9 : <<c>> \in S /\ Append(s, c) \in S
      OBVIOUS
    <3> HIDE DEF S
    <3> QED
      BY Zenon, <3>1, <3>2
  <2> QED
    BY <2>1
<1>2. PICK f \in [0 .. n -> S] : Follows(f, <<0>>, step, Tenth(n), n)
  <2> HIDE DEF S, step
  <2> QED
    BY <1>1, TenthDescends, Recursion
<1>3. ASSUME NEW k \in 0 .. n
      PROVE  f[k] = IF k < 10 THEN <<k>> ELSE Append(f[k \div 10], k % 10)
  <2>1. CASE k = 0
    BY <1>2, <2>1 DEF Follows
  <2>2. CASE k # 0
    <3>1. k \in 1 .. n /\ Tenth(n)[k] = k \div 10 /\ k \div 10 \in 0 .. n
      BY <2>2 DEF Tenth
    <3>2. f[k] = step[k][f[k \div 10]] /\ f[k \div 10] \in S
      BY <1>2, <3>1 DEF Follows
    <3> QED
      BY <3>1, <3>2
  <2> QED
    BY <2>1, <2>2
<1>4. f = [k \in 0 .. n |-> IF k < 10 THEN <<k>> ELSE Append(f[k \div 10], k % 10)]
  BY <1>3
<1> HIDE DEF S, step
<1>5. DigitsOf(n) =
        [k \in 0 .. n |-> IF k < 10 THEN <<k>> ELSE Append(DigitsOf(n)[k \div 10], k % 10)]
  BY Zenon, <1>4 DEF DigitsOf
<1>6. GoesAlong(f, DigitsOf(n), Tenth(n), n)
  <2> DEFINE D == DigitsOf(n)
  <2>1. D = [k \in 0 .. n |-> IF k < 10 THEN <<k>> ELSE Append(D[k \div 10], k % 10)]
    BY <1>5
  <2> HIDE DEF D
  <2>2. f[0] = D[0]
    BY <1>3, <2>1
  <2>3. ASSUME NEW k \in 1 .. n, f[Tenth(n)[k]] = D[Tenth(n)[k]] PROVE f[k] = D[k]
    <3>1. f[k \div 10] = D[k \div 10] /\ k \in 0 .. n
      BY <2>3 DEF Tenth
    <3>2. D[k] = IF k < 10 THEN <<k>> ELSE Append(D[k \div 10], k % 10)
      BY <2>1, <3>1
    <3>3. f[k] = IF k < 10 THEN <<k>> ELSE Append(f[k \div 10], k % 10)
      BY <1>3, <3>1
    <3> QED
      BY <3>1, <3>2, <3>3
  <2> QED
    BY <2>2, <2>3 DEF GoesAlong, D
<1>7. \A k \in 0 .. n : f[k] = DigitsOf(n)[k]
  BY <1>6, TenthDescends, SameRecursion
<1>8. DigitsOf(n) \in [0 .. n -> S]
  BY <1>5, <1>7
<1> QED
  BY <1>5, <1>8 DEF S

\* Itoa writes the digits, most significant first.
LEMMA ItoaIs ==
    ASSUME NEW n \in Nat
    PROVE  /\ Itoa(n) \in Seq(0 .. 9)
           /\ n < 10 => Itoa(n) = <<n>>
           /\ n >= 10 => Itoa(n) = Append(Itoa(n \div 10), n % 10)
<1>1. \A k \in Nat : Itoa(k) = DigitsOf(k)[k]
  BY DEF Itoa, DigitsOf
<1>2. n \in 0 .. n
  OBVIOUS
<1>3. Itoa(n) = IF n < 10 THEN <<n>> ELSE Append(DigitsOf(n)[n \div 10], n % 10)
  BY <1>1, <1>2, DigitsOfIs
<1>4. Itoa(n) \in Seq(0 .. 9)
  BY <1>1, <1>2, DigitsOfIs
<1>5. DigitsOf(n)[n \div 10] = Itoa(n \div 10)
  <2> DEFINE k == n \div 10
             f == DigitsOf(n)
             g == DigitsOf(k)
  <2>1. k \in Nat /\ k <= n
    OBVIOUS
  <2>2. \A i \in 0 .. n : f[i] = IF i < 10 THEN <<i>> ELSE Append(f[i \div 10], i % 10)
    BY DigitsOfIs
  <2> HIDE DEF k
  <2>3. \A i \in 0 .. k : g[i] = IF i < 10 THEN <<i>> ELSE Append(g[i \div 10], i % 10)
    BY <2>1, DigitsOfIs
  <2> HIDE DEF f, g
  <2>4. GoesAlong(f, g, Tenth(k), k)
    <3>1. f[0] = g[0]
      <4>1. 0 \in 0 .. n /\ 0 \in 0 .. k /\ 0 < 10
        BY <2>1
      <4>2. f[0] = <<0>>
        BY <2>2, <4>1
      <4>3. g[0] = <<0>>
        BY <2>3, <4>1
      <4> QED
        BY <4>2, <4>3
    <3>2. ASSUME NEW i \in 1 .. k, f[Tenth(k)[i]] = g[Tenth(k)[i]] PROVE f[i] = g[i]
      <4>1. f[i \div 10] = g[i \div 10] /\ i \in 0 .. k /\ i \in 0 .. n
        BY <2>1, <3>2 DEF Tenth
      <4>2. f[i] = IF i < 10 THEN <<i>> ELSE Append(f[i \div 10], i % 10)
        BY <2>2, <4>1
      <4>3. g[i] = IF i < 10 THEN <<i>> ELSE Append(g[i \div 10], i % 10)
        BY <2>3, <4>1
      <4> QED
        BY <4>1, <4>2, <4>3
    <3> QED
      BY <3>1, <3>2 DEF GoesAlong
  <2>5. f[k] = g[k]
    BY <2>1, <2>4, TenthDescends, SameRecursion
  <2> QED
    BY <1>1, <2>1, <2>5 DEF f, g, k
<1> QED
  BY <1>3, <1>4, <1>5

\* The loop of Atoi gives a number.
LEMMA ReadOfIs ==
    ASSUME NEW s \in Seq(0 .. 9)
    PROVE  /\ ReadOf(s) \in [0 .. Len(s) -> Nat]
           /\ ReadOf(s)[0] = 0
           /\ \A i \in 1 .. Len(s) : ReadOf(s)[i] = (10 * ReadOf(s)[i - 1]) + s[i]
<1> DEFINE N == Len(s)
           pred == [i \in 1 .. N |-> i - 1]
           step == [i \in 1 .. N |-> [v \in Nat |-> (10 * v) + s[i]]]
<1>1. N \in Nat /\ \A i \in 1 .. N : s[i] \in 0 .. 9
  OBVIOUS
<1> HIDE DEF N
<1>2. Descends(pred, N)
  BY <1>1 DEF Descends
<1>3. step \in [1 .. N -> [Nat -> Nat]] /\ 0 \in Nat
  BY SMTT(30), <1>1
<1>4. PICK f \in [0 .. N -> Nat] : Follows(f, 0, step, pred, N)
  <2> HIDE DEF step, pred
  <2> QED
    BY <1>1, <1>2, <1>3, Recursion
<1>5. /\ f[0] = 0
      /\ \A i \in 1 .. N : f[i] = (10 * f[i - 1]) + s[i]
  <2>1. ASSUME NEW i \in 1 .. N PROVE f[i] = (10 * f[i - 1]) + s[i]
    <3>1. pred[i] = i - 1 /\ i - 1 \in 0 .. N
      BY <1>1
    <3>2. f[i - 1] \in Nat
      BY <3>1
    <3>3. f[i] = step[i][f[i - 1]]
      BY Zenon, <1>4, <3>1 DEF Follows
    <3> QED
      BY <3>2, <3>3
  <2> QED
    BY <1>4, <2>1 DEF Follows
<1>6. f = [i \in 0 .. N |-> IF i = 0 THEN 0 ELSE (10 * f[i - 1]) + s[i]]
  BY <1>1, <1>5
<1> HIDE DEF pred, step
<1>7. ReadOf(s) = [i \in 0 .. N |-> IF i = 0 THEN 0 ELSE (10 * ReadOf(s)[i - 1]) + s[i]]
  BY Zenon, <1>6 DEF ReadOf, N
<1> DEFINE R == ReadOf(s)
<1>8. R = [i \in 0 .. N |-> IF i = 0 THEN 0 ELSE (10 * R[i - 1]) + s[i]]
  BY <1>7
<1> HIDE DEF R
<1>9. /\ R[0] = 0
      /\ \A i \in 1 .. N : R[i] = (10 * R[i - 1]) + s[i]
  BY <1>1, <1>8
<1>10. GoesAlong(f, R, pred, N)
  BY <1>5, <1>9 DEF GoesAlong, pred
<1>11. \A i \in 0 .. N : f[i] = R[i]
  BY <1>1, <1>2, <1>10, SameRecursion
<1>12. R \in [0 .. N -> Nat]
  BY <1>8, <1>11
<1> QED
  BY <1>9, <1>12 DEF R, N

\* Atoi reads a digit after the others as the last one.
LEMMA AtoiIs ==
    /\ Atoi(<<>>) = 0
    /\ \A s \in Seq(0 .. 9), c \in 0 .. 9 :
         Atoi(s) \in Nat /\ Atoi(Append(s, c)) = (10 * Atoi(s)) + c
<1>1. \A s : Atoi(s) = ReadOf(s)[Len(s)]
  BY DEF Atoi, ReadOf
<1>2. Atoi(<<>>) = 0
  <2>1. <<>> \in Seq(0 .. 9) /\ Len(<<>>) = 0
    OBVIOUS
  <2> QED
    BY <1>1, <2>1, ReadOfIs
<1>3. ASSUME NEW s \in Seq(0 .. 9), NEW c \in 0 .. 9
      PROVE  Atoi(s) \in Nat /\ Atoi(Append(s, c)) = (10 * Atoi(s)) + c
  <2> DEFINE t == Append(s, c)
             N == Len(s)
             pred == [i \in 1 .. N |-> i - 1]
             f == ReadOf(s)
             g == ReadOf(t)
  <2>1. /\ t \in Seq(0 .. 9) /\ N \in Nat /\ Len(t) = N + 1 /\ t[N + 1] = c
        /\ \A i \in 1 .. N : t[i] = s[i]
    OBVIOUS
  <2>2. f \in [0 .. N -> Nat] /\ f[0] = 0 /\ \A i \in 1 .. N : f[i] = (10 * f[i - 1]) + s[i]
    BY ReadOfIs
  <2> HIDE DEF t
  <2>3. g[0] = 0 /\ \A i \in 1 .. N + 1 : g[i] = (10 * g[i - 1]) + t[i]
    BY <2>1, ReadOfIs
  <2>4. Atoi(s) = f[N] /\ Atoi(t) = g[N + 1]
    BY <1>1, <2>1
  <2> HIDE DEF f, g, N
  <2>5. Descends(pred, N) /\ GoesAlong(f, g, pred, N)
    <3>1. Descends(pred, N)
      BY <2>1 DEF Descends
    <3>2. ASSUME NEW i \in 1 .. N, f[pred[i]] = g[pred[i]] PROVE f[i] = g[i]
      <4>1. f[i - 1] = g[i - 1] /\ i \in 1 .. N + 1
        BY <2>1, <3>2
      <4>2. f[i] = (10 * f[i - 1]) + s[i] /\ g[i] = (10 * g[i - 1]) + t[i] /\ t[i] = s[i]
        BY <2>1, <2>2, <2>3, <4>1
      <4> QED
        BY Zenon, <4>1, <4>2
    <3> QED
      BY <2>2, <2>3, <3>1, <3>2 DEF GoesAlong
  <2>6. f[N] = g[N] /\ N \in 0 .. N
    <3> HIDE DEF pred
    <3> QED
      BY SMTT(30), <2>1, <2>5, SameRecursion
  <2>7. g[N + 1] = (10 * g[N]) + c
    BY <2>1, <2>3
  <2> QED
    BY <2>2, <2>4, <2>6, <2>7 DEF t
<1> QED
  BY <1>2, <1>3

\* Atoi reads what Itoa writes.
LEMMA AtoiOfItoa == ASSUME NEW n \in Nat PROVE Atoi(Itoa(n)) = n
<1> DEFINE P == {k \in Nat : Atoi(Itoa(k)) = k}
<1>1. ASSUME NEW k \in Nat, \A m \in Nat : m < k => m \in P PROVE k \in P
  <2>1. CASE k < 10
    <3>1. Itoa(k) = Append(<<>>, k)
      <4>1. Append(<<>>, k) = <<k>>
        OBVIOUS
      <4> QED
        BY <2>1, <4>1, ItoaIs
    <3>2. <<>> \in Seq(0 .. 9) /\ k \in 0 .. 9
      BY <2>1
    <3>3. Atoi(Append(<<>>, k)) = (10 * Atoi(<<>>)) + k /\ Atoi(<<>>) = 0
      BY Zenon, <3>2, AtoiIs
    <3> QED
      BY <3>1, <3>3
  <2>2. CASE ~ (k < 10)
    <3>1. k \div 10 \in Nat /\ k \div 10 < k /\ k % 10 \in 0 .. 9 /\ k = 10 * (k \div 10) + (k % 10)
      BY <2>2
    <3>2. Itoa(k) = Append(Itoa(k \div 10), k % 10) /\ Itoa(k \div 10) \in Seq(0 .. 9)
      <4>1. k >= 10
        BY <2>2
      <4>2. Itoa(k) = Append(Itoa(k \div 10), k % 10)
        BY Zenon, <4>1, ItoaIs
      <4>3. Itoa(k \div 10) \in Seq(0 .. 9)
        BY Zenon, <3>1, ItoaIs
      <4> QED
        BY <4>2, <4>3
    <3>3. Atoi(Itoa(k \div 10)) = k \div 10
      BY Zenon, <1>1, <3>1
    <3>4. Atoi(Itoa(k)) = (10 * Atoi(Itoa(k \div 10))) + (k % 10)
      BY <3>1, <3>2, AtoiIs
    <3> QED
      BY <3>1, <3>3, <3>4
  <2> QED
    BY <2>1, <2>2
<1>2. Nat \subseteq P
  <2> HIDE DEF P
  <2> QED
    BY <1>1, Induction
<1> QED
  BY <1>2

\* Two items, one by one.
LEMMA TwoItems ==
    ASSUME NEW S, NEW v \in S, NEW w \in S
    PROVE  Append(<<v>>, w) = <<v, w>>
<1> DEFINE t == <<v, w>>
           u == <<v>> \o <<w>>
<1>1. t \in Seq(S) /\ Len(t) = 2 /\ t[1] = v /\ t[2] = w
  OBVIOUS
<1>2. u \in Seq(S) /\ Len(u) = 2 /\ u[1] = v /\ u[2] = w
  OBVIOUS
<1>3. <<v>> \in Seq(S)
  OBVIOUS
<1>4. Append(<<v>>, w) = u
  BY <1>3, AppendJoins
<1> HIDE DEF t, u
<1>5. t = u
  <2>1. \A n \in 1 .. 2 : t[n] = u[n]
    BY <1>1, <1>2
  <2> QED
    BY <1>1, <1>2, <2>1
<1> QED
  BY <1>4, <1>5 DEF t

\* PadLeftInt gives a month or a day two digits.
LEMMA PaddedIs ==
    ASSUME NEW num \in 0 .. 99
    PROVE  PadLeftInt(num, 2, 0) = <<num \div 10, num % 10>>
<1>1. CASE num < 10
  <2>1. Itoa(num) = <<num>> /\ num \div 10 = 0 /\ num % 10 = num
    BY <1>1, ItoaIs
  <2>2. PadLeftInt(num, 2, 0) = [i \in 1 .. 1 |-> 0] \o <<num>>
    BY <2>1 DEF PadLeftInt
  <2>3. [i \in 1 .. 1 |-> 0] = <<0>>
    OBVIOUS
  <2> QED
    BY <2>1, <2>2, <2>3
<1>2. CASE ~ (num < 10)
  <2>1. num \div 10 \in Nat /\ num \div 10 < 10
    BY <1>2
  <2>2. Itoa(num) = Append(Itoa(num \div 10), num % 10)
    <3>1. num >= 10 /\ num \in Nat
      BY <1>2
    <3> QED
      BY Zenon, <3>1, ItoaIs
  <2>3. Itoa(num) = <<num \div 10, num % 10>>
    <3>1. Itoa(num \div 10) = <<num \div 10>>
      BY Zenon, <2>1, ItoaIs
    <3>2. num % 10 \in Nat
      OBVIOUS
    <3>3. Append(<<num \div 10>>, num % 10) = <<num \div 10, num % 10>>
      BY <2>1, <3>2, TwoItems
    <3> QED
      BY Zenon, <2>2, <3>1, <3>3
  <2>4. PadLeftInt(num, 2, 0) = [i \in 1 .. 0 |-> 0] \o <<num \div 10, num % 10>>
    BY <2>3 DEF PadLeftInt
  <2>5. [i \in 1 .. 0 |-> 0] = <<>>
    OBVIOUS
  <2> QED
    BY <2>4, <2>5
<1> QED
  BY <1>1, <1>2

\* The integer of a date.
LEMMA DateIntIs ==
    ASSUME NEW t, t.y \in Nat, t.m \in 1 .. 12, t.d \in 1 .. 31
    PROVE  TimeToYYYYMMDDInt(t) = 10000 * t.y + 100 * t.m + t.d
<1> DEFINE s == Itoa(t.y)
           c1 == t.m \div 10
           c2 == t.m % 10
           c3 == t.d \div 10
           c4 == t.d % 10
<1>1. /\ c1 \in 0 .. 9 /\ c2 \in 0 .. 9 /\ c3 \in 0 .. 9 /\ c4 \in 0 .. 9
      /\ t.m = 10 * c1 + c2 /\ t.d = 10 * c3 + c4
  OBVIOUS
<1>2. s \in Seq(0 .. 9) /\ Atoi(s) = t.y
  BY ItoaIs, AtoiOfItoa
<1>3. PadLeftInt(t.m, 2, 0) = <<c1, c2>> /\ PadLeftInt(t.d, 2, 0) = <<c3, c4>>
  BY PaddedIs
<1>4. TimeToYYYYMMDD(t) = s \o <<c1, c2>> \o <<c3, c4>>
  BY <1>3 DEF TimeToYYYYMMDD
<1> HIDE DEF s, c1, c2, c3, c4
<1>5. s \o <<c1, c2>> \o <<c3, c4>> = Append(Append(Append(Append(s, c1), c2), c3), c4)
  BY ONLY SMTT(30), <1>1, <1>2
<1> DEFINE s1 == Append(s, c1)
           s2 == Append(s1, c2)
           s3 == Append(s2, c3)
<1>6. /\ s1 \in Seq(0 .. 9) /\ s2 \in Seq(0 .. 9) /\ s3 \in Seq(0 .. 9)
  BY ONLY <1>1, <1>2
<1>7. /\ Atoi(s1) = (10 * t.y) + c1
      /\ Atoi(s2) = (10 * Atoi(s1)) + c2
      /\ Atoi(s3) = (10 * Atoi(s2)) + c3
      /\ Atoi(Append(s3, c4)) = (10 * Atoi(s3)) + c4
  <2>1. Atoi(s1) = (10 * Atoi(s)) + c1
    BY Zenon, <1>1, <1>2, AtoiIs
  <2>2. Atoi(s2) = (10 * Atoi(s1)) + c2
    BY Zenon, <1>1, <1>6, AtoiIs
  <2>3. Atoi(s3) = (10 * Atoi(s2)) + c3
    BY Zenon, <1>1, <1>6, AtoiIs
  <2>4. Atoi(Append(s3, c4)) = (10 * Atoi(s3)) + c4
    BY Zenon, <1>1, <1>6, AtoiIs
  <2> QED
    BY Zenon, <1>2, <2>1, <2>2, <2>3, <2>4
<1>8. TimeToYYYYMMDDInt(t) = Atoi(Append(s3, c4))
  BY <1>4, <1>5 DEF TimeToYYYYMMDDInt
<1> HIDE DEF s1, s2, s3
<1> QED
  BY <1>1, <1>7, <1>8

\* The integers of TimeToYYYYMMDDInt order all days as the calendar does.
THEOREM CalendarDateInts == CalendarSpec => DateIntIncreases
<1> DEFINE Later == IF now'.d = now.d THEN TimeToYYYYMMDDInt(now') = TimeToYYYYMMDDInt(now)
                    ELSE TimeToYYYYMMDDInt(now') > TimeToYYYYMMDDInt(now)
<1>1. CalendarInv => /\ now.y \in Nat /\ now.m \in 1 .. 12 /\ now.d \in 1 .. 31
                     /\ TimeToYYYYMMDDInt(now) = 10000 * now.y + 100 * now.m + now.d
  BY DateIntIs DEF CalendarInv
<1>2. CalendarInv' => /\ now'.y \in Nat /\ now'.m \in 1 .. 12 /\ now'.d \in 1 .. 31
                      /\ TimeToYYYYMMDDInt(now') = 10000 * now'.y + 100 * now'.m + now'.d
  BY DateIntIs DEF CalendarInv
<1>3. CalendarInv /\ CalendarInv' /\ [Tick]_now => [Later]_now
  <2> SUFFICES ASSUME CalendarInv, CalendarInv', Tick PROVE Later
    BY Zenon
  <2>1. CASE now.part = LastNano
    <3>1. now' = IF now.d < DaysIn(now.y, now.m) THEN Moment(now.y, now.m, now.d + 1, Midnight)
                 ELSE After(now.y, now.m, Midnight)
      BY <2>1, Periods, DateOfNextDay DEF Tick
    <3>2. DaysIn(now.y, now.m) \in 28 .. 31
      BY Periods
    <3> QED
      BY SMTT(30), <1>1, <1>2, <3>1, <3>2 DEF Moment, After
  <2>2. CASE now.part # LastNano
    <3>1. now'.y = now.y /\ now'.m = now.m /\ now'.d = now.d
      BY <2>2 DEF Tick, CalendarInv
    <3> QED
      BY <1>1, <1>2, <3>1
  <2> QED
    BY <2>1, <2>2
<1> QED
  BY <1>3, CalendarInvariant, PTL DEF CalendarSpec, DateIntIncreases
-----------------------------------------------------------------------------
(* The platforms.                                                          *)

\* What PlatformSpec reads is an integer.
THEOREM PlatformParsedIsListed == PlatformSpec => []ParsedIsListed
<1> DEFINE Inv == number \in Int
<1>1. PlatformInit => Inv
  BY DEF PlatformInit, Unspecify
<1>2. Inv /\ [PlatformNext]_number => Inv'
  BY DEF PlatformNext
<1>3. Inv => ParsedIsListed
  BY DEF ParsedIsListed, IsPlatformValid, ParsePlatform, IsPlatformStringValid, Int8, Platforms,
         Unspecify, Android, Harmony
<1> QED
  BY <1>1, <1>2, <1>3, PTL DEF PlatformSpec
=============================================================================
