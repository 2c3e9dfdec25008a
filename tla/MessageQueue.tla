--------------------------- MODULE MessageQueue ---------------------------
(***************************************************************************)
(* message_queue.go: a topic kept in a Redis stream, read by the consumers *)
(* of one group.  Each consumer is the goroutine of a Subscribe: it reads  *)
(* new messages, then its own delivered and unacknowledged ones, calls the *)
(* handler on each and acknowledges those the handler accepts.             *)
(* The stream, the group's last delivered id and the pending lists are the *)
(* server's (external).  Messages are numbered as they are published.      *)
(***************************************************************************)
EXTENDS Integers, FiniteSets

CONSTANTS Consumers, batchSize, xaddMaxLen,
          MayClose,     \* whether Close is called
          MaxMessages,  \* bound on the messages published
          MaxRefusals,  \* bound on the errors the handler returns
          MaxFaults     \* bound on failed commands, cancelled contexts and crashes

ASSUME MessageQueueAssumption ==
    batchSize \in Nat /\ xaddMaxLen \in Nat /\ MaxMessages \in Nat

VARIABLES
    published, stream, delivered,  \* ids given, ids kept, last id delivered to the group
    pending,       \* each consumer's pending entries
    handled,       \* accepted by the handler
    acked,         \* acknowledged
    pc, pass, batch,   \* each consumer: place, the id it reads from, messages left
    cancelled,     \* consumers whose context is done
    closing,       \* where Close is
    refusals, faults

server == <<published, stream, delivered, pending, acked>>
vars == <<server, handled, pc, pass, batch, cancelled, closing, refusals, faults>>

Init ==
    /\ published = 0 /\ stream = {} /\ delivered = 0
    /\ pending = [c \in Consumers |-> {}] /\ handled = {} /\ acked = {}
    /\ pc = [c \in Consumers |-> "off"]
    /\ pass = [c \in Consumers |-> ">"] /\ batch = [c \in Consumers |-> {}]
    /\ cancelled = {} /\ closing = "open" /\ refusals = 0 /\ faults = 0

Goto(c, p) == pc' = [pc EXCEPT ![c] = p]

\* The first batchSize messages of a set of ids, and the first and last of a batch:
\* Redis returns messages in the order of their ids.
Oldest(S) == {m \in S : Cardinality({k \in S : k < m}) < batchSize}
First(m, S) == m \in S /\ \A k \in S : m <= k
Last(m, S) == m \in S /\ \A k \in S : k <= m

\* Publish: XADD trims the stream to about xaddMaxLen messages, read or not.
Publish ==
    /\ closing \in {"open", "sending"} /\ published < MaxMessages
    /\ published' = published + 1
    /\ \E kept \in {stream, {m \in stream : m > published + 1 - xaddMaxLen}} :
         stream' = kept \cup {published + 1}
    /\ UNCHANGED <<delivered, pending, handled, acked, pc, pass, batch, cancelled, closing,
                   refusals, faults>>

\* Subscribe: the group is there, or is made to start at the first message, and the
\* pool takes the goroutine.
Subscribe(c) ==
    /\ pc[c] = "off" /\ closing \in {"open", "sending"}
    /\ Goto(c, "select")
    /\ UNCHANGED <<server, handled, pass, batch, cancelled, closing, refusals, faults>>

\* Mutant: the select of the loop goes to its default at once.
SelectDeaf(c) ==
    /\ pc[c] = "select"
    /\ \/ c \in cancelled /\ Goto(c, "done") /\ UNCHANGED pass
       \/ c \notin cancelled /\ Goto(c, "read") /\ pass' = [pass EXCEPT ![c] = ">"]
    /\ UNCHANGED <<server, handled, batch, cancelled, closing, refusals, faults>>

\* The select of the loop: the context, or new messages unless Close is waiting.
Select(c) ==
    /\ pc[c] = "select"
    /\ \/ c \in cancelled /\ Goto(c, "done") /\ UNCHANGED pass
       \/ /\ c \notin cancelled /\ closing # "sending"
          /\ Goto(c, "read") /\ pass' = [pass EXCEPT ![c] = ">"]
    /\ UNCHANGED <<server, handled, batch, cancelled, closing, refusals, faults>>

\* Mutant: with NoAck the messages are not put into a pending list.
ReadNewNoAck(c) ==
    LET new == Oldest({m \in stream : m > delivered})
    IN  /\ pc[c] = "read" /\ pass[c] = ">" /\ c \notin cancelled /\ closing # "closed"
        /\ \E m \in new : Last(m, new) /\ delivered' = m
        /\ batch' = [batch EXCEPT ![c] = new]
        /\ Goto(c, "handle")
        /\ UNCHANGED <<published, stream, pending, handled, acked, pass, cancelled, closing, refusals, faults>>

\* consume with ">": XREADGROUP blocks until there are messages after the last
\* delivered one, and puts them into the consumer's pending list.
ReadNew(c) ==
    LET new == Oldest({m \in stream : m > delivered})
    IN  /\ pc[c] = "read" /\ pass[c] = ">" /\ c \notin cancelled /\ closing # "closed"
        /\ \E m \in new : Last(m, new) /\ delivered' = m
        /\ pending' = [pending EXCEPT ![c] = @ \cup new]
        /\ batch' = [batch EXCEPT ![c] = new]
        /\ Goto(c, "handle")
        /\ UNCHANGED <<published, stream, handled, acked, pass, cancelled, closing, refusals, faults>>

\* consume with "0": the consumer's own pending messages, none included.
ReadPending(c) ==
    /\ pc[c] = "read" /\ pass[c] = "0" /\ c \notin cancelled /\ closing # "closed"
    /\ batch' = [batch EXCEPT ![c] = Oldest(pending[c])]
    /\ Goto(c, "handle")
    /\ UNCHANGED <<server, handled, pass, cancelled, closing, refusals, faults>>

\* Whether the next command may fail, at no cost when the context is done or the
\* client is being closed: client.Close also fails the commands on their way.
CommandFails(c) ==
    \/ c \in cancelled /\ UNCHANGED faults
    \/ closing \in {"closing", "closed"} /\ UNCHANGED faults
    \/ faults < MaxFaults /\ faults' = faults + 1

\* XREADGROUP returns an error: the network's, the context's, or the closed client's.
ReadFails(c) ==
    /\ pc[c] = "read" /\ CommandFails(c)
    /\ Goto(c, "select")
    /\ UNCHANGED <<server, handled, pass, batch, cancelled, closing, refusals>>

\* Mutant: an error of the handler does not skip the acknowledgement.
HandleAcksAll(c) ==
    /\ pc[c] = "handle" /\ c \notin cancelled /\ closing # "sending"
    /\ Goto(c, "ack")
    /\ \E m \in batch[c] : First(m, batch[c]) /\ handled' \in {handled, handled \cup {m}}
    /\ UNCHANGED <<server, pass, batch, cancelled, closing, refusals, faults>>

\* The handler is called on the next message: it accepts it or returns an error.
Handle(c) ==
    /\ pc[c] = "handle" /\ c \notin cancelled /\ closing # "sending"
    /\ \E m \in batch[c] :
         /\ First(m, batch[c])
         /\ \/ /\ Goto(c, "ack")
               /\ handled' = handled \cup ({m} \cap stream)
               /\ UNCHANGED <<batch, refusals>>
            \/ /\ refusals < MaxRefusals /\ refusals' = refusals + 1
               /\ batch' = [batch EXCEPT ![c] = @ \ {m}]
               /\ UNCHANGED <<pc, handled>>
    /\ UNCHANGED <<server, pass, cancelled, closing, faults>>

\* XACK, which may fail; either way the next message follows.
Ack(c) ==
    /\ pc[c] = "ack"
    /\ \E m \in batch[c] :
         /\ First(m, batch[c])
         /\ batch' = [batch EXCEPT ![c] = @ \ {m}]
         /\ \/ /\ c \notin cancelled /\ closing # "closed"
               /\ acked' = acked \cup {m}
               /\ pending' = [pending EXCEPT ![c] = @ \ {m}]
               /\ UNCHANGED faults
            \/ CommandFails(c) /\ UNCHANGED <<acked, pending>>
    /\ Goto(c, "handle")
    /\ UNCHANGED <<published, stream, delivered, handled, pass, cancelled, closing, refusals>>

\* Mutant: the pending messages are not read after the new ones.
EndBatchSkipsPending(c) ==
    /\ pc[c] = "handle" /\ batch[c] = {}
    /\ Goto(c, "select")
    /\ UNCHANGED <<server, handled, pass, batch, cancelled, closing, refusals, faults>>

\* consume returns nil, at the end of its messages or, between two of them, because
\* the context is done or Close was waiting: the loop reads the pending ones after
\* the new ones, and goes back to its select after those.
EndBatch(c) ==
    /\ pc[c] = "handle"
    /\ \/ batch[c] = {} /\ UNCHANGED closing
       \/ batch[c] # {} /\ c \in cancelled /\ UNCHANGED closing
       \/ batch[c] # {} /\ closing = "sending" /\ closing' = "closing"
    /\ batch' = [batch EXCEPT ![c] = {}]
    /\ Goto(c, IF pass[c] = ">" THEN "read" ELSE "select")
    /\ pass' = [pass EXCEPT ![c] = IF @ = ">" THEN "0" ELSE ">"]
    /\ UNCHANGED <<server, handled, cancelled, refusals, faults>>

\* Once Close has set the client to nil, a command that was not on its way by then
\* dereferences it.
CommandPanics(c) ==
    /\ pc[c] \in {"read", "ack"} /\ closing = "closed"
    /\ Goto(c, "panic")
    /\ UNCHANGED <<server, handled, pass, batch, cancelled, closing, refusals, faults>>
-----------------------------------------------------------------------------
\* Close offers one signal on closeChan, to whichever goroutine is at a select.
BeginClose ==
    /\ MayClose /\ closing = "open" /\ closing' = "sending"
    /\ UNCHANGED <<server, handled, pc, pass, batch, cancelled, refusals, faults>>

ReceiveClose(c) ==
    /\ pc[c] = "select" /\ closing = "sending" /\ closing' = "closing"
    /\ Goto(c, "done")
    /\ UNCHANGED <<server, handled, pass, batch, cancelled, refusals, faults>>

\* ... closes the client and sets it to nil.
EndClose ==
    /\ closing = "closing" /\ closing' = "closed"
    /\ UNCHANGED <<server, handled, pc, pass, batch, cancelled, refusals, faults>>

\* The subscriber's context is cancelled.
Cancel(c) ==
    /\ c \notin cancelled /\ faults < MaxFaults
    /\ cancelled' = cancelled \cup {c} /\ faults' = faults + 1
    /\ UNCHANGED <<server, handled, pc, pass, batch, closing, refusals>>

\* The consumer's process dies; its name, a uuid, does not come back.
Crash(c) ==
    /\ pc[c] \in {"select", "read", "handle", "ack"} /\ faults < MaxFaults
    /\ Goto(c, "dead") /\ faults' = faults + 1
    /\ batch' = [batch EXCEPT ![c] = {}]
    /\ UNCHANGED <<server, handled, pass, cancelled, closing, refusals>>

Consume(c) ==
    \/ Select(c) \/ ReadNew(c) \/ ReadPending(c) \/ ReadFails(c) \/ Handle(c) \/ Ack(c)
    \/ EndBatch(c) \/ CommandPanics(c) \/ ReceiveClose(c)
Next ==
    \/ Publish \/ BeginClose \/ EndClose
    \/ \E c \in Consumers : Subscribe(c) \/ Consume(c) \/ Cancel(c) \/ Crash(c)

Spec == Init /\ [][Next]_vars

\* A goroutine that can go on goes on, and a subscriber subscribes; nobody has to
\* publish, to close the queue or to fail.
FairSpec ==
    /\ Spec
    /\ \A c \in Consumers : WF_vars(Subscribe(c)) /\ WF_vars(Consume(c) /\ UNCHANGED faults)
-----------------------------------------------------------------------------
\* The type of the variables of RedisMessageQueue and of the stream.
TypeOK ==
    /\ pc \in [Consumers -> {"off", "select", "read", "handle", "ack", "done", "panic", "dead"}]
    /\ pending \in [Consumers -> SUBSET Int] /\ batch \in [Consumers -> SUBSET Int]
    /\ published \in 0 .. MaxMessages /\ delivered \in 0 .. published
    /\ stream \subseteq 1 .. published /\ handled \cup acked \subseteq 1 .. delivered
    /\ \A c \in Consumers : pending[c] \cup batch[c] \subseteq 1 .. delivered
    /\ \A c \in Consumers : pc[c] = "ack" => batch[c] # {}

\* Every message of the group is still to be delivered, pending with one consumer,
\* acknowledged, or was trimmed by MAXLEN: a crash, a failed command, a cancelled
\* context or Close between delivery and XACK loses none.
NoneLost ==
    \A m \in 1 .. published :
        \/ m > delivered \/ m \in acked \/ m \notin stream
        \/ \E c \in Consumers : m \in pending[c]

\* A message is acknowledged only after the handler has accepted it (or it was
\* trimmed away), and no two consumers have it pending.
AckedWereHandled ==
    /\ \A m \in acked : m \in handled \/ m \notin stream
    /\ \A c, d \in Consumers : c # d => pending[c] \cap pending[d] = {}

\* The inductive invariant behind the two: between the handler's nil and the XACK, the
\* message at hand is one the handler has accepted, or that was trimmed.
QueueInv ==
    /\ TypeOK /\ NoneLost /\ AckedWereHandled
    /\ \A c \in Consumers : pc[c] = "ack" =>
         \A m \in batch[c] : First(m, batch[c]) => m \in handled \/ m \notin stream

\* "保证消息至少被成功消费1次" (message_queue.go:83): every message is accepted by the
\* handler at least once, when the handler refuses only a bounded number of times,
\* unless it is trimmed away, a command or a consumer fails, or the queue is closed.
AtLeastOnce ==
    \A m \in 1 .. MaxMessages :
        m <= published ~> \/ m \in handled \/ m \notin stream
                          \/ faults > 0 \/ closing # "open"

\* A goroutine that is at a select when Close offers its signal, in the loop or before
\* the next message, takes it, unless another one does or its context or process ends:
\* Close returns.  It blocks while every goroutine waits in XREADGROUP or has ended.
CloseHeard ==
    \A c \in Consumers :
        closing = "sending" /\ (pc[c] = "select" \/ (pc[c] = "handle" /\ batch[c] # {}))
            ~> closing # "sending" \/ c \in cancelled \/ pc[c] = "dead"
=============================================================================
