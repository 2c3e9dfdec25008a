----------------------------- MODULE LineReader -----------------------------
(***************************************************************************)
(* The readers of hub.go (Line.start) and the ByteBufferPool of pool.go    *)
(* they take their buffers from.  A reader copies each frame into a buffer *)
(* of the pool, sends a slice of that buffer on messageChan, and gives all *)
(* its buffers back when it returns: the Put is deferred inside the loop.  *)
(* The application receives a message and looks at its bytes later.        *)
(* sync.Pool is external: Get returns any buffer that was put, or a new    *)
(* one, and the garbage collector may empty the pool.                      *)
(***************************************************************************)
EXTENDS Integers, Sequences

CONSTANTS Lines, None,
          Frames,       \* what clients send, as sequences of bytes
          MessageCap,   \* capacity of Hub.messageChan (4096)
          MaxBuffers,   \* bound on the buffers that are made
          MaxFrames     \* bound on the frames that are read

VARIABLES reader,       \* each line's reader: "read", "send", "return" or "returned"
          deferred,     \* its buffers, in the order in which Put was deferred, each
                        \* with the frame that was read into it
          pool,         \* the buffers in sync.Pool
          bytes,        \* buffer -> the bytes of its array; the buffers made so far
          messageChan,  \* messages: line, buffer and the frame that was sent
          hand,         \* the message the application is working on
          frames        \* the frames that were read, by anybody

vars == <<reader, deferred, pool, bytes, messageChan, hand, frames>>

Init ==
    /\ reader = [l \in Lines |-> "read"] /\ deferred = [l \in Lines |-> <<>>]
    /\ pool = {} /\ bytes = <<>>
    /\ messageChan = <<>> /\ hand = None /\ frames = <<>>

\* The array after f was copied to its start.
Overwrite(array, f) == f \o SubSeq(array, Len(f) + 1, Len(array))

\* Get resets the length of a buffer and leaves its array; io.Copy writes over it.
CopyInto(b, f) ==
    \/ /\ b \in pool /\ pool' = pool \ {b}
       /\ bytes' = [bytes EXCEPT ![b] = Overwrite(@, f)]
    \/ /\ b = Len(bytes) + 1 /\ b <= MaxBuffers
       /\ bytes' = Append(bytes, f) /\ UNCHANGED pool

\* NextReader returns a binary frame.  io.Copy gets all of it, or part of it and an
\* error.
ReadFrame(l, f) ==
    /\ reader[l] = "read" /\ Len(frames) < MaxFrames
    /\ frames' = Append(frames, f)
    /\ \E b \in 1 .. MaxBuffers :
         /\ deferred' = [deferred EXCEPT ![l] = Append(@, [buffer |-> b, sent |-> f])]
         /\ \/ CopyInto(b, f) /\ reader' = [reader EXCEPT ![l] = "send"]
            \/ /\ CopyInto(b, SubSeq(f, 1, Len(f) \div 2))
               /\ reader' = [reader EXCEPT ![l] = "return"]
    /\ UNCHANGED <<messageChan, hand>>

\* A deadline, an error, a close frame or a text frame ends the loop.
ReadEnds(l) ==
    /\ reader[l] = "read" /\ reader' = [reader EXCEPT ![l] = "return"]
    /\ UNCHANGED <<deferred, pool, bytes, messageChan, hand, frames>>

LastOf(l) == deferred[l][Len(deferred[l])]
MessageOf(l) == [line |-> l, buffer |-> LastOf(l).buffer, sent |-> LastOf(l).sent]

\* Mutant: the buffer is put back once its message is in the channel.
SendMessagePuts(l) ==
    /\ reader[l] = "send" /\ Len(messageChan) < MessageCap
    /\ messageChan' = Append(messageChan, MessageOf(l))
    /\ pool' = pool \cup {LastOf(l).buffer}
    /\ deferred' = [deferred EXCEPT ![l] = SubSeq(@, 1, Len(@) - 1)]
    /\ reader' = [reader EXCEPT ![l] = "read"]
    /\ UNCHANGED <<bytes, hand, frames>>

\* messageChan <- a message with buf.Bytes(), a slice of the buffer's array.
SendMessage(l) ==
    /\ reader[l] = "send" /\ Len(messageChan) < MessageCap
    /\ messageChan' = Append(messageChan, MessageOf(l))
    /\ reader' = [reader EXCEPT ![l] = "read"]
    /\ UNCHANGED <<deferred, pool, bytes, hand, frames>>

\* Mutant: the deferred Puts are for the buffer of the last iteration, all of them.
PutSame(l) ==
    /\ reader[l] = "return" /\ deferred[l] # <<>>
    /\ pool' = pool \cup {LastOf(l).buffer}
    /\ deferred' = [deferred EXCEPT ![l] = Tail(@)]
    /\ UNCHANGED <<reader, bytes, messageChan, hand, frames>>

\* The reader returns: the deferred Puts run, the last one first.
Put(l) ==
    /\ reader[l] = "return" /\ deferred[l] # <<>>
    /\ pool' = pool \cup {LastOf(l).buffer}
    /\ deferred' = [deferred EXCEPT ![l] = SubSeq(@, 1, Len(@) - 1)]
    /\ UNCHANGED <<reader, bytes, messageChan, hand, frames>>
Returned(l) ==
    /\ reader[l] = "return" /\ deferred[l] = <<>>
    /\ reader' = [reader EXCEPT ![l] = "returned"]
    /\ UNCHANGED <<deferred, pool, bytes, messageChan, hand, frames>>

\* The application receives a message, and is done with it.
Receive ==
    /\ hand = None /\ messageChan # <<>>
    /\ hand' = Head(messageChan) /\ messageChan' = Tail(messageChan)
    /\ UNCHANGED <<reader, deferred, pool, bytes, frames>>
Done ==
    /\ hand # None /\ hand' = None
    /\ UNCHANGED <<reader, deferred, pool, bytes, messageChan, frames>>

\* The garbage collector takes a buffer out of the pool.
PoolDrops(b) ==
    /\ b \in pool /\ pool' = pool \ {b}
    /\ UNCHANGED <<reader, deferred, bytes, messageChan, hand, frames>>

Step ==
    \/ \E l \in Lines : ReadEnds(l) \/ SendMessage(l) \/ Put(l) \/ Returned(l)
    \/ Receive \/ Done \/ \E b \in pool : PoolDrops(b)
Next == Step \/ \E l \in Lines, f \in Frames : ReadFrame(l, f)
Spec == Init /\ [][Next]_vars
-----------------------------------------------------------------------------
InFlight == {messageChan[i] : i \in DOMAIN messageChan} \cup ({hand} \ {None})

\* What the application finds in a message: its slice has the length of the frame.
Data(m) == SubSeq(bytes[m.buffer], 1, Len(m.sent))

Open(l) == reader[l] \in {"read", "send"}

\* A buffer has one owner: it is in the pool, or deferred once, by one reader, or the
\* garbage collector has it; so no two readers ever copy into the same array.
OneOwner ==
    \A l \in Lines : \A i \in DOMAIN deferred[l] :
        /\ deferred[l][i].buffer \notin pool
        /\ \A k \in Lines : \A j \in DOMAIN deferred[k] :
             deferred[l][i].buffer = deferred[k][j].buffer => l = k /\ i = j

\* As long as its line's reader runs, a message in the channel or with the application
\* holds the bytes the client sent.  (Once the reader has returned, its buffers are
\* reused by others, and a message that is still unread changes under its receiver.)
OpenLineIntact == \A m \in InFlight : Open(m.line) => Data(m) = m.sent
=============================================================================
