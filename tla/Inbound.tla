------------------------------ MODULE Inbound ------------------------------
(***************************************************************************)
(* The way in: clients send packets, the hub's readers hand them over in   *)
(* pooled buffers, and the application decodes them with DecodeReq.        *)
(* LineReader and Packet composed; both sides use the same protocol.       *)
(***************************************************************************)
EXTENDS LineReader

CONSTANTS Error, Panic, Garbage, SignatureLen, NonceSize, BodyLen,   \* of Packet
          Messages,    \* what clients encode: msgType, requestId, timestamp, payload
          ShortFrames  \* frames that no EncodeResp produces

INSTANCE Packet

EncodeFor(p, m) == EncodeResp(p, m.msgType, m.requestId, m.timestamp, 0, m.payload)

\* What a receiver can expect of EncodeResp: the type, the low four bits of each byte of
\* the request id, and the payload if there is a cryptor.
ExpectedFor(p, m) ==
    [meta |-> [msgType   |-> <<"byte", m.msgType[4]>>,
               requestId |-> Bytes(Low4(m.requestId)),
               timestamp |-> Bytes(Low4(m.requestId))],
     payload |-> IF p.cryptor THEN m.payload ELSE None]

\* What the composition takes for granted: lengths are positive, a payload marshals to
\* bytes and not to an error, an outcome is no value of another kind, and a frame that
\* no EncodeResp produced holds no byte of a signature.
ASSUME InboundAssumption ==
    /\ SignatureLen \in Nat \ {0} /\ NonceSize \in Nat /\ BodyLen \in Nat \ {0}
    /\ MaxBuffers \in Nat
    /\ Error # Panic
    /\ \A m \in Messages :
         /\ m.payload # Error /\ Marshal(m.payload) \notin {Error, Panic}
         /\ \A p \in Protocols : ExpectedFor(p, m) # Panic
    /\ \A f \in ShortFrames :
         /\ f \in Seq({f[i] : i \in DOMAIN f})
         /\ \A i \in DOMAIN f : f[i][1] # "sign"

VARIABLE protocol      \* which of signer and cryptor are set, on both sides

Encode(m) == EncodeFor(protocol, m)

InboundInit == Init /\ protocol \in Protocols
InboundNext ==
    /\ \/ Step
       \/ \E l \in Lines : \/ \E m \in Messages : ReadFrame(l, Encode(m))
                           \/ \E f \in ShortFrames : ReadFrame(l, f)
    /\ UNCHANGED protocol
InboundSpec == InboundInit /\ [][InboundNext]_<<vars, protocol>>
-----------------------------------------------------------------------------
\* The frames that clients send, and the bytes in them.
Sent == {Encode(m) : m \in Messages} \cup ShortFrames
Byte == UNION {{f[i] : i \in DOMAIN f} : f \in Sent}

Message == [line : Lines, buffer : 1 .. MaxBuffers, sent : Sent]

InboundTypeOK ==
    /\ protocol \in Protocols
    /\ reader \in [Lines -> {"read", "send", "return", "returned"}]
    /\ deferred \in [Lines -> Seq([buffer : 1 .. MaxBuffers, sent : Sent])]
    /\ bytes \in Seq(Seq(Byte)) /\ frames \in Seq(Sent)
    /\ messageChan \in Seq(Message) /\ hand \in Message \cup {None}

\* The buffer of b holds the frame it was filled with, from its start on.
Holds(b) ==
    /\ Len(b.sent) <= Len(bytes[b.buffer])
    /\ \A n \in 1 .. Len(b.sent) : bytes[b.buffer][n] = b.sent[n]

\* What makes the properties below inductive: only buffers that were made are deferred
\* or in the pool; the buffers of an open line hold what was read into them; a reader
\* that sends has read; a message in flight has its buffer, which its reader keeps while
\* the line is open; and a byte of any array came, at the same place, in some frame.
Made ==
    /\ pool \subseteq DOMAIN bytes
    /\ \A l \in Lines : \A i \in DOMAIN deferred[l] : deferred[l][i].buffer \in DOMAIN bytes
Filled ==
    \A l \in Lines : Open(l) => \A i \in DOMAIN deferred[l] : Holds(deferred[l][i])
Sending == \A l \in Lines : reader[l] = "send" => deferred[l] # <<>>
Backed ==
    \A d \in InFlight :
        /\ d.buffer \in DOMAIN bytes /\ Len(d.sent) <= Len(bytes[d.buffer])
        /\ Open(d.line) => \E i \in DOMAIN deferred[d.line] :
             deferred[d.line][i] = [buffer |-> d.buffer, sent |-> d.sent]
FromFrames ==
    \A b \in DOMAIN bytes : \A n \in DOMAIN bytes[b] :
        \E k \in DOMAIN frames : n \in DOMAIN frames[k] /\ bytes[b][n] = frames[k][n]
InboundInv ==
    InboundTypeOK /\ OneOwner /\ Made /\ Filled /\ Sending /\ Backed /\ FromFrames
-----------------------------------------------------------------------------
Decoded(m) == DecodeReq(protocol, Data(m))

Expected(m) == ExpectedFor(protocol, m)

\* What a client encodes is what the application decodes while the line is open, with
\* and without a signer and a cryptor, with and without a payload.
OpenLineDecodes ==
    \A m \in Messages : \A d \in InFlight :
        d.sent = Encode(m) /\ Open(d.line) => Decoded(d) = Expected(m)

\* With a signer, whatever DecodeReq accepts is a whole packet that some client sent:
\* a buffer that another reader has written over, in full or in part, is refused or
\* holds the other reader's packet, and decoding never panics.
SignedWasSent ==
    \A d \in InFlight :
        protocol.signer =>
            /\ Decoded(d) # Panic
            /\ Decoded(d) # Error => \E i \in DOMAIN frames : Data(d) = frames[i]

\* "Timestamp int32 // 4字节，从2025-01-01 00:00:00开始的秒数" (bytes_packet.go:11): the
\* decoded timestamp is the sender's.
TimestampArrives ==
    \A d \in InFlight : \A m \in Messages :
        d.sent = Encode(m) /\ Open(d.line) =>
            Decoded(d).meta.timestamp = Bytes(Low4(m.timestamp))
=============================================================================
