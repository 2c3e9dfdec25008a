------------------------------- MODULE Packet -------------------------------
(***************************************************************************)
(* bytes_packet.go: the layout of a packet.                                *)
(*                                                                         *)
(*   msgType, requestId (4 bytes), timestamp (4 bytes), body, signature    *)
(*                                                                         *)
(* An int32 is the sequence of its four bytes, the highest first.  A       *)
(* packet is a sequence of tagged bytes.  Marshaler, cryptor (crypto.go)   *)
(* and signer (signer.go) are ideal: what they produce carries what it was *)
(* made from, and nothing else verifies or decrypts.                       *)
(***************************************************************************)
EXTENDS Integers, Sequences

CONSTANTS None, Error, Panic, Garbage,
          SignatureLen,   \* Signer.SignatureLen(): 32 or 64
          NonceSize,      \* the bytes Encrypt puts before the cipher text
          BodyLen         \* the length of a marshalled payload

metaLength == 9

\* A PacketProtocol: either part may be nil.
Protocols == [signer : BOOLEAN, cryptor : BOOLEAN]

Bytes(ns) == [i \in DOMAIN ns |-> <<"byte", ns[i]>>]
Marshal(payload) == [i \in 1 .. BodyLen |-> <<"body", payload, i>>]
Encrypt(body) == [i \in 1 .. NonceSize + Len(body) |-> <<"cipher", body, i>>]
Sign(data) == [i \in 1 .. SignatureLen |-> <<"sign", data, i>>]
Verify(data, signature) == signature = Sign(data)

\* Bytes that no Marshal has produced may still unmarshal, to something nobody sent.
Unmarshal(body) ==
    IF body = <<>> THEN Error
    ELSE IF body = Marshal(body[1][2]) THEN body[1][2] ELSE Garbage

\* Decrypt slices off the nonce without looking at the length.
Decrypt(body) ==
    IF Len(body) < NonceSize THEN Panic
    ELSE IF body[1][1] = "cipher" /\ body = Encrypt(body[1][2]) THEN body[1][2] ELSE Error

Low4(int32) == [i \in 1 .. 4 |-> int32[i] % 16]

\* Mutant: the cryptor is called for an empty body too.
EncodeRespEncryptsNil(p, msgType, requestId, timestamp, code, payload) ==
    LET meta == Bytes(<<msgType[4]>> \o Low4(requestId) \o Low4(timestamp))
        body == IF payload = None THEN <<>> ELSE Marshal(payload)
        out == meta \o (IF p.cryptor THEN Encrypt(body) ELSE <<>>)
    IN  IF p.signer THEN out \o Sign(out) ELSE out

\* EncodeResp.  Of each byte of the request id and of the timestamp only the low four
\* bits are written, code is not written, and the body only when it is encrypted.
EncodeResp(p, msgType, requestId, timestamp, code, payload) ==
    LET meta == Bytes(<<msgType[4]>> \o Low4(requestId) \o Low4(timestamp))
        body == IF payload = None THEN <<>> ELSE Marshal(payload)
        out == meta \o (IF body # <<>> /\ p.cryptor THEN Encrypt(body) ELSE <<>>)
    IN  IF p.signer THEN out \o Sign(out) ELSE out

\* GetMeta: the timestamp is read from the bytes of the request id.
GetMeta(data) ==
    IF Len(data) < metaLength THEN Error
    ELSE [msgType   |-> data[1],
          requestId |-> SubSeq(data, 2, 5),
          timestamp |-> SubSeq(data, 2, 5)]

\* What follows the check of the signature.
DecodeBody(p, meta, body) ==
    LET plain == IF p.cryptor THEN Decrypt(body) ELSE body
    IN  IF body = <<>> THEN [meta |-> meta, payload |-> None]
        ELSE IF plain \in {Error, Panic} THEN plain
        ELSE IF Unmarshal(plain) = Error THEN Error
        ELSE [meta |-> meta, payload |-> Unmarshal(plain)]

\* Mutant: the signature is cut off and not verified.
DecodeReqUnverified(p, data) ==
    LET signStart == IF p.signer THEN Len(data) - SignatureLen ELSE Len(data)
    IN  IF Len(data) < metaLength \/ signStart < metaLength THEN Error
        ELSE DecodeBody(p, GetMeta(data), SubSeq(data, metaLength + 1, signStart))

DecodeReq(p, data) ==
    LET signStart == IF p.signer THEN Len(data) - SignatureLen ELSE Len(data)
    IN  IF \/ Len(data) < metaLength \/ signStart < metaLength
           \/ p.signer /\ ~ Verify(SubSeq(data, 1, signStart),
                                   SubSeq(data, signStart + 1, Len(data)))
        THEN Error
        ELSE DecodeBody(p, GetMeta(data), SubSeq(data, metaLength + 1, signStart))
=============================================================================
