--------------------------- MODULE RequestProofs ----------------------------
(***************************************************************************)
(* What comes in, over lines and over http.                                *)
(*                                                                         *)
(* First Inbound: the readers' buffers (hub.go, pool.go) and the packets   *)
(* in them (bytes_packet.go).  Then the rate limiter: for any number of    *)
(* ips, requests and middlewares, LimiterInv is inductive, and it implies  *)
(* WithinBuckets.                                                          *)
(***************************************************************************)
EXTENDS Inbound, RateLimiter, Functions, DataLemmas

\* Of two parts put together, as EncodeResp does, each can be cut out again.
LEMMA TwoParts ==
    ASSUME NEW B, NEW s \in Seq(B), NEW t \in Seq(B)
    PROVE  /\ Len(s \o t) = Len(s) + Len(t)
           /\ SubSeq(s \o t, 1, Len(s)) = s
           /\ SubSeq(s \o t, Len(s) + 1, Len(s \o t)) = t
  OBVIOUS

\* The whole of a sequence, cut out, is the sequence.
LEMMA WholePart ==
    ASSUME NEW B, NEW s \in Seq(B)
    PROVE  SubSeq(s, 1, Len(s)) = s
  OBVIOUS

\* Where the bytes of two parts are in the whole.
LEMMA JoinedAt ==
    ASSUME NEW B, NEW s \in Seq(B), NEW t \in Seq(B)
    PROVE  /\ s \o t \in Seq(B) /\ Len(s \o t) = Len(s) + Len(t)
           /\ \A i \in 1 .. Len(s) + Len(t) :
                (s \o t)[i] = IF i <= Len(s) THEN s[i] ELSE t[i - Len(s)]
  OBVIOUS

\* A sequence of bytes is one over any wider set of them.
LEMMA WiderBytes ==
    ASSUME NEW B, NEW C, B \subseteq C, NEW s \in Seq(B)
    PROVE  s \in Seq(C)
  OBVIOUS

\* Sequences with the same bytes in the same places are equal.
LEMMA SameBytes ==
    ASSUME NEW B, NEW s \in Seq(B), NEW t \in Seq(B), Len(s) = Len(t),
           \A i \in 1 .. Len(s) : s[i] = t[i]
    PROVE  s = t
  OBVIOUS

\* A sequence cut in two, as DecodeReq cuts a packet, is put together again.
LEMMA SplitAt ==
    ASSUME NEW B, NEW s \in Seq(B), NEW n \in 0 .. Len(s)
    PROVE  s = SubSeq(s, 1, n) \o SubSeq(s, n + 1, Len(s))
  <1> DEFINE u == SubSeq(s, 1, n)
             v == SubSeq(s, n + 1, Len(s))
  <1>1. u \in Seq(B) /\ Len(u) = n /\ \A i \in 1 .. n : u[i] = s[i]
    OBVIOUS
  <1>2. v \in Seq(B) /\ Len(v) = Len(s) - n /\ \A i \in 1 .. Len(s) - n : v[i] = s[n + i]
    OBVIOUS
  <1> HIDE DEF u, v
  <1>3. /\ u \o v \in Seq(B) /\ Len(u \o v) = Len(u) + Len(v)
        /\ \A i \in 1 .. Len(u) + Len(v) :
             (u \o v)[i] = IF i <= Len(u) THEN u[i] ELSE v[i - Len(u)]
    BY <1>1, <1>2, JoinedAt
  <1>4. Len(u \o v) = Len(s) /\ Len(s) \in Nat /\ n \in Nat
    BY <1>1, <1>2, <1>3
  <1>5. ASSUME NEW i \in 1 .. Len(u \o v) PROVE (u \o v)[i] = s[i]
    <2>1. i \in 1 .. Len(s) /\ (u \o v)[i] = IF i <= n THEN u[i] ELSE v[i - n]
      BY <1>1, <1>2, <1>3, <1>4
    <2>2. CASE i <= n
      BY <1>1, <1>4, <2>1, <2>2
    <2>3. CASE ~ (i <= n)
      <3>1. i - n \in 1 .. Len(s) - n /\ n + (i - n) = i
        BY <1>4, <2>1, <2>3
      <3> QED BY <1>2, <2>1, <2>3, <3>1
    <2> QED BY <2>2, <2>3
  <1>6. s = u \o v
    BY <1>3, <1>4, <1>5, SameBytes
  <1> QED BY <1>6 DEF u, v

-----------------------------------------------------------------------------
(* The parts of a packet that EncodeResp writes.                           *)

Meta(m) == Bytes(<<m.msgType[4]>> \o Low4(m.requestId) \o Low4(m.timestamp))
Cipher(p, m) ==
    IF m.payload # None /\ p.cryptor THEN Encrypt(Marshal(m.payload)) ELSE <<>>
Unsigned(p, m) == Meta(m) \o Cipher(p, m)

ByteSet(p, m) == Range(Meta(m)) \cup Range(Cipher(p, m)) \cup Range(Sign(Unsigned(p, m)))

\* EncodeResp writes nine bytes of meta data, the encrypted body if there is a body and
\* a cryptor, and the signature of both if there is a signer.
LEMMA EncodeParts ==
    ASSUME NEW p, NEW m
    PROVE  EncodeFor(p, m) = IF p.signer THEN Unsigned(p, m) \o Sign(Unsigned(p, m))
                                         ELSE Unsigned(p, m)
  <1>1. Marshal(m.payload) # <<>>
    BY InboundAssumption DEF Marshal
  <1>2. CASE m.payload = None
    BY <1>2 DEF EncodeFor, EncodeResp, Unsigned, Meta, Cipher
  <1>3. CASE m.payload # None
    BY <1>1, <1>3 DEF EncodeFor, EncodeResp, Unsigned, Meta, Cipher
  <1> QED BY <1>2, <1>3

\* The bytes that EncodeResp makes of the meta fields.
LEMMA MetaBytes ==
    ASSUME NEW m
    PROVE  /\ Meta(m) \in Seq(Range(Meta(m))) /\ Len(Meta(m)) = metaLength
           /\ Meta(m)[1] = <<"byte", m.msgType[4]>>
           /\ SubSeq(Meta(m), 2, 5) = Bytes(Low4(m.requestId))
           /\ \A i \in 1 .. metaLength : Meta(m)[i][1] = "byte"
  BY DEF Meta, Bytes, Low4, metaLength, Range

\* The bytes of the payload, of which there are none without a cryptor.
LEMMA CipherBytes ==
    ASSUME NEW p, NEW m
    PROVE  /\ Cipher(p, m) \in Seq(Range(Cipher(p, m)))
           /\ \A i \in 1 .. Len(Cipher(p, m)) : Cipher(p, m)[i][1] = "cipher"
           /\ m.payload # None /\ p.cryptor =>
                Len(Cipher(p, m)) = NonceSize + BodyLen /\ Cipher(p, m) # <<>>
  <1>1. /\ Len(Marshal(m.payload)) = BodyLen
    BY InboundAssumption DEF Marshal
  <1>2. CASE m.payload # None /\ p.cryptor
    BY <1>1, <1>2, InboundAssumption DEF Cipher, Encrypt, Range
  <1>3. CASE ~ (m.payload # None /\ p.cryptor)
    BY <1>3 DEF Cipher, Range
  <1> QED BY <1>2, <1>3

\* The bytes of a signature.
LEMMA SignBytes ==
    ASSUME NEW d
    PROVE  /\ Sign(d) \in Seq(Range(Sign(d))) /\ Len(Sign(d)) = SignatureLen
           /\ \A i \in 1 .. SignatureLen : Sign(d)[i] = <<"sign", d, i>>
  BY InboundAssumption DEF Sign, Range

\* The parts and the whole are sequences over one set of bytes.
LEMMA PacketBytes ==
    ASSUME NEW p, NEW m
    PROVE  /\ Meta(m) \in Seq(ByteSet(p, m))
           /\ Cipher(p, m) \in Seq(ByteSet(p, m))
           /\ Unsigned(p, m) \in Seq(ByteSet(p, m))
           /\ Sign(Unsigned(p, m)) \in Seq(ByteSet(p, m))
           /\ EncodeFor(p, m) \in Seq(ByteSet(p, m))
           /\ Len(Unsigned(p, m)) = metaLength + Len(Cipher(p, m))
  <1>1. Meta(m) \in Seq(ByteSet(p, m))
    BY MetaBytes, WiderBytes DEF ByteSet
  <1>2. Cipher(p, m) \in Seq(ByteSet(p, m))
    BY CipherBytes, WiderBytes DEF ByteSet
  <1>3. Sign(Unsigned(p, m)) \in Seq(ByteSet(p, m))
    BY SignBytes, WiderBytes DEF ByteSet
  <1>4. /\ Unsigned(p, m) \in Seq(ByteSet(p, m))
        /\ Len(Unsigned(p, m)) = metaLength + Len(Cipher(p, m))
    BY <1>1, <1>2, MetaBytes DEF Unsigned
  <1>5. Unsigned(p, m) \o Sign(Unsigned(p, m)) \in Seq(ByteSet(p, m))
    BY <1>3, <1>4
  <1>6. EncodeFor(p, m) \in Seq(ByteSet(p, m))
    BY <1>4, <1>5, EncodeParts, Zenon
  <1> QED BY <1>1, <1>2, <1>3, <1>4, <1>6

\* Where DecodeReq looks for the parts of a packet it finds them.
LEMMA PacketLayout ==
    ASSUME NEW p, NEW m
    PROVE  LET d == EncodeFor(p, m)
               n == Len(Unsigned(p, m))
           IN  /\ n \in Nat /\ n >= metaLength
               /\ Len(d) = IF p.signer THEN n + SignatureLen ELSE n
               /\ SubSeq(d, 1, n) = Unsigned(p, m)
               /\ p.signer => SubSeq(d, n + 1, Len(d)) = Sign(Unsigned(p, m))
               /\ SubSeq(d, metaLength + 1, n) = Cipher(p, m)
               /\ d[1] = <<"byte", m.msgType[4]>>
               /\ SubSeq(d, 2, 5) = Bytes(Low4(m.requestId))
  <1> DEFINE B == ByteSet(p, m)
             U == Unsigned(p, m)
             S == Sign(U)
             C == Cipher(p, m)
             M == Meta(m)
             d == EncodeFor(p, m)
  <1>1. /\ M \in Seq(B) /\ C \in Seq(B) /\ U \in Seq(B) /\ S \in Seq(B)
        /\ Len(U) = metaLength + Len(C) /\ U = M \o C
        /\ Len(M) = metaLength /\ Len(S) = SignatureLen
        /\ M[1] = <<"byte", m.msgType[4]>>
        /\ SubSeq(M, 2, 5) = Bytes(Low4(m.requestId))
    BY PacketBytes, MetaBytes, SignBytes DEF Unsigned
  <1>e. d = IF p.signer THEN U \o S ELSE U
    BY EncodeParts, Zenon
  <1> HIDE DEF B, U, S, C, M, d
  <1>2. /\ SubSeq(U, metaLength + 1, Len(U)) = C
        /\ U[1] = M[1] /\ SubSeq(U, 2, 5) = SubSeq(M, 2, 5)
        /\ Len(U) \in Nat /\ Len(U) >= metaLength
    BY <1>1 DEF metaLength
  <1>3. CASE p.signer
    <2>1. d = U \o S
      BY <1>e, <1>3, Zenon
    <2>2. /\ Len(d) = Len(U) + SignatureLen
          /\ SubSeq(d, 1, Len(U)) = U /\ SubSeq(d, Len(U) + 1, Len(d)) = S
      <3>0. U \in Seq(B) /\ S \in Seq(B)
        BY <1>1
      <3>1. /\ Len(U \o S) = Len(U) + Len(S) /\ SubSeq(U \o S, 1, Len(U)) = U
            /\ SubSeq(U \o S, Len(U) + 1, Len(U \o S)) = S
        BY <3>0, TwoParts
      <3>2. Len(S) = SignatureLen
        BY <1>1
      <3> QED BY <2>1, <3>1, <3>2, Zenon
    <2>3. d[1] = U[1] /\ SubSeq(d, 2, 5) = SubSeq(U, 2, 5)
      BY <1>1, <2>1 DEF metaLength
    <2>4. SubSeq(d, metaLength + 1, Len(U)) = SubSeq(U, metaLength + 1, Len(U))
      BY <1>1, <2>1 DEF metaLength
    <2>5. Len(d) = IF p.signer THEN Len(U) + SignatureLen ELSE Len(U)
      BY <1>3, <2>2, Zenon
    <2> QED BY <1>1, <1>2, <1>3, <2>2, <2>3, <2>4, <2>5, Zenon DEF d, U, S, C
  <1>4. CASE ~ p.signer
    <2>1. d = U
      BY <1>e, <1>4, Zenon
    <2>2. SubSeq(U, 1, Len(U)) = U
      BY <1>1, WholePart, Zenon
    <2>3. Len(d) = IF p.signer THEN Len(U) + SignatureLen ELSE Len(U)
      BY <1>4, <2>1, Zenon
    <2> QED BY <1>1, <1>2, <1>4, <2>1, <2>2, <2>3, Zenon DEF d, U, C
  <1> QED BY <1>3, <1>4

\* What is encrypted and then decrypted, marshalled and then unmarshalled, is the same.
LEMMA CipherDecrypts ==
    ASSUME NEW p, NEW m \in Messages, m.payload # None, p.cryptor
    PROVE  /\ Decrypt(Cipher(p, m)) = Marshal(m.payload)
           /\ Unmarshal(Marshal(m.payload)) = m.payload
  <1>1. /\ Len(Marshal(m.payload)) = BodyLen /\ Marshal(m.payload) # <<>>
        /\ Marshal(m.payload)[1] = <<"body", m.payload, 1>>
    <2>1. BodyLen \in Nat \ {0}
      BY InboundAssumption, Zenon
    <2>2. Len(Marshal(m.payload)) = BodyLen
      BY <2>1 DEF Marshal
    <2>3. 1 \in 1 .. BodyLen /\ BodyLen # 0
      BY <2>1
    <2>4. Marshal(m.payload)[1] = <<"body", m.payload, 1>>
      BY <2>3, Zenon DEF Marshal
    <2> QED BY <2>2, <2>3, <2>4
  <1>2. Marshal(m.payload)[1][2] = m.payload
    BY <1>1
  <1>3. Unmarshal(Marshal(m.payload)) = m.payload
    BY <1>1, <1>2 DEF Unmarshal
  <1>4. /\ Cipher(p, m) = Encrypt(Marshal(m.payload))
        /\ Len(Cipher(p, m)) >= NonceSize
        /\ Cipher(p, m)[1] = <<"cipher", Marshal(m.payload), 1>>
    BY <1>1, InboundAssumption DEF Cipher, Encrypt
  <1>5. Cipher(p, m)[1][1] = "cipher" /\ Cipher(p, m)[1][2] = Marshal(m.payload)
    BY <1>4
  <1>6. ~ (Len(Cipher(p, m)) < NonceSize)
    BY <1>4, <1>1, CipherBytes, InboundAssumption
  <1>7. Decrypt(Cipher(p, m)) = Marshal(m.payload)
    BY <1>4, <1>5, <1>6 DEF Decrypt
  <1> QED BY <1>3, <1>7

\* DecodeReq undoes EncodeResp, up to the bits that EncodeResp does not write.
LEMMA DecodeEncoded ==
    ASSUME NEW p \in Protocols, NEW m \in Messages
    PROVE  DecodeReq(p, EncodeFor(p, m)) = ExpectedFor(p, m)
  <1> DEFINE d == EncodeFor(p, m)
             n == Len(Unsigned(p, m))
             C == Cipher(p, m)
             meta == ExpectedFor(p, m).meta
  <1>1. /\ n \in Nat /\ n >= metaLength
        /\ Len(d) = IF p.signer THEN n + SignatureLen ELSE n
        /\ SubSeq(d, 1, n) = Unsigned(p, m)
        /\ p.signer => SubSeq(d, n + 1, Len(d)) = Sign(Unsigned(p, m))
        /\ SubSeq(d, metaLength + 1, n) = C
        /\ d[1] = <<"byte", m.msgType[4]>>
        /\ SubSeq(d, 2, 5) = Bytes(Low4(m.requestId))
    BY PacketLayout
  <1> HIDE DEF d, n, C
  <1>2. GetMeta(d) = meta
    <2>1. ~ (Len(d) < metaLength)
      BY <1>1, InboundAssumption DEF metaLength
    <2>2. meta = [msgType   |-> <<"byte", m.msgType[4]>>,
                  requestId |-> Bytes(Low4(m.requestId)),
                  timestamp |-> Bytes(Low4(m.requestId))]
      BY DEF ExpectedFor
    <2> HIDE DEF meta
    <2> QED BY <1>1, <2>1, <2>2, Zenon DEF GetMeta
  <1>3. DecodeReq(p, d) = DecodeBody(p, meta, C)
    <2>1. (IF p.signer THEN Len(d) - SignatureLen ELSE Len(d)) = n
      BY <1>1, InboundAssumption
    <2>2. ~ (Len(d) < metaLength) /\ ~ (n < metaLength)
      BY <1>1, InboundAssumption DEF metaLength
    <2>3. p.signer => Verify(SubSeq(d, 1, n), SubSeq(d, n + 1, Len(d)))
      BY <1>1 DEF Verify
    <2> HIDE DEF meta
    <2> QED BY <1>1, <1>2, <2>1, <2>2, <2>3 DEF DecodeReq
  <1>4. DecodeBody(p, meta, C) = [meta |-> meta, payload |-> IF p.cryptor THEN m.payload ELSE None]
    <2>1. CASE m.payload # None /\ p.cryptor
      <3>1. C # <<>> /\ Decrypt(C) = Marshal(m.payload)
            /\ Unmarshal(Marshal(m.payload)) = m.payload
        BY <2>1, CipherBytes, CipherDecrypts DEF C
      <3>2. Marshal(m.payload) \notin {Error, Panic} /\ m.payload # Error
        BY InboundAssumption
      <3> HIDE DEF meta
      <3> QED BY <2>1, <3>1, <3>2 DEF DecodeBody
    <2>2. CASE ~ (m.payload # None /\ p.cryptor)
      <3>1. C = <<>>
        BY <2>2 DEF Cipher, C
      <3> HIDE DEF meta
      <3> QED BY <2>2, <3>1 DEF DecodeBody
    <2> QED BY <2>1, <2>2
  <1> QED BY <1>3, <1>4 DEF ExpectedFor, d

\* No byte before the signature looks like one of a signature.
LEMMA UnsignedBytes ==
    ASSUME NEW p, NEW m, NEW i \in 1 .. Len(Unsigned(p, m))
    PROVE  Unsigned(p, m)[i][1] # "sign"
  <1> DEFINE B == ByteSet(p, m)
             U == Unsigned(p, m)
             C == Cipher(p, m)
             M == Meta(m)
  <1>1. /\ M \in Seq(B) /\ C \in Seq(B) /\ U = M \o C /\ Len(M) = metaLength
        /\ Len(U) = metaLength + Len(C)
        /\ \A j \in 1 .. metaLength : M[j][1] = "byte"
        /\ \A j \in 1 .. Len(C) : C[j][1] = "cipher"
    BY PacketBytes, MetaBytes, CipherBytes DEF Unsigned
  <1> HIDE DEF B, U, C, M
  <1>2. U[i] = IF i <= metaLength THEN M[i] ELSE C[i - metaLength]
    BY <1>1 DEF metaLength, U
  <1>3. CASE i <= metaLength
    <2>1. U[i] = M[i] /\ i \in 1 .. metaLength
      BY <1>2, <1>3 DEF metaLength
    <2> QED BY <1>1, <2>1 DEF U
  <1>4. CASE ~ (i <= metaLength)
    <2>1. U[i] = C[i - metaLength] /\ i - metaLength \in 1 .. Len(C)
      BY <1>1, <1>2, <1>4 DEF metaLength, U
    <2> QED BY <1>1, <2>1 DEF U
  <1> QED BY <1>3, <1>4

\* The last byte of a signature is in a packet at its end, and says what was signed.
LEMMA SignatureEnds ==
    ASSUME NEW p, p.signer, NEW m, NEW n \in 1 .. Len(EncodeFor(p, m)), NEW x,
           EncodeFor(p, m)[n] = <<"sign", x, SignatureLen>>
    PROVE  /\ x = Unsigned(p, m) /\ n = Len(EncodeFor(p, m))
           /\ EncodeFor(p, m) = x \o Sign(x) /\ x \in Seq(ByteSet(p, m))
  <1> DEFINE B == ByteSet(p, m)
             U == Unsigned(p, m)
             S == Sign(U)
             d == EncodeFor(p, m)
  <1>1. U \in Seq(B) /\ S \in Seq(B) /\ Len(S) = SignatureLen
    BY PacketBytes, SignBytes
  <1>2. d = U \o S
    BY EncodeParts, Zenon
  <1>3. \A i \in 1 .. SignatureLen : S[i] = <<"sign", U, i>>
    BY SignBytes
  <1>4. \A i \in 1 .. Len(U) : U[i][1] # "sign"
    BY UnsignedBytes
  <1>5. n \in 1 .. Len(d) /\ d[n] = <<"sign", x, SignatureLen>>
    OBVIOUS
  <1> HIDE DEF B, U, S, d
  <1>6. /\ Len(d) = Len(U) + SignatureLen /\ Len(U) \in Nat
        /\ d[n] = IF n <= Len(U) THEN U[n] ELSE S[n - Len(U)]
    <2>1. /\ Len(U \o S) = Len(U) + Len(S)
          /\ \A i \in 1 .. Len(U) + Len(S) :
               (U \o S)[i] = IF i <= Len(U) THEN U[i] ELSE S[i - Len(U)]
      BY <1>1, JoinedAt
    <2>2. Len(d) = Len(U) + SignatureLen /\ n \in 1 .. Len(U) + Len(S)
      BY <1>1, <1>2, <1>5, <2>1
    <2>3. d[n] = IF n <= Len(U) THEN U[n] ELSE S[n - Len(U)]
      BY <1>2, <2>1, <2>2
    <2> QED BY <1>1, <2>2, <2>3
  <1>7. ~ (n <= Len(U))
    <2> SUFFICES ASSUME n <= Len(U) PROVE FALSE
      OBVIOUS
    <2>1. U[n] = <<"sign", x, SignatureLen>> /\ n \in 1 .. Len(U)
      BY <1>5, <1>6
    <2>2. U[n][1] = "sign"
      BY <2>1
    <2> QED BY <1>4, <2>1, <2>2
  <1>8. n - Len(U) \in 1 .. SignatureLen /\ S[n - Len(U)] = <<"sign", x, SignatureLen>>
    BY <1>5, <1>6, <1>7, InboundAssumption
  <1>9. <<"sign", U, n - Len(U)>> = <<"sign", x, SignatureLen>>
    BY <1>3, <1>8
  <1>10. x = U /\ n - Len(U) = SignatureLen
    BY <1>9
  <1>11. n = Len(d)
    BY <1>6, <1>10, InboundAssumption
  <1> QED BY <1>1, <1>2, <1>10, <1>11 DEF U, S, d, B
-----------------------------------------------------------------------------
(* Buffers.                                                                *)

\* io.Copy writes over the start of an array and leaves the rest of it.
LEMMA OverwriteBytes ==
    ASSUME NEW B, NEW a \in Seq(B), NEW g \in Seq(B)
    PROVE  /\ Overwrite(a, g) \in Seq(B)
           /\ Len(Overwrite(a, g)) = IF Len(g) <= Len(a) THEN Len(a) ELSE Len(g)
           /\ \A n \in 1 .. Len(g) : Overwrite(a, g)[n] = g[n]
           /\ \A n \in Len(g) + 1 .. Len(a) : Overwrite(a, g)[n] = a[n]
  <1> DEFINE t == SubSeq(a, Len(g) + 1, Len(a))
  <1>1. /\ t \in Seq(B) /\ Len(t) = IF Len(g) <= Len(a) THEN Len(a) - Len(g) ELSE 0
        /\ \A i \in 1 .. Len(a) - Len(g) : t[i] = a[Len(g) + i]
    OBVIOUS
  <1> HIDE DEF t
  <1>2. /\ g \o t \in Seq(B) /\ Len(g \o t) = Len(g) + Len(t)
        /\ \A i \in 1 .. Len(g) + Len(t) :
             (g \o t)[i] = IF i <= Len(g) THEN g[i] ELSE t[i - Len(g)]
    BY <1>1, JoinedAt
  <1>3. Overwrite(a, g) = g \o t
    BY DEF Overwrite, t
  <1>4. Len(g) \in Nat /\ Len(a) \in Nat
    OBVIOUS
  <1>5. ASSUME NEW n \in 1 .. Len(g) PROVE Overwrite(a, g)[n] = g[n]
    BY <1>1, <1>2, <1>3, <1>4
  <1>6. ASSUME NEW n \in Len(g) + 1 .. Len(a) PROVE Overwrite(a, g)[n] = a[n]
    <2>1. n - Len(g) \in 1 .. Len(a) - Len(g) /\ n \in 1 .. Len(g) + Len(t) /\ ~ (n <= Len(g))
      BY <1>1, <1>4
    <2>2. (g \o t)[n] = t[n - Len(g)]
      BY <1>2, <2>1
    <2> QED BY <1>1, <1>3, <1>4, <2>1, <2>2
  <1> QED BY <1>1, <1>2, <1>3, <1>4, <1>5, <1>6

\* What a Get and the copy into its buffer change: one array, that nobody had, or one
\* more.
LEMMA CopyIntoBytes ==
    ASSUME NEW B, bytes \in Seq(Seq(B)), pool \subseteq DOMAIN bytes,
           NEW buf \in Nat, NEW g \in Seq(B), CopyInto(buf, g)
    PROVE  /\ bytes' \in Seq(Seq(B)) /\ DOMAIN bytes' = DOMAIN bytes \cup {buf}
           /\ pool' = pool \ {buf} /\ (buf \in pool \/ buf \notin DOMAIN bytes)
           /\ \A c \in DOMAIN bytes : /\ c # buf => bytes'[c] = bytes[c]
                                      /\ Len(bytes[c]) <= Len(bytes'[c])
           /\ Len(g) <= Len(bytes'[buf]) /\ \A n \in 1 .. Len(g) : bytes'[buf][n] = g[n]
           /\ \A n \in DOMAIN bytes'[buf] :
                n > Len(g) => /\ buf \in DOMAIN bytes /\ n \in DOMAIN bytes[buf]
                              /\ bytes'[buf][n] = bytes[buf][n]
  <1>1. CASE buf \in pool /\ pool' = pool \ {buf} /\ bytes' = [bytes EXCEPT ![buf] = Overwrite(@, g)]
    <2>1. buf \in DOMAIN bytes /\ bytes[buf] \in Seq(B)
      BY <1>1
    <2> DEFINE w == Overwrite(bytes[buf], g)
    <2>2. /\ w \in Seq(B) /\ Len(w) = IF Len(g) <= Len(bytes[buf]) THEN Len(bytes[buf]) ELSE Len(g)
          /\ \A n \in 1 .. Len(g) : w[n] = g[n]
          /\ \A n \in Len(g) + 1 .. Len(bytes[buf]) : w[n] = bytes[buf][n]
      BY <2>1, OverwriteBytes
    <2>3. bytes' = [bytes EXCEPT ![buf] = w]
      BY <1>1
    <2> HIDE DEF w
    <2>4. bytes' \in Seq(Seq(B)) /\ DOMAIN bytes' = DOMAIN bytes /\ bytes'[buf] = w
      BY <2>1, <2>2, <2>3
    <2>5. \A c \in DOMAIN bytes : c # buf => bytes'[c] = bytes[c]
      BY <2>3
    <2>6. Len(g) <= Len(w) /\ Len(bytes[buf]) <= Len(w)
      BY <2>1, <2>2
    <2>7. ASSUME NEW c \in DOMAIN bytes PROVE Len(bytes[c]) <= Len(bytes'[c])
      <3>1. Len(bytes[c]) \in Nat
        OBVIOUS
      <3>2. CASE c = buf
        BY <2>4, <2>6, <3>2, Zenon
      <3>3. CASE c # buf
        <4>1. Len(bytes'[c]) = Len(bytes[c])
          BY <2>5, <3>3, Zenon
        <4> QED BY <3>1, <4>1
      <3> QED BY <3>2, <3>3
    <2>8. ASSUME NEW n \in DOMAIN w, n > Len(g)
          PROVE  n \in DOMAIN bytes[buf] /\ w[n] = bytes[buf][n]
      <3>1. DOMAIN w = 1 .. Len(w) /\ Len(g) \in Nat
        BY <2>2
      <3>2. DOMAIN bytes[buf] = 1 .. Len(bytes[buf]) /\ Len(bytes[buf]) \in Nat
        BY <2>1
      <3>3. n \in Len(g) + 1 .. Len(bytes[buf])
        BY <2>2, <2>8, <3>1, <3>2
      <3> QED BY <2>2, <3>1, <3>2, <3>3
    <2> QED BY <1>1, <2>1, <2>2, <2>4, <2>5, <2>6, <2>7, <2>8
  <1>2. CASE buf = Len(bytes) + 1 /\ bytes' = Append(bytes, g) /\ pool' = pool
    BY <1>2
  <1> QED BY <1>1, <1>2 DEF CopyInto

\* A frame is a sequence of bytes.
LEMMA SentBytes == ASSUME NEW f \in Sent PROVE f \in Seq(Byte)
  <1>1. {f[i] : i \in DOMAIN f} \subseteq Byte
    BY Zenon DEF Byte
  <1>2. \E B : f \in Seq(B)
    <2>1. CASE f \in ShortFrames
      BY <2>1, InboundAssumption
    <2>2. ASSUME NEW m \in Messages, f = Encode(m) PROVE \E B : f \in Seq(B)
      BY <2>2, PacketBytes DEF Encode
    <2> QED BY <2>1, <2>2 DEF Sent
  <1>3. PICK B : f \in Seq(B)
    BY <1>2
  <1>4. /\ DOMAIN f = 1 .. Len(f) /\ Len(f) \in Nat
        /\ \A i \in 1 .. Len(f) : f[i] \in Byte
    BY <1>1, <1>3
  <1>5. f = [i \in 1 .. Len(f) |-> f[i]]
    BY <1>3
  <1> QED BY <1>4, <1>5

\* What clients may send does not change, as the protocol does not.
LEMMA SentStays ==
    ASSUME protocol' = protocol
    PROVE  Sent' = Sent /\ Byte' = Byte /\ Message' = Message
  BY DEF Sent, Byte, Message, Encode

\* What Append does, for the list of deferred calls and the channels.
LEMMA AppendOne ==
    ASSUME NEW E, NEW s \in Seq(E), NEW e \in E
    PROVE  /\ Append(s, e) \in Seq(E) /\ Append(s, e) # <<>>
           /\ DOMAIN Append(s, e) = 1 .. Len(s) + 1
           /\ \A i \in 1 .. Len(s) : Append(s, e)[i] = s[i]
           /\ Append(s, e)[Len(s) + 1] = e
           /\ DOMAIN s = 1 .. Len(s) /\ Len(s) \in Nat
  OBVIOUS

\* The deferred Puts after one more.
LEMMA DeferOne ==
    ASSUME NEW E, deferred \in [Lines -> Seq(E)], NEW e \in E, NEW l \in Lines,
           deferred' = [deferred EXCEPT ![l] = Append(@, e)]
    PROVE  /\ deferred' \in [Lines -> Seq(E)]
           /\ deferred'[l] # <<>>
           /\ \A k \in Lines : \A i \in DOMAIN deferred[k] :
                i \in DOMAIN deferred'[k] /\ deferred'[k][i] = deferred[k][i]
           /\ \A k \in Lines : \A i \in DOMAIN deferred'[k] :
                \/ i \in DOMAIN deferred[k]
                \/ k = l /\ i = Len(deferred[l]) + 1 /\ deferred'[k][i] = e
           /\ Len(deferred[l]) + 1 \notin DOMAIN deferred[l]
  <1>1. /\ Append(deferred[l], e) \in Seq(E) /\ Append(deferred[l], e) # <<>>
        /\ DOMAIN Append(deferred[l], e) = 1 .. Len(deferred[l]) + 1
        /\ \A i \in 1 .. Len(deferred[l]) : Append(deferred[l], e)[i] = deferred[l][i]
        /\ Append(deferred[l], e)[Len(deferred[l]) + 1] = e
        /\ DOMAIN deferred[l] = 1 .. Len(deferred[l]) /\ Len(deferred[l]) \in Nat
    <2>1. deferred[l] \in Seq(E)
      OBVIOUS
    <2> QED BY <2>1, AppendOne
  <1>2. \A k \in Lines : deferred'[k] = IF k = l THEN Append(deferred[l], e) ELSE deferred[k]
    OBVIOUS
  <1>3. deferred' \in [Lines -> Seq(E)]
    BY <1>1
  <1>4. ASSUME NEW k \in Lines, NEW i \in DOMAIN deferred[k]
        PROVE  i \in DOMAIN deferred'[k] /\ deferred'[k][i] = deferred[k][i]
    BY <1>1, <1>2
  <1>5. ASSUME NEW k \in Lines, NEW i \in DOMAIN deferred'[k]
        PROVE  \/ i \in DOMAIN deferred[k]
               \/ k = l /\ i = Len(deferred[l]) + 1 /\ deferred'[k][i] = e
    BY <1>1, <1>2
  <1> QED BY <1>1, <1>2, <1>3, <1>4, <1>5
-----------------------------------------------------------------------------
(* Every step keeps InboundInv.                                            *)

Deferral == [buffer : 1 .. MaxBuffers, sent : Sent]

\* A reader reads a frame, all of it or half of it, into a buffer that nobody has.
LEMMA ReadFrameKeeps ==
    ASSUME InboundInv, protocol' = protocol,
           NEW l \in Lines, NEW f \in Sent, ReadFrame(l, f)
    PROVE  InboundInv'
  <1>1. Sent' = Sent /\ Byte' = Byte /\ Message' = Message
    BY SentStays
  <1>2. /\ reader \in [Lines -> {"read", "send", "return", "returned"}]
        /\ deferred \in [Lines -> Seq(Deferral)]
        /\ bytes \in Seq(Seq(Byte)) /\ frames \in Seq(Sent) /\ protocol \in Protocols
        /\ messageChan \in Seq(Message) /\ hand \in Message \cup {None}
    BY DEF InboundInv, InboundTypeOK, Deferral
  <1>3. OneOwner /\ Made /\ Filled /\ Sending /\ Backed /\ FromFrames
    BY Zenon DEF InboundInv
  <1>4. PICK buf \in 1 .. MaxBuffers, g \in {f, SubSeq(f, 1, Len(f) \div 2)} :
          /\ deferred' = [deferred EXCEPT ![l] = Append(@, [buffer |-> buf, sent |-> f])]
          /\ CopyInto(buf, g)
          /\ \/ g = f /\ reader' = [reader EXCEPT ![l] = "send"]
             \/ reader' = [reader EXCEPT ![l] = "return"]
    BY Zenon DEF ReadFrame
  <1>5. /\ reader[l] = "read" /\ frames' = Append(frames, f)
        /\ messageChan' = messageChan /\ hand' = hand
    BY Zenon DEF ReadFrame
  <1>6. /\ g \in Seq(Byte) /\ f \in Seq(Byte) /\ Len(g) <= Len(f)
        /\ \A n \in 1 .. Len(g) : g[n] = f[n]
    <2>1. f \in Seq(Byte)
      BY SentBytes
    <2>2. CASE g = f
      BY <2>1, <2>2
    <2>3. CASE g = SubSeq(f, 1, Len(f) \div 2)
      BY <2>1, <2>3
    <2> QED BY <1>4, <2>1, <2>2, <2>3
  <1> DEFINE e == [buffer |-> buf, sent |-> f]
  <1>7. /\ bytes' \in Seq(Seq(Byte)) /\ DOMAIN bytes' = DOMAIN bytes \cup {buf}
        /\ pool' = pool \ {buf} /\ (buf \in pool \/ buf \notin DOMAIN bytes)
        /\ \A c \in DOMAIN bytes : /\ c # buf => bytes'[c] = bytes[c]
                                   /\ Len(bytes[c]) <= Len(bytes'[c])
        /\ Len(g) <= Len(bytes'[buf]) /\ \A n \in 1 .. Len(g) : bytes'[buf][n] = g[n]
        /\ \A n \in DOMAIN bytes'[buf] :
             n > Len(g) => /\ buf \in DOMAIN bytes /\ n \in DOMAIN bytes[buf]
                           /\ bytes'[buf][n] = bytes[buf][n]
    <2>1. pool \subseteq DOMAIN bytes /\ buf \in Nat
      BY <1>3, InboundAssumption DEF Made
    <2> QED BY <1>2, <1>4, <1>6, <2>1, CopyIntoBytes
  <1>8. e \in Deferral /\ deferred' = [deferred EXCEPT ![l] = Append(@, e)]
    BY <1>4 DEF Deferral
  <1>9. e.buffer = buf /\ e.sent = f
    OBVIOUS
  <1> HIDE DEF e
  <1>10. /\ deferred' \in [Lines -> Seq(Deferral)] /\ deferred'[l] # <<>>
         /\ \A k \in Lines : \A i \in DOMAIN deferred[k] :
              i \in DOMAIN deferred'[k] /\ deferred'[k][i] = deferred[k][i]
         /\ \A k \in Lines : \A i \in DOMAIN deferred'[k] :
              \/ i \in DOMAIN deferred[k]
              \/ k = l /\ i = Len(deferred[l]) + 1 /\ deferred'[k][i] = e
         /\ Len(deferred[l]) + 1 \notin DOMAIN deferred[l]
    BY <1>2, <1>8, DeferOne
  <1>11. \A k \in Lines : \A i \in DOMAIN deferred[k] :
           deferred[k][i].buffer \in DOMAIN bytes /\ deferred[k][i].buffer # buf
    BY SMTT(30), <1>3, <1>7 DEF OneOwner, Made
  <1>12. InboundTypeOK'
    <2>1. frames' \in Seq(Sent)
      BY <1>2, <1>5
    <2>2. reader' \in [Lines -> {"read", "send", "return", "returned"}]
      BY <1>2, <1>4
    <2>3. Deferral = [buffer : 1 .. MaxBuffers, sent : Sent']
      BY <1>1 DEF Deferral
    <2> QED BY <1>1, <1>2, <1>5, <1>7, <1>10, <2>1, <2>2, <2>3, Zenon DEF InboundTypeOK
  <1>13. OneOwner'
    <2> SUFFICES ASSUME NEW k \in Lines, NEW i \in DOMAIN deferred'[k]
                 PROVE  /\ deferred'[k][i].buffer \notin pool'
                        /\ \A k2 \in Lines : \A j \in DOMAIN deferred'[k2] :
                             deferred'[k][i].buffer = deferred'[k2][j].buffer => k = k2 /\ i = j
      BY Zenon DEF OneOwner
    <2>1. pool' \subseteq pool /\ buf \notin pool'
      BY <1>7
    <2>2. CASE i \in DOMAIN deferred[k]
      <3>1. deferred'[k][i] = deferred[k][i] /\ deferred[k][i].buffer # buf
        BY <1>10, <1>11, <2>2, Zenon
      <3>2. deferred[k][i].buffer \notin pool
        BY <1>3, <2>2, Zenon DEF OneOwner
      <3>3. ASSUME NEW k2 \in Lines, NEW j \in DOMAIN deferred'[k2],
                   deferred[k][i].buffer = deferred'[k2][j].buffer
            PROVE  k = k2 /\ i = j
        <4>1. j \in DOMAIN deferred[k2]
          BY <1>9, <1>10, <3>1, <3>3, Zenon
        <4>2. deferred[k][i].buffer = deferred[k2][j].buffer
          BY <1>10, <3>3, <4>1, Zenon
        <4> QED BY <1>3, <2>2, <4>1, <4>2, Zenon DEF OneOwner
      <3> QED BY <2>1, <3>1, <3>2, <3>3, Zenon
    <2>3. CASE i \notin DOMAIN deferred[k]
      <3>1. k = l /\ i = Len(deferred[l]) + 1 /\ deferred'[k][i].buffer = buf
        BY <1>9, <1>10, <2>3, Zenon
      <3>2. ASSUME NEW k2 \in Lines, NEW j \in DOMAIN deferred'[k2],
                   buf = deferred'[k2][j].buffer
            PROVE  k = k2 /\ i = j
        <4>1. j \notin DOMAIN deferred[k2]
          BY <1>10, <1>11, <3>2, Zenon
        <4> QED BY <1>10, <3>1, <4>1, Zenon
      <3> QED BY <2>1, <3>1, <3>2, Zenon
    <2> QED BY <2>2, <2>3
  <1>14. Made'
    <2>1. pool' \subseteq DOMAIN bytes'
      BY <1>3, <1>7 DEF Made
    <2>2. ASSUME NEW k \in Lines, NEW i \in DOMAIN deferred'[k]
          PROVE  deferred'[k][i].buffer \in DOMAIN bytes'
      <3>1. buf \in DOMAIN bytes' /\ \A c \in DOMAIN bytes : c \in DOMAIN bytes'
        BY <1>7
      <3>2. CASE i \in DOMAIN deferred[k]
        BY <1>10, <1>11, <3>1, <3>2, Zenon
      <3>3. CASE i \notin DOMAIN deferred[k]
        BY <1>9, <1>10, <3>1, <3>3, Zenon
      <3> QED BY <3>2, <3>3
    <2> QED BY <2>1, <2>2, Zenon DEF Made
  <1>15. Filled'
    <2> SUFFICES ASSUME NEW k \in Lines, Open(k)', NEW i \in DOMAIN deferred'[k]
                 PROVE  /\ Len(deferred'[k][i].sent) <= Len(bytes'[deferred'[k][i].buffer])
                        /\ \A n \in 1 .. Len(deferred'[k][i].sent) :
                             bytes'[deferred'[k][i].buffer][n] = deferred'[k][i].sent[n]
      BY Zenon DEF Filled, Holds
    <2>1. Open(k) /\ (k = l => g = f)
      BY <1>2, <1>4, <1>5 DEF Open
    <2>2. CASE i \in DOMAIN deferred[k]
      <3>1. deferred'[k][i] = deferred[k][i]
        BY <1>10, <2>2, Zenon
      <3>2. bytes'[deferred[k][i].buffer] = bytes[deferred[k][i].buffer]
        BY <1>7, <1>11, <2>2
      <3>3. Holds(deferred[k][i])
        BY <1>3, <2>1, <2>2, Zenon DEF Filled
      <3> QED BY <3>1, <3>2, <3>3, Zenon DEF Holds
    <2>3. CASE i \notin DOMAIN deferred[k]
      BY <1>7, <1>9, <1>10, <2>1, <2>3
    <2> QED BY <2>2, <2>3
  <1>16. Sending'
    BY <1>2, <1>3, <1>4, <1>10 DEF Sending
  <1>17. Backed'
    <2>1. InFlight' = InFlight
      BY <1>5, Zenon DEF InFlight
    <2>2. \A d \in InFlight : d \in Message
      BY <1>2 DEF InFlight
    <2> SUFFICES ASSUME NEW d \in InFlight
                 PROVE  /\ d.buffer \in DOMAIN bytes' /\ Len(d.sent) <= Len(bytes'[d.buffer])
                        /\ Open(d.line)' => \E i \in DOMAIN deferred'[d.line] :
                             deferred'[d.line][i] = [buffer |-> d.buffer, sent |-> d.sent]
      BY <2>1, Zenon DEF Backed
    <2>3. /\ d.buffer \in DOMAIN bytes /\ Len(d.sent) <= Len(bytes[d.buffer])
          /\ Open(d.line) => \E i \in DOMAIN deferred[d.line] :
               deferred[d.line][i] = [buffer |-> d.buffer, sent |-> d.sent]
      BY <1>3, Zenon DEF Backed
    <2>4. d.line \in Lines /\ d.sent \in Sent
      BY <2>2 DEF Message
    <2>5. Len(d.sent) <= Len(bytes'[d.buffer])
      <3>1. Len(d.sent) \in Nat /\ Len(bytes[d.buffer]) \in Nat /\ Len(bytes'[d.buffer]) \in Nat
        <4>1. d.sent \in Seq(Byte)
          BY <2>4, SentBytes
        <4>2. bytes[d.buffer] \in Seq(Byte)
          BY Zenon, <1>2, <2>3, SeqItem
        <4>3. bytes'[d.buffer] \in Seq(Byte)
          <5>1. bytes' \in Seq(Seq(Byte)) /\ d.buffer \in DOMAIN bytes'
            BY <1>7, <2>3, Zenon
          <5> QED BY Zenon, <5>1, SeqItem
        <4> QED BY <4>1, <4>2, <4>3
      <3> QED BY <1>7, <2>3, <3>1
    <2>6. Open(d.line)' => Open(d.line)
      BY <1>2, <1>4, <1>5, <2>4 DEF Open
    <2> QED BY <1>7, <1>10, <2>3, <2>4, <2>5, <2>6, Zenon
  <1>18. FromFrames'
    <2>1. /\ DOMAIN frames' = 1 .. Len(frames) + 1 /\ frames'[Len(frames) + 1] = f
          /\ DOMAIN frames = 1 .. Len(frames) /\ Len(frames) \in Nat
          /\ \A k \in DOMAIN frames : k \in DOMAIN frames' /\ frames'[k] = frames[k]
      BY <1>2, <1>5, AppendOne
    <2> SUFFICES ASSUME NEW c \in DOMAIN bytes', NEW n \in DOMAIN bytes'[c]
                 PROVE  \E k \in DOMAIN frames' :
                          n \in DOMAIN frames'[k] /\ bytes'[c][n] = frames'[k][n]
      BY Zenon DEF FromFrames
    <2>2. CASE c \in DOMAIN bytes /\ n \in DOMAIN bytes[c] /\ bytes'[c][n] = bytes[c][n]
      BY <1>3, <2>1, <2>2, Zenon DEF FromFrames
    <2>3. CASE c = buf /\ ~ (n > Len(g))
      <3>1. n \in 1 .. Len(g) /\ n \in DOMAIN f
        <4>1. /\ DOMAIN bytes'[c] = 1 .. Len(bytes'[c]) /\ Len(bytes'[c]) \in Nat
              /\ DOMAIN f = 1 .. Len(f) /\ Len(f) \in Nat /\ Len(g) \in Nat
          BY <1>6, <1>7
        <4> QED BY <1>6, <2>3, <4>1
      <3>2. bytes'[c][n] = f[n]
        BY <1>6, <1>7, <2>3, <3>1, Zenon
      <3>3. Len(frames) + 1 \in DOMAIN frames'
        BY <2>1
      <3> QED BY <2>1, <3>1, <3>2, <3>3, Zenon
    <2>4. CASE c = buf /\ n > Len(g)
      BY <1>7, <2>2, <2>4, Zenon
    <2>5. CASE c # buf
      BY <1>7, <2>2, <2>5, Zenon
    <2> QED BY <2>3, <2>4, <2>5
  <1> QED BY <1>12, <1>13, <1>14, <1>15, <1>16, <1>17, <1>18, Zenon DEF InboundInv

\* Where no array is written, what the arrays hold still came in frames.
LEMMA FramesKept ==
    ASSUME FromFrames, bytes' = bytes, frames' = frames
    PROVE  FromFrames'
BY SMTT(30) DEF FromFrames

\* A step that touches no array, takes nothing into the pool, opens no line and puts no
\* new message in flight but one that is backed.
LEMMA BufferFrame ==
    ASSUME InboundInv, InboundTypeOK',
           bytes' = bytes, frames' = frames, deferred' = deferred, pool' \subseteq pool,
           \A k \in Lines : reader'[k] \in {"read", "send"} => reader[k] \in {"read", "send"},
           \A k \in Lines : reader'[k] = "send" => reader[k] = "send",
           \A d \in InFlight' :
             \/ d \in InFlight
             \/ /\ d.buffer \in DOMAIN bytes /\ Len(d.sent) <= Len(bytes[d.buffer])
                /\ \E i \in DOMAIN deferred[d.line] :
                     deferred[d.line][i] = [buffer |-> d.buffer, sent |-> d.sent]
    PROVE  InboundInv'
  <1>1. OneOwner /\ Made /\ Filled /\ Sending /\ Backed /\ FromFrames
    BY Zenon DEF InboundInv
  <1>2. OneOwner'
    BY <1>1 DEF OneOwner
  <1>3. Made'
    BY <1>1, Zenon DEF Made
  <1>4. Filled'
    BY <1>1, Zenon DEF Filled, Holds, Open
  <1>5. Sending'
    BY <1>1, Zenon DEF Sending
  <1>6. Backed'
    <2>1. ASSUME NEW d \in InFlight' PROVE d.line \in Lines
      <3>1. messageChan' \in Seq(Message') /\ hand' \in Message' \cup {None}
        BY Zenon DEF InboundTypeOK
      <3>2. \A i \in DOMAIN messageChan' : messageChan'[i] \in Message'
        BY Zenon, <3>1, SeqItem
      <3>3. d \in Message'
        BY <3>1, <3>2, Zenon DEF InFlight
      <3> QED BY <3>3 DEF Message
    <2> SUFFICES ASSUME NEW d \in InFlight'
                 PROVE  /\ d.buffer \in DOMAIN bytes /\ Len(d.sent) <= Len(bytes[d.buffer])
                        /\ reader'[d.line] \in {"read", "send"} =>
                             \E i \in DOMAIN deferred[d.line] :
                               deferred[d.line][i] = [buffer |-> d.buffer, sent |-> d.sent]
      BY Zenon DEF Backed, Open
    <2> QED BY <1>1, <2>1, Zenon DEF Backed, Open
  <1>7. FromFrames'
    BY Zenon, <1>1, FramesKept
  <1> QED BY <1>2, <1>3, <1>4, <1>5, <1>6, <1>7, Zenon DEF InboundInv

\* What leaves a reader's loop, the end of a reader, a receive, the end of the work on a
\* message, and the garbage collector.
LEMMA QuietKeeps ==
    ASSUME InboundInv, protocol' = protocol,
           \/ \E l \in Lines : ReadEnds(l) \/ Returned(l)
           \/ Receive \/ Done \/ \E buf \in pool : PoolDrops(buf)
    PROVE  InboundInv'
  <1>1. Sent' = Sent /\ Byte' = Byte /\ Message' = Message
    BY SentStays
  <1>2. /\ reader \in [Lines -> {"read", "send", "return", "returned"}]
        /\ messageChan \in Seq(Message) /\ hand \in Message \cup {None}
        /\ deferred \in [Lines -> Seq([buffer : 1 .. MaxBuffers, sent : Sent])]
        /\ bytes \in Seq(Seq(Byte)) /\ frames \in Seq(Sent) /\ protocol \in Protocols
    BY DEF InboundInv, InboundTypeOK
  <1>3. bytes' = bytes /\ frames' = frames /\ deferred' = deferred /\ pool' \subseteq pool
    BY Zenon DEF ReadEnds, Returned, Receive, Done, PoolDrops
  <1>4. /\ reader' \in [Lines -> {"read", "send", "return", "returned"}]
        /\ \A k \in Lines : reader'[k] = reader[k] \/ reader'[k] \in {"return", "returned"}
    BY <1>2 DEF ReadEnds, Returned, Receive, Done, PoolDrops
  <1>5. /\ messageChan' \in Seq(Message) /\ hand' \in Message \cup {None}
        /\ \A d \in InFlight' : d \in InFlight
    <2>1. CASE Receive
      <3>1. /\ Head(messageChan) = messageChan[1] /\ 1 \in DOMAIN messageChan
            /\ messageChan[1] \in Message /\ Tail(messageChan) \in Seq(Message)
            /\ \A i \in DOMAIN Tail(messageChan) :
                 i + 1 \in DOMAIN messageChan /\ Tail(messageChan)[i] = messageChan[i + 1]
        BY <1>2, <2>1 DEF Receive
      <3>2. hand' = messageChan[1] /\ messageChan' = Tail(messageChan)
        BY <2>1, <3>1, Zenon DEF Receive
      <3>3. \A i \in DOMAIN messageChan' :
              \E j \in DOMAIN messageChan : messageChan'[i] = messageChan[j]
        BY <3>1, <3>2
      <3>4. ASSUME NEW d \in InFlight' PROVE d \in InFlight
        <4>1. \E j \in DOMAIN messageChan : d = messageChan[j]
          <5>1. (\E i \in DOMAIN messageChan' : d = messageChan'[i]) \/ d = hand'
            BY Zenon DEF InFlight
          <5> QED BY <3>1, <3>2, <3>3, <5>1
        <4> QED BY <4>1, Zenon DEF InFlight
      <3> QED BY <3>1, <3>2, <3>4
    <2>2. CASE ~ Receive
      <3>1. messageChan' = messageChan /\ hand' \in {hand, None}
        BY <2>2, Zenon DEF ReadEnds, Returned, Done, PoolDrops
      <3> QED BY <1>2, <3>1, Zenon DEF InFlight
    <2> QED BY <2>1, <2>2
  <1>6. InboundTypeOK'
    BY <1>1, <1>2, <1>3, <1>4, <1>5, Zenon DEF InboundTypeOK
  <1>7. /\ \A k \in Lines : reader'[k] \in {"read", "send"} => reader[k] \in {"read", "send"}
        /\ \A k \in Lines : reader'[k] = "send" => reader[k] = "send"
    BY <1>4
  <1> QED BY <1>3, <1>5, <1>6, <1>7, BufferFrame, Zenon

\* A reader sends the message of the frame it has just read.
LEMMA SendMessageKeeps ==
    ASSUME InboundInv, protocol' = protocol, NEW l \in Lines, SendMessage(l)
    PROVE  InboundInv'
  <1>1. Sent' = Sent /\ Byte' = Byte /\ Message' = Message
    BY SentStays
  <1>2. /\ reader \in [Lines -> {"read", "send", "return", "returned"}]
        /\ messageChan \in Seq(Message) /\ hand \in Message \cup {None}
        /\ deferred \in [Lines -> Seq(Deferral)]
        /\ bytes \in Seq(Seq(Byte)) /\ frames \in Seq(Sent) /\ protocol \in Protocols
    BY DEF InboundInv, InboundTypeOK, Deferral
  <1> DEFINE m == MessageOf(l)
             n == Len(deferred[l])
  <1>3. /\ reader[l] = "send" /\ messageChan' = Append(messageChan, m)
        /\ reader' = [reader EXCEPT ![l] = "read"]
        /\ bytes' = bytes /\ frames' = frames /\ deferred' = deferred
        /\ pool' = pool /\ hand' = hand
    BY Zenon DEF SendMessage
  <1>4. n \in DOMAIN deferred[l] /\ deferred[l][n] \in Deferral
    <2>1. deferred[l] # <<>> /\ deferred[l] \in Seq(Deferral)
      BY <1>2, <1>3 DEF InboundInv, Sending
    <2> QED BY Zenon, <2>1, LastItem
  <1>5. /\ m.line = l /\ m.buffer = deferred[l][n].buffer /\ m.sent = deferred[l][n].sent
        /\ m \in Message /\ deferred[l][n] = [buffer |-> m.buffer, sent |-> m.sent]
    BY <1>4 DEF MessageOf, LastOf, Message, Deferral
  <1>6. Holds(deferred[l][n]) /\ deferred[l][n].buffer \in DOMAIN bytes
    BY <1>3, <1>4 DEF InboundInv, Filled, Open, Made
  <1> HIDE DEF m, n
  <1>7. /\ messageChan' \in Seq(Message)
        /\ \A i \in DOMAIN messageChan' :
             messageChan'[i] = m \/ (i \in DOMAIN messageChan /\ messageChan'[i] = messageChan[i])
    <2> DEFINE c == Append(messageChan, m)
    <2>1. messageChan \in Seq(Message) /\ m \in Message
      BY Zenon, <1>2, <1>5
    <2>2. /\ c \in Seq(Message) /\ Len(messageChan) \in Nat
          /\ Len(c) = Len(messageChan) + 1 /\ c[Len(messageChan) + 1] = m
          /\ \A i \in 1 .. Len(messageChan) : c[i] = messageChan[i]
      BY ONLY <2>1, AppendedItems
    <2> HIDE DEF c
    <2>3. DOMAIN c = 1 .. Len(messageChan) + 1 /\ DOMAIN messageChan = 1 .. Len(messageChan)
      BY ONLY <2>1, <2>2
    <2>4. \A i \in DOMAIN c : c[i] = m \/ (i \in DOMAIN messageChan /\ c[i] = messageChan[i])
      BY ONLY <2>2, <2>3
    <2>5. messageChan' = c
      BY Zenon, <1>3 DEF c
    <2> QED BY Zenon, <2>2, <2>4, <2>5
  <1>8. \A d \in InFlight' : d \in InFlight \/ d = m
    BY <1>3, <1>7, Zenon DEF InFlight
  <1>9. /\ reader' \in [Lines -> {"read", "send", "return", "returned"}]
        /\ \A k \in Lines : reader'[k] \in {"read", "send"} => reader[k] \in {"read", "send"}
        /\ \A k \in Lines : reader'[k] = "send" => reader[k] = "send"
    BY <1>2, <1>3
  <1>10. InboundTypeOK'
    BY <1>1, <1>2, <1>3, <1>7, <1>9, Zenon DEF InboundTypeOK, Deferral
  <1>11. /\ m.buffer \in DOMAIN bytes /\ Len(m.sent) <= Len(bytes[m.buffer])
         /\ \E i \in DOMAIN deferred[m.line] :
              deferred[m.line][i] = [buffer |-> m.buffer, sent |-> m.sent]
    BY <1>4, <1>5, <1>6, Zenon DEF Holds
  <1> QED BY <1>3, <1>8, <1>9, <1>10, <1>11, BufferFrame, Zenon

\* What taking the last element off does, for the list of deferred calls.
LEMMA ButLast ==
    ASSUME NEW E, NEW s \in Seq(E), s # <<>>
    PROVE  LET t == SubSeq(s, 1, Len(s) - 1)
           IN  /\ t \in Seq(E) /\ Len(s) \in DOMAIN s /\ Len(s) \notin DOMAIN t
               /\ \A i \in DOMAIN t : i \in DOMAIN s /\ t[i] = s[i]
  OBVIOUS

\* A reader that has left its loop puts back a buffer that nobody else has.
LEMMA PutKeeps ==
    ASSUME InboundInv, protocol' = protocol, NEW l \in Lines, Put(l)
    PROVE  InboundInv'
  <1>1. Sent' = Sent /\ Byte' = Byte /\ Message' = Message
    BY SentStays
  <1>2. /\ reader \in [Lines -> {"read", "send", "return", "returned"}]
        /\ messageChan \in Seq(Message) /\ hand \in Message \cup {None}
        /\ deferred \in [Lines -> Seq(Deferral)]
        /\ bytes \in Seq(Seq(Byte)) /\ frames \in Seq(Sent) /\ protocol \in Protocols
    BY DEF InboundInv, InboundTypeOK, Deferral
  <1>3. OneOwner /\ Made /\ Filled /\ Sending /\ Backed /\ FromFrames
    BY Zenon DEF InboundInv
  <1> DEFINE n == Len(deferred[l])
             t == SubSeq(deferred[l], 1, n - 1)
             buf == deferred[l][n].buffer
  <1>4. /\ reader[l] = "return" /\ deferred[l] # <<>> /\ pool' = pool \cup {buf}
        /\ deferred' = [deferred EXCEPT ![l] = t]
        /\ reader' = reader /\ bytes' = bytes /\ messageChan' = messageChan
        /\ hand' = hand /\ frames' = frames
    BY Zenon DEF Put, LastOf
  <1>5. /\ t \in Seq(Deferral) /\ n \in DOMAIN deferred[l] /\ n \notin DOMAIN t
        /\ \A i \in DOMAIN t : i \in DOMAIN deferred[l] /\ t[i] = deferred[l][i]
    <2>1. deferred[l] \in Seq(Deferral)
      BY <1>2
    <2> QED BY <1>4, <2>1, ButLast
  <1>6. deferred[l][n].buffer = buf
    OBVIOUS
  <1> HIDE DEF n, t, buf
  <1>7. /\ deferred' \in [Lines -> Seq(Deferral)]
        /\ \A k \in Lines : deferred'[k] = IF k = l THEN t ELSE deferred[k]
    BY <1>2, <1>4, <1>5
  <1>8. \A k \in Lines : \A i \in DOMAIN deferred'[k] :
          i \in DOMAIN deferred[k] /\ deferred'[k][i] = deferred[k][i] /\ ~ (k = l /\ i = n)
    BY <1>5, <1>7, Zenon
  <1>9. InboundTypeOK'
    BY <1>1, <1>2, <1>4, <1>7, Zenon DEF InboundTypeOK, Deferral
  <1>10. OneOwner'
    <2> SUFFICES ASSUME NEW k \in Lines, NEW i \in DOMAIN deferred'[k]
                 PROVE  /\ deferred'[k][i].buffer \notin pool'
                        /\ \A k2 \in Lines : \A j \in DOMAIN deferred'[k2] :
                             deferred'[k][i].buffer = deferred'[k2][j].buffer => k = k2 /\ i = j
      BY Zenon DEF OneOwner
    <2>1. /\ i \in DOMAIN deferred[k] /\ deferred'[k][i] = deferred[k][i]
          /\ ~ (k = l /\ i = n)
      BY <1>8, Zenon
    <2>2. deferred[k][i].buffer \notin pool /\ deferred[k][i].buffer # buf
      <3>1. /\ deferred[k][i].buffer \notin pool
            /\ deferred[k][i].buffer = deferred[l][n].buffer => k = l /\ i = n
        <4>1. i \in DOMAIN deferred[k] /\ n \in DOMAIN deferred[l]
          BY <1>5, <2>1
        <4> QED BY <1>3, <4>1, Zenon DEF OneOwner
      <3> QED BY <1>6, <2>1, <3>1, Zenon
    <2>3. deferred'[k][i].buffer \notin pool'
      BY <1>4, <2>1, <2>2
    <2>4. ASSUME NEW k2 \in Lines, NEW j \in DOMAIN deferred'[k2],
                 deferred'[k][i].buffer = deferred'[k2][j].buffer
          PROVE  k = k2 /\ i = j
      <3>1. j \in DOMAIN deferred[k2] /\ deferred'[k2][j] = deferred[k2][j]
        BY <1>8, Zenon
      <3>2. deferred[k][i].buffer = deferred[k2][j].buffer
        BY <2>1, <2>4, <3>1, Zenon
      <3>3. i \in DOMAIN deferred[k]
        BY <2>1
      <3> QED BY <1>3, <3>1, <3>2, <3>3, Zenon DEF OneOwner
    <2> QED BY <2>3, <2>4, Zenon
  <1>11. Made'
    <2>1. buf \in DOMAIN bytes
      BY <1>3, <1>5, <1>6, Zenon DEF Made
    <2>2. pool' \subseteq DOMAIN bytes'
      BY <1>3, <1>4, <2>1 DEF Made
    <2>3. \A k \in Lines : \A i \in DOMAIN deferred'[k] : deferred'[k][i].buffer \in DOMAIN bytes'
      BY <1>3, <1>4, <1>8, Zenon DEF Made
    <2> QED BY <2>2, <2>3, Zenon DEF Made
  <1>12. Filled' /\ Sending'
    <2>1. \A k \in Lines : reader'[k] \in {"read", "send"} => deferred'[k] = deferred[k]
      BY <1>4, <1>7
    <2> QED BY SMTT(30), <1>3, <1>4, <2>1 DEF Filled, Sending, Open, Holds
  <1>13. Backed'
    <2>1. InFlight' = InFlight
      BY <1>4, Zenon DEF InFlight
    <2>2. ASSUME NEW d \in InFlight PROVE d.line \in Lines
      <3>1. \A i \in DOMAIN messageChan : messageChan[i] \in Message
        BY <1>2
      <3>2. d \in Message
        BY <1>2, <3>1, Zenon DEF InFlight
      <3> QED BY <3>2 DEF Message
    <2>3. \A k \in Lines : reader'[k] \in {"read", "send"} => deferred'[k] = deferred[k]
      BY <1>4, <1>7
    <2> SUFFICES ASSUME NEW d \in InFlight
                 PROVE  /\ d.buffer \in DOMAIN bytes' /\ Len(d.sent) <= Len(bytes'[d.buffer])
                        /\ reader'[d.line] \in {"read", "send"} =>
                             \E i \in DOMAIN deferred'[d.line] :
                               deferred'[d.line][i] = [buffer |-> d.buffer, sent |-> d.sent]
      BY <2>1, Zenon DEF Backed, Open
    <2>4. /\ d.buffer \in DOMAIN bytes /\ Len(d.sent) <= Len(bytes[d.buffer])
          /\ reader[d.line] \in {"read", "send"} =>
               \E i \in DOMAIN deferred[d.line] :
                 deferred[d.line][i] = [buffer |-> d.buffer, sent |-> d.sent]
      BY <1>3, Zenon DEF Backed, Open
    <2> QED BY <1>4, <2>2, <2>3, <2>4, Zenon
  <1>14. FromFrames'
    BY <1>3, <1>4 DEF FromFrames
  <1> QED BY <1>9, <1>10, <1>11, <1>12, <1>13, <1>14, Zenon DEF InboundInv
-----------------------------------------------------------------------------
\* No reader has read anything at first.
LEMMA InboundInit1 == InboundInit => InboundInv
  <1> SUFFICES ASSUME InboundInit PROVE InboundInv
    OBVIOUS
  <1>1. /\ reader = [l \in Lines |-> "read"] /\ deferred = [l \in Lines |-> <<>>]
        /\ pool = {} /\ bytes = <<>> /\ messageChan = <<>> /\ hand = None
        /\ frames = <<>> /\ protocol \in Protocols
    BY Zenon DEF InboundInit, Init
  <1>2. InboundTypeOK
    BY <1>1 DEF InboundTypeOK
  <1>3. InFlight = {}
    BY <1>1 DEF InFlight
  <1>4. \A l \in Lines : deferred[l] = <<>> /\ reader[l] = "read"
    BY <1>1
  <1>5. OneOwner /\ Made /\ Filled
    BY <1>1, <1>4 DEF OneOwner, Made, Filled
  <1>6. Sending /\ Backed /\ FromFrames
    BY <1>1, <1>3, <1>4 DEF Sending, Backed, FromFrames
  <1> QED BY <1>2, <1>5, <1>6 DEF InboundInv

\* Buffers never have two owners, an open line's buffers hold its frames, and every
\* byte of a buffer came in a frame: whatever lines, frames, payloads and capacities
\* there are, and whatever sync.Pool and the garbage collector do.
THEOREM InboundInvariant == InboundSpec => []InboundInv
  <1>1. InboundInv /\ [InboundNext]_<<vars, protocol>> => InboundInv'
    <2> SUFFICES ASSUME InboundInv, [InboundNext]_<<vars, protocol>> PROVE InboundInv'
      OBVIOUS
    <2>1. CASE UNCHANGED <<vars, protocol>>
      <3>1. /\ InboundTypeOK' /\ protocol' = protocol /\ bytes' = bytes /\ frames' = frames
            /\ deferred' = deferred /\ pool' = pool /\ reader' = reader
            /\ InFlight' = InFlight
        <4>1. Sent' = Sent /\ Byte' = Byte /\ Message' = Message
          BY <2>1, SentStays
        <4> QED BY <2>1, <4>1, Zenon DEF vars, InboundInv, InboundTypeOK, InFlight
      <3> QED BY <3>1, BufferFrame, Zenon
    <2>2. ASSUME InboundNext PROVE InboundInv'
      <3>1. protocol' = protocol
        BY <2>2 DEF InboundNext
      <3>2. ASSUME NEW l \in Lines, NEW m \in Messages, ReadFrame(l, Encode(m))
            PROVE  InboundInv'
        BY <3>1, <3>2, ReadFrameKeeps DEF Sent
      <3>3. ASSUME NEW l \in Lines, NEW f \in ShortFrames, ReadFrame(l, f)
            PROVE  InboundInv'
        BY <3>1, <3>3, ReadFrameKeeps DEF Sent
      <3>4. CASE Step
        BY <3>1, <3>4, QuietKeeps, SendMessageKeeps, PutKeeps, Zenon DEF Step
      <3> QED BY <2>2, <3>2, <3>3, <3>4, Zenon DEF InboundNext
    <2> QED BY <2>1, <2>2
  <1> QED BY <1>1, InboundInit1, PTL DEF InboundSpec

\* A buffer is in the pool or with one reader, once: no two readers copy into the same
\* array (pool.go, Line.start).
THEOREM InboundOneOwner == InboundSpec => []OneOwner
  <1>1. InboundInv => OneOwner
    BY Zenon DEF InboundInv
  <1> QED BY <1>1, InboundInvariant, PTL

\* What the application finds in a message: as many bytes as were sent, from the array.
LEMMA DataBytes ==
    ASSUME InboundInv, NEW d \in InFlight
    PROVE  /\ d.line \in Lines /\ d.sent \in Sent /\ d.sent \in Seq(Byte)
           /\ d.buffer \in DOMAIN bytes
           /\ Data(d) \in Seq(Byte) /\ Len(Data(d)) = Len(d.sent)
           /\ \A n \in 1 .. Len(d.sent) : /\ Data(d)[n] = bytes[d.buffer][n]
                                          /\ n \in DOMAIN bytes[d.buffer]
  <1>1. bytes \in Seq(Seq(Byte)) /\ messageChan \in Seq(Message) /\ hand \in Message \cup {None}
    BY Zenon DEF InboundInv, InboundTypeOK
  <1>2. \A i \in DOMAIN messageChan : messageChan[i] \in Message
    BY <1>1
  <1>3. d \in Message
    BY <1>1, <1>2, Zenon DEF InFlight
  <1>4. d.line \in Lines /\ d.sent \in Sent
    BY <1>3 DEF Message
  <1>5. d.sent \in Seq(Byte)
    BY <1>4, SentBytes
  <1>6. d.buffer \in DOMAIN bytes /\ Len(d.sent) <= Len(bytes[d.buffer])
    BY Zenon DEF InboundInv, Backed
  <1> DEFINE a == bytes[d.buffer]
             n == Len(d.sent)
  <1>7. a \in Seq(Byte) /\ n \in Nat /\ n <= Len(a)
    BY <1>1, <1>5, <1>6
  <1>8. Data(d) = SubSeq(a, 1, n)
    BY DEF Data
  <1> HIDE DEF a, n
  <1>9. /\ SubSeq(a, 1, n) \in Seq(Byte) /\ Len(SubSeq(a, 1, n)) = n
        /\ \A i \in 1 .. n : SubSeq(a, 1, n)[i] = a[i] /\ i \in DOMAIN a
    BY <1>7
  <1> QED BY <1>4, <1>5, <1>6, <1>8, <1>9 DEF a, n

\* What DecodeReq is given while the line is open: the frame.
LEMMA Intact == InboundInv => OpenLineIntact
  <1> SUFFICES ASSUME InboundInv, NEW d \in InFlight, Open(d.line)
               PROVE  Data(d) = d.sent
    BY Zenon DEF OpenLineIntact
  <1>1. /\ d.line \in Lines /\ d.sent \in Seq(Byte)
        /\ Data(d) \in Seq(Byte) /\ Len(Data(d)) = Len(d.sent)
        /\ \A n \in 1 .. Len(d.sent) : Data(d)[n] = bytes[d.buffer][n]
    BY DataBytes
  <1>2. PICK i \in DOMAIN deferred[d.line] :
          deferred[d.line][i] = [buffer |-> d.buffer, sent |-> d.sent]
    BY Zenon DEF InboundInv, Backed
  <1>3. Holds([buffer |-> d.buffer, sent |-> d.sent])
    BY <1>1, <1>2, Zenon DEF InboundInv, Filled
  <1>4. \A n \in 1 .. Len(d.sent) : bytes[d.buffer][n] = d.sent[n]
    BY <1>3 DEF Holds
  <1> HIDE DEF Data
  <1> QED BY <1>1, <1>4, SameBytes

\* As long as its line's reader runs, a message in the channel or with the application
\* holds the bytes the client sent, although it is a slice of a pooled buffer
\* (Line.start sends buf.Bytes() and defers the Put).
THEOREM InboundIntact == InboundSpec => []OpenLineIntact
  BY Intact, InboundInvariant, PTL

\* What a client encodes with EncodeResp is what DecodeReq makes of the message, as long
\* as the line is open: for all protocols, messages and payloads.
THEOREM InboundDecodes == InboundSpec => []OpenLineDecodes
  <1>1. InboundInv => OpenLineDecodes
    <2> SUFFICES ASSUME InboundInv, NEW m \in Messages, NEW d \in InFlight,
                        d.sent = Encode(m), Open(d.line)
                 PROVE  Decoded(d) = Expected(m)
      BY Zenon DEF OpenLineDecodes
    <2>1. Data(d) = EncodeFor(protocol, m)
      BY Intact, Zenon DEF OpenLineIntact, Encode
    <2>2. protocol \in Protocols
      BY Zenon DEF InboundInv, InboundTypeOK
    <2> QED BY <2>1, <2>2, DecodeEncoded, Zenon DEF Decoded, Expected
  <1> QED BY <1>1, InboundInvariant, PTL

\* With a signer, DecodeReq never panics and whatever it accepts is a whole packet that
\* some client sent, also when the line is closed and others write over the buffer.
THEOREM InboundSigned == InboundSpec => []SignedWasSent
  <1>1. InboundInv => SignedWasSent
    <2> SUFFICES ASSUME InboundInv, NEW d \in InFlight, protocol.signer
                 PROVE  /\ Decoded(d) # Panic
                        /\ Decoded(d) # Error => \E i \in DOMAIN frames : Data(d) = frames[i]
      BY Zenon DEF SignedWasSent
    <2>1. /\ protocol \in Protocols /\ frames \in Seq(Sent)
      BY Zenon DEF InboundInv, InboundTypeOK
    <2>2. CASE Decoded(d) = Error
      BY <2>2, InboundAssumption
    <2>3. CASE Decoded(d) # Error
      <3> DEFINE D == Data(d)
                 e == Len(D)
                 s == e - SignatureLen
                 x == SubSeq(D, 1, s)
      <3>1. /\ D \in Seq(Byte) /\ d.buffer \in DOMAIN bytes
            /\ \A n \in 1 .. e : D[n] = bytes[d.buffer][n] /\ n \in DOMAIN bytes[d.buffer]
        BY DataBytes, Zenon
      <3>2. /\ ~ (e < metaLength) /\ ~ (s < metaLength)
            /\ Verify(x, SubSeq(D, s + 1, e))
        BY <2>3, Zenon DEF Decoded, DecodeReq
      <3> HIDE DEF D
      <3>3. SubSeq(D, s + 1, e) = Sign(x)
        BY <3>2, Zenon DEF Verify
      <3>4. e \in Nat /\ s \in Nat /\ s < e /\ e \in 1 .. e /\ e = s + SignatureLen
        BY <3>1, <3>2, InboundAssumption DEF metaLength
      <3>5. D[e] = <<"sign", x, SignatureLen>>
        <4>1. Sign(x)[SignatureLen] = <<"sign", x, SignatureLen>>
          <5> HIDE DEF x
          <5>1. SignatureLen \in 1 .. SignatureLen
            BY InboundAssumption
          <5> QED BY <5>1, SignBytes, Zenon
        <4>2. SubSeq(D, s + 1, e)[SignatureLen] = D[e]
          <5> HIDE DEF e, s
          <5> QED BY <3>1, <3>4, InboundAssumption DEF e
        <4> QED BY <3>3, <4>1, <4>2, Zenon
      <3>6. D = x \o Sign(x)
        <4>1. D = SubSeq(D, 1, s) \o SubSeq(D, s + 1, e)
          <5> HIDE DEF s
          <5>1. s \in 0 .. Len(D)
            BY <3>4
          <5> QED BY <3>1, <5>1, SplitAt
        <4> QED BY <3>3, <4>1, Zenon
      <3> HIDE DEF e, s, x
      <3>7. PICK k \in DOMAIN frames :
              e \in DOMAIN frames[k] /\ frames[k][e] = <<"sign", x, SignatureLen>>
        <4>1. \E k \in DOMAIN frames :
                e \in DOMAIN frames[k] /\ bytes[d.buffer][e] = frames[k][e]
          BY <3>1, <3>4, Zenon DEF InboundInv, FromFrames
        <4>2. bytes[d.buffer][e] = <<"sign", x, SignatureLen>>
          BY <3>1, <3>4, <3>5, Zenon
        <4> QED BY <4>1, <4>2, Zenon
      <3>8. frames[k] \in Sent
        BY <2>1
      <3>9. frames[k] \notin ShortFrames
        <4>1. frames[k][e][1] = "sign"
          BY <3>7
        <4> QED BY <3>7, <4>1, InboundAssumption, Zenon
      <3>10. PICK m \in Messages : frames[k] = EncodeFor(protocol, m)
        BY <3>8, <3>9, Zenon DEF Sent, Encode
      <3>11. e \in 1 .. Len(EncodeFor(protocol, m))
        BY <3>7, <3>10, PacketBytes
      <3>12. EncodeFor(protocol, m) = x \o Sign(x)
        BY <3>7, <3>10, <3>11, SignatureEnds, Zenon
      <3>13. Data(d) = EncodeFor(protocol, m)
        BY <3>6, <3>12, Zenon DEF D
      <3>14. Decoded(d) = ExpectedFor(protocol, m)
        BY <2>1, <3>13, DecodeEncoded, Zenon DEF Decoded
      <3>15. ExpectedFor(protocol, m) # Panic
        BY <2>1, InboundAssumption, Zenon
      <3> QED BY <3>10, <3>13, <3>14, <3>15, Zenon
    <2> QED BY <2>2, <2>3
  <1> QED BY <1>1, InboundInvariant, PTL
-----------------------------------------------------------------------------
(* The rate limiter.                                                       *)

\* GetClientIp returns an ip or nothing.
LEMMA ClientIpType ==
    ASSUME NEW h \in Headers
    PROVE  GetClientIp(h) \in Ips \cup {Absent}
<1> DEFINE valid == {n \in DOMAIN h.forwarded : h.forwarded[n] \in Ips}
<1>1. valid \subseteq Nat
  BY LimiterAssumption
<1>2. CASE valid # {}
  <2>1. \E n \in valid : \A m \in valid : n <= m
    BY <1>1, <1>2, LeastNumber
  <2> QED
    BY <2>1 DEF GetClientIp
<1>3. CASE valid = {}
  BY <1>3 DEF GetClientIp
<1> QED
  BY <1>2, <1>3

\* What is known of each bucket.
LEMMA BucketTypes ==
    ASSUME LimiterTypeOK
    PROVE  /\ Len(tokens) \in Nat /\ Buckets = 1 .. Len(tokens)
           /\ tokens \in [Buckets -> Nat] /\ owner \in [Buckets -> Ips]
           /\ capacity \in [Buckets -> Nat] /\ admitted \in [Buckets -> [Ips -> Nat]]
           /\ added \in [Buckets -> Nat]
<1>1. Len(tokens) \in Nat /\ Buckets = 1 .. Len(tokens)
  BY DEF LimiterTypeOK, Buckets
<1>2. /\ Len(owner) = Len(tokens) /\ Len(capacity) = Len(tokens)
      /\ Len(admitted) = Len(tokens) /\ Len(added) = Len(tokens)
  BY DEF LimiterTypeOK
<1>3. tokens \in [Buckets -> Nat]
  BY <1>1, SeqAsFunction DEF LimiterTypeOK
<1>4. owner \in [Buckets -> Ips]
  BY <1>1, <1>2, SeqAsFunction DEF LimiterTypeOK
<1>5. capacity \in [Buckets -> Nat]
  BY <1>1, <1>2, SeqAsFunction DEF LimiterTypeOK
<1>6. admitted \in [Buckets -> [Ips -> Nat]]
  <2>1. admitted \in Seq([Ips -> Nat])
    BY DEF LimiterTypeOK
  <2>2. admitted \in [1 .. Len(admitted) -> [Ips -> Nat]]
    BY <2>1, SeqAsFunction
  <2> QED
    BY <1>1, <1>2, <2>2
<1>7. added \in [Buckets -> Nat]
  BY <1>1, <1>2, SeqAsFunction DEF LimiterTypeOK
<1> QED
  BY <1>1, <1>3, <1>4, <1>5, <1>6, <1>7

\* Buckets, of which there are finitely many, are numbered from 1 on.
LEMMA MadeForFinite ==
    ASSUME LimiterTypeOK, NEW i
    PROVE  /\ Buckets = 1 .. Len(tokens)
           /\ IsFiniteSet(MadeFor(i)) /\ Cardinality(MadeFor(i)) \in Nat
<1>1. Buckets = 1 .. Len(tokens) /\ Len(tokens) \in Nat
  BY DEF LimiterTypeOK, Buckets
<1>2. IsFiniteSet(1 .. Len(tokens))
  BY <1>1, FS_Interval
<1>3. MadeFor(i) \in SUBSET (1 .. Len(tokens))
  BY <1>1 DEF MadeFor
<1> QED
  BY <1>1, <1>2, <1>3, FS_Subset, FS_CardinalityType

\* At most all requests race for an ip.
LEMMA RacingFinite ==
    ASSUME NEW i
    PROVE  /\ IsFiniteSet(Racing(i)) /\ Cardinality(Racing(i)) \in Nat
           /\ Cardinality(Racing(i)) <= Cardinality(Requests)
           /\ Cardinality(Requests) \in Nat
<1>1. Racing(i) \in SUBSET Requests
  BY DEF Racing
<1> QED
  BY <1>1, FS_Subset, FS_CardinalityType, LimiterAssumption

\* No bucket, no request.
LEMMA LimiterInitInv == LimiterInit => LimiterInv
<1> SUFFICES ASSUME LimiterInit PROVE LimiterInv
  OBVIOUS
<1>1. LimiterTypeOK
  BY LimiterAssumption DEF LimiterInit, LimiterTypeOK
<1>2. Buckets = {}
  BY DEF LimiterInit, Buckets
<1>3. OwnBucket /\ Accounts
  BY <1>2 DEF LimiterInit, OwnBucket, Accounts
<1>4. ASSUME NEW i \in Ips
      PROVE  ips[i] = Absent /\ Cardinality(MadeFor(i)) <= Cardinality(Requests) * (inits - 1)
  <2>1. MadeFor(i) = {} /\ Cardinality(MadeFor(i)) = 0
    BY <1>2, FS_EmptySet DEF MadeFor
  <2> QED
    BY <2>1, RacingFinite DEF LimiterInit
<1>5. FewBuckets
  BY <1>4 DEF FewBuckets
<1> QED
  BY <1>1, <1>3, <1>5 DEF LimiterInv

\* A step that makes no bucket leaves every ip the ones it has.
LEMMA NoBucketMade ==
    ASSUME LimiterTypeOK, LimiterTypeOK', owner' = owner
    PROVE  Buckets' = Buckets /\ \A i \in Ips : MadeFor(i)' = MadeFor(i)
<1>1. Len(tokens') = Len(tokens)
  BY DEF LimiterTypeOK
<1>2. Buckets' = Buckets
  BY <1>1 DEF LimiterTypeOK, Buckets
<1> QED
  BY <1>2 DEF MadeFor

\* init makes a new map: the buckets made so far are the share of the middlewares so far.
LEMMA NewMiddlewareInv ==
    ASSUME LimiterInv, NEW n \in Counts, NewMiddleware(n)
    PROVE  LimiterInv'
<1>1. LimiterTypeOK'
  BY LimiterAssumption DEF LimiterInv, LimiterTypeOK, NewMiddleware, buckets, request
<1>2. Buckets' = Buckets /\ \A i \in Ips : MadeFor(i)' = MadeFor(i)
  BY <1>1, NoBucketMade DEF LimiterInv, NewMiddleware, buckets
<1>3. OwnBucket'
  BY <1>2 DEF LimiterInv, LimiterTypeOK, OwnBucket, NewMiddleware, request
<1>4. Accounts'
  BY <1>2 DEF LimiterInv, Accounts, NewMiddleware, buckets
<1>5. ASSUME NEW i \in Ips
      PROVE  /\ ips'[i] = Absent
             /\ Cardinality(MadeFor(i)') <= Cardinality(Requests) * (inits' - 1)
  <2>1. Cardinality(MadeFor(i)) <= Cardinality(Requests) * inits
    <3>1. /\ Cardinality(MadeFor(i)) \in Nat /\ Cardinality(Racing(i)) \in Nat
          /\ Cardinality(Requests) \in Nat /\ inits \in Nat \ {0}
      BY MadeForFinite, RacingFinite DEF LimiterInv, LimiterTypeOK
    <3>2. Cardinality(Requests) * (inits - 1) <= Cardinality(Requests) * inits
      BY <3>1
    <3> QED
      BY <3>1, <3>2 DEF LimiterInv, FewBuckets
  <2>2. inits' - 1 = inits
    BY DEF LimiterInv, LimiterTypeOK, NewMiddleware
  <2> QED
    BY <1>2, <2>1, <2>2 DEF NewMiddleware
<1>6. FewBuckets'
  BY <1>5 DEF FewBuckets
<1> QED
  BY <1>1, <1>3, <1>4, <1>6 DEF LimiterInv

\* Neither entering the middleware nor looking an ip up makes or uses a bucket.
LEMMA LookingInv ==
    ASSUME LimiterInv, LimiterTypeOK', OwnBucket', UNCHANGED <<ips, buckets, limiter>>,
           \A i \in Ips : ips[i] # Absent => Racing(i)' = Racing(i)
    PROVE  LimiterInv'
<1>1. Buckets' = Buckets /\ \A i \in Ips : MadeFor(i)' = MadeFor(i)
  BY NoBucketMade DEF LimiterInv, buckets
<1>2. Accounts'
  BY <1>1 DEF LimiterInv, Accounts, buckets
<1>3. FewBuckets'
  BY <1>1 DEF LimiterInv, FewBuckets, limiter
<1> QED
  BY <1>2, <1>3 DEF LimiterInv

\* A request comes.
LEMMA EnterInv ==
    ASSUME LimiterInv, NEW r \in Requests, NEW h \in Headers, Enter(r, h)
    PROVE  LimiterInv'
<1>1. GetClientIp(h) \in Ips \cup {Absent}
  BY ClientIpType
<1>2. LimiterTypeOK'
  BY <1>1 DEF LimiterInv, LimiterTypeOK, Enter, buckets, limiter
<1>3. Buckets' = Buckets /\ \A i \in Ips : MadeFor(i)' = MadeFor(i)
  BY <1>2, NoBucketMade DEF LimiterInv, Enter, buckets
<1>4. OwnBucket'
  <2>1. \A i \in Ips : ips'[i] # Absent => ips'[i] \in MadeFor(i)'
    BY <1>3 DEF LimiterInv, OwnBucket, Enter
  <2>2. ASSUME NEW q \in Requests
        PROVE  (/\ pc[q] # "idle" => ip[q] \in Ips
                /\ pc[q] = "allow" => lm[q] \in MadeFor(ip[q]))'
    <3>1. CASE q # r
      <4>1. pc'[q] = pc[q] /\ ip'[q] = ip[q] /\ lm'[q] = lm[q]
        BY <3>1 DEF LimiterInv, LimiterTypeOK, Enter
      <4> QED
        BY <1>3, <4>1 DEF LimiterInv, OwnBucket
    <3>2. CASE q = r
      BY <1>1, <3>2 DEF LimiterInv, LimiterTypeOK, Enter
    <3> QED
      BY <3>1, <3>2
  <2> QED
    BY <2>1, <2>2 DEF OwnBucket
<1>5. ASSUME NEW i \in Ips PROVE Racing(i)' = Racing(i)
  BY DEF LimiterInv, LimiterTypeOK, Racing, Enter
<1> QED
  BY <1>2, <1>4, <1>5, LookingInv DEF Enter

\* It looks up its bucket.
LEMMA GetInv ==
    ASSUME LimiterInv, NEW r \in Requests, Get(r)
    PROVE  LimiterInv'
<1>1. ip[r] \in Ips
  BY DEF LimiterInv, OwnBucket, Get
<1>2. LimiterTypeOK'
  BY <1>1 DEF LimiterInv, LimiterTypeOK, Get, buckets, limiter
<1>3. Buckets' = Buckets /\ \A i \in Ips : MadeFor(i)' = MadeFor(i)
  BY <1>2, NoBucketMade DEF LimiterInv, Get, buckets
<1>4. OwnBucket'
  BY <1>1, <1>3 DEF LimiterInv, LimiterTypeOK, OwnBucket, Get
<1>5. ASSUME NEW i \in Ips, ips[i] # Absent PROVE Racing(i)' = Racing(i)
  BY <1>5 DEF LimiterInv, LimiterTypeOK, Racing, Get
<1> QED
  BY <1>2, <1>4, <1>5, LookingInv DEF Get

\* addIp: the new bucket is its ip's own, and one request fewer races for the ip.
LEMMA AddIpInv ==
    ASSUME LimiterInv, NEW r \in Requests, AddIp(r)
    PROVE  LimiterInv'
<1> DEFINE new == Len(tokens) + 1
<1>1. PICK i \in Ips : ip[r] = i /\ ip'[r] = i
  BY DEF LimiterInv, OwnBucket, AddIp
<1>2. LimiterTypeOK'
  BY <1>1 DEF LimiterInv, LimiterTypeOK, AddIp, NewLimiter, limiter
<1>3. Buckets = 1 .. Len(tokens) /\ Buckets' = Buckets \cup {new} /\ new \notin Buckets
  <2>1. tokens \in Seq(Nat) /\ b \in Nat /\ tokens' = Append(tokens, b)
    BY DEF LimiterInv, LimiterTypeOK, AddIp, NewLimiter
  <2>2. Len(tokens) \in Nat /\ DOMAIN tokens = 1 .. Len(tokens) /\ DOMAIN tokens' = 1 .. new
    BY <2>1
  <2> QED
    BY <2>2 DEF Buckets
<1>4. ASSUME NEW k \in Buckets
      PROVE  /\ tokens'[k] = tokens[k] /\ admitted'[k] = admitted[k]
             /\ capacity'[k] = capacity[k] /\ added'[k] = added[k] /\ owner'[k] = owner[k]
  <2>1. tokens'[k] = tokens[k]
    BY <1>3 DEF LimiterInv, LimiterTypeOK, AddIp, NewLimiter
  <2>2. admitted'[k] = admitted[k]
    BY <1>3 DEF LimiterInv, LimiterTypeOK, AddIp, NewLimiter
  <2>3. capacity'[k] = capacity[k]
    BY <1>3 DEF LimiterInv, LimiterTypeOK, AddIp, NewLimiter
  <2>4. added'[k] = added[k]
    BY <1>3 DEF LimiterInv, LimiterTypeOK, AddIp, NewLimiter
  <2>5. owner'[k] = owner[k]
    BY <1>3 DEF LimiterInv, LimiterTypeOK, AddIp, NewLimiter
  <2> QED
    BY <2>1, <2>2, <2>3, <2>4, <2>5
<1>5. /\ tokens'[new] = b /\ admitted'[new] = [j \in Ips |-> 0]
      /\ capacity'[new] = b /\ added'[new] = 0 /\ owner'[new] = i
  BY <1>1, <1>3 DEF LimiterInv, LimiterTypeOK, AddIp, NewLimiter
<1>6. ASSUME NEW j \in Ips
      PROVE  MadeFor(j)' = IF j = i THEN MadeFor(j) \cup {new} ELSE MadeFor(j)
  BY <1>3, <1>4, <1>5 DEF MadeFor
<1>7. OwnBucket'
  BY <1>1, <1>6 DEF LimiterInv, LimiterTypeOK, OwnBucket, AddIp
<1>8. Accounts'
  BY <1>1, <1>3, <1>4, <1>5 DEF LimiterInv, Accounts
<1>9. ASSUME NEW j \in Ips, j # i
      PROVE  ips'[j] = ips[j] /\ MadeFor(j)' = MadeFor(j) /\ Racing(j)' = Racing(j)
  BY <1>1, <1>6, <1>9 DEF LimiterInv, LimiterTypeOK, AddIp, Racing
<1>10. /\ ips'[i] # Absent
       /\ Cardinality(MadeFor(i)') + Cardinality(Racing(i)') <= Cardinality(Requests) * inits
  <2> DEFINE R == Cardinality(Requests)
  <2>1. ips'[i] # Absent
    BY <1>1, LimiterAssumption DEF LimiterInv, LimiterTypeOK, AddIp
  <2>2. /\ Cardinality(MadeFor(i)) \in Nat
        /\ Cardinality(MadeFor(i)') = Cardinality(MadeFor(i)) + 1
    <3>1. MadeFor(i)' = MadeFor(i) \cup {new} /\ new \notin MadeFor(i)
      BY <1>3, <1>6 DEF MadeFor
    <3> QED
      BY <3>1, FS_AddElement, MadeForFinite DEF LimiterInv
  <2>3. Racing(i)' = Racing(i) \ {r} /\ r \in Racing(i)
    BY <1>1 DEF LimiterInv, LimiterTypeOK, AddIp, Racing
  <2>4. /\ Cardinality(Racing(i)) \in Nat /\ Cardinality(Racing(i)) <= R /\ R \in Nat
        /\ Cardinality(Racing(i)') = Cardinality(Racing(i)) - 1
    BY <2>3, RacingFinite, FS_RemoveElement
  <2>5. inits \in Nat /\ R * inits \in Nat /\ R * (inits - 1) = R * inits - R
    BY <2>4 DEF LimiterInv, LimiterTypeOK
  <2>6. IF ips[i] = Absent
        THEN Cardinality(MadeFor(i)) <= R * (inits - 1)
        ELSE Cardinality(MadeFor(i)) + Cardinality(Racing(i)) <= R * inits
    BY DEF LimiterInv, FewBuckets
  <2> QED
    BY SMTT(30), <2>1, <2>2, <2>4, <2>5, <2>6
<1>11. FewBuckets'
  BY <1>9, <1>10 DEF LimiterInv, FewBuckets, AddIp, limiter
<1> QED
  BY <1>2, <1>7, <1>8, <1>11 DEF LimiterInv

\* Allow and the passing of limitInterval keep the accounts of a bucket and leave alone
\* which buckets there are and who races for one.
LEMMA TokenInv ==
    ASSUME LimiterInv, LimiterTypeOK', OwnBucket', Accounts', owner' = owner,
           UNCHANGED <<ips, limiter>>, \A i \in Ips : Racing(i)' = Racing(i)
    PROVE  LimiterInv'
<1>1. \A i \in Ips : MadeFor(i)' = MadeFor(i)
  BY NoBucketMade DEF LimiterInv
<1>2. FewBuckets'
  BY <1>1 DEF LimiterInv, FewBuckets, limiter
<1> QED
  BY <1>2 DEF LimiterInv

\* A request takes a token, or is refused.
LEMMA AllowInv ==
    ASSUME LimiterInv, NEW r \in Requests, Allow(r)
    PROVE  LimiterInv'
<1>1. PICK k \in Buckets : lm[r] = k /\ owner[k] = ip[r] /\ ip[r] \in Ips
  BY DEF LimiterInv, OwnBucket, Allow, MadeFor
<1>2. Buckets = 1 .. Len(tokens) /\ Len(tokens) \in Nat
  BY BucketTypes DEF LimiterInv
<1>3. /\ tokens \in [Buckets -> Nat] /\ admitted \in [Buckets -> [Ips -> Nat]]
      /\ capacity \in [Buckets -> Nat] /\ added \in [Buckets -> Nat]
      /\ owner \in [Buckets -> Ips]
  BY BucketTypes DEF LimiterInv
<1>4. \/ tokens' = tokens /\ admitted' = admitted
      \/ /\ tokens[k] > 0 /\ tokens' = [tokens EXCEPT ![k] = @ - 1]
         /\ admitted' = [admitted EXCEPT ![k][ip[r]] = @ + 1]
  BY <1>1 DEF Allow
<1>5. /\ tokens' \in Seq(Nat) /\ admitted' \in Seq([Ips -> Nat])
      /\ Len(tokens') = Len(tokens) /\ Len(admitted') = Len(tokens)
  <2>1. tokens' \in [Buckets -> Nat]
    BY <1>3, <1>4
  <2>2. admitted' \in [Buckets -> [Ips -> Nat]]
    <3> DEFINE row == [admitted[k] EXCEPT ![ip[r]] = @ + 1]
    <3>1. admitted' = admitted \/ admitted' = [admitted EXCEPT ![k] = row]
      BY <1>4
    <3>2. row \in [Ips -> Nat]
      BY <1>1, <1>3
    <3> HIDE DEF row
    <3> QED
      BY <1>3, <3>1, <3>2
  <2> QED
    BY <1>2, <2>1, <2>2, FunctionAsSeq
<1>6. LimiterTypeOK'
  BY <1>5 DEF LimiterInv, LimiterTypeOK, Allow, limiter
<1>7. Buckets' = Buckets /\ \A i \in Ips : MadeFor(i)' = MadeFor(i)
  BY <1>6, NoBucketMade DEF LimiterInv, Allow
<1>8. OwnBucket'
  BY <1>7 DEF LimiterInv, LimiterTypeOK, OwnBucket, Allow
<1>9. Accounts'
  <2>1. owner' = owner /\ capacity' = capacity /\ added' = added
    BY DEF Allow
  <2>2. ASSUME NEW m \in Buckets
        PROVE  /\ tokens'[m] + admitted'[m][owner[m]] = capacity[m] + added[m]
               /\ \A i \in Ips \ {owner[m]} : admitted'[m][i] = 0
    <3>1. /\ tokens[m] \in Nat /\ admitted[m] \in [Ips -> Nat] /\ owner[m] \in Ips
          /\ capacity[m] \in Nat /\ added[m] \in Nat
      BY <1>3
    <3>2. /\ tokens[m] + admitted[m][owner[m]] = capacity[m] + added[m]
          /\ \A i \in Ips \ {owner[m]} : admitted[m][i] = 0
      BY DEF LimiterInv, Accounts
    <3>3. CASE tokens'[m] = tokens[m] /\ admitted'[m] = admitted[m]
      BY <3>2, <3>3
    <3>4. CASE ~ (tokens'[m] = tokens[m] /\ admitted'[m] = admitted[m])
      <4>1. m = k /\ tokens'[m] = tokens[m] - 1
        BY <1>3, <1>4, <3>4
      <4>2. admitted'[m] = [admitted[m] EXCEPT ![owner[m]] = @ + 1]
        BY <1>1, <1>3, <1>4, <3>4, <4>1
      <4>3. /\ admitted'[m][owner[m]] = admitted[m][owner[m]] + 1
            /\ \A i \in Ips \ {owner[m]} : admitted'[m][i] = admitted[m][i]
        BY <3>1, <4>2
      <4>4. admitted[m][owner[m]] \in Nat
        BY <3>1
      <4> QED
        BY SMTT(30), <3>1, <3>2, <4>1, <4>3, <4>4
    <3> QED
      BY <3>3, <3>4
  <2> QED
    BY <1>7, <2>1, <2>2 DEF Accounts
<1>10. ASSUME NEW i \in Ips PROVE Racing(i)' = Racing(i)
  BY DEF LimiterInv, LimiterTypeOK, Racing, Allow
<1> QED
  BY <1>6, <1>8, <1>9, <1>10, TokenInv DEF Allow

\* A token is added.
LEMMA RefillInv ==
    ASSUME LimiterInv, NEW k \in Buckets, Refill(k)
    PROVE  LimiterInv'
<1>1. Buckets = 1 .. Len(tokens) /\ Len(tokens) \in Nat
  BY BucketTypes DEF LimiterInv
<1>2. /\ tokens \in [Buckets -> Nat] /\ admitted \in [Buckets -> [Ips -> Nat]]
      /\ capacity \in [Buckets -> Nat] /\ added \in [Buckets -> Nat]
      /\ owner \in [Buckets -> Ips]
  BY BucketTypes DEF LimiterInv
<1>3. /\ tokens' \in [Buckets -> Nat] /\ added' \in [Buckets -> Nat]
      /\ tokens'[k] = tokens[k] + 1 /\ added'[k] = added[k] + 1
      /\ \A m \in Buckets \ {k} : tokens'[m] = tokens[m] /\ added'[m] = added[m]
  BY <1>2 DEF Refill
<1>4. /\ tokens' \in Seq(Nat) /\ added' \in Seq(Nat)
      /\ Len(tokens') = Len(tokens) /\ Len(added') = Len(tokens)
  BY <1>1, <1>3, FunctionAsSeq
<1>5. LimiterTypeOK'
  BY <1>4 DEF LimiterInv, LimiterTypeOK, Refill, limiter, request
<1>6. Buckets' = Buckets /\ \A i \in Ips : MadeFor(i)' = MadeFor(i)
  BY <1>5, NoBucketMade DEF LimiterInv, Refill
<1>7. OwnBucket'
  BY <1>6 DEF LimiterInv, LimiterTypeOK, OwnBucket, Refill, request
<1>8. Accounts'
  <2>1. owner' = owner /\ capacity' = capacity /\ admitted' = admitted
    BY DEF Refill
  <2>2. ASSUME NEW m \in Buckets
        PROVE  tokens'[m] + admitted[m][owner[m]] = capacity[m] + added'[m]
    <3>1. /\ tokens[m] \in Nat /\ admitted[m][owner[m]] \in Nat
          /\ capacity[m] \in Nat /\ added[m] \in Nat
      BY <1>2
    <3>2. tokens[m] + admitted[m][owner[m]] = capacity[m] + added[m]
      BY DEF LimiterInv, Accounts
    <3>3. CASE m = k
      <4>1. tokens'[m] = tokens[m] + 1 /\ added'[m] = added[m] + 1
        BY Zenon, <1>3, <3>3
      <4> QED
        BY ONLY <3>1, <3>2, <4>1
    <3>4. CASE m # k
      <4>1. tokens'[m] = tokens[m] /\ added'[m] = added[m]
        BY Zenon, <1>3, <3>4
      <4> QED
        BY Zenon, <3>2, <4>1
    <3> QED
      BY Zenon, <3>3, <3>4
  <2> QED
    BY <1>6, <2>1, <2>2 DEF LimiterInv, Accounts
<1>9. ASSUME NEW i \in Ips PROVE Racing(i)' = Racing(i)
  BY DEF Racing, Refill, request
<1> QED
  BY <1>5, <1>7, <1>8, <1>9, TokenInv DEF Refill

\* The accounts of the buckets and their number hold through every step of the
\* middlewares, for any ips, requests and capacities.
THEOREM LimiterInvariant == LimiterSpec => []LimiterInv
<1>1. LimiterInv /\ [LimiterNext]_limiterVars => LimiterInv'
  <2> SUFFICES ASSUME LimiterInv, [LimiterNext]_limiterVars PROVE LimiterInv'
    OBVIOUS
  <2>1. CASE LimiterNext
    BY <2>1, NewMiddlewareInv, EnterInv, GetInv, AddIpInv, AllowInv, RefillInv
       DEF LimiterNext
  <2>2. CASE UNCHANGED limiterVars
    BY ZenonT(30), <2>2 DEF LimiterInv, LimiterTypeOK, OwnBucket, Accounts, FewBuckets, MadeFor, Racing,
                Buckets, limiterVars, buckets, limiter, request
  <2> QED
    BY <2>1, <2>2
<1> QED
  BY <1>1, LimiterInitInv, PTL DEF LimiterSpec

\* A bucket of rate-limter.go lets through only the ip it was made for and no more often
\* than it had tokens, and an ip has per middleware no more buckets than requests that
\* can race between get's read lock and addIp's write lock.
THEOREM LimiterWithinBuckets == LimiterSpec => []WithinBuckets
<1>1. LimiterInv => WithinBuckets
  <2> SUFFICES ASSUME LimiterInv PROVE WithinBuckets
    OBVIOUS
  <2>1. ASSUME NEW k \in Buckets, NEW i \in Ips
        PROVE  admitted[k][i] <= IF i = owner[k] THEN capacity[k] + added[k] ELSE 0
    <3>1. /\ tokens[k] \in Nat /\ admitted[k] \in [Ips -> Nat] /\ capacity[k] \in Nat
          /\ added[k] \in Nat /\ owner[k] \in Ips
      BY BucketTypes DEF LimiterInv
    <3> QED
      BY SMTT(30), <3>1 DEF LimiterInv, Accounts
  <2>2. ASSUME NEW i \in Ips
        PROVE  Cardinality(MadeFor(i)) <= Cardinality(Requests) * inits
    <3>1. /\ Cardinality(MadeFor(i)) \in Nat /\ Cardinality(Racing(i)) \in Nat
          /\ Cardinality(Requests) \in Nat /\ inits \in Nat \ {0}
      BY MadeForFinite, RacingFinite DEF LimiterInv, LimiterTypeOK
    <3>2. Cardinality(Requests) * (inits - 1) <= Cardinality(Requests) * inits
      BY <3>1
    <3> QED
      BY <3>1, <3>2 DEF LimiterInv, FewBuckets
  <2> QED
    BY <2>1, <2>2 DEF WithinBuckets
<1> QED
  BY <1>1, LimiterInvariant, PTL
=============================================================================
