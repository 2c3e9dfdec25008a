----------------------------- MODULE DataLemmas -----------------------------
(***************************************************************************)
(* Facts about numbers and sequences that the other proofs rest on.        *)
(*                                                                         *)
(* Induction over numbers has a set for its predicate.  A recursion over   *)
(* numbers has a function for its step: Recursion says that it defines a   *)
(* function, SameRecursion that it defines only one; for a loop over items *)
(* LoopHas says the first, and AllAlong follows what it keeps.             *)
(***************************************************************************)
EXTENDS Integers, Sequences, FiniteSetTheorems, TLAPS

\* A nonempty set of numbers has a least element: the one with the fewest below it.
LEMMA LeastNumber ==
    ASSUME NEW S \in SUBSET Nat, S # {}
    PROVE  \E n \in S : \A m \in S : n <= m
<1> DEFINE Smaller(n) == {m \in S : m < n}
           T == {Smaller(n) : n \in S}
<1>1. ASSUME NEW n \in S PROVE Smaller(n) \in FiniteSubsetsOf(Nat)
  <2>1. Smaller(n) \in SUBSET Nat /\ n \in Nat
    BY Zenon
  <2>2. \A m \in S : m \in Nat
    BY Zenon
  <2>3. \A m \in Smaller(n) : m <= n
    BY <2>1, <2>2
  <2> QED
    BY <2>1, <2>3, FS_BoundedSetOfNaturals DEF FiniteSubsetsOf
<1>2. T \subseteq FiniteSubsetsOf(Nat) /\ T # {}
  BY <1>1
<1>3. PICK U \in T : \A V \in T : ~ (<<V, U>> \in StrictSubsetOrdering(Nat))
  BY <1>2, WFMin, FS_StrictSubsetOrderingWellFounded
<1>4. PICK n \in S : U = Smaller(n)
  OBVIOUS
<1>5. ASSUME NEW m \in S, ~ (n <= m) PROVE FALSE
  <2>1. m \in Nat /\ n \in Nat /\ m < n
    BY <1>5
  <2>2. m \in Smaller(n) /\ m \notin Smaller(m)
    BY <2>1
  <2>3. ASSUME NEW k \in Smaller(m) PROVE k \in Smaller(n)
    <3>1. k \in S /\ k \in Nat /\ k < m
      BY Zenon, <2>3
    <3> QED
      BY <2>1, <3>1
  <2>4. <<Smaller(m), Smaller(n)>> \in StrictSubsetOrdering(Nat)
    BY <2>2, <2>3 DEF StrictSubsetOrdering
  <2> QED
    BY <1>3, <1>4, <2>4
<1> QED
  BY <1>5

\* A set that has a number whenever it has all smaller ones has all numbers.
LEMMA Induction ==
    ASSUME NEW P, \A n \in Nat : (\A m \in Nat : m < n => m \in P) => n \in P
    PROVE  Nat \subseteq P
<1> SUFFICES ASSUME Nat \ P # {} PROVE FALSE
  OBVIOUS
<1>1. PICK n \in Nat \ P : \A m \in Nat \ P : n <= m
  BY LeastNumber
<1>2. \A m \in Nat : m < n => m \in P
  BY <1>1
<1> QED
  BY <1>1, <1>2

\* pred leads from every number up to N to a smaller one.
Descends(pred, N) == pred \in [1 .. N -> Nat] /\ \A k \in 1 .. N : pred[k] < k

\* f is base at 0, and then comes from f at pred by step.
Follows(f, base, step, pred, N) ==
    f[0] = base /\ \A k \in 1 .. N : f[k] = step[k][f[pred[k]]]

\* f and g go on in the same way.
GoesAlong(f, g, pred, N) ==
    f[0] = g[0] /\ \A k \in 1 .. N : f[pred[k]] = g[pred[k]] => f[k] = g[k]

\* A recursion whose k-th value comes from that of a smaller number defines a function.
LEMMA Recursion ==
    ASSUME NEW S, NEW base \in S, NEW N \in Nat, NEW pred, Descends(pred, N),
           NEW step \in [1 .. N -> [S -> S]]
    PROVE  \E f \in [0 .. N -> S] : Follows(f, base, step, pred, N)
<1> DEFINE P == {n \in Nat : n <= N => \E f \in [0 .. n -> S] : Follows(f, base, step, pred, n)}
<1> USE DEF Descends, Follows
<1>1. ASSUME NEW n \in Nat, \A m \in Nat : m < n => m \in P PROVE n \in P
  <2>1. CASE n = 0
    <3>1. [k \in 0 .. n |-> base] \in [0 .. n -> S]
      OBVIOUS
    <3>2. Follows([k \in 0 .. n |-> base], base, step, pred, n)
      BY <2>1
    <3> QED
      BY <3>1, <3>2
  <2>2. CASE n # 0 /\ n <= N
    <3>1. n - 1 \in P /\ n - 1 <= N
      <4>1. n - 1 \in Nat /\ n - 1 < n /\ n - 1 <= N
        BY <2>2
      <4> HIDE DEF P
      <4> QED
        BY <1>1, <4>1
    <3>2. PICK f \in [0 .. n - 1 -> S] : Follows(f, base, step, pred, n - 1)
      BY <3>1
    <3> DEFINE g == [k \in 0 .. n |-> IF k = n THEN step[n][f[pred[n]]] ELSE f[k]]
    <3>3. n \in 1 .. N /\ pred[n] \in 0 .. n - 1
      BY <2>2
    <3>4. f[pred[n]] \in S /\ step[n] \in [S -> S]
      BY <3>3
    <3>5. step[n][f[pred[n]]] \in S
      BY <3>4
    <3>6. g \in [0 .. n -> S]
      BY <2>2, <3>5
    <3>7. g[0] = base
      BY <2>2, <3>2
    <3>8. ASSUME NEW k \in 1 .. n PROVE g[k] = step[k][g[pred[k]]]
      <4>1. k \in 1 .. N /\ pred[k] \in 0 .. k - 1
        BY <2>2
      <4>2. pred[k] # n /\ pred[k] \in 0 .. n
        BY <4>1
      <4>3. g[pred[k]] = f[pred[k]]
        BY <4>2
      <4>4. CASE k = n
        <5>1. g[n] = step[n][f[pred[n]]]
          OBVIOUS
        <5> QED
          BY Zenon, <4>3, <4>4, <5>1
      <4>5. CASE k # n
        <5>1. k \in 1 .. n - 1
          BY <4>5
        <5>2. f[k] = step[k][f[pred[k]]]
          BY <3>2, <5>1
        <5> QED
          BY <4>3, <4>5, <5>2
      <4> QED
        BY <4>4, <4>5
    <3>9. Follows(g, base, step, pred, n)
      BY <3>7, <3>8
    <3> QED
      BY <3>6, <3>9
  <2> QED
    BY <2>1, <2>2
<1>2. N \in P
  <2> HIDE DEF P
  <2> QED
    BY <1>1, Induction
<1> QED
  BY <1>2

\* Two functions that a recursion takes along the same way are the same.
LEMMA SameRecursion ==
    ASSUME NEW N \in Nat, NEW pred, Descends(pred, N), NEW f, NEW g, GoesAlong(f, g, pred, N)
    PROVE  \A k \in 0 .. N : f[k] = g[k]
<1> USE DEF Descends, GoesAlong
<1> DEFINE P == {n \in Nat : n <= N => f[n] = g[n]}
<1>1. ASSUME NEW n \in Nat, \A m \in Nat : m < n => m \in P PROVE n \in P
  <2>1. CASE n \in 1 .. N
    <3>1. pred[n] \in Nat /\ pred[n] < n /\ pred[n] <= N
      BY <2>1
    <3>2. pred[n] \in P
      BY Zenon, <1>1, <3>1
    <3> QED
      BY <2>1, <3>1, <3>2
  <2>2. CASE n \notin 1 .. N
    BY <2>2
  <2> QED
    BY <2>1, <2>2
<1>2. Nat \subseteq P
  <2> HIDE DEF P
  <2> QED
    BY <1>1, Induction
<1> QED
  BY <1>2
-----------------------------------------------------------------------------
(* Sequences.                                                              *)

\* A sequence is a function on the numbers up to its length, and the other way round.
LEMMA SeqAsFunction ==
    ASSUME NEW S, NEW f \in Seq(S)
    PROVE  Len(f) \in Nat /\ f \in [1 .. Len(f) -> S]
OBVIOUS

\* Its items are items of the set.
LEMMA SeqItem ==
    ASSUME NEW S, NEW f \in Seq(S), NEW n \in DOMAIN f
    PROVE  f[n] \in S
OBVIOUS

\* One that is not empty has a last item.
LEMMA LastItem ==
    ASSUME NEW S, NEW f \in Seq(S), f # <<>>
    PROVE  Len(f) \in DOMAIN f /\ f[Len(f)] \in S
OBVIOUS

\* A function on 1 .. n is a sequence.
LEMMA FunctionAsSeq ==
    ASSUME NEW S, NEW n \in Nat, NEW f \in [1 .. n -> S]
    PROVE  f \in Seq(S) /\ Len(f) = n
OBVIOUS

\* Sequences with the same items are the same.
LEMMA SameItems ==
    ASSUME NEW S, NEW f \in Seq(S), NEW g \in Seq(S), Len(f) = Len(g),
           \A n \in 1 .. Len(f) : f[n] = g[n]
    PROVE  f = g
OBVIOUS

\* The items of two sequences joined, and of the tail of one.
LEMMA JoinedItems ==
    ASSUME NEW S, NEW f \in Seq(S), NEW g \in Seq(S)
    PROVE  /\ f \o g \in Seq(S) /\ Len(f \o g) = Len(f) + Len(g)
           /\ \A n \in 1 .. Len(f) + Len(g) :
                  (f \o g)[n] = IF n <= Len(f) THEN f[n] ELSE g[n - Len(f)]
OBVIOUS

\* A sequence without its first item.
LEMMA TailItems ==
    ASSUME NEW S, NEW f \in Seq(S), f # <<>>
    PROVE  /\ Len(f) \in Nat \ {0} /\ Head(f) = f[1]
           /\ Tail(f) \in Seq(S) /\ Len(Tail(f)) = Len(f) - 1
           /\ \A n \in 1 .. Len(f) - 1 : Tail(f)[n] = f[n + 1]
OBVIOUS

\* One item in front of others.
LEMMA FirstItem ==
    ASSUME NEW S, NEW v \in S, NEW s \in Seq(S)
    PROVE  /\ <<v>> \o s \in Seq(S) /\ <<v>> \o s # <<>>
           /\ Len(<<v>> \o s) = Len(s) + 1
           /\ Head(<<v>> \o s) = v /\ Tail(<<v>> \o s) = s
           /\ (<<v>> \o s)[1] = v /\ \A n \in 1 .. Len(s) : (<<v>> \o s)[n + 1] = s[n]
<1>1. <<v>> \in Seq(S) /\ Len(<<v>>) = 1 /\ Len(s) \in Nat
  OBVIOUS
<1>2. /\ <<v>> \o s \in Seq(S) /\ Len(<<v>> \o s) = 1 + Len(s)
      /\ \A n \in 1 .. 1 + Len(s) : (<<v>> \o s)[n] = IF n <= 1 THEN v ELSE s[n - 1]
  BY <1>1, JoinedItems
<1>3. <<v>> \o s # <<>>
  BY <1>1, <1>2
<1>4. (<<v>> \o s)[1] = v
  BY <1>1, <1>2
<1>5. ASSUME NEW n \in 1 .. Len(s) PROVE (<<v>> \o s)[n + 1] = s[n]
  BY <1>1, <1>2
<1>6. /\ Head(<<v>> \o s) = (<<v>> \o s)[1]
      /\ Tail(<<v>> \o s) \in Seq(S) /\ Len(Tail(<<v>> \o s)) = Len(s)
      /\ \A n \in 1 .. Len(s) : Tail(<<v>> \o s)[n] = (<<v>> \o s)[n + 1]
  BY <1>1, <1>2, <1>3, TailItems
<1>7. Tail(<<v>> \o s) = s
  BY <1>5, <1>6, SameItems
<1> QED
  BY <1>1, <1>2, <1>3, <1>4, <1>5, <1>6, <1>7

\* A sequence with an item appended.
LEMMA AppendJoins ==
    ASSUME NEW S, NEW s \in Seq(S), NEW w \in S
    PROVE  Append(s, w) = s \o <<w>>
OBVIOUS

\* An item at the end of a sequence.
LEMMA AppendedItems ==
    ASSUME NEW S, NEW s \in Seq(S), NEW w \in S
    PROVE  /\ Append(s, w) \in Seq(S) /\ Len(s) \in Nat /\ Len(Append(s, w)) = Len(s) + 1
           /\ Append(s, w)[Len(s) + 1] = w /\ \A n \in 1 .. Len(s) : Append(s, w)[n] = s[n]
OBVIOUS

\* The first items of a sequence.
Upto(t, j) == [i \in 1 .. j |-> t[i]]

\* They grow item by item, from none to all.
LEMMA UptoIs ==
    ASSUME NEW W, NEW t \in Seq(W), NEW j \in 0 .. Len(t)
    PROVE  /\ Upto(t, j) \in Seq(W) /\ Len(Upto(t, j)) = j
           /\ j = 0 => Upto(t, j) = <<>>
           /\ j = Len(t) => Upto(t, j) = t
           /\ j # 0 => t[j] \in W /\ Upto(t, j) = Append(Upto(t, j - 1), t[j])
<1>1. Len(t) \in Nat /\ t \in [1 .. Len(t) -> W]
  BY SeqAsFunction
<1>2. \A k \in 0 .. Len(t) : Upto(t, k) \in Seq(W) /\ Len(Upto(t, k)) = k
  <2> SUFFICES ASSUME NEW k \in 0 .. Len(t) PROVE Upto(t, k) \in Seq(W) /\ Len(Upto(t, k)) = k
    OBVIOUS
  <2>1. k \in Nat /\ \A i \in 1 .. k : i \in 1 .. Len(t)
    BY <1>1
  <2>2. Upto(t, k) \in [1 .. k -> W]
    BY Zenon, <1>1, <2>1 DEF Upto
  <2> QED
    BY Zenon, <2>1, <2>2, FunctionAsSeq
<1>3. j = 0 => Upto(t, j) = <<>>
  BY <1>2
<1>4. j = Len(t) => Upto(t, j) = t
  BY Zenon, <1>1 DEF Upto
<1>5. ASSUME j # 0 PROVE t[j] \in W /\ Upto(t, j) = Append(Upto(t, j - 1), t[j])
  <2> DEFINE s == Upto(t, j - 1)
             u == Append(s, t[j])
             w == Upto(t, j)
  <2>1. j \in Nat \ {0} /\ j \in 1 .. Len(t) /\ j - 1 \in 0 .. Len(t)
    BY <1>1, <1>5
  <2>2. t[j] \in W
    BY Zenon, <1>1, <2>1
  <2>3. s \in Seq(W) /\ Len(s) = j - 1 /\ w \in Seq(W) /\ Len(w) = j
    BY Zenon, <1>2, <2>1
  <2>4. /\ \A i \in 1 .. j - 1 : s[i] = t[i]
        /\ \A i \in 1 .. j : w[i] = t[i]
    BY Zenon DEF Upto
  <2> HIDE DEF s, w
  <2>5. /\ u \in Seq(W) /\ Len(u) = Len(s) + 1 /\ u[Len(s) + 1] = t[j]
        /\ \A i \in 1 .. Len(s) : u[i] = s[i]
    BY ONLY <2>2, <2>3, AppendedItems
  <2> HIDE DEF u
  <2>6. Len(u) = j /\ u[j] = t[j] /\ \A i \in 1 .. j - 1 : u[i] = t[i]
    BY <2>1, <2>3, <2>4, <2>5
  <2>7. \A i \in 1 .. j : i = j \/ i \in 1 .. j - 1
    BY <2>1
  <2>8. \A i \in 1 .. j : u[i] = w[i]
    BY Zenon, <2>4, <2>6, <2>7
  <2>9. u = w
    BY <2>3, <2>5, <2>6, <2>8
  <2> QED
    BY Zenon, <2>2, <2>9 DEF s, u, w
<1> QED
  BY Zenon, <1>2, <1>3, <1>4, <1>5

\* The last item of a sequence is read and replaced.
LEMMA ChangeLast ==
    ASSUME NEW S, NEW p \in Seq(S), NEW v \in S, NEW w \in S
    PROVE  /\ Append(p, v)[Len(Append(p, v))] = v
           /\ [Append(p, v) EXCEPT ![Len(Append(p, v))] = w] = Append(p, w)
<1> DEFINE f == Append(p, v)
           g == Append(p, w)
           N == Len(p) + 1
           h == [f EXCEPT ![N] = w]
<1>1. /\ f \in Seq(S) /\ Len(p) \in Nat /\ Len(f) = N /\ f[N] = v
      /\ \A n \in 1 .. Len(p) : f[n] = p[n]
  BY AppendedItems
<1>2. /\ g \in Seq(S) /\ Len(g) = N /\ g[N] = w
      /\ \A n \in 1 .. Len(p) : g[n] = p[n]
  BY AppendedItems
<1> HIDE DEF f, g
<1>3. f \in [1 .. N -> S] /\ g \in [1 .. N -> S] /\ N \in 1 .. N
  BY <1>1, <1>2
<1>4. \A n \in 1 .. N : n = N \/ n \in 1 .. Len(p)
  BY <1>1
<1> HIDE DEF N
<1>5. \A n \in 1 .. N : h[n] = g[n]
  BY Zenon, <1>1, <1>2, <1>3, <1>4
<1>6. h \in [1 .. N -> S]
  BY Zenon, <1>3
<1>7. h = g
  BY Zenon, <1>3, <1>5, <1>6
<1> QED
  BY Zenon, <1>1, <1>7 DEF f, g

\* Appending and joining.
LEMMA JoinAppend ==
    ASSUME NEW V, NEW f \in Seq(V), NEW g \in Seq(V), NEW c \in V
    PROVE  f \o Append(g, c) = Append(f \o g, c)
<1> DEFINE h == Append(g, c)
           l == f \o h
           k == f \o g
           r == Append(k, c)
<1>1. /\ h \in Seq(V) /\ Len(g) \in Nat /\ Len(h) = Len(g) + 1 /\ h[Len(g) + 1] = c
      /\ \A n \in 1 .. Len(g) : h[n] = g[n]
  BY AppendedItems
<1>2. /\ k \in Seq(V) /\ Len(k) = Len(f) + Len(g) /\ Len(f) \in Nat
      /\ \A n \in 1 .. Len(f) + Len(g) : k[n] = IF n <= Len(f) THEN f[n] ELSE g[n - Len(f)]
  BY JoinedItems
<1> HIDE DEF h, k
<1>3. /\ l \in Seq(V) /\ Len(l) = Len(f) + Len(h)
      /\ \A n \in 1 .. Len(f) + Len(h) : l[n] = IF n <= Len(f) THEN f[n] ELSE h[n - Len(f)]
  BY <1>1, JoinedItems
<1>4. /\ r \in Seq(V) /\ Len(r) = Len(k) + 1 /\ r[Len(k) + 1] = c
      /\ \A n \in 1 .. Len(k) : r[n] = k[n]
  BY <1>2, AppendedItems
<1> HIDE DEF l, r
<1>5. Len(l) = Len(r) /\ Len(l) \in Nat /\ Len(l) = Len(f) + Len(g) + 1
  BY <1>1, <1>2, <1>3, <1>4
<1>6. \A n \in 1 .. Len(l) : l[n] = r[n]
  <2> SUFFICES ASSUME NEW n \in 1 .. Len(l) PROVE l[n] = r[n]
    OBVIOUS
  <2>1. CASE n = Len(k) + 1
    <3>1. ~ (n <= Len(f)) /\ n - Len(f) = Len(g) + 1 /\ n \in 1 .. Len(f) + Len(h)
      BY <1>1, <1>2, <1>5, <2>1
    <3> QED
      BY Zenon, <1>1, <1>3, <1>4, <2>1, <3>1
  <2>2. CASE n # Len(k) + 1
    <3>1. n \in 1 .. Len(k) /\ n \in 1 .. Len(f) + Len(g) /\ n \in 1 .. Len(f) + Len(h)
      BY <1>1, <1>2, <1>5, <2>2
    <3>2. ~ (n <= Len(f)) => n - Len(f) \in 1 .. Len(g)
      BY <1>1, <1>2, <3>1
    <3> QED
      BY Zenon, <1>1, <1>2, <1>3, <1>4, <3>1, <3>2
  <2> QED
    BY <2>1, <2>2
<1>7. l = r
  BY <1>3, <1>4, <1>5, <1>6
<1> QED
  BY Zenon, <1>7 DEF l, h, r, k

\* An item between two sequences belongs to either.
LEMMA JoinAround ==
    ASSUME NEW V, NEW f \in Seq(V), NEW g \in Seq(V), NEW c \in V
    PROVE  f \o (<<c>> \o g) = Append(f, c) \o g
<1> DEFINE h == <<c>> \o g
           l == f \o h
           k == Append(f, c)
           r == k \o g
<1>1. /\ h \in Seq(V) /\ Len(h) = Len(g) + 1 /\ h[1] = c
      /\ \A n \in 1 .. Len(g) : h[n + 1] = g[n]
  BY FirstItem
<1>2. /\ k \in Seq(V) /\ Len(f) \in Nat /\ Len(k) = Len(f) + 1 /\ k[Len(f) + 1] = c
      /\ \A n \in 1 .. Len(f) : k[n] = f[n]
  BY AppendedItems
<1> HIDE DEF h, k
<1>3. /\ l \in Seq(V) /\ Len(l) = Len(f) + Len(h)
      /\ \A n \in 1 .. Len(f) + Len(h) : l[n] = IF n <= Len(f) THEN f[n] ELSE h[n - Len(f)]
  BY <1>1, JoinedItems
<1>4. /\ r \in Seq(V) /\ Len(r) = Len(k) + Len(g) /\ Len(g) \in Nat
      /\ \A n \in 1 .. Len(k) + Len(g) : r[n] = IF n <= Len(k) THEN k[n] ELSE g[n - Len(k)]
  <2>1. g \in Seq(V) /\ k \in Seq(V)
    BY <1>2
  <2>2. Len(g) \in Nat
    OBVIOUS
  <2>3. /\ r \in Seq(V) /\ Len(r) = Len(k) + Len(g)
        /\ \A n \in 1 .. Len(k) + Len(g) : r[n] = IF n <= Len(k) THEN k[n] ELSE g[n - Len(k)]
    BY ONLY <2>1, JoinedItems
  <2> QED
    BY Zenon, <2>2, <2>3
<1> HIDE DEF l, r
<1>5. Len(l) = Len(r) /\ Len(l) \in Nat /\ Len(l) = Len(f) + Len(g) + 1
  BY <1>1, <1>2, <1>3, <1>4
<1>6. \A n \in 1 .. Len(l) : l[n] = r[n]
  <2> SUFFICES ASSUME NEW n \in 1 .. Len(l) PROVE l[n] = r[n]
    OBVIOUS
  <2>1. n \in 1 .. Len(f) + Len(h) /\ n \in 1 .. Len(k) + Len(g)
    BY <1>1, <1>2, <1>4, <1>5
  <2>2. CASE n <= Len(f)
    <3>1. n \in 1 .. Len(f) /\ n <= Len(k)
      BY <1>2, <1>5, <2>2
    <3> QED
      BY Zenon, <1>2, <1>3, <1>4, <2>1, <2>2, <3>1
  <2>3. CASE n = Len(f) + 1
    <3>1. ~ (n <= Len(f)) /\ n - Len(f) = 1 /\ n <= Len(k)
      BY <1>2, <1>5, <2>3
    <3> QED
      BY Zenon, <1>1, <1>2, <1>3, <1>4, <2>1, <2>3, <3>1
  <2>4. CASE ~ (n <= Len(f)) /\ n # Len(f) + 1
    <3>1. ~ (n <= Len(k)) /\ n - Len(k) \in 1 .. Len(g) /\ n - Len(f) = (n - Len(k)) + 1
      BY <1>2, <1>4, <1>5, <2>4
    <3>2. h[n - Len(f)] = g[n - Len(k)]
      BY Zenon, <1>1, <3>1
    <3> QED
      BY Zenon, <1>3, <1>4, <2>1, <2>4, <3>1, <3>2
  <2> QED
    BY <2>2, <2>3, <2>4
<1>7. l = r
  BY <1>3, <1>4, <1>5, <1>6
<1> QED
  BY Zenon, <1>7 DEF l, h, r, k
-----------------------------------------------------------------------------
(* Loops.                                                                  *)

\* Some numbers of 1 .. N have a least and a greatest one.
LEMMA Ends ==
    ASSUME NEW N \in Nat, NEW kept, kept \subseteq 1 .. N, kept # {}
    PROVE  /\ \E i \in kept : \A j \in kept : i <= j
           /\ \E i \in kept : \A j \in kept : i >= j
<1>1. kept \in SUBSET Nat
  OBVIOUS
<1>2. \E i \in kept : \A j \in kept : i <= j
  BY Zenon, <1>1, LeastNumber
<1> DEFINE rest == {n \in Nat : N - n \in kept}
<1>3. rest \in SUBSET Nat /\ rest # {}
  <2>1. PICK i \in kept : TRUE
    OBVIOUS
  <2>2. N - i \in Nat /\ N - (N - i) = i
    OBVIOUS
  <2>3. N - i \in rest
    BY <2>2
  <2> QED
    BY Zenon, <2>3
<1>4. PICK m \in rest : \A n \in rest : m <= n
  <2> HIDE DEF rest
  <2> QED
    BY Zenon, <1>3, LeastNumber
<1>5. N - m \in kept /\ m \in Nat
  BY <1>4
<1>6. ASSUME NEW j \in kept PROVE N - m >= j
  <2>1. N - j \in Nat /\ N - (N - j) = j /\ j \in Nat
    OBVIOUS
  <2>2. N - j \in rest
    BY <2>1
  <2>3. m <= N - j
    BY Zenon, <1>4, <2>2
  <2> QED
    BY <1>5, <2>1, <2>3
<1> QED
  BY Zenon, <1>2, <1>5, <1>6

\* A loop over N items goes from each to the next.
Backwards(N) == [i \in 1 .. N |-> i - 1]

\* Each comes from a smaller number.
LEMMA BackwardsDescends == ASSUME NEW N \in Nat PROVE Descends(Backwards(N), N)
BY DEF Descends, Backwards

\* f starts at base, and takes a step with every item.
Loops(f, base, step, N) == f[0] = base /\ \A i \in 1 .. N : f[i] = step[i][f[i - 1]]

\* A loop has a value after every item.
LEMMA LoopHas ==
    ASSUME NEW S, NEW base \in S, NEW N \in Nat, NEW step \in [1 .. N -> [S -> S]]
    PROVE  \E f \in [0 .. N -> S] : Loops(f, base, step, N)
<1>1. PICK f \in [0 .. N -> S] : Follows(f, base, step, Backwards(N), N)
  BY BackwardsDescends, Recursion
<1>2. Loops(f, base, step, N)
  BY <1>1 DEF Follows, Loops, Backwards
<1> QED
  BY <1>2

\* What holds before a loop and is kept by its steps holds all along.
LEMMA AllAlong ==
    ASSUME NEW N \in Nat, NEW P, 0 \in P, \A i \in 1 .. N : i - 1 \in P => i \in P
    PROVE  0 .. N \subseteq P
<1> DEFINE Q == {i \in Nat : i <= N => i \in P}
<1>1. ASSUME NEW n \in Nat, \A m \in Nat : m < n => m \in Q PROVE n \in Q
  <2>1. CASE n \in 1 .. N
    <3>1. n - 1 \in Nat /\ n - 1 < n /\ n - 1 <= N
      BY <2>1
    <3>2. n - 1 \in P
      BY Zenon, <1>1, <3>1
    <3> QED
      BY <2>1, <3>2
  <2>2. CASE n \notin 1 .. N
    BY <2>2
  <2> QED
    BY <2>1, <2>2
<1>2. Nat \subseteq Q
  <2> HIDE DEF Q
  <2> QED
    BY <1>1, Induction
<1> QED
  BY <1>2
=============================================================================
