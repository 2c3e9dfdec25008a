---------------------------- MODULE SliceProofs -----------------------------
(***************************************************************************)
(* For any slice: SplitIntoBatches and GroupBy lose, repeat and reorder    *)
(* nothing, and the items that SplitCommaString makes of a string are      *)
(* what it makes of them when they are joined.                             *)
(*                                                                         *)
(* Each loop is a recursive function of the number of items passed.  It    *)
(* is named (FilterLoop...), shown to satisfy its equations, for which     *)
(* LoopHas gives a function that does, and followed with AllAlong.         *)
(***************************************************************************)
EXTENDS Slices, DataLemmas

\* The loop of Filter, and the loop of Count.
FilterLoop(data, set) ==
    CHOOSE g : g = [i \in 0 .. Len(data) |->
        IF i = 0 THEN <<>> ELSE IF data[i] \in set THEN Append(g[i - 1], data[i]) ELSE g[i - 1]]
CountLoop(data, set) ==
    CHOOSE g : g = [i \in 0 .. Len(data) |->
        IF i = 0 THEN 0 ELSE IF data[i] \in set THEN g[i - 1] + 1 ELSE g[i - 1]]

\* The loop of Filter, item by item.
LEMMA FilterLoopIs ==
    ASSUME NEW V, NEW data \in Seq(V), NEW set
    PROVE  /\ Filter(data, set) = FilterLoop(data, set)[Len(data)]
           /\ FilterLoop(data, set)[0] = <<>>
           /\ \A i \in 1 .. Len(data) : FilterLoop(data, set)[i] =
                IF data[i] \in set THEN Append(FilterLoop(data, set)[i - 1], data[i])
                ELSE FilterLoop(data, set)[i - 1]
<1> DEFINE N == Len(data)
           step == [i \in 1 .. N |->
                      [s \in Seq(V) |-> IF data[i] \in set THEN Append(s, data[i]) ELSE s]]
<1>1. N \in Nat /\ \A i \in 1 .. N : data[i] \in V
  OBVIOUS
<1> HIDE DEF N
<1>2. step \in [1 .. N -> [Seq(V) -> Seq(V)]] /\ <<>> \in Seq(V)
  BY <1>1
<1>3. PICK f \in [0 .. N -> Seq(V)] : Loops(f, <<>>, step, N)
  <2> HIDE DEF step
  <2> QED
    BY Zenon, <1>1, <1>2, LoopHas
<1>4. ASSUME NEW i \in 1 .. N
      PROVE  f[i] = IF data[i] \in set THEN Append(f[i - 1], data[i]) ELSE f[i - 1]
  <2>1. f[i - 1] \in Seq(V)
    BY <1>1, <1>3
  <2>2. f[i] = step[i][f[i - 1]]
    BY Zenon, <1>3 DEF Loops
  <2> QED
    BY <2>1, <2>2
<1>5. f = [i \in 0 .. N |->
            IF i = 0 THEN <<>>
            ELSE IF data[i] \in set THEN Append(f[i - 1], data[i]) ELSE f[i - 1]]
  <2>1. f[0] = <<>>
    BY <1>3 DEF Loops
  <2>2. ASSUME NEW i \in 0 .. N, i # 0 PROVE i \in 1 .. N
    BY <1>1, <2>2
  <2>3. \A i \in 0 .. N : f[i] =
          IF i = 0 THEN <<>>
          ELSE IF data[i] \in set THEN Append(f[i - 1], data[i]) ELSE f[i - 1]
    BY Zenon, <1>4, <2>1, <2>2
  <2> QED
    BY Zenon, <2>3
<1> HIDE DEF step
<1> DEFINE R == FilterLoop(data, set)
<1>6. R = [i \in 0 .. N |->
            IF i = 0 THEN <<>>
            ELSE IF data[i] \in set THEN Append(R[i - 1], data[i]) ELSE R[i - 1]]
  BY Zenon, <1>5 DEF FilterLoop, N
<1>7. Filter(data, set) = R[Len(data)]
  BY DEF Filter, FilterLoop
<1> HIDE DEF R
<1>8. R[0] = <<>> /\ \A i \in 1 .. N : R[i] =
        IF data[i] \in set THEN Append(R[i - 1], data[i]) ELSE R[i - 1]
  <2>1. 0 \in 0 .. N /\ \A i \in 1 .. N : i \in 0 .. N /\ i # 0
    BY <1>1
  <2> QED
    BY Zenon, <1>6, <2>1
<1> QED
  BY <1>7, <1>8 DEF R, N

\* The loop of Count, item by item.
LEMMA CountLoopIs ==
    ASSUME NEW V, NEW data \in Seq(V), NEW set
    PROVE  /\ Count(data, set) = CountLoop(data, set)[Len(data)]
           /\ CountLoop(data, set)[0] = 0
           /\ \A i \in 1 .. Len(data) : CountLoop(data, set)[i] =
                IF data[i] \in set THEN CountLoop(data, set)[i - 1] + 1
                ELSE CountLoop(data, set)[i - 1]
<1> DEFINE N == Len(data)
           step == [i \in 1 .. N |-> [s \in Nat |-> IF data[i] \in set THEN s + 1 ELSE s]]
<1>1. N \in Nat
  OBVIOUS
<1> HIDE DEF N
<1>2. step \in [1 .. N -> [Nat -> Nat]] /\ 0 \in Nat
  BY <1>1
<1>3. PICK f \in [0 .. N -> Nat] : Loops(f, 0, step, N)
  <2> HIDE DEF step
  <2> QED
    BY Zenon, <1>1, <1>2, LoopHas
<1>4. ASSUME NEW i \in 1 .. N
      PROVE  f[i] = IF data[i] \in set THEN f[i - 1] + 1 ELSE f[i - 1]
  <2>1. f[i - 1] \in Nat
    BY <1>1, <1>3
  <2>2. f[i] = step[i][f[i - 1]]
    BY Zenon, <1>3 DEF Loops
  <2> QED
    BY <2>1, <2>2
<1>5. f = [i \in 0 .. N |->
            IF i = 0 THEN 0 ELSE IF data[i] \in set THEN f[i - 1] + 1 ELSE f[i - 1]]
  <2>1. f[0] = 0
    BY <1>3 DEF Loops
  <2> QED
    BY <1>1, <1>4, <2>1
<1> HIDE DEF step
<1> DEFINE R == CountLoop(data, set)
<1>6. R = [i \in 0 .. N |->
            IF i = 0 THEN 0 ELSE IF data[i] \in set THEN R[i - 1] + 1 ELSE R[i - 1]]
  BY Zenon, <1>5 DEF CountLoop, N
<1>7. Count(data, set) = R[Len(data)]
  BY DEF Count, CountLoop
<1> HIDE DEF R
<1>8. R[0] = 0 /\ \A i \in 1 .. N : R[i] = IF data[i] \in set THEN R[i - 1] + 1 ELSE R[i - 1]
  BY <1>1, <1>6
<1> QED
  BY <1>7, <1>8 DEF R, N

\* What Filter and Count give for the items that are g.
LEMMA FilterOne ==
    ASSUME NEW V, NEW data \in Seq(V), NEW g
    PROVE  /\ Filter(data, {g}) \in Seq({g}) /\ Len(Filter(data, {g})) = Count(data, {g})
           /\ Filter(data, {g}) = <<>> <=> \A j \in 1 .. Len(data) : data[j] # g
           /\ Filter(data, {g}) = data <=> \A j \in 1 .. Len(data) : data[j] = g
<1> DEFINE N == Len(data)
           F == FilterLoop(data, {g})
           C == CountLoop(data, {g})
           P == {i \in Nat : /\ F[i] \in Seq({g}) /\ C[i] = Len(F[i]) /\ Len(F[i]) <= i
                             /\ Len(F[i]) = 0 <=> \A j \in 1 .. i : data[j] # g
                             /\ Len(F[i]) = i <=> \A j \in 1 .. i : data[j] = g}
<1>1. N \in Nat /\ data \in [1 .. N -> V]
  BY SeqAsFunction
<1>2. F[0] = <<>> /\ \A i \in 1 .. N : F[i] = IF data[i] \in {g} THEN Append(F[i - 1], data[i]) ELSE F[i - 1]
  BY FilterLoopIs
<1>3. C[0] = 0 /\ \A i \in 1 .. N : C[i] = IF data[i] \in {g} THEN C[i - 1] + 1 ELSE C[i - 1]
  BY CountLoopIs
<1>4. Filter(data, {g}) = F[N] /\ Count(data, {g}) = C[N]
  BY Zenon, FilterLoopIs, CountLoopIs
<1> HIDE DEF N, F, C
<1>5. 0 \in P
  <2>1. F[0] \in Seq({g}) /\ Len(F[0]) = 0
    BY <1>2
  <2> QED
    BY <1>3, <2>1
<1>6. ASSUME NEW i \in 1 .. N, i - 1 \in P PROVE i \in P
  <2> DEFINE s == F[i - 1]
  <2>1. /\ i \in Nat \ {0} /\ i - 1 \in Nat
        /\ s \in Seq({g}) /\ C[i - 1] = Len(s) /\ Len(s) <= i - 1
        /\ Len(s) = 0 <=> \A j \in 1 .. i - 1 : data[j] # g
        /\ Len(s) = i - 1 <=> \A j \in 1 .. i - 1 : data[j] = g
    BY <1>1, <1>6
  <2>2. \A j \in 1 .. i : j \in 1 .. i - 1 \/ j = i
    BY <2>1
  <2>3. \A j \in 1 .. i - 1 : j \in 1 .. i
    BY <2>1
  <2>4. i \in 1 .. i
    BY <2>1
  <2>5. Len(s) \in Nat
    BY <2>1
  <2>6. CASE data[i] = g
    <3>1. F[i] = Append(s, g) /\ C[i] = C[i - 1] + 1
      BY Zenon, <1>2, <1>3, <2>6
    <3> HIDE DEF s
    <3>2. F[i] \in Seq({g}) /\ Len(F[i]) = Len(s) + 1
      BY <2>1, <3>1, AppendedItems
    <3>3. ~ (\A j \in 1 .. i : data[j] # g)
      BY Zenon, <2>4, <2>6
    <3>4. (\A j \in 1 .. i : data[j] = g) <=> (\A j \in 1 .. i - 1 : data[j] = g)
      BY Zenon, <2>2, <2>3, <2>6
    <3>5. C[i] = Len(F[i]) /\ Len(F[i]) <= i /\ Len(F[i]) # 0
      BY <2>1, <2>5, <3>1, <3>2
    <3>6. Len(F[i]) = i <=> Len(s) = i - 1
      BY <2>1, <2>5, <3>2
    <3> QED
      BY Zenon, <2>1, <3>2, <3>3, <3>4, <3>5, <3>6
  <2>7. CASE data[i] # g
    <3>1. F[i] = s /\ C[i] = C[i - 1]
      BY Zenon, <1>2, <1>3, <2>7
    <3> HIDE DEF s
    <3>2. ~ (\A j \in 1 .. i : data[j] = g)
      BY Zenon, <2>4, <2>7
    <3>3. (\A j \in 1 .. i : data[j] # g) <=> (\A j \in 1 .. i - 1 : data[j] # g)
      BY Zenon, <2>2, <2>3, <2>7
    <3> QED
      BY <2>1, <2>5, <3>1, <3>2, <3>3
  <2> QED
    BY <2>6, <2>7
<1>7. N \in P
  <2>1. 0 .. N \subseteq P
    <3> HIDE DEF P
    <3> QED
      BY Zenon, <1>1, <1>5, <1>6, AllAlong
  <2> QED
    BY <1>1, <2>1
<1> DEFINE G == F[N]
<1>8. /\ G \in Seq({g}) /\ C[N] = Len(G)
      /\ Len(G) = 0 <=> \A j \in 1 .. N : data[j] # g
      /\ Len(G) = N <=> \A j \in 1 .. N : data[j] = g
  BY <1>7
<1> HIDE DEF G
<1>9. G = <<>> <=> Len(G) = 0
  BY <1>8
<1>10. G = data <=> Len(G) = N
  <2>1. ASSUME Len(G) = N PROVE G = data
    <3>1. \A j \in 1 .. N : data[j] = g
      BY <1>8, <2>1
    <3>2. \A j \in 1 .. N : G[j] = g
      BY <1>8, <2>1
    <3>3. data \in [1 .. N -> V] /\ G \in [1 .. N -> {g}]
      BY <1>1, <1>8, <2>1
    <3>4. \A j \in 1 .. N : data[j] = G[j]
      BY Zenon, <3>1, <3>2
    <3>5. data = [j \in 1 .. N |-> data[j]] /\ G = [j \in 1 .. N |-> G[j]]
      BY Zenon, <3>3
    <3>6. [j \in 1 .. N |-> data[j]] = [j \in 1 .. N |-> G[j]]
      BY Zenon, <3>4
    <3> QED
      BY ONLY Zenon, <3>5, <3>6
  <2> QED
    BY <2>1 DEF N
<1> QED
  BY Zenon, <1>4, <1>8, <1>9, <1>10 DEF G, N

\* First and FirstOrDefault give an item that is g, if there is one.
Misses(data, g) == \A j \in 1 .. Len(data) : data[j] # g

\* First and FirstOrDefault for one item.
LEMMA FirstOne ==
    ASSUME NEW V, NEW data \in Seq(V), NEW g, NEW other
    PROVE  /\ First(data, {g}) = IF Misses(data, g) THEN None ELSE g
           /\ FirstOrDefault(data, {g}, other) = IF Misses(data, g) THEN other ELSE g
<1> SUFFICES ASSUME NEW default
             PROVE  FirstOrDefault(data, {g}, default) = IF Misses(data, g) THEN default ELSE g
  BY Zenon DEF First
<1> DEFINE met == {i \in DOMAIN data : data[i] \in {g}}
<1>1. FirstOrDefault(data, {g}, default) = IF met = {} THEN default ELSE data[Min(met)]
  BY Zenon DEF FirstOrDefault
<1>2. DOMAIN data = 1 .. Len(data) /\ met \in SUBSET Nat
  OBVIOUS
<1>3. CASE met = {}
  <2>1. Misses(data, g)
    BY Zenon, <1>2, <1>3 DEF Misses
  <2> HIDE DEF met
  <2> QED
    BY Zenon, <1>1, <1>3, <2>1
<1>4. CASE met # {}
  <2>1. PICK i \in met : \A j \in met : i <= j
    <3> HIDE DEF met
    <3> QED
      BY Zenon, <1>2, <1>4, LeastNumber
  <2>2. Min(met) \in met
    BY Zenon, <2>1 DEF Min
  <2>3. data[Min(met)] = g /\ ~ Misses(data, g)
    BY Zenon, <1>2, <2>2 DEF Misses
  <2> HIDE DEF met
  <2> QED
    BY Zenon, <1>1, <1>4, <2>3
<1> QED
  BY Zenon, <1>3, <1>4

\* The loop of GroupBy, when the field of an item is the item itself.
GroupLoop(data) ==
    CHOOSE g : g = [i \in 0 .. Len(data) |->
        IF i = 0 THEN <<>>
        ELSE Grouped(g[i - 1], [v \in Items |-> v][data[i]], [v \in Range(data) |-> v][data[i]])]

\* Groups of items.
GroupMaps == UNION {[D -> Seq(Items)] : D \in SUBSET Items}

\* A group more, or an item more in a group.
LEMMA GroupedIsMap ==
    ASSUME NEW r \in GroupMaps, NEW f \in Items, NEW v \in Items
    PROVE  /\ DOMAIN r \in SUBSET Items
           /\ Grouped(r, f, v) \in GroupMaps
           /\ DOMAIN Grouped(r, f, v) = DOMAIN r \cup {f}
<1>1. PICK D \in SUBSET Items : r \in [D -> Seq(Items)]
  BY DEF GroupMaps
<1> DEFINE old == IF f \in DOMAIN r THEN r[f] ELSE <<>>
<1>2. DOMAIN r = D
  BY Zenon, <1>1
<1>3. old \in Seq(Items)
  <2>1. <<>> \in Seq(Items)
    OBVIOUS
  <2> QED
    BY Zenon, <1>1, <1>2, <2>1
<1>4. Append(old, v) \in Seq(Items)
  <2> HIDE DEF old
  <2> QED
    BY <1>3
<1>5. \A g \in D \cup {f} : (IF g # f THEN r[g] ELSE Append(old, v)) \in Seq(Items)
  BY Zenon, <1>1, <1>4
<1>6. Grouped(r, f, v) = [g \in D \cup {f} |-> IF g # f THEN r[g] ELSE Append(old, v)]
  BY <1>2 DEF Grouped
<1> HIDE DEF old
<1>7. Grouped(r, f, v) \in [D \cup {f} -> Seq(Items)]
  BY Zenon, <1>5, <1>6
<1>8. D \cup {f} \in SUBSET Items
  BY Zenon
<1> QED
  BY Zenon, <1>2, <1>7, <1>8 DEF GroupMaps

\* The loop of GroupBy, item by item.
LEMMA GroupLoopIs ==
    ASSUME NEW data \in Seq(Items)
    PROVE  /\ GroupBy(data, [v \in Items |-> v]) = GroupLoop(data)[Len(data)]
           /\ GroupLoop(data)[0] = <<>> /\ <<>> \in GroupMaps /\ DOMAIN <<>> = {}
           /\ \A i \in 1 .. Len(data) :
                GroupLoop(data)[i] = Grouped(GroupLoop(data)[i - 1], data[i], data[i])
<1> DEFINE N == Len(data)
           ff == [v \in Items |-> v]
           mapper == [v \in Range(data) |-> v]
           step == [i \in 1 .. N |-> [r \in GroupMaps |-> Grouped(r, data[i], data[i])]]
<1>1. N \in Nat /\ data \in [1 .. N -> Items]
  BY SeqAsFunction
<1>2. \A i \in 1 .. N : data[i] \in Items /\ ff[data[i]] = data[i] /\ mapper[data[i]] = data[i]
  <2>1. Range(data) = {data[i] : i \in 1 .. N}
    BY <1>1 DEF Range
  <2> QED
    BY Zenon, <1>1, <2>1
<1>3. <<>> \in GroupMaps /\ DOMAIN <<>> = {}
  <2>1. <<>> \in Seq(Seq(Items)) /\ Len(<<>>) = 0 /\ 1 .. 0 = {}
    OBVIOUS
  <2>2. <<>> \in [1 .. 0 -> Seq(Items)]
    BY <2>1, SeqAsFunction
  <2>3. <<>> \in [{} -> Seq(Items)]
    BY Zenon, <2>1, <2>2
  <2>4. {} \in SUBSET Items
    OBVIOUS
  <2> QED
    BY Zenon, <2>3, <2>4 DEF GroupMaps
<1> HIDE DEF N, ff, mapper
<1>4. step \in [1 .. N -> [GroupMaps -> GroupMaps]]
  BY Zenon, <1>2, GroupedIsMap
<1>5. PICK f \in [0 .. N -> GroupMaps] : Loops(f, <<>>, step, N)
  <2> HIDE DEF step
  <2> QED
    BY Zenon, <1>1, <1>3, <1>4, LoopHas
<1>6. \A i \in 1 .. N : i - 1 \in 0 .. N /\ i \in 0 .. N /\ i # 0
  BY <1>1
<1>7. ASSUME NEW i \in 1 .. N PROVE f[i] = Grouped(f[i - 1], ff[data[i]], mapper[data[i]])
  <2>1. f[i] = step[i][f[i - 1]] /\ f[i - 1] \in GroupMaps
    BY Zenon, <1>5, <1>6 DEF Loops
  <2>2. f[i] = Grouped(f[i - 1], data[i], data[i])
    BY Zenon, <2>1
  <2> QED
    BY Zenon, <1>2, <2>2
<1>8. f = [i \in 0 .. N |->
            IF i = 0 THEN <<>> ELSE Grouped(f[i - 1], ff[data[i]], mapper[data[i]])]
  <2>1. f[0] = <<>>
    BY <1>5 DEF Loops
  <2>2. ASSUME NEW i \in 0 .. N, i # 0 PROVE i \in 1 .. N
    BY <1>1, <2>2
  <2>3. \A i \in 0 .. N : f[i] =
          IF i = 0 THEN <<>> ELSE Grouped(f[i - 1], ff[data[i]], mapper[data[i]])
    BY Zenon, <1>7, <2>1, <2>2
  <2> QED
    BY Zenon, <2>3
<1> HIDE DEF step
<1> DEFINE R == GroupLoop(data)
<1>9. R = [i \in 0 .. N |->
            IF i = 0 THEN <<>> ELSE Grouped(R[i - 1], ff[data[i]], mapper[data[i]])]
  BY Zenon, <1>8 DEF GroupLoop, N, ff, mapper
<1>10. GroupBy(data, [v \in Items |-> v]) = R[Len(data)]
  BY DEF GroupBy, GroupByWithMap, GroupLoop
<1> HIDE DEF R
<1>11. R[0] = <<>> /\ \A i \in 1 .. N : R[i] = Grouped(R[i - 1], data[i], data[i])
  <2>1. 0 \in 0 .. N
    BY <1>1
  <2> QED
    BY Zenon, <1>2, <1>6, <1>9, <2>1
<1> QED
  BY Zenon, <1>3, <1>10, <1>11 DEF R, N

\* GroupBy has a group for every item of the slice, which is what Filter gives.
LEMMA GroupsAreFilters ==
    ASSUME NEW data \in Seq(Items)
    PROVE  /\ DOMAIN GroupBy(data, [v \in Items |-> v]) = Range(data)
           /\ \A g \in Range(data) : GroupBy(data, [v \in Items |-> v])[g] = Filter(data, {g})
<1> DEFINE N == Len(data)
           R == GroupLoop(data)
           F(g) == FilterLoop(data, {g})
           P == {i \in Nat : /\ R[i] \in GroupMaps
                             /\ DOMAIN R[i] = {data[j] : j \in 1 .. i}
                             /\ \A g \in DOMAIN R[i] : R[i][g] = F(g)[i]
                             /\ \A g \in Items \ DOMAIN R[i] : F(g)[i] = <<>>}
<1>1. N \in Nat /\ data \in [1 .. N -> Items]
  BY SeqAsFunction
<1>2. /\ R[0] = <<>> /\ <<>> \in GroupMaps /\ DOMAIN <<>> = {}
      /\ \A i \in 1 .. N : R[i] = Grouped(R[i - 1], data[i], data[i])
      /\ GroupBy(data, [v \in Items |-> v]) = R[N]
  BY Zenon, GroupLoopIs
<1>3. \A g : /\ F(g)[0] = <<>> /\ Filter(data, {g}) = F(g)[N]
             /\ \A i \in 1 .. N : F(g)[i] = IF data[i] \in {g} THEN Append(F(g)[i - 1], data[i])
                                            ELSE F(g)[i - 1]
  BY FilterLoopIs
<1>4. Range(data) = {data[j] : j \in 1 .. N}
  BY <1>1 DEF Range
<1> HIDE DEF N, R, F
<1>5. 0 \in P
  <2>1. {data[j] : j \in 1 .. 0} = {} /\ 0 \in Nat
    OBVIOUS
  <2> QED
    BY Zenon, <1>2, <1>3, <2>1
<1>6. ASSUME NEW i \in 1 .. N, i - 1 \in P PROVE i \in P
  <2> DEFINE r == R[i - 1]
             v == data[i]
             s == R[i]
  <2>1. /\ r \in GroupMaps /\ DOMAIN r = {data[j] : j \in 1 .. i - 1}
        /\ \A g \in DOMAIN r : r[g] = F(g)[i - 1]
        /\ \A g \in Items \ DOMAIN r : F(g)[i - 1] = <<>>
    BY Zenon, <1>6
  <2>2. i \in Nat /\ v \in Items /\ s = Grouped(r, v, v)
    BY <1>1, <1>2
  <2>3. 1 .. i = (1 .. i - 1) \cup {i}
    BY <1>1
  <2>4. \A g : F(g)[i] = IF v = g THEN Append(F(g)[i - 1], v) ELSE F(g)[i - 1]
    BY Zenon, <1>3
  <2>5. {data[j] : j \in 1 .. i} = {data[j] : j \in 1 .. i - 1} \cup {v}
    BY Zenon, <2>3
  <2> HIDE DEF r, v, s
  <2>6. /\ s \in GroupMaps /\ DOMAIN s = DOMAIN r \cup {v} /\ DOMAIN r \subseteq Items
    BY Zenon, <2>1, <2>2, GroupedIsMap
  <2>7. \A g \in DOMAIN r \cup {v} : s[g] =
          IF g # v THEN r[g] ELSE Append(IF v \in DOMAIN r THEN r[v] ELSE <<>>, v)
    BY Zenon, <2>2 DEF Grouped
  <2>8. F(v)[i - 1] = IF v \in DOMAIN r THEN r[v] ELSE <<>>
    BY Zenon, <2>1, <2>2
  <2>9. s[v] = Append(F(v)[i - 1], v)
    BY Zenon, <2>7, <2>8
  <2>10. ASSUME NEW g \in DOMAIN s PROVE s[g] = F(g)[i]
    <3>1. CASE g = v
      BY Zenon, <2>4, <2>9, <3>1
    <3>2. CASE g # v
      <4>1. g \in DOMAIN r /\ s[g] = r[g]
        BY Zenon, <2>6, <2>7, <3>2
      <4> QED
        BY Zenon, <2>1, <2>4, <3>2, <4>1
    <3> QED
      BY <3>1, <3>2
  <2>11. ASSUME NEW g \in Items \ DOMAIN s PROVE F(g)[i] = <<>>
    <3>1. g # v /\ g \in Items \ DOMAIN r
      BY Zenon, <2>6
    <3> QED
      BY Zenon, <2>1, <2>4, <3>1
  <2>12. DOMAIN s = {data[j] : j \in 1 .. i}
    BY Zenon, <2>1, <2>5, <2>6
  <2> QED
    BY Zenon, <2>2, <2>6, <2>10, <2>11, <2>12 DEF s
<1>7. N \in P
  <2>1. 0 .. N \subseteq P
    <3> HIDE DEF P
    <3> QED
      BY Zenon, <1>1, <1>5, <1>6, AllAlong
  <2> QED
    BY <1>1, <2>1
<1> QED
  BY Zenon, <1>2, <1>3, <1>4, <1>7

\* Every order that Deduplication may give has as many items as there are different ones.
LEMMA DeduplicationLen ==
    ASSUME NEW data \in Seq(Items), NEW d \in Deduplication(data)
    PROVE  Len(d) = Cardinality(Range(data))
<1> DEFINE S == Range(data)
<1>1. Len(data) \in Nat /\ data \in [1 .. Len(data) -> Items]
  BY SeqAsFunction
<1>2. IsFiniteSet(S)
  <2>1. S = {data[i] : i \in 1 .. Len(data)}
    BY <1>1 DEF Range
  <2>2. IsFiniteSet(1 .. Len(data))
    BY <1>1, FS_Interval
  <2>3. data \in Surjection(1 .. Len(data), S)
    BY Zenon, <1>1, <2>1 DEF Surjection
  <2> QED
    BY Zenon, <2>2, <2>3, FS_Surjection
<1>3. Cardinality(S) \in Nat
  BY Zenon, <1>2, FS_CardinalityType
<1>4. d \in [1 .. Cardinality(S) -> S]
  BY Zenon DEF Deduplication, Bijection, Injection
<1> QED
  BY Zenon, <1>3, <1>4, FunctionAsSeq

\* The slice has items of Items.
THEOREM SlicesType == SliceSpec => [](arr \in Seq(Items))
<1>1. SliceInit => arr \in Seq(Items)
  BY DEF SliceInit
<1>2. arr \in Seq(Items) /\ [SliceNext]_arr => (arr \in Seq(Items))'
  <2> SUFFICES ASSUME arr \in Seq(Items), SliceNext PROVE arr' \in Seq(Items)
    OBVIOUS
  <2>1. ASSUME NEW v \in Items, Grow(v) PROVE arr' \in Seq(Items)
    BY <2>1 DEF Grow
  <2>2. ASSUME Shuffle PROVE arr' \in Seq(Items)
    <3>1. PICK i \in DOMAIN arr, j \in DOMAIN arr : arr' = [arr EXCEPT ![i] = arr[j], ![j] = arr[i]]
      BY <2>2 DEF Shuffle
    <3>2. Len(arr) \in Nat /\ arr \in [1 .. Len(arr) -> Items] /\ DOMAIN arr = 1 .. Len(arr)
      BY SeqAsFunction
    <3>3. arr[i] \in Items /\ arr[j] \in Items
      BY Zenon, <3>1, <3>2
    <3>4. arr' \in [1 .. Len(arr) -> Items]
      BY Zenon, <3>1, <3>2, <3>3
    <3> QED
      BY Zenon, <3>2, <3>4, FunctionAsSeq
  <2> QED
    BY <2>1, <2>2 DEF SliceNext
<1> QED
  BY <1>1, <1>2, PTL DEF SliceSpec

\* Whatever the items and the length of the slice, GroupBy, Filter, Count, Any, All, First,
\* FirstOrDefault and Deduplication agree with each other.
THEOREM SlicesGroupsCover == SliceSpec => []GroupsCover
<1>1. arr \in Seq(Items) => GroupsCover
  <2> SUFFICES ASSUME arr \in Seq(Items) PROVE GroupsCover
    OBVIOUS
  <2> DEFINE groups == GroupBy(arr, [v \in Items |-> v])
             group(g) == IF g \in DOMAIN groups THEN groups[g] ELSE <<>>
  <2>1. DOMAIN groups = Range(arr) /\ \A g \in Range(arr) : groups[g] = Filter(arr, {g})
    BY Zenon, GroupsAreFilters
  <2>2. \A d \in Deduplication(arr) : Len(d) = Cardinality(DOMAIN groups)
    BY Zenon, <2>1, DeduplicationLen
  <2>3. DOMAIN arr = 1 .. Len(arr)
    BY SeqAsFunction
  <2> HIDE DEF groups
  <2>4. ASSUME NEW g \in Items
        PROVE  /\ group(g) = Filter(arr, {g}) /\ Len(group(g)) = Count(arr, {g})
               /\ AnyItem(arr, {g}) <=> group(g) # <<>>
               /\ AllItems(arr, {g}) <=> group(g) = arr
               /\ First(arr, {g}) = IF group(g) = <<>> THEN None ELSE Head(group(g))
               /\ FirstOrDefault(arr, {g}, Space) =
                    IF group(g) = <<>> THEN Space ELSE Head(group(g))
    <3> DEFINE G == group(g)
    <3>1. /\ Filter(arr, {g}) \in Seq({g}) /\ Len(Filter(arr, {g})) = Count(arr, {g})
          /\ Filter(arr, {g}) = <<>> <=> Misses(arr, g)
          /\ Filter(arr, {g}) = arr <=> \A j \in 1 .. Len(arr) : arr[j] = g
      BY Zenon, FilterOne DEF Misses
    <3>2. g \in Range(arr) <=> ~ Misses(arr, g)
      BY Zenon, <2>3 DEF Range, Misses
    <3>3. G = Filter(arr, {g})
      BY Zenon, <2>1, <3>1, <3>2
    <3> HIDE DEF G
    <3>4. AnyItem(arr, {g}) <=> ~ Misses(arr, g)
      BY Zenon, <2>3 DEF AnyItem, Misses
    <3>5. AllItems(arr, {g}) <=> \A j \in 1 .. Len(arr) : arr[j] = g
      BY Zenon, <2>3 DEF AllItems
    <3>6. /\ First(arr, {g}) = IF Misses(arr, g) THEN None ELSE g
          /\ FirstOrDefault(arr, {g}, Space) = IF Misses(arr, g) THEN Space ELSE g
      BY Zenon, FirstOne
    <3>7. G # <<>> => Head(G) = g
      <4>1. ASSUME G # <<>> PROVE Head(G) = g
        <5>1. G \in Seq({g})
          BY <3>1, <3>3
        <5>2. Head(G) \in {g}
          BY <4>1, <5>1
        <5> QED
          BY <5>2
      <4> QED
        BY <4>1
    <3>8. /\ G = Filter(arr, {g}) /\ Len(G) = Count(arr, {g})
          /\ AnyItem(arr, {g}) <=> G # <<>>
          /\ AllItems(arr, {g}) <=> G = arr
          /\ First(arr, {g}) = IF G = <<>> THEN None ELSE Head(G)
          /\ FirstOrDefault(arr, {g}, Space) = IF G = <<>> THEN Space ELSE Head(G)
      BY Zenon, <3>1, <3>3, <3>4, <3>5, <3>6, <3>7
    <3> QED
      BY Zenon, <3>8 DEF G
  <2> QED
    BY Zenon, <2>1, <2>2, <2>4 DEF GroupsCover, groups
<1> QED
  BY <1>1, SlicesType, PTL

\* The loop of Joined.
JoinLoop(parts) ==
    CHOOSE g : g = [k \in 0 .. Len(parts) |-> IF k = 0 THEN <<>> ELSE g[k - 1] \o parts[k]]

\* It goes part by part.
LEMMA JoinLoopIs ==
    ASSUME NEW V, NEW parts \in Seq(Seq(V))
    PROVE  /\ Joined(parts) = JoinLoop(parts)[Len(parts)]
           /\ JoinLoop(parts)[0] = <<>>
           /\ \A k \in 1 .. Len(parts) : JoinLoop(parts)[k] = JoinLoop(parts)[k - 1] \o parts[k]
<1> DEFINE N == Len(parts)
           step == [k \in 1 .. N |-> [s \in Seq(V) |-> s \o parts[k]]]
<1>1. N \in Nat /\ \A k \in 1 .. N : parts[k] \in Seq(V)
  OBVIOUS
<1> HIDE DEF N
<1>2. step \in [1 .. N -> [Seq(V) -> Seq(V)]] /\ <<>> \in Seq(V)
  <2>1. \A s, t \in Seq(V) : s \o t \in Seq(V)
    OBVIOUS
  <2>2. <<>> \in Seq(V)
    OBVIOUS
  <2> QED
    BY Zenon, <1>1, <2>1, <2>2
<1>3. PICK f \in [0 .. N -> Seq(V)] : Loops(f, <<>>, step, N)
  <2> HIDE DEF step
  <2> QED
    BY Zenon, <1>1, <1>2, LoopHas
<1>4. ASSUME NEW k \in 1 .. N PROVE f[k] = f[k - 1] \o parts[k]
  <2>1. f[k - 1] \in Seq(V)
    BY <1>1, <1>3
  <2>2. f[k] = step[k][f[k - 1]]
    BY Zenon, <1>3 DEF Loops
  <2> QED
    BY Zenon, <2>1, <2>2
<1> HIDE DEF step
<1>5. f = [k \in 0 .. N |-> IF k = 0 THEN <<>> ELSE f[k - 1] \o parts[k]]
  <2>1. \A k \in 0 .. N : k # 0 => k \in 1 .. N
    BY <1>1
  <2>2. \A k \in 0 .. N : f[k] = IF k = 0 THEN <<>> ELSE f[k - 1] \o parts[k]
    BY Zenon, <1>3, <1>4, <2>1 DEF Loops
  <2> QED
    BY Zenon, <1>3, <2>2
<1> DEFINE R == JoinLoop(parts)
<1>6. R = [k \in 0 .. N |-> IF k = 0 THEN <<>> ELSE R[k - 1] \o parts[k]]
  BY Zenon, <1>5 DEF JoinLoop, N
<1>7. Joined(parts) = R[Len(parts)]
  BY Zenon DEF Joined, JoinLoop
<1> HIDE DEF R
<1>8. R[0] = <<>> /\ \A k \in 1 .. N : R[k] = R[k - 1] \o parts[k]
  <2>1. 0 \in 0 .. N /\ \A k \in 1 .. N : k \in 0 .. N /\ k # 0
    BY <1>1
  <2> QED
    BY Zenon, <1>6, <2>1
<1> QED
  BY Zenon, <1>7, <1>8 DEF R, N

\* Nothing is joined from no parts.
LEMMA JoinedNone == Joined(<<>>) = <<>>
<1>1. <<>> \in Seq(Seq({})) /\ Len(<<>>) = 0
  OBVIOUS
<1> QED
  BY Zenon, <1>1, JoinLoopIs

\* One part more.
LEMMA JoinedAppend ==
    ASSUME NEW V, NEW parts \in Seq(Seq(V)), NEW c \in Seq(V)
    PROVE  Joined(Append(parts, c)) = Joined(parts) \o c
<1> DEFINE more == Append(parts, c)
           N == Len(parts)
<1>1. /\ more \in Seq(Seq(V)) /\ N \in Nat /\ Len(more) = N + 1 /\ more[N + 1] = c
      /\ \A k \in 1 .. N : more[k] = parts[k]
  BY AppendedItems
<1> HIDE DEF more
<1> DEFINE R == JoinLoop(more)
           Q == JoinLoop(parts)
<1>2. /\ Joined(more) = R[N + 1] /\ R[0] = <<>>
      /\ \A k \in 1 .. N + 1 : R[k] = R[k - 1] \o more[k]
  BY Zenon, <1>1, JoinLoopIs
<1>3. /\ Joined(parts) = Q[N] /\ Q[0] = <<>>
      /\ \A k \in 1 .. N : Q[k] = Q[k - 1] \o parts[k]
  BY Zenon, JoinLoopIs
<1> HIDE DEF R, Q, N
<1> DEFINE P == {k \in Nat : Q[k] = R[k]}
<1>4. 0 \in P
  BY <1>2, <1>3
<1>5. ASSUME NEW k \in 1 .. N, k - 1 \in P PROVE k \in P
  <2>1. k \in Nat /\ k \in 1 .. N + 1
    BY <1>1
  <2>2. Q[k - 1] = R[k - 1]
    BY Zenon, <1>5
  <2>3. Q[k] = R[k]
    BY Zenon, <1>1, <1>2, <1>3, <2>1, <2>2
  <2> QED
    BY Zenon, <2>1, <2>3
<1>6. 0 .. N \subseteq P
  <2> HIDE DEF P
  <2> QED
    BY Zenon, <1>1, <1>4, <1>5, AllAlong
<1>7. N \in 0 .. N /\ N + 1 \in 1 .. N + 1 /\ (N + 1) - 1 = N
  BY <1>1
<1>8. Q[N] = R[N]
  BY Zenon, <1>6, <1>7
<1>9. R[N + 1] = R[N] \o c
  BY Zenon, <1>1, <1>2, <1>7
<1> QED
  BY Zenon, <1>2, <1>3, <1>8, <1>9 DEF more

\* The loop of SplitIntoBatches.
FillLoop(data, n) ==
    CHOOSE g : g = [i \in 0 .. Len(data) |->
        IF i = 0 THEN [batches |-> <<>>, curBatch |-> <<>>] ELSE Put(g[i - 1], data[i], n)]
Fills(V) == [batches : Seq(Seq(V)), curBatch : Seq(V)]

\* An item goes into the current batch, which may become full with it.
LEMMA PutIs ==
    ASSUME NEW V, NEW s \in Fills(V), NEW v \in V, NEW n
    PROVE  /\ Put(s, v, n) \in Fills(V)
           /\ Len(Append(s.curBatch, v)) < n =>
                /\ Put(s, v, n).batches = s.batches
                /\ Put(s, v, n).curBatch = Append(s.curBatch, v)
           /\ ~ (Len(Append(s.curBatch, v)) < n) =>
                /\ Put(s, v, n).batches = Append(s.batches, Append(s.curBatch, v))
                /\ Put(s, v, n).curBatch = <<>>
<1> DEFINE c == Append(s.curBatch, v)
           more == Append(s.batches, c)
<1>1. s.curBatch \in Seq(V) /\ s.batches \in Seq(Seq(V))
  BY DEF Fills
<1>2. c \in Seq(V)
  BY <1>1, AppendedItems
<1>3. more \in Seq(Seq(V)) /\ <<>> \in Seq(V)
  <2> HIDE DEF c
  <2>1. <<>> \in Seq(V)
    OBVIOUS
  <2> QED
    BY <1>1, <1>2, <2>1, AppendedItems
<1>4. Put(s, v, n) = IF Len(c) < n THEN [s EXCEPT !.curBatch = c]
                     ELSE [batches |-> more, curBatch |-> <<>>]
  BY DEF Put
<1> HIDE DEF c, more
<1>5. CASE Len(c) < n
  <2>1. /\ [s EXCEPT !.curBatch = c] \in Fills(V) /\ [s EXCEPT !.curBatch = c].curBatch = c
        /\ [s EXCEPT !.curBatch = c].batches = s.batches
    BY <1>2 DEF Fills
  <2>2. Put(s, v, n) = [s EXCEPT !.curBatch = c]
    BY Zenon, <1>4, <1>5
  <2> QED
    BY Zenon, <1>5, <2>1, <2>2 DEF c
<1>6. CASE ~ (Len(c) < n)
  <2>1. [batches |-> more, curBatch |-> <<>>] \in Fills(V)
    BY Zenon, <1>3 DEF Fills
  <2>2. Put(s, v, n) = [batches |-> more, curBatch |-> <<>>]
    BY Zenon, <1>4, <1>6
  <2>3. Put(s, v, n).batches = more /\ Put(s, v, n).curBatch = <<>>
    BY <2>2
  <2> QED
    BY Zenon, <1>6, <2>1, <2>2, <2>3 DEF c, more
<1> QED
  BY <1>5, <1>6

\* The loop of SplitIntoBatches, item by item.
LEMMA FillLoopIs ==
    ASSUME NEW V, NEW data \in Seq(V), NEW n
    PROVE  /\ Filled(data, n) = FillLoop(data, n)[Len(data)]
           /\ FillLoop(data, n)[0] = [batches |-> <<>>, curBatch |-> <<>>]
           /\ \A i \in 1 .. Len(data) : FillLoop(data, n)[i] = Put(FillLoop(data, n)[i - 1], data[i], n)
<1> DEFINE N == Len(data)
           none == [batches |-> <<>>, curBatch |-> <<>>]
           step == [i \in 1 .. N |-> [s \in Fills(V) |-> Put(s, data[i], n)]]
<1>1. N \in Nat /\ \A i \in 1 .. N : data[i] \in V
  OBVIOUS
<1>2. none \in Fills(V)
  <2>1. <<>> \in Seq(V) /\ <<>> \in Seq(Seq(V))
    OBVIOUS
  <2> QED
    BY Zenon, <2>1 DEF Fills
<1> HIDE DEF N, none
<1>3. step \in [1 .. N -> [Fills(V) -> Fills(V)]]
  <2>1. ASSUME NEW i \in 1 .. N, NEW s \in Fills(V) PROVE Put(s, data[i], n) \in Fills(V)
    BY <1>1, PutIs
  <2> QED
    BY Zenon, <2>1
<1>4. PICK f \in [0 .. N -> Fills(V)] : Loops(f, none, step, N)
  <2> HIDE DEF step
  <2> QED
    BY Zenon, <1>1, <1>2, <1>3, LoopHas
<1>5. \A i \in 1 .. N : i - 1 \in 0 .. N /\ i \in 0 .. N /\ i # 0
  BY <1>1
<1>6. ASSUME NEW i \in 1 .. N PROVE f[i] = Put(f[i - 1], data[i], n)
  <2>1. f[i] = step[i][f[i - 1]] /\ f[i - 1] \in Fills(V)
    BY Zenon, <1>4, <1>5 DEF Loops
  <2> QED
    BY Zenon, <2>1
<1>7. f = [i \in 0 .. N |-> IF i = 0 THEN none ELSE Put(f[i - 1], data[i], n)]
  <2>1. f[0] = none
    BY <1>4 DEF Loops
  <2>2. ASSUME NEW i \in 0 .. N, i # 0 PROVE i \in 1 .. N
    BY <1>1, <2>2
  <2>3. \A i \in 0 .. N : f[i] = IF i = 0 THEN none ELSE Put(f[i - 1], data[i], n)
    BY Zenon, <1>6, <2>1, <2>2
  <2> QED
    BY Zenon, <2>3
<1> HIDE DEF step
<1> DEFINE R == FillLoop(data, n)
<1>8. R = [i \in 0 .. N |-> IF i = 0 THEN none ELSE Put(R[i - 1], data[i], n)]
  BY Zenon, <1>7 DEF FillLoop, N, none
<1>9. Filled(data, n) = R[Len(data)]
  BY DEF Filled, FillLoop
<1> HIDE DEF R
<1>10. R[0] = none /\ \A i \in 1 .. N : R[i] = Put(R[i - 1], data[i], n)
  <2>1. 0 \in 0 .. N
    BY <1>1
  <2> QED
    BY Zenon, <1>5, <1>8, <2>1
<1> QED
  BY Zenon, <1>9, <1>10 DEF R, N, none

\* After i items: they are in the batches, which are full, and then in the one being filled.
Filling(V, data, full, s, i) ==
    LET flat == Joined(s.batches)
        cur == s.curBatch
    IN  /\ s \in Fills(V) /\ flat \in Seq(V)
        /\ Len(flat) + Len(cur) = i /\ Len(cur) < full
        /\ \A j \in 1 .. Len(flat) : flat[j] = data[j]
        /\ \A j \in 1 .. Len(cur) : cur[j] = data[Len(flat) + j]
        /\ \A k \in 1 .. Len(s.batches) : Len(s.batches[k]) = full

\* Each item keeps it so.
LEMMA PutFills ==
    ASSUME NEW V, NEW data \in Seq(V), NEW n \in Int, NEW i \in 1 .. Len(data), NEW s,
           NEW full, full = IF n < 1 THEN 1 ELSE n, Filling(V, data, full, s, i - 1)
    PROVE  Filling(V, data, full, Put(s, data[i], n), i)
<1> DEFINE flat == Joined(s.batches)
           cur == s.curBatch
           batches == s.batches
           v == data[i]
           t == Put(s, v, n)
           c == Append(cur, v)
<1>1. /\ s \in Fills(V) /\ flat \in Seq(V)
      /\ Len(flat) + Len(cur) = i - 1 /\ Len(cur) < full
      /\ \A j \in 1 .. Len(flat) : flat[j] = data[j]
      /\ \A j \in 1 .. Len(cur) : cur[j] = data[Len(flat) + j]
      /\ \A k \in 1 .. Len(batches) : Len(batches[k]) = full
  BY Zenon DEF Filling
<1>2. cur \in Seq(V) /\ batches \in Seq(Seq(V)) /\ v \in V /\ Len(data) \in Nat
  BY <1>1 DEF Fills
<1>3. /\ t \in Fills(V)
      /\ Len(c) < n => t.batches = batches /\ t.curBatch = c
      /\ ~ (Len(c) < n) => t.batches = Append(batches, c) /\ t.curBatch = <<>>
  <2> HIDE DEF v
  <2>1. t \in Fills(V)
    BY <1>1, <1>2, PutIs
  <2>2. Len(c) < n => t.batches = batches /\ t.curBatch = c
    <3>1. s \in Fills(V) /\ v \in V
      BY Zenon, <1>1, <1>2
    <3>2. Len(Append(s.curBatch, v)) < n =>
            /\ Put(s, v, n).batches = s.batches
            /\ Put(s, v, n).curBatch = Append(s.curBatch, v)
      BY ONLY <3>1, PutIs
    <3> QED
      BY Zenon, <3>2
  <2>3. ASSUME ~ (Len(c) < n) PROVE t.batches = Append(batches, c) /\ t.curBatch = <<>>
    <3> HIDE DEF c, batches
    <3>1. t = [batches |-> Append(batches, c), curBatch |-> <<>>]
      BY <2>3 DEF Put, c, cur, batches
    <3> HIDE DEF t
    <3> QED
      BY <3>1
  <2> QED
    BY Zenon, <2>1, <2>2, <2>3
<1> HIDE DEF flat, cur, batches, v, t
<1>4. /\ c \in Seq(V) /\ Len(cur) \in Nat /\ Len(c) = Len(cur) + 1 /\ c[Len(cur) + 1] = v
      /\ \A j \in 1 .. Len(cur) : c[j] = cur[j]
  BY <1>2, AppendedItems
<1> HIDE DEF c
<1>5. Len(flat) \in Nat /\ i \in Nat /\ full \in Nat \ {0} /\ Len(flat) + Len(c) = i
  BY <1>1, <1>2, <1>4
<1>6. \A j \in 1 .. Len(c) : c[j] = data[Len(flat) + j]
  <2> SUFFICES ASSUME NEW j \in 1 .. Len(c) PROVE c[j] = data[Len(flat) + j]
    OBVIOUS
  <2>1. CASE j = Len(cur) + 1
    <3>1. Len(flat) + j = i
      BY <1>4, <1>5, <2>1
    <3> QED
      BY Zenon, <1>4, <2>1, <3>1 DEF v
  <2>2. CASE j # Len(cur) + 1
    <3>1. j \in 1 .. Len(cur)
      BY <1>4, <2>2
    <3> QED
      BY Zenon, <1>1, <1>4, <3>1
  <2> QED
    BY <2>1, <2>2
<1>7. CASE Len(c) < n
  <2>1. t.batches = batches /\ t.curBatch = c /\ Len(c) < full
    BY <1>3, <1>5, <1>7
  <2>2. Joined(t.batches) = flat
    BY Zenon, <2>1 DEF flat, batches
  <2> QED
    BY Zenon, <1>1, <1>3, <1>5, <1>6, <2>1, <2>2 DEF Filling, t, v
<1>8. CASE ~ (Len(c) < n)
  <2> DEFINE more == Append(batches, c)
             all == flat \o c
  <2>1. t.batches = more /\ t.curBatch = <<>> /\ Len(c) = full
    BY <1>1, <1>3, <1>4, <1>5, <1>8
  <2>2. Joined(more) = all
    <3>1. Joined(batches) \in Seq(V)
      BY Zenon, <1>1 DEF flat, batches
    <3> QED
      BY Zenon, <1>2, <1>4, <3>1, JoinedAppend DEF flat, batches
  <2>3. /\ all \in Seq(V) /\ Len(all) = i
        /\ \A j \in 1 .. i : all[j] = IF j <= Len(flat) THEN flat[j] ELSE c[j - Len(flat)]
    BY ONLY ZenonT(30), <1>1, <1>4, <1>5, JoinedItems
  <2>4. /\ Len(batches) \in Nat /\ Len(more) = Len(batches) + 1 /\ more[Len(batches) + 1] = c
        /\ \A k \in 1 .. Len(batches) : more[k] = batches[k]
    BY ONLY <1>2, <1>4, AppendedItems
  <2> HIDE DEF more, all
  <2>5. \A j \in 1 .. i : all[j] = data[j]
    <3> SUFFICES ASSUME NEW j \in 1 .. i PROVE all[j] = data[j]
      OBVIOUS
    <3>1. CASE j <= Len(flat)
      <4>1. j \in 1 .. Len(flat)
        BY <1>5, <3>1
      <4> QED
        BY Zenon, <1>1, <2>3, <3>1, <4>1
    <3>2. CASE ~ (j <= Len(flat))
      <4>1. j - Len(flat) \in 1 .. Len(c) /\ Len(flat) + (j - Len(flat)) = j
        BY <1>4, <1>5, <3>2
      <4>2. c[j - Len(flat)] = data[Len(flat) + (j - Len(flat))]
        BY Zenon, <1>6, <4>1
      <4> QED
        BY Zenon, <2>3, <3>2, <4>1, <4>2
    <3> QED
      BY <3>1, <3>2
  <2>6. \A k \in 1 .. Len(more) : Len(more[k]) = full
    <3> SUFFICES ASSUME NEW k \in 1 .. Len(more) PROVE Len(more[k]) = full
      OBVIOUS
    <3>1. k = Len(batches) + 1 \/ k \in 1 .. Len(batches)
      BY <2>4
    <3> QED
      BY Zenon, <1>1, <2>1, <2>4, <3>1
  <2>7. Len(<<>>) = 0 /\ i + 0 = i /\ 0 < full /\ 1 .. 0 = {}
    BY <1>5
  <2> QED
    BY Zenon, <1>3, <2>1, <2>2, <2>3, <2>5, <2>6, <2>7 DEF Filling, t, v
<1> QED
  BY <1>7, <1>8

\* So it is when all items have passed.
LEMMA FilledAll ==
    ASSUME NEW V, NEW data \in Seq(V), NEW n \in Int, NEW full, full = IF n < 1 THEN 1 ELSE n
    PROVE  Filling(V, data, full, Filled(data, n), Len(data))
<1> DEFINE N == Len(data)
           R == FillLoop(data, n)
           none == [batches |-> <<>>, curBatch |-> <<>>]
           P == {i \in Nat : Filling(V, data, full, R[i], i)}
<1>1. /\ N \in Nat /\ Filled(data, n) = R[N] /\ R[0] = none
      /\ \A i \in 1 .. N : R[i] = Put(R[i - 1], data[i], n)
  BY FillLoopIs
<1>2. 0 \in P
  <2>1. <<>> \in Seq(V) /\ <<>> \in Seq(Seq(V)) /\ Len(<<>>) = 0 /\ 0 + 0 = 0 /\ 0 < full /\ 1 .. 0 = {}
    OBVIOUS
  <2>2. none \in Fills(V) /\ none.batches = <<>> /\ none.curBatch = <<>>
    BY <2>1 DEF Fills
  <2>3. Joined(<<>>) = <<>>
    BY Zenon, JoinedNone
  <2> HIDE DEF none, R
  <2>4. Filling(V, data, full, none, 0)
    BY Zenon, <2>1, <2>2, <2>3 DEF Filling
  <2> QED
    BY <1>1, <2>4
<1> HIDE DEF N, R
<1>3. ASSUME NEW i \in 1 .. N, i - 1 \in P PROVE i \in P
  <2>1. Filling(V, data, full, R[i - 1], i - 1) /\ i \in Nat /\ i \in 1 .. Len(data)
    BY <1>1, <1>3 DEF N
  <2>2. Filling(V, data, full, Put(R[i - 1], data[i], n), i)
    BY Zenon, <2>1, PutFills
  <2> QED
    BY Zenon, <1>1, <2>1, <2>2
<1>4. N \in P
  <2>1. 0 .. N \subseteq P
    <3> HIDE DEF P
    <3> QED
      BY Zenon, <1>1, <1>2, <1>3, AllAlong
  <2> QED
    BY <1>1, <2>1
<1> QED
  BY Zenon, <1>1, <1>4 DEF N

\* Whatever the slice and the size of the batches, SplitIntoBatches loses, repeats and
\* reorders nothing, and only the last batch may be short.
THEOREM SlicesBatchesCover == SliceSpec => []BatchesCover
<1>1. arr \in Seq(Items) => BatchesCover
  <2> SUFFICES ASSUME arr \in Seq(Items), NEW n \in -1 .. MaxLen
               PROVE  LET batches == SplitIntoBatches(arr, n)
                          full == IF n < 1 THEN 1 ELSE n
                      IN  /\ Joined(batches) = arr
                          /\ \A k \in DOMAIN batches :
                               IF k < Len(batches) THEN Len(batches[k]) = full
                               ELSE Len(batches[k]) \in 1 .. full
    BY DEF BatchesCover
  <2> DEFINE full == IF n < 1 THEN 1 ELSE n
             s == Filled(arr, n)
             N == Len(arr)
             cur == s.curBatch
             flat == Joined(s.batches)
             batches == SplitIntoBatches(arr, n)
  <2>1. n \in Int /\ full \in Nat \ {0} /\ N \in Nat
    OBVIOUS
  <2>2. Filling(Items, arr, full, s, N)
    BY <2>1, FilledAll
  <2>3. batches = IF cur = <<>> THEN s.batches ELSE Append(s.batches, cur)
    BY Zenon DEF SplitIntoBatches
  <2> HIDE DEF s
  <2>4. /\ s \in Fills(Items) /\ flat \in Seq(Items)
        /\ Len(flat) + Len(cur) = N /\ Len(cur) < full
        /\ \A j \in 1 .. Len(flat) : flat[j] = arr[j]
        /\ \A j \in 1 .. Len(cur) : cur[j] = arr[Len(flat) + j]
        /\ \A k \in 1 .. Len(s.batches) : Len(s.batches[k]) = full
    BY Zenon, <2>2 DEF Filling
  <2>5. cur \in Seq(Items) /\ s.batches \in Seq(Seq(Items))
    BY <2>4 DEF Fills
  <2> DEFINE bs == s.batches
  <2>6. Joined(bs) \in Seq(Items)
    BY <2>4
  <2> HIDE DEF full, batches, bs
  <2>7. CASE cur = <<>>
    <3>1. batches = bs
      BY Zenon, <2>3, <2>7 DEF bs
    <3>2. Len(cur) = 0
      BY <2>7
    <3> HIDE DEF cur, flat
    <3>3. flat = arr
      <4>1. Len(flat) = N
        BY <2>1, <2>4, <3>2
      <4>2. \A j \in 1 .. N : flat[j] = arr[j]
        BY Zenon, <2>4, <4>1
      <4> QED
        BY <2>4, <4>1, <4>2
    <3>4. DOMAIN bs = 1 .. Len(bs) /\ Len(bs) \in Nat
      BY <2>5 DEF bs
    <3>5. full \in 1 .. full
      BY <2>1
    <3>6. \A k \in DOMAIN bs : Len(bs[k]) = full
      BY Zenon, <2>4, <3>4 DEF bs
    <3> QED
      BY Zenon, <3>1, <3>3, <3>5, <3>6 DEF batches, full, flat, bs
  <2>8. CASE cur # <<>>
    <3> DEFINE more == Append(bs, cur)
    <3>1. batches = more
      BY Zenon, <2>3, <2>8 DEF bs
    <3>2. Len(cur) \in 1 .. full
      <4>1. Len(cur) \in Nat /\ Len(cur) # 0
        BY <2>5, <2>8
      <4> QED
        BY <2>1, <2>4, <4>1
    <3>3. Joined(more) = flat \o cur
      BY Zenon, <2>5, <2>6, JoinedAppend DEF bs
    <3> HIDE DEF cur, flat
    <3>4. /\ more \in Seq(Seq(Items)) /\ Len(bs) \in Nat /\ Len(more) = Len(bs) + 1
          /\ more[Len(bs) + 1] = cur /\ \A k \in 1 .. Len(bs) : more[k] = bs[k]
      <4>1. bs \in Seq(Seq(Items)) /\ cur \in Seq(Items)
        BY <2>5 DEF bs
      <4> QED
        BY ONLY <4>1, AppendedItems
    <3> DEFINE all == flat \o cur
    <3>5. /\ all \in Seq(Items) /\ Len(all) = Len(flat) + Len(cur)
          /\ \A j \in 1 .. Len(flat) + Len(cur) :
               all[j] = IF j <= Len(flat) THEN flat[j] ELSE cur[j - Len(flat)]
      BY ONLY <2>4, <2>5, JoinedItems
    <3> HIDE DEF all, more
    <3>6. all = arr
      <4>1. Len(flat) \in Nat /\ Len(cur) \in Nat
        BY <2>4, <2>5
      <4>2. ASSUME NEW j \in 1 .. N PROVE all[j] = arr[j]
        <5>1. j \in 1 .. Len(flat) + Len(cur)
          BY Zenon, <2>4
        <5>2. CASE j <= Len(flat)
          <6>1. j \in 1 .. Len(flat)
            BY <4>1, <5>2
          <6> QED
            BY Zenon, <2>4, <3>5, <5>1, <5>2, <6>1
        <5>3. CASE ~ (j <= Len(flat))
          <6>1. j - Len(flat) \in 1 .. Len(cur) /\ Len(flat) + (j - Len(flat)) = j
            BY <4>1, <5>1, <5>3
          <6>2. cur[j - Len(flat)] = arr[Len(flat) + (j - Len(flat))]
            BY Zenon, <2>4, <6>1
          <6> QED
            BY Zenon, <3>5, <5>1, <5>3, <6>1, <6>2
        <5> QED
          BY <5>2, <5>3
      <4>3. Len(all) = N
        BY Zenon, <2>4, <3>5
      <4> QED
        BY <3>5, <4>2, <4>3
    <3>7. DOMAIN more = 1 .. Len(more)
      BY <3>4
    <3>8. ASSUME NEW k \in DOMAIN more
          PROVE  IF k < Len(more) THEN Len(more[k]) = full ELSE Len(more[k]) \in 1 .. full
      <4>1. CASE k = Len(bs) + 1
        <5>1. ~ (k < Len(more)) /\ more[k] = cur
          BY <3>4, <4>1
        <5> QED
          BY Zenon, <3>2, <5>1
      <4>2. CASE k # Len(bs) + 1
        <5>1. k \in 1 .. Len(bs) /\ k < Len(more)
          BY <3>4, <3>7, <4>2
        <5> QED
          BY Zenon, <2>4, <3>4, <5>1 DEF bs
      <4> QED
        BY <4>1, <4>2
    <3> QED
      BY Zenon, <3>1, <3>3, <3>6, <3>8 DEF batches, full, all
  <2> QED
    BY <2>7, <2>8
<1> QED
  BY <1>1, SlicesType, PTL

\* The loops of SplitSeq and of Map.
SplitLoop(s, sep) ==
    CHOOSE g : g = [i \in 0 .. Len(s) |-> IF i = 0 THEN <<<<>>>> ELSE Extended(g[i - 1], s[i], sep)]
MapLoop(data, f) ==
    CHOOSE g : g = [i \in 0 .. Len(data) |->
        IF i = 0 THEN <<>>
        ELSE IF data[i] \in DOMAIN f THEN Append(g[i - 1], f[data[i]]) ELSE g[i - 1]]

\* Parts of a string, of characters of W.
Parts(W) == {parts \in Seq(Seq(W)) : parts # <<>>}

\* A character more leaves parts.
LEMMA ExtendedIs ==
    ASSUME NEW W, NEW parts \in Parts(W), NEW c, NEW sep, c # sep => c \in W
    PROVE  Extended(parts, c, sep) \in Parts(W)
<1> DEFINE N == Len(parts)
<1>1. parts \in Seq(Seq(W)) /\ parts # <<>>
  BY Zenon DEF Parts
<1>2. N \in Nat \ {0} /\ parts \in [1 .. N -> Seq(W)]
  BY <1>1
<1>3. CASE c = sep
  <2> DEFINE more == Append(parts, <<>>)
  <2>1. <<>> \in Seq(W)
    OBVIOUS
  <2>2. more \in Seq(Seq(W)) /\ Len(more) = N + 1
    BY <1>1, <2>1, AppendedItems
  <2>3. Extended(parts, c, sep) = more
    BY Zenon, <1>3 DEF Extended
  <2> HIDE DEF more
  <2>4. more # <<>>
    BY <1>2, <2>2
  <2> QED
    BY Zenon, <2>2, <2>3, <2>4 DEF Parts
<1>4. CASE c # sep
  <2> DEFINE new == [parts EXCEPT ![N] = Append(@, c)]
  <2>1. N \in 1 .. N /\ parts[N] \in Seq(W) /\ c \in W
    BY <1>2, <1>4
  <2>2. Append(parts[N], c) \in Seq(W)
    BY ONLY <2>1, AppendedItems
  <2>3. new \in [1 .. N -> Seq(W)]
    BY Zenon, <1>2, <2>2
  <2>4. Extended(parts, c, sep) = new
    BY Zenon, <1>4 DEF Extended
  <2> HIDE DEF new
  <2>5. new \in Seq(Seq(W)) /\ Len(new) = N
    BY Zenon, <1>2, <2>3, FunctionAsSeq
  <2>6. new # <<>>
    BY <1>2, <2>5
  <2> QED
    BY Zenon, <2>4, <2>5, <2>6 DEF Parts
<1> QED
  BY <1>3, <1>4

\* The loop of SplitSeq, character by character.
LEMMA SplitLoopIs ==
    ASSUME NEW V, NEW s \in Seq(V), NEW sep
    PROVE  /\ SplitSeq(s, sep) = SplitLoop(s, sep)[Len(s)]
           /\ SplitLoop(s, sep)[0] = <<<<>>>>
           /\ \A i \in 1 .. Len(s) :
                SplitLoop(s, sep)[i] = Extended(SplitLoop(s, sep)[i - 1], s[i], sep)
           /\ SplitSeq(s, sep) \in Parts(V \ {sep})
<1> DEFINE N == Len(s)
           W == V \ {sep}
           none == <<<<>>>>
           step == [i \in 1 .. N |-> [p \in Parts(W) |-> Extended(p, s[i], sep)]]
<1>1. N \in Nat /\ \A i \in 1 .. N : s[i] # sep => s[i] \in W
  OBVIOUS
<1>2. none \in Parts(W)
  <2>1. <<>> \in Seq(W)
    OBVIOUS
  <2>2. \A p \in Seq(W) : <<p>> \in Seq(Seq(W)) /\ <<p>> # <<>>
    OBVIOUS
  <2> QED
    BY Zenon, <2>1, <2>2 DEF Parts
<1> HIDE DEF N, none, W
<1>3. step \in [1 .. N -> [Parts(W) -> Parts(W)]]
  <2>1. ASSUME NEW i \in 1 .. N, NEW p \in Parts(W) PROVE Extended(p, s[i], sep) \in Parts(W)
    BY Zenon, <1>1, ExtendedIs
  <2> QED
    BY Zenon, <2>1
<1>4. PICK f \in [0 .. N -> Parts(W)] : Loops(f, none, step, N)
  <2> HIDE DEF step
  <2> QED
    BY Zenon, <1>1, <1>2, <1>3, LoopHas
<1>5. \A i \in 1 .. N : i - 1 \in 0 .. N /\ i \in 0 .. N /\ i # 0
  BY <1>1
<1>6. ASSUME NEW i \in 1 .. N PROVE f[i] = Extended(f[i - 1], s[i], sep)
  <2>1. f[i] = step[i][f[i - 1]] /\ f[i - 1] \in Parts(W)
    BY Zenon, <1>4, <1>5 DEF Loops
  <2> QED
    BY Zenon, <2>1
<1>7. f = [i \in 0 .. N |-> IF i = 0 THEN none ELSE Extended(f[i - 1], s[i], sep)]
  <2>1. f[0] = none
    BY <1>4 DEF Loops
  <2>2. ASSUME NEW i \in 0 .. N, i # 0 PROVE i \in 1 .. N
    BY <1>1, <2>2
  <2>3. \A i \in 0 .. N : f[i] = IF i = 0 THEN none ELSE Extended(f[i - 1], s[i], sep)
    BY Zenon, <1>6, <2>1, <2>2
  <2> QED
    BY Zenon, <2>3
<1> HIDE DEF step
<1> DEFINE R == SplitLoop(s, sep)
<1>8. R = [i \in 0 .. N |-> IF i = 0 THEN none ELSE Extended(R[i - 1], s[i], sep)]
  BY Zenon, <1>7 DEF SplitLoop, N, none
<1>9. SplitSeq(s, sep) = R[N]
  BY DEF SplitSeq, SplitLoop, N
<1> HIDE DEF R
<1>10. R[0] = none /\ \A i \in 1 .. N : R[i] = Extended(R[i - 1], s[i], sep)
  <2>1. 0 \in 0 .. N
    BY <1>1
  <2> QED
    BY Zenon, <1>5, <1>8, <2>1
<1>11. R[N] \in Parts(W)
  <2> DEFINE P == {i \in Nat : R[i] \in Parts(W)}
  <2>1. 0 \in P
    BY Zenon, <1>2, <1>10
  <2>2. ASSUME NEW i \in 1 .. N, i - 1 \in P PROVE i \in P
    <3>1. i \in Nat /\ R[i - 1] \in Parts(W)
      BY <1>1, <2>2
    <3>2. Extended(R[i - 1], s[i], sep) \in Parts(W)
      BY Zenon, <1>1, <3>1, ExtendedIs
    <3> QED
      BY Zenon, <1>10, <3>1, <3>2
  <2>3. 0 .. N \subseteq P
    <3> HIDE DEF P
    <3> QED
      BY Zenon, <1>1, <2>1, <2>2, AllAlong
  <2> QED
    BY <1>1, <2>3
<1> QED
  BY Zenon, <1>9, <1>10, <1>11 DEF R, N, none, W

\* A character more.
LEMMA SplitOneMore ==
    ASSUME NEW V, NEW s \in Seq(V), NEW c \in V, NEW sep
    PROVE  SplitSeq(Append(s, c), sep) = Extended(SplitSeq(s, sep), c, sep)
<1> DEFINE t == Append(s, c)
           N == Len(s)
           Q == SplitLoop(s, sep)
           R == SplitLoop(t, sep)
<1>1. /\ t \in Seq(V) /\ N \in Nat /\ Len(t) = N + 1 /\ t[N + 1] = c
      /\ \A i \in 1 .. N : t[i] = s[i]
  BY AppendedItems
<1>2. /\ SplitSeq(s, sep) = Q[N] /\ Q[0] = <<<<>>>>
      /\ \A i \in 1 .. N : Q[i] = Extended(Q[i - 1], s[i], sep)
  BY Zenon, SplitLoopIs
<1> HIDE DEF t
<1>3. /\ SplitSeq(t, sep) = R[N + 1] /\ R[0] = <<<<>>>>
      /\ \A i \in 1 .. N + 1 : R[i] = Extended(R[i - 1], t[i], sep)
  BY ZenonT(30), <1>1, SplitLoopIs
<1> HIDE DEF N, Q, R
<1> DEFINE P == {i \in Nat : Q[i] = R[i]}
<1>4. 0 \in P
  BY Zenon, <1>2, <1>3
<1>5. ASSUME NEW i \in 1 .. N, i - 1 \in P PROVE i \in P
  <2>1. i \in Nat /\ i \in 1 .. N + 1 /\ Q[i - 1] = R[i - 1]
    BY <1>1, <1>5
  <2> QED
    BY Zenon, <1>1, <1>2, <1>3, <2>1
<1>6. 0 .. N \subseteq P
  <2> HIDE DEF P
  <2> QED
    BY Zenon, <1>1, <1>4, <1>5, AllAlong
<1>7. Q[N] = R[N]
  BY <1>1, <1>6
<1>8. R[N + 1] = Extended(R[N], c, sep)
  <2>1. N + 1 \in 1 .. N + 1 /\ (N + 1) - 1 = N
    BY <1>1
  <2> QED
    BY <1>1, <1>3, <2>1
<1> QED
  BY Zenon, <1>2, <1>3, <1>7, <1>8 DEF t

\* The parts that SplitSeq gives.
Splits(s, sep, parts) == SplitSeq(s, sep) = parts

\* Characters that are no separators go to the last part.
LEMMA SplitWord ==
    ASSUME NEW V, NEW W \in SUBSET V, NEW sep, sep \notin W,
           NEW s \in Seq(V), NEW t \in Seq(W), NEW p \in Seq(Seq(V)),
           Splits(s, sep, Append(p, <<>>))
    PROVE  Splits(s \o t, sep, Append(p, t))
<1> DEFINE N == Len(t)
           U(j) == Upto(t, j)
           P == {j \in Nat : j <= N => SplitSeq(s \o U(j), sep) = Append(p, U(j))}
<1>1. N \in Nat
  OBVIOUS
<1>2. \A j \in 0 .. N : U(j) \in Seq(W) /\ U(j) \in Seq(V)
  <2>1. \A j \in 0 .. N : U(j) \in Seq(W)
    BY Zenon, UptoIs
  <2>2. \A x \in Seq(W) : x \in Seq(V)
    OBVIOUS
  <2> QED
    BY Zenon, <2>1, <2>2
<1>3. 0 \in P
  <2>1. U(0) = <<>>
    <3>1. 0 \in 0 .. N
      BY <1>1
    <3> QED
      BY Zenon, <3>1, UptoIs
  <2>2. s \o <<>> = s
    OBVIOUS
  <2> QED
    BY Zenon, <2>1, <2>2 DEF Splits
<1>4. ASSUME NEW j \in 1 .. N, j - 1 \in P PROVE j \in P
  <2> DEFINE u == U(j - 1)
             c == t[j]
  <2>1. j \in Nat /\ j \in 0 .. N /\ j # 0 /\ j - 1 \in 0 .. N /\ j - 1 <= N
    BY <1>1
  <2>2. c \in W /\ U(j) = Append(u, c)
    <3>1. t \in Seq(W) /\ j \in 0 .. Len(t) /\ j # 0
      BY <2>1
    <3> QED
      BY ONLY <3>1, UptoIs
  <2>3. u \in Seq(W) /\ u \in Seq(V) /\ c \in V /\ c # sep
    BY Zenon, <1>2, <2>1, <2>2
  <2>4. SplitSeq(s \o u, sep) = Append(p, u)
    BY Zenon, <1>4, <2>1
  <2> HIDE DEF u, c, U
  <2>5. s \o U(j) = Append(s \o u, c)
    <3>1. s \o Append(u, c) = Append(s \o u, c)
      BY <2>3, JoinAppend
    <3> QED
      BY Zenon, <2>2, <3>1
  <2>6. SplitSeq(Append(s \o u, c), sep) = Extended(SplitSeq(s \o u, sep), c, sep)
    <3>1. s \o u \in Seq(V)
      BY <2>3
    <3> QED
      BY Zenon, <2>3, <3>1, SplitOneMore
  <2> DEFINE q == Append(p, u)
             v == Append(u, c)
  <2>7. v \in Seq(V)
    BY ONLY <2>3, AppendedItems
  <2>8. q[Len(q)] = u /\ [q EXCEPT ![Len(q)] = v] = Append(p, v)
    <3> HIDE DEF v
    <3>1. u \in Seq(V) /\ p \in Seq(Seq(V))
      BY <2>3
    <3> QED
      BY ONLY <2>7, <3>1, ChangeLast
  <2> HIDE DEF q
  <2>9. Extended(q, c, sep) = Append(p, v)
    <3>1. Extended(q, c, sep) = [q EXCEPT ![Len(q)] = Append(q[Len(q)], c)]
      BY Zenon, <2>3 DEF Extended
    <3> QED
      BY Zenon, <2>8, <3>1
  <2> QED
    BY Zenon, <2>1, <2>2, <2>4, <2>5, <2>6, <2>9 DEF q
<1>5. 0 .. N \subseteq P
  <2> HIDE DEF P
  <2> QED
    BY Zenon, <1>1, <1>3, <1>4, AllAlong
<1>6. N \in 0 .. N /\ N <= N
  BY <1>1
<1>7. U(N) = t
  BY Zenon, <1>6, UptoIs
<1> QED
  BY Zenon, <1>5, <1>6, <1>7 DEF Splits

\* Words: not empty, with no blank at their ends.
Words(W) == {t \in Seq(W) : t # <<>> /\ t[1] # Space /\ t[Len(t)] # Space}

\* Trim leaves nothing or a word, and leaves a word alone.
LEMMA TrimIs ==
    ASSUME NEW W, NEW s \in Seq(W)
    PROVE  /\ Trim(s) = <<>> \/ Trim(s) \in Words(W)
           /\ s \in Words(W) => Trim(s) = s
<1> DEFINE N == Len(s)
           kept == {i \in DOMAIN s : s[i] # Space}
           a == Min(kept)
           b == Max(kept)
           t == SubSeq(s, a, b)
<1>1. N \in Nat /\ DOMAIN s = 1 .. N /\ kept \subseteq 1 .. N
  OBVIOUS
<1>2. Trim(s) = IF kept = {} THEN <<>> ELSE t
  BY Zenon DEF Trim
<1>3. ASSUME kept # {}
      PROVE  /\ a \in kept /\ b \in kept /\ \A j \in kept : a <= j /\ b >= j
             /\ a \in 1 .. N /\ b \in 1 .. N /\ a <= b
  <2> HIDE DEF kept, N
  <2>1. /\ \E i \in kept : \A j \in kept : i <= j
        /\ \E i \in kept : \A j \in kept : i >= j
    BY Zenon, <1>1, <1>3, Ends
  <2>2. a \in kept /\ \A j \in kept : a <= j
    BY Zenon, <2>1 DEF Min
  <2>3. b \in kept /\ \A j \in kept : b >= j
    BY Zenon, <2>1 DEF Max
  <2> QED
    BY Zenon, <1>1, <2>2, <2>3
<1> HIDE DEF a, b
<1>4. ASSUME kept # {}
      PROVE  t \in Seq(W) /\ Len(t) = (b - a) + 1 /\ \A i \in 1 .. (b - a) + 1 : t[i] = s[(a + i) - 1]
  <2> HIDE DEF kept
  <2>1. a \in 1 .. Len(s) /\ b \in 1 .. Len(s) /\ a <= b
    BY Zenon, <1>3, <1>4 DEF N
  <2> QED
    BY <2>1
<1> HIDE DEF t
<1>5. ASSUME kept # {} PROVE t \in Words(W)
  <2> DEFINE M == (b - a) + 1
  <2>1. 1 \in 1 .. M /\ M \in 1 .. M /\ (a + 1) - 1 = a /\ (a + M) - 1 = b /\ M # 0
    <3>1. N \in Nat /\ a \in 1 .. N /\ b \in 1 .. N /\ a <= b
      BY Zenon, <1>1, <1>3, <1>5
    <3> HIDE DEF N
    <3> QED
      BY ONLY <3>1
  <2>2. t[1] = s[a] /\ t[M] = s[b] /\ Len(t) = M
    BY <1>4, <1>5, <2>1
  <2>3. s[a] # Space /\ s[b] # Space
    BY <1>3, <1>5
  <2>4. t # <<>>
    BY <2>1, <2>2
  <2> QED
    BY Zenon, <1>4, <1>5, <2>2, <2>3, <2>4 DEF Words
<1>6. ASSUME s \in Words(W) PROVE Trim(s) = s
  <2>1. s # <<>> /\ s[1] # Space /\ s[N] # Space
    BY Zenon, <1>6 DEF Words
  <2>2. 1 \in 1 .. N /\ N \in 1 .. N
    BY <2>1
  <2>3. 1 \in kept /\ N \in kept
    BY Zenon, <1>1, <2>1, <2>2
  <2>4. kept # {}
    BY Zenon, <2>3
  <2>5. a <= 1 /\ b >= N /\ a \in 1 .. N /\ b \in 1 .. N
    BY Zenon, <1>3, <2>3, <2>4
  <2> HIDE DEF kept
  <2>6. a = 1 /\ b = N
    <3>1. N \in Nat
      BY <1>1
    <3> HIDE DEF N
    <3> QED
      BY ONLY <2>5, <3>1
  <2>7. t \in Seq(W) /\ Len(t) = N /\ \A i \in 1 .. N : t[i] = s[i]
    <3>1. /\ t \in Seq(W) /\ Len(t) = (b - a) + 1
          /\ \A i \in 1 .. (b - a) + 1 : t[i] = s[(a + i) - 1]
      BY Zenon, <1>4, <2>4
    <3>2. (b - a) + 1 = N /\ \A i \in 1 .. N : (a + i) - 1 = i
      BY <1>1, <2>6
    <3> QED
      BY Zenon, <3>1, <3>2
  <2>8. t = s
    BY <2>7
  <2> QED
    BY Zenon, <1>2, <2>4, <2>8
<1> QED
  BY Zenon, <1>2, <1>5, <1>6

\* What the loop of Map computes, and where its results are.
LEMMA MapLoopIs ==
    ASSUME NEW V, NEW data \in Seq(V), NEW S, NEW f, \A v \in DOMAIN f : f[v] \in S
    PROVE  /\ Map(data, f) = MapLoop(data, f)[Len(data)]
           /\ MapLoop(data, f)[0] = <<>>
           /\ \A i \in 1 .. Len(data) : MapLoop(data, f)[i] =
                IF data[i] \in DOMAIN f THEN Append(MapLoop(data, f)[i - 1], f[data[i]])
                ELSE MapLoop(data, f)[i - 1]
           /\ Map(data, f) \in Seq(S)
<1> DEFINE N == Len(data)
           Taken(i, s) == IF data[i] \in DOMAIN f THEN Append(s, f[data[i]]) ELSE s
           step == [i \in 1 .. N |-> [s \in Seq(S) |-> Taken(i, s)]]
<1>1. N \in Nat /\ <<>> \in Seq(S)
  OBVIOUS
<1>2. \A i, s : s \in Seq(S) => Taken(i, s) \in Seq(S)
  <2>1. \A s \in Seq(S), v \in S : Append(s, v) \in Seq(S)
    OBVIOUS
  <2> QED
    BY Zenon, <2>1
<1> HIDE DEF N, Taken
<1>3. step \in [1 .. N -> [Seq(S) -> Seq(S)]]
  BY Zenon, <1>2
<1>4. PICK g \in [0 .. N -> Seq(S)] : Loops(g, <<>>, step, N)
  <2> HIDE DEF step
  <2> QED
    BY Zenon, <1>1, <1>3, LoopHas
<1>5. \A i \in 1 .. N : i - 1 \in 0 .. N /\ i \in 0 .. N /\ i # 0
  BY <1>1
<1>6. ASSUME NEW i \in 1 .. N PROVE g[i] = Taken(i, g[i - 1])
  <2>1. g[i] = step[i][g[i - 1]] /\ g[i - 1] \in Seq(S)
    BY Zenon, <1>4, <1>5 DEF Loops
  <2> QED
    BY Zenon, <2>1
<1>7. g = [i \in 0 .. N |-> IF i = 0 THEN <<>> ELSE Taken(i, g[i - 1])]
  <2>1. g[0] = <<>>
    BY <1>4 DEF Loops
  <2>2. ASSUME NEW i \in 0 .. N, i # 0 PROVE i \in 1 .. N
    BY <1>1, <2>2
  <2>3. \A i \in 0 .. N : g[i] = IF i = 0 THEN <<>> ELSE Taken(i, g[i - 1])
    BY Zenon, <1>6, <2>1, <2>2
  <2> QED
    BY Zenon, <2>3
<1> HIDE DEF step
<1> DEFINE R == MapLoop(data, f)
<1>8. R = [i \in 0 .. N |-> IF i = 0 THEN <<>> ELSE Taken(i, R[i - 1])]
  BY Zenon, <1>7 DEF MapLoop, N, Taken
<1>9. Map(data, f) = R[N]
  BY DEF Map, MapLoop, N
<1> HIDE DEF R
<1>10. R[0] = <<>> /\ \A i \in 1 .. N : R[i] = Taken(i, R[i - 1])
  <2>1. 0 \in 0 .. N
    BY <1>1
  <2> QED
    BY Zenon, <1>5, <1>8, <2>1
<1>11. R[N] \in Seq(S)
  <2> DEFINE P == {i \in Nat : R[i] \in Seq(S)}
  <2>1. 0 \in P
    BY Zenon, <1>1, <1>10
  <2>2. ASSUME NEW i \in 1 .. N, i - 1 \in P PROVE i \in P
    <3>1. i \in Nat /\ R[i - 1] \in Seq(S)
      BY <1>1, <2>2
    <3>2. Taken(i, R[i - 1]) \in Seq(S)
      BY Zenon, <1>2, <3>1
    <3> QED
      BY Zenon, <1>10, <3>1, <3>2
  <2>3. 0 .. N \subseteq P
    <3> HIDE DEF P
    <3> QED
      BY Zenon, <1>1, <2>1, <2>2, AllAlong
  <2> QED
    BY <1>1, <2>3
<1> QED
  BY Zenon, <1>9, <1>10, <1>11 DEF R, N, Taken

\* A map that changes no item of the slice gives the slice.
LEMMA MapKeeps ==
    ASSUME NEW S, NEW data \in Seq(S), NEW f, \A v \in DOMAIN f : f[v] \in S,
           \A i \in 1 .. Len(data) : data[i] \in DOMAIN f /\ f[data[i]] = data[i]
    PROVE  Map(data, f) = data
<1> DEFINE N == Len(data)
           R == MapLoop(data, f)
           P == {i \in Nat : i <= N => R[i] = Upto(data, i)}
<1>1. N \in Nat
  OBVIOUS
<1>2. /\ Map(data, f) = R[N] /\ R[0] = <<>>
      /\ \A i \in 1 .. N : R[i] = IF data[i] \in DOMAIN f THEN Append(R[i - 1], f[data[i]]) ELSE R[i - 1]
  BY Zenon, MapLoopIs
<1>3. \A i \in 1 .. N : R[i] = Append(R[i - 1], data[i])
  BY Zenon, <1>2
<1> HIDE DEF R
<1>4. 0 \in P
  <2>1. data \in Seq(S) /\ 0 \in 0 .. Len(data)
    BY <1>1
  <2>2. Upto(data, 0) = <<>>
    BY ONLY <2>1, UptoIs
  <2> QED
    BY Zenon, <1>2, <2>2
<1>5. ASSUME NEW i \in 1 .. N, i - 1 \in P PROVE i \in P
  <2>1. i \in Nat /\ i \in 0 .. N /\ i # 0 /\ i - 1 <= N
    BY <1>1
  <2>2. Upto(data, i) = Append(Upto(data, i - 1), data[i])
    <3>1. data \in Seq(S) /\ i \in 0 .. Len(data) /\ i # 0
      BY <2>1
    <3> QED
      BY ONLY <3>1, UptoIs
  <2> QED
    BY Zenon, <1>3, <1>5, <2>1, <2>2
<1>6. 0 .. N \subseteq P
  <2> HIDE DEF P
  <2> QED
    BY Zenon, <1>1, <1>4, <1>5, AllAlong
<1>7. N \in 0 .. N /\ N <= N
  BY <1>1
<1>8. Upto(data, N) = data
  BY Zenon, <1>7, UptoIs
<1> QED
  BY Zenon, <1>2, <1>6, <1>7, <1>8

\* Splitting items that hold no separators, once they are joined, gives them.
LEMMA JoinedSplit ==
    ASSUME NEW V, NEW sep \in V, NEW items \in Seq(Seq(V \ {sep})), items # <<>>
    PROVE  LET joined == Joined([k \in DOMAIN items |->
                             IF k = 1 THEN items[k] ELSE <<sep>> \o items[k]])
           IN  joined \in Seq(V) /\ SplitSeq(joined, sep) = items
<1> DEFINE W == V \ {sep}
           N == Len(items)
           pieces == [k \in DOMAIN items |-> IF k = 1 THEN items[k] ELSE <<sep>> \o items[k]]
           F == JoinLoop(pieces)
           P == {i \in Nat : i \in 1 .. N =>
                    F[i] \in Seq(V) /\ SplitSeq(F[i], sep) = Upto(items, i)}
<1>1. /\ N \in Nat \ {0} /\ DOMAIN items = 1 .. N /\ items \in Seq(Seq(W))
      /\ \A i \in 1 .. N : items[i] \in Seq(W)
  OBVIOUS
<1>2. \A t \in Seq(W) : t \in Seq(V) /\ <<sep>> \o t \in Seq(V) /\ <<>> \o t = t
  OBVIOUS
<1>3. \A p \in Seq(Seq(W)) : p \in Seq(Seq(V))
  OBVIOUS
<1> HIDE DEF W, N
<1>4. /\ pieces \in Seq(Seq(V)) /\ Len(pieces) = N
      /\ \A i \in 1 .. N : pieces[i] = IF i = 1 THEN items[i] ELSE <<sep>> \o items[i]
  <2>1. pieces \in [1 .. N -> Seq(V)]
    BY Zenon, <1>1, <1>2
  <2>2. \A i \in 1 .. N : pieces[i] = IF i = 1 THEN items[i] ELSE <<sep>> \o items[i]
    BY Zenon, <1>1
  <2>3. N \in Nat
    BY <1>1
  <2> HIDE DEF pieces
  <2>4. pieces \in Seq(Seq(V)) /\ Len(pieces) = N
    BY Zenon, <2>1, <2>3, FunctionAsSeq
  <2> QED
    BY Zenon, <2>2, <2>4
<1>5. \A i \in 0 .. N : Upto(items, i) \in Seq(Seq(W)) /\ Upto(items, i) \in Seq(Seq(V))
  <2>1. \A i \in 0 .. N : Upto(items, i) \in Seq(Seq(W))
    BY Zenon, <1>1, UptoIs DEF N
  <2> QED
    BY Zenon, <1>3, <2>1
<1> HIDE DEF pieces
<1>6. /\ Joined(pieces) = F[N] /\ F[1] = pieces[1]
      /\ \A i \in 2 .. N : F[i] = F[i - 1] \o pieces[i]
  <2>1. /\ Joined(pieces) = F[N] /\ F[0] = <<>>
        /\ \A i \in 1 .. N : F[i] = F[i - 1] \o pieces[i]
    BY Zenon, <1>4, JoinLoopIs
  <2> HIDE DEF F
  <2>2. 1 \in 1 .. N /\ 1 - 1 = 0 /\ \A i \in 2 .. N : i \in 1 .. N
    BY <1>1
  <2>3. pieces[1] = items[1] /\ <<>> \o items[1] = items[1]
    BY Zenon, <1>1, <1>2, <1>4, <2>2
  <2> QED
    BY Zenon, <2>1, <2>2, <2>3
<1> HIDE DEF F
<1>7. 0 \in P
  OBVIOUS
<1>8. ASSUME NEW i \in 1 .. N, i - 1 \in P PROVE i \in P
  <2> DEFINE t == items[i]
             p == Upto(items, i - 1)
  <2>1. i \in Nat /\ i \in 0 .. N /\ i # 0 /\ i - 1 \in 0 .. N
    BY <1>1
  <2>2. t \in Seq(W) /\ t \in Seq(V) /\ Upto(items, i) = Append(p, t) /\ p \in Seq(Seq(V))
    <3>1. t \in Seq(W) /\ t \in Seq(V) /\ p \in Seq(Seq(V))
      BY Zenon, <1>1, <1>2, <1>5, <2>1
    <3>2. Upto(items, i) = Append(p, t)
      <4>1. items \in Seq(Seq(W)) /\ i \in 0 .. Len(items) /\ i # 0
        BY <1>1, <2>1 DEF N
      <4> QED
        BY ONLY <4>1, UptoIs
    <3> QED
      BY Zenon, <3>1, <3>2
  <2>3. ASSUME NEW s \in Seq(V), SplitSeq(s, sep) = Append(p, <<>>), F[i] = s \o t
        PROVE  i \in P
    <3> HIDE DEF t, p
    <3>1. s \o t \in Seq(V)
      BY <2>2
    <3>2. SplitSeq(s \o t, sep) = Append(p, t)
      <4>1. W \in SUBSET V /\ sep \notin W
        BY DEF W
      <4>2. Splits(s, sep, Append(p, <<>>))
        BY Zenon, <2>3 DEF Splits
      <4>3. Splits(s \o t, sep, Append(p, t))
        BY Zenon, <2>2, <4>1, <4>2, SplitWord
      <4> QED
        BY Zenon, <4>3 DEF Splits
    <3> QED
      BY Zenon, <2>1, <2>2, <2>3, <3>1, <3>2
  <2>4. CASE i = 1
    <3>1. <<>> \in Seq(V) /\ Len(<<>>) = 0 /\ Append(<<>>, <<>>) = <<<<>>>>
      OBVIOUS
    <3>2. SplitSeq(<<>>, sep) = <<<<>>>>
      BY Zenon, <3>1, SplitLoopIs
    <3>3. p = <<>>
      <4>1. i - 1 = 0 /\ 0 \in 0 .. Len(items) /\ items \in Seq(Seq(W))
        BY <1>1, <2>4 DEF N
      <4>2. Upto(items, 0) = <<>>
        BY ONLY <4>1, UptoIs
      <4> QED
        BY Zenon, <4>1, <4>2
    <3>4. F[i] = <<>> \o t
      BY Zenon, <1>2, <1>4, <1>6, <2>2, <2>4
    <3> QED
      BY Zenon, <2>3, <3>1, <3>2, <3>3, <3>4
  <2>5. CASE i # 1
    <3>1. i \in 2 .. N /\ i - 1 \in 1 .. N
      BY <1>1, <2>5
    <3> DEFINE f == F[i - 1]
               s == Append(f, sep)
    <3>2. f \in Seq(V) /\ SplitSeq(f, sep) = p
      BY Zenon, <1>8, <3>1
    <3> HIDE DEF f, t, p
    <3>3. SplitSeq(s, sep) = Append(p, <<>>)
      <4>1. SplitSeq(s, sep) = Extended(p, sep, sep)
        BY Zenon, <3>2, SplitOneMore
      <4> QED
        BY Zenon, <4>1 DEF Extended
    <3>4. s \in Seq(V)
      BY <3>2
    <3>5. F[i] = f \o (<<sep>> \o t)
      BY Zenon, <1>4, <1>6, <2>5, <3>1 DEF f, t
    <3>6. f \o (<<sep>> \o t) = s \o t
      BY ZenonT(30), <2>2, <3>2, JoinAround
    <3> HIDE DEF s
    <3> QED
      BY Zenon, <2>3, <3>3, <3>4, <3>5, <3>6 DEF t, p
  <2> QED
    BY <2>4, <2>5
<1>9. 0 .. N \subseteq P
  <2> HIDE DEF P
  <2>1. N \in Nat
    BY <1>1
  <2> QED
    BY Zenon, <1>7, <1>8, <2>1, AllAlong
<1>10. F[N] \in Seq(V) /\ SplitSeq(F[N], sep) = Upto(items, N)
  <2>1. N \in 0 .. N /\ N \in 1 .. N
    BY <1>1
  <2> QED
    BY Zenon, <1>9, <2>1
<1>11. Upto(items, N) = items
  <2>1. items \in Seq(Seq(W)) /\ Len(items) \in 0 .. Len(items)
    BY <1>1 DEF N
  <2> QED
    BY Zenon, <2>1, UptoIs DEF N
<1> QED
  BY Zenon, <1>6, <1>10, <1>11 DEF pieces

\* Whatever the characters and the length of the string, the items of SplitCommaString are
\* what splitting them again gives: Trim and the test for empty parts leave words, and
\* words neither hold the separator nor are changed by Trim.
THEOREM SlicesSplitStable == SliceSpec => []SplitStable
<1>1. arr \in Seq(Items) => SplitStable
  <2> SUFFICES ASSUME arr \in Seq(Items) PROVE SplitStable
    OBVIOUS
  <2> DEFINE V == Items \cup {Comma}
             W == V \ {Comma}
             parts == SplitSeq(arr, Comma)
             Trimmed(s) == [v \in {p \in Range(s) : Trim(p) # <<>>} |-> Trim(v)]
             items == SplitJoinedItems(arr, Comma)
             joined == Joined([k \in DOMAIN items |->
                           IF k = 1 THEN items[k] ELSE <<Comma>> \o items[k]])
  <2>1. arr \in Seq(V) /\ Comma \in V
    OBVIOUS
  <2>2. \A s : SplitJoinedItems(s, Comma) =
            IF s = <<>> THEN <<>> ELSE Map(SplitSeq(s, Comma), Trimmed(SplitSeq(s, Comma)))
    BY Zenon DEF SplitJoinedItems
  <2>3. \A s \in Seq(Seq(W)) : \A v \in DOMAIN Trimmed(s) : Trimmed(s)[v] \in Words(W)
    <3> SUFFICES ASSUME NEW s \in Seq(Seq(W)), NEW v \in DOMAIN Trimmed(s)
                 PROVE  Trimmed(s)[v] \in Words(W)
      BY Zenon
    <3>1. \A p \in Range(s) : p \in Seq(W)
      BY DEF Range
    <3>2. v \in Range(s) /\ Trim(v) # <<>> /\ Trimmed(s)[v] = Trim(v)
      BY Zenon
    <3> HIDE DEF W, Trimmed
    <3> QED
      <4>1. v \in Seq(W)
        BY Zenon, <3>1, <3>2
      <4>2. Trim(v) = <<>> \/ Trim(v) \in Words(W)
        BY Zenon, <4>1, TrimIs
      <4> QED
        BY Zenon, <3>2, <4>2
  <2>4. parts \in Seq(Seq(W))
    BY Zenon, <2>1, SplitLoopIs DEF Parts
  <2> HIDE DEF V, Trimmed, parts
  <2>5. items \in Seq(Words(W))
    <3>1. <<>> \in Seq(Words(W))
      OBVIOUS
    <3>2. Map(parts, Trimmed(parts)) \in Seq(Words(W))
      BY Zenon, <2>3, <2>4, MapLoopIs
    <3> QED
      BY Zenon, <2>2, <3>1, <3>2 DEF parts
  <2> HIDE DEF items
  <2>6. CASE items = <<>>
    <3>1. DOMAIN items = {} /\ Len(items) = 0
      BY <2>6
    <3>2. [k \in DOMAIN items |-> IF k = 1 THEN items[k] ELSE <<Comma>> \o items[k]] = <<>>
      BY <3>1
    <3>3. Joined(<<>>) = <<>>
      BY Zenon, JoinedNone
    <3>4. joined = <<>>
      BY Zenon, <3>2, <3>3
    <3> QED
      BY Zenon, <2>2, <2>6, <3>4 DEF SplitStable, items
  <2>7. CASE items # <<>>
    <3>1. items \in Seq(Seq(W)) /\ items[1] \in Words(W)
      <4>1. \A t \in Words(W) : t \in Seq(W)
        BY DEF Words
      <4>2. Len(items) \in Nat \ {0} /\ items \in [1 .. Len(items) -> Words(W)]
        <5> HIDE DEF W
        <5> QED
          BY <2>5, <2>7
      <4>3. items \in [1 .. Len(items) -> Seq(W)] /\ Len(items) \in Nat
        BY Zenon, <4>1, <4>2
      <4>4. items \in Seq(Seq(W))
        BY Zenon, <4>3, FunctionAsSeq
      <4>5. 1 \in 1 .. Len(items)
        BY <4>2
      <4> QED
        BY Zenon, <4>2, <4>4, <4>5
    <3>2. SplitSeq(joined, Comma) = items
      <4> HIDE DEF joined
      <4>1. items \in Seq(Seq(V \ {Comma})) /\ Comma \in V
        BY Zenon, <2>1, <3>1
      <4> QED
        BY Zenon, <2>7, <4>1, JoinedSplit DEF joined
    <3> HIDE DEF joined
    <3>3. joined # <<>>
      <4>1. ASSUME joined = <<>> PROVE FALSE
        <5>1. <<>> \in Seq(V) /\ Len(<<>>) = 0
          OBVIOUS
        <5>2. SplitSeq(<<>>, Comma) = <<<<>>>>
          BY Zenon, <5>1, SplitLoopIs
        <5>3. <<<<>>>>[1] = <<>>
          OBVIOUS
        <5>4. items[1] # <<>>
          BY Zenon, <3>1 DEF Words
        <5> QED
          BY Zenon, <3>2, <4>1, <5>2, <5>3, <5>4
      <4> QED
        BY <4>1
    <3>4. Map(items, Trimmed(items)) = items
      <4>1. \A i \in 1 .. Len(items) : items[i] \in Words(W) /\ items[i] \in Range(items)
        BY <2>5 DEF Range
      <4>2. \A t \in Words(W) : t \in Seq(W) /\ t # <<>> /\ Trim(t) = t
        BY Zenon, TrimIs DEF Words
      <4>3. \A i \in 1 .. Len(items) :
              items[i] \in DOMAIN Trimmed(items) /\ Trimmed(items)[items[i]] = items[i]
        BY Zenon, <4>1, <4>2 DEF Trimmed
      <4>4. \A v \in DOMAIN Trimmed(items) : Trimmed(items)[v] \in Words(W)
        BY Zenon, <2>3, <3>1
      <4> QED
        BY Zenon, <2>5, <4>3, <4>4, MapKeeps
    <3> QED
      BY Zenon, <2>2, <3>2, <3>3, <3>4 DEF SplitStable, items, joined
  <2> QED
    BY <2>6, <2>7
<1> QED
  BY <1>1, SlicesType, PTL
=============================================================================
