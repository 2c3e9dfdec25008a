------------------------------- MODULE Slices -------------------------------
(***************************************************************************)
(* slice.go, and SplitJoinedItems of strs.go, on a slice that grows item   *)
(* by item.  A loop of the code is a function of the number of items that  *)
(* it has passed.  A callback of the caller is a parameter: a condition is *)
(* the set of the items that meet it, another callback is a function.      *)
(***************************************************************************)
EXTENDS Nil, Sequences, FiniteSets, FiniteSetsExt

CONSTANTS Items, Space, Comma,
          MaxLen   \* bound on the slice

VARIABLE arr
-----------------------------------------------------------------------------
FirstOrDefault(data, f, defaultVal) ==
    LET met == {i \in DOMAIN data : data[i] \in f}
    IN  IF met = {} THEN defaultVal ELSE data[Min(met)]
First(data, f) == FirstOrDefault(data, f, None)

\* Map's callback is a function; what it is not defined for, it gives no value for.
Map(data, f) ==
    LET res[i \in 0 .. Len(data)] ==
            IF i = 0 THEN <<>>
            ELSE IF data[i] \in DOMAIN f THEN Append(res[i - 1], f[data[i]]) ELSE res[i - 1]
    IN  res[Len(data)]
Filter(data, filter) ==
    LET res[i \in 0 .. Len(data)] ==
            IF i = 0 THEN <<>>
            ELSE IF data[i] \in filter THEN Append(res[i - 1], data[i]) ELSE res[i - 1]
    IN  res[Len(data)]

AnyItem(data, condition) == \E i \in DOMAIN data : data[i] \in condition
AllItems(data, condition) == \A i \in DOMAIN data : data[i] \in condition
Count(data, condition) ==
    LET cnt[i \in 0 .. Len(data)] ==
            IF i = 0 THEN 0
            ELSE IF data[i] \in condition THEN cnt[i - 1] + 1 ELSE cnt[i - 1]
    IN  cnt[Len(data)]

\* Mutant: the group starts again when its field is met again.
GroupedAgain(res, f, v) ==
    [g \in DOMAIN res \cup {f} |-> IF g = f THEN <<v>> ELSE res[g]]

\* The group of field f, which there may not be yet, gets v.
Grouped(res, f, v) ==
    [g \in DOMAIN res \cup {f} |->
       IF g # f THEN res[g] ELSE Append(IF f \in DOMAIN res THEN res[f] ELSE <<>>, v)]

\* GroupBy, and GroupByWithMap with its mapper.
GroupByWithMap(data, fieldFilter, mapper) ==
    LET res[i \in 0 .. Len(data)] ==
            IF i = 0 THEN <<>> ELSE Grouped(res[i - 1], fieldFilter[data[i]], mapper[data[i]])
    IN  res[Len(data)]
GroupBy(data, fieldFilter) == GroupByWithMap(data, fieldFilter, [v \in Range(data) |-> v])

\* The loop of SplitIntoBatches: the full batches, and the one that is being filled.
Put(s, v, itemsPerBatch) ==
    LET curBatch == Append(s.curBatch, v)
    IN  IF Len(curBatch) < itemsPerBatch THEN [s EXCEPT !.curBatch = curBatch]
        ELSE [batches |-> Append(s.batches, curBatch), curBatch |-> <<>>]
Filled(data, itemsPerBatch) ==
    LET s[i \in 0 .. Len(data)] ==
            IF i = 0 THEN [batches |-> <<>>, curBatch |-> <<>>]
            ELSE Put(s[i - 1], data[i], itemsPerBatch)
    IN  s[Len(data)]

\* Mutant: what is left at the end is dropped.
FullBatches(data, itemsPerBatch) == Filled(data, itemsPerBatch).batches

SplitIntoBatches(data, itemsPerBatch) ==
    LET s == Filled(data, itemsPerBatch)
    IN  IF s.curBatch = <<>> THEN s.batches ELSE Append(s.batches, s.curBatch)

\* Deduplication: the keys of a map, in any order.
Deduplication(data) == Bijection(1 .. Cardinality(Range(data)), Range(data))
-----------------------------------------------------------------------------
\* strings.Trim of blanks and strings.SplitSeq (external).
Trim(s) ==
    LET kept == {i \in DOMAIN s : s[i] # Space}
    IN  IF kept = {} THEN <<>> ELSE SubSeq(s, Min(kept), Max(kept))
Extended(parts, c, sep) ==
    IF c = sep THEN Append(parts, <<>>) ELSE [parts EXCEPT ![Len(parts)] = Append(@, c)]
SplitSeq(s, sep) ==
    LET parts[i \in 0 .. Len(s)] ==
            IF i = 0 THEN <<<<>>>> ELSE Extended(parts[i - 1], s[i], sep)
    IN  parts[Len(s)]

\* Mutant: empty parts are dropped before they are trimmed.
SplitThenTrim(joinedStr, sep) ==
    LET parts == SplitSeq(joinedStr, sep)
    IN  Map(parts, [v \in {p \in Range(parts) : p # <<>>} |-> Trim(v)])

\* SplitJoinedItems: the parts, trimmed, that are not empty then.
SplitJoinedItems(joinedStr, sep) ==
    IF joinedStr = <<>> THEN <<>>
    ELSE LET parts == SplitSeq(joinedStr, sep)
         IN  Map(parts, [v \in {p \in Range(parts) : Trim(p) # <<>>} |-> Trim(v)])
-----------------------------------------------------------------------------
SliceInit == arr = <<>>
Grow(v) == Len(arr) < MaxLen /\ arr' = Append(arr, v)

\* Shuffle swaps items, here one pair; ShuffleCopy does so in a copy of arr.
Shuffle ==
    /\ arr # <<>>
    /\ \E i, j \in DOMAIN arr : arr' = [arr EXCEPT ![i] = arr[j], ![j] = arr[i]]

SliceNext == Shuffle \/ \E v \in Items : Grow(v)
SliceSpec == SliceInit /\ [][SliceNext]_arr
-----------------------------------------------------------------------------
\* What the parts are parts of.
Joined(parts) ==
    LET joined[k \in 0 .. Len(parts)] ==
            IF k = 0 THEN <<>> ELSE joined[k - 1] \o parts[k]
    IN  joined[Len(parts)]

\* SplitIntoBatches loses, repeats and reorders nothing; no batch is empty, and all but
\* the last have itemsPerBatch items, or one when that is 0 or less.
BatchesCover ==
    \A n \in -1 .. MaxLen :
        LET batches == SplitIntoBatches(arr, n)
            full == IF n < 1 THEN 1 ELSE n
        IN  /\ Joined(batches) = arr
            /\ \A k \in DOMAIN batches :
                 IF k < Len(batches) THEN Len(batches[k]) = full
                 ELSE Len(batches[k]) \in 1 .. full

\* GroupBy puts every item under its field once, in the order of the slice, and has no
\* other groups; Count, Any, All, First and FirstOrDefault agree with the groups, and
\* Deduplication lists as many items as there are groups.
GroupsCover ==
    LET groups == GroupBy(arr, [v \in Items |-> v])
    IN  /\ DOMAIN groups = Range(arr)
        /\ \A d \in Deduplication(arr) : Len(d) = Cardinality(DOMAIN groups)
        /\ \A g \in Items :
             LET group == IF g \in DOMAIN groups THEN groups[g] ELSE <<>>
             IN  /\ group = Filter(arr, {g}) /\ Len(group) = Count(arr, {g})
                 /\ AnyItem(arr, {g}) <=> group # <<>>
                 /\ AllItems(arr, {g}) <=> group = arr
                 /\ First(arr, {g}) = IF group = <<>> THEN None ELSE Head(group)
                 /\ FirstOrDefault(arr, {g}, Space) = IF group = <<>> THEN Space ELSE Head(group)

\* The items of SplitCommaString are what splitting them again gives once they are
\* joined by commas: none is empty, none begins or ends with a blank.
SplitStable ==
    LET items == SplitJoinedItems(arr, Comma)
        joined == Joined([k \in DOMAIN items |-> IF k = 1 THEN items[k] ELSE <<Comma>> \o items[k]])
    IN  SplitJoinedItems(joined, Comma) = items
=============================================================================
