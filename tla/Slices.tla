------------------------------- MODULE Slices -------------------------------
(***************************************************************************)
(* Package slices: each loop is a fold over the items, checked against     *)
(* what the result should be, on all slices up to a length.  An index is   *)
(* the one of Go, from zero; the variants that pass the index to fn are    *)
(* the general form of the others.                                         *)
(***************************************************************************)
EXTENDS Integers, Sequences, FiniteSets

SE == INSTANCE SequencesExt

CONSTANTS
    Items,      \* the values of an item: integers from zero, the zero value
    MaxLen      \* bound on the length

VARIABLES s, other, size

vars == <<s, other, size>>

-----------------------------------------------------------------------------
(* Folds.  A callback is a function, of the item or of the item and its index. *)

\* for i, item := range s
Range(t, step(_, _, _), start) == SE!FoldLeftDomain(LAMBDA acc, i : step(acc, t[i], i - 1), start, t)

\* fn is called with the accumulator, the item and its index, in order.
ReduceN(t, fn, default) == Range(t, LAMBDA acc, x, i : fn[acc, x, i], default)
Reduce(t, fn, default) == Range(t, LAMBDA acc, x, i : fn[acc, x], default)

MapN(t, fn) == Range(t, LAMBDA acc, x, i : Append(acc, fn[x, i]), <<>>)
Map(t, fn) == Range(t, LAMBDA acc, x, i : Append(acc, fn[x]), <<>>)
FlatMap(t, fn) == Range(t, LAMBDA acc, x, i : acc \o fn[x], <<>>)

\* Each and EachN: the calls of fn.
Each(t) == Range(t, LAMBDA calls, x, i : Append(calls, x), <<>>)
EachN(t) == Range(t, LAMBDA calls, x, i : Append(calls, <<x, i>>), <<>>)

\* result[key] = value
Put(m, key, value) == [k \in DOMAIN m \cup {key} |-> IF k = key THEN value ELSE m[k]]

Get(m, key, zero) == IF key \in DOMAIN m THEN m[key] ELSE zero

KeyBy(t, fn) == Range(t, LAMBDA m, x, i : Put(m, fn[x], x), <<>>)
KeyByN(t, fn) == Range(t, LAMBDA m, x, i : Put(m, fn[x, i], x), <<>>)
KeyMap(t, fn) == Range(t, LAMBDA m, x, i : Put(m, fn[x, i][1], fn[x, i][2]), <<>>)
GroupBy(t, fn) == Range(t, LAMBDA m, x, i : Put(m, fn[x], Append(Get(m, fn[x], <<>>), x)), <<>>)
GroupByN(t, fn) == Range(t, LAMBDA m, x, i : Put(m, fn[x, i], Append(Get(m, fn[x, i], <<>>), x)), <<>>)
CountBy(t, fn) == Range(t, LAMBDA m, x, i : Put(m, fn[x], Get(m, fn[x], 0) + 1), <<>>)
CountByN(t, fn) == Range(t, LAMBDA m, x, i : Put(m, fn[x, i], Get(m, fn[x, i], 0) + 1), <<>>)

-----------------------------------------------------------------------------
(* Selections *)

indexSet(t) == {t[i] : i \in DOMAIN t}

Filter(t, fn) == Range(t, LAMBDA acc, x, i : IF fn[x] THEN Append(acc, x) ELSE acc, <<>>)
FilterN(t, fn) == Range(t, LAMBDA acc, x, i : IF fn[x, i] THEN Append(acc, x) ELSE acc, <<>>)

Partition(t, fn) ==
    Range(t, LAMBDA acc, x, i : IF fn[x] THEN <<Append(acc[1], x), acc[2]>> ELSE <<acc[1], Append(acc[2], x)>>, <<<<>>, <<>>>>)
PartitionN(t, fn) ==
    Range(t, LAMBDA acc, x, i : IF fn[x, i] THEN <<Append(acc[1], x), acc[2]>> ELSE <<acc[1], Append(acc[2], x)>>, <<<<>>, <<>>>>)

\* A callback that takes no index, as one that ignores it.
Ignoring(fn) == [x \in DOMAIN fn, i \in Nat |-> fn[x]]

\* Mutant: the last item of a key is kept, not the first.
UniqueByNLast(t, fn) ==
    FilterN(t, [x \in Items, i \in Nat |-> \A j \in DOMAIN t : j > i + 1 => fn[t[j], j - 1] # fn[x, i]])

\* The accumulator: the items, and the keys seen.
UniqueByN(t, fn) ==
    Range(t, LAMBDA acc, x, i : IF fn[x, i] \in acc[2] THEN acc
                                ELSE <<Append(acc[1], x), acc[2] \cup {fn[x, i]}>>, <<<<>>, {}>>)[1]
UniqueBy(t, fn) == UniqueByN(t, Ignoring(fn))
Unique(t) == UniqueBy(t, [x \in Items |-> x])

In(items) == [x \in Items |-> x \in indexSet(items)]
NotIn(items) == [x \in Items |-> x \notin indexSet(items)]

Difference(t, u) == IF t = <<>> THEN <<>> ELSE IF u = <<>> THEN t ELSE Filter(t, NotIn(u))
Intersect(t, u) == IF t = <<>> \/ u = <<>> THEN <<>> ELSE Filter(t, In(u))
Only(t, items) == IF t = <<>> \/ items = <<>> THEN <<>> ELSE Filter(t, In(items))
Without(t, items) == IF t = <<>> THEN <<>> ELSE IF items = <<>> THEN t ELSE Filter(t, NotIn(items))
Remove(t, items) == Without(t, items)

-----------------------------------------------------------------------------
(* Searches: the value or index, and whether there is one *)

Zero == 0
Any(t, fn) == \E i \in DOMAIN t : fn[t[i]]
Every(t, fn) == \A i \in DOMAIN t : fn[t[i]]
Contains(t, e) == \E i \in DOMAIN t : t[i] = e

IndexN(t, fn) ==
    LET found == {i \in 0..(Len(t) - 1) : fn[t[i + 1], i]}
    IN IF found = {} THEN <<-1, FALSE>> ELSE <<CHOOSE i \in found : \A j \in found : i <= j, TRUE>>
LastIndexN(t, fn) ==
    LET found == {i \in 0..(Len(t) - 1) : fn[t[i + 1], i]}
    IN IF found = {} THEN <<-1, FALSE>> ELSE <<CHOOSE i \in found : \A j \in found : j <= i, TRUE>>
Index(t, fn) == IndexN(t, Ignoring(fn))
LastIndex(t, fn) == LastIndexN(t, Ignoring(fn))

Equals(e) == [x \in Items |-> x = e]
IndexOf(t, e) == Index(t, Equals(e))[1]
LastIndexOf(t, e) == LastIndex(t, Equals(e))[1]

At(t, found) == IF found[2] THEN <<t[found[1] + 1], TRUE>> ELSE <<Zero, FALSE>>
FindN(t, fn) == At(t, IndexN(t, fn))
Find(t, fn) == At(t, Index(t, fn))
FindLastN(t, fn) == At(t, LastIndexN(t, fn))
FindLast(t, fn) == At(t, LastIndex(t, fn))
First(t) == IF t = <<>> THEN <<Zero, FALSE>> ELSE <<t[1], TRUE>>
Last(t) == IF t = <<>> THEN <<Zero, FALSE>> ELSE <<t[Len(t)], TRUE>>

-----------------------------------------------------------------------------
(* Shapes and sums *)

Prepend(t, items) == items \o t
AppendItems(t, items) == t \o items
Reverse(t) == [i \in DOMAIN t |-> t[Len(t) + 1 - i]]
Concat(slices) == Range(slices, LAMBDA acc, t, i : acc \o t, <<>>)
Fill(t, value) == [i \in DOMAIN t |-> value]

\* The chunks start at 0, n, 2n, ...
Chunk(t, n) ==
    IF n <= 0 THEN <<>>
    ELSE [k \in 1..((Len(t) + n - 1) \div n) |->
              SubSeq(t, (k - 1) * n + 1, IF k * n < Len(t) THEN k * n ELSE Len(t))]

\* Every result that Shuffle may have, and every item that Random may return.
Shuffle(t) == {u \in [DOMAIN t -> indexSet(t)] : \A x \in Items : Len(Filter(u, Equals(x))) = Len(Filter(t, Equals(x)))}
Random(t) == IF t = <<>> THEN {Zero} ELSE indexSet(t)

Min(t) == IF t = <<>> THEN Zero ELSE Range(t, LAMBDA m, x, i : IF x < m THEN x ELSE m, t[1])
Max(t) == IF t = <<>> THEN Zero ELSE Range(t, LAMBDA m, x, i : IF x > m THEN x ELSE m, t[1])
Sum(t) == Range(t, LAMBDA sum, x, i : sum + x, 0)
Length(t) == Len(t)
IsEmpty(t) == Len(t) = 0
IsNotEmpty(t) == Len(t) > 0

-----------------------------------------------------------------------------
AllSlices == UNION {[1..n -> Items] : n \in 0..MaxLen}

Init == s \in AllSlices /\ other \in AllSlices /\ size = 0

Grow == size < MaxLen + 1 /\ size' = size + 1 /\ UNCHANGED <<s, other>>

Spec == Init /\ [][Grow]_vars

-----------------------------------------------------------------------------
(* Properties *)

UpTo(n) == SubSeq(s, 1, IF n < Len(s) THEN n ELSE Len(s))
Odd == [x \in Items |-> x % 2 = 1]
Key == [x \in Items |-> x % 2]
Has(k) == [x \in Items |-> Key[x] = k]
Place == [x \in Items, i \in Nat |-> <<Key[x], i % 2>>]
Position == [x \in Items, i \in Nat |-> i]
Before(n) == [x \in Items, i \in Nat |-> i < n]
From(n) == [x \in Items, i \in Nat |-> i >= n]

\* Partition and PartitionN lose no item and keep the order: their halves are what
\* Filter and FilterN select, and together a permutation of the slice.
PartitionSplits ==
    /\ Partition(s, Odd) = <<Filter(s, Odd), Filter(s, [x \in Items |-> ~Odd[x]])>>
    /\ PartitionN(s, Before(size)) = <<UpTo(size), SubSeq(s, size + 1, Len(s))>>
    /\ FilterN(s, From(size)) = SubSeq(s, size + 1, Len(s))
    /\ Concat(Partition(s, Odd)) \in Shuffle(s)
    /\ Every(Partition(s, Odd)[1], Odd) /\ ~Any(Partition(s, Odd)[2], Odd)

\* Unique and UniqueBy keep the first item of every key, in order.
UniqueKeepsFirst ==
    LET u == UniqueBy(s, Key)
    IN /\ indexSet(Map(u, Key)) = indexSet(Map(s, Key)) /\ Length(u) = Cardinality(indexSet(Map(s, Key)))
       /\ \A i \in DOMAIN u : u[i] = GroupBy(s, Key)[Key[u[i]]][1]
       /\ \A i, j \in DOMAIN Unique(s) : i < j => IndexOf(s, Unique(s)[i]) < IndexOf(s, Unique(s)[j])
       /\ indexSet(Unique(s)) = indexSet(s) /\ UniqueByN(s, Position) = s

\* The groups of GroupBy are what Filter selects by key; CountBy counts them, KeyBy
\* holds the last item of each, KeyMap the last index.
GroupsPartition ==
    LET groups == GroupBy(s, Key)
    IN /\ DOMAIN groups = {Key[s[i]] : i \in DOMAIN s}
       /\ \A k \in DOMAIN groups :
             /\ groups[k] = Filter(s, Has(k))
             /\ CountBy(s, Key)[k] = Len(groups[k])
             /\ KeyBy(s, Key)[k] = groups[k][Len(groups[k])]
             /\ KeyMap(s, [x \in Items, i \in Nat |-> <<Key[x], i>>])[k] = LastIndex(s, Has(k))[1]
       /\ \A i \in DOMAIN s : KeyByN(s, Position)[i - 1] = s[i]
       /\ \A k \in DOMAIN GroupByN(s, Place) : CountByN(s, Place)[k] = Len(GroupByN(s, Place)[k])

\* Difference and Intersect split a slice, an empty argument included, and agree with
\* Without and Only.
SetAlgebra ==
    /\ <<Intersect(s, other), Difference(s, other)>> = Partition(s, [x \in Items |-> Contains(other, x)])
    /\ Without(s, other) = Difference(s, other) /\ Remove(s, other) = Without(s, other)
    /\ Only(s, other) = Intersect(s, other)

\* Searching from the end is searching the reversed slice, and Find returns the item
\* that Index points to.
SearchesMirror ==
    LET mirror(found) == IF found[2] THEN <<Len(s) - 1 - found[1], TRUE>> ELSE found
    IN /\ LastIndex(s, Odd) = mirror(Index(Reverse(s), Odd)) /\ FindLast(s, Odd) = Find(Reverse(s), Odd)
       /\ LastIndexN(s, [x \in Items, i \in Nat |-> i < size /\ Odd[x]]) = LastIndex(UpTo(size), Odd)
       /\ FindN(s, From(size)) = First(SubSeq(s, size + 1, Len(s)))
       /\ FindLastN(s, Before(size)) = Last(UpTo(size))
       /\ \A e \in Items : Contains(s, e) <=> IndexOf(s, e) # -1
       /\ \A e \in Items : LastIndexOf(s, e) = mirror(Index(Reverse(s), Equals(e)))[1]
       /\ Any(s, Odd) <=> Index(s, Odd)[2]

\* The chunks join to the slice, every one but the last is full, and none is empty.
ChunksJoin ==
    LET chunks == Chunk(s, size)
    IN IF size = 0 THEN chunks = <<>>
       ELSE /\ Concat(chunks) = s /\ \A k \in DOMAIN chunks : IsNotEmpty(chunks[k]) /\ Len(chunks[k]) <= size
            /\ \A k \in DOMAIN chunks : k < Len(chunks) => Len(chunks[k]) = size

\* Min and Max are items that bound the others, the sum of joined slices is the sum
\* of their sums, and Reduce goes from the left.
ExtremesBound ==
    /\ IsEmpty(s) \/ {Min(s), Max(s)} \subseteq Random(s)
    /\ \A i \in DOMAIN s : Min(s) <= s[i] /\ s[i] <= Max(s)
    /\ Sum(Prepend(s, other)) = Sum(AppendItems(s, other)) /\ Sum(Concat(<<s, other>>)) = Sum(s) + Sum(other)
    /\ Sum(Fill(s, 2)) = 2 * Length(s) /\ Sum(MapN(s, [x \in Items, i \in Nat |-> x + i])) - Sum(s) = (Len(s) * (Len(s) - 1)) \div 2
    /\ FlatMap(s, [x \in Items |-> <<x, x>>]) = Concat(Map(s, [x \in Items |-> <<x, x>>]))
    /\ Each(s) = s /\ EachN(s) = MapN(s, [x \in Items, i \in Nat |-> <<x, i>>])
    /\ Reduce(s, [acc \in Nat, x \in Items |-> 3 * acc + x], 0) = Sum(MapN(s, [x \in Items, i \in Nat |-> x * 3^(Len(s) - 1 - i)]))
    /\ ReduceN(s, [acc \in Seq(Items), x \in Items, i \in Nat |-> IF i < size THEN Append(acc, x) ELSE acc], <<>>) = UpTo(size)

\* Every function of package slices agrees with its reference definition.
SlicesAgree ==
    /\ PartitionSplits /\ UniqueKeepsFirst /\ GroupsPartition /\ SetAlgebra /\ SearchesMirror /\ ChunksJoin
    /\ ExtremesBound

=============================================================================
