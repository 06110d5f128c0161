---------------------------- MODULE StlHashtable ----------------------------
(***************************************************************************)
(* hashtable of stl_hashtable.h, on which hash_set, hash_map and those     *)
(* with equal keys are built: a vector of chains, as long as one of the    *)
(* primes, with every element in the chain that its key hashes to.         *)
(***************************************************************************)
EXTENDS StlNodes

CONSTANTS Primes,          \* __stl_prime_list, in increasing order
          Hash(_),         \* of the key of a value
          SameKey(_, _)

Buckets(o) == Cardinality(DOMAIN o.buckets)
BucketOf(v, n) == Hash(v) % n

\* __stl_next_prime()
NextSize(n) ==
    LET enough == {k \in DOMAIN Primes : Primes[k] >= n}
    IN  IF enough = {} THEN Last(Primes) ELSE Primes[Min(enough)]

\* A vector for n buckets is one allocation.
NoChains(n) == [i \in 0 .. n - 1 |-> Null]
RoomFor(o, n) == IF o.fuel = 0 THEN [o EXCEPT !.thrown = TRUE] ELSE [o EXCEPT !.fuel = @ - 1]

\* initialize_buckets()
NewTable(o, n) ==
    LET room == RoomFor(o, NextSize(n))
    IN  Then(room, [room EXCEPT !.buckets = NoChains(NextSize(n)), !.capacity = NextSize(n),
                                !.elements = 0])

Chain(o, i) == Path(o, o.buckets[i], Null)
ChainOf(o, k) == Chain(o, BucketOf(o.mem[k], Buckets(o)))

\* The first node in a bucket from i on: begin(), and where operator++ goes from the
\* last of a chain.
FirstFrom(o, i) ==
    LET full == {j \in i .. Buckets(o) - 1 : o.buckets[j] # Null}
    IN  IF full = {} THEN Null ELSE o.buckets[Min(full)]
TableBegin(o) == FirstFrom(o, 0)
NextOf(o, p) ==
    IF o.next[p] # Null THEN o.next[p] ELSE FirstFrom(o, BucketOf(o.mem[p], Buckets(o)) + 1)

RECURSIVE Onward(_, _, _)
Onward(o, first, last) ==
    IF first = last THEN << >> ELSE <<first>> \o Onward(o, NextOf(o, first), last)

\* resize(): each chain is taken from its head and put at the heads of the new ones.
\* (Hash functions do not throw here.)
Rehashed(o, n) ==
    LET Moved(m, p) ==
            LET to == BucketOf(m.mem[p], n)
            IN  [m EXCEPT !.next[p] = m.buckets[to], !.buckets[to] = p]
        nodes == FlattenSeq([i \in 1 .. Buckets(o) |-> Chain(o, i - 1)])
    IN  FoldLeft(Moved, [o EXCEPT !.buckets = NoChains(n), !.capacity = n], nodes)
ResizeTable(o, hint) ==
    LET n == NextSize(hint)
        room == RoomFor(o, n)
    IN  IF hint <= Buckets(o) \/ n <= Buckets(o) THEN o ELSE Then(room, Rehashed(room, n))

\* A new node behind cur, or at the head of its bucket if cur is null.
LinkedAt(o, v, cur) ==
    LET made == CreateNode(o, v)
        p == NextBlock(o, 1)
        i == BucketOf(o.mem[v], Buckets(o))
    IN  Then(made, IF cur = Null
                   THEN [made EXCEPT !.next[p] = made.buckets[i], !.buckets[i] = p, !.elements = @ + 1]
                   ELSE [made EXCEPT !.next = [@ EXCEPT ![p] = made.next[cur], ![cur] = p],
                                     !.elements = @ + 1])

\* find(): the first in the chain with the key of the value at k.
Matching(o, k) == SelectSeq(ChainOf(o, k), LAMBDA p : SameKey(o.mem[p], o.mem[k]))
FindIn(o, k) == LET match == Matching(o, k) IN IF match = << >> THEN Null ELSE match[1]
CountIn(o, k) == Len(Matching(o, k))

\* insert_unique_noresize(), and find_or_insert() after its resize(); and the one for
\* equal keys, which go behind the first of them.
UniqueNoResize(o, v) == IF FindIn(o, v) # Null THEN o ELSE LinkedAt(o, v, Null)
EqualNoResize(o, v) == LinkedAt(o, v, FindIn(o, v))

TableInsert(o, v, unique) ==
    LET room == ResizeTable(o, o.elements + 1)
    IN  Then(room, IF unique THEN UniqueNoResize(room, v) ELSE EqualNoResize(room, v))

\* insert_unique() and insert_equal() of a forward range: room for all at once.
TableInsertRange(o, from, unique) ==
    FoldLeft(LAMBDA m, v : Then(m, IF unique THEN UniqueNoResize(m, v) ELSE EqualNoResize(m, v)),
             ResizeTable(o, o.elements + Len(from)), from)

\* equal_range(): from the first with the key to the next node with another one.
EqualRange(o, k) ==
    LET chain == ChainOf(o, k)
        first == FindIn(o, k)
        after == SelectSeq(SubSeq(chain, CHOOSE i \in DOMAIN chain : chain[i] = first, Len(chain)),
                           LAMBDA p : ~SameKey(o.mem[p], o.mem[k]))
    IN  IF first = Null THEN <<Null, Null>>
        ELSE <<first, IF after # << >> THEN after[1]
                      ELSE FirstFrom(o, BucketOf(o.mem[k], Buckets(o)) + 1)>>

\* A node of bucket i leaves its chain and is deleted.
Deleted(o, i, p) ==
    LET before == SelectSeq(Chain(o, i), LAMBDA q : o.next[q] = p)
        out == IF before = << >> THEN [o EXCEPT !.buckets[i] = o.next[p]]
               ELSE [o EXCEPT !.next[before[1]] = o.next[p]]
    IN  [DestroyNode(out, p) EXCEPT !.elements = @ - 1]
DeletedAll(o, i, nodes) == FoldLeft(LAMBDA m, p : Deleted(m, i, p), o, nodes)

\* erase() of a key: those behind the head first, the head last.
TableEraseKeyKeepsHead(o, k) ==
    DeletedAll(o, BucketOf(o.mem[k], Buckets(o)),
               SelectSeq(Matching(o, k), LAMBDA p : p # ChainOf(o, k)[1]))
TableEraseKey(o, k) ==
    LET match == Matching(o, k)
    IN  DeletedAll(o, BucketOf(o.mem[k], Buckets(o)),
                   IF match # << >> /\ match[1] = ChainOf(o, k)[1]
                   THEN Append(Tail(match), match[1]) ELSE match)

TableErase(o, p) == Deleted(o, BucketOf(o.mem[p], Buckets(o)), p)

\* erase_bucket(): up to last from the head of a bucket, but all of its rest from
\* another node.
EraseBucket(o, i, first, last) ==
    DeletedAll(o, i, Path(o, first, IF first = o.buckets[i] THEN last ELSE Null))

TableEraseRange(o, first, last) ==
    LET n == Buckets(o)
        f == BucketOf(o.mem[first], n)
        l == IF last = Null THEN n ELSE BucketOf(o.mem[last], n)
        head == EraseBucket(o, f, first, Null)
        between == FoldLeft(LAMBDA m, i : EraseBucket(m, i, m.buckets[i], Null), head, Span(f + 1, l))
    IN  CASE first = last -> o
          [] first # last /\ f = l -> EraseBucket(o, f, first, last)
          [] OTHER -> IF l = n THEN between ELSE EraseBucket(between, l, between.buckets[l], last)

TableClear(o) ==
    [FoldLeft(LAMBDA m, i : DestroyNodes(m, Chain(m, i)), o, Span(0, Buckets(o)))
     EXCEPT !.buckets = NoChains(Buckets(o)), !.elements = 0]

\* copy_from(), with its room for as many buckets; chains keep their order.
CopyFrom(o, other) ==
    LET n == Cardinality(DOMAIN other)
        room == IF o.capacity < n THEN RoomFor(o, n) ELSE o
        ready == [room EXCEPT !.buckets = NoChains(n), !.capacity = Max({@, n})]
        sources == [i \in 0 .. n - 1 |-> Path(o, other[i], Null)]
        Append1(s, from) ==
            LET made == CreateNode(s.o, from)
                p == NextBlock(s.o, 1)
                i == BucketOf(s.o.mem[from], n)
            IN  [o |-> Then(made, IF s.at[i] = Null
                                  THEN [made EXCEPT !.next[p] = Null, !.buckets[i] = p]
                                  ELSE [made EXCEPT !.next = [@ EXCEPT ![p] = Null, ![s.at[i]] = p]]),
                 at |-> [s.at EXCEPT ![i] = p]]
        copied == FoldLeft(Append1, [o |-> ready, at |-> NoChains(n)],
                           FlattenSeq([i \in 1 .. n |-> sources[i - 1]])).o
        count == Len(FlattenSeq([i \in 1 .. n |-> sources[i - 1]]))
    IN  IF room.thrown THEN [room EXCEPT !.buckets = NoChains(0)]
        ELSE IF copied.thrown THEN TableClear(copied)
        ELSE [copied EXCEPT !.elements = count]

\* operator=
AssignTable(o, other) == CopyFrom(TableClear(o), other)

=============================================================================
