---------------------------- MODULE MCStlTables ----------------------------
(***************************************************************************)
(* The containers that find their elements by a key, called one operation  *)
(* after another.  meant has the address of each element beside it: they   *)
(* stay where they are.  No value is in a container twice (a bound), but   *)
(* several have the same key.                                              *)
(***************************************************************************)
EXTENDS MCStlSequences

CONSTANTS Entries,     \* the values in trees and tables
          Primes,      \* of buckets
          MaxEntries   \* bound: elements of a table

T == INSTANCE StlTree WITH Before <- KeyBefore
H == INSTANCE StlHashtable WITH Hash <- Key, SameKey <- KeySame

Others == {v \in Entries : \A k \in DOMAIN meant : meant[k][2] # v}

\* How many elements come before one with this key, or are equal to it.
Less(v) == Cardinality({k \in DOMAIN meant : KeyBefore(meant[k][2], v)})
LessOrSame(v) == Cardinality({k \in DOMAIN meant : ~KeyBefore(v, meant[k][2])})

-----------------------------------------------------------------------------
(* Trees.  A call that throws leaves what was there, but operator= nothing. *)

TreeNodes(r) == T!Forward(r, T!Leftmost(r), r.header)
Paired(r, nodes) == [k \in DOMAIN nodes |-> <<nodes[k], r.mem[nodes[k]]>>]
InTree(r) == Paired(r, TreeNodes(r))
At(index) == (TreeNodes(c) \o <<c.header>>)[index + 1]
NewEntry(v) == <<V!NextBlock(c, 1), v>>
With1(v, f) == With(Given(<<v>>), f)

TreeOutcome(r, wanted) ==
    c' = V!CallWith(r, 0, << >>) /\ meant' = IF r.thrown THEN meant ELSE wanted

InsertTree == \E f \in {1, 99}, v \in Others :
    \/ TreeOutcome(T!InsertEqual(With1(v, f), -1),
                   Spliced(meant, LessOrSame(v), 0, <<NewEntry(v)>>))
    \/ TreeOutcome(T!InsertUnique(With1(v, f), -1),
                   IF Less(v) < LessOrSame(v) THEN meant
                   ELSE Spliced(meant, Less(v), 0, <<NewEntry(v)>>))

\* Equal elements may come in either order.
InsertHintedTree == \E v \in Others, index \in 0 .. Len(meant), unique \in BOOLEAN :
    \E r \in {T!InsertHinted(With1(v, 99), At(index), -1, unique)} :
    LET at == SelectInSeq(InTree(r), LAMBDA e : e[2] = v) - 1
    IN  TreeOutcome(r, IF unique /\ Less(v) < LessOrSame(v) THEN meant
                       ELSE Spliced(meant, IF at \in Less(v) .. LessOrSame(v) THEN at ELSE Less(v), 0,
                                    <<NewEntry(v)>>))

EraseTree ==
    \/ \E index \in 0 .. Len(meant) - 1 :
          TreeOutcome(T!TreeErase(c, At(index)), Spliced(meant, index, 1, << >>))
    \/ \E v \in Entries : TreeOutcome(T!EraseKey(With1(v, 0), -1),
                                      Spliced(meant, Less(v), LessOrSame(v) - Less(v), << >>))
    \/ \E from, to \in 0 .. Len(meant) :
          from < to /\ TreeOutcome(T!TreeEraseRange(c, At(from), At(to)),
                                   Spliced(meant, from, to - from, << >>))

\* r instead of the other tree in its memory, which goes.
InsteadOf(r, other) ==
    LET gone == T!DestroyTree([r EXCEPT !.header = other.header, !.count = other.count])
    IN  V!CallWith([gone EXCEPT !.header = r.header, !.count = r.count], 0, << >>)

\* Another with the same elements, and this one goes.
CopyTree == \E f \in Fuels :
    \E r \in {T!TreeOf([c EXCEPT !.fuel = f], T!Root(c), c.count)} :
       IF r.thrown THEN TreeOutcome(r, meant)
       ELSE /\ c' = InsteadOf(r, c)
            /\ meant' = LET nodes == TreeNodes(r)
                        IN  [k \in DOMAIN meant |-> <<nodes[k], meant[k][2]>>]

\* operator= of a copy without its first element.
AssignTrees == \E f \in Fuels :
    \E copy \in {T!TreeOf([c EXCEPT !.fuel = 99], T!Root(c), c.count)} :
    \E other \in {IF c.count = 0 THEN copy ELSE T!TreeErase(copy, T!Leftmost(copy))} :
    \E r \in {T!AssignTree([other EXCEPT !.header = c.header, !.count = c.count, !.fuel = f],
                           T!Root(other), other.count)} :
       /\ c' = InsteadOf(r, other)
       /\ meant' = LET nodes == TreeNodes(r)
                   IN  IF r.thrown \/ meant = << >> THEN << >>
                       ELSE [k \in 1 .. Len(meant) - 1 |-> <<nodes[k], meant[k + 1][2]>>]

TreeNext == InsertTree \/ InsertHintedTree \/ EraseTree \/ CopyTree \/ AssignTrees

\* The elements are the ones meant, each at its place in memory and in the order of
\* their keys, forward and backward; lookups agree with them.
TreeHolds ==
    LET nodes == TreeNodes(c) IN
    /\ InTree(c) = meant
    /\ c.count = Len(meant)
    /\ \A k \in DOMAIN nodes : T!Decrement(c, IF k = Len(nodes) THEN c.header ELSE nodes[k + 1])
                                 = nodes[k]
    /\ \A v \in Entries : LET o == With1(v, 0) IN
          /\ T!LowerBound(o, -1) = At(Less(v))
          /\ T!UpperBound(o, -1) = At(LessOrSame(v))
          /\ T!CountKey(o, -1) = LessOrSame(v) - Less(v)
          /\ T!FindKey(o, -1) = IF Less(v) < LessOrSame(v) THEN At(Less(v)) ELSE c.header

\* The tree is balanced, and is made of the allocated nodes and of no others.
TreeIntact ==
    /\ ~c.bad
    /\ T!RbVerify(c)
    /\ V!Objects(c) = ToSet(TreeNodes(c))
    /\ c.blocks = {<<p, 1>> : p \in ToSet(TreeNodes(c)) \cup {c.header}}

\* What of a tree does not depend on the addresses of its nodes.
TreeShape ==
    LET nodes == TreeNodes(c)
        Value(p) == IF p = c.header THEN 0 ELSE c.mem[p]
    IN  [k \in DOMAIN nodes |-> <<c.mem[nodes[k]], c.color[nodes[k]], Value(c.parent[nodes[k]])>>]

-----------------------------------------------------------------------------
(* Tables.  meant is a set: which place an element has in a table says the *)
(* hash function and the history.                                          *)

NodesOf(r) == H!Onward(r, H!TableBegin(r), H!Null)
InTable(r) == {<<p, r.mem[p]>> : p \in ToSet(NodesOf(r))}
Missing == {v \in Entries : \A e \in meant : e[2] # v}
Equal(v) == {e \in meant : KeySame(e[2], v)}

\* What a throw leaves of an operation on one element is what was there.
TableOutcome(r, wanted, left) ==
    c' = V!CallWith(r, 0, << >>) /\ meant' = IF r.thrown THEN left ELSE wanted

InsertTable == \E f \in Fuels, v \in Missing, unique \in BOOLEAN :
    /\ Cardinality(meant) < MaxEntries
    /\ TableOutcome(H!TableInsert(With1(v, f), -1, unique),
                    IF unique /\ Equal(v) # {} THEN meant ELSE meant \cup {NewEntry(v)}, meant)

\* Of two values with the same key only the first goes into a table of unique keys.
InsertTableRange == \E f \in Fuels, v, w \in Missing, unique \in BOOLEAN :
    \E r \in {H!TableInsertRange(With(Given(<<v, w>>), f), <<-2, -1>>, unique)} :
    LET new == IF ~unique THEN {v, w}
               ELSE {u \in {v, w} : Equal(u) = {} /\ (KeySame(v, w) => u = v)}
    IN  /\ v # w /\ Cardinality(meant) < MaxEntries - 1
        /\ c' = V!CallWith(r, 0, << >>)
        /\ meant' = InTable(r)
        /\ meant \subseteq meant'
        /\ LET added == {e[2] : e \in meant' \ meant}
           IN  IF r.thrown THEN added \subseteq new ELSE added = new

\* Both are in one chain, and p is not its head.
InsideChain(p, q) == q \in ToSet(H!Path(c, p, H!Null)) /\ H!ChainOf(c, p)[1] # p

\* erase() of a key, of an element and of a range, after which those in the range are gone
\* and the others are there.
EraseTable ==
    \/ \E v \in Entries : TableOutcome(H!TableEraseKey(With1(v, 0), -1), meant \ Equal(v), meant)
    \/ \E e \in meant : TableOutcome(H!TableErase(c, e[1]), meant \ {e}, meant)
    \/ LET nodes == NodesOf(c) \o <<H!Null>> IN
       \E from, to \in DOMAIN nodes :
          /\ from <= to
          /\ from < to /\ InsideChain(nodes[from], nodes[to]) => "erase inside a chain" \in Faulty
          /\ TableOutcome(H!TableEraseRange(c, nodes[from], nodes[to]),
                          {e \in meant : e[1] \notin ToSet(SubSeq(nodes, from, to - 1))}, meant)

ClearTable == TableOutcome(H!TableClear(c), {}, meant)

ResizeTable == \E f \in {0, 99}, hint \in 1 .. Primes[Len(Primes)] :
    TableOutcome(H!ResizeTable([c EXCEPT !.fuel = f], hint), meant, meant)

TableInsteadOf(r, buckets) ==
    LET gone == H!TableClear([r EXCEPT !.buckets = buckets])
    IN  V!CallWith([gone EXCEPT !.buckets = r.buckets, !.elements = r.elements], 0, << >>)

\* A copy, and this one goes; operator= of a copy, in which all are again in new nodes.
\* A throw leaves this one alone, or empty.
CopyTable == \E f \in Fuels :
    \E fresh \in {H!CopyFrom([c EXCEPT !.fuel = f, !.buckets = H!NoChains(0), !.capacity = 0,
                                       !.elements = 0], c.buckets)} :
       IF fresh.thrown
       THEN /\ c' = V!CallWith([c EXCEPT !.mem = fresh.mem, !.blocks = fresh.blocks,
                                         !.next = fresh.next, !.bad = fresh.bad], 0, << >>)
            /\ UNCHANGED meant
       ELSE /\ c' = TableInsteadOf(fresh, c.buckets)
            /\ meant' = InTable(fresh)
            /\ {e[2] : e \in meant'} = {e[2] : e \in meant}

AssignTables == \E f \in Fuels :
    \E other \in {H!CopyFrom([c EXCEPT !.fuel = 99, !.buckets = H!NoChains(0), !.capacity = 0,
                                       !.elements = 0], c.buckets)} :
    \E r \in {H!AssignTable([other EXCEPT !.buckets = c.buckets, !.capacity = c.capacity,
                                          !.elements = c.elements, !.fuel = f],
                            other.buckets)} :
       /\ c' = TableInsteadOf(r, other.buckets)
       /\ meant' = IF r.thrown THEN {} ELSE InTable(r)
       /\ ~r.thrown => {e[2] : e \in meant'} = {e[2] : e \in meant}

TableNext ==
    \/ InsertTable \/ InsertTableRange \/ EraseTable \/ ClearTable \/ ResizeTable
    \/ CopyTable \/ AssignTables

\* An iterator visits each element once, those with equal keys one after the other, and
\* lookups agree with what is there.
TableHolds ==
    LET nodes == NodesOf(c) IN
    /\ InTable(c) = meant
    /\ Len(nodes) = Cardinality(meant) /\ c.elements = Len(nodes)
    /\ \A i, j, k \in DOMAIN nodes :
          i < j /\ j < k /\ KeySame(c.mem[nodes[i]], c.mem[nodes[k]])
            => KeySame(c.mem[nodes[i]], c.mem[nodes[j]])
    /\ \A v \in Entries : LET o == With1(v, 0) IN
          /\ H!CountIn(o, -1) = Cardinality(Equal(v))
          /\ (H!FindIn(o, -1) = H!Null) = (Equal(v) = {})
          /\ LET both == H!EqualRange(o, -1)
             IN  ToSet(H!Onward(o, both[1], both[2])) = {e[1] : e \in Equal(v)}

\* There are no more elements than buckets, each is in the chain of its hash, and the
\* nodes are the blocks.
TableIntact ==
    /\ ~c.bad
    /\ Cardinality(meant) <= H!Buckets(c)
    /\ \A i \in DOMAIN c.buckets : \A p \in ToSet(H!Chain(c, i)) :
          H!BucketOf(c.mem[p], H!Buckets(c)) = i
    /\ V!Objects(c) = ToSet(NodesOf(c))
    /\ c.blocks = {<<p, 1>> : p \in ToSet(NodesOf(c))}

\* What of a table does not depend on the addresses of its nodes.
TableShape ==
    <<[i \in DOMAIN c.buckets |->
          LET nodes == H!Chain(c, i) IN [k \in DOMAIN nodes |-> c.mem[nodes[k]]]],
      c.capacity, c.elements>>

=============================================================================
