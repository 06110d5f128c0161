--------------------------- MODULE MCStlSequences ---------------------------
(***************************************************************************)
(* The sequence containers called one operation after another, any copy or *)
(* allocation of which may throw.  The source of a value is a variable of  *)
(* the caller or an element of the container itself; for remove() one that *)
(* goes last if at all, as the code compares with it again and again.      *)
(***************************************************************************)
EXTENDS Integers, Sequences, FiniteSets, SequencesExt

CONSTANTS Values,      \* of the elements of vectors and deques, positive numbers
          Keyed,       \* of those of lists, which are compared by their halves
          Store,       \* bound: the last address
          MaxElements, \* bound: elements in a container, one more in a deque
          Fuels,       \* how many copies and allocations a call may make
          B, InitialMap, Counters,
          Faulty       \* calls that are known to go wrong and are made all the same, of
                       \* "insert at an end", "input iterators", "erase inside a chain"

VARIABLES c,           \* the container, and the memory it is in
          meant        \* the elements it should have: all of them, in order

containerVars == <<c, meant>>

V == INSTANCE StlVector
D == INSTANCE StlDeque

Key(v) == v \div 2
KeyBefore(v, w) == Key(v) < Key(w)
KeySame(v, w) == Key(v) = Key(w)
L == INSTANCE StlList WITH Before <- KeyBefore, Same <- KeySame
S == INSTANCE StlSlist WITH Before <- KeyBefore, Same <- KeySame

-----------------------------------------------------------------------------
(* Calls.                                                                  *)

\* The sources of an argument: values of the caller's, and where they are.
Given(values) == [values |-> values, at |-> V!Span(-Len(values), 0)]
ManyGiven == {Given(values) : values \in SeqOf(Values, 2)}
OneGiven(own) == {Given(<<v>>) : v \in Values}
                    \cup {[values |-> << >>, at |-> <<a>>] : a \in own}

\* A call without handlers: nothing is thrown in it unless that is what a run is about.
FuelsFor(call) == IF call \in Faulty THEN Fuels ELSE {99}

With(source, fuel) == V!CallWith(c, fuel, source.values)
ValuesOf(o, source) == [k \in DOMAIN source.at |-> o.mem[source.at[k]]]

Spliced(s, index, count, new) ==
    SubSeq(s, 1, index) \o new \o SubSeq(s, index + count + 1, Len(s))

\* What is left after a call: as wanted, or what a throw left.
Outcome(r, wanted, left) ==
    /\ c' = V!CallWith(r, 0, << >>)
    /\ meant' = IF r.thrown THEN left ELSE wanted

-----------------------------------------------------------------------------
(* Vectors.  Where elements are not moved in place a throw changes nothing. *)

VectorOutcome(r, wanted, strong) ==
    /\ Len(wanted) <= MaxElements
    /\ Outcome(r, wanted, IF strong THEN meant ELSE V!Elements(r) \o << >>)

VectorSources == OneGiven(V!All(c))

\* Another vector in its place, from a range that can be counted or one that cannot.
RemakeVector == \E f \in Fuels, source \in ManyGiven :
    LET o == V!CallWith(V!DestroyVector(c), f, source.values) IN
    \/ VectorOutcome(V!VectorOf(o, source.at), source.values, FALSE)
    \/ /\ f \in FuelsFor("input iterators")
       /\ VectorOutcome(V!VectorOfEach(o, source.at), source.values, FALSE)

ReserveVector == \E f \in Fuels, n \in 1 .. MaxElements :
    VectorOutcome(V!Reserve(With(Given(<< >>), f), n), meant, TRUE)

InsertVector == \E f \in Fuels, index \in 0 .. Len(meant), source \in VectorSources :
    LET o == With(source, f) IN
    VectorOutcome(V!Insert(o, c.start + index, source.at[1]),
                  Spliced(meant, index, 0, ValuesOf(o, source)),
                  V!Spare(c) = 0 \/ index = Len(meant))

InsertNVector ==
    \E f \in Fuels, index \in 0 .. Len(meant), n \in 0 .. 2, source \in VectorSources :
    LET o == With(source, f) IN
    VectorOutcome(V!InsertN(o, c.start + index, n, source.at[1]),
                  Spliced(meant, index, 0, V!Repeated(n, ValuesOf(o, source)[1])),
                  V!Spare(c) < n)

InsertRangeVector == \E f \in Fuels, index \in 0 .. Len(meant), source \in ManyGiven :
    LET o == With(source, f) IN
    VectorOutcome(V!InsertMany(o, c.start + index, source.at),
                  Spliced(meant, index, 0, source.values), V!Spare(c) < Len(source.at))

InsertEachVector == \E f \in Fuels, index \in 0 .. Len(meant), source \in ManyGiven :
    VectorOutcome(V!InsertEach(With(source, f), index, source.at),
                  Spliced(meant, index, 0, source.values), FALSE)

EraseVector == \E f \in Fuels, from, to \in 0 .. Len(meant) :
    /\ from < to
    /\ VectorOutcome(V!Erase(With(Given(<< >>), f), c.start + from, c.start + to),
                     Spliced(meant, from, to - from, << >>), to = Len(meant))

PopVector == /\ meant # << >>
             /\ VectorOutcome(V!PopBack(With(Given(<< >>), 0)), Front(meant), TRUE)

ResizeVector == \E f \in Fuels, n \in 0 .. MaxElements, v \in Values :
    LET new == V!Repeated(n - Len(meant), v) IN
    VectorOutcome(V!Resize(With(Given(<<v>>), f), n, -1),
                  IF n < Len(meant) THEN SubSeq(meant, 1, n) ELSE meant \o new, FALSE)

AssignVector == \E f \in Fuels, source \in ManyGiven :
    VectorOutcome(V!AssignVector(With(source, f), source.at), source.values,
                  V!Capacity(c) < Len(source.at))

VectorNext ==
    \/ RemakeVector \/ ReserveVector \/ InsertVector \/ InsertNVector \/ InsertRangeVector
    \/ InsertEachVector \/ EraseVector \/ PopVector \/ ResizeVector \/ AssignVector

\* Objects live in [start, finish) and nowhere else, and the only block is the one
\* that will be freed.
VectorIntact ==
    /\ ~c.bad
    /\ V!Elements(c) = meant
    /\ V!Objects(c) = V!All(c)
    /\ c.blocks = IF c.last = c.start THEN {} ELSE {<<c.start, V!Capacity(c)>>}

-----------------------------------------------------------------------------
(* Deques.                                                                 *)

DequeOutcome(r, wanted, strong) ==
    /\ Len(wanted) <= MaxElements + 1
    /\ Outcome(r, wanted, IF strong THEN meant ELSE D!DequeElements(r) \o << >>)

DequeSources == OneGiven({D!Address(c, it) : it \in c.start .. c.finish - 1})

InMapOf(r, other) == [r EXCEPT !.map = other.map, !.start = other.start, !.finish = other.finish]

\* Another deque with these elements, and then this one goes.
DequeInstead(made, wanted) ==
    IF made.thrown THEN DequeOutcome(InMapOf(made, c), wanted, TRUE)
    ELSE DequeOutcome(InMapOf(D!DestroyDeque(InMapOf(made, c)), made), wanted, FALSE)

RemakeDeque == \E f \in Fuels, source \in ManyGiven :
    LET o == With(source, f) IN
    \/ DequeInstead(D!DequeOf(o, source.at), source.values)
    \/ /\ f \in FuelsFor("input iterators")
       /\ DequeInstead(D!DequeOfEach(o, source.at), source.values)

InsertDeque == \E f \in Fuels, index \in 0 .. Len(meant), source \in DequeSources :
    LET o == With(source, f) IN
    DequeOutcome(D!InsertOne(o, index, source.at[1]),
                 Spliced(meant, index, 0, ValuesOf(o, source)),
                 index \in {0, Len(meant)})

\* push_back(), which insert() of one calls only for a deque that is not empty.
PushDeque == \E f \in Fuels, source \in DequeSources :
    LET o == With(source, f) IN
    DequeOutcome(D!PushBack(o, source.at[1]), meant \o ValuesOf(o, source), TRUE)

InsertNDeque ==
    \E f \in Fuels, index \in 0 .. Len(meant), n \in {1, 3}, source \in DequeSources :
    LET o == With(source, f) IN
    /\ index \in {0, Len(meant)} => f \in FuelsFor("insert at an end")
    /\ DequeOutcome(D!InsertNAt(o, index, n, source.at[1]),
                    Spliced(meant, index, 0, D!Repeated(n, ValuesOf(o, source)[1])),
                    index \in {0, Len(meant)})

InsertRangeDeque == \E f \in Fuels, index \in 0 .. Len(meant), source \in ManyGiven :
    DequeOutcome(D!InsertRangeAt(With(source, f), index, source.at),
                 Spliced(meant, index, 0, source.values), index \in {0, Len(meant)})

InsertEachDeque == \E f \in Fuels, index \in 0 .. Len(meant), source \in ManyGiven :
    DequeOutcome(D!InsertEachAt(With(source, f), index, source.at),
                 Spliced(meant, index, 0, source.values), FALSE)

EraseOneDeque == \E f \in Fuels, index \in 0 .. Len(meant) - 1 :
    DequeOutcome(D!EraseOne(With(Given(<< >>), f), index),
                 Spliced(meant, index, 1, << >>), index \in {0, Len(meant) - 1})

EraseDeque == \E f \in Fuels, from, to \in 0 .. Len(meant) :
    /\ from < to
    /\ DequeOutcome(D!EraseRange(With(Given(<< >>), f), from, to - from),
                    Spliced(meant, from, to - from, << >>), from = 0 \/ to = Len(meant))

PopDeque == /\ meant # << >>
            /\ \/ DequeOutcome(D!PopBackOf(With(Given(<< >>), 0)), Front(meant), TRUE)
               \/ DequeOutcome(D!PopFront(With(Given(<< >>), 0)), Tail(meant), TRUE)

ResizeDeque == \E f \in Fuels, n \in 0 .. MaxElements, v \in Values :
    LET new == D!Repeated(n - Len(meant), v) IN
    /\ n > Len(meant) => f \in FuelsFor("insert at an end")
    /\ DequeOutcome(D!ResizeDeque(With(Given(<<v>>), f), n, -1),
                    IF n < Len(meant) THEN SubSeq(meant, 1, n) ELSE meant \o new, TRUE)

AssignDeque == \E f \in Fuels, source \in ManyGiven :
    DequeOutcome(D!AssignDeque(With(source, f), source.at), source.values, FALSE)

DequeNext ==
    \/ RemakeDeque \/ InsertDeque \/ PushDeque \/ InsertNDeque \/ InsertRangeDeque
    \/ InsertEachDeque \/ EraseOneDeque \/ EraseDeque \/ PopDeque \/ ResizeDeque \/ AssignDeque

DequeHolds == D!DequeElements(c) = meant

\* The objects are those of [start, finish), and a node is allocated if and only if
\* it is in the range [start.node, finish.node].
DequeIntact ==
    /\ ~c.bad
    /\ c.maps = 1
    /\ V!Objects(c) = {D!Address(c, it) : it \in c.start .. c.finish - 1}
    /\ c.blocks = {<<c.map[i], B>> : i \in D!Nodes(c)}
    /\ Cardinality(c.blocks) = Cardinality(D!Nodes(c))

-----------------------------------------------------------------------------
(* Two lists, at c.node and c.other; meant has the elements of both.       *)

Ordered(s) == \A k \in 1 .. Len(s) - 1 : Key(s[k]) <= Key(s[k + 1])
InOrder(s) == FlattenSeq([k \in 1 .. Cardinality(Keyed) |->
                            SelectSeq(s, LAMBDA v : Key(v) = k - 1)])
RunsShortened(s) ==
    FoldLeft(LAMBDA t, v : IF t # << >> /\ KeySame(Last(t), v) THEN t ELSE Append(t, v), << >>, s)

ListSources(own) == {Given(<<v>>) : v \in Keyed}
                       \cup {[values |-> << >>, at |-> <<a>>] : a \in ToSet(own)}
ListsGiven == {Given(values) : values \in SeqOf(Keyed, 2)}

BothLists(r) == <<L!ListElements(r, r.node) \o << >>, L!ListElements(r, r.other) \o << >>>>

\* A call that leaves the other list alone and may throw, ones that cannot throw.
ListOutcome(r, wanted, strong) ==
    /\ Len(wanted) + Len(meant[2]) <= MaxElements
    /\ c' = V!CallWith(r, 0, << >>)
    /\ meant' = IF ~r.thrown THEN <<wanted, meant[2]>> ELSE IF strong THEN meant ELSE BothLists(r)
Relinked(r, first, second) ==
    c' = V!CallWith(r, 0, << >>) /\ meant' = <<first, second>>

Places == L!ListNodes(c, c.node) \o <<c.node>>
Theirs == L!ListNodes(c, c.other) \o <<c.other>>
n1 == Len(meant[1])
n2 == Len(meant[2])

RemakeList == \E f \in Fuels, source \in ListsGiven :
    \E made \in {L!ListOf(With(source, f), source.at)} :
    /\ Len(source.at) + n2 <= MaxElements
    /\ IF made.thrown THEN UNCHANGED meant /\ c' = V!CallWith(made, 0, << >>)
       ELSE Relinked(L!DestroyList(made, c.node), source.values, meant[2])

InsertList == \E f \in Fuels, index \in 0 .. n1, source \in ListSources(L!ListNodes(c, c.node)) :
    LET o == With(source, f) IN
    ListOutcome(L!ListInsert(o, Places[index + 1], source.at[1]),
                Spliced(meant[1], index, 0, ValuesOf(o, source)), TRUE)

InsertEachList == \E f \in Fuels, index \in 0 .. n1, source \in ListsGiven :
    ListOutcome(L!ListInsertEach(With(source, f), Places[index + 1], source.at),
                Spliced(meant[1], index, 0, source.values), FALSE)

EraseList == \E from, to \in 0 .. n1 :
    /\ from < to
    /\ ListOutcome(IF to = from + 1 THEN L!ListErase(c, Places[to])
                   ELSE L!ListEraseRange(c, Places[from + 1], Places[to + 1]),
                   Spliced(meant[1], from, to - from, << >>), TRUE)

ClearList == Relinked(L!ListClear(c, c.node), << >>, meant[2])

ResizeList == \E f \in Fuels, n \in 0 .. MaxElements, v \in Keyed :
    ListOutcome(L!ListResize(With(Given(<<v>>), f), c.node, n, -1),
                SubSeq(meant[1] \o L!Repeated(MaxElements, v), 1, n), n <= n1)

AssignLists == \E f \in Fuels, source \in ListsGiven :
    ListOutcome(L!AssignList(With(source, f), c.node, source.at), source.values, FALSE)

SpliceLists ==
    \/ \E index \in 0 .. n1 : Relinked(L!Splice(c, Places[index + 1], c.other),
                                       Spliced(meant[1], index, 0, meant[2]), << >>)
    \/ \E index \in 0 .. n1, from, to \in 0 .. n2 :
          /\ from <= to
          /\ Relinked(IF to = from + 1 THEN L!SpliceOne(c, Places[index + 1], Theirs[to])
                      ELSE L!SpliceRange(c, Places[index + 1], Theirs[from + 1], Theirs[to + 1]),
                      Spliced(meant[1], index, 0, SubSeq(meant[2], from + 1, to)),
                      Spliced(meant[2], from, to - from, << >>))
    \/ \E index, from, to \in 0 .. n1 :
          LET part == SubSeq(meant[1], from + 1, to) IN
          /\ from <= to
          /\ index \in from .. to - 1 => to = from + 1
          /\ Relinked(IF to = from + 1 THEN L!SpliceOne(c, Places[index + 1], Places[to])
                      ELSE L!SpliceRange(c, Places[index + 1], Places[from + 1], Places[to + 1]),
                      IF index >= to
                      THEN SubSeq(meant[1], 1, from) \o SubSeq(meant[1], to + 1, index) \o part
                             \o SubSeq(meant[1], index + 1, n1)
                      ELSE SubSeq(meant[1], 1, index) \o part \o SubSeq(meant[1], index + 1, from)
                             \o SubSeq(meant[1], to + 1, n1),
                      meant[2])

SwapLists == Relinked([c EXCEPT !.node = c.other, !.other = c.node], meant[2], meant[1])

\* A value of the caller's, an element of the other list, or the last of this one.
RemoveSources(mine, theirs) ==
    ListSources(theirs \o IF mine = << >> THEN << >> ELSE <<Last(mine)>>)

RemoveFromList ==
    \E source \in RemoveSources(L!ListNodes(c, c.node), L!ListNodes(c, c.other)) :
       LET o == With(source, 0) IN
       Relinked(L!ListRemove(o, c.node, source.at[1]),
                SelectSeq(meant[1], LAMBDA w : ~KeySame(o.mem[source.at[1]], w)), meant[2])

UniqueList == Relinked(L!ListUnique(c, c.node), RunsShortened(meant[1]), meant[2])

MergeLists == /\ Ordered(meant[1]) /\ Ordered(meant[2])
              /\ Relinked(L!ListMerge(c, c.node, c.other), InOrder(meant[1] \o meant[2]), << >>)

ReverseList == Relinked(L!ListReverse(c, c.node), Reverse(meant[1]), meant[2])

SortList == \E f \in Fuels :
    ListOutcome(L!ListSort(With(Given(<< >>), f), c.node), InOrder(meant[1]), TRUE)

ListNext ==
    \/ RemakeList \/ InsertList \/ InsertEachList \/ EraseList \/ ClearList \/ ResizeList
    \/ AssignLists \/ SpliceLists \/ SwapLists \/ RemoveFromList \/ UniqueList \/ MergeLists
    \/ ReverseList \/ SortList

\* Both rings are the same in both directions, and every node is in one of them.
ListsIntact ==
    /\ ~c.bad
    /\ BothLists(c) = meant
    /\ LET rings == {c.node, c.other} \cup ToSet(L!ListNodes(c, c.node) \o L!ListNodes(c, c.other))
       IN  /\ \A p \in rings : c.next[c.prev[p]] = p /\ c.prev[c.next[p]] = p
           /\ c.blocks = {<<p, 1>> : p \in rings}
           /\ Cardinality(rings) = n1 + n2 + 2
           /\ V!Objects(c) = rings \ {c.node, c.other}
-----------------------------------------------------------------------------
(* Two slists, with heads H1 and H2.                                       *)

H1 == Store + 1
H2 == Store + 2

BothSlists(r) == <<S!SlistElements(r, H1) \o << >>, S!SlistElements(r, H2) \o << >>>>

SlistOutcome(r, wanted, strong) ==
    /\ Len(wanted) + n2 <= MaxElements
    /\ c' = V!CallWith(r, 0, << >>)
    /\ meant' = IF ~r.thrown THEN <<wanted, meant[2]>> ELSE IF strong THEN meant ELSE BothSlists(r)

\* Before the first, and each node; the node after each, and the end.
Behinds == <<H1>> \o S!SlistNodes(c, H1)
Nexts == S!SlistNodes(c, H1) \o <<S!Null>>
TheirNexts == S!SlistNodes(c, H2) \o <<S!Null>>

RemakeSlist == \E f \in Fuels, source \in ListsGiven :
    SlistOutcome(S!SlistOf(S!SlistClear(With(source, f), H1), H1, source.at), source.values, FALSE)

InsertSlist == \E f \in Fuels, index \in 0 .. n1, source \in ListSources(S!SlistNodes(c, H1)) :
    LET o == With(source, f) IN
    SlistOutcome(S!InsertAfter(o, S!Previous(o, H1, Nexts[index + 1]), source.at[1]),
                 Spliced(meant[1], index, 0, ValuesOf(o, source)), TRUE)

InsertEachSlist == \E f \in Fuels, index \in 0 .. n1, source \in ListsGiven :
    SlistOutcome(S!InsertEachAfter(With(source, f), Behinds[index + 1], source.at),
                 Spliced(meant[1], index, 0, source.values), FALSE)

EraseSlist == \E from, to \in 0 .. n1 :
    /\ from < to
    /\ SlistOutcome(S!EraseAfter(c, Behinds[from + 1], Nexts[to + 1]),
                    Spliced(meant[1], from, to - from, << >>), TRUE)

ResizeSlist == \E f \in Fuels, n \in 0 .. MaxElements, v \in Keyed :
    SlistOutcome(S!SlistResize(With(Given(<<v>>), f), H1, n, -1),
                 SubSeq(meant[1] \o S!Repeated(MaxElements, v), 1, n), n <= n1)

AssignSlists == \E f \in Fuels, source \in ListsGiven :
    SlistOutcome(S!AssignSlist(With(source, f), H1, source.at), source.values, FALSE)

SpliceSlists ==
    \/ \E index \in 0 .. n1 : Relinked(S!SpliceSlist(c, H1, Nexts[index + 1], H2),
                                       Spliced(meant[1], index, 0, meant[2]), << >>)
    \/ \E index \in 0 .. n1, from, to \in 0 .. n2 :
          /\ from <= to
          /\ Relinked(IF to = from + 1
                      THEN S!SpliceSlistOne(c, H1, Nexts[index + 1], H2, TheirNexts[to])
                      ELSE S!SpliceSlistRange(c, H1, Nexts[index + 1], H2, TheirNexts[from + 1],
                                              TheirNexts[to + 1]),
                      Spliced(meant[1], index, 0, SubSeq(meant[2], from + 1, to)),
                      Spliced(meant[2], from, to - from, << >>))
    \/ \E index, i \in 0 .. n1 :
          /\ i < n1
          /\ Relinked(S!SpliceSlistOne(c, H1, Nexts[index + 1], H1, Nexts[i + 1]),
                      LET rest == Spliced(meant[1], i, 1, << >>)
                      IN  Spliced(rest, IF index > i THEN index - 1 ELSE index, 0, <<meant[1][i + 1]>>),
                      meant[2])

SwapSlistHeads == Relinked(S!SwapSlists(c, H1, H2), meant[2], meant[1])

RemoveFromSlist == \E source \in RemoveSources(S!SlistNodes(c, H1), S!SlistNodes(c, H2)) :
    LET o == With(source, 0) IN
    Relinked(S!SlistRemove(o, H1, source.at[1]),
             SelectSeq(meant[1], LAMBDA w : ~KeySame(o.mem[source.at[1]], w)), meant[2])

UniqueSlist == Relinked(S!SlistUnique(c, H1), RunsShortened(meant[1]), meant[2])

MergeSlists == /\ Ordered(meant[1]) /\ Ordered(meant[2])
               /\ Relinked(S!SlistMerge(c, H1, H2), InOrder(meant[1] \o meant[2]), << >>)

ReverseSlist == Relinked(S!SlistReverse(c, H1), Reverse(meant[1]), meant[2])

SortSlist == Relinked(S!SlistSort(c, H1), InOrder(meant[1]), meant[2])

SlistNext ==
    \/ RemakeSlist \/ InsertSlist \/ InsertEachSlist \/ EraseSlist \/ ResizeSlist \/ AssignSlists
    \/ SpliceSlists \/ SwapSlistHeads \/ RemoveFromSlist \/ UniqueSlist \/ MergeSlists
    \/ ReverseSlist \/ SortSlist

\* Every node is behind one of the two heads, and no list of a sort has any left.
SlistsIntact ==
    /\ ~c.bad
    /\ BothSlists(c) = meant
    /\ LET nodes == ToSet(S!SlistNodes(c, H1) \o S!SlistNodes(c, H2))
       IN  /\ c.blocks = {<<p, 1>> : p \in nodes}
           /\ Cardinality(nodes) = n1 + n2
           /\ V!Objects(c) = nodes
    /\ \A h \in S!Heads \ {H1, H2} : c.next[h] = S!Null

=============================================================================
