------------------------------ MODULE StlSlist ------------------------------
(***************************************************************************)
(* slist of stl_slist.h: nodes from head.next to a null one.  A head is    *)
(* part of its list; the addresses above Store are heads.                  *)
(***************************************************************************)
EXTENDS StlNodes

CONSTANTS Counters,       \* bound: lists that sort() merges in, 64
          Before(_, _),   \* operator< and
          Same(_, _)      \* operator== of the elements

Carry == Store + 3
Counter(i) == Store + 4 + i
Heads == Store + 1 .. Store + 3 + Counters

SlistNodes(o, head) == Path(o, o.next[head], Null)
SlistElements(o, head) == [k \in DOMAIN SlistNodes(o, head) |-> o.mem[SlistNodes(o, head)[k]]]

\* __slist_previous(): the last before the null is that of the end.
Previous(o, head, node) == Last(<<head>> \o Path(o, o.next[head], node))

\* __slist_make_link() of a new node.
InsertAfter(o, position, x) ==
    LET made == CreateNode(o, x)
        p == NextBlock(o, 1)
    IN  Then(made, [made EXCEPT !.next[p] = o.next[position], !.next[position] = p])

\* _insert_after_fill(), _insert_after_range(): each behind the one before.
InsertEachAfter(o, position, from) ==
    FoldLeft(LAMBDA s, x : IF s.o.thrown THEN s
                           ELSE [o |-> InsertAfter(s.o, s.at, x), at |-> NextBlock(s.o, 1)],
             [o |-> o, at |-> position], from).o

\* erase_after() up to last.
EraseAfter(o, before, last) ==
    [DestroyNodes(o, Path(o, o.next[before], last)) EXCEPT !.next[before] = last]

SlistClear(o, head) == EraseAfter(o, head, Null)

SlistOf(o, head, from) ==
    LET full == InsertEachAfter([o EXCEPT !.next[head] = Null], head, from)
    IN  Catch(full, SlistClear(full, head))

SlistResize(o, head, n, x) ==
    LET nodes == <<head>> \o SlistNodes(o, head)
    IN  IF n < Len(nodes) - 1 THEN EraseAfter(o, nodes[n + 1], Null)
        ELSE InsertEachAfter(o, Last(nodes), Repeated(n + 1 - Len(nodes), x))

\* operator=
AssignSlist(o, head, from) ==
    LET nodes == SlistNodes(o, head)
        n == Min({Len(nodes), Len(from)})
        over == CopyObjects(o, SubSeq(from, 1, n), SubSeq(nodes, 1, n))
        at == (<<head>> \o nodes)[n + 1]
    IN  Then(over, IF Len(from) = n THEN EraseAfter(over, at, Null)
                   ELSE InsertEachAfter(over, at, SubSeq(from, n + 1, Len(from))))

\* __slist_splice_after(): (before_first, before_last] to behind position.
SpliceAfter(o, position, beforeFirst, beforeLast) ==
    IF position \in {beforeFirst, beforeLast} THEN o
    ELSE [o EXCEPT !.next = [@ EXCEPT ![beforeFirst] = o.next[beforeLast],
                                      ![position] = o.next[beforeFirst],
                                      ![beforeLast] = o.next[position]]]

SpliceSlist(o, head, position, x) ==
    IF o.next[x] = Null THEN o
    ELSE SpliceAfter(o, Previous(o, head, position), x, Previous(o, x, Null))
SpliceSlistOne(o, head, position, x, i) ==
    SpliceAfter(o, Previous(o, head, position), Previous(o, x, i), i)
SpliceSlistRange(o, head, position, x, first, last) ==
    IF first = last THEN o
    ELSE SpliceAfter(o, Previous(o, head, position), Previous(o, x, first),
                     Previous(o, first, last))

\* remove(), remove_if() and unique(): the one behind cur goes, or cur goes on.
SlistRemove(o, head, x) ==
    LET Step(s, p) == IF s.o.mem[x] = Raw THEN [s EXCEPT !.o.bad = TRUE]
                      ELSE IF Same(s.o.mem[p], s.o.mem[x])
                      THEN [s EXCEPT !.o = EraseAfter(@, s.cur, @.next[p])]
                      ELSE [s EXCEPT !.cur = p]
    IN  FoldLeft(Step, [o |-> o, cur |-> head], SlistNodes(o, head)).o

SlistUnique(o, head) ==
    LET Step(s, p) == IF s.cur # head /\ Same(s.o.mem[s.cur], s.o.mem[p])
                      THEN [s EXCEPT !.o = EraseAfter(@, s.cur, @.next[p])]
                      ELSE [s EXCEPT !.cur = p]
    IN  FoldLeft(Step, [o |-> o, cur |-> head], SlistNodes(o, head)).o

\* merge(): n1 steps over what it has moved behind itself.
RECURSIVE MergeChains(_, _, _)
MergeChains(o, n1, x) ==
    LET first == o.next[x]
    IN  CASE first = Null -> o
          [] first # Null /\ o.next[n1] = Null ->
                [o EXCEPT !.next = [@ EXCEPT ![n1] = first, ![x] = Null]]
          [] OTHER -> LET m == IF Before(o.mem[first], o.mem[o.next[n1]])
                               THEN SpliceAfter(o, n1, x, first) ELSE o
                      IN  MergeChains(m, m.next[n1], x)
SlistMerge(o, head, x) == MergeChains(o, head, x)

\* __slist_reverse(): each node back to the one before it.
SlistReverse(o, head) ==
    FoldLeft(LAMBDA m, p : [m EXCEPT !.next[p] = m.next[head], !.next[head] = p],
             [o EXCEPT !.next[head] = Null], SlistNodes(o, head))

SwapSlists(o, a, b) ==
    [o EXCEPT !.next = [@ EXCEPT ![a] = o.next[b], ![b] = o.next[a]]]

\* sort(), as that of list; carry and the counters are lists of its own.
RECURSIVE CarryChains(_, _, _)
CarryChains(o, fill, i) ==
    IF i < fill /\ o.next[Counter(i)] # Null
    THEN CarryChains(SwapSlists(SlistMerge(o, Counter(i), Carry), Carry, Counter(i)), fill, i + 1)
    ELSE [o |-> SwapSlists(o, Carry, Counter(i)), fill |-> IF i = fill THEN fill + 1 ELSE fill]

SlistSort(o, head) ==
    LET start == [o EXCEPT !.next = [@ EXCEPT ![Carry] = Null]]
        counted == FoldLeft(LAMBDA s, p : CarryChains(SpliceAfter(s.o, Carry, head, s.o.next[head]),
                                                      s.fill, 0),
                            [o |-> start, fill |-> 0], SlistNodes(o, head))
        merged == FoldLeft(LAMBDA m, i : SlistMerge(m, Counter(i), Counter(i - 1)),
                           counted.o, Span(1, counted.fill))
    IN  IF Len(SlistNodes(o, head)) < 2 THEN o
        ELSE SwapSlists(merged, head, Counter(counted.fill - 1))

=============================================================================
