------------------------------- MODULE StlList -------------------------------
(***************************************************************************)
(* list of stl_list.h: a ring of nodes through a node without an element,  *)
(* which the list keeps the address of, its end().  Two lists are in o, at *)
(* o.node and o.other, because splice(), merge() and swap() take another.  *)
(***************************************************************************)
EXTENDS StlNodes

CONSTANTS Counters,       \* bound: lists that sort() merges in, 64
          Before(_, _),   \* operator< and
          Same(_, _)      \* operator== of the elements

\* empty_initialize(): a ring of one.
EmptyRing(o) ==
    LET at == NextBlock(o, 1)
    IN  Then(Allocate(o, 1),
             [Allocate(o, 1) EXCEPT !.next[at] = at, !.prev[at] = at])

Begin(o, list) == o.next[list]
Empty(o, list) == o.next[list] = list
ListNodes(o, list) == Path(o, Begin(o, list), list)
ListElements(o, list) == [k \in DOMAIN ListNodes(o, list) |-> o.mem[ListNodes(o, list)[k]]]

\* insert() of one before position.
LinkBefore(o, p, position) ==
    [o EXCEPT !.next = [@ EXCEPT ![p] = position, ![o.prev[position]] = p],
              !.prev = [@ EXCEPT ![p] = o.prev[position], ![position] = p]]
ListInsert(o, position, x) ==
    LET made == CreateNode(o, x)
    IN  Then(made, LinkBefore(made, NextBlock(o, 1), position))

\* insert() of several, one after the other.
ListInsertEach(o, position, from) ==
    FoldLeft(LAMBDA m, x : Then(m, ListInsert(m, position, x)), o, from)

ListErase(o, p) ==
    DestroyNode([o EXCEPT !.next[o.prev[p]] = o.next[p], !.prev[o.next[p]] = o.prev[p]], p)
ListEraseRange(o, first, last) ==
    FoldLeft(LAMBDA m, p : ListErase(m, p), o, Path(o, first, last))

ListClear(o, list) ==
    [DestroyNodes(o, ListNodes(o, list)) EXCEPT !.next[list] = list, !.prev[list] = list]
DestroyList(o, list) == Deallocate(ListClear(o, list), list, 1)

\* The constructors, of a list at o.node: all of it goes if an element throws.
PutElements(o, list, from) ==
    LET full == ListInsertEach(o, list, from)
    IN  Then(o, IF full.thrown THEN DestroyList(full, list) ELSE [full EXCEPT !.node = list])
ListOf(o, from) == PutElements(EmptyRing(o), NextBlock(o, 1), from)

ListResize(o, list, n, x) ==
    LET nodes == ListNodes(o, list)
    IN  IF n <= Len(nodes) THEN ListEraseRange(o, (nodes \o <<list>>)[n + 1], list)
        ELSE ListInsertEach(o, list, Repeated(n - Len(nodes), x))

\* operator=
AssignList(o, list, from) ==
    LET nodes == ListNodes(o, list)
        n == Min({Len(nodes), Len(from)})
        over == CopyObjects(o, SubSeq(from, 1, n), SubSeq(nodes, 1, n))
    IN  Then(over, IF Len(from) = n THEN ListEraseRange(over, (nodes \o <<list>>)[n + 1], list)
                   ELSE ListInsertEach(over, list, SubSeq(from, n + 1, Len(from))))

\* transfer(): [first, last) of any list to before position, its seven assignments.
Transfer(o, position, first, last) ==
    LET p == [o.prev EXCEPT ![position] = o.prev[last]]
        q == [p EXCEPT ![last] = p[first]]
    IN  IF position = last THEN o
        ELSE [o EXCEPT !.next = [@ EXCEPT ![o.prev[last]] = position, ![o.prev[first]] = last,
                                          ![o.prev[position]] = first],
                       !.prev = [q EXCEPT ![first] = o.prev[position]]]

Splice(o, position, list) ==
    IF Empty(o, list) THEN o ELSE Transfer(o, position, Begin(o, list), list)
SpliceOne(o, position, i) ==
    IF position \in {i, o.next[i]} THEN o ELSE Transfer(o, position, i, o.next[i])
SpliceRange(o, position, first, last) ==
    IF first = last THEN o ELSE Transfer(o, position, first, last)

\* remove(), remove_if(): those equal to *x, which is read each time.
ListRemove(o, list, x) ==
    FoldLeft(LAMBDA m, p : IF m.mem[x] = Raw THEN [m EXCEPT !.bad = TRUE]
                           ELSE IF Same(m.mem[p], m.mem[x]) THEN ListErase(m, p) ELSE m,
             o, ListNodes(o, list))

\* unique(): each one against the last that stays.
ListUnique(o, list) ==
    FoldLeft(LAMBDA m, p : IF m.prev[p] # list /\ Same(m.mem[m.prev[p]], m.mem[p])
                           THEN ListErase(m, p) ELSE m,
             o, ListNodes(o, list))

\* merge() of list x: a node of x moves before the first that is greater.
RECURSIVE MergeRings(_, _, _, _, _)
MergeRings(o, list, x, first1, first2) ==
    CASE first2 = x -> o
      [] first2 # x /\ first1 = list -> Transfer(o, list, first2, x)
      [] OTHER -> IF Before(o.mem[first2], o.mem[first1])
                  THEN MergeRings(Transfer(o, first1, first2, o.next[first2]),
                                  list, x, first1, o.next[first2])
                  ELSE MergeRings(o, list, x, o.next[first1], first2)
ListMerge(o, list, x) == MergeRings(o, list, x, Begin(o, list), Begin(o, x))

\* reverse(): each node from the second on moves to the front.
ListReverse(o, list) ==
    FoldLeft(LAMBDA m, p : Transfer(m, Begin(m, list), p, m.next[p]),
             o, SubSeq(ListNodes(o, list), 2, Len(ListNodes(o, list))))

\* sort(): counter[i] is empty or holds 2^i elements in order; the next element is
\* merged up through the full ones.  swap() exchanges the rings of two lists.
RECURSIVE CarryUp(_, _)
CarryUp(s, i) ==
    IF i < s.fill /\ ~Empty(s.o, s.counter[i])
    THEN CarryUp([s EXCEPT !.o = ListMerge(@, s.counter[i], s.carry),
                           !.carry = s.counter[i], !.counter[i] = s.carry], i + 1)
    ELSE [s EXCEPT !.carry = s.counter[i], !.counter[i] = s.carry,
                   !.fill = IF i = @ THEN @ + 1 ELSE @]

\* The temporary lists, and their end.
SortRings(o) ==
    FoldLeft(LAMBDA m, i : IF m.o.thrown THEN m
                           ELSE [o |-> EmptyRing(m.o), at |-> Append(m.at, NextBlock(m.o, 1))],
             [o |-> o, at |-> << >>], Span(0, Counters + 1))
PutBack(o, at) == FoldLeft(LAMBDA m, p : Deallocate(m, p, 1), o, at)

Counted(rings, nodes) ==
    FoldLeft(LAMBDA s, p : CarryUp([s EXCEPT !.o = SpliceOne(@, Begin(@, s.carry), p)], 0),
             [o |-> rings.o, carry |-> rings.at[Counters + 1], fill |-> 0,
              counter |-> [i \in 0 .. Counters - 1 |-> rings.at[i + 1]]], nodes)

Collected(s, rings) ==
    LET sorted == s.counter[s.fill - 1]
        merged == FoldLeft(LAMBDA m, i : ListMerge(m, s.counter[i], s.counter[i - 1]),
                           s.o, Span(1, s.fill))
    IN  [PutBack(merged, SetToSeq(rings \ {sorted})) EXCEPT !.node = sorted]

SortWith(rings, o, list) ==
    IF rings.o.thrown THEN PutBack(rings.o, SubSeq(rings.at, 1, o.fuel))
    ELSE Collected(Counted(rings, ListNodes(o, list)), ToSet(rings.at) \cup {list})

ListSort(o, list) ==
    IF Empty(o, list) \/ Begin(o, Begin(o, list)) = list THEN o
    ELSE SortWith(SortRings(o), o, list)

=============================================================================
