------------------------------ MODULE StlDeque ------------------------------
(***************************************************************************)
(* deque of stl_deque.h: nodes of B elements, and a map of the nodes from  *)
(* which both ends can grow.  An iterator is its place in the map, in      *)
(* elements: node * B + (cur - first).  map[i] is the address of node i;   *)
(* maps counts the allocated maps.                                         *)
(***************************************************************************)
EXTENDS StlUninitialized

CONSTANTS B,           \* buffer_size()
          InitialMap   \* initial_map_size(), 8

NodeOf(it) == it \div B
Cur(it) == it % B

\* operator+= of the iterator: within the node, or whole nodes on or back.
Plus(it, n) ==
    LET offset == n + Cur(it)
        nodeOffset == IF offset > 0 THEN offset \div B ELSE -((-offset - 1) \div B) - 1
    IN  IF offset \in 0 .. B - 1 THEN it + n
        ELSE (NodeOf(it) + nodeOffset) * B + offset - nodeOffset * B

\* operator- of two iterators.
Distance(it, x) == B * (NodeOf(it) - NodeOf(x) - 1) + Cur(it) + (B - Cur(x))

DequeSize(o) == Distance(o.finish, o.start)
Nodes(o) == NodeOf(o.start) .. NodeOf(o.finish)
Address(o, it) == o.map[NodeOf(it)] + Cur(it)
At(o, first, last) == [k \in 1 .. last - first |-> Address(o, first + k - 1)]
DequeElements(o) == [k \in 1 .. DequeSize(o) |-> o.mem[Address(o, o.start + k - 1)]]

Start(o, it) == Then(o, [o EXCEPT !.start = it])
End(o, it) == Then(o, [o EXCEPT !.finish = it])

FreeNode(o, i) == Deallocate(o, o.map[i], B)
FreeNodes(o, from, to) ==
    FoldLeft(LAMBDA m, i : FreeNode(m, i), o, Span(from, to + 1))

\* A node for each place i of the map; if one fails, those before it go again.
NewNodes(o, places) ==
    LET made == FoldLeft(LAMBDA m, i : Then(Allocate(m, B),
                                            [Allocate(m, B) EXCEPT !.map[i] = NextBlock(m, B)]),
                         o, places)
    IN  IF made.thrown /\ ~o.thrown
        THEN FoldLeft(LAMBDA m, k : FreeNode(m, places[k]), made, Span(1, o.fuel + 1))
        ELSE made

\* A map of n entries, which is storage like any other.
NewMap(o, n) ==
    IF o.fuel = 0 THEN [o EXCEPT !.thrown = TRUE]
    ELSE [o EXCEPT !.fuel = @ - 1, !.maps = @ + 1, !.map = [i \in 0 .. n - 1 |-> Null]]

\* create_map_and_nodes(), for a deque that does not exist yet.
CreateMap(o, n) ==
    LET nodes == n \div B + 1
        size == Max({InitialMap, nodes + 2})
        first == (size - nodes) \div 2
        made == NewNodes(NewMap(o, size), Span(first, first + nodes))
    IN  IF NewMap(o, size).thrown THEN NewMap(o, size)
        ELSE IF made.thrown THEN [made EXCEPT !.maps = @ - 1]
        ELSE [made EXCEPT !.start = first * B, !.finish = first * B + n]

\* The constructors: fill_initialize(), range_initialize() and the copies.
Initialize(o, from, old) ==
    LET full == ConstructAll(o, At(o, o.start, o.finish), from)
    IN  Then(o, Catch(full, [FreeNodes(full, NodeOf(o.start), NodeOf(o.finish))
                             EXCEPT !.maps = @ - 1, !.start = old.start, !.finish = old.finish]))
DequeOf(o, from) == Initialize(CreateMap(o, Len(from)), from, o)

DestroyDeque(o) ==
    LET empty == Destroy(o, {Address(o, it) : it \in o.start .. o.finish - 1})
    IN  [FreeNodes(empty, NodeOf(o.start), NodeOf(o.finish)) EXCEPT !.maps = @ - 1]

\* reallocate_map(): to the middle of the map, or of a larger one.
ReallocateMap(o, add, atFront) ==
    LET first == NodeOf(o.start)
        count == NodeOf(o.finish) - first + 1
        size == Cardinality(DOMAIN o.map)
        roomy == size > 2 * (count + add)
        newSize == IF roomy THEN size ELSE size + Max({size, add}) + 2
        to == (newSize - count - add) \div 2 + IF atFront THEN add ELSE 0
        room == IF roomy THEN o ELSE NewMap(o, newSize)
    IN  IF room.thrown THEN room
        ELSE [room EXCEPT !.map = [i \in DOMAIN @ |-> IF i \in to .. to + count - 1
                                                      THEN o.map[i - to + first] ELSE Null],
                          !.maps = o.maps,
                          !.start = o.start + (to - first) * B,
                          !.finish = o.finish + (to - first) * B]

ReserveMapAtBack(o, add) ==
    IF add + 1 > Cardinality(DOMAIN o.map) - NodeOf(o.finish)
    THEN Then(o, ReallocateMap(o, add, FALSE)) ELSE o
ReserveMapAtFront(o, add) ==
    IF add > NodeOf(o.start) THEN Then(o, ReallocateMap(o, add, TRUE)) ELSE o

\* push_back() and push_front(), and with a new node push_back_aux() and
\* push_front_aux(): a copy of x, room in the map, a node, and the element in it.
PushInNode(o, it, node) ==
    LET made == Construct(o, Address(o, it), Local) IN Catch(made, FreeNode(made, node))
NodeFor(o, node) == Then(o, NewNodes(o, <<node>>))

PushBackAux(o) ==
    Then(o, End(PushInNode(o, o.finish, NodeOf(o.finish) + 1), o.finish + 1))
PushBackRoom(o) == PushBackAux(NodeFor(o, NodeOf(o.finish) + 1))
PushBack(o, x) ==
    IF Cur(o.finish) # B - 1 THEN End(Construct(o, Address(o, o.finish), x), o.finish + 1)
    ELSE PushBackRoom(ReserveMapAtBack(Construct(o, Local, x), 1))

\* deque(first, last) from an input iterator: range_initialize() without a handler.
DequeOfEach(o, from) ==
    FoldLeft(LAMBDA m, x : Then(m, PushBack(m, x)), CreateMap(o, 0), from)

PushFrontAux(o) ==
    Then(o, Start(PushInNode(o, o.start - 1, NodeOf(o.start) - 1), o.start - 1))
PushFrontRoom(o) == PushFrontAux(NodeFor(o, NodeOf(o.start) - 1))
PushFront(o, x) ==
    IF Cur(o.start) # 0 THEN Start(Construct(o, Address(o, o.start - 1), x), o.start - 1)
    ELSE PushFrontRoom(ReserveMapAtFront(Construct(o, Local, x), 1))

PopBackKeepsNode(o) ==
    LET gone == Destroy(o, {Address(o, o.finish - 1)}) IN [gone EXCEPT !.finish = @ - 1]
PopBackOf(o) ==
    LET gone == Destroy(o, {Address(o, o.finish - 1)})
    IN  [IF Cur(o.finish) # 0 THEN gone ELSE FreeNode(gone, NodeOf(o.finish))
         EXCEPT !.finish = @ - 1]

PopFront(o) ==
    LET gone == Destroy(o, {Address(o, o.start)})
    IN  [IF Cur(o.start) # B - 1 THEN gone ELSE FreeNode(gone, NodeOf(o.start))
         EXCEPT !.start = @ + 1]

\* reserve_elements_at_front() and _back(): nodes for n elements, still outside.
NodesBefore(o, nodes) == Then(o, NewNodes(o, [i \in 1 .. nodes |-> NodeOf(o.start) - i]))
ReserveAtFront(o, n) ==
    LET nodes == (n - Cur(o.start) + B - 1) \div B
    IN  IF n <= Cur(o.start) THEN o ELSE NodesBefore(ReserveMapAtFront(o, nodes), nodes)

NodesAfter(o, nodes) == Then(o, NewNodes(o, [i \in 1 .. nodes |-> NodeOf(o.finish) + i]))
ReserveAtBack(o, n) ==
    LET vacancies == B - Cur(o.finish) - 1
        nodes == (n - vacancies + B - 1) \div B
    IN  IF n <= vacancies THEN o ELSE NodesAfter(ReserveMapAtBack(o, nodes), nodes)

\* The handlers destroy_nodes_at_front() and _back(): o's nodes up to its own.
UndoFront(o, newStart) == Catch(o, FreeNodes(o, NodeOf(newStart), NodeOf(o.start) - 1))
UndoBack(o, newFinish) == Catch(o, FreeNodes(o, NodeOf(o.finish) + 1, NodeOf(newFinish)))

\* insert() of several before all or behind all, where there is room; the one for n
\* copies of a value has no handler.
FillFront(o, to, from) == Start(ConstructAll(o, At(o, to, o.start), from), to)
FillBack(o, to, from) == End(ConstructAll(o, At(o, o.finish, to), from), to)

PutInFront(o, from, handler) ==
    LET to == o.start - Len(from)
        full == FillFront(o, to, from)
    IN  Then(o, IF handler THEN UndoFront(full, to) ELSE full)
InsertFront(o, from, handler) == PutInFront(ReserveAtFront(o, Len(from)), from, handler)

PutBehind(o, from, handler) ==
    LET to == o.finish + Len(from)
        full == FillBack(o, to, from)
    IN  Then(o, IF handler THEN UndoBack(full, to) ELSE full)
InsertBack(o, from, handler) == PutBehind(ReserveAtBack(o, Len(from)), from, handler)

\* insert_aux() of several, where there is room: those before position move to the
\* front, or those after it to the back, whichever are fewer.
MoveManyFront(o, before, from) ==
    LET n == Len(from)
        s == o.start
        pos == s + before
        to == s - n
        front == FillFront(o, to, At(o, s, s + n))
        moved == CopyObjects(front, At(o, s + n, pos), At(o, s, pos - n))
        short == Start(InARow(o, At(o, to, s), At(o, s, pos), SubSeq(from, 1, n - before)), to)
    IN  Then(o, UndoFront(
            IF before >= n THEN CopyObjects(moved, from, At(o, pos - n, pos))
            ELSE CopyObjects(short, SubSeq(from, n - before + 1, n), At(o, s, pos)), to))
InsertManyFront(o, before, from) ==
    MoveManyFront(ReserveAtFront(o, Len(from)), before, from)

MoveManyBack(o, after, from) ==
    LET n == Len(from)
        f == o.finish
        pos == f - after
        to == f + n
        back == FillBack(o, to, At(o, f - n, f))
        moved == CopyObjectsBackward(back, At(o, pos, f - n), At(o, pos + n, f))
        short == End(InARow(o, At(o, f, to), SubSeq(from, after + 1, n), At(o, pos, f)), to)
    IN  Then(o, UndoBack(
            IF after > n THEN CopyObjects(moved, from, At(o, pos, pos + n))
            ELSE CopyObjects(short, SubSeq(from, 1, after), At(o, pos, f)), to))
InsertManyBack(o, before, from) ==
    MoveManyBack(ReserveAtBack(o, Len(from)), DequeSize(o) - before, from)

InsertManyAux(o, before, from) ==
    IF before < DequeSize(o) \div 2 THEN InsertManyFront(o, before, from)
    ELSE InsertManyBack(o, before, from)

\* insert() of a range, and of n copies of x, of which a copy is made first.
InsertRangeAt(o, before, from) ==
    CASE before = 0 -> InsertFront(o, from, TRUE)
      [] before > 0 /\ before = DequeSize(o) -> InsertBack(o, from, TRUE)
      [] OTHER -> InsertManyAux(o, before, from)

InsertNAt(o, before, n, x) ==
    LET copied == Construct(o, Local, x)
    IN  CASE before = 0 -> InsertFront(o, Repeated(n, x), FALSE)
          [] before > 0 /\ before = DequeSize(o) -> InsertBack(o, Repeated(n, x), FALSE)
          [] OTHER -> Then(copied, InsertManyAux(copied, before, Repeated(n, Local)))

\* insert_aux() of one: a copy of the first or last is pushed, the others move.
MoveOneDown(o, before) ==
    LET s == o.start
        down == CopyObjects(o, At(o, s + 2, s + before + 1), At(o, s + 1, s + before))
    IN  Then(o, Assign(down, Address(o, s + before), Saved))

MoveOneUp(o, before) ==
    LET f == o.finish
        pos == o.start + before
        up == CopyObjectsBackward(o, At(o, pos, f - 2), At(o, pos + 1, f - 1))
    IN  Then(o, Assign(up, Address(o, pos), Saved))

InsertOneAux(o, before, x) ==
    LET copied == Construct(o, Saved, x)
    IN  CASE copied.thrown -> copied
          [] ~copied.thrown /\ before < DequeSize(o) \div 2 ->
                MoveOneDown(PushFront(copied, Address(o, o.start)), before)
          [] OTHER -> MoveOneUp(PushBack(copied, Address(o, o.finish - 1)), before)

InsertOne(o, before, x) ==
    CASE before = 0 -> PushFront(o, x)
      [] before > 0 /\ before = DequeSize(o) -> PushBack(o, x)
      [] OTHER -> InsertOneAux(o, before, x)

\* insert() from an input iterator: one after the other, by an insert_iterator.
InsertEachAt(o, before, from) ==
    Loop(LAMBDA m, k : Then(m, InsertOne(m, before + k - 1, from[k])), o, Len(from))

\* erase() of one: the shorter side moves over it and an end is popped.
EraseOne(o, index) ==
    LET pos == o.start + index
        up == CopyObjectsBackward(o, At(o, o.start, pos), At(o, o.start + 1, pos + 1))
        down == CopyObjects(o, At(o, pos + 1, o.finish), At(o, pos, o.finish - 1))
    IN  IF index < DequeSize(o) \div 2 THEN Then(up, PopFront(up)) ELSE Then(down, PopBackOf(down))

\* clear() keeps the first node.
Clear(o) ==
    LET empty == Destroy(o, {Address(o, it) : it \in o.start .. o.finish - 1})
    IN  [FreeNodes(empty, NodeOf(o.start) + 1, NodeOf(o.finish)) EXCEPT !.finish = o.start]

\* erase() of a range, and the nodes that become empty.
EraseRange(o, before, n) ==
    LET first == o.start + before
        last == first + n
        newStart == o.start + n
        newFinish == o.finish - n
        up == CopyObjectsBackward(o, At(o, o.start, first), At(o, newStart, last))
        down == CopyObjects(o, At(o, last, o.finish), At(o, first, newFinish))
        front == Destroy(up, {Address(o, it) : it \in o.start .. newStart - 1})
        back == Destroy(down, {Address(o, it) : it \in newFinish .. o.finish - 1})
    IN  IF n = DequeSize(o) THEN Clear(o)
        ELSE IF before < (DequeSize(o) - n) \div 2
        THEN Then(up, Start(FreeNodes(front, NodeOf(o.start), NodeOf(newStart) - 1), newStart))
        ELSE Then(down, End(FreeNodes(back, NodeOf(newFinish) + 1, NodeOf(o.finish)), newFinish))

ResizeDeque(o, n, x) ==
    IF n < DequeSize(o) THEN EraseRange(o, n, DequeSize(o) - n)
    ELSE InsertNAt(o, DequeSize(o), n - DequeSize(o), x)

\* operator=
AssignDeque(o, from) ==
    LET len == DequeSize(o)
        n == Len(from)
        over == CopyObjects(o, from, At(o, o.start, o.start + n))
        head == CopyObjects(o, SubSeq(from, 1, len), At(o, o.start, o.finish))
    IN  IF len >= n THEN Then(over, EraseRange(over, n, len - n))
        ELSE Then(head, InsertRangeAt(head, len, SubSeq(from, len + 1, n)))

=============================================================================
