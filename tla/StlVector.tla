------------------------------ MODULE StlVector ------------------------------
(***************************************************************************)
(* vector of stl_vector.h: objects in [start, finish) of one block that    *)
(* ends at last (end_of_storage).  An operation takes and returns the      *)
(* memory with these three in it.                                          *)
(***************************************************************************)
EXTENDS StlUninitialized

\* vector()
EmptyVector(o) == [start |-> Null, finish |-> Null, last |-> Null] @@ o

Elements(o) == [k \in 1 .. o.finish - o.start |-> o.mem[o.start + k - 1]]
Size(o) == o.finish - o.start
Capacity(o) == o.last - o.start
Spare(o) == o.last - o.finish

Finish(o, at) == Then(o, [o EXCEPT !.finish = at])
All(o) == o.start .. o.finish - 1

\* destroy(start, finish), deallocate(), and the new block in its place.
Replaced(o, start, finish, last) ==
    Then(o, [Deallocate(Destroy(o, All(o)), o.start, Capacity(o))
             EXCEPT !.start = start, !.finish = finish, !.last = last])

\* A new block of len elements with a copy of [start, position), of the sources
\* from, and of the rest; the old one goes if nothing was thrown.  The
\* constructors, reserve(), operator= and insertions without room are like this.
Grown(o, len, position, from, rest) ==
    LET at == NextBlock(o, len)
        room == Allocate(o, len)
        made == ConstructAll(room, Span(at, at + len),
                             Span(o.start, position) \o from \o Span(rest, o.finish))
        undone == IF room.thrown THEN room ELSE Catch(made, Deallocate(made, at, len))
    IN  Replaced(undone, at, at + position - o.start + Len(from) + o.finish - rest, at + len)

DestroyVector(o) ==
    [Deallocate(Destroy(o, All(o)), o.start, Capacity(o))
     EXCEPT !.start = Null, !.finish = Null, !.last = Null]

\* vector(n, x), vector(first, last): allocate_and_fill(), allocate_and_copy().
VectorOf(o, from) == IF from = << >> THEN o ELSE Grown(o, Len(from), Null, from, Null)

Reserve(o, n) ==
    IF Capacity(o) < n THEN Grown(o, n, o.finish, << >>, o.finish) ELSE o

\* copy_backward() of [position, last) to the places that end at result.
MoveUp(o, position, last, result) ==
    CopyObjectsBackward(o, Span(position, last), Span(result - (last - position), result))

\* insert_aux(): the last element is constructed one further, x is copied before
\* the others are moved over it.
InsertAux(o, position, x) ==
    IF Spare(o) > 0
    THEN LET longer == Finish(Construct(o, o.finish, o.finish - 1), o.finish + 1)
             moved == MoveUp(Construct(longer, Local, x), position, o.finish - 1, o.finish)
         IN  Assign(moved, position, Local)
    ELSE Grown(o, IF Size(o) # 0 THEN 2 * Size(o) ELSE 1, position, <<x>>, position)

\* insert() of one; push_back() is one at the end.
Insert(o, position, x) ==
    IF Spare(o) > 0 /\ position = o.finish
    THEN Finish(Construct(o, o.finish, x), o.finish + 1)
    ELSE InsertAux(o, position, x)

\* insert() of several with room for them: the new ones are assigned over old
\* places and constructed behind, depending on how many elements come after.
InsertWithRoom(o, position, from) ==
    LET n == Len(from)
        after == o.finish - position
        old == o.finish
        tail == Finish(UninitializedCopy(o, Span(old - n, old), Span(old, old + n)), old + n)
        rest == Finish(UninitializedCopy(o, SubSeq(from, after + 1, n),
                                         Span(old, old + n - after)), old + n - after)
        both == Finish(UninitializedCopy(rest, Span(position, old),
                                         Span(rest.finish, rest.finish + after)), old + n)
    IN  IF after > n
        THEN CopyObjects(MoveUp(tail, position, old - n, old), from, Span(position, position + n))
        ELSE CopyObjects(both, SubSeq(from, 1, after), Span(position, old))

InsertMany(o, position, from) ==
    CASE from = << >> -> o
      [] from # << >> /\ Spare(o) >= Len(from) -> InsertWithRoom(o, position, from)
      [] OTHER -> Grown(o, Size(o) + Max({Size(o), Len(from)}), position, from, position)

\* insert() of n copies of x: x is copied first where elements will move.
InsertN(o, position, n, x) ==
    LET copies == n > 0 /\ Spare(o) >= n
    IN  InsertMany(IF copies THEN Construct(o, Local, x) ELSE o, position,
                   Repeated(n, IF copies THEN Local ELSE x))

\* range_insert() from an input iterator: one after the other.
InsertEach(o, index, from) ==
    Loop(LAMBDA m, k : Then(m, Insert(m, m.start + index + k - 1, from[k])), o, Len(from))

\* vector(first, last) from an input iterator: range_initialize() pushes one after the
\* other, and of a vector that was never made nothing is destroyed.
VectorOfEach(o, from) ==
    LET made == InsertEach(o, 0, from)
    IN  IF made.thrown THEN [made EXCEPT !.start = Null, !.finish = Null, !.last = Null] ELSE made

PopBack(o) == Destroy([o EXCEPT !.finish = @ - 1], {o.finish - 1})

\* erase() of one and of a range: what follows is assigned down, the end destroyed.
Erase(o, first, last) ==
    LET end == o.finish - (last - first)
        moved == CopyObjects(o, Span(last, o.finish), Span(first, end))
    IN  Then(moved, Finish(Destroy(moved, end .. o.finish - 1), end))

Resize(o, n, x) ==
    IF n < Size(o) THEN Erase(o, o.start + n, o.finish)
    ELSE InsertN(o, o.finish, n - Size(o), x)

\* operator=
AssignVector(o, from) ==
    LET n == Len(from)
        over == CopyObjects(o, from, Span(o.start, o.start + n))
        head == CopyObjects(o, SubSeq(from, 1, Size(o)), Span(o.start, o.finish))
        tail == UninitializedCopy(head, SubSeq(from, Size(o) + 1, n),
                                  Span(o.finish, o.start + n))
    IN  CASE n > Capacity(o) -> Grown(o, n, o.start, from, o.finish)
          [] n <= Capacity(o) /\ Size(o) >= n ->
                Then(over, Finish(Destroy(over, o.start + n .. o.finish - 1), o.start + n))
          [] OTHER -> Finish(tail, o.start + n)

=============================================================================
