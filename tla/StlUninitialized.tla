-------------------------- MODULE StlUninitialized --------------------------
(***************************************************************************)
(* Storage, and the objects in it: stl_construct.h, stl_uninitialized.h    *)
(* and the allocation that containers do, for elements whose copies may    *)
(* throw.                                                                  *)
(*                                                                         *)
(* A memory o has mem: address -> value, or Raw where no object lives;     *)
(* blocks: the allocated blocks, pairs of address and length; fuel: how    *)
(* many allocations and copies succeed before one throws; thrown; and bad: *)
(* did the code assign to or destroy what is not an object, construct over *)
(* one, or free what is not a block?  Once thrown, every step but those of *)
(* a handler is skipped.  const T& is an address: at Outside and below it  *)
(* are the caller's own values, at Local a local copy, at Saved another.   *)
(***************************************************************************)
EXTENDS Integers, Sequences, FiniteSets, FiniteSetsExt, SequencesExt, TLC

CONSTANT Store       \* bound: the last address

Raw == 0
Local == 0
Outside == -1
Saved == -5
Null == 0

\* The caller's values, the last at Outside, and the luck of the next call.
CallWith(o, fuel, v) ==
    [o EXCEPT !.mem = [a \in Saved .. Local |-> IF a < Local /\ Len(v) + a >= 0
                                                THEN v[Len(v) + a + 1] ELSE Raw] @@ @,
              !.fuel = fuel, !.thrown = FALSE]

FreshMemory == [mem |-> [a \in Saved .. Store |-> Raw], blocks |-> {},
                fuel |-> 0, thrown |-> FALSE, bad |-> FALSE]

Cells(block) == block[1] .. block[1] + block[2] - 1
Objects(o) == {a \in 1 .. Store : o.mem[a] # Raw}

\* allocate(): where the next block will be (malloc() takes the lowest), and the
\* memory with it.
NextBlock(o, n) ==
    LET taken == UNION {Cells(b) : b \in o.blocks}
        Free(a) == \A cell \in Cells(<<a, n>>) : cell \notin taken
    IN  CHOOSE a \in 1 .. Store : Free(a) /\ \A lower \in 1 .. a - 1 : ~Free(lower)

Allocate(o, n) ==
    IF o.thrown \/ n = 0 THEN o
    ELSE IF o.fuel = 0 THEN [o EXCEPT !.thrown = TRUE]
    ELSE [o EXCEPT !.fuel = @ - 1, !.blocks = @ \cup {<<NextBlock(o, n), n>>}]

\* deallocate(), also of a handler; it does not destroy.
Deallocate(o, at, n) ==
    IF at = Null \/ n = 0 THEN o
    ELSE [o EXCEPT !.blocks = @ \ {<<at, n>>},
                   !.bad = @ \/ <<at, n>> \notin o.blocks
                             \/ \E a \in Cells(<<at, n>>) : o.mem[a] # Raw]

\* construct() of a copy of what is at from.
Construct(o, at, from) ==
    IF o.thrown THEN o
    ELSE IF o.fuel = 0 THEN [o EXCEPT !.thrown = TRUE]
    ELSE [o EXCEPT !.mem[at] = o.mem[from], !.fuel = @ - 1,
                   !.bad = @ \/ o.mem[from] = Raw \/ (at > Local /\ o.mem[at] # Raw)]

\* *at = *from
Assign(o, at, from) ==
    IF o.thrown THEN o
    ELSE IF o.fuel = 0 THEN [o EXCEPT !.thrown = TRUE]
    ELSE [o EXCEPT !.mem[at] = o.mem[from], !.fuel = @ - 1,
                   !.bad = @ \/ Raw \in {o.mem[from], o.mem[at]}]

\* destroy() of a set of places, also of a handler.
Destroy(o, places) ==
    [o EXCEPT !.mem = [a \in DOMAIN @ |-> IF a \in places THEN Raw ELSE @[a]],
              !.bad = @ \/ \E a \in places : o.mem[a] = Raw]

\* What the code does only if nothing was thrown, and what its handler does.
Then(o, next) == IF o.thrown THEN o ELSE next
Catch(o, handled) == IF o.thrown THEN handled ELSE o

\* The places of [first, last), which the loops below go through in order.
Span(first, last) ==
    IF last <= first THEN << >> ELSE [k \in 1 .. last - first |-> first + k - 1]
Repeated(n, x) == [k \in 1 .. n |-> x]

\* A loop over 1 .. n: what Turn makes of the memory each time.
Loop(Turn(_, _), o, n) ==
    LET after[k \in 0 .. n] == IF k = 0 THEN o ELSE Turn(after[k - 1], k) IN after[n]

\* The loops of the uninitialized_ functions: constructions at the places `to' of
\* copies of those at `from'.  If one throws, those before it are destroyed.
ConstructAll(o, to, from) ==
    LET Copied(m, k) == Construct(m, to[k], from[k])
        made == Loop(Copied, o, Len(from))
    IN  IF made.thrown /\ ~o.thrown THEN Destroy(made, {to[k] : k \in 1 .. o.fuel}) ELSE made

UninitializedCopy(o, from, to) == ConstructAll(o, to, from)
UninitializedFill(o, to, x) == ConstructAll(o, to, Repeated(Len(to), x))

\* Two in a row, __uninitialized_copy_copy() and the like: if the second throws the
\* first is undone too.
InARow(o, to, from1, from2) == ConstructAll(o, to, from1 \o from2)

\* copy(), copy_backward() and fill() of objects: assignments, one at a time.
CopyObjects(o, from, to) ==
    Loop(LAMBDA m, k : Assign(m, to[k], from[k]), o, Len(from))
CopyObjectsBackward(o, from, to) == CopyObjects(o, Reverse(from), Reverse(to))
FillObjects(o, to, x) == CopyObjects(o, Repeated(Len(to), x), to)

=============================================================================
