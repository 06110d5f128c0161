---------------------------- MODULE MemoryService ----------------------------
(***************************************************************************)
(* What an allocator promises: a block has the size that was asked for and *)
(* no unit of a block that is held, and a block stays until it is given    *)
(* back.  A request is granted at once, or waits and is granted or refused *)
(* later; one to reallocate gives back the old block with the grant of the *)
(* new one, so that the old one is still there when its content is copied, *)
(* and when the request is refused.                                        *)
(***************************************************************************)
EXTENDS Integers

CONSTANTS Users,      \* those that call the allocator
          Sizes,      \* what they may ask for
          Available   \* the units of memory there are

VARIABLES held,     \* the blocks the users have, pairs of address and size
          wanted    \* the requests that wait

memoryVars == <<held, wanted>>

MemoryInit == held = {} /\ wanted = {}

Extent(block) == block[1] .. block[1] + block[2] - 1

\* The blocks of a size that there is room for beside others.
Room(size, others) ==
    {block \in {<<at, size>> : at \in 1 .. Available} :
        /\ Extent(block) \subseteq 1 .. Available
        /\ \A other \in others : Extent(block) \cap Extent(other) = {}}

Request(user, size, frees) == [by |-> user, size |-> size, frees |-> frees]
Waiting(user) == \E r \in wanted : r.by = user

Ask(user, size, frees) ==
    /\ ~Waiting(user) /\ frees \subseteq held
    /\ wanted' = wanted \cup {Request(user, size, frees)}
    /\ UNCHANGED held

Grant(size, frees, given) ==
    \E block \in Room(size, held \ given) : held' = ((held \ given) \ frees) \cup {block}

GrantAtOnce(user, size, frees) ==
    /\ ~Waiting(user) /\ frees \subseteq held
    /\ Grant(size, frees, {}) /\ UNCHANGED wanted

\* A user may be made to give blocks back before its request can be granted.
GrantLater(r, given) ==
    /\ r \in wanted /\ wanted' = wanted \ {r}
    /\ given \subseteq held \ r.frees /\ Grant(r.size, r.frees, given)

Refuse(r) == r \in wanted /\ wanted' = wanted \ {r} /\ UNCHANGED held

\* No block goes that a waiting request will give back.
GiveBack(blocks) ==
    /\ blocks \subseteq held /\ \A r \in wanted : r.frees \cap blocks = {}
    /\ held' = held \ blocks /\ UNCHANGED wanted

\* The block that is resized in place, or moved by one who copies it.
Resize(block, size) ==
    /\ block \in held /\ UNCHANGED wanted
    /\ \E new \in Room(size, held \ {block}) : held' = (held \ {block}) \cup {new}

MemoryNext ==
    \/ \E user \in Users, size \in Sizes, frees \in SUBSET held :
          Ask(user, size, frees) \/ GrantAtOnce(user, size, frees)
    \/ \E r \in wanted : Refuse(r) \/ \E given \in SUBSET held : GrantLater(r, given)
    \/ \E blocks \in SUBSET held : GiveBack(blocks)
    \/ \E block \in held, size \in Sizes : Resize(block, size)

MemorySpec == MemoryInit /\ [][MemoryNext]_memoryVars

=============================================================================
