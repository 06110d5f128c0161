------------------------------ MODULE StlArena ------------------------------
(***************************************************************************)
(* What the two allocators share: malloc(), blocks, and the arithmetic of  *)
(* the pool.  Sizes and addresses are in units of __ALIGN bytes; 0 is      *)
(* null.                                                                   *)
(***************************************************************************)
EXTENDS Integers, Sequences, FiniteSets, FiniteSetsExt, SequencesExt

CONSTANTS Classes,   \* __NFREELISTS, 16: the largest small block, in units
          NObjs    \* 20 (pthread_alloc: 128): blocks refill() asks for

ASSUME ArenaAssumption == Classes \in Nat \ {0} /\ NObjs \in Nat \ {0}

\* A block is a pair of its address and its size.
UnitsOf(block) == block[1] .. block[1] + block[2] - 1
UnitsOfAll(blocks) == UNION {UnitsOf(b) : b \in blocks}

\* The blocks on free lists.
BlocksOf(free) == UNION {{<<a, i>> : a \in ToSet(free[i])} : i \in 1 .. Classes}

EmptyLists == [i \in 1 .. Classes |-> << >>]

\* malloc(): where n free units lie side by side, null if nowhere.
Malloc(arena, n) ==
    LET fits == {a \in arena : a .. a + n - 1 \subseteq arena}
    IN  IF fits = {} THEN 0 ELSE Min(fits)

\* 2 * total_bytes + ROUND_UP(heap_size >> 4), in units of 8 bytes.
ToGet(heapSize, total) == 2 * total + (heapSize \div 2 + 7) \div 8

\* The blocks of a chunk after the first, in the order refill() links them.
Linked(chunk, objs, size) == [k \in 1 .. objs - 1 |-> chunk + k * size]

-----------------------------------------------------------------------------
\* Every unit up to n is in one block, in the pool, with malloc() or with others.
SharedOut(blocks, pool, arena, others, n) ==
    /\ UnitsOfAll(blocks) \cup pool \cup arena \cup others = 1 .. n
    /\ \A b, c \in blocks : b # c => UnitsOf(b) \cap UnitsOf(c) = {}
    /\ UnitsOfAll(blocks) \cap (pool \cup arena \cup others) = {}
    /\ pool \cap (arena \cup others) = {} /\ arena \cap others = {}

\* No block is on its free list twice.
ListedOnce(free) == \A i \in 1 .. Classes : IsInjective(free[i])

=============================================================================
