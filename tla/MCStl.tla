-------------------------------- MODULE MCStl --------------------------------
(***************************************************************************)
(* Instances of the allocators, of strings, of containers and of the       *)
(* algorithms.  A behaviour is one of a single part, and the other parts   *)
(* stay in their initial states.                                           *)
(***************************************************************************)
EXTENDS StlAlloc, PthreadAlloc, StlString

CONSTANTS Parts,      \* those that behaviours are about
          Values, Keyed, Store, MaxElements, Fuels, B, InitialMap, Counters, Faulty,
          Entries, Primes, MaxEntries

VARIABLES part,       \* the one this behaviour is about
          container,  \* a container with its memory
          contents,   \* what should be in it
          xs, ys      \* the algorithms' input

C == INSTANCE MCStlTables WITH c <- container, meant <- contents

containerVars == <<container, contents>>

\* The algorithms compare pairs of a key and a tag by the key, and add and
\* multiply numbers.
KeyLess(a, b) == a[1] < b[1]
KeyEqual(a, b) == a[1] = b[1]
Add(a, b) == a + b
Subtract(a, b) == a - b
Multiply(a, b) == a * b

A == INSTANCE MCStlAlgo
       WITH Less <- KeyLess, Equal <- KeyEqual,
            Plus <- Add, Minus <- Subtract, Times <- Multiply,
            Threshold <- 2, ChunkSize <- 1, InsertionLimit <- 3,
            Keys <- 1 .. 3, MaxFirst <- 5, MaxSecond <- 3

inputVars == <<xs, ys>>

stlVars == <<part, allocVars, pthreadVars, stringVars, containerVars, inputVars>>

-----------------------------------------------------------------------------
CharOrder(a, b) == a < b
PrimesSmall == <<2, 3, 5>>
Symmetry == Permutations(Threads) \cup Permutations(Strings)

Full(o) == [o EXCEPT !.fuel = 99]
Linkless(last) == [a \in 0 .. last |-> 0]

EmptyDeque == C!D!DequeOf([map |-> << >>, start |-> 0, finish |-> 0, maps |-> 0]
                            @@ Full(C!V!FreshMemory), << >>)
EmptyLists2 ==
    LET none == [next |-> Linkless(Store), prev |-> Linkless(Store), node |-> 0, other |-> 0]
                  @@ Full(C!V!FreshMemory)
        one == C!L!ListOf(none, << >>)
    IN  C!L!ListOf([one EXCEPT !.other = one.node], << >>)
EmptySlists == [next |-> Linkless(Store + 3 + Counters)] @@ C!V!FreshMemory
EmptyTree ==
    C!T!NewTree([parent |-> Linkless(Store), color |-> [a \in 0 .. Store |-> TRUE],
                 child |-> [d \in {0, 1} |-> Linkless(Store)], header |-> 0, count |-> 0]
                  @@ Full(C!V!FreshMemory))
EmptyTable ==
    C!H!NewTable([next |-> Linkless(Store), buckets |-> << >>, capacity |-> 0, elements |-> 0]
                   @@ Full(C!V!FreshMemory), 1)

Starts(name, o, empty) ==
    part = name /\ container = C!V!CallWith(o, 0, << >>) /\ contents = empty

Unboxed == {"alloc", "pthread", "string", "algorithms"}

Init == /\ part \in Parts /\ AllocInit /\ PthreadInit /\ StringInit /\ A!Init
        /\ \/ part \in Unboxed /\ container = 0 /\ contents = 0
           \/ Starts("vector", C!V!EmptyVector(C!V!FreshMemory), << >>)
           \/ Starts("deque", EmptyDeque, << >>)
           \/ Starts("list", EmptyLists2, << << >>, << >> >>)
           \/ Starts("slist", EmptySlists, << << >>, << >> >>)
           \/ Starts("tree", EmptyTree, << >>)
           \/ Starts("hashtable", EmptyTable, {})

Containers == \/ part = "vector" /\ C!VectorNext
              \/ part = "deque" /\ C!DequeNext
              \/ part = "list" /\ C!ListNext
              \/ part = "slist" /\ C!SlistNext
              \/ part = "tree" /\ C!TreeNext
              \/ part = "hashtable" /\ C!TableNext

Next == /\ UNCHANGED part
        /\ \/ /\ part = "alloc" /\ AllocNext
              /\ UNCHANGED <<pthreadVars, stringVars, containerVars, inputVars>>
           \/ /\ part = "pthread" /\ PthreadNext
              /\ UNCHANGED <<allocVars, stringVars, containerVars, inputVars>>
           \/ /\ part = "string" /\ StringNext
              /\ UNCHANGED <<allocVars, pthreadVars, containerVars, inputVars>>
           \/ /\ part = "algorithms" /\ A!Next
              /\ UNCHANGED <<allocVars, pthreadVars, stringVars, containerVars>>
           \/ /\ Containers
              /\ UNCHANGED <<allocVars, pthreadVars, stringVars, inputVars>>

Spec == Init /\ [][Next]_stlVars

-----------------------------------------------------------------------------
(* Bounds on what is explored, and states that differ only in addresses.   *)

\* Threads stop where the allocator has no promise any more, and at most one element
\* of a deque is not 1.
Explored ==
    /\ ~raced /\ ~threw
    /\ part = "deque" => Cardinality({k \in DOMAIN contents : contents[k] # 1}) <= 1

Shape ==
    CASE part \in Unboxed -> << >>
      [] part = "vector" -> container
      [] part = "deque" -> <<C!D!DequeElements(container), container.start, container.finish,
                             DOMAIN container.map, container.maps>>
      [] part = "list" -> C!BothLists(container)
      [] part = "slist" -> C!BothSlists(container)
      [] part = "tree" -> C!TreeShape
      [] part = "hashtable" -> C!TableShape

Memory == IF part \in Unboxed THEN << >>
          ELSE <<Cardinality(container.blocks), Cardinality(C!V!Objects(container)), container.bad>>

Content == CASE part = "tree" -> [k \in DOMAIN contents |-> contents[k][2]]
             [] part = "hashtable" -> {e[2] : e \in contents}
             [] OTHER -> contents

View == <<part, allocVars, pthreadVars, stringVars, inputVars, Content, Shape, Memory>>

-----------------------------------------------------------------------------
\* A deque has its elements; objects are made and destroyed exactly once, and (as
\* stl_deque.h:56 says) the map points to an allocated node if and only if that node is
\* in the range of nodes in use, also after a copy or an allocation has thrown.
DequeIntact == part = "deque" => C!DequeHolds /\ C!DequeIntact

\* After every call, one that has thrown included, a sequence has the elements the
\* standard says, its links are those of one chain, objects were made and destroyed
\* exactly once, and the blocks it has are exactly those it will free.
SequencesIntact ==
    /\ part = "vector" => C!VectorIntact
    /\ DequeIntact
    /\ part = "list" => C!ListsIntact
    /\ part = "slist" => C!SlistsIntact

\* The same of trees and tables, whose elements stay where they are; trees keep order
\* and balance, tables keep equal keys together; and all lookups, and iterators in both
\* directions, agree with what is there.
AssociationsIntact ==
    /\ part = "tree" => C!TreeHolds /\ C!TreeIntact
    /\ part = "hashtable" => C!TableHolds /\ C!TableIntact

\* What only reads a range gives the same whichever way the source has of
\* computing it: comparisons in both directions, searches from both ends and
\* for one value or several, binary and linear search.
ReadingAgrees == part = "algorithms" => A!ReadingAgrees

\* What writes to a range it also reads overwrites nothing it still needs, in
\* the variant of each iterator category, and loses and favours no value.
RearrangingAgrees == part = "algorithms" => A!RearrangingAgrees

\* Union, intersection and differences of sorted ranges have each value as
\* often as those of bags, sorted, and prefer the first range.
SetOperationsCount == part = "algorithms" => A!SetOperationsCount

\* What orders a range by exchanges puts every value where it belongs and
\* leaves the range's neighbours alone, although it does not look for the ends.
SortingHolds == part = "algorithms" => A!SortingHolds

\* What is said to be stable is, whatever temporary buffer it was given.
StableOnesAgree == part = "algorithms" => A!StableOnesAgree

=============================================================================
