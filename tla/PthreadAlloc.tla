---------------------------- MODULE PthreadAlloc ----------------------------
(***************************************************************************)
(* pthread_alloc: an instance of free lists per thread, kept under a key   *)
(* of the thread, and a common pool behind a lock.  A thread without an    *)
(* instance takes one that an ended thread has left, or a new one; the     *)
(* list of those that were left is not behind the lock.  Each action is    *)
(* what a thread does between two accesses to shared state.                *)
(***************************************************************************)
EXTENDS StlArena

CONSTANTS Threads, PoolUnits,   \* bound: what malloc() has to give
          MaxInstances,         \* bound: instances that are ever made
          MaxHeld               \* bound: blocks the program has at once

ASSUME PthreadAssumption == {PoolUnits, MaxInstances, MaxHeld} \subseteq Nat

VARIABLES pc,        \* thread -> where it is between two shared accesses
          asked,     \* thread -> the size refill() is called for
          result,    \* thread -> new_allocator()'s local
          specific,  \* thread -> the value under its key, 0 is null
          keys,      \* how many keys were created
          keyInit,   \* key_initialized
          idle,      \* free_allocators
          next,      \* instance -> the link of that list
          lists,     \* instance -> size -> free list
          pool,      \* start_free, end_free, heap_size, malloc()'s units
          held,      \* the blocks the program holds
          raced,     \* history: did two threads use the list of instances at once?
          threw      \* history: was bad_alloc thrown over a left-over piece?

pthreadVars == <<pc, asked, result, specific, keys, keyInit, idle, next, lists,
                 pool, held, raced, threw>>
locals == <<asked, result>>
registry == <<specific, keys, keyInit, idle, next, raced>>
memory == <<pool, held, threw>>

Made == DOMAIN next

PthreadInit ==
    /\ pc = [t \in Threads |-> "runs"] /\ asked = [t \in Threads |-> 0]
    /\ result = [t \in Threads |-> 0] /\ specific = [t \in Threads |-> 0]
    /\ keys = 0 /\ keyInit = FALSE /\ idle = 0 /\ next = << >> /\ lists = << >>
    /\ pool = [start |-> 0, end |-> 0, size |-> 0, arena |-> 1 .. PoolUnits]
    /\ held = {} /\ raced = FALSE /\ threw = FALSE

At(t, here, there) == pc[t] = here /\ pc' = [pc EXCEPT ![t] = there]

\* Another thread is between its accesses to free_allocators.
Races(t) == \E u \in Threads \ {t} : pc[u] \in {"pop", "push"}

\* allocate() and deallocate() find no instance: get_allocator_instance() looks
\* at key_initialized without the lock.
FindKey(t) ==
    /\ specific[t] = 0 /\ At(t, "runs", IF keyInit THEN "new" ELSE "lock")
    /\ UNCHANGED <<locals, registry, lists, memory>>

\* With the lock it looks again and creates the key.
CreateKeyUnseen(t) ==
    /\ At(t, "lock", "new") /\ keyInit' = TRUE /\ keys' = keys + 1
    /\ UNCHANGED <<locals, specific, idle, next, raced, lists, memory>>
CreateKey(t) ==
    /\ At(t, "lock", "new") /\ keyInit' = TRUE
    /\ keys' = IF keyInit THEN keys ELSE keys + 1
    /\ UNCHANGED <<locals, specific, idle, next, raced, lists, memory>>

\* new_allocator(): makes an instance if it sees none.
NewAllocator(t) ==
    /\ idle = 0 /\ Cardinality(Made) < MaxInstances /\ At(t, "new", "runs")
    /\ next' = Append(next, 0) /\ lists' = Append(lists, EmptyLists)
    /\ specific' = [specific EXCEPT ![t] = Len(next')]
    /\ UNCHANGED <<locals, keys, keyInit, idle, raced, memory>>

\* Otherwise it remembers the first of the list (the compiler loads it once) ...
SeeAllocator(t) ==
    /\ idle # 0 /\ At(t, "new", "pop")
    /\ result' = [result EXCEPT ![t] = idle] /\ raced' = (raced \/ Races(t))
    /\ UNCHANGED <<asked, specific, keys, keyInit, idle, next, lists, memory>>

\* ... and unlinks it.
PopAllocator(t) ==
    /\ At(t, "pop", "runs")
    /\ idle' = next[result[t]]
    /\ specific' = [specific EXCEPT ![t] = result[t]]
    /\ UNCHANGED <<locals, keys, keyInit, next, raced, lists, memory>>

\* A thread ends: the library clears its value and calls destructor().
Exit(t) ==
    /\ specific[t] # 0 /\ At(t, "runs", "push")
    /\ next' = [next EXCEPT ![specific[t]] = idle]
    /\ result' = [result EXCEPT ![t] = specific[t]]
    /\ specific' = [specific EXCEPT ![t] = 0] /\ raced' = (raced \/ Races(t))
    /\ UNCHANGED <<asked, keys, keyInit, idle, lists, memory>>

\* The thread that runs here next is another one, without an instance.
PushAllocator(t) ==
    /\ At(t, "push", "runs") /\ idle' = result[t]
    /\ UNCHANGED <<locals, specific, keys, keyInit, next, raced, lists, memory>>

MyList(t, size) == lists[specific[t]][size]
WithList(t, size, list) == [lists EXCEPT ![specific[t]][size] = list]

\* allocate() takes the first block of the thread's list, or calls refill().
AllocateIn(t, size) ==
    /\ specific[t] # 0 /\ Cardinality(held) < MaxHeld
    /\ \/ /\ MyList(t, size) # << >> /\ At(t, "runs", "runs")
          /\ lists' = WithList(t, size, Tail(MyList(t, size)))
          /\ held' = held \cup {<<Head(MyList(t, size)), size>>}
          /\ UNCHANGED <<asked, pool>>
       \/ /\ MyList(t, size) = << >> /\ At(t, "runs", "refill")
          /\ asked' = [asked EXCEPT ![t] = size]
          /\ UNCHANGED <<lists, held, pool>>
    /\ UNCHANGED <<result, registry, threw>>

\* deallocate() of a block any thread allocated, onto this thread's list.
DeallocateIn(t, block) ==
    /\ specific[t] # 0 /\ At(t, "runs", "runs")
    /\ lists' = WithList(t, block[2], <<block[1]>> \o MyList(t, block[2]))
    /\ held' = held \ {block}
    /\ UNCHANGED <<locals, registry, pool, threw>>

PoolLeft == pool.end - pool.start

\* refill() gets from chunk_alloc() as many blocks as the pool has, up to
\* NObjs, and links all but the first.
RefillIn(t) ==
    LET size == asked[t]
        objs == Min({NObjs, PoolLeft \div size})
    IN  /\ At(t, "refill", "runs") /\ objs > 0
        /\ pool' = [pool EXCEPT !.start = @ + size * objs]
        /\ held' = held \cup {<<pool.start, size>>}
        /\ lists' = IF objs = 1 THEN lists
                    ELSE WithList(t, size, Linked(pool.start, objs, size))
        /\ UNCHANGED <<locals, registry, threw>>

\* chunk_alloc() without enough in the pool: what is left goes to the thread's
\* list and malloc() is asked.  The lock is released before the next try.
LeftOver(t) == IF PoolLeft = 0 THEN lists
               ELSE WithList(t, PoolLeft, <<pool.start>> \o MyList(t, PoolLeft))

FillPool(t) ==
    LET bytes == ToGet(pool.size, asked[t] * NObjs)
        at == Malloc(pool.arena, bytes)
    IN  /\ PoolLeft < asked[t] /\ at # 0 /\ At(t, "refill", "refill")
        /\ pool' = [start |-> at, end |-> at + bytes, size |-> pool.size + bytes,
                    arena |-> pool.arena \ (at .. at + bytes - 1)]
        /\ lists' = LeftOver(t)
        /\ UNCHANGED <<locals, registry, held, threw>>

\* malloc_alloc throws where the build makes it (else the process ends): the
\* left-over piece is on the list and the pool still has it.
ThrowIn(t) ==
    /\ PoolLeft < asked[t] /\ At(t, "refill", "runs")
    /\ Malloc(pool.arena, ToGet(pool.size, asked[t] * NObjs)) = 0
    /\ lists' = LeftOver(t) /\ threw' = (threw \/ PoolLeft > 0)
    /\ UNCHANGED <<locals, registry, pool, held>>

PthreadNext == \E t \in Threads :
    \/ FindKey(t) \/ CreateKey(t)
    \/ NewAllocator(t) \/ SeeAllocator(t) \/ PopAllocator(t)
    \/ Exit(t) \/ PushAllocator(t)
    \/ \E size \in 1 .. Classes : AllocateIn(t, size)
    \/ \E b \in held : DeallocateIn(t, b)
    \/ RefillIn(t) \/ FillPool(t) \/ ThrowIn(t)

PthreadSpec == PthreadInit /\ [][PthreadNext]_pthreadVars

\* What the threads see: the requests that wait for refill(), and the promise of
\* MemoryService.
ThreadsWait == {[by |-> t, size |-> asked[t], frees |-> {}] :
                   t \in {u \in Threads : pc[u] = "refill"}}

PthreadService == INSTANCE MemoryService WITH
    Users <- Threads, Sizes <- 1 .. Classes, Available <- PoolUnits, wanted <- ThreadsWait

-----------------------------------------------------------------------------
\* Free-list information is kept separately for each thread, avoiding locking
\* (pthread_alloc:18): no two threads have the same instance.
OwnFreeLists == \A t, u \in Threads : t # u /\ specific[t] # 0 => specific[t] # specific[u]

ListedBlocks == UNION {BlocksOf(lists[i]) : i \in Made}

\* What the allocator keeps if its two weak points are not hit, that is as long
\* as no two threads are in the list of instances at once: there is one key,
\* however many threads find none at the same time; every instance belongs to
\* one thread or to the list; and (if no exception left a piece twice) a unit is
\* with one owner, also when blocks are freed by other threads than asked for
\* them and threads refill at the same time.
ThreadsKeepMemory ==
    /\ keys <= 1 /\ (keyInit <=> keys = 1)
    /\ ~raced => OwnFreeLists
    /\ ~raced /\ ~threw =>
          /\ SharedOut(ListedBlocks \cup held, pool.start .. pool.end - 1,
                       pool.arena, {}, PoolUnits)
          /\ \A i \in Made : ListedOnce(lists[i])
          /\ \A i, j \in Made : i # j => BlocksOf(lists[i]) \cap BlocksOf(lists[j]) = {}
          /\ ListedBlocks \cap held = {}

\* While the two weak points are not hit, a thread is given blocks of the size it asked
\* for, none of which overlaps one that any thread has, whoever frees which block and
\* whatever other threads do to the pool between two tries of refill().
ServesThreads ==
    \A t \in Threads :
        LET waiting == PthreadService!Request(t, asked[t], {})
        IN  /\ \A size \in 1 .. Classes : AllocateIn(t, size) =>
                  PthreadService!GrantAtOnce(t, size, {}) \/ PthreadService!Ask(t, size, {})
            /\ \A b \in held : DeallocateIn(t, b) => PthreadService!GiveBack({b})
            /\ RefillIn(t) => PthreadService!GrantLater(waiting, {})
            /\ ThrowIn(t) => PthreadService!Refuse(waiting)

\* So that as long it implements MemoryService.
PthreadImplements ==
    /\ PthreadService!MemoryInit
    /\ [][~raced /\ ~threw => PthreadService!MemoryNext]_<<held, ThreadsWait>>

=============================================================================
