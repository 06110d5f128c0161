------------------------------ MODULE StlAlloc ------------------------------
(***************************************************************************)
(* The default allocator of stl_alloc.h: free lists of small blocks, a     *)
(* pool they are carved from, and malloc() for the pool and for what is    *)
(* large.  Sizes and addresses are in units of __ALIGN bytes, 0 is null.   *)
(* With __NODE_ALLOCATOR_LOCK every call is one critical section, so that  *)
(* one caller at a time is no restriction; the handler for lack of memory  *)
(* runs inside the call.                                                   *)
(***************************************************************************)
EXTENDS StlArena

CONSTANTS Units,     \* bound: what malloc() has to give
          Kept,      \* as many of them the handler can give back
          MaxSize    \* bound: the largest block the client asks for

ASSUME AllocAssumption == /\ Units \in Nat /\ Kept \in 0 .. Units
                          /\ MaxSize \in Nat

VARIABLES heap,      \* the allocator's state and what malloc() has left
          small,     \* the client's blocks, as pairs of address and size
          large,     \* those that are malloc()'s
          reserve,   \* what the handler would free
          request,   \* the allocation that waits for the handler
          lost,      \* history: units of free lists that were overwritten
          reentered  \* history: has a handler deallocated a small block?

allocVars == <<heap, small, large, reserve, request, lost, reentered>>

NoRequest == [size |-> 0, frees |-> {}]

AllocInit == /\ heap = [free |-> EmptyLists,
                        start |-> 0, end |-> 0, size |-> 0,
                        arena |-> Kept + 1 .. Units]
             /\ small = {} /\ large = {} /\ reserve = 1 .. Kept
             /\ request = NoRequest /\ lost = {} /\ reentered = FALSE

Took(m, at, n) == [m EXCEPT !.arena = @ \ (at .. at + n - 1)]

Pushed(m, class, at) == [m EXCEPT !.free[class] = <<at>> \o @]

\* What malloc() gave becomes the pool.
Filled(m, at, n) ==
    [Took(m, at, n) EXCEPT !.start = at, !.end = at + n, !.size = @ + n]

Carved(m, size, objs) ==
    [heap |-> [m EXCEPT !.start = @ + size * objs], at |-> m.start, objs |-> objs,
     short |-> FALSE]

\* As many blocks as the pool has, and at most objs.
FromPool(m, size, objs) ==
    LET left == m.end - m.start
    IN  Carved(m, size, IF left >= size * objs THEN objs ELSE left \div size)

\* chunk_alloc(): the pool, then malloc(), then a larger block of a free list;
\* after those two it calls itself, and there is enough in the pool.  What is
\* left of the pool goes to a free list before.  If all fail the request has to
\* wait for malloc_alloc::allocate().
ChunkAllocDrops(m, size, objs) ==
    LET left == m.end - m.start
        bytes == ToGet(m.size, size * objs)
        kept == IF left > 0 THEN Pushed(m, left, m.start) ELSE m
        at == Malloc(m.arena, bytes)
        larger == {i \in size .. Classes : kept.free[i] # << >>}
        i == Min(larger)
    IN  CASE left >= size -> FromPool(m, size, objs)
          [] left < size /\ at # 0 -> FromPool(Filled(kept, at, bytes), size, objs)
          [] left < size /\ at = 0 /\ larger # {} ->
                FromPool([kept EXCEPT !.free[i] = Tail(@),
                                      !.start = Head(kept.free[i]),
                                      !.end = Head(kept.free[i]) + i], size, objs)
          [] OTHER -> [heap |-> kept, at |-> 0, objs |-> 0, short |-> TRUE]
ChunkAlloc(m, size, objs) ==
    LET left == m.end - m.start
        bytes == ToGet(m.size, size * objs)
        kept == IF left > 0 THEN Pushed(m, left, m.start) ELSE m
        at == Malloc(m.arena, bytes)
        larger == {i \in size .. Classes : kept.free[i] # << >>}
        i == Min(larger)
    IN  CASE left >= size -> FromPool(m, size, objs)
          [] left < size /\ at # 0 -> FromPool(Filled(kept, at, bytes), size, objs)
          [] left < size /\ at = 0 /\ larger # {} ->
                FromPool([kept EXCEPT !.free[i] = Tail(@),
                                      !.start = Head(kept.free[i]),
                                      !.end = Head(kept.free[i]) + i], size, objs)
          [] OTHER -> [heap |-> [kept EXCEPT !.start = 0, !.end = 0],
                       at |-> 0, objs |-> 0, short |-> TRUE]

\* refill(): the first block is the caller's, the others become the free list,
\* whatever it was before.
Refilled(chunk, size) ==
    IF chunk.objs = 1 THEN chunk.heap
    ELSE [chunk.heap EXCEPT !.free[size] = Linked(chunk.at, chunk.objs, size)]

Overwritten(chunk, size) ==
    IF chunk.objs = 1 THEN {}
    ELSE UnitsOfAll({<<a, size>> : a \in ToSet(chunk.heap.free[size])})

\* The blocks a call has to free when it has its new one: reallocate()'s.
Freed(m, blocks) ==
    LET b == CHOOSE b \in blocks : TRUE
    IN  CASE blocks = {} -> m
          [] blocks # {} /\ b[2] > Classes -> [m EXCEPT !.arena = @ \cup UnitsOf(b)]
          [] OTHER -> Pushed(m, b[2], b[1])

\* chunk has blocks of the size for the caller.
Serve(chunk, size, frees) ==
    /\ heap' = Freed(Refilled(chunk, size), frees)
    /\ lost' = lost \cup Overwritten(chunk, size)
    /\ small' = (small \ frees) \cup {<<chunk.at, size>>}
    /\ large' = large \ frees
    /\ request' = NoRequest

ServeLarge(at, size, frees) ==
    /\ heap' = Freed(Took(heap, at, size), frees)
    /\ large' = (large \ frees) \cup {<<at, size>>}
    /\ small' = small \ frees
    /\ request' = NoRequest /\ UNCHANGED lost

Wait(m, size, frees) ==
    /\ heap' = m /\ request' = [size |-> size, frees |-> frees]
    /\ UNCHANGED <<small, large, lost>>

\* allocate(), and what of reallocate() follows it.
AllocateSmall(size, frees) ==
    LET list == heap.free[size]
        chunk == ChunkAlloc(heap, size, NObjs)
    IN  /\ size <= Classes
        /\ \/ /\ list # << >>
              /\ heap' = Freed([heap EXCEPT !.free[size] = Tail(@)], frees)
              /\ small' = (small \ frees) \cup {<<Head(list), size>>}
              /\ large' = large \ frees
              /\ UNCHANGED <<request, lost>>
           \/ list = << >> /\ ~chunk.short /\ Serve(chunk, size, frees)
           \/ list = << >> /\ chunk.short /\ Wait(chunk.heap, size, frees)

AllocateLarge(size, frees) ==
    LET at == Malloc(heap.arena, size)
    IN  /\ size > Classes
        /\ IF at # 0 THEN ServeLarge(at, size, frees) ELSE Wait(heap, size, frees)

Allocate(size, frees) ==
    /\ request = NoRequest
    /\ AllocateSmall(size, frees) \/ AllocateLarge(size, frees)
    /\ UNCHANGED <<reserve, reentered>>

Deallocate(b) ==
    /\ request = NoRequest
    /\ heap' = Freed(heap, {b})
    /\ small' = small \ {b} /\ large' = large \ {b}
    /\ UNCHANGED <<reserve, request, lost, reentered>>

\* reallocate() of two large sizes is realloc(): it moves the block unless it
\* can stay, and leaves it alone when it fails.
ReallocateLarge(b, size) ==
    LET arena == heap.arena \cup UnitsOf(b)
        stays == b[1] .. b[1] + size - 1 \subseteq arena
        at == IF stays THEN b[1] ELSE Malloc(heap.arena, size)
    IN  /\ request = NoRequest /\ b[2] > Classes /\ size > Classes /\ at # 0
        /\ heap' = [heap EXCEPT !.arena = arena \ (at .. at + size - 1)]
        /\ large' = (large \ {b}) \cup {<<at, size>>}
        /\ UNCHANGED <<small, reserve, request, lost, reentered>>

\* Otherwise a new block, unless the old one has the size; then the old goes.
Reallocate(b, size) ==
    \/ ReallocateLarge(b, size)
    \/ /\ ~(b[2] > Classes /\ size > Classes) /\ b[2] # size
       /\ Allocate(size, {b})

\* One turn of oom_malloc()'s loop: the handler may give back what it has kept
\* or a block of the client's, and malloc() is tried again.
OomMalloc ==
    /\ request # NoRequest
    /\ \E gives \in {{}} \cup {{b} : b \in small \ request.frees}, keeps \in BOOLEAN :
          LET m == Freed([heap EXCEPT !.arena = IF keeps THEN @ ELSE @ \cup reserve],
                         gives)
              isLarge == request.size > Classes
              bytes == IF isLarge THEN request.size
                       ELSE ToGet(heap.size, request.size * NObjs)
              at == Malloc(m.arena, bytes)
              chunk == ChunkAlloc(Filled(m, at, bytes), request.size, NObjs)
              left == small \ gives
              frees == request.frees
          IN  /\ reserve' = IF keeps THEN reserve ELSE {}
              /\ reentered' = (reentered \/ gives # {})
              /\ \/ /\ at = 0 /\ heap' = m /\ small' = left
                    /\ UNCHANGED <<large, request, lost>>
                 \/ /\ at # 0 /\ isLarge /\ heap' = Freed(Took(m, at, bytes), frees)
                    /\ large' = (large \ frees) \cup {<<at, bytes>>}
                    /\ small' = left \ frees
                    /\ request' = NoRequest /\ UNCHANGED lost
                 \/ /\ at # 0 /\ ~isLarge
                    /\ heap' = Freed(Refilled(chunk, request.size), frees)
                    /\ small' = (left \ frees) \cup {<<chunk.at, request.size>>}
                    /\ large' = large \ frees
                    /\ lost' = lost \cup Overwritten(chunk, request.size)
                    /\ request' = NoRequest

\* Without a handler __THROW_BAD_ALLOC ends the process, or throws if the build
\* defines it so; then the block to be reallocated stays.
ThrowBadAlloc ==
    /\ request # NoRequest /\ request' = NoRequest
    /\ UNCHANGED <<heap, small, large, reserve, lost, reentered>>

AllocNext == \/ \E size \in 1 .. MaxSize : Allocate(size, {})
             \/ \E b \in small \cup large : Deallocate(b)
             \/ \E b \in small \cup large, size \in 1 .. MaxSize : Reallocate(b, size)
             \/ OomMalloc
             \/ ThrowBadAlloc

AllocSpec == AllocInit /\ [][AllocNext]_allocVars

\* The client's view: the request that waits, and the promise of MemoryService.
ClientWaits == IF request = NoRequest THEN {}
               ELSE {[by |-> "client", size |-> request.size, frees |-> request.frees]}

AllocService == INSTANCE MemoryService WITH
    Users <- {"client"}, Sizes <- 1 .. MaxSize, Available <- Units,
    held <- small \cup large, wanted <- ClientWaits

-----------------------------------------------------------------------------
Listed == BlocksOf(heap.free)
Pool == heap.start .. heap.end - 1

\* Every unit has one owner: malloc(), the handler, the pool, a free list, or
\* the client, whichever path chunk_alloc() took, through failures of malloc()
\* and exceptions.  Units that no one owns any more, because refill() wrote over
\* a free list, exist only if a handler gave a block back in the middle of it.
UnitsOwnedOnce ==
    /\ SharedOut(Listed \cup small \cup large, Pool, heap.arena, reserve \cup lost, Units)
    /\ ListedOnce(heap.free)
    /\ Listed \cap (small \cup large) = {} /\ reserve \cap lost = {}
    /\ lost # {} => reentered

\* The promise each call keeps: a block has the size that was asked for and overlaps
\* none the client has, also when malloc() fails and the handler has to free blocks
\* first; none the client has is taken away; and reallocate() copies from the old one
\* before it goes, and keeps it if there is no new one.
ServesClient ==
    LET asked == AllocService!Request("client", request.size, request.frees)
        Serves(size, frees) == \/ AllocService!GrantAtOnce("client", size, frees)
                               \/ AllocService!Ask("client", size, frees)
    IN  /\ \A size \in 1 .. MaxSize : Allocate(size, {}) => Serves(size, {})
        /\ \A b \in small \cup large : Deallocate(b) => AllocService!GiveBack({b})
        /\ \A b \in small \cup large, size \in 1 .. MaxSize :
              Reallocate(b, size) => AllocService!Resize(b, size) \/ Serves(size, {b})
        /\ OomMalloc => \E given \in SUBSET small :
              IF request' = request THEN AllocService!GiveBack(given)
              ELSE AllocService!GrantLater(asked, given)
        /\ ThrowBadAlloc => AllocService!Refuse(asked)

\* So that the allocator implements MemoryService.
AllocImplements == AllocService!MemorySpec

=============================================================================
