----------------------------- MODULE PthreadProofs -----------------------------
(***************************************************************************)
(* The allocator with free lists per thread: as long as no two threads are *)
(* in the list of instances at once an instance is one thread's, and if    *)
(* nothing was thrown over a left-over piece either, a unit has one owner. *)
(***************************************************************************)
EXTENDS PthreadAlloc, AllocProofs

FreeTypes == Seq(FreeType)
PoolType == [start : Nat, end : Nat, size : Nat, arena : SUBSET Nat]

Types ==
    /\ pc \in [Threads -> {"runs", "lock", "new", "pop", "push", "refill"}]
    /\ asked \in [Threads -> Nat] /\ result \in [Threads -> Nat]
    /\ specific \in [Threads -> {0} \cup Made]
    /\ keyInit \in BOOLEAN /\ keys = (IF keyInit THEN 1 ELSE 0)
    /\ idle \in {0} \cup Made
    /\ next \in Seq(Nat) /\ \A i \in Made : next[i] \in {0} \cup Made
    /\ lists \in FreeTypes /\ Len(lists) = Len(next)
    /\ pool \in PoolType /\ pool.start <= pool.end
    /\ held \subseteq Nat \X (1 .. Classes)
    /\ raced \in BOOLEAN /\ threw \in BOOLEAN

\* What a thread has while it is between two accesses.
Between(t) ==
    /\ pc[t] \in {"lock", "new", "pop", "push"} => specific[t] = 0
    /\ pc[t] \in {"pop", "push"} => result[t] \in Made
    /\ pc[t] = "refill" => specific[t] # 0 /\ asked[t] \in 1 .. Classes

TypesHold == Types /\ \A t \in Threads : Between(t)

\* The instances that no thread has, as its own or to put them back.
Idle == {i \in Made : \A t \in Threads : specific[t] # i /\ (pc[t] = "push" => result[t] # i)}

\* All of them are on the list: no link leads out of them or to the first, and
\* no two links lead to the same.
Registry ==
    /\ OwnFreeLists
    /\ \A t, u \in Threads :
          t # u /\ pc[t] \in {"pop", "push"} => pc[u] \notin {"pop", "push"}
    /\ \A t \in Threads :
          /\ pc[t] = "pop" => result[t] = idle
          /\ pc[t] = "push" =>
                next[result[t]] = idle /\ \A u \in Threads : specific[u] # result[t]
    /\ idle \in {0} \cup Idle
    /\ \A i \in Idle : next[i] \in {0} \cup (Idle \ {idle})
    /\ \A i, j \in Idle : next[i] = next[j] /\ next[i] # 0 => i = j

\* Who refills has nothing on the list it is for.
Refilling == \A t \in Threads : pc[t] = "refill" => MyList(t, asked[t]) = << >>

MemoryOwned ==
    /\ SharedOut(ListedBlocks \cup held, pool.start .. pool.end - 1, pool.arena, {}, PoolUnits)
    /\ \A i \in Made : ListedOnce(lists[i])
    /\ \A i, j \in Made : i # j => BlocksOf(lists[i]) \cap BlocksOf(lists[j]) = {}
    /\ ListedBlocks \cap held = {}

PthreadIInv == /\ TypesHold
               /\ ~raced => Registry /\ Refilling
               /\ ~raced /\ ~threw => MemoryOwned

-----------------------------------------------------------------------------
(* Helpers.                                                                *)

\* Appending to a sequence.
LEMMA Appended ==
    ASSUME NEW S, NEW s \in Seq(S), NEW x \in S
    PROVE  /\ Append(s, x) \in Seq(S) /\ Len(Append(s, x)) = Len(s) + 1
           /\ Len(s) \in Nat /\ DOMAIN s = 1 .. Len(s)
           /\ DOMAIN Append(s, x) = DOMAIN s \cup {Len(s) + 1}
           /\ Len(s) + 1 \notin DOMAIN s /\ Len(s) + 1 # 0
           /\ \A i \in DOMAIN s : Append(s, x)[i] = s[i]
           /\ Append(s, x)[Len(s) + 1] = x
<1>1. /\ Append(s, x) \in Seq(S) /\ Len(Append(s, x)) = Len(s) + 1
      /\ \A i \in 1 .. Len(s) : Append(s, x)[i] = s[i]
      /\ Append(s, x)[Len(s) + 1] = x
  BY AppendProperties
<1>2. /\ Len(s) \in Nat /\ DOMAIN s = 1 .. Len(s)
      /\ DOMAIN Append(s, x) = 1 .. Len(s) + 1
  BY <1>1, LenProperties
<1> QED
  BY <1>1, <1>2

\* Changing one element of a sequence.
LEMMA Changed ==
    ASSUME NEW S, NEW s \in Seq(S), NEW i \in DOMAIN s, NEW x \in S
    PROVE  LET q == [s EXCEPT ![i] = x]
           IN  /\ q \in Seq(S) /\ Len(q) = Len(s) /\ DOMAIN q = DOMAIN s
               /\ q[i] = x /\ \A j \in DOMAIN s : j # i => q[j] = s[j]
<1>1. DOMAIN s = 1 .. Len(s)
  BY LenProperties
<1>2. [s EXCEPT ![i] = x] \in Seq(S) /\ Len([s EXCEPT ![i] = x]) = Len(s)
  BY <1>1, ExceptSeq
<1> QED
  BY <1>2

\* The free lists of a thread's instance.
LEMMA MyLists ==
    ASSUME TypesHold, NEW t \in Threads, specific[t] # 0,
           NEW size \in 1 .. Classes, NEW list \in Seq(Nat)
    PROVE  LET i == specific[t]
               f == [lists[i] EXCEPT ![size] = list]
           IN  /\ i \in Made /\ lists[i] \in FreeType /\ f \in FreeType
               /\ MyList(t, size) = lists[i][size] /\ MyList(t, size) \in Seq(Nat)
               /\ WithList(t, size, list) = [lists EXCEPT ![i] = f]
               /\ DOMAIN lists = Made
               /\ WithList(t, size, list) \in FreeTypes
               /\ Len(WithList(t, size, list)) = Len(lists)
<1> DEFINE i == specific[t]
           f == [lists[i] EXCEPT ![size] = list]
<1>1. i \in Made /\ lists \in FreeTypes /\ DOMAIN lists = Made
  BY LenProperties DEF TypesHold, Types, FreeTypes, Made
<1>2. lists[i] \in FreeType
  BY <1>1, ElementOfSeq, LenProperties DEF FreeTypes
<1>3. f \in FreeType
  BY <1>2 DEF FreeType
<1>4. WithList(t, size, list) = [lists EXCEPT ![i] = f]
  BY DEF WithList
<1> HIDE DEF f, i
<1>5. [lists EXCEPT ![i] = f] \in FreeTypes /\ Len([lists EXCEPT ![i] = f]) = Len(lists)
  BY <1>1, <1>3, Changed DEF FreeTypes
<1> QED
  BY <1>1, <1>2, <1>3, <1>4, <1>5 DEF f, i, MyList, FreeType

\* refill() takes what the pool has.
LEMMA RefillObjs ==
    ASSUME Types, NEW size \in 1 .. Classes,
           Min({NObjs, PoolLeft \div size}) > 0
    PROVE  LET objs == Min({NObjs, PoolLeft \div size})
           IN  /\ objs \in Nat \ {0} /\ size \in Nat \ {0}
               /\ size * objs \in Nat /\ size * objs <= PoolLeft /\ PoolLeft \in Nat
<1> DEFINE d == PoolLeft \div size
           objs == Min({NObjs, d})
<1>1. PoolLeft \in Nat /\ size \in Nat \ {0} /\ NObjs \in Nat
  BY ArenaAssumption DEF Types, PoolType, PoolLeft
<1>2. d \in Nat /\ size * d \in Nat /\ size * d <= PoolLeft
  BY <1>1, Division
<1> HIDE DEF d
<1>3. objs \in {NObjs, d} /\ objs <= d
  BY <1>1, <1>2, MinIsMember
<1>4. objs > 0
  BY DEF d
<1> HIDE DEF objs
<1>5. objs \in Nat /\ objs <= d /\ objs > 0
  BY <1>1, <1>2, <1>3, <1>4
<1>6. size * objs \in Nat /\ size * objs <= size * d
  <2>1. CASE objs = d
    BY <1>2, <2>1
  <2>2. CASE objs < d
    <3>1. size * objs \in Nat /\ size * objs + size <= size * d
      BY <1>1, <1>2, <1>5, <2>2, TimesGrows
    <3> DEFINE a == size * objs
               b == size * d
    <3>2. a \in Nat /\ b \in Nat /\ a + size <= b
      BY <1>2, <3>1
    <3> HIDE DEF a, b
    <3>3. a \in Nat /\ a <= b
      BY <1>1, <3>2
    <3> QED
      BY <3>3 DEF a, b
  <2> QED
    BY <1>2, <1>5, <2>1, <2>2
<1> DEFINE a == size * objs
           b == size * d
<1>7. a \in Nat /\ b \in Nat /\ a <= b /\ b <= PoolLeft
  BY <1>2, <1>6
<1> HIDE DEF a, b
<1>8. a \in Nat /\ a <= PoolLeft
  BY <1>1, <1>7
<1> QED
  BY <1>1, <1>5, <1>8 DEF a, objs, d

\* The left-over piece goes to a list of smaller blocks.
LEMMA LeftOverTypes ==
    ASSUME TypesHold, NEW t \in Threads, pc[t] = "refill", PoolLeft < asked[t]
    PROVE  /\ PoolLeft \in Nat /\ (PoolLeft # 0 => PoolLeft \in 1 .. Classes)
           /\ LeftOver(t) \in FreeTypes /\ Len(LeftOver(t)) = Len(lists)
<1>1. /\ specific[t] # 0 /\ asked[t] \in 1 .. Classes /\ pool.start \in Nat
      /\ PoolLeft \in Nat /\ lists \in FreeTypes
  BY DEF TypesHold, Types, Between, PoolType, PoolLeft
<1>2. CASE PoolLeft = 0
  BY <1>1, <1>2 DEF LeftOver
<1>3. CASE PoolLeft # 0
  <2>1. PoolLeft \in 1 .. Classes
    <3>1. /\ PoolLeft \in Nat /\ asked[t] \in Nat /\ asked[t] <= Classes /\ Classes \in Nat
          /\ PoolLeft < asked[t]
      BY <1>1, ArenaAssumption
    <3> QED
      BY <1>3, <3>1
  <2>2. << >> \in Seq(Nat)
    OBVIOUS
  <2>3. MyList(t, PoolLeft) \in Seq(Nat)
    BY <1>1, <2>1, <2>2, MyLists
  <2> DEFINE list == <<pool.start>> \o MyList(t, PoolLeft)
  <2>4. list \in Seq(Nat)
    BY <1>1, <2>3, ConcatProperties
  <2>5. LeftOver(t) = WithList(t, PoolLeft, list)
    BY <1>3 DEF LeftOver
  <2> HIDE DEF list
  <2> DEFINE l == WithList(t, PoolLeft, list)
  <2>6. l \in FreeTypes /\ Len(l) = Len(lists)
    <3> DEFINE k == PoolLeft
    <3>1. k \in 1 .. Classes /\ specific[t] # 0
      BY <1>1, <2>1
    <3> HIDE DEF k
    <3>2. WithList(t, k, list) \in FreeTypes /\ Len(WithList(t, k, list)) = Len(lists)
      BY <2>4, <3>1, MyLists, ZenonT(60)
    <3> QED
      BY <3>2 DEF k
  <2> HIDE DEF l
  <2> QED
    BY <1>1, <2>1, <2>5, <2>6 DEF l
<1> QED
  BY <1>2, <1>3

-----------------------------------------------------------------------------
(* Types and locals, raced or not.                                         *)

LEMMA TypesInit == PthreadInit => TypesHold
<1> SUFFICES ASSUME PthreadInit PROVE TypesHold
  OBVIOUS
<1>1. << >> \in Seq(Nat) /\ << >> \in FreeTypes /\ Len(<< >>) = 0 /\ DOMAIN << >> = {}
  BY DEF FreeTypes
<1>2. pool \in PoolType /\ pool.start <= pool.end
  BY PthreadAssumption DEF PthreadInit, PoolType
<1>3. next = << >> /\ lists = << >> /\ Made = {} /\ held = {} /\ idle = 0
  BY <1>1 DEF PthreadInit, Made
<1>4. Types
  BY <1>1, <1>2, <1>3 DEF PthreadInit, Types
<1>5. \A t \in Threads : pc[t] = "runs"
  BY DEF PthreadInit
<1> QED
  BY <1>4, <1>5 DEF TypesHold, Between

LEMMA TypesNext ==
    ASSUME TypesHold, NEW t \in Threads,
           \/ FindKey(t) \/ CreateKey(t)
           \/ NewAllocator(t) \/ SeeAllocator(t) \/ PopAllocator(t)
           \/ Exit(t) \/ PushAllocator(t)
           \/ \E size \in 1 .. Classes : AllocateIn(t, size)
           \/ \E b \in held : DeallocateIn(t, b)
           \/ RefillIn(t) \/ FillPool(t) \/ ThrowIn(t)
    PROVE  TypesHold'
<1> USE DEF TypesHold, At
<1>1. CASE FindKey(t)
  BY <1>1 DEF FindKey, Types, Between, locals, registry, memory, Made
<1>2. CASE CreateKey(t)
  BY <1>2 DEF CreateKey, Types, Between, locals, memory, Made
<1>3. CASE NewAllocator(t)
  <2>1. /\ next' = Append(next, 0) /\ lists' = Append(lists, EmptyLists)
        /\ specific' = [specific EXCEPT ![t] = Len(next')]
        /\ UNCHANGED <<asked, result, keys, keyInit, idle, raced, pool, held, threw>>
        /\ pc[t] = "new" /\ pc' = [pc EXCEPT ![t] = "runs"]
    BY <1>3 DEF NewAllocator, locals, memory
  <2>2. EmptyLists \in FreeType
    BY DEF EmptyLists, FreeType
  <2>3. next \in Seq(Nat) /\ lists \in Seq(FreeType) /\ Len(lists) = Len(next)
    BY DEF Types, FreeTypes
  <2>4. /\ next' \in Seq(Nat) /\ Len(next') = Len(next) + 1
        /\ Made' = Made \cup {Len(next')} /\ Len(next') \notin Made
        /\ next'[Len(next')] = 0 /\ \A i \in Made : next'[i] = next[i]
    BY <2>1, <2>3, Appended DEF Made
  <2>5. lists' \in FreeTypes /\ Len(lists') = Len(next')
    BY <2>1, <2>2, <2>3, <2>4, Appended DEF FreeTypes
  <2>6. specific' \in [Threads -> {0} \cup Made']
    BY <2>1, <2>4 DEF Types
  <2>7. \A i \in Made' : next'[i] \in {0} \cup Made'
    BY <2>4 DEF Types
  <2>8. Types'
    BY <2>1, <2>4, <2>5, <2>6, <2>7 DEF Types
  <2>9. \A u \in Threads : Between(u)'
    BY <2>1, <2>4 DEF Types, Between
  <2> QED
    BY <2>8, <2>9
<1>4. CASE SeeAllocator(t)
  <2>1. idle \in Nat
    BY LenProperties DEF Types, Made
  <2> QED
    BY <1>4, <2>1 DEF SeeAllocator, Types, Between, memory, Made
<1>5. CASE PopAllocator(t)
  BY <1>5 DEF PopAllocator, Types, Between, locals, memory, Made
<1>6. CASE Exit(t)
  <2>1. /\ next' = [next EXCEPT ![specific[t]] = idle]
        /\ result' = [result EXCEPT ![t] = specific[t]]
        /\ specific' = [specific EXCEPT ![t] = 0]
        /\ UNCHANGED <<asked, keys, keyInit, idle, lists, pool, held, threw>>
        /\ specific[t] # 0 /\ pc' = [pc EXCEPT ![t] = "push"] /\ pc[t] = "runs"
        /\ raced' \in BOOLEAN
    BY <1>6 DEF Exit, memory, Types, Races
  <2>2. specific[t] \in Made /\ specific[t] \in Nat /\ idle \in Nat /\ next \in Seq(Nat)
    BY <2>1, LenProperties DEF Types, Made
  <2>3. /\ next' \in Seq(Nat) /\ Len(next') = Len(next) /\ Made' = Made
        /\ next'[specific[t]] = idle /\ \A j \in Made : j # specific[t] => next'[j] = next[j]
    BY <2>1, <2>2, Changed DEF Made
  <2>4. Types'
    BY <2>1, <2>2, <2>3 DEF Types
  <2>5. \A u \in Threads : Between(u)'
    BY <2>1, <2>2, <2>3 DEF Types, Between
  <2> QED
    BY <2>4, <2>5
<1>7. CASE PushAllocator(t)
  BY <1>7 DEF PushAllocator, Types, Between, locals, memory, Made
<1>8. ASSUME NEW size \in 1 .. Classes, AllocateIn(t, size) PROVE TypesHold'
  <2>1. CASE /\ MyList(t, size) # << >> /\ At(t, "runs", "runs")
             /\ lists' = WithList(t, size, Tail(MyList(t, size)))
             /\ held' = held \cup {<<Head(MyList(t, size)), size>>}
             /\ UNCHANGED <<asked, pool>>
    <3>1. MyList(t, size) \in Seq(Nat) /\ specific[t] # 0
      <4>1. << >> \in Seq(Nat) /\ specific[t] # 0
        BY <1>8 DEF AllocateIn
      <4> QED
        BY <4>1, MyLists
    <3>2. Head(MyList(t, size)) \in Nat /\ Tail(MyList(t, size)) \in Seq(Nat)
      BY <2>1, <3>1, HeadTailProperties
    <3> DEFINE l == WithList(t, size, Tail(MyList(t, size)))
    <3>3. l \in FreeTypes /\ Len(l) = Len(lists)
      BY <3>1, <3>2, MyLists
    <3> HIDE DEF l
    <3>4. lists' \in FreeTypes /\ Len(lists') = Len(next)
      BY <2>1, <3>3 DEF l, Types
    <3>5. held' \subseteq Nat \X (1 .. Classes)
      BY <2>1, <3>2 DEF Types
    <3> QED
      BY <1>8, <2>1, <3>4, <3>5 DEF AllocateIn, Types, Between, registry, Made
  <2>2. CASE /\ MyList(t, size) = << >> /\ At(t, "runs", "refill")
             /\ asked' = [asked EXCEPT ![t] = size]
             /\ UNCHANGED <<lists, held, pool>>
    <3>1. size \in Nat
      OBVIOUS
    <3> QED
      BY <1>8, <2>2, <3>1 DEF AllocateIn, Types, Between, registry, Made
  <2> QED
    BY <1>8, <2>1, <2>2 DEF AllocateIn
<1>9. ASSUME NEW b \in held, DeallocateIn(t, b) PROVE TypesHold'
  <2>1. b[1] \in Nat /\ b[2] \in 1 .. Classes /\ specific[t] # 0
    BY <1>9 DEF Types, DeallocateIn
  <2>2. MyList(t, b[2]) \in Seq(Nat)
    <3>1. << >> \in Seq(Nat)
      OBVIOUS
    <3> QED
      BY <2>1, <3>1, MyLists
  <2> DEFINE list == <<b[1]>> \o MyList(t, b[2])
             l == WithList(t, b[2], list)
  <2>3. list \in Seq(Nat)
    BY <2>1, <2>2, ConcatProperties
  <2> HIDE DEF list
  <2>4. l \in FreeTypes /\ Len(l) = Len(lists)
    BY <2>1, <2>3, MyLists
  <2> HIDE DEF l
  <2>5. lists' \in FreeTypes /\ Len(lists') = Len(next)
    BY <1>9, <2>4 DEF l, list, Types, DeallocateIn
  <2> QED
    BY <1>9, <2>5 DEF DeallocateIn, Types, Between, registry, locals, Made
<1>10. CASE RefillIn(t)
  <2> DEFINE size == asked[t]
             objs == Min({NObjs, PoolLeft \div size})
  <2>1. /\ pc[t] = "refill" /\ pc' = [pc EXCEPT ![t] = "runs"] /\ objs > 0
        /\ pool' = [pool EXCEPT !.start = @ + size * objs]
        /\ held' = held \cup {<<pool.start, size>>}
        /\ lists' = IF objs = 1 THEN lists
                    ELSE WithList(t, size, Linked(pool.start, objs, size))
        /\ UNCHANGED <<asked, result, specific, keys, keyInit, idle, next, raced, threw>>
    BY <1>10 DEF RefillIn, locals, registry
  <2>2. size \in 1 .. Classes /\ specific[t] # 0 /\ pool \in PoolType /\ pool.start \in Nat
    BY <2>1 DEF Types, Between, PoolType
  <2>3. /\ objs \in Nat \ {0} /\ size \in Nat \ {0}
        /\ size * objs \in Nat /\ size * objs <= PoolLeft /\ PoolLeft \in Nat
    BY <2>1, <2>2, RefillObjs
  <2> HIDE DEF objs
  <2> DEFINE n == size * objs
  <2>4. n \in Nat /\ n <= PoolLeft
    BY <2>3
  <2>5. pool' \in PoolType /\ pool'.start <= pool'.end
    <3>1. pool' = [pool EXCEPT !.start = @ + n]
      BY <2>1
    <3> HIDE DEF n
    <3>2. /\ pool.start \in Nat /\ pool.end \in Nat /\ pool.start + n \in Nat
          /\ pool.start + n <= pool.end
      BY <2>2, <2>4 DEF PoolType, PoolLeft
    <3>3. pool' = [pool EXCEPT !.start = pool.start + n]
      BY <2>2, <3>1 DEF PoolType
    <3>4. pool' \in PoolType /\ pool'.start = pool.start + n /\ pool'.end = pool.end
      BY <2>2, <3>2, <3>3 DEF PoolType
    <3> QED
      BY <3>2, <3>4
  <2>6. lists' \in FreeTypes /\ Len(lists') = Len(next)
    <3>1. CASE objs = 1
      BY <2>1, <3>1 DEF Types
    <3>2. CASE objs # 1
      <4> DEFINE list == Linked(pool.start, objs, size)
                 l == WithList(t, size, list)
      <4>1. list \in Seq(Nat)
        BY <2>2, <2>3, LinkedBlocks
      <4> HIDE DEF list
      <4>2. l \in FreeTypes /\ Len(l) = Len(lists)
        BY <2>2, <4>1, MyLists
      <4> QED
        BY <2>1, <3>2, <4>2 DEF list, Types
    <3> QED
      BY <3>1, <3>2
  <2>7. held' \subseteq Nat \X (1 .. Classes)
    BY <2>1, <2>2 DEF Types
  <2> QED
    BY <2>1, <2>5, <2>6, <2>7 DEF Types, Between, Made
<1>11. CASE FillPool(t)
  <2> DEFINE bytes == ToGet(pool.size, asked[t] * NObjs)
             at == Malloc(pool.arena, bytes)
  <2>1. /\ PoolLeft < asked[t] /\ at # 0 /\ pc[t] = "refill" /\ pc' = [pc EXCEPT ![t] = "refill"]
        /\ pool' = [start |-> at, end |-> at + bytes, size |-> pool.size + bytes,
                    arena |-> pool.arena \ (at .. at + bytes - 1)]
        /\ lists' = LeftOver(t)
        /\ UNCHANGED <<asked, result, specific, keys, keyInit, idle, next, raced, held, threw>>
    BY <1>11 DEF FillPool, locals, registry
  <2>2. asked[t] \in Nat \ {0} /\ pool.size \in Nat /\ pool.arena \in SUBSET Nat /\ NObjs \in Nat \ {0}
    BY <2>1, ArenaAssumption DEF Types, Between, PoolType
  <2>3. bytes \in Nat
    BY <2>2, ToGetEnough
  <2> HIDE DEF bytes
  <2>4. at \in Nat
    BY <2>1, <2>2, MallocGives
  <2> HIDE DEF at
  <2>5. pool' \in PoolType /\ pool'.start <= pool'.end
    BY <2>1, <2>2, <2>3, <2>4 DEF PoolType
  <2>6. lists' \in FreeTypes /\ Len(lists') = Len(next)
    BY <2>1, LeftOverTypes DEF Types
  <2> QED
    BY <2>1, <2>5, <2>6 DEF Types, Between, Made
<1>12. CASE ThrowIn(t)
  <2>1. lists' \in FreeTypes /\ Len(lists') = Len(next)
    BY <1>12, LeftOverTypes DEF ThrowIn, Types
  <2>2. threw' \in BOOLEAN
    BY <1>12 DEF ThrowIn, Types
  <2> QED
    BY <1>12, <2>1, <2>2 DEF ThrowIn, Types, Between, locals, registry, Made
<1> QED
  BY <1>1, <1>2, <1>3, <1>4, <1>5, <1>6, <1>7, <1>8, <1>9, <1>10, <1>11, <1>12

-----------------------------------------------------------------------------
(* The instances and their list.                                           *)

LEMMA RegistryNext ==
    ASSUME TypesHold, TypesHold', Registry, ~raced', NEW t \in Threads,
           \/ FindKey(t) \/ CreateKey(t)
           \/ NewAllocator(t) \/ SeeAllocator(t) \/ PopAllocator(t)
           \/ Exit(t) \/ PushAllocator(t)
           \/ /\ UNCHANGED <<registry, result>>
              /\ pc[t] \in {"runs", "refill"}
              /\ \E there \in {"runs", "refill"} : pc' = [pc EXCEPT ![t] = there]
    PROVE  Registry'
<1> USE DEF At
<1>0. /\ pc \in [Threads -> {"runs", "lock", "new", "pop", "push", "refill"}]
      /\ specific \in [Threads -> {0} \cup Made] /\ result \in [Threads -> Nat]
      /\ 0 \notin Made /\ next \in Seq(Nat)
      /\ \A u \in Threads : Between(u)
  BY LenProperties, SMTT(30) DEF TypesHold, Types, Made
<1>1. ASSUME UNCHANGED <<specific, idle, next, result>>, pc[t] \notin {"pop", "push"},
             \E there \in {"runs", "refill", "lock", "new"} : pc' = [pc EXCEPT ![t] = there]
      PROVE  Registry'
  <2>1. \A u \in Threads : /\ pc'[u] = "push" <=> pc[u] = "push"
                           /\ pc'[u] = "pop" <=> pc[u] = "pop"
    BY <1>0, <1>1
  <2>2. Idle' = Idle
    BY <1>1, <2>1 DEF Idle, Made
  <2> QED
    BY <1>1, <2>1, <2>2 DEF Registry, OwnFreeLists
<1>2. CASE FindKey(t)
  <2>1. \E there \in {"runs", "refill", "lock", "new"} : pc' = [pc EXCEPT ![t] = there]
    BY <1>2 DEF FindKey
  <2> QED
    BY <1>1, <1>2, <2>1 DEF FindKey, locals, registry
<1>3. CASE CreateKey(t)
  BY <1>1, <1>3 DEF CreateKey, locals
<1>4. CASE NewAllocator(t)
  <2>1. /\ pc[t] = "new" /\ pc' = [pc EXCEPT ![t] = "runs"] /\ idle = 0
        /\ next' = Append(next, 0) /\ specific' = [specific EXCEPT ![t] = Len(next')]
        /\ UNCHANGED <<idle, result>>
    BY <1>4 DEF NewAllocator, locals
  <2>2. /\ Made' = Made \cup {Len(next')} /\ Len(next') \notin Made /\ Len(next') # 0
        /\ \A i \in Made : next'[i] = next[i]
    BY <1>0, <2>1, Appended DEF Made
  <2>3. \A u \in Threads : /\ pc'[u] = "push" <=> pc[u] = "push"
                           /\ pc'[u] = "pop" <=> pc[u] = "pop"
    BY <1>0, <2>1
  <2> DEFINE n == Len(next')
  <2>4. specific'[t] = n /\ \A u \in Threads : u # t => specific'[u] = specific[u]
    BY <1>0, <2>1
  <2> HIDE DEF n
  <2>5. Idle' = Idle
    <3>1. ASSUME NEW i \in Idle PROVE i \in Idle'
      <4>1. i \in Made /\ i # n
        BY <2>2 DEF Idle, n
      <4> QED
        BY <2>1, <2>2, <2>3, <2>4, <4>1 DEF Idle
    <3>2. ASSUME NEW i \in Idle' PROVE i \in Idle
      <4>1. i \in Made' /\ i # n /\ i \in Made
        BY <2>2, <2>4 DEF Idle, n
      <4>2. specific[t] # i
        BY <1>0, <2>1, <4>1 DEF Between
      <4> QED
        BY <2>1, <2>3, <2>4, <4>1, <4>2 DEF Idle
    <3> QED
      BY <3>1, <3>2
  <2>6. OwnFreeLists'
    <3>1. \A u \in Threads : specific[u] # n
      BY <1>0, <2>2 DEF n
    <3> QED
      BY <2>2, <2>4, <3>1 DEF Registry, OwnFreeLists, n
  <2>7. \A u \in Threads : pc[u] = "push" => result[u] \in Made /\ n # result[u]
    BY <1>0, <2>2 DEF Between, n
  <2>8. \A u \in Threads :
           /\ pc'[u] = "pop" => result'[u] = idle'
           /\ pc'[u] = "push" =>
                next'[result'[u]] = idle' /\ \A v \in Threads : specific'[v] # result'[u]
    <3>1. ASSUME NEW u \in Threads, pc'[u] = "push"
          PROVE  next'[result'[u]] = idle' /\ \A v \in Threads : specific'[v] # result'[u]
      <4>1. pc[u] = "push" /\ result'[u] = result[u] /\ result[u] \in Made /\ n # result[u]
        BY <2>1, <2>3, <2>7, <3>1
      <4>2. next[result[u]] = idle /\ \A v \in Threads : specific[v] # result[u]
        BY <4>1 DEF Registry
      <4> QED
        BY <2>1, <2>2, <2>4, <4>1, <4>2
    <3> QED
      BY <2>1, <2>3, <3>1 DEF Registry
  <2>9. \A i \in Idle : i \in Made /\ next'[i] = next[i]
    BY <2>2 DEF Idle
  <2>10. /\ idle' \in {0} \cup Idle'
         /\ \A i \in Idle' : next'[i] \in {0} \cup (Idle' \ {idle'})
         /\ \A i, j \in Idle' : next'[i] = next'[j] /\ next'[i] # 0 => i = j
    <3>1. idle' = idle /\ Idle' = Idle /\ \A i \in Idle : next'[i] = next[i]
      BY <2>1, <2>5, <2>9
    <3> QED
      BY <3>1 DEF Registry
  <2>11. \A u, v \in Threads :
            u # v /\ pc'[u] \in {"pop", "push"} => pc'[v] \notin {"pop", "push"}
    BY <2>3 DEF Registry
  <2> QED
    BY <2>6, <2>8, <2>10, <2>11 DEF Registry
<1>5. CASE SeeAllocator(t)
  <2>1. /\ pc[t] = "new" /\ pc' = [pc EXCEPT ![t] = "pop"] /\ idle # 0
        /\ result' = [result EXCEPT ![t] = idle] /\ ~Races(t)
        /\ UNCHANGED <<specific, idle, next>>
    BY <1>5 DEF SeeAllocator
  <2>2. /\ pc'[t] = "pop" /\ result'[t] = idle
        /\ \A u \in Threads : u # t =>
              /\ pc'[u] = pc[u] /\ result'[u] = result[u] /\ pc[u] \notin {"pop", "push"}
    BY <1>0, <2>1 DEF Races
  <2>3. Idle' = Idle
    BY <2>1, <2>2 DEF Idle, Made
  <2> QED
    BY <2>1, <2>2, <2>3 DEF Registry, OwnFreeLists
<1>6. CASE PopAllocator(t)
  <2>1. /\ pc[t] = "pop" /\ pc' = [pc EXCEPT ![t] = "runs"]
        /\ idle' = next[result[t]]
        /\ specific' = [specific EXCEPT ![t] = result[t]]
        /\ UNCHANGED <<next, result>>
    BY <1>6 DEF PopAllocator, locals
  <2>2. /\ result[t] = idle /\ idle \in Made /\ idle \in Idle /\ specific[t] = 0
        /\ idle' = next[idle] /\ next[idle] \in {0} \cup (Idle \ {idle})
    BY <1>0, <2>1 DEF Registry, Between
  <2>3. /\ specific'[t] = idle /\ pc'[t] = "runs"
        /\ \A u \in Threads : u # t =>
              /\ pc'[u] = pc[u] /\ specific'[u] = specific[u] /\ pc[u] \notin {"pop", "push"}
    BY <1>0, <2>1, <2>2 DEF Registry
  <2>4. Idle' = Idle \ {idle}
    <3>1. ASSUME NEW i \in Idle \ {idle} PROVE i \in Idle'
      BY <2>1, <2>3 DEF Idle, Made
    <3>2. ASSUME NEW i \in Idle' PROVE i \in Idle \ {idle}
      <4>1. i \in Made /\ i # idle /\ i # specific[t]
        BY <1>0, <2>1, <2>2, <2>3 DEF Idle, Made
      <4>2. \A u \in Threads : specific[u] # i /\ (pc[u] = "push" => result[u] # i)
        BY <2>1, <2>3, <4>1 DEF Idle
      <4> QED
        BY <4>1, <4>2 DEF Idle
    <3> QED
      BY <3>1, <3>2
  <2>5. OwnFreeLists'
    <3>1. \A u \in Threads : specific[u] # idle
      BY <2>2 DEF Idle
    <3> QED
      BY <2>3, <3>1 DEF Registry, OwnFreeLists
  <2>6. /\ idle' \in {0} \cup Idle'
        /\ \A i \in Idle' : next'[i] \in {0} \cup (Idle' \ {idle'})
        /\ \A i, j \in Idle' : next'[i] = next'[j] /\ next'[i] # 0 => i = j
    <3>1. \A i \in Idle : next[i] \in {0} \cup (Idle \ {idle})
      BY DEF Registry
    <3>2. \A i, j \in Idle : next[i] = next[j] /\ next[i] # 0 => i = j
      BY DEF Registry
    <3>3. ASSUME NEW i \in Idle' PROVE next'[i] \in {0} \cup (Idle' \ {idle'})
      <4>1. i \in Idle /\ i # idle /\ next'[i] = next[i]
        BY <2>1, <2>4
      <4>2. next[i] # 0 => next[i] # next[idle]
        BY <2>2, <3>2, <4>1
      <4> QED
        BY <2>2, <2>4, <3>1, <4>1, <4>2
    <3> QED
      BY <2>1, <2>2, <2>4, <3>2, <3>3
  <2> QED
    BY <2>3, <2>5, <2>6 DEF Registry
<1>7. CASE Exit(t)
  <2>1. /\ pc[t] = "runs" /\ pc' = [pc EXCEPT ![t] = "push"] /\ specific[t] # 0
        /\ next' = [next EXCEPT ![specific[t]] = idle]
        /\ result' = [result EXCEPT ![t] = specific[t]]
        /\ specific' = [specific EXCEPT ![t] = 0] /\ ~Races(t)
        /\ UNCHANGED idle
    BY <1>7 DEF Exit
  <2> DEFINE n == specific[t]
  <2>2. n \in Made /\ n # 0 /\ \A u \in Threads : u # t => specific[u] # n
    BY <1>0, <2>1 DEF Registry, OwnFreeLists
  <2>3. /\ specific'[t] = 0 /\ pc'[t] = "push" /\ result'[t] = n
        /\ \A u \in Threads : u # t =>
              /\ pc'[u] = pc[u] /\ specific'[u] = specific[u] /\ result'[u] = result[u]
              /\ pc[u] \notin {"pop", "push"}
    BY <1>0, <2>1 DEF Races
  <2>4. Made' = Made /\ next'[n] = idle /\ \A i \in Made : i # n => next'[i] = next[i]
    BY <2>1, <2>2 DEF Made
  <2>5. n \notin Idle
    BY DEF Idle
  <2> HIDE DEF n
  <2>6. Idle' = Idle
    <3>1. ASSUME NEW i \in Idle PROVE i \in Idle'
      <4>1. i \in Made /\ i # n /\ i # 0
        BY <1>0, <2>5 DEF Idle
      <4> QED
        BY <2>3, <2>4, <4>1 DEF Idle
    <3>2. ASSUME NEW i \in Idle' PROVE i \in Idle
      <4>1. i \in Made /\ i # n
        BY <2>3, <2>4 DEF Idle
      <4>2. \A u \in Threads : specific[u] # i /\ (pc[u] = "push" => result[u] # i)
        BY <2>1, <2>3, <4>1 DEF Idle, n
      <4> QED
        BY <4>1, <4>2 DEF Idle
    <3> QED
      BY <3>1, <3>2
  <2>7. OwnFreeLists'
    BY <2>3 DEF Registry, OwnFreeLists
  <2>8. /\ idle' \in {0} \cup Idle'
        /\ \A i \in Idle' : next'[i] \in {0} \cup (Idle' \ {idle'})
        /\ \A i, j \in Idle' : next'[i] = next'[j] /\ next'[i] # 0 => i = j
    <3>1. \A i \in Idle : next'[i] = next[i]
      BY <2>4, <2>5 DEF Idle
    <3> QED
      BY <2>1, <2>6, <3>1 DEF Registry
  <2>9. \A u \in Threads : specific'[u] # n
    BY <2>2, <2>3
  <2>10. \A u \in Threads :
           /\ pc'[u] = "pop" => result'[u] = idle'
           /\ pc'[u] = "push" =>
                next'[result'[u]] = idle' /\ \A v \in Threads : specific'[v] # result'[u]
    BY <2>1, <2>3, <2>4, <2>9
  <2>11. \A u, v \in Threads :
            u # v /\ pc'[u] \in {"pop", "push"} => pc'[v] \notin {"pop", "push"}
    BY <2>3
  <2> QED
    BY <2>7, <2>8, <2>10, <2>11 DEF Registry
<1>8. CASE PushAllocator(t)
  <2>1. /\ pc[t] = "push" /\ pc' = [pc EXCEPT ![t] = "runs"] /\ idle' = result[t]
        /\ UNCHANGED <<result, specific, next>>
    BY <1>8 DEF PushAllocator, locals
  <2> DEFINE n == result[t]
  <2>2. n \in Made /\ next[n] = idle /\ \A u \in Threads : specific[u] # n
    BY <1>0, <2>1 DEF Registry, Between
  <2>3. pc'[t] = "runs" /\ \A u \in Threads : u # t =>
              pc'[u] = pc[u] /\ pc[u] \notin {"pop", "push"}
    BY <1>0, <2>1 DEF Registry
  <2>4. n \notin Idle
    BY <2>1 DEF Idle
  <2>5. Idle' = Idle \cup {n}
    <3> HIDE DEF n
    <3>1. ASSUME NEW i \in Idle PROVE i \in Idle'
      BY <2>1, <2>3 DEF Idle, Made
    <3>2. n \in Idle'
      BY <2>1, <2>2, <2>3 DEF Idle, Made
    <3>3. ASSUME NEW i \in Idle', i # n PROVE i \in Idle
      <4>1. i \in Made /\ \A u \in Threads : specific[u] # i /\ (pc[u] = "push" => result[u] # i)
        BY <2>1, <2>3, <3>3 DEF Idle, Made, n
      <4> QED
        BY <4>1 DEF Idle
    <3> QED
      BY <3>1, <3>2, <3>3
  <2> HIDE DEF n
  <2>6. /\ idle' \in {0} \cup Idle'
        /\ \A i \in Idle' : next'[i] \in {0} \cup (Idle' \ {idle'})
        /\ \A i, j \in Idle' : next'[i] = next'[j] /\ next'[i] # 0 => i = j
    <3>1. idle' = n /\ next' = next /\ idle \in {0} \cup Idle
      BY <2>1 DEF n, Registry
    <3>2. \A i \in Idle : next[i] \in {0} \cup (Idle \ {idle})
      BY DEF Registry
    <3>3. \A i, j \in Idle : next[i] = next[j] /\ next[i] # 0 => i = j
      BY DEF Registry
    <3>4. \A i \in Idle' : next'[i] \in {0} \cup (Idle' \ {idle'})
      BY <2>2, <2>4, <2>5, <3>1, <3>2
    <3>5. ASSUME NEW i \in Idle', NEW j \in Idle', next[i] = next[j], next[i] # 0
          PROVE  i = j
      <4>1. CASE i = n \/ j = n
        BY <2>2, <2>5, <3>2, <3>5, <4>1
      <4>2. CASE i # n /\ j # n
        BY <2>5, <3>3, <3>5, <4>2
      <4> QED
        BY <4>1, <4>2
    <3> QED
      BY <2>5, <3>1, <3>4, <3>5
  <2> QED
    BY <2>1, <2>3, <2>6 DEF Registry, OwnFreeLists
<1>9. CASE /\ UNCHANGED <<registry, result>>
           /\ pc[t] \in {"runs", "refill"}
           /\ \E there \in {"runs", "refill"} : pc' = [pc EXCEPT ![t] = there]
  BY <1>1, <1>9 DEF registry
<1> QED
  BY <1>2, <1>3, <1>4, <1>5, <1>6, <1>7, <1>8, <1>9

-----------------------------------------------------------------------------
(* The memory.                                                             *)

\* A thread changes the lists of its instance only.
LEMMA OnlyMine ==
    ASSUME TypesHold, NEW t \in Threads, specific[t] # 0,
           \/ lists' = lists
           \/ \E size \in 1 .. Classes, list \in Seq(Nat) : lists' = WithList(t, size, list)
    PROVE  \A i \in Made : i # specific[t] => lists'[i] = lists[i]
<1>1. CASE lists' = lists
  BY <1>1
<1>2. ASSUME NEW size \in 1 .. Classes, NEW list \in Seq(Nat),
             lists' = WithList(t, size, list)
      PROVE  \A i \in Made : i # specific[t] => lists'[i] = lists[i]
  <2> DEFINE i == specific[t]
             f == [lists[i] EXCEPT ![size] = list]
  <2>1. lists' = [lists EXCEPT ![i] = f] /\ DOMAIN lists = Made /\ i \in Made
    BY <1>2, MyLists
  <2> HIDE DEF f, i
  <2>2. \A j \in Made : j # i => lists'[j] = lists[j]
    BY <2>1
  <2> QED
    BY <2>2 DEF i
<1> QED
  BY <1>1, <1>2

LEMMA LeftOverIs ==
    ASSUME TypesHold, NEW t \in Threads, pc[t] = "refill", PoolLeft < asked[t]
    PROVE  \/ PoolLeft = 0 /\ LeftOver(t) = lists
           \/ /\ PoolLeft \in 1 .. Classes
              /\ LeftOver(t) = WithList(t, PoolLeft, <<pool.start>> \o MyList(t, PoolLeft))
              /\ <<pool.start>> \o MyList(t, PoolLeft) \in Seq(Nat)
<1>1. CASE PoolLeft = 0
  BY <1>1 DEF LeftOver
<1>2. CASE PoolLeft # 0
  <2>1. PoolLeft \in 1 .. Classes
    BY <1>2, LeftOverTypes
  <2> DEFINE k == PoolLeft
  <2>2. k \in 1 .. Classes /\ specific[t] # 0 /\ pool.start \in Nat /\ << >> \in Seq(Nat)
    BY <2>1 DEF TypesHold, Between, Types, PoolType
  <2> HIDE DEF k
  <2>3. MyList(t, k) \in Seq(Nat)
    BY <2>2, MyLists
  <2>4. <<pool.start>> \o MyList(t, k) \in Seq(Nat)
    BY <2>2, <2>3, ConcatProperties
  <2> QED
    BY <1>2, <2>1, <2>4 DEF LeftOver, k
<1> QED
  BY <1>1, <1>2

MemoryActs(t) ==
    \/ \E size \in 1 .. Classes : AllocateIn(t, size)
    \/ \E b \in held : DeallocateIn(t, b)
    \/ RefillIn(t) \/ FillPool(t) \/ ThrowIn(t)

\* What the steps that use memory have in common.
LEMMA MemoryStep ==
    ASSUME TypesHold, NEW t \in Threads, MemoryActs(t)
    PROVE  /\ UNCHANGED <<registry, result>> /\ specific[t] # 0
           /\ pc[t] \in {"runs", "refill"}
           /\ \E there \in {"runs", "refill"} : pc' = [pc EXCEPT ![t] = there]
           /\ \/ lists' = lists
              \/ \E size \in 1 .. Classes, list \in Seq(Nat) : lists' = WithList(t, size, list)
           /\ \A u \in Threads : u # t => asked'[u] = asked[u]
<1> USE DEF At
<1>0. /\ asked \in [Threads -> Nat] /\ held \subseteq Nat \X (1 .. Classes)
      /\ pool.start \in Nat /\ Between(t) /\ << >> \in Seq(Nat)
  BY DEF TypesHold, Types, PoolType
<1>1. ASSUME NEW size \in 1 .. Classes, specific[t] # 0 PROVE MyList(t, size) \in Seq(Nat)
  BY <1>0, <1>1, MyLists
<1>2. ASSUME NEW size \in 1 .. Classes, AllocateIn(t, size)
      PROVE  /\ UNCHANGED <<registry, result>> /\ specific[t] # 0
             /\ pc[t] \in {"runs", "refill"}
             /\ \E there \in {"runs", "refill"} : pc' = [pc EXCEPT ![t] = there]
             /\ \/ lists' = lists
                \/ \E sz \in 1 .. Classes, list \in Seq(Nat) : lists' = WithList(t, sz, list)
             /\ \A u \in Threads : u # t => asked'[u] = asked[u]
  <2>1. specific[t] # 0 /\ UNCHANGED <<registry, result>>
    BY <1>2 DEF AllocateIn
  <2>2. CASE /\ MyList(t, size) # << >> /\ At(t, "runs", "runs")
             /\ lists' = WithList(t, size, Tail(MyList(t, size)))
             /\ UNCHANGED asked
    <3>1. Tail(MyList(t, size)) \in Seq(Nat)
      BY <1>1, <2>1, <2>2, HeadTailProperties
    <3> QED
      BY <2>1, <2>2, <3>1
  <2>3. CASE /\ At(t, "runs", "refill") /\ asked' = [asked EXCEPT ![t] = size]
             /\ UNCHANGED lists
    BY <1>0, <2>1, <2>3
  <2> QED
    BY <1>2, <2>2, <2>3 DEF AllocateIn
<1>3. ASSUME NEW b \in held, DeallocateIn(t, b)
      PROVE  /\ UNCHANGED <<registry, result>> /\ specific[t] # 0
             /\ pc[t] \in {"runs", "refill"}
             /\ \E there \in {"runs", "refill"} : pc' = [pc EXCEPT ![t] = there]
             /\ \E size \in 1 .. Classes, list \in Seq(Nat) : lists' = WithList(t, size, list)
             /\ \A u \in Threads : u # t => asked'[u] = asked[u]
  <2>1. b[1] \in Nat /\ b[2] \in 1 .. Classes /\ specific[t] # 0
    BY <1>0, <1>3 DEF DeallocateIn
  <2> DEFINE list == <<b[1]>> \o MyList(t, b[2])
  <2>2. list \in Seq(Nat)
    BY <1>1, <2>1, ConcatProperties
  <2>3. lists' = WithList(t, b[2], list)
    BY <1>3 DEF DeallocateIn
  <2> HIDE DEF list
  <2> QED
    BY <1>3, <2>1, <2>2, <2>3 DEF DeallocateIn, locals
<1>4. CASE RefillIn(t)
  <2> DEFINE size == asked[t]
             objs == Min({NObjs, PoolLeft \div size})
             list == Linked(pool.start, objs, size)
  <2>1. /\ pc[t] = "refill" /\ pc' = [pc EXCEPT ![t] = "runs"] /\ objs > 0
        /\ lists' = IF objs = 1 THEN lists ELSE WithList(t, size, list)
        /\ UNCHANGED <<registry, asked, result>>
    BY <1>4 DEF RefillIn, locals
  <2>2. size \in 1 .. Classes /\ specific[t] # 0
    BY <1>0, <2>1 DEF Between
  <2>3. objs \in Nat \ {0} /\ size \in Nat \ {0}
    BY <2>1, <2>2, RefillObjs DEF TypesHold
  <2> HIDE DEF objs
  <2>4. list \in Seq(Nat)
    BY <1>0, <2>3, LinkedBlocks
  <2> HIDE DEF list
  <2> QED
    BY <2>1, <2>2, <2>4
<1>5. CASE FillPool(t)
  <2>1. /\ pc[t] = "refill" /\ PoolLeft < asked[t] /\ lists' = LeftOver(t)
        /\ pc' = [pc EXCEPT ![t] = "refill"] /\ UNCHANGED <<registry, asked, result>>
    BY <1>5 DEF FillPool, locals
  <2>2. specific[t] # 0
    BY <1>0, <2>1 DEF Between
  <2> QED
    BY <2>1, <2>2, LeftOverIs
<1>6. CASE ThrowIn(t)
  <2>1. /\ pc[t] = "refill" /\ PoolLeft < asked[t] /\ lists' = LeftOver(t)
        /\ pc' = [pc EXCEPT ![t] = "runs"] /\ UNCHANGED <<registry, asked, result>>
    BY <1>6 DEF ThrowIn, locals
  <2>2. specific[t] # 0
    BY <1>0, <2>1 DEF Between
  <2> QED
    BY <2>1, <2>2, LeftOverIs
<1> QED
  BY <1>2, <1>3, <1>4, <1>5, <1>6 DEF MemoryActs

LEMMA RefillingNext ==
    ASSUME TypesHold, Registry, Refilling, NEW t \in Threads,
           \/ FindKey(t) \/ CreateKey(t)
           \/ NewAllocator(t) \/ SeeAllocator(t) \/ PopAllocator(t)
           \/ Exit(t) \/ PushAllocator(t)
           \/ MemoryActs(t)
    PROVE  Refilling'
<1> USE DEF At
<1>0. /\ pc \in [Threads -> {"runs", "lock", "new", "pop", "push", "refill"}]
      /\ specific \in [Threads -> {0} \cup Made] /\ DOMAIN lists = Made
      /\ lists \in Seq(FreeType) /\ next \in Seq(Nat) /\ asked \in [Threads -> Nat]
      /\ \A u \in Threads : Between(u)
  BY LenProperties DEF TypesHold, Types, Made, FreeTypes
<1>1. ASSUME NEW u \in Threads, u # t, pc'[u] = "refill", pc' = [pc EXCEPT ![t] = pc'[t]],
             specific'[u] = specific[u], asked'[u] = asked[u],
             \A i \in Made : i # specific[t] => lists'[i] = lists[i]
      PROVE  MyList(u, asked[u])' = << >>
  <2>1. pc[u] = "refill" /\ specific[u] # 0 /\ specific[u] \in Made
    BY <1>0, <1>1 DEF Between
  <2>2. specific[u] # specific[t] /\ MyList(u, asked[u]) = << >>
    BY <1>1, <2>1 DEF Registry, OwnFreeLists, Refilling
  <2> QED
    BY <1>1, <2>1, <2>2 DEF MyList
<1>2. ASSUME UNCHANGED <<lists, asked>>, pc'[t] # "refill",
             pc' = [pc EXCEPT ![t] = pc'[t]],
             \A u \in Threads : u # t => specific'[u] = specific[u]
      PROVE  Refilling'
  BY <1>1, <1>2 DEF Refilling
<1>3. CASE FindKey(t)
  BY <1>0, <1>2, <1>3 DEF FindKey, locals, registry
<1>4. CASE CreateKey(t)
  BY <1>0, <1>2, <1>4 DEF CreateKey, locals
<1>5. CASE NewAllocator(t)
  <2>1. /\ lists' = Append(lists, EmptyLists) /\ UNCHANGED asked
        /\ pc' = [pc EXCEPT ![t] = "runs"]
        /\ \A u \in Threads : u # t => specific'[u] = specific[u]
    BY <1>0, <1>5 DEF NewAllocator, locals
  <2>2. EmptyLists \in FreeType
    BY DEF EmptyLists, FreeType
  <2>3. \A i \in Made : lists'[i] = lists[i]
    BY <1>0, <2>1, <2>2, Appended
  <2>4. pc'[t] # "refill" /\ pc' = [pc EXCEPT ![t] = pc'[t]]
    BY <1>0, <2>1
  <2> QED
    BY <1>1, <2>1, <2>3, <2>4 DEF Refilling
<1>6. CASE SeeAllocator(t)
  BY <1>0, <1>2, <1>6 DEF SeeAllocator, memory
<1>7. CASE PopAllocator(t)
  BY <1>0, <1>2, <1>7 DEF PopAllocator, locals, memory
<1>8. CASE Exit(t)
  BY <1>0, <1>2, <1>8 DEF Exit, memory
<1>9. CASE PushAllocator(t)
  BY <1>0, <1>2, <1>9 DEF PushAllocator, locals, memory
<1>10. CASE MemoryActs(t)
  <2>1. /\ UNCHANGED <<registry, result>> /\ specific[t] # 0
        /\ \E there \in {"runs", "refill"} : pc' = [pc EXCEPT ![t] = there]
        /\ \/ lists' = lists
           \/ \E size \in 1 .. Classes, list \in Seq(Nat) : lists' = WithList(t, size, list)
        /\ \A u \in Threads : u # t => asked'[u] = asked[u]
    BY <1>10, MemoryStep
  <2>2. \A i \in Made : i # specific[t] => lists'[i] = lists[i]
    BY <2>1, OnlyMine
  <2>3. pc' = [pc EXCEPT ![t] = pc'[t]] /\ specific' = specific
    BY <1>0, <2>1 DEF registry
  <2>4. \A u \in Threads : u # t /\ pc'[u] = "refill" => MyList(u, asked[u])' = << >>
    BY <1>1, <2>1, <2>2, <2>3
  <2>5. pc'[t] = "refill" => MyList(t, asked[t])' = << >>
    <3> SUFFICES ASSUME pc'[t] = "refill" PROVE MyList(t, asked[t])' = << >>
      OBVIOUS
    <3>1. ASSUME NEW size \in 1 .. Classes, AllocateIn(t, size)
          PROVE  MyList(t, asked[t])' = << >>
      <4>1. ~At(t, "runs", "runs")
        BY <1>0
      <4>2. /\ MyList(t, size) = << >> /\ asked' = [asked EXCEPT ![t] = size]
            /\ UNCHANGED lists
        BY <3>1, <4>1 DEF AllocateIn
      <4>3. asked'[t] = size
        BY <1>0, <4>2
      <4> QED
        BY <2>3, <4>2, <4>3 DEF MyList
    <3>2. CASE FillPool(t)
      <4>1. /\ pc[t] = "refill" /\ PoolLeft < asked[t] /\ lists' = LeftOver(t)
            /\ asked' = asked
        BY <3>2 DEF FillPool, locals
      <4>2. MyList(t, asked[t]) = << >> /\ asked[t] \in 1 .. Classes
        BY <1>0, <4>1 DEF Refilling, Between
      <4>3. CASE PoolLeft = 0
        BY <2>3, <4>1, <4>2, <4>3 DEF LeftOver, MyList
      <4>4. CASE PoolLeft # 0
        <5> DEFINE k == PoolLeft
                   list == <<pool.start>> \o MyList(t, k)
                   i == specific[t]
                   f == [lists[i] EXCEPT ![k] = list]
        <5>1. k \in 1 .. Classes /\ list \in Seq(Nat) /\ lists' = WithList(t, k, list)
          BY <4>1, <4>4, LeftOverIs
        <5> HIDE DEF k, list
        <5>2. lists' = [lists EXCEPT ![i] = f] /\ DOMAIN lists = Made /\ i \in Made
          BY <2>1, <5>1, MyLists
        <5>3. asked[t] # k
          BY <4>1, <4>2 DEF k
        <5>4. lists'[i] = f
          BY <5>2
        <5>5. lists'[i][asked[t]] = lists[i][asked[t]]
          BY <5>3, <5>4
        <5> QED
          BY <2>3, <4>1, <4>2, <5>5 DEF MyList
      <4> QED
        BY <4>3, <4>4
    <3>3. ~RefillIn(t) /\ ~ThrowIn(t) /\ \A b \in held : ~DeallocateIn(t, b)
      BY <1>0 DEF RefillIn, ThrowIn, DeallocateIn
    <3> QED
      BY <1>10, <3>1, <3>2, <3>3 DEF MemoryActs
  <2> QED
    BY <2>4, <2>5 DEF Refilling
<1> QED
  BY <1>3, <1>4, <1>5, <1>6, <1>7, <1>8, <1>9, <1>10

\* The blocks on lists of other instances than i.
Theirs(i) == UNION {BlocksOf(lists[j]) : j \in Made \ {i}}

LEMMA MineAndTheirs ==
    ASSUME MemoryOwned, NEW i \in Made
    PROVE  /\ ListedBlocks = Theirs(i) \cup BlocksOf(lists[i])
           /\ Theirs(i) \cap BlocksOf(lists[i]) = {}
<1>1. ListedBlocks = Theirs(i) \cup BlocksOf(lists[i])
  BY DEF ListedBlocks, Theirs
<1>2. Theirs(i) \cap BlocksOf(lists[i]) = {}
  BY DEF MemoryOwned, Theirs
<1> QED
  BY <1>1, <1>2

\* The lists of one instance become f.
LEMMA NewLists ==
    ASSUME TypesHold, MemoryOwned, NEW i \in Made, NEW f, ListedOnce(f),
           UNCHANGED next, lists' = [lists EXCEPT ![i] = f],
           Theirs(i) \cap BlocksOf(f) = {},
           (Theirs(i) \cup BlocksOf(f)) \cap held' = {},
           SharedOut(Theirs(i) \cup BlocksOf(f) \cup held', pool'.start .. pool'.end - 1,
                     pool'.arena, {}, PoolUnits)
    PROVE  MemoryOwned'
<1>1. DOMAIN lists = Made /\ Made' = Made
  BY LenProperties DEF TypesHold, Types, FreeTypes, Made
<1>2. lists'[i] = f /\ \A j \in Made : j # i => lists'[j] = lists[j]
  BY <1>1
<1>3. ListedBlocks' = Theirs(i) \cup BlocksOf(f)
  <2>1. ASSUME NEW b \in ListedBlocks' PROVE b \in Theirs(i) \cup BlocksOf(f)
    <3>1. PICK j \in Made : b \in BlocksOf(lists'[j])
      BY <1>1 DEF ListedBlocks
    <3> QED
      BY <1>2, <3>1 DEF Theirs
  <2>2. ASSUME NEW b \in Theirs(i) \cup BlocksOf(f) PROVE b \in ListedBlocks'
    <3>1. CASE b \in BlocksOf(f)
      BY <1>1, <1>2, <3>1 DEF ListedBlocks
    <3>2. CASE b \in Theirs(i)
      <4>1. PICK j \in Made : j # i /\ b \in BlocksOf(lists[j])
        BY <3>2 DEF Theirs
      <4> QED
        BY <1>1, <1>2, <4>1 DEF ListedBlocks
    <3> QED
      BY <3>1, <3>2
  <2> QED
    BY <2>1, <2>2
<1>4. \A j \in Made' : ListedOnce(lists'[j])
  BY <1>1, <1>2 DEF MemoryOwned
<1>5. ASSUME NEW j \in Made', NEW k \in Made', j # k
      PROVE  BlocksOf(lists'[j]) \cap BlocksOf(lists'[k]) = {}
  <2>1. \A x \in Made : x # i => BlocksOf(lists[x]) \cap BlocksOf(f) = {}
    BY DEF Theirs
  <2>2. \A x, y \in Made : x # y => BlocksOf(lists[x]) \cap BlocksOf(lists[y]) = {}
    BY DEF MemoryOwned
  <2>3. CASE j = i
    BY <1>1, <1>2, <1>5, <2>1, <2>3
  <2>4. CASE k = i
    BY <1>1, <1>2, <1>5, <2>1, <2>4
  <2>5. CASE j # i /\ k # i
    BY <1>1, <1>2, <1>5, <2>2, <2>5
  <2> QED
    BY <2>3, <2>4, <2>5
<1> QED
  BY <1>3, <1>4, <1>5 DEF MemoryOwned

\* An instance that is new has nothing on its lists.
LEMMA MemoryNewAllocator ==
    ASSUME TypesHold, MemoryOwned, NEW t \in Threads, NewAllocator(t)
    PROVE  MemoryOwned'
<1>1. /\ next' = Append(next, 0) /\ lists' = Append(lists, EmptyLists)
      /\ UNCHANGED <<pool, held>>
  BY DEF NewAllocator, memory
<1>2. /\ lists \in Seq(FreeType) /\ next \in Seq(Nat) /\ Len(lists) = Len(next)
      /\ DOMAIN lists = Made
  BY LenProperties DEF TypesHold, Types, FreeTypes, Made
<1>3. EmptyLists \in FreeType /\ BlocksOf(EmptyLists) = {} /\ ListedOnce(EmptyLists)
  BY DEF EmptyLists, FreeType, BlocksOf, ToSet, ListedOnce, IsInjective
<1> DEFINE n == Len(lists) + 1
<1>4. /\ Made' = Made \cup {n} /\ n \notin Made
      /\ lists'[n] = EmptyLists /\ \A i \in Made : lists'[i] = lists[i]
  <2>1. DOMAIN Append(next, 0) = DOMAIN next \cup {Len(next) + 1}
    BY <1>2, Appended
  <2> QED
    BY <1>1, <1>2, <1>3, <2>1, Appended DEF Made
<1> HIDE DEF n
<1>5. ListedBlocks' = ListedBlocks
  <2>1. ASSUME NEW b \in ListedBlocks' PROVE b \in ListedBlocks
    <3>1. PICK j \in Made' : b \in BlocksOf(lists'[j])
      BY DEF ListedBlocks
    <3> QED
      BY <1>3, <1>4, <3>1 DEF ListedBlocks
  <2>2. ASSUME NEW b \in ListedBlocks PROVE b \in ListedBlocks'
    <3>1. PICK j \in Made : b \in BlocksOf(lists[j])
      BY DEF ListedBlocks
    <3> QED
      BY <1>4, <3>1 DEF ListedBlocks
  <2> QED
    BY <2>1, <2>2
<1>6. \A j \in Made' : ListedOnce(lists'[j])
  BY <1>3, <1>4 DEF MemoryOwned
<1>7. \A j, k \in Made' : j # k => BlocksOf(lists'[j]) \cap BlocksOf(lists'[k]) = {}
  BY <1>3, <1>4 DEF MemoryOwned
<1> QED
  BY <1>1, <1>5, <1>6, <1>7 DEF MemoryOwned

\* allocate() takes a block off a list.
LEMMA MemoryAllocate ==
    ASSUME TypesHold, MemoryOwned, NEW t \in Threads, NEW size \in 1 .. Classes,
           AllocateIn(t, size)
    PROVE  MemoryOwned'
<1>1. CASE /\ MyList(t, size) # << >>
           /\ lists' = WithList(t, size, Tail(MyList(t, size)))
           /\ held' = held \cup {<<Head(MyList(t, size)), size>>}
           /\ UNCHANGED pool
  <2> DEFINE i == specific[t]
             free == lists[i]
             f == [free EXCEPT ![size] = Tail(@)]
             b == <<Head(free[size]), size>>
  <2>1. specific[t] # 0 /\ UNCHANGED next /\ << >> \in Seq(Nat)
    BY DEF AllocateIn, registry
  <2>2. i \in Made /\ free \in FreeType /\ MyList(t, size) = free[size]
        /\ MyList(t, size) \in Seq(Nat)
    BY <2>1, MyLists
  <2>3. Tail(MyList(t, size)) \in Seq(Nat)
    BY <1>1, <2>2, HeadTailProperties
  <2>4. lists' = [lists EXCEPT ![i] = [lists[i] EXCEPT ![size] = Tail(MyList(t, size))]]
    <3> DEFINE list == Tail(MyList(t, size))
    <3>1. list \in Seq(Nat) /\ lists' = WithList(t, size, list)
      BY <1>1, <2>3
    <3> HIDE DEF list
    <3>2. lists' = [lists EXCEPT ![i] = [lists[i] EXCEPT ![size] = list]]
      BY <2>1, <3>1, MyLists
    <3> QED
      BY <3>2 DEF list
  <2>5. lists' = [lists EXCEPT ![i] = f] /\ held' = held \cup {b} /\ free[size] # << >>
    BY <1>1, <2>2, <2>4
  <2>6. ListedOnce(free)
    BY <2>2 DEF MemoryOwned
  <2> HIDE DEF free
  <2>7. /\ f \in FreeType /\ ListedOnce(f) /\ b \in Block
        /\ BlocksOf(free) = BlocksOf(f) \cup {b} /\ b \notin BlocksOf(f)
    BY <2>2, <2>5, <2>6, PopList
  <2> HIDE DEF f, b, i
  <2>8. ListedBlocks = Theirs(i) \cup BlocksOf(free) /\ Theirs(i) \cap BlocksOf(free) = {}
    BY <2>2, MineAndTheirs DEF free
  <2>9. Theirs(i) \cup BlocksOf(f) \cup held' = ListedBlocks \cup held
    BY <2>5, <2>7, <2>8
  <2>10. /\ Theirs(i) \cap BlocksOf(f) = {}
         /\ (Theirs(i) \cup BlocksOf(f)) \cap held' = {}
    BY <2>5, <2>7, <2>8 DEF MemoryOwned
  <2>11. SharedOut(Theirs(i) \cup BlocksOf(f) \cup held', pool'.start .. pool'.end - 1,
                   pool'.arena, {}, PoolUnits)
    BY <1>1, <2>9 DEF MemoryOwned
  <2> QED
    BY <2>1, <2>2, <2>5, <2>7, <2>10, <2>11, NewLists
<1>2. CASE UNCHANGED <<lists, held, pool>>
  BY <1>2 DEF AllocateIn, registry, MemoryOwned, ListedBlocks, Made
<1> QED
  BY <1>1, <1>2 DEF AllocateIn

\* deallocate() puts one on a list, whoever allocated it.
LEMMA MemoryDeallocate ==
    ASSUME TypesHold, MemoryOwned, NEW t \in Threads, NEW b \in held, DeallocateIn(t, b)
    PROVE  MemoryOwned'
<1> DEFINE i == specific[t]
           free == lists[i]
           size == b[2]
           list == <<b[1]>> \o MyList(t, size)
           f == [free EXCEPT ![size] = <<b[1]>> \o @]
<1>1. /\ specific[t] # 0 /\ lists' = WithList(t, size, list) /\ held' = held \ {b}
      /\ UNCHANGED <<next, pool>> /\ << >> \in Seq(Nat)
      /\ b[1] \in Nat /\ size \in 1 .. Classes /\ b = <<b[1], size>>
  BY DEF DeallocateIn, registry, TypesHold, Types
<1>2. i \in Made /\ free \in FreeType /\ MyList(t, size) = free[size]
      /\ MyList(t, size) \in Seq(Nat)
  BY <1>1, MyLists
<1>3. list \in Seq(Nat)
  BY <1>1, <1>2, ConcatProperties
<1>4. lists' = [lists EXCEPT ![i] = f]
  <2>1. lists' = [lists EXCEPT ![i] = [lists[i] EXCEPT ![size] = list]]
    <3> HIDE DEF list, size
    <3> QED
      BY <1>1, <1>3, MyLists
  <2> QED
    BY <1>2, <2>1
<1>5. ListedOnce(free)
  BY <1>2 DEF MemoryOwned
<1>6. ListedBlocks = Theirs(i) \cup BlocksOf(free) /\ Theirs(i) \cap BlocksOf(free) = {}
  BY <1>2, MineAndTheirs
<1>7. b \notin ListedBlocks /\ ListedBlocks \cap held = {}
  BY DEF MemoryOwned
<1> HIDE DEF free, i
<1>8. /\ f \in FreeType /\ ListedOnce(f)
      /\ BlocksOf(f) = BlocksOf(free) \cup {<<b[1], size>>}
  <2>1. <<b[1], size>> \notin BlocksOf(free)
    BY <1>1, <1>6, <1>7
  <2> HIDE DEF size
  <2> QED
    BY <1>1, <1>2, <1>5, <2>1, PushList
<1> HIDE DEF f, size
<1>9. BlocksOf(f) = BlocksOf(free) \cup {b}
  BY <1>1, <1>8
<1>10. Theirs(i) \cup BlocksOf(f) \cup held' = ListedBlocks \cup held
  BY <1>1, <1>6, <1>9
<1>11. /\ Theirs(i) \cap BlocksOf(f) = {}
       /\ (Theirs(i) \cup BlocksOf(f)) \cap held' = {}
  BY <1>1, <1>6, <1>7, <1>9
<1>12. SharedOut(Theirs(i) \cup BlocksOf(f) \cup held', pool'.start .. pool'.end - 1,
                 pool'.arena, {}, PoolUnits)
  BY <1>1, <1>10 DEF MemoryOwned
<1> QED
  BY <1>1, <1>2, <1>4, <1>8, <1>11, <1>12, NewLists

\* refill() carves a chunk and links what it does not give out.
LEMMA MemoryRefill ==
    ASSUME TypesHold, Refilling, MemoryOwned, NEW t \in Threads, RefillIn(t)
    PROVE  MemoryOwned'
<1> DEFINE i == specific[t]
           free == lists[i]
           size == asked[t]
           objs == Min({NObjs, PoolLeft \div size})
           list == Linked(pool.start, objs, size)
           b == <<pool.start, size>>
           run == ChunkOf(pool.start, objs, size)
           n == size * objs
           old == {<<a, size>> : a \in ToSet(free[size])}
           f == IF objs = 1 THEN free ELSE [free EXCEPT ![size] = list]
<1>1. /\ pc[t] = "refill" /\ objs > 0 /\ pool' = [pool EXCEPT !.start = @ + n]
      /\ held' = held \cup {b} /\ UNCHANGED next
      /\ lists' = IF objs = 1 THEN lists ELSE WithList(t, size, list)
  BY DEF RefillIn, At, registry
<1>2. /\ size \in 1 .. Classes /\ specific[t] # 0 /\ pool \in PoolType /\ pool.start <= pool.end
      /\ pool.start \in Nat /\ pool.end \in Nat /\ MyList(t, size) = << >>
      /\ << >> \in Seq(Nat)
  BY <1>1 DEF TypesHold, Types, Between, PoolType, Refilling
<1>3. /\ objs \in Nat \ {0} /\ size \in Nat \ {0}
      /\ n \in Nat /\ n <= PoolLeft /\ PoolLeft \in Nat
  BY <1>1, <1>2, RefillObjs DEF TypesHold
<1>4. i \in Made /\ free \in FreeType /\ free[size] = << >> /\ DOMAIN lists = Made
  BY <1>2, MyLists
<1> HIDE DEF objs, i
<1>5. list \in Seq(Nat) /\ IsInjective(list)
      /\ {<<list[k], size>> : k \in 1 .. Len(list)} = run \ {b}
  BY <1>2, <1>3, LinkedBlocks
<1>6. /\ run \subseteq Block /\ b \in run /\ Apart(run)
      /\ UnitsOfAll(run) = pool.start .. pool.start + n - 1
  BY <1>2, <1>3, ChunkBlocks
<1>7. objs = 1 => run = {b}
  <2> SUFFICES ASSUME objs = 1 PROVE run = {b}
    OBVIOUS
  <2>1. pool.start + 0 * size = pool.start /\ 0 .. objs - 1 = {0}
    BY <1>2
  <2> QED
    BY <2>1 DEF ChunkOf
<1>8. ListedOnce(free) /\ old = {}
  BY <1>4 DEF MemoryOwned, ToSet
<1>9. lists' = [lists EXCEPT ![i] = f]
  <2>1. CASE objs = 1
    BY <1>1, <1>4, <2>1, LenProperties DEF TypesHold, Types, FreeTypes
  <2>2. CASE objs # 1
    <3> HIDE DEF list, free
    <3>1. WithList(t, size, list) = [lists EXCEPT ![i] = [lists[i] EXCEPT ![size] = list]]
      BY DEF WithList, i
    <3> QED
      BY <1>1, <2>2, <3>1 DEF free
  <2> QED
    BY <2>1, <2>2
<1>10. ListedOnce(f) /\ BlocksOf(f) = BlocksOf(free) \cup (run \ {b})
  <2>1. CASE objs = 1
    BY <1>7, <1>8, <2>1
  <2>2. CASE objs # 1
    <3> DEFINE g == [free EXCEPT ![size] = list]
               new == {<<list[k], size>> : k \in 1 .. Len(list)}
    <3> HIDE DEF list, free
    <3>1. ListedOnce(g) /\ BlocksOf(g) = (BlocksOf(free) \ old) \cup new
      BY <1>2, <1>4, <1>5, <1>8, SetList, ZenonT(60)
    <3> HIDE DEF g, old, new
    <3>2. f = g
      BY <2>2 DEF g
    <3>3. new = run \ {b}
      BY <1>5 DEF new
    <3> HIDE DEF f
    <3> QED
      BY <1>8, <3>1, <3>2, <3>3
  <2> QED
    BY <2>1, <2>2
<1> HIDE DEF n, f, free, b, run, list, old, size
<1>11. pool'.start = pool.start + n /\ pool'.end = pool.end /\ pool'.arena = pool.arena
  BY <1>1, <1>2 DEF PoolType
<1> DEFINE B == ListedBlocks \cup held
           P == pool.start .. pool.end - 1
           P2 == pool'.start .. pool'.end - 1
           U == pool.start .. pool.start + n - 1
<1>12. SharedOut(B, P, pool.arena, {}, PoolUnits) /\ ListedBlocks \cap held = {}
  BY DEF MemoryOwned
<1>13. Parted(UnitsOfAll(run), P, pool.arena, {}, P2, pool'.arena, {})
  <2>1. P = U \cup P2 /\ U \cap P2 = {}
    BY <1>2, <1>3, <1>11, SMTT(30) DEF PoolLeft
  <2>2. P \cap pool.arena = {}
    BY <1>12 DEF SharedOut
  <2> HIDE DEF P, P2
  <2>3. UnitsOfAll(run) = U
    BY <1>6
  <2> HIDE DEF U
  <2> QED
    BY <1>11, <2>1, <2>2, <2>3 DEF Parted
<1> HIDE DEF B, P, P2, U
<1>14. SharedOut(B \cup run, P2, pool'.arena, {}, PoolUnits) /\ run \cap B = {}
  BY <1>6, <1>12, <1>13, GainBlocks
<1>15. ListedBlocks = Theirs(i) \cup BlocksOf(free) /\ Theirs(i) \cap BlocksOf(free) = {}
  BY <1>4, MineAndTheirs DEF free
<1>16. Theirs(i) \cup BlocksOf(f) \cup held' = B \cup run
  BY <1>1, <1>6, <1>10, <1>15 DEF B
<1>17. /\ Theirs(i) \cap BlocksOf(f) = {}
       /\ (Theirs(i) \cup BlocksOf(f)) \cap held' = {}
  BY <1>1, <1>6, <1>10, <1>12, <1>14, <1>15 DEF B
<1>18. SharedOut(Theirs(i) \cup BlocksOf(f) \cup held', pool'.start .. pool'.end - 1,
                 pool'.arena, {}, PoolUnits)
  BY <1>14, <1>16 DEF P2
<1> QED
  BY <1>1, <1>4, <1>9, <1>10, <1>17, <1>18, NewLists

\* The left-over piece becomes a block of a list, and malloc()'s units the pool.
LEMMA MemoryFill ==
    ASSUME TypesHold, MemoryOwned, NEW t \in Threads, FillPool(t)
    PROVE  MemoryOwned'
<1> DEFINE bytes == ToGet(pool.size, asked[t] * NObjs)
           at == Malloc(pool.arena, bytes)
           U == at .. at + bytes - 1
           i == specific[t]
           free == lists[i]
           k == PoolLeft
           list == <<pool.start>> \o MyList(t, k)
           b == <<pool.start, k>>
           R == IF k = 0 THEN {} ELSE {b}
           f == IF k = 0 THEN free ELSE [free EXCEPT ![k] = <<pool.start>> \o @]
           B == ListedBlocks \cup held
           P == pool.start .. pool.end - 1
           P2 == pool'.start .. pool'.end - 1
<1>1. /\ PoolLeft < asked[t] /\ at # 0 /\ pc[t] = "refill"
      /\ pool' = [start |-> at, end |-> at + bytes, size |-> pool.size + bytes,
                  arena |-> pool.arena \ U]
      /\ lists' = LeftOver(t) /\ UNCHANGED <<next, held>>
  BY DEF FillPool, At, registry
<1>2. /\ specific[t] # 0 /\ asked[t] \in Nat \ {0} /\ pool.size \in Nat
      /\ pool.arena \in SUBSET Nat /\ pool.start \in Nat /\ pool.end \in Nat
      /\ pool.start <= pool.end /\ NObjs \in Nat \ {0} /\ << >> \in Seq(Nat) /\ 1 \in 1 .. Classes
  BY <1>1, ArenaAssumption DEF TypesHold, Types, Between, PoolType
<1>3. bytes \in Nat
  BY <1>2, ToGetEnough
<1> HIDE DEF bytes
<1>4. at \in Nat /\ U \subseteq pool.arena
  BY <1>1, <1>2, MallocGives
<1> HIDE DEF at
<1>5. P2 = U /\ pool'.arena = pool.arena \ U
  BY <1>1, <1>3, <1>4
<1>6. k \in Nat /\ k = pool.end - pool.start
  BY <1>2 DEF PoolLeft
<1>7. i \in Made /\ free \in FreeType /\ DOMAIN lists = Made
  BY <1>2, MyLists
<1>8. ListedOnce(free) /\ ListedBlocks = Theirs(i) \cup BlocksOf(free)
      /\ Theirs(i) \cap BlocksOf(free) = {}
  BY <1>7, MineAndTheirs DEF MemoryOwned
<1>9. SharedOut(B, P, pool.arena, {}, PoolUnits) /\ ListedBlocks \cap held = {}
  BY DEF MemoryOwned
<1>10. P \cap pool.arena = {}
  BY <1>9 DEF SharedOut
<1>11. UnitsOfAll(R) = P /\ Apart(R)
  <2>1. CASE k = 0
    <3>1. pool.start .. pool.end - 1 = {}
      BY <1>2, <1>6, <2>1
    <3> QED
      BY <2>1, <3>1, UnitsOfNone DEF Apart
  <2>2. CASE k # 0
    <3>1. b \in Block /\ pool.start + k - 1 = pool.end - 1
      BY <1>2, <1>6, <2>2 DEF Block
    <3>2. UnitsOf(b) = pool.start .. pool.start + k - 1
      BY DEF UnitsOf
    <3>3. UnitsOf(b) # {} /\ UnitsOfAll({b}) = UnitsOf(b)
      BY <3>1, HasUnit, UnitsOfOne
    <3> HIDE DEF b, k
    <3> QED
      BY <2>2, <3>1, <3>2, <3>3 DEF Apart
  <2> QED
    BY <2>1, <2>2
<1> HIDE DEF U, P2, P, R, B
<1>12. Parted(UnitsOfAll(R), P, pool.arena, {}, P2, pool'.arena, {})
  BY <1>4, <1>5, <1>10, <1>11 DEF Parted
<1>13. SharedOut(B \cup R, P2, pool'.arena, {}, PoolUnits) /\ R \cap B = {}
  BY <1>9, <1>11, <1>12, GainBlocks
<1>14. lists' = [lists EXCEPT ![i] = f]
  <2>1. CASE k = 0
    <3>1. lists' = lists
      BY <1>1, <2>1 DEF LeftOver
    <3> QED
      BY <1>7, <2>1, <3>1, LenProperties DEF TypesHold, Types, FreeTypes
  <2>2. CASE k # 0
    <3>1. k \in 1 .. Classes /\ list \in Seq(Nat) /\ lists' = WithList(t, k, list)
      BY <1>1, <2>2, LeftOverIs
    <3>2. MyList(t, k) = free[k]
      BY DEF MyList
    <3> HIDE DEF list, k, free
    <3>3. lists' = [lists EXCEPT ![i] = [lists[i] EXCEPT ![k] = list]]
      BY <1>2, <3>1, MyLists
    <3>4. f = [lists[i] EXCEPT ![k] = list]
      BY <1>7, <2>2, <3>1, <3>2 DEF FreeType, list, free
    <3> QED
      BY <3>3, <3>4
  <2> QED
    BY <2>1, <2>2
<1>15. ListedOnce(f) /\ BlocksOf(f) = BlocksOf(free) \cup R
  <2>1. CASE k = 0
    BY <1>8, <2>1 DEF R
  <2>2. CASE k # 0
    <3>1. k \in 1 .. Classes
      BY <1>1, <2>2, LeftOverTypes
    <3> HIDE DEF k
    <3>2. <<pool.start, k>> \notin BlocksOf(free)
      BY <1>8, <1>13, <2>2 DEF R, B
    <3> HIDE DEF free
    <3>3. LET g == [free EXCEPT ![k] = <<pool.start>> \o @]
          IN  ListedOnce(g) /\ BlocksOf(g) = BlocksOf(free) \cup {<<pool.start, k>>}
      BY <1>2, <1>7, <1>8, <3>1, <3>2, PushList
    <3> QED
      BY <2>2, <3>3 DEF R
  <2> QED
    BY <2>1, <2>2
<1> HIDE DEF f, free, k, i
<1>16. Theirs(i) \cup BlocksOf(f) \cup held' = B \cup R
  BY <1>1, <1>8, <1>15 DEF B
<1>17. /\ Theirs(i) \cap BlocksOf(f) = {}
       /\ (Theirs(i) \cup BlocksOf(f)) \cap held' = {}
  BY <1>1, <1>8, <1>9, <1>13, <1>15 DEF B
<1>18. SharedOut(Theirs(i) \cup BlocksOf(f) \cup held', pool'.start .. pool'.end - 1,
                 pool'.arena, {}, PoolUnits)
  BY <1>13, <1>16 DEF P2
<1> QED
  BY <1>1, <1>7, <1>14, <1>15, <1>17, <1>18, NewLists

LEMMA MemoryNext ==
    ASSUME TypesHold, Refilling, MemoryOwned, ~threw', NEW t \in Threads,
           \/ FindKey(t) \/ CreateKey(t)
           \/ NewAllocator(t) \/ SeeAllocator(t) \/ PopAllocator(t)
           \/ Exit(t) \/ PushAllocator(t)
           \/ MemoryActs(t)
    PROVE  MemoryOwned'
<1>1. ASSUME UNCHANGED <<next, lists, pool, held>> PROVE MemoryOwned'
  BY <1>1 DEF MemoryOwned, ListedBlocks, Made
<1>2. CASE FindKey(t)
  BY <1>1, <1>2 DEF FindKey, registry, memory
<1>3. CASE CreateKey(t)
  BY <1>1, <1>3 DEF CreateKey, memory
<1>4. CASE SeeAllocator(t)
  BY <1>1, <1>4 DEF SeeAllocator, memory
<1>5. CASE PopAllocator(t)
  BY <1>1, <1>5 DEF PopAllocator, memory
<1>6. CASE PushAllocator(t)
  BY <1>1, <1>6 DEF PushAllocator, memory
<1>7. CASE Exit(t)
  <2>1. Made' = Made /\ UNCHANGED <<lists, pool, held>>
    <3>1. next' = [next EXCEPT ![specific[t]] = idle]
      BY <1>7 DEF Exit
    <3> QED
      BY <1>7, <3>1 DEF Exit, memory, Made
  <2> QED
    BY <2>1 DEF MemoryOwned, ListedBlocks
<1>8. CASE ThrowIn(t)
  <2>1. PoolLeft = 0
    <3>1. pool.start \in Nat /\ pool.end \in Nat /\ pool.start <= pool.end
      BY DEF TypesHold, Types, PoolType
    <3>2. ~ (PoolLeft > 0)
      BY <1>8 DEF ThrowIn
    <3> QED
      BY <3>1, <3>2 DEF PoolLeft
  <2> QED
    BY <1>1, <1>8, <2>1 DEF ThrowIn, LeftOver, registry
<1>9. CASE NewAllocator(t)
  BY <1>9, MemoryNewAllocator
<1> QED
  BY <1>2, <1>3, <1>4, <1>5, <1>6, <1>7, <1>8, <1>9, MemoryAllocate, MemoryDeallocate,
     MemoryRefill, MemoryFill DEF MemoryActs

-----------------------------------------------------------------------------
(* The theorems.                                                           *)

LEMMA PthreadInvInit == PthreadInit => PthreadIInv
<1> SUFFICES ASSUME PthreadInit PROVE PthreadIInv
  OBVIOUS
<1>1. TypesHold
  BY TypesInit
<1>2. Made = {} /\ idle = 0 /\ held = {} /\ \A t \in Threads : pc[t] = "runs" /\ specific[t] = 0
  BY DEF PthreadInit, Made
<1>3. Registry /\ Refilling
  BY <1>2 DEF Registry, Refilling, OwnFreeLists, Idle
<1>4. MemoryOwned
  <2>1. ListedBlocks \cup held = {} /\ ListedBlocks = {}
    BY <1>2 DEF ListedBlocks
  <2>2. pool.start .. pool.end - 1 = {} /\ pool.arena = 1 .. PoolUnits
    BY DEF PthreadInit
  <2>3. SharedOut({}, {}, pool.arena, {}, PoolUnits)
    BY <2>2, UnitsOfNone DEF SharedOut
  <2>4. SharedOut(ListedBlocks \cup held, pool.start .. pool.end - 1, pool.arena, {}, PoolUnits)
    BY <2>1, <2>2, <2>3
  <2> QED
    BY <1>2, <2>1, <2>4 DEF MemoryOwned
<1> QED
  BY <1>1, <1>3, <1>4 DEF PthreadIInv

LEMMA PthreadInvNext == PthreadIInv /\ [PthreadNext]_pthreadVars => PthreadIInv'
<1> SUFFICES ASSUME PthreadIInv, [PthreadNext]_pthreadVars PROVE PthreadIInv'
  OBVIOUS
<1>1. ASSUME NEW t \in Threads,
             \/ FindKey(t) \/ CreateKey(t)
             \/ NewAllocator(t) \/ SeeAllocator(t) \/ PopAllocator(t)
             \/ Exit(t) \/ PushAllocator(t)
             \/ MemoryActs(t)
      PROVE  PthreadIInv'
  <2>1. TypesHold
    BY DEF PthreadIInv
  <2>2. TypesHold'
    BY <1>1, <2>1, TypesNext DEF MemoryActs
  <2>3. /\ raced => raced'
        /\ threw => threw'
    <3> DEFINE StillSo == (raced => raced') /\ (threw => threw')
    <3>1. raced' = raced /\ threw' = threw => StillSo
      OBVIOUS
    <3>2. ASSUME NEW x, raced' = (raced \/ x), threw' = threw PROVE StillSo
      BY <3>2
    <3>3. ASSUME NEW x, raced' = raced, threw' = (threw \/ x) PROVE StillSo
      BY <3>3
    <3> HIDE DEF StillSo
    <3>4. ASSUME NEW size \in 1 .. Classes, AllocateIn(t, size) PROVE StillSo
      BY <3>1, <3>4 DEF AllocateIn, registry
    <3>5. ASSUME NEW b \in held, DeallocateIn(t, b) PROVE StillSo
      BY <3>1, <3>5 DEF DeallocateIn, registry
    <3>6. RefillIn(t) \/ FillPool(t) => StillSo
      BY <3>1 DEF RefillIn, FillPool, registry
    <3>7. ThrowIn(t) => StillSo
      BY <3>3 DEF ThrowIn, registry
    <3>8. FindKey(t) \/ CreateKey(t) \/ NewAllocator(t) \/ PopAllocator(t) \/ PushAllocator(t)
          => StillSo
      BY <3>1 DEF FindKey, CreateKey, NewAllocator, PopAllocator, PushAllocator, registry, memory
    <3>9. SeeAllocator(t) \/ Exit(t) => StillSo
      BY <3>2 DEF SeeAllocator, Exit, memory
    <3>10. MemoryActs(t) => StillSo
      BY <3>4, <3>5, <3>6, <3>7 DEF MemoryActs
    <3>11. StillSo
      BY <1>1, <3>8, <3>9, <3>10
    <3> QED
      BY <3>11 DEF StillSo
  <2>4. ASSUME ~raced' PROVE Registry' /\ Refilling'
    <3>1. Registry /\ Refilling
      BY <2>3, <2>4 DEF PthreadIInv
    <3>2. MemoryActs(t) => /\ UNCHANGED <<registry, result>>
                           /\ pc[t] \in {"runs", "refill"}
                           /\ \E there \in {"runs", "refill"} : pc' = [pc EXCEPT ![t] = there]
      BY <2>1, MemoryStep
    <3>3. Registry'
      BY <1>1, <2>1, <2>2, <2>4, <3>1, <3>2, RegistryNext
    <3>4. Refilling'
      BY <1>1, <2>1, <3>1, RefillingNext
    <3> QED
      BY <3>3, <3>4
  <2>5. ASSUME ~raced', ~threw' PROVE MemoryOwned'
    <3>1. Refilling /\ MemoryOwned
      BY <2>3, <2>5 DEF PthreadIInv
    <3> QED
      BY <1>1, <2>1, <2>5, <3>1, MemoryNext
  <2> QED
    BY <2>2, <2>4, <2>5 DEF PthreadIInv
<1>2. CASE PthreadNext
  BY <1>1, <1>2 DEF PthreadNext, MemoryActs
<1>3. CASE UNCHANGED pthreadVars
  <2>1. /\ pc' = pc /\ asked' = asked /\ result' = result /\ specific' = specific /\ keys' = keys
        /\ keyInit' = keyInit /\ idle' = idle /\ next' = next /\ lists' = lists /\ pool' = pool
        /\ held' = held /\ raced' = raced /\ threw' = threw
    BY <1>3 DEF pthreadVars
  <2>2. Made' = Made
    BY <2>1 DEF Made
  <2>3. TypesHold' <=> TypesHold
    BY <2>1, <2>2 DEF TypesHold, Types, Between
  <2>4. Registry' <=> Registry
    BY <2>1, <2>2 DEF Registry, OwnFreeLists, Idle
  <2>5. Refilling' <=> Refilling
    BY <2>1 DEF Refilling, MyList
  <2>6. ListedBlocks' = ListedBlocks
    BY <2>1, <2>2 DEF ListedBlocks
  <2>7. MemoryOwned' <=> MemoryOwned
    BY <2>1, <2>2, <2>6 DEF MemoryOwned
  <2> QED
    BY <2>1, <2>3, <2>4, <2>5, <2>7 DEF PthreadIInv
<1> QED
  BY <1>2, <1>3

\* The inductive invariant: the types, the list of instances and the refills while
\* no two threads raced, and the owners of the units while nothing was thrown.
THEOREM PthreadInvariance == PthreadSpec => []PthreadIInv
  BY PthreadInvInit, PthreadInvNext, PTL DEF PthreadSpec

\* One key, an instance per thread, and a unit with one owner, for any number of
\* threads, unless two were in the list of instances at once or an exception
\* left a piece on a list and in the pool.
THEOREM PthreadKeepsMemory == PthreadSpec => []ThreadsKeepMemory
<1>1. PthreadIInv => ThreadsKeepMemory
  <2>1. PthreadIInv => keys <= 1 /\ (keyInit <=> keys = 1)
    BY DEF PthreadIInv, TypesHold, Types
  <2>2. PthreadIInv /\ ~raced => OwnFreeLists
    BY DEF PthreadIInv, Registry
  <2> QED
    BY <2>1, <2>2 DEF PthreadIInv, MemoryOwned, ThreadsKeepMemory
<1> QED
  BY <1>1, PthreadInvariance, PTL

-----------------------------------------------------------------------------
(* The allocator implements MemoryService while it is not hit.             *)

\* A block of a list, and one carved from the pool, have their units apart from
\* those of the blocks that threads have.
LEMMA ThreadRoom ==
    ASSUME MemoryOwned, NEW b \in Block,
           b \in ListedBlocks \/ UnitsOf(b) \subseteq pool.start .. pool.end - 1
    PROVE  b \in PthreadService!Room(b[2], held)
<1> DEFINE P == pool.start .. pool.end - 1
           B == ListedBlocks \cup held
<1>1. SharedOut(B, P, pool.arena, {}, PoolUnits) /\ ListedBlocks \cap held = {}
  BY DEF MemoryOwned
<1>2. b \in ListedBlocks \/ UnitsOf(b) \subseteq P
  OBVIOUS
<1> HIDE DEF P
<1>3. UnitsOf(b) \subseteq 1 .. PoolUnits
  <2>1. CASE b \in ListedBlocks
    BY <1>1, <2>1, UnitIn DEF SharedOut
  <2>2. CASE UnitsOf(b) \subseteq P
    BY <1>1, <2>2 DEF SharedOut
  <2> QED
    BY <1>2, <2>1, <2>2
<1>4. ASSUME NEW c \in held PROVE UnitsOf(b) \cap UnitsOf(c) = {}
  <2>1. CASE b \in ListedBlocks
    BY <1>1, <1>4, <2>1 DEF SharedOut
  <2>2. CASE UnitsOf(b) \subseteq P
    <3>1. UnitsOf(c) \subseteq UnitsOfAll(B)
      BY <1>4, UnitIn
    <3> QED
      BY <1>1, <2>2, <3>1 DEF SharedOut
  <2> QED
    BY <1>2, <2>1, <2>2
<1>5. b = <<b[1], b[2]>> /\ b[1] \in UnitsOf(b)
  BY DEF Block, UnitsOf
<1>6. \A c : PthreadService!Extent(c) = UnitsOf(c)
  BY DEF PthreadService!Extent, UnitsOf
<1>7. b[1] \in 1 .. PoolUnits
  BY <1>3, <1>5
<1> QED
  BY <1>3, <1>4, <1>5, <1>6, <1>7 DEF PthreadService!Room

\* A thread that refills waits, with one request.
LEMMA WhoWaits ==
    ASSUME NEW t \in Threads
    PROVE  /\ PthreadService!Waiting(t) <=> pc[t] = "refill"
           /\ \A r \in ThreadsWait : r.frees = {}
           /\ pc[t] = "refill" => PthreadService!Request(t, asked[t], {}) \in ThreadsWait
<1> DEFINE R(u) == [by |-> u, size |-> asked[u], frees |-> {}]
<1>1. \A u : R(u).by = u /\ R(u).frees = {}
  OBVIOUS
<1>2. ThreadsWait = {R(u) : u \in {v \in Threads : pc[v] = "refill"}}
      /\ PthreadService!Request(t, asked[t], {}) = R(t)
  BY Zenon DEF ThreadsWait, PthreadService!Request
<1> HIDE DEF R
<1>3. \A r \in ThreadsWait : r.frees = {} /\ r.by \in Threads /\ pc[r.by] = "refill"
  BY <1>1, <1>2
<1>4. pc[t] = "refill" => R(t) \in ThreadsWait
  BY <1>2
<1>5. PthreadService!Waiting(t) <=> \E r \in ThreadsWait : r.by = t
  BY Zenon DEF PthreadService!Waiting
<1> QED
  BY <1>1, <1>2, <1>3, <1>4, <1>5

\* It waits no more when it runs on.
LEMMA WaitEnds ==
    ASSUME TypesHold, NEW t \in Threads, At(t, "refill", "runs"), UNCHANGED asked
    PROVE  ThreadsWait' = ThreadsWait \ {PthreadService!Request(t, asked[t], {})}
<1> DEFINE R(u) == [by |-> u, size |-> asked[u], frees |-> {}]
<1>1. pc \in [Threads -> {"runs", "lock", "new", "pop", "push", "refill"}]
  BY DEF TypesHold, Types
<1>2. {u \in Threads : pc'[u] = "refill"} = {u \in Threads : pc[u] = "refill"} \ {t}
  BY <1>1 DEF At
<1>3. \A u, v : R(u) = R(v) => u = v
  OBVIOUS
<1>4. ThreadsWait = {R(u) : u \in {v \in Threads : pc[v] = "refill"}}
      /\ ThreadsWait' = {R(u) : u \in {v \in Threads : pc'[v] = "refill"}}
      /\ PthreadService!Request(t, asked[t], {}) = R(t)
  BY Zenon DEF ThreadsWait, PthreadService!Request
<1> HIDE DEF R
<1> QED
  BY <1>2, <1>3, <1>4

\* Who runs on after running changes no request.
LEMMA WaitStays ==
    ASSUME TypesHold, NEW t \in Threads, At(t, "runs", "runs"), UNCHANGED asked
    PROVE  ThreadsWait' = ThreadsWait
<1>1. pc' = pc
  BY DEF TypesHold, Types, At
<1> QED
  BY <1>1 DEF ThreadsWait

LEMMA AllocateInServes ==
    ASSUME TypesHold, MemoryOwned, NEW t \in Threads, NEW size \in 1 .. Classes, AllocateIn(t, size)
    PROVE  PthreadService!GrantAtOnce(t, size, {}) \/ PthreadService!Ask(t, size, {})
<1>1. specific[t] # 0 /\ pc[t] = "runs" /\ << >> \in Seq(Nat)
  BY DEF AllocateIn, At
<1>2. ~PthreadService!Waiting(t)
  BY <1>1, WhoWaits
<1>3. CASE /\ MyList(t, size) # << >> /\ At(t, "runs", "runs")
           /\ held' = held \cup {<<Head(MyList(t, size)), size>>} /\ UNCHANGED asked
  <2> DEFINE free == lists[specific[t]]
             f == [free EXCEPT ![size] = Tail(@)]
             b == <<Head(free[size]), size>>
  <2>1. specific[t] \in Made /\ free \in FreeType /\ MyList(t, size) = free[size]
    BY <1>1, MyLists
  <2>2. ListedOnce(free) /\ BlocksOf(free) \subseteq ListedBlocks
    BY <2>1 DEF MemoryOwned, ListedBlocks
  <2>3. held' = held \cup {b} /\ free[size] # << >> /\ b[2] = size
    BY <1>3, <2>1
  <2> HIDE DEF free
  <2>4. b \in Block /\ BlocksOf(free) = BlocksOf(f) \cup {b}
    BY <2>1, <2>2, <2>3, PopList
  <2> HIDE DEF b, f
  <2>5. b \in PthreadService!Room(size, held)
    BY <2>2, <2>3, <2>4, ThreadRoom
  <2>6. ThreadsWait' = ThreadsWait
    BY <1>3, WaitStays
  <2>7. (held \ {}) \ {} = held /\ held \ {} = held
    OBVIOUS
  <2>8. PthreadService!Grant(size, {}, {})
    BY <2>3, <2>5, <2>7 DEF PthreadService!Grant
  <2> QED
    BY <1>2, <2>6, <2>8 DEF PthreadService!GrantAtOnce
<1>4. CASE At(t, "runs", "refill") /\ asked' = [asked EXCEPT ![t] = size] /\ UNCHANGED held
  <2> DEFINE R(u) == [by |-> u, size |-> asked[u], frees |-> {}]
             waits == {u \in Threads : pc[u] = "refill"}
  <2>1. /\ pc \in [Threads -> {"runs", "lock", "new", "pop", "push", "refill"}]
        /\ asked \in [Threads -> Nat]
    BY DEF TypesHold, Types
  <2>2. {u \in Threads : pc'[u] = "refill"} = waits \cup {t} /\ t \notin waits
    BY <1>4, <2>1 DEF At
  <2>3. asked'[t] = size /\ \A u \in waits : asked'[u] = asked[u]
    BY <1>4, <2>1, <2>2
  <2> DEFINE S(u) == [by |-> u, size |-> asked'[u], frees |-> {}]
  <2>4. ThreadsWait = {R(u) : u \in waits}
        /\ ThreadsWait' = {S(u) : u \in {v \in Threads : pc'[v] = "refill"}}
        /\ PthreadService!Request(t, size, {}) = S(t)
    BY <2>3 DEF ThreadsWait, PthreadService!Request
  <2>5. \A u \in waits : S(u) = R(u)
    BY <2>3
  <2> HIDE DEF R, S, waits
  <2>6. ThreadsWait' = ThreadsWait \cup {PthreadService!Request(t, size, {})}
    BY <2>2, <2>4, <2>5
  <2> QED
    BY <1>2, <1>4, <2>6 DEF PthreadService!Ask
<1> QED
  BY <1>3, <1>4 DEF AllocateIn

LEMMA RefillServes ==
    ASSUME TypesHold, MemoryOwned, NEW t \in Threads, RefillIn(t)
    PROVE  PthreadService!GrantLater(PthreadService!Request(t, asked[t], {}), {})
<1> DEFINE size == asked[t]
           objs == Min({NObjs, PoolLeft \div size})
           b == <<pool.start, size>>
           r == PthreadService!Request(t, size, {})
<1>1. At(t, "refill", "runs") /\ objs > 0 /\ held' = held \cup {b} /\ UNCHANGED asked
  BY DEF RefillIn, locals
<1>2. /\ size \in 1 .. Classes /\ pool.start \in Nat /\ pool.end \in Nat /\ size \in Nat \ {0}
      /\ pc[t] = "refill"
  BY <1>1 DEF At, TypesHold, Types, Between, PoolType
<1>3. objs \in Nat \ {0} /\ size * objs \in Nat /\ size * objs <= PoolLeft /\ PoolLeft \in Nat
  BY <1>1, <1>2, RefillObjs DEF TypesHold
<1> HIDE DEF objs
<1>4. size <= PoolLeft
  <2>1. size * 1 = size
    BY <1>2
  <2>2. CASE objs = 1
    BY <1>2, <1>3, <2>1, <2>2
  <2>3. CASE objs # 1
    <3>1. 1 < objs /\ 1 \in Nat /\ objs \in Nat
      BY <1>3, <2>3
    <3>2. size * 1 + size <= size * objs
      BY <1>2, <3>1, TimesGrows
    <3> DEFINE n == size * objs
    <3>3. size + size <= n /\ n \in Nat /\ n <= PoolLeft
      BY <1>3, <2>1, <3>2
    <3> HIDE DEF n
    <3> QED
      BY <1>2, <1>3, <3>3
  <2> QED
    BY <2>2, <2>3
<1>5. b \in Block /\ b[2] = size
  BY <1>2 DEF Block
<1>6. UnitsOf(b) \subseteq pool.start .. pool.end - 1
  BY <1>2, <1>4 DEF UnitsOf, PoolLeft
<1> HIDE DEF b, size
<1>7. b \in PthreadService!Room(size, held)
  BY <1>5, <1>6, ThreadRoom
<1>8. r \in ThreadsWait /\ r.size = size /\ r.frees = {}
  BY <1>2, WhoWaits DEF PthreadService!Request, size
<1>9. ThreadsWait' = ThreadsWait \ {r}
  BY <1>1, WaitEnds DEF size
<1> HIDE DEF r
<1>10. (held \ {}) \ {} = held /\ held \ {} = held
  OBVIOUS
<1>11. PthreadService!Grant(r.size, r.frees, {})
  BY <1>1, <1>7, <1>8, <1>10 DEF PthreadService!Grant
<1> QED
  BY <1>8, <1>9, <1>11 DEF PthreadService!GrantLater, r, size

LEMMA ThreadsServed == TypesHold /\ MemoryOwned => ServesThreads
<1> SUFFICES ASSUME TypesHold, MemoryOwned, NEW t \in Threads
             PROVE  LET waiting == PthreadService!Request(t, asked[t], {})
                    IN  /\ \A size \in 1 .. Classes : AllocateIn(t, size) =>
                              PthreadService!GrantAtOnce(t, size, {}) \/ PthreadService!Ask(t, size, {})
                        /\ \A b \in held : DeallocateIn(t, b) => PthreadService!GiveBack({b})
                        /\ RefillIn(t) => PthreadService!GrantLater(waiting, {})
                        /\ ThrowIn(t) => PthreadService!Refuse(waiting)
  BY DEF ServesThreads
<1>1. ASSUME NEW b \in held, DeallocateIn(t, b) PROVE PthreadService!GiveBack({b})
  <2>1. At(t, "runs", "runs") /\ UNCHANGED asked /\ held' = held \ {b}
    BY <1>1 DEF DeallocateIn, locals
  <2>2. ThreadsWait' = ThreadsWait
    BY <2>1, WaitStays
  <2>3. \A r \in ThreadsWait : r.frees = {}
    BY WhoWaits
  <2> QED
    BY <2>1, <2>2, <2>3 DEF PthreadService!GiveBack
<1>2. ASSUME ThrowIn(t) PROVE PthreadService!Refuse(PthreadService!Request(t, asked[t], {}))
  <2>1. At(t, "refill", "runs") /\ UNCHANGED asked /\ held' = held
    BY <1>2 DEF ThrowIn, locals
  <2>2. pc[t] = "refill"
    BY <2>1 DEF At
  <2> QED
    BY <2>1, <2>2, WhoWaits, WaitEnds DEF PthreadService!Refuse
<1> QED
  BY <1>1, <1>2, AllocateInServes, RefillServes

\* Every call of a thread is served as promised, for any number of threads, as long as
\* the list of instances was not raced for and nothing was thrown over a left-over piece.
THEOREM ThreadsAreServed == PthreadSpec => [][~raced /\ ~threw => ServesThreads]_pthreadVars
<1>1. PthreadIInv => (~raced /\ ~threw => ServesThreads)
  BY ThreadsServed DEF PthreadIInv
<1> QED
  BY <1>1, PthreadInvariance, PTL DEF PthreadSpec

\* The steps of the registry and of malloc() show in no block and no request.
LEMMA OthersUnseen ==
    ASSUME TypesHold, NEW t \in Threads,
           \/ FindKey(t) \/ CreateKey(t)
           \/ NewAllocator(t) \/ SeeAllocator(t) \/ PopAllocator(t)
           \/ Exit(t) \/ PushAllocator(t) \/ FillPool(t)
    PROVE  UNCHANGED <<held, ThreadsWait>>
<1>1. held' = held /\ asked' = asked
  BY DEF FindKey, CreateKey, NewAllocator, SeeAllocator, PopAllocator, Exit, PushAllocator,
         FillPool, locals, memory
<1>2. \E here, there \in {"runs", "lock", "new", "pop", "push", "refill"} :
         At(t, here, there) /\ (here = "refill" <=> there = "refill")
  BY DEF FindKey, CreateKey, NewAllocator, SeeAllocator, PopAllocator, Exit, PushAllocator, FillPool
<1>3. pc \in [Threads -> {"runs", "lock", "new", "pop", "push", "refill"}]
  BY DEF TypesHold, Types
<1>4. {u \in Threads : pc'[u] = "refill"} = {u \in Threads : pc[u] = "refill"}
  BY <1>2, <1>3 DEF At
<1> QED
  BY <1>1, <1>4 DEF ThreadsWait

\* So the allocator of the threads, too, is one of the memories of MemoryService.
THEOREM PthreadIsMemory == PthreadSpec => PthreadImplements
<1>1. PthreadInit => PthreadService!MemoryInit
  BY DEF PthreadInit, PthreadService!MemoryInit, ThreadsWait
<1>2. PthreadIInv /\ [PthreadNext]_pthreadVars
         => [~raced /\ ~threw => PthreadService!MemoryNext]_<<held, ThreadsWait>>
  <2> SUFFICES ASSUME PthreadIInv, [PthreadNext]_pthreadVars, ~raced, ~threw
               PROVE  PthreadService!MemoryNext \/ UNCHANGED <<held, ThreadsWait>>
    OBVIOUS
  <2>1. TypesHold /\ ServesThreads
    BY ThreadsServed DEF PthreadIInv
  <2>2. CASE UNCHANGED pthreadVars
    BY <2>2 DEF pthreadVars, ThreadsWait
  <2>3. ASSUME NEW t \in Threads,
               \/ FindKey(t) \/ CreateKey(t)
               \/ NewAllocator(t) \/ SeeAllocator(t) \/ PopAllocator(t)
               \/ Exit(t) \/ PushAllocator(t) \/ FillPool(t)
        PROVE  UNCHANGED <<held, ThreadsWait>>
    BY <2>1, <2>3, OthersUnseen
  <2>4. ASSUME NEW t \in Threads, NEW size \in 1 .. Classes, AllocateIn(t, size)
        PROVE  PthreadService!MemoryNext
    <3>1. PthreadService!GrantAtOnce(t, size, {}) \/ PthreadService!Ask(t, size, {})
      BY <2>1, <2>4 DEF ServesThreads
    <3> QED
      BY <3>1 DEF PthreadService!MemoryNext
  <2>5. ASSUME NEW t \in Threads, NEW b \in held, DeallocateIn(t, b) PROVE PthreadService!MemoryNext
    BY <2>1, <2>5 DEF ServesThreads, PthreadService!MemoryNext
  <2>6. ASSUME NEW t \in Threads, RefillIn(t) \/ ThrowIn(t) PROVE PthreadService!MemoryNext
    <3> DEFINE r == PthreadService!Request(t, asked[t], {})
    <3>1. pc[t] = "refill"
      BY <2>6 DEF RefillIn, ThrowIn, At
    <3>2. r \in ThreadsWait /\ (PthreadService!GrantLater(r, {}) \/ PthreadService!Refuse(r))
      BY <2>1, <2>6, <3>1, WhoWaits DEF ServesThreads
    <3> HIDE DEF r
    <3> QED
      BY <3>2 DEF PthreadService!MemoryNext
  <2>7. CASE PthreadNext
    BY <2>3, <2>4, <2>5, <2>6, <2>7 DEF PthreadNext
  <2> QED
    BY <2>2, <2>7
<1>3. PthreadSpec => [][~raced /\ ~threw => PthreadService!MemoryNext]_<<held, ThreadsWait>>
  BY <1>2, PthreadInvariance, PTL DEF PthreadSpec
<1>4. PthreadSpec => PthreadService!MemoryInit
  BY <1>1 DEF PthreadSpec
<1> QED
  BY <1>3, <1>4 DEF PthreadImplements

=============================================================================
