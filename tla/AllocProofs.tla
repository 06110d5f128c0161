------------------------------ MODULE AllocProofs ------------------------------
(***************************************************************************)
(* The default allocator gives no unit to two owners and loses none: every *)
(* step of StlAlloc keeps UnitsOwnedOnce, for all sizes of the arena, all  *)
(* numbers of classes and of blocks in a chunk, and every handler.         *)
(* First the lemmas about numbers, lists and blocks of the arena, which    *)
(* PthreadProofs needs as well.                                            *)
(***************************************************************************)
EXTENDS StlAlloc, SequenceTheorems, FiniteSetTheorems, WellFoundedInduction, TLAPS

\* Blocks have an address and at least one unit.
Block == Nat \X (Nat \ {0})

-----------------------------------------------------------------------------
(* Numbers.                                                                *)

\* The least of a set of natural numbers is one of them.
LEMMA MinIsMember ==
    ASSUME NEW S \in SUBSET Nat, S # {}
    PROVE  Min(S) \in S /\ \A x \in S : Min(S) <= x
<1> DEFINE Less == {ss \in Nat \X Nat : ss[1] < ss[2]}
<1>1. IsWellFoundedOn(Less, Nat)
  BY NatLessThanWellFounded, Zenon DEF OpToRel
<1>2. PICK x \in S : \A y \in S : ~ (<<y, x>> \in Less)
  <2> HIDE DEF Less
  <2> QED
    BY <1>1, WFMin
<1>3. ASSUME NEW y \in S PROVE x <= y
  <2>1. x \in Nat /\ y \in Nat /\ ~ (<<y, x>> \in Less)
    BY <1>2
  <2> QED
    BY <2>1
<1> QED
  BY <1>3 DEF Min

\* Multiplying keeps the order, strictly when blocks have a size.
LEMMA TimesGrows ==
    ASSUME NEW n \in Nat \ {0}, NEW a \in Nat, NEW b \in Nat, a < b
    PROVE  /\ n * a \in Nat /\ n * b \in Nat
           /\ n * a + n <= n * b
<1>1. PICK d \in Nat : b = a + 1 + d
  <2>1. b - a - 1 \in Nat /\ b = a + 1 + (b - a - 1)
    OBVIOUS
  <2> QED
    BY <2>1
<1>2. n * b = n * a + n + n * d
  BY <1>1
<1>3. n * d \in Nat /\ n * a \in Nat
  OBVIOUS
<1> QED
  BY <1>2, <1>3

\* What division gives.
LEMMA Division ==
    ASSUME NEW n \in Nat \ {0}, NEW u \in Nat
    PROVE  /\ u \div n \in Nat
           /\ n * (u \div n) \in Nat
           /\ n * (u \div n) <= u /\ u < n * (u \div n) + n
OBVIOUS

-----------------------------------------------------------------------------
(* Units.                                                                  *)

LEMMA UnitIn ==
    ASSUME NEW blocks, NEW u
    PROVE  u \in UnitsOfAll(blocks) <=> \E b \in blocks : u \in UnitsOf(b)
BY DEF UnitsOfAll

\* A block has its first unit.
LEMMA HasUnit ==
    ASSUME NEW b \in Block
    PROVE  UnitsOf(b) # {} /\ UnitsOf(b) \subseteq Nat
<1>1. b[1] \in Nat /\ b[2] \in Nat \ {0} /\ b[1] \in b[1] .. b[1] + b[2] - 1
  BY DEF Block
<1> QED
  BY <1>1 DEF UnitsOf

LEMMA UnitsOfBoth ==
    ASSUME NEW B, NEW C
    PROVE  UnitsOfAll(B \cup C) = UnitsOfAll(B) \cup UnitsOfAll(C)
BY UnitIn

LEMMA UnitsOfNone == UnitsOfAll({}) = {}
BY DEF UnitsOfAll

LEMMA UnitsOfOne == ASSUME NEW b PROVE UnitsOfAll({b}) = UnitsOf(b)
BY DEF UnitsOfAll

\* Blocks with units, and no unit in two of them.
Apart(R) == /\ \A b \in R : UnitsOf(b) # {}
            /\ \A b, c \in R : b # c => UnitsOf(b) \cap UnitsOf(c) = {}

\* The units U leave the pool, malloc() and the others, who share the rest.
Parted(U, P, A, O, P2, A2, O2) ==
    /\ U \cup P2 \cup A2 \cup O2 = P \cup A \cup O
    /\ U \cap (P2 \cup A2 \cup O2) = {}
    /\ P2 \cap (A2 \cup O2) = {} /\ A2 \cap O2 = {}

\* Whoever has a unit of a block has the block.
LEMMA GainBlocks ==
    ASSUME NEW B, NEW R, NEW P, NEW A, NEW O, NEW P2, NEW A2, NEW O2, NEW n,
           SharedOut(B, P, A, O, n), Apart(R),
           Parted(UnitsOfAll(R), P, A, O, P2, A2, O2)
    PROVE  SharedOut(B \cup R, P2, A2, O2, n) /\ R \cap B = {}
<1>1. UnitsOfAll(B) \cap UnitsOfAll(R) = {}
  BY DEF SharedOut, Parted
<1>2. \A b \in B, c \in R : UnitsOf(b) \cap UnitsOf(c) = {}
  BY <1>1, UnitIn
<1>3. \A b, c \in B \cup R : b # c => UnitsOf(b) \cap UnitsOf(c) = {}
  BY <1>2 DEF SharedOut, Apart
<1>4. UnitsOfAll(B \cup R) = UnitsOfAll(B) \cup UnitsOfAll(R)
  BY UnitsOfBoth
<1>5. R \cap B = {}
  BY <1>2 DEF Apart
<1> QED
  BY <1>1, <1>3, <1>4, <1>5 DEF SharedOut, Parted

\* And who gives a block away has none of its units left.
LEMMA LoseBlocks ==
    ASSUME NEW B, NEW R, NEW P, NEW A, NEW O, NEW P2, NEW A2, NEW O2, NEW n,
           SharedOut(B \cup R, P, A, O, n), B \cap R = {},
           P2 \cup A2 \cup O2 = UnitsOfAll(R) \cup P \cup A \cup O,
           P2 \cap (A2 \cup O2) = {}, A2 \cap O2 = {}
    PROVE  SharedOut(B, P2, A2, O2, n)
<1>1. \A b \in B, c \in R : UnitsOf(b) \cap UnitsOf(c) = {}
  BY DEF SharedOut
<1>2. UnitsOfAll(B) \cap UnitsOfAll(R) = {}
  BY <1>1, UnitIn
<1>3. UnitsOfAll(B \cup R) = UnitsOfAll(B) \cup UnitsOfAll(R)
  BY UnitsOfBoth
<1> QED
  BY <1>2, <1>3 DEF SharedOut

-----------------------------------------------------------------------------
(* Free lists.                                                             *)

FreeType == [1 .. Classes -> Seq(Nat)]

LEMMA ListedIn ==
    ASSUME NEW free \in FreeType, NEW b
    PROVE  /\ b \in BlocksOf(free) <=>
                 \E i \in 1 .. Classes : \E k \in 1 .. Len(free[i]) : b = <<free[i][k], i>>
           /\ b \in BlocksOf(free) => b \in Block
<1>1. ASSUME NEW i \in 1 .. Classes
      PROVE  /\ DOMAIN free[i] = 1 .. Len(free[i])
             /\ \A k \in 1 .. Len(free[i]) : free[i][k] \in Nat
             /\ i \in Nat \ {0}
  <2>1. free[i] \in Seq(Nat) /\ i \in Nat \ {0}
    BY ArenaAssumption DEF FreeType
  <2> QED
    BY <2>1, LenProperties, ElementOfSeq
<1>2. b \in BlocksOf(free) <=>
         \E i \in 1 .. Classes : \E k \in 1 .. Len(free[i]) : b = <<free[i][k], i>>
  BY <1>1 DEF BlocksOf, ToSet
<1> QED
  BY <1>1, <1>2 DEF Block

\* Taking the first block off a list.
LEMMA PopList ==
    ASSUME NEW free \in FreeType, ListedOnce(free),
           NEW i \in 1 .. Classes, free[i] # << >>
    PROVE  LET f == [free EXCEPT ![i] = Tail(@)]
               b == <<Head(free[i]), i>>
           IN  /\ f \in FreeType /\ ListedOnce(f) /\ b \in Block
               /\ BlocksOf(free) = BlocksOf(f) \cup {b} /\ b \notin BlocksOf(f)
<1> DEFINE f == [free EXCEPT ![i] = Tail(@)]
           b == <<Head(free[i]), i>>
<1>1. /\ free[i] \in Seq(Nat) /\ Len(free[i]) \in Nat \ {0}
      /\ Tail(free[i]) \in Seq(Nat) /\ Head(free[i]) = free[i][1]
      /\ Len(Tail(free[i])) = Len(free[i]) - 1
      /\ \A k \in 1 .. Len(Tail(free[i])) : Tail(free[i])[k] = free[i][k + 1]
  <2>1. free[i] \in Seq(Nat)
    BY DEF FreeType
  <2> QED
    BY <2>1, EmptySeq, HeadTailProperties
<1>2. /\ f \in FreeType /\ f[i] = Tail(free[i])
      /\ \A j \in 1 .. Classes \ {i} : f[j] = free[j]
  BY <1>1 DEF FreeType
<1>3. \A k, l \in 1 .. Len(free[i]) : free[i][k] = free[i][l] => k = l
  BY <1>1, LenProperties DEF ListedOnce, IsInjective
<1>4. IsInjective(Tail(free[i]))
  <2>1. DOMAIN Tail(free[i]) = 1 .. Len(free[i]) - 1
    BY <1>1, LenProperties
  <2>2. ASSUME NEW k \in 1 .. Len(free[i]) - 1, NEW l \in 1 .. Len(free[i]) - 1,
               Tail(free[i])[k] = Tail(free[i])[l]
        PROVE  k = l
    <3>1. k + 1 \in 1 .. Len(free[i]) /\ l + 1 \in 1 .. Len(free[i])
      BY <1>1
    <3>2. free[i][k + 1] = free[i][l + 1]
      BY <1>1, <2>2
    <3> QED
      BY <1>3, <3>1, <3>2
  <2> QED
    BY <2>1, <2>2 DEF IsInjective
<1>5. ListedOnce(f)
  BY <1>2, <1>4 DEF ListedOnce
<1>2a. f \in FreeType
  BY <1>2
<1>2b. ASSUME NEW k \in 1 .. Len(f[i])
      PROVE  k + 1 \in 1 .. Len(free[i]) /\ f[i][k] = free[i][k + 1] /\ k + 1 # 1
  <2> HIDE DEF f
  <2>1. k \in 1 .. Len(Tail(free[i]))
    BY <1>2
  <2> QED
    BY <1>1, <1>2, <2>1
<1> HIDE DEF f
<1>6. ASSUME NEW c
      PROVE  c \in BlocksOf(free) <=> c \in BlocksOf(f) \/ c = b
  <2>1. c \in BlocksOf(f) => c \in BlocksOf(free)
    <3> SUFFICES ASSUME c \in BlocksOf(f) PROVE c \in BlocksOf(free)
      OBVIOUS
    <3>1. PICK j \in 1 .. Classes : \E k \in 1 .. Len(f[j]) : c = <<f[j][k], j>>
      BY <1>2a, ListedIn
    <3>2. CASE j = i
      <4>1. PICK k \in 1 .. Len(f[i]) : c = <<f[i][k], i>>
        BY <3>1, <3>2
      <4> QED
        BY <1>2b, <4>1, ListedIn
    <3>3. CASE j # i
      BY <1>2, <3>1, <3>3, ListedIn
    <3> QED
      BY <3>2, <3>3
  <2>2. b \in BlocksOf(free)
    <3>1. 1 \in 1 .. Len(free[i])
      BY <1>1
    <3> QED
      BY <1>1, <3>1, ListedIn
  <2>3. c \in BlocksOf(free) => c \in BlocksOf(f) \/ c = b
    <3> SUFFICES ASSUME c \in BlocksOf(free) PROVE c \in BlocksOf(f) \/ c = b
      OBVIOUS
    <3>1. PICK j \in 1 .. Classes : \E k \in 1 .. Len(free[j]) : c = <<free[j][k], j>>
      BY ListedIn
    <3>2. CASE j = i
      <4>1. PICK k \in 1 .. Len(free[i]) : c = <<free[i][k], i>>
        BY <3>1, <3>2
      <4>2. CASE k = 1
        BY <1>1, <4>1, <4>2
      <4>3. CASE k # 1
        <5>1. k - 1 \in 1 .. Len(f[i]) /\ f[i][k - 1] = free[i][k]
          BY <1>1, <1>2, <4>3, SMTT(30)
        <5> QED
          BY <1>2, <4>1, <5>1, ListedIn
      <4> QED
        BY <4>2, <4>3
    <3>3. CASE j # i
      BY <1>2, <3>1, <3>3, ListedIn
    <3> QED
      BY <3>2, <3>3
  <2> QED
    BY <2>1, <2>2, <2>3
<1>7. b \notin BlocksOf(f)
  <2> SUFFICES ASSUME b \in BlocksOf(f) PROVE FALSE
    OBVIOUS
  <2>1. PICK j \in 1 .. Classes : \E k \in 1 .. Len(f[j]) : b = <<f[j][k], j>>
    BY <1>2a, ListedIn
  <2>2. PICK k \in 1 .. Len(f[i]) : free[i][1] = f[i][k]
    BY <1>1, <2>1
  <2>3. 1 \in 1 .. Len(free[i])
    BY <1>1
  <2> QED
    BY <1>3, <1>2b, <2>2, <2>3
<1>8. b \in Block
  BY <1>6, ListedIn
<1>9. BlocksOf(free) = BlocksOf(f) \cup {b}
  BY <1>6
<1> QED
  BY <1>2, <1>5, <1>7, <1>8, <1>9 DEF f

\* A list is replaced by another.
LEMMA SetList ==
    ASSUME NEW free \in FreeType, ListedOnce(free), NEW i \in 1 .. Classes,
           NEW list \in Seq(Nat), IsInjective(list)
    PROVE  LET f == [free EXCEPT ![i] = list]
               old == {<<a, i>> : a \in ToSet(free[i])}
           IN  /\ f \in FreeType /\ ListedOnce(f)
               /\ BlocksOf(f) = (BlocksOf(free) \ old)
                                    \cup {<<list[k], i>> : k \in 1 .. Len(list)}
               /\ old \subseteq BlocksOf(free)
<1> DEFINE f == [free EXCEPT ![i] = list]
           old == {<<a, i>> : a \in ToSet(free[i])}
<1>1. /\ f \in FreeType /\ f[i] = list
      /\ \A j \in 1 .. Classes \ {i} : f[j] = free[j]
  BY DEF FreeType
<1>2. ListedOnce(f)
  BY <1>1 DEF ListedOnce
<1> HIDE DEF f
<1>3. \A b : b \in old <=> \E k \in 1 .. Len(free[i]) : b = <<free[i][k], i>>
  <2>1. DOMAIN free[i] = 1 .. Len(free[i])
    BY LenProperties DEF FreeType
  <2> QED
    BY <2>1 DEF ToSet
<1> HIDE DEF old
<1>4. old \subseteq BlocksOf(free)
  BY <1>3, ListedIn
<1>5. ASSUME NEW b
      PROVE  b \in BlocksOf(f) <=> \/ b \in BlocksOf(free) /\ b \notin old
                                   \/ b \in {<<list[k], i>> : k \in 1 .. Len(list)}
  <2>1. CASE b \in BlocksOf(f)
    <3>1. PICK j \in 1 .. Classes : \E k \in 1 .. Len(f[j]) : b = <<f[j][k], j>>
      BY <1>1, <2>1, ListedIn
    <3>2. CASE j = i
      BY <1>1, <2>1, <3>1, <3>2
    <3>3. CASE j # i
      BY <1>1, <1>3, <2>1, <3>1, <3>3, ListedIn
    <3> QED
      BY <3>2, <3>3
  <2>2. CASE b \in BlocksOf(free) /\ b \notin old
    <3>1. PICK j \in 1 .. Classes : \E k \in 1 .. Len(free[j]) : b = <<free[j][k], j>>
      BY <2>2, ListedIn
    <3>2. j # i
      BY <1>3, <2>2, <3>1
    <3> QED
      BY <1>1, <2>2, <3>1, <3>2, ListedIn
  <2>3. CASE b \in {<<list[k], i>> : k \in 1 .. Len(list)}
    BY <1>1, <2>3, ListedIn
  <2> QED
    BY <2>1, <2>2, <2>3
<1>6. BlocksOf(f) = (BlocksOf(free) \ old)
                       \cup {<<list[k], i>> : k \in 1 .. Len(list)}
  BY <1>5
<1> QED
  BY <1>1, <1>2, <1>4, <1>6 DEF f, old

\* A block is put in front of its list.
LEMMA PushList ==
    ASSUME NEW free \in FreeType, ListedOnce(free), NEW i \in 1 .. Classes,
           NEW a \in Nat, <<a, i>> \notin BlocksOf(free)
    PROVE  LET f == [free EXCEPT ![i] = <<a>> \o @]
           IN  /\ f \in FreeType /\ ListedOnce(f)
               /\ BlocksOf(f) = BlocksOf(free) \cup {<<a, i>>}
<1> DEFINE s == free[i]
           list == <<a>> \o s
<1>1. /\ s \in Seq(Nat) /\ Len(s) \in Nat /\ DOMAIN s = 1 .. Len(s)
      /\ list \in Seq(Nat) /\ Len(list) = Len(s) + 1
      /\ DOMAIN list = 1 .. Len(s) + 1
      /\ \A k \in 1 .. Len(s) + 1 : list[k] = IF k = 1 THEN a ELSE s[k - 1]
  <2>1. s \in Seq(Nat) /\ <<a>> \in Seq(Nat) /\ Len(<<a>>) = 1 /\ <<a>>[1] = a
    BY DEF FreeType
  <2>2. /\ Len(s) \in Nat /\ DOMAIN s = 1 .. Len(s) /\ list \in Seq(Nat)
        /\ Len(list) = 1 + Len(s)
    BY <2>1, LenProperties, ConcatProperties
  <2>3. ASSUME NEW k \in 1 .. Len(s) + 1
        PROVE  list[k] = IF k = 1 THEN a ELSE s[k - 1]
    <3>1. k \in 1 .. Len(<<a>>) + Len(s) /\ (k <= Len(<<a>>) <=> k = 1)
      BY <2>1, <2>2
    <3> HIDE DEF s
    <3>2. list[k] = IF k <= Len(<<a>>) THEN <<a>>[k] ELSE s[k - Len(<<a>>)]
      BY <2>1, <3>1, ConcatProperties
    <3> QED
      BY <2>1, <3>1, <3>2
  <2> QED
    BY <2>1, <2>2, <2>3, LenProperties
<1>2. \A k \in 1 .. Len(s) : s[k] # a
  BY ListedIn
<1>3. \A k, l \in 1 .. Len(s) : s[k] = s[l] => k = l
  BY <1>1 DEF ListedOnce, IsInjective
<1>4. IsInjective(list)
  <2> SUFFICES ASSUME NEW k \in 1 .. Len(s) + 1, NEW l \in 1 .. Len(s) + 1,
                      list[k] = list[l]
               PROVE  k = l
    BY <1>1 DEF IsInjective
  <2> HIDE DEF s, list
  <2>1. CASE k = 1 \/ l = 1
    BY <1>1, <1>2, <2>1
  <2>2. CASE k # 1 /\ l # 1
    <3>1. k - 1 \in 1 .. Len(s) /\ l - 1 \in 1 .. Len(s) /\ s[k - 1] = s[l - 1]
      BY <1>1, <2>2
    <3>2. k - 1 = l - 1
      BY <1>3, <3>1
    <3> QED
      BY <3>2
  <2> QED
    BY <2>1, <2>2
<1> DEFINE f == [free EXCEPT ![i] = list]
           old == {<<x, i>> : x \in ToSet(free[i])}
           new == {<<list[k], i>> : k \in 1 .. Len(list)}
<1>5. new = old \cup {<<a, i>>}
  <2>1. ASSUME NEW b
        PROVE  b \in new <=> b \in old \/ b = <<a, i>>
    <3>1. b \in old <=> \E k \in 1 .. Len(s) : b = <<s[k], i>>
      <4>1. DOMAIN s = 1 .. Len(s)
        BY <1>1
      <4> QED
        BY <4>1 DEF ToSet
    <3> HIDE DEF s, list, old
    <3>2. ASSUME b \in new PROVE b \in old \/ b = <<a, i>>
      <4>1. PICK k \in 1 .. Len(s) + 1 : b = <<list[k], i>>
        BY <1>1, <3>2
      <4>2. k # 1 => k - 1 \in 1 .. Len(s) /\ list[k] = s[k - 1]
        BY <1>1
      <4> QED
        BY <1>1, <3>1, <4>1, <4>2
    <3>3. <<a, i>> \in new
      <4>1. 1 \in 1 .. Len(list) /\ list[1] = a
        BY <1>1
      <4> QED
        BY <4>1
    <3>4. ASSUME NEW k \in 1 .. Len(s) PROVE <<s[k], i>> \in new
      <4>1. k + 1 \in 1 .. Len(list) /\ list[k + 1] = s[k]
        BY <1>1, SMTT(30)
      <4> QED
        BY <4>1
    <3> QED
      BY <3>1, <3>2, <3>3, <3>4
  <2> QED
    BY <2>1
<1>6. /\ f \in FreeType /\ ListedOnce(f)
      /\ BlocksOf(f) = (BlocksOf(free) \ old) \cup new
      /\ old \subseteq BlocksOf(free)
  <2> HIDE DEF s, list
  <2> QED
    BY <1>1, <1>4, SetList
<1>7. BlocksOf(f) = BlocksOf(free) \cup {<<a, i>>}
  <2> HIDE DEF f, old, new, list, s
  <2> QED
    BY <1>5, <1>6
<1> QED
  BY <1>6, <1>7

-----------------------------------------------------------------------------
(* Chunks of the pool.                                                     *)

\* The blocks of a chunk.
ChunkOf(at, objs, size) == {<<at + k * size, size>> : k \in 0 .. objs - 1}

\* A chunk is its blocks, side by side, none of them twice.
LEMMA ChunkBlocks ==
    ASSUME NEW at \in Nat, NEW objs \in Nat \ {0}, NEW size \in Nat \ {0}
    PROVE  LET run == ChunkOf(at, objs, size)
           IN  /\ run \subseteq Block /\ <<at, size>> \in run /\ Apart(run)
               /\ UnitsOfAll(run) = at .. at + size * objs - 1
<1> DEFINE run == ChunkOf(at, objs, size)
<1>1. ASSUME NEW k \in 0 .. objs - 1
      PROVE  /\ k \in Nat /\ size * k \in Nat /\ k * size = size * k
             /\ size * k + size <= size * objs
             /\ <<at + k * size, size>> \in Block
             /\ UnitsOf(<<at + k * size, size>>)
                  = at + size * k .. at + size * k + size - 1
  <2>1. k \in Nat /\ k < objs /\ k * size = size * k
    OBVIOUS
  <2>2. size * k \in Nat /\ size * k + size <= size * objs
    BY <2>1, TimesGrows
  <2>3. at + k * size \in Nat
    BY <2>1, <2>2
  <2> QED
    BY <2>1, <2>2, <2>3 DEF Block, UnitsOf
<1>2. run \subseteq Block
  BY <1>1 DEF ChunkOf
<1>3. <<at, size>> \in run
  <2>1. 0 \in 0 .. objs - 1 /\ at + 0 * size = at
    OBVIOUS
  <2> QED
    BY <2>1 DEF ChunkOf
<1>4. ASSUME NEW b \in run, NEW c \in run, b # c
      PROVE  UnitsOf(b) \cap UnitsOf(c) = {}
  <2>1. PICK k \in 0 .. objs - 1 : b = <<at + k * size, size>>
    BY DEF ChunkOf
  <2>2. PICK l \in 0 .. objs - 1 : c = <<at + l * size, size>>
    BY DEF ChunkOf
  <2>3. k \in Nat /\ l \in Nat /\ (k < l \/ l < k)
    BY <1>4, <2>1, <2>2
  <2>4. /\ k < l => size * k + size <= size * l
        /\ l < k => size * l + size <= size * k
    BY <2>3, TimesGrows
  <2>5. /\ size * k \in Nat /\ size * l \in Nat
        /\ UnitsOf(b) = at + size * k .. at + size * k + size - 1
        /\ UnitsOf(c) = at + size * l .. at + size * l + size - 1
    BY <1>1, <2>1, <2>2
  <2> DEFINE m == size * k
             n == size * l
  <2> HIDE DEF m, n, run
  <2>6. /\ m \in Nat /\ n \in Nat /\ (m + size <= n \/ n + size <= m)
        /\ UnitsOf(b) = at + m .. at + m + size - 1
        /\ UnitsOf(c) = at + n .. at + n + size - 1
    BY <2>3, <2>4, <2>5 DEF m, n
  <2> QED
    BY <2>6
<1>5. ASSUME NEW u PROVE u \in UnitsOfAll(run) <=> u \in at .. at + size * objs - 1
  <2>1. ASSUME u \in UnitsOfAll(run) PROVE u \in at .. at + size * objs - 1
    <3>1. PICK b \in run : u \in UnitsOf(b)
      BY <2>1, UnitIn
    <3>2. PICK k \in 0 .. objs - 1 : b = <<at + k * size, size>>
      BY DEF ChunkOf
    <3>3. /\ size * k \in Nat /\ size * k + size <= size * objs
          /\ u \in at + size * k .. at + size * k + size - 1
      BY <1>1, <3>1, <3>2
    <3>4. size * objs \in Nat
      OBVIOUS
    <3> DEFINE m == size * k
               n == size * objs
    <3> HIDE DEF m, n
    <3>5. /\ m \in Nat /\ n \in Nat /\ m + size <= n
          /\ u \in at + m .. at + m + size - 1
      BY <3>3, <3>4 DEF m, n
    <3>6. u \in at .. at + n - 1
      BY <3>5
    <3> QED
      BY <3>6 DEF n
  <2>2. ASSUME u \in at .. at + size * objs - 1 PROVE u \in UnitsOfAll(run)
    <3> DEFINE n == size * objs
    <3>1. n \in Nat
      OBVIOUS
    <3> DEFINE v == u - at
    <3>2. v \in Nat /\ v < n /\ u = at + v
      <4> HIDE DEF n
      <4>1. u \in at .. at + n - 1
        BY <2>2 DEF n
      <4> QED
        BY <3>1, <4>1
    <3> DEFINE k == v \div size
    <3> HIDE DEF v
    <3>3. /\ k \in Nat /\ size * k \in Nat
          /\ size * k <= v /\ v < size * k + size
      BY <3>2, Division
    <3> HIDE DEF k
    <3>4. k < objs
      <4>1. CASE k = objs
        BY <3>1, <3>2, <3>3, <4>1 DEF n
      <4>2. CASE objs < k
        <5>1. n + size <= size * k
          BY <3>3, <4>2, TimesGrows DEF n
        <5> QED
          BY <3>1, <3>2, <3>3, <5>1
      <4> QED
        BY <3>3, <4>1, <4>2
    <3>5. k \in 0 .. objs - 1
      BY <3>3, <3>4
    <3> DEFINE m == size * k
    <3>6. m \in Nat /\ u \in at + m .. at + m + size - 1
      <4> HIDE DEF m
      <4>1. m \in Nat /\ m <= v /\ v < m + size
        BY <3>3 DEF m
      <4> QED
        BY <3>2, <4>1
    <3>7. u \in UnitsOf(<<at + k * size, size>>)
      BY <1>1, <3>5, <3>6
    <3>8. <<at + k * size, size>> \in run
      BY <3>5 DEF ChunkOf
    <3> QED
      BY <3>7, <3>8, UnitIn
  <2> QED
    BY <2>1, <2>2
<1>6. UnitsOfAll(run) = at .. at + size * objs - 1
  BY <1>5
<1>7. Apart(run)
  BY <1>2, <1>4, HasUnit DEF Apart
<1> QED
  BY <1>2, <1>3, <1>6, <1>7

\* refill() links all of them but the first.
LEMMA LinkedBlocks ==
    ASSUME NEW at \in Nat, NEW objs \in Nat \ {0}, NEW size \in Nat \ {0}
    PROVE  LET list == Linked(at, objs, size)
           IN  /\ list \in Seq(Nat) /\ IsInjective(list)
               /\ {<<list[k], size>> : k \in 1 .. Len(list)}
                    = ChunkOf(at, objs, size) \ {<<at, size>>}
<1> DEFINE list == Linked(at, objs, size)
<1>1. ASSUME NEW k \in 0 .. objs - 1
      PROVE  k \in Nat /\ size * k \in Nat /\ k * size = size * k
  <2>1. k \in Nat /\ k < objs /\ k * size = size * k
    OBVIOUS
  <2> QED
    BY <2>1, TimesGrows
<1>2. ASSUME NEW k \in 0 .. objs - 1, NEW l \in 0 .. objs - 1, k < l
      PROVE  k * size < l * size
  <2>1. k \in Nat /\ l \in Nat /\ size * k \in Nat /\ size * l \in Nat
    BY <1>1
  <2>2. size * k + size <= size * l
    BY <1>2, <2>1, TimesGrows
  <2> DEFINE m == size * k
             n == size * l
  <2>3. k * size = m /\ l * size = n
    BY <1>1
  <2> HIDE DEF m, n
  <2>4. m \in Nat /\ n \in Nat /\ m + size <= n
    BY <2>1, <2>2 DEF m, n
  <2> QED
    BY <2>3, <2>4
<1>3. \A k \in 1 .. objs - 1 : k \in 0 .. objs - 1 /\ k * size \in Nat
  BY <1>1
<1>4. list \in [1 .. objs - 1 -> Nat]
  BY <1>3 DEF Linked
<1>5. /\ list \in Seq(Nat) /\ Len(list) = objs - 1 /\ DOMAIN list = 1 .. objs - 1
      /\ \A k \in 1 .. objs - 1 : list[k] = at + k * size
  <2>1. objs - 1 \in Nat
    OBVIOUS
  <2>2. list \in Seq(Nat)
    BY <1>4, <2>1, SeqDef
  <2>3. DOMAIN list = 1 .. objs - 1 /\ \A k \in 1 .. objs - 1 : list[k] = at + k * size
    BY DEF Linked
  <2> QED
    BY <2>1, <2>2, <2>3, LenProperties
<1> HIDE DEF list
<1>6. IsInjective(list)
  <2> SUFFICES ASSUME NEW k \in 1 .. objs - 1, NEW l \in 1 .. objs - 1,
                      list[k] = list[l], k # l
               PROVE  FALSE
    BY <1>5 DEF IsInjective
  <2>1. /\ k \in 0 .. objs - 1 /\ l \in 0 .. objs - 1 /\ (k < l \/ l < k)
        /\ k * size \in Nat /\ l * size \in Nat
    BY <1>3
  <2>2. at + k * size = at + l * size
    BY <1>5
  <2>3. k * size < l * size \/ l * size < k * size
    BY <1>2, <2>1
  <2> DEFINE m == k * size
             n == l * size
  <2> HIDE DEF m, n
  <2>4. m \in Nat /\ n \in Nat /\ at + m = at + n /\ (m < n \/ n < m)
    BY <2>1, <2>2, <2>3 DEF m, n
  <2> QED
    BY <2>4
<1>7. ASSUME NEW b
      PROVE  (\E k \in 1 .. objs - 1 : b = <<list[k], size>>)
               <=> b \in ChunkOf(at, objs, size) /\ b # <<at, size>>
  <2>1. ASSUME NEW k \in 1 .. objs - 1, b = <<list[k], size>>
        PROVE  b \in ChunkOf(at, objs, size) /\ b # <<at, size>>
    <3>1. k \in 0 .. objs - 1 /\ b = <<at + k * size, size>>
      BY <1>5, <2>1
    <3>2. 0 \in 0 .. objs - 1 /\ 0 < k /\ 0 * size = 0 /\ k * size \in Nat
      BY <1>3
    <3>3. 0 < k * size
      BY <1>2, <3>1, <3>2
    <3> QED
      BY <3>1, <3>2, <3>3 DEF ChunkOf
  <2>2. ASSUME b \in ChunkOf(at, objs, size), b # <<at, size>>
        PROVE  \E k \in 1 .. objs - 1 : b = <<list[k], size>>
    <3>1. PICK k \in 0 .. objs - 1 : b = <<at + k * size, size>>
      BY <2>2 DEF ChunkOf
    <3>2. k # 0
      BY <2>2, <3>1
    <3>3. k \in 1 .. objs - 1
      BY <3>2
    <3> QED
      BY <1>5, <3>1, <3>3
  <2> QED
    BY <2>1, <2>2
<1>8. {<<list[k], size>> : k \in 1 .. Len(list)}
        = ChunkOf(at, objs, size) \ {<<at, size>>}
  BY <1>5, <1>7
<1> QED
  BY <1>5, <1>6, <1>8 DEF list

\* malloc() gives units that are all free.
LEMMA MallocGives ==
    ASSUME NEW arena \in SUBSET Nat, NEW n, Malloc(arena, n) # 0
    PROVE  /\ Malloc(arena, n) \in Nat
           /\ Malloc(arena, n) .. Malloc(arena, n) + n - 1 \subseteq arena
<1> DEFINE fits == {a \in arena : a .. a + n - 1 \subseteq arena}
<1>1. fits # {} /\ Malloc(arena, n) = Min(fits)
  BY DEF Malloc
<1>2. fits \in SUBSET Nat
  OBVIOUS
<1>3. Min(fits) \in fits
  <2> HIDE DEF fits
  <2> QED
    BY <1>1, <1>2, MinIsMember
<1> QED
  BY <1>1, <1>3

\* malloc() is asked for more than the chunk that is needed.
LEMMA ToGetEnough ==
    ASSUME NEW h \in Nat, NEW size \in Nat \ {0}, NEW objs \in Nat \ {0}
    PROVE  ToGet(h, size * objs) \in Nat \ {0} /\ ToGet(h, size * objs) >= size
<1> DEFINE t == size * objs
<1>1. t \in Nat /\ size <= t
  <2>1. 0 < objs /\ size * 0 = 0
    OBVIOUS
  <2>2. size * 0 + size <= size * objs /\ size * objs \in Nat
    BY <2>1, TimesGrows
  <2> QED
    BY <2>1, <2>2
<1> HIDE DEF t
<1>2. h \div 2 + 7 \in Nat
  OBVIOUS
<1> DEFINE w == h \div 2 + 7
<1>3. w \div 8 \in Nat
  BY <1>2, Division
<1> DEFINE v == w \div 8
<1> HIDE DEF w, v
<1>4. 2 * t + v \in Nat \ {0} /\ 2 * t + v >= size
  BY <1>1, <1>3 DEF v
<1> QED
  BY <1>4 DEF ToGet, t, v, w

-----------------------------------------------------------------------------
(* The allocator.                                                          *)

Heap == [free : FreeType, start : Nat, end : Nat, size : Nat, arena : SUBSET Nat]

\* An allocator's state with the blocks that clients have and the units that
\* are with others.
HeapHolds(m, client, others) ==
    /\ m \in Heap /\ m.start <= m.end
    /\ client \subseteq Block /\ BlocksOf(m.free) \cap client = {}
    /\ ListedOnce(m.free)
    /\ SharedOut(BlocksOf(m.free) \cup client, m.start .. m.end - 1, m.arena, others,
                 Units)

\* A chunk with blocks in it.
Served(chunk, size, client, others) ==
    /\ ~chunk.short /\ chunk.at \in Nat /\ chunk.objs \in Nat \ {0}
    /\ LET run == ChunkOf(chunk.at, chunk.objs, size)
       IN  HeapHolds(chunk.heap, client \cup run, others) /\ client \cap run = {}

\* The request that waits: its pool is empty, and its list too unless a handler
\* has put a block there.
Waits ==
    /\ request.size \in 1 .. MaxSize
    /\ request.frees = {} \/ \E b \in small \cup large : request.frees = {b}
    /\ request.size <= Classes =>
          heap.start = heap.end /\ (reentered \/ heap.free[request.size] = << >>)

AllocIInv ==
    /\ HeapHolds(heap, small \cup large, reserve \cup lost)
    /\ \A b \in small : b[2] \in 1 .. Classes
    /\ \A b \in large : b[2] > Classes
    /\ reserve \cap lost = {} /\ reentered \in BOOLEAN
    /\ lost # {} => reentered
    /\ request = NoRequest \/ Waits

-----------------------------------------------------------------------------
(* Steps of one block.                                                     *)

\* A block with a size among the classes goes to its list.
LEMMA PushHolds ==
    ASSUME NEW m, NEW client, NEW others, NEW b, b \notin client,
           HeapHolds(m, client \cup {b}, others), b[2] \in 1 .. Classes
    PROVE  HeapHolds(Pushed(m, b[2], b[1]), client, others)
<1> DEFINE f == [m.free EXCEPT ![b[2]] = <<b[1]>> \o @]
<1>1. m \in Heap /\ m.free \in FreeType /\ b \in Block /\ b = <<b[1], b[2]>> /\ b[1] \in Nat
  BY DEF HeapHolds, Heap, Block
<1>2. <<b[1], b[2]>> \notin BlocksOf(m.free) /\ ListedOnce(m.free)
  BY <1>1 DEF HeapHolds
<1>3. /\ f \in FreeType /\ ListedOnce(f)
      /\ BlocksOf(f) = BlocksOf(m.free) \cup {<<b[1], b[2]>>}
  BY <1>1, <1>2, PushList
<1>4. Pushed(m, b[2], b[1]) = [m EXCEPT !.free = f]
  BY <1>1 DEF Pushed, Heap
<1> HIDE DEF f
<1>5. LET q == Pushed(m, b[2], b[1])
      IN  q \in Heap /\ q.free = f /\ q.start = m.start /\ q.end = m.end /\ q.arena = m.arena
  BY <1>1, <1>3, <1>4 DEF Heap
<1>6. BlocksOf(f) \cup client = BlocksOf(m.free) \cup (client \cup {b})
  BY <1>1, <1>3
<1>7. BlocksOf(f) \cap client = {}
  BY <1>1, <1>3 DEF HeapHolds
<1> QED
  BY <1>3, <1>5, <1>6, <1>7 DEF HeapHolds

\* The first block of a list goes to a client.
LEMMA PopHolds ==
    ASSUME NEW m, NEW client, NEW others, HeapHolds(m, client, others),
           NEW i \in 1 .. Classes, m.free[i] # << >>
    PROVE  LET b == <<Head(m.free[i]), i>>
           IN  /\ b \in Block /\ b \notin client
               /\ HeapHolds([m EXCEPT !.free[i] = Tail(@)], client \cup {b}, others)
<1> DEFINE f == [m.free EXCEPT ![i] = Tail(@)]
           b == <<Head(m.free[i]), i>>
           q == [m EXCEPT !.free[i] = Tail(@)]
<1>1. m \in Heap /\ m.free \in FreeType /\ ListedOnce(m.free)
  BY DEF HeapHolds, Heap
<1>2. /\ f \in FreeType /\ ListedOnce(f) /\ b \in Block
      /\ BlocksOf(m.free) = BlocksOf(f) \cup {b} /\ b \notin BlocksOf(f)
  BY <1>1, PopList
<1>3. q = [m EXCEPT !.free = f]
  BY <1>1 DEF Heap
<1> HIDE DEF f, b
<1>4. q \in Heap /\ q.free = f /\ q.start = m.start /\ q.end = m.end /\ q.arena = m.arena
  BY <1>1, <1>2, <1>3 DEF Heap
<1>5. BlocksOf(f) \cup (client \cup {b}) = BlocksOf(m.free) \cup client
  BY <1>2
<1>6. b \notin client /\ BlocksOf(f) \cap (client \cup {b}) = {} /\ client \cup {b} \subseteq Block
  BY <1>2 DEF HeapHolds
<1>7. HeapHolds(q, client \cup {b}, others)
  <2> HIDE DEF q
  <2> QED
    BY <1>2, <1>4, <1>5, <1>6 DEF HeapHolds
<1> QED
  BY <1>2, <1>6, <1>7 DEF b

\* Who is given units of the pool or of malloc() has blocks of them.
LEMMA GainHolds ==
    ASSUME NEW m, NEW client, NEW others, HeapHolds(m, client, others),
           NEW q \in Heap, q.free = m.free, q.start <= q.end,
           NEW R \in SUBSET Block, Apart(R),
           Parted(UnitsOfAll(R), m.start .. m.end - 1, m.arena, {},
                  q.start .. q.end - 1, q.arena, {})
    PROVE  HeapHolds(q, client \cup R, others) /\ R \cap client = {}
<1> DEFINE P == m.start .. m.end - 1
           P2 == q.start .. q.end - 1
           B == BlocksOf(m.free) \cup client
<1>1. SharedOut(B, P, m.arena, others, Units) /\ m \in Heap
  BY DEF HeapHolds
<1> HIDE DEF P, P2, B
<1>3. /\ UnitsOfAll(R) \cup P2 \cup q.arena = P \cup m.arena
      /\ UnitsOfAll(R) \cap (P2 \cup q.arena) = {}
      /\ P2 \cap q.arena = {}
  BY DEF P, P2, Parted
<1>4. (P \cup m.arena) \cap others = {}
  BY <1>1 DEF SharedOut
<1>5. Parted(UnitsOfAll(R), P, m.arena, others, P2, q.arena, others)
  BY <1>3, <1>4 DEF Parted
<1>6. SharedOut(B \cup R, P2, q.arena, others, Units) /\ R \cap B = {}
  BY <1>1, <1>5, GainBlocks
<1>7. B \cup R = BlocksOf(q.free) \cup (client \cup R) /\ R \cap client = {}
      /\ BlocksOf(q.free) \cap (client \cup R) = {}
  BY <1>6 DEF B, HeapHolds
<1> QED
  BY <1>6, <1>7 DEF HeapHolds, P2

\* A client's blocks go back to malloc() or become the pool.
LEMMA LoseHolds ==
    ASSUME NEW m, NEW client, NEW others, NEW R, R \cap client = {},
           HeapHolds(m, client \cup R, others),
           NEW q \in Heap, q.free = m.free, q.start <= q.end,
           LET P == m.start .. m.end - 1
               P2 == q.start .. q.end - 1
           IN  /\ P2 \cup q.arena = UnitsOfAll(R) \cup P \cup m.arena
               /\ P2 \cap q.arena = {}
    PROVE  HeapHolds(q, client, others)
<1> DEFINE P == m.start .. m.end - 1
           P2 == q.start .. q.end - 1
           B == BlocksOf(m.free) \cup client
<1>1. SharedOut(B \cup R, P, m.arena, others, Units) /\ m \in Heap /\ B \cap R = {}
  <2>1. B \cup R = BlocksOf(m.free) \cup (client \cup R)
    OBVIOUS
  <2>2. B \cap R = {}
    BY DEF HeapHolds
  <2> QED
    BY <2>1, <2>2 DEF HeapHolds
<1> HIDE DEF P, P2, B
<1>2. P2 \cup q.arena = UnitsOfAll(R) \cup P \cup m.arena /\ P2 \cap q.arena = {}
  BY DEF P, P2
<1>3. (P2 \cup q.arena) \cap others = {}
  <2>1. UnitsOfAll(R) \subseteq UnitsOfAll(B \cup R)
    BY UnitsOfBoth
  <2> QED
    BY <1>1, <1>2, <2>1 DEF SharedOut
<1>4. /\ P2 \cup q.arena \cup others = UnitsOfAll(R) \cup P \cup m.arena \cup others
      /\ P2 \cap (q.arena \cup others) = {} /\ q.arena \cap others = {}
  BY <1>2, <1>3
<1>5. SharedOut(B, P2, q.arena, others, Units)
  BY <1>1, <1>4, LoseBlocks
<1> QED
  BY <1>5 DEF HeapHolds, P2, B

-----------------------------------------------------------------------------
(* What the operations of the allocator keep.                              *)

\* One block, or none, comes back.
LEMMA FreedHolds ==
    ASSUME NEW m, NEW client, NEW others, HeapHolds(m, client, others),
           NEW frees, frees = {} \/ \E b \in client : frees = {b}
    PROVE  /\ HeapHolds(Freed(m, frees), client \ frees, others)
           /\ Freed(m, frees).start = m.start /\ Freed(m, frees).end = m.end
           /\ Freed(m, frees).size = m.size
           /\ frees = {} => Freed(m, frees) = m
<1>1. m \in Heap /\ client \subseteq Block
  BY DEF HeapHolds
<1>2. CASE frees = {}
  <2>1. Freed(m, frees) = m /\ client \ frees = client
    BY <1>2 DEF Freed
  <2> QED
    BY <1>1, <2>1
<1>3. CASE frees # {}
  <2>1. PICK b \in client : frees = {b}
    BY <1>3
  <2>2. (CHOOSE x \in frees : TRUE) = b
    BY <2>1
  <2>3. /\ b \in Block /\ b[1] \in Nat /\ b[2] \in Nat \ {0}
        /\ b \notin client \ frees /\ client = (client \ frees) \cup {b}
        /\ {b} \cap (client \ frees) = {}
    BY <1>1, <2>1 DEF Block
  <2>4. HeapHolds(m, (client \ frees) \cup {b}, others)
    BY <2>3
  <2>5. CASE b[2] > Classes
    <3> DEFINE q == [m EXCEPT !.arena = @ \cup UnitsOf(b)]
    <3>1. Freed(m, frees) = q
      BY <1>3, <2>2, <2>5 DEF Freed
    <3>2. UnitsOf(b) \subseteq Nat /\ UnitsOfAll({b}) = UnitsOf(b)
      BY <2>3, HasUnit, UnitsOfOne
    <3>3. /\ q \in Heap /\ q.free = m.free /\ q.start = m.start /\ q.end = m.end
          /\ q.size = m.size /\ q.arena = m.arena \cup UnitsOf(b)
      BY <1>1, <3>2 DEF Heap
    <3> HIDE DEF q
    <3> DEFINE P == m.start .. m.end - 1
               B == BlocksOf(m.free) \cup client
    <3>4. m.start <= m.end /\ SharedOut(B, P, m.arena, others, Units) /\ b \in B
      BY <2>1 DEF HeapHolds
    <3>5. (m.arena \cup UnitsOf(b)) \cap P = {}
      <4> HIDE DEF P, B
      <4>1. UnitsOf(b) \subseteq UnitsOfAll(B)
        BY <3>4, UnitIn
      <4> QED
        BY <3>4, <4>1 DEF SharedOut
    <3>6. HeapHolds(q, client \ frees, others)
      <4>1. LET P2 == q.start .. q.end - 1
            IN  /\ P2 \cup q.arena = UnitsOfAll({b}) \cup P \cup m.arena
                /\ P2 \cap q.arena = {}
        BY <3>2, <3>3, <3>5
      <4> DEFINE c == client \ frees
      <4>2. {b} \cap c = {} /\ HeapHolds(m, c \cup {b}, others)
        BY <2>3, <2>4
      <4> HIDE DEF c
      <4>3. HeapHolds(q, c, others)
        BY <3>3, <3>4, <4>1, <4>2, LoseHolds
      <4> QED
        BY <4>3 DEF c
    <3> QED
      BY <1>3, <3>1, <3>3, <3>6
  <2>6. CASE ~ (b[2] > Classes)
    <3>1. Freed(m, frees) = Pushed(m, b[2], b[1])
      BY <1>3, <2>2, <2>6 DEF Freed
    <3>2. b[2] \in 1 .. Classes
      BY <2>3, <2>6, ArenaAssumption
    <3>3. HeapHolds(Pushed(m, b[2], b[1]), client \ frees, others)
      <4> DEFINE c == client \ frees
      <4>2. b \notin c /\ HeapHolds(m, c \cup {b}, others)
        BY <2>3, <2>4
      <4> HIDE DEF c
      <4>3. HeapHolds(Pushed(m, b[2], b[1]), c, others)
        BY <3>2, <4>2, PushHolds
      <4> QED
        BY <4>3 DEF c
    <3>4. LET q == Pushed(m, b[2], b[1])
          IN  q.start = m.start /\ q.end = m.end /\ q.size = m.size
      BY <1>1 DEF Pushed, Heap
    <3> QED
      BY <1>3, <3>1, <3>3, <3>4
  <2> QED
    BY <2>5, <2>6
<1> QED
  BY <1>2, <1>3

\* A block of malloc()'s.
LEMMA TookHolds ==
    ASSUME NEW m, NEW client, NEW others, HeapHolds(m, client, others),
           NEW n \in Nat \ {0}, NEW at \in Nat, at .. at + n - 1 \subseteq m.arena
    PROVE  LET b == <<at, n>>
           IN  /\ b \in Block /\ b \notin client
               /\ HeapHolds(Took(m, at, n), client \cup {b}, others)
<1> DEFINE b == <<at, n>>
           q == Took(m, at, n)
<1>1. m \in Heap /\ m.arena \in SUBSET Nat /\ m.start <= m.end
  BY DEF HeapHolds, Heap
<1>2. at \in Nat /\ at .. at + n - 1 \subseteq m.arena
  OBVIOUS
<1>3. /\ b \in Block /\ UnitsOf(b) = at .. at + n - 1 /\ UnitsOfAll({b}) = UnitsOf(b)
      /\ UnitsOf(b) # {}
  <2>1. b \in Block
    BY <1>2 DEF Block
  <2> QED
    BY <2>1, HasUnit, UnitsOfOne DEF UnitsOf
<1>4. /\ q \in Heap /\ q.free = m.free /\ q.start = m.start /\ q.end = m.end
      /\ q.arena = m.arena \ UnitsOf(b)
  BY <1>1, <1>3 DEF Took, Heap
<1> HIDE DEF q, b
<1>5. Apart({b})
  BY <1>3 DEF Apart
<1> DEFINE P == m.start .. m.end - 1
           P2 == q.start .. q.end - 1
<1>6. P \cap m.arena = {} /\ P2 = P
  BY <1>4 DEF HeapHolds, SharedOut
<1>7. Parted(UnitsOfAll({b}), P, m.arena, {}, P2, q.arena, {})
  <2> HIDE DEF P, P2
  <2>1. UnitsOf(b) \subseteq m.arena
    BY <1>2, <1>3
  <2> QED
    BY <1>3, <1>4, <1>6, <2>1 DEF Parted
<1>8. HeapHolds(q, client \cup {b}, others) /\ {b} \cap client = {}
  <2>1. {b} \in SUBSET Block /\ q.start <= q.end
    BY <1>1, <1>3, <1>4
  <2> QED
    BY <1>4, <1>5, <1>7, <2>1, GainHolds
<1> QED
  BY <1>3, <1>8 DEF q, b

\* What filling the pool does to each part of the state.
LEMMA FilledIs ==
    ASSUME NEW m \in Heap, NEW at, NEW n
    PROVE  Filled(m, at, n) = [free |-> m.free, start |-> at, end |-> at + n,
                               size |-> m.size + n,
                               arena |-> m.arena \ (at .. at + n - 1)]
<1> DEFINE U == at .. at + n - 1
           t == Took(m, at, n)
<1>1. t = [free |-> m.free, start |-> m.start, end |-> m.end, size |-> m.size,
           arena |-> m.arena \ U]
  <2>1. t = [m EXCEPT !.arena = @ \ U]
    BY DEF Took
  <2> HIDE DEF t, U
  <2>2. t = [m EXCEPT !.arena = m.arena \ U]
    BY <2>1 DEF Heap
  <2> QED
    BY <2>2 DEF Heap
<1> HIDE DEF t, U
<1>2. Filled(m, at, n) = [t EXCEPT !.start = at, !.end = at + n, !.size = @ + n]
  BY DEF Filled, t
<1> QED
  BY <1>1, <1>2 DEF U

\* Units of malloc() become the pool.
LEMMA FilledHolds ==
    ASSUME NEW m, NEW client, NEW others, HeapHolds(m, client, others),
           m.start = m.end, NEW n \in Nat, Malloc(m.arena, n) # 0
    PROVE  LET q == Filled(m, Malloc(m.arena, n), n)
           IN  /\ HeapHolds(q, client, others)
               /\ q.free = m.free /\ q.end - q.start = n
<1> DEFINE at == Malloc(m.arena, n)
           q == Filled(m, at, n)
<1>1. m \in Heap /\ m.arena \in SUBSET Nat /\ m.start \in Nat /\ m.size \in Nat
  BY DEF HeapHolds, Heap
<1>2. at \in Nat /\ at .. at + n - 1 \subseteq m.arena
  BY <1>1, MallocGives
<1> HIDE DEF at
<1> DEFINE U == at .. at + n - 1
<1>3. /\ q \in Heap /\ q.free = m.free /\ q.start = at /\ q.end = at + n
      /\ q.arena = m.arena \ U
  <2>1. at + n \in Nat /\ m.size + n \in Nat
    BY <1>1, <1>2
  <2> DEFINE t == Took(m, at, n)
  <2>2. t \in Heap /\ t.free = m.free /\ t.size = m.size /\ t.arena = m.arena \ U
    BY <1>1 DEF Took, Heap
  <2>3. q = [t EXCEPT !.start = at, !.end = at + n, !.size = @ + n]
    BY DEF Filled
  <2> HIDE DEF t, q
  <2> QED
    BY <1>1, <1>2, <2>1, <2>2, <2>3 DEF Heap
<1> HIDE DEF q
<1> DEFINE P == m.start .. m.end - 1
           P2 == q.start .. q.end - 1
<1>4. P = {} /\ P2 = U
  <2>1. m.start .. m.end - 1 = {}
    BY <1>1
  <2>2. q.start = at /\ q.end = at + n
    BY <1>3
  <2>3. q.start .. q.end - 1 = at .. at + n - 1
    BY <1>2, <2>2
  <2> QED
    BY <2>1, <2>3
<1>5. Apart({}) /\ UnitsOfAll({}) = {} /\ {} \in SUBSET Block /\ q.start <= q.end
  BY <1>2, <1>3, UnitsOfNone DEF Apart
<1>6. Parted(UnitsOfAll({}), P, m.arena, {}, P2, q.arena, {})
  <2>1. q.arena = m.arena \ U
    BY <1>3
  <2>2. U \subseteq m.arena
    BY <1>2
  <2> HIDE DEF P, P2, U
  <2> QED
    BY <1>4, <1>5, <2>1, <2>2 DEF Parted
<1>7. HeapHolds(q, client \cup {}, others)
  BY <1>3, <1>5, <1>6, GainHolds
<1>8. client \cup {} = client
  OBVIOUS
<1> QED
  BY <1>2, <1>3, <1>7, <1>8 DEF q, at

\* It does not matter where an empty pool is.
LEMMA EmptyPool ==
    ASSUME NEW m, NEW client, NEW others, HeapHolds(m, client, others),
           m.start = m.end,
           NEW q \in Heap, q.free = m.free, q.start = q.end, q.arena = m.arena
    PROVE  HeapHolds(q, client, others)
<1>1. m.start .. m.end - 1 = {}
  BY DEF HeapHolds, Heap
<1>2. q.start .. q.end - 1 = {} /\ q.start <= q.end
  BY DEF Heap
<1>3. SharedOut(BlocksOf(q.free) \cup client, {}, q.arena, others, Units)
  BY <1>1 DEF HeapHolds
<1>4. SharedOut(BlocksOf(q.free) \cup client, q.start .. q.end - 1, q.arena, others, Units)
  BY <1>2, <1>3
<1> QED
  BY <1>2, <1>4 DEF HeapHolds

\* What is left of the pool goes to a free list.
LeftListed(m) == IF m.end - m.start > 0 THEN Pushed(m, m.end - m.start, m.start) ELSE m
Emptied(m) == [LeftListed(m) EXCEPT !.start = 0, !.end = 0]

LEMMA EmptiedHolds ==
    ASSUME NEW m, NEW client, NEW others, HeapHolds(m, client, others),
           NEW size \in 1 .. Classes, m.end - m.start < size
    PROVE  /\ HeapHolds(Emptied(m), client, others)
           /\ LeftListed(m) \in Heap
           /\ Emptied(m).start = 0 /\ Emptied(m).end = 0
           /\ Emptied(m).arena = m.arena /\ Emptied(m).size = m.size
           /\ \A i \in 1 .. Classes : i >= size => Emptied(m).free[i] = m.free[i]
<1> DEFINE left == m.end - m.start
           q == [m EXCEPT !.start = m.end]
           b == <<m.start, left>>
<1>1. /\ m \in Heap /\ m.start \in Nat /\ m.end \in Nat /\ m.start <= m.end
      /\ left \in Nat /\ size \in Nat /\ left < size /\ size <= Classes /\ Classes \in Nat
      /\ m.free \in FreeType
  BY ArenaAssumption DEF HeapHolds, Heap
<1>2. CASE left = 0
  <2>1. LeftListed(m) = m
    BY <1>2 DEF LeftListed
  <2> DEFINE e == [m EXCEPT !.start = 0, !.end = 0]
  <2>2. /\ Emptied(m) = e /\ e \in Heap /\ e.free = m.free /\ e.start = 0 /\ e.end = 0
        /\ e.arena = m.arena /\ e.size = m.size
    BY <1>1, <2>1 DEF Emptied, Heap
  <2> HIDE DEF e
  <2>3. m.start = m.end
    BY <1>1, <1>2
  <2>4. HeapHolds(e, client, others)
    BY <2>2, <2>3, EmptyPool
  <2> QED
    BY <1>1, <2>1, <2>2, <2>4
<1>3. CASE left # 0
  <2>1. left \in 1 .. Classes /\ left > 0
    BY <1>1, <1>3
  <2>2. /\ q \in Heap /\ q.free = m.free /\ q.start = m.end /\ q.end = m.end
        /\ q.arena = m.arena /\ q.size = m.size
    BY <1>1 DEF Heap
  <2>3. /\ b \in Block /\ UnitsOfAll({b}) = m.start .. m.end - 1 /\ Apart({b})
        /\ b[1] = m.start /\ b[2] = left
    <3>1. b \in Block
      BY <1>1, <2>1 DEF Block
    <3>2. UnitsOf(b) = m.start .. m.end - 1
      BY <1>1 DEF UnitsOf
    <3> QED
      BY <3>1, <3>2, HasUnit, UnitsOfOne DEF Apart
  <2> HIDE DEF b, left, q
  <2>4. HeapHolds(q, client \cup {b}, others) /\ {b} \cap client = {}
    <3>1. q.start .. q.end - 1 = {} /\ q.start <= q.end
      BY <1>1, <2>2
    <3>2. (m.start .. m.end - 1) \cap m.arena = {}
      BY DEF HeapHolds, SharedOut
    <3> DEFINE P == m.start .. m.end - 1
               P2 == q.start .. q.end - 1
    <3>3. Parted(UnitsOfAll({b}), P, m.arena, {}, P2, q.arena, {})
      <4>1. P2 = {} /\ UnitsOfAll({b}) = P /\ q.arena = m.arena /\ P \cap m.arena = {}
        BY <2>2, <2>3, <3>1, <3>2
      <4> HIDE DEF P, P2
      <4> QED
        BY <4>1 DEF Parted
    <3>4. {b} \in SUBSET Block
      BY <2>3
    <3> QED
      BY <2>2, <2>3, <3>1, <3>3, <3>4, GainHolds
  <2> DEFINE g == Pushed(q, b[2], b[1])
  <2>5. HeapHolds(g, client, others)
    BY <2>1, <2>3, <2>4, PushHolds
  <2>6. /\ LeftListed(m) = Pushed(m, left, m.start) /\ LeftListed(m) \in Heap
        /\ Emptied(m) = [g EXCEPT !.start = 0, !.end = 0]
        /\ g \in Heap /\ g.start = m.end /\ g.end = m.end /\ g.arena = m.arena
        /\ g.size = m.size
        /\ \A i \in 1 .. Classes : i # left => g.free[i] = m.free[i]
    <3>1. LeftListed(m) = Pushed(m, left, m.start)
      BY <2>1 DEF LeftListed, left
    <3>2. g \in Heap
      BY <2>5 DEF HeapHolds
    <3>3. Pushed(m, left, m.start) = [g EXCEPT !.start = m.start]
      BY <1>1, <2>2, <2>3 DEF q, Pushed, Heap
    <3>4. /\ g.start = m.end /\ g.end = m.end /\ g.arena = m.arena /\ g.size = m.size
          /\ \A i \in 1 .. Classes : i # left => g.free[i] = m.free[i]
      BY <1>1, <2>1, <2>2, <2>3 DEF Pushed, Heap, FreeType
    <3> HIDE DEF g
    <3>5. LeftListed(m) = [g EXCEPT !.start = m.start]
      BY <3>1, <3>3
    <3>6. LeftListed(m) \in Heap
      BY <1>1, <3>2, <3>5 DEF Heap
    <3>7. Emptied(m) = [g EXCEPT !.start = 0, !.end = 0]
      BY <3>2, <3>5 DEF Emptied, Heap
    <3> QED
      BY <3>1, <3>2, <3>4, <3>6, <3>7
  <2> HIDE DEF g
  <2> DEFINE e == [g EXCEPT !.start = 0, !.end = 0]
  <2>7. /\ e \in Heap /\ e.free = g.free /\ e.start = 0 /\ e.end = 0
        /\ e.arena = g.arena /\ e.size = g.size
    BY <2>6 DEF Heap
  <2>8. e = Emptied(m)
    BY <2>6
  <2> HIDE DEF e
  <2>9. HeapHolds(e, client, others)
    BY <2>5, <2>6, <2>7, EmptyPool
  <2>10. \A i \in 1 .. Classes : i >= size => i # left
    BY <1>1 DEF left
  <2> QED
    BY <2>6, <2>7, <2>8, <2>9, <2>10
<1> QED
  BY <1>2, <1>3

\* A chunk is carved from a pool that has a block.
LEMMA FromPoolServes ==
    ASSUME NEW m, NEW client, NEW others, HeapHolds(m, client, others),
           NEW size \in 1 .. Classes, m.end - m.start >= size,
           NEW objs \in Nat \ {0}
    PROVE  /\ Served(FromPool(m, size, objs), size, client, others)
           /\ FromPool(m, size, objs).heap.free = m.free
<1> DEFINE left == m.end - m.start
           k == IF left >= size * objs THEN objs ELSE left \div size
           q == [m EXCEPT !.start = @ + size * k]
           run == ChunkOf(m.start, k, size)
           chunk == FromPool(m, size, objs)
<1>1. /\ m \in Heap /\ m.start \in Nat /\ m.end \in Nat /\ left \in Nat
      /\ size \in Nat \ {0} /\ left >= size
  BY ArenaAssumption DEF HeapHolds, Heap
<1>2. k \in Nat \ {0} /\ size * k \in Nat /\ size * k <= left
  <2> HIDE DEF left
  <2>1. size * objs \in Nat
    BY <1>1
  <2>2. CASE left >= size * objs
    BY <1>1, <2>1, <2>2
  <2>3. CASE ~ (left >= size * objs)
    <3> DEFINE d == left \div size
    <3>1. d \in Nat /\ size * d \in Nat /\ size * d <= left /\ left < size * d + size
      BY <1>1, Division
    <3>2. k = d
      BY <2>3
    <3> HIDE DEF d, k
    <3>3. d # 0
      <4>1. d = 0 => size * d = 0
        BY <1>1
      <4> QED
        BY <1>1, <3>1, <4>1
    <3> QED
      BY <3>1, <3>2, <3>3
  <2> QED
    BY <2>2, <2>3
<1>3. chunk = [heap |-> q, at |-> m.start, objs |-> k, short |-> FALSE]
  BY DEF FromPool, Carved
<1> DEFINE n == size * k
<1> HIDE DEF k
<1>4. n \in Nat /\ n <= m.end - m.start
  BY <1>2
<1>5. /\ run \subseteq Block /\ Apart(run)
      /\ UnitsOfAll(run) = m.start .. m.start + n - 1
  BY <1>1, <1>2, ChunkBlocks
<1> HIDE DEF n, run
<1>6. /\ q \in Heap /\ q.free = m.free /\ q.start = m.start + n /\ q.end = m.end
      /\ q.arena = m.arena
  <2>1. q = [m EXCEPT !.start = m.start + n]
    BY <1>1 DEF n, Heap
  <2>2. m.start + n \in Nat
    BY <1>1, <1>4
  <2> HIDE DEF q
  <2> QED
    BY <1>1, <2>1, <2>2 DEF Heap
<1> HIDE DEF q
<1>7. Parted(UnitsOfAll(run), m.start .. m.end - 1, m.arena, {},
             q.start .. q.end - 1, q.arena, {})
  <2> DEFINE P == m.start .. m.end - 1
             P2 == q.start .. q.end - 1
             U == m.start .. m.start + n - 1
  <2>1. P = U \cup P2 /\ U \cap P2 = {}
    BY <1>1, <1>4, <1>6
  <2>2. P \cap m.arena = {}
    BY DEF HeapHolds, SharedOut
  <2> HIDE DEF P, P2
  <2>3. UnitsOfAll(run) = U
    BY <1>5
  <2> HIDE DEF U
  <2>4. Parted(UnitsOfAll(run), P, m.arena, {}, P2, q.arena, {})
    BY <1>6, <2>1, <2>2, <2>3 DEF Parted
  <2> QED
    BY <2>4 DEF P, P2
<1>8. HeapHolds(q, client \cup run, others) /\ run \cap client = {}
  <2>1. q.start <= q.end
    BY <1>1, <1>4, <1>6
  <2> QED
    BY <1>5, <1>6, <1>7, <2>1, GainHolds
<1> HIDE DEF chunk
<1> QED
  BY <1>1, <1>2, <1>3, <1>6, <1>8 DEF Served, chunk, run

\* The first block is the caller's, the others are its free list; who was on it
\* is lost.
LEMMA RefilledHolds ==
    ASSUME NEW chunk, NEW client, NEW others, NEW size \in 1 .. Classes,
           Served(chunk, size, client, others)
    PROVE  /\ HeapHolds(Refilled(chunk, size), client \cup {<<chunk.at, size>>},
                        others \cup Overwritten(chunk, size))
           /\ <<chunk.at, size>> \in Block /\ <<chunk.at, size>> \notin client
           /\ Overwritten(chunk, size) \cap others = {}
           /\ chunk.heap.free[size] = << >> => Overwritten(chunk, size) = {}
<1> DEFINE m == chunk.heap
           n == chunk.objs
           b == <<chunk.at, size>>
           run == ChunkOf(chunk.at, n, size)
           list == Linked(chunk.at, n, size)
           old == {<<a, size>> : a \in ToSet(m.free[size])}
<1>1. /\ chunk.at \in Nat /\ n \in Nat \ {0} /\ size \in Nat \ {0} /\ m \in Heap
      /\ m.free \in FreeType
      /\ HeapHolds(m, client \cup run, others) /\ client \cap run = {}
  BY ArenaAssumption DEF Served, HeapHolds, Heap
<1>2. run \subseteq Block /\ b \in run
  BY <1>1, ChunkBlocks
<1>3. m.free[size] = << >> => old = {}
  BY DEF ToSet
<1>4. CASE n = 1
  <2>1. run = {b}
    <3>1. chunk.at + 0 * size = chunk.at /\ 0 .. n - 1 = {0}
      BY <1>1, <1>4
    <3> QED
      BY <3>1 DEF ChunkOf
  <2>2. Refilled(chunk, size) = m /\ Overwritten(chunk, size) = {}
    BY <1>4 DEF Refilled, Overwritten
  <2>3. others \cup {} = others
    OBVIOUS
  <2> HIDE DEF m, b, run
  <2>4. HeapHolds(m, client \cup {b}, others)
    BY <1>1, <2>1
  <2> QED
    BY <1>1, <1>2, <2>1, <2>2, <2>3, <2>4 DEF b
<1>5. CASE n # 1
  <2> DEFINE f == [m.free EXCEPT ![size] = list]
             q == [m EXCEPT !.free[size] = list]
             B == BlocksOf(m.free)
             new == {<<list[k], size>> : k \in 1 .. Len(list)}
             Lost == UnitsOfAll(old)
  <2>1. list \in Seq(Nat) /\ IsInjective(list) /\ new = run \ {b}
    BY <1>1, LinkedBlocks
  <2>2. ListedOnce(m.free)
    BY <1>1 DEF HeapHolds
  <2> HIDE DEF list
  <2>3. /\ f \in FreeType /\ ListedOnce(f) /\ old \subseteq B
        /\ BlocksOf(f) = (B \ old) \cup new
    BY <1>1, <2>1, <2>2, SetList
  <2>4. q = [m EXCEPT !.free = f]
    BY <1>1 DEF Heap
  <2> HIDE DEF f
  <2>5. /\ q \in Heap /\ q.free = f /\ q.start = m.start /\ q.end = m.end
        /\ q.arena = m.arena
    BY <1>1, <2>3, <2>4 DEF Heap
  <2> HIDE DEF q, new, old, run, b, B, m
  <2> DEFINE C == (B \ old) \cup (client \cup run)
             P == m.start .. m.end - 1
  <2>6. /\ SharedOut(C \cup old, P, m.arena, others, Units)
        /\ C \cap old = {} /\ m.start <= m.end
        /\ B \cap (client \cup run) = {} /\ client \cup run \subseteq Block
    <3>1. /\ SharedOut(B \cup (client \cup run), P, m.arena, others, Units)
          /\ m.start <= m.end
          /\ B \cap (client \cup run) = {} /\ client \cup run \subseteq Block
      BY <1>1 DEF HeapHolds, B
    <3>2. C \cup old = B \cup (client \cup run)
      BY <2>3
    <3>3. C \cap old = {}
      BY <2>3, <3>1
    <3> QED
      BY <3>1, <3>2, <3>3
  <2> HIDE DEF C, P, Lost
  <2>7. Lost \cap (P \cup m.arena \cup others) = {}
    <3>1. Lost \subseteq UnitsOfAll(C \cup old)
      BY UnitsOfBoth DEF Lost
    <3> QED
      BY <2>6, <3>1 DEF SharedOut
  <2>8. SharedOut(C, P, m.arena, others \cup Lost, Units)
    <3>1. P \cup m.arena \cup (others \cup Lost) = Lost \cup P \cup m.arena \cup others
      OBVIOUS
    <3>2. P \cap (m.arena \cup (others \cup Lost)) = {} /\ m.arena \cap (others \cup Lost) = {}
      BY <2>6, <2>7 DEF SharedOut
    <3> QED
      BY <2>6, <3>1, <3>2, LoseBlocks DEF Lost
  <2>9. BlocksOf(f) \cup (client \cup {b}) = C
    BY <1>2, <2>1, <2>3 DEF C
  <2>10. BlocksOf(f) \cap (client \cup {b}) = {} /\ client \cup {b} \subseteq Block
         /\ b \notin client
    BY <1>1, <1>2, <2>1, <2>3, <2>6
  <2>11. HeapHolds(q, client \cup {b}, others \cup Lost)
    BY <2>3, <2>5, <2>6, <2>8, <2>9, <2>10 DEF HeapHolds, P
  <2>12. Refilled(chunk, size) = q /\ Overwritten(chunk, size) = Lost
    BY <1>5 DEF Refilled, Overwritten, m, n, q, list, Lost, old
  <2>13. old = {} => Lost = {}
    BY UnitsOfNone DEF Lost
  <2> QED
    BY <1>2, <1>3, <2>7, <2>10, <2>11, <2>12, <2>13 DEF b, m
<1> QED
  BY <1>4, <1>5

\* chunk_alloc(): a chunk, or nothing, and then its pool is empty.
LEMMA ChunkAllocHolds ==
    ASSUME NEW m, NEW client, NEW others, HeapHolds(m, client, others),
           NEW size \in 1 .. Classes, NEW objs \in Nat \ {0}
    PROVE  LET chunk == ChunkAlloc(m, size, objs)
           IN  /\ chunk.short \in BOOLEAN
               /\ ~chunk.short => Served(chunk, size, client, others)
               /\ chunk.short =>
                     HeapHolds(chunk.heap, client, others) /\ chunk.heap.start = chunk.heap.end
               /\ m.free[size] = << >> => chunk.heap.free[size] = << >>
               /\ m.end - m.start >= size => ~chunk.short
<1> DEFINE left == m.end - m.start
           bytes == ToGet(m.size, size * objs)
           kept == LeftListed(m)
           e == Emptied(m)
           at == Malloc(m.arena, bytes)
           larger == {i \in size .. Classes : kept.free[i] # << >>}
           i == Min(larger)
           filled == Filled(kept, at, bytes)
           taken == [kept EXCEPT !.free[i] = Tail(@),
                                 !.start = Head(kept.free[i]),
                                 !.end = Head(kept.free[i]) + i]
           none == [heap |-> [kept EXCEPT !.start = 0, !.end = 0],
                    at |-> 0, objs |-> 0, short |-> TRUE]
           chunk == ChunkAlloc(m, size, objs)
           Good(c) == /\ c.short \in BOOLEAN
                      /\ ~c.short => Served(c, size, client, others)
                      /\ c.short => HeapHolds(c.heap, client, others)
                                      /\ c.heap.start = c.heap.end
                      /\ m.free[size] = << >> => c.heap.free[size] = << >>
                      /\ left >= size => ~c.short
<1>1. /\ m \in Heap /\ m.start \in Nat /\ m.end \in Nat /\ m.size \in Nat
      /\ left \in Int /\ size \in Nat \ {0} /\ size <= Classes /\ Classes \in Nat
      /\ m.free \in FreeType
  BY ArenaAssumption DEF HeapHolds, Heap
<1>2. chunk = CASE left >= size -> FromPool(m, size, objs)
                [] left < size /\ at # 0 -> FromPool(filled, size, objs)
                [] left < size /\ at = 0 /\ larger # {} -> FromPool(taken, size, objs)
                [] OTHER -> none
  BY DEF ChunkAlloc, LeftListed
<1>3. bytes \in Nat \ {0} /\ bytes >= size
  BY <1>1, ToGetEnough
<1>4. \A c : Served(c, size, client, others) => c.short = FALSE
  BY DEF Served
<1> HIDE DEF left, bytes, kept, e, at, larger, i, filled, taken, none, chunk
<1>5. CASE left >= size
  <2>1. chunk = FromPool(m, size, objs)
    BY <1>1, <1>2, <1>5
  <2>2. Served(chunk, size, client, others) /\ chunk.heap.free = m.free
    BY <1>5, <2>1, FromPoolServes DEF left
  <2>3. ~chunk.short /\ chunk.short \in BOOLEAN
    BY <1>4, <2>2
  <2> QED
    BY <2>2, <2>3 DEF chunk, left
<1>6. CASE left < size
  <2>1. /\ HeapHolds(e, client, others) /\ kept \in Heap
        /\ e = [kept EXCEPT !.start = 0, !.end = 0] /\ e.start = 0 /\ e.end = 0
        /\ e.arena = m.arena /\ e.size = m.size
        /\ e.free[size] = m.free[size]
    <3>1. m.end - m.start < size
      BY <1>6 DEF left
    <3>2. e = [kept EXCEPT !.start = 0, !.end = 0]
      BY DEF e, kept, Emptied
    <3>3. size \in 1 .. Classes /\ size >= size
      BY <1>1
    <3> QED
      BY <3>1, <3>2, <3>3, EmptiedHolds DEF e, kept
  <2>2. /\ e \in Heap /\ e.free = kept.free /\ kept.arena = e.arena /\ kept.size = e.size
        /\ kept.free \in FreeType
    BY <2>1 DEF Heap
  <2>3. ~ (left >= size)
    BY <1>1, <1>6
  <2>4. CASE at # 0
    <3>1. chunk = FromPool(filled, size, objs)
      BY <1>2, <1>6, <2>3, <2>4
    <3>2. Filled(e, at, bytes) = filled
      <4> DEFINE U == at .. at + bytes - 1
                 r == [free |-> e.free, start |-> at, end |-> at + bytes,
                       size |-> e.size + bytes, arena |-> e.arena \ U]
      <4>1. Filled(e, at, bytes) = r
        BY <2>2, FilledIs
      <4>2. Filled(kept, at, bytes) = [free |-> kept.free, start |-> at, end |-> at + bytes,
                                       size |-> kept.size + bytes, arena |-> kept.arena \ U]
        BY <2>1, FilledIs
      <4>3. Filled(kept, at, bytes) = r
        BY <2>2, <4>2
      <4> QED
        BY <4>1, <4>3 DEF filled
    <3>3. /\ HeapHolds(filled, client, others) /\ filled.free = e.free
          /\ filled.end - filled.start = bytes
      <4> DEFINE a == Malloc(e.arena, bytes)
      <4>1. at = a /\ e.start = e.end
        BY <2>1 DEF at
      <4>2. a # 0 /\ bytes \in Nat
        BY <1>3, <2>4, <4>1
      <4>3. HeapHolds(e, client, others) /\ e.start = e.end
        BY <2>1
      <4>4. LET q == Filled(e, Malloc(e.arena, bytes), bytes)
            IN  HeapHolds(q, client, others) /\ q.free = e.free /\ q.end - q.start = bytes
        BY <4>2, <4>3, FilledHolds
      <4> QED
        BY <3>2, <4>1, <4>4
    <3>4. Served(chunk, size, client, others) /\ chunk.heap.free = e.free
      BY <1>3, <3>1, <3>3, FromPoolServes
    <3>5. ~chunk.short /\ chunk.short \in BOOLEAN
      BY <1>4, <3>4
    <3> QED
      BY <2>1, <3>4, <3>5 DEF chunk, left
  <2>5. CASE at = 0 /\ larger # {}
    <3>1. chunk = FromPool(taken, size, objs)
      BY <1>2, <1>6, <2>3, <2>5
    <3>2. i \in size .. Classes /\ kept.free[i] # << >>
      <4>1. larger \in SUBSET Nat
        BY <1>1 DEF larger
      <4>2. i \in larger
        BY <2>5, <4>1, MinIsMember DEF i
      <4> QED
        BY <4>2 DEF larger
    <3> DEFINE b == <<Head(e.free[i]), i>>
               p == [e EXCEPT !.free[i] = Tail(@)]
    <3>3. i \in 1 .. Classes /\ i \in Nat /\ e.free[i] # << >>
      BY <1>1, <2>2, <3>2
    <3>4. b \in Block /\ b \notin client /\ HeapHolds(p, client \cup {b}, others)
      BY <2>1, <3>3, PopHolds
    <3>5. /\ b[1] \in Nat /\ b[2] = i /\ b[1] = Head(e.free[i])
          /\ UnitsOfAll({b}) = b[1] .. b[1] + i - 1
      BY <3>4, UnitsOfOne DEF Block, UnitsOf
    <3>6. /\ p \in Heap /\ p.start = 0 /\ p.end = 0 /\ p.arena = e.arena
          /\ p.free = [e.free EXCEPT ![i] = Tail(@)]
      <4>1. p \in Heap
        BY <3>4 DEF HeapHolds
      <4> QED
        BY <2>1, <2>2, <4>1 DEF Heap
    <3> HIDE DEF b
    <3>7. taken = [p EXCEPT !.start = b[1], !.end = b[1] + i]
      BY <2>1, <2>2, <3>5 DEF taken, Heap
    <3> HIDE DEF p
    <3>8. /\ taken \in Heap /\ taken.free = p.free /\ taken.start = b[1]
          /\ taken.end = b[1] + i /\ taken.arena = p.arena
      <4>1. b[1] + i \in Nat
        BY <3>3, <3>5
      <4> QED
        BY <3>5, <3>6, <3>7, <4>1 DEF Heap
    <3>9. HeapHolds(taken, client, others)
      <4>1. taken.start .. taken.end - 1 = UnitsOfAll({b}) /\ taken.start <= taken.end
        BY <3>3, <3>5, <3>8
      <4>2. p.start .. p.end - 1 = {}
        BY <3>6
      <4>3. UnitsOfAll({b}) \cap p.arena = {}
        <5> DEFINE c == client \cup {b}
                   C == BlocksOf(p.free) \cup c
                   Z == p.start .. p.end - 1
        <5>1. SharedOut(C, Z, p.arena, others, Units) /\ b \in C
          BY <3>4 DEF HeapHolds
        <5> HIDE DEF C, Z
        <5>2. UnitsOf(b) \subseteq UnitsOfAll(C) /\ UnitsOfAll({b}) = UnitsOf(b)
          BY <5>1, UnitIn, UnitsOfOne
        <5> QED
          BY <5>1, <5>2 DEF SharedOut
      <4> DEFINE P == p.start .. p.end - 1
                 P2 == taken.start .. taken.end - 1
      <4>4. P2 \cup taken.arena = UnitsOfAll({b}) \cup P \cup p.arena /\ P2 \cap taken.arena = {}
        <5>1. P = {} /\ P2 = UnitsOfAll({b})
          BY <4>1, <4>2
        <5> HIDE DEF P, P2
        <5> QED
          BY <3>8, <4>3, <5>1
      <4>5. {b} \cap client = {}
        BY <3>4
      <4> QED
        BY <3>4, <3>8, <4>1, <4>4, <4>5, LoseHolds
    <3>10. taken.end - taken.start >= size
      BY <1>1, <3>2, <3>5, <3>8
    <3>11. Served(chunk, size, client, others) /\ chunk.heap.free = taken.free
      BY <3>1, <3>9, <3>10, FromPoolServes
    <3>12. m.free[size] = << >> => chunk.heap.free[size] = << >>
      <4> SUFFICES ASSUME m.free[size] = << >> PROVE taken.free[size] = << >>
        BY <3>11
      <4>1. i # size
        BY <2>1, <3>3
      <4> QED
        BY <2>1, <2>2, <3>6, <3>8, <4>1 DEF FreeType
    <3>13. ~chunk.short /\ chunk.short \in BOOLEAN
      BY <1>4, <3>11
    <3> QED
      BY <3>11, <3>12, <3>13 DEF chunk, left
  <2>6. CASE at = 0 /\ larger = {}
    <3>1. chunk = none
      BY <1>2, <1>6, <2>3, <2>6
    <3>2. chunk.heap = e /\ chunk.short = TRUE
      BY <2>1, <3>1 DEF none
    <3> QED
      BY <2>1, <2>3, <3>2 DEF chunk, left
  <2> QED
    BY <2>4, <2>5, <2>6
<1> QED
  BY <1>1, <1>5, <1>6

-----------------------------------------------------------------------------
(* The steps of the allocator.                                             *)

Client == small \cup large
Others == reserve \cup lost

\* A call that got a block frees the one it had to free.
LEMMA GrantHolds ==
    ASSUME NEW m, NEW client, NEW others, NEW c, c \notin client,
           HeapHolds(m, client \cup {c}, others),
           NEW frees, frees = {} \/ \E b \in client : frees = {b}
    PROVE  HeapHolds(Freed(m, frees), (client \ frees) \cup {c}, others)
<1>1. frees = {} \/ \E b \in client \cup {c} : frees = {b}
  OBVIOUS
<1>2. HeapHolds(Freed(m, frees), (client \cup {c}) \ frees, others)
  BY <1>1, FreedHolds
<1>3. (client \cup {c}) \ frees = (client \ frees) \cup {c}
  OBVIOUS
<1> QED
  BY <1>2, <1>3

\* The handler gives back what it has kept.
LEMMA ReserveHolds ==
    ASSUME NEW m, NEW client, NEW kept, NEW others,
           HeapHolds(m, client, kept \cup others), kept \cap others = {},
           kept \cup others \subseteq Nat
    PROVE  LET q == [m EXCEPT !.arena = @ \cup kept]
           IN  /\ HeapHolds(q, client, others) /\ q.free = m.free
               /\ q.start = m.start /\ q.end = m.end /\ q.size = m.size
<1> DEFINE q == [m EXCEPT !.arena = @ \cup kept]
           P == m.start .. m.end - 1
           B == BlocksOf(m.free) \cup client
<1>1. m \in Heap /\ m.start <= m.end /\ SharedOut(B, P, m.arena, kept \cup others, Units)
  BY DEF HeapHolds
<1>2. /\ q \in Heap /\ q.free = m.free /\ q.start = m.start /\ q.end = m.end
      /\ q.size = m.size /\ q.arena = m.arena \cup kept
  BY <1>1 DEF Heap
<1> HIDE DEF q, P, B
<1>3. SharedOut(B, P, q.arena, others, Units)
  <2>1. /\ UnitsOfAll(B) \cup P \cup q.arena \cup others = 1 .. Units
        /\ UnitsOfAll(B) \cap (P \cup q.arena \cup others) = {}
        /\ P \cap (q.arena \cup others) = {} /\ q.arena \cap others = {}
    BY <1>1, <1>2 DEF SharedOut
  <2> QED
    BY <1>1, <2>1 DEF SharedOut
<1>4. HeapHolds(q, client, others)
  BY <1>2, <1>3 DEF HeapHolds, P, B
<1> QED
  BY <1>2, <1>4 DEF q

LEMMA InvInit == AllocInit => AllocIInv
<1> SUFFICES ASSUME AllocInit PROVE AllocIInv
  OBVIOUS
<1>1. /\ heap = [free |-> EmptyLists, start |-> 0, end |-> 0, size |-> 0,
                 arena |-> Kept + 1 .. Units]
      /\ Kept \in Nat /\ Units \in Nat /\ Kept <= Units
  BY AllocAssumption DEF AllocInit
<1>2. EmptyLists \in FreeType /\ BlocksOf(EmptyLists) = {} /\ ListedOnce(EmptyLists)
  BY DEF EmptyLists, FreeType, BlocksOf, ToSet, ListedOnce, IsInjective
<1>3. heap \in Heap /\ heap.free = EmptyLists /\ heap.start = 0 /\ heap.end = 0
      /\ heap.arena = Kept + 1 .. Units
  BY <1>1, <1>2 DEF Heap
<1>4. SharedOut({}, heap.start .. heap.end - 1, heap.arena, 1 .. Kept, Units)
  BY <1>1, <1>3, UnitsOfNone DEF SharedOut
<1>5. Client = {} /\ Others = 1 .. Kept
  BY DEF AllocInit, Client, Others
<1>6. BlocksOf(heap.free) \cup Client = {}
  BY <1>2, <1>3, <1>5
<1>7. HeapHolds(heap, Client, Others)
  <2>1. SharedOut(BlocksOf(heap.free) \cup Client, heap.start .. heap.end - 1,
                  heap.arena, Others, Units)
    BY <1>4, <1>5, <1>6
  <2>2. /\ heap \in Heap /\ heap.start <= heap.end /\ Client \subseteq Block
        /\ BlocksOf(heap.free) \cap Client = {} /\ ListedOnce(heap.free)
    BY <1>2, <1>3, <1>5
  <2> QED
    BY <2>1, <2>2 DEF HeapHolds
<1> QED
  BY <1>7 DEF AllocInit, AllocIInv, Client, Others

\* A block that is shared out beside a client's has its units apart from theirs.
LEMMA RoomFor ==
    ASSUME NEW m, NEW client, NEW others, NEW c, c \notin client,
           HeapHolds(m, client \cup {c}, others)
    PROVE  c \in AllocService!Room(c[2], client)
<1> DEFINE B == BlocksOf(m.free) \cup (client \cup {c})
           P == m.start .. m.end - 1
<1>1. SharedOut(B, P, m.arena, others, Units) /\ c \in B /\ c \in Block /\ client \subseteq B
  BY DEF HeapHolds
<1> HIDE DEF B, P
<1>2. UnitsOf(c) \subseteq 1 .. Units
  BY <1>1, UnitIn DEF SharedOut
<1>3. c = <<c[1], c[2]>> /\ c[1] \in UnitsOf(c)
  BY <1>1 DEF Block, UnitsOf
<1>4. \A b \in client : UnitsOf(c) \cap UnitsOf(b) = {}
  BY <1>1 DEF SharedOut
<1>5. \A b : AllocService!Extent(b) = UnitsOf(b)
  BY DEF AllocService!Extent, UnitsOf
<1>6. c[1] \in 1 .. Units
  BY <1>2, <1>3
<1> QED
  BY <1>2, <1>3, <1>4, <1>5, <1>6 DEF AllocService!Room

\* What allocate() gives: a block from where nobody has one, and then the one to be
\* reallocated is freed ...
Gives(size, frees, m, c) ==
    /\ c \notin Client /\ HeapHolds(m, Client \cup {c}, Others) /\ c[2] = size
    /\ heap' = Freed(m, frees) /\ lost' = lost /\ request' = NoRequest
    /\ \/ size <= Classes /\ small' = (small \ frees) \cup {c} /\ large' = large \ frees
       \/ size > Classes /\ large' = (large \ frees) \cup {c} /\ small' = small \ frees

\* ... or nothing, and the request waits.
GivesNothing(size, frees) ==
    /\ HeapHolds(heap', Client, Others) /\ Waits'
    /\ small' = small /\ large' = large /\ lost' = lost
    /\ request' = [size |-> size, frees |-> frees]

\* allocate(), alone or for reallocate().
LEMMA AllocateGives ==
    ASSUME AllocIInv, NEW size \in 1 .. MaxSize, NEW frees,
           frees = {} \/ \E b \in small \cup large : frees = {b},
           Allocate(size, frees)
    PROVE  GivesNothing(size, frees) \/ \E m, c : Gives(size, frees, m, c)
<1>1. /\ HeapHolds(heap, Client, Others) /\ request = NoRequest
      /\ size \in Nat \ {0} /\ Classes \in Nat
      /\ (frees = {} \/ \E b \in small \cup large : frees = {b}) /\ NObjs \in Nat \ {0}
  BY AllocAssumption, ArenaAssumption DEF AllocIInv, Allocate, Client, Others
<1>2. CASE AllocateLarge(size, frees)
  <2> DEFINE at == Malloc(heap.arena, size)
  <2>1. size > Classes
    BY <1>2 DEF AllocateLarge
  <2>2. CASE at # 0
    <3>1. ServeLarge(at, size, frees)
      BY <1>2, <2>2 DEF AllocateLarge
    <3>2. LET b == <<at, size>>
          IN  b \in Block /\ b \notin Client /\ HeapHolds(Took(heap, at, size), Client \cup {b}, Others)
      <4>1. heap.arena \in SUBSET Nat
        BY <1>1 DEF HeapHolds, Heap
      <4>2. at \in Nat /\ at .. at + size - 1 \subseteq heap.arena
        BY <2>2, <4>1, MallocGives
      <4> QED
        BY <1>1, <4>2, TookHolds
    <3> DEFINE b == <<at, size>>
               m == Took(heap, at, size)
    <3>3. b[2] = size
      OBVIOUS
    <3>4. /\ heap' = Freed(m, frees) /\ lost' = lost /\ request' = NoRequest
          /\ large' = (large \ frees) \cup {b} /\ small' = small \ frees
      BY <3>1 DEF ServeLarge
    <3> HIDE DEF b, m
    <3>5. Gives(size, frees, m, b)
      BY <2>1, <3>2, <3>3, <3>4 DEF Gives, b, m
    <3> QED
      BY <3>5
  <2>3. CASE at = 0
    <3>1. Wait(heap, size, frees)
      BY <1>2, <2>3 DEF AllocateLarge
    <3>2. /\ heap' = heap /\ small' = small /\ large' = large /\ lost' = lost
          /\ request' = [size |-> size, frees |-> frees]
      BY <3>1 DEF Wait
    <3>3. Waits'
      BY <1>1, <2>1, <3>2 DEF Waits
    <3>4. HeapHolds(heap', Client, Others)
      BY <1>1, <3>2
    <3> QED
      BY <3>2, <3>3, <3>4 DEF GivesNothing
  <2> QED
    BY <2>2, <2>3
<1>3. CASE AllocateSmall(size, frees)
  <2> DEFINE list == heap.free[size]
             chunk == ChunkAlloc(heap, size, NObjs)
  <2>1. size <= Classes /\ size \in 1 .. Classes
    BY <1>1, <1>3 DEF AllocateSmall
  <2>2. CASE /\ list # << >>
             /\ heap' = Freed([heap EXCEPT !.free[size] = Tail(@)], frees)
             /\ small' = (small \ frees) \cup {<<Head(list), size>>}
             /\ large' = large \ frees
             /\ UNCHANGED <<request, lost>>
    <3> DEFINE m == [heap EXCEPT !.free[size] = Tail(@)]
               b == <<Head(list), size>>
    <3>1. b \in Block /\ b \notin Client /\ HeapHolds(m, Client \cup {b}, Others)
      BY <1>1, <2>1, <2>2, PopHolds
    <3>2. b[2] = size
      OBVIOUS
    <3> HIDE DEF m, b
    <3>3. /\ heap' = Freed(m, frees) /\ small' = (small \ frees) \cup {b}
          /\ large' = large \ frees /\ request' = request /\ lost' = lost
      BY <2>2 DEF m, b
    <3>4. Gives(size, frees, m, b)
      BY <1>1, <2>1, <3>1, <3>2, <3>3 DEF Gives
    <3> QED
      BY <3>4
  <2>3. CASE list = << >> /\ ~chunk.short /\ Serve(chunk, size, frees)
    <3>1. Served(chunk, size, Client, Others) /\ chunk.heap.free[size] = << >>
      BY <1>1, <2>1, <2>3, ChunkAllocHolds
    <3> HIDE DEF chunk
    <3> DEFINE b == <<chunk.at, size>>
               m == Refilled(chunk, size)
    <3>2. /\ HeapHolds(m, Client \cup {b}, Others \cup Overwritten(chunk, size))
          /\ b \notin Client /\ Overwritten(chunk, size) = {}
      BY <2>1, <3>1, RefilledHolds
    <3>3. HeapHolds(m, Client \cup {b}, Others)
      <4>1. Others \cup {} = Others
        OBVIOUS
      <4> QED
        BY <3>2, <4>1
    <3>4. /\ heap' = Freed(m, frees) /\ lost' = lost /\ request' = NoRequest
          /\ small' = (small \ frees) \cup {b} /\ large' = large \ frees /\ b[2] = size
      BY <2>3, <3>2 DEF Serve
    <3> HIDE DEF b, m
    <3>5. Gives(size, frees, m, b)
      BY <2>1, <3>2, <3>3, <3>4 DEF Gives
    <3> QED
      BY <3>5
  <2>4. CASE list = << >> /\ chunk.short /\ Wait(chunk.heap, size, frees)
    <3>1. /\ HeapHolds(chunk.heap, Client, Others) /\ chunk.heap.start = chunk.heap.end
          /\ chunk.heap.free[size] = << >>
      BY <1>1, <2>1, <2>4, ChunkAllocHolds
    <3> HIDE DEF chunk
    <3>2. /\ heap' = chunk.heap /\ small' = small /\ large' = large /\ lost' = lost
          /\ request' = [size |-> size, frees |-> frees]
      BY <2>4 DEF Wait
    <3>3. Waits'
      BY <1>1, <2>1, <3>1, <3>2 DEF Waits
    <3>4. HeapHolds(heap', Client, Others)
      BY <3>1, <3>2
    <3> QED
      BY <3>2, <3>3, <3>4 DEF GivesNothing
  <2> QED
    BY <1>3, <2>2, <2>3, <2>4 DEF AllocateSmall
<1> QED
  BY <1>2, <1>3 DEF Allocate

LEMMA AllocateStep ==
    ASSUME AllocIInv, NEW size \in 1 .. MaxSize, NEW frees,
           frees = {} \/ \E b \in small \cup large : frees = {b},
           Allocate(size, frees)
    PROVE  AllocIInv'
<1>1. /\ HeapHolds(heap, Client, Others) /\ request = NoRequest
      /\ reserve' = reserve /\ reentered' = reentered
      /\ size \in Nat \ {0} /\ Classes \in Nat
      /\ reserve \cap lost = {} /\ reentered \in BOOLEAN /\ (lost # {} => reentered)
  BY AllocAssumption, ArenaAssumption DEF AllocIInv, Allocate, Client, Others
<1>2. /\ \A b \in small : b[2] \in 1 .. Classes
      /\ \A b \in large : b[2] > Classes
  BY DEF AllocIInv
<1>3. frees = {} \/ \E b \in Client : frees = {b}
  BY DEF Client
<1>4. ASSUME NEW m, NEW c, Gives(size, frees, m, c) PROVE AllocIInv'
  <2>1. HeapHolds(heap', (Client \ frees) \cup {c}, Others)
    BY <1>3, <1>4, GrantHolds DEF Gives
  <2>2. (small \cup large)' = (Client \ frees) \cup {c} /\ (reserve \cup lost)' = Others
    BY <1>1, <1>4 DEF Client, Others, Gives
  <2>3. /\ \A b \in small' : b[2] \in 1 .. Classes
        /\ \A b \in large' : b[2] > Classes
    BY <1>1, <1>2, <1>4 DEF Gives
  <2> QED
    BY <1>1, <1>4, <2>1, <2>2, <2>3 DEF AllocIInv, Gives
<1>5. CASE GivesNothing(size, frees)
  <2>1. (small \cup large)' = Client /\ (reserve \cup lost)' = Others
    BY <1>1, <1>5 DEF Client, Others, GivesNothing
  <2>2. HeapHolds(heap', (small \cup large)', (reserve \cup lost)')
    BY <1>5, <2>1 DEF GivesNothing
  <2> QED
    BY <1>1, <1>2, <1>5, <2>2 DEF AllocIInv, GivesNothing
<1> QED
  BY <1>4, <1>5, AllocateGives

LEMMA DeallocateStep ==
    ASSUME AllocIInv, NEW b \in small \cup large, Deallocate(b)
    PROVE  AllocIInv'
<1>1. /\ HeapHolds(heap, Client, Others)
      /\ {b} = {} \/ \E x \in Client : {b} = {x}
  BY DEF AllocIInv, Client, Others
<1>2. HeapHolds(heap, Client, Others)
  BY DEF AllocIInv, Client, Others
<1>3. HeapHolds(Freed(heap, {b}), Client \ {b}, Others)
  BY <1>1, <1>2, FreedHolds
<1>4. (small \cup large)' = Client \ {b} /\ (reserve \cup lost)' = Others
  BY DEF Deallocate, Client, Others
<1>5. HeapHolds(heap', (small \cup large)', (reserve \cup lost)')
  BY <1>3, <1>4 DEF Deallocate
<1> QED
  BY <1>5 DEF Deallocate, AllocIInv

\* realloc() leaves the block where it is, or moves it where there is room.
LEMMA ReallocateLargeStep ==
    ASSUME AllocIInv, NEW b \in small \cup large, NEW size \in 1 .. MaxSize,
           ReallocateLarge(b, size)
    PROVE  /\ AllocIInv'
           /\ \E c \in AllocService!Room(size, Client \ {b}) :
                 (small \cup large)' = (Client \ {b}) \cup {c}
<1> DEFINE arena == heap.arena \cup UnitsOf(b)
           stays == b[1] .. b[1] + size - 1 \subseteq arena
           at == IF stays THEN b[1] ELSE Malloc(heap.arena, size)
           m == Freed(heap, {b})
           c == <<at, size>>
<1>1. /\ request = NoRequest /\ b[2] > Classes /\ size > Classes /\ at # 0
      /\ heap' = [heap EXCEPT !.arena = arena \ (at .. at + size - 1)]
      /\ large' = (large \ {b}) \cup {<<at, size>>}
      /\ UNCHANGED <<small, reserve, request, lost, reentered>>
  BY DEF ReallocateLarge
<1>2. /\ HeapHolds(heap, Client, Others) /\ heap \in Heap /\ heap.arena \in SUBSET Nat
      /\ b \in Client /\ b \in Block /\ b[1] \in Nat /\ size \in Nat \ {0}
      /\ b \notin small
  <2>1. HeapHolds(heap, Client, Others) /\ b \in Client
    BY DEF AllocIInv, Client, Others
  <2>2. b \in Block /\ b[1] \in Nat
    BY <2>1 DEF HeapHolds, Block
  <2>3. \A x \in small : ~ (x[2] > Classes)
    BY ArenaAssumption DEF AllocIInv
  <2> QED
    BY <1>1, <2>1, <2>2, <2>3, AllocAssumption DEF HeapHolds, Heap
<1>3. m = [heap EXCEPT !.arena = arena]
  <2>1. (CHOOSE x \in {b} : TRUE) = b
    OBVIOUS
  <2> QED
    BY <1>1, <1>2, <2>1 DEF Freed, Heap
<1>4. HeapHolds(m, Client \ {b}, Others)
  <2>1. {b} = {} \/ \E x \in Client : {b} = {x}
    BY <1>2
  <2> QED
    BY <1>2, <2>1, FreedHolds
<1>5. at \in Nat /\ at .. at + size - 1 \subseteq arena
  <2>1. CASE stays
    BY <1>2, <2>1
  <2>2. CASE ~stays
    <3>1. at = Malloc(heap.arena, size) /\ at # 0
      BY <1>1, <2>2
    <3>2. at \in Nat /\ at .. at + size - 1 \subseteq heap.arena
      BY <1>2, <3>1, MallocGives
    <3> QED
      BY <3>2
  <2> QED
    BY <2>1, <2>2
<1> HIDE DEF at, arena
<1>6. m.arena = arena
  BY <1>2, <1>3 DEF Heap
<1> HIDE DEF m
<1>7. HeapHolds(Took(m, at, size), (Client \ {b}) \cup {c}, Others) /\ c \notin Client \ {b}
  BY <1>2, <1>4, <1>5, <1>6, TookHolds
<1>8. heap' = Took(m, at, size)
  BY <1>1, <1>2, <1>3, <1>6 DEF Took, Heap
<1>9. (small \cup large)' = (Client \ {b}) \cup {c} /\ (reserve \cup lost)' = Others
  BY <1>1, <1>2 DEF Client, Others
<1>10. HeapHolds(heap', (small \cup large)', (reserve \cup lost)')
  BY <1>7, <1>8, <1>9
<1>11. \A x \in large' : x[2] > Classes
  BY <1>1 DEF AllocIInv
<1>12. AllocIInv'
  BY <1>1, <1>10, <1>11 DEF AllocIInv
<1>13. c \in AllocService!Room(size, Client \ {b})
  <2>1. c[2] = size
    OBVIOUS
  <2> HIDE DEF c
  <2> QED
    BY <1>7, <2>1, RoomFor
<1> QED
  BY <1>9, <1>12, <1>13

\* realloc(), or a new block and then the old one is freed.
LEMMA ReallocateStep ==
    ASSUME AllocIInv, NEW b \in small \cup large, NEW size \in 1 .. MaxSize,
           Reallocate(b, size)
    PROVE  AllocIInv'
<1>1. CASE Allocate(size, {b})
  <2>1. {b} = {} \/ \E x \in small \cup large : {b} = {x}
    OBVIOUS
  <2> QED
    BY <1>1, <2>1, AllocateStep
<1>2. CASE ReallocateLarge(b, size)
  BY <1>2, ReallocateLargeStep
<1> QED
  BY <1>1, <1>2 DEF Reallocate

\* What a turn of oom_malloc() does to the client's blocks.
OomServes ==
    \E given \in SUBSET small :
        IF request' = request THEN AllocService!GiveBack(given)
        ELSE AllocService!GrantLater(AllocService!Request("client", request.size, request.frees), given)

\* The request that waits, as MemoryService has it.
LEMMA OneWaits ==
    ASSUME request # NoRequest
    PROVE  ClientWaits = {AllocService!Request("client", request.size, request.frees)}
BY DEF ClientWaits, AllocService!Request

\* The request is granted a block of its size that had room beside the others.
LEMMA GrantsLater ==
    ASSUME request # NoRequest, request' = NoRequest, NEW given \in SUBSET small,
           given \cap request.frees = {},
           NEW c \in AllocService!Room(request.size, Client \ given),
           (small \cup large)' = ((Client \ given) \ request.frees) \cup {c}
    PROVE  OomServes
<1> DEFINE r == AllocService!Request("client", request.size, request.frees)
<1>1. ClientWaits = {r} /\ ClientWaits' = {} /\ request' # request
  BY OneWaits DEF ClientWaits
<1>2. r.size = request.size /\ r.frees = request.frees
  BY DEF AllocService!Request
<1> HIDE DEF r
<1>3. given \subseteq (small \cup large) \ r.frees
  BY <1>2
<1>4. AllocService!Grant(r.size, r.frees, given)
  BY <1>2 DEF AllocService!Grant, Client
<1>5. AllocService!GrantLater(r, given)
  BY <1>1, <1>3, <1>4 DEF AllocService!GrantLater
<1> QED
  BY <1>1, <1>5 DEF OomServes, r

\* One turn of oom_malloc(): the handler frees, and what waited may be served.
LEMMA OomMallocStep == ASSUME AllocIInv, OomMalloc PROVE AllocIInv' /\ OomServes
<1> DEFINE size == request.size
           frees == request.frees
           isLarge == size > Classes
           bytes == IF isLarge THEN size ELSE ToGet(heap.size, size * NObjs)
           M(gives, keeps) == Freed([heap EXCEPT !.arena = IF keeps THEN @ ELSE @ \cup reserve],
                                    gives)
           Turn(gives, keeps) ==
              LET m == M(gives, keeps)
                  at == Malloc(m.arena, bytes)
                  chunk == ChunkAlloc(Filled(m, at, bytes), size, NObjs)
                  left == small \ gives
              IN  /\ reserve' = IF keeps THEN reserve ELSE {}
                  /\ reentered' = (reentered \/ gives # {})
                  /\ \/ /\ at = 0 /\ heap' = m /\ small' = left
                        /\ UNCHANGED <<large, request, lost>>
                     \/ /\ at # 0 /\ isLarge /\ heap' = Freed(Took(m, at, bytes), frees)
                        /\ large' = (large \ frees) \cup {<<at, bytes>>}
                        /\ small' = left \ frees
                        /\ request' = NoRequest /\ UNCHANGED lost
                     \/ /\ at # 0 /\ ~isLarge
                        /\ heap' = Freed(Refilled(chunk, size), frees)
                        /\ small' = (left \ frees) \cup {<<chunk.at, size>>}
                        /\ large' = large \ frees
                        /\ lost' = lost \cup Overwritten(chunk, size)
                        /\ request' = NoRequest
<1>1. /\ request # NoRequest
      /\ \E gives \in {{}} \cup {{b} : b \in small \ frees}, keeps \in BOOLEAN :
            Turn(gives, keeps)
  BY Zenon DEF OomMalloc
<1> HIDE DEF Turn
<1>2. PICK gives \in {{}} \cup {{b} : b \in small \ frees}, keeps \in BOOLEAN :
            Turn(gives, keeps)
  BY <1>1
<1> DEFINE m == M(gives, keeps)
           at == Malloc(m.arena, bytes)
           chunk == ChunkAlloc(Filled(m, at, bytes), size, NObjs)
           left == small \ gives
           client == Client \ gives
           r == IF keeps THEN reserve ELSE {}
           others == r \cup lost
<1>3. /\ size \in 1 .. MaxSize /\ size \in Nat \ {0} /\ Classes \in Nat
      /\ frees = {} \/ \E b \in small \cup large : frees = {b}
      /\ ~isLarge => heap.start = heap.end /\ (reentered \/ heap.free[size] = << >>)
      /\ ~isLarge => size \in 1 .. Classes
      /\ NObjs \in Nat \ {0}
  BY <1>1, AllocAssumption, ArenaAssumption DEF AllocIInv, Waits
<1>4. /\ HeapHolds(heap, Client, Others) /\ heap \in Heap
      /\ reserve \cap lost = {} /\ reentered \in BOOLEAN /\ (lost # {} => reentered)
      /\ \A b \in small : b[2] \in 1 .. Classes
      /\ \A b \in large : b[2] > Classes
  BY DEF AllocIInv, Client, Others, HeapHolds
<1>5. gives = {} \/ \E b \in small \ frees : gives = {b}
  BY <1>2
<1>0. gives \in SUBSET small /\ gives \cap frees = {}
  BY <1>5
<1>6. /\ large \cap gives = {} /\ client = left \cup large
      /\ frees = {} \/ \E b \in client : frees = {b}
  <2>1. \A b \in small : b \notin large
    BY <1>3, <1>4
  <2> QED
    BY <1>3, <1>5, <2>1 DEF Client
<1> DEFINE m0 == [heap EXCEPT !.arena = IF keeps THEN @ ELSE @ \cup reserve]
<1>7. /\ HeapHolds(m0, Client, others) /\ m0.free = heap.free /\ m0.start = heap.start
      /\ m0.end = heap.end /\ m0.size = heap.size
  <2>1. CASE keeps
    <3>1. m0 = heap /\ others = Others
      BY <1>4, <2>1 DEF Heap, Others
    <3> QED
      BY <1>4, <3>1
  <2>2. CASE ~keeps
    <3>1. m0 = [heap EXCEPT !.arena = @ \cup reserve] /\ others = lost
      BY <2>2
    <3>2. reserve \cup lost \subseteq Nat
      <4> DEFINE B == BlocksOf(heap.free) \cup Client
                 P == heap.start .. heap.end - 1
      <4>1. SharedOut(B, P, heap.arena, reserve \cup lost, Units)
        BY <1>4 DEF HeapHolds, Others
      <4> HIDE DEF B, P
      <4>2. reserve \cup lost \subseteq 1 .. Units
        BY <4>1 DEF SharedOut
      <4> QED
        BY <4>2, AllocAssumption
    <3>3. HeapHolds(heap, Client, reserve \cup lost)
      BY <1>4 DEF Others
    <3> HIDE DEF m0, others
    <3> QED
      BY <1>4, <3>1, <3>2, <3>3, ReserveHolds
  <2> QED
    BY <2>1, <2>2
<1> HIDE DEF m0
<1>8. /\ HeapHolds(m, client, others) /\ m.start = heap.start /\ m.end = heap.end
      /\ m.size = heap.size /\ (gives = {} => m.free = heap.free)
  <2>1. gives = {} \/ \E b \in Client : gives = {b}
    BY <1>5 DEF Client
  <2>2. m = Freed(m0, gives)
    BY DEF m0
  <2> HIDE DEF m, client, others
  <2>3. /\ HeapHolds(Freed(m0, gives), Client \ gives, others)
        /\ Freed(m0, gives).start = m0.start /\ Freed(m0, gives).end = m0.end
        /\ Freed(m0, gives).size = m0.size
        /\ gives = {} => Freed(m0, gives) = m0
    BY <1>7, <2>1, FreedHolds
  <2> QED
    BY <1>7, <2>2, <2>3 DEF client
<1>9. bytes \in Nat \ {0} /\ bytes >= size
  <2>1. heap.size \in Nat
    BY <1>4 DEF Heap
  <2> QED
    BY <1>3, <2>1, ToGetEnough
<1>10. /\ reserve' = r /\ reentered' = (reentered \/ gives # {})
       /\ \/ /\ at = 0 /\ heap' = m /\ small' = left
             /\ UNCHANGED <<large, request, lost>>
          \/ /\ at # 0 /\ isLarge /\ heap' = Freed(Took(m, at, bytes), frees)
             /\ large' = (large \ frees) \cup {<<at, bytes>>}
             /\ small' = left \ frees
             /\ request' = NoRequest /\ UNCHANGED lost
          \/ /\ at # 0 /\ ~isLarge
             /\ heap' = Freed(Refilled(chunk, size), frees)
             /\ small' = (left \ frees) \cup {<<chunk.at, size>>}
             /\ large' = large \ frees
             /\ lost' = lost \cup Overwritten(chunk, size)
             /\ request' = NoRequest
  BY <1>2 DEF Turn
<1>11. m.arena \in SUBSET Nat
  BY <1>8 DEF HeapHolds, Heap
<1>12. \A b \in left : b[2] \in 1 .. Classes
  BY <1>4
<1>13. r \cap lost = {} /\ reentered' \in BOOLEAN /\ (lost # {} => reentered')
  BY <1>4, <1>10
<1> HIDE DEF m, chunk, left, client, r, others, bytes, M
<1>14. CASE at = 0 /\ heap' = m /\ small' = left /\ UNCHANGED <<large, request, lost>>
  <2>1. (small \cup large)' = client /\ (reserve \cup lost)' = others
    BY <1>6, <1>10, <1>14 DEF others
  <2>2. HeapHolds(heap', (small \cup large)', (reserve \cup lost)')
    BY <1>8, <1>14, <2>1
  <2>3. Waits'
    <3>1. request'.size = size /\ request'.frees = frees
      BY <1>14
    <3>2. frees = {} \/ \E b \in small' \cup large' : frees = {b}
      BY <1>6, <1>14
    <3>3. size <= Classes => heap'.start = heap'.end
      BY <1>3, <1>8, <1>14
    <3>4. size <= Classes => reentered' \/ heap'.free[size] = << >>
      <4> SUFFICES ASSUME size <= Classes, ~reentered' PROVE heap'.free[size] = << >>
        OBVIOUS
      <4>1. gives = {} /\ ~reentered
        BY <1>4, <1>10
      <4>2. heap.free[size] = << >>
        BY <1>3, <4>1
      <4> QED
        BY <1>8, <1>14, <4>1, <4>2
    <3> QED
      BY <1>3, <3>1, <3>2, <3>3, <3>4 DEF Waits
  <2>4. AllocIInv'
    BY <1>4, <1>10, <1>12, <1>13, <1>14, <2>2, <2>3 DEF AllocIInv
  <2>5. AllocService!GiveBack(gives)
    <3>1. \A w \in ClientWaits : w.frees \cap gives = {}
      BY <1>0, <1>1, OneWaits DEF AllocService!Request
    <3>2. ClientWaits' = ClientWaits
      BY <1>14 DEF ClientWaits
    <3> QED
      BY <1>0, <2>1, <3>1, <3>2 DEF AllocService!GiveBack, client, Client
  <2> QED
    BY <1>0, <1>14, <2>4, <2>5 DEF OomServes
<1>15. CASE /\ at # 0 /\ isLarge /\ heap' = Freed(Took(m, at, bytes), frees)
            /\ large' = (large \ frees) \cup {<<at, bytes>>}
            /\ small' = left \ frees
            /\ request' = NoRequest /\ UNCHANGED lost
  <2> DEFINE c == <<at, bytes>>
  <2>1. at \in Nat /\ at .. at + bytes - 1 \subseteq m.arena
    BY <1>11, <1>15, MallocGives
  <2>2. c \in Block /\ c \notin client /\ HeapHolds(Took(m, at, bytes), client \cup {c}, others)
    BY <1>8, <1>9, <2>1, TookHolds
  <2>3. c[2] = bytes /\ bytes = size
    BY <1>15 DEF bytes
  <2> HIDE DEF c
  <2>4. HeapHolds(Freed(Took(m, at, bytes), frees), (client \ frees) \cup {c}, others)
    BY <1>6, <2>2, GrantHolds
  <2>5. (small \cup large)' = (client \ frees) \cup {c} /\ (reserve \cup lost)' = others
    BY <1>6, <1>10, <1>15 DEF c, others
  <2>6. HeapHolds(heap', (small \cup large)', (reserve \cup lost)')
    BY <1>15, <2>4, <2>5
  <2>7. (\A b \in large' : b[2] > Classes) /\ (\A b \in small' : b[2] \in 1 .. Classes)
    BY <1>4, <1>12, <1>15, <2>3 DEF c
  <2>8. AllocIInv'
    BY <1>10, <1>13, <1>15, <2>6, <2>7 DEF AllocIInv
  <2>9. c \in AllocService!Room(size, client)
    <3>1. c[2] = size
      BY <2>3 DEF c
    <3> QED
      BY <2>2, <3>1, RoomFor
  <2>10. OomServes
    BY <1>0, <1>1, <1>15, <2>5, <2>9, GrantsLater DEF client
  <2> QED
    BY <2>8, <2>10
<1>16. CASE /\ at # 0 /\ ~isLarge
            /\ heap' = Freed(Refilled(chunk, size), frees)
            /\ small' = (left \ frees) \cup {<<chunk.at, size>>}
            /\ large' = large \ frees
            /\ lost' = lost \cup Overwritten(chunk, size)
            /\ request' = NoRequest
  <2> DEFINE q == Filled(m, at, bytes)
             c == <<chunk.at, size>>
             over == Overwritten(chunk, size)
  <2>1. HeapHolds(q, client, others) /\ q.free = m.free /\ q.end - q.start = bytes
    <3>1. m.start = m.end /\ bytes \in Nat
      BY <1>3, <1>8, <1>9, <1>16
    <3> QED
      BY <1>8, <1>16, <3>1, FilledHolds
  <2> HIDE DEF q
  <2>2. Served(chunk, size, client, others) /\ (q.free[size] = << >> => chunk.heap.free[size] = << >>)
    <3>1. chunk = ChunkAlloc(q, size, NObjs) /\ q.end - q.start >= size /\ size \in 1 .. Classes
      BY <1>3, <1>9, <1>16, <2>1 DEF chunk, q
    <3> QED
      BY <1>3, <2>1, <3>1, ChunkAllocHolds
  <2>3. /\ HeapHolds(Refilled(chunk, size), client \cup {c}, others \cup over)
        /\ c \notin client /\ over \cap others = {}
        /\ chunk.heap.free[size] = << >> => over = {}
    BY <1>3, <1>16, <2>2, RefilledHolds
  <2> HIDE DEF c, over
  <2>4. HeapHolds(Freed(Refilled(chunk, size), frees), (client \ frees) \cup {c}, others \cup over)
    BY <1>6, <2>3, GrantHolds
  <2>5. (small \cup large)' = (client \ frees) \cup {c} /\ (reserve \cup lost)' = others \cup over
    BY <1>6, <1>10, <1>16 DEF c, others, over
  <2>6. HeapHolds(heap', (small \cup large)', (reserve \cup lost)')
    BY <1>16, <2>4, <2>5
  <2>7. (\A b \in large' : b[2] > Classes) /\ (\A b \in small' : b[2] \in 1 .. Classes)
    <3>1. c[2] = size
      BY DEF c
    <3> QED
      BY <1>3, <1>4, <1>12, <1>16, <3>1 DEF c
  <2>8. lost' # {} => reentered'
    <3> SUFFICES ASSUME ~reentered' PROVE lost' = {}
      OBVIOUS
    <3>1. gives = {} /\ ~reentered /\ lost = {}
      BY <1>4, <1>10
    <3>2. over = {}
      BY <1>3, <1>8, <1>16, <2>1, <2>2, <2>3, <3>1
    <3> QED
      BY <1>16, <3>1, <3>2 DEF over
  <2>9. (reserve \cap lost)' = {}
    BY <1>10, <1>13, <1>16, <2>3 DEF others, over
  <2>10. AllocIInv'
    BY <1>13, <1>16, <2>6, <2>7, <2>8, <2>9 DEF AllocIInv
  <2>11. c \in AllocService!Room(size, client)
    <3>1. c[2] = size
      BY DEF c
    <3> QED
      BY <2>3, <3>1, RoomFor
  <2>12. OomServes
    BY <1>0, <1>1, <1>16, <2>5, <2>11, GrantsLater DEF client
  <2> QED
    BY <2>10, <2>12
<1> QED
  BY <1>10, <1>14, <1>15, <1>16

LEMMA InvNext == AllocIInv /\ [AllocNext]_allocVars => AllocIInv'
<1> SUFFICES ASSUME AllocIInv, [AllocNext]_allocVars PROVE AllocIInv'
  OBVIOUS
<1>1. CASE \E size \in 1 .. MaxSize : Allocate(size, {})
  BY <1>1, AllocateStep
<1>2. CASE \E b \in small \cup large : Deallocate(b)
  BY <1>2, DeallocateStep
<1>3. CASE \E b \in small \cup large, size \in 1 .. MaxSize : Reallocate(b, size)
  BY <1>3, ReallocateStep
<1>4. CASE OomMalloc
  BY <1>4, OomMallocStep
<1>5. CASE ThrowBadAlloc
  BY <1>5 DEF AllocIInv, ThrowBadAlloc
<1>6. CASE UNCHANGED allocVars
  BY <1>6 DEF AllocIInv, Waits, allocVars
<1> QED
  BY <1>1, <1>2, <1>3, <1>4, <1>5, <1>6 DEF AllocNext

\* The inductive invariant: the heap's lists, the pool and the blocks of the
\* caller share the units out, and a handler is waited for only by a call that failed.
THEOREM AllocInvariance == AllocSpec => []AllocIInv
  BY InvInit, InvNext, PTL DEF AllocSpec

\* Every unit of the default allocator has one owner, and one that is lost was
\* lost because the handler of a failed malloc() had freed a small block.
THEOREM AllocOwnsOnce == AllocSpec => []UnitsOwnedOnce
<1>1. AllocIInv => UnitsOwnedOnce
  <2> SUFFICES ASSUME AllocIInv PROVE UnitsOwnedOnce
    OBVIOUS
  <2>1. HeapHolds(heap, small \cup large, reserve \cup lost)
    BY DEF AllocIInv
  <2>2. BlocksOf(heap.free) \cup (small \cup large) = Listed \cup small \cup large
    BY DEF Listed
  <2>3. SharedOut(Listed \cup small \cup large, Pool, heap.arena, reserve \cup lost, Units)
    BY <2>1, <2>2 DEF HeapHolds, Pool
  <2> QED
    BY <2>1, <2>3 DEF HeapHolds, AllocIInv, UnitsOwnedOnce, Listed
<1> QED
  BY <1>1, AllocInvariance, PTL

-----------------------------------------------------------------------------
(* The allocator implements MemoryService.                                 *)

\* A request is granted at once or waits.
LEMMA AllocateServes ==
    ASSUME AllocIInv, NEW size \in 1 .. MaxSize, NEW frees,
           frees = {} \/ \E b \in small \cup large : frees = {b},
           Allocate(size, frees)
    PROVE  \/ AllocService!GrantAtOnce("client", size, frees)
           \/ AllocService!Ask("client", size, frees)
<1>1. request = NoRequest /\ ClientWaits = {} /\ frees \subseteq small \cup large
  BY DEF Allocate, ClientWaits
<1>2. ~AllocService!Waiting("client")
  BY <1>1 DEF AllocService!Waiting
<1>3. ASSUME NEW m, NEW c, Gives(size, frees, m, c)
      PROVE  AllocService!GrantAtOnce("client", size, frees)
  <2>1. c \in AllocService!Room(size, Client)
    BY <1>3, RoomFor DEF Gives
  <2>2. (small \cup large)' = (Client \ frees) \cup {c}
    BY <1>3 DEF Gives, Client
  <2>3. AllocService!Grant(size, frees, {})
    <3>1. Client \ {} = Client
      OBVIOUS
    <3> QED
      BY <2>1, <2>2, <3>1 DEF AllocService!Grant, Client
  <2>4. ClientWaits' = ClientWaits
    BY <1>1, <1>3 DEF Gives, ClientWaits
  <2> QED
    BY <1>1, <1>2, <2>3, <2>4 DEF AllocService!GrantAtOnce
<1>4. ASSUME GivesNothing(size, frees) PROVE AllocService!Ask("client", size, frees)
  <2>1. request' = [size |-> size, frees |-> frees] /\ request' # NoRequest
    BY <1>4 DEF GivesNothing, NoRequest
  <2>2. ClientWaits' = ClientWaits \cup {AllocService!Request("client", size, frees)}
    BY <1>1, <2>1 DEF ClientWaits, AllocService!Request
  <2>3. (small \cup large)' = small \cup large
    BY <1>4 DEF GivesNothing
  <2> QED
    BY <1>1, <1>2, <2>2, <2>3 DEF AllocService!Ask
<1> QED
  BY <1>3, <1>4, AllocateGives

LEMMA ServesNext == AllocIInv => ServesClient
<1> SUFFICES ASSUME AllocIInv PROVE ServesClient
  OBVIOUS
<1> DEFINE asked == AllocService!Request("client", request.size, request.frees)
           Serves(size, frees) == \/ AllocService!GrantAtOnce("client", size, frees)
                                  \/ AllocService!Ask("client", size, frees)
<1>1. \A size \in 1 .. MaxSize : Allocate(size, {}) => Serves(size, {})
  BY AllocateServes
<1>2. ASSUME NEW b \in small \cup large, Deallocate(b) PROVE AllocService!GiveBack({b})
  <2>1. (small \cup large)' = (small \cup large) \ {b} /\ ClientWaits = {} /\ ClientWaits' = {}
    BY <1>2 DEF Deallocate, ClientWaits
  <2> QED
    BY <2>1 DEF AllocService!GiveBack
<1>3. ASSUME NEW b \in small \cup large, NEW size \in 1 .. MaxSize, Reallocate(b, size)
      PROVE  AllocService!Resize(b, size) \/ Serves(size, {b})
  <2>1. CASE Allocate(size, {b})
    <3>1. {b} = {} \/ \E x \in small \cup large : {b} = {x}
      OBVIOUS
    <3> QED
      BY <2>1, <3>1, AllocateServes
  <2>2. CASE ReallocateLarge(b, size)
    <3>1. ClientWaits' = ClientWaits
      BY <2>2 DEF ReallocateLarge, ClientWaits
    <3>2. \E c \in AllocService!Room(size, Client \ {b}) : (small \cup large)' = (Client \ {b}) \cup {c}
      BY <2>2, ReallocateLargeStep
    <3> QED
      BY <3>1, <3>2 DEF AllocService!Resize, Client
  <2> QED
    BY <1>3, <2>1, <2>2 DEF Reallocate
<1>4. OomMalloc => OomServes
  BY OomMallocStep
<1>5. ASSUME ThrowBadAlloc PROVE AllocService!Refuse(asked)
  <2>1. request # NoRequest /\ request' = NoRequest /\ small' = small /\ large' = large
    BY <1>5 DEF ThrowBadAlloc
  <2>2. ClientWaits = {asked} /\ ClientWaits' = {}
    BY <2>1, OneWaits DEF ClientWaits
  <2> QED
    BY <2>1, <2>2 DEF AllocService!Refuse
<1> QED
  BY <1>1, <1>2, <1>3, <1>4, <1>5, Zenon DEF ServesClient, OomServes

\* Every call of the default allocator keeps its promise to the client.
THEOREM AllocServes == AllocSpec => [][ServesClient]_allocVars
  BY AllocInvariance, ServesNext, PTL DEF AllocSpec

\* So the default allocator is one of the memories that MemoryService describes: every
\* step of it is a step of the service, or changes nothing the client sees.
THEOREM AllocIsMemory == AllocSpec => AllocImplements
<1>1. AllocInit => AllocService!MemoryInit
  BY DEF AllocInit, AllocService!MemoryInit, ClientWaits
<1>2. [ServesClient]_allocVars /\ [AllocNext]_allocVars => [AllocService!MemoryNext]_(AllocService!memoryVars)
  <2> SUFFICES ASSUME [ServesClient]_allocVars, [AllocNext]_allocVars
               PROVE  [AllocService!MemoryNext]_(AllocService!memoryVars)
    OBVIOUS
  <2>1. CASE UNCHANGED allocVars
    BY <2>1 DEF allocVars, ClientWaits, AllocService!memoryVars
  <2>2. CASE ServesClient /\ \E size \in 1 .. MaxSize : Allocate(size, {})
    BY <2>2 DEF ServesClient, AllocService!MemoryNext
  <2>3. CASE ServesClient /\ \E b \in small \cup large : Deallocate(b)
    BY <2>3 DEF ServesClient, AllocService!MemoryNext
  <2>4. CASE ServesClient /\ \E b \in small \cup large, size \in 1 .. MaxSize : Reallocate(b, size)
    BY <2>4 DEF ServesClient, AllocService!MemoryNext
  <2> DEFINE asked == AllocService!Request("client", request.size, request.frees)
  <2>5. request # NoRequest => asked \in ClientWaits
    BY OneWaits
  <2>6. CASE ServesClient /\ OomMalloc
    <3>1. PICK given \in SUBSET small :
             IF request' = request THEN AllocService!GiveBack(given)
             ELSE AllocService!GrantLater(asked, given)
      BY <2>6 DEF ServesClient
    <3>2. asked \in ClientWaits /\ given \in SUBSET (small \cup large)
      BY <2>5, <2>6 DEF OomMalloc
    <3>3. AllocService!GiveBack(given) \/ AllocService!GrantLater(asked, given)
      BY <3>1
    <3> HIDE DEF asked
    <3> QED
      BY <3>2, <3>3 DEF AllocService!MemoryNext
  <2>7. CASE ServesClient /\ ThrowBadAlloc
    <3>1. asked \in ClientWaits /\ AllocService!Refuse(asked)
      BY <2>5, <2>7 DEF ThrowBadAlloc, ServesClient
    <3> HIDE DEF asked
    <3> QED
      BY <3>1 DEF AllocService!MemoryNext
  <2> QED
    BY <2>1, <2>2, <2>3, <2>4, <2>6, <2>7 DEF AllocNext
<1>3. AllocSpec => [][AllocService!MemoryNext]_(AllocService!memoryVars)
  BY <1>2, AllocServes, PTL DEF AllocSpec
<1>4. AllocSpec => AllocService!MemoryInit
  BY <1>1 DEF AllocSpec
<1> QED
  BY <1>3, <1>4 DEF AllocImplements, AllocService!MemorySpec

=============================================================================
