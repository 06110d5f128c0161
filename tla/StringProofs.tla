----------------------------- MODULE StringProofs -----------------------------
(***************************************************************************)
(* That sharing is never seen, for any number of strings of any letters:   *)
(* every string has its own value, every count is right, and nothing a     *)
(* reference points into is shared; and that searches, comparisons and     *)
(* input of such strings find what their names say.                        *)
(***************************************************************************)
EXTENDS StlString, SequenceTheorems, FiniteSetTheorems, WellFoundedInduction, TLAPS

Reps == 0 .. Cardinality(Strings) + 1
Text == Seq(Letters)
RepType == [chars : Text, res : Nat, ref : Nat, selfish : BOOLEAN]

\* The strings that d gives representation r, and what its count has to be.
Holders(d, r) == {s \in Strings : d[s] = r}
Count(d, r) == Cardinality(Holders(d, r)) + (IF r = 0 THEN 1 ELSE 0)

StringTypes(d, rs, l, m) ==
    /\ d \in [Strings -> {Gone} \cup Reps] /\ rs \in [Reps -> RepType]
    /\ l \subseteq Reps \ {0} /\ m \in [Strings -> Text]

\* The strings d over the representations rs, of which references into l are
\* outside, have the values m.  A representation that is lent is selfish, so
\* that no copy shares it, and nilRep is empty and never lent.
Consistent(d, rs, l, m) ==
    /\ StringTypes(d, rs, l, m)
    /\ rs[0].chars = << >> /\ ~ rs[0].selfish
    /\ \A r \in Reps : rs[r].ref = Count(d, r)
    /\ \A r \in Reps : rs[r].ref > 0 /\ rs[r].chars # << >> => Len(rs[r].chars) < rs[r].res
    /\ \A s \in Strings : d[s] # Gone => rs[d[s]].chars = m[s]
    /\ \A r \in l : rs[r].ref = 1 /\ rs[r].selfish

StringIInv == Consistent(dat, reps, lent, meant)

-----------------------------------------------------------------------------
(* Numbers.                                                                *)

\* A set of natural numbers has a least one.
LEMMA LeastIs ==
    ASSUME NEW S \in SUBSET Nat, S # {}
    PROVE  Min(S) \in S /\ \A y \in S : Min(S) <= y
<1> DEFINE Less == {ss \in Nat \X Nat : ss[1] < ss[2]}
<1>1. IsWellFoundedOn(Less, Nat)
  BY NatLessThanWellFounded, Zenon DEF OpToRel
<1>2. PICK x \in S : \A y \in S : ~ (<<y, x>> \in Less)
  <2> HIDE DEF Less
  <2> QED
    BY <1>1, WFMin
<1>3. \A y \in S : x <= y
  <2> SUFFICES ASSUME NEW y \in S PROVE x <= y
    OBVIOUS
  <2>1. x \in Nat /\ y \in Nat /\ ~ (<<y, x>> \in Less)
    BY <1>2
  <2> QED
    BY <2>1
<1> QED
  BY <1>3 DEF Min

\* A set has more subsets than elements, and 2^n counts the subsets of n.
LEMMA PowerOfTwo ==
    ASSUME NEW n \in Nat
    PROVE  2 ^ n \in Nat /\ n < 2 ^ n
<1>1. IsFiniteSet(1 .. n) /\ Cardinality(1 .. n) = n
  BY FS_Interval
<1>2. IsFiniteSet(0 .. n) /\ Cardinality(0 .. n) = n + 1
  BY FS_Interval
<1>3. IsFiniteSet(SUBSET (1 .. n)) /\ Cardinality(SUBSET (1 .. n)) = 2 ^ n
  BY <1>1, FS_SUBSET
<1> DEFINE f == [k \in 0 .. n |-> 1 .. k]
<1>4. f \in Injection(0 .. n, SUBSET (1 .. n))
  <2>1. f \in [0 .. n -> SUBSET (1 .. n)]
    OBVIOUS
  <2>2. ASSUME NEW j \in 0 .. n, NEW k \in 0 .. n, f[j] = f[k] PROVE j = k
    <3>1. 1 .. j = 1 .. k
      BY <2>2
    <3>2. j \in 1 .. k \/ j = 0
      BY <3>1
    <3>3. k \in 1 .. j \/ k = 0
      BY <3>1
    <3> QED
      BY <3>2, <3>3
  <2> HIDE DEF f
  <2> QED
    BY <2>1, <2>2 DEF Injection, IsInjective
<1>5. Cardinality(0 .. n) <= Cardinality(SUBSET (1 .. n))
  <2> HIDE DEF f
  <2> QED
    BY <1>3, <1>4, FS_Injection
<1>6. Cardinality(SUBSET (1 .. n)) \in Nat
  BY <1>3, FS_CardinalityType
<1> QED
  BY <1>2, <1>3, <1>5, <1>6

\* frob_size() always finds a capacity, and one that is enough.
THEOREM FrobSizeIsEnough ==
    ASSUME NEW n \in Nat
    PROVE  FrobSize(n) \in Nat /\ n <= FrobSize(n)
<1> DEFINE top == MinRes * 2 ^ n
           S == {MinRes * 2 ^ k : k \in 0 .. n} \cap {r \in 1 .. top : r >= n}
<1>1. MinRes \in Nat \ {0} /\ 2 ^ n \in Nat /\ n < 2 ^ n
  BY PowerOfTwo, StringAssumption
<1>2. top \in Nat /\ n < top
  <2> DEFINE p == 2 ^ n
  <2> HIDE DEF p
  <2>1. p \in Nat /\ n < p
    BY <1>1 DEF p
  <2>2. MinRes * p \in Nat /\ p <= MinRes * p
    BY <1>1, <2>1
  <2> QED
    BY <2>1, <2>2 DEF p
<1>3. n \in 0 .. n /\ top \in S
  <2> HIDE DEF top
  <2>1. top \in {r \in 1 .. top : r >= n}
    BY <1>2
  <2>2. top \in {MinRes * 2 ^ k : k \in 0 .. n}
    BY DEF top
  <2> QED
    BY <2>1, <2>2
<1>4. S \in SUBSET Nat /\ \A r \in S : n <= r
  <2> HIDE DEF top
  <2> QED
    BY <1>2
<1>5. FrobSize(n) = Min(S)
  BY Zenon DEF FrobSize
<1> HIDE DEF S
<1> QED
  BY <1>3, <1>4, <1>5, LeastIs

-----------------------------------------------------------------------------
(* Counting the strings of a representation.                               *)

\* The strings are finitely many.
LEMMA HoldersFinite ==
    ASSUME NEW d, NEW r
    PROVE  /\ IsFiniteSet(Holders(d, r)) /\ Cardinality(Holders(d, r)) \in Nat
           /\ Cardinality(Strings) \in Nat
<1>1. IsFiniteSet(Strings) /\ Holders(d, r) \in SUBSET Strings
  BY StringAssumption DEF Holders
<1> QED
  BY <1>1, FS_Subset, FS_CardinalityType

LEMMA RepsAre == 0 \in Reps /\ Gone \notin Reps /\ Reps \subseteq Nat
<1>1. Cardinality(Strings) \in Nat
  BY StringAssumption, FS_CardinalityType
<1> QED
  BY <1>1 DEF Reps, Gone

\* A string that leaves its representation, and one that gets another.
LEMMA CountLeft ==
    ASSUME NEW d \in [Strings -> {Gone} \cup Reps], NEW s \in Strings, d[s] # Gone, NEW r \in Reps
    PROVE  /\ Count([d EXCEPT ![s] = Gone], r) = IF r = d[s] THEN Count(d, r) - 1 ELSE Count(d, r)
           /\ Count(d, r) \in Nat /\ Count(d, d[s]) > 0 /\ Count(d, 0) > 0
<1> DEFINE e == [d EXCEPT ![s] = Gone]
<1>1. r # Gone
  BY RepsAre
<1>2. Holders(e, r) = IF r = d[s] THEN Holders(d, r) \ {s} ELSE Holders(d, r)
  BY <1>1 DEF Holders
<1>3. s \in Holders(d, d[s])
  BY DEF Holders
<1>4. Cardinality(Holders(d, r) \ {s}) = IF s \in Holders(d, r) THEN Cardinality(Holders(d, r)) - 1
                                         ELSE Cardinality(Holders(d, r))
  BY HoldersFinite, FS_RemoveElement
<1>5. Cardinality(Holders(d, d[s])) # 0
  BY <1>3, HoldersFinite, FS_EmptySet
<1>6. \A q : Cardinality(Holders(d, q)) \in Nat
  BY HoldersFinite
<1> HIDE DEF e
<1>7. Count(e, r) = IF r = d[s] THEN Count(d, r) - 1 ELSE Count(d, r)
  BY <1>2, <1>3, <1>4, <1>6 DEF Count
<1>8. Count(d, r) \in Nat /\ Count(d, d[s]) > 0 /\ Count(d, 0) > 0
  BY <1>5, <1>6 DEF Count
<1> QED
  BY <1>7, <1>8 DEF e

LEMMA CountGot ==
    ASSUME NEW d \in [Strings -> {Gone} \cup Reps], NEW s \in Strings, d[s] = Gone,
           NEW p \in Reps, NEW r \in Reps
    PROVE  /\ Count([d EXCEPT ![s] = p], r) = IF r = p THEN Count(d, r) + 1 ELSE Count(d, r)
           /\ Count(d, r) \in Nat
<1> DEFINE e == [d EXCEPT ![s] = p]
<1>1. r # Gone
  BY RepsAre
<1>2. Holders(e, r) = IF r = p THEN Holders(d, r) \cup {s} ELSE Holders(d, r)
  BY <1>1 DEF Holders
<1>3. s \notin Holders(d, r)
  BY <1>1 DEF Holders
<1>4. Cardinality(Holders(d, r) \cup {s}) = Cardinality(Holders(d, r)) + 1
  BY <1>3, HoldersFinite, FS_AddElement
<1>5. \A q : Cardinality(Holders(d, q)) \in Nat
  BY HoldersFinite
<1> HIDE DEF e
<1>6. Count(e, r) = IF r = p THEN Count(d, r) + 1 ELSE Count(d, r)
  BY <1>2, <1>4, <1>5 DEF Count
<1> QED
  BY <1>5, <1>6 DEF e, Count

\* One count of a representation other than nilRep is one string.
LEMMA OnlyHolder ==
    ASSUME NEW d, NEW s \in Strings, d[s] # 0, Count(d, d[s]) = 1
    PROVE  Holders(d, d[s]) = {s}
<1>0. Cardinality(Holders(d, d[s])) \in Nat
  BY HoldersFinite
<1>1. s \in Holders(d, d[s]) /\ Cardinality(Holders(d, d[s])) = 1
  <2>1. s \in Holders(d, d[s])
    BY DEF Holders
  <2>2. Cardinality(Holders(d, d[s])) = 1
    BY <1>0 DEF Count
  <2> QED
    BY <2>1, <2>2
<1>2. PICK x : Holders(d, d[s]) = {x}
  BY <1>1, HoldersFinite, FS_Singleton
<1> QED
  BY <1>1, <1>2

\* There are more representations than strings, so one is always free.
LEMMA FreshIsFree ==
    ASSUME NEW d \in [Strings -> {Gone} \cup Reps], NEW rs \in [Reps -> RepType],
           \A r \in Reps : rs[r].ref = Count(d, r)
    PROVE  Fresh(rs) \in Reps \ {0} /\ rs[Fresh(rs)].ref = 0
<1> DEFINE free == {r \in DOMAIN rs \ {0} : rs[r].ref = 0}
           n == Cardinality(Strings)
           S == 1 .. n + 1
<1>1. n \in Nat /\ IsFiniteSet(Strings)
  BY HoldersFinite, StringAssumption
<1>2. free # {}
  <2> SUFFICES ASSUME free = {} PROVE FALSE
    OBVIOUS
  <2>1. \A r \in S : r \in Reps /\ r # 0 /\ rs[r].ref # 0
    BY <1>1 DEF Reps
  <2>2. ASSUME NEW r \in S PROVE Holders(d, r) # {}
    <3>1. Cardinality({}) = 0
      BY FS_EmptySet
    <3>2. Count(d, r) = rs[r].ref /\ rs[r].ref # 0 /\ r # 0
      BY <2>1
    <3>3. Cardinality(Holders(d, r)) \in Nat
      BY HoldersFinite
    <3> HIDE DEF S
    <3>4. Cardinality(Holders(d, r)) # 0
      BY <3>2, <3>3 DEF Count
    <3> QED
      BY <3>1, <3>4
  <2> DEFINE f == [r \in S |-> CHOOSE s \in Strings : d[s] = r]
  <2>3. \A r \in S : f[r] \in Strings /\ d[f[r]] = r
    BY <2>2 DEF Holders
  <2>4. f \in [S -> Strings]
    BY <2>3
  <2>5. IsFiniteSet(S) /\ Cardinality(Strings) < Cardinality(S)
    BY <1>1, FS_Interval
  <2> HIDE DEF f, S
  <2>6. \E x, y \in S : x # y /\ f[x] = f[y]
    BY <1>1, <2>4, <2>5, FS_PigeonHole
  <2> QED
    BY <2>3, <2>6
<1>3. free \in SUBSET Nat
  BY <1>1 DEF Reps
<1>4. Fresh(rs) = Min(free)
  BY DEF Fresh
<1>5. Fresh(rs) \in free
  <2> HIDE DEF free
  <2> QED
    BY <1>2, <1>3, <1>4, LeastIs
<1> QED
  BY <1>5

-----------------------------------------------------------------------------
(* What the operations are made of keeps everything consistent.            *)

\* release(): the string s gives its representation up.
LEMMA ReleaseKeeps ==
    ASSUME NEW d, NEW rs, NEW l, NEW m, Consistent(d, rs, l, m),
           NEW s \in Strings, d[s] # Gone, NEW v \in Text
    PROVE  Consistent([d EXCEPT ![s] = Gone], Release(rs, d[s]), l \ {d[s]}, [m EXCEPT ![s] = v])
<1> DEFINE r == d[s]
           e == [d EXCEPT ![s] = Gone]
           q == Release(rs, r)
           w == [m EXCEPT ![s] = v]
<1>1. /\ d \in [Strings -> {Gone} \cup Reps] /\ rs \in [Reps -> RepType]
      /\ l \subseteq Reps \ {0} /\ m \in [Strings -> Text]
      /\ rs[0].chars = << >> /\ ~ rs[0].selfish
  BY DEF Consistent, StringTypes
<1>2. /\ \A x \in Reps : rs[x].ref = Count(d, x)
      /\ \A x \in Reps : rs[x].ref > 0 /\ rs[x].chars # << >> => Len(rs[x].chars) < rs[x].res
      /\ \A t \in Strings : d[t] # Gone => rs[d[t]].chars = m[t]
      /\ \A x \in l : rs[x].ref = 1 /\ rs[x].selfish
  BY DEF Consistent
<1>3. r \in Reps /\ rs[r] \in RepType /\ rs[r].ref \in Nat /\ rs[r].ref > 0 /\ 0 \in Reps
  <2>1. r \in Reps /\ 0 \in Reps
    BY <1>1, RepsAre
  <2>2. Count(d, r) > 0 /\ rs[r].ref = Count(d, r)
    BY <1>1, <1>2, <2>1, CountLeft
  <2> QED
    BY <1>1, <2>1, <2>2 DEF RepType
<1>4. Deleted \in RepType /\ Deleted.ref = 0 /\ Deleted.chars = << >>
  BY DEF Deleted, RepType, Text
<1> HIDE DEF r
<1>5. /\ rs[r].ref = 1 => q = [rs EXCEPT ![r] = Deleted]
      /\ rs[r].ref # 1 => q = [rs EXCEPT ![r].ref = rs[r].ref - 1]
  BY DEF Release
<1>6. /\ \A x \in Reps : x # r => q[x] = rs[x]
      /\ q[r].ref = rs[r].ref - 1 /\ q[r] \in RepType /\ q \in [Reps -> RepType]
      /\ rs[r].ref = 1 => q[r] = Deleted
      /\ rs[r].ref # 1 => /\ q[r].chars = rs[r].chars /\ q[r].res = rs[r].res
                          /\ q[r].selfish = rs[r].selfish
  <2> HIDE DEF q
  <2>1. CASE rs[r].ref = 1
    BY <1>1, <1>3, <1>4, <1>5, <2>1
  <2>2. CASE rs[r].ref # 1
    <3>1. rs[r].ref - 1 \in Nat /\ q = [rs EXCEPT ![r].ref = rs[r].ref - 1]
      BY <1>3, <1>5, <2>2
    <3> QED
      BY <1>1, <1>3, <2>2, <3>1 DEF RepType
  <2> QED
    BY <2>1, <2>2
<1> HIDE DEF q
<1>8. StringTypes(e, q, l \ {r}, w)
  BY <1>1, <1>6 DEF StringTypes
<1>9. r = 0 => rs[r].ref # 1
  <2> SUFFICES ASSUME r = 0 PROVE rs[r].ref # 1
    OBVIOUS
  <2>1. s \in Holders(d, 0)
    BY DEF Holders, r
  <2>2. Cardinality(Holders(d, 0)) # 0 /\ Cardinality(Holders(d, 0)) \in Nat
    BY <2>1, HoldersFinite, FS_EmptySet
  <2>3. rs[0].ref = Cardinality(Holders(d, 0)) + 1
    BY <1>2, <1>3 DEF Count
  <2> QED
    BY <2>2, <2>3
<1>10. q[0].chars = << >> /\ ~ q[0].selfish
  BY <1>1, <1>3, <1>6, <1>9
<1>11. \A x \in Reps : q[x].ref = Count(e, x)
  <2> SUFFICES ASSUME NEW x \in Reps PROVE q[x].ref = Count(e, x)
    OBVIOUS
  <2>1. Count(e, x) = IF x = r THEN Count(d, x) - 1 ELSE Count(d, x)
    BY <1>1, CountLeft DEF r
  <2> QED
    BY <1>2, <1>6, <2>1
<1>12. \A x \in Reps : q[x].ref > 0 /\ q[x].chars # << >> => Len(q[x].chars) < q[x].res
  BY <1>2, <1>3, <1>4, <1>6
<1>13. \A t \in Strings : e[t] # Gone => q[e[t]].chars = w[t]
  <2> SUFFICES ASSUME NEW t \in Strings, e[t] # Gone PROVE q[e[t]].chars = w[t]
    OBVIOUS
  <2>1. t # s /\ e[t] = d[t] /\ w[t] = m[t] /\ d[t] \in Reps
    BY <1>1
  <2>2. rs[d[t]].chars = m[t]
    BY <1>2, <2>1
  <2>3. CASE d[t] # r
    BY <1>6, <2>1, <2>2, <2>3
  <2>4. CASE d[t] = r
    <3>1. rs[r].ref # 1
      <4> SUFFICES ASSUME rs[r].ref = 1 PROVE FALSE
        OBVIOUS
      <4>1. r # 0 /\ Count(d, r) = 1
        BY <1>2, <1>3, <1>9
      <4>2. Holders(d, r) = {s}
        BY <4>1, OnlyHolder DEF r
      <4> QED
        BY <2>1, <2>4, <4>2 DEF Holders
    <3> QED
      BY <1>6, <2>1, <2>2, <2>4, <3>1
  <2> QED
    BY <2>3, <2>4
<1>14. \A x \in l \ {r} : q[x].ref = 1 /\ q[x].selfish
  BY <1>1, <1>2, <1>6
<1>15. Consistent(e, q, l \ {r}, w)
  <2> HIDE DEF e, w
  <2> QED
    BY <1>8, <1>10, <1>11, <1>12, <1>13, <1>14 DEF Consistent
<1> QED
  BY <1>15 DEF e, q, r, w

\* A string without a representation gets a new one, which was free.
LEMMA CreateKeeps ==
    ASSUME NEW d, NEW rs, NEW l, NEW m, Consistent(d, rs, l, m),
           NEW s \in Strings, d[s] = Gone, NEW p \in Reps \ {0}, rs[p].ref = 0,
           NEW chars \in Text
    PROVE  Consistent([d EXCEPT ![s] = p], [rs EXCEPT ![p] = Created(chars)], l,
                      [m EXCEPT ![s] = chars])
<1> DEFINE e == [d EXCEPT ![s] = p]
           new == Created(chars)
           q == [rs EXCEPT ![p] = new]
           w == [m EXCEPT ![s] = chars]
<1>1. /\ d \in [Strings -> {Gone} \cup Reps] /\ rs \in [Reps -> RepType]
      /\ l \subseteq Reps \ {0} /\ m \in [Strings -> Text]
      /\ rs[0].chars = << >> /\ ~ rs[0].selfish
  BY DEF Consistent, StringTypes
<1>2. /\ \A x \in Reps : rs[x].ref = Count(d, x)
      /\ \A x \in Reps : rs[x].ref > 0 /\ rs[x].chars # << >> => Len(rs[x].chars) < rs[x].res
      /\ \A t \in Strings : d[t] # Gone => rs[d[t]].chars = m[t]
      /\ \A x \in l : rs[x].ref = 1 /\ rs[x].selfish
  BY DEF Consistent
<1>3. /\ new \in RepType /\ new.ref = 1 /\ new.chars = chars
      /\ Len(chars) < new.res
  <2>1. Len(chars) + 1 \in Nat
    BY LenProperties DEF Text
  <2>2. FrobSize(Len(chars) + 1) \in Nat /\ Len(chars) + 1 <= FrobSize(Len(chars) + 1)
    BY <2>1, FrobSizeIsEnough
  <2>3. Len(chars) \in Nat
    BY LenProperties DEF Text
  <2> QED
    BY <2>2, <2>3 DEF Created, RepType
<1> HIDE DEF new
<1>4. /\ \A x \in Reps : x # p => q[x] = rs[x]
      /\ q[p] = new /\ q \in [Reps -> RepType]
  BY <1>1, <1>3
<1> HIDE DEF q
<1>5. StringTypes(e, q, l, w)
  BY <1>1, <1>4 DEF StringTypes
<1>6. q[0].chars = << >> /\ ~ q[0].selfish
  <2>1. 0 \in Reps /\ 0 # p
    BY RepsAre
  <2> QED
    BY <1>1, <1>4, <2>1
<1>7. \A x \in Reps : q[x].ref = Count(e, x)
  <2> SUFFICES ASSUME NEW x \in Reps PROVE q[x].ref = Count(e, x)
    OBVIOUS
  <2>1. Count(e, x) = IF x = p THEN Count(d, x) + 1 ELSE Count(d, x)
    <3>1. p \in Reps /\ d \in [Strings -> {Gone} \cup Reps] /\ d[s] = Gone
      BY <1>1
    <3> HIDE DEF e
    <3>2. Count([d EXCEPT ![s] = p], x) = IF x = p THEN Count(d, x) + 1 ELSE Count(d, x)
      BY <3>1, CountGot, ZenonT(60)
    <3> QED
      BY <3>2 DEF e
  <2>2. rs[x].ref = Count(d, x)
    BY <1>2
  <2> HIDE DEF e
  <2> QED
    BY <1>3, <1>4, <2>1, <2>2
<1>8. \A x \in Reps : q[x].ref > 0 /\ q[x].chars # << >> => Len(q[x].chars) < q[x].res
  BY <1>2, <1>3, <1>4
<1>9. \A t \in Strings : e[t] # Gone => q[e[t]].chars = w[t]
  <2> SUFFICES ASSUME NEW t \in Strings, e[t] # Gone PROVE q[e[t]].chars = w[t]
    OBVIOUS
  <2>1. CASE t = s
    BY <1>1, <1>3, <1>4, <2>1
  <2>2. CASE t # s
    <3>1. e[t] = d[t] /\ w[t] = m[t] /\ d[t] \in Reps
      BY <1>1, <2>2
    <3>2. d[t] # p
      <4> SUFFICES ASSUME d[t] = p PROVE FALSE
        OBVIOUS
      <4>1. t \in Holders(d, p)
        BY DEF Holders
      <4>2. Cardinality(Holders(d, p)) # 0
        BY <4>1, HoldersFinite, FS_EmptySet
      <4>3. Cardinality(Holders(d, p)) = 0
        BY <1>2, HoldersFinite DEF Count
      <4> QED
        BY <4>2, <4>3
    <3> QED
      BY <1>2, <1>4, <3>1, <3>2
  <2> QED
    BY <2>1, <2>2
<1>10. \A x \in l : q[x].ref = 1 /\ q[x].selfish
  <2> SUFFICES ASSUME NEW x \in l PROVE q[x].ref = 1 /\ q[x].selfish
    OBVIOUS
  <2>1. rs[x].ref = 1 /\ rs[x].selfish /\ x \in Reps
    BY <1>1, <1>2
  <2> QED
    BY <1>4, <2>1
<1>11. Consistent(e, q, l, w)
  <2> HIDE DEF e, w
  <2> QED
    BY <1>5, <1>6, <1>7, <1>8, <1>9, <1>10 DEF Consistent
<1> QED
  BY <1>11 DEF e, new, q, w

\* grab(): a string without a representation shares one that is not selfish.
LEMMA ShareKeeps ==
    ASSUME NEW d, NEW rs, NEW l, NEW m, Consistent(d, rs, l, m),
           NEW s \in Strings, d[s] = Gone, NEW r \in Reps, ~ rs[r].selfish, rs[r].ref > 0
    PROVE  Consistent([d EXCEPT ![s] = r], [rs EXCEPT ![r].ref = @ + 1], l,
                      [m EXCEPT ![s] = rs[r].chars])
<1> DEFINE e == [d EXCEPT ![s] = r]
           q == [rs EXCEPT ![r].ref = @ + 1]
           w == [m EXCEPT ![s] = rs[r].chars]
<1>1. /\ d \in [Strings -> {Gone} \cup Reps] /\ rs \in [Reps -> RepType]
      /\ l \subseteq Reps \ {0} /\ m \in [Strings -> Text]
      /\ rs[0].chars = << >> /\ ~ rs[0].selfish
  BY DEF Consistent, StringTypes
<1>2. /\ \A x \in Reps : rs[x].ref = Count(d, x)
      /\ \A x \in Reps : rs[x].ref > 0 /\ rs[x].chars # << >> => Len(rs[x].chars) < rs[x].res
      /\ \A t \in Strings : d[t] # Gone => rs[d[t]].chars = m[t]
      /\ \A x \in l : rs[x].ref = 1 /\ rs[x].selfish
  BY DEF Consistent
<1>3. rs[r] \in RepType /\ rs[r].ref + 1 \in Nat /\ rs[r].chars \in Text /\ 0 \in Reps
  BY <1>1, RepsAre DEF RepType
<1>4. /\ \A x \in Reps : x # r => q[x] = rs[x]
      /\ q \in [Reps -> RepType] /\ q[r].ref = rs[r].ref + 1
      /\ q[r].chars = rs[r].chars /\ q[r].res = rs[r].res /\ q[r].selfish = rs[r].selfish
  BY <1>1, <1>3 DEF RepType
<1> HIDE DEF q
<1>5. StringTypes(e, q, l, w)
  BY <1>1, <1>3, <1>4 DEF StringTypes
<1>6. q[0].chars = << >> /\ ~ q[0].selfish
  BY <1>1, <1>3, <1>4
<1>7. \A x \in Reps : q[x].ref = Count(e, x)
  <2> SUFFICES ASSUME NEW x \in Reps PROVE q[x].ref = Count(e, x)
    OBVIOUS
  <2>1. Count(e, x) = IF x = r THEN Count(d, x) + 1 ELSE Count(d, x)
    <3>1. r \in Reps /\ d \in [Strings -> {Gone} \cup Reps] /\ d[s] = Gone
      BY <1>1
    <3> HIDE DEF e
    <3>2. Count([d EXCEPT ![s] = r], x) = IF x = r THEN Count(d, x) + 1 ELSE Count(d, x)
      BY <3>1, CountGot
    <3> QED
      BY <3>2 DEF e
  <2>2. rs[x].ref = Count(d, x)
    BY <1>2
  <2> HIDE DEF e
  <2> QED
    BY <1>4, <2>1, <2>2
<1>8. \A x \in Reps : q[x].ref > 0 /\ q[x].chars # << >> => Len(q[x].chars) < q[x].res
  BY <1>2, <1>4
<1>9. \A t \in Strings : e[t] # Gone => q[e[t]].chars = w[t]
  <2> SUFFICES ASSUME NEW t \in Strings, e[t] # Gone PROVE q[e[t]].chars = w[t]
    OBVIOUS
  <2>1. CASE t = s
    BY <1>1, <1>4, <2>1
  <2>2. CASE t # s
    <3>1. e[t] = d[t] /\ w[t] = m[t] /\ d[t] \in Reps /\ rs[d[t]].chars = m[t]
      BY <1>1, <1>2, <2>2
    <3> QED
      BY <1>4, <3>1
  <2> QED
    BY <2>1, <2>2
<1>10. \A x \in l : q[x].ref = 1 /\ q[x].selfish
  <2> SUFFICES ASSUME NEW x \in l PROVE q[x].ref = 1 /\ q[x].selfish
    OBVIOUS
  <2>1. rs[x].ref = 1 /\ rs[x].selfish /\ x \in Reps
    BY <1>1, <1>2
  <2> QED
    BY <1>4, <2>1
<1>11. Consistent(e, q, l, w)
  <2> HIDE DEF e, w
  <2> QED
    BY <1>5, <1>6, <1>7, <1>8, <1>9, <1>10 DEF Consistent
<1> QED
  BY <1>11 DEF e, q, w

\* What is free of the representations of a consistent state.
LEMMA FreshOf ==
    ASSUME NEW d, NEW rs, NEW l, NEW m, Consistent(d, rs, l, m)
    PROVE  Fresh(rs) \in Reps \ {0} /\ rs[Fresh(rs)].ref = 0
<1>1. d \in [Strings -> {Gone} \cup Reps] /\ rs \in [Reps -> RepType]
  BY DEF Consistent, StringTypes
<1>2. \A r \in Reps : rs[r].ref = Count(d, r)
  BY DEF Consistent
<1> QED
  BY <1>1, <1>2, FreshIsFree

\* A string has a representation with its characters that counts it.
LEMMA HasRep ==
    ASSUME NEW d, NEW rs, NEW l, NEW m, Consistent(d, rs, l, m),
           NEW s \in Strings, d[s] # Gone
    PROVE  /\ d[s] \in Reps /\ rs[d[s]] \in RepType /\ rs[d[s]].ref = Count(d, d[s])
           /\ rs[d[s]].ref > 0
           /\ d[s] = 0 => rs[d[s]].ref > 1
           /\ rs[d[s]].chars = m[s] /\ m[s] \in Text
<1>1. d \in [Strings -> {Gone} \cup Reps] /\ rs \in [Reps -> RepType] /\ m \in [Strings -> Text]
  BY DEF Consistent, StringTypes
<1>2. d[s] \in Reps /\ m[s] \in Text /\ rs[d[s]] \in RepType
  BY <1>1
<1>3. rs[d[s]].ref = Count(d, d[s]) /\ rs[d[s]].chars = m[s]
  BY <1>2 DEF Consistent
<1>4. Cardinality(Holders(d, d[s])) # 0 /\ Cardinality(Holders(d, d[s])) \in Nat
  <2>1. s \in Holders(d, d[s])
    BY DEF Holders
  <2> QED
    BY <2>1, HoldersFinite, FS_EmptySet
<1>5. d[s] = 0 => Count(d, d[s]) > 1
  BY <1>4 DEF Count
<1>6. Count(d, d[s]) > 0
  BY <1>4 DEF Count
<1> QED
  BY <1>2, <1>3, <1>5, <1>6

\* grab() of a representation that is in use.
LEMMA GrabKeeps ==
    ASSUME NEW d, NEW rs, NEW l, NEW m, Consistent(d, rs, l, m),
           NEW s \in Strings, d[s] = Gone, NEW r \in Reps, rs[r].ref > 0,
           NEW own, own = Grab(rs, r)
    PROVE  Consistent([d EXCEPT ![s] = own.at], own.reps, l, [m EXCEPT ![s] = rs[r].chars])
<1>1. CASE rs[r].selfish
  <2> DEFINE p == Fresh(rs)
  <2>1. p \in Reps \ {0} /\ rs[p].ref = 0
    BY FreshOf
  <2>2. rs[r].chars \in Text
    BY DEF Consistent, StringTypes, RepType
  <2>3. own.at = p /\ own.reps = [rs EXCEPT ![p] = Created(rs[r].chars)]
    BY <1>1 DEF Grab
  <2> HIDE DEF p
  <2>4. Consistent([d EXCEPT ![s] = p], [rs EXCEPT ![p] = Created(rs[r].chars)], l,
                   [m EXCEPT ![s] = rs[r].chars])
    BY <2>1, <2>2, CreateKeeps
  <2> QED
    BY <2>3, <2>4
<1>2. CASE ~ rs[r].selfish
  <2>1. own.at = r /\ own.reps = [rs EXCEPT ![r].ref = @ + 1]
    BY <1>2 DEF Grab
  <2>2. Consistent([d EXCEPT ![s] = r], [rs EXCEPT ![r].ref = @ + 1], l,
                   [m EXCEPT ![s] = rs[r].chars])
    BY <1>2, ShareKeeps
  <2> QED
    BY <2>1, <2>2
<1> QED
  BY <1>1, <1>2

\* A representation changes in place: its characters only if one string has it,
\* and a reference is outside only if it is selfish.
LEMMA ChangeKeeps ==
    ASSUME NEW d, NEW rs, NEW l, NEW m, Consistent(d, rs, l, m),
           NEW s \in Strings, d[s] # Gone, NEW y \in RepType, y.ref = rs[d[s]].ref,
           y.chars = rs[d[s]].chars \/ y.ref = 1,
           y.chars # << >> => Len(y.chars) < y.res,
           d[s] = 0 => ~ y.selfish,
           NEW l2 \in SUBSET (Reps \ {0}), l2 \subseteq l \cup {d[s]},
           d[s] \in l2 => y.ref = 1 /\ y.selfish
    PROVE  Consistent(d, [rs EXCEPT ![d[s]] = y], l2, [m EXCEPT ![s] = y.chars])
<1> DEFINE r == d[s]
           q == [rs EXCEPT ![r] = y]
           w == [m EXCEPT ![s] = y.chars]
<1>1. /\ d \in [Strings -> {Gone} \cup Reps] /\ rs \in [Reps -> RepType]
      /\ l \subseteq Reps \ {0} /\ m \in [Strings -> Text]
      /\ rs[0].chars = << >> /\ ~ rs[0].selfish
  BY DEF Consistent, StringTypes
<1>2. /\ \A x \in Reps : rs[x].ref = Count(d, x)
      /\ \A x \in Reps : rs[x].ref > 0 /\ rs[x].chars # << >> => Len(rs[x].chars) < rs[x].res
      /\ \A t \in Strings : d[t] # Gone => rs[d[t]].chars = m[t]
      /\ \A x \in l : rs[x].ref = 1 /\ rs[x].selfish
  BY DEF Consistent
<1>3. /\ r \in Reps /\ rs[r].ref = Count(d, r) /\ rs[r].chars = m[s] /\ 0 \in Reps
      /\ r = 0 => rs[r].ref > 1
  BY HasRep, RepsAre
<1>4. /\ \A x \in Reps : x # r => q[x] = rs[x]
      /\ q \in [Reps -> RepType] /\ q[r] = y
  BY <1>1, <1>3
<1>5. y.chars \in Text /\ w \in [Strings -> Text]
  BY <1>1 DEF RepType
<1> HIDE DEF q
<1>6. StringTypes(d, q, l2, w)
  BY <1>1, <1>4, <1>5 DEF StringTypes
<1>7. q[0].chars = << >> /\ ~ q[0].selfish
  BY <1>1, <1>3, <1>4
<1>8. \A x \in Reps : q[x].ref = Count(d, x)
  BY <1>2, <1>3, <1>4
<1>9. \A x \in Reps : q[x].ref > 0 /\ q[x].chars # << >> => Len(q[x].chars) < q[x].res
  BY <1>2, <1>4
<1>10. \A t \in Strings : d[t] # Gone => q[d[t]].chars = w[t]
  <2> SUFFICES ASSUME NEW t \in Strings, d[t] # Gone PROVE q[d[t]].chars = w[t]
    OBVIOUS
  <2>1. d[t] \in Reps /\ rs[d[t]].chars = m[t]
    BY <1>1, <1>2
  <2>2. CASE t = s
    BY <1>1, <1>4, <2>2
  <2>3. CASE t # s /\ d[t] # r
    BY <1>1, <1>4, <2>1, <2>3
  <2>4. CASE t # s /\ d[t] = r
    <3>1. y.chars = rs[r].chars
      <4> SUFFICES ASSUME y.ref = 1 PROVE FALSE
        OBVIOUS
      <4>0. rs[r].ref = 1
        OBVIOUS
      <4> HIDE DEF r
      <4>1. r # 0 /\ Count(d, r) = 1
        BY <1>3, <4>0
      <4>2. Holders(d, r) = {s}
        BY <4>1, OnlyHolder DEF r
      <4>3. t \in Holders(d, r)
        BY <2>4 DEF Holders
      <4> QED
        BY <2>4, <4>2, <4>3
    <3> QED
      BY <1>1, <1>4, <2>1, <2>4, <3>1
  <2> QED
    BY <2>2, <2>3, <2>4
<1>11. \A x \in l2 : q[x].ref = 1 /\ q[x].selfish
  <2> SUFFICES ASSUME NEW x \in l2 PROVE q[x].ref = 1 /\ q[x].selfish
    OBVIOUS
  <2>1. CASE x = r
    BY <1>4, <2>1
  <2>2. CASE x # r
    BY <1>1, <1>2, <1>4, <2>2
  <2> QED
    BY <2>1, <2>2
<1>12. Consistent(d, q, l2, w)
  <2> HIDE DEF r, w
  <2> QED
    BY <1>6, <1>7, <1>8, <1>9, <1>10, <1>11 DEF Consistent
<1> QED
  BY <1>12 DEF q

\* replace(): s has other characters, alone.
LEMMA RewrittenKeeps ==
    ASSUME NEW d, NEW rs, NEW l, NEW m, Consistent(d, rs, l, m),
           NEW s \in Strings, d[s] # Gone, NEW chars \in Text,
           NEW own, own = Rewritten(rs, d[s], chars)
    PROVE  /\ Consistent([d EXCEPT ![s] = own.at], own.reps, l \ {d[s]}, [m EXCEPT ![s] = chars])
           /\ own.at \in Reps \ {0} /\ own.reps[own.at].ref = 1
<1> DEFINE r == d[s]
           rep == rs[r]
           y == [rep EXCEPT !.selfish = FALSE]
           forgot == [rs EXCEPT ![r].selfish = FALSE]
<1>1. /\ d \in [Strings -> {Gone} \cup Reps] /\ rs \in [Reps -> RepType]
      /\ l \subseteq Reps \ {0} /\ m \in [Strings -> Text]
  BY DEF Consistent, StringTypes
<1>2. /\ r \in Reps /\ rep \in RepType /\ rep.ref > 0 /\ rep.chars = m[s] /\ m[s] \in Text
      /\ r = 0 => rep.ref > 1
      /\ rep.ref > 0 /\ rep.chars # << >> => Len(rep.chars) < rep.res
  <2>1. r \in Reps
    BY HasRep
  <2> QED
    BY <2>1, HasRep DEF Consistent
<1>3. forgot = [rs EXCEPT ![r] = y] /\ forgot \in [Reps -> RepType]
  BY <1>1, <1>2 DEF RepType
<1>4. /\ y \in RepType /\ y.ref = rep.ref /\ y.chars = rep.chars /\ y.res = rep.res /\ ~ y.selfish
  <2> HIDE DEF rep
  <2> QED
    BY <1>2 DEF RepType
<1>5. CASE CheckRealloc(rep, Len(chars))
  <2> DEFINE p == Fresh(rs)
             new == Created(chars)
             e == [d EXCEPT ![s] = Gone]
             gone == Release(forgot, r)
  <2>1. p \in Reps \ {0} /\ rs[p].ref = 0 /\ p # r
    BY <1>2, FreshOf
  <2>2. own.at = p /\ own.reps = Release([forgot EXCEPT ![p] = new], r)
    BY <1>5 DEF Rewritten
  <2>3. Consistent(d, forgot, l \ {r}, m)
    <3>1. m = [m EXCEPT ![s] = y.chars] /\ l \ {r} \in SUBSET (Reps \ {0})
      BY <1>1, <1>2, <1>4
    <3> HIDE DEF y, rep, forgot
    <3>2. Consistent(d, [rs EXCEPT ![r] = y], l \ {r}, [m EXCEPT ![s] = y.chars])
      BY <1>2, <1>4, <3>1, ChangeKeeps DEF rep
    <3> QED
      BY <1>3, <3>1, <3>2
  <2> HIDE DEF p, new, forgot, rep, y
  <2>4. Consistent(e, gone, l \ {r}, [m EXCEPT ![s] = chars])
    <3>1. Consistent(e, gone, (l \ {r}) \ {r}, [m EXCEPT ![s] = chars])
      BY <2>3, ReleaseKeeps
    <3>2. (l \ {r}) \ {r} = l \ {r}
      OBVIOUS
    <3> QED
      BY <3>1, <3>2
  <2>5. Release([forgot EXCEPT ![p] = new], r) = [gone EXCEPT ![p] = new] /\ gone[p].ref = 0
    <3>1. forgot[p] = rs[p]
      BY <1>3, <1>1, <2>1
    <3> QED
      BY <1>2, <1>3, <2>1, <3>1 DEF Release
  <2>6. e[s] = Gone /\ [e EXCEPT ![s] = p] = [d EXCEPT ![s] = p]
    BY <1>1
  <2>7. [m EXCEPT ![s] = chars] = [[m EXCEPT ![s] = chars] EXCEPT ![s] = chars]
    BY <1>1
  <2> HIDE DEF e, gone
  <2>8. Consistent([e EXCEPT ![s] = p], [gone EXCEPT ![p] = new], l \ {r},
                   [[m EXCEPT ![s] = chars] EXCEPT ![s] = chars])
    BY <2>1, <2>4, <2>5, <2>6, CreateKeeps DEF new
  <2>9. gone \in [Reps -> RepType] /\ new.ref = 1
    BY <2>4 DEF Consistent, StringTypes, new, Created
  <2>10. [gone EXCEPT ![p] = new][p].ref = 1
    BY <2>1, <2>9
  <2> QED
    BY <2>1, <2>2, <2>5, <2>6, <2>7, <2>8, <2>10
<1>6. CASE ~ CheckRealloc(rep, Len(chars))
  <2> DEFINE z == [y EXCEPT !.chars = chars]
  <2>0. Len(chars) \in Nat
    BY LenProperties DEF Text
  <2>1. rep.ref = 1 /\ r # 0 /\ Len(chars) < rep.res
    <3>1. ~ (rep.ref > 1) /\ ~ (Len(chars) + 1 > rep.res)
      BY <1>6 DEF CheckRealloc
    <3>2. rep.ref \in Nat /\ rep.res \in Nat
      BY <1>2 DEF RepType
    <3> HIDE DEF rep
    <3> QED
      BY <1>2, <2>0, <3>1, <3>2
  <2>2. own.at = r /\ own.reps = [forgot EXCEPT ![r].chars = chars]
    BY <1>6 DEF Rewritten
  <2>3. [forgot EXCEPT ![r].chars = chars] = [rs EXCEPT ![r] = z]
    <3>1. forgot[r] = y
      BY <1>1, <1>2, <1>3
    <3> HIDE DEF y, forgot, rep
    <3>2. [forgot EXCEPT ![r].chars = chars] = [forgot EXCEPT ![r] = z]
      BY <1>2, <1>3, <3>1
    <3>3. [forgot EXCEPT ![r] = z] = [rs EXCEPT ![r] = z]
      BY <1>1, <1>2, <1>3
    <3> QED
      BY <3>2, <3>3
  <2>4. z \in RepType /\ z.ref = 1 /\ z.chars = chars /\ Len(chars) < z.res /\ ~ z.selfish
    <3> HIDE DEF y, rep
    <3> QED
      BY <1>4, <2>1 DEF RepType
  <2>5. d = [d EXCEPT ![s] = r]
    BY <1>1
  <2> HIDE DEF z, forgot
  <2>6. Consistent(d, [rs EXCEPT ![r] = z], l \ {r}, [m EXCEPT ![s] = z.chars])
    <3>1. l \ {r} \in SUBSET (Reps \ {0}) /\ rs[r].ref = 1
      BY <1>1, <2>1
    <3> HIDE DEF y, rep
    <3> QED
      BY <2>1, <2>4, <3>1, ChangeKeeps
  <2>7. [rs EXCEPT ![r] = z][r].ref = 1
    BY <1>1, <1>2, <2>4
  <2> QED
    BY <1>2, <2>1, <2>2, <2>3, <2>4, <2>5, <2>6, <2>7
<1> QED
  BY <1>5, <1>6

\* selfish(): s is alone in a representation that a reference may point into.
LEMMA SelfishKeeps ==
    ASSUME NEW d, NEW rs, NEW l, NEW m, Consistent(d, rs, l, m),
           NEW s \in Strings, d[s] # Gone, NEW alone, alone = Selfish(rs, d[s])
    PROVE  Consistent([d EXCEPT ![s] = alone.at], alone.reps, (l \ {d[s]}) \cup {alone.at}, m)
<1>0. ASSUME NEW chars \in Text, NEW o, o = Rewritten(rs, d[s], chars)
      PROVE  /\ Consistent([d EXCEPT ![s] = o.at], o.reps, l \ {d[s]}, [m EXCEPT ![s] = chars])
             /\ o.at \in Reps \ {0} /\ o.reps[o.at].ref = 1
  BY <1>0, RewrittenKeeps
<1> DEFINE r == d[s]
           own == IF rs[r].ref > 1 THEN Rewritten(rs, r, rs[r].chars) ELSE [reps |-> rs, at |-> r]
           p == own.at
           q == own.reps
           e == [d EXCEPT ![s] = p]
           y == [q[p] EXCEPT !.selfish = TRUE]
           l2 == (l \ {r}) \cup {p}
<1>1. /\ d \in [Strings -> {Gone} \cup Reps] /\ rs \in [Reps -> RepType]
      /\ l \subseteq Reps \ {0} /\ m \in [Strings -> Text]
  BY DEF Consistent, StringTypes
<1>2. /\ r \in Reps /\ rs[r] \in RepType /\ rs[r].ref > 0 /\ rs[r].chars = m[s] /\ m[s] \in Text
      /\ r = 0 => rs[r].ref > 1
      /\ m = [m EXCEPT ![s] = m[s]]
  BY <1>1, HasRep
<1>3. Consistent(e, q, l \ {r}, m) /\ p \in Reps \ {0} /\ q[p].ref = 1
  <2>1. CASE rs[r].ref > 1
    <3> DEFINE chars == rs[r].chars
               o == Rewritten(rs, d[s], chars)
    <3>1. own = o /\ chars \in Text /\ chars = m[s]
      BY <1>2, <2>1
    <3> HIDE DEF own, chars
    <3>2. /\ Consistent([d EXCEPT ![s] = o.at], o.reps, l \ {d[s]}, [m EXCEPT ![s] = chars])
          /\ o.at \in Reps \ {0} /\ o.reps[o.at].ref = 1
      <4>1. o = Rewritten(rs, d[s], chars)
        OBVIOUS
      <4> HIDE DEF o, r
      <4> QED
        BY <1>0, <3>1, <4>1
    <3> HIDE DEF o
    <3> QED
      BY <1>2, <3>1, <3>2
  <2>2. CASE ~ (rs[r].ref > 1)
    <3>1. own.at = r /\ own.reps = rs
      BY <2>2
    <3> HIDE DEF own
    <3>2. e = d /\ r # 0 /\ rs[r].ref = 1
      BY <1>1, <1>2, <2>2, <3>1 DEF RepType
    <3>3. Consistent(d, rs, l \ {r}, m)
      BY <1>1 DEF Consistent, StringTypes
    <3> QED
      BY <1>2, <3>1, <3>2, <3>3
  <2> QED
    BY <2>1, <2>2
<1>4. alone = [own EXCEPT !.reps[own.at].selfish = TRUE]
  BY DEF Selfish
<1>5. alone.at = p /\ alone.reps = [q EXCEPT ![p].selfish = TRUE]
  <2>1. own = [reps |-> own.reps, at |-> own.at]
    BY DEF Rewritten
  <2> HIDE DEF own
  <2> QED
    BY <1>4, <2>1
<1> HIDE DEF own, p, q
<1>6. q \in [Reps -> RepType] /\ e[s] = p /\ p # Gone
  BY <1>1, <1>3, RepsAre DEF Consistent, StringTypes
<1>7. y \in RepType /\ y.ref = q[p].ref /\ y.chars = q[p].chars /\ y.res = q[p].res /\ y.selfish
  BY <1>3, <1>6 DEF RepType
<1>8. [q EXCEPT ![p].selfish = TRUE] = [q EXCEPT ![p] = y]
  BY <1>3, <1>6 DEF RepType
<1>9. q[p].ref > 0 /\ q[p].chars # << >> => Len(q[p].chars) < q[p].res
  BY <1>3 DEF Consistent
<1>10. q[p].chars = m[s]
  BY <1>3, <1>6 DEF Consistent
<1>11. l2 \in SUBSET (Reps \ {0}) /\ l2 \subseteq (l \ {r}) \cup {p}
  BY <1>1, <1>3
<1> HIDE DEF e, y, l2
<1>12. Consistent(e, [q EXCEPT ![e[s]] = y], l2, [m EXCEPT ![s] = y.chars])
  <2> DEFINE l1 == l \ {r}
  <2>1. /\ Consistent(e, q, l1, m) /\ e[s] # Gone /\ y \in RepType /\ y.ref = q[e[s]].ref
        /\ y.chars = q[e[s]].chars
    BY <1>3, <1>6, <1>7
  <2>2. y.chars # << >> => Len(y.chars) < y.res
    BY <1>3, <1>7, <1>9
  <2>3. /\ e[s] # 0 /\ l2 \in SUBSET (Reps \ {0}) /\ l2 \subseteq l1 \cup {e[s]}
        /\ y.ref = 1 /\ y.selfish
    BY <1>3, <1>6, <1>7, <1>11
  <2> HIDE DEF l1
  <2> QED
    BY <2>1, <2>2, <2>3, ChangeKeeps
<1>13. Consistent(e, [q EXCEPT ![p] = y], l2, m)
  BY <1>2, <1>6, <1>7, <1>10, <1>12
<1> QED
  BY <1>5, <1>8, <1>13 DEF e, l2

\* swap(): every representation keeps its count.
LEMMA SwapKeeps ==
    ASSUME NEW d, NEW rs, NEW l, NEW m, Consistent(d, rs, l, m),
           NEW s \in Strings, NEW t \in Strings, d[s] # Gone, d[t] # Gone
    PROVE  Consistent([d EXCEPT ![s] = d[t], ![t] = d[s]], rs, l,
                      [m EXCEPT ![s] = m[t], ![t] = m[s]])
<1> DEFINE e == [d EXCEPT ![s] = d[t], ![t] = d[s]]
           w == [m EXCEPT ![s] = m[t], ![t] = m[s]]
<1>1. /\ d \in [Strings -> {Gone} \cup Reps] /\ rs \in [Reps -> RepType]
      /\ l \subseteq Reps \ {0} /\ m \in [Strings -> Text]
      /\ rs[0].chars = << >> /\ ~ rs[0].selfish
  BY DEF Consistent, StringTypes
<1>2. /\ \A x \in Reps : rs[x].ref = Count(d, x)
      /\ \A x \in Reps : rs[x].ref > 0 /\ rs[x].chars # << >> => Len(rs[x].chars) < rs[x].res
      /\ \A u \in Strings : d[u] # Gone => rs[d[u]].chars = m[u]
      /\ \A x \in l : rs[x].ref = 1 /\ rs[x].selfish
  BY DEF Consistent
<1>3. d[s] \in Reps /\ d[t] \in Reps
  BY <1>1
<1>4. StringTypes(e, rs, l, w)
  BY <1>1 DEF StringTypes
<1>5. \A u \in Strings : e[u] # Gone => rs[e[u]].chars = w[u]
  BY <1>1, <1>2
<1>6. ASSUME NEW x \in Reps PROVE Count(e, x) = Count(d, x)
  <2>1. CASE s = t
    BY <1>1, <2>1
  <2>2. CASE s # t
    <3> DEFINE d1 == [d EXCEPT ![s] = Gone]
               d2 == [d1 EXCEPT ![t] = Gone]
               d3 == [d2 EXCEPT ![s] = d[t]]
               d4 == [d3 EXCEPT ![t] = d[s]]
    <3>1. /\ d1 \in [Strings -> {Gone} \cup Reps] /\ d2 \in [Strings -> {Gone} \cup Reps]
          /\ d3 \in [Strings -> {Gone} \cup Reps]
          /\ d1[t] = d[t] /\ d2[s] = Gone /\ d3[t] = Gone
      BY <1>1, <2>2
    <3>2. e = d4
      BY <1>1, <2>2
    <3>3. /\ Count(d1, x) = IF x = d[s] THEN Count(d, x) - 1 ELSE Count(d, x)
          /\ Count(d, x) \in Nat
      BY <1>1, CountLeft
    <3> HIDE DEF d1
    <3>4. /\ Count([d1 EXCEPT ![t] = Gone], x) = IF x = d1[t] THEN Count(d1, x) - 1 ELSE Count(d1, x)
          /\ Count(d1, x) \in Nat
      <4>1. d1 \in [Strings -> {Gone} \cup Reps] /\ d1[t] # Gone
        BY <3>1
      <4> HIDE DEF d2, d3, d4, e
      <4> QED
        BY <4>1, CountLeft
    <3>5. /\ Count([d2 EXCEPT ![s] = d[t]], x) = IF x = d[t] THEN Count(d2, x) + 1 ELSE Count(d2, x)
          /\ Count(d2, x) \in Nat
      <4> DEFINE to == d[t]
      <4>1. d2 \in [Strings -> {Gone} \cup Reps] /\ d2[s] = Gone /\ to \in Reps
        BY <1>3, <3>1
      <4> HIDE DEF to, d2, d3, d4, e
      <4>2. /\ Count([d2 EXCEPT ![s] = to], x) = IF x = to THEN Count(d2, x) + 1 ELSE Count(d2, x)
            /\ Count(d2, x) \in Nat
        BY <4>1, CountGot, ZenonT(60)
      <4> QED
        BY <4>2 DEF to
    <3>6. /\ Count([d3 EXCEPT ![t] = d[s]], x) = IF x = d[s] THEN Count(d3, x) + 1 ELSE Count(d3, x)
          /\ Count(d3, x) \in Nat
      <4> DEFINE to == d[s]
      <4>1. d3 \in [Strings -> {Gone} \cup Reps] /\ d3[t] = Gone /\ to \in Reps
        BY <1>3, <3>1
      <4> HIDE DEF to, d2, d3, d4, e
      <4>2. /\ Count([d3 EXCEPT ![t] = to], x) = IF x = to THEN Count(d3, x) + 1 ELSE Count(d3, x)
            /\ Count(d3, x) \in Nat
        BY <4>1, CountGot, ZenonT(60)
      <4> QED
        BY <4>2 DEF to
    <3>7. /\ Count(d2, x) = IF x = d[t] THEN Count(d1, x) - 1 ELSE Count(d1, x)
          /\ Count(d3, x) = IF x = d[t] THEN Count(d2, x) + 1 ELSE Count(d2, x)
          /\ Count(d4, x) = IF x = d[s] THEN Count(d3, x) + 1 ELSE Count(d3, x)
      BY <3>1, <3>4, <3>5, <3>6, Zenon
    <3> HIDE DEF d2, d3
    <3> HIDE DEF d4, e
    <3> QED
      BY <3>2, <3>3, <3>4, <3>5, <3>6, <3>7
  <2> QED
    BY <2>1, <2>2
<1> HIDE DEF e, w
<1>7. Consistent(e, rs, l, w)
  BY <1>1, <1>2, <1>4, <1>5, <1>6 DEF Consistent
<1> QED
  BY <1>7 DEF e, w

-----------------------------------------------------------------------------
(* The steps.                                                              *)

\* The parts of a text, and what replace() puts together, are texts.
LEMMA PartIsText ==
    ASSUME NEW c \in Text, NEW a \in Nat \ {0}, NEW b \in Int, b <= Len(c)
    PROVE  SubSeq(c, a, b) \in Text
<1>1. \A i \in a .. b : c[i] \in Letters
  <2> SUFFICES ASSUME NEW i \in a .. b PROVE c[i] \in Letters
    OBVIOUS
  <2>1. Len(c) \in Nat
    BY LenProperties DEF Text
  <2>2. i \in 1 .. Len(c)
    BY <2>1
  <2> QED
    BY <2>2, ElementOfSeq DEF Text
<1> QED
  BY <1>1, SubSeqProperties DEF Text

\* The least of two.
LEMMA LeastOfTwo ==
    ASSUME NEW a \in Nat, NEW b \in Nat
    PROVE  Min({a, b}) \in Nat /\ Min({a, b}) <= a /\ Min({a, b}) <= b
BY DEF Min

LEMMA SplicedIsText ==
    ASSUME NEW c \in Text, NEW pos \in Nat, pos <= Len(c), NEW n1 \in Nat, NEW source \in Text
    PROVE  Spliced(c, pos, n1, source) \in Text
<1> DEFINE n == Len(c)
           k == Min({n1, n - pos})
<1>1. n \in Nat
  BY LenProperties DEF Text
<1>2. k \in Nat
  <2>1. n - pos \in Nat
    BY <1>1
  <2> QED
    BY <2>1, LeastOfTwo
<1>3. SubSeq(c, 1, pos) \in Text
  BY PartIsText
<1>4. SubSeq(c, pos + k + 1, n) \in Text
  <2>1. pos + k + 1 \in Nat \ {0} /\ n \in Int /\ n <= Len(c)
    BY <1>1, <1>2
  <2> HIDE DEF k, n
  <2> QED
    BY <2>1, PartIsText
<1> HIDE DEF k
<1> DEFINE front == SubSeq(c, 1, pos)
           back == SubSeq(c, pos + k + 1, n)
<1>5. Spliced(c, pos, n1, source) = front \o source \o back
  BY DEF Spliced, k
<1> HIDE DEF front, back
<1>6. front \o source \in Text
  BY <1>3, ConcatProperties DEF Text, front
<1> QED
  BY <1>4, <1>5, <1>6, ConcatProperties DEF Text, back

LEMMA StringsThat == ASSUME NEW s \in Alive PROVE s \in Strings /\ dat[s] # Gone
BY DEF Alive

LEMMA GrabStep ==
    ASSUME StringIInv, NEW s \in Strings,
           \/ Construct(s)
           \/ \E t \in Strings : CopyConstruct(s, t)
    PROVE  StringIInv'
<1>0. Consistent(dat, reps, lent, meant)
  BY DEF StringIInv
<1>1. ASSUME NEW r \in Reps, reps[r].ref > 0, dat[s] = Gone,
             Become(s, Grab(reps, r), reps[r].chars), UNCHANGED lent
      PROVE  StringIInv'
  <2> DEFINE own == Grab(reps, r)
  <2>1. own = Grab(reps, r)
    OBVIOUS
  <2>2. /\ dat' = [dat EXCEPT ![s] = own.at] /\ reps' = own.reps
        /\ meant' = [meant EXCEPT ![s] = reps[r].chars] /\ lent' = lent
    BY <1>1 DEF Become
  <2> HIDE DEF own
  <2>3. Consistent([dat EXCEPT ![s] = own.at], own.reps, lent, [meant EXCEPT ![s] = reps[r].chars])
    BY <1>0, <1>1, <2>1, GrabKeeps
  <2> QED
    BY <2>2, <2>3 DEF StringIInv
<1>2. CASE Construct(s)
  <2>1. dat[s] = Gone /\ Become(s, Grab(reps, 0), << >>) /\ UNCHANGED lent
    BY <1>2 DEF Construct, Alive
  <2>2. 0 \in Reps /\ reps[0].ref > 0 /\ reps[0].chars = << >>
    <3>1. 0 \in Reps
      BY RepsAre
    <3>2. reps[0].ref = Count(dat, 0) /\ reps[0].chars = << >>
      BY <1>0, <3>1 DEF Consistent
    <3>3. Count(dat, 0) > 0
      BY HoldersFinite DEF Count
    <3> QED
      BY <3>1, <3>2, <3>3
  <2> QED
    BY <1>1, <2>1, <2>2
<1>3. ASSUME NEW t \in Strings, CopyConstruct(s, t) PROVE StringIInv'
  <2>1. /\ dat[s] = Gone /\ dat[t] # Gone
        /\ Become(s, Grab(reps, dat[t]), meant[t]) /\ UNCHANGED lent
    BY <1>3 DEF CopyConstruct, Alive
  <2>2. dat[t] \in Reps /\ reps[dat[t]].ref > 0 /\ reps[dat[t]].chars = meant[t]
    BY <1>0, <2>1, HasRep
  <2> QED
    BY <1>1, <2>1, <2>2
<1> QED
  BY <1>2, <1>3

LEMMA AssignStep ==
    ASSUME StringIInv, NEW s \in Strings, NEW t \in Strings, Assign(s, t)
    PROVE  StringIInv'
<1> DEFINE e == [dat EXCEPT ![s] = Gone]
           rs == Release(reps, dat[s])
           l == lent \ {dat[s]}
           r == e[t]
           own == Grab(rs, r)
<1>0. /\ Consistent(dat, reps, lent, meant) /\ dat \in [Strings -> {Gone} \cup Reps]
      /\ meant \in [Strings -> Text]
  BY DEF StringIInv, Consistent, StringTypes
<1>1. /\ s # t /\ dat[s] # Gone /\ dat[t] # Gone
      /\ Become(s, Grab(rs, dat[t]), meant[t]) /\ lent' = l
  BY DEF Assign, Alive
<1>2. meant[s] \in Text /\ [meant EXCEPT ![s] = meant[s]] = meant /\ r = dat[t] /\ e[s] = Gone
  BY <1>0, <1>1
<1>3. Consistent(e, rs, l, meant)
  <2>1. Consistent(e, rs, l, [meant EXCEPT ![s] = meant[s]])
    BY <1>0, <1>1, <1>2, ReleaseKeeps
  <2> QED
    BY <1>2, <2>1
<1>4. /\ dat' = [dat EXCEPT ![s] = own.at] /\ reps' = own.reps /\ lent' = l
      /\ meant' = [meant EXCEPT ![s] = meant[t]] /\ own = Grab(rs, r)
  BY <1>1, <1>2 DEF Become
<1>5. [e EXCEPT ![s] = own.at] = [dat EXCEPT ![s] = own.at]
  BY <1>0
<1> HIDE DEF own, e, rs, l
<1>6. r \in Reps /\ rs[r].ref > 0 /\ rs[r].chars = meant[t]
  BY <1>1, <1>2, <1>3, HasRep
<1> HIDE DEF r
<1>7. Consistent([e EXCEPT ![s] = own.at], own.reps, l, [meant EXCEPT ![s] = rs[r].chars])
  BY <1>2, <1>3, <1>4, <1>6, GrabKeeps
<1> QED
  BY <1>4, <1>5, <1>6, <1>7 DEF StringIInv

LEMMA DestroyStep ==
    ASSUME StringIInv, NEW s \in Strings, Destroy(s)
    PROVE  StringIInv'
<1>1. /\ dat[s] # Gone /\ dat' = [dat EXCEPT ![s] = Gone] /\ reps' = Release(reps, dat[s])
      /\ lent' = lent \ {dat[s]} /\ meant' = [meant EXCEPT ![s] = << >>] /\ << >> \in Text
  BY DEF Destroy, Alive, Text
<1>2. Consistent([dat EXCEPT ![s] = Gone], Release(reps, dat[s]), lent \ {dat[s]},
                 [meant EXCEPT ![s] = << >>])
  BY <1>1, ReleaseKeeps DEF StringIInv
<1> QED
  BY <1>1, <1>2 DEF StringIInv

LEMMA SwapStep ==
    ASSUME StringIInv, NEW s \in Strings, NEW t \in Strings, Swap(s, t)
    PROVE  StringIInv'
<1>1. /\ dat[s] # Gone /\ dat[t] # Gone /\ dat' = [dat EXCEPT ![s] = dat[t], ![t] = dat[s]]
      /\ meant' = [meant EXCEPT ![s] = meant[t], ![t] = meant[s]] /\ reps' = reps /\ lent' = lent
  BY DEF Swap, Alive
<1>2. Consistent([dat EXCEPT ![s] = dat[t], ![t] = dat[s]], reps, lent,
                 [meant EXCEPT ![s] = meant[t], ![t] = meant[s]])
  BY <1>1, SwapKeeps DEF StringIInv
<1> QED
  BY <1>1, <1>2 DEF StringIInv

LEMMA ReplaceStep ==
    ASSUME StringIInv, NEW s \in Strings, NEW pos \in Nat, NEW n1 \in Nat, NEW source \in Text,
           Replace(s, pos, n1, source)
    PROVE  StringIInv'
<1> DEFINE chars == Spliced(Chars(s), pos, n1, source)
           own == Rewritten(reps, dat[s], chars)
<1>0. Consistent(dat, reps, lent, meant)
  BY DEF StringIInv
<1>1. /\ dat[s] # Gone /\ pos <= Len(Chars(s)) /\ lent' = lent \ {dat[s]}
      /\ dat' = [dat EXCEPT ![s] = own.at] /\ reps' = own.reps
      /\ meant' = [meant EXCEPT ![s] = Spliced(meant[s], pos, n1, source)]
      /\ own = Rewritten(reps, dat[s], chars)
  BY DEF Replace, Alive, Become
<1>2. Chars(s) = meant[s] /\ Chars(s) \in Text
  BY <1>0, <1>1, HasRep DEF Chars
<1>3. chars \in Text /\ chars = Spliced(meant[s], pos, n1, source)
  BY <1>1, <1>2, SplicedIsText
<1> HIDE DEF chars, own
<1>4. Consistent([dat EXCEPT ![s] = own.at], own.reps, lent \ {dat[s]}, [meant EXCEPT ![s] = chars])
  BY <1>0, <1>1, <1>3, RewrittenKeeps
<1> QED
  BY <1>1, <1>3, <1>4 DEF StringIInv

LEMMA ReplaceByStringStep ==
    ASSUME StringIInv, NEW s \in Strings, NEW t \in Strings, NEW pos \in Nat, NEW pos2 \in Nat,
           NEW n1 \in Nat, NEW n2 \in Nat, ReplaceByString(s, pos, n1, t, pos2, n2)
    PROVE  StringIInv'
<1> DEFINE n == Len(Chars(t))
           to == Min({pos2 + n2, n})
           source == SubSeq(Chars(t), pos2 + 1, to)
<1>1. dat[t] # Gone /\ (Assign(s, t) \/ Replace(s, pos, n1, source))
  BY DEF ReplaceByString, Alive
<1>2. Chars(t) \in Text
  BY <1>1, HasRep DEF StringIInv, Chars
<1>3. n \in Nat
  BY <1>2, LenProperties DEF Text
<1>4. source \in Text
  <2>1. to \in Nat /\ to <= n
    BY <1>3, LeastOfTwo
  <2> HIDE DEF to
  <2> QED
    BY <1>2, <2>1, PartIsText
<1> HIDE DEF source
<1> QED
  BY <1>1, <1>4, AssignStep, ReplaceStep

LEMMA BorrowStep ==
    ASSUME StringIInv, NEW s \in Strings, Borrow(s)
    PROVE  StringIInv'
<1> DEFINE own == Selfish(reps, dat[s])
<1>0. Consistent(dat, reps, lent, meant) /\ meant \in [Strings -> Text]
  BY DEF StringIInv, Consistent, StringTypes
<1>1. /\ dat[s] # Gone /\ lent' = (lent \ {dat[s]}) \cup {own.at}
      /\ dat' = [dat EXCEPT ![s] = own.at] /\ reps' = own.reps
      /\ meant' = [meant EXCEPT ![s] = meant[s]] /\ own = Selfish(reps, dat[s])
  BY DEF Borrow, Alive, Become
<1> HIDE DEF own
<1>2. Consistent([dat EXCEPT ![s] = own.at], own.reps, (lent \ {dat[s]}) \cup {own.at}, meant)
  BY <1>0, <1>1, SelfishKeeps
<1>3. meant' = meant
  BY <1>0, <1>1
<1> QED
  BY <1>1, <1>2, <1>3 DEF StringIInv

LEMMA WriteStep ==
    ASSUME StringIInv, NEW s \in Strings, NEW i \in Nat, NEW c \in Letters, WriteThrough(s, i, c)
    PROVE  StringIInv'
<1> DEFINE r == dat[s]
           rep == reps[r]
           chars == [rep.chars EXCEPT ![i] = c]
           y == [rep EXCEPT !.chars = chars]
<1>0. /\ Consistent(dat, reps, lent, meant) /\ meant \in [Strings -> Text]
      /\ reps \in [Reps -> RepType] /\ lent \in SUBSET (Reps \ {0})
  BY DEF StringIInv, Consistent, StringTypes
<1>1. /\ dat[s] # Gone /\ r \in lent /\ i \in DOMAIN rep.chars
      /\ reps' = [reps EXCEPT ![r].chars[i] = c] /\ meant' = [meant EXCEPT ![s][i] = c]
      /\ dat' = dat /\ lent' = lent
  BY DEF WriteThrough, Alive, Chars
<1>2. /\ r \in Reps /\ r # 0 /\ rep \in RepType /\ rep.chars = meant[s] /\ rep.chars \in Text
      /\ rep.ref = 1 /\ rep.selfish
      /\ rep.chars # << >> => Len(rep.chars) < rep.res
  <2>1. r \in Reps /\ r # 0 /\ rep \in RepType
    BY <1>0, <1>1
  <2>2. rep.ref = 1 /\ rep.selfish /\ rep.chars = meant[s]
    BY <1>0, <1>1 DEF Consistent
  <2>3. rep.chars # << >> => Len(rep.chars) < rep.res
    BY <1>0, <2>1, <2>2 DEF Consistent
  <2> QED
    BY <1>0, <2>1, <2>2, <2>3
<1>3. chars \in Text /\ Len(chars) = Len(rep.chars) /\ rep.chars # << >>
  <2> DEFINE q == rep.chars
  <2>1. q \in Seq(Letters) /\ i \in 1 .. Len(q)
    BY <1>1, <1>2, LenProperties DEF Text
  <2> HIDE DEF q
  <2>2. [q EXCEPT ![i] = c] \in Seq(Letters) /\ Len([q EXCEPT ![i] = c]) = Len(q) /\ q # << >>
    BY <2>1, ExceptSeq
  <2> QED
    BY <2>2 DEF q, Text
<1>4. reps' = [reps EXCEPT ![r] = y]
  BY <1>0, <1>1, <1>2
<1>5. meant' = [meant EXCEPT ![s] = chars]
  BY <1>0, <1>1, <1>2
<1> HIDE DEF chars
<1>6. /\ y \in RepType /\ y.ref = 1 /\ y.chars = chars /\ y.res = rep.res /\ y.selfish
  <2> HIDE DEF rep
  <2> QED
    BY <1>2, <1>3 DEF RepType
<1>7. y.chars # << >> => Len(y.chars) < y.res
  BY <1>2, <1>3, <1>6
<1> HIDE DEF y
<1>8. Consistent(dat, [reps EXCEPT ![r] = y], lent, [meant EXCEPT ![s] = y.chars])
  BY <1>0, <1>1, <1>2, <1>6, <1>7, ChangeKeeps
<1> QED
  BY <1>1, <1>4, <1>5, <1>6, <1>8 DEF StringIInv

-----------------------------------------------------------------------------
(* The theorem.                                                            *)

LEMMA StringInvInit == StringInit => StringIInv
<1> SUFFICES ASSUME StringInit PROVE StringIInv
  OBVIOUS
<1>1. /\ dat = [s \in Strings |-> Gone] /\ lent = {} /\ meant = [s \in Strings |-> << >>]
      /\ reps = [r \in Reps |-> IF r = 0 THEN [Deleted EXCEPT !.ref = 1] ELSE Deleted]
  BY DEF StringInit, Reps
<1>2. /\ Deleted \in RepType /\ [Deleted EXCEPT !.ref = 1] \in RepType
      /\ Deleted.chars = << >> /\ [Deleted EXCEPT !.ref = 1].chars = << >>
      /\ Deleted.ref = 0 /\ [Deleted EXCEPT !.ref = 1].ref = 1
      /\ ~ [Deleted EXCEPT !.ref = 1].selfish
  <2>1. /\ Deleted \in RepType /\ Deleted.chars = << >> /\ Deleted.ref = 0
        /\ ~ Deleted.selfish
    BY DEF Deleted, RepType, Text
  <2> DEFINE nil == [Deleted EXCEPT !.ref = 1]
  <2>2. nil \in RepType /\ nil.chars = Deleted.chars /\ nil.ref = 1 /\ nil.selfish = Deleted.selfish
    BY <2>1 DEF RepType
  <2> QED
    BY <2>1, <2>2
<1>3. StringTypes(dat, reps, lent, meant)
  BY <1>1, <1>2 DEF StringTypes, Text
<1>4. \A r \in Reps : reps[r].ref = Count(dat, r)
  <2> SUFFICES ASSUME NEW r \in Reps PROVE reps[r].ref = Count(dat, r)
    OBVIOUS
  <2>1. Holders(dat, r) = {}
    BY <1>1, RepsAre DEF Holders
  <2>2. Count(dat, r) = IF r = 0 THEN 1 ELSE 0
    BY <2>1, FS_EmptySet DEF Count
  <2> QED
    BY <1>1, <1>2, <2>2
<1> QED
  BY <1>1, <1>2, <1>3, <1>4, RepsAre DEF StringIInv, Consistent

LEMMA StringInvNext == StringIInv /\ [StringNext]_stringVars => StringIInv'
<1> SUFFICES ASSUME StringIInv, [StringNext]_stringVars PROVE StringIInv'
  OBVIOUS
<1>0. Places \subseteq Nat /\ Counts \subseteq Nat /\ Npos \in Nat /\ Sources \subseteq Text
  <2>1. Places \subseteq Nat /\ Counts \subseteq Nat /\ Npos \in Nat
    BY StringAssumption DEF Places, Counts
  <2>2. Sources \subseteq Text
    <3>1. << >> \in Text /\ \A c \in Letters : <<c>> \in Text /\ <<c, c>> \in Text
      BY DEF Text
    <3> QED
      BY <3>1, Zenon DEF Sources
  <2> QED
    BY <2>1, <2>2
<1>1. ASSUME NEW s \in Strings, Construct(s) \/ Destroy(s) \/ Borrow(s) PROVE StringIInv'
  BY <1>1, GrabStep, DestroyStep, BorrowStep
<1>2. ASSUME NEW s \in Strings, NEW t \in Strings, CopyConstruct(s, t) \/ Assign(s, t) \/ Swap(s, t)
      PROVE  StringIInv'
  BY <1>2, GrabStep, AssignStep, SwapStep
<1>3. ASSUME NEW s \in Strings, NEW pos \in Places, NEW n1 \in Counts, NEW source \in Sources,
             Replace(s, pos, n1, source)
      PROVE  StringIInv'
  BY <1>0, <1>3, ReplaceStep
<1>4. ASSUME NEW s \in Strings, NEW t \in Strings, NEW pos \in Places, NEW pos2 \in Places,
             NEW n1 \in Counts, NEW n2 \in {1, Npos}, ReplaceByString(s, pos, n1, t, pos2, n2)
      PROVE  StringIInv'
  <2>1. pos \in Nat /\ pos2 \in Nat /\ n1 \in Nat /\ n2 \in Nat
    BY <1>0
  <2> QED
    BY <1>4, <2>1, ReplaceByStringStep
<1>5. ASSUME NEW s \in Strings, NEW i \in 1 .. MaxLength, NEW c \in Letters, WriteThrough(s, i, c)
      PROVE  StringIInv'
  <2>1. i \in Nat
    BY StringAssumption
  <2> QED
    BY <1>5, <2>1, WriteStep
<1>6. CASE StringNext
  BY <1>1, <1>2, <1>3, <1>4, <1>5, <1>6 DEF StringNext
<1>7. CASE UNCHANGED stringVars
  BY <1>7 DEF stringVars, StringIInv
<1> QED
  BY <1>6, <1>7

\* The inductive invariant: the counts, rooms, values and selfish representations
\* are consistent.
THEOREM StringInvariance == StringSpec => []StringIInv
  BY StringInvInit, StringInvNext, PTL DEF StringSpec

\* Every string has the value it would have if none were shared, every count is
\* right and room is left for the terminator, for any number of strings of any
\* length and letters.
THEOREM StringsSharingUnseen == StringSpec => []SharingUnseen
<1>1. StringIInv => SharingUnseen
  <2> SUFFICES ASSUME StringIInv PROVE SharingUnseen
    OBVIOUS
  <2>0. Consistent(dat, reps, lent, meant)
    BY DEF StringIInv
  <2>1. DOMAIN reps = Reps
    BY <2>0 DEF Consistent, StringTypes
  <2>2. \A s \in Alive : Chars(s) = meant[s]
    BY <2>0 DEF Consistent, Alive, Chars
  <2>3. ASSUME NEW r \in Reps
        PROVE  reps[r].ref = Cardinality(Sharers(r)) + (IF r = 0 THEN 1 ELSE 0)
    <3>1. Sharers(r) = Holders(dat, r)
      BY RepsAre DEF Sharers, Holders, Alive
    <3> QED
      BY <2>0, <3>1 DEF Consistent, Count
  <2>4. \A r \in Reps : reps[r].ref > 0 /\ reps[r].chars # << >> => Len(reps[r].chars) < reps[r].res
    BY <2>0 DEF Consistent
  <2>5. \A r \in lent : reps[r].ref = 1
    BY <2>0 DEF Consistent
  <2> QED
    BY <2>1, <2>2, <2>3, <2>4, <2>5 DEF SharingUnseen
<1> QED
  BY <1>1, StringInvariance, PTL

-----------------------------------------------------------------------------
(* The searches, for any texts.                                            *)

\* A bounded set of natural numbers has a greatest one.
LEMMA GreatestIs ==
    ASSUME NEW S \in SUBSET Nat, S # {}, NEW n \in Nat, \A x \in S : x <= n
    PROVE  Max(S) \in S /\ \A y \in S : y <= Max(S)
<1> DEFINE T == {k \in 0 .. n : n - k \in S}
<1>1. T \in SUBSET Nat /\ T # {}
  <2>1. PICK x \in S : TRUE
    OBVIOUS
  <2>2. n - x \in 0 .. n /\ n - (n - x) = x
    OBVIOUS
  <2>3. n - x \in T
    BY <2>1, <2>2
  <2> QED
    BY <2>3
<1>2. Min(T) \in T /\ \A k \in T : Min(T) <= k
  <2> HIDE DEF T
  <2> QED
    BY <1>1, LeastIs
<1> DEFINE m == Min(T)
<1> HIDE DEF m
<1>3. m \in 0 .. n /\ n - m \in S /\ \A k \in T : m <= k
  BY <1>2 DEF m
<1>4. ASSUME NEW y \in S PROVE y <= n - m
  <2>1. n - y \in 0 .. n /\ n - (n - y) = y
    OBVIOUS
  <2>2. n - y \in T
    BY <2>1
  <2>3. m <= n - y
    BY <1>3, <2>2
  <2> QED
    BY <1>3, <2>3
<1> HIDE DEF T
<1> QED
  BY <1>3, <1>4 DEF Max

LEMMA FirstFromIs ==
    ASSUME NEW S \in SUBSET Nat, NEW pos \in Nat
    PROVE  /\ (\A x \in S : x < pos) => FirstFrom(S, pos) = Npos
           /\ (\E x \in S : x >= pos) =>
                /\ FirstFrom(S, pos) \in S /\ FirstFrom(S, pos) >= pos
                /\ \A x \in S : x >= pos => FirstFrom(S, pos) <= x
<1> DEFINE hits == {x \in S : x >= pos}
<1>1. ASSUME \A x \in S : x < pos PROVE FirstFrom(S, pos) = Npos
  <2>1. \A x \in S : ~ (x >= pos)
    BY <1>1
  <2>2. hits = {}
    BY <2>1, Zenon
  <2> QED
    BY <2>2 DEF FirstFrom
<1>2. ASSUME NEW x0 \in S, x0 >= pos
      PROVE  /\ FirstFrom(S, pos) \in S /\ FirstFrom(S, pos) >= pos
             /\ \A x \in S : x >= pos => FirstFrom(S, pos) <= x
  <2>1. hits # {} /\ hits \in SUBSET Nat
    BY <1>2
  <2>2. FirstFrom(S, pos) = Min(hits)
    BY <2>1 DEF FirstFrom
  <2>3. Min(hits) \in hits /\ \A y \in hits : Min(hits) <= y
    <3> HIDE DEF hits
    <3> QED
      BY <2>1, LeastIs
  <2> QED
    BY <2>2, <2>3
<1> QED
  BY <1>1, <1>2

LEMMA LastUpToIs ==
    ASSUME NEW S \in SUBSET Nat, NEW pos \in Nat
    PROVE  /\ (\A x \in S : x > pos) => LastUpTo(S, pos) = Npos
           /\ (\E x \in S : x <= pos) =>
                /\ LastUpTo(S, pos) \in S /\ LastUpTo(S, pos) <= pos
                /\ \A x \in S : x <= pos => x <= LastUpTo(S, pos)
<1> DEFINE hits == {x \in S : x <= pos}
<1>1. ASSUME \A x \in S : x > pos PROVE LastUpTo(S, pos) = Npos
  <2>1. \A x \in S : ~ (x <= pos)
    BY <1>1
  <2>2. hits = {}
    BY <2>1, Zenon
  <2> QED
    BY <2>2 DEF LastUpTo
<1>2. ASSUME NEW x0 \in S, x0 <= pos
      PROVE  /\ LastUpTo(S, pos) \in S /\ LastUpTo(S, pos) <= pos
             /\ \A x \in S : x <= pos => x <= LastUpTo(S, pos)
  <2>1. hits # {} /\ hits \in SUBSET Nat /\ \A x \in hits : x <= pos
    BY <1>2
  <2>2. LastUpTo(S, pos) = Max(hits)
    BY <2>1 DEF LastUpTo
  <2>3. Max(hits) \in hits /\ \A y \in hits : y <= Max(hits)
    <3> HIDE DEF hits
    <3> QED
      BY <2>1, GreatestIs
  <2> QED
    BY <2>2, <2>3
<1> QED
  BY <1>1, <1>2

\* Searches of the places S of a text, forwards and backwards, from a position.
LEMMA SearchesAgree ==
    ASSUME NEW n \in 0 .. MaxLength, NEW S \in SUBSET (0 .. n), NEW pos \in Places
    PROVE  LET at == FirstFrom(S, pos)
               back == LastUpTo(S, pos)
           IN  /\ at # Npos <=> \E x \in S : x >= pos
               /\ at # Npos => at >= pos /\ LastUpTo(S, at) = at
               /\ back # Npos => back <= pos /\ FirstFrom(S, back) = back
<1> DEFINE at == FirstFrom(S, pos)
           back == LastUpTo(S, pos)
<1>0. /\ MaxLength \in Nat /\ Npos \in Nat /\ Npos > MaxLength /\ n \in Nat /\ pos \in Nat
      /\ S \in SUBSET Nat /\ \A x \in S : x \in Nat /\ x < Npos
  BY StringAssumption DEF Places
<1>1. /\ (\A x \in S : x < pos) => at = Npos
      /\ (\E x \in S : x >= pos) => at \in S /\ at >= pos
  BY <1>0, FirstFromIs
<1>2. /\ (\A x \in S : x > pos) => back = Npos
      /\ (\E x \in S : x <= pos) => back \in S /\ back <= pos
  BY <1>0, LastUpToIs
<1>3. \A p \in S : FirstFrom(S, p) = p /\ LastUpTo(S, p) = p
  <2> SUFFICES ASSUME NEW p \in S PROVE FirstFrom(S, p) = p /\ LastUpTo(S, p) = p
    OBVIOUS
  <2>1. p \in Nat /\ p <= p
    BY <1>0
  <2>2. FirstFrom(S, p) \in S /\ FirstFrom(S, p) >= p /\ FirstFrom(S, p) <= p
    BY <1>0, <2>1, FirstFromIs
  <2>3. LastUpTo(S, p) \in S /\ LastUpTo(S, p) <= p /\ p <= LastUpTo(S, p)
    BY <1>0, <2>1, LastUpToIs
  <2>4. FirstFrom(S, p) \in Nat /\ LastUpTo(S, p) \in Nat
    BY <1>0, <2>2, <2>3
  <2> QED
    BY <2>1, <2>2, <2>3, <2>4
<1> HIDE DEF at, back
<1>4. (\E x \in S : x >= pos) \/ (\A x \in S : x < pos)
  BY <1>0
<1>5. (\E x \in S : x <= pos) \/ (\A x \in S : x > pos)
  BY <1>0
<1>6. (at # Npos <=> \E x \in S : x >= pos) /\ (at # Npos => at >= pos /\ LastUpTo(S, at) = at)
  <2>1. CASE \E x \in S : x >= pos
    <3>1. at \in S /\ at >= pos
      BY <1>1, <2>1
    <3>2. at < Npos /\ LastUpTo(S, at) = at
      BY <1>0, <1>3, <3>1
    <3>3. at # Npos
      BY <1>0, <3>1, <3>2
    <3> QED
      BY <2>1, <3>1, <3>2, <3>3
  <2>2. CASE ~ \E x \in S : x >= pos
    BY <1>1, <1>4, <2>2
  <2> QED
    BY <2>1, <2>2
<1>7. back # Npos => back <= pos /\ FirstFrom(S, back) = back
  BY <1>0, <1>2, <1>3, <1>5
<1> QED
  BY <1>6, <1>7 DEF at, back

Short(c) == c \in Text /\ Len(c) <= MaxLength

\* What a short text is made of.
LEMMA ShortText ==
    ASSUME NEW c, Short(c)
    PROVE  /\ Len(c) \in 0 .. MaxLength /\ Len(c) \in Nat /\ MaxLength \in Nat /\ Len(c) < Npos
           /\ Npos \in Nat /\ c \in Text /\ \A i \in 1 .. Len(c) : c[i] \in Letters
           /\ DOMAIN c = 1 .. Len(c)
<1>1. Len(c) \in Nat /\ c \in Seq(Letters) /\ Len(c) <= MaxLength /\ DOMAIN c = 1 .. Len(c)
  BY LenProperties DEF Short, Text
<1>2. \A i \in 1 .. Len(c) : c[i] \in Letters
  BY <1>1, ElementOfSeq
<1> QED
  BY <1>1, <1>2, StringAssumption DEF Text

\* k characters of a text from one on.
LEMMA PartIs ==
    ASSUME NEW c, Short(c), NEW a \in Nat \ {0}, NEW b \in Nat, b <= Len(c), NEW k \in Nat, k = b - a + 1
    PROVE  /\ SubSeq(c, a, b) \in Text /\ Len(SubSeq(c, a, b)) = k
           /\ \A i \in 1 .. k : SubSeq(c, a, b)[i] = c[a + i - 1]
<1>1. Len(c) \in Nat /\ \A i \in a .. b : c[i] \in Letters
  <2>1. Len(c) \in Nat /\ \A i \in 1 .. Len(c) : c[i] \in Letters
    BY ShortText
  <2>2. \A i \in a .. b : i \in 1 .. Len(c)
    BY <2>1
  <2> QED
    BY <2>1, <2>2
<1>2. /\ SubSeq(c, a, b) \in Seq(Letters)
      /\ Len(SubSeq(c, a, b)) = IF a <= b THEN b - a + 1 ELSE 0
      /\ \A i \in 1 .. b - a + 1 : SubSeq(c, a, b)[i] = c[a + i - 1]
  <2>1. a \in Int /\ b \in Int
    OBVIOUS
  <2> QED
    BY <1>1, <2>1, SubSeqProperties
<1>3. (IF a <= b THEN b - a + 1 ELSE 0) = k
  OBVIOUS
<1> QED
  BY <1>2, <1>3 DEF Text

\* Equal texts have the same characters.
LEMMA SameText ==
    ASSUME NEW c, NEW d, c \in Text, d \in Text
    PROVE  c = d <=> Len(c) = Len(d) /\ \A i \in 1 .. Len(c) : c[i] = d[i]
BY SeqEqual DEF Text

\* b is found at x if and only if it begins there.
LEMMA OccurrencesAre ==
    ASSUME NEW a, NEW b, Short(a), Short(b), b # << >>
    PROVE  /\ Occurrences(a, b) \in SUBSET (0 .. Len(a))
           /\ \A x \in 0 .. Len(a) :
                 /\ x \in Occurrences(a, b) <=> IsPrefix(b, SubSeq(a, x + 1, Len(a)))
                 /\ x \in Occurrences(a, b) <=>
                      x + Len(b) <= Len(a) /\ \A i \in 1 .. Len(b) : a[x + i] = b[i]
<1>0. /\ Len(a) \in Nat /\ Len(b) \in Nat \ {0} /\ a \in Text /\ b \in Text
      /\ \A i \in 1 .. Len(a) : a[i] \in Letters
  BY ShortText, EmptySeq DEF Text
<1>1. Occurrences(a, b) \in SUBSET (0 .. Len(a))
  <2>1. Occurrences(a, b) \in SUBSET (0 .. Len(a) - Len(b))
    BY DEF Occurrences
  <2>2. \A x \in 0 .. Len(a) - Len(b) : x \in 0 .. Len(a)
    BY <1>0
  <2> QED
    BY <2>1, <2>2
<1>2. ASSUME NEW x \in 0 .. Len(a)
      PROVE  /\ x \in Occurrences(a, b) <=> IsPrefix(b, SubSeq(a, x + 1, Len(a)))
             /\ x \in Occurrences(a, b) <=>
                  x + Len(b) <= Len(a) /\ \A i \in 1 .. Len(b) : a[x + i] = b[i]
  <2> DEFINE rest == SubSeq(a, x + 1, Len(a))
             here == \A i \in 1 .. Len(b) : a[x + i] = b[i]
  <2>1. /\ rest \in Text /\ Len(rest) = Len(a) - x
        /\ \A i \in 1 .. Len(a) - x : rest[i] = a[x + i]
    <3>1. x + 1 \in Nat \ {0} /\ Len(a) - x \in Nat /\ Len(a) - x = Len(a) - (x + 1) + 1
      BY <1>0
    <3>2. /\ rest \in Text /\ Len(rest) = Len(a) - x
          /\ \A i \in 1 .. Len(a) - x : rest[i] = a[(x + 1) + i - 1]
      <4> DEFINE k == Len(a) - x
                 n == Len(a)
                 m == x + 1
      <4>1. k \in Nat /\ m \in Nat \ {0} /\ n \in Nat /\ n <= Len(a) /\ k = n - m + 1
        BY <1>0, <3>1
      <4> HIDE DEF k, n, m
      <4>2. /\ SubSeq(a, m, n) \in Text /\ Len(SubSeq(a, m, n)) = k
            /\ \A i \in 1 .. k : SubSeq(a, m, n)[i] = a[m + i - 1]
        BY <4>1, PartIs
      <4> QED
        BY <4>2 DEF k, n, m
    <3>3. \A i \in 1 .. Len(a) - x : (x + 1) + i - 1 = x + i
      OBVIOUS
    <3> QED
      BY <3>2, <3>3
  <2>2. IsPrefix(b, rest) <=> x + Len(b) <= Len(a) /\ here
    <3>1. SubSeq(b, 1, Len(b)) = b
      <4>1. /\ SubSeq(b, 1, Len(b)) \in Text /\ Len(SubSeq(b, 1, Len(b))) = Len(b)
            /\ \A i \in 1 .. Len(b) : SubSeq(b, 1, Len(b))[i] = b[1 + i - 1]
        BY <1>0, PartIs
      <4> DEFINE p == SubSeq(b, 1, Len(b))
      <4>2. p \in Text /\ Len(p) = Len(b) /\ \A i \in 1 .. Len(b) : p[i] = b[1 + i - 1]
        BY <4>1
      <4>3. \A i \in 1 .. Len(b) : 1 + i - 1 = i
        OBVIOUS
      <4> HIDE DEF p
      <4>4. p = b
        BY <1>0, <4>2, <4>3, SameText
      <4> QED
        BY <4>4 DEF p
    <3>2. Len(b) <= Len(rest) <=> x + Len(b) <= Len(a)
      BY <1>0, <2>1
    <3>3. ASSUME x + Len(b) <= Len(a) PROVE SubSeq(rest, 1, Len(b)) = b <=> here
      <4>1. /\ SubSeq(rest, 1, Len(b)) \in Text /\ Len(SubSeq(rest, 1, Len(b))) = Len(b)
            /\ \A i \in 1 .. Len(b) : SubSeq(rest, 1, Len(b))[i] = rest[1 + i - 1]
        <5>1. Short(rest)
          BY <1>0, <2>1, ShortText DEF Short
        <5>2. Len(b) <= Len(rest) /\ Len(b) \in Nat /\ Len(b) = Len(b) - 1 + 1 /\ 1 \in Nat \ {0}
          BY <1>0, <3>2, <3>3
        <5> HIDE DEF rest
        <5> QED
          BY <5>1, <5>2, PartIs
      <4>2. \A i \in 1 .. Len(b) : 1 + i - 1 = i /\ i \in 1 .. Len(a) - x
        BY <1>0, <3>3
      <4>3. \A i \in 1 .. Len(b) : SubSeq(rest, 1, Len(b))[i] = a[x + i]
        BY <2>1, <4>1, <4>2
      <4> QED
        <5> DEFINE p == SubSeq(rest, 1, Len(b))
        <5>1. p \in Text /\ Len(p) = Len(b) /\ \A i \in 1 .. Len(b) : p[i] = a[x + i]
          BY <4>1, <4>3
        <5> HIDE DEF p
        <5>2. p = b <=> here
          BY <1>0, <5>1, SameText
        <5> QED
          BY <5>2 DEF p
    <3> HIDE DEF rest
    <3> QED
      BY <3>1, <3>2, <3>3 DEF IsPrefix
  <2>3. x \in Occurrences(a, b) <=> x + Len(b) <= Len(a) /\ here
    <3>1. x \in 0 .. Len(a) - Len(b) <=> x + Len(b) <= Len(a)
      BY <1>0
    <3>2. ASSUME x + Len(b) <= Len(a)
          PROVE  a[x + 1] = b[1] /\ SubSeq(a, x + 1, x + Len(b)) = b <=> here
      <4>1. /\ SubSeq(a, x + 1, x + Len(b)) \in Text /\ Len(SubSeq(a, x + 1, x + Len(b))) = Len(b)
            /\ \A i \in 1 .. Len(b) : SubSeq(a, x + 1, x + Len(b))[i] = a[(x + 1) + i - 1]
        <5>1. x + 1 \in Nat \ {0} /\ x + Len(b) \in Nat /\ Len(b) \in Nat
              /\ Len(b) = (x + Len(b)) - (x + 1) + 1
          BY <1>0
        <5> QED
          BY <3>2, <5>1, PartIs
      <4>2. \A i \in 1 .. Len(b) : (x + 1) + i - 1 = x + i
        OBVIOUS
      <4>3. \A i \in 1 .. Len(b) : SubSeq(a, x + 1, x + Len(b))[i] = a[x + i]
        BY <4>1, <4>2
      <4>4. SubSeq(a, x + 1, x + Len(b)) = b <=> here
        <5> DEFINE p == SubSeq(a, x + 1, x + Len(b))
        <5>1. p \in Text /\ Len(p) = Len(b) /\ \A i \in 1 .. Len(b) : p[i] = a[x + i]
          BY <4>1, <4>3
        <5> HIDE DEF p
        <5>2. p = b <=> here
          BY <1>0, <5>1, SameText
        <5> QED
          BY <5>2 DEF p
      <4>5. 1 \in 1 .. Len(b)
        BY <1>0
      <4> QED
        BY <4>4, <4>5
    <3> HIDE DEF here
    <3> QED
      BY <3>1, <3>2, Zenon DEF Occurrences
  <2> QED
    BY <2>2, <2>3
<1> QED
  BY <1>1, <1>2

\* One character is searched for as a set of characters.
LEMMA OneCharacter ==
    ASSUME NEW a, NEW b, Short(a), Short(b), b # << >>
    PROVE  Len(b) = 1 => CharsIn(a, b) = Occurrences(a, b)
<1>1. /\ Occurrences(a, b) \in SUBSET (0 .. Len(a))
      /\ \A x \in 0 .. Len(a) : x \in Occurrences(a, b) <=>
            x + Len(b) <= Len(a) /\ \A i \in 1 .. Len(b) : a[x + i] = b[i]
  BY OccurrencesAre
<1> SUFFICES ASSUME Len(b) = 1 PROVE CharsIn(a, b) = Occurrences(a, b)
  OBVIOUS
<1>2. Len(a) \in Nat /\ DOMAIN b = 1 .. 1
  BY ShortText
<1>3. ToSet(b) = {b[1]}
  BY <1>2 DEF ToSet
<1>4. \A x \in 0 .. Len(a) : x \in Occurrences(a, b) <=> x + 1 <= Len(a) /\ a[x + 1] = b[1]
  BY <1>1
<1>5. \A x : x \in CharsIn(a, b) <=> x \in 0 .. Len(a) - 1 /\ a[x + 1] = b[1]
  BY <1>3 DEF CharsIn
<1>6. \A x : x \in 0 .. Len(a) - 1 <=> x \in 0 .. Len(a) /\ x + 1 <= Len(a)
  BY <1>2
<1> QED
  BY <1>1, <1>4, <1>5, <1>6

\* The places in two sets that are all places together: from or up to any of them,
\* the first and the last that is in one of the sets is that place.
LEMMA OneOfTheTwo ==
    ASSUME NEW n \in 0 .. MaxLength, NEW S, NEW T, S \cup T = 0 .. n - 1, NEW pos \in Places
    PROVE  /\ FirstFrom({FirstFrom(S, pos), FirstFrom(T, pos)}, 0) = IF pos < n THEN pos ELSE Npos
           /\ n > 0 => Min({pos, n - 1}) \in {LastUpTo(S, pos), LastUpTo(T, pos)}
<1>0. /\ MaxLength \in Nat /\ Npos \in Nat /\ Npos > MaxLength /\ n \in Nat /\ pos \in Nat /\ pos < Npos
      /\ \A x : x \in S \cup T <=> x \in Nat /\ x < n
  BY StringAssumption DEF Places
<1>1. S \in SUBSET Nat /\ T \in SUBSET Nat
  BY <1>0
<1> DEFINE f == FirstFrom(S, pos)
           g == FirstFrom(T, pos)
<1>2. /\ (\A x \in S : x < pos) => f = Npos
      /\ (\E x \in S : x >= pos) => f \in S /\ f >= pos /\ \A x \in S : x >= pos => f <= x
  BY <1>0, <1>1, FirstFromIs
<1>3. /\ (\A x \in T : x < pos) => g = Npos
      /\ (\E x \in T : x >= pos) => g \in T /\ g >= pos /\ \A x \in T : x >= pos => g <= x
  BY <1>0, <1>1, FirstFromIs
<1>4. \A x \in S \cup T : x \in Nat
  BY <1>1
<1> HIDE DEF f, g
<1>5. f \in Nat /\ g \in Nat /\ f >= pos /\ g >= pos
  <2>1. f \in Nat /\ f >= pos
    BY <1>0, <1>2, <1>4
  <2>2. g \in Nat /\ g >= pos
    BY <1>0, <1>3, <1>4
  <2> QED
    BY <2>1, <2>2
<1>6. ASSUME pos < n PROVE f = pos \/ g = pos
  <2>1. pos \in S \/ pos \in T
    BY <1>0, <1>6
  <2>2. pos \in S => f <= pos
    BY <1>0, <1>2
  <2>3. pos \in T => g <= pos
    BY <1>0, <1>3
  <2> QED
    BY <1>0, <1>5, <2>1, <2>2, <2>3
<1>7. pos >= n => f = Npos /\ g = Npos
  BY <1>0, <1>2, <1>3
<1>8. FirstFrom({f, g}, 0) \in {f, g} /\ FirstFrom({f, g}, 0) <= f /\ FirstFrom({f, g}, 0) <= g
  <2>1. {f, g} \in SUBSET Nat /\ f \in {f, g} /\ g \in {f, g} /\ 0 \in Nat /\ f >= 0 /\ g >= 0
    BY <1>5
  <2> QED
    BY <2>1, FirstFromIs
<1>9. FirstFrom({f, g}, 0) = IF pos < n THEN pos ELSE Npos
  <2> DEFINE h == FirstFrom({f, g}, 0)
  <2>1. h \in {f, g} /\ h <= f /\ h <= g
    BY <1>8
  <2> HIDE DEF h
  <2>2. h = IF pos < n THEN pos ELSE Npos
    BY <1>0, <1>5, <1>6, <1>7, <2>1
  <2> QED
    BY <2>2 DEF h
<1>10. ASSUME n > 0 PROVE Min({pos, n - 1}) \in {LastUpTo(S, pos), LastUpTo(T, pos)}
  <2> DEFINE m == Min({pos, n - 1})
  <2>1. m \in {pos, n - 1} /\ m <= pos /\ m <= n - 1 /\ m \in Nat
    <3>1. {pos, n - 1} \in SUBSET Nat /\ {pos, n - 1} # {}
      BY <1>0, <1>10
    <3>2. m \in {pos, n - 1} /\ \A y \in {pos, n - 1} : m <= y
      BY <3>1, LeastIs
    <3> QED
      BY <3>1, <3>2
  <2> HIDE DEF m
  <2>2. m \in S \cup T
    BY <1>0, <2>1
  <2>3. \A U \in {S, T} : m \in U => LastUpTo(U, pos) = m
    <3> SUFFICES ASSUME NEW U \in {S, T}, m \in U PROVE LastUpTo(U, pos) = m
      OBVIOUS
    <3> DEFINE l == LastUpTo(U, pos)
    <3>1. U \in SUBSET Nat
      BY <1>1
    <3>2. l \in U /\ l <= pos /\ \A x \in U : x <= pos => x <= l
      BY <1>0, <2>1, <3>1, LastUpToIs
    <3> HIDE DEF l
    <3>3. l \in Nat /\ l < n /\ m <= l
      BY <1>0, <2>1, <3>2
    <3>4. l = m
      BY <1>0, <2>1, <3>2, <3>3
    <3> QED
      BY <3>4 DEF l
  <2>4. m \in {LastUpTo(S, pos), LastUpTo(T, pos)}
    BY <2>2, <2>3
  <2> QED
    BY <2>4 DEF m
<1> QED
  BY <1>9, <1>10 DEF f, g

\* compare() of whole strings: by the first characters that differ, else by the lengths.
LEMMA CompareIs ==
    ASSUME NEW a, NEW b, Short(a), Short(b)
    PROVE  \/ \E i \in 1 .. Len(a) :
                 /\ i <= Len(b) /\ a[i] # b[i] /\ \A j \in 1 .. i - 1 : a[j] = b[j]
                 /\ Compare(a, b, 0, Npos) = IF CharLess(a[i], b[i]) THEN -1 ELSE 1
           \/ /\ \A i \in 1 .. Len(a) : i <= Len(b) => a[i] = b[i]
              /\ Compare(a, b, 0, Npos) = Len(a) - Len(b)
<1>0. Len(a) \in Nat /\ Len(b) \in Nat /\ Npos \in Nat /\ Len(a) < Npos /\ Len(b) < Npos
  BY ShortText
<1> DEFINE rlen == Min({Len(a) - 0, Npos, Len(b)})
           differ == {i \in 1 .. rlen : a[0 + i] # b[i]}
<1>1. /\ rlen \in Nat /\ rlen <= Len(a) /\ rlen <= Len(b) /\ rlen # Npos
      /\ \A i \in Nat : i <= rlen <=> i <= Len(a) /\ i <= Len(b)
  <2> DEFINE three == {Len(a) - 0, Npos, Len(b)}
  <2>1. three \in SUBSET Nat /\ three # {}
    BY <1>0
  <2>2. Min(three) \in three /\ \A y \in three : Min(three) <= y
    <3> HIDE DEF three
    <3> QED
      BY <2>1, LeastIs
  <2>3. rlen = Min(three)
    OBVIOUS
  <2> HIDE DEF rlen
  <2>4. rlen \in three /\ rlen <= Len(a) - 0 /\ rlen <= Npos /\ rlen <= Len(b)
    BY <2>2, <2>3
  <2> QED
    BY <1>0, <2>4
<1>2. Compare(a, b, 0, Npos) =
        CASE differ # {} -> IF CharLess(a[0 + Min(differ)], b[Min(differ)]) THEN -1 ELSE 1
          [] differ = {} /\ rlen = Npos -> 0
          [] OTHER -> Len(a) - 0 - Len(b)
  BY Zenon DEF Compare
<1> HIDE DEF rlen
<1>3. CASE differ = {}
  <2>1. \A i \in 1 .. Len(a) : i <= Len(b) => a[i] = b[i]
    <3> SUFFICES ASSUME NEW i \in 1 .. Len(a), i <= Len(b) PROVE a[i] = b[i]
      OBVIOUS
    <3>1. i \in 1 .. rlen /\ 0 + i = i
      BY <1>0, <1>1
    <3> QED
      BY <1>3, <3>1
  <2> HIDE DEF differ
  <2>2. Compare(a, b, 0, Npos) = Len(a) - 0 - Len(b)
    BY <1>1, <1>2, <1>3, Zenon
  <2>3. Compare(a, b, 0, Npos) = Len(a) - Len(b)
    BY <1>0, <2>2
  <2> QED
    BY <2>1, <2>3
<1>4. CASE differ # {}
  <2> DEFINE i == Min(differ)
  <2>1. differ \in SUBSET Nat
    BY <1>1
  <2>2. i \in differ /\ \A y \in differ : i <= y
    <3> HIDE DEF differ
    <3> QED
      BY <1>4, <2>1, LeastIs
  <2>3. Compare(a, b, 0, Npos) = IF CharLess(a[0 + i], b[i]) THEN -1 ELSE 1
    <3> HIDE DEF differ
    <3> QED
      BY <1>2, <1>4, Zenon
  <2> HIDE DEF i
  <2>4. i \in 1 .. rlen /\ a[0 + i] # b[i] /\ 0 + i = i
    BY <1>1, <2>2
  <2>5. i \in 1 .. Len(a) /\ i <= Len(b)
    BY <1>0, <1>1, <2>4
  <2>6. ASSUME NEW j \in 1 .. i - 1 PROVE a[j] = b[j]
    <3>1. j \in 1 .. rlen /\ ~ (i <= j) /\ 0 + j = j
      BY <1>1, <2>4
    <3> QED
      BY <2>2, <3>1
  <2>7. a[i] # b[i] /\ Compare(a, b, 0, Npos) = IF CharLess(a[i], b[i]) THEN -1 ELSE 1
    <3> HIDE DEF differ
    <3> QED
      BY <2>3, <2>4
  <2> HIDE DEF differ
  <2> QED
    BY <2>5, <2>6, <2>7
<1> QED
  BY <1>3, <1>4

\* The comparison tells different strings apart, and is never less both ways.
LEMMA ComparesInOrder ==
    ASSUME NEW a, NEW b, Short(a), Short(b)
    PROVE  /\ Compare(a, b, 0, Npos) = 0 <=> a = b
           /\ StringLess(a, b) => ~ StringLess(b, a)
<1>0. /\ Len(a) \in Nat /\ Len(b) \in Nat /\ a \in Text /\ b \in Text
      /\ \A i \in 1 .. Len(a) : a[i] \in Letters
      /\ \A i \in 1 .. Len(b) : b[i] \in Letters
  BY ShortText
<1> DEFINE Ahead(c, d, i) == i <= Len(d) /\ c[i] # d[i] /\ \A j \in 1 .. i - 1 : c[j] = d[j]
           Same(c, d) == \A i \in 1 .. Len(c) : i <= Len(d) => c[i] = d[i]
           x == Compare(a, b, 0, Npos)
           y == Compare(b, a, 0, Npos)
<1>1. \/ \E i \in 1 .. Len(a) : Ahead(a, b, i) /\ x = IF CharLess(a[i], b[i]) THEN -1 ELSE 1
      \/ Same(a, b) /\ x = Len(a) - Len(b)
  BY CompareIs
<1>2. \/ \E i \in 1 .. Len(b) : Ahead(b, a, i) /\ y = IF CharLess(b[i], a[i]) THEN -1 ELSE 1
      \/ Same(b, a) /\ y = Len(b) - Len(a)
  BY CompareIs
<1> HIDE DEF x, y
<1>3. a = b <=> Len(a) = Len(b) /\ \A i \in 1 .. Len(a) : a[i] = b[i]
  BY <1>0, SameText
<1>4. x = 0 <=> a = b
  <2>1. CASE \E i \in 1 .. Len(a) : Ahead(a, b, i) /\ x = IF CharLess(a[i], b[i]) THEN -1 ELSE 1
    BY <1>3, <2>1
  <2>2. CASE Same(a, b) /\ x = Len(a) - Len(b)
    BY <1>0, <1>3, <2>2
  <2> QED
    BY <1>1, <2>1, <2>2
<1>5. ASSUME x < 0, y < 0 PROVE FALSE
  <2>1. CASE \E i \in 1 .. Len(a) : Ahead(a, b, i) /\ x = IF CharLess(a[i], b[i]) THEN -1 ELSE 1
    <3>1. PICK i \in 1 .. Len(a) : Ahead(a, b, i) /\ x = IF CharLess(a[i], b[i]) THEN -1 ELSE 1
      BY <2>1
    <3>2. CharLess(a[i], b[i])
      BY <1>5, <3>1
    <3>3. i \in 1 .. Len(b) /\ ~ Same(b, a)
      BY <1>0, <3>1
    <3>4. PICK k \in 1 .. Len(b) : Ahead(b, a, k) /\ y = IF CharLess(b[k], a[k]) THEN -1 ELSE 1
      BY <1>2, <3>3
    <3>5. CharLess(b[k], a[k])
      BY <1>5, <3>4
    <3>6. k = i
      <4>1. ~ (k < i)
        <5>1. k < i => k \in 1 .. i - 1
          BY <1>0
        <5> QED
          BY <3>1, <3>4, <5>1
      <4>2. ~ (i < k)
        <5>1. i < k => i \in 1 .. k - 1
          BY <1>0
        <5> QED
          BY <3>1, <3>4, <5>1
      <4> QED
        BY <1>0, <4>1, <4>2
    <3>7. a[i] \in Letters /\ b[i] \in Letters
      BY <1>0, <3>3
    <3> QED
      BY <3>2, <3>5, <3>6, <3>7, StringAssumption
  <2>2. CASE Same(a, b) /\ x = Len(a) - Len(b)
    <3>1. Len(a) < Len(b) /\ ~ (y = Len(b) - Len(a))
      BY <1>0, <1>5, <2>2
    <3>2. PICK k \in 1 .. Len(b) : Ahead(b, a, k)
      BY <1>2, <3>1
    <3>3. k \in 1 .. Len(a)
      BY <1>0, <3>2
    <3> QED
      BY <2>2, <3>2, <3>3
  <2> QED
    BY <1>1, <2>1, <2>2
<1> QED
  BY <1>4, <1>5 DEF StringLess, x, y

\* The least of a set is the element that is below the others.
LEMMA LeastIsThis ==
    ASSUME NEW S \in SUBSET Nat, NEW m \in S, \A y \in S : m <= y
    PROVE  Min(S) = m
<1>1. Min(S) \in S /\ \A y \in S : Min(S) <= y
  BY LeastIs
<1>2. Min(S) \in Nat /\ m \in Nat /\ Min(S) <= m /\ m <= Min(S)
  BY <1>1
<1> QED
  BY <1>2

\* A line and a word end at the same delimiter, which only the line takes.
LEMMA LinesAndWords ==
    ASSUME NEW a, Short(a), NEW d \in ToSet(a)
    PROVE  LET line == GetLine(a, d)
               word == ReadWord(a, {d}, 0)
           IN  word.word = line.word /\ word.rest = <<d>> \o line.rest
<1>0. /\ Len(a) \in Nat /\ Npos \in Nat /\ Len(a) < Npos /\ DOMAIN a = 1 .. Len(a) /\ a \in Text
      /\ \A i \in 1 .. Len(a) : a[i] \in Letters
  BY ShortText
<1> DEFINE S == {x \in 0 .. Len(a) - 1 : a[x + 1] = d}
           stop == FirstFrom(S, 0)
<1>1. {x \in 0 .. Len(a) - 1 : a[x + 1] \in {d}} = S
  OBVIOUS
<1>2. S \in SUBSET Nat /\ \E x \in S : x >= 0
  <2>1. PICK i \in 1 .. Len(a) : a[i] = d
    BY <1>0 DEF ToSet
  <2>2. i - 1 \in 0 .. Len(a) - 1 /\ (i - 1) + 1 = i /\ i - 1 >= 0
    BY <1>0
  <2>3. i - 1 \in S
    BY <2>1, <2>2
  <2> QED
    BY <2>2, <2>3
<1>3. stop \in S
  <2>1. 0 \in Nat
    OBVIOUS
  <2> HIDE DEF S
  <2> QED
    BY <1>2, <2>1, FirstFromIs
<1>4. stop \in 0 .. Len(a) - 1 /\ a[stop + 1] = d
  <2> DEFINE x == stop
  <2>1. x \in S
    BY <1>3
  <2> HIDE DEF x
  <2>2. x \in 0 .. Len(a) - 1 /\ a[x + 1] = d
    BY <2>1
  <2> QED
    BY <2>2 DEF x
<1> HIDE DEF stop
<1>5. Min({stop, Len(a)}) = stop
  <2>1. {stop, Len(a)} \in SUBSET Nat /\ stop \in {stop, Len(a)} /\ \A y \in {stop, Len(a)} : stop <= y
    BY <1>0, <1>4
  <2> QED
    BY <2>1, LeastIsThis
<1>6. Min({stop, Npos, Len(a)}) = stop
  <2> DEFINE three == {stop, Npos, Len(a)}
  <2>1. three \in SUBSET Nat /\ stop \in three /\ \A y \in three : stop <= y
    BY <1>0, <1>4
  <2> HIDE DEF three
  <2>2. Min(three) = stop
    BY <2>1, LeastIsThis
  <2> QED
    BY <2>2 DEF three
<1>7. /\ GetLine(a, d).word = SubSeq(a, 1, stop)
      /\ GetLine(a, d).rest = SubSeq(a, stop + 2, Len(a))
  <2>1. GetLine(a, d) =
          [word |-> SubSeq(a, 1, Min({stop, Len(a)})),
           rest |-> SubSeq(a, Min({stop, Len(a)}) + 2, Len(a)),
           eof |-> stop = Npos, fail |-> a = << >>]
    BY Zenon DEF GetLine, stop
  <2> DEFINE w == SubSeq(a, 1, stop)
             r == SubSeq(a, stop + 2, Len(a))
             e == stop = Npos
             f == a = << >>
  <2>2. GetLine(a, d) = [word |-> w, rest |-> r, eof |-> e, fail |-> f]
    BY <1>5, <2>1, Zenon
  <2> HIDE DEF w, r, e, f
  <2>3. GetLine(a, d).word = w /\ GetLine(a, d).rest = r
    BY <2>2
  <2> QED
    BY <2>3, Zenon DEF w, r
<1>8. /\ ReadWord(a, {d}, 0).word = SubSeq(a, 1, stop)
      /\ ReadWord(a, {d}, 0).rest = SubSeq(a, stop + 1, Len(a))
  <2> DEFINE most == IF 0 > 1 THEN 0 - 1 ELSE Npos
             cut == FirstFrom({x \in 0 .. Len(a) - 1 : a[x + 1] \in {d}}, 0)
  <2>1. most = Npos /\ cut = stop
    BY <1>1 DEF stop
  <2>2. ReadWord(a, {d}, 0) =
          [word |-> SubSeq(a, 1, Min({cut, most, Len(a)})),
           rest |-> SubSeq(a, Min({cut, most, Len(a)}) + 1, Len(a)),
           eof |-> Min({cut, most, Len(a)}) = Len(a) /\ Min({cut, most, Len(a)}) < most,
           fail |-> Min({cut, most, Len(a)}) = 0]
    BY Zenon DEF ReadWord
  <2> HIDE DEF most, cut
  <2>3. Min({cut, most, Len(a)}) = stop
    BY <1>6, <2>1
  <2> DEFINE w == SubSeq(a, 1, stop)
             r == SubSeq(a, stop + 1, Len(a))
             e == stop = Len(a) /\ stop < most
             f == stop = 0
  <2>4. ReadWord(a, {d}, 0) = [word |-> w, rest |-> r, eof |-> e, fail |-> f]
    BY <2>2, <2>3, Zenon
  <2> HIDE DEF w, r, e, f
  <2>5. ReadWord(a, {d}, 0).word = w /\ ReadWord(a, {d}, 0).rest = r
    BY <2>4
  <2> QED
    BY <2>5, Zenon DEF w, r
<1>9. SubSeq(a, stop + 1, Len(a)) = <<d>> \o SubSeq(a, stop + 2, Len(a))
  <2> DEFINE m == stop + 1
             k == stop + 2
             n == Len(a)
             p == SubSeq(a, m, n)
             q == SubSeq(a, k, n)
             r == <<d>> \o q
  <2>1. m \in Nat \ {0} /\ k \in Nat \ {0} /\ n \in Nat /\ n <= Len(a) /\ k = m + 1 /\ m <= n /\ n - m \in Nat
        /\ n - m + 1 \in Nat /\ n - m = n - k + 1
    BY <1>0, <1>4
  <2> HIDE DEF m, k, n
  <2>2. p \in Text /\ Len(p) = n - m + 1 /\ \A i \in 1 .. n - m + 1 : p[i] = a[m + i - 1]
    BY <2>1, PartIs
  <2>3. q \in Text /\ Len(q) = n - m /\ \A i \in 1 .. n - m : q[i] = a[k + i - 1]
    BY <2>1, PartIs
  <2> HIDE DEF p, q
  <2>4. <<d>> \in Text /\ Len(<<d>>) = 1 /\ <<d>>[1] = d
    <3>1. d \in Letters
      BY <1>0 DEF ToSet
    <3> QED
      BY <3>1 DEF Text
  <2>5. r \in Text /\ Len(r) = 1 + (n - m)
        /\ \A i \in 1 .. 1 + (n - m) : r[i] = IF i <= 1 THEN <<d>>[i] ELSE q[i - 1]
    BY <2>3, <2>4, ConcatProperties DEF Text
  <2> HIDE DEF r
  <2>6. ASSUME NEW i \in 1 .. n - m + 1 PROVE p[i] = r[i]
    <3>1. CASE i = 1
      <4>1. p[1] = d
        <5>1. p[1] = a[m + 1 - 1] /\ m + 1 - 1 = m /\ a[m] = d
          BY <1>4, <2>1, <2>2 DEF m
        <5> QED
          BY <5>1
      <4>2. r[1] = d
        BY <2>1, <2>4, <2>5
      <4> QED
        BY <3>1, <4>1, <4>2
    <3>2. CASE i # 1
      <4>1. i - 1 \in 1 .. n - m /\ k + (i - 1) - 1 = m + i - 1 /\ i \in 1 .. 1 + (n - m) /\ ~ (i <= 1)
        BY <2>1, <3>2
      <4>2. r[i] = q[i - 1] /\ q[i - 1] = a[k + (i - 1) - 1] /\ p[i] = a[m + i - 1]
        BY <2>2, <2>3, <2>5, <4>1
      <4> QED
        BY <4>1, <4>2
    <3> QED
      BY <3>1, <3>2
  <2>7. p = r
    <3>1. Len(p) = Len(r)
      BY <2>1, <2>2, <2>5
    <3> QED
      BY <2>2, <2>5, <2>6, <3>1, SameText
  <2> QED
    BY <2>7 DEF p, q, r, m, k, n
<1> QED
  BY <1>7, <1>8, <1>9

\* Whatever two texts are, searching, comparing and reading them agrees.
LEMMA SearchesHold ==
    ASSUME NEW a, NEW b, Short(a), Short(b)
    PROVE  SearchesOfStrings(a, b, Places)
<1>0. /\ Len(a) \in 0 .. MaxLength /\ Len(a) \in Nat /\ Npos \in Nat /\ Len(b) \in Nat
      /\ MaxLength \in Nat /\ Places = 0 .. MaxLength
  BY ShortText DEF Places
<1>1. ASSUME NEW pos \in Places
      PROVE  LET at == Find(a, b, pos)
                 back == RFind(a, b, pos)
             IN  /\ b # << >> => (at # Npos <=> \E x \in pos .. Len(a) : IsPrefix(b, SubSeq(a, x + 1, Len(a))))
                 /\ at # Npos => at >= pos /\ RFind(a, b, at) = at
                 /\ back # Npos => back <= pos /\ Find(a, b, back) = back
                 /\ Len(b) = 1 => /\ FindFirstOf(a, b, pos) = at
                                  /\ FindLastOf(a, b, pos) = back
                 /\ FirstFrom({FindFirstOf(a, b, pos), FindFirstNotOf(a, b, pos)}, 0)
                       = IF pos < Len(a) THEN pos ELSE Npos
                 /\ a # << >> => Min({pos, Len(a) - 1})
                                    \in {FindLastOf(a, b, pos), FindLastNotOf(a, b, pos)}
  <2> DEFINE S == Occurrences(a, b)
             C == CharsIn(a, b)
             N == CharsNotIn(a, b)
             at == FirstFrom(S, pos)
             back == LastUpTo(S, pos)
  <2>1. S \in SUBSET (0 .. Len(a)) /\ (b = << >> => S = {})
    <3>1. CASE b = << >>
      BY <3>1 DEF Occurrences
    <3>2. CASE b # << >>
      BY <3>2, OccurrencesAre
    <3> QED
      BY <3>1, <3>2
  <2>2. b # << >> => \A x \in 0 .. Len(a) : x \in S <=> IsPrefix(b, SubSeq(a, x + 1, Len(a)))
    BY OccurrencesAre
  <2>3. Len(b) = 1 => C = S
    <3>1. Len(b) = 1 => b # << >>
      BY EmptySeq
    <3> QED
      BY <3>1, OneCharacter
  <2>4. C \cup N = 0 .. Len(a) - 1
    BY DEF CharsIn, CharsNotIn
  <2>5. Find(a, b, pos) = at /\ RFind(a, b, pos) = back
        /\ FindFirstOf(a, b, pos) = FirstFrom(C, pos) /\ FindFirstNotOf(a, b, pos) = FirstFrom(N, pos)
        /\ FindLastOf(a, b, pos) = LastUpTo(C, pos) /\ FindLastNotOf(a, b, pos) = LastUpTo(N, pos)
        /\ \A p : Find(a, b, p) = FirstFrom(S, p) /\ RFind(a, b, p) = LastUpTo(S, p)
    BY Zenon DEF Find, RFind, FindFirstOf, FindFirstNotOf, FindLastOf, FindLastNotOf
  <2> HIDE DEF S, C, N
  <2>6. /\ at # Npos <=> \E x \in S : x >= pos
        /\ at # Npos => at >= pos /\ LastUpTo(S, at) = at
        /\ back # Npos => back <= pos /\ FirstFrom(S, back) = back
    BY <1>0, <2>1, SearchesAgree
  <2>7. /\ FirstFrom({FirstFrom(C, pos), FirstFrom(N, pos)}, 0) = IF pos < Len(a) THEN pos ELSE Npos
        /\ Len(a) > 0 => Min({pos, Len(a) - 1}) \in {LastUpTo(C, pos), LastUpTo(N, pos)}
    BY <1>0, <2>4, OneOfTheTwo
  <2> HIDE DEF at, back
  <2>8. ASSUME b # << >>
        PROVE  at # Npos <=> \E x \in pos .. Len(a) : IsPrefix(b, SubSeq(a, x + 1, Len(a)))
    <3>1. \A x \in S : x >= pos => x \in pos .. Len(a) /\ x \in 0 .. Len(a)
      BY <1>0, <2>1
    <3>2. \A x \in pos .. Len(a) : x \in 0 .. Len(a) /\ x >= pos
      BY <1>0
    <3> DEFINE P(x) == IsPrefix(b, SubSeq(a, x + 1, Len(a)))
    <3>3. \A x \in 0 .. Len(a) : x \in S <=> P(x)
      BY <2>2, <2>8
    <3> HIDE DEF P
    <3>4. (\E x \in S : x >= pos) <=> \E x \in pos .. Len(a) : P(x)
      BY <3>1, <3>2, <3>3
    <3>5. at # Npos <=> \E x \in pos .. Len(a) : P(x)
      BY <2>6, <3>4
    <3> QED
      BY <3>5 DEF P
  <2>9. Len(b) = 1 => FindFirstOf(a, b, pos) = at /\ FindLastOf(a, b, pos) = back
    BY <2>3, <2>5
  <2>10. a # << >> => Len(a) > 0
    BY EmptySeq DEF Short, Text
  <2> QED
    BY <2>5, <2>6, <2>7, <2>8, <2>9, <2>10, Zenon
<1>2. /\ Compare(a, b, 0, Npos) = 0 <=> a = b
      /\ StringLess(a, b) => ~ StringLess(b, a)
  BY ComparesInOrder
<1>3. \A d \in ToSet(a) :
         LET line == GetLine(a, d)
             word == ReadWord(a, {d}, 0)
         IN  word.word = line.word /\ word.rest = <<d>> \o line.rest
  BY LinesAndWords
<1> QED
  BY <1>1, <1>2, <1>3, Zenon DEF SearchesOfStrings

-----------------------------------------------------------------------------
(* The searches of the strings that come about.                            *)

\* No string is longer than the longest.
MeantShort == \A s \in Strings : Len(meant[s]) <= MaxLength

LEMMA BecomeShort ==
    ASSUME StringIInv, MeantShort, NEW s \in Strings, NEW own, NEW value,
           Become(s, own, value), Len(value) <= MaxLength
    PROVE  MeantShort'
<1>1. meant \in [Strings -> Text]
  BY DEF StringIInv, Consistent, StringTypes
<1>2. meant' = [meant EXCEPT ![s] = value]
  BY DEF Become
<1> QED
  BY <1>1, <1>2 DEF MeantShort

LEMMA ReplaceShort ==
    ASSUME StringIInv, MeantShort, NEW s \in Strings, NEW pos \in Nat, NEW n1 \in Nat, NEW source,
           Replace(s, pos, n1, source)
    PROVE  MeantShort'
<1>1. Chars(s) = meant[s]
  BY DEF Replace, Alive, Chars, StringIInv, Consistent
<1>2. Len(Spliced(meant[s], pos, n1, source)) <= MaxLength
  BY <1>1 DEF Replace
<1>3. \E own : Become(s, own, Spliced(meant[s], pos, n1, source))
  BY DEF Replace
<1> QED
  BY <1>2, <1>3, BecomeShort

LEMMA AssignShort ==
    ASSUME StringIInv, MeantShort, NEW s \in Strings, NEW t \in Strings, Assign(s, t)
    PROVE  MeantShort'
<1>1. \E own : Become(s, own, meant[t])
  BY DEF Assign
<1>2. Len(meant[t]) <= MaxLength
  BY DEF MeantShort
<1> QED
  BY <1>1, <1>2, BecomeShort

LEMMA MeantShortNext == StringIInv /\ MeantShort /\ [StringNext]_stringVars => MeantShort'
<1> SUFFICES ASSUME StringIInv, MeantShort, [StringNext]_stringVars PROVE MeantShort'
  OBVIOUS
<1>0. /\ meant \in [Strings -> Text] /\ MaxLength \in Nat
      /\ Places \subseteq Nat /\ Counts \subseteq Nat /\ Npos \in Nat /\ Len(<< >>) <= MaxLength
  BY StringAssumption, EmptySeq DEF StringIInv, Consistent, StringTypes, Places, Counts
<1>1. ASSUME NEW s \in Strings, Construct(s) \/ Destroy(s) \/ Borrow(s) PROVE MeantShort'
  <2>1. CASE Construct(s)
    <3>1. \E own : Become(s, own, << >>)
      BY <2>1 DEF Construct
    <3> QED
      BY <1>0, <3>1, BecomeShort
  <2>2. CASE Destroy(s)
    BY <1>0, <2>2 DEF Destroy, MeantShort
  <2>3. CASE Borrow(s)
    <3>1. \E own : Become(s, own, meant[s])
      BY <2>3 DEF Borrow
    <3>2. Len(meant[s]) <= MaxLength
      BY DEF MeantShort
    <3> QED
      BY <3>1, <3>2, BecomeShort
  <2> QED
    BY <1>1, <2>1, <2>2, <2>3
<1>2. ASSUME NEW s \in Strings, NEW t \in Strings, CopyConstruct(s, t) \/ Assign(s, t) \/ Swap(s, t)
      PROVE  MeantShort'
  <2>1. CASE CopyConstruct(s, t)
    <3>1. \E own : Become(s, own, meant[t])
      BY <2>1 DEF CopyConstruct
    <3>2. Len(meant[t]) <= MaxLength
      BY DEF MeantShort
    <3> QED
      BY <3>1, <3>2, BecomeShort
  <2>2. CASE Assign(s, t)
    BY <2>2, AssignShort
  <2>3. CASE Swap(s, t)
    BY <1>0, <2>3 DEF Swap, MeantShort
  <2> QED
    BY <1>2, <2>1, <2>2, <2>3
<1>3. ASSUME NEW s \in Strings, NEW pos \in Places, NEW n1 \in Counts, NEW source \in Sources,
             Replace(s, pos, n1, source)
      PROVE  MeantShort'
  <2>1. pos \in Nat /\ n1 \in Nat
    BY <1>0
  <2> QED
    BY <1>3, <2>1, ReplaceShort
<1>4. ASSUME NEW s \in Strings, NEW t \in Strings, NEW pos \in Places, NEW pos2 \in Places,
             NEW n1 \in Counts, NEW n2 \in {1, Npos}, ReplaceByString(s, pos, n1, t, pos2, n2)
      PROVE  MeantShort'
  <2>1. pos \in Nat /\ n1 \in Nat
    BY <1>0
  <2>2. Assign(s, t) \/ \E source : Replace(s, pos, n1, source)
    BY <1>4 DEF ReplaceByString
  <2> QED
    BY <2>1, <2>2, AssignShort, ReplaceShort
<1>5. ASSUME NEW s \in Strings, NEW i \in 1 .. MaxLength, NEW c \in Letters, WriteThrough(s, i, c)
      PROVE  MeantShort'
  <2>1. i \in 1 .. Len(meant[s])
    <3>1. Chars(s) = meant[s] /\ i \in DOMAIN Chars(s)
      BY <1>5 DEF WriteThrough, Alive, Chars, StringIInv, Consistent
    <3>2. meant[s] \in Seq(Letters)
      BY <1>0 DEF Text
    <3> QED
      BY <3>1, <3>2, LenProperties
  <2>2. meant' = [meant EXCEPT ![s] = [meant[s] EXCEPT ![i] = c]]
    BY <1>0, <1>5 DEF WriteThrough
  <2>3. Len([meant[s] EXCEPT ![i] = c]) = Len(meant[s])
    BY <1>0, <2>1, ExceptSeq DEF Text
  <2> QED
    BY <1>0, <2>2, <2>3 DEF MeantShort
<1>6. CASE StringNext
  BY <1>1, <1>2, <1>3, <1>4, <1>5, <1>6 DEF StringNext
<1>7. CASE UNCHANGED stringVars
  BY <1>7 DEF stringVars, MeantShort
<1> QED
  BY <1>6, <1>7

\* For any number of strings of any letters and lengths, searching a string, comparing
\* two and reading one agree with each other and with what they look for.
THEOREM StringsSearched == StringSpec => []StringsFound
<1>1. StringInit => MeantShort
  BY StringAssumption, EmptySeq DEF StringInit, MeantShort
<1>2. StringIInv /\ MeantShort => StringsFound
  <2> SUFFICES ASSUME StringIInv, MeantShort, NEW s \in Alive, NEW t \in Alive
               PROVE  SearchesOfStrings(Chars(s), Chars(t), Places)
    BY DEF StringsFound
  <2>1. \A r \in Alive : Short(Chars(r))
    BY DEF Alive, Chars, StringIInv, Consistent, StringTypes, MeantShort, Short
  <2> QED
    BY <2>1, SearchesHold
<1> QED
  BY <1>1, <1>2, StringInvInit, StringInvNext, MeantShortNext, PTL DEF StringSpec

=============================================================================
