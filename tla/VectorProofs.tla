----------------------------- MODULE VectorProofs -----------------------------
(***************************************************************************)
(* What vector<T> promises when any allocation and any copy of an element  *)
(* may throw, for every size of the store, every vector and every number   *)
(* of calls that succeed first.                                            *)
(*                                                                         *)
(* First the loops of StlUninitialized: a function that constructs or      *)
(* assigns in turn is followed by induction, Copied says what it made.     *)
(* Then blocks: one from allocate() is apart from all objects.  Then the   *)
(* vector: VectorHolds is what every operation needs and leaves, Basic and *)
(* Strong are the two guarantees, and a theorem per operation says which   *)
(* of them it gives and which elements there are if nothing was thrown,    *)
(* as the places that held their values before the call.                   *)
(*                                                                         *)
(* Hypotheses: arguments are objects (Given); with room, sources of a      *)
(* range are not the vector's own elements (Apart), which move under them; *)
(* and if a new block is needed, there is a run of free cells (Room), as   *)
(* malloc() that fails throws here like a copy does, by its turn.          *)
(***************************************************************************)
EXTENDS StlVector, SequenceTheorems, FiniteSetTheorems, WellFoundedInduction, TLAPS

Places == Saved .. Store
Blocks == SUBSET ((1 .. Store) \X (Nat \ {0}))
Heaps == [mem : [Places -> Nat], blocks : Blocks,
          fuel : Nat, thrown : BOOLEAN, bad : BOOLEAN,
          start : Nat, finish : Nat, last : Nat]

\* Everything of a memory but its cells and its luck.
SameShape(o, m) ==
    /\ m.blocks = o.blocks /\ m.bad = o.bad
    /\ m.start = o.start /\ m.finish = o.finish /\ m.last = o.last

\* The memory m is o with copies of the first d of what is at from, in the places to.
Copied(o, m, to, from, d) ==
    /\ \A j \in 1 .. d : m.mem[to[j]] = o.mem[from[j]]
    /\ \A a \in Places : (\A j \in 1 .. d : a # to[j]) => m.mem[a] = o.mem[a]

\* n copies were tried: all were made, or one threw when there was no luck left.
Tried(o, m, n) ==
    /\ m \in Heaps
    /\ SameShape(o, m)
    /\ m.thrown <=> n > o.fuel
    /\ m.fuel = IF n > o.fuel THEN 0 ELSE o.fuel - n

Made(o, n) == IF n > o.fuel THEN o.fuel ELSE n

\* A set of natural numbers that is not empty has a least one.
LEMMA LeastOf ==
    ASSUME NEW S \in SUBSET Nat, S # {}
    PROVE  \E x \in S : \A y \in S : x <= y
<1> DEFINE Less == {ss \in Nat \X Nat : ss[1] < ss[2]}
<1>1. IsWellFoundedOn(Less, Nat)
  BY NatLessThanWellFounded, Zenon DEF OpToRel
<1>2. PICK x \in S : \A y \in S : ~ (<<y, x>> \in Less)
  <2> HIDE DEF Less
  <2> QED
    BY <1>1, WFMin
<1>3. ASSUME NEW y \in S PROVE x <= y
  <2>1. x \in Nat /\ y \in Nat /\ ~ (<<y, x>> \in Less)
    BY <1>2
  <2> QED
    BY <2>1
<1> QED
  BY <1>3

\* The set of the numbers for which something holds, if it holds of 0 and of a number's
\* successor when it does of the number.
LEMMA Upwards ==
    ASSUME NEW n \in Nat, NEW S, 0 \in S, \A k \in 0 .. n - 1 : k \in S => k + 1 \in S
    PROVE  \A k \in 0 .. n : k \in S
<1> SUFFICES ASSUME {k \in 0 .. n : k \notin S} # {} PROVE FALSE
  OBVIOUS
<1>1. PICK x \in {k \in 0 .. n : k \notin S} : \A y \in {k \in 0 .. n : k \notin S} : x <= y
  BY LeastOf, {k \in 0 .. n : k \notin S} \in SUBSET Nat
<1>2. x \in 0 .. n /\ x # 0 /\ x - 1 \in 0 .. n - 1
  BY <1>1
<1>3. x - 1 \in S
  BY <1>1, <1>2
<1> QED
  BY <1>1, <1>2, <1>3

\* A loop of constructions is what it says.
Constructs(o, to, from, n) == Loop(LAMBDA m, k : Construct(m, to[k], from[k]), o, n)

LEMMA ConstructsInTurn ==
    ASSUME NEW o, NEW to, NEW from, NEW n \in Nat
    PROVE  \E h : /\ h[0] = o
                  /\ \A k \in 1 .. n : h[k] = Construct(h[k - 1], to[k], from[k])
                  /\ h[n] = Constructs(o, to, from, n)
<1> DEFINE Step(f, k) == IF k = 0 THEN o ELSE Construct(f[k - 1], to[k], from[k])
           Good(f, m) == f = [k \in 0 .. m |-> Step(f, k)]
           S == {m \in 0 .. n : \E f : Good(f, m)}
<1> HIDE DEF Step
<1>1. 0 \in S
  <2>1. Good([k \in 0 .. 0 |-> o], 0)
    BY DEF Step
  <2> QED
    BY <2>1
<1>2. ASSUME NEW m \in 0 .. n - 1, m \in S PROVE m + 1 \in S
  <2>1. PICK f : Good(f, m)
    BY <1>2
  <2> DEFINE g == [k \in 0 .. m + 1 |-> IF k <= m THEN f[k] ELSE Step(f, k)]
  <2>2. ASSUME NEW k \in 0 .. m + 1 PROVE g[k] = Step(g, k)
    <3>1. k # 0 => g[k - 1] = f[k - 1]
      OBVIOUS
    <3>2. Step(g, k) = Step(f, k)
      BY <3>1 DEF Step
    <3>3. k <= m => f[k] = Step(f, k)
      BY <2>1
    <3> QED
      BY <3>2, <3>3
  <2>3. Good(g, m + 1)
    BY <2>2
  <2>4. m + 1 \in 0 .. n
    OBVIOUS
  <2> HIDE DEF g, Good
  <2> QED
    BY <2>3, <2>4
<1>3. n \in S
  <2> HIDE DEF S
  <2>1. \A k \in 0 .. n : k \in S
    BY <1>1, <1>2, Upwards
  <2> QED
    BY <2>1
<1>3a. PICK f : Good(f, n)
  BY <1>3
<1> DEFINE h == CHOOSE f_1 : f_1 = [k \in 0 .. n |-> Step(f_1, k)]
<1>4. h = [k \in 0 .. n |-> Step(h, k)]
  BY <1>3a, Zenon
<1>5. h[n] = Constructs(o, to, from, n)
  BY Zenon DEF Constructs, Loop, Step
<1> HIDE DEF h
<1>6. h[0] = Step(h, 0) /\ \A k \in 1 .. n : h[k] = Step(h, k)
  BY <1>4
<1>7. h[0] = o /\ \A k \in 1 .. n : h[k] = Construct(h[k - 1], to[k], from[k])
  BY <1>6 DEF Step
<1> QED
  BY <1>5, <1>7, Zenon

\* What construct() does: nothing, a throw, or a copy.
LEMMA ConstructSkips == ASSUME NEW o, o.thrown, NEW at, NEW x PROVE Construct(o, at, x) = o
BY DEF Construct

LEMMA ConstructThrows ==
    ASSUME NEW o \in Heaps, ~o.thrown, o.fuel = 0, NEW at, NEW x
    PROVE  LET r == Construct(o, at, x)
           IN  r \in Heaps /\ SameShape(o, r) /\ r.thrown /\ r.fuel = 0 /\ r.mem = o.mem
<1>1. Construct(o, at, x) = [o EXCEPT !.thrown = TRUE]
  BY DEF Construct
<1> QED
  BY <1>1 DEF Heaps, SameShape

LEMMA ConstructCopies ==
    ASSUME NEW o \in Heaps, ~o.thrown, o.fuel # 0, NEW at \in Places, NEW x \in Places,
           o.mem[x] # Raw, at > Local => o.mem[at] = Raw
    PROVE  LET r == Construct(o, at, x)
           IN  /\ r \in Heaps /\ SameShape(o, r) /\ ~r.thrown /\ r.fuel = o.fuel - 1
               /\ r.mem = [o.mem EXCEPT ![at] = o.mem[x]]
<1>1. Construct(o, at, x) = [o EXCEPT !.mem = [o.mem EXCEPT ![at] = o.mem[x]],
                                      !.fuel = o.fuel - 1, !.bad = o.bad]
  BY DEF Construct, Heaps
<1>2. [o.mem EXCEPT ![at] = o.mem[x]] \in [Places -> Nat] /\ o.fuel - 1 \in Nat
  BY DEF Heaps
<1> QED
  BY <1>1, <1>2 DEF Heaps, SameShape

\* One more copy.
LEMMA OneMore ==
    ASSUME NEW o \in Heaps, NEW k \in Nat, NEW m, Tried(o, m, k), NEW r, SameShape(m, r),
           r \in Heaps,
           \/ r.thrown /\ m.thrown /\ r.fuel = m.fuel
           \/ r.thrown /\ ~m.thrown /\ m.fuel = 0 /\ r.fuel = 0
           \/ ~r.thrown /\ ~m.thrown /\ m.fuel # 0 /\ r.fuel = m.fuel - 1
    PROVE  Tried(o, r, k + 1)
<1>1. o.fuel \in Nat /\ m.fuel \in Nat
  BY DEF Tried, Heaps
<1>2. (m.thrown <=> k > o.fuel) /\ m.fuel = (IF k > o.fuel THEN 0 ELSE o.fuel - k)
  BY DEF Tried
<1>3. SameShape(o, r)
  BY DEF Tried, SameShape
<1>4. r.thrown <=> k + 1 > o.fuel
  BY <1>1, <1>2
<1>5. r.fuel = IF k + 1 > o.fuel THEN 0 ELSE o.fuel - (k + 1)
  BY <1>1, <1>2
<1> QED
  BY <1>3, <1>4, <1>5 DEF Tried

\* One more place.
LEMMA OneFurther ==
    ASSUME NEW o, NEW m, NEW r, NEW to, NEW from, NEW k \in Nat, Copied(o, m, to, from, k),
           m.mem \in [Places -> Nat], NEW v,
           to[k + 1] \in Places, v = o.mem[from[k + 1]],
           r.mem = [m.mem EXCEPT ![to[k + 1]] = v],
           \A j \in 1 .. k : to[j] \in Places /\ to[j] # to[k + 1]
    PROVE  Copied(o, r, to, from, k + 1)
<1>1. ASSUME NEW j \in 1 .. k + 1 PROVE r.mem[to[j]] = o.mem[from[j]]
  <2>1. CASE j = k + 1
    BY <2>1
  <2>2. CASE j \in 1 .. k
    BY <2>2 DEF Copied
  <2> QED
    BY <2>1, <2>2
<1>2. ASSUME NEW a \in Places, \A j \in 1 .. k + 1 : a # to[j]
      PROVE  r.mem[a] = o.mem[a]
  <2>1. a # to[k + 1] /\ \A j \in 1 .. k : a # to[j]
    BY <1>2
  <2> QED
    BY <2>1 DEF Copied
<1> QED
  BY <1>1, <1>2 DEF Copied

\* The first place behind those that have a copy is still as it was.
LEMMA StillThere ==
    ASSUME NEW o, NEW m, NEW to, NEW from, NEW k \in Nat, Copied(o, m, to, from, k),
           NEW a \in Places, \A j \in 1 .. k : to[j] # a
    PROVE  m.mem[a] = o.mem[a]
BY DEF Copied

\* Objects can be constructed at the places to, one each, from those at from.
Fits(o, to, from, n) ==
    /\ \A k \in 1 .. n : to[k] \in 1 .. Store /\ from[k] \in Places
    /\ \A j, k \in 1 .. n : to[j] = to[k] => j = k
    /\ \A k \in 1 .. n : o.mem[to[k]] = Raw /\ o.mem[from[k]] # Raw

\* One more construction.
LEMMA ConstructOneMore ==
    ASSUME Store \in Nat, NEW o \in Heaps, NEW n \in Nat, NEW k \in 0 .. n - 1, NEW m,
           NEW to, NEW from, Fits(o, to, from, n),
           Tried(o, m, k), Copied(o, m, to, from, Made(o, k)), NEW r,
           r = Construct(m, to[k + 1], from[k + 1])
    PROVE  Tried(o, r, k + 1) /\ Copied(o, r, to, from, Made(o, k + 1))
<1> DEFINE at == to[k + 1]
           x == from[k + 1]
<1>a. /\ k \in Nat /\ at \in Places /\ x \in Places
      /\ at = to[k + 1] /\ x = from[k + 1]
      /\ o.mem[x] # Raw /\ o.mem[at] = Raw
  BY DEF Fits, Places, Saved
<1>b. ASSUME NEW j \in 1 .. k PROVE to[j] \in Places /\ to[j] # at /\ to[j] # x
  <2>1. j \in 1 .. n /\ k + 1 \in 1 .. n /\ j # k + 1
    OBVIOUS
  <2>2. to[j] \in Places /\ o.mem[to[j]] = Raw
    BY <2>1 DEF Fits, Places, Saved
  <2>3. to[j] # to[k + 1]
    BY <2>1 DEF Fits
  <2> QED
    BY <1>a, <2>2, <2>3
<1>c. r = Construct(m, at, x)
  OBVIOUS
<1> HIDE DEF at, x
<1>1. /\ o.fuel \in Nat /\ m \in Heaps /\ m.mem \in [Places -> Nat]
      /\ (m.thrown <=> k > o.fuel) /\ m.fuel = (IF k > o.fuel THEN 0 ELSE o.fuel - k)
  BY DEF Tried, Heaps
<1>2. CASE k >= o.fuel
  <2>1. Made(o, k + 1) = Made(o, k)
    BY <1>1, <1>2 DEF Made
  <2>2. r.mem = m.mem /\ Tried(o, r, k + 1)
    <3>1. CASE m.thrown
      <4>1. r = m
        BY <1>c, <3>1, ConstructSkips
      <4>2. SameShape(m, r)
        BY <4>1 DEF SameShape
      <4> QED
        BY <1>a, <1>1, <3>1, <4>1, <4>2, OneMore
    <3>2. CASE ~m.thrown
      <4>1. m.fuel = 0
        BY <1>1, <1>2, <3>2
      <4>2. r \in Heaps /\ SameShape(m, r) /\ r.thrown /\ r.fuel = 0 /\ r.mem = m.mem
        BY <1>c, <1>1, <3>2, <4>1, ConstructThrows
      <4> QED
        BY <1>a, <3>2, <4>1, <4>2, OneMore
    <3> QED
      BY <3>1, <3>2
  <2>3. Copied(o, r, to, from, Made(o, k + 1))
    BY <2>1, <2>2 DEF Copied
  <2> QED
    BY <2>2, <2>3
<1>3. CASE k < o.fuel
  <2>1. Made(o, k) = k /\ Made(o, k + 1) = k + 1
    BY <1>1, <1>3 DEF Made
  <2>2. Copied(o, m, to, from, k)
    BY <2>1
  <2>3. m.mem[x] = o.mem[x] /\ m.mem[at] = o.mem[at]
    BY <1>a, <1>b, <2>2, StillThere
  <2>4. ~m.thrown /\ m.fuel # 0
    BY <1>1, <1>3
  <2>5. /\ r \in Heaps /\ SameShape(m, r) /\ ~r.thrown /\ r.fuel = m.fuel - 1
        /\ r.mem = [m.mem EXCEPT ![at] = m.mem[x]]
    BY <1>a, <1>c, <1>1, <2>3, <2>4, ConstructCopies
  <2>6. Copied(o, r, to, from, k + 1)
    BY <1>a, <1>b, <1>1, <2>2, <2>3, <2>5, OneFurther
  <2>7. Tried(o, r, k + 1)
    BY <1>a, <2>4, <2>5, OneMore
  <2> QED
    BY <2>1, <2>6, <2>7
<1> QED
  BY <1>a, <1>1, <1>2, <1>3

\* What a loop of constructions makes, or has made when one throws.
LEMMA Constructing ==
    ASSUME Store \in Nat, NEW o \in Heaps, ~o.thrown, NEW n \in Nat, NEW to, NEW from,
           Fits(o, to, from, n),
           NEW h, h[0] = o, \A k \in 1 .. n : h[k] = Construct(h[k - 1], to[k], from[k])
    PROVE  Tried(o, h[n], n) /\ Copied(o, h[n], to, from, Made(o, n))
<1> DEFINE Q(k) == Tried(o, h[k], k) /\ Copied(o, h[k], to, from, Made(o, k))
           S == {k \in 0 .. n : Q(k)}
<1>1. Q(0)
  BY DEF Tried, Copied, Made, SameShape, Heaps
<1>2. ASSUME NEW k \in 0 .. n - 1, Q(k) PROVE Q(k + 1)
  <2>1. k + 1 \in 1 .. n /\ (k + 1) - 1 = k
    OBVIOUS
  <2>2. h[k + 1] = Construct(h[k], to[k + 1], from[k + 1])
    BY <2>1
  <2> QED
    BY <1>2, <2>2, ConstructOneMore
<1> HIDE DEF Q
<1>3. \A k \in 0 .. n : k \in S
  <2>1. 0 \in S /\ \A k \in 0 .. n - 1 : k \in S => k + 1 \in S
    BY <1>1, <1>2
  <2> HIDE DEF S
  <2> QED
    BY <2>1, Upwards
<1>4. Q(n)
  BY <1>3
<1> QED
  BY <1>4 DEF Q

\* Nothing happens once something was thrown.
LEMMA ConstructsNothing ==
    ASSUME NEW o, o.thrown, NEW n \in Nat, NEW to, NEW from,
           NEW h, h[0] = o, \A k \in 1 .. n : h[k] = Construct(h[k - 1], to[k], from[k])
    PROVE  h[n] = o
<1> DEFINE S == {k \in 0 .. n : h[k] = o}
<1>1. 0 \in S
  OBVIOUS
<1>2. ASSUME NEW k \in 0 .. n - 1, k \in S PROVE k + 1 \in S
  <2>1. k + 1 \in 1 .. n /\ (k + 1) - 1 = k /\ k + 1 \in 0 .. n /\ h[k] = o
    BY <1>2
  <2>2. h[k + 1] = Construct(o, to[k + 1], from[k + 1])
    BY <2>1
  <2>3. h[k + 1] = o
    BY <2>2, ConstructSkips
  <2> QED
    BY <2>1, <2>3
<1> HIDE DEF S
<1>3. n \in S
  BY <1>1, <1>2, Upwards
<1> QED
  BY <1>3 DEF S

\* What destroy() does to objects.
LEMMA Destroying ==
    ASSUME NEW o \in Heaps, NEW P \in SUBSET Places, \A a \in P : o.mem[a] # Raw
    PROVE  LET r == Destroy(o, P)
           IN  /\ r \in Heaps /\ SameShape(o, r) /\ r.thrown = o.thrown /\ r.fuel = o.fuel
               /\ r.mem = [a \in Places |-> IF a \in P THEN Raw ELSE o.mem[a]]
<1> DEFINE mem == [a \in Places |-> IF a \in P THEN Raw ELSE o.mem[a]]
<1>1. DOMAIN o.mem = Places
  BY DEF Heaps
<1>2. Destroy(o, P) = [o EXCEPT !.mem = mem, !.bad = o.bad]
  BY <1>1 DEF Destroy, Heaps
<1>3. mem \in [Places -> Nat]
  BY DEF Heaps, Raw
<1> HIDE DEF mem
<1>4. /\ [o EXCEPT !.mem = mem, !.bad = o.bad] \in Heaps
      /\ [o EXCEPT !.mem = mem, !.bad = o.bad].mem = mem
  BY <1>3 DEF Heaps
<1> QED
  BY <1>2, <1>4 DEF mem, Heaps, SameShape

\* n places were filled, or none: when a copy throws, those made before it are
\* destroyed again (stl_uninitialized.h:60, stl_uninitialized.h:156 and the other handlers).
AllOrNothing(o, r, to, from, n) ==
    /\ r \in Heaps /\ SameShape(o, r)
    /\ r.thrown <=> n > o.fuel
    /\ n > o.fuel => r.fuel = 0 /\ r.mem = o.mem
    /\ n <= o.fuel => r.fuel = o.fuel - n /\ Copied(o, r, to, from, n)

\* The uninitialized_ functions leave the memory as it was if a copy throws, and
\* construct every copy otherwise; nothing is constructed over an object.
THEOREM UninitializedUndoes ==
    ASSUME Store \in Nat, NEW o \in Heaps, ~o.thrown, NEW to, NEW from,
           Len(from) \in Nat, Fits(o, to, from, Len(from))
    PROVE  AllOrNothing(o, ConstructAll(o, to, from), to, from, Len(from))
<1> DEFINE n == Len(from)
           r == ConstructAll(o, to, from)
<1>1. PICK h : /\ h[0] = o
               /\ \A k \in 1 .. n : h[k] = Construct(h[k - 1], to[k], from[k])
               /\ h[n] = Constructs(o, to, from, n)
  BY ConstructsInTurn
<1> DEFINE made == h[n]
<1>2. Tried(o, made, n) /\ Copied(o, made, to, from, Made(o, n))
  BY <1>1, Constructing
<1>3. r = IF made.thrown THEN Destroy(made, {to[k] : k \in 1 .. o.fuel}) ELSE made
  BY <1>1, Zenon DEF ConstructAll, Constructs
<1>4. o.fuel \in Nat /\ o.mem \in [Places -> Nat] /\ n \in Nat
  BY DEF Heaps
<1>5. Fits(o, to, from, n)
  OBVIOUS
<1> HIDE DEF made, r, n
<1>6. CASE n > o.fuel
  <2> DEFINE P == {to[k] : k \in 1 .. o.fuel}
  <2>1. made \in Heaps /\ SameShape(o, made) /\ made.thrown /\ made.fuel = 0
    BY <1>2, <1>6 DEF Tried
  <2>2. Copied(o, made, to, from, o.fuel)
    BY <1>2, <1>6 DEF Made
  <2>3. ASSUME NEW k \in 1 .. o.fuel
        PROVE  /\ to[k] \in Places /\ o.mem[to[k]] = Raw
               /\ made.mem[to[k]] # Raw
    <3>1. k \in 1 .. n
      BY <1>4, <1>6
    <3> QED
      BY <1>5, <2>2, <3>1 DEF Fits, Copied, Places, Saved
  <2>4. P \in SUBSET Places /\ \A a \in P : made.mem[a] # Raw /\ o.mem[a] = Raw
    BY <2>3
  <2>5. r = Destroy(made, P)
    BY <1>3, <2>1
  <2>6. \A a \in Places : a \notin P => made.mem[a] = o.mem[a]
    BY <2>2 DEF Copied
  <2> HIDE DEF P
  <2>7. /\ r \in Heaps /\ SameShape(made, r) /\ r.thrown = made.thrown
        /\ r.fuel = made.fuel
        /\ r.mem = [a \in Places |-> IF a \in P THEN Raw ELSE made.mem[a]]
    BY <2>1, <2>4, <2>5, Destroying
  <2>8. r.mem = o.mem
    BY <1>4, <2>4, <2>6, <2>7
  <2>9. SameShape(o, r) /\ r.thrown /\ r.fuel = 0
    BY <2>1, <2>7 DEF SameShape
  <2>10. ~(n <= o.fuel)
    BY <1>4, <1>6
  <2> QED
    BY <1>6, <2>7, <2>8, <2>9, <2>10 DEF AllOrNothing, r, n
<1>7. CASE ~(n > o.fuel)
  <2>1. made \in Heaps /\ SameShape(o, made) /\ ~made.thrown /\ made.fuel = o.fuel - n
    BY <1>2, <1>7 DEF Tried
  <2>2. Copied(o, made, to, from, n)
    BY <1>2, <1>7 DEF Made
  <2>3. r = made
    BY <1>3, <2>1
  <2> QED
    BY <1>7, <2>1, <2>2, <2>3 DEF AllOrNothing, r, n
<1> QED
  BY <1>6, <1>7

\* Once something was thrown they do nothing.
LEMMA UninitializedSkips ==
    ASSUME NEW o, o.thrown, NEW to, NEW from, Len(from) \in Nat
    PROVE  ConstructAll(o, to, from) = o
<1> DEFINE n == Len(from)
<1> HIDE DEF n
<1>1. n \in Nat
  BY DEF n
<1>2. PICK h : /\ h[0] = o
               /\ \A k \in 1 .. n : h[k] = Construct(h[k - 1], to[k], from[k])
               /\ h[n] = Constructs(o, to, from, n)
  BY <1>1, ConstructsInTurn
<1>3. h[n] = o
  BY <1>1, <1>2, ConstructsNothing
<1> QED
  BY <1>2, <1>3, Zenon DEF ConstructAll, Constructs, n

-----------------------------------------------------------------------------
(* Assignments.                                                            *)

\* A loop of assignments is what it says.
Assigns(o, to, from, n) == Loop(LAMBDA m, k : Assign(m, to[k], from[k]), o, n)

LEMMA AssignsInTurn ==
    ASSUME NEW o, NEW to, NEW from, NEW n \in Nat
    PROVE  \E h : /\ h[0] = o
                  /\ \A k \in 1 .. n : h[k] = Assign(h[k - 1], to[k], from[k])
                  /\ h[n] = Assigns(o, to, from, n)
<1> DEFINE Step(f, k) == IF k = 0 THEN o ELSE Assign(f[k - 1], to[k], from[k])
           Good(f, m) == f = [k \in 0 .. m |-> Step(f, k)]
           S == {m \in 0 .. n : \E f : Good(f, m)}
<1> HIDE DEF Step
<1>1. 0 \in S
  <2>1. Good([k \in 0 .. 0 |-> o], 0)
    BY DEF Step
  <2> QED
    BY <2>1
<1>2. ASSUME NEW m \in 0 .. n - 1, m \in S PROVE m + 1 \in S
  <2>1. PICK f : Good(f, m)
    BY <1>2
  <2> DEFINE g == [k \in 0 .. m + 1 |-> IF k <= m THEN f[k] ELSE Step(f, k)]
  <2>2. ASSUME NEW k \in 0 .. m + 1 PROVE g[k] = Step(g, k)
    <3>1. k # 0 => g[k - 1] = f[k - 1]
      OBVIOUS
    <3>2. Step(g, k) = Step(f, k)
      BY <3>1 DEF Step
    <3>3. k <= m => f[k] = Step(f, k)
      BY <2>1
    <3> QED
      BY <3>2, <3>3
  <2>3. Good(g, m + 1)
    BY <2>2
  <2>4. m + 1 \in 0 .. n
    OBVIOUS
  <2> HIDE DEF g, Good
  <2> QED
    BY <2>3, <2>4
<1>3. n \in S
  <2> HIDE DEF S
  <2>1. \A k \in 0 .. n : k \in S
    BY <1>1, <1>2, Upwards
  <2> QED
    BY <2>1
<1>3a. PICK f : Good(f, n)
  BY <1>3
<1> DEFINE h == CHOOSE f_1 : f_1 = [k \in 0 .. n |-> Step(f_1, k)]
<1>4. h = [k \in 0 .. n |-> Step(h, k)]
  BY <1>3a, Zenon
<1>5. h[n] = Assigns(o, to, from, n)
  BY Zenon DEF Assigns, Loop, Step
<1> HIDE DEF h
<1>6. h[0] = Step(h, 0) /\ \A k \in 1 .. n : h[k] = Step(h, k)
  BY <1>4
<1>7. h[0] = o /\ \A k \in 1 .. n : h[k] = Assign(h[k - 1], to[k], from[k])
  BY <1>6 DEF Step
<1> QED
  BY <1>5, <1>7, Zenon

\* What an assignment does: nothing, a throw, or a copy.
LEMMA AssignSkips == ASSUME NEW o, o.thrown, NEW at, NEW x PROVE Assign(o, at, x) = o
BY DEF Assign

LEMMA AssignThrows ==
    ASSUME NEW o \in Heaps, ~o.thrown, o.fuel = 0, NEW at, NEW x
    PROVE  LET r == Assign(o, at, x)
           IN  r \in Heaps /\ SameShape(o, r) /\ r.thrown /\ r.fuel = 0 /\ r.mem = o.mem
<1>1. Assign(o, at, x) = [o EXCEPT !.thrown = TRUE]
  BY DEF Assign
<1> QED
  BY <1>1 DEF Heaps, SameShape

LEMMA AssignCopies ==
    ASSUME NEW o \in Heaps, ~o.thrown, o.fuel # 0, NEW at \in Places, NEW x \in Places,
           o.mem[x] # Raw, o.mem[at] # Raw
    PROVE  LET r == Assign(o, at, x)
           IN  /\ r \in Heaps /\ SameShape(o, r) /\ ~r.thrown /\ r.fuel = o.fuel - 1
               /\ r.mem = [o.mem EXCEPT ![at] = o.mem[x]]
<1>1. Assign(o, at, x) = [o EXCEPT !.mem = [o.mem EXCEPT ![at] = o.mem[x]],
                                   !.fuel = o.fuel - 1, !.bad = o.bad]
  BY DEF Assign, Heaps
<1>2. [o.mem EXCEPT ![at] = o.mem[x]] \in [Places -> Nat] /\ o.fuel - 1 \in Nat
  BY DEF Heaps
<1> QED
  BY <1>1, <1>2 DEF Heaps, SameShape

\* Objects at the places to can be assigned from those at from, in turn: no source is
\* overwritten before its turn comes.
Movable(o, to, from, n) ==
    /\ \A k \in 1 .. n : /\ to[k] \in Places /\ o.mem[to[k]] # Raw
                         /\ from[k] \in Places /\ o.mem[from[k]] # Raw
    /\ \A j, k \in 1 .. n : j < k => to[j] # to[k] /\ to[j] # from[k]

\* One more assignment.
LEMMA AssignOneMore ==
    ASSUME NEW o \in Heaps, NEW n \in Nat, NEW k \in 0 .. n - 1, NEW m,
           NEW to, NEW from, Movable(o, to, from, n),
           Tried(o, m, k), Copied(o, m, to, from, Made(o, k)), NEW r,
           r = Assign(m, to[k + 1], from[k + 1])
    PROVE  Tried(o, r, k + 1) /\ Copied(o, r, to, from, Made(o, k + 1))
<1> DEFINE at == to[k + 1]
           x == from[k + 1]
<1>a. /\ k \in Nat /\ at \in Places /\ x \in Places
      /\ at = to[k + 1] /\ x = from[k + 1]
      /\ o.mem[x] # Raw /\ o.mem[at] # Raw
  BY DEF Movable
<1>b. ASSUME NEW j \in 1 .. k PROVE to[j] \in Places /\ to[j] # at /\ to[j] # x
  <2>1. j \in 1 .. n /\ k + 1 \in 1 .. n /\ j < k + 1
    OBVIOUS
  <2> QED
    BY <2>1 DEF Movable
<1>c. r = Assign(m, at, x)
  OBVIOUS
<1> HIDE DEF at, x
<1>1. /\ o.fuel \in Nat /\ m \in Heaps /\ m.mem \in [Places -> Nat]
      /\ (m.thrown <=> k > o.fuel) /\ m.fuel = (IF k > o.fuel THEN 0 ELSE o.fuel - k)
  BY DEF Tried, Heaps
<1>2. CASE k >= o.fuel
  <2>1. Made(o, k + 1) = Made(o, k)
    BY <1>1, <1>2 DEF Made
  <2>2. r.mem = m.mem /\ Tried(o, r, k + 1)
    <3>1. CASE m.thrown
      <4>1. r = m
        BY <1>c, <3>1, AssignSkips
      <4>2. SameShape(m, r)
        BY <4>1 DEF SameShape
      <4> QED
        BY <1>a, <1>1, <3>1, <4>1, <4>2, OneMore
    <3>2. CASE ~m.thrown
      <4>1. m.fuel = 0
        BY <1>1, <1>2, <3>2
      <4>2. r \in Heaps /\ SameShape(m, r) /\ r.thrown /\ r.fuel = 0 /\ r.mem = m.mem
        BY <1>c, <1>1, <3>2, <4>1, AssignThrows
      <4> QED
        BY <1>a, <3>2, <4>1, <4>2, OneMore
    <3> QED
      BY <3>1, <3>2
  <2>3. Copied(o, r, to, from, Made(o, k + 1))
    BY <2>1, <2>2 DEF Copied
  <2> QED
    BY <2>2, <2>3
<1>3. CASE k < o.fuel
  <2>1. Made(o, k) = k /\ Made(o, k + 1) = k + 1
    BY <1>1, <1>3 DEF Made
  <2>2. Copied(o, m, to, from, k)
    BY <2>1
  <2>3. m.mem[x] = o.mem[x] /\ m.mem[at] = o.mem[at]
    BY <1>a, <1>b, <2>2, StillThere
  <2>4. ~m.thrown /\ m.fuel # 0
    BY <1>1, <1>3
  <2>5. /\ r \in Heaps /\ SameShape(m, r) /\ ~r.thrown /\ r.fuel = m.fuel - 1
        /\ r.mem = [m.mem EXCEPT ![at] = m.mem[x]]
    BY <1>a, <1>c, <1>1, <2>3, <2>4, AssignCopies
  <2>6. Copied(o, r, to, from, k + 1)
    BY <1>a, <1>b, <1>1, <2>2, <2>3, <2>5, OneFurther
  <2>7. Tried(o, r, k + 1)
    BY <1>a, <2>4, <2>5, OneMore
  <2> QED
    BY <2>1, <2>6, <2>7
<1> QED
  BY <1>a, <1>1, <1>2, <1>3

\* What copy(), copy_backward() and fill() make of objects, or have made when one throws.
LEMMA Assigning ==
    ASSUME NEW o \in Heaps, ~o.thrown, NEW n \in Nat, NEW to, NEW from,
           Movable(o, to, from, n),
           NEW h, h[0] = o, \A k \in 1 .. n : h[k] = Assign(h[k - 1], to[k], from[k])
    PROVE  Tried(o, h[n], n) /\ Copied(o, h[n], to, from, Made(o, n))
<1> DEFINE Q(k) == Tried(o, h[k], k) /\ Copied(o, h[k], to, from, Made(o, k))
           S == {k \in 0 .. n : Q(k)}
<1>1. Q(0)
  BY DEF Tried, Copied, Made, SameShape, Heaps
<1>2. ASSUME NEW k \in 0 .. n - 1, Q(k) PROVE Q(k + 1)
  <2>1. k + 1 \in 1 .. n /\ (k + 1) - 1 = k
    OBVIOUS
  <2>2. h[k + 1] = Assign(h[k], to[k + 1], from[k + 1])
    BY <2>1
  <2> QED
    BY <1>2, <2>2, AssignOneMore
<1> HIDE DEF Q
<1>3. \A k \in 0 .. n : k \in S
  <2>1. 0 \in S /\ \A k \in 0 .. n - 1 : k \in S => k + 1 \in S
    BY <1>1, <1>2
  <2> HIDE DEF S
  <2> QED
    BY <2>1, Upwards
<1>4. Q(n)
  BY <1>3
<1> QED
  BY <1>4 DEF Q

\* Nothing is assigned once something was thrown.
LEMMA AssignsNothing ==
    ASSUME NEW o, o.thrown, NEW n \in Nat, NEW to, NEW from,
           NEW h, h[0] = o, \A k \in 1 .. n : h[k] = Assign(h[k - 1], to[k], from[k])
    PROVE  h[n] = o
<1> DEFINE S == {k \in 0 .. n : h[k] = o}
<1>1. 0 \in S
  OBVIOUS
<1>2. ASSUME NEW k \in 0 .. n - 1, k \in S PROVE k + 1 \in S
  <2>1. k + 1 \in 1 .. n /\ (k + 1) - 1 = k /\ k + 1 \in 0 .. n /\ h[k] = o
    BY <1>2
  <2>2. h[k + 1] = Assign(o, to[k + 1], from[k + 1])
    BY <2>1
  <2>3. h[k + 1] = o
    BY <2>2, AssignSkips
  <2> QED
    BY <2>1, <2>3
<1> HIDE DEF S
<1>3. n \in S
  BY <1>1, <1>2, Upwards
<1> QED
  BY <1>3 DEF S

\* copy() of objects, as far as it comes when one throws, assigns the first values and
\* makes no object and ends none (the copies of stl_vector.h:191, stl_vector.h:309).
LEMMA ObjectsStay ==
    ASSUME NEW o \in Heaps, ~o.thrown, NEW to, NEW from,
           NEW n \in Nat, n = Len(from),
           Movable(o, to, from, n), NEW r, r = CopyObjects(o, from, to)
    PROVE  /\ Tried(o, r, n)
           /\ Copied(o, r, to, from, Made(o, n))
           /\ \A a \in Places : r.mem[a] = Raw <=> o.mem[a] = Raw
<1>1. PICK h : /\ h[0] = o
               /\ \A k \in 1 .. n : h[k] = Assign(h[k - 1], to[k], from[k])
               /\ h[n] = Assigns(o, to, from, n)
  BY AssignsInTurn
<1>2. Tried(o, h[n], n) /\ Copied(o, h[n], to, from, Made(o, n))
  BY <1>1, Assigning
<1>3. r = h[n]
  BY <1>1, Zenon DEF CopyObjects, Assigns
<1>4. Made(o, n) \in 0 .. n
  BY DEF Made, Heaps
<1>5. ASSUME NEW a \in Places PROVE r.mem[a] = Raw <=> o.mem[a] = Raw
  <2>1. CASE \E j \in 1 .. Made(o, n) : a = to[j]
    <3>1. PICK j \in 1 .. Made(o, n) : a = to[j]
      BY <2>1
    <3>2. j \in 1 .. n
      BY <1>4
    <3>3. o.mem[to[j]] # Raw /\ o.mem[from[j]] # Raw
      BY <3>2 DEF Movable
    <3>4. r.mem[to[j]] = o.mem[from[j]]
      BY <1>2, <1>3 DEF Copied
    <3> QED
      BY <3>1, <3>3, <3>4
  <2>2. CASE ~\E j \in 1 .. Made(o, n) : a = to[j]
    BY <1>2, <1>3, <2>2 DEF Copied
  <2> QED
    BY <2>1, <2>2
<1> QED
  BY <1>2, <1>3, <1>5

LEMMA CopySkips ==
    ASSUME NEW o, o.thrown, NEW to, NEW from, Len(from) \in Nat
    PROVE  CopyObjects(o, from, to) = o
<1> DEFINE n == Len(from)
<1> HIDE DEF n
<1>1. n \in Nat
  BY DEF n
<1>2. PICK h : /\ h[0] = o
               /\ \A k \in 1 .. n : h[k] = Assign(h[k - 1], to[k], from[k])
               /\ h[n] = Assigns(o, to, from, n)
  BY <1>1, AssignsInTurn
<1>3. h[n] = o
  BY <1>1, <1>2, AssignsNothing
<1> QED
  BY <1>2, <1>3, Zenon DEF CopyObjects, Assigns, n

-----------------------------------------------------------------------------
(* Blocks.                                                                 *)

\* There is room for a block of n cells.
Unused(o, a, n) == \A cell \in a .. a + n - 1 : \A b \in o.blocks : cell \notin Cells(b)
Room(o, n) == \E a \in 1 .. Store : a + n - 1 <= Store /\ Unused(o, a, n)

\* allocate() takes the first place that is free.
LEMMA NextIsUnused ==
    ASSUME Store \in Nat, NEW o, NEW n \in Nat \ {0}, Room(o, n)
    PROVE  /\ NextBlock(o, n) \in 1 .. Store
           /\ NextBlock(o, n) + n - 1 <= Store
           /\ Unused(o, NextBlock(o, n), n)
<1> DEFINE taken == UNION {Cells(b) : b \in o.blocks}
           Free(a) == \A cell \in Cells(<<a, n>>) : cell \notin taken
           Lowest(a) == Free(a) /\ \A lower \in 1 .. a - 1 : ~Free(lower)
           S == {a \in 1 .. Store : Free(a)}
<1>1. ASSUME NEW a \in 1 .. Store PROVE Free(a) <=> Unused(o, a, n)
  <2>1. Cells(<<a, n>>) = a .. a + n - 1
    BY DEF Cells
  <2> QED
    BY <2>1 DEF Unused
<1> HIDE DEF Free
<1>2. PICK a \in 1 .. Store : a + n - 1 <= Store /\ Free(a)
  BY <1>1 DEF Room
<1>3. PICK x \in S : \A y \in S : x <= y
  <2>1. S \in SUBSET Nat /\ S # {}
    BY <1>2
  <2> QED
    BY <2>1, LeastOf
<1>4. x \in 1 .. Store /\ Lowest(x)
  BY <1>3
<1>5. NextBlock(o, n) = CHOOSE b \in 1 .. Store : Lowest(b)
  BY Zenon DEF NextBlock, Free
<1>6. NextBlock(o, n) \in 1 .. Store /\ Lowest(NextBlock(o, n))
  BY <1>4, <1>5, Zenon
<1>7. NextBlock(o, n) <= a
  BY <1>2, <1>6
<1> QED
  BY <1>1, <1>2, <1>6, <1>7

LEMMA AllocateThrows ==
    ASSUME NEW o \in Heaps, ~o.thrown, o.fuel = 0, NEW n \in Nat \ {0}
    PROVE  LET r == Allocate(o, n)
           IN  r \in Heaps /\ SameShape(o, r) /\ r.thrown /\ r.fuel = 0 /\ r.mem = o.mem
<1>1. Allocate(o, n) = [o EXCEPT !.thrown = TRUE]
  BY DEF Allocate
<1> QED
  BY <1>1 DEF Heaps, SameShape

LEMMA AllocateFinds ==
    ASSUME Store \in Nat, NEW o \in Heaps, ~o.thrown, o.fuel # 0, NEW n \in Nat \ {0},
           Room(o, n)
    PROVE  LET r == Allocate(o, n)
           IN  /\ r \in Heaps /\ ~r.thrown /\ r.fuel = o.fuel - 1 /\ r.mem = o.mem
               /\ r.blocks = o.blocks \cup {<<NextBlock(o, n), n>>}
               /\ r.bad = o.bad /\ r.start = o.start /\ r.finish = o.finish
               /\ r.last = o.last
<1> DEFINE blocks == o.blocks \cup {<<NextBlock(o, n), n>>}
<1>1. Allocate(o, n) = [o EXCEPT !.fuel = o.fuel - 1, !.blocks = blocks]
  BY DEF Allocate, Heaps
<1>2. blocks \in Blocks
  BY NextIsUnused DEF Heaps, Blocks
<1>3. o.fuel - 1 \in Nat
  BY DEF Heaps
<1> HIDE DEF blocks
<1>4. [o EXCEPT !.fuel = o.fuel - 1, !.blocks = blocks] \in Heaps
  BY <1>2, <1>3 DEF Heaps
<1> QED
  BY <1>1, <1>4 DEF blocks, Heaps

LEMMA Deallocating ==
    ASSUME NEW o \in Heaps, NEW at \in Nat \ {0}, NEW n \in Nat \ {0},
           <<at, n>> \in o.blocks, \A a \in at .. at + n - 1 : o.mem[a] = Raw
    PROVE  LET r == Deallocate(o, at, n)
           IN  /\ r \in Heaps /\ r.thrown = o.thrown /\ r.fuel = o.fuel /\ r.mem = o.mem
               /\ r.blocks = o.blocks \ {<<at, n>>}
               /\ r.bad = o.bad /\ r.start = o.start /\ r.finish = o.finish
               /\ r.last = o.last
<1> DEFINE blocks == o.blocks \ {<<at, n>>}
<1>1. Cells(<<at, n>>) = at .. at + n - 1
  BY DEF Cells
<1>2. Deallocate(o, at, n) = [o EXCEPT !.blocks = blocks, !.bad = o.bad]
  BY <1>1 DEF Deallocate, Heaps, Null
<1>3. blocks \in Blocks
  BY DEF Heaps, Blocks
<1> HIDE DEF blocks
<1>4. [o EXCEPT !.blocks = blocks, !.bad = o.bad] \in Heaps
  BY <1>3 DEF Heaps
<1> QED
  BY <1>2, <1>4 DEF blocks, Heaps

-----------------------------------------------------------------------------
(* Ranges.                                                                 *)

LEMMA SpanOf ==
    ASSUME NEW a \in Int, NEW b \in Int, a <= b
    PROVE  /\ Span(a, b) \in Seq(Int) /\ Len(Span(a, b)) = b - a /\ b - a \in Nat
           /\ \A k \in 1 .. b - a : Span(a, b)[k] = a + k - 1 /\ Span(a, b)[k] \in a .. b - 1
<1> DEFINE s == [k \in 1 .. b - a |-> a + k - 1]
<1>1. b - a \in Nat /\ s \in [1 .. b - a -> Int]
  OBVIOUS
<1>2. CASE a = b
  <2>1. Span(a, b) = << >>
    BY <1>2 DEF Span
  <2> QED
    BY <1>2, <2>1
<1>3. CASE a # b
  <2>1. Span(a, b) = s
    BY <1>3 DEF Span
  <2>2. s \in Seq(Int) /\ Len(s) = b - a
    BY <1>1
  <2> QED
    BY <1>1, <2>1, <2>2
<1> QED
  BY <1>2, <1>3

\* What [first, last) of a vector becomes with others between: three ranges in a row.
LEMMA ThreeInARow ==
    ASSUME NEW s \in Seq(Int), NEW t \in Seq(Int), NEW u \in Seq(Int)
    PROVE  LET all == s \o t \o u
           IN  /\ all \in Seq(Int)
               /\ Len(all) = Len(s) + Len(t) + Len(u)
               /\ \A k \in 1 .. Len(s) : all[k] = s[k]
               /\ \A k \in 1 .. Len(t) : all[Len(s) + k] = t[k]
               /\ \A k \in 1 .. Len(u) : all[Len(s) + Len(t) + k] = u[k]
<1>1. s \o t \in Seq(Int) /\ Len(s \o t) = Len(s) + Len(t)
  OBVIOUS
<1>2. ASSUME NEW k \in 1 .. Len(s) PROVE (s \o t \o u)[k] = s[k]
  BY <1>1
<1>3. ASSUME NEW k \in 1 .. Len(t) PROVE (s \o t \o u)[Len(s) + k] = t[k]
  BY <1>1
<1>4. ASSUME NEW k \in 1 .. Len(u) PROVE (s \o t \o u)[Len(s) + Len(t) + k] = u[k]
  BY <1>1
<1> QED
  BY <1>1, <1>2, <1>3, <1>4

-----------------------------------------------------------------------------
(* The vector.                                                             *)

Held(o) == o.start .. o.last - 1
Own(o) == IF o.start = Null THEN {} ELSE {<<o.start, o.last - o.start>>}

\* Blocks do not overlap, and every object is in one of them.
BlocksHold(o) ==
    /\ \A b \in o.blocks : b[1] + b[2] - 1 <= Store
    /\ \A b, d \in o.blocks : b # d => \A a \in Cells(b) : a \notin Cells(d)
    /\ \A a \in 1 .. Store : o.mem[a] # Raw => \E b \in o.blocks : a \in Cells(b)

\* A vector has no block or one, whose objects are those of [start, finish).
PointersHold(o) ==
    \/ o.start = Null /\ o.finish = Null /\ o.last = Null
    \/ /\ o.start \in 1 .. Store /\ o.start <= o.finish /\ o.finish <= o.last
       /\ o.start < o.last /\ <<o.start, o.last - o.start>> \in o.blocks

VectorHolds(o) ==
    /\ o \in Heaps /\ ~o.bad
    /\ BlocksHold(o)
    /\ PointersHold(o)
    /\ \A a \in Held(o) : o.mem[a] # Raw <=> a < o.finish

\* Nothing but the vector changed, and the local copy.
Elsewhere(o, r) ==
    /\ r.blocks \ Own(r) = o.blocks \ Own(o)
    /\ \A a \in Places : a # Local /\ a \notin Held(o) /\ a \notin Held(r) => r.mem[a] = o.mem[a]

\* The values of the elements and others, before a call.
ValuesAt(o, places) == [k \in 1 .. Len(places) |-> o.mem[places[k]]]

\* What is at some places, all of them objects.
Sources(o, from) == from \in Seq(Int) /\ \A k \in 1 .. Len(from) : from[k] \in Places /\ o.mem[from[k]] # Raw

\* A call that throws gives back what it took and leaves the vector well-formed; one that
\* does not makes the elements those that were at the places all.
Basic(o, r, all) ==
    /\ VectorHolds(r)
    /\ Elsewhere(o, r)
    /\ ~r.thrown => Elements(r) = ValuesAt(o, all)

\* A call that throws leaves everything as it was.
Strong(o, r, all) ==
    /\ Basic(o, r, all)
    /\ r.thrown => r.mem = o.mem /\ SameShape(o, r)

LEMMA PointersTyped ==
    ASSUME NEW o, VectorHolds(o)
    PROVE  /\ o \in Heaps /\ o.start \in Nat /\ o.finish \in Nat /\ o.last \in Nat
           /\ o.start <= o.finish /\ o.finish <= o.last
           /\ o.mem \in [Places -> Nat] /\ o.fuel \in Nat
BY DEF VectorHolds, PointersHold, Heaps, Null

\* Throwing alone.
LEMMA OnlyThrown ==
    ASSUME NEW o, VectorHolds(o), NEW r \in Heaps, SameShape(o, r), r.mem = o.mem, r.thrown,
           NEW all
    PROVE  Strong(o, r, all)
<1>1. BlocksHold(r)
  BY DEF VectorHolds, BlocksHold, SameShape
<1>2. PointersHold(r) /\ Held(r) = Held(o) /\ Own(r) = Own(o) /\ ~r.bad
  BY DEF VectorHolds, PointersHold, SameShape, Held, Own
<1>3. VectorHolds(r)
  BY <1>1, <1>2 DEF VectorHolds, SameShape
<1>4. Elsewhere(o, r)
  BY <1>2 DEF Elsewhere, SameShape
<1> QED
  BY <1>3, <1>4 DEF Strong, Basic

\* The places of a vector's elements are objects.
LEMMA ElementsAreObjects ==
    ASSUME Store \in Nat, NEW o, VectorHolds(o), NEW a \in o.start .. o.finish - 1
    PROVE  a \in Places /\ a \in Held(o) /\ o.mem[a] # Raw /\ a \in 1 .. Store
<1>1. /\ o.start \in 1 .. Store /\ o.start <= o.finish /\ o.finish <= o.last
      /\ o.start < o.last /\ <<o.start, o.last - o.start>> \in o.blocks
      /\ o.finish \in Nat /\ o.last \in Nat
  BY PointersTyped DEF VectorHolds, PointersHold, Null
<1>2. o.start + (o.last - o.start) - 1 <= Store
  BY <1>1 DEF VectorHolds, BlocksHold
<1> QED
  BY <1>1, <1>2 DEF VectorHolds, Held, Places, Saved

\* Ranges of the elements before and behind others, as sources.
LEMMA AroundOthers ==
    ASSUME Store \in Nat, NEW o, VectorHolds(o), NEW position \in Int, NEW rest \in Int,
           o.start <= position, position <= o.finish, o.start <= rest, rest <= o.finish,
           NEW from, Sources(o, from)
    PROVE  LET all == Span(o.start, position) \o from \o Span(rest, o.finish)
           IN  /\ Sources(o, all)
               /\ Len(all) = (position - o.start) + Len(from) + (o.finish - rest)
<1> DEFINE s == Span(o.start, position)
           u == Span(rest, o.finish)
           all == s \o from \o u
<1>1. o.start \in Int /\ o.finish \in Int
  BY PointersTyped
<1>2. /\ s \in Seq(Int) /\ Len(s) = position - o.start
      /\ \A k \in 1 .. Len(s) : s[k] \in o.start .. o.finish - 1
  <2>1. /\ s \in Seq(Int) /\ Len(s) = position - o.start
        /\ \A k \in 1 .. position - o.start : s[k] \in o.start .. position - 1
    BY <1>1, SpanOf
  <2>2. \A a \in o.start .. position - 1 : a \in o.start .. o.finish - 1
    BY <1>1
  <2> HIDE DEF s
  <2>3. \A k \in 1 .. Len(s) : s[k] \in o.start .. position - 1
    BY <2>1
  <2> QED
    BY <2>1, <2>2, <2>3
<1>3. /\ u \in Seq(Int) /\ Len(u) = o.finish - rest
      /\ \A k \in 1 .. Len(u) : u[k] \in o.start .. o.finish - 1
  <2>1. /\ u \in Seq(Int) /\ Len(u) = o.finish - rest
        /\ \A k \in 1 .. o.finish - rest : u[k] \in rest .. o.finish - 1
    BY <1>1, SpanOf
  <2>2. \A a \in rest .. o.finish - 1 : a \in o.start .. o.finish - 1
    BY <1>1
  <2> HIDE DEF u
  <2>3. \A k \in 1 .. Len(u) : u[k] \in rest .. o.finish - 1
    BY <2>1
  <2> QED
    BY <2>1, <2>2, <2>3
<1> HIDE DEF s, u
<1>4. from \in Seq(Int) /\ Len(from) \in Nat
  BY DEF Sources
<1>5. /\ all \in Seq(Int)
      /\ Len(all) = Len(s) + Len(from) + Len(u)
      /\ \A k \in 1 .. Len(s) : all[k] = s[k]
      /\ \A k \in 1 .. Len(from) : all[Len(s) + k] = from[k]
      /\ \A k \in 1 .. Len(u) : all[Len(s) + Len(from) + k] = u[k]
  BY <1>2, <1>3, <1>4, ThreeInARow
<1> HIDE DEF all
<1>6. ASSUME NEW k \in 1 .. Len(all) PROVE all[k] \in Places /\ o.mem[all[k]] # Raw
  <2>0. Len(s) \in Nat /\ Len(u) \in Nat
    BY <1>2, <1>3
  <2>1. CASE k <= Len(s)
    <3>1. k \in 1 .. Len(s)
      BY <1>4, <1>5, <2>0, <2>1
    <3>2. all[k] = s[k] /\ s[k] \in o.start .. o.finish - 1
      BY <1>2, <1>5, <3>1
    <3> QED
      BY <3>2, ElementsAreObjects
  <2>2. CASE k > Len(s) /\ k <= Len(s) + Len(from)
    <3>1. k - Len(s) \in 1 .. Len(from) /\ Len(s) + (k - Len(s)) = k
      BY <1>4, <2>0, <2>2
    <3>2. all[k] = from[k - Len(s)]
      BY <1>5, <3>1
    <3> QED
      BY <3>1, <3>2 DEF Sources
  <2>3. CASE k > Len(s) + Len(from)
    <3>1. /\ k - Len(s) - Len(from) \in 1 .. Len(u)
          /\ Len(s) + Len(from) + (k - Len(s) - Len(from)) = k
      <4> DEFINE p == Len(s)
                 m == Len(from)
                 q == Len(u)
      <4>1. p \in Nat /\ m \in Nat /\ q \in Nat /\ k \in 1 .. p + m + q /\ k > p + m
        BY <1>4, <1>5, <2>0, <2>3
      <4> HIDE DEF p, m, q
      <4>2. k - p - m \in 1 .. q /\ p + m + (k - p - m) = k
        BY <4>1
      <4> QED
        BY <4>2 DEF p, m, q
    <3>2. all[k] = u[k - Len(s) - Len(from)]
      BY <1>5, <3>1
    <3> QED
      BY <1>3, <3>1, <3>2, ElementsAreObjects
  <2> QED
    BY <1>4, <2>0, <2>1, <2>2, <2>3
<1>7. Sources(o, all)
  BY <1>5, <1>6 DEF Sources
<1> QED
  BY <1>2, <1>3, <1>5, <1>7 DEF all, s, u

\* A place in no block is in none of the vector's, and holds no object.
LEMMA UnusedIsRaw ==
    ASSUME Store \in Nat, NEW o, VectorHolds(o), NEW at \in 1 .. Store, NEW n \in Nat,
           at + n - 1 <= Store, Unused(o, at, n), NEW a \in at .. at + n - 1
    PROVE  a \in 1 .. Store /\ a \in Places /\ o.mem[a] = Raw /\ a \notin Held(o)
<1>1. a \in 1 .. Store /\ a \in Places
  BY DEF Places, Saved
<1>2. \A b \in o.blocks : a \notin Cells(b)
  BY DEF Unused
<1>3. o.mem[a] = Raw
  BY <1>1, <1>2 DEF VectorHolds, BlocksHold
<1>4. a \notin Held(o)
  <2>1. CASE o.start = Null
    BY <1>1, <2>1, PointersTyped DEF VectorHolds, PointersHold, Held, Null
  <2>2. CASE o.start # Null
    <3>1. <<o.start, o.last - o.start>> \in o.blocks
      BY <2>2 DEF VectorHolds, PointersHold
    <3>2. Cells(<<o.start, o.last - o.start>>) = Held(o)
      BY PointersTyped DEF Cells, Held
    <3> QED
      BY <1>2, <3>1, <3>2
  <2> QED
    BY <2>1, <2>2
<1> QED
  BY <1>1, <1>3, <1>4

\* The vector's own block, and that others are apart from it.
LEMMA OwnBlock ==
    ASSUME Store \in Nat, NEW o, VectorHolds(o), o.start # Null
    PROVE  /\ Own(o) = {<<o.start, o.last - o.start>>} /\ Own(o) \subseteq o.blocks
           /\ o.start \in Nat \ {0} /\ o.last - o.start \in Nat \ {0}
           /\ Cells(<<o.start, o.last - o.start>>) = Held(o)
           /\ o.last - 1 <= Store
<1>1. /\ o.start \in 1 .. Store /\ o.start < o.last
      /\ <<o.start, o.last - o.start>> \in o.blocks
  BY DEF VectorHolds, PointersHold
<1>2. Cells(<<o.start, o.last - o.start>>) = Held(o)
  BY PointersTyped DEF Cells, Held
<1>3. o.start + (o.last - o.start) - 1 <= Store
  BY <1>1 DEF VectorHolds, BlocksHold
<1> QED
  BY <1>1, <1>2, <1>3, PointersTyped DEF Own

\* A block that is not the vector's yet.
NewBlock(o, at, len) ==
    /\ at \in 1 .. Store /\ len \in Nat \ {0} /\ at + len - 1 <= Store
    /\ Unused(o, at, len)

\* The first n places from at have the values of others.
Filled(o, m, at, all, n) ==
    /\ \A k \in 1 .. n : m.mem[at + k - 1] = o.mem[all[k]]
    /\ \A a \in Places : a \notin at .. at + n - 1 => m.mem[a] = o.mem[a]

\* The same, and the elements are destroyed.
Moved(o, m, at, all, n) ==
    /\ \A k \in 1 .. n : m.mem[at + k - 1] = o.mem[all[k]]
    /\ \A a \in o.start .. o.finish - 1 : m.mem[a] = Raw
    /\ \A a \in Places : a \notin o.start .. o.finish - 1 /\ a \notin at .. at + n - 1
                          => m.mem[a] = o.mem[a]

\* The new block in the place of the old one.
LEMMA TakesOver ==
    ASSUME Store \in Nat, NEW o, VectorHolds(o), NEW at, NEW len, NewBlock(o, at, len),
           NEW all, Sources(o, all), NEW n \in Nat, n = Len(all), n <= len,
           NEW r \in Heaps, ~r.bad, r.start = at, r.finish = at + n, r.last = at + len,
           r.blocks = (o.blocks \cup {<<at, len>>}) \ Own(o),
           Moved(o, r, at, all, n)
    PROVE  VectorHolds(r) /\ Elsewhere(o, r) /\ Elements(r) = ValuesAt(o, all)
<1>a. /\ at \in 1 .. Store /\ len \in Nat \ {0} /\ at + len - 1 <= Store
      /\ Unused(o, at, len)
  BY DEF NewBlock
<1>b. /\ \A k \in 1 .. n : r.mem[at + k - 1] = o.mem[all[k]]
      /\ \A a \in Places : a \notin o.start .. o.finish - 1 /\ a \notin at .. at + n - 1
                            => r.mem[a] = o.mem[a]
  BY DEF Moved
<1>1. /\ Cells(<<at, len>>) = at .. at + len - 1 /\ Held(r) = at .. at + len - 1
      /\ Own(r) = {<<at, len>>}
  <2>1. Cells(<<at, len>>) = at .. at + len - 1
    BY DEF Cells
  <2>2. Held(r) = at .. at + len - 1
    <3> DEFINE b == r.start
               d == r.last
    <3>1. b = at /\ d = at + len /\ b \in Int /\ d \in Int
      BY <1>a
    <3> HIDE DEF b, d
    <3>2. b .. d - 1 = at .. at + len - 1
      BY <1>a, <3>1
    <3> QED
      BY <3>2, Zenon DEF Held, b, d
  <2>3. at # Null /\ (at + len) - at = len
    BY <1>a DEF Null
  <2>4. Own(r) = {<<at, (at + len) - at>>}
    <3>1. r.start # Null
      BY <2>3
    <3>2. Own(r) = {<<r.start, r.last - r.start>>}
      BY <3>1, Zenon DEF Own
    <3> QED
      BY <3>2, Zenon
  <2> QED
    BY <2>1, <2>2, <2>3, <2>4, Zenon
<1>2. <<at, len>> \notin o.blocks
  <2>1. at \in at .. at + len - 1
    BY <1>a
  <2>2. \A b \in o.blocks : at \notin Cells(b)
    BY <1>a, <2>1 DEF Unused
  <2>3. at \in Cells(<<at, len>>)
    BY <1>1, <2>1
  <2> QED
    BY <2>2, <2>3
<1>3. Own(o) \subseteq o.blocks /\ <<at, len>> \in r.blocks
  BY <1>2, OwnBlock DEF Own
<1>4. ASSUME NEW a \in at .. at + len - 1 PROVE r.mem[a] # Raw <=> a < at + n
  <2>1. CASE a < at + n
    <3>1. a - at + 1 \in 1 .. n /\ at + (a - at + 1) - 1 = a
      BY <1>a, <2>1
    <3>2. r.mem[a] = o.mem[all[a - at + 1]]
      BY <1>b, <3>1
    <3> QED
      BY <2>1, <3>1, <3>2 DEF Sources
  <2>2. CASE ~(a < at + n)
    <3>1. a \in Places /\ a \notin Held(o) /\ o.mem[a] = Raw
      BY <1>a, UnusedIsRaw
    <3>2. a \notin o.start .. o.finish - 1
      BY <3>1, PointersTyped DEF Held
    <3>3. r.mem[a] = o.mem[a]
      BY <1>a, <1>b, <2>2, <3>1, <3>2
    <3> QED
      BY <2>2, <3>1, <3>3
  <2> QED
    BY <2>1, <2>2
<1>5. BlocksHold(r)
  <2>1. \A b \in r.blocks : b[1] + b[2] - 1 <= Store
    BY <1>a DEF VectorHolds, BlocksHold
  <2>2. ASSUME NEW b \in r.blocks, NEW d \in r.blocks, b # d, NEW a \in Cells(b)
        PROVE  a \notin Cells(d)
    <3>1. CASE b = <<at, len>>
      BY <1>a, <1>1, <2>2, <3>1 DEF Unused
    <3>2. CASE d = <<at, len>>
      BY <1>a, <1>1, <2>2, <3>2 DEF Unused
    <3>3. CASE b # <<at, len>> /\ d # <<at, len>>
      BY <2>2, <3>3 DEF VectorHolds, BlocksHold
    <3> QED
      BY <3>1, <3>2, <3>3
  <2>3. ASSUME NEW a \in 1 .. Store, r.mem[a] # Raw PROVE \E b \in r.blocks : a \in Cells(b)
    <3>1. CASE a \in at .. at + len - 1
      BY <1>1, <1>3, <3>1
    <3>2. CASE a \notin at .. at + len - 1
      <4>1. a \in Places /\ a \notin o.start .. o.finish - 1
        BY <2>3 DEF Moved, Places, Saved
      <4>2. a \notin at .. at + n - 1
        BY <1>a, <3>2
      <4>3. o.mem[a] # Raw
        BY <1>b, <2>3, <4>1, <4>2
      <4>4. PICK b \in o.blocks : a \in Cells(b)
        BY <4>3 DEF VectorHolds, BlocksHold
      <4>5. b \notin Own(o)
        <5>1. CASE o.start = Null
          BY <5>1 DEF Own
        <5>2. CASE o.start # Null
          <6>1. b \in Own(o) => a \in Held(o)
            BY <4>4, <5>2, OwnBlock
          <6>2. a \in Held(o) => a < o.finish
            BY <4>3 DEF VectorHolds
          <6> QED
            BY <4>1, <6>1, <6>2, PointersTyped DEF Held
        <5> QED
          BY <5>1, <5>2
      <4> QED
        BY <4>4, <4>5
    <3> QED
      BY <3>1, <3>2
  <2> QED
    BY <2>1, <2>2, <2>3 DEF BlocksHold
<1>6. PointersHold(r)
  <2>1. r.last - r.start = len
    BY <1>a
  <2> QED
    BY <1>a, <1>3, <2>1 DEF PointersHold
<1>7. VectorHolds(r)
  BY <1>1, <1>4, <1>5, <1>6 DEF VectorHolds
<1>8. Elsewhere(o, r)
  <2>1. r.blocks \ Own(r) = o.blocks \ Own(o)
    BY <1>1, <1>2
  <2>2. ASSUME NEW a \in Places, a \notin Held(o), a \notin Held(r) PROVE r.mem[a] = o.mem[a]
    <3>1. a \notin o.start .. o.finish - 1
      BY <2>2, PointersTyped DEF Held
    <3>2. a \notin at .. at + n - 1
      BY <1>a, <1>1, <2>2
    <3> QED
      BY <1>b, <3>1, <3>2
  <2> QED
    BY <2>1, <2>2 DEF Elsewhere
<1>9. Elements(r) = ValuesAt(o, all)
  <2>1. r.finish - r.start = n
    BY <1>a
  <2> QED
    BY <1>b, <2>1 DEF Elements, ValuesAt
<1> QED
  BY <1>7, <1>8, <1>9

\* The new block is apart from all objects, so that copies fit in it.
LEMMA CopiesFit ==
    ASSUME Store \in Nat, NEW o, VectorHolds(o), NEW at \in 1 .. Store,
           NEW len \in Nat \ {0}, at + len - 1 <= Store, Unused(o, at, len),
           NEW all, Sources(o, all), NEW n \in Nat, n = Len(all), n <= len,
           NEW m, m.mem = o.mem
    PROVE  /\ Fits(m, Span(at, at + len), all, n)
           /\ \A k \in 1 .. n : Span(at, at + len)[k] = at + k - 1
<1> DEFINE to == Span(at, at + len)
<1>1. ASSUME NEW k \in 1 .. n
      PROVE  to[k] = at + k - 1 /\ to[k] \in 1 .. Store /\ o.mem[to[k]] = Raw
  <2>1. \A j \in 1 .. (at + len) - at : to[j] = at + j - 1
    <3>1. at \in Int /\ at + len \in Int /\ at <= at + len
      OBVIOUS
    <3> DEFINE b == at + len
    <3> HIDE DEF b
    <3>2. \A j \in 1 .. b - at : Span(at, b)[j] = at + j - 1
      BY <3>1, SpanOf DEF b
    <3> QED
      BY <3>2 DEF b
  <2>2. k \in 1 .. (at + len) - at
    OBVIOUS
  <2>3. to[k] = at + k - 1
    BY <2>1, <2>2
  <2>4. at + k - 1 \in at .. at + len - 1
    OBVIOUS
  <2> HIDE DEF to
  <2> QED
    BY <2>3, <2>4, UnusedIsRaw
<1>2. \A k \in 1 .. n : all[k] \in Places /\ o.mem[all[k]] # Raw
  BY DEF Sources
<1> HIDE DEF to
<1>3. \A j, k \in 1 .. n : to[j] = to[k] => j = k
  BY <1>1
<1> QED
  BY <1>1, <1>2, <1>3 DEF Fits, to

\* The elements and the places of the new ones are apart.
LEMMA OldAndNewApart ==
    ASSUME Store \in Nat, NEW o, VectorHolds(o), NEW at, NEW len, NewBlock(o, at, len),
           NEW n \in Nat, n <= len, NEW a \in at .. at + n - 1
    PROVE  a \in Places /\ a \notin o.start .. o.finish - 1 /\ a \notin Held(o)
<1>1. at \in 1 .. Store /\ len \in Nat /\ at + len - 1 <= Store /\ Unused(o, at, len)
  BY DEF NewBlock
<1>2. a \in at .. at + len - 1
  BY <1>1
<1>3. a \in Places /\ a \notin Held(o)
  BY <1>1, <1>2, UnusedIsRaw
<1> QED
  BY <1>3, PointersTyped DEF Held

\* destroy(start, finish), with the copies made.
LEMMA DestroysElements ==
    ASSUME Store \in Nat, NEW o, VectorHolds(o), NEW at, NEW len, NewBlock(o, at, len),
           NEW all, NEW n \in Nat, n <= len,
           NEW m \in Heaps, Filled(o, m, at, all, n),
           NEW r, r = Destroy(m, o.start .. o.finish - 1)
    PROVE  /\ r \in Heaps /\ SameShape(m, r) /\ r.thrown = m.thrown /\ r.fuel = m.fuel
           /\ Moved(o, r, at, all, n)
<1> DEFINE P == o.start .. o.finish - 1
<1>1. ASSUME NEW a \in P PROVE a \in Places /\ m.mem[a] # Raw
  <2>1. a \in Places /\ o.mem[a] # Raw
    BY ElementsAreObjects
  <2>2. a \notin at .. at + n - 1
    BY OldAndNewApart
  <2> QED
    BY <2>1, <2>2 DEF Filled
<1>2. /\ r \in Heaps /\ SameShape(m, r) /\ r.thrown = m.thrown /\ r.fuel = m.fuel
      /\ r.mem = [a \in Places |-> IF a \in P THEN Raw ELSE m.mem[a]]
  <2>1. P \in SUBSET Places /\ \A a \in P : m.mem[a] # Raw
    BY <1>1
  <2> HIDE DEF P
  <2>2. r = Destroy(m, P)
    BY DEF P
  <2> QED
    BY <2>1, <2>2, Destroying
<1>3. ASSUME NEW k \in 1 .. n PROVE r.mem[at + k - 1] = o.mem[all[k]]
  <2>1. at + k - 1 \in at .. at + n - 1
    BY DEF NewBlock
  <2>2. at + k - 1 \in Places /\ at + k - 1 \notin P
    BY <2>1, OldAndNewApart
  <2>3. m.mem[at + k - 1] = o.mem[all[k]]
    BY DEF Filled
  <2> QED
    BY <1>2, <2>2, <2>3
<1>4. \A a \in P : r.mem[a] = Raw
  BY <1>1, <1>2
<1>5. \A a \in Places : a \notin P /\ a \notin at .. at + n - 1 => r.mem[a] = o.mem[a]
  BY <1>2 DEF Filled
<1> QED
  BY <1>2, <1>3, <1>4, <1>5 DEF Moved

\* deallocate() of the old block, when its elements are gone.
LEMMA FreesBlock ==
    ASSUME Store \in Nat, NEW o, VectorHolds(o), NEW m \in Heaps, Own(o) \subseteq m.blocks,
           \A a \in Held(o) : m.mem[a] = Raw,
           NEW r, r = Deallocate(m, o.start, o.last - o.start)
    PROVE  /\ r \in Heaps /\ r.thrown = m.thrown /\ r.fuel = m.fuel /\ r.mem = m.mem
           /\ r.blocks = m.blocks \ Own(o) /\ r.bad = m.bad
<1>1. CASE o.start = Null
  <2>1. r = m /\ Own(o) = {}
    BY <1>1 DEF Deallocate, Own
  <2> QED
    BY <2>1
<1>2. CASE o.start # Null
  <2> DEFINE at == o.start
             n == o.last - o.start
  <2>1. /\ at \in Nat \ {0} /\ n \in Nat \ {0} /\ Own(o) = {<<at, n>>}
        /\ at .. at + n - 1 = Held(o)
    <3>1. o.start + (o.last - o.start) - 1 = o.last - 1
      BY PointersTyped
    <3> QED
      BY <1>2, <3>1, OwnBlock DEF Held
  <2>2. <<at, n>> \in m.blocks /\ r = Deallocate(m, at, n)
    BY <2>1
  <2>3. \A a \in at .. at + n - 1 : m.mem[a] = Raw
    BY <2>1
  <2> HIDE DEF at, n
  <2>4. /\ r \in Heaps /\ r.thrown = m.thrown /\ r.fuel = m.fuel /\ r.mem = m.mem
        /\ r.blocks = m.blocks \ {<<at, n>>} /\ r.bad = m.bad
    BY <2>1, <2>2, <2>3, Deallocating
  <2> QED
    BY <2>1, <2>4
<1> QED
  BY <1>1, <1>2

\* Replaced() by a block that has the copies.
LEMMA Replacing ==
    ASSUME Store \in Nat, NEW o, VectorHolds(o), NEW at, NEW len, NewBlock(o, at, len),
           NEW all, Sources(o, all), NEW n \in Nat, n = Len(all), n <= len,
           NEW made \in Heaps, ~made.thrown, ~made.bad,
           made.blocks = o.blocks \cup {<<at, len>>},
           made.start = o.start, made.finish = o.finish, made.last = o.last,
           Filled(o, made, at, all, n),
           NEW r, r = Replaced(made, at, at + n, at + len)
    PROVE  /\ VectorHolds(r) /\ Elsewhere(o, r) /\ Elements(r) = ValuesAt(o, all)
           /\ ~r.thrown /\ r.fuel = made.fuel
<1> DEFINE P == o.start .. o.finish - 1
           gone == Destroy(made, P)
           freed == Deallocate(gone, o.start, o.last - o.start)
<1>1. /\ gone \in Heaps /\ SameShape(made, gone) /\ gone.thrown = made.thrown
      /\ gone.fuel = made.fuel /\ Moved(o, gone, at, all, n)
  BY DestroysElements
<1>2. /\ gone.start = o.start /\ gone.last = o.last /\ ~gone.bad
      /\ gone.blocks = o.blocks \cup {<<at, len>>}
  BY <1>1 DEF SameShape
<1>3. All(made) = P
  BY DEF All
<1>4. r = [freed EXCEPT !.start = at, !.finish = at + n, !.last = at + len]
  <2>1. Capacity(made) = o.last - o.start
    BY DEF Capacity
  <2> QED
    BY <1>3, <2>1 DEF Replaced, Then
<1> HIDE DEF gone
<1>5. ASSUME NEW a \in Held(o) PROVE gone.mem[a] = Raw
  <2>1. CASE a \in P
    BY <1>1, <2>1 DEF Moved
  <2>2. CASE a \notin P
    <3>1. a \in Places
      BY OwnBlock, PointersTyped DEF Held, Null, Places, Saved, VectorHolds, PointersHold
    <3>2. ~(a < o.finish)
      BY <2>2, PointersTyped DEF Held
    <3>4. o.mem[a] = Raw
      BY <3>2 DEF VectorHolds
    <3>3. a \notin at .. at + n - 1
      BY OldAndNewApart
    <3> QED
      BY <1>1, <2>2, <3>1, <3>3, <3>4 DEF Moved
  <2> QED
    BY <2>1, <2>2
<1>6. Own(o) \subseteq gone.blocks
  BY <1>2, OwnBlock DEF Own
<1>7. /\ freed \in Heaps /\ freed.thrown = gone.thrown /\ freed.fuel = gone.fuel
      /\ freed.mem = gone.mem /\ freed.blocks = gone.blocks \ Own(o) /\ freed.bad = gone.bad
  BY <1>1, <1>5, <1>6, FreesBlock
<1> HIDE DEF freed
<1>8. at \in Nat /\ at + n \in Nat /\ at + len \in Nat
  BY DEF NewBlock
<1>9. /\ r \in Heaps /\ r.start = at /\ r.finish = at + n /\ r.last = at + len
      /\ r.blocks = freed.blocks /\ r.mem = freed.mem /\ r.bad = freed.bad
      /\ r.thrown = freed.thrown /\ r.fuel = freed.fuel
  BY <1>4, <1>7, <1>8 DEF Heaps
<1>10. Moved(o, r, at, all, n)
  BY <1>1, <1>7, <1>9 DEF Moved
<1>11. VectorHolds(r) /\ Elsewhere(o, r) /\ Elements(r) = ValuesAt(o, all)
  BY <1>2, <1>7, <1>9, <1>10, TakesOver
<1> QED
  BY <1>1, <1>7, <1>9, <1>11

\* Copies made in a new block, or none.
LEMMA CopiesMade ==
    ASSUME Store \in Nat, NEW o, VectorHolds(o), NEW at, NEW len, NewBlock(o, at, len),
           NEW all, Sources(o, all), NEW n \in Nat, n = Len(all), n <= len,
           NEW m \in Heaps, m.mem = o.mem, ~m.thrown,
           NEW r, r = ConstructAll(m, Span(at, at + len), all)
    PROVE  /\ r \in Heaps /\ SameShape(m, r)
           /\ r.thrown => r.fuel = 0 /\ r.mem = o.mem
           /\ ~r.thrown => Filled(o, r, at, all, n)
<1> DEFINE to == Span(at, at + len)
<1>1. /\ Fits(m, to, all, n)
      /\ \A k \in 1 .. n : to[k] = at + k - 1
  BY CopiesFit DEF NewBlock
<1>2. AllOrNothing(m, r, to, all, n)
  BY <1>1, UninitializedUndoes
<1> HIDE DEF to
<1>3. n > m.fuel \/ n <= m.fuel
  BY DEF Heaps
<1>4. ASSUME ~r.thrown PROVE Filled(o, r, at, all, n)
  <2>1. Copied(m, r, to, all, n)
    BY <1>2, <1>3, <1>4 DEF AllOrNothing
  <2>2. \A k \in 1 .. n : r.mem[at + k - 1] = o.mem[all[k]]
    BY <1>1, <2>1 DEF Copied
  <2>3. ASSUME NEW a \in Places, a \notin at .. at + n - 1 PROVE r.mem[a] = o.mem[a]
    <3>1. \A k \in 1 .. n : a # to[k]
      BY <1>1, <2>3 DEF NewBlock
    <3> QED
      BY <2>1, <3>1 DEF Copied
  <2> QED
    BY <2>2, <2>3 DEF Filled
<1> QED
  BY <1>2, <1>4 DEF AllOrNothing

\* Growing into a new block, as reserve(), insertions without room and assignments of more
\* than the capacity do, happens as a whole or not at all: when a copy or the allocation
\* throws, the handlers (stl_vector.h:241, stl_vector.h:344, stl_vector.h:392,
\* stl_vector.h:511) leave every cell and every block as it was.
THEOREM GrowsStrongly ==
    ASSUME Store \in Nat, NEW o, VectorHolds(o), ~o.thrown, NEW len \in Nat \ {0},
           NEW position \in Int, NEW rest \in Int,
           o.start <= position, position <= o.finish, o.start <= rest, rest <= o.finish,
           NEW from, Sources(o, from),
           (position - o.start) + Len(from) + (o.finish - rest) <= len,
           Room(o, len)
    PROVE  Strong(o, Grown(o, len, position, from, rest),
                  Span(o.start, position) \o from \o Span(rest, o.finish))
<1> DEFINE all == Span(o.start, position) \o from \o Span(rest, o.finish)
           n == Len(all)
           at == NextBlock(o, len)
           room == Allocate(o, len)
           made == ConstructAll(room, Span(at, at + len), all)
           undone == IF room.thrown THEN room ELSE Catch(made, Deallocate(made, at, len))
           r == Grown(o, len, position, from, rest)
<1>1. Sources(o, all) /\ n = (position - o.start) + Len(from) + (o.finish - rest)
  BY AroundOthers
<1>2. n \in Nat /\ n <= len
  BY <1>1 DEF Sources
<1>3. NewBlock(o, at, len)
  BY NextIsUnused DEF NewBlock
<1>4. at + position - o.start + Len(from) + o.finish - rest = at + n
  <2>1. at \in Int /\ o.start \in Int /\ o.finish \in Int /\ Len(from) \in Int
    BY <1>3, PointersTyped DEF NewBlock, Sources
  <2> HIDE DEF all, at, n
  <2>3. at + position - o.start + Len(from) + o.finish - rest
            = at + ((position - o.start) + Len(from) + (o.finish - rest))
    <3> DEFINE m == Len(from)
               f == o.finish
               b == o.start
    <3>1. at \in Int /\ b \in Int /\ f \in Int /\ m \in Int
      BY <2>1
    <3> HIDE DEF m, f, b
    <3>2. at + position - b + m + f - rest = at + ((position - b) + m + (f - rest))
      BY <3>1
    <3> QED
      BY <3>2 DEF m, f, b
  <2> QED
    BY <1>1, <2>3
<1>5. r = Replaced(undone, at, at + n, at + len)
  BY <1>4, Zenon DEF Grown
<1>6. o \in Heaps /\ ~o.bad
  BY DEF VectorHolds
<1> HIDE DEF all, n, at, r
<1>7. CASE o.fuel = 0
  <2>1. /\ room \in Heaps /\ SameShape(o, room) /\ room.thrown /\ room.mem = o.mem
    BY <1>6, <1>7, AllocateThrows
  <2>2. r = room
    BY <1>5, <2>1 DEF Replaced, Then
  <2> QED
    BY <2>1, <2>2, OnlyThrown DEF r, all
<1>8. CASE o.fuel # 0
  <2>1. /\ room \in Heaps /\ ~room.thrown /\ room.mem = o.mem
        /\ room.blocks = o.blocks \cup {<<at, len>>}
        /\ room.bad = o.bad /\ room.start = o.start /\ room.finish = o.finish
        /\ room.last = o.last
    BY <1>6, <1>8, AllocateFinds DEF at
  <2>2. /\ made \in Heaps /\ SameShape(room, made)
        /\ made.thrown => made.fuel = 0 /\ made.mem = o.mem
        /\ ~made.thrown => Filled(o, made, at, all, n)
    <3> HIDE DEF room
    <3> QED
      BY <1>1, <1>2, <1>3, <2>1, CopiesMade DEF n
  <2> HIDE DEF room, made
  <2>3. undone = Catch(made, Deallocate(made, at, len))
    BY <2>1
  <2>4. CASE made.thrown
    <3> DEFINE freed == Deallocate(made, at, len)
    <3>1. at \in Nat \ {0} /\ <<at, len>> \in made.blocks
      BY <1>3, <2>1, <2>2 DEF NewBlock, SameShape
    <3>2. \A a \in at .. at + len - 1 : made.mem[a] = Raw
      BY <1>3, <2>2, <2>4, UnusedIsRaw DEF NewBlock
    <3>3. /\ freed \in Heaps /\ freed.thrown = made.thrown /\ freed.mem = made.mem
          /\ freed.blocks = made.blocks \ {<<at, len>>}
          /\ freed.bad = made.bad /\ freed.start = made.start /\ freed.finish = made.finish
          /\ freed.last = made.last
      BY <2>2, <3>1, <3>2, Deallocating
    <3> HIDE DEF freed
    <3>4. r = freed
      BY <1>5, <2>3, <2>4, <3>3 DEF Replaced, Then, Catch, freed
    <3>5. <<at, len>> \notin o.blocks
      BY <1>3 DEF NewBlock, Unused, Cells
    <3>6. SameShape(o, freed) /\ freed.mem = o.mem
      BY <2>1, <2>2, <2>4, <3>3, <3>5 DEF SameShape
    <3> QED
      BY <2>4, <3>3, <3>4, <3>6, OnlyThrown DEF r, all
  <2>5. CASE ~made.thrown
    <3>1. r = Replaced(made, at, at + n, at + len)
      BY <1>5, <2>3, <2>5 DEF Catch
    <3>2. /\ ~made.bad /\ made.blocks = o.blocks \cup {<<at, len>>}
          /\ made.start = o.start /\ made.finish = o.finish /\ made.last = o.last
      BY <1>6, <2>1, <2>2 DEF SameShape
    <3>3. n = Len(all)
      BY DEF n
    <3>4. /\ VectorHolds(r) /\ Elsewhere(o, r) /\ Elements(r) = ValuesAt(o, all)
          /\ ~r.thrown
      BY <1>1, <1>2, <1>3, <2>2, <2>5, <3>1, <3>2, <3>3, Replacing
    <3> QED
      BY <3>4 DEF Strong, Basic, r, all
  <2> QED
    BY <2>4, <2>5
<1> QED
  BY <1>7, <1>8

-----------------------------------------------------------------------------
(* Within the block.                                                       *)

\* The vector is in its block still, with an end that may be another.
Keeps(o, r) == VectorHolds(r) /\ Elsewhere(o, r) /\ r.start = o.start /\ r.last = o.last

\* What is left alone, and which of the vector's places are objects.
InPlace(o, r) ==
    /\ r \in Heaps /\ ~r.bad /\ r.blocks = o.blocks /\ r.start = o.start /\ r.last = o.last
    /\ r.finish \in o.start .. o.last
    /\ \A a \in Held(o) : r.mem[a] # Raw <=> a < r.finish
    /\ \A a \in Places : a # Local /\ a \notin Held(o) => r.mem[a] = o.mem[a]

LEMMA KeepsBlock ==
    ASSUME Store \in Nat, NEW o, VectorHolds(o), NEW r, InPlace(o, r)
    PROVE  Keeps(o, r)
<1>1. Held(r) = Held(o) /\ Own(r) = Own(o)
  BY DEF InPlace, Held, Own
<1>2. PointersHold(r)
  <2>1. CASE o.start = Null
    BY <2>1 DEF VectorHolds, PointersHold, InPlace, Null
  <2>2. CASE o.start # Null
    BY <2>2, PointersTyped DEF VectorHolds, PointersHold, InPlace
  <2> QED
    BY <2>1, <2>2
<1>3. ASSUME NEW a \in 1 .. Store, r.mem[a] # Raw PROVE \E b \in r.blocks : a \in Cells(b)
  <2>1. CASE a \in Held(o)
    <3>1. o.start # Null
      BY <2>1 DEF Held, VectorHolds, PointersHold, Null
    <3> DEFINE b == <<o.start, o.last - o.start>>
    <3>2. b \in o.blocks /\ Cells(b) = Held(o)
      BY <3>1, OwnBlock
    <3> HIDE DEF b
    <3> QED
      BY <2>1, <3>2 DEF InPlace
  <2>2. CASE a \notin Held(o)
    <3>1. a \in Places /\ a # Local
      BY DEF Places, Saved, Local
    <3>2. o.mem[a] # Raw
      BY <1>3, <2>2, <3>1 DEF InPlace
    <3> QED
      BY <3>2 DEF VectorHolds, BlocksHold, InPlace
  <2> QED
    BY <2>1, <2>2
<1>4. BlocksHold(r)
  BY <1>3 DEF VectorHolds, BlocksHold, InPlace
<1>5. VectorHolds(r)
  BY <1>1, <1>2, <1>4 DEF VectorHolds, InPlace
<1>6. Elsewhere(o, r)
  BY <1>1 DEF Elsewhere, InPlace
<1> QED
  BY <1>5, <1>6 DEF Keeps, InPlace

LEMMA KeepsOn ==
    ASSUME NEW o, NEW m, NEW r, Keeps(o, m), Keeps(m, r)
    PROVE  Keeps(o, r)
<1>1. Held(m) = Held(o) /\ Held(r) = Held(o)
  BY DEF Keeps, Held
<1> QED
  BY <1>1 DEF Keeps, Elsewhere

\* n sources.
Given(o, from, n) == Sources(o, from) /\ n \in Nat /\ n = Len(from)

\* The elements of r, range by range: those of o before position, the n others, and those
\* of o from rest on.
Between(o, r, position, from, n, rest) ==
    /\ r.start = o.start /\ r.finish = position + n + (o.finish - rest)
    /\ \A a \in o.start .. position - 1 : r.mem[a] = o.mem[a]
    /\ \A k \in 1 .. n : r.mem[position + k - 1] = o.mem[from[k]]
    /\ \A k \in 1 .. o.finish - rest : r.mem[position + n + k - 1] = o.mem[rest + k - 1]

LEMMA ElementsAre ==
    ASSUME Store \in Nat, NEW o, VectorHolds(o), NEW position \in Int, NEW rest \in Int,
           o.start <= position, position <= o.finish, o.start <= rest, rest <= o.finish,
           NEW from, NEW n, Given(o, from, n), NEW r, Between(o, r, position, from, n, rest)
    PROVE  Elements(r) = ValuesAt(o, Span(o.start, position) \o from \o Span(rest, o.finish))
<1> DEFINE s == Span(o.start, position)
           u == Span(rest, o.finish)
           all == s \o from \o u
           p == position - o.start
           q == o.finish - rest
<1>1. /\ o.start \in Int /\ o.finish \in Int /\ p \in Nat /\ q \in Nat /\ n \in Nat
      /\ p = position - o.start /\ q = o.finish - rest
  BY PointersTyped DEF Given
<1>2. /\ s \in Seq(Int) /\ Len(s) = p
      /\ \A k \in 1 .. p : s[k] = o.start + k - 1
  BY <1>1, SpanOf
<1>3. /\ u \in Seq(Int) /\ Len(u) = q
      /\ \A k \in 1 .. q : u[k] = rest + k - 1
  BY <1>1, SpanOf
<1>4. from \in Seq(Int) /\ Len(from) = n
  BY DEF Sources, Given
<1> HIDE DEF s, u, p, q
<1>5. /\ all \in Seq(Int)
      /\ Len(all) = p + n + q
      /\ \A k \in 1 .. p : all[k] = s[k]
      /\ \A k \in 1 .. n : all[p + k] = from[k]
      /\ \A k \in 1 .. q : all[p + n + k] = u[k]
  <2>1. /\ all \in Seq(Int)
        /\ Len(all) = Len(s) + Len(from) + Len(u)
        /\ \A k \in 1 .. Len(s) : all[k] = s[k]
        /\ \A k \in 1 .. Len(from) : all[Len(s) + k] = from[k]
        /\ \A k \in 1 .. Len(u) : all[Len(s) + Len(from) + k] = u[k]
    BY <1>2, <1>3, <1>4, ThreeInARow
  <2> HIDE DEF all
  <2> QED
    BY <1>2, <1>3, <1>4, <2>1
<1> HIDE DEF all
<1>6. r.start = o.start /\ r.finish - r.start = p + n + q
  BY <1>1 DEF Between
<1>7. ASSUME NEW k \in 1 .. p + n + q PROVE r.mem[r.start + k - 1] = o.mem[all[k]]
  <2>1. CASE k <= p
    <3>1. k \in 1 .. p /\ o.start + k - 1 \in o.start .. position - 1
      BY <1>1, <2>1
    <3>2. r.mem[o.start + k - 1] = o.mem[o.start + k - 1]
      BY <3>1 DEF Between
    <3> QED
      BY <1>2, <1>5, <1>6, <3>1, <3>2
  <2>2. CASE k > p /\ k <= p + n
    <3>1. k - p \in 1 .. n /\ p + (k - p) = k /\ position + (k - p) - 1 = o.start + k - 1
      BY <1>1, <2>2
    <3>2. r.mem[position + (k - p) - 1] = o.mem[from[k - p]]
      BY <3>1 DEF Between
    <3> QED
      BY <1>5, <1>6, <3>1, <3>2
  <2>3. CASE k > p + n
    <3> DEFINE j == k - p - n
    <3>1. /\ j \in 1 .. q /\ p + n + j = k
          /\ position + n + j - 1 = o.start + k - 1
      BY <1>1, <2>3
    <3> HIDE DEF j
    <3>2. r.mem[position + n + j - 1] = o.mem[rest + j - 1]
      BY <1>1, <3>1 DEF Between
    <3>3. all[p + n + j] = u[j] /\ u[j] = rest + j - 1
      BY <1>3, <1>5, <3>1
    <3> QED
      BY <1>6, <3>1, <3>2, <3>3
  <2> QED
    BY <1>1, <2>1, <2>2, <2>3
<1>8. Elements(r) = [k \in 1 .. p + n + q |-> o.mem[all[k]]]
  BY <1>6, <1>7 DEF Elements
<1>9. ValuesAt(o, all) = [k \in 1 .. p + n + q |-> o.mem[all[k]]]
  BY <1>5 DEF ValuesAt
<1> QED
  BY <1>8, <1>9 DEF all, s, u

\* The places of the vector's block.
LEMMA HeldPlace ==
    ASSUME Store \in Nat, NEW o, VectorHolds(o), NEW a \in Held(o)
    PROVE  /\ a \in Int /\ a \in 1 .. Store /\ a \in Places /\ o.start <= a /\ a < o.last
           /\ o.mem[a] # Raw <=> a < o.finish
<1>1. a \in Int /\ o.start <= a /\ a <= o.last - 1
  BY PointersTyped DEF Held
<1>2. o.start # Null
  BY <1>1, PointersTyped DEF VectorHolds, PointersHold, Null
<1>3. o.last - 1 <= Store /\ o.start \in Nat \ {0}
  BY <1>2, OwnBlock
<1>4. a \in 1 .. Store /\ a \in Places
  BY <1>1, <1>3, PointersTyped DEF Places, Saved
<1> QED
  BY <1>1, <1>4, PointersTyped DEF VectorHolds

\* The end moves down over elements that are destroyed.
LEMMA Trims ==
    ASSUME Store \in Nat, NEW o, VectorHolds(o), ~o.thrown,
           NEW end \in o.start .. o.finish,
           NEW r, r = Finish(Destroy(o, end .. o.finish - 1), end)
    PROVE  /\ Keeps(o, r) /\ r.finish = end /\ ~r.thrown /\ r.fuel = o.fuel
           /\ \A a \in Places : a < end \/ o.finish <= a => r.mem[a] = o.mem[a]
<1> DEFINE P == end .. o.finish - 1
           d == Destroy(o, P)
<1>1. o \in Heaps /\ o.start \in Nat /\ o.finish \in Nat /\ o.last \in Nat
      /\ o.start <= o.finish /\ o.finish <= o.last /\ end \in Nat /\ ~o.bad
  BY PointersTyped DEF VectorHolds
<1>2. ASSUME NEW a \in P PROVE a \in Places /\ o.mem[a] # Raw
  <2>1. a \in o.start .. o.finish - 1
    BY <1>1
  <2> QED
    BY <2>1, ElementsAreObjects
<1>3. /\ d \in Heaps /\ SameShape(o, d) /\ d.thrown = o.thrown /\ d.fuel = o.fuel
      /\ d.mem = [a \in Places |-> IF a \in P THEN Raw ELSE o.mem[a]]
  BY <1>1, <1>2, Destroying
<1> HIDE DEF d
<1>4. r = [d EXCEPT !.finish = end]
  BY <1>3 DEF Finish, Then, d
<1>5. /\ r \in Heaps /\ ~r.bad /\ r.blocks = o.blocks /\ r.start = o.start /\ r.last = o.last
      /\ r.finish = end /\ ~r.thrown /\ r.fuel = o.fuel /\ r.mem = d.mem
  BY <1>1, <1>3, <1>4 DEF Heaps, SameShape
<1>6. \A a \in Places : a \notin P => r.mem[a] = o.mem[a]
  BY <1>3, <1>5
<1>6a. \A a \in Places : a < end \/ o.finish <= a => a \notin P
  BY <1>1 DEF Places
<1>7. ASSUME NEW a \in Held(o) PROVE r.mem[a] # Raw <=> a < end
  <2>1. a \in Places /\ a \in Int /\ o.start <= a /\ (o.mem[a] # Raw <=> a < o.finish)
    BY HeldPlace
  <2>2. a \in P <=> end <= a /\ a < o.finish
    BY <1>1, <2>1
  <2>3. r.mem[a] = IF a \in P THEN Raw ELSE o.mem[a]
    BY <1>3, <1>5, <2>1
  <2> QED
    BY <1>1, <2>1, <2>2, <2>3
<1>8. \A a \in Places : a # Local /\ a \notin Held(o) => r.mem[a] = o.mem[a]
  <2>1. ASSUME NEW a \in P PROVE a \in Held(o)
    BY <1>1 DEF Held
  <2> QED
    BY <1>6, <2>1
<1>9. InPlace(o, r)
  BY <1>1, <1>5, <1>7, <1>8 DEF InPlace
<1>10. Keeps(o, r)
  BY <1>9, KeepsBlock
<1> QED
  BY <1>5, <1>6, <1>6a, <1>10

\* Elements are assigned, from each other or from elsewhere.
LEMMA AssignsElements ==
    ASSUME Store \in Nat, NEW o, VectorHolds(o), ~o.thrown, NEW to, NEW from,
           NEW n \in Nat, n = Len(from), Movable(o, to, from, n),
           \A k \in 1 .. n : to[k] \in o.start .. o.finish - 1,
           NEW r, r = CopyObjects(o, from, to)
    PROVE  /\ Keeps(o, r) /\ r.finish = o.finish
           /\ ~r.thrown => Copied(o, r, to, from, n)
<1>1. o \in Heaps /\ ~o.bad
  BY DEF VectorHolds
<1>2. /\ Tried(o, r, n)
      /\ Copied(o, r, to, from, Made(o, n))
      /\ \A a \in Places : r.mem[a] = Raw <=> o.mem[a] = Raw
  BY <1>1, ObjectsStay
<1>3. r \in Heaps /\ SameShape(o, r) /\ (r.thrown <=> n > o.fuel) /\ o.fuel \in Nat
  BY <1>1, <1>2 DEF Tried, Heaps
<1>4. Made(o, n) \in Nat /\ Made(o, n) <= n /\ (~r.thrown => Made(o, n) = n)
  BY <1>3 DEF Made
<1>5. ASSUME NEW a \in Held(o) PROVE r.mem[a] # Raw <=> a < o.finish
  <2>1. a \in Places
    BY OwnBlock, PointersTyped DEF Held, VectorHolds, PointersHold, Null, Places, Saved
  <2> QED
    BY <1>2, <2>1 DEF VectorHolds
<1>6. ASSUME NEW a \in Places, a \notin Held(o) PROVE r.mem[a] = o.mem[a]
  <2>1. \A j \in 1 .. Made(o, n) : a # to[j]
    <3>1. ASSUME NEW j \in 1 .. Made(o, n) PROVE a # to[j]
      <4>1. j \in 1 .. n
        BY <1>4
      <4>2. to[j] \in o.start .. o.finish - 1
        BY <4>1
      <4>3. to[j] \in Held(o)
        BY <4>2, ElementsAreObjects
      <4> QED
        BY <1>6, <4>3
    <3> QED
      BY <3>1
  <2> QED
    BY <1>2, <2>1 DEF Copied
<1>7. InPlace(o, r)
  BY <1>1, <1>3, <1>5, <1>6, PointersTyped DEF InPlace, SameShape
<1> QED
  BY <1>2, <1>3, <1>4, <1>7, KeepsBlock DEF SameShape

\* The same with no others between.
LEMMA ElementsWithout ==
    ASSUME Store \in Nat, NEW o, VectorHolds(o), NEW position \in Int, NEW rest \in Int,
           o.start <= position, position <= o.finish, o.start <= rest, rest <= o.finish,
           NEW r, Between(o, r, position, << >>, 0, rest)
    PROVE  Elements(r) = ValuesAt(o, Span(o.start, position) \o << >> \o Span(rest, o.finish))
<1> DEFINE none == << >>
           zero == 0
<1>1. Given(o, none, zero)
  BY DEF Given, Sources
<1>2. Between(o, r, position, none, zero, rest)
  OBVIOUS
<1> HIDE DEF none, zero
<1>3. Elements(r) = ValuesAt(o, Span(o.start, position) \o none \o Span(rest, o.finish))
  BY <1>1, <1>2, ElementsAre
<1> QED
  BY <1>3 DEF none

\* pop_back() (stl_vector.h:186).
LEMMA PopsBack ==
    ASSUME Store \in Nat, NEW o, VectorHolds(o), ~o.thrown, o.start # o.finish
    PROVE  Basic(o, PopBack(o), Span(o.start, o.finish - 1) \o << >> \o Span(o.finish, o.finish))
<1> DEFINE r == PopBack(o)
           end == o.finish - 1
<1>1. /\ o \in Heaps /\ o.start \in Nat /\ o.finish \in Nat /\ o.start <= o.finish
      /\ end \in o.start .. o.finish /\ end .. o.finish - 1 = {end}
  BY PointersTyped
<1> DEFINE P == {end}
<1>2. PopBack(o) = Finish(Destroy(o, P), end)
  <2>1. DOMAIN [o EXCEPT !.finish = end].mem = DOMAIN o.mem
    BY <1>1 DEF Heaps
  <2> QED
    BY <1>1, <2>1 DEF PopBack, Destroy, Finish, Then, Heaps
<1>3. /\ Keeps(o, r) /\ r.finish = end
      /\ \A a \in Places : a < end => r.mem[a] = o.mem[a]
  <2>1. P = end .. o.finish - 1
    BY <1>1
  <2> HIDE DEF end, r
  <2>2. r = Finish(Destroy(o, end .. o.finish - 1), end)
    BY <1>2, <2>1 DEF r
  <2> QED
    BY <1>1, <2>2, Trims
<1> HIDE DEF r
<1>4. Between(o, r, end, << >>, 0, o.finish)
  <2>1. ASSUME NEW a \in o.start .. end - 1 PROVE r.mem[a] = o.mem[a]
    <3>1. a \in o.start .. o.finish - 1 /\ a < end
      BY <1>1
    <3> QED
      BY <1>3, <3>1, ElementsAreObjects
  <2> QED
    BY <1>1, <1>3, <2>1 DEF Between, Keeps
<1>5. end \in Int /\ o.start <= end /\ end <= o.finish
  BY <1>1
<1>6. Elements(r) = ValuesAt(o, Span(o.start, end) \o << >> \o Span(o.finish, o.finish))
  <2> HIDE DEF end
  <2> QED
    BY <1>1, <1>4, <1>5, ElementsWithout
<1> QED
  BY <1>3, <1>6 DEF Basic, Keeps, r

\* erase() of a range and of one (stl_vector.h:197, stl_vector.h:190): what follows
\* moves down, the places behind are no objects any more.
THEOREM ErasesBasically ==
    ASSUME Store \in Nat, NEW o, VectorHolds(o), ~o.thrown, NEW first \in Int, NEW last \in Int,
           o.start <= first, first <= last, last <= o.finish
    PROVE  Basic(o, Erase(o, first, last),
                 Span(o.start, first) \o << >> \o Span(last, o.finish))
<1> DEFINE end == o.finish - (last - first)
           from == Span(last, o.finish)
           to == Span(first, end)
           n == o.finish - last
           moved == CopyObjects(o, from, to)
           r == Erase(o, first, last)
<1>1. /\ o \in Heaps /\ o.start \in Nat /\ o.finish \in Nat /\ o.start <= o.finish
      /\ n \in Nat /\ end \in o.start .. o.finish /\ end \in Int /\ first <= end /\ end - first = n
      /\ n = o.finish - last /\ end = first + n
  BY PointersTyped
<1>2. /\ Len(from) = n /\ Len(to) = n
      /\ \A k \in 1 .. n : from[k] = last + k - 1
      /\ \A k \in 1 .. n : to[k] = first + k - 1
  <2> HIDE DEF end, n, moved, r
  <2>1. Len(from) = n /\ \A k \in 1 .. n : from[k] = last + k - 1
    <3> DEFINE b == o.finish
    <3>1. last \in Int /\ b \in Int /\ last <= b /\ n = b - last
      BY <1>1
    <3> HIDE DEF b
    <3>2. Len(Span(last, b)) = n /\ \A k \in 1 .. n : Span(last, b)[k] = last + k - 1
      BY <3>1, SpanOf
    <3> QED
      BY <3>2 DEF b
  <2>2. Len(to) = n /\ \A k \in 1 .. n : to[k] = first + k - 1
    <3>1. first \in Int /\ end \in Int /\ first <= end /\ n = end - first
      BY <1>1
    <3> HIDE DEF end, n
    <3>2. Len(Span(first, end)) = n /\ \A k \in 1 .. n : Span(first, end)[k] = first + k - 1
      BY <3>1, SpanOf
    <3> QED
      BY <3>2
  <2> QED
    BY <2>1, <2>2
<1>3. r = Then(moved, Finish(Destroy(moved, end .. o.finish - 1), end))
  BY DEF Erase
<1> HIDE DEF from, to, n, end, r, moved
<1>4. ASSUME NEW k \in 1 .. n
      PROVE  to[k] \in o.start .. o.finish - 1 /\ from[k] \in o.start .. o.finish - 1
  <2>1. to[k] = first + k - 1 /\ from[k] = last + k - 1
    BY <1>2
  <2>2. /\ first + k - 1 \in o.start .. o.finish - 1
        /\ last + k - 1 \in o.start .. o.finish - 1
    BY <1>1
  <2> QED
    BY <2>1, <2>2
<1>5. Movable(o, to, from, n)
  <2>1. ASSUME NEW j \in 1 .. n, NEW k \in 1 .. n, j < k PROVE to[j] # to[k] /\ to[j] # from[k]
    <3>1. to[j] = first + j - 1 /\ to[k] = first + k - 1 /\ from[k] = last + k - 1
      BY <1>2
    <3>2. first + j - 1 # first + k - 1 /\ first + j - 1 # last + k - 1
      BY <2>1
    <3> QED
      BY <3>1, <3>2
  <2> QED
    BY <1>4, <2>1, ElementsAreObjects DEF Movable
<1>6. /\ Keeps(o, moved) /\ moved.finish = o.finish
      /\ ~moved.thrown => Copied(o, moved, to, from, n)
  BY <1>1, <1>2, <1>4, <1>5, AssignsElements DEF moved
<1>7. CASE moved.thrown
  BY <1>3, <1>6, <1>7 DEF Then, Basic, Keeps, r
<1>8. CASE ~moved.thrown
  <2>1. /\ Keeps(moved, r) /\ r.finish = end
        /\ \A a \in Places : a < end => r.mem[a] = moved.mem[a]
    <3>1. VectorHolds(moved) /\ moved.start = o.start
      BY <1>6 DEF Keeps
    <3>2. r = Finish(Destroy(moved, end .. o.finish - 1), end)
      BY <1>3, <1>8 DEF Then
    <3>3. end \in moved.start .. moved.finish /\ end .. o.finish - 1 = end .. moved.finish - 1
      BY <1>1, <1>6, <3>1
    <3>4. r = Finish(Destroy(moved, end .. moved.finish - 1), end)
      BY <3>2, <3>3
    <3>5. /\ Keeps(moved, r) /\ r.finish = end
          /\ \A a \in Places : a < end \/ moved.finish <= a => r.mem[a] = moved.mem[a]
      BY <1>8, <3>1, <3>3, <3>4, Trims
    <3> QED
      BY <1>1, <1>6, <3>5
  <2>2. ASSUME NEW a \in o.start .. first - 1 PROVE r.mem[a] = o.mem[a]
    <3>1. a \in Places
      <4>1. a \in o.start .. o.finish - 1
        BY <1>1
      <4> QED
        BY <4>1, ElementsAreObjects
    <3>2. a < end
      BY <1>1
    <3>3. ASSUME NEW j \in 1 .. n PROVE a # to[j]
      <4>1. to[j] = first + j - 1
        BY <1>2
      <4>2. a # first + j - 1
        BY <1>1
      <4> QED
        BY <4>1, <4>2
    <3> QED
      BY <1>6, <1>8, <2>1, <3>1, <3>2, <3>3 DEF Copied
  <2>3. ASSUME NEW k \in 1 .. n PROVE r.mem[first + k - 1] = o.mem[last + k - 1]
    <3>1. first + k - 1 \in Places
      BY <1>2, <1>4, ElementsAreObjects
    <3>2. first + k - 1 < end
      BY <1>1
    <3>3. moved.mem[to[k]] = o.mem[from[k]]
      BY <1>6, <1>8 DEF Copied
    <3> QED
      BY <1>2, <2>1, <3>1, <3>2, <3>3
  <2>4. Between(o, r, first, << >>, 0, last)
    <3>1. r.start = o.start /\ r.finish = first + 0 + (o.finish - last)
      BY <1>1, <1>6, <2>1 DEF Keeps
    <3>2. \A k \in 1 .. o.finish - last : r.mem[first + 0 + k - 1] = o.mem[last + k - 1]
      BY <1>1, <2>3
    <3> QED
      BY <2>2, <3>1, <3>2 DEF Between
  <2>5. first <= o.finish /\ o.start <= last
    BY <1>1
  <2>6. Elements(r) = ValuesAt(o, Span(o.start, first) \o << >> \o Span(last, o.finish))
    BY <2>4, <2>5, ElementsWithout
  <2>7. Keeps(o, r)
    BY <1>6, <2>1, KeepsOn
  <2> QED
    BY <2>6, <2>7 DEF Basic, Keeps, r
<1> QED
  BY <1>7, <1>8

\* Copies behind the elements.
Behind(o, t, from, n) ==
    /\ \A k \in 1 .. n : t.mem[o.finish + k - 1] = o.mem[from[k]]
    /\ \A a \in Places : a < o.finish \/ o.finish + n <= a => t.mem[a] = o.mem[a]

\* The memory t is o, or o with copies behind the elements.
MadeBehind(o, t, from, n) ==
    /\ t \in Heaps /\ SameShape(o, t)
    /\ t.thrown => t.mem = o.mem
    /\ ~t.thrown => Behind(o, t, from, n)

\* The end moves up over the copies.
Lengthened(o, r, from, n) ==
    /\ Keeps(o, r)
    /\ r.thrown => r.mem = o.mem /\ SameShape(o, r)
    /\ ~r.thrown => r.finish = o.finish + n /\ Behind(o, r, from, n)

LEMMA Lengthens ==
    ASSUME Store \in Nat, NEW o, VectorHolds(o), NEW from, NEW n, Given(o, from, n),
           o.finish + n <= o.last, NEW t, MadeBehind(o, t, from, n),
           NEW r, r = Finish(t, o.finish + n)
    PROVE  Lengthened(o, r, from, n) /\ r.thrown = t.thrown
<1>1. /\ o \in Heaps /\ o.start \in Nat /\ o.finish \in Nat /\ o.last \in Nat
      /\ o.start <= o.finish /\ o.finish <= o.last /\ ~o.bad /\ n \in Nat
  BY PointersTyped DEF VectorHolds, Given
<1>2. t \in Heaps /\ SameShape(o, t)
  BY DEF MadeBehind
<1>3. CASE t.thrown
  <2>1. r = t /\ r.mem = o.mem
    BY <1>3 DEF Finish, Then, MadeBehind
  <2>2. InPlace(o, r)
    BY <1>1, <1>2, <2>1, HeldPlace DEF InPlace, SameShape
  <2> QED
    BY <1>2, <1>3, <2>1, <2>2, KeepsBlock DEF Lengthened
<1>4. CASE ~t.thrown
  <2> DEFINE end == o.finish + n
  <2>1. end \in Nat /\ o.finish <= end /\ end <= o.last /\ end \in o.start .. o.last
    BY <1>1
  <2>2. r = [t EXCEPT !.finish = end] /\ Behind(o, t, from, n)
    BY <1>4 DEF Finish, Then, MadeBehind
  <2> HIDE DEF end
  <2>3. /\ r \in Heaps /\ ~r.bad /\ r.blocks = o.blocks /\ r.start = o.start
        /\ r.last = o.last /\ r.finish = end /\ ~r.thrown /\ r.mem = t.mem
    BY <1>1, <1>2, <1>4, <2>1, <2>2 DEF Heaps, SameShape
  <2>4. Behind(o, r, from, n)
    BY <2>2, <2>3 DEF Behind
  <2>5. ASSUME NEW a \in Held(o) PROVE r.mem[a] # Raw <=> a < end
    <3>1. a \in Int /\ a \in Places /\ (o.mem[a] # Raw <=> a < o.finish)
      BY HeldPlace
    <3>2. CASE a < o.finish \/ end <= a
      <4>1. r.mem[a] = o.mem[a]
        BY <2>4, <3>1, <3>2 DEF Behind, end
      <4> QED
        BY <1>1, <2>1, <3>1, <3>2, <4>1
    <3>3. CASE o.finish <= a /\ a < end
      <4>1. a - o.finish + 1 \in 1 .. n /\ o.finish + (a - o.finish + 1) - 1 = a
        BY <1>1, <3>1, <3>3 DEF end
      <4>2. r.mem[a] = o.mem[from[a - o.finish + 1]]
        BY <2>4, <4>1 DEF Behind
      <4>3. o.mem[from[a - o.finish + 1]] # Raw
        BY <4>1 DEF Given, Sources
      <4> QED
        BY <3>3, <4>2, <4>3
    <3> QED
      BY <1>1, <2>1, <3>1, <3>2, <3>3
  <2>6. ASSUME NEW a \in Places, a # Local, a \notin Held(o) PROVE r.mem[a] = o.mem[a]
    <3>1. a < o.finish \/ end <= a
      BY <1>1, <2>1, <2>6 DEF Held, Places
    <3> QED
      BY <2>4, <3>1 DEF Behind, end
  <2>7. InPlace(o, r)
    BY <2>1, <2>3, <2>5, <2>6 DEF InPlace
  <2>8. Keeps(o, r)
    BY <2>7, KeepsBlock
  <2>9. Lengthened(o, r, from, n)
    BY <2>3, <2>4, <2>8 DEF Lengthened, end
  <2>10. r.thrown = t.thrown
    BY <1>2, <1>4, <2>3 DEF Heaps
  <2> QED
    BY <2>9, <2>10
<1> QED
  BY <1>2, <1>3, <1>4 DEF Heaps

\* A free place of the block.
LEMMA FreePlace ==
    ASSUME Store \in Nat, NEW o, VectorHolds(o), NEW a \in Int, o.finish <= a, a < o.last
    PROVE  a \in 1 .. Store /\ a \in Places /\ o.mem[a] = Raw
<1>1. a \in Held(o)
  BY PointersTyped DEF Held
<1> QED
  BY <1>1, HeldPlace, PointersTyped

\* uninitialized_copy() and the like to finish.
LEMMA ConstructsBehind ==
    ASSUME Store \in Nat, NEW o, VectorHolds(o), ~o.thrown,
           NEW from, NEW n, Given(o, from, n), NEW end, end = o.finish + n, end <= o.last,
           NEW t, t = ConstructAll(o, Span(o.finish, end), from)
    PROVE  MadeBehind(o, t, from, n)
<1> DEFINE to == Span(o.finish, end)
<1>1. /\ o \in Heaps /\ o.finish \in Nat /\ n \in Nat /\ end \in Nat /\ o.fuel \in Nat
      /\ o.last \in Nat
  BY PointersTyped DEF Given
<1>2. \A k \in 1 .. n : to[k] = o.finish + k - 1
  <2> DEFINE f == o.finish
  <2>1. f \in Int /\ end \in Int /\ f <= end /\ end - f = n
    BY <1>1
  <2> HIDE DEF f
  <2>2. \A k \in 1 .. end - f : Span(f, end)[k] = f + k - 1
    BY <2>1, SpanOf
  <2> QED
    BY <2>1, <2>2 DEF f
<1> HIDE DEF to
<1>3. ASSUME NEW k \in 1 .. n
      PROVE  to[k] \in 1 .. Store /\ o.mem[to[k]] = Raw
  <2>1. o.finish + k - 1 \in Int /\ o.finish <= o.finish + k - 1 /\ o.finish + k - 1 < o.last
    BY <1>1
  <2> QED
    BY <1>2, <2>1, FreePlace
<1>4. Fits(o, to, from, n)
  <2>1. \A j, k \in 1 .. n : to[j] = to[k] => j = k
    BY <1>1, <1>2
  <2> QED
    BY <1>3, <2>1 DEF Fits, Given, Sources
<1>5. Len(from) \in Nat /\ Fits(o, to, from, Len(from)) /\ t = ConstructAll(o, to, from)
  BY <1>4 DEF Given, to
<1>6. AllOrNothing(o, t, to, from, n)
  BY <1>1, <1>5, UninitializedUndoes DEF Given
<1>7. t \in Heaps /\ SameShape(o, t) /\ (t.thrown => t.mem = o.mem)
  BY <1>6 DEF AllOrNothing
<1>8. ASSUME ~t.thrown PROVE Behind(o, t, from, n)
  <2>1. Copied(o, t, to, from, n)
    BY <1>1, <1>6, <1>8 DEF AllOrNothing
  <2>2. \A k \in 1 .. n : t.mem[o.finish + k - 1] = o.mem[from[k]]
    BY <1>2, <2>1 DEF Copied
  <2>3. ASSUME NEW a \in Places, a < o.finish \/ end <= a PROVE t.mem[a] = o.mem[a]
    <3>1. \A k \in 1 .. n : a # to[k]
      BY <1>1, <1>2, <2>3 DEF Places
    <3> QED
      BY <2>1, <3>1 DEF Copied
  <2> QED
    BY <2>2, <2>3 DEF Behind
<1> QED
  BY <1>7, <1>8 DEF MadeBehind

\* construct() at finish.
LEMMA ConstructsOneBehind ==
    ASSUME Store \in Nat, NEW o, VectorHolds(o), ~o.thrown, o.finish < o.last,
           NEW x, Given(o, <<x>>, 1), NEW t, t = Construct(o, o.finish, x)
    PROVE  MadeBehind(o, t, <<x>>, 1)
<1>1. o \in Heaps /\ o.finish \in Nat /\ o.fuel \in Nat /\ o.mem \in [Places -> Nat]
  BY PointersTyped
<1>2. o.finish \in Places /\ o.mem[o.finish] = Raw
  BY <1>1, FreePlace
<1>3. x \in Places /\ o.mem[x] # Raw
  BY DEF Given, Sources
<1>4. CASE o.fuel = 0
  <2>1. t \in Heaps /\ SameShape(o, t) /\ t.thrown /\ t.mem = o.mem
    BY <1>1, <1>4, ConstructThrows
  <2> QED
    BY <2>1 DEF MadeBehind
<1>5. CASE o.fuel # 0
  <2>1. /\ t \in Heaps /\ SameShape(o, t) /\ ~t.thrown
        /\ t.mem = [o.mem EXCEPT ![o.finish] = o.mem[x]]
    BY <1>1, <1>2, <1>3, <1>5, ConstructCopies
  <2>2. t.mem[o.finish] = o.mem[x]
    BY <1>1, <1>2, <2>1
  <2>3. ASSUME NEW a \in Places, a < o.finish \/ o.finish + 1 <= a PROVE t.mem[a] = o.mem[a]
    BY <1>1, <2>1, <2>3 DEF Places
  <2>4. ASSUME NEW k \in 1 .. 1 PROVE t.mem[o.finish + k - 1] = o.mem[<<x>>[k]]
    <3>1. k = 1 /\ o.finish + k - 1 = o.finish /\ <<x>>[k] = x
      BY <1>1
    <3> QED
      BY <2>2, <3>1
  <2>5. Behind(o, t, <<x>>, 1)
    BY <2>3, <2>4 DEF Behind
  <2> QED
    BY <2>1, <2>5 DEF MadeBehind
<1> QED
  BY <1>4, <1>5

\* copy_backward() of elements to places above (stl_vector.h:328 and the others).
Raised(o, r, position, last, result) ==
    /\ \A k \in 1 .. last - position : r.mem[result - k] = o.mem[last - k]
    /\ \A a \in Places : a < result - (last - position) \/ result <= a => r.mem[a] = o.mem[a]

LEMMA MovesUp ==
    ASSUME Store \in Nat, NEW o, VectorHolds(o), ~o.thrown, NEW position \in Int,
           NEW last \in Int, NEW result \in Int, o.start <= position, position <= last,
           last <= result, result <= o.finish, NEW r, r = MoveUp(o, position, last, result)
    PROVE  /\ Keeps(o, r) /\ r.finish = o.finish
           /\ ~r.thrown => Raised(o, r, position, last, result)
<1> DEFINE n == last - position
           from == Reverse(Span(position, last))
           to == Reverse(Span(result - n, result))
<1>1. /\ o.start \in Int /\ o.finish \in Int /\ n \in Nat /\ position = last - n
      /\ result - n \in Int /\ result - n <= result
  BY PointersTyped
<1>2. r = CopyObjects(o, from, to)
  BY DEF MoveUp, CopyObjectsBackward
<1>3. Len(from) = n /\ \A k \in 1 .. n : from[k] = last - k
  <2> DEFINE s == Span(position, last)
  <2>1. s \in Seq(Int) /\ Len(s) = n /\ \A k \in 1 .. n : s[k] = position + k - 1
    BY SpanOf
  <2> HIDE DEF s, n
  <2>2. from = [k \in 1 .. n |-> s[n - k + 1]]
    BY <2>1 DEF Reverse, s
  <2>3. ASSUME NEW k \in 1 .. n PROVE n - k + 1 \in 1 .. n /\ position + (n - k + 1) - 1 = last - k
    BY <1>1
  <2> HIDE DEF from
  <2> QED
    BY <1>1, <2>1, <2>2, <2>3
<1>4. Len(to) = n /\ \A k \in 1 .. n : to[k] = result - k
  <2> DEFINE low == result - n
             s == Span(low, result)
  <2>1. low \in Int /\ low <= result /\ result - low = n /\ low = result - n
    BY <1>1
  <2> HIDE DEF low, n
  <2>2. s \in Seq(Int) /\ Len(s) = n /\ \A k \in 1 .. n : s[k] = low + k - 1
    BY <2>1, SpanOf
  <2> HIDE DEF s
  <2>3. to = [k \in 1 .. n |-> s[n - k + 1]]
    BY <2>2 DEF Reverse, s, low
  <2>4. ASSUME NEW k \in 1 .. n PROVE n - k + 1 \in 1 .. n /\ low + (n - k + 1) - 1 = result - k
    BY <1>1, <2>1
  <2> HIDE DEF to
  <2> QED
    BY <1>1, <2>2, <2>3, <2>4
<1> HIDE DEF from, to, n
<1>5. ASSUME NEW k \in 1 .. n
      PROVE  to[k] \in o.start .. o.finish - 1 /\ from[k] \in o.start .. o.finish - 1
  <2>1. to[k] = result - k /\ from[k] = last - k
    BY <1>3, <1>4
  <2>2. result - k \in o.start .. o.finish - 1 /\ last - k \in o.start .. o.finish - 1
    BY <1>1
  <2> QED
    BY <2>1, <2>2
<1>6. Movable(o, to, from, n)
  <2>1. ASSUME NEW j \in 1 .. n, NEW k \in 1 .. n, j < k PROVE to[j] # to[k] /\ to[j] # from[k]
    <3>1. to[j] = result - j /\ to[k] = result - k /\ from[k] = last - k
      BY <1>3, <1>4
    <3> QED
      BY <1>1, <2>1, <3>1
  <2> QED
    BY <1>5, <2>1, ElementsAreObjects DEF Movable
<1>7. /\ Keeps(o, r) /\ r.finish = o.finish
      /\ ~r.thrown => Copied(o, r, to, from, n)
  BY <1>1, <1>2, <1>3, <1>5, <1>6, AssignsElements
<1>8. ASSUME ~r.thrown PROVE Raised(o, r, position, last, result)
  <2>1. \A k \in 1 .. n : r.mem[result - k] = o.mem[last - k]
    BY <1>3, <1>4, <1>7, <1>8 DEF Copied
  <2>2. ASSUME NEW a \in Places, a < result - n \/ result <= a PROVE r.mem[a] = o.mem[a]
    <3>1. ASSUME NEW k \in 1 .. n PROVE a # to[k]
      BY <1>1, <1>4, <2>2 DEF Places
    <3> QED
      BY <1>7, <1>8, <3>1 DEF Copied
  <2> QED
    BY <2>1, <2>2 DEF Raised, n
<1> QED
  BY <1>7, <1>8

\* A local copy is constructed.
LEMMA ConstructsAside ==
    ASSUME Store \in Nat, NEW o, VectorHolds(o), ~o.thrown,
           NEW x, x \in Places, o.mem[x] # Raw, NEW r, r = Construct(o, Local, x)
    PROVE  /\ Keeps(o, r) /\ r.finish = o.finish
           /\ \A a \in Places : a # Local => r.mem[a] = o.mem[a]
           /\ ~r.thrown => r.mem[Local] = o.mem[x] /\ r.mem[Local] # Raw
<1>1. o \in Heaps /\ o.fuel \in Nat /\ o.mem \in [Places -> Nat] /\ ~o.bad
  BY PointersTyped DEF VectorHolds
<1>2. Local \in Places /\ ~(Local > Local)
  BY DEF Local, Places, Saved
<1>3. /\ r \in Heaps /\ SameShape(o, r)
      /\ \A a \in Places : a # Local => r.mem[a] = o.mem[a]
      /\ ~r.thrown => r.mem[Local] = o.mem[x]
  <2>1. CASE o.fuel = 0
    BY <1>1, <2>1, ConstructThrows
  <2>2. CASE o.fuel # 0
    <3>1. /\ r \in Heaps /\ SameShape(o, r)
          /\ r.mem = [o.mem EXCEPT ![Local] = o.mem[x]]
      BY <1>1, <1>2, <2>2, ConstructCopies
    <3> QED
      BY <1>1, <1>2, <3>1
  <2> QED
    BY <2>1, <2>2
<1>4. ASSUME NEW a \in Held(o) PROVE r.mem[a] # Raw <=> a < o.finish
  <2>1. a \in Places /\ a # Local /\ (o.mem[a] # Raw <=> a < o.finish)
    BY HeldPlace DEF Local
  <2> QED
    BY <1>3, <2>1
<1>5. InPlace(o, r)
  BY <1>1, <1>3, <1>4, PointersTyped DEF InPlace, SameShape
<1> QED
  BY <1>3, <1>5, KeepsBlock DEF SameShape

\* An element is assigned.
LEMMA AssignsOne ==
    ASSUME Store \in Nat, NEW o, VectorHolds(o), ~o.thrown, NEW at \in o.start .. o.finish - 1,
           NEW x, x \in Places, o.mem[x] # Raw, NEW r, r = Assign(o, at, x)
    PROVE  /\ Keeps(o, r) /\ r.finish = o.finish
           /\ \A a \in Places : a # at => r.mem[a] = o.mem[a]
           /\ ~r.thrown => r.mem[at] = o.mem[x]
<1>1. o \in Heaps /\ o.fuel \in Nat /\ o.mem \in [Places -> Nat] /\ ~o.bad
  BY PointersTyped DEF VectorHolds
<1>2. at \in Places /\ at \in Held(o) /\ o.mem[at] # Raw
  BY ElementsAreObjects
<1>3. /\ r \in Heaps /\ SameShape(o, r)
      /\ \A a \in Places : a # at => r.mem[a] = o.mem[a]
      /\ ~r.thrown => r.mem[at] = o.mem[x]
      /\ r.mem[at] # Raw
  <2>1. CASE o.fuel = 0
    BY <1>1, <1>2, <2>1, AssignThrows
  <2>2. CASE o.fuel # 0
    <3>1. /\ r \in Heaps /\ SameShape(o, r)
          /\ r.mem = [o.mem EXCEPT ![at] = o.mem[x]]
      BY <1>1, <1>2, <2>2, AssignCopies
    <3> QED
      BY <1>1, <1>2, <3>1
  <2> QED
    BY <2>1, <2>2
<1>4. ASSUME NEW a \in Held(o) PROVE r.mem[a] # Raw <=> a < o.finish
  <2>1. a \in Places /\ (o.mem[a] # Raw <=> a < o.finish)
    BY HeldPlace
  <2> QED
    BY <1>2, <1>3, <2>1
<1>5. InPlace(o, r)
  BY <1>1, <1>2, <1>3, <1>4, PointersTyped DEF InPlace, SameShape
<1> QED
  BY <1>3, <1>5, KeepsBlock DEF SameShape

LEMMA MoveSkips ==
    ASSUME NEW o, o.thrown, NEW position \in Int, NEW last \in Int, NEW result \in Int,
           position <= last
    PROVE  MoveUp(o, position, last, result) = o
<1> DEFINE from == Reverse(Span(position, last))
           to == Reverse(Span(result - (last - position), result))
<1>1. MoveUp(o, position, last, result) = CopyObjects(o, from, to)
  BY DEF MoveUp, CopyObjectsBackward
<1>2. Len(from) \in Nat
  <2> DEFINE s == Span(position, last)
  <2>1. Len(s) \in Nat
    BY SpanOf
  <2> HIDE DEF s
  <2> QED
    BY <2>1 DEF Reverse, s
<1> HIDE DEF from, to
<1> QED
  BY <1>1, <1>2, CopySkips

\* insert_aux() with room: what has been done when a copy throws stays done, but every
\* place before finish holds an object.
LEMMA InsertsInside ==
    ASSUME Store \in Nat, NEW o, VectorHolds(o), ~o.thrown, o.finish < o.last,
           NEW position \in Int, o.start <= position, position < o.finish,
           NEW x, Given(o, <<x>>, 1), NEW r, r = InsertAux(o, position, x)
    PROVE  Basic(o, r, Span(o.start, position) \o <<x>> \o Span(position, o.finish))
<1> DEFINE f == o.finish
           longer == Finish(Construct(o, f, f - 1), f + 1)
           kept == Construct(longer, Local, x)
           moved == MoveUp(kept, position, f - 1, f)
<1>1. /\ o \in Heaps /\ o.start \in Nat /\ f \in Nat /\ o.last \in Nat /\ o.start <= f
      /\ f - 1 \in o.start .. o.finish - 1 /\ f - 1 \in Int /\ o.start \in Int
      /\ position <= f - 1
  BY PointersTyped
<1>2. r = Assign(moved, position, Local)
  <2>1. Spare(o) > 0
    BY PointersTyped DEF Spare
  <2> QED
    BY <2>1 DEF InsertAux
<1>3. x \in Places /\ o.mem[x] # Raw /\ x # f
  BY FreePlace, <1>1 DEF Given, Sources
<1>4. Lengthened(o, longer, <<f - 1>>, 1)
  <2> DEFINE y == f - 1
             t == Construct(o, f, y)
  <2>1. y \in Places /\ o.mem[y] # Raw /\ y \in Int
    BY <1>1, ElementsAreObjects
  <2> HIDE DEF y
  <2>2. Given(o, <<y>>, 1)
    BY <2>1 DEF Given, Sources
  <2>3. MadeBehind(o, t, <<y>>, 1)
    BY <2>2, ConstructsOneBehind
  <2>4. f + 1 <= o.last
    BY <1>1
  <2> HIDE DEF t
  <2>5. Lengthened(o, Finish(t, f + 1), <<y>>, 1)
    BY <2>2, <2>3, <2>4, Lengthens
  <2> QED
    BY <2>5 DEF y, t
<1> HIDE DEF longer, kept, moved, f
<1>5. CASE longer.thrown
  <2>1. kept = longer
    BY <1>5, ConstructSkips DEF kept
  <2>2. moved = longer
    BY <1>1, <1>5, <2>1, MoveSkips DEF moved
  <2>3. r = longer
    BY <1>2, <1>5, <2>2, AssignSkips
  <2> QED
    BY <1>4, <1>5, <2>3 DEF Lengthened, Basic, Keeps
<1>6. CASE ~longer.thrown
  <2>1. /\ Keeps(o, longer) /\ VectorHolds(longer) /\ longer.finish = f + 1
        /\ longer.start = o.start
        /\ Behind(o, longer, <<f - 1>>, 1)
    BY <1>4, <1>6 DEF Lengthened, Keeps, f
  <2>2. \A a \in Places : a # f => longer.mem[a] = o.mem[a]
    BY <1>1, <2>1 DEF Behind, f, Places
  <2>3. longer.mem[f] = o.mem[f - 1]
    <3>1. 1 \in 1 .. 1 /\ o.finish + 1 - 1 = f /\ <<f - 1>>[1] = f - 1
      BY <1>1 DEF f
    <3> QED
      BY <2>1, <3>1 DEF Behind
  <2>4. x \in Places /\ longer.mem[x] # Raw /\ longer.mem[x] = o.mem[x]
    BY <1>3, <2>2
  <2>5. /\ Keeps(longer, kept) /\ kept.finish = f + 1
        /\ \A a \in Places : a # Local => kept.mem[a] = longer.mem[a]
        /\ ~kept.thrown => kept.mem[Local] = longer.mem[x] /\ kept.mem[Local] # Raw
    BY <1>6, <2>1, <2>4, ConstructsAside DEF kept
  <2>6. Keeps(o, kept)
    BY <2>1, <2>5, KeepsOn
  <2>7. CASE kept.thrown
    <3>1. moved = kept
      BY <1>1, <2>7, MoveSkips DEF moved
    <3>2. r = kept
      BY <1>2, <2>7, <3>1, AssignSkips
    <3> QED
      BY <2>6, <2>7, <3>2 DEF Basic, Keeps
  <2>8. CASE ~kept.thrown
    <3>1. VectorHolds(kept) /\ kept.start = o.start
      BY <2>6 DEF Keeps
    <3>2. /\ Keeps(kept, moved) /\ moved.finish = f + 1
          /\ ~moved.thrown => Raised(kept, moved, position, f - 1, f)
      <4>1. kept.start <= position /\ position <= f - 1 /\ f - 1 <= f /\ f <= kept.finish
        BY <1>1, <2>5, <3>1
      <4> QED
        BY <1>1, <2>5, <2>8, <3>1, <4>1, MovesUp DEF moved
    <3>3. Keeps(o, moved)
      BY <2>6, <3>2, KeepsOn
    <3>4. CASE moved.thrown
      <4>1. r = moved
        BY <1>2, <3>4, AssignSkips
      <4> QED
        BY <3>3, <3>4, <4>1 DEF Basic, Keeps
    <3>5. CASE ~moved.thrown
      <4>1. Raised(kept, moved, position, f - 1, f)
        BY <3>2, <3>5
      <4>2. VectorHolds(moved) /\ moved.start = o.start
        BY <3>3 DEF Keeps
      <4>3. Local \in Places /\ moved.mem[Local] = o.mem[x] /\ moved.mem[Local] # Raw
        <5>1. Local \in Places /\ Local < f - ((f - 1) - position)
          BY <1>1 DEF Local, Places, Saved
        <5>2. moved.mem[Local] = kept.mem[Local]
          BY <4>1, <5>1 DEF Raised
        <5> QED
          BY <2>4, <2>5, <2>8, <5>1, <5>2
      <4>4. position \in moved.start .. moved.finish - 1
        BY <1>1, <3>2, <4>2
      <4>5. /\ Keeps(moved, r) /\ r.finish = f + 1
            /\ \A a \in Places : a # position => r.mem[a] = moved.mem[a]
            /\ ~r.thrown => r.mem[position] = o.mem[x]
        BY <1>2, <3>2, <3>5, <4>2, <4>3, <4>4, AssignsOne
      <4>6. Keeps(o, r)
        BY <3>3, <4>5, KeepsOn
      <4>7. ASSUME ~r.thrown PROVE Between(o, r, position, <<x>>, 1, position)
        <5>1. ASSUME NEW a \in o.start .. f - 1 PROVE kept.mem[a] = o.mem[a]
          <6>1. a \in Places /\ a # Local /\ a # f
            <7>1. a \in o.start .. o.finish - 1 /\ a # f
              BY <1>1 DEF f
            <7> QED
              BY <7>1, ElementsAreObjects DEF Local
          <6> QED
            BY <2>2, <2>5, <6>1
        <5>2. ASSUME NEW a \in o.start .. position - 1 PROVE r.mem[a] = o.mem[a]
          <6>1. a \in o.start .. o.finish - 1 /\ a \in o.start .. f - 1
            BY <1>1 DEF f
          <6>2. a \in Places /\ a # position /\ a < f - ((f - 1) - position)
            BY <1>1, <6>1, ElementsAreObjects
          <6>3. r.mem[a] = kept.mem[a]
            BY <4>1, <4>5, <6>2 DEF Raised
          <6> QED
            BY <5>1, <6>1, <6>3
        <5>3. ASSUME NEW k \in 1 .. f - position
              PROVE  r.mem[position + 1 + k - 1] = o.mem[position + k - 1]
          <6> DEFINE a == position + 1 + k - 1
          <6>1. a = position + k /\ a \in Int /\ a # position /\ position < a /\ a <= f
            BY <1>1
          <6>2. a \in Places
            BY <1>1, <6>1, FreePlace, ElementsAreObjects DEF f
          <6>3. r.mem[a] = moved.mem[a]
            BY <4>5, <6>1, <6>2
          <6> HIDE DEF a
          <6>4. CASE a = f
            <7>1. moved.mem[f] = kept.mem[f]
              BY <1>1, <4>1, <6>2, <6>4 DEF Raised
            <7>2. f # Local
              BY <1>1, <6>1 DEF Local
            <7>3. kept.mem[f] = o.mem[f - 1]
              BY <2>3, <2>5, <6>2, <6>4, <7>2
            <7>4. f - 1 = position + k - 1
              BY <1>1, <6>1, <6>4
            <7> QED
              BY <6>3, <6>4, <7>1, <7>3, <7>4 DEF a
          <6>5. CASE a # f
            <7> DEFINE j == f - a
            <7>1. j \in 1 .. (f - 1) - position /\ f - j = a /\ (f - 1) - j = position + k - 1
              BY <1>1, <6>1, <6>5
            <7> HIDE DEF j
            <7>2. moved.mem[f - j] = kept.mem[(f - 1) - j]
              BY <4>1, <7>1 DEF Raised
            <7>3. position + k - 1 \in o.start .. f - 1
              BY <1>1, <6>1
            <7> QED
              BY <5>1, <6>3, <7>1, <7>2, <7>3 DEF a
          <6> QED
            BY <6>4, <6>5
        <5>4. r.start = o.start /\ r.finish = position + 1 + (o.finish - position)
          BY <1>1, <4>5, <4>6 DEF Keeps, f
        <5>5. ASSUME NEW k \in 1 .. 1 PROVE r.mem[position + k - 1] = o.mem[<<x>>[k]]
          <6>1. k = 1 /\ position + k - 1 = position /\ <<x>>[k] = x
            OBVIOUS
          <6> QED
            BY <4>5, <4>7, <6>1
        <5> QED
          BY <5>2, <5>3, <5>4, <5>5 DEF Between, f
      <4>8. ASSUME ~r.thrown
            PROVE  Elements(r) = ValuesAt(o, Span(o.start, position) \o <<x>>
                                             \o Span(position, o.finish))
        <5>1. position <= o.finish
          BY <1>1 DEF f
        <5>2. Between(o, r, position, <<x>>, 1, position)
          BY <4>7, <4>8
        <5> QED
          BY <5>1, <5>2, ElementsAre
      <4> QED
        BY <4>6, <4>8 DEF Basic, Keeps
    <3> QED
      BY <3>4, <3>5
  <2> QED
    BY <2>7, <2>8
<1> QED
  BY <1>5, <1>6

\* insert() of one (stl_vector.h:157), with room or with storage for twice as many.
NewLength(o) == IF Size(o) # 0 THEN 2 * Size(o) ELSE 1

\* Full: there is no room behind the elements.
LEMMA FullOrNot ==
    ASSUME NEW o, VectorHolds(o)
    PROVE  /\ o.finish = o.last => ~(Spare(o) > 0)
           /\ o.finish # o.last => Spare(o) > 0 /\ o.finish < o.last
BY PointersTyped DEF Spare

LEMMA InsertsWithoutRoom ==
    ASSUME Store \in Nat, NEW o, VectorHolds(o), ~o.thrown, o.finish = o.last,
           NEW position \in Int, o.start <= position, position <= o.finish,
           NEW x, Given(o, <<x>>, 1), Room(o, NewLength(o))
    PROVE  Strong(o, Insert(o, position, x),
                  Span(o.start, position) \o <<x>> \o Span(position, o.finish))
<1> DEFINE len == NewLength(o)
           from == <<x>>
<1>1. Insert(o, position, x) = Grown(o, len, position, from, position)
  <2>1. ~(Spare(o) > 0)
    BY FullOrNot
  <2> QED
    BY <2>1 DEF Insert, InsertAux, NewLength
<1>2. o.start \in Nat /\ o.finish \in Nat /\ o.start <= o.finish /\ Size(o) = o.finish - o.start
  BY PointersTyped DEF Size
<1>3. len \in Nat \ {0} /\ (o.finish - o.start) + 1 <= len
  BY <1>2 DEF NewLength
<1>4. Sources(o, from) /\ Len(from) = 1
  BY DEF Given
<1> HIDE DEF len, from
<1>5. (position - o.start) + Len(from) + (o.finish - position) <= len
  BY <1>2, <1>3, <1>4
<1>6. Strong(o, Grown(o, len, position, from, position),
             Span(o.start, position) \o from \o Span(position, o.finish))
  BY <1>3, <1>4, <1>5, GrowsStrongly DEF len
<1> QED
  BY <1>1, <1>6 DEF from

LEMMA InsertsAtTheEnd ==
    ASSUME Store \in Nat, NEW o, VectorHolds(o), ~o.thrown, o.finish # o.last,
           NEW x, Given(o, <<x>>, 1)
    PROVE  Strong(o, Insert(o, o.finish, x),
                  Span(o.start, o.finish) \o <<x>> \o Span(o.finish, o.finish))
<1> DEFINE from == <<x>>
           t == Construct(o, o.finish, x)
           r == Finish(t, o.finish + 1)
<1>1. Insert(o, o.finish, x) = r /\ o.finish < o.last
  BY FullOrNot DEF Insert
<1>2. o.start \in Int /\ o.finish \in Int /\ o.last \in Int /\ o.start <= o.finish
  BY PointersTyped
<1>3. MadeBehind(o, t, from, 1)
  BY <1>1, ConstructsOneBehind
<1>4. Given(o, from, 1) /\ o.finish + 1 <= o.last
  BY <1>1, <1>2
<1> HIDE DEF from, t, r
<1>5. Lengthened(o, r, from, 1)
  BY <1>3, <1>4, Lengthens DEF r
<1>6. ASSUME ~r.thrown
      PROVE  Elements(r) = ValuesAt(o, Span(o.start, o.finish) \o from
                                       \o Span(o.finish, o.finish))
  <2>1. Behind(o, r, from, 1) /\ r.finish = o.finish + 1 /\ r.start = o.start
    BY <1>5, <1>6 DEF Lengthened, Keeps
  <2>2. \A a \in o.start .. o.finish - 1 : r.mem[a] = o.mem[a]
    BY <1>2, <2>1, ElementsAreObjects DEF Behind
  <2>3. \A k \in 1 .. 1 : r.mem[o.finish + k - 1] = o.mem[from[k]]
    BY <2>1 DEF Behind
  <2>4. Between(o, r, o.finish, from, 1, o.finish)
    BY <1>2, <2>1, <2>2, <2>3 DEF Between
  <2> QED
    BY <1>2, <1>4, <2>4, ElementsAre
<1> QED
  BY <1>1, <1>5, <1>6 DEF Strong, Basic, Lengthened, Keeps, from

\* push_back() (stl_vector.h:144) is all or nothing, also of an element of the vector itself.
THEOREM PushesBackStrongly ==
    ASSUME Store \in Nat, NEW o, VectorHolds(o), ~o.thrown,
           NEW x, Given(o, <<x>>, 1), o.finish = o.last => Room(o, NewLength(o))
    PROVE  Strong(o, Insert(o, o.finish, x),
                  Span(o.start, o.finish) \o <<x>> \o Span(o.finish, o.finish))
<1>1. o.finish \in Int /\ o.start <= o.finish /\ o.finish <= o.finish
  BY PointersTyped
<1>2. CASE o.finish = o.last
  BY <1>1, <1>2, InsertsWithoutRoom
<1>3. CASE o.finish # o.last
  BY <1>3, InsertsAtTheEnd
<1> QED
  BY <1>2, <1>3

\* insert() of one anywhere (stl_vector.h:157, stl_vector.h:323): x may be an element that
\* moves, what is inserted is its value before the call.  A throw leaves a vector that can be
\* used and destroyed.
THEOREM InsertsBasically ==
    ASSUME Store \in Nat, NEW o, VectorHolds(o), ~o.thrown,
           NEW position \in Int, o.start <= position, position <= o.finish,
           NEW x, Given(o, <<x>>, 1), o.finish = o.last => Room(o, NewLength(o))
    PROVE  Basic(o, Insert(o, position, x),
                 Span(o.start, position) \o <<x>> \o Span(position, o.finish))
<1>1. CASE position = o.finish
  BY <1>1, PushesBackStrongly DEF Strong
<1>2. CASE position # o.finish /\ o.finish = o.last
  BY <1>2, InsertsWithoutRoom DEF Strong
<1>3. CASE position # o.finish /\ o.finish # o.last
  <2>1. Insert(o, position, x) = InsertAux(o, position, x)
    BY <1>3 DEF Insert
  <2>2. position < o.finish /\ o.finish < o.last
    BY <1>3, FullOrNot, PointersTyped
  <2> QED
    BY <2>1, <2>2, InsertsInside
<1> QED
  BY <1>1, <1>2, <1>3

\* reserve() (stl_vector.h:129) keeps the elements, and everything if it throws.
THEOREM ReservesStrongly ==
    ASSUME Store \in Nat, NEW o, VectorHolds(o), ~o.thrown, NEW n \in Nat,
           Capacity(o) < n => Room(o, n)
    PROVE  Strong(o, Reserve(o, n),
                  Span(o.start, o.finish) \o << >> \o Span(o.finish, o.finish))
<1> DEFINE none == << >>
<1>1. /\ o.start \in Int /\ o.finish \in Int /\ o.last \in Int
      /\ o.start <= o.finish /\ o.finish <= o.last /\ o.finish <= o.finish
      /\ Capacity(o) = o.last - o.start
  BY PointersTyped DEF Capacity
<1>2. Sources(o, none) /\ Len(none) = 0
  BY DEF Sources
<1>3. CASE Capacity(o) < n
  <2>1. Reserve(o, n) = Grown(o, n, o.finish, none, o.finish)
    BY <1>3 DEF Reserve
  <2> HIDE DEF none
  <2>2. n \in Nat \ {0} /\ (o.finish - o.start) + Len(none) + (o.finish - o.finish) <= n
    BY <1>1, <1>2, <1>3
  <2>3. Strong(o, Grown(o, n, o.finish, none, o.finish),
               Span(o.start, o.finish) \o none \o Span(o.finish, o.finish))
    BY <1>1, <1>2, <1>3, <2>2, GrowsStrongly
  <2> QED
    BY <2>1, <2>3 DEF none
<1>4. CASE ~(Capacity(o) < n)
  <2>1. Reserve(o, n) = o
    BY <1>4 DEF Reserve
  <2>2. Between(o, o, o.finish, << >>, 0, o.finish)
    BY <1>1 DEF Between
  <2>3. Elements(o) = ValuesAt(o, Span(o.start, o.finish) \o << >> \o Span(o.finish, o.finish))
    BY <1>1, <2>2, ElementsWithout
  <2> QED
    BY <2>1, <2>3 DEF Strong, Basic, Elsewhere
<1> QED
  BY <1>3, <1>4

-----------------------------------------------------------------------------
(* Several at a time.                                                      *)

\* Sources that are not the vector's own elements.
Apart(o, from, n) == \A k \in 1 .. n : from[k] \notin Held(o)

\* Some of the sources in a row: those after i up to j.
PartOf(part, from, i, j) == part = SubSeq(from, i + 1, j)

Taken(part, from, i, j) ==
    part \in Seq(Int) /\ Len(part) = j - i /\ \A k \in 1 .. j - i : part[k] = from[i + k]

LEMMA PartIs ==
    ASSUME NEW from \in Seq(Int), NEW i \in Nat, NEW j \in Nat, i <= j, j <= Len(from),
           NEW part, PartOf(part, from, i, j)
    PROVE  Taken(part, from, i, j)
<1> DEFINE m == i + 1
<1>1. m \in Int /\ j \in Int /\ m = i + 1 /\ i \in Nat /\ i <= j /\ j <= Len(from)
  OBVIOUS
<1>2. ASSUME NEW k \in m .. j PROVE from[k] \in Int
  <2>1. k \in 1 .. Len(from)
    BY <1>1
  <2> QED
    BY <2>1, ElementOfSeq
<1> HIDE DEF m
<1>3. /\ part \in Seq(Int) /\ Len(part) = IF m <= j THEN j - m + 1 ELSE 0
      /\ \A k \in 1 .. j - m + 1 : part[k] = from[m + k - 1]
  <2>1. /\ SubSeq(from, m, j) \in Seq(Int)
        /\ Len(SubSeq(from, m, j)) = IF m <= j THEN j - m + 1 ELSE 0
        /\ \A k \in 1 .. j - m + 1 : SubSeq(from, m, j)[k] = from[m + k - 1]
    BY <1>1, <1>2, SubSeqProperties
  <2>2. part = SubSeq(from, m, j)
    BY DEF PartOf, m
  <2> QED
    BY <2>1, <2>2, Zenon
<1>4. ASSUME NEW k \in 1 .. j - i PROVE k \in 1 .. j - m + 1 /\ m + k - 1 = i + k
  BY <1>1
<1>5. Len(part) = j - i
  BY <1>1, <1>3
<1> QED
  BY <1>3, <1>4, <1>5 DEF Taken

LEMMA Parts ==
    ASSUME NEW o, NEW from, NEW n, Given(o, from, n), NEW i \in 0 .. n, NEW j \in i .. n,
           NEW part, PartOf(part, from, i, j)
    PROVE  /\ Given(o, part, j - i)
           /\ \A k \in 1 .. j - i : part[k] = from[i + k]
           /\ Apart(o, from, n) => Apart(o, part, j - i)
<1>1. from \in Seq(Int) /\ Len(from) = n /\ n \in Nat /\ i \in Nat /\ j \in Nat /\ i <= j /\ j <= n
  BY DEF Given, Sources
<1>2. part \in Seq(Int) /\ Len(part) = j - i /\ \A k \in 1 .. j - i : part[k] = from[i + k]
  <2>1. from \in Seq(Int) /\ i \in Nat /\ j \in Nat /\ i <= j /\ j <= Len(from)
    BY <1>1
  <2>2. Taken(part, from, i, j)
    BY <2>1, PartIs
  <2> QED
    BY <2>2 DEF Taken
<1>3. \A k \in 1 .. j - i : i + k \in 1 .. n
  BY <1>1
<1>4. j - i \in Nat
  BY <1>1
<1>5. Given(o, part, j - i)
  <2>1. \A k \in 1 .. j - i : part[k] \in Places /\ o.mem[part[k]] # Raw
    BY <1>1, <1>2, <1>3 DEF Given, Sources
  <2> QED
    BY <1>2, <1>4, <2>1 DEF Given, Sources
<1>6. Apart(o, from, n) => Apart(o, part, j - i)
  BY <1>2, <1>3 DEF Apart
<1> QED
  BY <1>2, <1>5, <1>6

\* copy() from elsewhere over elements.
Over(o, r, at, from, n) ==
    /\ \A k \in 1 .. n : r.mem[at + k - 1] = o.mem[from[k]]
    /\ \A a \in Places : a < at \/ at + n <= a => r.mem[a] = o.mem[a]

LEMMA AssignsOver ==
    ASSUME Store \in Nat, NEW o, VectorHolds(o), ~o.thrown,
           NEW from, NEW n, Given(o, from, n), Apart(o, from, n),
           NEW at \in Int, NEW end, end = at + n, o.start <= at, end <= o.finish,
           NEW r, r = CopyObjects(o, from, Span(at, end))
    PROVE  /\ Keeps(o, r) /\ r.finish = o.finish
           /\ ~r.thrown => Over(o, r, at, from, n)
<1> DEFINE to == Span(at, end)
<1>1. o.start \in Nat /\ o.finish \in Nat /\ n \in Nat /\ end \in Int
  BY PointersTyped DEF Given
<1>2. \A k \in 1 .. n : to[k] = at + k - 1
  <2>1. at \in Int /\ end \in Int /\ at <= end /\ end - at = n
    BY <1>1
  <2> QED
    BY <2>1, SpanOf
<1>3. r = CopyObjects(o, from, to)
  OBVIOUS
<1> HIDE DEF to
<1>4. ASSUME NEW k \in 1 .. n PROVE to[k] \in o.start .. o.finish - 1
  <2>1. at + k - 1 \in o.start .. o.finish - 1
    BY <1>1
  <2> QED
    BY <1>2, <2>1
<1>5. ASSUME NEW k \in 1 .. n PROVE from[k] \in Places /\ o.mem[from[k]] # Raw
  BY DEF Given, Sources
<1>6. Movable(o, to, from, n)
  <2>1. ASSUME NEW j \in 1 .. n, NEW k \in 1 .. n, j < k PROVE to[j] # to[k] /\ to[j] # from[k]
    <3>1. to[j] # to[k]
      <4>1. to[j] = at + j - 1 /\ to[k] = at + k - 1
        BY <1>2
      <4> QED
        BY <2>1, <4>1
    <3>2. to[j] \in Held(o)
      BY <1>4, ElementsAreObjects
    <3> QED
      BY <3>1, <3>2 DEF Apart
  <2>2. \A k \in 1 .. n : to[k] \in Places /\ o.mem[to[k]] # Raw
    BY <1>4, ElementsAreObjects
  <2> QED
    BY <1>5, <2>1, <2>2 DEF Movable
<1>7. n = Len(from)
  BY DEF Given
<1>8. /\ Keeps(o, r) /\ r.finish = o.finish
      /\ ~r.thrown => Copied(o, r, to, from, n)
  BY <1>1, <1>3, <1>4, <1>6, <1>7, AssignsElements
<1>9. ASSUME ~r.thrown PROVE Over(o, r, at, from, n)
  <2>1. \A k \in 1 .. n : r.mem[at + k - 1] = o.mem[from[k]]
    BY <1>2, <1>8, <1>9 DEF Copied
  <2>2. ASSUME NEW a \in Places, a < at \/ at + n <= a PROVE r.mem[a] = o.mem[a]
    <3>1. ASSUME NEW k \in 1 .. n PROVE a # to[k]
      BY <1>1, <1>2, <2>2 DEF Places
    <3> QED
      BY <1>8, <1>9, <3>1 DEF Copied
  <2> QED
    BY <2>1, <2>2 DEF Over
<1> QED
  BY <1>8, <1>9

\* Sources are objects in any memory that agrees.
LEMMA StillGiven ==
    ASSUME NEW o, NEW m, NEW from, NEW n, Given(o, from, n),
           \A k \in 1 .. n : m.mem[from[k]] = o.mem[from[k]]
    PROVE  Given(m, from, n)
BY DEF Given, Sources

\* Places that are not the vector's are before its elements or behind its block.
LEMMA ApartPlace ==
    ASSUME NEW o, VectorHolds(o), NEW from, NEW n, Given(o, from, n), Apart(o, from, n),
           NEW k \in 1 .. n
    PROVE  from[k] \in Places /\ (from[k] < o.start \/ o.last <= from[k])
<1>1. from[k] \in Places /\ from[k] \notin Held(o)
  BY DEF Given, Sources, Apart
<1> QED
  BY <1>1, PointersTyped DEF Held, Places

\* A range of the elements as sources.
LEMMA SpanGiven ==
    ASSUME Store \in Nat, NEW o, VectorHolds(o), NEW a \in Int, NEW b \in Int, o.start <= a,
           a <= b, b <= o.finish, NEW n, n = b - a
    PROVE  /\ Given(o, Span(a, b), n)
           /\ \A k \in 1 .. n : Span(a, b)[k] = a + k - 1
<1> DEFINE s == Span(a, b)
<1>1. s \in Seq(Int) /\ Len(s) = n /\ n \in Nat /\ \A k \in 1 .. n : s[k] = a + k - 1
  BY SpanOf
<1> HIDE DEF s
<1>2. ASSUME NEW k \in 1 .. n PROVE s[k] \in o.start .. o.finish - 1
  <2>1. a + k - 1 \in o.start .. o.finish - 1
    BY PointersTyped
  <2> QED
    BY <1>1, <2>1
<1>3. \A k \in 1 .. n : s[k] \in Places /\ o.mem[s[k]] # Raw
  BY <1>2, ElementsAreObjects
<1> QED
  BY <1>1, <1>3 DEF Given, Sources, s

\* Copies behind the elements, of sources in the memory.
LEMMA Appends ==
    ASSUME Store \in Nat, NEW o, VectorHolds(o), ~o.thrown,
           NEW from, NEW n, Given(o, from, n), NEW end, end = o.finish + n, end <= o.last,
           NEW r, r = Finish(UninitializedCopy(o, from, Span(o.finish, end)), end)
    PROVE  Lengthened(o, r, from, n)
<1> DEFINE t == ConstructAll(o, Span(o.finish, end), from)
<1>1. MadeBehind(o, t, from, n)
  BY ConstructsBehind
<1>2. r = Finish(t, o.finish + n)
  BY DEF UninitializedCopy
<1> HIDE DEF t
<1> QED
  BY <1>1, <1>2, Lengthens

\* insert() of several with more elements after them (stl_vector.h:367, stl_vector.h:431).
LEMMA InsertsFew ==
    ASSUME Store \in Nat, NEW o, VectorHolds(o), ~o.thrown,
           NEW position \in Int, o.start <= position, position <= o.finish,
           NEW from, NEW n, Given(o, from, n), Apart(o, from, n), o.finish + n <= o.last,
           o.finish - position > n,
           NEW r, r = InsertWithRoom(o, position, from)
    PROVE  Basic(o, r, Span(o.start, position) \o from \o Span(position, o.finish))
<1> DEFINE f == o.finish
           g == f + n
           e == position + n
           low == f - n
           last == Span(low, f)
           tail == Finish(UninitializedCopy(o, last, Span(f, g)), g)
           up == MoveUp(tail, position, low, f)
<1>1. /\ o \in Heaps /\ o.start \in Nat /\ f \in Nat /\ o.last \in Nat /\ n \in Nat
      /\ low \in Int /\ o.start <= low /\ low <= f /\ f - low = n /\ g = f + n
      /\ position <= low /\ position < f /\ low = f - n /\ e = position + n /\ e < f /\ e \in Int
      /\ f = o.finish
  BY PointersTyped DEF Given
<1>1a. Len(from) = n /\ n \in Nat
  BY DEF Given
<1>2. r = CopyObjects(up, from, Span(position, e))
  BY <1>1a, Zenon DEF InsertWithRoom
<1>3. Given(o, last, n) /\ \A k \in 1 .. n : last[k] = low + k - 1
  <2> HIDE DEF low, f, g, e, tail, up
  <2>1. low \in Int /\ f \in Int /\ o.start <= low /\ low <= f /\ f <= o.finish /\ n = f - low
    BY <1>1
  <2>2. Given(o, Span(low, f), n) /\ \A k \in 1 .. n : Span(low, f)[k] = low + k - 1
    BY <2>1, SpanGiven
  <2> QED
    BY <2>2
<1> HIDE DEF last
<1>4. Lengthened(o, tail, last, n)
  BY <1>3, Appends
<1> HIDE DEF tail, up, f, low, g, e
<1>5. CASE tail.thrown
  <2>1. up = tail
    BY <1>1, <1>5, MoveSkips DEF up
  <2>2. r = tail
    BY <1>1a, <1>2, <1>5, <2>1, CopySkips
  <2> QED
    BY <1>4, <1>5, <2>2 DEF Lengthened, Basic, Keeps
<1>6. CASE ~tail.thrown
  <2>1. /\ Keeps(o, tail) /\ VectorHolds(tail) /\ tail.finish = f + n
        /\ tail.start = o.start /\ tail.last = o.last
        /\ Behind(o, tail, last, n)
    BY <1>1, <1>4, <1>6 DEF Lengthened, Keeps
  <2>2. /\ Keeps(tail, up) /\ up.finish = f + n
        /\ ~up.thrown => Raised(tail, up, position, low, f)
    <3>1. tail.start <= position /\ position <= low /\ low <= f /\ f <= tail.finish
      BY <1>1, <2>1
    <3> QED
      BY <1>1, <1>6, <2>1, <3>1, MovesUp DEF up
  <2>3. Keeps(o, up) /\ VectorHolds(up) /\ up.start = o.start /\ up.last = o.last
    BY <2>1, <2>2, KeepsOn DEF Keeps
  <2>4. CASE up.thrown
    <3>1. r = up
      BY <1>1a, <1>2, <2>4, CopySkips
    <3> QED
      BY <2>3, <2>4, <3>1 DEF Basic, Keeps
  <2>5. CASE ~up.thrown
    <3>1. Raised(tail, up, position, low, f)
      BY <2>2, <2>5
    <3>2. ASSUME NEW a \in Places, a < position \/ o.last <= a PROVE up.mem[a] = o.mem[a]
      <4>1. a < f - (low - position) \/ f <= a
        BY <1>1, <3>2 DEF Places
      <4>2. a < o.finish \/ o.finish + n <= a
        BY <1>1, <3>2 DEF Places
      <4> QED
        BY <2>1, <3>1, <4>1, <4>2 DEF Raised, Behind
    <3>3. ASSUME NEW k \in 1 .. n PROVE up.mem[from[k]] = o.mem[from[k]]
      <4>1. from[k] \in Places /\ (from[k] < position \/ o.last <= from[k])
        BY <1>1, ApartPlace DEF Places
      <4> QED
        BY <3>2, <4>1
    <3>4. Given(up, from, n) /\ Apart(up, from, n)
      <4>1. Apart(up, from, n)
        BY <2>3 DEF Apart, Held
      <4> QED
        BY <3>3, <4>1, StillGiven
    <3>5. /\ Keeps(up, r) /\ r.finish = up.finish
          /\ ~r.thrown => Over(up, r, position, from, n)
      <4>1. up.start <= position /\ e <= up.finish /\ e \in Int /\ e = position + n
        BY <1>1, <2>2, <2>3
      <4> HIDE DEF e
      <4> QED
        BY <1>2, <2>3, <2>5, <3>4, <4>1, AssignsOver
    <3>6. Keeps(o, r)
      BY <2>3, <3>5, KeepsOn
    <3>7. ASSUME ~r.thrown PROVE Between(o, r, position, from, n, position)
      <4>1. Over(up, r, position, from, n)
        BY <3>5, <3>7
      <4>2. ASSUME NEW a \in o.start .. position - 1 PROVE r.mem[a] = o.mem[a]
        <5>1. a \in Places /\ a < position
          <6>1. a \in o.start .. o.finish - 1
            BY <1>1
          <6> QED
            BY <6>1, ElementsAreObjects
        <5> QED
          BY <3>2, <4>1, <5>1 DEF Over
      <4>3. ASSUME NEW k \in 1 .. n PROVE r.mem[position + k - 1] = o.mem[from[k]]
        BY <3>3, <4>1 DEF Over
      <4>4. ASSUME NEW k \in 1 .. f - position
            PROVE  r.mem[position + n + k - 1] = o.mem[position + k - 1]
        <5> DEFINE a == position + n + k - 1
        <5>1. a \in Int /\ e <= a /\ a < g /\ a = position + n + k - 1
          BY <1>1
        <5>2. a \in Places
          <6>1. a \in tail.start .. tail.finish - 1
            BY <1>1, <2>1, <5>1
          <6> QED
            BY <2>1, <6>1, ElementsAreObjects
        <5> HIDE DEF a
        <5>3. r.mem[a] = up.mem[a]
          BY <1>1, <4>1, <5>1, <5>2 DEF Over
        <5>4. CASE a < f
          <6> DEFINE j == f - a
          <6>1. /\ j \in 1 .. low - position /\ f - j = a /\ low - j = position + k - 1
                /\ low - j \in o.start .. o.finish - 1
            BY <1>1, <5>1, <5>4
          <6> HIDE DEF j
          <6>2. up.mem[f - j] = tail.mem[low - j]
            BY <3>1, <6>1 DEF Raised
          <6>3. low - j \in Places /\ low - j < o.finish
            BY <1>1, <6>1, ElementsAreObjects
          <6>4. tail.mem[low - j] = o.mem[low - j]
            BY <2>1, <6>3 DEF Behind
          <6> QED
            BY <5>3, <6>1, <6>2, <6>4 DEF a
        <5>5. CASE f <= a
          <6> DEFINE j == a - f + 1
          <6>1. j \in 1 .. n /\ f + j - 1 = a /\ low + j - 1 = position + k - 1
            BY <1>1, <5>1, <5>5
          <6> HIDE DEF j
          <6>2. up.mem[a] = tail.mem[a]
            BY <1>1, <3>1, <5>2, <5>5 DEF Raised
          <6>3. tail.mem[f + j - 1] = o.mem[last[j]]
            BY <1>1, <2>1, <6>1 DEF Behind
          <6> QED
            BY <1>3, <5>3, <6>1, <6>2, <6>3 DEF a
        <5> QED
          BY <1>1, <5>1, <5>4, <5>5
      <4>5. r.start = o.start /\ r.finish = position + n + (o.finish - position)
        BY <1>1, <2>2, <3>5, <3>6 DEF Keeps
      <4> QED
        BY <1>1, <4>2, <4>3, <4>4, <4>5 DEF Between
    <3>8. ASSUME ~r.thrown
          PROVE  Elements(r) = ValuesAt(o, Span(o.start, position) \o from
                                           \o Span(position, o.finish))
      <4>1. Between(o, r, position, from, n, position)
        BY <3>7, <3>8
      <4> QED
        BY <4>1, ElementsAre
    <3> QED
      BY <3>6, <3>8 DEF Basic, Keeps
  <2> QED
    BY <2>4, <2>5
<1> QED
  BY <1>5, <1>6

\* insert() of several with no more elements after them.
LEMMA InsertsMost ==
    ASSUME Store \in Nat, NEW o, VectorHolds(o), ~o.thrown,
           NEW position \in Int, o.start <= position, position <= o.finish,
           NEW from, NEW n, Given(o, from, n), Apart(o, from, n), o.finish + n <= o.last,
           ~(o.finish - position > n),
           NEW r, r = InsertWithRoom(o, position, from)
    PROVE  Basic(o, r, Span(o.start, position) \o from \o Span(position, o.finish))
<1> DEFINE f == o.finish
           d == f - position
           e == f + n - d
           high == f + n
           behind == SubSeq(from, d + 1, n)
           front == SubSeq(from, 1, d)
           old == Span(position, f)
           rest == Finish(UninitializedCopy(o, behind, Span(f, e)), e)
           both == Finish(UninitializedCopy(rest, old, Span(rest.finish, rest.finish + d)), high)
<1>1. /\ o \in Heaps /\ o.start \in Nat /\ f \in Nat /\ o.last \in Nat /\ n \in Nat
      /\ f = o.finish /\ d \in Nat /\ d <= n /\ d = f - position /\ e = f + (n - d)
      /\ e \in Nat /\ e <= o.last /\ high = e + d /\ high <= o.last /\ position + n = e
      /\ position + d = f /\ n - d \in Nat /\ o.start <= f
  <2>1. /\ o \in Heaps /\ o.start \in Nat /\ o.finish \in Nat /\ o.last \in Nat
        /\ o.start <= o.finish /\ n \in Nat
    BY PointersTyped DEF Given
  <2> QED
    BY <2>1
<1>1a. Len(from) = n
  BY DEF Given
<1>2. r = CopyObjects(both, front, Span(position, f))
  BY <1>1, <1>1a, Zenon DEF InsertWithRoom
<1>3. /\ Given(o, behind, n - d) /\ \A k \in 1 .. n - d : behind[k] = from[d + k]
      /\ Given(o, front, d) /\ \A k \in 1 .. d : front[k] = from[k]
      /\ Apart(o, front, d)
  <2>1. d \in 0 .. n /\ n \in d .. n
    BY <1>1
  <2>2. Given(o, behind, n - d) /\ \A k \in 1 .. n - d : behind[k] = from[d + k]
    <3>1. PartOf(behind, from, d, n)
      BY DEF PartOf
    <3> HIDE DEF d, behind
    <3> QED
      BY <2>1, <3>1, Parts
  <2>3. /\ Given(o, front, d) /\ \A k \in 1 .. d : front[k] = from[k]
        /\ Apart(o, front, d)
    <3> HIDE DEF d
    <3> DEFINE zero == 0
               part == SubSeq(from, zero + 1, d)
    <3>1. zero \in 0 .. n /\ d \in zero .. n /\ part = front /\ PartOf(part, from, zero, d)
      BY <1>1 DEF PartOf
    <3> HIDE DEF part, front
    <3>2. /\ Given(o, part, d - zero)
          /\ \A k \in 1 .. d - zero : part[k] = from[zero + k]
          /\ Apart(o, part, d - zero)
      <4> HIDE DEF zero
      <4> QED
        BY <3>1, Parts
    <3>3. d - zero = d /\ \A k \in 1 .. d : zero + k = k
      BY <1>1
    <3> HIDE DEF zero
    <3> QED
      BY <3>1, <3>2, <3>3
  <2> QED
    BY <2>2, <2>3
<1> HIDE DEF behind, front, d
<1>4. Given(o, old, d) /\ \A k \in 1 .. d : old[k] = position + k - 1
  <2> HIDE DEF f
  <2> QED
    BY <1>1, SpanGiven DEF f
<1> HIDE DEF old
<1>5. Lengthened(o, rest, behind, n - d)
  <2> HIDE DEF e
  <2> QED
    BY <1>1, <1>3, Appends
<1> HIDE DEF rest, both, f, e, high
<1>6. CASE rest.thrown
  <2>1. both = rest
    <3> DEFINE to == Span(rest.finish, rest.finish + d)
    <3>1. UninitializedCopy(rest, old, to) = rest
      <4> HIDE DEF to
      <4>1. Len(old) \in Nat
        BY <1>4 DEF Given
      <4> QED
        BY <1>6, <4>1, UninitializedSkips DEF UninitializedCopy
    <3> QED
      BY <1>6, <3>1 DEF both, Finish, Then
  <2>2. Len(front) \in Nat
    BY <1>3 DEF Given
  <2>3. r = rest
    BY <1>2, <1>6, <2>1, <2>2, CopySkips
  <2> QED
    BY <1>5, <1>6, <2>3 DEF Lengthened, Basic, Keeps
<1>7. CASE ~rest.thrown
  <2>1. /\ Keeps(o, rest) /\ VectorHolds(rest) /\ rest.finish = e
        /\ rest.start = o.start /\ rest.last = o.last
        /\ Behind(o, rest, behind, n - d)
    BY <1>1, <1>5, <1>7 DEF Lengthened, Keeps
  <2>2. ASSUME NEW a \in Places, a < f \/ o.last <= a PROVE rest.mem[a] = o.mem[a]
    <3>1. a < o.finish \/ o.finish + (n - d) <= a
      BY <1>1, <2>2 DEF Places
    <3> QED
      BY <2>1, <3>1 DEF Behind
  <2>3. Given(rest, old, d)
    <3>1. ASSUME NEW k \in 1 .. d PROVE rest.mem[old[k]] = o.mem[old[k]]
      <4>1. old[k] = position + k - 1 /\ position + k - 1 < f
        BY <1>1, <1>4
      <4>2. old[k] \in Places
        BY <1>4 DEF Given, Sources
      <4> QED
        BY <2>2, <4>1, <4>2
    <3> QED
      BY <1>4, <3>1, StillGiven
  <2>4. Lengthened(rest, both, old, d)
    <3> DEFINE end == rest.finish + d
    <3>1. end = high /\ end <= rest.last
      BY <1>1, <2>1
    <3>2. both = Finish(UninitializedCopy(rest, old, Span(rest.finish, end)), end)
      BY <3>1 DEF both
    <3> HIDE DEF end
    <3>3. end = rest.finish + d
      BY DEF end
    <3> QED
      BY <1>7, <2>1, <2>3, <3>1, <3>2, <3>3, Appends
  <2>5. Keeps(rest, both) /\ Keeps(o, both)
    BY <2>1, <2>4, KeepsOn DEF Lengthened
  <2>6. CASE both.thrown
    <3>1. Len(front) \in Nat
      BY <1>3 DEF Given
    <3>2. r = both
      BY <1>2, <2>6, <3>1, CopySkips
    <3> QED
      BY <2>5, <2>6, <3>2 DEF Basic, Keeps
  <2>7. CASE ~both.thrown
    <3>1. /\ VectorHolds(both) /\ both.start = o.start /\ both.last = o.last
          /\ both.finish = high /\ Behind(rest, both, old, d)
      BY <1>1, <2>1, <2>4, <2>5, <2>7 DEF Lengthened, Keeps
    <3>2. ASSUME NEW a \in Places, a < e \/ o.last <= a PROVE both.mem[a] = rest.mem[a]
      <4>1. a < rest.finish \/ rest.finish + d <= a
        BY <1>1, <2>1, <3>2 DEF Places
      <4> QED
        BY <3>1, <4>1 DEF Behind
    <3>3. ASSUME NEW a \in Places, a < f \/ o.last <= a PROVE both.mem[a] = o.mem[a]
      BY <1>1, <2>2, <3>2, <3>3 DEF Places
    <3>4. ASSUME NEW k \in 1 .. d PROVE both.mem[front[k]] = o.mem[front[k]]
      <4>1. front[k] \in Places /\ (front[k] < o.start \/ o.last <= front[k])
        BY <1>3, ApartPlace
      <4> QED
        BY <1>1, <3>3, <4>1 DEF Places
    <3>5. Given(both, front, d) /\ Apart(both, front, d)
      <4>1. Apart(both, front, d)
        BY <1>3, <3>1 DEF Apart, Held
      <4> QED
        BY <1>3, <3>4, <4>1, StillGiven
    <3>6. /\ Keeps(both, r) /\ r.finish = both.finish
          /\ ~r.thrown => Over(both, r, position, front, d)
      <4>1. both.start <= position /\ f <= both.finish /\ f = position + d
        BY <1>1, <3>1
      <4> QED
        BY <1>2, <2>7, <3>1, <3>5, <4>1, AssignsOver
    <3>7. Keeps(o, r)
      BY <2>5, <3>6, KeepsOn
    <3>8. ASSUME ~r.thrown PROVE Between(o, r, position, from, n, position)
      <4>1. Over(both, r, position, front, d)
        BY <3>6, <3>8
      <4>2. ASSUME NEW a \in o.start .. position - 1 PROVE r.mem[a] = o.mem[a]
        <5>1. a \in Places /\ a < position /\ a < f
          <6>1. a \in o.start .. o.finish - 1 /\ a < position /\ a < f
            BY <1>1
          <6> QED
            BY <6>1, ElementsAreObjects
        <5> QED
          BY <3>3, <4>1, <5>1 DEF Over
      <4>3. ASSUME NEW a \in Places, f <= a PROVE r.mem[a] = both.mem[a]
        BY <1>1, <4>1, <4>3 DEF Over
      <4>4. ASSUME NEW k \in 1 .. n PROVE r.mem[position + k - 1] = o.mem[from[k]]
        <5>1. CASE k <= d
          <6>1. k \in 1 .. d
            BY <1>1, <5>1
          <6>2. r.mem[position + k - 1] = both.mem[front[k]]
            BY <4>1, <6>1 DEF Over
          <6> QED
            BY <1>3, <3>4, <6>1, <6>2
        <5>2. CASE d < k
          <6> DEFINE j == k - d
                     a == position + k - 1
          <6>1. j \in 1 .. n - d /\ d + j = k /\ f + j - 1 = a /\ f <= a /\ a < e /\ a \in Int
            BY <1>1, <5>2
          <6>2. a \in Places
            <7>1. a \in rest.start .. rest.finish - 1
              BY <1>1, <2>1, <6>1
            <7> QED
              BY <2>1, <7>1, ElementsAreObjects
          <6> HIDE DEF j, a
          <6>3. r.mem[a] = rest.mem[a]
            BY <3>2, <4>3, <6>1, <6>2
          <6>4. rest.mem[f + j - 1] = o.mem[behind[j]]
            BY <1>1, <2>1, <6>1 DEF Behind
          <6> QED
            BY <1>3, <6>1, <6>3, <6>4 DEF a
        <5> QED
          BY <1>1, <5>1, <5>2
      <4>5. ASSUME NEW k \in 1 .. f - position
            PROVE  r.mem[position + n + k - 1] = o.mem[position + k - 1]
        <5> DEFINE a == position + n + k - 1
        <5>1. a \in Int /\ e <= a /\ a < high /\ a = e + k - 1 /\ k \in 1 .. d /\ f <= a
          BY <1>1
        <5>2. a \in Places
          <6>1. a \in both.start .. both.finish - 1
            BY <1>1, <3>1, <5>1
          <6> QED
            BY <3>1, <6>1, ElementsAreObjects
        <5> HIDE DEF a
        <5>3. r.mem[a] = both.mem[a]
          BY <4>3, <5>1, <5>2
        <5>4. both.mem[e + k - 1] = rest.mem[old[k]]
          BY <2>1, <3>1, <5>1 DEF Behind
        <5>5. rest.mem[old[k]] = o.mem[position + k - 1]
          <6>1. old[k] = position + k - 1 /\ old[k] \in Places /\ position + k - 1 < f
            <7>1. old[k] = position + k - 1 /\ old[k] \in Places
              BY <1>4, <5>1 DEF Given, Sources
            <7>2. position + k - 1 < f
              BY <1>1, <5>1
            <7> QED
              BY <7>1, <7>2
          <6> QED
            BY <2>2, <6>1
        <5> QED
          BY <5>1, <5>3, <5>4, <5>5 DEF a
      <4>6. r.start = o.start /\ r.finish = position + n + (o.finish - position)
        BY <1>1, <3>1, <3>6, <3>7 DEF Keeps
      <4> QED
        BY <1>1, <4>2, <4>4, <4>5, <4>6 DEF Between
    <3>9. ASSUME ~r.thrown
          PROVE  Elements(r) = ValuesAt(o, Span(o.start, position) \o from
                                           \o Span(position, o.finish))
      <4>1. Between(o, r, position, from, n, position)
        BY <3>8, <3>9
      <4> QED
        BY <4>1, ElementsAre
    <3> QED
      BY <3>7, <3>9 DEF Basic, Keeps
  <2> QED
    BY <2>6, <2>7
<1> QED
  BY <1>6, <1>7

LEMMA MaxOfTwo ==
    ASSUME NEW a \in Nat, NEW b \in Nat
    PROVE  Max({a, b}) \in Nat /\ a <= Max({a, b}) /\ b <= Max({a, b})
<1> DEFINE P(x) == x \in {a, b} /\ \A y \in {a, b} : x >= y
<1>1. \E x : P(x)
  <2>1. CASE a >= b
    BY <2>1
  <2>2. CASE b >= a
    BY <2>2
  <2> QED
    BY <2>1, <2>2
<1>2. Max({a, b}) = CHOOSE x \in {a, b} : \A y \in {a, b} : x >= y
  BY DEF Max
<1>3. P(Max({a, b}))
  BY <1>1, <1>2, Zenon
<1> QED
  BY <1>3

\* Nothing is inserted: the elements stay.
LEMMA InsertsNone ==
    ASSUME Store \in Nat, NEW o, VectorHolds(o), ~o.thrown,
           NEW position \in Int, o.start <= position, position <= o.finish
    PROVE  Basic(o, o, Span(o.start, position) \o << >> \o Span(position, o.finish))
<1>1. o.start \in Int /\ o.finish \in Int
  BY PointersTyped
<1>2. Between(o, o, position, << >>, 0, position)
  BY <1>1 DEF Between
<1>3. Elements(o) = ValuesAt(o, Span(o.start, position) \o << >> \o Span(position, o.finish))
  BY <1>2, ElementsWithout
<1> QED
  BY <1>3 DEF Basic, Elsewhere

\* How long the new block is when several are inserted without room.
GrownLength(o, n) == Size(o) + Max({Size(o), n})

\* insert() of a range (stl_vector.h:422, stl_vector.h:477), whichever of its three ways it
\* goes.  With room the sources may not be the vector's own elements, which move under them.
THEOREM InsertsManyBasically ==
    ASSUME Store \in Nat, NEW o, VectorHolds(o), ~o.thrown,
           NEW position \in Int, o.start <= position, position <= o.finish,
           NEW from, NEW n, Given(o, from, n),
           n <= Spare(o) => Apart(o, from, n),
           ~(n <= Spare(o)) => Room(o, GrownLength(o, n))
    PROVE  Basic(o, InsertMany(o, position, from),
                 Span(o.start, position) \o from \o Span(position, o.finish))
<1>1. n \in Nat /\ from \in Seq(Int)
  BY DEF Given, Sources
<1>2. Len(from) = n
  BY DEF Given
<1>3. /\ o.start \in Nat /\ o.finish \in Nat /\ o.last \in Nat /\ o.start <= o.finish
      /\ Spare(o) = o.last - o.finish /\ Size(o) = o.finish - o.start /\ Size(o) \in Nat
  BY PointersTyped DEF Spare, Size
<1>4. CASE from = << >>
  <2>1. InsertMany(o, position, from) = o
    BY <1>4 DEF InsertMany
  <2> QED
    BY <1>4, <2>1, InsertsNone
<1>5. CASE from # << >> /\ n <= Spare(o)
  <2>1. InsertMany(o, position, from) = InsertWithRoom(o, position, from)
    <3>1. from # << >> /\ Spare(o) >= Len(from)
      BY <1>1, <1>2, <1>3, <1>5
    <3> QED
      BY <3>1 DEF InsertMany
  <2>2. o.finish + n <= o.last /\ Apart(o, from, n)
    BY <1>1, <1>3, <1>5
  <2>3. CASE o.finish - position > n
    BY <2>1, <2>2, <2>3, InsertsFew
  <2>4. CASE ~(o.finish - position > n)
    BY <2>1, <2>2, <2>4, InsertsMost
  <2> QED
    BY <2>3, <2>4
<1>6. CASE from # << >> /\ ~(n <= Spare(o))
  <2> DEFINE len == GrownLength(o, n)
  <2>1. InsertMany(o, position, from) = Grown(o, len, position, from, position)
    <3>1. from # << >> /\ ~(Spare(o) >= Len(from))
      BY <1>1, <1>2, <1>3, <1>6
    <3> QED
      BY <1>2, <3>1 DEF InsertMany, GrownLength
  <2>2. n # 0
    BY <1>1, <1>2, <1>6
  <2>3. len \in Nat \ {0} /\ (o.finish - o.start) + n <= len
    <3> DEFINE m == Max({Size(o), n})
               size == Size(o)
    <3>1. m \in Nat /\ n <= m
      BY <1>1, <1>3, MaxOfTwo
    <3>2. len = size + m /\ size \in Nat /\ o.finish - o.start = size
      BY <1>3 DEF GrownLength
    <3> HIDE DEF len, m, size
    <3> QED
      BY <1>1, <2>2, <3>1, <3>2
  <2> HIDE DEF len
  <2>4. (position - o.start) + n + (o.finish - position) <= len
    <3> DEFINE b == o.start
               f == o.finish
    <3>1. b \in Int /\ f \in Int /\ n \in Int /\ len \in Int /\ (f - b) + n <= len
      BY <1>1, <1>3, <2>3
    <3> HIDE DEF b, f
    <3>2. (position - b) + n + (f - position) <= len
      BY <3>1
    <3> QED
      BY <3>2 DEF b, f
  <2>5. (position - o.start) + Len(from) + (o.finish - position) <= len /\ Sources(o, from)
    BY <1>2, <2>4 DEF Given
  <2>6. Room(o, len)
    BY <1>6 DEF len
  <2>7. Strong(o, Grown(o, len, position, from, position),
               Span(o.start, position) \o from \o Span(position, o.finish))
    BY <2>3, <2>5, <2>6, GrowsStrongly
  <2> QED
    BY <2>1, <2>7 DEF Strong
<1> QED
  BY <1>4, <1>5, <1>6

\* Once something was thrown nothing is inserted.
IsLong(from, n) == Len(from) = n

LEMMA InsertSkips ==
    ASSUME Store \in Nat, NEW o, VectorHolds(o), o.thrown,
           NEW position \in Int, o.start <= position, position <= o.finish,
           NEW from \in Seq(Int), NEW n \in Nat, IsLong(from, n), n <= Spare(o)
    PROVE  InsertMany(o, position, from) = o
<1>1. n \in Nat /\ from \in Seq(Int)
  OBVIOUS
<1>2. Len(from) = n
  BY DEF IsLong
<1>3. /\ o.start \in Nat /\ o.finish \in Nat /\ o.last \in Nat /\ o.start <= o.finish
      /\ Spare(o) = o.last - o.finish
  BY PointersTyped DEF Spare
<1>4. ASSUME NEW source, Len(source) \in Nat, NEW to, NEW at
      PROVE  Finish(UninitializedCopy(o, source, to), at) = o
  BY <1>4, UninitializedSkips DEF UninitializedCopy, Finish, Then
<1> DEFINE f == o.finish
           d == f - position
           last == Span(f - n, f)
           behind == SubSeq(from, d + 1, n)
           front == SubSeq(from, 1, d)
           old == Span(position, f)
           tail == Finish(UninitializedCopy(o, last, Span(f, f + n)), f + n)
           rest == Finish(UninitializedCopy(o, behind, Span(f, f + n - d)), f + n - d)
           both == Finish(UninitializedCopy(rest, old, Span(rest.finish, rest.finish + d)), f + n)
           up == MoveUp(tail, position, f - n, f)
<1>5. CASE from = << >>
  BY <1>5 DEF InsertMany
<1>6. CASE from # << >> /\ d > n
  <2>1. InsertMany(o, position, from) = CopyObjects(up, from, Span(position, position + n))
    <3>1. InsertMany(o, position, from) = InsertWithRoom(o, position, from)
      <4>1. Spare(o) >= Len(from)
        BY <1>1, <1>2, <1>3
      <4> QED
        BY <1>6, <4>1 DEF InsertMany
    <3> QED
      BY <1>2, <1>6, <3>1, Zenon DEF InsertWithRoom
  <2>2. Len(last) \in Nat
    <3>1. f - n \in Int /\ f \in Int /\ f - n <= f
      BY <1>1, <1>3
    <3> DEFINE low == f - n
    <3> HIDE DEF low, f
    <3>2. Len(Span(low, f)) \in Nat
      BY <3>1, SpanOf DEF low
    <3> QED
      BY <3>2 DEF low
  <2>3. tail = o
    <3> HIDE DEF last, f
    <3> QED
      BY <1>4, <2>2
  <2>4. up = o
    <3>1. f - n \in Int /\ f \in Int /\ position <= f - n
      BY <1>1, <1>3, <1>6
    <3> HIDE DEF tail
    <3> QED
      BY <2>3, <3>1, MoveSkips
  <2> HIDE DEF up
  <2> QED
    BY <1>1, <1>2, <2>1, <2>4, CopySkips
<1>7. CASE from # << >> /\ ~(d > n)
  <2>1. InsertMany(o, position, from) = CopyObjects(both, front, Span(position, f))
    <3>1. InsertMany(o, position, from) = InsertWithRoom(o, position, from)
      <4>1. Spare(o) >= Len(from)
        BY <1>1, <1>2, <1>3
      <4> QED
        BY <1>7, <4>1 DEF InsertMany
    <3> QED
      BY <1>2, <1>7, <3>1, Zenon DEF InsertWithRoom
  <2>2. d \in 0 .. n /\ n \in d .. n /\ 0 \in 0 .. n
    BY <1>1, <1>3, <1>7
  <2>3. Len(behind) \in Nat
    <3>1. PartOf(behind, from, d, n)
      BY DEF PartOf
    <3> HIDE DEF d, behind
    <3>2. Len(behind) = n - d /\ n - d \in Nat
      BY <1>2, <2>2, <3>1, PartIs DEF Taken
    <3> QED
      BY <3>2
  <2>4. Len(front) \in Nat
    <3> DEFINE zero == 0
    <3>1. PartOf(front, from, zero, d)
      BY DEF PartOf
    <3>2. zero \in 0 .. n /\ d \in zero .. n
      BY <2>2
    <3> HIDE DEF d, front, zero
    <3>3. Len(front) = d - zero /\ d - zero \in Nat
      BY <1>2, <3>1, <3>2, PartIs DEF Taken
    <3> QED
      BY <3>3
  <2>5. Len(old) \in Nat
    <3>1. f \in Int /\ position <= f
      BY <1>3
    <3> HIDE DEF f
    <3> QED
      BY <3>1, SpanOf
  <2>6. rest = o
    <3> HIDE DEF behind, d, f
    <3> QED
      BY <1>4, <2>3
  <2>7. both = o
    <3> HIDE DEF old, d, rest, f
    <3> QED
      BY <1>4, <2>5, <2>6
  <2> HIDE DEF both, front
  <2> QED
    BY <2>1, <2>4, <2>7, CopySkips
<1> QED
  BY <1>5, <1>6, <1>7

\* The same values are found at other places between the elements.
Agree(c, t, o, v) == Len(t) = Len(v) /\ \A k \in 1 .. Len(t) : c.mem[t[k]] = o.mem[v[k]]

LEMMA SameBetween ==
    ASSUME NEW o, NEW c, NEW s \in Seq(Int), NEW u \in Seq(Int),
           NEW t \in Seq(Int), NEW v \in Seq(Int),
           Agree(c, s, o, s), Agree(c, u, o, u), Agree(c, t, o, v)
    PROVE  ValuesAt(c, s \o t \o u) = ValuesAt(o, s \o v \o u)
<1> DEFINE p == Len(s)
           q == Len(u)
           n == Len(t)
           x == s \o t \o u
           y == s \o v \o u
<1>1. p \in Nat /\ q \in Nat /\ n \in Nat
  OBVIOUS
<1>2. /\ Len(x) = p + n + q
      /\ \A k \in 1 .. p : x[k] = s[k]
      /\ \A k \in 1 .. n : x[p + k] = t[k]
      /\ \A k \in 1 .. q : x[p + n + k] = u[k]
  BY ThreeInARow
<1>3. /\ Len(y) = p + n + q
      /\ \A k \in 1 .. p : y[k] = s[k]
      /\ \A k \in 1 .. n : y[p + k] = v[k]
      /\ \A k \in 1 .. q : y[p + n + k] = u[k]
  <2>1. /\ Len(y) = p + Len(v) + q
        /\ \A k \in 1 .. p : y[k] = s[k]
        /\ \A k \in 1 .. Len(v) : y[p + k] = v[k]
        /\ \A k \in 1 .. q : y[p + Len(v) + k] = u[k]
    BY ThreeInARow
  <2>2. n = Len(v)
    BY DEF Agree
  <2> HIDE DEF y, p, q, n
  <2> QED
    BY <2>1, <2>2
<1>3a. /\ \A k \in 1 .. p : c.mem[s[k]] = o.mem[s[k]]
       /\ \A k \in 1 .. q : c.mem[u[k]] = o.mem[u[k]]
       /\ \A k \in 1 .. n : c.mem[t[k]] = o.mem[v[k]]
  BY DEF Agree
<1> HIDE DEF x, y, p, q, n
<1>4. ASSUME NEW k \in 1 .. p + n + q PROVE c.mem[x[k]] = o.mem[y[k]]
  <2>1. CASE k <= p
    <3>1. k \in 1 .. p
      BY <1>1, <2>1
    <3> QED
      BY <1>2, <1>3, <1>3a, <3>1
  <2>2. CASE p < k /\ k <= p + n
    <3>1. k - p \in 1 .. n /\ p + (k - p) = k
      BY <1>1, <2>2
    <3>2. c.mem[t[k - p]] = o.mem[v[k - p]]
      BY <1>3a, <3>1
    <3>3. x[p + (k - p)] = t[k - p] /\ y[p + (k - p)] = v[k - p]
      BY <1>2, <1>3, <3>1
    <3> QED
      BY <3>1, <3>2, <3>3
  <2>3. CASE p + n < k
    <3> DEFINE j == k - p - n
    <3>1. j \in 1 .. q /\ p + n + j = k
      BY <1>1, <2>3
    <3> HIDE DEF j
    <3>2. x[p + n + j] = u[j] /\ y[p + n + j] = u[j]
      BY <1>2, <1>3, <3>1
    <3>3. c.mem[u[j]] = o.mem[u[j]]
      BY <1>3a, <3>1
    <3> QED
      BY <3>1, <3>2, <3>3
  <2> QED
    BY <1>1, <2>1, <2>2, <2>3
<1> QED
  BY <1>2, <1>3, <1>4 DEF ValuesAt, x, y

LEMMA RepeatedGiven ==
    ASSUME NEW o, NEW n \in Nat, NEW x \in Int, x \in Places, o.mem[x] # Raw
    PROVE  /\ Given(o, Repeated(n, x), n) /\ Repeated(n, x) \in Seq(Int)
           /\ Len(Repeated(n, x)) = n /\ \A k \in 1 .. n : Repeated(n, x)[k] = x
<1> DEFINE s == Repeated(n, x)
<1>1. s \in Seq(Int) /\ Len(s) = n /\ \A k \in 1 .. n : s[k] = x
  BY DEF Repeated
<1> HIDE DEF s
<1> QED
  BY <1>1 DEF Given, Sources, s

\* insert() of n copies of x, also of an element of the vector itself, of which
\* there is a local copy then (stl_vector.h:361).
THEOREM InsertsCopiesBasically ==
    ASSUME Store \in Nat, NEW o, VectorHolds(o), ~o.thrown,
           NEW position \in Int, o.start <= position, position <= o.finish,
           NEW n \in Nat, NEW x \in Int, x \in Places, o.mem[x] # Raw,
           ~(n <= Spare(o)) => Room(o, GrownLength(o, n))
    PROVE  Basic(o, InsertN(o, position, n, x),
                 Span(o.start, position) \o Repeated(n, x) \o Span(position, o.finish))
<1> DEFINE c == Construct(o, Local, x)
           from == Repeated(n, Local)
           r == InsertN(o, position, n, x)
<1>1. Spare(o) \in Nat /\ o.start \in Int /\ o.finish \in Int /\ o.start <= o.finish
  BY PointersTyped DEF Spare
<1>2. CASE ~(n > 0 /\ n <= Spare(o))
  <2> DEFINE given == Repeated(n, x)
  <2>1. r = InsertMany(o, position, given)
    BY <1>1, <1>2 DEF InsertN
  <2>2. Given(o, given, n)
    BY RepeatedGiven
  <2>3. n <= Spare(o) => Apart(o, given, n)
    BY <1>1, <1>2 DEF Apart
  <2> HIDE DEF given, r
  <2>4. Basic(o, r, Span(o.start, position) \o given \o Span(position, o.finish))
    BY <2>1, <2>2, <2>3, InsertsManyBasically
  <2> QED
    BY <2>4 DEF given, r
<1>3. CASE n > 0 /\ n <= Spare(o)
  <2>1. r = InsertMany(c, position, from)
    BY <1>1, <1>3 DEF InsertN
  <2>2. /\ Keeps(o, c) /\ c.finish = o.finish
        /\ \A a \in Places : a # Local => c.mem[a] = o.mem[a]
        /\ ~c.thrown => c.mem[Local] = o.mem[x] /\ c.mem[Local] # Raw
    BY ConstructsAside
  <2> HIDE DEF c, r, from
  <2>3. /\ VectorHolds(c) /\ c.start = o.start /\ c.last = o.last
        /\ Spare(c) = Spare(o)
    BY <2>2 DEF Keeps, Spare
  <2>4. Local \in Int /\ Local \in Places
    BY DEF Local, Places, Saved
  <2>5. CASE c.thrown
    <3>1. r = c
      <4>1. from \in Seq(Int) /\ Len(from) = n
        BY <2>4 DEF Repeated, from
      <4> QED
        BY <1>3, <2>1, <2>2, <2>3, <2>5, <4>1, InsertSkips DEF IsLong
    <3> QED
      BY <2>2, <2>5, <3>1 DEF Basic, Keeps, r
  <2>6. CASE ~c.thrown
    <3>1. Given(c, from, n) /\ from \in Seq(Int) /\ Len(from) = n /\ \A k \in 1 .. n : from[k] = Local
      BY <2>2, <2>4, <2>6, RepeatedGiven DEF from
    <3>2. Apart(c, from, n)
      <4>1. Local \notin Held(c)
        BY <2>3, HeldPlace DEF Local
      <4> QED
        BY <3>1, <4>1 DEF Apart
    <3>3. Basic(c, r, Span(c.start, position) \o from \o Span(position, c.finish))
      BY <1>3, <2>1, <2>2, <2>3, <2>6, <3>1, <3>2, InsertsManyBasically
    <3>4. VectorHolds(r) /\ Elsewhere(o, r)
      <4>1. VectorHolds(r) /\ Elsewhere(c, r)
        BY <3>3 DEF Basic
      <4>2. Held(c) = Held(o) /\ Own(c) = Own(o)
        BY <2>3 DEF Held, Own
      <4> QED
        BY <2>2, <4>1, <4>2 DEF Keeps, Elsewhere
    <3>5. ASSUME ~r.thrown
          PROVE  Elements(r) = ValuesAt(o, Span(o.start, position) \o Repeated(n, x)
                                           \o Span(position, o.finish))
      <4> DEFINE s == Span(o.start, position)
                 u == Span(position, o.finish)
                 v == Repeated(n, x)
      <4>1. Elements(r) = ValuesAt(c, s \o from \o u)
        BY <2>2, <2>3, <3>3, <3>5 DEF Basic
      <4>2. /\ s \in Seq(Int) /\ Len(s) = position - o.start
            /\ \A k \in 1 .. position - o.start : s[k] \in o.start .. position - 1
        BY <1>1, SpanOf
      <4>3. /\ u \in Seq(Int) /\ Len(u) = o.finish - position
            /\ \A k \in 1 .. o.finish - position : u[k] \in position .. o.finish - 1
        BY <1>1, SpanOf
      <4>4. v \in Seq(Int) /\ Len(v) = n /\ \A k \in 1 .. n : v[k] = x
        BY DEF Repeated
      <4> HIDE DEF s, u, v
      <4>5. ASSUME NEW a \in o.start .. o.finish - 1 PROVE c.mem[a] = o.mem[a]
        <5>1. a \in Places /\ a # Local
          BY ElementsAreObjects DEF Local
        <5> QED
          BY <2>2, <5>1
      <4>6. ASSUME NEW k \in 1 .. Len(s) PROVE c.mem[s[k]] = o.mem[s[k]]
        <5>1. s[k] \in o.start .. position - 1
          BY <4>2
        <5>2. \A a \in o.start .. position - 1 : a \in o.start .. o.finish - 1
          BY <1>1
        <5> QED
          BY <4>5, <5>1, <5>2
      <4>7. ASSUME NEW k \in 1 .. Len(u) PROVE c.mem[u[k]] = o.mem[u[k]]
        <5>1. u[k] \in position .. o.finish - 1
          BY <4>3
        <5>2. \A a \in position .. o.finish - 1 : a \in o.start .. o.finish - 1
          BY <1>1
        <5> QED
          BY <4>5, <5>1, <5>2
      <4>8. \A k \in 1 .. n : c.mem[from[k]] = o.mem[v[k]]
        BY <2>2, <2>6, <3>1, <4>4
      <4>9. ValuesAt(c, s \o from \o u) = ValuesAt(o, s \o v \o u)
        <5>1. Agree(c, s, o, s) /\ Agree(c, u, o, u)
          BY <4>6, <4>7 DEF Agree
        <5>2. Agree(c, from, o, v)
          BY <3>1, <4>4, <4>8 DEF Agree
        <5> QED
          BY <3>1, <4>2, <4>3, <4>4, <5>1, <5>2, SameBetween
      <4> QED
        BY <4>1, <4>9 DEF s, u, v
    <3> QED
      BY <3>4, <3>5 DEF Basic, r
  <2> QED
    BY <2>5, <2>6
<1> QED
  BY <1>2, <1>3

\* Constructors from several values: one block for all of them, or none (stl_vector.h:73,
\* stl_vector.h:104, stl_vector.h:119, stl_vector.h:261).
THEOREM ConstructsStrongly ==
    ASSUME Store \in Nat, NEW o, VectorHolds(o), ~o.thrown, o.start = Null,
           NEW from, NEW n, Given(o, from, n), n # 0 => Room(o, n)
    PROVE  Strong(o, VectorOf(o, from),
                  Span(o.start, o.start) \o from \o Span(o.finish, o.finish))
<1>1. /\ o.finish = Null /\ o.start = 0 /\ o.finish = 0 /\ Null \in Int
      /\ o.start <= Null /\ Null <= o.finish
  BY DEF VectorHolds, PointersHold, Null
<1>2. from \in Seq(Int) /\ n \in Nat
  BY DEF Given, Sources
<1>3. Len(from) = n
  BY DEF Given
<1>4. CASE from = << >>
  <2>1. VectorOf(o, from) = o
    BY <1>4 DEF VectorOf
  <2>2. Basic(o, o, Span(o.start, o.start) \o << >> \o Span(o.start, o.finish))
    BY <1>1, InsertsNone
  <2> QED
    BY <1>1, <1>4, <2>1, <2>2 DEF Strong
<1>5. CASE from # << >>
  <2>1. VectorOf(o, from) = Grown(o, n, Null, from, Null)
    BY <1>3, <1>5 DEF VectorOf
  <2>2. n \in Nat \ {0}
    BY <1>2, <1>3, <1>5
  <2>3. (Null - o.start) + n + (o.finish - Null) <= n
    BY <1>1, <2>2 DEF Null
  <2>4. (Null - o.start) + Len(from) + (o.finish - Null) <= n /\ Sources(o, from)
    BY <1>3, <2>3 DEF Given
  <2>5. Room(o, n)
    BY <2>2
  <2>6. Strong(o, Grown(o, n, Null, from, Null), Span(o.start, Null) \o from \o Span(Null, o.finish))
    BY <1>1, <2>2, <2>4, <2>5, GrowsStrongly
  <2> QED
    BY <1>1, <2>1, <2>6
<1> QED
  BY <1>4, <1>5

\* operator= within the elements: copies over the first, the others are destroyed.
LEMMA AssignsFewer ==
    ASSUME Store \in Nat, NEW o, VectorHolds(o), ~o.thrown,
           NEW from, NEW n, Given(o, from, n), Apart(o, from, n), n <= Size(o),
           NEW end, end = o.start + n,
           NEW over, over = CopyObjects(o, from, Span(o.start, end)),
           NEW r, r = Then(over, Finish(Destroy(over, end .. o.finish - 1), end))
    PROVE  /\ Keeps(o, r)
           /\ ~r.thrown => Between(o, r, o.start, from, n, o.finish)
<1>1. /\ o.start \in Nat /\ o.finish \in Nat /\ n \in Nat /\ end \in Nat /\ end <= o.finish
      /\ o.start <= o.finish /\ o.start <= end /\ o.start \in Int /\ o.start <= o.start
      /\ end = o.start + n
  BY PointersTyped DEF Given, Size
<1>2. /\ Keeps(o, over) /\ over.finish = o.finish
      /\ ~over.thrown => Over(o, over, o.start, from, n)
  BY <1>1, AssignsOver
<1>3. CASE over.thrown
  BY <1>2, <1>3 DEF Then
<1>4. CASE ~over.thrown
  <2>1. VectorHolds(over) /\ over.start = o.start
    BY <1>2 DEF Keeps
  <2>2. r = Finish(Destroy(over, end .. over.finish - 1), end)
    BY <1>2, <1>4 DEF Then
  <2>3. end \in over.start .. over.finish
    BY <1>1, <1>2, <2>1
  <2>4. /\ Keeps(over, r) /\ r.finish = end
        /\ \A a \in Places : a < end \/ over.finish <= a => r.mem[a] = over.mem[a]
    BY <1>4, <2>1, <2>2, <2>3, Trims
  <2>5. Keeps(o, r)
    BY <1>2, <2>4, KeepsOn
  <2>6. ASSUME NEW k \in 1 .. n PROVE r.mem[o.start + k - 1] = o.mem[from[k]]
    <3>1. o.start + k - 1 \in o.start .. o.finish - 1 /\ o.start + k - 1 < end
      BY <1>1
    <3>2. o.start + k - 1 \in Places
      BY <3>1, ElementsAreObjects
    <3>3. over.mem[o.start + k - 1] = o.mem[from[k]]
      BY <1>2, <1>4 DEF Over
    <3> QED
      BY <2>4, <3>1, <3>2, <3>3
  <2>7. r.start = o.start /\ r.finish = o.start + n + (o.finish - o.finish)
    BY <1>1, <2>4, <2>5 DEF Keeps
  <2>8. \A a \in o.start .. o.start - 1 : r.mem[a] = o.mem[a]
    <3> SUFFICES o.start .. o.start - 1 = {}
      OBVIOUS
    <3> QED
      BY <1>1
  <2>9. \A k \in 1 .. o.finish - o.finish : r.mem[o.start + n + k - 1] = o.mem[o.finish + k - 1]
    <3> SUFFICES 1 .. o.finish - o.finish = {}
      OBVIOUS
    <3> QED
      BY <1>1
  <2>10. Between(o, r, o.start, from, n, o.finish)
    BY <2>6, <2>7, <2>8, <2>9 DEF Between
  <2> QED
    BY <2>5, <2>10
<1> QED
  BY <1>3, <1>4

\* operator= beyond the elements and within the capacity: copies over all, and behind.
LEMMA AssignsMore ==
    ASSUME Store \in Nat, NEW o, VectorHolds(o), ~o.thrown,
           NEW from, NEW n, Given(o, from, n), Apart(o, from, n), NEW size, size = Size(o),
           size < n, n <= Capacity(o), NEW end, end = o.start + n,
           NEW front, PartOf(front, from, 0, size), NEW behind, PartOf(behind, from, size, n),
           NEW head, head = CopyObjects(o, front, Span(o.start, o.finish)),
           NEW r, r = Finish(UninitializedCopy(head, behind, Span(o.finish, end)), end)
    PROVE  /\ Keeps(o, r)
           /\ ~r.thrown => Between(o, r, o.start, from, n, o.finish)
<1>1. /\ o.start \in Nat /\ o.finish \in Nat /\ o.last \in Nat /\ n \in Nat /\ end \in Nat
      /\ o.start <= o.finish /\ end <= o.last /\ o.start \in Int /\ size \in Nat
      /\ o.finish = o.start + size /\ end = o.start + n /\ end = o.finish + (n - size)
      /\ n - size \in Nat /\ size < n /\ o.start <= o.start /\ o.finish <= o.finish
  <2>1. /\ o.start \in Nat /\ o.finish \in Nat /\ o.last \in Nat /\ o.start <= o.finish
        /\ n \in Nat /\ Size(o) = o.finish - o.start /\ Capacity(o) = o.last - o.start
    BY PointersTyped DEF Given, Size, Capacity
  <2> QED
    BY <2>1
<1>2. size \in 0 .. n /\ n \in size .. n /\ 0 \in 0 .. n /\ size \in 0 .. size
  BY <1>1
<1>3. /\ Given(o, front, size) /\ \A k \in 1 .. size : front[k] = from[k]
      /\ Apart(o, front, size)
  <2> DEFINE zero == 0
  <2>1. zero \in 0 .. n /\ size \in zero .. n /\ PartOf(front, from, zero, size)
    BY <1>2
  <2>2. size - zero = size /\ \A k \in 1 .. size : zero + k = k
    BY <1>1
  <2> HIDE DEF zero
  <2>3. /\ Given(o, front, size - zero)
        /\ \A k \in 1 .. size - zero : front[k] = from[zero + k]
        /\ Apart(o, front, size - zero)
    BY <2>1, Parts
  <2> QED
    BY <2>2, <2>3
<1>4. /\ Given(o, behind, n - size) /\ \A k \in 1 .. n - size : behind[k] = from[size + k]
      /\ Apart(o, behind, n - size)
  BY <1>2, Parts
<1>5. /\ Keeps(o, head) /\ head.finish = o.finish
      /\ ~head.thrown => Over(o, head, o.start, front, size)
  BY <1>1, <1>3, AssignsOver
<1>6. CASE head.thrown
  <2>1. Len(behind) \in Nat
    BY <1>4 DEF Given
  <2>2. r = head
    BY <1>6, <2>1, UninitializedSkips DEF UninitializedCopy, Finish, Then
  <2> QED
    BY <1>5, <1>6, <2>2
<1>7. CASE ~head.thrown
  <2>1. VectorHolds(head) /\ head.start = o.start /\ head.last = o.last
    BY <1>5 DEF Keeps
  <2>2. Over(o, head, o.start, front, size)
    BY <1>5, <1>7
  <2>3. ASSUME NEW k \in 1 .. n - size PROVE head.mem[behind[k]] = o.mem[behind[k]]
    <3>1. behind[k] \in Places /\ (behind[k] < o.start \/ o.last <= behind[k])
      BY <1>4, ApartPlace
    <3>2. behind[k] < o.start \/ o.start + size <= behind[k]
      BY <1>1, <3>1 DEF Places
    <3> QED
      BY <2>2, <3>1, <3>2 DEF Over
  <2>4. Given(head, behind, n - size)
    BY <1>4, <2>3, StillGiven
  <2>5. Lengthened(head, r, behind, n - size)
    <3>1. end = head.finish + (n - size) /\ end <= head.last
      BY <1>1, <1>5, <2>1
    <3>2. r = Finish(UninitializedCopy(head, behind, Span(head.finish, end)), end)
      BY <1>5
    <3> QED
      BY <1>7, <2>1, <2>4, <3>1, <3>2, Appends
  <2>6. Keeps(o, r)
    BY <1>5, <2>5, KeepsOn DEF Lengthened
  <2>7. ASSUME ~r.thrown PROVE Between(o, r, o.start, from, n, o.finish)
    <3>1. Behind(head, r, behind, n - size) /\ r.finish = head.finish + (n - size)
      BY <2>5, <2>7 DEF Lengthened
    <3>2. ASSUME NEW k \in 1 .. n PROVE r.mem[o.start + k - 1] = o.mem[from[k]]
      <4>1. CASE k <= size
        <5>1. k \in 1 .. size /\ o.start + k - 1 \in o.start .. o.finish - 1
          BY <1>1, <4>1
        <5>2. o.start + k - 1 \in Places /\ o.start + k - 1 < head.finish
          <6>1. o.start + k - 1 \in Places
            BY <5>1, ElementsAreObjects
          <6>2. o.start + k - 1 < o.finish
            BY <1>1, <5>1
          <6> QED
            BY <1>5, <6>1, <6>2
        <5>3. r.mem[o.start + k - 1] = head.mem[o.start + k - 1]
          BY <3>1, <5>2 DEF Behind
        <5>4. head.mem[o.start + k - 1] = o.mem[front[k]]
          BY <2>2, <5>1 DEF Over
        <5> QED
          BY <1>3, <5>1, <5>3, <5>4
      <4>2. CASE size < k
        <5> DEFINE j == k - size
        <5>1. j \in 1 .. n - size /\ size + j = k /\ o.finish + j - 1 = o.start + k - 1
          <6> DEFINE b == o.start
                     f == o.finish
          <6>1. b \in Int /\ f = b + size /\ size \in Int /\ n \in Int /\ k \in Int /\ k <= n
            BY <1>1
          <6> HIDE DEF b, f
          <6>2. j \in 1 .. n - size /\ size + j = k /\ f + j - 1 = b + k - 1
            BY <4>2, <6>1
          <6> QED
            BY <6>2 DEF b, f
        <5> HIDE DEF j
        <5>2. r.mem[head.finish + j - 1] = head.mem[behind[j]]
          BY <3>1, <5>1 DEF Behind
        <5>3. r.mem[o.start + k - 1] = head.mem[behind[j]]
          BY <1>5, <5>1, <5>2
        <5>4. behind[j] = from[k]
          BY <1>4, <5>1
        <5>5. head.mem[behind[j]] = o.mem[behind[j]]
          BY <2>3, <5>1
        <5> QED
          BY <5>3, <5>4, <5>5
      <4> QED
        BY <1>1, <4>1, <4>2
    <3>3. r.start = o.start /\ r.finish = o.start + n + (o.finish - o.finish)
      BY <1>1, <1>5, <2>6, <3>1 DEF Keeps
    <3> QED
      BY <1>1, <3>2, <3>3 DEF Between
  <2> QED
    BY <2>6, <2>7
<1> QED
  BY <1>6, <1>7

\* operator= (stl_vector.h:299), from what is not the vector itself: with a new block, over
\* elements that are there already, or over all of them and behind.
THEOREM AssignsBasically ==
    ASSUME Store \in Nat, NEW o, VectorHolds(o), ~o.thrown,
           NEW from, NEW n, Given(o, from, n), Apart(o, from, n), Capacity(o) < n => Room(o, n)
    PROVE  Basic(o, AssignVector(o, from),
                 Span(o.start, o.start) \o from \o Span(o.finish, o.finish))
<1> DEFINE r == AssignVector(o, from)
           size == Size(o)
           end == o.start + n
           over == CopyObjects(o, from, Span(o.start, end))
           head == CopyObjects(o, SubSeq(from, 1, size), Span(o.start, o.finish))
<1>1. /\ o.start \in Int /\ o.finish \in Int /\ o.last \in Int /\ n \in Nat
      /\ o.start <= o.start /\ o.start <= o.finish /\ o.finish <= o.finish
      /\ o.start \in Nat /\ o.finish \in Nat /\ o.last \in Nat /\ o.finish <= o.last
      /\ size = o.finish - o.start /\ size \in Nat
      /\ Capacity(o) = o.last - o.start /\ Capacity(o) \in Nat /\ size <= Capacity(o)
  <2>1. n \in Nat
    BY DEF Given
  <2> QED
    BY <2>1, PointersTyped DEF Size, Capacity
<1>2. Len(from) = n
  BY DEF Given
<1>3. ASSUME Keeps(o, r), ~r.thrown => Between(o, r, o.start, from, n, o.finish)
      PROVE  Basic(o, r, Span(o.start, o.start) \o from \o Span(o.finish, o.finish))
  <2> HIDE DEF r
  <2>1. ASSUME ~r.thrown
        PROVE  Elements(r) = ValuesAt(o, Span(o.start, o.start) \o from
                                         \o Span(o.finish, o.finish))
    <3>1. Between(o, r, o.start, from, n, o.finish)
      BY <1>3, <2>1
    <3> QED
      BY <1>1, <3>1, ElementsAre
  <2> QED
    BY <1>3, <2>1 DEF Basic, Keeps
<1>4. CASE Capacity(o) < n
  <2>1. r = Grown(o, n, o.start, from, o.finish)
    BY <1>1, <1>2, <1>4 DEF AssignVector
  <2>2. (o.start - o.start) + n + (o.finish - o.finish) <= n /\ n \in Nat \ {0}
    BY <1>1, <1>4
  <2>3. (o.start - o.start) + Len(from) + (o.finish - o.finish) <= n /\ Sources(o, from)
    BY <1>2, <2>2 DEF Given
  <2>4. Room(o, n)
    BY <1>4
  <2>5. Strong(o, Grown(o, n, o.start, from, o.finish),
               Span(o.start, o.start) \o from \o Span(o.finish, o.finish))
    BY <1>1, <2>2, <2>3, <2>4, GrowsStrongly
  <2> QED
    BY <2>1, <2>5 DEF Strong
<1>5. CASE ~(Capacity(o) < n) /\ n <= size
  <2>1. r = Then(over, Finish(Destroy(over, end .. o.finish - 1), end))
    <3>1. ~(Len(from) > Capacity(o)) /\ Len(from) <= Capacity(o) /\ Size(o) >= Len(from)
      BY <1>1, <1>2, <1>5
    <3> QED
      BY <1>2, <3>1 DEF AssignVector
  <2> HIDE DEF r, over, end
  <2>2. /\ Keeps(o, r)
        /\ ~r.thrown => Between(o, r, o.start, from, n, o.finish)
    BY <1>5, <2>1, AssignsFewer DEF over, end
  <2> QED
    BY <1>3, <2>2 DEF r
<1>6. CASE ~(Capacity(o) < n) /\ ~(n <= size)
  <2> DEFINE front == SubSeq(from, 1, size)
             behind == SubSeq(from, size + 1, n)
  <2>1. r = Finish(UninitializedCopy(head, behind, Span(o.finish, end)), end)
    <3>1. ~(Len(from) > Capacity(o)) /\ ~(Size(o) >= Len(from))
      BY <1>1, <1>2, <1>6
    <3> QED
      BY <1>2, <3>1 DEF AssignVector
  <2>2. PartOf(front, from, 0, size) /\ PartOf(behind, from, size, n)
    BY DEF PartOf
  <2>3. head = CopyObjects(o, front, Span(o.start, o.finish)) /\ size < n /\ n <= Capacity(o)
    BY <1>1, <1>6
  <2> HIDE DEF r, head, front, behind, size, end
  <2>4. size = Size(o) /\ end = o.start + n
    BY DEF size, end
  <2>5. /\ Keeps(o, r)
        /\ ~r.thrown => Between(o, r, o.start, from, n, o.finish)
    BY <2>1, <2>2, <2>3, <2>4, AssignsMore
  <2> QED
    BY <1>3, <2>5 DEF r
<1> QED
  BY <1>4, <1>5, <1>6

\* resize() (stl_vector.h:203): the first n elements, or all of them and copies of x.
THEOREM ResizesBasically ==
    ASSUME Store \in Nat, NEW o, VectorHolds(o), ~o.thrown,
           NEW n \in Nat, NEW x \in Int, x \in Places, o.mem[x] # Raw,
           NEW more, more = (IF n < Size(o) THEN 0 ELSE n - Size(o)),
           ~(more <= Spare(o)) => Room(o, GrownLength(o, more)),
           NEW kept, kept = (IF n < Size(o) THEN o.start + n ELSE o.finish)
    PROVE  Basic(o, Resize(o, n, x),
                 Span(o.start, kept) \o Repeated(more, x) \o Span(o.finish, o.finish))
<1>1. /\ o.start \in Int /\ o.finish \in Int /\ o.start <= o.finish /\ o.finish <= o.finish
      /\ Size(o) = o.finish - o.start /\ Size(o) \in Nat
  BY PointersTyped DEF Size
<1>2. CASE n < Size(o)
  <2>1. kept \in Int /\ o.start <= kept /\ kept <= o.finish /\ kept = o.start + n /\ more = 0
    BY <1>1, <1>2
  <2>2. Resize(o, n, x) = Erase(o, kept, o.finish)
    BY <1>2, <2>1 DEF Resize
  <2>3. Basic(o, Erase(o, kept, o.finish),
              Span(o.start, kept) \o << >> \o Span(o.finish, o.finish))
    BY <1>1, <2>1, ErasesBasically
  <2>4. Repeated(more, x) = << >>
    BY <2>1 DEF Repeated
  <2> QED
    BY <2>2, <2>3, <2>4
<1>3. CASE ~(n < Size(o))
  <2>1. kept = o.finish /\ more \in Nat /\ more = n - Size(o)
    BY <1>1, <1>3
  <2>2. Resize(o, n, x) = InsertN(o, o.finish, more, x)
    BY <1>3, <2>1 DEF Resize
  <2>3. Basic(o, InsertN(o, o.finish, more, x),
              Span(o.start, o.finish) \o Repeated(more, x) \o Span(o.finish, o.finish))
    BY <1>1, <2>1, InsertsCopiesBasically
  <2> QED
    BY <2>1, <2>2, <2>3
<1> QED
  BY <1>2, <1>3

\* ~vector() (stl_vector.h:124): every element is destroyed and the block freed, once;
\* with the theorems above, also after a call that threw.
THEOREM DestroysAll ==
    ASSUME Store \in Nat, NEW o, VectorHolds(o), NEW r, r = DestroyVector(o)
    PROVE  /\ VectorHolds(r) /\ Held(r) = {} /\ r.blocks = o.blocks \ Own(o)
           /\ \A a \in Places : r.mem[a] = IF a \in Held(o) THEN Raw ELSE o.mem[a]
<1> DEFINE P == o.start .. o.finish - 1
           m == Destroy(o, P)
           freed == Deallocate(m, o.start, o.last - o.start)
<1>1. /\ o \in Heaps /\ o.start \in Nat /\ o.finish \in Nat /\ o.last \in Nat
      /\ o.start <= o.finish /\ o.finish <= o.last
  BY PointersTyped
<1>2. \A a \in P : a \in Places /\ o.mem[a] # Raw
  BY ElementsAreObjects
<1>3. /\ m \in Heaps /\ SameShape(o, m)
      /\ m.mem = [a \in Places |-> IF a \in P THEN Raw ELSE o.mem[a]]
  <2>1. P \in SUBSET Places
    BY <1>2
  <2> HIDE DEF P
  <2> QED
    BY <1>1, <1>2, <2>1, Destroying
<1> HIDE DEF m
<1>4. ASSUME NEW a \in Places PROVE m.mem[a] = IF a \in Held(o) THEN Raw ELSE o.mem[a]
  <2>1. m.mem[a] = IF a \in P THEN Raw ELSE o.mem[a]
    BY <1>3
  <2>2. CASE a \in P
    BY <1>1, <2>1, <2>2 DEF Held
  <2>3. CASE a \notin P /\ a \in Held(o)
    <3>1. o.mem[a] = Raw
      BY <1>1, <2>3 DEF VectorHolds, Held
    <3> QED
      BY <2>1, <2>3, <3>1
  <2>4. CASE a \notin P /\ a \notin Held(o)
    BY <2>1, <2>4
  <2> QED
    BY <2>2, <2>3, <2>4
<1>5. Own(o) \subseteq m.blocks
  BY <1>3 DEF SameShape, Own, VectorHolds, PointersHold
<1>6. \A a \in Held(o) : m.mem[a] = Raw
  <2>1. Held(o) \subseteq Places
    BY <1>1 DEF Held, Places, Saved, VectorHolds, BlocksHold, PointersHold, Null, Cells
  <2> QED
    BY <1>4, <2>1
<1>7. /\ freed \in Heaps /\ freed.mem = m.mem /\ freed.blocks = o.blocks \ Own(o) /\ ~freed.bad
  <2>1. /\ freed \in Heaps /\ freed.mem = m.mem /\ freed.blocks = m.blocks \ Own(o)
        /\ freed.bad = m.bad
    BY <1>3, <1>5, <1>6, FreesBlock
  <2> QED
    BY <1>3, <2>1 DEF SameShape, VectorHolds
<1>8. r = [freed EXCEPT !.start = Null, !.finish = Null, !.last = Null]
  BY DEF DestroyVector, All, Capacity, m
<1> HIDE DEF freed
<1>9. /\ r \in Heaps /\ r.mem = m.mem /\ r.blocks = o.blocks \ Own(o) /\ ~r.bad
      /\ r.start = Null /\ r.finish = Null /\ r.last = Null
  <2>1. /\ r \in Heaps /\ r.mem = freed.mem /\ r.blocks = freed.blocks /\ r.bad = freed.bad
        /\ r.start = Null /\ r.finish = Null /\ r.last = Null
    <3>1. freed \in Heaps /\ Null \in Nat
      BY <1>7 DEF Null
    <3> QED
      BY <1>8, <3>1 DEF Heaps
  <2> QED
    BY <1>7, <2>1
<1>10. Held(r) = {}
  BY <1>9 DEF Held, Null
<1>11. BlocksHold(r)
  <2>1. ASSUME NEW a \in 1 .. Store, r.mem[a] # Raw
        PROVE  \E b \in r.blocks : a \in Cells(b)
    <3>1. a \in Places /\ a \notin Held(o) /\ o.mem[a] # Raw
      BY <1>4, <1>9, <2>1 DEF Places, Saved
    <3>2. PICK b \in o.blocks : a \in Cells(b)
      BY <3>1 DEF VectorHolds, BlocksHold
    <3>3. b \notin Own(o)
      BY <1>1, <3>1, <3>2 DEF Own, Cells, Held
    <3> QED
      BY <1>9, <3>2, <3>3
  <2> QED
    BY <1>9, <2>1 DEF VectorHolds, BlocksHold
<1> QED
  BY <1>4, <1>9, <1>10, <1>11 DEF VectorHolds, PointersHold

\* What the theorems ask of the vector they are called on, a new one in a new memory has.
LEMMA StartsWell ==
    ASSUME Store \in Nat, NEW o \in Heaps, o.mem = FreshMemory.mem, o.blocks = {}, ~o.bad,
           o.start = Null, o.finish = Null, o.last = Null
    PROVE  VectorHolds(o)
<1>1. \A a \in 1 .. Store : o.mem[a] = Raw
  BY DEF FreshMemory, Saved
<1>2. Held(o) = {}
  BY DEF Held, Null
<1> QED
  BY <1>1, <1>2 DEF VectorHolds, BlocksHold, PointersHold

=============================================================================
