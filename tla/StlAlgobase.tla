----------------------------- MODULE StlAlgobase -----------------------------
(***************************************************************************)
(* stl_algobase.h, stl_numeric.h and the sequence searches of stl_algo.h   *)
(* in the annotated SGI STL 2.91.57.                                       *)
(*                                                                         *)
(* A memory m is a sequence of values, an iterator one of its positions, a *)
(* range [first, last) the positions first .. last - 1.  Every overload    *)
(* comes twice in the source, with operators and with a function object:   *)
(* Less stands for operator< or comp, Equal for operator== or binary_pred, *)
(* Plus, Minus and Times for the operations of the numeric algorithms, a   *)
(* set of values for a predicate.  An algorithm that writes returns the    *)
(* new memory; one that also returns an iterator, a record of both.        *)
(***************************************************************************)
EXTENDS Integers, Sequences, FiniteSets, FiniteSetsExt, SequencesExt

CONSTANTS Less(_, _), Equal(_, _), Plus(_, _), Minus(_, _), Times(_, _)

Wrote(m, i) == [mem |-> m, at |-> i]

\* The positions of a range in the order a loop visits them.
Positions(first, last) ==
    IF first >= last THEN << >> ELSE [k \in 1 .. last - first |-> first + k - 1]

\* while (first != last && !(first in places)) ++first
FirstOf(first, last, places) ==
    LET hits == places \cap (first .. last - 1)
    IN  IF hits = {} THEN last ELSE Min(hits)

-----------------------------------------------------------------------------
(* stl_algobase.h                                                          *)

Put(m, i, v) == [m EXCEPT ![i] = v]

IterSwap(m, a, b) == [m EXCEPT ![a] = m[b], ![b] = m[a]]

MinOf(a, b) == IF Less(b, a) THEN b ELSE a

MaxOf(a, b) == IF Less(a, b) THEN b ELSE a

\* The loop for iterators and for values that are not plain data: an
\* assignment at a time, so that an overlap is seen.
Copy(m, first, last, result) ==
    FoldLeft(LAMBDA mem, i : Put(mem, result + i - first, mem[i]),
             m, Positions(first, last))

\* memmove() for pointers to plain data.
Moved(m, first, last, result) ==
    [i \in DOMAIN m |-> IF i \in result .. result + last - first - 1
                        THEN m[i - result + first] ELSE m[i]]

\* result is the end of the range written.
CopyBackward(m, first, last, result) ==
    FoldLeft(LAMBDA mem, i : Put(mem, result - last + i, mem[i]),
             m, Reverse(Positions(first, last)))

MovedBackward(m, first, last, result) ==
    Moved(m, first, last, result - (last - first))

CopyN(m, first, count, result) == Copy(m, first, first + count, result)

Fill(m, first, last, v) ==
    [i \in DOMAIN m |-> IF i \in first .. last - 1 THEN v ELSE m[i]]

FillN(m, first, n, v) == Fill(m, first, first + n, v)

\* The first pair of positions that differ, as their distance from the starts.
Mismatch(m, first1, last1, first2) ==
    FirstOf(first1, last1, {i \in first1 .. last1 - 1 :
                               ~Equal(m[i], m[first2 + i - first1])}) - first1

EqualRanges(m, first1, last1, first2) ==
    \A i \in first1 .. last1 - 1 : Equal(m[i], m[first2 + i - first1])

\* The number of steps before the values differ or a range ends.
Common(m, first1, last1, first2, last2) ==
    LET len == Min({last1 - first1, last2 - first2})
    IN  FirstOf(0, len, {i \in 0 .. len - 1 : \/ Less(m[first1 + i], m[first2 + i])
                                               \/ Less(m[first2 + i], m[first1 + i])})

LexicographicalCompare(m, first1, last1, first2, last2) ==
    LET k == Common(m, first1, last1, first2, last2)
    IN  IF first1 + k # last1 /\ first2 + k # last2
        THEN Less(m[first1 + k], m[first2 + k])
        ELSE first1 + k = last1 /\ first2 + k # last2

\* lexicographical_compare_3way: -1, 0 or 1.
LexicographicalCompare3(m, first1, last1, first2, last2) ==
    LET k == Common(m, first1, last1, first2, last2)
    IN  CASE first1 + k # last1 /\ first2 + k # last2 ->
                IF Less(m[first1 + k], m[first2 + k]) THEN -1 ELSE 1
          [] first2 + k = last2 -> IF first1 + k = last1 THEN 0 ELSE 1
          [] OTHER -> -1

-----------------------------------------------------------------------------
(* stl_numeric.h                                                           *)

Accumulate(m, first, last, init) ==
    FoldLeft(LAMBDA acc, i : Plus(acc, m[i]), init, Positions(first, last))

InnerProduct(m, first1, last1, first2, init) ==
    FoldLeft(LAMBDA acc, i : Plus(acc, Times(m[i], m[first2 + i - first1])),
             init, Positions(first1, last1))

\* value is kept in a variable of its own, so result may be first.
PartialSum(m, first, last, result) ==
    IF first = last THEN m
    ELSE FoldLeft(LAMBDA acc, i : LET v == Plus(acc.value, acc.mem[i]) IN
                      [mem |-> Put(acc.mem, result + i - first, v), value |-> v],
                  [mem |-> Put(m, result, m[first]), value |-> m[first]],
                  Positions(first + 1, last)).mem

AdjacentDifference(m, first, last, result) ==
    IF first = last THEN m
    ELSE FoldLeft(LAMBDA acc, i : LET tmp == acc.mem[i] IN
                      [mem |-> Put(acc.mem, result + i - first, Minus(tmp, acc.value)),
                       value |-> tmp],
                  [mem |-> Put(m, result, m[first]), value |-> m[first]],
                  Positions(first + 1, last)).mem

\* power(x, n, op) for op(x, y) = x \o y, which has the laws of every monoid
\* and no others.  n is halved; what its odd bits stand for goes to result.
RECURSIVE PowerLoop(_, _, _)
PowerLoop(x, n, result) ==
    IF n = 0 THEN result
    ELSE PowerLoop(x \o x, n \div 2,
                   IF n % 2 = 1 THEN result \o x \o x ELSE result)

RECURSIVE Power(_, _)
Power(x, n) ==
    CASE n = 0     -> << >>
      [] n % 2 = 1 -> PowerLoop(x, n \div 2, x)
      [] OTHER     -> Power(x \o x, n \div 2)

Iota(m, first, last, v) ==
    [i \in DOMAIN m |-> IF i \in first .. last - 1 THEN v + i - first ELSE m[i]]

-----------------------------------------------------------------------------
(* stl_algo.h: what only reads.                                            *)

FindIf(m, first, last, good) ==
    FirstOf(first, last, {i \in first .. last - 1 : m[i] \in good})

FindValue(m, first, last, v) ==
    FirstOf(first, last, {i \in first .. last - 1 : Equal(m[i], v)})

AdjacentFind(m, first, last) ==
    IF first = last THEN last
    ELSE LET i == FirstOf(first, last - 1,
                          {j \in first .. last - 2 : Equal(m[j], m[j + 1])})
         IN  IF i = last - 1 THEN last ELSE i

CountIf(m, first, last, good) ==
    Cardinality({i \in first .. last - 1 : m[i] \in good})

FindFirstOf(m, first1, last1, first2, last2) ==
    FirstOf(first1, last1, {i \in first1 .. last1 - 1 :
                               \E j \in first2 .. last2 - 1 : Equal(m[i], m[j])})

\* d1 is what is left of the first range, less what was tried.
RECURSIVE SearchLoop(_, _, _, _, _, _, _, _)
SearchLoop(m, first1, last1, first2, last2, current1, current2, d1) ==
    CASE current2 = last2 -> first1
      [] current2 # last2 /\ Equal(m[current1], m[current2]) ->
            SearchLoop(m, first1, last1, first2, last2,
                       current1 + 1, current2 + 1, d1)
      [] OTHER ->
            IF d1 = last2 - first2 THEN last1
            ELSE SearchLoop(m, first1 + 1, last1, first2, last2,
                            first1 + 1, first2, d1 - 1)

Search(m, first1, last1, first2, last2) ==
    IF last1 - first1 < last2 - first2 THEN last1
    ELSE SearchLoop(m, first1, last1, first2, last2, first1, first2,
                    last1 - first1)

\* i is where a run of v that starts at found stops, at most count long.
RECURSIVE SearchN(_, _, _, _, _)
SearchN(m, first, last, count, v) ==
    LET found == FindValue(m, first, last, v)
        end == Min({last, found + count})
        i == FirstOf(found + 1, end, {j \in found + 1 .. end - 1 : ~Equal(m[j], v)})
    IN  CASE count <= 0 -> first
          [] count > 0 /\ found = last -> last
          [] OTHER -> IF i = found + count THEN found
                      ELSE SearchN(m, i, last, count, v)

\* __find_end for forward iterators: search until there is no more.
RECURSIVE FindEndLoop(_, _, _, _, _, _)
FindEndLoop(m, first1, last1, first2, last2, result) ==
    LET found == Search(m, first1, last1, first2, last2)
    IN  IF found = last1 THEN result
        ELSE FindEndLoop(m, found + 1, last1, first2, last2, found)

FindEndForward(m, first1, last1, first2, last2) ==
    IF first2 = last2 THEN last1
    ELSE FindEndLoop(m, first1, last1, first2, last2, last1)

\* reverse_iterator(i) reads position i - 1 and moves down: in the mirrored
\* memory it is position Len(m) + 2 - i and moves up.
Mirrored(m, i) == Len(m) + 2 - i

\* __find_end for bidirectional iterators: search backwards.
FindEndBackwardAt(m, first1, last1, first2, last2) ==
    LET rresult == Search(Reverse(m), Mirrored(m, last1), Mirrored(m, first1),
                          Mirrored(m, last2), Mirrored(m, first2))
    IN  IF rresult = Mirrored(m, first1) THEN last1
        ELSE Mirrored(m, rresult)
FindEndBackward(m, first1, last1, first2, last2) ==
    LET rresult == Search(Reverse(m), Mirrored(m, last1), Mirrored(m, first1),
                          Mirrored(m, last2), Mirrored(m, first2))
    IN  IF rresult = Mirrored(m, first1) THEN last1
        ELSE Mirrored(m, rresult) - (last2 - first2)

MaxElement(m, first, last) ==
    FoldLeft(LAMBDA r, i : IF Less(m[r], m[i]) THEN i ELSE r, first,
             Positions(first + 1, last))

MinElement(m, first, last) ==
    FoldLeft(LAMBDA r, i : IF Less(m[i], m[r]) THEN i ELSE r, first,
             Positions(first + 1, last))

IsSortedRange(m, first, last) ==
    \A i \in first .. last - 2 : ~Less(m[i + 1], m[i])

-----------------------------------------------------------------------------
(* Binary searches in a sorted range of len positions.                     *)

RECURSIVE LowerBoundLen(_, _, _, _)
LowerBoundLen(m, first, len, v) ==
    LET half == len \div 2 IN
    CASE len = 0 -> first
      [] len > 0 /\ Less(m[first + half], v) ->
            LowerBoundLen(m, first + half + 1, len - half - 1, v)
      [] OTHER -> LowerBoundLen(m, first, half, v)

LowerBound(m, first, last, v) == LowerBoundLen(m, first, last - first, v)

RECURSIVE UpperBoundLen(_, _, _, _)
UpperBoundLen(m, first, len, v) ==
    LET half == len \div 2 IN
    CASE len = 0 -> first
      [] len > 0 /\ Less(v, m[first + half]) -> UpperBoundLen(m, first, half, v)
      [] OTHER -> UpperBoundLen(m, first + half + 1, len - half - 1, v)

UpperBound(m, first, last, v) == UpperBoundLen(m, first, last - first, v)

\* Stops at the first value that is equivalent and looks on both its sides.
RECURSIVE EqualRangeLen(_, _, _, _)
EqualRangeLen(m, first, len, v) ==
    LET half == len \div 2
        middle == first + half
    IN  CASE len = 0 -> <<first, first>>
          [] len > 0 /\ Less(m[middle], v) ->
                EqualRangeLen(m, middle + 1, len - half - 1, v)
          [] len > 0 /\ Less(v, m[middle]) -> EqualRangeLen(m, first, half, v)
          [] OTHER -> <<LowerBound(m, first, middle, v),
                        UpperBound(m, middle + 1, first + len, v)>>

EqualRange(m, first, last, v) == EqualRangeLen(m, first, last - first, v)

BinarySearch(m, first, last, v) ==
    LET i == LowerBound(m, first, last, v) IN i # last /\ ~Less(v, m[i])

=============================================================================
