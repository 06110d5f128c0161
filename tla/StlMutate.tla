------------------------------ MODULE StlMutate ------------------------------
(***************************************************************************)
(* The algorithms of stl_algo.h that rearrange or filter a range, permute  *)
(* it, or combine two sorted ones.                                         *)
(***************************************************************************)
EXTENDS StlAlgobase

-----------------------------------------------------------------------------
(* Element by element.                                                     *)

SwapRanges(m, first1, last1, first2) ==
    FoldLeft(LAMBDA mem, i : IterSwap(mem, i, first2 + i - first1),
             m, Positions(first1, last1))

\* transform with a unary operation, given as a function; for_each and generate visit in the same
\* order.  result may be first.
Transform(m, first, last, result, op) ==
    FoldLeft(LAMBDA mem, i : Put(mem, result + i - first, op[mem[i]]),
             m, Positions(first, last))

Transform2(m, first1, last1, first2, result) ==
    FoldLeft(LAMBDA mem, i : Put(mem, result + i - first1,
                                 Plus(mem[i], mem[first2 + i - first1])),
             m, Positions(first1, last1))

ReplaceCopyIf(m, first, last, result, bad, new) ==
    Transform(m, first, last, result,
              [x \in ToSet(m) |-> IF x \in bad THEN new ELSE x])

RemoveCopyIf(m, first, last, result, bad) ==
    FoldLeft(LAMBDA acc, i : IF acc.mem[i] \in bad THEN acc
                             ELSE Wrote(Put(acc.mem, acc.at, acc.mem[i]), acc.at + 1),
             Wrote(m, result), Positions(first, last))

RemoveIf(m, first, last, bad) ==
    LET found == FindIf(m, first, last, bad)
    IN  IF found = last THEN Wrote(m, last)
        ELSE RemoveCopyIf(m, found + 1, last, found, bad)

\* __unique_copy compares with what it wrote last, which the overload for
\* output iterators keeps in a variable.
UniqueCopy(m, first, last, result) ==
    LET copied == FoldLeft(LAMBDA acc, i :
                      IF Equal(acc.mem[acc.at], acc.mem[i]) THEN acc
                      ELSE Wrote(Put(acc.mem, acc.at + 1, acc.mem[i]), acc.at + 1),
                  Wrote(Put(m, result, m[first]), result), Positions(first + 1, last))
    IN  IF first = last THEN Wrote(m, result) ELSE [copied EXCEPT !.at = @ + 1]

UniqueFromFirst(m, first, last) ==
    LET found == AdjacentFind(m, first, last)
    IN  UniqueCopy(m, Min({last, found + 1}), last, found)
Unique(m, first, last) ==
    LET found == AdjacentFind(m, first, last) IN UniqueCopy(m, found, last, found)

-----------------------------------------------------------------------------
(* Reversing and rotating.                                                 *)

\* __reverse for random access iterators stops when they have crossed, the
\* one for bidirectional iterators, which have no <, when they meet.
RECURSIVE ReverseRandom(_, _, _)
ReverseRandom(m, first, last) ==
    IF first >= last THEN m
    ELSE ReverseRandom(IterSwap(m, first, last - 1), first + 1, last - 1)

RECURSIVE ReverseRange(_, _, _)
ReverseRange(m, first, last) ==
    IF first = last \/ first = last - 1 THEN m
    ELSE ReverseRange(IterSwap(m, first, last - 1), first + 1, last - 1)

ReverseCopy(m, first, last, result) ==
    FoldLeft(LAMBDA mem, i : Put(mem, result + last - 1 - i, mem[i]),
             m, Reverse(Positions(first, last)))

\* __rotate for forward iterators exchanges the front with what follows; i is
\* the place in the rear part, middle its start.
RECURSIVE RotateForward(_, _, _, _, _)
RotateForward(m, first, middle, last, i) ==
    LET swapped == IterSwap(m, first, i)
        meets == first + 1 = middle
    IN  CASE meets /\ i + 1 = last -> swapped
          [] meets /\ i + 1 # last ->
                RotateForward(swapped, first + 1, i + 1, last, i + 1)
          [] ~meets /\ i + 1 = last ->
                RotateForward(swapped, first + 1, middle, last, middle)
          [] OTHER -> RotateForward(swapped, first + 1, middle, last, i + 1)

\* __rotate for bidirectional iterators.
RotateBidirectional(m, first, middle, last) ==
    ReverseRange(ReverseRange(ReverseRange(m, first, middle), middle, last), first, last)

RECURSIVE Gcd(_, _)
Gcd(a, b) == IF b = 0 THEN a ELSE Gcd(b, a % b)

\* __rotate_cycle: the values shift places apart, from initial round to it.
RECURSIVE RotateCycle(_, _, _, _, _, _, _)
RotateCycle(m, first, last, initial, shift, ptr1, value) ==
    LET ptr2 == IF last - ptr1 > shift THEN ptr1 + shift
                ELSE first + (shift - (last - ptr1))
    IN  IF ptr2 = initial THEN Put(m, ptr1, value)
        ELSE RotateCycle(Put(m, ptr1, m[ptr2]), first, last, initial, shift,
                         ptr2, value)

\* __rotate for random access iterators: a cycle for each of the first gcd.
RotateRandom(m, first, middle, last) ==
    FoldLeft(LAMBDA mem, i : RotateCycle(mem, first, last, i, middle - first, i, mem[i]),
             m, Reverse(Positions(first, first + Gcd(last - first, middle - first))))

Rotate(m, first, middle, last) ==
    IF first = middle \/ middle = last THEN m
    ELSE RotateBidirectional(m, first, middle, last)

RotateCopy(m, first, middle, last, result) ==
    Copy(Copy(m, middle, last, result), first, middle, result + last - middle)

-----------------------------------------------------------------------------
(* Chance: draw[n] is what rand() returned, reduced to 0 .. n - 1.         *)

RandomShuffle(m, first, last, draw) ==
    FoldLeft(LAMBDA mem, i : IterSwap(mem, i, first + draw[i - first + 1]),
             m, Positions(first + 1, last))

\* random_sample_n keeps the order: each value is taken with the chance wanted
\* in remaining.
RandomSampleN(m, first, last, out, n, draw) ==
    LET wanted == Min({n, last - first}) IN
    FoldLeft(LAMBDA acc, i :
                IF draw[last - i] < wanted - (acc.at - out)
                THEN Wrote(Put(acc.mem, acc.at, acc.mem[i]), acc.at + 1) ELSE acc,
             Wrote(m, out), Positions(first, last))

\* random_sample: the first n values, replaced at random by later ones.
RandomSample(m, first, last, out, n, draw) ==
    LET filled == Min({last, first + n}) IN
    Wrote(FoldLeft(LAMBDA mem, i :
                      LET drawn == draw[i - first + 1] IN
                      IF drawn < n THEN Put(mem, out + drawn, mem[i]) ELSE mem,
                   Copy(m, first, filled, out), Positions(filled, last)),
          out + filled - first)

-----------------------------------------------------------------------------
(* Partitioning.                                                           *)

\* The two iterators close in on each other: j is the last value from the end
\* that belongs in front.
RECURSIVE Partition(_, _, _, _)
Partition(m, first, last, good) ==
    LET i == FindIf(m, first, last, ToSet(m) \ good)
        belongs == {k \in i .. last - 1 : k # i /\ m[k] \in good}
        j == Max(belongs)
    IN  IF i = last \/ belongs = {} THEN Wrote(m, i)
        ELSE Partition(IterSwap(m, i, j), i + 1, j, good)

\* Each half first, then the bad ones of the first change places with the good
\* ones of the second.
RECURSIVE InplaceStablePartition(_, _, _, _)
InplaceStablePartition(m, first, last, good) ==
    LET middle == first + (last - first) \div 2
        left == InplaceStablePartition(m, first, middle, good)
        right == InplaceStablePartition(left.mem, middle, last, good)
    IN  IF last - first = 1
        THEN Wrote(m, IF m[first] \in good THEN last ELSE first)
        ELSE Wrote(Rotate(right.mem, left.at, middle, right.at),
                   left.at + right.at - middle)

\* The bad ones wait in the buffer, which starts at position buffer.
WithBuffer(m, first, last, good, buffer) ==
    LET kept == RemoveCopyIf(m, first, last, first, ToSet(m) \ good)
        bad == RemoveCopyIf(m, first, last, buffer, good)
        both == SubSeq(kept.mem, 1, buffer - 1) \o SubSeq(bad.mem, buffer, Len(m))
    IN  Wrote(Copy(both, buffer, bad.at, kept.at), kept.at)

RECURSIVE StablePartitionAdaptive(_, _, _, _, _, _)
StablePartitionAdaptive(m, first, last, good, buffer, size) ==
    LET middle == first + (last - first) \div 2
        left == StablePartitionAdaptive(m, first, middle, good, buffer, size)
        right == StablePartitionAdaptive(left.mem, middle, last, good, buffer, size)
    IN  IF last - first <= size THEN WithBuffer(m, first, last, good, buffer)
        ELSE Wrote(Rotate(right.mem, left.at, middle, right.at),
                   left.at + right.at - middle)

\* size is what the temporary buffer got, which may be less than the range.
StablePartition(m, first, last, good, buffer, size) ==
    CASE first = last -> Wrote(m, first)
      [] first # last /\ size > 0 ->
            StablePartitionAdaptive(m, first, last, good, buffer, size)
      [] OTHER -> InplaceStablePartition(m, first, last, good)

-----------------------------------------------------------------------------
(* Permutations: i is the last position whose value goes up at the next    *)
(* one, or down for prev_permutation; those behind it go the other way.    *)

Rises(a, b, up) == IF up THEN Less(a, b) ELSE Less(b, a)

Permuted(m, first, last, up) ==
    LET rises == {k \in first .. last - 2 : Rises(m[k], m[k + 1], up)}
        i == Max(rises)
        j == Max({k \in i + 1 .. last - 1 : Rises(m[i], m[k], up)})
    IN  IF rises = {} THEN [mem |-> ReverseRange(m, first, last), more |-> FALSE]
        ELSE [mem |-> ReverseRange(IterSwap(m, i, j), i + 1, last), more |-> TRUE]

NextPermutation(m, first, last) == Permuted(m, first, last, TRUE)

PrevPermutation(m, first, last) == Permuted(m, first, last, FALSE)

-----------------------------------------------------------------------------
(* Two sorted ranges.  Each algorithm is one walk over both: what becomes  *)
(* of a value that is less than the other range's, and of equivalent ones. *)

RECURSIVE Includes(_, _, _, _, _)
Includes(m, first1, last1, first2, last2) ==
    CASE first1 = last1 \/ first2 = last2 -> first2 = last2
      [] first1 # last1 /\ first2 # last2 /\ Less(m[first2], m[first1]) -> FALSE
      [] OTHER -> Includes(m, first1 + 1, last1,
                           IF Less(m[first1], m[first2]) THEN first2 ELSE first2 + 1,
                           last2)

\* keep1 and keep2: values of one range only are written; keepBoth: one of two
\* equivalent values is.
RECURSIVE SetWalk(_, _, _, _, _, _, _, _, _)
SetWalk(m, first1, last1, first2, last2, result, keep1, keep2, keepBoth) ==
    LET ended == first1 = last1 \/ first2 = last2
        less1 == Less(m[first1], m[first2])
        less2 == Less(m[first2], m[first1])
        Write(kept, i) == IF kept THEN Put(m, result, m[i]) ELSE m
        Next(kept) == IF kept THEN result + 1 ELSE result
    IN  CASE ended ->
                LET rest1 == IF keep1 THEN Copy(m, first1, last1, result) ELSE m
                    end1 == IF keep1 THEN result + last1 - first1 ELSE result
                IN  IF keep2
                    THEN Wrote(Copy(rest1, first2, last2, end1), end1 + last2 - first2)
                    ELSE Wrote(rest1, end1)
          [] ~ended /\ less1 ->
                SetWalk(Write(keep1, first1), first1 + 1, last1, first2, last2,
                        Next(keep1), keep1, keep2, keepBoth)
          [] ~ended /\ ~less1 /\ less2 ->
                SetWalk(Write(keep2, first2), first1, last1, first2 + 1, last2,
                        Next(keep2), keep1, keep2, keepBoth)
          [] OTHER ->
                SetWalk(Write(keepBoth, first1), first1 + 1, last1, first2 + 1, last2,
                        Next(keepBoth), keep1, keep2, keepBoth)

SetUnion(m, first1, last1, first2, last2, result) ==
    SetWalk(m, first1, last1, first2, last2, result, TRUE, TRUE, TRUE)

SetIntersection(m, first1, last1, first2, last2, result) ==
    SetWalk(m, first1, last1, first2, last2, result, FALSE, FALSE, TRUE)

SetDifferenceOfSets(m, first1, last1, first2, last2, result) ==
    RemoveCopyIf(m, first1, last1, result,
                 {x \in ToSet(m) : BinarySearch(m, first2, last2, x)})
SetDifference(m, first1, last1, first2, last2, result) ==
    SetWalk(m, first1, last1, first2, last2, result, TRUE, FALSE, FALSE)

SetSymmetricDifference(m, first1, last1, first2, last2, result) ==
    SetWalk(m, first1, last1, first2, last2, result, TRUE, TRUE, FALSE)

=============================================================================
