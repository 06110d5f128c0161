------------------------------ MODULE MCStlAlgo ------------------------------
(***************************************************************************)
(* The algorithms of stl_algobase.h, stl_numeric.h, stl_heap.h and         *)
(* stl_algo.h on every small input.  A behaviour writes an input, a value  *)
(* at a time, and every property is about what the algorithms make of it.  *)
(* Values are pairs of a key, by which they are compared, and a tag, which *)
(* tells equivalent values apart.                                          *)
(***************************************************************************)
EXTENDS StlSort

CONSTANTS Keys,      \* the values' keys, natural numbers
          MaxFirst,  \* bound: length of the first range
          MaxSecond  \* bound: length of the second

VARIABLES xs, ys     \* the keys of the two ranges

Init == xs = << >> /\ ys = << >>

AppendFirst == \E k \in Keys : /\ Len(xs) < MaxFirst /\ ys = << >>
                               /\ xs' = Append(xs, k) /\ UNCHANGED ys

AppendSecond == \E k \in Keys : /\ Len(ys) < MaxSecond
                                /\ ys' = Append(ys, k) /\ UNCHANGED xs

Next == AppendFirst \/ AppendSecond

Spec == Init /\ [][Next]_<<xs, ys>>

-----------------------------------------------------------------------------
\* (\o << >> has TLC write the function out, which SubSeq relies on.)
Tagged(keys, tag) == [i \in DOMAIN keys |-> <<keys[i], tag + i>>] \o << >>
Blank(n) == [i \in 1 .. n |-> <<0, 0>>]

First  == Tagged(xs, 0)
Second == Tagged(ys, 100)
n == Len(xs)
k == Len(ys)
Alone == ys = << >>

\* The two ranges and room for a result.
Both == First \o Second \o Blank(n + k)
f2 == n + 1
out == n + k + 1

\* The values of m from first on, up to last.
Part(m, first, last) == SubSeq(m, first, last - 1)

Permutes(s, t) == /\ Len(s) = Len(t) /\ ToSet(s) = ToSet(t)

Ordered(s) == \A i \in 1 .. Len(s) - 1 : ~Less(s[i + 1], s[i])

\* The stable order of s: by key, then by tag.
InOrder(s) == SortSeq(s, LAMBDA a, b : a[1] < b[1] \/ (a[1] = b[1] /\ a[2] < b[2]))

Multiplicity(s, key) == Cardinality({i \in DOMAIN s : s[i][1] = key})

-----------------------------------------------------------------------------
(* Properties.                                                             *)

\* copy() and copy_backward() give the same whether they are memmove() or a
\* loop, as long as the loop does not overwrite what it has still to read:
\* the type of the values and of the iterator decides between them.
CopiesAgree ==
    Alone =>
        \A first \in 1 .. n, last \in 1 .. n + 1, to \in 1 .. n :
            first <= last =>
                /\ (to <= first \/ to >= last) /\ to + last - first <= n + 1 =>
                      Copy(First, first, last, to) = Moved(First, first, last, to)
                /\ LET end == to + last - first IN
                   (end >= last \/ end <= first) /\ end <= n + 1 =>
                      CopyBackward(First, first, last, end)
                        = MovedBackward(First, first, last, end)

\* Of two ranges exactly one of less, greater and equivalent holds, the
\* three-way comparison says which, and mismatch() finds the same place.
ComparisonsAgree ==
    LET less == LexicographicalCompare(Both, 1, f2, f2, out)
        more == LexicographicalCompare(Both, f2, out, 1, f2)
        way  == LexicographicalCompare3(Both, 1, f2, f2, out)
    IN  /\ ~(less /\ more)
        /\ less <=> way = -1
        /\ more <=> way = 1
        /\ way = 0 <=> n = k /\ EqualRanges(Both, 1, f2, f2)
        /\ n <= k => (Mismatch(Both, 1, f2, f2) = n <=> IsPrefix(xs, ys))

\* adjacent_difference() undoes partial_sum(), also when either writes over
\* what it reads.
SumsInvert ==
    Alone => \A to \in {1, n + 1} :
        LET m == xs \o xs
            sums == PartialSum(m, 1, n + 1, to)
            back == AdjacentDifference(sums, to, to + n, to)
        IN  /\ Part(back, to, to + n) = xs
            /\ n > 0 => sums[to + n - 1] = Accumulate(xs, 1, n + 1, 0)

\* power() multiplies exactly n times and never changes the order of factors.
PowerIsRepetition ==
    \A count \in 0 .. 9 : Power(xs, count) = FlattenSeq([i \in 1 .. count |-> xs])

\* search() finds the first place, the two find_end() the last, and search_n()
\* the first run of a value.
SearchesAgree ==
    LET places == {i \in 1 .. n + 1 - k : \A j \in 1 .. k : xs[i + j - 1] = ys[j]}
    IN  /\ Search(Both, 1, f2, f2, out)
             = IF places = {} THEN f2 ELSE Min(places)
        /\ FindEndForward(Both, 1, f2, f2, out)
             = IF places = {} \/ k = 0 THEN f2 ELSE Max(places)
        /\ FindEndBackward(Both, 1, f2, f2, out) = FindEndForward(Both, 1, f2, f2, out)
        /\ (k > 0 /\ \A j \in 1 .. k : ys[j] = ys[1]) =>
              SearchN(Both, 1, f2, k, Second[1]) = Search(Both, 1, f2, f2, out)

\* The rotations for the three kinds of iterator, by exchanges, reversals and
\* cycles, do the same, and so does the one that copies.
RotatesAgree ==
    Alone => \A middle \in 2 .. n :
        LET rotated == Part(First, middle, f2) \o Part(First, 1, middle)
        IN  /\ RotateForward(First, 1, middle, f2, middle) = rotated
            /\ RotateBidirectional(First, 1, middle, f2) = rotated
            /\ RotateRandom(First, 1, middle, f2) = rotated
            /\ Part(RotateCopy(Both, 1, middle, f2, out), out, out + n) = rotated
            /\ ReverseRandom(First, 1, f2) = ReverseRange(First, 1, f2)

Removed(key) == RemoveIf(First, 1, f2, {x \in ToSet(First) : x[1] = key})

\* remove_if() and unique() keep what they should in its order, and nothing
\* they overwrite was still needed.
FiltersKeepOrder ==
    Alone =>
        LET unique == Unique(First, 1, f2)
        IN  /\ \A key \in Keys : Part(Removed(key).mem, 1, Removed(key).at)
                                    = SelectSeq(First, LAMBDA x : x[1] # key)
            /\ Part(unique.mem, 1, unique.at)
                 = SelectSeq(First, LAMBDA x : x[2] = 1 \/ xs[x[2] - 1] # x[1])

\* stable_partition() is stable with a buffer of any size and without one, and
\* partition() finds the same boundary.
PartitionsAgree ==
    Alone => \A good \in SUBSET ToSet(First) :
        LET kept == SelectSeq(First, LAMBDA x : x \in good)
            bad == SelectSeq(First, LAMBDA x : x \notin good)
            fast == Partition(First, 1, f2, good)
        IN  /\ \A size \in 0 .. n :
                  LET stable == StablePartition(Both, 1, f2, good, out, size)
                  IN  /\ Part(stable.mem, 1, f2) = kept \o bad
                      /\ stable.at = 1 + Len(kept)
            /\ fast.at = 1 + Len(kept)
            /\ Permutes(fast.mem, First)
            /\ \A i \in 1 .. fast.at - 1 : fast.mem[i] \in good

\* next_permutation() gives the next larger arrangement of the keys, without
\* skipping one, and prev_permutation() the way back.
PermutationsCycle ==
    Alone =>
        LET next == NextPermutation(First, 1, f2)
            back == PrevPermutation(next.mem, 1, f2)
            keys == [i \in 1 .. n |-> next.mem[i][1]]
            Above(s, t) == \E i \in 1 .. n : /\ s[i] > t[i]
                                             /\ \A j \in 1 .. i - 1 : s[j] = t[j]
        IN  /\ \A i \in 1 .. n : back.mem[i][1] = xs[i]
            /\ next.more <=> Above(keys, xs)
            /\ next.more =>
                  \A p \in Permutations(1 .. n) :
                      LET s == [i \in 1 .. n |-> xs[p[i]]]
                      IN  ~(Above(s, xs) /\ Above(keys, s))

\* With a fair rand() every order comes out of random_shuffle() and every
\* choice out of the two samplings equally often.
Draws(len) == {d \in [1 .. len -> 0 .. len - 1] : \A i \in 1 .. len : d[i] < i}
Evenly(len, Result(_)) ==
    LET result == [d \in Draws(len) |-> Result(d)]
        results == {result[d] : d \in DOMAIN result}
    IN  \A r \in results :
            Cardinality({d \in DOMAIN result : result[d] = r}) * Cardinality(results)
              = Cardinality(DOMAIN result)
SamplesUniform ==
    (Alone /\ n > 0 /\ ToSet(xs) \subseteq {Min(Keys)}) =>
        /\ Evenly(n, LAMBDA d : RandomShuffle(First, 1, f2, d))
        /\ \A size \in 1 .. n :
              LET Sampled(sample) == ToSet(Part(sample.mem, out, sample.at))
              IN  /\ Evenly(n, LAMBDA d : Sampled(RandomSampleN(Both, 1, f2, out, size, d)))
                  /\ Evenly(n, LAMBDA d : Sampled(RandomSample(Both, 1, f2, out, size, d)))
                  /\ \A d \in Draws(n) :
                        Cardinality(Sampled(RandomSampleN(Both, 1, f2, out, size, d))) = size

\* The bounds enclose exactly the equivalent values of a sorted range.
BoundsBracket ==
    (Alone /\ Ordered(First)) =>
        \A key \in 0 .. Max(Keys) + 1 :
            LET v == <<key, 0>>
                below == Cardinality({i \in 1 .. n : xs[i] < key})
                lower == 1 + below
                upper == 1 + below + Multiplicity(First, key)
            IN  /\ LowerBound(First, 1, f2, v) = lower
                /\ UpperBound(First, 1, f2, v) = upper
                /\ EqualRange(First, 1, f2, v) = <<lower, upper>>
                /\ BinarySearch(First, 1, f2, v) <=> lower # upper

\* The operations on sorted ranges treat them as bags: a value that is there
\* a times in one and b times in the other is max(a, b), min(a, b), a - b or
\* |a - b| times in the result, which is sorted and prefers the first range.
SetOperationsCount ==
    (Ordered(First) /\ Ordered(Second)) =>
        LET Result(r) == Part(r.mem, out, r.at)
            union == Result(SetUnion(Both, 1, f2, f2, out, out))
            inter == Result(SetIntersection(Both, 1, f2, f2, out, out))
            diff  == Result(SetDifference(Both, 1, f2, f2, out, out))
            symm  == Result(SetSymmetricDifference(Both, 1, f2, f2, out, out))
        IN  /\ Ordered(union) /\ Ordered(inter) /\ Ordered(diff) /\ Ordered(symm)
            /\ ToSet(inter) \cup ToSet(diff) \subseteq ToSet(First)
            /\ ToSet(First) \subseteq ToSet(union)
            /\ \A key \in Keys :
                  LET a == Multiplicity(First, key)
                      b == Multiplicity(Second, key)
                  IN  /\ Multiplicity(union, key) = Max({a, b})
                      /\ Multiplicity(inter, key) = Min({a, b})
                      /\ Multiplicity(diff, key) = Max({a - b, 0})
                      /\ Multiplicity(symm, key) = Max({a - b, b - a})
            /\ Includes(Both, 1, f2, f2, out) <=>
                  \A key \in Keys : Multiplicity(First, key) >= Multiplicity(Second, key)

\* make_heap(), push_heap() and pop_heap() keep the heap's order and lose no
\* value, and what they pop is the largest.
HeapsHold ==
    (Alone /\ n > 0) =>
        LET heap == MakeHeap(First, 1, f2)
            popped == PopHeap(heap, 1, f2)
            pushed == FoldLeft(LAMBDA m, end : PushHeap(m, 1, end),
                               First, Positions(2, f2 + 1))
        IN  /\ IsHeap(heap, 1, f2) /\ Permutes(heap, First)
            /\ IsHeap(pushed, 1, f2) /\ Permutes(pushed, First)
            /\ IsHeap(popped, 1, n) /\ Permutes(popped, First)
            /\ \A i \in 1 .. n : ~Less(popped[n], popped[i])

\* sort(), partial_sort() and nth_element() put every value where it belongs
\* although their inner loops do not look for the ends of the range: the
\* values around it, which a loop that left it would take in, stay.
Around == <<<<0, -1>>, <<9, -2>>>>
SortsWithinBounds ==
    Alone =>
        LET m == Around \o First \o Around
            end == n + 3
            sorted == Sort(m, 3, end)
            Inside(mem) == Part(mem, 3, end)
            Keep(mem) == /\ SubSeq(mem, 1, 2) = Around
                         /\ SubSeq(mem, end, end + 1) = Around
                         /\ Permutes(Inside(mem), First)
        IN  /\ Keep(sorted) /\ Ordered(Inside(sorted))
            /\ \A middle \in 3 .. end :
                  LET part == PartialSort(m, 3, middle, end)
                      nth == NthElement(m, 3, middle, end)
                  IN  /\ Keep(part) /\ Keep(nth)
                      /\ Ordered(Part(part, 3, middle))
                      /\ \A i \in 3 .. middle - 1, j \in middle .. end - 1 :
                            ~Less(part[j], part[i]) /\ ~Less(nth[j], nth[i])
                      /\ middle < end => \A j \in middle .. end - 1 : ~Less(nth[j], nth[middle])

\* partial_sort_copy() copies the smallest values, as many as there is room.
SmallestAreCopied ==
    Alone => \A room \in 0 .. n :
        LET r == PartialSortCopy(Both, 1, f2, out, out + room)
            copied == Part(r.mem, out, r.at)
        IN  /\ Len(copied) = room
            /\ [i \in 1 .. room |-> copied[i][1]]
                 = [i \in 1 .. room |-> InOrder(First)[i][1]]

\* Every way of merging two neighbouring sorted ranges, with a buffer of any
\* size and without one, gives the same stable result.
MergesAgree ==
    Alone => \A middle \in 1 .. n + 1 :
        (Ordered(Part(First, 1, middle)) /\ Ordered(Part(First, middle, f2))) =>
            \A size \in 0 .. n :
                Part(InplaceMerge(Both, 1, middle, f2, out, size), 1, f2) = InOrder(First)

\* stable_sort() is stable with a buffer of any size and without one, and
\* writes nothing outside the range and the buffer.
StableSortsAgree ==
    Alone => \A size \in 0 .. n :
        LET m == Around \o First \o Around \o Blank(size)
            sorted == StableSort(m, 3, n + 3, n + 5, size)
        IN  SubSeq(sorted, 1, n + 4) = Around \o InOrder(First) \o Around

\* What only reads a range gives the same whichever way the source has of
\* computing it: comparisons in both directions, searches from both ends and
\* for one value or several, binary and linear search.
ReadingAgrees == ComparisonsAgree /\ SearchesAgree /\ BoundsBracket

\* What writes to a range it also reads overwrites nothing it still needs, in
\* the variant of each iterator category, and loses and favours no value.
RearrangingAgrees ==
    /\ CopiesAgree /\ SumsInvert /\ PowerIsRepetition /\ RotatesAgree
    /\ FiltersKeepOrder /\ PermutationsCycle /\ SamplesUniform

\* What orders a range by exchanges puts every value where it belongs and
\* leaves the range's neighbours alone.
SortingHolds == HeapsHold /\ SortsWithinBounds /\ SmallestAreCopied

\* What is said to be stable is, whatever temporary buffer it was given.
StableOnesAgree == PartitionsAgree /\ MergesAgree /\ StableSortsAgree

=============================================================================
