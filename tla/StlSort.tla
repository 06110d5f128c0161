------------------------------- MODULE StlSort -------------------------------
(***************************************************************************)
(* stl_heap.h and the sorting and merging algorithms of stl_algo.h.  The   *)
(* three sizes the source fixes are parameters, so that short ranges reach *)
(* every branch.  An algorithm that is unguarded in the source goes past   *)
(* its range in the model where it would in the program.                   *)
(***************************************************************************)
EXTENDS StlMutate

CONSTANTS Threshold,       \* __stl_threshold, 16: introsort leaves such ranges
          ChunkSize,       \* __stl_chunk_size, 7
          InsertionLimit   \* 15: shorter ranges are sorted by insertion, at least 2

-----------------------------------------------------------------------------
(* Heaps: the children of hole h, counted from first, are 2h+1 and 2h+2.   *)

RECURSIVE PushHole(_, _, _, _, _)
PushHole(m, first, hole, top, v) ==
    LET parent == (hole - 1) \div 2
    IN  IF hole > top /\ Less(m[first + parent], v)
        THEN PushHole(Put(m, first + hole, m[first + parent]), first, parent, top, v)
        ELSE Put(m, first + hole, v)

PushHeap(m, first, last) == PushHole(m, first, last - first - 1, 0, m[last - 1])

\* The hole goes down to a leaf, then the value up from there.
RECURSIVE AdjustHeap(_, _, _, _, _, _)
AdjustHeapOddly(m, first, hole, len, top, v) ==
    LET second == 2 * hole + 2
        larger == IF Less(m[first + second], m[first + second - 1])
                  THEN second - 1 ELSE second
    IN  IF second < len
        THEN AdjustHeap(Put(m, first + hole, m[first + larger]),
                        first, larger, len, top, v)
        ELSE PushHole(m, first, hole, top, v)
AdjustHeap(m, first, hole, len, top, v) ==
    LET second == 2 * hole + 2
        larger == IF Less(m[first + second], m[first + second - 1])
                  THEN second - 1 ELSE second
    IN  CASE second < len ->
                AdjustHeap(Put(m, first + hole, m[first + larger]),
                           first, larger, len, top, v)
          [] second = len ->
                PushHole(Put(m, first + hole, m[first + second - 1]),
                         first, second - 1, top, v)
          [] OTHER -> PushHole(m, first, hole, top, v)

\* __pop_heap: the largest value goes to result, v into the heap.
PopTo(m, first, last, result, v) ==
    AdjustHeap(Put(m, result, m[first]), first, 0, last - first, 0, v)

PopHeap(m, first, last) == PopTo(m, first, last - 1, last - 1, m[last - 1])

MakeHeap(m, first, last) ==
    LET len == last - first
        parents == Positions(0, (len - 2) \div 2 + 1)
    IN  IF len < 2 THEN m
        ELSE FoldLeft(LAMBDA mem, parent :
                          AdjustHeap(mem, first, parent, len, parent, mem[first + parent]),
                      m, Reverse(parents))

SortHeap(m, first, last) ==
    FoldLeft(LAMBDA mem, end : PopHeap(mem, first, end),
             m, Reverse(Positions(first + 2, last + 1)))

IsHeap(m, first, last) ==
    \A child \in 1 .. last - first - 1 :
        ~Less(m[first + (child - 1) \div 2], m[first + child])

-----------------------------------------------------------------------------
(* sort: quicksort to short ranges, heapsort when it goes too deep, and an *)
(* insertion sort at the end.                                              *)

Median(a, b, c) ==
    IF Less(a, b)
    THEN IF Less(b, c) THEN b ELSE IF Less(a, c) THEN c ELSE a
    ELSE IF Less(a, c) THEN a ELSE IF Less(b, c) THEN c ELSE b

\* Neither inner loop looks for the end of the range.
RECURSIVE UnguardedPartition(_, _, _, _)
UnguardedPartition(m, first, last, pivot) ==
    LET i == Min({k \in first .. Len(m) : ~Less(m[k], pivot)})
        j == Max({k \in 1 .. last - 1 : ~Less(pivot, m[k])})
    IN  IF i >= j THEN Wrote(m, i)
        ELSE UnguardedPartition(IterSwap(m, i, j), i + 1, j, pivot)

RECURSIVE UnguardedLinearInsert(_, _, _)
UnguardedLinearInsert(m, last, v) ==
    IF Less(v, m[last - 1])
    THEN UnguardedLinearInsert(Put(m, last, m[last - 1]), last - 1, v)
    ELSE Put(m, last, v)

LinearInsert(m, first, last) ==
    IF Less(m[last], m[first])
    THEN Put(CopyBackward(m, first, last, last + 1), first, m[last])
    ELSE UnguardedLinearInsert(m, last, m[last])

InsertionSort(m, first, last) ==
    FoldLeft(LAMBDA mem, i : LinearInsert(mem, first, i),
             m, Positions(first + 1, last))

UnguardedInsertionSort(m, first, last) ==
    FoldLeft(LAMBDA mem, i : UnguardedLinearInsert(mem, i, mem[i]),
             m, Positions(first, last))

\* Right only if the least value is among the first Threshold.
FinalInsertionSort(m, first, last) ==
    IF last - first > Threshold
    THEN UnguardedInsertionSort(InsertionSort(m, first, first + Threshold),
                                first + Threshold, last)
    ELSE InsertionSort(m, first, last)

\* The largest k with 2^k <= n.
RECURSIVE Lg(_)
Lg(n) == IF n <= 1 THEN 0 ELSE 1 + Lg(n \div 2)

\* The first middle - first values in order, by a heap of the smallest.
PartialSort(m, first, middle, last) ==
    LET heap == FoldLeft(LAMBDA mem, i :
                            IF Less(mem[i], mem[first])
                            THEN PopTo(mem, first, middle, i, mem[i]) ELSE mem,
                         MakeHeap(m, first, middle), Positions(middle, last))
    IN  SortHeap(heap, first, middle)

MedianCut(m, first, last) ==
    UnguardedPartition(m, first, last,
        Median(m[first], m[first + (last - first) \div 2], m[last - 1]))

\* The right part by recursion, the left part in the loop.
RECURSIVE IntrosortLoop(_, _, _, _)
IntrosortLoop(m, first, last, depth) ==
    LET cut == MedianCut(m, first, last)
    IN  CASE last - first <= Threshold -> m
          [] last - first > Threshold /\ depth = 0 ->
                PartialSort(m, first, last, last)
          [] OTHER -> IntrosortLoop(IntrosortLoop(cut.mem, cut.at, last, depth - 1),
                                    first, cut.at, depth - 1)

Sort(m, first, last) ==
    IF first = last THEN m
    ELSE FinalInsertionSort(IntrosortLoop(m, first, last, 2 * Lg(last - first)),
                            first, last)

PartialSortCopy(m, first, last, result, resultLast) ==
    LET n == Min({last - first, resultLast - result})
        end == result + n
        filled == MakeHeap(Copy(m, first, first + n, result), result, end)
        heap == FoldLeft(LAMBDA mem, i :
                            IF Less(mem[i], mem[result])
                            THEN AdjustHeap(mem, result, 0, n, 0, mem[i]) ELSE mem,
                         filled, Positions(first + n, last))
    IN  IF result = resultLast THEN Wrote(m, result)
        ELSE Wrote(SortHeap(heap, result, end), end)

\* Partition until what holds nth is short.
RECURSIVE NthElement(_, _, _, _)
NthElement(m, first, nth, last) ==
    LET cut == MedianCut(m, first, last)
    IN  CASE last - first <= 3 -> InsertionSort(m, first, last)
          [] last - first > 3 /\ cut.at <= nth ->
                NthElement(cut.mem, cut.at, nth, last)
          [] OTHER -> NthElement(cut.mem, first, nth, cut.at)

-----------------------------------------------------------------------------
(* Merging, and the stable sorts built on it.                              *)

\* Of equivalent values the first range's is written first.
RECURSIVE Merge(_, _, _, _, _, _)
Merge(m, first1, last1, first2, last2, result) ==
    LET ended == first1 = last1 \/ first2 = last2
    IN  CASE ended -> Copy(Copy(m, first1, last1, result), first2, last2,
                           result + last1 - first1)
          [] ~ended /\ Less(m[first2], m[first1]) ->
                Merge(Put(m, result, m[first2]), first1, last1, first2 + 1, last2,
                      result + 1)
          [] OTHER ->
                Merge(Put(m, result, m[first1]), first1 + 1, last1, first2, last2,
                      result + 1)

\* Where to cut two ranges of which the longer is halved, so that what is
\* before the cuts is merged on its own and what is behind them too.
Cuts(m, first, middle, last) ==
    IF middle - first > last - middle
    THEN LET cut1 == first + (middle - first) \div 2
         IN  <<cut1, LowerBound(m, middle, last, m[cut1])>>
    ELSE LET cut2 == middle + (last - middle) \div 2
         IN  <<UpperBound(m, first, middle, m[cut2]), cut2>>

RECURSIVE MergeWithoutBuffer(_, _, _, _)
MergeWithoutBuffer(m, first, middle, last) ==
    LET cut == Cuts(m, first, middle, last)
        newMiddle == cut[1] + cut[2] - middle
        rotated == Rotate(m, cut[1], middle, cut[2])
    IN  CASE first = middle \/ middle = last -> m
          [] first # middle /\ middle # last /\ last - first = 2 ->
                IF Less(m[middle], m[first]) THEN IterSwap(m, first, middle) ELSE m
          [] OTHER ->
                MergeWithoutBuffer(MergeWithoutBuffer(rotated, first, cut[1], newMiddle),
                                   newMiddle, cut[2], last)

RotateAdaptive(m, first, middle, last, buffer, size) ==
    LET len1 == middle - first
        len2 == last - middle
    IN  CASE len1 > len2 /\ len2 <= size ->
                Copy(CopyBackward(Copy(m, middle, last, buffer), first, middle, last),
                     buffer, buffer + len2, first)
          [] ~(len1 > len2 /\ len2 <= size) /\ len1 <= size ->
                CopyBackward(Copy(Copy(m, first, middle, buffer), middle, last, first),
                             buffer, buffer + len1, last)
          [] OTHER -> Rotate(m, first, middle, last)

\* From the ends down; of equivalent values the second range's is written
\* first, behind the other.
RECURSIVE MergeBackward(_, _, _, _, _, _)
MergeBackwardFirst(m, first1, last1, first2, last2, result) ==
    LET ended == first1 = last1 \/ first2 = last2
    IN  CASE ended -> CopyBackward(CopyBackward(m, first2, last2, result),
                                   first1, last1, result - (last2 - first2))
          [] ~ended /\ ~Less(m[last1 - 1], m[last2 - 1]) ->
                MergeBackward(Put(m, result - 1, m[last1 - 1]),
                              first1, last1 - 1, first2, last2, result - 1)
          [] OTHER ->
                MergeBackward(Put(m, result - 1, m[last2 - 1]),
                              first1, last1, first2, last2 - 1, result - 1)
MergeBackward(m, first1, last1, first2, last2, result) ==
    LET ended == first1 = last1 \/ first2 = last2
    IN  CASE ended -> CopyBackward(CopyBackward(m, first2, last2, result),
                                   first1, last1, result - (last2 - first2))
          [] ~ended /\ Less(m[last2 - 1], m[last1 - 1]) ->
                MergeBackward(Put(m, result - 1, m[last1 - 1]),
                              first1, last1 - 1, first2, last2, result - 1)
          [] OTHER ->
                MergeBackward(Put(m, result - 1, m[last2 - 1]),
                              first1, last1, first2, last2 - 1, result - 1)

\* The shorter range goes to the buffer if it fits.
RECURSIVE MergeAdaptive(_, _, _, _, _, _)
MergeAdaptive(m, first, middle, last, buffer, size) ==
    LET len1 == middle - first
        len2 == last - middle
        front == len1 <= len2 /\ len1 <= size
        cut == Cuts(m, first, middle, last)
        newMiddle == cut[1] + cut[2] - middle
        rotated == RotateAdaptive(m, cut[1], middle, cut[2], buffer, size)
    IN  CASE front -> Merge(Copy(m, first, middle, buffer),
                            buffer, buffer + len1, middle, last, first)
          [] ~front /\ len2 <= size ->
                MergeBackward(Copy(m, middle, last, buffer),
                              first, middle, buffer, buffer + len2, last)
          [] OTHER ->
                MergeAdaptive(
                    MergeAdaptive(rotated, first, cut[1], newMiddle, buffer, size),
                    newMiddle, cut[2], last, buffer, size)

\* size is what the temporary buffer got, 0 when there is no memory for one.
InplaceMerge(m, first, middle, last, buffer, size) ==
    CASE first = middle \/ middle = last -> m
      [] first # middle /\ middle # last /\ size = 0 ->
            MergeWithoutBuffer(m, first, middle, last)
      [] OTHER -> MergeAdaptive(m, first, middle, last, buffer, size)

RECURSIVE InplaceStableSort(_, _, _)
InplaceStableSort(m, first, last) ==
    LET middle == first + (last - first) \div 2
    IN  IF last - first < InsertionLimit THEN InsertionSort(m, first, last)
        ELSE MergeWithoutBuffer(
                 InplaceStableSort(InplaceStableSort(m, first, middle), middle, last),
                 first, middle, last)

\* Neighbouring runs of length step are merged from first to result.
RECURSIVE MergeSortLoop(_, _, _, _, _)
MergeSortLoop(m, first, last, result, step) ==
    LET one == Min({last - first, step})
    IN  IF last - first >= 2 * step
        THEN MergeSortLoop(Merge(m, first, first + step, first + step,
                                 first + 2 * step, result),
                           first + 2 * step, last, result + 2 * step, step)
        ELSE Merge(m, first, first + one, first + one, last, result)

RECURSIVE ChunkInsertionSort(_, _, _)
ChunkInsertionSort(m, first, last) ==
    IF last - first >= ChunkSize
    THEN ChunkInsertionSort(InsertionSort(m, first, first + ChunkSize),
                            first + ChunkSize, last)
    ELSE InsertionSort(m, first, last)

\* To the buffer and back, so that the result is where the range was.
RECURSIVE MergeRuns(_, _, _, _, _)
MergeRuns(m, first, last, buffer, step) ==
    IF step >= last - first THEN m
    ELSE MergeRuns(MergeSortLoop(MergeSortLoop(m, first, last, buffer, step),
                                 buffer, buffer + last - first, first, 2 * step),
                   first, last, buffer, 4 * step)

MergeSortWithBuffer(m, first, last, buffer) ==
    MergeRuns(ChunkInsertionSort(m, first, last), first, last, buffer, ChunkSize)

RECURSIVE StableSortAdaptive(_, _, _, _, _)
StableSortAdaptive(m, first, last, buffer, size) ==
    LET len == (last - first + 1) \div 2
        middle == first + len
        halves == IF len > size
                  THEN StableSortAdaptive(StableSortAdaptive(m, first, middle, buffer, size),
                                          middle, last, buffer, size)
                  ELSE MergeSortWithBuffer(MergeSortWithBuffer(m, first, middle, buffer),
                                           middle, last, buffer)
    IN  MergeAdaptive(halves, first, middle, last, buffer, size)

StableSort(m, first, last, buffer, size) ==
    IF size = 0 THEN InplaceStableSort(m, first, last)
    ELSE StableSortAdaptive(m, first, last, buffer, size)

=============================================================================
