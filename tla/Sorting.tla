------------------------------- MODULE Sorting -------------------------------
(* The two sorts of subscriber.c over arrays of snapshots.  An element is a  *)
(* record with the key it is sorted by and a tag that tells elements with    *)
(* equal keys apart; a sort key of the code is a choice of the key.          *)
EXTENDS Integers, SequencesExt

CONSTANTS
  Cutoff,        \* partitions shorter than this go to insertion sort; 12
  SortKeys,      \* the values of the sort key, numbered in their order
  MaxArray       \* bound: length of the array

ASSUME SortingAssumption ==
  Cutoff \in Nat \ {0} /\ SortKeys \subseteq Int /\ MaxArray \in Nat

VARIABLE array   \* what a caller has listed and may sort

\* compare_subs(a, b) > 0
Above(a, b) == a.key > b.key
Swap(arr, i, j) == [arr EXCEPT ![i] = arr[j], ![j] = arr[i]]

-------------------------------------------------------------------------------
\* The loops of merge_sort_rec over two halves: taken[k] is how many of the
\* first k elements written come from the left one, which goes first on a tie.
Merge(l, r) ==
  LET TakesLeft(i, j) == j = Len(r) \/ (i < Len(l) /\ ~Above(l[i+1], r[j+1]))
      taken[k \in 0..(Len(l) + Len(r))] ==
        IF k = 0 THEN 0
        ELSE LET i == taken[k-1] IN IF TakesLeft(i, (k - 1) - i) THEN i + 1 ELSE i
  IN  [k \in 1..(Len(l) + Len(r)) |-> IF taken[k] > taken[k-1] THEN l[taken[k]] ELSE r[k - taken[k]]]

\* merge_sort_rec: sorted[n][lo] is the n elements from lo on, sorted.
MergeSort(arr) ==
  LET sorted[n \in 0..Len(arr)] ==
        [lo \in 1..(Len(arr) - n + 1) |->
           IF n <= 1 THEN SubSeq(arr, lo, lo + n - 1)
           ELSE Merge(sorted[n \div 2][lo], sorted[n - (n \div 2)][lo + (n \div 2)])]
  IN  sorted[Len(arr)][1]

\* sub_sort_merge: without memory for the other array this one stays unsorted.
SortMerge(arr, memory) == IF Len(arr) < 2 \/ ~memory THEN arr ELSE MergeSort(arr)

-------------------------------------------------------------------------------
\* The loop of quick_sort_rec over a small partition: each element moves left
\* past those above it.
SinkLeft(arr, lo, i) ==
  LET j == Max({lo - 1} \cup {x \in lo..(i - 1) : ~Above(arr[x], arr[i])})
  IN  [x \in DOMAIN arr |-> IF x = j + 1 THEN arr[i]
                            ELSE IF x \in (j + 2)..i THEN arr[x - 1] ELSE arr[x]]
InsertionSort(arr, lo, hi) ==
  LET sunk[k \in 0..(hi - lo)] == IF k = 0 THEN arr ELSE SinkLeft(sunk[k-1], lo, lo + k)
  IN  sunk[hi - lo]

MedianOfThree(arr, lo, mid, hi) ==
  LET Order(a, i, j) == IF Above(a[i], a[j]) THEN Swap(a, i, j) ELSE a
  IN  Order(Order(Order(arr, lo, mid), lo, hi), mid, hi)

\* The pivot goes to hi, everything not above it to the front, the pivot next.
Partition(arr, lo, hi) ==
  LET mid == lo + ((hi - lo) \div 2)
      a   == Swap(MedianOfThree(arr, lo, mid, hi), mid, hi)
      scanned[k \in 0..(hi - lo)] ==
        IF k = 0 THEN [a |-> a, i |-> lo - 1]
        ELSE LET s == scanned[k-1]
             IN  IF Above(s.a[lo + k - 1], a[hi]) THEN s
                 ELSE [a |-> Swap(s.a, s.i + 1, lo + k - 1), i |-> s.i + 1]
      last == scanned[hi - lo]
  IN  [a |-> Swap(last.a, last.i + 1, hi), p |-> last.i + 1]

\* Slip: the loop goes on with the smaller partition.
SmallerOfWrong(lo, p, hi) == ~(p - lo < hi - p)

\* Whether the partition left of the pivot is the one to recurse into.
LeftIsSmaller(lo, p, hi) == p - lo < hi - p

\* quick_sort_rec: recurse into the smaller partition, loop over the larger
\* one.  sorted[n][a][lo] is what a call for the n elements of a from lo on
\* returns; depth is how many calls were on the stack at once.
QuickSort(arr) ==
  LET sorted[n \in 0..Len(arr)] ==
        [a \in [DOMAIN arr -> ToSet(arr)] |-> [lo \in 1..(Len(arr) - n + 1) |->
           LET hi    == lo + n - 1
               s     == Partition(a, lo, hi)
               left  == LeftIsSmaller(lo, s.p, hi)
               small == IF left THEN sorted[s.p - lo][s.a][lo] ELSE sorted[hi - s.p][s.a][s.p + 1]
               rest  == IF left THEN sorted[hi - s.p][small.a][s.p + 1] ELSE sorted[s.p - lo][small.a][lo]
           IN  IF lo >= hi THEN [a |-> a, depth |-> 1]
               ELSE IF hi - lo < Cutoff THEN [a |-> InsertionSort(a, lo, hi), depth |-> 1]
               ELSE [a |-> rest.a, depth |-> Max({1 + small.depth, rest.depth})]]]
  IN  sorted[Len(arr)][arr][1]

\* sub_sort_quick
SortQuick(arr) == IF Len(arr) < 2 THEN [a |-> arr, depth |-> 1] ELSE QuickSort(arr)

-------------------------------------------------------------------------------
\* What a sort promises: the same elements, in order; if stable, elements with
\* equal keys in the order they had.
Ordered(arr)       == \A i, j \in DOMAIN arr : i < j => ~Above(arr[i], arr[j])
Rearranged(a, b)   == Len(a) = Len(b) /\ ToSet(a) = ToSet(b)
StablySorted(arr)  ==
  \A i, j \in DOMAIN arr : i < j /\ arr[i].key = arr[j].key => arr[i].tag < arr[j].tag

-------------------------------------------------------------------------------
\* Every array of up to MaxArray elements, grown one at a time.
SortInit == array = <<>>

Grow ==
  /\ Len(array) < MaxArray
  /\ \E k \in SortKeys : array' = Append(array, [key |-> k, tag |-> Len(array) + 1])

SortSpec == SortInit /\ [][Grow]_array

\* Both sorts return the elements they were given, in order; merge sort keeps
\* elements with equal keys in theirs ("stable", subscriber.c:720), or leaves
\* the array alone if it has no memory; and quick sort is never nested deeper
\* than the logarithm of the length ("O(log n)", subscriber.c:804).
SortsAreRight ==
  LET merged == SortMerge(array, TRUE)
      quick  == SortQuick(array)
  IN  /\ Ordered(merged) /\ Rearranged(merged, array) /\ StablySorted(merged)
      /\ SortMerge(array, FALSE) = array
      /\ Ordered(quick.a) /\ Rearranged(quick.a, array)
      /\ 2 ^ (quick.depth - 1) <= Len(array) + 1
===============================================================================
