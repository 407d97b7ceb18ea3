-------------------------------- MODULE Sort --------------------------------
(***************************************************************************)
(* The sorting and searching routines of src/src/tkc/utils.c, as pure     *)
(* operators over sequences.  An element is a pair <<key, id>>: the        *)
(* comparison function sees only the key, the id tells equal keys apart    *)
(* so that stability and permutation can be stated.  Indices are the C     *)
(* indices (0-based); At and Set translate them.                           *)
(***************************************************************************)
EXTENDS Integers, Sequences

At(a, i) == a[i + 1]
Set(a, i, e) == [a EXCEPT ![i + 1] = e]

\* The tk_compare_t of the callers: a sign by key.
Cmp(x, y) == x[1] - y[1]

-----------------------------------------------------------------------------
(* tk_quick_sort_impl.  The two inner loops: right moves down over        *)
(* elements not below the pivot, left moves up over elements not above it. *)
RECURSIVE ScanRight(_, _, _, _)
ScanRight(a, l, r, x) ==
  IF Cmp(At(a, r), x) >= 0 /\ l < r THEN ScanRight(a, l, r - 1, x) ELSE r

RECURSIVE ScanLeft(_, _, _, _)
ScanLeft(a, l, r, x) ==
  IF Cmp(At(a, l), x) <= 0 /\ l < r THEN ScanLeft(a, l + 1, r, x) ELSE l

(* The outer while (left < right) loop: the hole left by the pivot is     *)
(* filled from the right, then the new hole from the left.                 *)
RECURSIVE Partition(_, _, _, _)
Partition(a, l, r, x) ==
  IF l < r
  THEN LET r1 == ScanRight(a, l, r, x)
           a1 == IF l # r1 THEN Set(a, l, At(a, r1)) ELSE a
           l1 == IF l # r1 THEN l + 1 ELSE l
           l2 == ScanLeft(a1, l1, r1, x)
           a2 == IF l2 # r1 THEN Set(a1, r1, At(a1, l2)) ELSE a1
           r2 == IF l2 # r1 THEN r1 - 1 ELSE r1
       IN Partition(a2, l2, r2, x)
  ELSE [a |-> a, left |-> l]

\* Fault variant of QuickSortImpl: the pivot not stored into the final hole.
RECURSIVE QuickSortNoPivotStore(_, _, _)
QuickSortNoPivotStore(a, left, right) ==
  LET p == Partition(a, left, right, At(a, left))
      a2 == IF left < p.left THEN QuickSortNoPivotStore(p.a, left, p.left - 1) ELSE p.a
  IN IF right > p.left THEN QuickSortNoPivotStore(a2, p.left + 1, right) ELSE a2

(* The pivot x = array[left] goes into the final hole; each side of it    *)
(* is sorted recursively when it is not empty.                             *)
RECURSIVE QuickSortImpl(_, _, _)
QuickSortImpl(a, left, right) ==
  LET p == Partition(a, left, right, At(a, left))
      a1 == Set(p.a, p.left, At(a, left))
      a2 == IF left < p.left THEN QuickSortImpl(a1, left, p.left - 1) ELSE a1
  IN IF right > p.left THEN QuickSortImpl(a2, p.left + 1, right) ELSE a2

\* tk_qsort: arrays of two or more elements are sorted in place.
TkQsort(a) == IF Len(a) > 1 THEN QuickSortImpl(a, 0, Len(a) - 1) ELSE a

-----------------------------------------------------------------------------
\* Fault variant of MergeRuns: ties taken from the right run.
RECURSIVE MergeRunsRightFirst(_, _)
MergeRunsRightFirst(l, r) ==
  IF l = <<>> THEN r ELSE IF r = <<>> THEN l
  ELSE IF Cmp(Head(l), Head(r)) < 0 THEN <<Head(l)>> \o MergeRunsRightFirst(Tail(l), r)
  ELSE <<Head(r)>> \o MergeRunsRightFirst(l, Tail(r))

(* The three copy loops of merge: the smaller head goes to temp, the left *)
(* one on a tie; then what is left of either run.                          *)
RECURSIVE MergeRuns(_, _)
MergeRuns(l, r) ==
  IF l = <<>> THEN r ELSE IF r = <<>> THEN l
  ELSE IF Cmp(Head(l), Head(r)) <= 0 THEN <<Head(l)>> \o MergeRuns(Tail(l), r)
  ELSE <<Head(r)>> \o MergeRuns(l, Tail(r))

(* merge(base + off, ls, rs): temp is allocated for the two runs; when    *)
(* TKMEM_ALLOC fails (the call is in fails) it logs and returns with the   *)
(* runs unmerged; otherwise temp is copied back over them.                 *)
Merge(a, off, ls, rs, fails) ==
  IF <<off, ls + rs>> \in fails THEN a
  ELSE LET m == MergeRuns(SubSeq(a, off + 1, off + ls), SubSeq(a, off + ls + 1, off + ls + rs))
       IN [k \in 1 .. Len(a) |-> IF off < k /\ k <= off + ls + rs THEN m[k - off] ELSE a[k]]

\* tk_mergesort_impl on the nmemb elements from off.
RECURSIVE MergesortImpl(_, _, _, _)
MergesortImpl(a, off, nmemb, fails) ==
  IF nmemb < 2 THEN a
  ELSE LET mid == nmemb \div 2
           a1 == MergesortImpl(a, off, mid, fails)
           a2 == MergesortImpl(a1, off + mid, nmemb - mid, fails)
       IN Merge(a2, off, mid, nmemb - mid, fails)

\* The merge calls tk_mergesort_impl makes, as <<offset, length>>.
RECURSIVE MergeCalls(_, _)
MergeCalls(off, nmemb) ==
  IF nmemb < 2 THEN {}
  ELSE {<<off, nmemb>>} \cup MergeCalls(off, nmemb \div 2)
         \cup MergeCalls(off + nmemb \div 2, nmemb - nmemb \div 2)

\* tk_mergesort: refuses an empty array, otherwise sorts and returns RET_OK.
TkMergesort(a, fails) ==
  IF Len(a) = 0 THEN [a |-> a, ret |-> "RET_BAD_PARAMS"]
  ELSE [a |-> MergesortImpl(a, 0, Len(a), fails), ret |-> "RET_OK"]

-----------------------------------------------------------------------------
\* Fault variant of BsearchLoop: while (low < high).
RECURSIVE BsearchLoopStrict(_, _, _, _)
BsearchLoopStrict(a, key, low, high) ==
  IF low < high
  THEN LET mid == low + (high - low) \div 2
           result == At(a, mid)[1] - key
       IN IF result = 0 THEN At(a, mid)
          ELSE IF result < 0 THEN BsearchLoopStrict(a, key, mid + 1, high)
          ELSE BsearchLoopStrict(a, key, low, mid - 1)
  ELSE "NULL"

(* The loop of tk_strs_bsearch over int32 low and high: the element at    *)
(* mid = low + ((high - low) >> 1) is compared with the key.               *)
RECURSIVE BsearchLoop(_, _, _, _)
BsearchLoop(a, key, low, high) ==
  IF low <= high
  THEN LET mid == low + (high - low) \div 2
           result == At(a, mid)[1] - key
       IN IF result = 0 THEN At(a, mid)
          ELSE IF result < 0 THEN BsearchLoop(a, key, mid + 1, high)
          ELSE BsearchLoop(a, key, low, mid - 1)
  ELSE "NULL"

\* tk_strs_bsearch: NULL for an empty array.
TkStrsBsearch(a, key) == IF Len(a) = 0 THEN "NULL" ELSE BsearchLoop(a, key, 0, Len(a) - 1)
=============================================================================
