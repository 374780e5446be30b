------------------------------- MODULE Sorting -------------------------------
(***************************************************************************)
(* The two merge sorts: mergesort(from, to, in, out) of 05_asm_x86/2, from *)
(* the bottom up in two arrays, and Sort of 08_file_io/2, from the top     *)
(* down in a file, with a second file for the merged halves.  Arrays are   *)
(* indexed from 0.                                                         *)
(***************************************************************************)
EXTENDS Integers, FiniteSets

Range0(n) == 0..n - 1
Least(a, b) == IF a <= b THEN a ELSE b

(* Both merge the runs a[l..m-1] and a[m..r-1], the left one first when    *)
(* the heads are equal.  i and j count what is taken of each.              *)
TakeLeft(a, l, i, n1, m, j, n2) == i < n1 /\ (j = n2 \/ a[l + i] <= a[m + j])

Merge(a, l, m, r) ==
  LET n1 == m - l
      n2 == r - m
      taken[k \in 0..n1 + n2] ==   \* how many of the first k come from the left
        IF k = 0 THEN 0
        ELSE LET i == taken[k - 1] IN
             IF TakeLeft(a, l, i, n1, m, k - 1 - i, n2) THEN i + 1 ELSE i
  IN [x \in DOMAIN a |->
        IF x < l \/ x >= r THEN a[x]
        ELSE LET k == x - l
                 i == taken[k]
             IN IF taken[k + 1] > i THEN a[l + i] ELSE a[m + k - i]]

-----------------------------------------------------------------------------
(* mergesort: runs of curr_size, 2 curr_size, ...; the last run of a pass  *)
(* is cut off at the last element (ifm, ifr).                              *)
MergeAt(a, n, curr_size, l) ==
  LET m == Least(l + curr_size - 1, n - 1)
      r == Least(l + 2 * curr_size - 1, n - 1)
  IN Merge(a, l, m + 1, r + 1)

Pass(a, n, curr_size) ==
  LET after[k \in Nat] == IF k = 0 THEN a ELSE MergeAt(after[k - 1], n, curr_size, 2 * curr_size * (k - 1))
  IN after[(n - 1 + 2 * curr_size - 1) \div (2 * curr_size)]

mergesort(from, to, in) ==
  LET n == to - from
      sorted[k \in Nat] == IF k = 0 THEN [x \in Range0(n) |-> in[from + x]]
                           ELSE Pass(sorted[k - 1], n, 2 ^ (k - 1))
      passes == CHOOSE k \in 0..n : 2 ^ k >= n /\ \A j \in 0..k - 1 : 2 ^ j < n
  IN IF n = 0 THEN <<>> ELSE sorted[passes]

-----------------------------------------------------------------------------
(* Sort(file, res, start, end): fewer than four numbers go to qsort; the   *)
(* halves are merged into res and copied back.                             *)
max_file == 4
Qsort(a, start, end) ==
  LET rank(x, y) == a[x] < a[y] \/ (a[x] = a[y] /\ x < y)
      at(k) == CHOOSE x \in start..end - 1 :
                 Cardinality({y \in start..end - 1 : rank(y, x)}) = k - start
  IN [x \in DOMAIN a |-> IF x \in start..end - 1 THEN a[at(x)] ELSE a[x]]

Sort(file, n) ==
  LET sort[start \in 0..n, end \in 0..n, a \in [Range0(n) -> {file[x] : x \in Range0(n)}]] ==
        IF end - start < max_file THEN Qsort(a, start, end)
        ELSE LET middle == (start + end) \div 2
                 left == sort[start, middle, a]
                 both == sort[middle, end, left]
             IN Merge(both, start, middle, end)
  IN sort[0, n, file]

-----------------------------------------------------------------------------
IsSorted(a, n) == \A x \in Range0(n), y \in Range0(n) : x < y => a[x] <= a[y]
Occurrences(a, from, to, v) == Cardinality({x \in from..to - 1 : a[x] = v})
SamePart(b, n, a, from) ==
  \A v \in {a[x] : x \in from..from + n - 1} \cup {b[x] : x \in Range0(n)} :
    Occurrences(b, 0, n, v) = Occurrences(a, from, from + n, v)

(* The result is the part of the input that was asked for, in order.       *)
Sorts(b, n, a, from) == IsSorted(b, n) /\ SamePart(b, n, a, from)
=============================================================================
