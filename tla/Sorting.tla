------------------------------- MODULE Sorting -------------------------------
(***************************************************************************)
(* The functions of the sorting programs and of gcd_test.c, and the frame  *)
(* that the multicast program fills.  An array of len elements is a        *)
(* function on 0 .. len-1.                                                 *)
(***************************************************************************)
EXTENDS Integers, Sequences, SequencesExt

Length(arr) == Max(DOMAIN arr \cup {-1}) + 1
\* The arrays that arr can become.
Array(arr)  == [DOMAIN arr -> Int]

\* for (i = first; i <= last; i++) arr = Body(arr, i)
For(first, last, Body(_, _), arr) ==
  FoldLeft(LAMBDA a, k : Body(a, first + k - 1), arr,
           [k \in 1..(last - first + 1) |-> k])

swap(arr, i, j) == [arr EXCEPT ![i] = arr[j], ![j] = arr[i]]

\* Mutant: two rounds too few.
bubble_sortFewer(arr) ==
  LET Inner(a, i) == IF a[i + 1] < a[i] THEN swap(a, i, i + 1) ELSE a
      Round(a, round) == For(0, Length(arr) - 2, Inner, a)
  IN  For(0, Length(arr) - 3, Round, arr)

bubble_sort(arr) ==
  LET len == Length(arr)
      Inner(a, i) == IF a[i + 1] < a[i] THEN swap(a, i, i + 1) ELSE a
      Round(a, round) == For(0, len - 2, Inner, a)
  IN  For(0, len - 1, Round, arr)

insertion_sort(arr) ==
  LET sink[current \in Nat, a \in Array(arr)] ==
        IF current = 0 \/ a[current] >= a[current - 1] THEN a
        ELSE sink[current - 1, swap(a, current, current - 1)]
      Round(a, round) == sink[round, a]
  IN  For(0, Length(arr) - 1, Round, arr)

selection_sort(arr) ==
  LET len == Length(arr)
      MinIdx(a, i) == CHOOSE m \in i..(len - 1) :   \* the first of the smallest
        \A j \in i..(len - 1) : a[m] < a[j] \/ (a[m] = a[j] /\ m <= j)
      Round(a, i) == swap(a, i, MinIdx(a, i))
  IN  For(0, len - 2, Round, arr)

\* left_arr and right_arr are declared with each other's size.  When the left
\* half is the longer one, its last element lies behind left_arr: in padding up
\* to a multiple of 16 bytes or, if n2 is a multiple of 4, in right_arr[0], which
\* is written after it.
do_merge(arr, left, mid, right) ==
  LET n1 == mid - left + 1
      n2 == right - mid
      right_arr == [i \in 0..(n2 - 1) |-> arr[mid + 1 + i]]
      left_arr  == [i \in 0..(n1 - 1) |->
                      IF i = n2 /\ n2 % 4 = 0 THEN right_arr[0] ELSE arr[left + i]]
      merge[i \in Nat, j \in Nat, a \in Array(arr)] ==
        IF i < n1 /\ (j >= n2 \/ left_arr[i] <= right_arr[j])
        THEN merge[i + 1, j, [a EXCEPT ![left + i + j] = left_arr[i]]]
        ELSE IF j < n2
        THEN merge[i, j + 1, [a EXCEPT ![left + i + j] = right_arr[j]]]
        ELSE a
  IN  merge[0, 0, arr]

merge_sort(arr) ==
  LET sort[a \in Array(arr), left \in Int, right \in Int] ==
        IF left >= right THEN a
        ELSE LET mid == (left + right) \div 2
             IN  do_merge(sort[sort[a, left, mid], mid + 1, right],
                          left, mid, right)
  IN  sort[arr, 0, Length(arr) - 1]

\* The walk to the right has no bound: it may leave the array, in which case it
\* ends at some larger value in the memory behind it.  Length(arr) stands for any
\* index there, since the element is not touched.
partition(arr, left, right) ==
  LET pivot == arr[left]
      Up(a, i) == CHOOSE k \in i..Length(a) :
        /\ k = Length(a) \/ a[k] > pivot
        /\ \A m \in i..(k - 1) : a[m] <= pivot
      Down(a, j) == CHOOSE k \in left..j :
        a[k] <= pivot /\ \A m \in (k + 1)..j : a[m] > pivot
      loop[a \in Array(arr), i \in Nat, j \in Nat] ==
        IF i >= j THEN [arr |-> swap(a, j, left), cut |-> j]
        ELSE LET u == Up(a, i)
                 d == Down(a, j)
             IN  loop[IF u < d THEN swap(a, u, d) ELSE a, u, d]
  IN  loop[arr, left, right]

quick_sort(arr) ==
  LET sort[a \in Array(arr), left \in Int, right \in Int] ==
        IF left >= right THEN a
        ELSE LET p == partition(a, left, right)
             IN  sort[sort[p.arr, left, p.cut - 1], p.cut + 1, right]
  IN  sort[arr, 0, Length(arr) - 1]

gcd(a, b) ==
  LET loop[i \in Nat, j \in Nat] ==
        IF i = j THEN i ELSE IF i > j THEN loop[i - j, j] ELSE loop[i, j - i]
  IN  loop[a, b]
------------------------------------------------------------------------------
(* The addresses in the frame of the multicast program: octets 0..5 are    *)
(* h_dest, 6..11 are h_source.  The frame starts out zero.                 *)

EmptyFrame == [o \in 0..11 |-> 0]

\* sscanf stores an unsigned int, four octets, for each of the at most six
\* numbers that it reads.
set_dest_mac(frame, mac) ==
  FoldLeft(LAMBDA f, k : [o \in 0..11 |-> IF o = k - 1 THEN mac[k]
                                         ELSE IF o \in k..(k + 2) THEN 0 ELSE f[o]],
           frame, [k \in 1..Len(mac) |-> k])

set_source_mac(frame, mac) == [o \in 0..11 |-> IF o < 6 THEN frame[o] ELSE mac[o - 5]]
==============================================================================
