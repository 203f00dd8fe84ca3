----------------------------- MODULE ArraySorts -----------------------------
(***************************************************************************)
(* The algorithms of src/src/darray_algos.c and DArray_bin_search, on      *)
(* sequences: element i + 1 of a sequence is cell i of the array.  cmp is  *)
(* the order of the numbers.                                               *)
(***************************************************************************)
EXTENDS Integers, Sequences, SequencesExt

Exchanged(s, i, j) == [s EXCEPT ![i] = s[j], ![j] = s[i]]

\* DArray_bin_search: the index found, or -1.  It goes right of an element
\* that is larger than the one it looks for.
DArray_bin_search(s, el) ==
    LET from[lo \in 0 .. Len(s), hi \in -1 .. Len(s) - 1] ==
            LET mid == lo + (hi - lo) \div 2
            IN  IF lo > hi THEN -1
                ELSE IF s[mid + 1] = el THEN mid
                ELSE IF s[mid + 1] > el THEN from[mid + 1, hi]
                ELSE from[lo, mid - 1]
    IN  from[0, Len(s) - 1]

-----------------------------------------------------------------------------
(* quicksort: the loop that leaves what is below the pivot in start .. i, and *)
(* the recursion on both sides of it                                          *)

PartitionStep(p, j, pivot) ==
    IF p.cells[j] < pivot
    THEN [cells |-> Exchanged(p.cells, p.i + 1, j), i |-> p.i + 1]
    ELSE p

Partition(s, start, end) ==
    LET step(p, j) == PartitionStep(p, j, s[end])
        p == FoldLeft(step, [cells |-> s, i |-> start - 1],
                      [k \in 1 .. end - start |-> start + k - 1])
    IN  [cells |-> Exchanged(p.cells, end, p.i + 1), i |-> p.i]

RECURSIVE Quicksort(_, _, _)
Quicksort(s, start, end) ==
    IF end - start < 1 THEN s
    ELSE LET p == Partition(s, start, end)
         IN  Quicksort(Quicksort(p.cells, start, p.i), p.i + 2, end)

DArray_qsort(s) == Quicksort(s, 1, Len(s))

-----------------------------------------------------------------------------
(* heapsort: build_maxheap passes once from the last cells to the root, which *)
(* brings the largest element up, and is called again for every element       *)

\* Cells are counted from 0 here, as in the code.
At(s, i) == s[i + 1]

\* The larger of a node's children, of which the last node may have one.
LargerChild(s, size, i) ==
    IF size % 2 = 1 THEN IF At(s, i) > At(s, i - 1) THEN i ELSE i - 1
                    ELSE IF i = size - 1 \/ At(s, i) > At(s, i + 1) THEN i ELSE i + 1

\* Mutant of Raised: the parent is compared with the child looked at first.
RaisedFirst(s, size, i) ==
    LET parent == (i - 1) \div 2
    IN  IF At(s, parent) < At(s, i) THEN Exchanged(s, parent + 1, i + 1) ELSE s

Raised(s, size, i) ==
    LET parent == (i - 1) \div 2
        large == LargerChild(s, size, i)
    IN  IF At(s, parent) < At(s, large) THEN Exchanged(s, parent + 1, large + 1) ELSE s

BuildMaxheap(s, size) ==
    LET step(c, i) == Raised(c, size, i)
    IN  FoldLeft(step, s, [k \in 1 .. size \div 2 |-> size - 1 - 2 * (k - 1)])

DArray_heapsort(s) ==
    LET step(c, i) == BuildMaxheap(Exchanged(c, 1, i + 1), i)
    IN  FoldLeft(step, BuildMaxheap(s, Len(s)), [k \in 1 .. Len(s) - 1 |-> Len(s) - k])

-----------------------------------------------------------------------------
(* mergesort *)

\* The loops that copy what is left of one half: the one for the right half
\* counts the wrong index up and copies one element over and over.
RightRest(s, j, n) == [k \in 1 .. n |-> s[j]]
LeftRest(s, i, n) == SubSeq(s, i, i + n - 1)

\* merger; an element of the right half goes first only if it is smaller.
Merger(a, b) ==
    LET from[i \in 1 .. Len(a) + 1, j \in 1 .. Len(b) + 1] ==
            IF i > Len(a) THEN RightRest(b, j, Len(b) - j + 1)
            ELSE IF j > Len(b) THEN LeftRest(a, i, Len(a) - i + 1)
            ELSE IF a[i] > b[j] THEN <<b[j]>> \o from[i, j + 1]
            ELSE <<a[i]>> \o from[i + 1, j]
    IN  from[1, 1]

RECURSIVE Mergesort(_)
Mergesort(s) ==
    IF Len(s) <= 1 THEN s
    ELSE LET middle == Len(s) \div 2
         IN  Merger(Mergesort(SubSeq(s, 1, middle)), Mergesort(SubSeq(s, middle + 1, Len(s))))

=============================================================================
