------------------------------- MODULE DArray -------------------------------
(***************************************************************************)
(* struct DArray of src/src/lcthw/darray.h as a record                     *)
(* [end, max : Nat, contents : 0 .. max - 1 -> pointers], and the calls of *)
(* src/src/darray.c that Hashmap makes as operators on it.  element_size   *)
(* plays no part in them, and expand_rate is the constant ExpandRate.      *)
(***************************************************************************)
EXTENDS Integers

CONSTANTS ExpandRate,   \* DEFAULT_EXPAND_RATE
          WordSize,     \* sizeof(void *)
          Null,         \* the NULL pointer
          Junk          \* a cell as realloc leaves it: any pointer

ASSUME RateAssumption == ExpandRate \in Nat \ {0} /\ WordSize \in Nat \ {0}
ASSUME PointerAssumption == Null # Junk

Array(end, max, contents) == [end |-> end, max |-> max, contents |-> contents]

DArray_create(initial) == Array(0, initial, [i \in 0 .. initial - 1 |-> Null])

\* A store past the allocation is lost.
Put(a, i, el) == [a.contents EXCEPT ![i] = el]

\* realloc keeps what is below both sizes
DArray_resize(a, size) ==
    Array(a.end, size, [i \in 0 .. size - 1 |-> IF i \in DOMAIN a.contents THEN a.contents[i] ELSE Junk])

\* The memset is given a number of cells where it takes bytes: it clears the
\* first few of the new cells.
DArray_expand(a) ==
    LET b == DArray_resize(a, a.max + ExpandRate)
        cleared == (ExpandRate + 1) \div WordSize
    IN  [b EXCEPT !.contents = [i \in DOMAIN @ |->
            IF i >= a.max /\ i < a.max + cleared THEN Null ELSE @[i]]]

DArray_contract(a) ==
    DArray_resize(a, (IF a.end < ExpandRate THEN ExpandRate ELSE a.end) + 1)

\* Mutant of Full: notices one push too late.
FullLate(a) == a.end > a.max

Full(a) == a.end >= a.max

DArray_push(a, el) ==
    LET b == Array(a.end + 1, a.max, Put(a, a.end, el))
    IN  IF Full(b) THEN DArray_expand(b) ELSE b

\* The array after a pop; the element popped was DArray_last.
DArray_pop(a) ==
    LET b == Array(a.end - 1, a.max, Put(a, a.end - 1, Null))
    IN  IF b.end > ExpandRate /\ b.end % ExpandRate # 0 THEN DArray_contract(b) ELSE b

DArray_last(a) == a.contents[a.end - 1]

\* An element set past the end moves the end to it, not past it.
DArray_set(a, i, el) ==
    IF i \in 0 .. a.max - 1 THEN Array(IF i > a.end THEN i ELSE a.end, a.max, Put(a, i, el)) ELSE a

\* The elements in use
Elements(a) == {a.contents[i] : i \in 0 .. a.end - 1}

\* The new element goes down past every neighbour that cmp does not put below it.
DArray_push_sort(a, el, below) ==
    LET b == DArray_push(a, el)
        place == CHOOSE p \in 0 .. a.end :
                    /\ \A i \in p .. a.end - 1 : a.contents[i] \notin below
                    /\ p > 0 => a.contents[p - 1] \in below
    IN  [b EXCEPT !.contents = [i \in DOMAIN @ |->
            IF i = place THEN el
            ELSE IF i > place /\ i <= a.end THEN a.contents[i - 1]
            ELSE @[i]]]

=============================================================================
