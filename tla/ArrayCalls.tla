----------------------------- MODULE ArrayCalls -----------------------------
(***************************************************************************)
(* One DArray under every call of src/src/darray.c, src/src/lcthw/darray.h *)
(* and src/src/darray_algos.c that a caller may make: the operators of     *)
(* DArray and of ArraySorts as actions.  An element is a pointer to a      *)
(* number that cmp compares; its element_size is not 0, so that            *)
(* DArray_clear frees the elements.                                        *)
(*                                                                         *)
(* "fault" is the undefined behaviour met, which ends a behaviour.         *)
(***************************************************************************)
EXTENDS DArray, ArraySorts

CONSTANTS Value,        \* the elements
          Initial,      \* initial_max
          MaxEnd        \* bound on the elements in use

VARIABLES array, out, fault,
          resized,      \* the array has been expanded or contracted
          merged        \* a mergesort has replaced the cells since then

vars == <<array, out, fault, resized, merged>>

Returned(call, ret) == [call |-> call, ret |-> ret]

\* The elements in use, in order.
InUse(a) == [i \in 1 .. a.end |-> IF i - 1 \in DOMAIN a.contents THEN a.contents[i - 1] ELSE Junk]

\* cmp follows each element.
Comparable(a) == \A i \in 1 .. a.end : InUse(a)[i] \in Value

WithElements(a, s) ==
    [a EXCEPT !.contents = [i \in DOMAIN @ |-> IF i < a.end THEN s[i + 1] ELSE @[i]]]

Init == /\ array = DArray_create(Initial)
        /\ out = Returned("create", Null)
        /\ fault = "none"
        /\ resized = FALSE /\ merged = FALSE

Changed(a, o) == /\ array' = a
                 /\ out' = o
                 /\ resized' = (resized \/ a.max # array.max)
                 /\ merged' = (merged /\ DOMAIN a.contents = DOMAIN array.contents)
                 /\ UNCHANGED fault

Same(o) == out' = o /\ UNCHANGED <<array, fault, resized, merged>>

Faults(what) == fault' = what /\ UNCHANGED <<array, out, resized, merged>>

\* A push stores before it looks at the size.
Push(v) == IF array.end \in DOMAIN array.contents
           THEN Changed(DArray_push(array, v), Returned("push", Null))
           ELSE Faults("overrun")

PushSort(v) == /\ Comparable(array)
               /\ IF array.end \in DOMAIN array.contents
                  THEN Changed(DArray_push_sort(array, v, {x \in Value : x < v}),
                               Returned("push_sort", Null))
                  ELSE Faults("overrun")

\* What the check of DArray_pop comes to: only an empty array is refused.
Pop == IF array.end = 0
       THEN Same(Returned("pop", Null))
       ELSE Changed(DArray_pop(array), Returned("pop", DArray_last(array)))

SetAt(i, v) == IF i < array.max /\ i \notin DOMAIN array.contents
               THEN Faults("overrun")
               ELSE Changed(DArray_set(array, i, v), Returned("set", Null))

GetAt(i) == Same(Returned("get", IF i < array.max /\ i \in DOMAIN array.contents
                                 THEN array.contents[i] ELSE Null))

RemoveAtCell(i) == Changed([array EXCEPT !.contents[i] = Null],
                           Returned("remove", array.contents[i]))

Expand == Changed(DArray_expand(array), Returned("expand", Null))
Contract == Changed(DArray_contract(array), Returned("contract", Null))

\* DArray_clear_destroy, and a new array: clear frees every cell up to max
\* that is not NULL, in use or not.
ClearDestroy ==
    IF \E i \in 0 .. array.max - 1 : i \notin DOMAIN array.contents \/ array.contents[i] = Junk
    THEN Faults("junk freed")
    ELSE /\ array' = DArray_create(Initial)
         /\ out' = Returned("create", Null)
         /\ resized' = FALSE /\ merged' = FALSE
         /\ UNCHANGED fault

Search(v) == Comparable(array) /\ Same(Returned("bin_search", <<v, DArray_bin_search(InUse(array), v)>>))

Qsort == /\ Comparable(array)
         /\ Changed(WithElements(array, DArray_qsort(InUse(array))), Returned("qsort", Null))

Heapsort == /\ Comparable(array)
            /\ Changed(WithElements(array, DArray_heapsort(InUse(array))), Returned("heapsort", Null))

\* The sorted cells take the place of the array's, as many as were in use;
\* max stays.  An array of one element keeps its own.
DArray_mergesort ==
    /\ Comparable(array)
    /\ out' = Returned("mergesort", Null)
    /\ array' = IF array.end <= 1 THEN array
                ELSE LET s == Mergesort(InUse(array))
                     IN  [array EXCEPT !.contents = [i \in 0 .. array.end - 1 |-> s[i + 1]]]
    /\ merged' = (merged \/ DOMAIN array'.contents # DOMAIN array.contents)
    /\ UNCHANGED <<fault, resized>>

Next == /\ fault = "none"
        /\ \/ \E v \in Value : array.end < MaxEnd /\ (Push(v) \/ PushSort(v))
           \/ Pop
           \/ \E i \in 0 .. MaxEnd - 1, v \in Value : SetAt(i, v)
           \/ \E i \in 0 .. MaxEnd : GetAt(i)
           \/ \E i \in 0 .. array.end - 1 : i \in DOMAIN array.contents /\ RemoveAtCell(i)
           \/ array.max <= MaxEnd /\ Expand
           \/ Contract
           \/ ClearDestroy
           \/ \E v \in Value : Search(v)
           \/ Qsort \/ Heapsort \/ DArray_mergesort

Spec == Init /\ [][Next]_vars

-----------------------------------------------------------------------------
Ascending(s) == \A i \in 1 .. Len(s) - 1 : s[i] <= s[i + 1]
Descending(s) == \A i \in 1 .. Len(s) - 1 : s[i] >= s[i + 1]
Occurrences(s, v) == Cardinality({i \in DOMAIN s : s[i] = v})
SameElements(s, t) == \A v \in Value : Occurrences(s, v) = Occurrences(t, v)

\* The only faults there are: a store behind the cells of a mergesort, which
\* keeps max and shrinks the allocation (darray_algos.c:131), and a clear of
\* an array some of whose cells a resize left unwritten (darray.c:63).
FaultsAreKnown == /\ fault = "overrun" => merged
                  /\ fault = "junk freed" => merged \/ resized

\* While no mergesort has replaced them there are max cells, and the next push
\* has one: DArray_push relies on it.
PushInBounds == ~merged => DOMAIN array.contents = 0 .. array.max - 1 /\ array.end < array.max

\* Whatever the array went through, a push appends, a pop gives the last
\* element back and removes it, a sorted push into an ascending array keeps
\* it ascending, a set below the end changes one element, and growing and
\* shrinking change none.
IsArray ==
    [][LET old == InUse(array)
           new == InUse(array')
       IN  CASE fault' # "none" -> TRUE
             [] out'.call = "push" -> \E v \in Value : new = Append(old, v)
             [] out'.call = "pop" -> IF old = <<>> THEN new = old /\ out'.ret = Null
                                     ELSE new = Front(old) /\ out'.ret = Last(old)
             [] out'.call = "push_sort" ->
                   Ascending(old) => Ascending(new) /\ Len(new) = Len(old) + 1
             [] out'.call = "set" -> Len(new) = Len(old) => \E i \in DOMAIN old \cup {0} :
                   \A k \in DOMAIN old : k # i => new[k] = old[k]
             [] out'.call \in {"get", "bin_search", "expand", "contract"} -> new = old
             [] OTHER -> TRUE]_vars

\* qsort and heapsort put the elements in order and lose none.  A mergesort
\* puts cells in order that hold nothing else than the elements; it keeps
\* every one only while a half never has two of them left over at the right.
Sorts ==
    [][LET old == InUse(array)
           new == InUse(array')
       IN  /\ out'.call \in {"qsort", "heapsort"} => Ascending(new) /\ SameElements(old, new)
           /\ out'.call = "mergesort" =>
                 /\ Ascending(new)
                 /\ ToSet(new) \subseteq ToSet(old)
                 /\ Len(old) <= 2 => SameElements(old, new)]_vars

\* DArray_bin_search looks in descending order (darray.c:16): what it returns
\* holds the element in any array, and in a descending one it finds it.
SearchDescends ==
    out.call = "bin_search" =>
        LET v == out.ret[1]
            i == out.ret[2]
        IN  /\ i # -1 => InUse(array)[i + 1] = v
            /\ Descending(InUse(array)) /\ i = -1 => v \notin ToSet(InUse(array))

=============================================================================
