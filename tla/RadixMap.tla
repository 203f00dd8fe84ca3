------------------------------ MODULE RadixMap ------------------------------
(***************************************************************************)
(* src/src/radixmap.c: an array of elements, a key and a value each, kept  *)
(* in the order of their keys by a radix sort of its last part.  A key is  *)
(* a number of Digits digits to the base Radix (4 and 256 in the code);    *)
(* the largest number marks what RadixMap_delete has thrown away.  "temp"  *)
(* is written before it is read in every sort, and is not kept here.       *)
(***************************************************************************)
EXTENDS Integers, Sequences, SequencesExt, Bags

CONSTANTS Key,          \* the keys callers use
          Value,        \* the values they add
          Radix, Digits,
          MaxElements,  \* RadixMap_create's argument
          Null

VARIABLES contents,     \* elements 0 .. end - 1 as a sequence
          out           \* the last call

vars == <<contents, out>>

KeyMax == Radix ^ Digits - 1     \* UINT32_MAX

Element(k, v) == [key |-> k, value |-> v]
Outcome(call, key, data) == [call |-> call, key |-> key, data |-> data, met |-> EmptyBag]

ByteOf(e, offset) == (e.key \div Radix ^ offset) % Radix

\* radix_sort: count[] says how many elements have a smaller digit, and is
\* counted up for every element placed.
RadixSorted(s, offset) ==
    LET place(i) == Cardinality({j \in DOMAIN s : ByteOf(s[j], offset) < ByteOf(s[i], offset)})
                  + Cardinality({j \in 1 .. i : ByteOf(s[j], offset) = ByteOf(s[i], offset)})
    IN  [p \in DOMAIN s |-> s[CHOOSE i \in DOMAIN s : place(i) = p]]

\* RadixMap_sort of the elements from start on, a pass for each digit.
Sorted(s, start) ==
    SubSeq(s, 1, start)
        \o FoldLeft(RadixSorted, SubSeq(s, start + 1, Len(s)), [d \in 1 .. Digits |-> d - 1])

KeyAt(s, i) == s[i + 1].key

\* RadixMap_find: the index of the element, or -1.
RadixMap_find(s, k) ==
    LET from[low \in 0 .. Len(s), high \in -1 .. Len(s) - 1] ==
            LET middle == low + (high - low) \div 2
            IN  IF low > high THEN -1
                ELSE IF k < KeyAt(s, middle) THEN from[low, middle - 1]
                ELSE IF k > KeyAt(s, middle) THEN from[middle + 1, high]
                ELSE middle
    IN  from[0, Len(s) - 1]

\* Mutant of SortKey: sorts from the last place looked at on.
SortKeyLate(s, k) ==
    LET from[begin \in 0 .. Len(s), end \in 0 .. Len(s), sortkey \in 0 .. Len(s)] ==
            LET middle == (begin + end) \div 2
            IN  IF begin >= end - 1 THEN sortkey
                ELSE IF k > KeyAt(s, middle) THEN from[middle, end, end]
                ELSE IF k < KeyAt(s, middle) THEN from[begin, middle, middle]
                ELSE middle
    IN  from[0, Len(s) - 1, 0]

\* Where the search of RadixMap_add in the array with the new element at its
\* end stops: the part from there on is sorted.
SortKey(s, k) ==
    LET from[begin \in 0 .. Len(s), end \in 0 .. Len(s), sortkey \in 0 .. Len(s)] ==
            LET middle == (begin + end) \div 2
            IN  IF begin >= end - 1 THEN sortkey
                ELSE IF k > KeyAt(s, middle) THEN from[middle, end, end - 1]
                ELSE IF k < KeyAt(s, middle) THEN from[begin, middle, middle - 1]
                ELSE middle
    IN  from[0, Len(s) - 1, 0]

-----------------------------------------------------------------------------
\* RadixMap_create
Init == /\ contents = <<>>
        /\ out = Outcome("create", Null, Null)

\* No line of radixmap.c compares end with max: callers do not add more than
\* they created the map for.
RadixMap_add(k, v) ==
    /\ Len(contents) < MaxElements
    /\ LET s == Append(contents, Element(k, v))
       IN  contents' = Sorted(s, SortKey(s, k))
    /\ out' = Outcome("set", k, v)

ValueAt(i) == IF i = -1 THEN Null ELSE contents[i + 1].value

Find(k) == /\ out' = Outcome("get", k, ValueAt(RadixMap_find(contents, k)))
           /\ UNCHANGED contents

\* RadixMap_delete of the element at index i: it gets the largest key, which
\* a sort of the whole array brings to the end.
Marked(s, i) == [s EXCEPT ![i + 1].key = KeyMax]

RadixMap_delete(k) ==
    LET i == RadixMap_find(contents, k)
        marked == Marked(contents, i)
    IN  /\ out' = Outcome("delete", k, ValueAt(i))
        /\ contents' = IF i = -1 THEN contents
                       ELSE Front(IF Len(contents) > 1 THEN Sorted(marked, 0) ELSE marked)

RadixMap_destroy == /\ contents' = <<>>
                    /\ out' = Outcome("destroy", Null, Null)

Next == \/ \E k \in Key, v \in Value : RadixMap_add(k, v)
        \/ \E k \in Key : Find(k) \/ RadixMap_delete(k)
        \/ RadixMap_destroy

Spec == Init /\ [][Next]_vars

-----------------------------------------------------------------------------
\* The keys are in order although an add sorts only the part from where its
\* search stopped (radixmap.c:101): what is below must not be above the new
\* key.  No deleted element is left.
KeysInOrder == /\ \A i \in 1 .. Len(contents) - 1 : contents[i].key <= contents[i + 1].key
               /\ \A i \in DOMAIN contents : contents[i].key \in Key

\* Every call is a call on a bag of entries: adds of a key that is there add
\* another, a find meets one if there is any, a delete takes that one.
EntriesOf(s) == FoldLeft(LAMBDA b, e : b (+) SetToBag({[key |-> e.key, data |-> e.value]}), EmptyBag, s)
Entries == INSTANCE EntryBag WITH entries <- EntriesOf(contents), Data <- [k \in Key |-> Value],
                                  NoData <- Null
IsEntryBag == Entries!Spec

=============================================================================
