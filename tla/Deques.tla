------------------------------- MODULE Deques -------------------------------
(***************************************************************************)
(* What the calls of list.c and list_algos.c do, in terms of the values    *)
(* their caller sees: each list is a sequence that grows and shrinks at    *)
(* both ends, and from which any element can be taken.  "out" is the last  *)
(* call, with the lists and values it was given, and what it returned.     *)
(*                                                                         *)
(* A clear_destroy of a longer list does nothing, and of the sorts and     *)
(* merges only what is below; none of them sorts a list in place.          *)
(***************************************************************************)
EXTENDS Integers, Sequences, SequencesExt

CONSTANTS ListId, Value, Null

VARIABLES seqs, out

vars == <<seqs, out>>

Returned(call, ret) == [call |-> call, ret |-> ret]
Grown(l, s) == [k \in DOMAIN seqs \cup {l} |-> IF k = l THEN s ELSE seqs[k]]
Shrunk(l) == [k \in DOMAIN seqs \ {l} |-> seqs[k]]
Dropped(s, n) == SubSeq(s, n + 1, Len(s))

Init == seqs = <<>> /\ out = Returned(<<"none">>, Null)

-----------------------------------------------------------------------------
(* list.c *)

Create(l) == /\ l \notin DOMAIN seqs
             /\ seqs' = Grown(l, <<>>)
             /\ out' = Returned(<<"create">>, l)

Destroy(l) == /\ seqs' = Shrunk(l)
              /\ out' = Returned(<<"destroy", l>>, Null)

ClearDestroy(l) == /\ seqs' = IF Len(seqs[l]) = 1 THEN Shrunk(l) ELSE seqs
                   /\ out' = Returned(<<"clear_destroy", l>>, Null)

Push(l, v) == /\ seqs' = [seqs EXCEPT ![l] = Append(@, v)]
              /\ out' = Returned(<<"push", l, v>>, Null)

Unshift(l, v) == /\ seqs' = [seqs EXCEPT ![l] = <<v>> \o @]
                 /\ out' = Returned(<<"unshift", l, v>>, Null)

\* The i-th element goes to the caller; of an empty list, NULL.
Take(call, l, i) == /\ seqs[l] # <<>>
                    /\ seqs' = [seqs EXCEPT ![l] = RemoveAt(@, i)]
                    /\ out' = Returned(call, seqs[l][i])
Look(call, l, i) == /\ out' = Returned(call, IF seqs[l] = <<>> THEN Null ELSE seqs[l][i])
                    /\ UNCHANGED seqs
TakeOrNull(call, l, i) == Take(call, l, i) \/ (seqs[l] = <<>> /\ Look(call, l, i))

Pop(l) == TakeOrNull(<<"pop", l>>, l, Len(seqs[l]))
Shift(l) == TakeOrNull(<<"shift", l>>, l, 1)
RemoveNth(l, i) == Take(<<"remove", l, i>>, l, i)
LookFirst(l) == Look(<<"first", l>>, l, 1)
LookLast(l) == Look(<<"last", l>>, l, Len(seqs[l]))

-----------------------------------------------------------------------------
(* list_algos.c *)

\* Neither finds anything to do.
Merge(l, k) == out' = Returned(<<"merge", l, k>>, Null) /\ UNCHANGED seqs
BubbleSort(l) == out' = Returned(<<"bubble_sort", l>>, Null) /\ UNCHANGED seqs

\* Only into an empty list, or behind a single smaller value.
InsertSorted(l, v) ==
    /\ seqs' = [seqs EXCEPT ![l] = IF @ = <<>> \/ (Len(@) = 1 /\ v > @[1]) THEN Append(@, v) ELSE @]
    /\ out' = Returned(<<"insert_sorted", l, v>>, Null)

\* A list of the first value, when there are several.
MergeSort(l) ==
    \/ /\ Len(seqs[l]) <= 1
       /\ out' = Returned(<<"merge_sort", l>>, l) /\ UNCHANGED seqs
    \/ /\ Len(seqs[l]) > 1
       /\ \E new \in ListId \ DOMAIN seqs :
             /\ seqs' = Grown(new, <<seqs[l][1]>>)
             /\ out' = Returned(<<"merge_sort", l>>, new)

\* Of two empty lists, a new one.  Else one list is emptied and the other
\* loses some of its first values, and they are not seen again.
MergeSortTwo(l, k) ==
    \/ /\ seqs[l] = <<>> /\ seqs[k] = <<>>
       /\ \E new \in ListId \ DOMAIN seqs :
             /\ seqs' = Grown(new, <<>>)
             /\ out' = Returned(<<"Merge_sort", l, k>>, new)
    \/ /\ out' = Returned(<<"Merge_sort", l, k>>, Null)
       /\ \E i \in 0 .. Len(seqs[l]), j \in 0 .. Len(seqs[k]) :
             /\ ~ (i = Len(seqs[l]) <=> j = Len(seqs[k]))
             /\ seqs' = [seqs EXCEPT ![l] = Dropped(@, i), ![k] = Dropped(@, j)]

-----------------------------------------------------------------------------
Next == \/ \E l \in ListId : Create(l)
        \/ \E l \in DOMAIN seqs :
              \/ Destroy(l) \/ ClearDestroy(l)
              \/ \E v \in Value : Push(l, v) \/ Unshift(l, v) \/ InsertSorted(l, v)
              \/ Pop(l) \/ Shift(l)
              \/ \E i \in DOMAIN seqs[l] : RemoveNth(l, i)
              \/ LookFirst(l) \/ LookLast(l)
              \/ BubbleSort(l) \/ MergeSort(l)
              \/ \E k \in DOMAIN seqs : l # k /\ (Merge(l, k) \/ MergeSortTwo(l, k))

Spec == Init /\ [][Next]_vars
=============================================================================
