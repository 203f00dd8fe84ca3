----------------------------- MODULE LinkedList -----------------------------
(***************************************************************************)
(* The doubly linked lists of src/src/list.c, with the queue and stack     *)
(* macros on them, and the sorts of src/src/list_algos.c.  "mem" is what   *)
(* malloc handed out: the nodes and lists in its domains are alive, and it *)
(* does not matter which one a call gets.  "held" are the lists callers    *)
(* know of.                                                                *)
(*                                                                         *)
(* LIST_FOREACH goes on while the node IS the one given as the end, where  *)
(* it should go on until it is: its body runs once on a list of one        *)
(* element and never on a longer one.                                      *)
(*                                                                         *)
(* "out" is the last call, with the lists and values it was given, and     *)
(* what it returned.                                                       *)
(***************************************************************************)
EXTENDS Integers, Sequences, SequencesExt

CONSTANTS Value,        \* what the lists hold, in the order of cmp
          NodeId,       \* the nodes that can be alive at once
          ListId,       \* the lists that can be alive at once
          Null          \* NULL

ASSUME NullAssumption == Null \notin NodeId \cup ListId

VARIABLES mem, held, out

vars == <<mem, held, out>>

NewList == [first |-> Null, last |-> Null, count |-> 0]

FreeNodes(m) == NodeId \ DOMAIN m.nodes
FreeLists(m) == ListId \ DOMAIN m.lists

With(f, k, v) == [i \in DOMAIN f \cup {k} |-> IF i = k THEN v ELSE f[i]]
Without(f, k) == [i \in DOMAIN f \ {k} |-> f[i]]

\* calloc of a list, and the frees of a node and of a list.
Listed(m, l) == [m EXCEPT !.lists = With(@, l, NewList)]
FreeNode(m, n) == [m EXCEPT !.nodes = Without(@, n)]
FreeList(m, l) == [m EXCEPT !.lists = Without(@, l)]

Returned(call, ret) == [call |-> call, ret |-> ret]

\* The nodes LIST_FOREACH(l, first, last, next, cur) runs its body for.
Visits(from, to) == IF from = to /\ from # Null THEN <<from>> ELSE <<>>

-----------------------------------------------------------------------------
(* The calls, as operators on the memory *)

Unshifted(m, l, v, n) ==
    LET first == m.lists[l].first
        linked == With(m.nodes, n, [next |-> first, prev |-> Null, value |-> v])
    IN  IF first = Null
        THEN [nodes |-> linked,
              lists |-> [m.lists EXCEPT ![l] = [first |-> n, last |-> n, count |-> @.count + 1]]]
        ELSE [nodes |-> [linked EXCEPT ![first].prev = n],
              lists |-> [m.lists EXCEPT ![l].first = n, ![l].count = @ + 1]]

Pushed(m, l, v, n) ==
    LET last == m.lists[l].last
        linked == With(m.nodes, n, [next |-> Null, prev |-> last, value |-> v])
    IN  IF last = Null
        THEN [nodes |-> linked,
              lists |-> [m.lists EXCEPT ![l] = [first |-> n, last |-> n, count |-> @.count + 1]]]
        ELSE [nodes |-> [linked EXCEPT ![last].next = n],
              lists |-> [m.lists EXCEPT ![l].last = n, ![l].count = @ + 1]]

\* Mutant of Unlinked: a node in the middle is bridged in one direction only.
UnlinkedOneWay(m, l, n) ==
    LET next == m.nodes[n].next
        prev == m.nodes[n].prev
    IN  CASE next = Null /\ prev = Null -> [m EXCEPT !.lists[l].first = Null, !.lists[l].last = Null]
          [] next = Null /\ prev # Null -> [m EXCEPT !.lists[l].last = prev, !.nodes[prev].next = Null]
          [] next # Null /\ prev = Null -> [m EXCEPT !.lists[l].first = next, !.nodes[next].prev = Null]
          [] next # Null /\ prev # Null -> [m EXCEPT !.nodes[prev].next = next]

Unlinked(m, l, n) ==
    LET next == m.nodes[n].next
        prev == m.nodes[n].prev
    IN  CASE next = Null /\ prev = Null -> [m EXCEPT !.lists[l].first = Null, !.lists[l].last = Null]
          [] next = Null /\ prev # Null -> [m EXCEPT !.lists[l].last = prev, !.nodes[prev].next = Null]
          [] next # Null /\ prev = Null -> [m EXCEPT !.lists[l].first = next, !.nodes[next].prev = Null]
          [] next # Null /\ prev # Null -> [m EXCEPT !.nodes[next].prev = prev, !.nodes[prev].next = next]

Removed(m, l, n) == [FreeNode(Unlinked(m, l, n), n) EXCEPT !.lists[l].count = @ - 1]

\* List_shift, and the value it returns.
Shifted(m, l) == IF m.lists[l].first = Null THEN m ELSE Removed(m, l, m.lists[l].first)
FirstValue(m, l) == IF m.lists[l].first = Null THEN Null ELSE m.nodes[m.lists[l].first].value
LastValue(m, l) == IF m.lists[l].last = Null THEN Null ELSE m.nodes[m.lists[l].last].value

\* The nodes of a list, from first on, as far as its count says.
After(m, n) == IF n \in DOMAIN m.nodes THEN m.nodes[n].next ELSE Null
Chain(m, l) ==
    LET n == m.lists[l].count
        node[i \in 1 .. n] == IF i = 1 THEN m.lists[l].first ELSE After(m, node[i - 1])
    IN  [i \in 1 .. n |-> node[i]]

-----------------------------------------------------------------------------
(* list_algos.c *)

\* What the check of List_merge, of one argument "list1 || list2", comes to
\* when only its first operand is negated.
MergeRefused(l1, l2) == l1 = Null \/ l2 # Null

\* The list List_merge returns, and the memory it leaves.
MergeResult(m, l1, l2) ==
    IF MergeRefused(l1, l2) THEN Null
    ELSE IF m.lists[l1].first = Null /\ m.lists[l2].first # Null THEN l2 ELSE l1

Merged(m, l1, l2) ==
    LET a == m.lists[l1]
        b == m.lists[l2]
    IN  IF MergeRefused(l1, l2) \/ a.first = Null \/ b.first = Null THEN m
        ELSE FreeList([m EXCEPT !.nodes[b.first].prev = a.last, !.nodes[a.last].next = b.first,
                                !.lists[l1].last = b.last], l2)

\* The loop of merge_and_sort moves the larger of two first values to "to",
\* until one list is empty; the node it frees is the next one it allocates.
MovedLarger(m, l1, l2, to) ==
    LET from == IF FirstValue(m, l1) > FirstValue(m, l2) THEN l1 ELSE l2
    IN  IF m.lists[l1].first = Null \/ m.lists[l2].first = Null THEN m
        ELSE Pushed(Shifted(m, from), to, FirstValue(m, from), m.lists[from].first)

AllMoved(m, l1, l2, to) ==
    LET n == m.lists[l1].count + m.lists[l2].count
        moved[i \in 0 .. n] ==
            IF i = 0 THEN Listed(m, to) ELSE MovedLarger(moved[i - 1], l1, l2, to)
    IN  moved[n]

\* What is left over goes to List_merge, whose result is the sort's.
LeftOver(m, l1, l2) == {l \in {l1, l2} : m.lists[l].first # Null}

MergeAndSortResult(m, l1, l2, to) ==
    IF \E l \in LeftOver(m, l1, l2) : MergeRefused(to, l) THEN Null ELSE to

-----------------------------------------------------------------------------
Init == /\ mem = [nodes |-> <<>>, lists |-> <<>>]
        /\ held = {}
        /\ out = Returned(<<"none">>, Null)

List_create ==
    \E l \in FreeLists(mem) :
        /\ mem' = Listed(mem, l)
        /\ held' = held \cup {l}
        /\ out' = Returned(<<"create">>, l)

\* The loop frees nothing: the only node it may see has no prev.
List_destroy(l) ==
    /\ mem' = FreeList(FreeNode(mem, mem.lists[l].last), l)
    /\ held' = held \ {l}
    /\ out' = Returned(<<"destroy", l>>, Null)

\* The loop that is to free every value and node runs on a list of one
\* element, whose list it frees as well; any other list stays as it is.
List_clear_destroy(l) ==
    /\ mem' = IF Visits(mem.lists[l].first, mem.lists[l].last) # <<>>
              THEN FreeList(FreeNode(mem, mem.lists[l].last), l)
              ELSE mem
    /\ held' = {k \in held : k \in DOMAIN mem'.lists}
    /\ out' = Returned(<<"clear_destroy", l>>, Null)

List_push(l, v) ==
    /\ \E n \in FreeNodes(mem) : mem' = Pushed(mem, l, v, n)
    /\ out' = Returned(<<"push", l, v>>, Null)
    /\ UNCHANGED held

List_unshift(l, v) ==
    /\ \E n \in FreeNodes(mem) : mem' = Unshifted(mem, l, v, n)
    /\ out' = Returned(<<"unshift", l, v>>, Null)
    /\ UNCHANGED held

List_pop(l) ==
    /\ mem' = IF mem.lists[l].last = Null THEN mem ELSE Removed(mem, l, mem.lists[l].last)
    /\ out' = Returned(<<"pop", l>>, LastValue(mem, l))
    /\ UNCHANGED held

\* List_shift, and Queue_recv, whose check refuses the NULL of an empty list.
List_shift(l) ==
    /\ mem' = Shifted(mem, l)
    /\ out' = Returned(<<"shift", l>>, FirstValue(mem, l))
    /\ UNCHANGED held

\* Of the node that is the i-th of its list.
List_remove(l, i) ==
    LET n == Chain(mem, l)[i]
    IN  /\ mem' = Removed(mem, l, n)
        /\ out' = Returned(<<"remove", l, i>>, mem.nodes[n].value)
        /\ UNCHANGED held

\* List_first and Queue_peek; List_last and Stack_peek.
List_first(l) == out' = Returned(<<"first", l>>, FirstValue(mem, l)) /\ UNCHANGED <<mem, held>>
List_last(l) == out' = Returned(<<"last", l>>, LastValue(mem, l)) /\ UNCHANGED <<mem, held>>

List_merge(l1, l2) ==
    /\ l1 # l2
    /\ out' = Returned(<<"merge", l1, l2>>, MergeResult(mem, l1, l2))
    /\ mem' = Merged(mem, l1, l2)
    /\ held' = held \cap DOMAIN mem'.lists

\* The outer LIST_FOREACH starts at last and ends unless that is first.
List_bubble_sort(l) ==
    /\ mem.lists[l].count <= 1 \/ Visits(mem.lists[l].last, mem.lists[l].first) = <<>>
    /\ out' = Returned(<<"bubble_sort", l>>, Null)
    /\ UNCHANGED <<mem, held>>

\* A value goes into an empty list, or behind a single smaller one; any other
\* is dropped.
List_insert_sorted(l, v) ==
    /\ LET L == mem.lists[l]
       IN  IF L.first = Null \/ (Visits(L.last, L.first) # <<>> /\ v > mem.nodes[L.last].value)
           THEN \E n \in FreeNodes(mem) : mem' = Pushed(mem, l, v, n)
           ELSE UNCHANGED mem
    /\ out' = Returned(<<"insert_sorted", l, v>>, Null)
    /\ UNCHANGED held

\* The loop that would cut the list into runs does not run: what Merge_sort
\* gets is one list with the first value.
List_merge_sort(l) ==
    IF mem.lists[l].count <= 1
    THEN out' = Returned(<<"merge_sort", l>>, l) /\ UNCHANGED <<mem, held>>
    ELSE /\ Visits(mem.lists[l].first, mem.lists[l].last) = <<>>
         /\ \E new \in FreeLists(mem), n \in FreeNodes(mem) :
               /\ mem' = Pushed(Listed(mem, new), new, FirstValue(mem, l), n)
               /\ held' = held \cup {new}
               /\ out' = Returned(<<"merge_sort", l>>, new)

\* Merge_sort of two lists; of one it returns the list.
Merge_sort(l1, l2) ==
    /\ l1 # l2
    /\ \E to \in FreeLists(mem) :
          LET moved == AllMoved(mem, l1, l2, to)
          IN  /\ mem' = moved
              /\ out' = Returned(<<"Merge_sort", l1, l2>>, MergeAndSortResult(moved, l1, l2, to))
              /\ held' = IF out'.ret = to THEN held \cup {to} ELSE held

Next == \/ List_create
        \/ \E l \in held :
              \/ List_destroy(l)
              \/ List_clear_destroy(l)
              \/ \E v \in Value : \/ List_push(l, v)
                                  \/ List_unshift(l, v)
                                  \/ List_insert_sorted(l, v)
              \/ List_pop(l)
              \/ List_shift(l)
              \/ \E i \in DOMAIN Chain(mem, l) : List_remove(l, i)
              \/ List_first(l)
              \/ List_last(l)
              \/ List_bubble_sort(l)
              \/ List_merge_sort(l)
              \/ \E k \in held : List_merge(l, k) \/ Merge_sort(l, k)

Spec == Init /\ [][Next]_vars

-----------------------------------------------------------------------------
ValueAt(m, n) == IF n \in DOMAIN m.nodes THEN m.nodes[n].value ELSE Null
Values(m, l) == [i \in DOMAIN Chain(m, l) |-> ValueAt(m, Chain(m, l)[i])]

\* The nodes of the lists callers hold, and the ones nothing leads to.
InLists == UNION {Range(Chain(mem, l)) : l \in held}
Orphans == DOMAIN mem.nodes \ InLists

\* Pointers are to nodes or NULL.
Node == [next : NodeId \cup {Null}, prev : NodeId \cup {Null}, value : Value]
List == [first : NodeId \cup {Null}, last : NodeId \cup {Null}, count : Nat]
Typed(m) ==
    /\ m = [nodes |-> m.nodes, lists |-> m.lists]
    /\ DOMAIN m.nodes \subseteq NodeId /\ m.nodes \in [DOMAIN m.nodes -> Node]
    /\ DOMAIN m.lists \subseteq ListId /\ m.lists \in [DOMAIN m.lists -> List]

TypeOK ==
    /\ Typed(mem) /\ held \subseteq DOMAIN mem.lists
    /\ out.ret \in Value \cup ListId \cup {Null}

\* c is the way through list l, from first to last and back.
Leads(m, l, c) ==
    LET n == m.lists[l].count
    IN  /\ m.lists[l].first = IF n = 0 THEN Null ELSE c[1]
        /\ m.lists[l].last = IF n = 0 THEN Null ELSE c[n]
        /\ \A i \in 1 .. n :
              /\ c[i] \in DOMAIN m.nodes
              /\ m.nodes[c[i]].next = IF i = n THEN Null ELSE c[i + 1]
              /\ m.nodes[c[i]].prev = IF i = 1 THEN Null ELSE c[i - 1]

\* From first, next leads through as many nodes as count says to last, prev
\* leads back, none of them is freed, and no two lists share one: every
\* traversal of list.c, queue.h and stack.h, in either direction, relies on it.
Linked(m) ==
    /\ \A l \in DOMAIN m.lists : Leads(m, l, Chain(m, l))
    /\ \A l, k \in DOMAIN m.lists :
          l # k => \A i \in DOMAIN Chain(m, l), j \in DOMAIN Chain(m, k) :
                       Chain(m, l)[i] # Chain(m, k)[j]

\* next and prev lead through the counted nodes of each list, and no two
\* lists share one, whatever calls came before, the sorts included (list.c).
ListsWellLinked == TypeOK /\ Linked(mem)

\* Nodes get lost in two places only: a destroy frees the last node of a
\* list and leaves the others, and Merge_sort drops the list it had filled.
\* (A clear_destroy of a longer list frees nothing, and the caller keeps it.)
LeaksOnlyBy ==
    [][CASE out'.call[1] = "destroy" ->
                 \E l \in held \ held' :
                    Orphans' = Orphans \cup (Range(Chain(mem, l)) \ {mem.lists[l].last})
         [] out'.call[1] = "Merge_sort" ->
                 Orphans \subseteq Orphans' /\ (Orphans' # Orphans => out'.ret = Null)
         [] OTHER -> Orphans' = Orphans]_vars

\* Whatever calls came before, each call of list.c and list_algos.c does to the
\* list it was given what Deques says of that call: pushes and pops at their
\* end, a remove anywhere, queue and stack order, and the little that the
\* sorts do.
Sequence == INSTANCE Deques WITH seqs <- [l \in held |-> Values(mem, l)]
IsDeques == Sequence!Spec

\* Each call on lists is its call on sequences, whatever calls came before it,
\* and only a destroy of a longer list and Merge_sort lose nodes (list.c:43,
\* list_algos.c:38).
ListsAreSequences == IsDeques /\ LeaksOnlyBy
=============================================================================
