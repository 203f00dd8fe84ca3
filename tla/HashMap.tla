------------------------------ MODULE HashMap ------------------------------
(***************************************************************************)
(* src/src/hashmap.c: nodes in buckets, each a DArray that a set keeps in  *)
(* the order of the keys and a get searches by halves.                     *)
(*                                                                         *)
(* A key is a number that stands for its place in bstrcmp's order, with    *)
(* which compare_node sorts and, unless the map is given another, the      *)
(* search compares.  A node is the number malloc names it by, so a freed   *)
(* one may come back; one whose key compares equal has the same hash.      *)
(***************************************************************************)
EXTENDS DArray, Functions

CONSTANTS Key,
          Data,         \* Data[k]: what users set under k
          HashOf,       \* HashOf[k]: the hash function
          Buckets,      \* DEFAULT_NUMBER_OF_BUCKETS
          InitialMax,   \* the size a bucket is created with
          MaxNodes      \* bound on the nodes alive at once

ASSUME KeyAssumption == Key \subseteq Int /\ HashOf \in [Key -> Nat]
ASSUME SizeAssumption == Buckets \in Nat \ {0} /\ InitialMax \in Nat \ {0} /\ MaxNodes \in Nat
ASSUME NodeAssumption == /\ Null \notin 1 .. MaxNodes \cup Key \cup UNION {Data[k] : k \in Key}
                         /\ Junk \notin 1 .. MaxNodes

\* The cells an array of the map may come to have: a bucket's nodes and what
\* an expansion or a contraction leaves beyond them.
MaxCells == InitialMax + MaxNodes + ExpandRate + 1
Pointer == 1 .. MaxNodes \cup {Null, Junk}

\* NULL points to no array.
ASSUME BucketAssumption ==
    \A size \in 0 .. MaxCells : Null \notin [end : Nat, max : Nat, contents : [0 .. size - 1 -> Pointer]]

VARIABLES buckets,      \* the map's array of buckets, each Null or a DArray;
                        \* empty while there is no map
          heap,         \* the live nodes: [key, data]
          out           \* the last call: [call, key, data, keys]

vars == <<buckets, heap, out>>

Outcome(call, key, data, keys) == [call |-> call, key |-> key, data |-> data, keys |-> keys]

NoMap == <<>>
NewMap == [b \in 0 .. Buckets - 1 |-> Null]

Init == buckets = NewMap /\ heap = <<>> /\ out = Outcome("create", Null, Null, {})

-----------------------------------------------------------------------------
BucketOf(k) == HashOf[k] % Buckets

\* Hashmap_find_bucket(map, k, 1, ...)
Bucket(k) == IF buckets[BucketOf(k)] = Null THEN DArray_create(InitialMax)
                                            ELSE buckets[BucketOf(k)]

\* Mutant of Hashmap_get_node: where the key belongs, whether or not it is there.
GetNodeNear(a, k) ==
    LET below == {i \in 0 .. a.end - 1 : heap[a.contents[i]].key <= k}
    IN  IF below = {} THEN -1 ELSE CHOOSE i \in below : \A j \in below : j <= i

\* The search by halves, of a bucket in any order.
Hashmap_get_node(a, k) ==
    LET Probe[half \in (0 .. a.end) \X (-1 .. a.end - 1)] ==
          LET start == half[1]
              end == half[2]
              middle == start + (end - start) \div 2
              at == heap[a.contents[middle]].key
          IN  IF start > end THEN -1
              ELSE IF at = k THEN middle
              ELSE IF at < k THEN Probe[<<middle + 1, end>>]
              ELSE Probe[<<start, middle - 1>>]
    IN  Probe[<<0, a.end - 1>>]

Place(k) == IF buckets[BucketOf(k)] = Null THEN -1 ELSE Hashmap_get_node(buckets[BucketOf(k)], k)

NodeAt(k) == buckets[BucketOf(k)].contents[Place(k)]

\* Some node malloc returns: always the same one, the bound being on how many.
Fresh == CHOOSE n \in 1 .. MaxNodes : n \notin DOMAIN heap

Hashmap_create == /\ buckets = NoMap
                  /\ buckets' = NewMap
                  /\ out' = Outcome("create", Null, Null, {})
                  /\ UNCHANGED heap

Hashmap_set(k, d) ==
    LET node == [key |-> k, data |-> d]
        nodes == [n \in DOMAIN heap \cup {Fresh} |-> IF n = Fresh THEN node ELSE heap[n]]
        below == {n \in DOMAIN heap : heap[n].key < k}    \* compare_node
    IN  /\ buckets # NoMap
        /\ out' = Outcome("set", k, d, {})
        /\ \/ /\ Place(k) >= 0
              /\ heap' = [heap EXCEPT ![NodeAt(k)].data = d]
              /\ UNCHANGED buckets
           \/ /\ Place(k) = -1
              /\ DOMAIN heap # 1 .. MaxNodes
              /\ heap' = nodes
              /\ buckets' = [buckets EXCEPT ![BucketOf(k)] =
                                DArray_push_sort(Bucket(k), Fresh, below)]

DataAt(k) == IF Place(k) = -1 THEN Null ELSE heap[NodeAt(k)].data

Hashmap_get(k) == /\ buckets # NoMap
                  /\ out' = Outcome("get", k, DataAt(k), {})
                  /\ UNCHANGED <<buckets, heap>>

\* Mutant of Emptied: the last node is not moved.
EmptiedNotMoved(a, i) == DArray_pop(a)

\* The last node is popped and, unless it is the one that goes, takes its place.
Emptied(a, i) ==
    LET last == DArray_last(a)
    IN  IF last = a.contents[i] THEN DArray_pop(a) ELSE DArray_set(DArray_pop(a), i, last)

Hashmap_delete(k) ==
    /\ buckets # NoMap
    /\ out' = Outcome("delete", k, DataAt(k), {})
    /\ IF Place(k) = -1 THEN UNCHANGED <<buckets, heap>>
       ELSE /\ heap' = Restrict(heap, DOMAIN heap \ {NodeAt(k)})
            /\ buckets' = [buckets EXCEPT ![BucketOf(k)] = Emptied(@, Place(k))]

\* The nodes of all buckets
Stored == UNION {Elements(buckets[b]) : b \in {b \in DOMAIN buckets : buckets[b] # Null}}

\* With a callback that returns 0 every time
Hashmap_traverse == /\ buckets # NoMap
                    /\ out' = Outcome("traverse", Null, Null, {heap[n].key : n \in Stored})
                    /\ UNCHANGED <<buckets, heap>>

Hashmap_destroy == /\ buckets # NoMap
                   /\ heap' = Restrict(heap, DOMAIN heap \ Stored)
                   /\ buckets' = NoMap
                   /\ out' = Outcome("destroy", Null, Null, {})

Next == \/ \E k \in Key : \/ \E d \in Data[k] : Hashmap_set(k, d)
                          \/ Hashmap_get(k) \/ Hashmap_delete(k)
        \/ Hashmap_create \/ Hashmap_traverse \/ Hashmap_destroy

Spec == Init /\ [][Next]_vars

-----------------------------------------------------------------------------
Live == {b \in DOMAIN buckets : buckets[b] # Null}

TypeOK == /\ DOMAIN heap \subseteq 1 .. MaxNodes
          /\ \A n \in DOMAIN heap : heap[n].key \in Key /\ heap[n].data \in Data[heap[n].key]
          /\ \A b \in Live :
               /\ buckets[b].end \in Nat /\ buckets[b].max \in Nat
               /\ DOMAIN buckets[b].contents = 0 .. buckets[b].max - 1
               /\ Range(buckets[b].contents) \subseteq Pointer

\* DArray_push stores first and looks at the size afterwards (darray.c:84-86):
\* every call leaves it a cell, after any mixture of expansions by
\* ExpandRate and contractions to one cell more than is in use.
RoomForPush == \A b \in Live : buckets[b].end < buckets[b].max

\* Every live node is in one cell, in the bucket of its key, and no cell in
\* use holds a freed node or what realloc left there, however the buckets
\* have been reordered: no get follows a wild pointer, and Hashmap_destroy
\* frees each node once and all of them.
NodesOnce ==
    /\ \A b \in Live : \A i \in 0 .. buckets[b].end - 1 :
         /\ buckets[b].contents[i] \in DOMAIN heap
         /\ BucketOf(heap[buckets[b].contents[i]].key) = b
         /\ \A j \in 0 .. i - 1 : buckets[b].contents[j] # buckets[b].contents[i]
    /\ DOMAIN heap \subseteq Stored

\* Each node of a Hashmap lies in one cell in use, and no such cell holds
\* anything else, in order or not (hashmap.c:172).
NodesInPlace == TypeOK /\ NodesOnce

\* A bucket in strictly ascending order: the search by halves is right about it.
Ordered(a) == \A i \in 1 .. a.end - 1 : heap[a.contents[i - 1]].key < heap[a.contents[i]].key
AllOrdered == \A b \in Live : Ordered(buckets[b])

\* Only the delete of a node with two or more after it, whose place the last
\* one takes (hashmap.c:172), can take a map out of order.
LeavesHole(k) == Place(k) # -1 /\ Place(k) < buckets[BucketOf(k)].end - 2

OrderIsKept ==
    [][AllOrdered /\ ~AllOrdered' => \E k \in Key : LeavesHole(k) /\ Hashmap_delete(k)]_vars

\* While the buckets are in order, whatever calls brought them there, a call
\* is a call of KeyMap: the map of the keys in the buckets to their data.
Mapped == [k \in {heap[n].key : n \in Stored} |->
              heap[CHOOSE n \in Stored : heap[n].key = k].data]
Map == INSTANCE KeyMap WITH map <- Mapped, NoData <- Null
IsKeyMap == Map!Init /\ [][AllOrdered => Map!Next]_vars

\* Only a delete takes a bucket out of order, and as long as none is out of
\* order every call is a call on a finite map, whatever calls came before
\* (hashmap.c:111).
IsMapInOrder == OrderIsKept /\ IsKeyMap

\* "got null on delete" (test/hashmap_tests.c:68): a key that was set and is
\* still in its bucket is found there, after the deletes of other keys.
StoredIsFound == \A n \in Stored : Place(heap[n].key) # -1
=============================================================================
