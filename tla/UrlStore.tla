------------------------------ MODULE UrlStore ------------------------------
(***************************************************************************)
(* The requests of src/src/proc_request.c on the ternary search tree of    *)
(* src/src/tstree.c, whose delimiter nodes keep statistics of what is      *)
(* below them.  Requests run one at a time (StatsServer's mutex).          *)
(*                                                                         *)
(* A character is a number; a node is named by the characters that lead    *)
(* to it, its own included, so that name's last one is its splitchar.  A   *)
(* pointer is a name or Nil; a name outside DOMAIN heap is a node that has *)
(* been freed, and the pointer dangles.  A request that follows NULL, a    *)
(* dangling pointer or memory malloc left as it was sets "fault", and      *)
(* nothing is said of what comes after.                                    *)
(*                                                                         *)
(* A Stats is its sum and n: sumsq is kept like sum, and min and max are   *)
(* Stats_sample's own.  A mean is rounded, here to an integer, the same    *)
(* way each time it is taken; the rounding of += and -= is left out.       *)
(***************************************************************************)
EXTENDS TernaryTree

CONSTANTS Urls,         \* the URLs requests name
          Delim,        \* '/'
          DebugUrl,     \* "a/b/c", looked up by a debug() in process_request
          DebugParent,  \* "a/b/", dereferenced by a debug() in update_request
          Samplings,    \* the lists of values updates carry
          CountWrap,    \* 2^w for the width w of Stats.n
          MaxCalls      \* bound on the requests of a behaviour

ASSUME UrlAssumption == Urls \subseteq Seq(Nat) \ {<<>>}
ASSUME SamplingsAssumption == Samplings \subseteq Seq(Int)
ASSUME CountAssumption == CountWrap \in Nat \ {0}

VARIABLES heap,     \* the live nodes
          root,
          freed,    \* some node has been freed, so malloc may recycle one
          fault,    \* "none" or the undefined behaviour met
          reply,
          calls

vars == <<heap, root, freed, fault, reply, calls>>

IsDelim(q) == q # Nil /\ Last(q) = Delim

-----------------------------------------------------------------------------
(* Stats *)

Stats(sum, n) == [sum |-> sum, n |-> n % CountWrap]
Stats_create == Stats(0, 0)
NoStats == [sum |-> 0, n |-> -1]    \* a NULL stat

Stats_sample(st, s) == Stats(st.sum + s, st.n + 1)
Sampled(st, s) ==
    LET after[i \in 0 .. Len(s)] == IF i = 0 THEN st ELSE Stats_sample(after[i - 1], s[i])
    IN  after[Len(s)]

Mean(st) == IF st.n > 0 THEN st.sum \div st.n ELSE 0

-----------------------------------------------------------------------------
(* Walks *)

\* The delimiters of key, then its own node: TSTree_delim_search's list.
DelimList(h, r, key) ==
    LET path == Walk(h, r, key)
        delims == FlattenSeq([i \in 1 .. Len(path) |->
                      IF IsPrefix(path[i], key) /\ IsDelim(path[i]) THEN <<path[i]>> ELSE <<>>])
    IN  IF Pinpoint(h, r, key) = key /\ ~IsDelim(key) THEN Append(delims, key) ELSE delims

-----------------------------------------------------------------------------
(* TSTree_delim_insert *)

\* Mutant of FirstStat: only delimiters get a Stats.
FirstStatOfDelims(q, key) == IF IsDelim(q) THEN Stats_create ELSE NoStats

\* The stat of a node an insert of key makes.
FirstStat(q, key) == IF q = key \/ IsDelim(q) THEN Stats_create ELSE NoStats

\* Node q once key is inserted after the search path, before any count
\* changes: one of the new nodes, the one key had already, the one the new
\* nodes hang from, or another.
Placed(h, path, key, q) ==
    LET new == NewNodes(path, key)
    IN  IF q \in Range(new)
        THEN [low |-> Nil, high |-> Nil, value |-> q = key, stat |-> FirstStat(q, key),
              equal |-> IF q = key THEN Nil ELSE SubSeq(key, 1, Len(q) + 1)]
        ELSE IF q = key THEN [h[q] EXCEPT !.value = TRUE, !.stat = Stats_create]
        ELSE IF new # <<>> /\ Len(path) > 1 /\ q = path[Len(path) - 1]
        THEN Linked(h, q, key, new[1])
        ELSE h[q]

OneMore(node) == [node EXCEPT !.stat = Stats(@.sum, @.n + 1)]

\* A duplicate changes nothing.  Every delimiter visited is pushed, those
\* passed sideways too; each new delimiter counts in the one pushed before it,
\* the URL in the last one.
Inserted(h, r, key) ==
    LET path == Walk(h, r, key)
        new == NewNodes(path, key)
        pushed == SelectSeq(path \o new, IsDelim)
        counting == {pushed[i] : i \in {j \in DOMAIN pushed :
                                          j = Len(pushed) \/ pushed[j + 1] \in Range(new)}}
    IN  IF Last(path) = key /\ h[key].value THEN h
        ELSE [q \in DOMAIN h \cup Range(new) |->
                 IF q \in counting THEN OneMore(Placed(h, path, key, q))
                 ELSE Placed(h, path, key, q)]

-----------------------------------------------------------------------------
(* update_tracer and TSTree_delete_all_subnodes *)

\* Mutant of Traced: the old means stay in the sums.
TracedTwice(h, list, new) ==
    LET k == Len(list)
        t[j \in 0 .. k - 1] ==
            IF j = 0 THEN new
            ELSE Stats(h[list[k - j]].stat.sum + Mean(t[j - 1]), h[list[k - j]].stat.n)
    IN  [q \in DOMAIN h |-> IF \E i \in 1 .. k : list[i] = q
                            THEN [h[q] EXCEPT !.stat = t[k - CHOOSE i \in 1 .. k : list[i] = q]]
                            ELSE h[q]]

\* Down the list each mean is taken out of the sum above it, the last Stats is
\* replaced, and up the list each mean is put back; t[j] is the new Stats j
\* nodes before the end.
Traced(h, list, new) ==
    LET k == Len(list)
        Old(i) == h[list[i]].stat
        t[j \in 0 .. k - 1] ==
            IF j = 0 THEN new
            ELSE Stats(Old(k - j).sum - Mean(Old(k - j + 1)) + Mean(t[j - 1]), Old(k - j).n)
    IN  [q \in DOMAIN h |-> IF \E i \in 1 .. k : list[i] = q
                            THEN [h[q] EXCEPT !.stat = t[k - CHOOSE i \in 1 .. k : list[i] = q]]
                            ELSE h[q]]

\* The node before the last of the list counts one less.
LessOne(h, list) ==
    IF Len(list) < 2 THEN h
    ELSE [h EXCEPT ![list[Len(list) - 1]].stat = Stats(@.sum, @.n - 1)]

\* Mutant of DeletedLeaf: the value stays.
DeletedLeafKeepsValue(h, list, u) == LessOne(Traced(h, list, Stats_create), list)

\* A node that is no delimiter stays, without its value.
DeletedLeaf(h, list, u) ==
    [LessOne(Traced(h, list, Stats_create), list) EXCEPT ![u].value = FALSE]

\* A delimiter goes with what is below it; the pointer to it stays.
DeletedDelim(h, list, u) ==
    LET rest == LessOne(Traced(h, list, Stats_create), list)
    IN  [q \in DOMAIN h \ ({u} \cup Traversed(h, h[u].equal)) |-> rest[q]]

-----------------------------------------------------------------------------
(* process_request and the request functions *)

Reply(call, ok, urls) == [call |-> call, ok |-> ok, urls |-> urls]

Meets(kind) == fault' = kind /\ UNCHANGED <<heap, root, freed, reply>>

Answer(call, ok, urls) == reply' = Reply(call, ok, urls) /\ UNCHANGED fault

\* Every request first looks up DebugUrl: debug() is compiled in and
\* evaluates what it prints.
Begins == fault = "none" /\ calls < MaxCalls /\ calls' = calls + 1

\* A walk from *root, DebugUrl's or u's own, comes to a freed node.
Strays(u) == \E key \in {DebugUrl, u} : Lost(heap, root, key)

create_request(u) ==
    /\ Begins
    /\ LET new == NewNodes(Walk(heap, root, u), u)
       IN  \/ Strays(u) /\ Meets("dangling")
           \/ ~Strays(u) /\ freed /\ new # <<>> /\ Meets("recycled")
           \/ /\ ~Strays(u)
              /\ heap' = Inserted(heap, root, u)
              /\ root' = IF root = Nil THEN new[1] ELSE root
              /\ Answer("create", TRUE, {})
              /\ UNCHANGED freed

read_request(u) ==
    /\ Begins
    /\ IF Strays(u) THEN Meets("dangling")
       ELSE /\ Answer("read", Pinpoint(heap, root, u) = u /\ heap[u].value, {})
            /\ UNCHANGED <<heap, root, freed>>

\* The new Stats is a copy of the node's: there must be one.  What is then
\* printed is DebugParent's sum: there must be such a node.
update_request(u) ==
    /\ Begins
    /\ IF Strays(u) THEN Meets("dangling")
       ELSE IF Pinpoint(heap, root, u) = Nil
       THEN Answer("update", FALSE, {}) /\ UNCHANGED <<heap, root, freed>>
       ELSE IF heap[u].stat = NoStats \/ Pinpoint(heap, root, DebugParent) = Nil
       THEN Meets("null")
       ELSE IF Lost(heap, root, DebugParent) THEN Meets("dangling")
       ELSE /\ \E s \in Samplings :
                  heap' = Traced(heap, DelimList(heap, root, u),
                                 Sampled(heap[u].stat, s))
            /\ Answer("update", TRUE, {})
            /\ UNCHANGED <<root, freed>>

delete_request(u) ==
    LET list == DelimList(heap, root, u)
    IN  /\ Begins
        /\ IF Strays(u) THEN Meets("dangling")
           ELSE IF Pinpoint(heap, root, u) = Nil
           THEN Answer("delete", FALSE, {}) /\ UNCHANGED <<heap, root, freed>>
           ELSE IF IsDelim(u) /\ ~(Traversed(heap, heap[u].equal) \subseteq DOMAIN heap)
           THEN Meets("dangling")
           ELSE /\ heap' = IF IsDelim(u) THEN DeletedDelim(heap, list, u)
                                         ELSE DeletedLeaf(heap, list, u)
                /\ freed' = (freed \/ IsDelim(u))
                /\ Answer("delete", TRUE, {})
                /\ UNCHANGED root

list_request ==
    LET nodes == Traversed(heap, root)
    IN  /\ Begins
        /\ IF Lost(heap, root, DebugUrl) \/ ~(nodes \subseteq DOMAIN heap)
           THEN Meets("dangling")
           ELSE /\ Answer("list", TRUE, {q \in nodes : heap[q].value})
                /\ UNCHANGED <<heap, root, freed>>

Init == /\ heap = <<>> /\ root = Nil /\ freed = FALSE
        /\ fault = "none" /\ calls = 0
        /\ reply = Reply("none", TRUE, {})

process_request(u) == \/ create_request(u) \/ read_request(u)
                      \/ update_request(u) \/ delete_request(u)

Next == (\E u \in Urls : process_request(u)) \/ list_request

Spec == Init /\ [][Next]_vars

-----------------------------------------------------------------------------
(* Requests within which the store keeps its promises *)

Present == {q \in DOMAIN heap : heap[q].value}

\* An update finds a Stats to copy and, for the debug(), the node "a/b/".
Updatable(u) == u \in DOMAIN heap => heap[u].stat # NoStats /\ DebugParent \in DOMAIN heap

\* URLs do not end in '/': no request frees a node.
LeafNext ==
    \/ \E u \in Urls : /\ ~IsDelim(u)
                       /\ \/ create_request(u) \/ read_request(u) \/ delete_request(u)
                          \/ Updatable(u) /\ update_request(u)
    \/ list_request

\* Moreover no new URL passes a '/' sideways on its way down, and an update
\* or a delete is of a URL that is there: the counts rely on it.
NotSideways(u) == \A q \in Range(Walk(heap, root, u)) : IsDelim(q) => IsPrefix(q, u)

CountedNext ==
    \E u \in Urls : /\ ~IsDelim(u)
                    /\ \/ NotSideways(u) /\ create_request(u)
                       \/ u \in Present /\ delete_request(u)
                       \/ u \in Present /\ Updatable(u) /\ update_request(u)

-----------------------------------------------------------------------------
TypeOK == /\ \A q \in DOMAIN heap :
                /\ {heap[q].low, heap[q].high, heap[q].equal} \subseteq Seq(Nat)
                /\ heap[q].value \in BOOLEAN
                /\ heap[q].stat.sum \in Int /\ heap[q].stat.n \in -1 .. CountWrap - 1
          /\ root \in Seq(Nat) /\ freed \in BOOLEAN /\ calls \in Nat
          /\ fault \in {"none", "dangling", "recycled", "null"}

\* "assume all delim nodes have stat parameters in them" (tstree.c:255), and
\* so does every URL: create, update and delete never leave a NULL where
\* update_tracer or the next update would follow it.
StatsWhereAssumed == \A q \in DOMAIN heap : IsDelim(q) \/ heap[q].value => heap[q].stat # NoStats

\* Until a node is freed, every node is the one its own characters lead to:
\* whatever order URLs came in, no insert hangs a node where searches do not
\* look for it.
SearchTree == ~freed => \A q \in DOMAIN heap : Pinpoint(heap, root, q) = q

\* Until then a request about a URL that does not end in '/' follows neither
\* NULL nor a freed node, if an update finds what update_request takes for
\* granted.
NothingBroken == [][~freed /\ LeafNext => fault' = "none"]_vars

\* Whatever is asked, and in whatever order: a pointer dangles if and only if
\* a URL ending in '/' has been deleted (tstree.c:331), and no later request
\* repairs it.
DanglesOnceFreed == freed <=> ~(Traversed(heap, root) \subseteq DOMAIN heap)

\* Until a node is freed, such a request also changes and answers the set of
\* URLs of UrlMap, whatever nodes earlier requests have left in the tree.
Map == INSTANCE UrlMap WITH present <- Present
IsUrlMap == Map!Init /\ [][~freed /\ LeafNext => Map!Next]_vars

\* What a delimiter answers for: the URLs and the delimiters right below it.
Below(d) == {q \in DOMAIN heap :
                /\ IsDelim(q) \/ heap[q].value
                /\ IsStrictPrefix(d, q)
                /\ \A e \in DOMAIN heap : IsDelim(e) /\ IsStrictPrefix(d, e) => ~IsStrictPrefix(e, q)}

\* A delimiter's n is the number of what is right below it, through creates,
\* duplicates, deletes and updates in any order ("should have the num of 2",
\* test/proc_request_tests.c:31).
CountIsChildren ==
    \A d \in DOMAIN heap : IsDelim(d) => heap[d].stat.n = Cardinality(Below(d)) % CountWrap

\* The sum of a delimiter that has only URLs below it is the sum of their
\* means ("should have the sum", test/proc_request_tests.c:30): update_tracer
\* takes out exactly what it put in.
LeafParentSum == \A d \in DOMAIN heap :
    IsDelim(d) /\ (\A q \in Below(d) : ~IsDelim(q)) =>
        heap[d].stat.sum = MapThenSumSet(LAMBDA q : Mean(heap[q].stat), Below(d))

\* "handler forgot to delete the node" (test/proc_request_tests.c:64-65): after
\* a delete of "a/b/" requests are still answered.
DeletedIsGone == fault # "dangling"

-----------------------------------------------------------------------------
\* The URL store is a search tree whose nodes have a Stats wherever a request
\* reads one (proc_request.c:68), and a pointer leads to a freed node from
\* the delete of a delimiter on, and never before it (tstree.c:331).
StoreIsSound == TypeOK /\ SearchTree /\ StatsWhereAssumed /\ DanglesOnceFreed

\* Until then a request about a URL that does not end in '/' breaks nothing
\* and is a request to a set of URLs (proc_request.c:119).
SafeUntilFreed == NothingBroken /\ IsUrlMap
=============================================================================
