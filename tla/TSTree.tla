------------------------------- MODULE TSTree -------------------------------
(***************************************************************************)
(* The functions of src/src/tstree.c that no request of the server uses:   *)
(* insert, search, search by prefix, possible matches, delete, traverse    *)
(* and destroy, on the tree of TernaryTree.  Keys have at least one        *)
(* character; a node holds a value or NoValue.                             *)
(***************************************************************************)
EXTENDS TernaryTree

CONSTANTS Key,       \* the keys that are inserted and deleted
          Asked,     \* the keys and prefixes that are looked up
          Value, NoValue

KeyAssumption == Key \cup Asked \subseteq Seq(Nat) \ {<<>>} /\ NoValue \notin Value

VARIABLES heap, root,
          words,     \* what the calls so far put under each key
          gone       \* keys that were inserted and have been deleted since

vars == <<heap, root, words, gone>>

Init == heap = [q \in {} |-> NoValue] /\ root = Nil /\ words = <<>> /\ gone = {}

-----------------------------------------------------------------------------

\* calloc's node for the last character of q, on the way to key.
NewNode(q, key, v) ==
    [low |-> Nil, high |-> Nil, value |-> IF q = key THEN v ELSE NoValue,
     equal |-> IF q = key THEN Nil ELSE SubSeq(key, 1, Len(q) + 1)]

\* A duplicate keeps the value it has.
TSTree_insert(key, v) ==
    LET path == Walk(heap, root, key)
        new == NewNodes(path, key)
        hook == path[Len(path) - 1]
    IN  /\ root' = IF root = Nil THEN new[1] ELSE root
        /\ heap' = [q \in DOMAIN heap \cup ToSet(new) |->
                       IF q \in ToSet(new) THEN NewNode(q, key, v)
                       ELSE IF q = key /\ heap[q].value = NoValue
                       THEN [heap[q] EXCEPT !.value = v]
                       ELSE IF new # <<>> /\ q = hook THEN Linked(heap, q, key, new[1])
                       ELSE heap[q]]
        /\ words' = [w \in DOMAIN words \cup {key} |-> IF w \in DOMAIN words THEN words[w] ELSE v]
        /\ gone' = gone \ {key}

TSTree_search(key) ==
    LET q == Pinpoint(heap, root, key) IN IF q = Nil THEN NoValue ELSE heap[q].value

\* The last node before key's own that the walk to key matches and that has a
\* value.
LastMatched(key) ==
    LET path == Walk(heap, root, key)
        on == {i \in DOMAIN path : /\ path[i] # Nil /\ IsStrictPrefix(path[i], key)
                                   /\ heap[path[i]].value # NoValue}
    IN  IF on = {} THEN Nil ELSE path[Max(on)]

\* Mutant of PrefixStart: a prefix that is not there has no match.
PrefixStartExact(key) == Pinpoint(heap, root, key)

PrefixStart(key) ==
    IF Pinpoint(heap, root, key) # Nil THEN Pinpoint(heap, root, key) ELSE LastMatched(key)

\* The node whose value TSTree_search_prefix returns: from the start it goes
\* down equal until there is a value.
PrefixNode(key) ==
    LET down[i \in 0 .. Cardinality(DOMAIN heap)] ==
          IF i = 0 THEN PrefixStart(key)
          ELSE LET q == down[i - 1]
               IN  IF q = Nil THEN Nil ELSE IF heap[q].value # NoValue THEN q ELSE heap[q].equal
    IN  down[Cardinality(DOMAIN heap)]

\* add_all_psb adds a node that has a value, and only then looks at what is
\* below and beside it.
add_all_psb(node) ==
    LET With(s) == {q \in s \ {Nil} : heap[q].value # NoValue}
        t[i \in 0 .. Cardinality(DOMAIN heap)] ==
          IF i = 0 THEN With({node})
          ELSE LET seen == t[i - 1]
               IN  seen \cup With(UNION {{heap[q].equal, heap[q].low, heap[q].high} :
                                            q \in seen})
    IN  t[Cardinality(DOMAIN heap)]

TSTree_possible_match_by_prefix(key) == add_all_psb(PrefixStart(key))

Forgotten(key) ==
    /\ words' = [w \in DOMAIN words \ {key} |-> words[w]]
    /\ gone' = IF key \in DOMAIN words THEN gone \cup {key} ELSE gone

\* The node stays, without its value, which is freed.
TSTree_delete(key) ==
    LET q == Pinpoint(heap, root, key)
    IN  /\ q # Nil
        /\ heap' = [heap EXCEPT ![q].value = NoValue]
        /\ Forgotten(key)
        /\ UNCHANGED root

TSTree_destroy ==
    /\ root # Nil
    /\ heap' = [q \in DOMAIN heap \ Traversed(heap, root) |-> heap[q]]
    /\ root' = Nil /\ words' = <<>> /\ gone' = {}

Next == \/ \E k \in Key : TSTree_delete(k) \/ \E v \in Value : TSTree_insert(k, v)
        \/ TSTree_destroy

Spec == Init /\ [][Next]_vars

-----------------------------------------------------------------------------

\* An insert adds its key with its value unless the key has one, a delete takes
\* its own key only: whatever the shape of the tree, TSTree_search finds what
\* the calls left under every key.
SearchFindsWords ==
    \A k \in Asked : TSTree_search(k) = IF k \in DOMAIN words THEN words[k] ELSE NoValue

\* TSTree_search_prefix returns the value of a word that starts with the prefix
\* when one was inserted (nothing, at times, if one of them has been deleted),
\* else of the longest word the prefix starts with.
PrefixFindsWord ==
    \A k \in Asked :
        LET below == {w \in DOMAIN words : IsPrefix(k, w)}
            above == {w \in DOMAIN words : IsPrefix(w, k)}
            found == PrefixNode(k)
        IN  IF found = Nil THEN (below \cup above) = {} \/ \E g \in gone : IsPrefix(k, g)
            ELSE IF below \cup {g \in gone : IsPrefix(k, g)} # {} THEN found \in below
            ELSE found \in above /\ \A w \in above : Len(w) <= Len(found)

\* TSTree_possible_match_by_prefix gives words only, the prefix itself if it is
\* one, and none that differs from the prefix before its last character.
MatchesAreNear ==
    \A k \in Asked :
        LET found == TSTree_possible_match_by_prefix(k)
        IN  /\ found \subseteq DOMAIN words
            /\ k \in DOMAIN words => k \in found
            /\ k \in DOMAIN heap => \A w \in found : IsPrefix(Front(k), w)

\* TSTree_traverse, and so destroy, reaches every node there is.
NothingUnreached == Traversed(heap, root) = DOMAIN heap

\* The four lookups find what the inserts and deletes left.
WordsAreFound == SearchFindsWords /\ PrefixFindsWord /\ MatchesAreNear /\ NothingUnreached
=============================================================================
