---------------------------- MODULE TernaryTree ----------------------------
(***************************************************************************)
(* The shape of the ternary search tree of src/src/tstree.c and the walks  *)
(* through it.  A character is a number; a node is named by the characters *)
(* that lead to it, its own included, so that name's last one is its       *)
(* splitchar.  A heap is a function from the live nodes to records that    *)
(* have low, equal and high; a pointer is a name or Nil.                   *)
(***************************************************************************)
EXTENDS Integers, FiniteSets, SequencesExt

Nil == <<>>

\* Where the loop of a search for key goes from node q.
Towards(h, q, key) ==
    LET c == key[Len(q)]
    IN  IF c < Last(q) THEN h[q].low ELSE IF c > Last(q) THEN h[q].high ELSE h[q].equal

\* The pointers a search for key from r goes through; the last one is key
\* itself, Nil, or a node that has been freed.
Walk(h, r, key) ==
    LET w[i \in 0 .. Cardinality(DOMAIN h)] ==
          IF i = 0 THEN <<r>>
          ELSE LET path == w[i - 1]
               IN  IF Last(path) = key \/ Last(path) \notin DOMAIN h THEN path
                   ELSE Append(path, Towards(h, Last(path), key))
    IN  w[Cardinality(DOMAIN h)]

Pinpoint(h, r, key) == Last(Walk(h, r, key))
Lost(h, r, key) == Pinpoint(h, r, key) \notin DOMAIN h \cup {Nil}

\* What TSTree_traverse and TSTree_destroy reach from node r.
Traversed(h, r) ==
    LET t[i \in 0 .. Cardinality(DOMAIN h)] ==
          IF i = 0 THEN {r} \ {Nil}
          ELSE LET seen == t[i - 1]
               IN  seen \cup UNION {{h[q].low, h[q].high, h[q].equal} \ {Nil} :
                                        q \in seen \cap DOMAIN h}
    IN  t[Cardinality(DOMAIN h)]

-----------------------------------------------------------------------------

\* The nodes an insert of key makes when its walk ends at NULL: one for each
\* character from the one the walk stopped at.
NewNodes(path, key) ==
    LET q == path[Len(path) - 1]
        from == IF Len(path) = 1 THEN 1
                ELSE IF key[Len(q)] = Last(q) THEN Len(q) + 1 ELSE Len(q)
    IN  IF Last(path) = key THEN <<>> ELSE [i \in 1 .. Len(key) - from + 1 |->
                                                SubSeq(key, 1, from + i - 1)]

\* Node q with its pointer towards key set to child.
Linked(h, q, key, child) ==
    IF key[Len(q)] < Last(q) THEN [h[q] EXCEPT !.low = child]
    ELSE IF key[Len(q)] > Last(q) THEN [h[q] EXCEPT !.high = child]
    ELSE [h[q] EXCEPT !.equal = child]
=============================================================================
