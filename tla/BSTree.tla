------------------------------- MODULE BSTree -------------------------------
(***************************************************************************)
(* The two trees of src/src/bstree.c: nodes that point to their parent,   *)
(* larger keys on the left (BSTree) or on the right (AVLTree, which also   *)
(* rotates after a set).  The functions of the two that differ in their    *)
(* names only are one operator here.                                       *)
(*                                                                         *)
(* A key is a number that stands for its place in the compare function's   *)
(* order.  A BSTree's nodes have no height; theirs stays 1.                *)
(***************************************************************************)
EXTENDS Integers, Sequences, FiniteSets, Bags, Functions

CONSTANTS Key,
          Data,         \* Data[k]: what users set under k
          Node,         \* bound on the nodes of a tree: the memory for them
          Null

TreeAssumption == /\ Key \subseteq Int /\ IsFiniteSet(Node)
                  /\ Null \notin Node \cup Key \cup UNION {Data[k] : k \in Key}

VARIABLES kind,     \* which of the two trees, or "none" while there is none
          root,
          heap,     \* the live nodes
          out       \* the last call: [call, key, data, met]

vars == <<kind, root, heap, out>>

NodeCount == Cardinality(Node)

Outcome(call, key, data, met) == [call |-> call, key |-> key, data |-> data, met |-> met]

NodeFor(parent, k, d) == [key |-> k, data |-> d, parent |-> parent,
                          left |-> Null, right |-> Null, height |-> 1]

Tree(r, h) == [root |-> r, heap |-> h]

Init == /\ kind \in {"BSTree", "AVLTree"}
        /\ root = Null /\ heap = <<>>
        /\ out = Outcome("create", Null, Null, EmptyBag)

-----------------------------------------------------------------------------
(* Searches *)

\* BSTree and AVLTree go opposite ways; a set passes an equal key on the left.
SeekLeft(n, k) == IF kind = "AVLTree" THEN heap[n].key > k ELSE heap[n].key < k

\* Mutant of SetLeft: BSTree's way in both trees.
SetLeftOneWay(n, k) == heap[n].key <= k

SetLeft(n, k) == heap[n].key = k \/ SeekLeft(n, k)

\* The nodes a set of k goes through, from the root.
SetPath(k) ==
    LET p[i \in 0 .. NodeCount] ==
          IF i = 0 THEN <<>>
          ELSE LET q == p[i - 1]
                   next == IF q = <<>> THEN root
                           ELSE IF SetLeft(q[Len(q)], k) THEN heap[q[Len(q)]].left
                           ELSE heap[q[Len(q)]].right
               IN  IF next = Null THEN q ELSE Append(q, next)
    IN  p[NodeCount]

\* The node a get or a delete of k finds.
NodeOf(k) ==
    LET s[i \in 0 .. NodeCount] ==
          IF i = 0 THEN root
          ELSE LET n == s[i - 1]
               IN  IF n = Null \/ heap[n].key = k THEN n
                   ELSE IF SeekLeft(n, k) THEN heap[n].left ELSE heap[n].right
    IN  s[NodeCount]

FindMin(n) ==
    LET s[i \in 0 .. NodeCount] ==
          IF i = 0 THEN n
          ELSE IF heap[s[i - 1]].left = Null THEN s[i - 1] ELSE heap[s[i - 1]].left
    IN  s[NodeCount]

\* What a traversal from the root meets, and destroy frees.
Reached ==
    LET r[i \in 0 .. NodeCount] ==
          IF i = 0 THEN {root} \ {Null}
          ELSE r[i - 1] \cup UNION {{heap[n].left, heap[n].right} \ {Null} : n \in r[i - 1]}
    IN  r[NodeCount]

-----------------------------------------------------------------------------
(* Rotations *)

Higher(a, b) == IF a >= b THEN a ELSE b
HeightIn(h, n) == IF n = Null THEN 0 ELSE h[n].height
BalanceIn(h, n) == HeightIn(h, h[n].left) - HeightIn(h, h[n].right)
Reheighted(h, n) ==
    [h EXCEPT ![n].height = Higher(HeightIn(h, h[n].left), HeightIn(h, h[n].right)) + 1]

\* Sets the parent of n, if there is an n.
Adopted(h, n, parent) == IF n = Null THEN h ELSE [h EXCEPT ![n].parent = parent]

\* m in the place of n below parent, if there is a parent.
Hung(h, parent, n, m) ==
    IF parent = Null THEN h
    ELSE IF h[parent].left = n THEN [h EXCEPT ![parent].left = m]
    ELSE [h EXCEPT ![parent].right = m]

right_rotate(h, a) ==
    LET x == h[a].left
        turned == [h EXCEPT ![a].parent = x, ![a].left = h[x].right,
                            ![x].right = a, ![x].parent = h[a].parent]
        linked == Adopted(Hung(turned, h[a].parent, a, x), h[x].right, a)
    IN  Reheighted(Reheighted(linked, a), x)

left_rotate(h, a) ==
    LET x == h[a].right
        turned == [h EXCEPT ![a].parent = x, ![a].right = h[x].left,
                            ![x].left = a, ![x].parent = h[a].parent]
        linked == Adopted(Hung(turned, h[a].parent, a, x), h[x].left, a)
    IN  Reheighted(Reheighted(linked, a), x)

\* Mutant of rotate: single rotations only.
rotateOnce(t, n) ==
    LET h == t.heap
        turned == IF BalanceIn(h, n) > 1 THEN right_rotate(h, n)
                  ELSE IF BalanceIn(h, n) < -1 THEN left_rotate(h, n)
                  ELSE h
        top == turned[n].parent
    IN  Tree(IF turned # h /\ turned[top].parent = Null THEN top ELSE t.root,
             Reheighted(turned, n))

\* The root is set after the rotations, to the node that took n's place.
rotate(t, n) ==
    LET h == t.heap
        l == h[n].left
        r == h[n].right
        turned == IF BalanceIn(h, n) > 1
                  THEN right_rotate(IF BalanceIn(h, l) >= 0 THEN h ELSE left_rotate(h, l), n)
                  ELSE IF BalanceIn(h, n) < -1
                  THEN left_rotate(IF BalanceIn(h, r) <= 0 THEN h ELSE right_rotate(h, r), n)
                  ELSE h
        top == turned[n].parent
    IN  Tree(IF turned # h /\ turned[top].parent = Null THEN top ELSE t.root,
             Reheighted(turned, n))

-----------------------------------------------------------------------------
(* The calls *)

\* The tree with a new node n below the last node of path.
Grown(path, n, k, d) ==
    LET parent == path[Len(path)]
        Made(p) == [m \in DOMAIN heap \cup {n} |-> IF m = n THEN NodeFor(p, k, d) ELSE heap[m]]
    IN  IF path = <<>> THEN Tree(n, Made(Null))
        ELSE IF SetLeft(parent, k) THEN Tree(root, [Made(parent) EXCEPT ![parent].left = n])
        ELSE Tree(root, [Made(parent) EXCEPT ![parent].right = n])

\* On its way back up AVLTree_setnode rotates at every node of path.
Rotated(t, path) ==
    LET u[i \in 0 .. Len(path)] ==
          IF i = 0 THEN t ELSE rotate(u[i - 1], path[Len(path) - i + 1])
    IN  u[Len(path)]

Becomes(t) == root' = t.root /\ heap' = t.heap

Set(k, d) == /\ kind # "none"
             /\ \E n \in Node \ DOMAIN heap :
                  LET path == SetPath(k)
                      grown == Grown(path, n, k, d)
                  IN  Becomes(IF kind = "AVLTree" THEN Rotated(grown, path) ELSE grown)
             /\ out' = Outcome("set", k, d, EmptyBag)
             /\ UNCHANGED kind

DataOf(k) == IF NodeOf(k) = Null THEN Null ELSE heap[NodeOf(k)].data

Get(k) == /\ kind # "none"
          /\ out' = Outcome("get", k, DataOf(k), EmptyBag)
          /\ UNCHANGED <<kind, root, heap>>

\* Mutant of Replaced: the new node keeps its old parent.
ReplacedOneWay(t, n, new) ==
    LET parent == t.heap[n].parent
    IN  Tree(IF parent = Null THEN new ELSE t.root, Hung(t.heap, parent, n, new))

\* replace_node_in_parent
Replaced(t, n, new) ==
    LET parent == t.heap[n].parent
    IN  Tree(IF parent = Null THEN new ELSE t.root,
             Adopted(Hung(t.heap, parent, n, new), new, parent))

\* BSTree_swap, AVLTree_swap
Swapped(h, a, b) == [h EXCEPT ![a].key = h[b].key, ![a].data = h[b].data,
                              ![b].key = h[a].key, ![b].data = h[a].data]

\* The node that goes when n's entry is deleted, and the tree without it.  The
\* rotations AVL_node_delete has after this are never reached: every branch
\* before them returns.
Unhooked(n) ==
    LET node == heap[n]
        s == FindMin(node.right)
    IN  IF node.left # Null /\ node.right # Null
        THEN [node |-> s, tree |-> Replaced(Tree(root, Swapped(heap, s, n)), s, heap[s].right)]
        ELSE [node |-> n, tree |-> Replaced(Tree(root, heap), n,
                                            IF node.left # Null THEN node.left ELSE node.right)]

Delete(k) == /\ kind # "none"
             /\ out' = Outcome("delete", k, DataOf(k), EmptyBag)
             /\ IF NodeOf(k) = Null THEN UNCHANGED <<root, heap>>
                ELSE LET gone == Unhooked(NodeOf(k))
                         h == gone.tree.heap
                     IN  Becomes(Tree(gone.tree.root, Restrict(h, DOMAIN h \ {gone.node})))
             /\ UNCHANGED kind

\* The entries of a set of nodes
EntriesOf(nodes) ==
    LET Entry(n) == [key |-> heap[n].key, data |-> heap[n].data]
    IN  [e \in {Entry(n) : n \in nodes} |-> Cardinality({n \in nodes : Entry(n) = e})]

\* With a callback that returns 0 every time
Traverse == /\ kind # "none"
            /\ out' = Outcome("traverse", Null, Null, EntriesOf(Reached))
            /\ UNCHANGED <<kind, root, heap>>

Destroy == /\ kind # "none"
           /\ kind' = "none"
           /\ Becomes(Tree(Null, Restrict(heap, DOMAIN heap \ Reached)))
           /\ out' = Outcome("destroy", Null, Null, EmptyBag)

Create == /\ kind = "none"
          /\ kind' \in {"BSTree", "AVLTree"}
          /\ out' = Outcome("create", Null, Null, EmptyBag)
          /\ UNCHANGED <<root, heap>>

Next == \/ \E k \in Key : (\E d \in Data[k] : Set(k, d)) \/ Get(k) \/ Delete(k)
        \/ Traverse \/ Destroy \/ Create

Spec == Init /\ [][Next]_vars

-----------------------------------------------------------------------------
TypeOK == /\ kind \in {"BSTree", "AVLTree", "none"}
          /\ root \in Node \cup {Null}
          /\ DOMAIN heap \subseteq Node
          /\ \A n \in DOMAIN heap :
               /\ heap[n].key \in Key /\ heap[n].data \in Data[heap[n].key] /\ heap[n].height \in Nat \ {0}
               /\ {heap[n].parent, heap[n].left, heap[n].right} \subseteq Node \cup {Null}

\* The pointers of the live nodes are a tree's: the root has no parent, every
\* other node is the left or the right child, not both, of the node it takes
\* for its parent, and all can be reached.  Rotations and deletes move nodes
\* by setting up to six pointers one after the other; destroy frees each node
\* once, and no call follows a pointer to a freed one.
Child(n, c) == c = heap[n].left \/ c = heap[n].right

WellLinked ==
    /\ \A n \in DOMAIN heap :
         /\ heap[n].parent = Null <=> n = root
         /\ n # root => Child(heap[n].parent, n)
         /\ heap[n].left = heap[n].right => heap[n].left = Null
         /\ \A c \in {heap[n].left, heap[n].right} \ {Null} : c \in DOMAIN heap /\ heap[c].parent = n
    /\ DOMAIN heap = Reached

\* Every call of either tree is a call of EntryBag.  Keys may be set twice:
\* the search must find one of the equal ones, on whichever side of each other
\* rotations and deletes have left them.
Entries == INSTANCE EntryBag WITH entries <- EntriesOf(Reached), NoData <- Null
IsEntryBag == Entries!Spec

\* The stored heights are right and differ by one at most between siblings.
Balanced == \A n \in DOMAIN heap : /\ BalanceIn(heap, n) \in -1 .. 1
                                   /\ Reheighted(heap, n) = heap

\* A set leaves a balanced AVLTree balanced ("somehow i implement this
\* wrongly", bstree.c:122), whatever brought it into balance.
SetKeepsBalance ==
    [][kind = "AVLTree" /\ Balanced /\ out'.call = "set" => Balanced']_vars

\* A delete leaves heights that are too large, never too small: a node's is
\* above its children's, so the root's bounds the depth of every search.
HeightsCover == kind = "AVLTree" =>
    \A n \in DOMAIN heap : \A c \in {heap[n].left, heap[n].right} \ {Null} :
        heap[c].height < heap[n].height
=============================================================================
