------------------------------ MODULE MCTables ------------------------------
(***************************************************************************)
(* The Hashmap and the two trees of bstree.c at sizes TLC can exhaust.     *)
(* They share nothing, so a behaviour is one of a single part and the      *)
(* others stay as they were created.                                       *)
(*                                                                         *)
(* Keys 1, 2 and 3 of the map share a bucket, which goes through sizes 1,  *)
(* 3, 5 and 4; key 4 has another.  The trees have five nodes: both double  *)
(* rotations below a root and above subtrees, and deletes of nodes with    *)
(* two subtrees of more than one level.  Each key of a tree has its own    *)
(* datum, so that an entry is never taken for another key's.               *)
(***************************************************************************)
EXTENDS HashMap, TLC

CONSTANTS TreeKey, TreeNode     \* of BSTree

VARIABLES part, kind, root, nodes, returned

OwnData == [k \in TreeKey |-> {10 * k}]

Trees == INSTANCE BSTree WITH Key <- TreeKey, Data <- OwnData, Node <- TreeNode,
                              heap <- nodes, out <- returned

ASSUME Trees!TreeAssumption

\* Each key has a datum of its own, and one may be overwritten.
KeyData == [k \in Key |-> IF k = 1 THEN {10, 11} ELSE {10 * k}]

Hashes == [k \in Key |-> IF k = 4 THEN 1 ELSE 2 * k]

Interchangeable == Permutations(TreeNode)

treeVars == <<kind, root, nodes, returned>>

PartsInit == part \in {"hashmap", "trees"} /\ Init /\ Trees!Init

MapNext == part = "hashmap" /\ Next /\ UNCHANGED <<part, treeVars>>
TreesNext == part = "trees" /\ Trees!Next /\ UNCHANGED <<part, vars>>

PartsSpec == PartsInit /\ [][MapNext \/ TreesNext]_<<part, vars, treeVars>>

-----------------------------------------------------------------------------
\* Parents, children and the root fit together after every rotation and delete
\* (bstree.c:76-149 and 342-462), and the stored heights of an AVLTree are
\* never too small (bstree.c:423).
TreesFitTogether == Trees!TypeOK /\ Trees!WellLinked /\ Trees!HeightsCover

\* Every call of either tree is a call on a bag of entries.
TreeIsEntryBag == Trees!IsEntryBag

\* A set leaves a balanced AVLTree balanced (bstree.c:122).
SetKeepsBalance == Trees!SetKeepsBalance
=============================================================================
