--------------------------- MODULE MCTernaryTrees ---------------------------
(***************************************************************************)
(* The ternary search tree of tstree.c at sizes TLC can exhaust, in three  *)
(* parts: any requests on the URL store; the requests its counts and sums  *)
(* rely on, with other URLs and samplings; and the functions the server    *)
(* does not call, on a tree of their own.  A behaviour is one of a single  *)
(* part and leaves the others as they were created.                        *)
(***************************************************************************)
EXTENDS MCUrlStore

CONSTANTS SumCalls,                 \* MaxCalls of the part with the sums
          Value, NoValue            \* of TSTree

VARIABLES part, nodes, top, words, gone

\* Words that end inside others, and on all three sides of each other.
Keys == {<<2>>, <<2, 1>>, <<2, 3>>, <<2, 2, 1>>, <<1>>}
MoreKeys == Keys \cup {<<2, 2>>, <<2, 1, 1>>, <<3>>, <<2, 3, 3, 1>>}

Sums == INSTANCE UrlStore WITH Urls <- SumUrls, Samplings <- SomeSamplings, MaxCalls <- SumCalls

Words == INSTANCE TSTree WITH Key <- Keys, Asked <- MoreKeys, heap <- nodes, root <- top

ASSUME Words!KeyAssumption

wordVars == <<nodes, top, words, gone>>

PartsInit == part \in {"requests", "sums", "words"} /\ Init /\ Words!Init

RequestsNext == part = "requests" /\ Next /\ UNCHANGED <<part, wordVars>>
SumsNext == part = "sums" /\ Sums!CountedNext /\ UNCHANGED <<part, wordVars>>
WordsNext == part = "words" /\ Words!Next /\ UNCHANGED <<part, vars>>

PartsSpec == PartsInit /\ [][RequestsNext \/ SumsNext \/ WordsNext]_<<part, vars, wordVars>>

-----------------------------------------------------------------------------
\* Within the counted requests a delimiter's n is the number of what is right
\* below it (tstree.c:271), and the sum of one that has only URLs below is
\* the sum of their means.
StatsFollowChildren == part = "sums" => Sums!CountIsChildren /\ Sums!LeafParentSum

\* Whatever inserts and deletes made the tree, a search finds what they left,
\* a search by prefix a word that goes with the prefix, the possible matches
\* are near the prefix, and destroy reaches every node (tstree.c:113-260).
WordsAreFound == Words!WordsAreFound
=============================================================================
