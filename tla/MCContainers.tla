---------------------------- MODULE MCContainers ----------------------------
(***************************************************************************)
(* A DArray, lists and a RadixMap at sizes TLC can exhaust.  They share    *)
(* nothing, so a behaviour is one of a single part and the others stay as  *)
(* they were created.                                                      *)
(***************************************************************************)
EXTENDS LinkedList

CONSTANTS ExpandRate, WordSize, Junk, Member, Initial, MaxEnd,    \* of ArrayCalls
          RadixKey, RadixValue                                     \* of RadixMap

VARIABLES part, array, returned, fault, resized, merged, contents, answered

Array == INSTANCE ArrayCalls WITH Value <- Member, out <- returned

Radix == INSTANCE RadixMap WITH Key <- RadixKey, Value <- RadixValue, Radix <- 2, Digits <- 4,
                                MaxElements <- 4, out <- answered

arrayVars == <<array, returned, fault, resized, merged>>
radixVars == <<contents, answered>>

Interchangeable == Permutations(NodeId) \cup Permutations(ListId)

PartsInit == /\ part \in {"array", "lists", "radix"}
             /\ Array!Init /\ Init /\ Radix!Init

ArrayNext == part = "array" /\ Array!Next /\ UNCHANGED <<part, vars, radixVars>>
ListsNext == part = "lists" /\ Next /\ UNCHANGED <<part, arrayVars, radixVars>>
RadixNext == part = "radix" /\ Radix!Next /\ UNCHANGED <<part, arrayVars, vars>>

PartsSpec == PartsInit /\ [][ArrayNext \/ ListsNext \/ RadixNext]_<<part, arrayVars, vars, radixVars>>

-----------------------------------------------------------------------------
\* A DArray has a cell for the next push until a mergesort replaces its cells
\* (darray.c:84), meets undefined behaviour in two known ways only, and its
\* binary search is right about descending arrays (darray.c:16).
ArrayIsSound == Array!FaultsAreKnown /\ Array!PushInBounds /\ Array!SearchDescends

\* Every call of a DArray does to the elements in use what it is for, and the
\* sorts sort (darray_algos.c).
ArrayIsKept == Array!IsArray /\ Array!Sorts

\* Every RadixMap call is a call on a bag of entries, and the partial sort of
\* RadixMap_add leaves all keys in order (radixmap.c:101).
RadixIsEntryBag == Radix!IsEntryBag /\ [][Radix!KeysInOrder']_radixVars
=============================================================================
