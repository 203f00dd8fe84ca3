------------------------------ MODULE EntryBag ------------------------------
(***************************************************************************)
(* What a BSTree or an AVLTree promises: a bag of entries.  A set adds one *)
(* and replaces none, a get finds some entry of its key if there is one, a *)
(* delete takes out one, a traversal meets every one.                      *)
(***************************************************************************)
EXTENDS Bags

CONSTANTS Key,
          Data,     \* Data[k]: what users set under k
          NoData    \* the NULL that get and delete return

VARIABLES entries,  \* the bag of [key, data]
          out       \* the last call: [call, key, data, met]

vars == <<entries, out>>

Outcome(call, key, data, met) == [call |-> call, key |-> key, data |-> data, met |-> met]
Entry(k, d) == [key |-> k, data |-> d]

Finds(k, d) == IF \E e \in DOMAIN entries : e.key = k THEN Entry(k, d) \in DOMAIN entries
                                                      ELSE d = NoData

Init == entries = EmptyBag /\ out = Outcome("create", NoData, NoData, EmptyBag)

Create == /\ out' = Outcome("create", NoData, NoData, EmptyBag)
          /\ entries = EmptyBag
          /\ UNCHANGED entries

Set(k, d) == /\ out' = Outcome("set", k, d, EmptyBag)
             /\ entries' = entries (+) SetToBag({Entry(k, d)})

Get(k) == /\ \E d \in Data[k] \cup {NoData} : out' = Outcome("get", k, d, EmptyBag) /\ Finds(k, d)
          /\ UNCHANGED entries

Delete(k) == \E d \in Data[k] \cup {NoData} :
    /\ out' = Outcome("delete", k, d, EmptyBag)
    /\ Finds(k, d)
    /\ entries' = entries (-) SetToBag({Entry(k, d)})

Traverse == /\ out' = Outcome("traverse", NoData, NoData, entries)
            /\ UNCHANGED entries

Destroy == /\ out' = Outcome("destroy", NoData, NoData, EmptyBag)
           /\ entries' = EmptyBag

Next == \/ \E k \in Key : (\E d \in Data[k] : Set(k, d)) \/ Get(k) \/ Delete(k)
        \/ Create \/ Traverse \/ Destroy

Spec == Init /\ [][Next]_vars
=============================================================================
