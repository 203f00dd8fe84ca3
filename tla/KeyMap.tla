------------------------------- MODULE KeyMap -------------------------------
(***************************************************************************)
(* What a Hashmap promises: one datum for each key that has been set and   *)
(* not deleted since.                                                      *)
(***************************************************************************)
EXTENDS Functions

CONSTANTS Key,
          Data,     \* Data[k]: what may be set under k
          NoData    \* the NULL that get and delete return

VARIABLES map,      \* from the keys present to their data
          out       \* the last call: [call, key, data, keys]

vars == <<map, out>>

Outcome(call, key, data, keys) == [call |-> call, key |-> key, data |-> data, keys |-> keys]

At(k) == IF k \in DOMAIN map THEN map[k] ELSE NoData

Without(k) == Restrict(map, DOMAIN map \ {k})

Init == map = <<>> /\ out = Outcome("create", NoData, NoData, {})

Create == /\ out' = Outcome("create", NoData, NoData, {})
          /\ map = <<>>
          /\ UNCHANGED map

Set(k, d) == /\ out' = Outcome("set", k, d, {})
             /\ map' = [j \in DOMAIN map \cup {k} |-> IF j = k THEN d ELSE map[j]]

Get(k) == /\ out' = Outcome("get", k, At(k), {})
          /\ UNCHANGED map

Delete(k) == /\ out' = Outcome("delete", k, At(k), {})
             /\ map' = Without(k)

Traverse == /\ out' = Outcome("traverse", NoData, NoData, DOMAIN map)
            /\ UNCHANGED map

Destroy == /\ out' = Outcome("destroy", NoData, NoData, {})
           /\ map' = <<>>

Next == \/ \E k \in Key : (\E d \in Data[k] : Set(k, d)) \/ Get(k) \/ Delete(k)
        \/ Create \/ Traverse \/ Destroy

Spec == Init /\ [][Next]_vars
=============================================================================
