------------------------------- MODULE UrlMap -------------------------------
(***************************************************************************)
(* What the requests of bin/stats_server promise about URLs, whatever tree *)
(* they are kept in: a set of URLs, create adds one, delete takes one      *)
(* away, read and update find the ones that are there, list lists them.    *)
(* A delete or an update of a URL that is not there may be answered either *)
(* way: the tree keeps nodes it no longer, or does not yet, count as URLs. *)
(***************************************************************************)
CONSTANT Urls

VARIABLES present,  \* the URLs that have been created and not deleted
          reply     \* the last answer: [call, ok, urls]

vars == <<present, reply>>

Reply(call, ok, urls) == [call |-> call, ok |-> ok, urls |-> urls]

Init == present = {} /\ reply = Reply("none", TRUE, {})

Create(u) == /\ present' = present \cup {u}
             /\ reply' = Reply("create", TRUE, {})

Read(u) == /\ reply' = Reply("read", u \in present, {})
           /\ UNCHANGED present

Update(u) == /\ \E ok \in BOOLEAN : /\ u \in present => ok
                                    /\ reply' = Reply("update", ok, {})
             /\ UNCHANGED present

Delete(u) == /\ present' = present \ {u}
             /\ \E ok \in BOOLEAN : /\ u \in present => ok
                                    /\ reply' = Reply("delete", ok, {})

List == /\ reply' = Reply("list", TRUE, present)
        /\ UNCHANGED present

Next == \/ \E u \in Urls : Create(u) \/ Read(u) \/ Update(u) \/ Delete(u)
        \/ List

Spec == Init /\ [][Next]_vars
=============================================================================
