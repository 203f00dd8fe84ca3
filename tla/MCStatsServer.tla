--------------------------- MODULE MCStatsServer ---------------------------
(***************************************************************************)
(* In WriterScript's run, requests of two bytes on rings of three: the     *)
(* second request of a client wraps, a request may be cut in two by recv,  *)
(* and two may come in at once.                                            *)
(***************************************************************************)
EXTENDS StatsServer, TLC

CONSTANTS c1, c2, c3, u1, u2

ThreadSymmetry == Permutations(Threads)

Req(op, url) == [op |-> op, url |-> url]

\* One client writes and deletes, the other creates, concurrently.
WriterScript == c1 :> <<Req("create", u1), Req("delete", u2)>> @@ c2 :> <<Req("create", u2)>>

\* One byte per request: the second one of c1 ends at the end of an array of
\* two; c2 connects and may spin, but asks for nothing.
ShortScript == c1 :> <<Req("create", u1), Req("read", u1)>> @@ c2 :> <<>>

\* Nobody asks for anything.
NoScript == [c \in Clients |-> <<>>]
=============================================================================
