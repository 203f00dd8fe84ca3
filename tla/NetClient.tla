------------------------------ MODULE NetClient ------------------------------
(***************************************************************************)
(* netclient.c: main relays what the user types to a server and what the   *)
(* server sends to the screen, each through a ring of its own.  A round of *)
(* the loop is a select, a read of each descriptor that was readable, and  *)
(* writes until both rings are empty.                                      *)
(*                                                                         *)
(* read_some hands the whole block it allocated to the ring, however few   *)
(* bytes came: behind them lies what malloc left there, Junk here.         *)
(***************************************************************************)
EXTENDS RingLayout, SequencesExt

CONSTANTS NL, CR,       \* the characters of bfindreplace's arguments
          MaxSent       \* bound on the bytes either peer sends

ASSUME NLAssumption == NL \in Byte /\ CR \notin Byte \cup {Junk, Nul}
ASSUME MaxSentAssumption == MaxSent \in Nat

Peer == {"user", "server"}

VARIABLES rings,        \* in_rb holds what the user sent, sock_rb what the server sent
          sent,         \* all a peer has sent so far
          unread,       \* the part of it that is still in the kernel
          ended,        \* the peers that will send nothing more
          written,      \* what was written of the bytes of a peer, without the padding
          ready,        \* the descriptors to be read in this round
          pc

clientVars == <<rings, sent, unread, ended, written, ready, pc>>

ClientInit == /\ rings = [p \in Peer |-> NewRing]
              /\ sent = [p \in Peer |-> <<>>]
              /\ unread = [p \in Peer |-> <<>>]
              /\ ended = {}
              /\ written = [p \in Peer |-> <<>>]
              /\ ready = {}
              /\ pc = "select"

-----------------------------------------------------------------------------
(* The peers *)

Send(p, c) == /\ p \notin ended /\ Len(sent[p]) < MaxSent
              /\ sent' = [sent EXCEPT ![p] = Append(@, c)]
              /\ unread' = [unread EXCEPT ![p] = Append(@, c)]
              /\ UNCHANGED <<rings, ended, written, ready, pc>>

Close(p) == /\ p \notin ended
            /\ ended' = ended \cup {p}
            /\ UNCHANGED <<rings, sent, unread, written, ready, pc>>

-----------------------------------------------------------------------------
(* One round *)

\* A descriptor is readable when it has bytes or its peer has closed it.
Readable == {p \in Peer : unread[p] # <<>> \/ p \in ended}

Select == /\ pc = "select" /\ Readable # {}
          /\ ready' = Readable
          /\ pc' = "read"
          /\ UNCHANGED <<rings, sent, unread, ended, written>>

\* read_some empties the indices of a ring that holds nothing, and fills what
\* is free with the block.
Filled(r, data) ==
    LET fresh == IF AvailableData(r) = 0 THEN Ring(0, 0, r.looped, r.buffer) ELSE r
        free == AvailableSpace(fresh)
    IN  Written(fresh, data \o [i \in 1 .. free - Len(data) |-> Junk])

\* Mutant of Turn: one descriptor a round, the user's if there is a choice.
TurnOnce(p) == /\ pc = "read" /\ p \in ready
               /\ p = "server" => "user" \notin ready
               /\ ready' = {}
               /\ pc' = "write"

\* The user's descriptor comes before the server's.
Turn(p) == /\ pc = "read" /\ p \in ready
           /\ p = "server" => "user" \notin ready
           /\ ready' = ready \ {p}
           /\ pc' = IF ready = {p} THEN "write" ELSE "read"

ReadSome(p) ==
    /\ Turn(p)
    /\ LET n == IF Len(unread[p]) < AvailableSpace(rings[p]) THEN Len(unread[p])
                                                              ELSE AvailableSpace(rings[p])
       IN  /\ rings' = [rings EXCEPT ![p] = Filled(@, SubSeq(unread[p], 1, n))]
           /\ unread' = [unread EXCEPT ![p] = SubSeq(@, n + 1, Len(@))]
    /\ UNCHANGED <<sent, ended, written>>

\* read returned -1: the block is written to the ring all the same, then the
\* client ends.
ReadFails(p) == /\ pc = "read" /\ p \in ready
                /\ rings' = [rings EXCEPT ![p] = Filled(@, <<>>)]
                /\ pc' = "ended"
                /\ UNCHANGED <<sent, unread, ended, written, ready>>

\* bfindreplace(data, &NL, &CRLF, 0)
Crlf(s) == FlattenSeq([i \in 1 .. Len(s) |-> IF s[i] = NL THEN <<CR, NL>> ELSE <<s[i]>>])

Typed(s) == FlattenSeq([i \in 1 .. Len(s) |-> IF s[i] = Junk THEN <<>> ELSE <<s[i]>>])

\* RingBuffer_get_all, which takes the bytes out of the ring before any of
\* them is written.
WriteSome(p) ==
    /\ pc = "write" /\ AvailableData(rings[p]) > 0
    /\ p = "user" => AvailableData(rings["server"]) = 0
    /\ LET n == AvailableData(rings[p])
           data == Crlf(GetsBytes(rings[p], n))
       IN  /\ rings' = [rings EXCEPT ![p] = CommitRead(@, n)]
           /\ \E k \in 0 .. Len(data) :
                 /\ written' = [written EXCEPT ![p] = @ \o Typed(SubSeq(data, 1, k))]
                 /\ pc' = IF k = Len(data) THEN "write" ELSE "ended"
    /\ UNCHANGED <<sent, unread, ended, ready>>

\* Mutant of Drained: one empty ring ends the round.
DrainedOne == \E p \in Peer : AvailableData(rings[p]) = 0

\* Both loops have found their ring empty.
Drained == \A p \in Peer : AvailableData(rings[p]) = 0

RoundOver == /\ pc = "write" /\ Drained
             /\ pc' = "select"
             /\ UNCHANGED <<rings, sent, unread, ended, written, ready>>

ReadAny == \E p \in Peer : ReadSome(p)
WriteAny == \E p \in Peer : WriteSome(p)

Client == Select \/ ReadAny \/ WriteAny \/ RoundOver

ClientNext == \/ \E p \in Peer : (\E c \in Byte : Send(p, c)) \/ Close(p)
              \/ \E p \in Peer : ReadFails(p)
              \/ Client

ClientSpec == ClientInit /\ [][ClientNext]_clientVars /\ WF_clientVars(Client)

-----------------------------------------------------------------------------
\* What a peer sent reaches the other side in order, each byte once and each
\* line end as CR NL, whatever padding lies between the blocks and however
\* the two directions take turns; when select waits, nothing that was read is
\* still on its way.
Relayed ==
    \A p \in Peer :
        /\ IsPrefix(written[p], Crlf(sent[p]))
        /\ pc = "select" => Crlf(sent[p]) = written[p] \o Crlf(unread[p])

\* Every byte a peer sends is written on some day, unless the client ends
\* itself: select reports a descriptor until it has been read.
ReachesTheOther ==
    \A p \in Peer : \A n \in 1 .. MaxSent :
        Len(sent[p]) = n ~> pc = "ended" \/ Len(written[p]) >= n
=============================================================================
