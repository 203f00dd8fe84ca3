------------------------------ MODULE MCRings ------------------------------
(***************************************************************************)
(* The two ring buffers of ringbuffer.c and the programs that put sockets  *)
(* on them, at sizes TLC can exhaust.  They share nothing, so a behaviour  *)
(* is one of a single part: "part" says which, and the others stay as they *)
(* were created.                                                           *)
(***************************************************************************)
EXTENDS RingBuffer, NetClient

CONSTANTS PageSize,     \* of MirrorBuffer
          PieceLength   \* of SocketRing's ring

VARIABLES part, start, end, file, mapped, cut, moved

Mirror == INSTANCE MirrorBuffer WITH out <- mapped
Socket == INSTANCE SocketRing WITH Length <- PieceLength, rb <- cut, out <- moved

ASSUME Mirror!SizeAssumption

mirrorVars == <<start, end, file, mapped>>
socketVars == <<cut, moved>>

PartsInit == /\ part \in {"copying", "mapped", "socket", "client"}
             /\ Init /\ Mirror!Init /\ Socket!Init /\ ClientInit

CopyingNext == part = "copying" /\ Next /\ UNCHANGED <<part, mirrorVars, socketVars, clientVars>>
MappedNext == part = "mapped" /\ Mirror!Next /\ UNCHANGED <<part, vars, socketVars, clientVars>>
SocketNext == part = "socket" /\ Socket!SocketNext /\ UNCHANGED <<part, vars, mirrorVars, clientVars>>
RelayNext == part = "client" /\ ClientNext /\ UNCHANGED <<part, vars, mirrorVars, socketVars>>

allVars == <<part, vars, mirrorVars, socketVars, clientVars>>

ClientStep == part = "client" /\ Client /\ UNCHANGED <<part, vars, mirrorVars, socketVars>>

PartsSpec == /\ PartsInit
             /\ [][CopyingNext \/ MappedNext \/ SocketNext \/ RelayNext]_allVars
             /\ WF_allVars(ClientStep)

-----------------------------------------------------------------------------
\* Every call of the double-mapped ring, and of read_some and write_some on a
\* ring, is a call of the same bounded queue as the copying ring's
\* (IsByteQueue), whatever calls came before and however recv and send cut the
\* data; and the copies of the double-mapped ring stay inside the mapping,
\* since end is never more than a lap ahead of start (ringbuffer.c:102).
OthersAreByteQueues == /\ Mirror!IsByteQueue
                       /\ Socket!IsSocketQueue
                       /\ [](Mirror!TypeOK /\ Mirror!OneLapAhead)
=============================================================================
