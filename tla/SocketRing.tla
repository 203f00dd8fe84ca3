----------------------------- MODULE SocketRing -----------------------------
(***************************************************************************)
(* read_some and write_some of src/src/server.c on one ring: what recv and *)
(* send move goes straight in and out of the cells, in one or two pieces,  *)
(* and may be less than asked for.  The data that arrives and the counts   *)
(* are the network's choice.  The -1 of a failed recv or send is committed *)
(* like a count; nothing is said of the ring from then on.                 *)
(***************************************************************************)
EXTENDS RingBuffer

Failed == out.ret = -1

\* What recv may deliver of n bytes asked for.
Arriving(n) == UNION {[1 .. k -> Byte] : k \in 0 .. n}

\* recv(sockfd, ends_at, ...) and the commit of what it returned.
Received(r, data) ==
    CommitWrite(Ring(r.start, r.end, r.looped, Store(r.buffer, r.end, data)), Len(data))

Read(r, data) == rb' = r /\ out' = Outcome("write", Len(data), Len(data), data)

\* Up to the end of the array first; when that much came, the front is filled.
\* On a looped ring one recv takes what is free.
read_some ==
    LET tail == Length - rb.end
    IN  /\ AvailableSpace(rb) > 0
        /\ IF rb.looped = 1
           THEN \E s \in Arriving(AvailableSpace(rb)) : Read(Received(rb, s), s)
           ELSE \E s \in Arriving(tail) :
                  LET r == Received(rb, s)
                  IN  IF Len(s) < tail THEN Read(r, s)
                      ELSE \E t \in Arriving(AvailableSpace(r)) : Read(Received(r, t), s \o t)

Wrote(r, data) == rb' = r /\ out' = Outcome("read", Len(data), Len(data), data)

\* The same for send; a piece that is sent in part ends the call.
write_some ==
    /\ AvailableData(rb) > 0
    /\ LET size == IF rb.looped = 1 THEN Length - rb.start ELSE AvailableData(rb)
       IN  \E k \in 0 .. size :
             LET r == CommitRead(rb, k)
                 first == Load(rb.buffer, rb.start, k)
             IN  IF rb.looped = 0 \/ k < size THEN Wrote(r, first)
                 ELSE \E j \in 0 .. AvailableData(r) :
                        Wrote(CommitRead(r, j), first \o Load(r.buffer, r.start, j))

\* The call of recv or send that fails is the first one here.
Fail == /\ \/ AvailableSpace(rb) > 0 /\ rb' = CommitWrite(rb, -1)
           \/ AvailableData(rb) > 0 /\ rb' = CommitRead(rb, -1)
        /\ out' = Outcome("fail", 0, -1, <<>>)

SocketNext == ~Failed /\ (read_some \/ write_some \/ Fail)

SocketSpec == Init /\ [][SocketNext]_vars

-----------------------------------------------------------------------------
\* Until a call fails, what is received is what is sent, in order and once,
\* however recv and send cut it and over every wrap: read_some and write_some
\* are the writes and reads of ByteQueue.
IsSocketQueue == Queue!Init /\ [][Failed' \/ Queue!Next]_vars
=============================================================================
