----------------------------- MODULE RingBuffer -----------------------------
(***************************************************************************)
(* One RingBuffer_create'd ring (src/src/ringbuffer.c) and the calls its   *)
(* users make: RingBuffer_write, RingBuffer_read, RingBuffer_gets and the  *)
(* macro RingBuffer_get_all.  One action per call.                         *)
(***************************************************************************)
EXTENDS RingLayout

CONSTANT MaxRequest     \* bound on the length or amount a caller asks for

ASSUME MaxRequestAssumption == MaxRequest \in Nat

VARIABLES rb,           \* the ring
          out           \* the last call: what it asked for, its result, the bytes it moved

vars == <<rb, out>>

Outcome(call, asked, ret, data) ==
    [call |-> call, asked |-> asked, ret |-> ret, data |-> data]

Init == /\ rb = NewRing
        /\ out = Outcome("create", 0, 0, <<>>)

RingBuffer_write(data) ==
    LET r == Rewound(rb)
    IN  IF Fits(r, Len(data))
        THEN /\ out' = Outcome("write", Len(data), Len(data), data)
             /\ rb' = Written(r, data)
        ELSE /\ out' = Outcome("write", Len(data), -1, <<>>)
             /\ rb' = r

RingBuffer_read(n) ==
    IF n <= AvailableData(rb)
    THEN /\ out' = Outcome("read", n, n, ReadBytes(rb, n))
         /\ rb' = AfterRead(rb, n)
    ELSE /\ out' = Outcome("read", n, -1, <<>>)
         /\ UNCHANGED rb

\* A NULL result counts as -1, a string as the amount that was asked for.
RingBuffer_gets(n) ==
    IF n > 0 /\ n <= AvailableData(rb) /\ ~WrongLengthNoticed(GetsBytes(rb, n), n)
    THEN /\ out' = Outcome("gets", n, n, GetsBytes(rb, n))
         /\ rb' = CommitRead(rb, n)
    ELSE /\ out' = Outcome("gets", n, -1, <<>>)
         /\ UNCHANGED rb

RingBuffer_get_all == RingBuffer_gets(AvailableData(rb))

Strings == UNION {[1 .. n -> Byte] : n \in 0 .. MaxRequest}

Next == \/ \E data \in Strings : RingBuffer_write(data)
        \/ \E n \in 0 .. MaxRequest : RingBuffer_read(n)
        \/ \E n \in 0 .. MaxRequest : RingBuffer_gets(n)
        \/ RingBuffer_get_all

Spec == Init /\ [][Next]_vars

-----------------------------------------------------------------------------
(***************************************************************************)
(* The calls for which the ring keeps its promise.  Two are left out:      *)
(*   - a gets on a ring whose data has reached the end of the array, unless *)
(*     it asks for exactly the bytes before that end: RingBuffer_gets      *)
(*     copies in one piece when two are needed and the other way round;    *)
(*   - a read of nothing while the ring is full and start is not 0, after  *)
(*     which the rewind of RingBuffer_read turns the contents round.       *)
(***************************************************************************)
OnePiece(n) == rb.looped = 0 \/ n = Length - rb.start

SoundRead(n) == ~(n = 0 /\ AvailableData(rb) = Length /\ rb.start > 0)

SoundNext ==
    \/ \E n \in 0 .. MaxRequest : SoundRead(n) /\ RingBuffer_read(n)
    \/ \E n \in 0 .. MaxRequest : OnePiece(n) /\ RingBuffer_gets(n)
    \/ OnePiece(AvailableData(rb)) /\ RingBuffer_get_all
    \/ \E data \in Strings : RingBuffer_write(data)

-----------------------------------------------------------------------------
\* The indices address a cell and the cells hold what calloc or a write put
\* there: no copy of the read-back junk ever lands in the ring.
TypeOK == /\ rb \in [start : Cell, end : Cell, looped : {0, 1},
                     buffer : [Cell -> Byte \cup {Nul}]]
          /\ out.call \in {"create", "write", "read", "gets"}
          /\ out.ret \in -1 .. Length

\* "looped" says which index leads, so the count of RingBuffer_available_data
\* is in 0 .. Length: every macro and every memcpy of ringbuffer.c relies on
\* it, and the assert that ends RingBuffer_gets (line 132) states half of it.
IndicesOrdered == IF rb.looped = 0 THEN rb.start <= rb.end ELSE rb.end <= rb.start

\* The count follows the calls: whatever bytes a call copies, the number of
\* unread bytes grows by what a write reports and shrinks by what a read or a
\* gets reports, over every rewind and every wrap of the indices.
Counted == AvailableData(rb') =
              IF out'.ret = -1 THEN AvailableData(rb)
              ELSE IF out'.call = "write" THEN AvailableData(rb) + out'.ret
                                          ELSE AvailableData(rb) - out'.ret

CountFollowsCalls == [][Counted]_vars

\* A sound call is a call of ByteQueue, whatever calls came before it: it
\* loses, repeats and reorders nothing, over any number of wraps.
Queue == INSTANCE ByteQueue WITH Capacity <- Length, queue <- Contents(rb)
IsByteQueue == Queue!Init /\ [][SoundNext => Queue!Next]_vars

\* "Wrong result length" (ringbuffer.c:124): a string returned by
\* RingBuffer_gets has the length that was asked for.
GetsLength == out.call = "gets" /\ out.ret # -1 => Len(out.data) = out.ret

=============================================================================
