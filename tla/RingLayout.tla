----------------------------- MODULE RingLayout -----------------------------
(***************************************************************************)
(* struct Ringbuffer (src/src/lcthw/ringbuffer.h) as a record, and its     *)
(* macros and functions (src/src/ringbuffer.c) as operators on it.  A ring *)
(* is [start, end : Int, looped : {0, 1}, buffer : Cell -> bytes];         *)
(* "length" is the constant Length and "fd" matters to RB_init only.       *)
(*                                                                         *)
(* memcpy and blk2bstr are modelled by the cells they touch.  A load of a  *)
(* cell past the allocation yields Junk, a byte nobody wrote: the C heap   *)
(* does not say which one.                                                 *)
(***************************************************************************)
EXTENDS Integers, Sequences

CONSTANTS Length,   \* RingBuffer_create's argument
          Byte,     \* the bytes callers write
          Nul,      \* the byte calloc leaves in a cell
          Junk      \* what a load past the allocation returns

ASSUME LengthAssumption == Length \in Nat \ {0}
ASSUME JunkAssumption == Junk \notin Byte \cup {Nul}

Cell == 0 .. Length - 1

Ring(start, end, looped, buffer) ==
    [start |-> start, end |-> end, looped |-> looped, buffer |-> buffer]

\* RingBuffer_create
NewRing == Ring(0, 0, 0, [c \in Cell |-> Nul])

-----------------------------------------------------------------------------
(* The macros and inline functions of ringbuffer.h *)

AvailableData(rb) == IF rb.looped = 0 THEN rb.end - rb.start
                                      ELSE Length + rb.end - rb.start
AvailableSpace(rb) == Length - AvailableData(rb)

\* Mutants of CommitRead: the bound off by one; "looped" left set.
CommitReadLate(rb, n) ==
    LET s == rb.start + n
    IN  IF s > Length THEN Ring(s % Length, rb.end, 0, rb.buffer)
                      ELSE Ring(s, rb.end, rb.looped, rb.buffer)
CommitReadKeepsLooped(rb, n) ==
    Ring((rb.start + n) % Length, rb.end, rb.looped, rb.buffer)

CommitRead(rb, n) ==
    LET s == rb.start + n
    IN  IF s >= Length THEN Ring(s % Length, rb.end, 0, rb.buffer)
                       ELSE Ring(s, rb.end, rb.looped, rb.buffer)

\* Mutant of CommitWrite: "looped" is not set.
CommitWriteNotLooped(rb, n) ==
    Ring(rb.start, (rb.end + n) % Length, rb.looped, rb.buffer)

CommitWrite(rb, n) ==
    LET e == rb.end + n
    IN  IF e >= Length THEN Ring(rb.start, e % Length, 1, rb.buffer)
                       ELSE Ring(rb.start, e, rb.looped, rb.buffer)

-----------------------------------------------------------------------------
(* Copies in and out of the allocation *)

\* memcpy into the ring from cell "at" on; a byte outside the ring is lost.
Store(buffer, at, data) ==
    [c \in Cell |-> IF c >= at /\ c < at + Len(data) THEN data[c - at + 1]
                                                     ELSE buffer[c]]

\* memcpy or blk2bstr of n bytes out of the ring from cell "at" on.
Load(buffer, at, n) ==
    [i \in 1 .. n |-> IF at + i - 1 \in Cell THEN buffer[at + i - 1] ELSE Junk]

\* The unread bytes, oldest first: what a caller believes the ring holds.
Contents(rb) ==
    [i \in 1 .. AvailableData(rb) |->
        IF rb.start + i - 1 < Length THEN rb.buffer[rb.start + i - 1]
                                     ELSE rb.buffer[rb.start + i - 1 - Length]]

-----------------------------------------------------------------------------
(* RingBuffer_write *)

\* A write first rewinds a ring it finds empty; it does so even when the
\* request is then refused.
Rewound(rb) == IF AvailableData(rb) = 0 THEN Ring(0, 0, rb.looped, rb.buffer) ELSE rb

Fits(rb, n) == n <= AvailableSpace(rb)

\* Mutant of Splits: the write always copies in one piece.
SplitsNever(rb, n) == FALSE

\* The tail of the array is too short for n bytes and the front is free.
Splits(rb, n) == rb.looped = 0 /\ Length - rb.end < n

Written(rb, data) ==
    LET tail == Length - rb.end
        front == SubSeq(data, tail + 1, Len(data))
        stored == IF Splits(rb, Len(data))
                  THEN Store(Store(rb.buffer, rb.end, SubSeq(data, 1, tail)), 0, front)
                  ELSE Store(rb.buffer, rb.end, data)
    IN  CommitWrite(Ring(rb.start, rb.end, rb.looped, stored), Len(data))

-----------------------------------------------------------------------------
(* RingBuffer_read *)

\* When the data wraps, the first copy runs past the allocation and the
\* second one overwrites what it brought back from there.
ReadBytes(rb, n) ==
    LET tail == Length - rb.start
        first == Load(rb.buffer, rb.start, n)
    IN  IF rb.looped = 1 /\ tail < n
        THEN SubSeq(first, 1, tail) \o Load(rb.buffer, 0, n - tail)
        ELSE first

\* The rewind at the end looks at the indices only, not at "looped".
AfterRead(rb, n) ==
    LET r == CommitRead(rb, n)
    IN  IF r.end = r.start THEN Ring(0, 0, r.looped, r.buffer) ELSE r

-----------------------------------------------------------------------------
(* RingBuffer_gets and RingBuffer_get_all *)

\* The test that chooses the two-piece copy is the opposite of the one in
\* RingBuffer_read.  Its second piece has a negative length, for which
\* blk2bstr returns NULL and bconcat leaves the first piece as it is.
GetsBytes(rb, n) ==
    LET tail == Length - rb.start
    IN  IF rb.looped = 1 /\ n < tail THEN Load(rb.buffer, rb.start, tail)
                                     ELSE Load(rb.buffer, rb.start, n)

\* check(blength(result) == amount, ...): the macro negates blength(result)
\* before it compares, so the guard refuses only these two cases.
WrongLengthNoticed(result, n) == (IF Len(result) = 0 THEN 1 ELSE 0) = n

=============================================================================
