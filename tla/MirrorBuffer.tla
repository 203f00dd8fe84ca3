---------------------------- MODULE MirrorBuffer ----------------------------
(***************************************************************************)
(* The other ring buffer of src/src/ringbuffer.c: RB_init maps the same    *)
(* pages twice in a row, so that RingBuffer_write1 and RingBuffer_read1    *)
(* copy in one piece wherever the data lies.  start stays below Length,    *)
(* end may run one Length ahead of it; "looped" is not used.               *)
(*                                                                         *)
(* The mapping is external (memfd_create, ftruncate, mmap): offset o of    *)
(* its 2 * Length bytes is byte o % Length of the file.  Past them nothing *)
(* is mapped: a store there is lost and a load yields Junk.                *)
(***************************************************************************)
EXTENDS Integers, Sequences

CONSTANTS PageSize,     \* getpagesize()
          Length,       \* RB_init's argument
          Byte, Nul, Junk,
          MaxRequest    \* bound on the length or amount a caller asks for

\* RB_init returns NULL, and there is no buffer, unless the size is a
\* multiple of the page size.
SizeAssumption == /\ PageSize \in Nat \ {0}
                  /\ Length \in Nat \ {0}
                  /\ Length % PageSize = 0
                  /\ MaxRequest \in Nat

VARIABLES start, end,   \* the indices
          file,         \* the pages behind the mapping
          out           \* the last call: what it asked for, its result, the bytes it moved

vars == <<start, end, file, out>>

Cell == 0 .. Length - 1

Outcome(call, asked, ret, data) ==
    [call |-> call, asked |-> asked, ret |-> ret, data |-> data]

\* memcpy of data to offset "at" of the double mapping
Store(at, data) ==
    [c \in Cell |->
        IF c >= at /\ c < at + Len(data) THEN data[c - at + 1]
        ELSE IF c + Length >= at /\ c + Length < at + Len(data) THEN data[c + Length - at + 1]
        ELSE file[c]]

\* memcpy of n bytes from offset "at"
Load(at, n) ==
    [i \in 1 .. n |-> IF at + i - 1 < 2 * Length THEN file[(at + i - 1) % Length]
                                                 ELSE Junk]

-----------------------------------------------------------------------------
\* RB_init
Init == /\ start = 0 /\ end = 0
        /\ file = [c \in Cell |-> Nul]
        /\ out = Outcome("create", 0, 0, <<>>)

RoomFor(n) == n <= Length - end + start

RingBuffer_write1(data) ==
    IF RoomFor(Len(data))
    THEN /\ file' = Store(end, data)
         /\ end' = end + Len(data)
         /\ out' = Outcome("write", Len(data), Len(data), data)
         /\ UNCHANGED start
    ELSE /\ out' = Outcome("write", Len(data), -1, <<>>)
         /\ UNCHANGED <<start, end, file>>

\* Mutant of StepBack: an index that has just reached the end stays there.
StepBackLate(s) == /\ start' = IF s > Length THEN s - Length ELSE s
                   /\ end' = IF s > Length THEN end - Length ELSE end

\* Once start has passed into the second mapping both indices step back.
StepBack(s) == /\ start' = IF s >= Length THEN s - Length ELSE s
               /\ end' = IF s >= Length THEN end - Length ELSE end

RingBuffer_read1(n) ==
    IF n <= end - start
    THEN /\ out' = Outcome("read", n, n, Load(start, n))
         /\ StepBack(start + n)
         /\ UNCHANGED file
    ELSE /\ out' = Outcome("read", n, -1, <<>>)
         /\ UNCHANGED <<start, end, file>>

Strings == UNION {[1 .. n -> Byte] : n \in 0 .. MaxRequest}

Next == \/ \E data \in Strings : RingBuffer_write1(data)
        \/ \E n \in 0 .. MaxRequest : RingBuffer_read1(n)

Spec == Init /\ [][Next]_vars

-----------------------------------------------------------------------------
\* start addresses a cell of the first mapping, and the pages hold what
\* calloc-like zero pages or a write put there.
TypeOK == /\ start \in Cell
          /\ end \in Nat
          /\ file \in [Cell -> Byte \cup {Nul}]
          /\ out.call \in {"create", "write", "read"}
          /\ out.ret \in -1 .. Length

\* end never laps start and every copy RingBuffer_write1 and RingBuffer_read1
\* make lies inside the 2 * Length bytes that are mapped.
OneLapAhead == start <= end /\ end <= start + Length

\* The unread bytes, oldest first.
Contents == [i \in 1 .. end - start |-> file[(start + i - 1) % Length]]

\* The mirrored buffer is the queue of ByteQueue for every call, reads of
\* nothing and requests that do not fit included.
Queue == INSTANCE ByteQueue WITH Capacity <- Length, queue <- Contents
IsByteQueue == Queue!Spec

=============================================================================
