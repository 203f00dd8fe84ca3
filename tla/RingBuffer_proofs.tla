-------------------------- MODULE RingBuffer_proofs --------------------------
(***************************************************************************)
(* For every Length, MaxRequest and set of bytes: the indices of the       *)
(* copying ring stay ordered under every call, the count of unread bytes   *)
(* follows what the calls report, and the sound calls are those of a queue;*)
(* the same holds of the ring recv and send work on (SocketRing), and      *)
(* netclient.c relays every byte, with each of its rings full or empty     *)
(* (NetClient).                                                            *)
(***************************************************************************)
EXTENDS SocketRing, NetClient, RingLayout_proofs, WellFoundedInduction

\* A caller's string is a sequence of bytes.
LEMMA StringsAreSequences ==
    ASSUME NEW data \in Strings, MaxRequest \in Nat
    PROVE  data \in Seq(Byte) /\ Len(data) \in Nat
  BY SeqDef, LenProperties DEF Strings

-----------------------------------------------------------------------------
\* TypeOK and IndicesOrdered together are inductive.
IInv == TypeOK /\ IndicesOrdered

LEMMA IInvIsOrdered == IInv => Ordered(rb)
  BY DEF IInv, TypeOK, IndicesOrdered, Ordered, Bytes

\* What every call establishes, given an ordered ring.
StepOK == /\ Ordered(rb')
          /\ out'.call \in {"write", "read", "gets"}
          /\ out'.ret \in -1 .. Length
          /\ Counted

\* RingBuffer_write keeps the ring ordered and its count right, also when
\* it refuses.
LEMMA WriteStep ==
    ASSUME IInv, NEW data \in Strings, RingBuffer_write(data)
    PROVE  StepOK
  <1> DEFINE r == Rewound(rb)
  <1>1. data \in Seq(Byte) /\ Len(data) \in Nat
    BY MaxRequestAssumption, StringsAreSequences
  <1>2. Ordered(r) /\ AvailableData(r) = AvailableData(rb)
    BY IInvIsOrdered, RewoundCorrect
  <1>3. CASE Fits(r, Len(data))
    <2>1. rb' = Written(r, data) /\ out' = Outcome("write", Len(data), Len(data), data)
      BY <1>3 DEF RingBuffer_write
    <2>2. /\ Ordered(rb')
          /\ AvailableData(rb') = AvailableData(rb) + Len(data)
      BY <1>1, <1>2, <1>3, <2>1, WrittenCorrect
    <2>3. Len(data) \in 0 .. Length
      BY <1>1, <1>2, <1>3, Fields DEF Fits, AvailableSpace
    <2> QED
      BY <2>1, <2>2, <2>3 DEF StepOK, Counted, Outcome
  <1>4. CASE ~Fits(r, Len(data))
    <2>1. rb' = r /\ out' = Outcome("write", Len(data), -1, <<>>)
      BY <1>4 DEF RingBuffer_write
    <2> QED
      BY <1>2, <2>1, LengthAssumption DEF StepOK, Counted, Outcome
  <1> QED
    BY <1>3, <1>4

\* RingBuffer_read likewise.
LEMMA ReadStep ==
    ASSUME IInv, NEW n \in Nat, RingBuffer_read(n)
    PROVE  StepOK
  <1>1. CASE n <= AvailableData(rb)
    <2>1. rb' = AfterRead(rb, n) /\ out'.call = "read" /\ out'.ret = n
      BY <1>1 DEF RingBuffer_read, Outcome
    <2>2. Ordered(rb') /\ AvailableData(rb') = AvailableData(rb) - n
      BY <1>1, <2>1, IInvIsOrdered, AfterReadCorrect
    <2>3. n \in 0 .. Length
      BY <1>1, IInvIsOrdered, Fields
    <2> QED
      BY <2>1, <2>2, <2>3 DEF StepOK, Counted
  <1>2. CASE ~(n <= AvailableData(rb))
    BY <1>2, IInvIsOrdered, LengthAssumption DEF RingBuffer_read, StepOK, Counted, Outcome
  <1> QED
    BY <1>1, <1>2

\* RingBuffer_gets likewise, whichever bytes it copies.
LEMMA GetsStep ==
    ASSUME IInv, NEW n \in Int, RingBuffer_gets(n)
    PROVE  StepOK
  <1> DEFINE ok == n > 0 /\ n <= AvailableData(rb) /\ ~WrongLengthNoticed(GetsBytes(rb, n), n)
  <1>1. CASE ok
    <2>1. rb' = CommitRead(rb, n) /\ out'.call = "gets" /\ out'.ret = n
      BY <1>1 DEF RingBuffer_gets, Outcome
    <2>2. Ordered(rb') /\ AvailableData(rb') = AvailableData(rb) - n
      BY <1>1, <2>1, IInvIsOrdered, CommitReadCorrect
    <2>3. n \in 0 .. Length
      BY <1>1, IInvIsOrdered, Fields
    <2> QED
      BY <2>1, <2>2, <2>3 DEF StepOK, Counted
  <1>2. CASE ~ok
    BY <1>2, IInvIsOrdered, LengthAssumption DEF RingBuffer_gets, StepOK, Counted, Outcome
  <1> QED
    BY <1>1, <1>2

LEMMA StepIsOK == IInv /\ Next => StepOK
  <1> SUFFICES ASSUME IInv, Next PROVE StepOK
    OBVIOUS
  <1>1. CASE \E data \in Strings : RingBuffer_write(data)
    BY <1>1, WriteStep
  <1>2. CASE \E n \in 0 .. MaxRequest : RingBuffer_read(n)
    BY <1>2, ReadStep, MaxRequestAssumption
  <1>3. CASE \E n \in 0 .. MaxRequest : RingBuffer_gets(n)
    BY <1>3, GetsStep, MaxRequestAssumption
  <1>4. CASE RingBuffer_get_all
    <2>1. AvailableData(rb) \in Int
      BY IInvIsOrdered, Fields
    <2> QED
      BY <1>4, <2>1, GetsStep DEF RingBuffer_get_all
  <1> QED
    BY <1>1, <1>2, <1>3, <1>4 DEF Next

LEMMA InitIInv == Init => IInv
  BY LengthAssumption
     DEF Init, NewRing, Ring, Outcome, IInv, TypeOK, IndicesOrdered, Cell

LEMMA IInvInductive == IInv /\ [Next]_vars => IInv'
  <1>1. ASSUME IInv, Next PROVE IInv'
    BY <1>1, StepIsOK DEF StepOK, Ordered, Bytes, IInv, TypeOK, IndicesOrdered, Cell
  <1>2. ASSUME IInv, UNCHANGED vars PROVE IInv'
    BY <1>2 DEF vars, IInv, TypeOK, IndicesOrdered, Cell
  <1> QED
    BY <1>1, <1>2

LEMMA IInvAlways == Spec => []IInv
  BY InitIInv, IInvInductive, PTL DEF Spec

\* Type correctness: the indices of RingBuffer_create's ring address a cell
\* after every sequence of calls.
THEOREM TypeCorrect == Spec => []TypeOK
  BY IInvAlways, PTL DEF IInv

\* "looped" says which index leads, so the count is never negative and never
\* more than the length (the assert at ringbuffer.c:132).
THEOREM AlwaysIndicesOrdered == Spec => []IndicesOrdered
  BY IInvAlways, PTL DEF IInv

\* The count of unread bytes changes by exactly what the calls report.
THEOREM AlwaysCountFollowsCalls == Spec => CountFollowsCalls
  <1>1. IInv /\ [Next]_vars => [Counted]_vars
    BY StepIsOK DEF StepOK
  <1> QED
    BY <1>1, IInvAlways, PTL DEF Spec, CountFollowsCalls

-----------------------------------------------------------------------------
(* Every sound call is a call of ByteQueue on the unread bytes. *)

LEMMA QueueLength ==
    ASSUME IInv
    PROVE  /\ Len(Contents(rb)) = AvailableData(rb)
           /\ AvailableData(rb) \in Nat /\ AvailableData(rb) <= Length /\ Length \in Nat
  BY IInvIsOrdered, ContentsByCells, LengthAssumption

\* A call that takes the n oldest unread bytes and returns them.
LEMMA RemovalIsQueueStep ==
    ASSUME IInv, NEW call, NEW n \in 0 .. Length, n <= AvailableData(rb),
           call = "read" \/ (call = "gets" /\ n > 0),
           Contents(rb)' = SubSeq(Contents(rb), n + 1, AvailableData(rb)),
           out' = Outcome(call, n, n, SubSeq(Contents(rb), 1, n))
    PROVE  Queue!Next
  <1>1. Queue!Remove(call, n)
    BY QueueLength DEF Queue!Remove, Queue!Outcome, Outcome
  <1>2. CASE call = "read"
    BY <1>1, <1>2 DEF Queue!Next
  <1>3. CASE call = "gets" /\ n > 0
    <2>1. n \in 1 .. Length
      BY <1>3
    <2> QED
      BY <1>1, <1>3, <2>1 DEF Queue!Next
  <1> QED
    BY <1>2, <1>3

LEMMA WriteIsQueueStep ==
    ASSUME IInv, NEW data \in Strings, RingBuffer_write(data)
    PROVE  Queue!Next
  <1> DEFINE r == Rewound(rb)
             n == Len(data)
  <1>1. data \in Seq(Byte) /\ n \in Nat
    BY MaxRequestAssumption, StringsAreSequences
  <1>2. /\ Ordered(r) /\ AvailableData(r) = AvailableData(rb)
        /\ Contents(r) = Contents(rb)
    BY IInvIsOrdered, RewoundCorrect, RewoundContents
  <1>3. CASE Fits(r, n)
    <2>1. rb' = Written(r, data) /\ out' = Outcome("write", n, n, data)
      BY <1>3 DEF RingBuffer_write
    <2>2. Contents(rb)' = Contents(rb) \o data
      BY <1>1, <1>2, <1>3, <2>1, WrittenContents
    <2>3. n \in 0 .. Length /\ n <= Length - AvailableData(rb)
      BY <1>1, <1>2, <1>3, Fields DEF Fits, AvailableSpace
    <2>4. Queue!Write(data)
      BY <2>1, <2>2, <2>3, QueueLength DEF Queue!Write, Queue!Outcome, Outcome
    <2>5. data \in [1 .. n -> Byte]
      BY <1>1, LenProperties
    <2> HIDE DEF n
    <2> QED
      BY <2>3, <2>4, <2>5 DEF Queue!Next
  <1>4. CASE ~Fits(r, n)
    <2>1. rb' = r /\ out' = Outcome("write", Len(data), -1, <<>>)
      BY <1>4 DEF RingBuffer_write
    <2>2. Contents(rb)' = Contents(rb)
      BY <1>2, <2>1
    <2>3. n > Length - AvailableData(rb) /\ n \in 0 .. MaxRequest
      BY <1>1, <1>2, <1>4, Fields, LenProperties, MaxRequestAssumption
         DEF Fits, AvailableSpace, Strings
    <2> HIDE DEF n
    <2>4. Queue!Refuse("write", n)
      BY <2>1, <2>2, <2>3, QueueLength DEF Queue!Refuse, Queue!Outcome, Outcome, n
    <2> QED
      BY <2>3, <2>4 DEF Queue!Next
  <1> QED
    BY <1>3, <1>4

LEMMA ReadIsQueueStep ==
    ASSUME IInv, NEW n \in 0 .. MaxRequest, RingBuffer_read(n), SoundRead(n)
    PROVE  Queue!Next
  <1>1. CASE n <= AvailableData(rb)
    <2>1. rb' = AfterRead(rb, n) /\ out' = Outcome("read", n, n, ReadBytes(rb, n))
      BY <1>1 DEF RingBuffer_read
    <2>2. Contents(rb)' = SubSeq(Contents(rb), n + 1, AvailableData(rb))
      BY <1>1, <2>1, IInvIsOrdered, AfterReadContents DEF SoundRead
    <2>3. ReadBytes(rb, n) = SubSeq(Contents(rb), 1, n)
      BY <1>1, IInvIsOrdered, ReadBytesContents
    <2>4. n \in 0 .. Length
      BY <1>1, QueueLength
    <2> QED
      BY <1>1, <2>1, <2>2, <2>3, <2>4, RemovalIsQueueStep
  <1>2. CASE ~(n <= AvailableData(rb))
    <2>1. Queue!Refuse("read", n)
      BY <1>2, QueueLength DEF RingBuffer_read, Queue!Refuse, Queue!Outcome, Outcome
    <2> QED
      BY <2>1 DEF Queue!Next
  <1> QED
    BY <1>1, <1>2

LEMMA GetsIsQueueStep ==
    ASSUME IInv, NEW n \in Nat, n <= MaxRequest \/ n = AvailableData(rb),
           RingBuffer_gets(n), OnePiece(n)
    PROVE  Queue!Next
  <1> DEFINE ok == n > 0 /\ n <= AvailableData(rb) /\ ~WrongLengthNoticed(GetsBytes(rb, n), n)
  <1>1. CASE ok
    <2>1. rb' = CommitRead(rb, n) /\ out' = Outcome("gets", n, n, GetsBytes(rb, n))
      BY <1>1 DEF RingBuffer_gets
    <2>2. Contents(rb)' = SubSeq(Contents(rb), n + 1, AvailableData(rb))
      BY <1>1, <2>1, IInvIsOrdered, CommitReadContents
    <2>3. GetsBytes(rb, n) = SubSeq(Contents(rb), 1, n)
      BY <1>1, IInvIsOrdered, GetsBytesContents DEF OnePiece
    <2>4. n \in 0 .. Length /\ n > 0
      BY <1>1, QueueLength
    <2> QED
      BY <1>1, <2>1, <2>2, <2>3, <2>4, RemovalIsQueueStep
  <1>2. CASE ~ok
    <2>1. n = 0 \/ n > AvailableData(rb)
      <3> SUFFICES ASSUME n > 0, n <= AvailableData(rb) PROVE FALSE
        BY QueueLength
      <3>1. Len(GetsBytes(rb, n)) = n
        BY IInvIsOrdered, GetsBytesContents DEF OnePiece
      <3> QED
        BY <1>2, <3>1 DEF WrongLengthNoticed
    <2>2. Queue!Refuse("gets", n)
      BY <1>2, <2>1, QueueLength DEF RingBuffer_gets, Queue!Refuse, Queue!Outcome, Outcome
    <2>3. n \in 0 .. MaxRequest
      BY <2>1, QueueLength, MaxRequestAssumption
    <2> QED
      BY <2>2, <2>3 DEF Queue!Next
  <1> QED
    BY <1>1, <1>2

LEMMA SoundStepIsQueueStep == IInv /\ SoundNext => Queue!Next
  <1> SUFFICES ASSUME IInv, SoundNext PROVE Queue!Next
    OBVIOUS
  <1>1. CASE \E data \in Strings : RingBuffer_write(data)
    BY <1>1, WriteIsQueueStep
  <1>2. CASE \E n \in 0 .. MaxRequest : SoundRead(n) /\ RingBuffer_read(n)
    BY <1>2, ReadIsQueueStep, MaxRequestAssumption
  <1>3. CASE \E n \in 0 .. MaxRequest : OnePiece(n) /\ RingBuffer_gets(n)
    BY <1>3, GetsIsQueueStep, MaxRequestAssumption
  <1>4. CASE OnePiece(AvailableData(rb)) /\ RingBuffer_get_all
    <2>1. AvailableData(rb) \in Nat
      BY QueueLength
    <2> QED
      BY <1>4, <2>1, GetsIsQueueStep DEF RingBuffer_get_all
  <1> QED
    BY <1>1, <1>2, <1>3, <1>4 DEF SoundNext

\* calloc's ring is the empty queue.
LEMMA InitIsQueueInit == Init => Queue!Init
  <1> SUFFICES ASSUME Init PROVE Queue!Init
    OBVIOUS
  <1>1. Ordered(rb) /\ AvailableData(rb) = 0
    <2>1. AvailableData(rb) = 0
      BY DEF Init, NewRing, Ring, AvailableData
    <2> QED
      BY <2>1, InitIInv, IInvIsOrdered
  <1>2. Contents(rb) = <<>>
    BY <1>1, ContentsByCells, EmptySeq, SameBytes
  <1> QED
    BY <1>2 DEF Init, Queue!Init, Outcome, Queue!Outcome

\* The ring implements the queue: every sound call, wherever the unsound ones
\* before it left the indices, writes, reads or refuses as ByteQueue does.
THEOREM AlwaysByteQueue == Spec => IsByteQueue
  <1>1. IInv /\ [Next]_vars => [SoundNext => Queue!Next]_vars
    BY SoundStepIsQueueStep
  <1> QED
    BY <1>1, InitIsQueueInit, IInvAlways, PTL DEF Spec, IsByteQueue

-----------------------------------------------------------------------------
(* read_some and write_some of server.c *)

\* A recv that stays before the end of the array, or in the gap of a looped
\* ring, stores what RingBuffer_write would.
LEMMA ReceivedIsWritten ==
    ASSUME NEW r, NEW data, ~Splits(r, Len(data))
    PROVE  Received(r, data) = Written(r, data)
  BY DEF Received, Written

\* What recv delivers is a sequence of bytes.
LEMMA ArrivingIsSequence ==
    ASSUME NEW n \in Nat, NEW data \in Arriving(n)
    PROVE  data \in Seq(Byte) /\ Len(data) \in Nat /\ Len(data) <= n
  <1>1. PICK k \in 0 .. n : data \in [1 .. k -> Byte]
    BY DEF Arriving
  <1>2. data \in Seq(Byte)
    BY <1>1, SeqDef
  <1>3. Len(data) = k
    BY <1>1, <1>2, LenProperties
  <1> QED
    BY <1>2, <1>3

\* One recv appends what arrived to the unread bytes.
LEMMA ReceivedContents ==
    ASSUME NEW r, Ordered(r), NEW data \in Seq(Byte), Fits(r, Len(data)),
           ~Splits(r, Len(data))
    PROVE  /\ Ordered(Received(r, data))
           /\ AvailableData(Received(r, data)) = AvailableData(r) + Len(data)
           /\ Contents(Received(r, data)) = Contents(r) \o data
  BY ReceivedIsWritten, WrittenCorrect, WrittenContents

\* Appending n bytes that fit, in however many pieces, is a write of the queue.
LEMMA AppendIsQueueWrite ==
    ASSUME Ordered(rb), NEW r, NEW data \in Seq(Byte), Read(r, data), Ordered(r),
           AvailableData(r) = AvailableData(rb) + Len(data),
           Contents(r) = Contents(rb) \o data
    PROVE  Ordered(rb') /\ Queue!Next
  <1> DEFINE n == Len(data)
  <1>1. /\ Len(Contents(rb)) = AvailableData(rb) /\ AvailableData(rb) \in Nat
        /\ AvailableData(r) <= Length /\ Length \in Nat /\ n \in Nat
    BY ContentsByCells, LenProperties, LengthAssumption
  <1>2. n \in 0 .. Length /\ n <= Length - Len(Contents(rb))
    BY <1>1
  <1>3. Queue!Write(data)
    BY <1>2 DEF Read, Queue!Write, Queue!Outcome, Outcome
  <1>4. data \in [1 .. n -> Byte]
    BY LenProperties
  <1> HIDE DEF n
  <1> QED
    BY <1>2, <1>3, <1>4 DEF Read, Queue!Next

LEMMA RecvIsQueueStep ==
    ASSUME Ordered(rb), read_some
    PROVE  Ordered(rb') /\ Queue!Next
  <1> DEFINE tail == Length - rb.end
  <1>1. /\ AvailableSpace(rb) \in Nat /\ tail \in Nat
        /\ rb.looped = 0 => tail <= AvailableSpace(rb)
    BY Fields DEF AvailableSpace
  <1>2. CASE rb.looped = 1
    <2>1. PICK s \in Arriving(AvailableSpace(rb)) : Read(Received(rb, s), s)
      BY <1>2 DEF read_some
    <2>2. s \in Seq(Byte) /\ Fits(rb, Len(s)) /\ ~Splits(rb, Len(s))
      BY <1>1, <1>2, ArrivingIsSequence DEF Fits, Splits
    <2> QED
      BY <2>1, <2>2, ReceivedContents, AppendIsQueueWrite
  <1>3. CASE rb.looped # 1
    <2>1. rb.looped = 0
      BY <1>3, Fields
    <2>2. PICK s \in Arriving(tail) :
              LET r == Received(rb, s)
              IN  IF Len(s) < tail THEN Read(r, s)
                  ELSE \E t \in Arriving(AvailableSpace(r)) : Read(Received(r, t), s \o t)
      BY <1>3 DEF read_some
    <2> DEFINE r == Received(rb, s)
    <2>3. s \in Seq(Byte) /\ Len(s) \in Nat /\ Len(s) <= tail
      BY <1>1, ArrivingIsSequence
    <2>4. Fits(rb, Len(s)) /\ ~Splits(rb, Len(s))
      BY <1>1, <2>1, <2>3 DEF Fits, Splits
    <2>5. /\ Ordered(r) /\ AvailableData(r) = AvailableData(rb) + Len(s)
          /\ Contents(r) = Contents(rb) \o s
      BY <2>3, <2>4, ReceivedContents
    <2>6. CASE Len(s) < tail
      BY <2>2, <2>3, <2>5, <2>6, AppendIsQueueWrite
    <2>7. CASE ~(Len(s) < tail)
      <3>1. PICK t \in Arriving(AvailableSpace(r)) : Read(Received(r, t), s \o t)
        BY <2>2, <2>7
      <3>2. r.looped = 1
        <4>1. rb.end + Len(s) >= Length
          BY <2>3, <2>7, Fields
        <4> QED
          BY <4>1 DEF Received, CommitWrite, Ring
      <3> DEFINE q == Received(r, t)
      <3> HIDE DEF r
      <3>3. AvailableSpace(r) \in Nat
        BY <2>5, Fields DEF AvailableSpace
      <3>4. t \in Seq(Byte) /\ Fits(r, Len(t)) /\ ~Splits(r, Len(t))
        BY <3>2, <3>3, ArrivingIsSequence DEF Fits, Splits
      <3>5. /\ Ordered(q) /\ AvailableData(q) = AvailableData(r) + Len(t)
            /\ Contents(q) = Contents(r) \o t
        BY <2>5, <3>4, ReceivedContents
      <3> HIDE DEF q
      <3>6. s \o t \in Seq(Byte) /\ Len(s \o t) = Len(s) + Len(t)
        BY <2>3, <3>4, ConcatProperties
      <3>7. Contents(q) = Contents(rb) \o (s \o t)
        <4>1. Contents(rb) \in Seq(Bytes) /\ s \in Seq(Bytes) /\ t \in Seq(Bytes)
          BY <2>3, <3>4, ContentsByCells, SeqDef DEF Bytes
        <4> QED
          BY <2>5, <3>5, <4>1, ConcatAssociative
      <3>8. AvailableData(q) = AvailableData(rb) + Len(s \o t)
        BY <2>3, <2>5, <3>4, <3>5, <3>6, ContentsByCells, LenProperties
      <3>9. Read(q, s \o t)
        BY <3>1 DEF q
      <3> QED
        BY <3>5, <3>6, <3>7, <3>8, <3>9, AppendIsQueueWrite
    <2> QED
      BY <2>6, <2>7
  <1> QED
    BY <1>2, <1>3

-----------------------------------------------------------------------------
\* Taking the n oldest bytes, in however many pieces, is a read of the queue.
LEMMA TakeIsQueueRead ==
    ASSUME Ordered(rb), NEW n \in Nat, n <= AvailableData(rb),
           NEW data, data = SubSeq(Contents(rb), 1, n), Wrote(CommitRead(rb, n), data)
    PROVE  Ordered(rb') /\ Queue!Next
  <1>1. /\ Len(Contents(rb)) = AvailableData(rb) /\ AvailableData(rb) \in Nat
        /\ AvailableData(rb) <= Length /\ Length \in Nat
    BY ContentsByCells, LengthAssumption
  <1>2. n \in 0 .. Length
    BY <1>1
  <1>3. Len(data) = n
    BY OldestBytes
  <1>4. /\ Ordered(CommitRead(rb, n))
        /\ Contents(CommitRead(rb, n)) = SubSeq(Contents(rb), n + 1, AvailableData(rb))
    BY CommitReadCorrect, CommitReadContents
  <1>5. Queue!Remove("read", n)
    BY <1>1, <1>3, <1>4 DEF Wrote, Queue!Remove, Queue!Outcome, Outcome
  <1> QED
    BY <1>2, <1>4, <1>5 DEF Wrote, Queue!Next

\* Two commits, the first up to the end of the array, are one.
LEMMA CommitReadTwice ==
    ASSUME NEW r, Ordered(r), r.looped = 1, NEW tail \in Nat, NEW j \in Nat,
           r.start + tail = Length, tail + j <= AvailableData(r)
    PROVE  /\ CommitRead(r, tail) = Ring(0, r.end, 0, r.buffer)
           /\ CommitRead(CommitRead(r, tail), j) = CommitRead(r, tail + j)
  <1>1. /\ Length \in Nat /\ Length > 0 /\ r.start \in Nat /\ r.end \in Nat
        /\ j <= r.end /\ r.end < Length
    BY Fields
  <1>2. Length % Length = 0 /\ (Length + j) % Length = j
    <2>1. Length \in Nat /\ Length < 2 * Length /\ Length + j \in Nat
          /\ Length + j >= Length /\ Length + j < 2 * Length
      BY <1>1
    <2> QED
      BY <1>1, <2>1, WrapOnce
  <1> DEFINE c == CommitRead(r, tail)
  <1>3. c = Ring(0, r.end, 0, r.buffer)
    BY <1>1, <1>2 DEF CommitRead
  <1> HIDE DEF c
  <1>4. CommitRead(c, j) = Ring(j, r.end, 0, r.buffer)
    BY <1>1, <1>3 DEF CommitRead, Ring
  <1>5. r.start + (tail + j) = Length + j /\ Length + j >= Length
    BY <1>1
  <1>6. CommitRead(r, tail + j) = Ring(j, r.end, 0, r.buffer)
    BY <1>2, <1>5 DEF CommitRead
  <1> QED
    BY <1>3, <1>4, <1>6 DEF c

LEMMA SendIsQueueStep ==
    ASSUME Ordered(rb), write_some
    PROVE  Ordered(rb') /\ Queue!Next
  <1> DEFINE size == IF rb.looped = 1 THEN Length - rb.start ELSE AvailableData(rb)
  <1>1. size \in Nat /\ size <= AvailableData(rb) /\ rb.start + size <= Length
    BY Fields
  <1>2. PICK k \in 0 .. size :
          LET r == CommitRead(rb, k)
              first == Load(rb.buffer, rb.start, k)
          IN  IF rb.looped = 0 \/ k < size THEN Wrote(r, first)
              ELSE \E j \in 0 .. AvailableData(r) :
                     Wrote(CommitRead(r, j), first \o Load(r.buffer, r.start, j))
    BY DEF write_some
  <1> DEFINE r == CommitRead(rb, k)
             first == Load(rb.buffer, rb.start, k)
  <1>3. CASE rb.looped = 0 \/ k < size
    <2>1. k \in Nat /\ k <= AvailableData(rb) /\ rb.start + k <= Length
      BY <1>1, Fields
    <2>2. first = SubSeq(Contents(rb), 1, k)
      BY <2>1, LoadContents
    <2>3. Wrote(r, first)
      BY <1>2, <1>3
    <2> QED
      BY <2>1, <2>2, <2>3, TakeIsQueueRead
  <1>4. CASE ~(rb.looped = 0 \/ k < size)
    <2>1. PICK j \in 0 .. AvailableData(r) :
              Wrote(CommitRead(r, j), first \o Load(r.buffer, r.start, j))
      BY <1>2, <1>4
    <2>2. /\ rb.looped = 1 /\ k \in Nat /\ rb.start + k = Length
          /\ k <= AvailableData(rb)
      BY <1>1, <1>4, Fields
    <2> HIDE DEF r, size
    <2>3. AvailableData(r) = AvailableData(rb) - k
      BY <2>2, CommitReadCorrect DEF r
    <2>4. j \in Nat /\ k + j <= AvailableData(rb) /\ k + j \in Nat
      BY <2>2, <2>3, ContentsByCells
    <2>5. r.start = 0 /\ r.buffer = rb.buffer /\ CommitRead(r, j) = CommitRead(rb, k + j)
      BY <2>2, <2>4, CommitReadTwice DEF r, Ring
    <2>6. first \o Load(r.buffer, r.start, j) = SubSeq(Contents(rb), 1, k + j)
      BY <2>2, <2>4, <2>5, LoadWrapped
    <2> QED
      BY <2>1, <2>4, <2>5, <2>6, TakeIsQueueRead
  <1> QED
    BY <1>3, <1>4

-----------------------------------------------------------------------------
\* Until a call fails the indices are ordered; nothing is said of them after.
SInv == Failed \/ Ordered(rb)

LEMMA StepIsQueueStep == SInv /\ SocketNext => SInv' /\ (Failed' \/ Queue!Next)
  <1> SUFFICES ASSUME SInv, SocketNext PROVE SInv' /\ (Failed' \/ Queue!Next)
    OBVIOUS
  <1>1. Ordered(rb)
    BY DEF SInv, SocketNext
  <1>2. Ordered(rb)' <=> Ordered(rb')
    BY DEF Ordered, Cell
  <1>3. CASE read_some
    BY <1>1, <1>2, <1>3, RecvIsQueueStep DEF SInv
  <1>4. CASE write_some
    BY <1>1, <1>2, <1>4, SendIsQueueStep DEF SInv
  <1>5. CASE Fail
    BY <1>5 DEF Fail, SInv, Failed, Outcome
  <1> QED
    BY <1>3, <1>4, <1>5 DEF SocketNext

LEMMA InitSInv == Init => SInv
  BY InitIInv, IInvIsOrdered DEF SInv

LEMMA SInvAlways == SocketSpec => []SInv
  <1>1. SInv /\ [SocketNext]_vars => SInv'
    <2>1. ASSUME SInv, UNCHANGED vars PROVE SInv'
      BY <2>1 DEF SInv, Failed, vars, Ordered
    <2> QED
      BY <2>1, StepIsQueueStep
  <1> QED
    BY <1>1, InitSInv, PTL DEF SocketSpec

\* What recv puts into the ring is what send takes out of it, in order and
\* once, until one of them fails.
THEOREM SocketByteQueue == SocketSpec => IsSocketQueue
  <1>1. SInv /\ [SocketNext]_vars => [Failed' \/ Queue!Next]_vars
    BY StepIsQueueStep
  <1> QED
    BY <1>1, InitIsQueueInit, SInvAlways, PTL DEF SocketSpec, IsSocketQueue

-----------------------------------------------------------------------------
(* Induction *)

\* A set of numbers that is not empty has a least element.
LEMMA LeastOf ==
    ASSUME NEW T \in SUBSET Nat, T # {}
    PROVE  \E x \in T : \A y \in T : x <= y
<1> DEFINE R == OpToRel(<, Nat)
<1>1. IsWellFoundedOn(R, Nat)  BY NatLessThanWellFounded
<1> HIDE DEF R
<1>2. PICK x \in T : \A y \in T : ~ (<<y, x>> \in R)  BY <1>1, WFMin
<1>3. ASSUME NEW y \in T PROVE x <= y
  <2>1. x \in Nat /\ y \in Nat  OBVIOUS
  <2>2. y < x => <<y, x>> \in R  BY <2>1 DEF R, OpToRel
  <2>3. QED  BY <1>2, <2>1, <2>2
<1>4. QED  BY <1>3

\* Induction, in the form of a set of numbers: every property is a set.
LEMMA ByInduction ==
    ASSUME NEW T \in SUBSET Nat, 0 \in T, \A n \in T : n + 1 \in T
    PROVE  T = Nat
<1> SUFFICES ASSUME Nat \ T # {} PROVE FALSE  OBVIOUS
<1>1. PICK x \in Nat \ T : \A y \in Nat \ T : x <= y
  <2>1. Nat \ T \in SUBSET Nat  OBVIOUS
  <2>2. QED  BY <2>1, LeastOf
<1>2. x # 0 /\ x - 1 \in Nat /\ x - 1 \in T  BY <1>1
<1>3. (x - 1) + 1 = x  BY <1>1
<1>4. QED  BY <1>1, <1>2, <1>3

-----------------------------------------------------------------------------
(* Strings put together of pieces *)

\* What FlattenSeq has put together after each of the first n pieces.
Flattens(seqs, n, f) ==
    \A i \in 1 .. n : f[i] = IF i = 1 THEN seqs[i] ELSE f[i - 1] \o seqs[i]

LEMMA FlattensOnce ==
    ASSUME NEW seqs, NEW n \in Nat, NEW f, NEW g, Flattens(seqs, n, f), Flattens(seqs, n, g)
    PROVE  \A i \in 1 .. n : f[i] = g[i]
  <1> DEFINE T == {k \in Nat : k \in 1 .. n => f[k] = g[k]}
  <1>1. T \in SUBSET Nat /\ 0 \in T
    OBVIOUS
  <1>2. ASSUME NEW k \in T PROVE k + 1 \in T
    <2>1. k + 1 \in 1 .. n => (k = 0 \/ k \in 1 .. n) /\ (k + 1) - 1 = k
      BY <1>2
    <2>2. k + 1 \in 1 .. n => f[k + 1] = g[k + 1]
      BY <1>2, <2>1 DEF Flattens
    <2> QED
      BY <2>2
  <1>3. T = Nat
    BY <1>1, <1>2, ByInduction
  <1> QED
    BY <1>3

LEMMA FlattensSome ==
    ASSUME NEW S, NEW seqs \in Seq(Seq(S))
    PROVE  \E f \in [1 .. Len(seqs) -> Seq(S)] : Flattens(seqs, Len(seqs), f)
  <1> DEFINE T == {n \in Nat : n <= Len(seqs) =>
                        \E f \in [1 .. n -> Seq(S)] : Flattens(seqs, n, f)}
  <1>0. Len(seqs) \in Nat /\ \A i \in 1 .. Len(seqs) : seqs[i] \in Seq(S)
    BY LenProperties, ElementOfSeq
  <1>1. T \in SUBSET Nat /\ 0 \in T
    <2>1. [i \in 1 .. 0 |-> <<>>] \in [1 .. 0 -> Seq(S)]
      OBVIOUS
    <2>2. Flattens(seqs, 0, [i \in 1 .. 0 |-> <<>>])
      BY DEF Flattens
    <2> QED
      BY <2>1, <2>2
  <1>2. ASSUME NEW n \in T PROVE n + 1 \in T
    <2> SUFFICES ASSUME n + 1 <= Len(seqs)
                 PROVE  \E g \in [1 .. n + 1 -> Seq(S)] : Flattens(seqs, n + 1, g)
      OBVIOUS
    <2>1. PICK f \in [1 .. n -> Seq(S)] : Flattens(seqs, n, f)
      BY <1>0, <1>2
    <2> DEFINE g == [i \in 1 .. n + 1 |-> IF i <= n THEN f[i] ELSE
                        IF n = 0 THEN seqs[i] ELSE f[n] \o seqs[i]]
    <2>2. seqs[n + 1] \in Seq(S) /\ n \in Nat
      BY <1>0, <1>2
    <2>3. n # 0 => f[n] \in Seq(S) /\ f[n] \o seqs[n + 1] \in Seq(S)
      BY <2>1, <2>2, ConcatProperties
    <2>4. g \in [1 .. n + 1 -> Seq(S)]
      BY <2>1, <2>2, <2>3
    <2>5. ASSUME NEW i \in 1 .. n + 1
          PROVE  g[i] = IF i = 1 THEN seqs[i] ELSE g[i - 1] \o seqs[i]
      <3>1. CASE i <= n
        <4>1. i \in 1 .. n /\ (i # 1 => i - 1 \in 1 .. n)
          BY <1>2, <3>1
        <4>2. g[i] = f[i] /\ (i # 1 => g[i - 1] = f[i - 1])
          BY <1>2, <3>1
        <4> QED
          BY <2>1, <4>1, <4>2 DEF Flattens
      <3>2. CASE i = n + 1
        <4>1. n # 0 => i # 1 /\ i - 1 = n /\ g[n] = f[n]
          BY <2>2, <3>2
        <4>2. n = 0 => i = 1
          BY <3>2
        <4>3. g[i] = IF n = 0 THEN seqs[i] ELSE f[n] \o seqs[i]
          BY <2>2, <3>2
        <4> HIDE DEF g
        <4> QED
          BY <4>1, <4>2, <4>3
      <3> QED
        BY <2>2, <3>1, <3>2
    <2> HIDE DEF g
    <2> QED
      BY <2>4, <2>5 DEF Flattens
  <1>3. T = Nat
    BY <1>1, <1>2, ByInduction
  <1> QED
    BY <1>0, <1>3

\* FlattenSeq goes through the pieces once, from the first to the last.
LEMMA FlattenLast ==
    ASSUME NEW S, NEW seqs \in Seq(Seq(S)), Len(seqs) # 0
    PROVE  \E f \in [1 .. Len(seqs) -> Seq(S)] :
              Flattens(seqs, Len(seqs), f) /\ FlattenSeq(seqs) = f[Len(seqs)]
  <1> DEFINE n == Len(seqs)
             Step(f) == [i \in 1 .. n |-> IF i = 1 THEN seqs[i] ELSE f[i - 1] \o seqs[i]]
             h == CHOOSE f : f = Step(f)
  <1>1. n \in Nat /\ n \in 1 .. n
    BY LenProperties
  <1>2. PICK f \in [1 .. n -> Seq(S)] : Flattens(seqs, n, f)
    BY FlattensSome
  <1>3. f = Step(f)
    BY <1>2 DEF Flattens
  <1>4. h = Step(h)
    BY <1>3
  <1>5. FlattenSeq(seqs) = h[n]
    BY DEF FlattenSeq
  <1> HIDE DEF h
  <1>6. Flattens(seqs, n, h)
    BY <1>4 DEF Flattens
  <1>7. h[n] = f[n]
    BY <1>1, <1>2, <1>6, FlattensOnce
  <1> QED
    BY <1>2, <1>5, <1>7

\* One more piece is put behind the others.
LEMMA FlattenAppend ==
    ASSUME NEW S, NEW seqs \in Seq(Seq(S)), NEW s \in Seq(S)
    PROVE  /\ FlattenSeq(seqs) \in Seq(S)
           /\ FlattenSeq(Append(seqs, s)) = FlattenSeq(seqs) \o s
  <1> DEFINE n == Len(seqs)
             more == Append(seqs, s)
  <1>1. /\ n \in Nat /\ more \in Seq(Seq(S)) /\ Len(more) = n + 1
        /\ \A i \in 1 .. n : more[i] = seqs[i]
        /\ more[n + 1] = s
    BY LenProperties, AppendProperties
  <1> HIDE DEF more
  <1>2. PICK g \in [1 .. n + 1 -> Seq(S)] :
            Flattens(more, n + 1, g) /\ FlattenSeq(more) = g[n + 1]
    BY <1>1, FlattenLast
  <1>3. CASE n = 0
    <2>1. seqs = <<>> /\ FlattenSeq(seqs) = <<>>
      BY <1>3, EmptySeq DEF FlattenSeq
    <2>2. FlattenSeq(more) = s
      BY <1>1, <1>2, <1>3 DEF Flattens
    <2> QED
      BY <2>1, <2>2, ConcatEmptySeq, EmptySeq DEF more
  <1>4. CASE n # 0
    <2>1. PICK f \in [1 .. n -> Seq(S)] : Flattens(seqs, n, f) /\ FlattenSeq(seqs) = f[n]
      BY <1>4, FlattenLast
    <2>2. Flattens(seqs, n, g)
      <3> SUFFICES ASSUME NEW i \in 1 .. n
                   PROVE  g[i] = IF i = 1 THEN seqs[i] ELSE g[i - 1] \o seqs[i]
        BY DEF Flattens
      <3>1. i \in 1 .. n + 1 /\ more[i] = seqs[i]
        BY <1>1
      <3> QED
        BY <1>2, <3>1 DEF Flattens
    <2>3. n \in 1 .. n /\ n + 1 \in 1 .. n + 1 /\ n + 1 # 1 /\ (n + 1) - 1 = n
      BY <1>1, <1>4
    <2>4. f[n] = g[n]
      <3>1. \A i \in 1 .. n : f[i] = g[i]
        <4>1. n \in Nat /\ Flattens(seqs, n, f) /\ Flattens(seqs, n, g)
          BY <1>1, <2>1, <2>2
        <4> HIDE DEF n
        <4> QED
          BY <4>1, FlattensOnce
      <3> QED
        BY <2>3, <3>1
    <2> HIDE DEF n
    <2>5. g[n + 1] = g[n] \o s
      BY <1>1, <1>2, <2>3 DEF Flattens
    <2>6. f[n] \in Seq(S)
      BY <2>1, <2>3
    <2> QED
      BY <1>2, <2>1, <2>4, <2>5, <2>6 DEF more
  <1> QED
    BY <1>3, <1>4

-----------------------------------------------------------------------------
(* Strings respelt character by character *)

\* Each character of s replaced by its spelling.
Spell(spelling, s) == FlattenSeq([i \in 1 .. Len(s) |-> spelling[s[i]]])

LEMMA SpellEmpty == \A g : Spell(g, <<>>) = <<>>
  <1> TAKE g
  <1>1. [i \in 1 .. Len(<<>>) |-> g[(<<>>)[i]]] = <<>>
    <2>1. [i \in 1 .. 0 |-> g[(<<>>)[i]]] \in Seq({g[(<<>>)[i]] : i \in 1 .. 0})
      BY SeqDef
    <2> QED
      BY <2>1, EmptySeq, LenProperties
  <1> QED
    BY <1>1, EmptySeq DEF Spell, FlattenSeq

\* One more character adds its spelling.
SpellsOn(g, s, c) == Spell(g, Append(s, c)) = Spell(g, s) \o g[c]

LEMMA SpellAppend ==
    ASSUME NEW C, NEW D, NEW g \in [C -> Seq(D)], NEW s \in Seq(C), NEW c \in C
    PROVE  Spell(g, s) \in Seq(D) /\ SpellsOn(g, s, c)
  <1> DEFINE n == Len(s)
             pieces == [i \in 1 .. n |-> g[s[i]]]
             more == Append(s, c)
             spelt == [i \in 1 .. Len(more) |-> g[more[i]]]
  <1>1. /\ n \in Nat /\ more \in Seq(C) /\ Len(more) = n + 1
        /\ \A i \in 1 .. n : more[i] = s[i] /\ s[i] \in C
        /\ more[n + 1] = c
    BY LenProperties, AppendProperties, ElementOfSeq
  <1>2. pieces \in Seq(Seq(D)) /\ Len(pieces) = n
    <2>1. pieces \in [1 .. n -> Seq(D)]
      BY <1>1
    <2>2. pieces \in Seq(Seq(D))
      BY <1>1, <2>1, SeqDef
    <2> QED
      BY <1>1, <2>1, <2>2, LenProperties
  <1>3. g[c] \in Seq(D)
    OBVIOUS
  <1>4. spelt = Append(pieces, g[c])
    <2>1. spelt \in [1 .. n + 1 -> Seq(D)]
      <3>1. \A i \in 1 .. n + 1 : more[i] \in C
        BY <1>1, ElementOfSeq
      <3> QED
        BY <1>1, <3>1
    <2>2. spelt \in Seq(Seq(D)) /\ Len(spelt) = n + 1
      <3>1. spelt \in Seq(Seq(D))
        BY <1>1, <2>1, SeqDef
      <3> QED
        BY <1>1, <2>1, <3>1, LenProperties
    <2> DEFINE app == Append(pieces, g[c])
    <2>3. /\ app \in Seq(Seq(D)) /\ Len(app) = n + 1
          /\ \A i \in 1 .. n : app[i] = pieces[i]
          /\ app[n + 1] = g[c]
      BY <1>2, <1>3, AppendProperties
    <2>4. ASSUME NEW i \in 1 .. n + 1 PROVE spelt[i] = app[i]
      <3>1. spelt[i] = g[more[i]]
        BY <1>1
      <3>2. CASE i = n + 1
        BY <1>1, <2>3, <3>1, <3>2
      <3>3. CASE i \in 1 .. n
        <4>1. pieces[i] = g[s[i]] /\ more[i] = s[i]
          BY <1>1, <3>3
        <4> QED
          BY <2>3, <3>1, <3>3, <4>1
      <3> QED
        BY <1>1, <3>2, <3>3
    <2> HIDE DEF spelt, app
    <2>5. spelt = app
      BY <2>2, <2>3, <2>4, SeqEqual
    <2> QED
      BY <2>5 DEF app
  <1>5. FlattenSeq(pieces) \in Seq(D) /\ FlattenSeq(Append(pieces, g[c])) = FlattenSeq(pieces) \o g[c]
    <2> HIDE DEF pieces
    <2> QED
      BY <1>2, <1>3, FlattenAppend
  <1> QED
    BY <1>4, <1>5 DEF Spell, SpellsOn

\* Concatenation is associative (the statement has a name of its own so that
\* the provers can be given it without unfolding what it says).
Associates(s, t, u) == (s \o t) \o u = s \o (t \o u)

LEMMA Reassociate ==
    ASSUME NEW S, NEW s \in Seq(S), NEW t \in Seq(S), NEW u \in Seq(S)
    PROVE  Associates(s, t, u)
  BY ConcatAssociative DEF Associates

\* A string is respelt piece by piece.
SpellsBoth(g, s, t) == Spell(g, s \o t) = Spell(g, s) \o Spell(g, t)

LEMMA SpellConcat ==
    ASSUME NEW C, NEW D, NEW g \in [C -> Seq(D)], NEW s \in Seq(C), NEW t \in Seq(C)
    PROVE  SpellsBoth(g, s, t)
  <1> DEFINE P(n) == \A u \in Seq(C) :
                        Len(u) = n => Spell(g, s \o u) = Spell(g, s) \o Spell(g, u)
             T == {n \in Nat : P(n)}
  <1>1. P(0)
    <2> SUFFICES ASSUME NEW u \in Seq(C), Len(u) = 0
                 PROVE  Spell(g, s \o u) = Spell(g, s) \o Spell(g, u)
      OBVIOUS
    <2>1. u = <<>>
      BY EmptySeq
    <2>2. s \o u = s
      BY <2>1, ConcatEmptySeq
    <2>3. Spell(g, u) = <<>> /\ Spell(g, s) \in Seq(D)
      <3>1. CASE C = {}
        <4>1. s = <<>>
          BY <3>1, EmptySeq, ElementOfSeq, LenProperties
        <4> QED
          BY <2>1, <4>1, EmptySeq, SpellEmpty
      <3>2. CASE C # {}
        BY <2>1, <3>2, SpellEmpty, SpellAppend
      <3> QED
        BY <3>1, <3>2
    <2> QED
      BY <2>2, <2>3, ConcatEmptySeq
  <1>2. ASSUME NEW n \in Nat, P(n) PROVE P(n + 1)
    <2> SUFFICES ASSUME NEW w \in Seq(C), Len(w) = n + 1
                 PROVE  Spell(g, s \o w) = Spell(g, s) \o Spell(g, w)
      OBVIOUS
    <2>0. n \in Nat /\ w # <<>>
      <3>1. n + 1 # 0
        OBVIOUS
      <3> QED
        BY <3>1, EmptySeq
    <2>1. PICK u \in Seq(C), c \in C : w = Append(u, c)
      BY <2>0, SequenceEmptyOrAppend
    <2>3. Len(u) = n
      <3>1. Len(u) \in Nat /\ Len(w) = Len(u) + 1
        BY <2>1, AppendProperties, LenProperties
      <3> QED
        BY <2>0, <3>1
    <2>4. Spell(g, s \o u) = Spell(g, s) \o Spell(g, u)
      BY <1>2, <2>3
    <2> HIDE DEF P
    <2>5. s \o w = Append(s \o u, c) /\ s \o u \in Seq(C)
      <3>1. <<c>> \in Seq(C) /\ s \o u \in Seq(C)
        BY ConcatProperties
      <3> DEFINE last == <<c>>
      <3>2. w = u \o last /\ Append(s \o u, c) = (s \o u) \o last
        BY <2>1, <3>1, AppendIsConcat
      <3>3. last \in Seq(C)
        BY <3>1
      <3> HIDE DEF last
      <3>4. Associates(s, u, last)
        BY <3>3, Reassociate
      <3> QED
        BY ONLY <3>1, <3>2, <3>4 DEF Associates
    <2>6. Spell(g, s \o w) = Spell(g, s \o u) \o g[c]
      <3> DEFINE su == s \o u
      <3>1. su \in Seq(C) /\ s \o w = Append(su, c)
        BY <2>5
      <3> HIDE DEF su
      <3>2. SpellsOn(g, su, c)
        BY <3>1, SpellAppend
      <3> QED
        BY <3>1, <3>2 DEF su, SpellsOn
    <2>7. Spell(g, w) = Spell(g, u) \o g[c]
      <3>1. SpellsOn(g, u, c)
        BY SpellAppend
      <3> QED
        BY <2>1, <3>1 DEF SpellsOn
    <2>8. Spell(g, s) \in Seq(D) /\ Spell(g, u) \in Seq(D) /\ g[c] \in Seq(D)
      BY SpellAppend
    <2>9. Associates(Spell(g, s), Spell(g, u), g[c])
      BY <2>8, Reassociate
    <2> QED
      BY ONLY <2>4, <2>6, <2>7, <2>9 DEF Associates
  <1>3. T = Nat
    <2>1. T \in SUBSET Nat
      OBVIOUS
    <2> HIDE DEF P
    <2>2. 0 \in T /\ \A n \in T : n + 1 \in T
      BY <1>1, <1>2
    <2> HIDE DEF T
    <2> QED
      BY <2>1, <2>2, ByInduction
  <1> QED
    BY <1>3, LenProperties DEF SpellsBoth

-----------------------------------------------------------------------------
(* CR NL for NL, and the padding left out *)

Block == Byte \cup {Junk}       \* what a ring of netclient.c holds
Char == Block \cup {CR}

Crlfs == [c \in Char |-> IF c = NL THEN <<CR, NL>> ELSE <<c>>]
Kept == [c \in Char |-> IF c = Junk THEN <<>> ELSE <<c>>]

LEMMA SpellingsAreStrings == Crlfs \in [Char -> Seq(Char)] /\ Kept \in [Char -> Seq(Char)]
  <1>1. \A c \in Char : <<c>> \in Seq(Char)
    OBVIOUS
  <1>2. <<CR, NL>> \in Seq(Char) /\ <<>> \in Seq(Char)
    BY NLAssumption DEF Char, Block
  <1> QED
    BY <1>1, <1>2 DEF Crlfs, Kept

\* The two operators of NetClient are such respellings.
LEMMA RespellingsOf ==
    ASSUME NEW s \in Seq(Char)
    PROVE  Crlf(s) = Spell(Crlfs, s) /\ Typed(s) = Spell(Kept, s)
  <1>1. \A i \in 1 .. Len(s) : s[i] \in Char
    BY ElementOfSeq
  <1>2. /\ [i \in 1 .. Len(s) |-> Crlfs[s[i]]]
              = [i \in 1 .. Len(s) |-> IF s[i] = NL THEN <<CR, NL>> ELSE <<s[i]>>]
        /\ [i \in 1 .. Len(s) |-> Kept[s[i]]]
              = [i \in 1 .. Len(s) |-> IF s[i] = Junk THEN <<>> ELSE <<s[i]>>]
    BY <1>1 DEF Crlfs, Kept
  <1> QED
    BY <1>2 DEF Spell, Crlf, Typed

\* Both are taken piece by piece.
Splitting(s, t) == Crlf(s \o t) = Crlf(s) \o Crlf(t) /\ Typed(s \o t) = Typed(s) \o Typed(t)

LEMMA RespellPieces ==
    ASSUME NEW s \in Seq(Char), NEW t \in Seq(Char)
    PROVE  /\ Crlf(s) \in Seq(Char) /\ Typed(s) \in Seq(Char)
           /\ Splitting(s, t)
  <1> DEFINE st == s \o t
  <1>1. st \in Seq(Char)
    BY ConcatProperties
  <1>2. Crlf(s) = Spell(Crlfs, s) /\ Crlf(t) = Spell(Crlfs, t) /\ Crlf(st) = Spell(Crlfs, st)
    BY <1>1, RespellingsOf
  <1>3. Typed(s) = Spell(Kept, s) /\ Typed(t) = Spell(Kept, t) /\ Typed(st) = Spell(Kept, st)
    BY <1>1, RespellingsOf
  <1>4. SpellsBoth(Crlfs, s, t)
    BY SpellingsAreStrings, SpellConcat
  <1>5. SpellsBoth(Kept, s, t)
    BY SpellingsAreStrings, SpellConcat
  <1>6. Spell(Crlfs, s) \in Seq(Char) /\ Spell(Kept, s) \in Seq(Char)
    BY SpellingsAreStrings, NLAssumption, SpellAppend DEF Char, Block
  <1> QED
    BY <1>2, <1>3, <1>4, <1>5, <1>6 DEF Splitting, SpellsBoth

\* A single character, and none.
LEMMA RespellOne ==
    ASSUME NEW c \in Char
    PROVE  /\ Crlf(<<c>>) = IF c = NL THEN <<CR, NL>> ELSE <<c>>
           /\ Typed(<<c>>) = IF c = Junk THEN <<>> ELSE <<c>>
           /\ Crlf(<<>>) = <<>> /\ Typed(<<>>) = <<>>
  <1>1. <<c>> \in Seq(Char) /\ <<>> \in Seq(Char) /\ Append(<<>>, c) = <<c>>
    OBVIOUS
  <1>2. /\ Crlf(<<c>>) = Spell(Crlfs, <<c>>) /\ Typed(<<c>>) = Spell(Kept, <<c>>)
        /\ Crlf(<<>>) = Spell(Crlfs, <<>>) /\ Typed(<<>>) = Spell(Kept, <<>>)
    BY <1>1, RespellingsOf
  <1>3. Spell(Crlfs, <<>>) = <<>> /\ Spell(Kept, <<>>) = <<>>
    BY SpellEmpty
  <1>4. SpellsOn(Crlfs, <<>>, c) /\ SpellsOn(Kept, <<>>, c)
    BY <1>1, SpellingsAreStrings, SpellAppend
  <1>5. Crlfs[c] \in Seq(Char) /\ Kept[c] \in Seq(Char)
    BY SpellingsAreStrings
  <1>6. <<>> \o Crlfs[c] = Crlfs[c] /\ <<>> \o Kept[c] = Kept[c]
    BY <1>5, ConcatEmptySeq
  <1>7. Spell(Crlfs, <<c>>) = Crlfs[c] /\ Spell(Kept, <<c>>) = Kept[c]
    BY <1>1, <1>3, <1>4, <1>6 DEF SpellsOn
  <1> QED
    BY <1>2, <1>3, <1>7 DEF Crlfs, Kept

\* The padding may be left out before or after the line ends are respelt.
Commute(s) == Typed(Crlf(s)) = Crlf(Typed(s))

LEMMA CommuteOne == ASSUME NEW c \in Block PROVE Commute(<<c>>)
  <1>1. c \in Char /\ CR \in Char /\ NL \in Char /\ NL # Junk /\ CR # Junk
    BY NLAssumption, JunkAssumption DEF Char, Block
  <1>2. CASE c = Junk
    <2>1. Crlf(<<c>>) = <<c>> /\ Typed(<<c>>) = <<>> /\ Crlf(<<>>) = <<>>
      BY <1>1, <1>2, RespellOne
    <2> QED
      BY <2>1 DEF Commute
  <1>3. CASE c = NL
    <2>1. Crlf(<<c>>) = <<CR, NL>> /\ Typed(<<c>>) = <<c>>
      BY <1>1, <1>3, RespellOne
    <2>2. Typed(<<CR>>) = <<CR>> /\ Typed(<<NL>>) = <<NL>>
      BY <1>1, RespellOne
    <2>3. <<CR>> \in Seq(Char) /\ <<NL>> \in Seq(Char) /\ <<CR>> \o <<NL>> = <<CR, NL>>
      <3>1. <<CR>> \in Seq(Char) /\ <<NL>> \in Seq(Char)
        BY <1>1
      <3>2. Append(<<CR>>, NL) = <<CR, NL>>
        <4> DEFINE s == <<CR>>
                   a == Append(s, NL)
                   b == <<CR, NL>>
        <4>1. b \in Seq(Char) /\ Len(b) = 2 /\ b[1] = CR /\ b[2] = NL
          BY <1>1
        <4>2. Len(s) = 1 /\ s[1] = CR
          OBVIOUS
        <4> HIDE DEF s, b
        <4>3. a \in Seq(Char) /\ Len(a) = 2 /\ a[1] = CR /\ a[2] = NL
          BY <1>1, <3>1, <4>2, AppendProperties DEF s
        <4> HIDE DEF a
        <4>4. \A i \in 1 .. 2 : a[i] = b[i]
          BY <4>1, <4>3
        <4>5. a = b
          BY <4>1, <4>3, <4>4, SeqEqual
        <4> QED
          BY <4>5 DEF a, b, s
      <3>3. Append(<<CR>>, NL) = <<CR>> \o <<NL>>
        BY <1>1, <3>1, AppendIsConcat
      <3> QED
        BY <3>1, <3>2, <3>3
    <2>4. Splitting(<<CR>>, <<NL>>)
      BY <2>3, RespellPieces
    <2> QED
      BY <2>1, <2>2, <2>3, <2>4 DEF Commute, Splitting
  <1>4. CASE c # Junk /\ c # NL
    <2>1. Crlf(<<c>>) = <<c>> /\ Typed(<<c>>) = <<c>>
      BY <1>1, <1>4, RespellOne
    <2> QED
      BY <2>1 DEF Commute
  <1> QED
    BY <1>2, <1>3, <1>4

\* Induction on strings: what holds of the empty one and of one more character
\* holds of all.
LEMMA StringInduction ==
    ASSUME NEW C, NEW P \in SUBSET Seq(C), <<>> \in P,
           \A s \in P : \A c \in C : Append(s, c) \in P
    PROVE  P = Seq(C)
  <1> DEFINE T == {n \in Nat : \A s \in Seq(C) : Len(s) = n => s \in P}
  <1>1. 0 \in T
    BY EmptySeq
  <1>2. ASSUME NEW n \in T PROVE n + 1 \in T
    <2> SUFFICES ASSUME NEW s \in Seq(C), Len(s) = n + 1 PROVE s \in P
      OBVIOUS
    <2>1. n \in Nat /\ \A t \in Seq(C) : Len(t) = n => t \in P
      BY <1>2
    <2> HIDE DEF T
    <2>2. s # <<>>
      BY <2>1, EmptySeq
    <2>3. PICK t \in Seq(C), c \in C : s = Append(t, c)
      BY <2>2, SequenceEmptyOrAppend
    <2>4. Len(t) \in Nat /\ Len(s) = Len(t) + 1
      BY <2>3, AppendProperties, LenProperties
    <2> QED
      BY <2>1, <2>3, <2>4
  <1>3. T = Nat
    <2>1. T \in SUBSET Nat
      OBVIOUS
    <2> HIDE DEF T
    <2> QED
      BY <1>1, <1>2, <2>1, ByInduction
  <1> QED
    BY <1>3, LenProperties

LEMMA CommuteAll == \A s \in Seq(Block) : Commute(s)
  <1> DEFINE P == {s \in Seq(Block) : Commute(s)}
  <1>0. Block \subseteq Char /\ Seq(Block) \subseteq Seq(Char)
    BY SeqMonotonic DEF Char
  <1>1. <<>> \in P
    <2>1. Crlf(<<>>) = <<>> /\ Typed(<<>>) = <<>>
      BY NLAssumption, RespellOne DEF Char, Block
    <2> QED
      BY <2>1 DEF Commute
  <1>2. ASSUME NEW s \in P, NEW c \in Block PROVE Append(s, c) \in P
    <2> DEFINE t == <<c>>
    <2>1. s \in Seq(Block) /\ t \in Seq(Block) /\ Append(s, c) = s \o t /\ s \o t \in Seq(Block)
      BY AppendIsConcat, AppendProperties
    <2>2. Commute(s) /\ Commute(t)
      BY CommuteOne
    <2> HIDE DEF t, P
    <2>3. s \in Seq(Char) /\ t \in Seq(Char)
      BY <1>0, <2>1
    <2>4. Splitting(s, t)
      BY <2>3, RespellPieces
    <2>5. Crlf(s) \in Seq(Char) /\ Crlf(t) \in Seq(Char) /\ Typed(s) \in Seq(Char) /\ Typed(t) \in Seq(Char)
      BY <2>3, RespellPieces
    <2>6. Splitting(Crlf(s), Crlf(t)) /\ Splitting(Typed(s), Typed(t))
      BY <2>5, RespellPieces
    <2>7. Commute(s \o t)
      BY ONLY <2>2, <2>4, <2>6 DEF Commute, Splitting
    <2> QED
      BY <2>1, <2>7 DEF P
  <1>3. P = Seq(Block)
    <2>1. P \in SUBSET Seq(Block)
      OBVIOUS
    <2> HIDE DEF P
    <2> QED
      BY <1>1, <1>2, <2>1, StringInduction
  <1> QED
    BY <1>3

\* What callers type has no padding, and padding is all there is in padding.
LEMMA TypedBytes == \A s \in Seq(Byte) : Typed(s) = s
  <1> DEFINE P == {s \in Seq(Byte) : Typed(s) = s}
  <1>0. Byte \subseteq Char /\ Seq(Byte) \subseteq Seq(Char) /\ Junk \notin Byte
    BY SeqMonotonic, JunkAssumption DEF Char, Block
  <1>1. <<>> \in P
    <2>1. Typed(<<>>) = <<>>
      BY NLAssumption, RespellOne DEF Char, Block
    <2> QED
      BY <2>1, EmptySeq
  <1>2. ASSUME NEW s \in P, NEW c \in Byte PROVE Append(s, c) \in P
    <2> DEFINE t == <<c>>
    <2>1. s \in Seq(Byte) /\ t \in Seq(Byte) /\ Append(s, c) = s \o t /\ s \o t \in Seq(Byte)
      BY AppendIsConcat, AppendProperties
    <2>2. Typed(s) = s /\ Typed(t) = t
      BY <1>0, RespellOne
    <2> HIDE DEF t, P
    <2>3. s \in Seq(Char) /\ t \in Seq(Char)
      BY <1>0, <2>1
    <2>4. Splitting(s, t)
      BY <2>3, RespellPieces
    <2>5. Typed(s \o t) = s \o t
      BY ONLY <2>2, <2>4 DEF Splitting
    <2> QED
      BY <2>1, <2>5 DEF P
  <1>3. P = Seq(Byte)
    <2>1. P \in SUBSET Seq(Byte)
      OBVIOUS
    <2> HIDE DEF P
    <2> QED
      BY <1>1, <1>2, <2>1, StringInduction
  <1> QED
    BY <1>3

LEMMA TypedPadding == \A s \in Seq({Junk}) : Typed(s) = <<>>
  <1> DEFINE P == {s \in Seq({Junk}) : Typed(s) = <<>>}
  <1>0. Junk \in Char /\ Seq({Junk}) \subseteq Seq(Char)
    BY SeqMonotonic DEF Char, Block
  <1>1. <<>> \in P
    <2>1. Typed(<<>>) = <<>>
      BY <1>0, RespellOne
    <2> QED
      BY <2>1, EmptySeq
  <1>2. ASSUME NEW s \in P, NEW c \in {Junk} PROVE Append(s, c) \in P
    <2> DEFINE t == <<c>>
    <2>1. s \in Seq({Junk}) /\ t \in Seq({Junk}) /\ Append(s, c) = s \o t /\ s \o t \in Seq({Junk})
      BY AppendIsConcat, AppendProperties
    <2>2. Typed(s) = <<>> /\ Typed(t) = <<>>
      BY <1>0, RespellOne
    <2> HIDE DEF t, P
    <2>3. s \in Seq(Char) /\ t \in Seq(Char)
      BY <1>0, <2>1
    <2>4. Splitting(s, t)
      BY <2>3, RespellPieces
    <2>5. <<>> \o <<>> = <<>>
      BY EmptySeq, ConcatEmptySeq
    <2>6. Typed(s \o t) = <<>>
      BY ONLY <2>2, <2>4, <2>5 DEF Splitting
    <2> QED
      BY <2>1, <2>6 DEF P
  <1>3. P = Seq({Junk})
    <2>1. P \in SUBSET Seq({Junk})
      OBVIOUS
    <2> HIDE DEF P
    <2> QED
      BY <1>1, <1>2, <2>1, StringInduction
  <1> QED
    BY <1>3

-----------------------------------------------------------------------------
(* The rings of netclient.c *)

\* A ring of netclient.c holds nothing or a block of its own length: read_some
\* fills it to the last cell, RingBuffer_get_all takes all there is.
BlockRing == {r \in [start : {0}, end : {0}, looped : {0, 1}, buffer : [Cell -> Block \cup {Nul}]] :
                  r.looped = 1 => r.buffer \in [Cell -> Block]}

Held(r) == IF r.looped = 0 THEN <<>> ELSE Load(r.buffer, 0, Length)

LEMMA BlockHeld ==
    ASSUME NEW r \in BlockRing
    PROVE  /\ Held(r) \in Seq(Block)
           /\ AvailableData(r) = IF r.looped = 0 THEN 0 ELSE Length
           /\ r.looped \in {0, 1} /\ Length \in Nat /\ Length > 0
  <1>1. /\ Length \in Nat /\ Length > 0 /\ r.looped \in {0, 1} /\ r.start = 0 /\ r.end = 0
        /\ r.looped = 1 => r.buffer \in [Cell -> Block]
    BY LengthAssumption DEF BlockRing
  <1>2. CASE r.looped = 1
    <2>1. \A i \in 1 .. Length : 0 + i - 1 \in Cell
      BY <1>1 DEF Cell
    <2>2. Load(r.buffer, 0, Length) \in [1 .. Length -> Block]
      BY <1>1, <1>2, <2>1 DEF Load
    <2>3. Held(r) \in Seq(Block)
      BY <1>1, <1>2, <2>2, SeqDef DEF Held
    <2> QED
      BY <1>1, <1>2, <2>3 DEF AvailableData
  <1>3. CASE r.looped = 0
    BY <1>1, <1>3, EmptySeq DEF Held, AvailableData
  <1> QED
    BY <1>1, <1>2, <1>3

\* read_some on an empty ring: what was read, and padding up to the length.
LEMMA FilledHolds ==
    ASSUME NEW r \in BlockRing, r.looped = 0,
           NEW data \in Seq(Byte), Len(data) <= Length
    PROVE  Filled(r, data) \in BlockRing /\ Typed(Held(Filled(r, data))) = data
  <1> DEFINE pad == [i \in 1 .. Length - Len(data) |-> Junk]
             all == data \o pad
             buffer == [c \in Cell |-> all[c + 1]]
             f == Ring(0, 0, 1, buffer)
  <1>1. /\ Length \in Nat /\ Length > 0 /\ AvailableData(r) = 0 /\ r.looped = 0
        /\ Len(data) \in Nat /\ Length - Len(data) \in Nat
    BY BlockHeld, LenProperties
  <1>2. pad \in Seq({Junk}) /\ Len(pad) = Length - Len(data)
    <2>1. pad \in [1 .. Length - Len(data) -> {Junk}]
      OBVIOUS
    <2>2. pad \in Seq({Junk})
      BY <1>1, <2>1, SeqDef
    <2> QED
      BY <1>1, <2>1, <2>2, LenProperties
  <1> HIDE DEF pad
  <1>3. data \in Seq(Block) /\ pad \in Seq(Block)
    BY <1>2, SeqMonotonic DEF Block
  <1>4. all \in Seq(Block) /\ Len(all) = Length
    BY <1>1, <1>2, <1>3, ConcatProperties
  <1>5. Filled(r, data) = f
    <2> DEFINE fresh == Ring(0, 0, r.looped, r.buffer)
    <2>1. fresh.start = 0 /\ fresh.end = 0 /\ fresh.looped = 0 /\ fresh.buffer = r.buffer
      BY <1>1 DEF Ring
    <2>2. AvailableSpace(fresh) = Length
      BY <1>1, <2>1 DEF AvailableSpace, AvailableData
    <2>3. Filled(r, data) = Written(fresh, all)
      BY <1>1, <2>2 DEF Filled, pad
    <2> HIDE DEF fresh, all
    <2>4. ~Splits(fresh, Len(all))
      BY <1>1, <1>4, <2>1 DEF Splits
    <2>5. Store(fresh.buffer, 0, all) = buffer
      BY <1>1, <1>4 DEF Store, Cell
    <2>6. (0 + Length) % Length = 0 /\ 0 + Length >= Length
      BY <1>1
    <2>7. Written(fresh, all) = CommitWrite(Ring(0, 0, 0, buffer), Length)
      BY <1>4, <2>1, <2>4, <2>5 DEF Written
    <2>8. CommitWrite(Ring(0, 0, 0, buffer), Length) = f
      BY <2>6 DEF CommitWrite, Ring
    <2> QED
      BY <2>3, <2>7, <2>8
  <1>6. buffer \in [Cell -> Block]
    <2>1. \A c \in Cell : c + 1 \in 1 .. Len(all)
      BY <1>1, <1>4 DEF Cell
    <2>2. \A c \in Cell : all[c + 1] \in Block
      BY <1>4, <2>1, ElementOfSeq
    <2> QED
      BY <2>2
  <1>7. f \in BlockRing
    BY <1>6 DEF BlockRing, Ring
  <1>8. Held(f) = all
    <2>1. Held(f) = Load(buffer, 0, Length)
      <3> HIDE DEF buffer
      <3>1. f.looped = 1 /\ f.buffer = buffer
        BY DEF Ring
      <3> HIDE DEF f
      <3> QED
        BY <3>1 DEF Held
    <2>2. \A c \in Cell : buffer[c] = all[c + 1]
      OBVIOUS
    <2> HIDE DEF buffer, all
    <2>3. \A i \in 1 .. Length : 0 + i - 1 \in Cell /\ (0 + i - 1) + 1 = i
      BY <1>1 DEF Cell
    <2>4. Load(buffer, 0, Length) = [i \in 1 .. Length |-> all[i]]
      <3>1. \A i \in 1 .. Length : buffer[0 + i - 1] = all[i]
        BY <2>2, <2>3
      <3>2. \A i \in 1 .. Length : (IF 0 + i - 1 \in Cell THEN buffer[0 + i - 1] ELSE Junk) = all[i]
        BY <2>3, <3>1
      <3>3. Load(buffer, 0, Length)
               = [i \in 1 .. Length |-> IF 0 + i - 1 \in Cell THEN buffer[0 + i - 1] ELSE Junk]
        BY DEF Load
      <3> QED
        BY <3>2, <3>3
    <2>5. all = [i \in 1 .. Length |-> all[i]]
      BY <1>4, LenProperties
    <2> QED
      BY <2>1, <2>4, <2>5
  <1>9. Typed(all) = data
    <2>1. data \in Seq(Char) /\ pad \in Seq(Char)
      BY <1>3, SeqMonotonic DEF Char
    <2>2. Splitting(data, pad)
      BY <2>1, RespellPieces
    <2>3. Typed(data) = data /\ Typed(pad) = <<>> /\ data \o <<>> = data
      BY <1>2, TypedBytes, TypedPadding, ConcatEmptySeq
    <2> QED
      BY ONLY <2>2, <2>3 DEF Splitting
  <1> QED
    BY <1>5, <1>7, <1>8, <1>9

\* RingBuffer_get_all takes what the ring holds and leaves it empty.
LEMMA AllTaken ==
    ASSUME NEW r \in BlockRing, AvailableData(r) > 0
    PROVE  /\ GetsBytes(r, AvailableData(r)) = Held(r)
           /\ CommitRead(r, AvailableData(r)) \in BlockRing
           /\ CommitRead(r, AvailableData(r)).looped = 0
  <1>1. /\ Length \in Nat /\ Length > 0 /\ r.looped = 1 /\ AvailableData(r) = Length
        /\ r.start = 0 /\ r.end = 0 /\ r.buffer \in [Cell -> Block \cup {Nul}]
    BY BlockHeld DEF BlockRing
  <1>2. (0 + Length) % Length = 0 /\ 0 + Length >= Length /\ ~(Length < Length - 0)
    BY <1>1
  <1>3. GetsBytes(r, Length) = Load(r.buffer, 0, Length)
    BY <1>1, <1>2 DEF GetsBytes
  <1>4. CommitRead(r, Length) = Ring(0, 0, 0, r.buffer)
    BY <1>1, <1>2 DEF CommitRead
  <1>5. Ring(0, 0, 0, r.buffer) \in BlockRing /\ Ring(0, 0, 0, r.buffer).looped = 0
    BY <1>1 DEF BlockRing, Ring
  <1> QED
    BY <1>1, <1>3, <1>4, <1>5 DEF Held

-----------------------------------------------------------------------------
(* What is under way *)

Begins(w, all) == \E rest \in Seq(Char) : all = w \o rest

LEMMA BeginsIsPrefix ==
    ASSUME NEW w \in Seq(Char), NEW all, Begins(w, all)
    PROVE  IsPrefix(w, all)
  <1>1. PICK rest \in Seq(Char) : all = w \o rest
    BY DEF Begins
  <1> DEFINE n == Len(w)
  <1>2. /\ n \in Nat /\ all \in Seq(Char) /\ n <= Len(all) /\ Len(all) \in Nat
        /\ \A i \in 1 .. n : all[i] = w[i]
    BY <1>1, ConcatProperties, LenProperties
  <1> HIDE DEF n
  <1> DEFINE v == SubSeq(w, 1, n)
             x == SubSeq(all, 1, n)
  <1>3. /\ v \in Seq(Char) /\ Len(v) = n /\ \A i \in 1 .. n : v[i] = w[i]
        /\ x \in Seq(Char) /\ Len(x) = n /\ \A i \in 1 .. n : x[i] = all[i]
    BY <1>2, SubSeqProperties DEF n
  <1>4. v = x
    <2> HIDE DEF v, x
    <2> QED
      BY <1>2, <1>3, SeqEqual
  <1> QED
    BY <1>2, <1>4 DEF IsPrefix, n

\* A string begins with what it began with when it grows, and with the first
\* of its parts.
LEMMA StillBegins ==
    ASSUME NEW w \in Seq(Char), NEW all \in Seq(Char), Begins(w, all), NEW t \in Seq(Char)
    PROVE  Begins(w, all \o t)
  <1>1. PICK rest \in Seq(Char) : all = w \o rest
    BY DEF Begins
  <1>2. Associates(w, rest, t) /\ rest \o t \in Seq(Char)
    BY Reassociate, ConcatProperties
  <1>3. all \o t = w \o (rest \o t)
    BY ONLY <1>1, <1>2 DEF Associates
  <1> QED
    BY <1>2, <1>3 DEF Begins

LEMMA FirstBegins ==
    ASSUME NEW w \in Seq(Char), NEW t \in Seq(Char)
    PROVE  Begins(w, w \o t)
  BY DEF Begins

\* Until the client ends, what a peer has sent is what was written, then what
\* its ring holds besides padding, then what the kernel still has; after that
\* it begins with what was written.
Conveyed(r, s, u, w, over) ==
    IF over THEN Begins(w, Crlf(s))
            ELSE Crlf(s) = (w \o Crlf(Typed(Held(r)))) \o Crlf(u)

\* The types of what is conveyed, and of the strings it is stated with.
ConveyedTypes(r, s, u, w) ==
    r \in BlockRing /\ s \in Seq(Byte) /\ u \in Seq(Byte) /\ w \in Seq(Char)

LEMMA StringsConveyed ==
    /\ \A s \in Seq(Byte) : s \in Seq(Char) /\ Crlf(s) \in Seq(Char)
    /\ \A r \in BlockRing : /\ Held(r) \in Seq(Block) /\ Held(r) \in Seq(Char)
                            /\ Typed(Held(r)) \in Seq(Char)
                            /\ Crlf(Typed(Held(r))) \in Seq(Char)
                            /\ Crlf(Held(r)) \in Seq(Char)
  <1>1. Seq(Byte) \subseteq Seq(Char) /\ Seq(Block) \subseteq Seq(Char)
    BY SeqMonotonic DEF Char, Block
  <1>2. \A s \in Seq(Char) : Crlf(s) \in Seq(Char) /\ Typed(s) \in Seq(Char)
    BY RespellPieces
  <1>3. \A r \in BlockRing : Held(r) \in Seq(Block)
    BY BlockHeld
  <1> QED
    BY <1>1, <1>2, <1>3

LEMMA MoreSent ==
    ASSUME NEW r, NEW s, NEW u, NEW w, ConveyedTypes(r, s, u, w), NEW over,
           Conveyed(r, s, u, w, over), NEW c \in Byte
    PROVE  Conveyed(r, Append(s, c), Append(u, c), w, over)
  <1> DEFINE t == <<c>>
             held == Crlf(Typed(Held(r)))
  <1>1. t \in Seq(Byte) /\ Append(s, c) = s \o t /\ Append(u, c) = u \o t
    BY AppendIsConcat DEF ConveyedTypes
  <1>2. /\ t \in Seq(Char) /\ s \in Seq(Char) /\ u \in Seq(Char) /\ w \in Seq(Char)
        /\ Crlf(t) \in Seq(Char) /\ Crlf(s) \in Seq(Char) /\ Crlf(u) \in Seq(Char)
        /\ held \in Seq(Char)
    BY <1>1, StringsConveyed DEF ConveyedTypes
  <1> HIDE DEF t, held
  <1>3. Splitting(s, t) /\ Splitting(u, t)
    BY <1>2, RespellPieces
  <1>4. CASE over
    <2>1. Begins(w, Crlf(s) \o Crlf(t))
      BY <1>2, <1>4, StillBegins DEF Conveyed
    <2> QED
      BY <1>1, <1>3, <1>4, <2>1 DEF Conveyed, Splitting
  <1>5. CASE ~over
    <2>1. Associates(w \o held, Crlf(u), Crlf(t))
      BY <1>2, ConcatProperties, Reassociate
    <2>2. Crlf(s) = (w \o held) \o Crlf(u)
      BY <1>5 DEF Conveyed, held
    <2>3. Crlf(s \o t) = (w \o held) \o Crlf(u \o t)
      BY ONLY <1>3, <2>1, <2>2 DEF Associates, Splitting
    <2> QED
      BY <1>1, <1>5, <2>3 DEF Conveyed, held
  <1> QED
    BY <1>4, <1>5

\* Whatever is under way, what was written is where the string begins.
LEMMA WrittenBegins ==
    ASSUME NEW r, NEW s, NEW u, NEW w, ConveyedTypes(r, s, u, w), NEW over,
           Conveyed(r, s, u, w, over)
    PROVE  Begins(w, Crlf(s))
  <1> DEFINE held == Crlf(Typed(Held(r)))
  <1>1. w \in Seq(Char) /\ held \in Seq(Char) /\ Crlf(u) \in Seq(Char)
    BY StringsConveyed DEF ConveyedTypes
  <1> HIDE DEF held
  <1>2. CASE over
    BY <1>2 DEF Conveyed
  <1>3. CASE ~over
    <2>1. Associates(w, held, Crlf(u)) /\ held \o Crlf(u) \in Seq(Char)
      BY <1>1, Reassociate, ConcatProperties
    <2>2. Crlf(s) = (w \o held) \o Crlf(u)
      BY <1>3 DEF Conveyed, held
    <2>3. Crlf(s) = w \o (held \o Crlf(u))
      BY ONLY <2>1, <2>2 DEF Associates
    <2> QED
      BY <2>1, <2>3 DEF Begins
  <1> QED
    BY <1>2, <1>3

\* A string is the first k of its characters and the others.
Rejoins(s, k) == SubSeq(s, 1, k) \o SubSeq(s, k + 1, Len(s)) = s

LEMMA CutInTwo ==
    ASSUME NEW S, NEW s \in Seq(S), NEW k \in 0 .. Len(s)
    PROVE  /\ SubSeq(s, 1, k) \in Seq(S) /\ Len(SubSeq(s, 1, k)) = k
           /\ SubSeq(s, k + 1, Len(s)) \in Seq(S) /\ Len(SubSeq(s, k + 1, Len(s))) = Len(s) - k
           /\ Rejoins(s, k)
  <1> DEFINE n == Len(s)
             first == SubSeq(s, 1, k)
             rest == SubSeq(s, k + 1, n)
             both == first \o rest
  <1>0. n \in Nat /\ k \in Nat /\ k <= n /\ n = Len(s) /\ \A i \in 1 .. n : s[i] \in S
    BY LenProperties, ElementOfSeq
  <1> HIDE DEF n
  <1>1. first \in Seq(S) /\ Len(first) = k /\ \A i \in 1 .. k : first[i] = s[i]
    <2>1. \A i \in 1 .. k : s[i] \in S
      BY <1>0
    <2>2. /\ first \in Seq(S) /\ Len(first) = IF 1 <= k THEN k - 1 + 1 ELSE 0
          /\ \A i \in 1 .. k - 1 + 1 : first[i] = s[1 + i - 1]
      BY <1>0, <2>1, SubSeqProperties
    <2> HIDE DEF first
    <2> QED
      BY <1>0, <2>2
  <1>2. rest \in Seq(S) /\ Len(rest) = n - k /\ \A i \in 1 .. n - k : rest[i] = s[k + i]
    <2>1. \A i \in k + 1 .. n : s[i] \in S
      BY <1>0
    <2>2. /\ rest \in Seq(S) /\ Len(rest) = IF k + 1 <= n THEN n - (k + 1) + 1 ELSE 0
          /\ \A i \in 1 .. n - (k + 1) + 1 : rest[i] = s[(k + 1) + i - 1]
      BY <1>0, <2>1, SubSeqProperties
    <2> HIDE DEF rest
    <2>3. n - (k + 1) + 1 = n - k /\ \A i \in 1 .. n - k : (k + 1) + i - 1 = k + i
      BY <1>0
    <2> QED
      BY <1>0, <2>2, <2>3
  <1> HIDE DEF first, rest
  <1>3. /\ both \in Seq(S) /\ Len(both) = n
        /\ \A i \in 1 .. n : both[i] = IF i <= k THEN first[i] ELSE rest[i - k]
    BY <1>0, <1>1, <1>2, ConcatProperties
  <1> HIDE DEF both
  <1>4. ASSUME NEW i \in 1 .. n PROVE both[i] = s[i]
    <2>1. CASE i <= k
      <3>1. i \in 1 .. k
        BY <1>0, <2>1
      <3> QED
        BY <1>1, <1>3, <2>1, <3>1
    <2>2. CASE k < i
      <3>1. i - k \in 1 .. n - k /\ k + (i - k) = i /\ ~(i <= k)
        BY <1>0, <2>2
      <3> QED
        BY <1>2, <1>3, <3>1
    <2> QED
      BY <1>0, <2>1, <2>2
  <1>5. both = s
    BY <1>0, <1>3, <1>4, SeqEqual
  <1> QED
    BY <1>0, <1>1, <1>2, <1>5 DEF Rejoins, first, rest, both, n

\* read_some moves the first bytes of the kernel's into the empty ring.
LEMMA MoreRead ==
    ASSUME NEW r, NEW s, NEW u, NEW w, ConveyedTypes(r, s, u, w), r.looped = 0,
           Conveyed(r, s, u, w, FALSE),
           NEW n \in 0 .. Len(u), n <= Length
    PROVE  /\ Filled(r, SubSeq(u, 1, n)) \in BlockRing
           /\ SubSeq(u, n + 1, Len(u)) \in Seq(Byte)
           /\ Conveyed(Filled(r, SubSeq(u, 1, n)), s, SubSeq(u, n + 1, Len(u)), w, FALSE)
  <1> DEFINE data == SubSeq(u, 1, n)
             rest == SubSeq(u, n + 1, Len(u))
             f == Filled(r, data)
  <1>0. u \in Seq(Byte) /\ Len(u) \in Nat /\ n \in Nat /\ n <= Len(u)
    BY LenProperties DEF ConveyedTypes
  <1>1. data \in Seq(Byte) /\ Len(data) = n
    BY <1>0, SubSeqProperties
  <1>2. rest \in Seq(Byte) /\ data \o rest = u
    BY <1>0, CutInTwo DEF Rejoins
  <1> HIDE DEF data, rest
  <1>3. f \in BlockRing /\ Typed(Held(f)) = data
    BY <1>1, FilledHolds DEF ConveyedTypes
  <1>4. /\ data \in Seq(Char) /\ rest \in Seq(Char) /\ w \in Seq(Char)
        /\ Crlf(data) \in Seq(Char) /\ Crlf(rest) \in Seq(Char)
    BY <1>1, <1>2, StringsConveyed DEF ConveyedTypes
  <1>5. Splitting(data, rest) /\ Associates(w, Crlf(data), Crlf(rest))
    BY <1>4, RespellPieces, Reassociate
  <1>6. Crlf(s) = w \o Crlf(u)
    <2>1. Held(r) = <<>> /\ Typed(<<>>) = <<>> /\ Crlf(<<>>) = <<>>
      BY NLAssumption, RespellOne DEF Held, Char, Block
    <2>2. w \o <<>> = w
      BY <1>4, ConcatEmptySeq
    <2> QED
      BY <2>1, <2>2 DEF Conveyed
  <1>7. Crlf(s) = (w \o Crlf(data)) \o Crlf(rest)
    BY ONLY <1>2, <1>5, <1>6 DEF Associates, Splitting
  <1> HIDE DEF f
  <1> QED
    BY <1>2, <1>3, <1>7 DEF Conveyed, f, data, rest

\* write_some writes the first of the bytes it took from the ring.
LEMMA MoreWritten ==
    ASSUME NEW r, NEW s, NEW u, NEW w, ConveyedTypes(r, s, u, w), r.looped = 1,
           Conveyed(r, s, u, w, FALSE),
           NEW left \in BlockRing, left.looped = 0,
           NEW k \in 0 .. Len(Crlf(Held(r)))
    PROVE  LET data == Crlf(Held(r))
               w2 == w \o Typed(SubSeq(data, 1, k))
           IN  w2 \in Seq(Char) /\ Conveyed(left, s, u, w2, k # Len(data))
  <1> DEFINE data == Crlf(Held(r))
             part == SubSeq(data, 1, k)
             rest == SubSeq(data, k + 1, Len(data))
             w2 == w \o Typed(part)
  <1>0. data \in Seq(Char) /\ Len(data) \in Nat /\ k \in Nat /\ k <= Len(data) /\ w \in Seq(Char)
        /\ Crlf(u) \in Seq(Char)
    BY StringsConveyed, LenProperties DEF ConveyedTypes
  <1>1. Typed(data) = Crlf(Typed(Held(r)))
    <2>1. Held(r) \in Seq(Block)
      BY StringsConveyed DEF ConveyedTypes
    <2> QED
      BY <2>1, CommuteAll DEF Commute
  <1> HIDE DEF data
  <1>2. part \in Seq(Char) /\ rest \in Seq(Char) /\ Len(rest) = Len(data) - k /\ Rejoins(data, k)
    BY <1>0, CutInTwo
  <1>4. part \o rest = data
    BY <1>2 DEF Rejoins
  <1> HIDE DEF part, rest
  <1>5. Typed(part) \in Seq(Char) /\ Typed(rest) \in Seq(Char) /\ Splitting(part, rest)
    BY <1>2, RespellPieces
  <1>6. w2 \in Seq(Char)
    BY <1>0, <1>5, ConcatProperties
  <1>7. Crlf(s) = (w \o (Typed(part) \o Typed(rest))) \o Crlf(u)
    <2>1. Crlf(s) = (w \o Typed(data)) \o Crlf(u)
      BY <1>1 DEF Conveyed
    <2> QED
      BY ONLY <1>4, <1>5, <2>1 DEF Splitting
  <1>8. CASE k = Len(data)
    <2>1. rest = <<>> /\ Typed(<<>>) = <<>> /\ Crlf(<<>>) = <<>> /\ Held(left) = <<>>
      <3>1. rest = <<>>
        BY <1>0, <1>2, <1>8, EmptySeq
      <3> QED
        BY <3>1, NLAssumption, RespellOne DEF Held, Char, Block
    <2>2. Typed(part) \o <<>> = Typed(part) /\ w2 \o <<>> = w2
      BY <1>5, <1>6, ConcatEmptySeq
    <2>3. Crlf(s) = w2 \o Crlf(u)
      BY <1>7, <2>1, <2>2
    <2>4. Crlf(s) = (w2 \o Crlf(Typed(Held(left)))) \o Crlf(u)
      BY <2>1, <2>2, <2>3
    <2> HIDE DEF w2
    <2>5. Conveyed(left, s, u, w2, k # Len(data))
      BY <1>8, <2>4 DEF Conveyed
    <2> QED
      BY <1>6, <2>5 DEF w2, part, data
  <1>9. CASE k # Len(data)
    <2>1. Associates(w, Typed(part), Typed(rest)) /\ Associates(w2, Typed(rest), Crlf(u))
      <3>1. Associates(w, Typed(part), Typed(rest))
        BY <1>0, <1>5, Reassociate
      <3> HIDE DEF w2
      <3>2. Associates(w2, Typed(rest), Crlf(u))
        BY <1>0, <1>5, <1>6, Reassociate
      <3> QED
        BY <3>1, <3>2
    <2>2. Crlf(s) = w2 \o (Typed(rest) \o Crlf(u))
      BY ONLY <1>7, <2>1 DEF Associates
    <2>3. Typed(rest) \o Crlf(u) \in Seq(Char)
      BY <1>0, <1>5, ConcatProperties
    <2> HIDE DEF w2
    <2>4. Conveyed(left, s, u, w2, k # Len(data))
      BY <1>9, <2>2, <2>3 DEF Conveyed, Begins
    <2> QED
      BY <1>6, <2>4 DEF w2, part, data
  <1> QED
    BY <1>8, <1>9

-----------------------------------------------------------------------------
(* The client, round by round *)

ClientInv ==
    /\ rings \in [Peer -> BlockRing]
    /\ sent \in [Peer -> Seq(Byte)] /\ unread \in [Peer -> Seq(Byte)]
    /\ written \in [Peer -> Seq(Char)]
    /\ ready \subseteq Peer /\ pc \in {"select", "read", "write", "ended"}
    /\ \A p \in Peer : pc = "select" \/ (pc = "read" /\ p \in ready) => rings[p].looped = 0
    /\ \A p \in Peer : Conveyed(rings[p], sent[p], unread[p], written[p], pc = "ended")

\* What the invariant says of one peer, and what it gives.
LEMMA InvOf ==
    ASSUME ClientInv, NEW p \in Peer
    PROVE  /\ ConveyedTypes(rings[p], sent[p], unread[p], written[p])
           /\ Conveyed(rings[p], sent[p], unread[p], written[p], pc = "ended")
           /\ pc \in {"select", "write", "read"} =>
                 Conveyed(rings[p], sent[p], unread[p], written[p], FALSE)
           /\ Begins(written[p], Crlf(sent[p]))
  <1>1. ConveyedTypes(rings[p], sent[p], unread[p], written[p])
    BY DEF ClientInv, ConveyedTypes
  <1>2. Conveyed(rings[p], sent[p], unread[p], written[p], pc = "ended")
    BY DEF ClientInv
  <1>3. pc \in {"select", "write", "read"} =>
            Conveyed(rings[p], sent[p], unread[p], written[p], FALSE)
    BY <1>2 DEF Conveyed
  <1>4. Begins(written[p], Crlf(sent[p]))
    BY <1>1, <1>2, WrittenBegins
  <1> QED
    BY <1>1, <1>2, <1>3, <1>4

LEMMA ClientStarts == ClientInit => ClientInv
  <1> SUFFICES ASSUME ClientInit PROVE ClientInv
    OBVIOUS
  <1>1. NewRing \in BlockRing /\ NewRing.looped = 0
    BY DEF NewRing, Ring, BlockRing
  <1>2. <<>> \in Seq(Byte) /\ <<>> \in Seq(Char)
    OBVIOUS
  <1>3. Conveyed(NewRing, <<>>, <<>>, <<>>, FALSE)
    <2>1. Crlf(<<>>) = <<>> /\ Typed(<<>>) = <<>>
      BY NLAssumption, RespellOne DEF Char, Block
    <2>2. <<>> \o <<>> = <<>>
      BY EmptySeq, ConcatEmptySeq
    <2> QED
      BY <1>1, <2>1, <2>2 DEF Conveyed, Held
  <1>4. rings = [p \in Peer |-> NewRing] /\ pc = "select" /\ ready = {}
    BY DEF ClientInit
  <1>5. sent = [p \in Peer |-> <<>>] /\ unread = [p \in Peer |-> <<>>] /\ written = [p \in Peer |-> <<>>]
    BY DEF ClientInit
  <1>6. \A p \in Peer : rings[p] = NewRing /\ sent[p] = <<>> /\ unread[p] = <<>> /\ written[p] = <<>>
    BY <1>4, <1>5
  <1>7. \A p \in Peer : Conveyed(rings[p], sent[p], unread[p], written[p], pc = "ended")
    <2> SUFFICES ASSUME NEW p \in Peer
                 PROVE  Conveyed(rings[p], sent[p], unread[p], written[p], FALSE)
      BY <1>4 DEF Conveyed
    <2> QED
      BY <1>3, <1>6
  <1> QED
    BY <1>1, <1>2, <1>4, <1>5, <1>6, <1>7 DEF ClientInv

LEMMA SendKeeps ==
    ASSUME ClientInv, NEW p \in Peer, NEW c \in Byte, Send(p, c)
    PROVE  ClientInv'
  <1>1. /\ sent' = [sent EXCEPT ![p] = Append(sent[p], c)]
        /\ unread' = [unread EXCEPT ![p] = Append(unread[p], c)]
        /\ UNCHANGED <<rings, written, ready, pc>>
    BY DEF Send
  <1>2. Append(sent[p], c) \in Seq(Byte) /\ Append(unread[p], c) \in Seq(Byte)
    BY AppendProperties DEF ClientInv
  <1>3. ASSUME NEW q \in Peer
        PROVE  Conveyed(rings[q], sent'[q], unread'[q], written[q], pc = "ended")
    <2>1. CASE q = p
      <3>1. Conveyed(rings[p], Append(sent[p], c), Append(unread[p], c), written[p], pc = "ended")
        BY InvOf, MoreSent
      <3> QED
        BY <1>1, <2>1, <3>1 DEF ClientInv
    <2>2. CASE q # p
      BY <1>1, <2>2 DEF ClientInv
    <2> QED
      BY <2>1, <2>2
  <1> QED
    BY <1>1, <1>2, <1>3 DEF ClientInv

LEMMA ReadKeeps ==
    ASSUME ClientInv, NEW p \in Peer, ReadSome(p)
    PROVE  ClientInv'
  <1> DEFINE r == rings[p]
             u == unread[p]
             n == IF Len(u) < AvailableSpace(r) THEN Len(u) ELSE AvailableSpace(r)
             r2 == Filled(r, SubSeq(u, 1, n))
             u2 == SubSeq(u, n + 1, Len(u))
  <1>1. /\ pc = "read" /\ p \in ready /\ ready' = ready \ {p}
        /\ pc' = IF ready = {p} THEN "write" ELSE "read"
    BY DEF ReadSome, Turn
  <1>2. rings' = [rings EXCEPT ![p] = r2] /\ unread' = [unread EXCEPT ![p] = u2]
    BY DEF ReadSome
  <1>3. sent' = sent /\ written' = written
    BY DEF ReadSome
  <1>4. r \in BlockRing /\ r.looped = 0 /\ u \in Seq(Byte)
    BY <1>1 DEF ClientInv
  <1>5. n \in 0 .. Len(u) /\ n <= Length
    <2>1. AvailableSpace(r) = Length /\ Length \in Nat /\ Len(u) \in Nat
      BY <1>4, BlockHeld, LenProperties DEF AvailableSpace
    <2> QED
      BY <2>1
  <1>6. /\ ConveyedTypes(r, sent[p], u, written[p])
        /\ Conveyed(r, sent[p], u, written[p], FALSE)
    BY <1>1, InvOf
  <1> HIDE DEF n
  <1>7. r2 \in BlockRing /\ u2 \in Seq(Byte) /\ Conveyed(r2, sent[p], u2, written[p], FALSE)
    BY <1>4, <1>5, <1>6, MoreRead
  <1> HIDE DEF r2, u2
  <1>8. ASSUME NEW q \in Peer
        PROVE  Conveyed(rings'[q], sent[q], unread'[q], written[q], FALSE)
    <2>1. CASE q = p
      BY <1>2, <1>7, <2>1 DEF ClientInv
    <2>2. CASE q # p
      BY <1>1, <1>2, <2>2, InvOf DEF ClientInv
    <2> QED
      BY <2>1, <2>2
  <1>9. \A q \in Peer : Conveyed(rings'[q], sent'[q], unread'[q], written'[q], pc' = "ended")
    BY <1>1, <1>3, <1>8 DEF Conveyed
  <1> QED
    BY <1>1, <1>2, <1>3, <1>7, <1>9 DEF ClientInv

LEMMA FailKeeps ==
    ASSUME ClientInv, NEW p \in Peer, ReadFails(p)
    PROVE  ClientInv'
  <1> DEFINE r2 == Filled(rings[p], <<>>)
  <1>1. /\ pc = "read" /\ p \in ready /\ pc' = "ended"
        /\ rings' = [rings EXCEPT ![p] = r2]
        /\ UNCHANGED <<sent, unread, written, ready>>
    BY DEF ReadFails
  <1>2. r2 \in BlockRing
    <2>1. rings[p] \in BlockRing /\ rings[p].looped = 0 /\ <<>> \in Seq(Byte) /\ Len(<<>>) <= Length
      BY <1>1, BlockHeld, EmptySeq DEF ClientInv
    <2> QED
      BY <2>1, FilledHolds
  <1> HIDE DEF r2
  <1>3. \A q \in Peer : Conveyed(rings'[q], sent'[q], unread'[q], written'[q], pc' = "ended")
    BY <1>1, InvOf DEF Conveyed
  <1> QED
    BY <1>1, <1>2, <1>3 DEF ClientInv

LEMMA WriteKeeps ==
    ASSUME ClientInv, NEW p \in Peer, WriteSome(p)
    PROVE  ClientInv'
  <1> DEFINE r == rings[p]
             n == AvailableData(r)
             left == CommitRead(r, n)
             data == Crlf(Held(r))
  <1>1. r \in BlockRing /\ n > 0 /\ pc = "write"
    BY DEF ClientInv, WriteSome
  <1>2. GetsBytes(r, n) = Held(r) /\ left \in BlockRing /\ left.looped = 0
    BY <1>1, AllTaken
  <1>3. r.looped = 1
    BY <1>1, BlockHeld
  <1>4. rings' = [rings EXCEPT ![p] = left]
    BY DEF WriteSome
  <1>5. PICK k \in 0 .. Len(data) :
            /\ written' = [written EXCEPT ![p] = written[p] \o Typed(SubSeq(data, 1, k))]
            /\ pc' = IF k = Len(data) THEN "write" ELSE "ended"
    BY <1>2 DEF WriteSome
  <1>6. UNCHANGED <<sent, unread, ready>>
    BY DEF WriteSome
  <1> DEFINE w2 == written[p] \o Typed(SubSeq(data, 1, k))
  <1>7. w2 \in Seq(Char) /\ Conveyed(left, sent[p], unread[p], w2, k # Len(data))
    <2>1. /\ ConveyedTypes(r, sent[p], unread[p], written[p])
          /\ Conveyed(r, sent[p], unread[p], written[p], FALSE)
      BY <1>1, InvOf
    <2> HIDE DEF r, left
    <2>2. k \in 0 .. Len(Crlf(Held(r)))
      OBVIOUS
    <2> QED
      BY <1>2, <1>3, <2>1, <2>2, MoreWritten
  <1>8. (pc' = "ended") = (k # Len(data))
    BY <1>5
  <1> HIDE DEF left, w2, data
  <1>9. ASSUME NEW q \in Peer
        PROVE  Conveyed(rings'[q], sent[q], unread[q], written'[q], pc' = "ended")
    <2>1. CASE q = p
      <3>1. rings'[q] = left /\ written'[q] = w2
        BY <1>4, <1>5, <2>1 DEF ClientInv, w2
      <3> QED
        BY <1>7, <1>8, <2>1, <3>1
    <2>2. CASE q # p
      <3>1. rings'[q] = rings[q] /\ written'[q] = written[q]
        BY <1>4, <1>5, <2>2 DEF ClientInv
      <3>2. /\ Conveyed(rings[q], sent[q], unread[q], written[q], FALSE)
            /\ Begins(written[q], Crlf(sent[q]))
        BY <1>1, InvOf
      <3> QED
        BY <3>1, <3>2 DEF Conveyed
    <2> QED
      BY <2>1, <2>2
  <1>10. pc' \in {"write", "ended"}
    BY <1>5
  <1>11. written' \in [Peer -> Seq(Char)] /\ rings' \in [Peer -> BlockRing]
    BY <1>2, <1>4, <1>5, <1>7 DEF ClientInv, w2
  <1>12. \A q \in Peer : Conveyed(rings'[q], sent'[q], unread'[q], written'[q], pc' = "ended")
    BY <1>6, <1>9
  <1> QED
    BY <1>6, <1>10, <1>11, <1>12 DEF ClientInv

\* A step of the round that moves no byte: only select and its end do, when
\* both rings are empty.
LEMMA RoundKeeps ==
    ASSUME ClientInv, Select \/ RoundOver \/ (\E p \in Peer : Close(p)) \/ UNCHANGED clientVars
    PROVE  ClientInv'
  <1>1. UNCHANGED <<rings, sent, unread, written>>
    BY DEF Select, RoundOver, Close, clientVars
  <1>2. /\ ready' \subseteq Peer /\ pc' \in {"select", "read", "write", "ended"}
        /\ (pc' = "ended") = (pc = "ended")
    BY DEF Select, RoundOver, Close, clientVars, Readable, ClientInv
  <1>3. \A p \in Peer : pc' = "select" \/ (pc' = "read" /\ p \in ready') => rings[p].looped = 0
    <2>1. CASE Select
      BY <2>1 DEF Select, ClientInv
    <2>2. CASE RoundOver
      BY <2>2, BlockHeld DEF RoundOver, Drained, ClientInv
    <2>3. CASE (\E p \in Peer : Close(p)) \/ UNCHANGED clientVars
      BY <2>3 DEF Close, clientVars, ClientInv
    <2> QED
      BY <2>1, <2>2, <2>3
  <1>4. \A p \in Peer : Conveyed(rings[p], sent[p], unread[p], written[p], pc' = "ended")
    BY <1>2 DEF ClientInv
  <1>5. \A p \in Peer : Conveyed(rings'[p], sent'[p], unread'[p], written'[p], pc' = "ended")
    BY <1>1, <1>4
  <1> QED
    BY <1>1, <1>2, <1>3, <1>5 DEF ClientInv

LEMMA ClientKeeps == ClientInv /\ [ClientNext]_clientVars => ClientInv'
  <1> SUFFICES ASSUME ClientInv, [ClientNext]_clientVars PROVE ClientInv'
    OBVIOUS
  <1>1. ASSUME NEW p \in Peer, NEW c \in Byte, Send(p, c) PROVE ClientInv'
    BY <1>1, SendKeeps
  <1>2. ASSUME NEW p \in Peer, ReadSome(p) PROVE ClientInv'
    BY <1>2, ReadKeeps
  <1>3. ASSUME NEW p \in Peer, ReadFails(p) PROVE ClientInv'
    BY <1>3, FailKeeps
  <1>4. ASSUME NEW p \in Peer, WriteSome(p) PROVE ClientInv'
    BY <1>4, WriteKeeps
  <1>5. CASE Select \/ RoundOver \/ (\E p \in Peer : Close(p)) \/ UNCHANGED clientVars
    BY <1>5, RoundKeeps
  <1> QED
    BY <1>1, <1>2, <1>3, <1>4, <1>5 DEF ClientNext, Client, ReadAny, WriteAny

\* When select waits no ring holds anything, so nothing is under way.
LEMMA ClientRelays == ClientInv => Relayed
  <1> SUFFICES ASSUME ClientInv, NEW p \in Peer
               PROVE  /\ IsPrefix(written[p], Crlf(sent[p]))
                      /\ pc = "select" => Crlf(sent[p]) = written[p] \o Crlf(unread[p])
    BY DEF Relayed
  <1>1. IsPrefix(written[p], Crlf(sent[p]))
    BY InvOf, BeginsIsPrefix DEF ClientInv
  <1>2. pc = "select" => Crlf(sent[p]) = written[p] \o Crlf(unread[p])
    <2> SUFFICES ASSUME pc = "select"
                 PROVE  Crlf(sent[p]) = written[p] \o Crlf(unread[p])
      OBVIOUS
    <2>1. Conveyed(rings[p], sent[p], unread[p], written[p], FALSE) /\ Held(rings[p]) = <<>>
      BY InvOf DEF ClientInv, Held
    <2>2. Typed(<<>>) = <<>> /\ Crlf(<<>>) = <<>>
      BY NLAssumption, RespellOne DEF Char, Block
    <2>3. written[p] \o <<>> = written[p]
      BY ConcatEmptySeq DEF ClientInv
    <2> QED
      BY <2>1, <2>2, <2>3 DEF Conveyed
  <1> QED
    BY <1>1, <1>2

\* netclient.c writes what a peer sent, in order and each byte once, whatever
\* padding read_some put into the rings and wherever the client ends.
THEOREM AlwaysRelayed == ClientSpec => []Relayed
  BY ClientStarts, ClientKeeps, ClientRelays, PTL DEF ClientSpec
=============================================================================
