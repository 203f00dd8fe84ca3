------------------------- MODULE MirrorBuffer_proofs -------------------------
(***************************************************************************)
(* For every page size, every Length RB_init accepts and every bound on a  *)
(* request: the copies of RingBuffer_write1 and RingBuffer_read1 stay      *)
(* inside the double mapping, and the calls are those of a byte queue.     *)
(***************************************************************************)
EXTENDS MirrorBuffer, SequenceTheorems, TLAPS

Bytes == Byte \cup {Nul}

\* An offset into the double mapping is a cell, or a cell of the second half.
LEMMA WrapOnce ==
    ASSUME SizeAssumption, NEW k \in Nat, k < 2 * Length
    PROVE  /\ k < Length => k % Length = k
           /\ k >= Length => k % Length = k - Length
           /\ k % Length \in Cell
  <1>1. Length \in Nat /\ Length > 0
    BY DEF SizeAssumption
  <1>2. CASE k < Length
    BY <1>1, <1>2 DEF Cell
  <1>3. CASE k >= Length
    <2>1. k = Length * 1 + (k - Length) /\ k - Length \in 0 .. Length - 1
      BY <1>1, <1>3
    <2> QED
      BY <1>1, <1>3, <2>1 DEF Cell
  <1> QED
    BY <1>1, <1>2, <1>3

-----------------------------------------------------------------------------
\* The indices and the pages, without "out".
Lapped == /\ start \in Cell /\ end \in Nat /\ file \in [Cell -> Bytes]
          /\ OneLapAhead

LEMMA Indices ==
    ASSUME SizeAssumption, Lapped
    PROVE  /\ Length \in Nat /\ Length > 0 /\ start \in Nat /\ start < Length
           /\ end \in Nat /\ start <= end /\ end <= start + Length
           /\ end - start \in Nat /\ end - start <= Length
  BY DEF SizeAssumption, Lapped, OneLapAhead, Cell

\* The u bytes of the pages f from cell s on, round the end.
Unread(c, s, f, u) ==
    /\ c \in Seq(Bytes) /\ Len(c) = u
    /\ \A i \in 1 .. u : c[i] = f[(s + i - 1) % Length]

LEMMA UnreadFrom ==
    ASSUME SizeAssumption, NEW s \in Cell, NEW f \in [Cell -> Bytes],
           NEW u \in Nat, u <= Length
    PROVE  Unread([i \in 1 .. u |-> f[(s + i - 1) % Length]], s, f, u)
  <1>1. ASSUME NEW i \in 1 .. u PROVE f[(s + i - 1) % Length] \in Bytes
    <2>1. s + i - 1 \in Nat /\ s + i - 1 < 2 * Length
      BY DEF SizeAssumption, Cell
    <2> QED
      BY <2>1, WrapOnce
  <1> DEFINE c == [i \in 1 .. u |-> f[(s + i - 1) % Length]]
  <1>2. c \in [1 .. u -> Bytes] /\ \A i \in 1 .. u : c[i] = f[(s + i - 1) % Length]
    BY <1>1
  <1> HIDE DEF c
  <1>3. c \in Seq(Bytes)
    BY <1>2, SeqDef
  <1>4. Len(c) = u
    BY <1>2, <1>3, LenProperties
  <1> QED
    BY <1>2, <1>3, <1>4 DEF c, Unread

\* Contents are those bytes, before a call and after it.
LEMMA ContentsAreUnread ==
    ASSUME SizeAssumption, Lapped
    PROVE  Unread(Contents, start, file, end - start)
  <1>1. end - start \in Nat /\ end - start <= Length
    BY Indices
  <1> QED
    BY <1>1, UnreadFrom DEF Contents, Lapped

LEMMA ContentsAreUnreadNext ==
    ASSUME SizeAssumption, Lapped', NEW u \in Nat, u = end' - start', u <= Length
    PROVE  Unread(Contents', start', file', u)
  <1>1. Contents' = [i \in 1 .. u |-> file'[(start' + i - 1) % Length]]
    BY DEF Contents
  <1> QED
    BY <1>1, UnreadFrom DEF Lapped, Cell

-----------------------------------------------------------------------------
(* RingBuffer_write1 *)

\* The copy leaves the unread bytes and lays the data down behind them.
LEMMA StoredBehind ==
    ASSUME SizeAssumption, Lapped, NEW data, NEW n \in Nat, Len(data) = n, RoomFor(n),
           NEW u \in Nat, u = end - start
    PROVE  /\ \A i \in 1 .. u : Store(end, data)[(start + i - 1) % Length]
                                    = file[(start + i - 1) % Length]
           /\ \A j \in 1 .. n : Store(end, data)[(end + j - 1) % Length] = data[j]
  <1>1. /\ Length \in Nat /\ Length > 0 /\ start \in Nat /\ start < Length
        /\ end \in Nat /\ end + n <= start + Length /\ start <= end
    BY Indices DEF RoomFor
  <1>2. ASSUME NEW i \in 1 .. u
        PROVE  Store(end, data)[(start + i - 1) % Length] = file[(start + i - 1) % Length]
    <2> DEFINE k == start + i - 1
               c == k % Length
    <2>1. k \in Nat /\ k < 2 * Length /\ k < end /\ k >= start
      BY <1>1
    <2>2. c \in Cell /\ (k < Length => c = k) /\ (k >= Length => c = k - Length)
      BY <2>1, WrapOnce
    <2> HIDE DEF c, k
    <2>3. c \in Int /\ ~(c >= end) /\ ~(c + Length >= end /\ c + Length < end + n)
      BY <1>1, <2>1, <2>2 DEF Cell
    <2>4. Store(end, data)[c] = file[c]
      BY <2>2, <2>3 DEF Store
    <2> QED
      BY <2>4 DEF c, k
  <1>3. ASSUME NEW j \in 1 .. n PROVE Store(end, data)[(end + j - 1) % Length] = data[j]
    <2> DEFINE k == end + j - 1
               c == k % Length
    <2>1. k \in Nat /\ k < 2 * Length /\ k >= end /\ k < end + n /\ k - end + 1 = j
          /\ k - Length < end
      BY <1>1
    <2>2. c \in Cell /\ (k < Length => c = k) /\ (k >= Length => c = k - Length)
      BY <2>1, WrapOnce
    <2> HIDE DEF c, k
    <2>3. ASSUME k < Length PROVE Store(end, data)[c] = data[j]
      <3>1. c = k /\ c >= end /\ c < end + n /\ c - end + 1 = j
        BY <2>1, <2>2, <2>3
      <3> QED
        BY <2>2, <3>1 DEF Store
    <2>4. ASSUME k >= Length PROVE Store(end, data)[c] = data[j]
      <3>1. /\ ~(c >= end) /\ c + Length >= end /\ c + Length < end + n
            /\ c + Length - end + 1 = j
        BY <1>1, <2>1, <2>2, <2>4
      <3> QED
        BY <2>2, <3>1 DEF Store
    <2>5. k < Length \/ k >= Length
      BY <1>1, <2>1
    <2>6. Store(end, data)[c] = data[j]
      BY <2>3, <2>4, <2>5
    <2> QED
      BY <2>6 DEF c, k
  <1> QED
    BY <1>2, <1>3

\* It leaves bytes in every cell.
LEMMA StoreKeepsBytes ==
    ASSUME SizeAssumption, Lapped, NEW data \in Seq(Byte)
    PROVE  Store(end, data) \in [Cell -> Bytes]
  <1>1. ASSUME NEW k \in Int, k >= end, k < end + Len(data)
        PROVE  data[k - end + 1] \in Byte
    <2>1. k - end + 1 \in 1 .. Len(data)
      BY <1>1, Indices, LenProperties
    <2> QED
      BY <2>1, ElementOfSeq
  <1> SUFFICES ASSUME NEW c \in Cell PROVE Store(end, data)[c] \in Bytes
    BY DEF Store
  <1>2. c \in Int /\ c + Length \in Int /\ file[c] \in Bytes
    BY Indices DEF Cell, Lapped
  <1>3. CASE c >= end /\ c < end + Len(data)
    <2>1. Store(end, data)[c] = data[c - end + 1]
      BY <1>3 DEF Store
    <2> QED
      BY <1>1, <1>2, <1>3, <2>1 DEF Bytes
  <1>4. CASE /\ ~(c >= end /\ c < end + Len(data))
             /\ c + Length >= end /\ c + Length < end + Len(data)
    <2>1. Store(end, data)[c] = data[c + Length - end + 1]
      BY <1>4 DEF Store
    <2> DEFINE k == c + Length
    <2>2. k \in Int /\ k >= end /\ k < end + Len(data)
      BY <1>2, <1>4
    <2> HIDE DEF k
    <2>3. data[k - end + 1] \in Byte
      BY <1>1, <2>2
    <2> QED
      BY <1>2, <2>1, <2>3, Indices DEF Bytes, k
  <1>5. CASE /\ ~(c >= end /\ c < end + Len(data))
             /\ ~(c + Length >= end /\ c + Length < end + Len(data))
    BY <1>2, <1>5 DEF Store
  <1> QED
    BY <1>3, <1>4, <1>5

\* The unread bytes after a write that fits, in terms of those before it.
LEMMA AppendsData ==
    ASSUME SizeAssumption, Lapped, NEW data \in Seq(Byte), RoomFor(Len(data)),
           file' = Store(end, data), end' = end + Len(data), start' = start
    PROVE  /\ Lapped'
           /\ Contents' = Contents \o data
  <1> DEFINE n == Len(data)
             u == end - start
             c == Contents \o data
             d == Contents'
  <1>1. /\ Length \in Nat /\ start \in Nat /\ end \in Nat /\ n \in Nat /\ u \in Nat
        /\ start + u = end /\ end + n <= start + Length
    BY Indices, LenProperties DEF RoomFor
  <1>2. start' \in Cell /\ end' \in Nat /\ OneLapAhead'
    BY <1>1, Indices DEF Lapped, OneLapAhead
  <1>3. Lapped'
    BY <1>2, StoreKeepsBytes DEF Lapped, Cell
  <1>4. Unread(Contents, start, file, u)
    BY ContentsAreUnread
  <1>5. data \in Seq(Bytes)
    BY SeqDef DEF Bytes
  <1>6. /\ c \in Seq(Bytes) /\ Len(c) = u + n
        /\ \A i \in 1 .. u + n : c[i] = IF i <= u THEN Contents[i] ELSE data[i - u]
    <2>1. Contents \in Seq(Bytes) /\ Len(Contents) = u
      BY <1>4 DEF Unread
    <2> HIDE DEF u
    <2>2. Len(data) = n
      OBVIOUS
    <2> HIDE DEF n
    <2> QED
      BY <1>5, <2>1, <2>2, ConcatProperties
  <1>7. /\ \A i \in 1 .. u : Store(end, data)[(start + i - 1) % Length]
                                 = file[(start + i - 1) % Length]
        /\ \A j \in 1 .. n : Store(end, data)[(end + j - 1) % Length] = data[j]
    BY <1>1, StoredBehind
  <1>8. Unread(d, start, Store(end, data), u + n)
    <2>1. u + n \in Nat /\ u + n = end' - start' /\ u + n <= Length
      BY <1>1
    <2> HIDE DEF u, n
    <2> QED
      BY <1>3, <2>1, ContentsAreUnreadNext
  <1> HIDE DEF u, n, c, d
  <1>9. ASSUME NEW i \in 1 .. u + n PROVE d[i] = c[i]
    <2>1. CASE i <= u
      <3>1. i \in 1 .. u
        BY <1>1, <2>1
      <3> QED
        BY <1>4, <1>6, <1>7, <1>8, <2>1, <3>1 DEF Unread
    <2>2. CASE i > u
      <3> DEFINE j == i - u
      <3>1. j \in 1 .. n /\ end + j - 1 = start + i - 1 /\ ~(i <= u)
        BY <1>1, <2>2
      <3> HIDE DEF j
      <3>2. Store(end, data)[(start + i - 1) % Length] = data[j]
        BY <1>7, <3>1
      <3> QED
        BY <1>6, <1>8, <3>1, <3>2 DEF j, Unread
    <2> QED
      BY <1>1, <2>1, <2>2
  <1>10. d = c
    BY <1>6, <1>8, <1>9, SeqEqual DEF Unread
  <1> QED
    BY <1>3, <1>10 DEF c, d

-----------------------------------------------------------------------------
(* RingBuffer_read1 *)

\* One copy brings the n oldest unread bytes.
LEMMA LoadContents ==
    ASSUME SizeAssumption, Lapped, NEW n \in Nat, n <= end - start
    PROVE  /\ Load(start, n) = SubSeq(Contents, 1, n)
           /\ Len(SubSeq(Contents, 1, n)) = n
  <1> DEFINE u == end - start
             c == Contents
             f == SubSeq(c, 1, n)
  <1>1. u \in Nat /\ n <= u
    BY Indices
  <1>2. /\ c \in Seq(Bytes) /\ Len(c) = u
        /\ \A i \in 1 .. u : c[i] = file[(start + i - 1) % Length]
    BY ContentsAreUnread DEF Unread
  <1> HIDE DEF c, u
  <1>3. \A i \in 1 .. n : i \in 1 .. u
    BY <1>1
  <1>4. \A i \in 1 .. n : c[i] \in Bytes
    BY <1>2, <1>3, ElementOfSeq
  <1>5. f \in Seq(Bytes) /\ Len(f) = n /\ \A i \in 1 .. n : f[i] = c[i]
    BY <1>4, SubSeqProperties
  <1> HIDE DEF f
  <1>6. f = [i \in 1 .. n |-> file[(start + i - 1) % Length]]
    <2>1. f = [i \in 1 .. n |-> f[i]]
      BY <1>5, LenProperties
    <2> QED
      BY <1>2, <1>3, <1>5, <2>1
  <1>7. \A i \in 1 .. n : start + i - 1 < 2 * Length
    BY <1>1, Indices DEF u
  <1>8. Load(start, n) = f
    BY <1>6, <1>7 DEF Load
  <1> QED
    BY <1>5, <1>8 DEF f, c

\* Stepping both indices back leaves the other unread bytes where they are.
LEMMA StepBackContents ==
    ASSUME SizeAssumption, Lapped, NEW n \in Nat, n <= end - start,
           StepBack(start + n), file' = file
    PROVE  /\ Lapped'
           /\ Contents' = SubSeq(Contents, n + 1, Len(Contents))
  <1> DEFINE u == end - start
             k == u - n
             c == Contents
             d == Contents'
             f == SubSeq(c, n + 1, u)
  <1>1. /\ Length \in Nat /\ Length > 0 /\ start \in Nat /\ start < Length
        /\ end \in Nat /\ u \in Nat /\ k \in Nat /\ start + u = end /\ n + k = u
        /\ u <= Length
    BY Indices
  <1>2. \/ start + n < Length /\ start' = start + n /\ end' = end
        \/ start + n >= Length /\ start' = start + n - Length /\ end' = end - Length
    BY <1>1 DEF StepBack
  <1>3. start' \in Cell /\ end' \in Nat /\ OneLapAhead' /\ end' - start' = k
    BY <1>1, <1>2 DEF OneLapAhead, Cell
  <1>4. Lapped'
    BY <1>3 DEF Lapped, Cell
  <1>5. Unread(c, start, file, u)
    BY ContentsAreUnread
  <1>6. Unread(d, start', file, k)
    BY <1>1, <1>3, <1>4, ContentsAreUnreadNext
  <1> HIDE DEF c, d, u
  <1>7. ASSUME NEW i \in 1 .. k
        PROVE  (start' + i - 1) % Length = (start + (n + i) - 1) % Length
    <2> DEFINE p == start' + i - 1
               q == start + (n + i) - 1
    <2>1. /\ q \in Nat /\ q < 2 * Length
          /\ p \in Nat /\ p < 2 * Length
          /\ p = q \/ (p = q - Length /\ p < Length)
      BY <1>1, <1>2 
    <2> HIDE DEF p, q
    <2>2. p % Length = q % Length
      BY <1>1, <2>1, WrapOnce
    <2> QED
      BY <2>2 DEF p, q
  <1>8. /\ f \in Seq(Bytes) /\ Len(f) = k
        /\ \A i \in 1 .. k : f[i] = c[n + i]
    <2>1. \A i \in n + 1 .. u : c[i] \in Bytes
      BY <1>1, <1>5, ElementOfSeq DEF Unread
    <2> HIDE DEF k
    <2> QED
      BY <1>1, <2>1, SubSeqProperties
  <1> HIDE DEF f
  <1>9. \A i \in 1 .. k : n + i \in 1 .. u
    BY <1>1
  <1> HIDE DEF k
  <1>10. ASSUME NEW i \in 1 .. k PROVE d[i] = f[i]
    BY <1>5, <1>6, <1>7, <1>8, <1>9 DEF Unread
  <1>11. d = f
    BY <1>6, <1>8, <1>10, SeqEqual DEF Unread
  <1> QED
    BY <1>4, <1>5, <1>11 DEF c, d, f, Unread

-----------------------------------------------------------------------------
\* The type invariant and "end is at most a lap ahead" are inductive together.
IInv == TypeOK /\ OneLapAhead

LEMMA IInvIsLapped == IInv => Lapped
  BY DEF IInv, TypeOK, Lapped, Bytes

\* What every call establishes.
StepOK == Lapped' /\ out'.call \in {"write", "read"} /\ out'.ret \in -1 .. Length

LEMMA StringsAreSequences ==
    ASSUME SizeAssumption, NEW data \in Strings
    PROVE  data \in Seq(Byte) /\ Len(data) \in 0 .. MaxRequest
  <1>1. PICK n \in 0 .. MaxRequest : data \in [1 .. n -> Byte]
    BY DEF Strings
  <1>2. n \in Nat
    BY <1>1 DEF SizeAssumption
  <1>3. data \in Seq(Byte)
    BY <1>1, <1>2, SeqDef
  <1>4. Len(data) = n
    BY <1>1, <1>2, <1>3, LenProperties
  <1> QED
    BY <1>3, <1>4

\* RingBuffer_write1, granted and refused.
LEMMA WriteStep ==
    ASSUME SizeAssumption, IInv, NEW data \in Strings, RingBuffer_write1(data)
    PROVE  StepOK /\ Queue!Next
  <1> DEFINE n == Len(data)
  <1>1. data \in Seq(Byte) /\ n \in Nat /\ n \in 0 .. MaxRequest /\ Lapped
    BY StringsAreSequences, IInvIsLapped DEF SizeAssumption
  <1>2. Len(Contents) = end - start
    BY <1>1, ContentsAreUnread DEF Unread
  <1>3. CASE RoomFor(n)
    <2>1. /\ file' = Store(end, data) /\ end' = end + n /\ start' = start
          /\ out' = Outcome("write", n, n, data)
      BY <1>3 DEF RingBuffer_write1
    <2>2. Lapped' /\ Contents' = Contents \o data
      BY <1>1, <1>3, <2>1, AppendsData
    <2>3. n \in 0 .. Length /\ n <= Length - (end - start)
      BY <1>1, <1>3, Indices DEF RoomFor
    <2>4. Queue!Write(data)
      BY <1>2, <2>1, <2>2, <2>3 DEF Queue!Write, Queue!Outcome, Outcome
    <2>5. data \in [1 .. n -> Byte]
      BY <1>1, LenProperties
    <2>6. StepOK
      BY <1>1, <2>1, <2>2, <2>3, Indices DEF StepOK, Outcome
    <2> HIDE DEF n
    <2> QED
      BY <2>3, <2>4, <2>5, <2>6 DEF Queue!Next
  <1>4. CASE ~RoomFor(n)
    <2>1. UNCHANGED <<start, end, file>> /\ out' = Outcome("write", n, -1, <<>>)
      BY <1>4 DEF RingBuffer_write1
    <2>2. Contents' = Contents /\ Lapped'
      BY <1>1, <2>1 DEF Contents, Lapped, OneLapAhead, Cell
    <2>3. n > Length - (end - start)
      BY <1>1, <1>4, Indices DEF RoomFor
    <2>4. StepOK
      BY <1>1, <2>1, <2>2, Indices DEF StepOK, Outcome
    <2> HIDE DEF n
    <2>5. Queue!Refuse("write", n)
      BY <1>2, <2>1, <2>2, <2>3 DEF Queue!Refuse, Queue!Outcome, Outcome
    <2> QED
      BY <1>1, <2>4, <2>5 DEF Queue!Next
  <1> QED
    BY <1>3, <1>4

\* RingBuffer_read1, granted and refused.
LEMMA ReadStep ==
    ASSUME SizeAssumption, IInv, NEW n \in 0 .. MaxRequest, RingBuffer_read1(n)
    PROVE  StepOK /\ Queue!Next
  <1>1. Lapped /\ n \in Nat
    BY IInvIsLapped DEF SizeAssumption
  <1>2. Len(Contents) = end - start
    BY <1>1, ContentsAreUnread DEF Unread
  <1>3. CASE n <= end - start
    <2>1. /\ StepBack(start + n) /\ file' = file
          /\ out' = Outcome("read", n, n, Load(start, n))
      BY <1>3 DEF RingBuffer_read1
    <2>2. Lapped' /\ Contents' = SubSeq(Contents, n + 1, Len(Contents))
      BY <1>1, <1>3, <2>1, StepBackContents
    <2>3. Load(start, n) = SubSeq(Contents, 1, n)
      BY <1>1, <1>3, LoadContents
    <2>4. n \in 0 .. Length
      BY <1>1, <1>3, Indices
    <2>5. Queue!Remove("read", n)
      BY <1>2, <1>3, <2>1, <2>2, <2>3 DEF Queue!Remove, Queue!Outcome, Outcome
    <2>6. StepOK
      BY <1>1, <2>1, <2>2, <2>4 DEF StepOK, Outcome
    <2> QED
      BY <2>4, <2>5, <2>6 DEF Queue!Next
  <1>4. CASE ~(n <= end - start)
    <2>1. UNCHANGED <<start, end, file>> /\ out' = Outcome("read", n, -1, <<>>)
      BY <1>4 DEF RingBuffer_read1
    <2>2. Contents' = Contents /\ Lapped'
      BY <1>1, <2>1 DEF Contents, Lapped, OneLapAhead, Cell
    <2>3. n > end - start
      BY <1>1, <1>4, Indices
    <2>4. StepOK
      BY <1>1, <2>1, <2>2, Indices DEF StepOK, Outcome
    <2>5. Queue!Refuse("read", n)
      BY <1>2, <2>1, <2>2, <2>3 DEF Queue!Refuse, Queue!Outcome, Outcome
    <2> QED
      BY <2>4, <2>5 DEF Queue!Next
  <1> QED
    BY <1>3, <1>4

LEMMA StepIsOK ==
    ASSUME SizeAssumption, IInv, Next
    PROVE  StepOK /\ Queue!Next
  BY WriteStep, ReadStep DEF Next

\* RB_init's pages are the empty queue.
LEMMA InitIsOK ==
    ASSUME SizeAssumption, Init
    PROVE  IInv /\ Queue!Init
  <1>1. IInv
    BY DEF SizeAssumption, Init, IInv, TypeOK, OneLapAhead, Cell, Outcome
  <1>2. Contents \in Seq(Bytes) /\ Len(Contents) = 0
    BY <1>1, IInvIsLapped, ContentsAreUnread DEF Init, Unread
  <1>3. Contents = <<>>
    BY <1>2, EmptySeq, SeqEqual
  <1> QED
    BY <1>1, <1>3 DEF Init, Outcome, Queue!Init, Queue!Outcome

LEMMA IInvAlways ==
    ASSUME SizeAssumption
    PROVE  Spec => []IInv
  <1>1. Init => IInv
    BY InitIsOK
  <1>2. IInv /\ [Next]_vars => IInv'
    <2>1. ASSUME IInv, Next PROVE IInv'
      BY <2>1, StepIsOK DEF StepOK, Lapped, Bytes, IInv, TypeOK, Cell
    <2>2. ASSUME IInv, UNCHANGED vars PROVE IInv'
      BY <2>2 DEF vars, IInv, TypeOK, OneLapAhead, Cell
    <2> QED
      BY <2>1, <2>2
  <1> QED
    BY <1>1, <1>2, PTL DEF Spec

\* start stays below Length and end at most a lap ahead of it, so no copy of
\* RingBuffer_write1 and RingBuffer_read1 leaves the mapping
\* (ringbuffer.c:102 is the step back this rests on).
THEOREM AlwaysOneLapAhead ==
    ASSUME SizeAssumption
    PROVE  Spec => [](TypeOK /\ OneLapAhead)
  BY IInvAlways, PTL DEF IInv

\* The double-mapped buffer implements ByteQueue, every call of it.
THEOREM MirrorByteQueue ==
    ASSUME SizeAssumption
    PROVE  Spec => IsByteQueue
  <1>1. Init => Queue!Init
    BY InitIsOK
  <1>2. IInv /\ [Next]_vars => [Queue!Next]_Queue!vars
    <2>1. ASSUME UNCHANGED vars PROVE UNCHANGED Queue!vars
      BY <2>1 DEF vars, Queue!vars, Contents
    <2> QED
      BY <2>1, StepIsOK
  <1> QED
    BY <1>1, <1>2, IInvAlways, PTL DEF Spec, IsByteQueue, Queue!Spec
=============================================================================
