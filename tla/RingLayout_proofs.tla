-------------------------- MODULE RingLayout_proofs --------------------------
(***************************************************************************)
(* What the macros and copies of ringbuffer.c do to a ring, for every      *)
(* Length and set of bytes: to its indices, to the count of its unread     *)
(* bytes, and to those bytes themselves.                                   *)
(***************************************************************************)
EXTENDS RingLayout, SequenceTheorems, TLAPS

Bytes == Byte \cup {Nul}

\* The invariant of the ring alone, without "out".
Ordered(r) ==
    /\ r \in [start : Cell, end : Cell, looped : {0, 1}, buffer : [Cell -> Bytes]]
    /\ IF r.looped = 0 THEN r.start <= r.end ELSE r.end <= r.start

\* An index that has run past the end by less than one length wraps to the
\* difference.
LEMMA WrapOnce ==
    ASSUME NEW s \in Nat, s >= Length, s < 2 * Length
    PROVE  s % Length = s - Length
  <1>1. Length \in Nat /\ Length > 0
    BY LengthAssumption
  <1>2. s = Length * 1 + (s - Length) /\ s - Length \in 0 .. Length - 1
    BY <1>1
  <1> QED
    BY <1>1, <1>2

\* An ordered ring, field by field, with the count its indices stand for.
LEMMA Fields ==
    ASSUME NEW r, Ordered(r)
    PROVE  /\ Length \in Nat /\ Length > 0
           /\ r.buffer \in [Cell -> Bytes]
           /\ r.start \in Nat /\ r.start < Length
           /\ r.end \in Nat /\ r.end < Length
           /\ \/ r.looped = 0 /\ r.start <= r.end /\ AvailableData(r) = r.end - r.start
              \/ r.looped = 1 /\ r.end <= r.start /\ AvailableData(r) = Length + r.end - r.start
  BY LengthAssumption DEF Ordered, AvailableData, Cell

\* The same in the other direction, for a ring put together from its fields.
LEMMA Built ==
    ASSUME NEW s \in Cell, NEW e \in Cell, NEW l \in {0, 1}, NEW b \in [Cell -> Bytes],
           IF l = 0 THEN s <= e ELSE e <= s
    PROVE  /\ Ordered(Ring(s, e, l, b))
           /\ AvailableData(Ring(s, e, l, b)) = IF l = 0 THEN e - s ELSE Length + e - s
  BY DEF Ordered, Ring, AvailableData

\* Reading what is there keeps the ring ordered and takes n off the count.
LEMMA CommitReadCorrect ==
    ASSUME NEW r, Ordered(r), NEW n \in Nat, n <= AvailableData(r)
    PROVE  /\ Ordered(CommitRead(r, n))
           /\ AvailableData(CommitRead(r, n)) = AvailableData(r) - n
  <1> DEFINE s == r.start + n
  <1>1. CASE s >= Length
    <2>1. r.looped = 1 /\ s - Length <= r.end /\ r.end < Length /\ s \in Nat
      BY <1>1, Fields
    <2>2. s - Length \in Cell /\ r.end \in Cell /\ s < 2 * Length
      BY <1>1, <2>1, Fields DEF Cell
    <2>3. CommitRead(r, n) = Ring(s - Length, r.end, 0, r.buffer)
      BY <1>1, <2>1, <2>2, WrapOnce DEF CommitRead
    <2> HIDE DEF s
    <2>4. Ordered(CommitRead(r, n)) /\ AvailableData(CommitRead(r, n)) = r.end - (s - Length)
      BY <2>1, <2>2, <2>3, Fields, Built
    <2> QED
      BY <2>1, <2>4, Fields DEF s
  <1>2. CASE s < Length
    <2>1. s \in Cell /\ r.end \in Cell /\ r.looped \in {0, 1}
      BY <1>2, Fields DEF Cell
    <2>2. CommitRead(r, n) = Ring(s, r.end, r.looped, r.buffer)
      BY <1>2, Fields DEF CommitRead
    <2>3. IF r.looped = 0 THEN s <= r.end ELSE r.end <= s
      BY Fields
    <2>4. AvailableData(r) - n = IF r.looped = 0 THEN r.end - s ELSE Length + r.end - s
      BY Fields
    <2> HIDE DEF s
    <2> QED
      BY <2>1, <2>2, <2>3, <2>4, Fields, Built
  <1> QED
    BY <1>1, <1>2, Fields

\* Writing what fits keeps the ring ordered and adds n to the count.
LEMMA CommitWriteCorrect ==
    ASSUME NEW r, Ordered(r), NEW n \in Nat, n <= AvailableSpace(r)
    PROVE  /\ Ordered(CommitWrite(r, n))
           /\ AvailableData(CommitWrite(r, n)) = AvailableData(r) + n
  <1> DEFINE e == r.end + n
  <1>1. CASE e >= Length
    <2>1. r.looped = 0 /\ e - Length <= r.start /\ r.start < Length /\ e \in Nat
      BY <1>1, Fields DEF AvailableSpace
    <2>2. e - Length \in Cell /\ r.start \in Cell /\ e < 2 * Length
      BY <1>1, <2>1, Fields DEF Cell
    <2>3. CommitWrite(r, n) = Ring(r.start, e - Length, 1, r.buffer)
      BY <1>1, <2>1, <2>2, WrapOnce DEF CommitWrite
    <2> HIDE DEF e
    <2>4. /\ Ordered(CommitWrite(r, n))
          /\ AvailableData(CommitWrite(r, n)) = Length + (e - Length) - r.start
      BY <2>1, <2>2, <2>3, Fields, Built
    <2> QED
      BY <2>1, <2>4, Fields DEF e
  <1>2. CASE e < Length
    <2>1. e \in Cell /\ r.start \in Cell /\ r.looped \in {0, 1}
      BY <1>2, Fields DEF Cell
    <2>2. CommitWrite(r, n) = Ring(r.start, e, r.looped, r.buffer)
      BY <1>2, Fields DEF CommitWrite
    <2>3. IF r.looped = 0 THEN r.start <= e ELSE e <= r.start
      BY Fields DEF AvailableSpace
    <2>4. AvailableData(r) + n = IF r.looped = 0 THEN e - r.start ELSE Length + e - r.start
      BY Fields
    <2> HIDE DEF e
    <2> QED
      BY <2>1, <2>2, <2>3, <2>4, Fields, Built
  <1> QED
    BY <1>1, <1>2, Fields

\* A copy into the ring leaves bytes in every cell.
LEMMA StoreKeepsBytes ==
    ASSUME NEW b \in [Cell -> Bytes], NEW at \in Nat, NEW data \in Seq(Byte)
    PROVE  Store(b, at, data) \in [Cell -> Bytes]
  <1> SUFFICES ASSUME NEW c \in Cell, c >= at, c < at + Len(data)
               PROVE  data[c - at + 1] \in Byte
    BY DEF Store, Bytes
  <1>1. c \in Nat /\ c - at + 1 \in 1 .. Len(data)
    BY LengthAssumption, LenProperties DEF Cell
  <1> QED
    BY <1>1, ElementOfSeq

\* RingBuffer_write's rewind keeps the ring ordered and its count.
LEMMA RewoundCorrect ==
    ASSUME NEW r, Ordered(r)
    PROVE  Ordered(Rewound(r)) /\ AvailableData(Rewound(r)) = AvailableData(r)
  <1>1. CASE AvailableData(r) = 0
    <2>1. r.looped = 0 /\ r.buffer \in [Cell -> Bytes] /\ 0 \in Cell
      BY <1>1, Fields DEF Cell
    <2>2. Rewound(r) = Ring(0, 0, 0, r.buffer)
      BY <1>1, <2>1 DEF Rewound
    <2> QED
      BY <1>1, <2>1, <2>2, Built
  <1>2. CASE AvailableData(r) # 0
    BY <1>2 DEF Rewound
  <1> QED
    BY <1>1, <1>2

\* A write that fits, both copies and the commit.
LEMMA WrittenCorrect ==
    ASSUME NEW r, Ordered(r), NEW data \in Seq(Byte), Fits(r, Len(data))
    PROVE  /\ Ordered(Written(r, data))
           /\ AvailableData(Written(r, data)) = AvailableData(r) + Len(data)
  <1> DEFINE tail == Length - r.end
             stored == IF Splits(r, Len(data))
                       THEN Store(Store(r.buffer, r.end, SubSeq(data, 1, tail)), 0,
                                  SubSeq(data, tail + 1, Len(data)))
                       ELSE Store(r.buffer, r.end, data)
             q == Ring(r.start, r.end, r.looped, stored)
  <1>1. Len(data) \in Nat /\ Len(data) <= AvailableSpace(r)
    BY LenProperties DEF Fits
  <1>2. stored \in [Cell -> Bytes]
    <2>1. CASE Splits(r, Len(data))
      <3>1. tail \in Nat /\ tail < Len(data)
        BY <1>1, <2>1, Fields DEF Splits
      <3>2. /\ SubSeq(data, 1, tail) \in Seq(Byte)
            /\ SubSeq(data, tail + 1, Len(data)) \in Seq(Byte)
        BY <1>1, <3>1, ElementOfSeq, SubSeqProperties
      <3>3. r.end \in Nat /\ r.buffer \in [Cell -> Bytes]
        BY Fields
      <3> QED
        BY <2>1, <3>2, <3>3, StoreKeepsBytes
    <2>2. CASE ~Splits(r, Len(data))
      BY <2>2, Fields, StoreKeepsBytes
    <2> QED
      BY <2>1, <2>2
  <1> HIDE DEF stored
  <1>3. Ordered(q) /\ AvailableData(q) = AvailableData(r)
    <2>1. /\ r.start \in Cell /\ r.end \in Cell /\ r.looped \in {0, 1}
          /\ IF r.looped = 0 THEN r.start <= r.end ELSE r.end <= r.start
          /\ AvailableData(r) = IF r.looped = 0 THEN r.end - r.start
                                                ELSE Length + r.end - r.start
      BY Fields DEF Cell
    <2> QED
      BY <1>2, <2>1, Built
  <1>4. Written(r, data) = CommitWrite(q, Len(data))
    BY DEF Written, stored
  <1> HIDE DEF q
  <1>5. Len(data) <= AvailableSpace(q)
    BY <1>1, <1>3 DEF AvailableSpace
  <1> QED
    BY <1>1, <1>3, <1>4, <1>5, CommitWriteCorrect

\* A read of what is there, the commit and the rewind.
LEMMA AfterReadCorrect ==
    ASSUME NEW r, Ordered(r), NEW n \in Nat, n <= AvailableData(r)
    PROVE  /\ Ordered(AfterRead(r, n))
           /\ AvailableData(AfterRead(r, n)) = AvailableData(r) - n
  <1> DEFINE c == CommitRead(r, n)
  <1>1. Ordered(c) /\ AvailableData(c) = AvailableData(r) - n
    BY CommitReadCorrect
  <1> HIDE DEF c
  <1>2. AfterRead(r, n) = IF c.end = c.start THEN Ring(0, 0, c.looped, c.buffer) ELSE c
    BY DEF AfterRead, c
  <1>3. CASE c.end = c.start
    <2>1. /\ 0 \in Cell /\ c.looped \in {0, 1} /\ c.buffer \in [Cell -> Bytes]
          /\ AvailableData(c) = IF c.looped = 0 THEN 0 - 0 ELSE Length + 0 - 0
      BY <1>1, <1>3, Fields DEF Cell
    <2> QED
      BY <1>1, <1>2, <1>3, <2>1, Built
  <1>4. CASE c.end # c.start
    BY <1>1, <1>2, <1>4
  <1> QED
    BY <1>3, <1>4

-----------------------------------------------------------------------------
(* The unread bytes *)

\* The cell of the i-th unread byte.
CellOf(r, i) == IF r.start + i - 1 < Length THEN r.start + i - 1
                                            ELSE r.start + i - 1 - Length

LEMMA CellOfUnread ==
    ASSUME NEW r, Ordered(r), NEW i \in 1 .. AvailableData(r)
    PROVE  CellOf(r, i) \in Cell
  BY Fields DEF CellOf, Cell

\* Contents is a sequence as long as the count.
LEMMA ContentsByCells ==
    ASSUME NEW r, Ordered(r)
    PROVE  /\ Contents(r) \in Seq(Bytes)
           /\ Len(Contents(r)) = AvailableData(r)
           /\ AvailableData(r) \in 0 .. Length
           /\ \A i \in 1 .. AvailableData(r) : Contents(r)[i] = r.buffer[CellOf(r, i)]
  <1> DEFINE n == AvailableData(r)
  <1>1. n \in Nat /\ n <= Length
    BY Fields
  <1>2. Contents(r) = [i \in 1 .. n |-> r.buffer[CellOf(r, i)]]
    BY DEF Contents, CellOf
  <1>3. \A i \in 1 .. n : r.buffer[CellOf(r, i)] \in Bytes
    BY CellOfUnread, Fields
  <1> HIDE DEF n
  <1>4. Contents(r) \in [1 .. n -> Bytes]
    BY <1>2, <1>3
  <1>5. Contents(r) \in Seq(Bytes)
    BY <1>1, <1>4, SeqDef
  <1>6. Len(Contents(r)) = n
    BY <1>1, <1>4, <1>5, LenProperties
  <1> QED
    BY <1>1, <1>2, <1>5, <1>6 DEF n

\* Two sequences of bytes with the same bytes are the same.
LEMMA SameBytes ==
    ASSUME NEW s \in Seq(Bytes), NEW t \in Seq(Bytes), NEW n \in Nat,
           Len(s) = n, Len(t) = n, \A i \in 1 .. n : s[i] = t[i]
    PROVE  s = t
  BY SeqEqual

\* A concatenation of u and n bytes, index by index.
Joined(c, s, t, u, n) ==
    /\ c \in Seq(Bytes) /\ Len(c) = u + n
    /\ \A i \in 1 .. u : c[i] = s[i]
    /\ \A j \in 1 .. n : c[u + j] = t[j]

LEMMA AppendByIndex ==
    ASSUME NEW s \in Seq(Bytes), NEW t \in Seq(Bytes), NEW u \in Nat, NEW n \in Nat,
           Len(s) = u, Len(t) = n
    PROVE  Joined(s \o t, s, t, u, n)
  <1>1. /\ s \o t \in Seq(Bytes)
        /\ Len(s \o t) = u + n
        /\ \A i \in 1 .. u + n : (s \o t)[i] = IF i <= u THEN s[i] ELSE t[i - u]
    BY ConcatProperties
  <1> DEFINE c == s \o t
  <1> HIDE DEF c
  <1>2. ASSUME NEW i \in 1 .. u PROVE c[i] = s[i]
    BY <1>1 DEF c
  <1>3. ASSUME NEW j \in 1 .. n PROVE c[u + j] = t[j]
    <2>1. u + j \in 1 .. u + n /\ ~(u + j <= u) /\ (u + j) - u = j
      OBVIOUS
    <2> QED
      BY <1>1, <2>1 DEF c
  <1> QED
    BY <1>1, <1>2, <1>3 DEF c, Joined

\* A commit of n bytes read takes the n oldest ones away.
LEMMA CommitReadContents ==
    ASSUME NEW r, Ordered(r), NEW n \in Nat, n <= AvailableData(r)
    PROVE  Contents(CommitRead(r, n)) = SubSeq(Contents(r), n + 1, AvailableData(r))
  <1> DEFINE c == CommitRead(r, n)
             rest == SubSeq(Contents(r), n + 1, AvailableData(r))
             k == AvailableData(r) - n
  <1>1. Ordered(c) /\ AvailableData(c) = k /\ c.buffer = r.buffer
    BY CommitReadCorrect DEF CommitRead, Ring
  <1>2. AvailableData(r) \in Nat /\ k \in Nat
    BY ContentsByCells
  <1>3. \A i \in 1 .. k : CellOf(c, i) = CellOf(r, n + i)
    <2>1. c.start = IF r.start + n >= Length THEN r.start + n - Length ELSE r.start + n
      <3>1. CASE r.start + n >= Length
        <4> DEFINE s == r.start + n
        <4>1. s \in Nat /\ s >= Length /\ s < 2 * Length
          BY <3>1, Fields
        <4>2. c.start = s % Length
          BY <4>1, Fields DEF CommitRead, Ring
        <4> HIDE DEF c, s
        <4>3. c.start = s - Length
          BY <4>1, <4>2, WrapOnce, LengthAssumption
        <4> QED
          BY <3>1, <4>3, Fields DEF s
      <3>2. CASE ~(r.start + n >= Length)
        BY <3>2 DEF CommitRead, Ring
      <3> QED
        BY <3>1, <3>2
    <2> HIDE DEF c
    <2>2. TAKE i \in 1 .. k
    <2> QED
      BY <2>1, Fields DEF CellOf
  <1>4. /\ rest \in Seq(Bytes) /\ Len(rest) = k
        /\ \A i \in 1 .. k : rest[i] = Contents(r)[n + i]
    <2>1. \A i \in n + 1 .. AvailableData(r) : Contents(r)[i] \in Bytes
      BY <1>2, ContentsByCells, ElementOfSeq
    <2> HIDE DEF k
    <2> QED
      BY <1>2, <2>1, SubSeqProperties DEF k
  <1>5. ASSUME NEW i \in 1 .. k PROVE Contents(c)[i] = rest[i]
    <2>1. Contents(c)[i] = r.buffer[CellOf(c, i)]
      BY <1>1, ContentsByCells
    <2>2. n + i \in 1 .. AvailableData(r)
      BY <1>2
    <2>3. Contents(r)[n + i] = r.buffer[CellOf(r, n + i)]
      BY <2>2, ContentsByCells
    <2> QED
      BY <1>3, <1>4, <2>1, <2>3
  <1>6. Contents(c) \in Seq(Bytes) /\ Len(Contents(c)) = k
    BY <1>1, ContentsByCells
  <1> HIDE DEF c, rest, k
  <1>7. Contents(c) = rest
    BY <1>2, <1>4, <1>5, <1>6, SameBytes
  <1> QED
    BY <1>7 DEF c, rest

\* RingBuffer_write's rewind leaves the unread bytes alone: there are none.
LEMMA RewoundContents ==
    ASSUME NEW r, Ordered(r)
    PROVE  Contents(Rewound(r)) = Contents(r)
  <1>1. CASE AvailableData(r) = 0
    <2>1. /\ Contents(r) \in Seq(Bytes) /\ Len(Contents(r)) = 0
          /\ Contents(Rewound(r)) \in Seq(Bytes) /\ Len(Contents(Rewound(r))) = 0
      BY <1>1, RewoundCorrect, ContentsByCells
    <2> QED
      BY <2>1, SameBytes
  <1>2. CASE AvailableData(r) # 0
    BY <1>2 DEF Rewound
  <1> QED
    BY <1>1, <1>2

\* The unread bytes lie before end, or from start on ...
LEMMA CellsUnread ==
    ASSUME NEW r, Ordered(r), NEW i \in 1 .. AvailableData(r)
    PROVE  /\ CellOf(r, i) \in 0 .. Length - 1
           /\ r.looped = 0 => CellOf(r, i) < r.end
           /\ r.looped = 1 => CellOf(r, i) < r.end \/ CellOf(r, i) >= r.start
  BY Fields DEF CellOf

\* ... and the free cells from end on, round the end of the array.
LEMMA CellsFree ==
    ASSUME NEW r, Ordered(r), NEW i \in AvailableData(r) + 1 .. Length,
           NEW j \in Int, i = AvailableData(r) + j
    PROVE  CellOf(r, i) = IF r.looped = 0 /\ r.end + j > Length THEN r.end + j - 1 - Length
                                                                ELSE r.end + j - 1
  BY Fields DEF CellOf

\* The ring of a write that fits holds the data in the cells behind the unread
\* bytes, which are left as they were.
StoredBehind(r, b, data) ==
    /\ \A i \in 1 .. AvailableData(r) : b[CellOf(r, i)] = r.buffer[CellOf(r, i)]
    /\ \A j \in 1 .. Len(data) : b[CellOf(r, AvailableData(r) + j)] = data[j]

\* In one piece ...
LEMMA StoredWhole ==
    ASSUME NEW r, Ordered(r), NEW data, NEW n \in Nat, Len(data) = n,
           Fits(r, n), ~Splits(r, n)
    PROVE  StoredBehind(r, Store(r.buffer, r.end, data), data)
  <1> DEFINE b == Store(r.buffer, r.end, data)
  <1>1. n <= AvailableSpace(r) /\ AvailableSpace(r) \in Nat
    BY Fields DEF Fits, AvailableSpace
  <1>2. /\ r.end \in Nat /\ r.end + n <= Length
        /\ r.looped \in {0, 1} /\ (r.looped = 1 => r.end + n <= r.start)
    BY Fields DEF Fits, AvailableSpace, Splits
  <1>3. ASSUME NEW i \in 1 .. AvailableData(r) PROVE b[CellOf(r, i)] = r.buffer[CellOf(r, i)]
    <2> DEFINE c == CellOf(r, i)
    <2>1. c \in 0 .. Length - 1 /\ (c < r.end \/ (r.looped = 1 /\ c >= r.start))
      BY <1>2, CellsUnread
    <2> HIDE DEF c
    <2>2. c < r.end \/ c >= r.end + n
      BY <1>2, <2>1, Fields
    <2>3. b[c] = r.buffer[c]
      BY <1>2, <2>1, <2>2, LengthAssumption DEF Store, Cell
    <2> QED
      BY <2>3 DEF c
  <1>4. ASSUME NEW j \in 1 .. n PROVE b[CellOf(r, AvailableData(r) + j)] = data[j]
    <2> DEFINE c == CellOf(r, AvailableData(r) + j)
    <2>1. AvailableData(r) + j \in AvailableData(r) + 1 .. Length /\ r.end + j <= Length
      BY <1>1, <1>2, Fields DEF AvailableSpace
    <2>2. c = r.end + j - 1
      BY <2>1, <1>2, CellsFree, LengthAssumption
    <2>3. c \in 0 .. Length - 1
      BY <1>2, <2>1, <2>2, LengthAssumption
    <2>4. c >= r.end /\ c < r.end + n /\ c - r.end + 1 = j
      BY <1>2, <2>2
    <2> HIDE DEF c
    <2>5. b[c] = data[j]
      BY <1>2, <2>3, <2>4, LengthAssumption DEF Store, Cell
    <2> QED
      BY <2>5 DEF c
  <1> QED
    BY <1>3, <1>4 DEF StoredBehind

\* Two stores in a row, the first up to the end of the array and the second
\* from its beginning on, leave the cells between them alone.
TwoStores(s, b, at, back, front) ==
    /\ \A c \in Cell : Len(front) <= c /\ c < at => s[c] = b[c]
    /\ \A j \in 1 .. Len(back) : s[at + j - 1] = back[j]
    /\ \A k \in 1 .. Len(front) : s[k - 1] = front[k]

LEMMA StoreTwice ==
    ASSUME NEW b, NEW at \in Nat, NEW tail \in Nat, NEW m \in Nat,
           at + tail = Length, m <= at, NEW back, NEW front,
           Len(back) = tail, Len(front) = m
    PROVE  TwoStores(Store(Store(b, at, back), 0, front), b, at, back, front)
  <1> DEFINE a == Store(b, at, back)
             s == Store(a, 0, front)
  <1>0. Length \in Nat
    BY LengthAssumption
  <1>1. ASSUME NEW c \in Cell, m <= c, c < at PROVE s[c] = b[c]
    <2>1. ~(c >= at) /\ ~(c < 0 + m)
      <3>1. c \in Int
        BY <1>0 DEF Cell
      <3> QED
        BY <1>1, <3>1
    <2>2. a[c] = b[c]
      BY <2>1 DEF Store
    <2> HIDE DEF a
    <2>3. s[c] = a[c]
      BY <2>1 DEF Store
    <2> QED
      BY <2>2, <2>3
  <1>2. ASSUME NEW j \in 1 .. tail PROVE s[at + j - 1] = back[j]
    <2> DEFINE c == at + j - 1
    <2>1. c \in Cell /\ c >= at /\ c < at + tail /\ c - at + 1 = j /\ ~(c < 0 + m)
      BY <1>0 DEF Cell
    <2> HIDE DEF c
    <2>2. a[c] = back[j]
      BY <2>1 DEF Store
    <2> HIDE DEF a
    <2>3. s[c] = a[c]
      BY <2>1 DEF Store
    <2> QED
      BY <2>2, <2>3 DEF c
  <1>3. ASSUME NEW k \in 1 .. m PROVE s[k - 1] = front[k]
    <2> DEFINE c == k - 1
    <2>1. c \in Cell /\ c >= 0 /\ c < 0 + m /\ c - 0 + 1 = k
      BY <1>0 DEF Cell
    <2> HIDE DEF c, a
    <2>2. s[c] = front[k]
      BY <2>1 DEF Store
    <2> QED
      BY <2>2 DEF c
  <1> QED
    BY <1>1, <1>2, <1>3 DEF TwoStores

\* ... or in two: "back" up to the end of the array, "front" from its
\* beginning on.
Pieces(data, back, front, tail, m) ==
    /\ Len(data) = tail + m /\ Len(back) = tail /\ Len(front) = m
    /\ \A j \in 1 .. tail : back[j] = data[j]
    /\ \A k \in 1 .. m : front[k] = data[tail + k]

LEMMA StoredInTwo ==
    ASSUME NEW r, Ordered(r), r.looped = 0,
           NEW tail \in Nat, NEW m \in Nat, r.end + tail = Length, m <= r.start,
           NEW data, NEW back, NEW front, Pieces(data, back, front, tail, m)
    PROVE  StoredBehind(r, Store(Store(r.buffer, r.end, back), 0, front), data)
  <1> DEFINE b == Store(Store(r.buffer, r.end, back), 0, front)
             u == AvailableData(r)
  <1>1. /\ r.end \in Nat /\ r.start \in Nat /\ u \in Nat /\ Length \in Nat
        /\ r.start + u = r.end /\ m <= r.end /\ r.end + tail = Length
    BY Fields
  <1>2. Len(back) = tail /\ Len(front) = m
    BY DEF Pieces
  <1> HIDE DEF u
  <1>3. /\ \A c \in Cell : m <= c /\ c < r.end => b[c] = r.buffer[c]
        /\ \A j \in 1 .. tail : b[r.end + j - 1] = back[j]
        /\ \A k \in 1 .. m : b[k - 1] = front[k]
    <2>1. TwoStores(b, r.buffer, r.end, back, front)
      BY <1>1, <1>2, StoreTwice
    <2> HIDE DEF b
    <2> QED
      BY <1>2, <2>1 DEF TwoStores
  <1> HIDE DEF b
  <1>4. ASSUME NEW i \in 1 .. u PROVE b[CellOf(r, i)] = r.buffer[CellOf(r, i)]
    <2>1. CellOf(r, i) \in Cell /\ m <= CellOf(r, i) /\ CellOf(r, i) < r.end
      BY <1>1 DEF CellOf, Cell
    <2> QED
      BY <1>3, <2>1
  <1>5. ASSUME NEW j \in 1 .. tail PROVE b[CellOf(r, u + j)] = back[j]
    <2>1. CellOf(r, u + j) = r.end + j - 1
      BY <1>1 DEF CellOf
    <2> QED
      BY <1>3, <2>1
  <1>6. ASSUME NEW k \in 1 .. m PROVE b[CellOf(r, u + (tail + k))] = front[k]
    <2>1. CellOf(r, u + (tail + k)) = k - 1
      BY <1>1 DEF CellOf
    <2> QED
      BY <1>3, <2>1
  <1>7. ASSUME NEW j \in 1 .. Len(data) PROVE b[CellOf(r, u + j)] = data[j]
    <2>1. CASE j <= tail
      BY <1>5, <2>1 DEF Pieces
    <2>2. CASE j > tail
      <3>1. j - tail \in 1 .. m /\ tail + (j - tail) = j
        BY <2>2 DEF Pieces
      <3> QED
        BY <1>6, <3>1 DEF Pieces
    <2> QED
      BY <2>1, <2>2 DEF Pieces
  <1> QED
    BY <1>4, <1>7 DEF StoredBehind, u, b

\* The two pieces RingBuffer_write cuts its data into.
LEMMA PiecesOfData ==
    ASSUME NEW data \in Seq(Byte), NEW tail \in Nat, NEW m \in Nat, Len(data) = tail + m
    PROVE  Pieces(data, SubSeq(data, 1, tail), SubSeq(data, tail + 1, Len(data)), tail, m)
  <1>1. \A j \in 1 .. Len(data) : data[j] \in Byte
    BY ElementOfSeq
  <1>2. /\ Len(SubSeq(data, 1, tail)) = tail
        /\ \A j \in 1 .. tail : SubSeq(data, 1, tail)[j] = data[j]
    BY <1>1, SubSeqProperties
  <1>3. /\ Len(SubSeq(data, tail + 1, Len(data))) = m
        /\ \A k \in 1 .. m : SubSeq(data, tail + 1, Len(data))[k] = data[tail + k]
    BY <1>1, SubSeqProperties
  <1> QED
    BY <1>2, <1>3 DEF Pieces

\* Bytes stored behind the unread ones and committed are appended to them.
LEMMA BehindIsAppend ==
    ASSUME NEW r, Ordered(r), NEW w, Ordered(w), NEW data \in Seq(Byte),
           w.start = r.start, AvailableData(w) = AvailableData(r) + Len(data),
           StoredBehind(r, w.buffer, data)
    PROVE  Contents(w) = Contents(r) \o data
  <1> DEFINE u == AvailableData(r)
             n == Len(data)
             c == Contents(r) \o data
             d == Contents(w)
  <1>1. u \in Nat /\ n \in Nat
    BY ContentsByCells, LenProperties
  <1>2. Contents(r) \in Seq(Bytes) /\ Len(Contents(r)) = u /\ data \in Seq(Bytes)
    BY ContentsByCells, SeqDef DEF Bytes
  <1>3. Joined(c, Contents(r), data, u, n)
    BY <1>1, <1>2, AppendByIndex
  <1>4. d \in Seq(Bytes) /\ Len(d) = u + n
    BY ContentsByCells
  <1>5. \A i : CellOf(w, i) = CellOf(r, i)
    BY DEF CellOf
  <1>6. \A i \in 1 .. u + n : d[i] = w.buffer[CellOf(r, i)]
    BY <1>5, ContentsByCells
  <1>7. \A i \in 1 .. u : w.buffer[CellOf(r, i)] = Contents(r)[i]
    BY ContentsByCells DEF StoredBehind
  <1>8. \A j \in 1 .. n : w.buffer[CellOf(r, u + j)] = data[j]
    BY DEF StoredBehind
  <1> HIDE DEF u, n, c, d
  <1>9. \A i \in 1 .. u + n : d[i] = c[i]
    <2>1. ASSUME NEW i \in 1 .. u PROVE d[i] = c[i]
      <3>1. i \in 1 .. u + n
        BY <1>1
      <3> QED
        BY <1>3, <1>6, <1>7, <3>1 DEF Joined
    <2>2. ASSUME NEW j \in 1 .. n PROVE d[u + j] = c[u + j]
      <3>1. u + j \in 1 .. u + n
        BY <1>1
      <3> QED
        BY <1>3, <1>6, <1>8, <3>1 DEF Joined
    <2>3. TAKE i \in 1 .. u + n
    <2>4. i \in 1 .. u \/ (i - u \in 1 .. n /\ u + (i - u) = i)
      BY <1>1
    <2> QED
      BY <2>1, <2>2, <2>4
  <1>10. u + n \in Nat
    BY <1>1
  <1> QED
    BY <1>3, <1>4, <1>9, <1>10, SameBytes DEF c, d, Joined

\* RingBuffer_write appends its data to the unread bytes.
LEMMA WrittenContents ==
    ASSUME NEW r, Ordered(r), NEW data \in Seq(Byte), Fits(r, Len(data))
    PROVE  Contents(Written(r, data)) = Contents(r) \o data
  <1> DEFINE n == Len(data)
             tail == Length - r.end
             m == n - tail
             stored == IF Splits(r, n)
                       THEN Store(Store(r.buffer, r.end, SubSeq(data, 1, tail)), 0,
                                  SubSeq(data, tail + 1, n))
                       ELSE Store(r.buffer, r.end, data)
             w == Written(r, data)
  <1>1. n \in Nat /\ n <= AvailableSpace(r) /\ Fits(r, n)
    BY LenProperties DEF Fits
  <1>2. StoredBehind(r, stored, data)
    <2>1. CASE Splits(r, n)
      <3>1. /\ r.looped = 0 /\ tail \in Nat /\ m \in Nat /\ r.end + tail = Length
            /\ n = tail + m
        BY <1>1, <2>1, Fields DEF Splits
      <3>2. m <= r.start
        BY <1>1, <2>1, Fields DEF AvailableSpace, Splits
      <3> HIDE DEF tail, m
      <3>3. Pieces(data, SubSeq(data, 1, tail), SubSeq(data, tail + 1, n), tail, m)
        BY <3>1, PiecesOfData, SMTT(20)
      <3> QED
        BY <2>1, <3>1, <3>2, <3>3, StoredInTwo
    <2>2. CASE ~Splits(r, n)
      BY <1>1, <2>2, StoredWhole
    <2> QED
      BY <2>1, <2>2
  <1>3. w.buffer = stored /\ w.start = r.start
    BY DEF Written, CommitWrite, Ring
  <1> HIDE DEF stored
  <1>4. Ordered(w) /\ AvailableData(w) = AvailableData(r) + n
    BY WrittenCorrect
  <1> HIDE DEF w
  <1>5. Contents(w) = Contents(r) \o data
    BY <1>2, <1>3, <1>4, BehindIsAppend
  <1> QED
    BY <1>5 DEF w

-----------------------------------------------------------------------------
(* The copies out of the ring *)

\* A copy that stays inside the allocation.
Copied(s, b, at, n) ==
    /\ s \in Seq(Bytes) /\ Len(s) = n
    /\ \A i \in 1 .. n : s[i] = b[at + i - 1]

LEMMA LoadInside ==
    ASSUME NEW b \in [Cell -> Bytes], NEW at \in Nat, NEW n \in Nat, at + n <= Length
    PROVE  Copied(Load(b, at, n), b, at, n)
  <1>1. ASSUME NEW i \in 1 .. n PROVE at + i - 1 \in Cell
    BY LengthAssumption DEF Cell
  <1>2. Load(b, at, n) = [i \in 1 .. n |-> b[at + i - 1]]
    BY <1>1 DEF Load
  <1> DEFINE l == Load(b, at, n)
  <1> HIDE DEF l
  <1>3. l \in [1 .. n -> Bytes]
    BY <1>1, <1>2 DEF l
  <1>4. l \in Seq(Bytes)
    BY <1>3, SeqDef
  <1>5. Len(l) = n
    BY <1>3, <1>4, LenProperties
  <1> QED
    BY <1>2, <1>4, <1>5 DEF l, Copied

\* A copy that does not: its front part is what a shorter copy would bring.
LEMMA LoadFront ==
    ASSUME NEW b \in [Cell -> Bytes], NEW at \in Nat, NEW n \in Nat, NEW k \in 0 .. n,
           at + k <= Length
    PROVE  SubSeq(Load(b, at, n), 1, k) = Load(b, at, k)
  <1> DEFINE l == Load(b, at, n)
             f == SubSeq(l, 1, k)
             g == Load(b, at, k)
  <1>1. k \in Nat /\ Copied(g, b, at, k)
    BY LoadInside
  <1>2. ASSUME NEW i \in 1 .. k PROVE l[i] = b[at + i - 1] /\ l[i] \in Bytes
    <2>1. at + i - 1 \in Cell /\ i \in 1 .. n
      BY LengthAssumption DEF Cell
    <2> QED
      BY <2>1 DEF Load
  <1> HIDE DEF l
  <1>3. f \in Seq(Bytes) /\ Len(f) = k /\ \A i \in 1 .. k : f[i] = l[i]
    BY <1>2, SubSeqProperties
  <1> HIDE DEF f, g
  <1>4. \A i \in 1 .. k : f[i] = g[i]
    BY <1>1, <1>2, <1>3 DEF Copied
  <1>5. f = g
    BY <1>1, <1>3, <1>4, SameBytes DEF Copied
  <1> QED
    BY <1>5 DEF f, g, l

\* The n oldest unread bytes.
LEMMA OldestBytes ==
    ASSUME NEW r, Ordered(r), NEW n \in Nat, n <= AvailableData(r)
    PROVE  /\ SubSeq(Contents(r), 1, n) \in Seq(Bytes)
           /\ Len(SubSeq(Contents(r), 1, n)) = n
           /\ \A i \in 1 .. n : SubSeq(Contents(r), 1, n)[i] = r.buffer[CellOf(r, i)]
  <1>1. \A i \in 1 .. AvailableData(r) :
            Contents(r)[i] \in Bytes /\ Contents(r)[i] = r.buffer[CellOf(r, i)]
    BY ContentsByCells, ElementOfSeq
  <1>2. \A i \in 1 .. n : i \in 1 .. AvailableData(r)
    BY ContentsByCells
  <1> DEFINE c == Contents(r)
  <1> HIDE DEF c
  <1> QED
    BY <1>1, <1>2, SubSeqProperties DEF c

\* They are one copy when they lie in one piece ...
LEMMA LoadContents ==
    ASSUME NEW r, Ordered(r), NEW n \in Nat, n <= AvailableData(r), r.start + n <= Length
    PROVE  Load(r.buffer, r.start, n) = SubSeq(Contents(r), 1, n)
  <1> DEFINE g == Load(r.buffer, r.start, n)
             h == SubSeq(Contents(r), 1, n)
  <1>1. r.buffer \in [Cell -> Bytes] /\ r.start \in Nat
    BY Fields
  <1>2. Copied(g, r.buffer, r.start, n)
    BY <1>1, LoadInside
  <1>3. h \in Seq(Bytes) /\ Len(h) = n /\ \A i \in 1 .. n : h[i] = r.buffer[CellOf(r, i)]
    BY OldestBytes
  <1>4. \A i \in 1 .. n : CellOf(r, i) = r.start + i - 1
    BY Fields DEF CellOf
  <1> HIDE DEF g, h
  <1>5. g = h
    BY <1>2, <1>3, <1>4, SameBytes DEF Copied
  <1> QED
    BY <1>5 DEF g, h

\* ... and two when they wrap.
LEMMA LoadWrapped ==
    ASSUME NEW r, Ordered(r), NEW tail \in Nat, NEW m \in Nat, r.start + tail = Length,
           tail + m <= AvailableData(r)
    PROVE  Load(r.buffer, r.start, tail) \o Load(r.buffer, 0, m)
               = SubSeq(Contents(r), 1, tail + m)
  <1> DEFINE f == Load(r.buffer, r.start, tail)
             g == Load(r.buffer, 0, m)
             c == f \o g
             h == SubSeq(Contents(r), 1, tail + m)
  <1>1. /\ r.buffer \in [Cell -> Bytes] /\ r.start \in Nat /\ Length \in Nat
        /\ r.start < Length /\ AvailableData(r) <= Length /\ AvailableData(r) \in Nat
    BY Fields
  <1>2. Copied(f, r.buffer, r.start, tail)
    BY <1>1, LoadInside
  <1>3. Copied(g, r.buffer, 0, m)
    <2>1. 0 + m <= Length /\ 0 \in Nat
      BY <1>1
    <2> QED
      BY <1>1, <2>1, LoadInside
  <1>4. /\ h \in Seq(Bytes) /\ Len(h) = tail + m
        /\ \A i \in 1 .. tail + m : h[i] = r.buffer[CellOf(r, i)]
    BY OldestBytes
  <1> HIDE DEF f, g, h
  <1>5. Joined(c, f, g, tail, m)
    <2>1. Len(f) = tail /\ Len(g) = m /\ f \in Seq(Bytes) /\ g \in Seq(Bytes)
      BY <1>2, <1>3 DEF Copied
    <2> QED
      BY <2>1, AppendByIndex
  <1> HIDE DEF c
  <1>6. ASSUME NEW i \in 1 .. tail PROVE h[i] = c[i]
    <2>1. CellOf(r, i) = r.start + i - 1 /\ i \in 1 .. tail + m
      BY <1>1 DEF CellOf
    <2> QED
      BY <1>2, <1>4, <1>5, <2>1 DEF Copied, Joined
  <1>7. ASSUME NEW j \in 1 .. m PROVE h[tail + j] = c[tail + j]
    <2>1. CellOf(r, tail + j) = 0 + j - 1 /\ tail + j \in 1 .. tail + m
      BY <1>1 DEF CellOf
    <2> QED
      BY <1>3, <1>4, <1>5, <2>1 DEF Copied, Joined
  <1>8. ASSUME NEW i \in 1 .. tail + m PROVE c[i] = h[i]
    <2>1. i \in 1 .. tail \/ (i - tail \in 1 .. m /\ tail + (i - tail) = i)
      OBVIOUS
    <2> QED
      BY <1>6, <1>7, <2>1
  <1>9. tail + m \in Nat
    OBVIOUS
  <1> QED
    BY <1>4, <1>5, <1>8, <1>9, SameBytes DEF c, f, g, h, Joined

\* RingBuffer_read copies the n oldest unread bytes, over the end or not.
LEMMA ReadBytesContents ==
    ASSUME NEW r, Ordered(r), NEW n \in Nat, n <= AvailableData(r)
    PROVE  ReadBytes(r, n) = SubSeq(Contents(r), 1, n)
  <1> DEFINE tail == Length - r.start
             m == n - tail
  <1>1. CASE r.looped = 1 /\ tail < n
    <2>1. /\ tail \in Nat /\ m \in Nat /\ r.start + tail = Length /\ n = tail + m
          /\ tail \in 0 .. n /\ r.start \in Nat /\ r.buffer \in [Cell -> Bytes]
      BY <1>1, Fields
    <2>2. ReadBytes(r, n)
            = SubSeq(Load(r.buffer, r.start, n), 1, tail) \o Load(r.buffer, 0, m)
      BY <1>1 DEF ReadBytes
    <2> HIDE DEF tail, m
    <2>3. r.start + tail <= Length
      BY <2>1, LengthAssumption
    <2>4. SubSeq(Load(r.buffer, r.start, n), 1, tail) = Load(r.buffer, r.start, tail)
      BY <2>1, <2>3, LoadFront
    <2> QED
      BY <2>1, <2>2, <2>4, LoadWrapped
  <1>2. CASE ~(r.looped = 1 /\ tail < n)
    <2>1. ReadBytes(r, n) = Load(r.buffer, r.start, n)
      BY <1>2 DEF ReadBytes
    <2>2. r.start + n <= Length
      BY <1>2, Fields
    <2> QED
      BY <2>1, <2>2, LoadContents
  <1> QED
    BY <1>1, <1>2

\* So does RingBuffer_gets, when those bytes lie before the end of a ring that
\* has not looped or are all those before the end of one that has.
LEMMA GetsBytesContents ==
    ASSUME NEW r, Ordered(r), NEW n \in Nat, n <= AvailableData(r),
           r.looped = 0 \/ n = Length - r.start
    PROVE  /\ GetsBytes(r, n) = SubSeq(Contents(r), 1, n)
           /\ Len(GetsBytes(r, n)) = n
  <1>1. GetsBytes(r, n) = Load(r.buffer, r.start, n)
    BY Fields DEF GetsBytes
  <1>2. r.start + n <= Length
    BY Fields
  <1> QED
    BY <1>1, <1>2, LoadContents, OldestBytes

\* RingBuffer_read's rewind leaves the other unread bytes where they are,
\* unless nothing was read of a full ring whose start is not 0.
LEMMA AfterReadContents ==
    ASSUME NEW r, Ordered(r), NEW n \in Nat, n <= AvailableData(r),
           ~(n = 0 /\ AvailableData(r) = Length /\ r.start > 0)
    PROVE  Contents(AfterRead(r, n)) = SubSeq(Contents(r), n + 1, AvailableData(r))
  <1> DEFINE c == CommitRead(r, n)
             a == AfterRead(r, n)
  <1>1. /\ Ordered(c) /\ AvailableData(c) = AvailableData(r) - n
        /\ Contents(c) = SubSeq(Contents(r), n + 1, AvailableData(r))
    BY CommitReadCorrect, CommitReadContents
  <1>2. a = IF c.end = c.start THEN Ring(0, 0, c.looped, c.buffer) ELSE c
    BY DEF AfterRead
  <1>3. Ordered(a) /\ AvailableData(a) = AvailableData(r) - n
    BY AfterReadCorrect
  <1>4. CASE c.end = c.start /\ AvailableData(c) = Length
    <2>1. n = 0 /\ AvailableData(r) = Length /\ r.start = 0
      BY <1>1, <1>4, Fields
    <2>2. c.start = 0
      BY <2>1, LengthAssumption DEF CommitRead, Ring
    <2> HIDE DEF c
    <2>3. c = [start |-> c.start, end |-> c.end, looped |-> c.looped, buffer |-> c.buffer]
      BY <1>1 DEF Ordered
    <2> HIDE DEF a
    <2>4. a = c
      BY <1>2, <1>4, <2>2, <2>3 DEF Ring
    <2> QED
      BY <1>1, <2>4 DEF a
  <1> HIDE DEF c, a
  <1>5. CASE c.end = c.start /\ AvailableData(c) # Length
    <2>1. AvailableData(c) = 0
      BY <1>1, <1>5, Fields
    <2>2. /\ Contents(a) \in Seq(Bytes) /\ Len(Contents(a)) = 0
          /\ Contents(c) \in Seq(Bytes) /\ Len(Contents(c)) = 0
      BY <1>1, <1>3, <2>1, ContentsByCells
    <2>3. Contents(a) = Contents(c)
      BY <2>2, SameBytes
    <2> QED
      BY <1>1, <2>3 DEF a
  <1>6. CASE c.end # c.start
    BY <1>1, <1>2, <1>6 DEF a
  <1> QED
    BY <1>4, <1>5, <1>6 DEF a

=============================================================================
