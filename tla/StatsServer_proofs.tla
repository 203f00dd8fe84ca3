------------------------- MODULE StatsServer_proofs -------------------------
(***************************************************************************)
(* For every number of slots, clients, scripts and ring sizes: one thread  *)
(* at a time is in process_request, the tree holds what the requests leave *)
(* in it one after the other, no recv is given more room than its ring     *)
(* has, and what a thread has processed are the bytes its client sent, in  *)
(* order.                                                                  *)
(***************************************************************************)
EXTENDS StatsServer, RingLayout_proofs

\* A thread about to store *root still knows whether there was one, because
\* no other thread can have stored one since it looked.
RootKnown == \A t \in Threads : At(t, "back") => hadRoot[t] = tree.root

\* Without a root there is no tree, so a tree of one's own loses nothing.
NoRootNoUrls == ~tree.root => tree.urls = {}

Located == DOMAIN pc = Threads
Asked == DOMAIN hadRoot = Threads

IInv == Located /\ Asked /\ MutualExclusion /\ Serialized /\ RootKnown /\ NoRootNoUrls

\* Goto(t, where) moves t and leaves every other thread where it is.
LEMMA GotoMoves ==
    ASSUME Located, NEW t \in Threads, NEW where, Goto(t, where)
    PROVE  /\ Located'
           /\ pc'[t] = where
           /\ \A u \in Threads \ {t} : pc'[u] = pc[u]
  BY DEF Located, Goto

\* A step outside the mutex touches nothing the invariant speaks of.
LEMMA OutsideStep ==
    ASSUME IInv, NEW t \in Threads, NEW where, Goto(t, where),
           ~InProcess(t), where \notin {"call", "back", "unlock"}, UNCHANGED shared
    PROVE  IInv'
  <1>1. /\ Located'
        /\ pc'[t] = where
        /\ \A u \in Threads \ {t} : pc'[u] = pc[u]
    BY GotoMoves DEF IInv
  <1> QED
    BY <1>1 DEF IInv, Asked, MutualExclusion, Serialized, RootKnown, NoRootNoUrls,
                InProcess, At, shared

LEMMA CreateThreadStep == ASSUME IInv, NEW t \in Threads, CreateThread(t) PROVE IInv'
  BY OutsideStep DEF CreateThread, InProcess, At

LEMMA AcceptStep == ASSUME IInv, NEW t \in Threads, Accept(t) PROVE IInv'
  BY OutsideStep DEF Accept, InProcess, At

LEMMA ReadSomeStep == ASSUME IInv, NEW t \in Threads, ReadSome(t) PROVE IInv'
  <1>1. ~InProcess(t) /\ UNCHANGED shared
    BY DEF ReadSome, InProcess, At
  <1>2. PICK where \in {"recv2", "getall"} : Goto(t, where)
    BY DEF ReadSome
  <1> QED
    BY <1>1, <1>2, OutsideStep

LEMMA ReadMoreStep == ASSUME IInv, NEW t \in Threads, ReadMore(t) PROVE IInv'
  BY OutsideStep DEF ReadMore, InProcess, At

LEMMA GetAllStep == ASSUME IInv, NEW t \in Threads, GetAll(t) PROVE IInv'
  BY OutsideStep DEF GetAll, InProcess, At

LEMMA SendStep == ASSUME IInv, NEW t \in Threads, Send(t) PROVE IInv'
  <1>1. ~InProcess(t) /\ UNCHANGED shared
    BY DEF Send, InProcess, At
  <1>2. PICK where \in {"done", "recv"} : Goto(t, where)
    BY DEF Send
  <1> QED
    BY <1>1, <1>2, OutsideStep

\* Taking the free mutex: nobody else was in process_request.
LEMMA LockStep == ASSUME IInv, NEW t \in Threads, Lock(t) PROVE IInv'
  <1>1. /\ Located' /\ pc'[t] = "call"
        /\ \A u \in Threads \ {t} : pc'[u] = pc[u]
    BY GotoMoves DEF IInv, Lock
  <1>2. \A u \in Threads : ~InProcess(u)
    BY NoneAssumption DEF IInv, MutualExclusion, Lock, LockFree
  <1>3. MutualExclusion'
    BY <1>1, <1>2 DEF MutualExclusion, InProcess, Lock
  <1>4. RootKnown'
    BY <1>1, <1>2 DEF RootKnown, InProcess, At, Lock
  <1> QED
    BY <1>1, <1>3, <1>4 DEF IInv, Asked, Serialized, NoRootNoUrls, Lock

\* Looking at *root.
LEMMA CallStep == ASSUME IInv, NEW t \in Threads, Call(t) PROVE IInv'
  <1>1. /\ Located' /\ pc'[t] = "back" /\ pc[t] = "call"
        /\ \A u \in Threads \ {t} : pc'[u] = pc[u]
    BY GotoMoves DEF IInv, Call, At
  <1>2. Asked' /\ hadRoot'[t] = tree.root /\ \A u \in Threads \ {t} : hadRoot'[u] = hadRoot[u]
    BY DEF IInv, Asked, Call
  <1>3. MutualExclusion'
    BY <1>1 DEF IInv, MutualExclusion, InProcess, Call
  <1>4. RootKnown'
    BY <1>1, <1>2 DEF IInv, RootKnown, At, Call
  <1> QED
    BY <1>1, <1>2, <1>3, <1>4 DEF IInv, Serialized, NoRootNoUrls, Call

\* Storing *root: only the holder is in process_request, so what it saw is
\* what is there, and the request acts on the tree as on the serial one.
LEMMA BackStep == ASSUME IInv, NEW t \in Threads, Back(t) PROVE IInv'
  <1>1. /\ Located' /\ pc'[t] = "unlock" /\ pc[t] = "back"
        /\ \A u \in Threads \ {t} : pc'[u] = pc[u]
    BY GotoMoves DEF IInv, Back, At
  <1>2. \A u \in Threads \ {t} : ~InProcess(u)
    BY <1>1 DEF IInv, MutualExclusion, InProcess
  <1>3. PICK r : /\ tree' = [root |-> tree.root \/ r.op = "create",
                             urls |-> Applied(r, hadRoot[t], tree.urls)]
                 /\ serial' = Applied(r, TRUE, serial)
    BY DEF Back
  <1>4. hadRoot[t] = tree.root
    BY <1>1 DEF IInv, RootKnown, At
  <1>5. Serialized'
    <2>1. CASE tree.root
      BY <2>1, <1>3, <1>4 DEF IInv, Serialized, Applied
    <2>2. CASE ~tree.root
      BY <2>2, <1>3, <1>4 DEF IInv, Serialized, NoRootNoUrls, Applied
    <2> QED
      BY <2>1, <2>2
  <1>6. NoRootNoUrls'
    BY <1>3 DEF IInv, NoRootNoUrls, Applied
  <1>7. MutualExclusion'
    BY <1>1 DEF IInv, MutualExclusion, InProcess, Back
  <1>8. RootKnown'
    BY <1>1, <1>2 DEF RootKnown, InProcess, At
  <1> QED
    BY <1>1, <1>5, <1>6, <1>7, <1>8 DEF IInv, Asked, Back

LEMMA UnlockStep == ASSUME IInv, NEW t \in Threads, Unlock(t) PROVE IInv'
  <1>1. /\ Located' /\ pc'[t] = "send" /\ pc[t] = "unlock"
        /\ \A u \in Threads \ {t} : pc'[u] = pc[u]
    BY GotoMoves DEF IInv, Unlock, At
  <1>2. \A u \in Threads \ {t} : ~InProcess(u)
    BY <1>1 DEF IInv, MutualExclusion, InProcess
  <1>3. MutualExclusion'
    BY <1>1, <1>2, NoneAssumption DEF MutualExclusion, InProcess, Unlock
  <1>4. RootKnown'
    BY <1>1 DEF IInv, RootKnown, At, Unlock
  <1> QED
    BY <1>1, <1>3, <1>4 DEF IInv, Asked, Serialized, NoRootNoUrls, Unlock

\* Steps of main's joins, of the clients and of the network.
LEMMA OtherSteps == ASSUME IInv, UNCHANGED <<pc, shared>> PROVE IInv'
  BY DEF IInv, Located, Asked, MutualExclusion, Serialized, RootKnown, NoRootNoUrls, InProcess, At,
         shared

LEMMA IInvInductive == IInv /\ [Next]_vars => IInv'
  <1> SUFFICES ASSUME IInv, [Next]_vars PROVE IInv'
    OBVIOUS
  <1>1. CASE UNCHANGED vars
    BY <1>1, OtherSteps DEF vars
  <1>2. ASSUME NEW t \in Threads, Work(t) PROVE IInv'
    BY <1>2, AcceptStep, ReadSomeStep, ReadMoreStep, GetAllStep, LockStep, CallStep,
       BackStep, UnlockStep, SendStep DEF Work
  <1>3. ASSUME NEW t \in Threads, Main(t) PROVE IInv'
    BY <1>3, CreateThreadStep, OtherSteps DEF Main, Join
  <1>4. ASSUME NEW t \in Threads, AcceptFails(t) PROVE IInv'
    BY <1>4, OtherSteps DEF AcceptFails
  <1>5. ASSUME NEW c \in Clients, Client(c) \/ DeliverReset(c) PROVE IInv'
    BY <1>5, OtherSteps
       DEF Client, Connect, SendRequest, Abort, Finish, DeliverReset, Peer
  <1> QED
    BY <1>1, <1>2, <1>3, <1>4, <1>5 DEF Next

LEMMA InitIInv == Init => IInv
  BY NoneAssumption
     DEF Init, IInv, Located, Asked, MutualExclusion, Serialized, RootKnown, NoRootNoUrls,
         InProcess, At

LEMMA IInvAlways == Spec => []IInv
  BY InitIInv, IInvInductive, PTL DEF Spec

\* Between pthread_mutex_lock and pthread_mutex_unlock of client_process there
\* is one thread, the holder.
THEOREM AlwaysMutualExclusion == Spec => []MutualExclusion
  BY IInvAlways, PTL DEF IInv

\* No create is lost: the tree is what the requests leave one after the other.
THEOREM AlwaysSerialized == Spec => []Serialized
  BY IInvAlways, PTL DEF IInv

-----------------------------------------------------------------------------
(* The rings.  A thread's ring is empty and not looped whenever it calls recv *)
(* for the first time in read_some, because get_all takes everything; only   *)
(* the -1 of a failed recv breaks that, and then the connection is reset and *)
(* the next send ends the loop.                                              *)

Idle == {"new", "accept"}
Reading == {"recv", "recv2", "getall"}
Answering == {"lock", "call", "back", "unlock", "send"}

Clean(r) == r.looped = 0 /\ r.end = r.start

\* What the -1 of a failed recv makes of a ring.
MovedBack(r) == \/ r.looped = 0 /\ r.end = r.start - 1
                \/ r.looped = 1 /\ r.end = -1

InOrder(r) == IF r.looped = 0 THEN r.start <= r.end ELSE 0 <= r.end /\ r.end <= r.start

RingTyped(r) == r.start \in Cell /\ r.end \in -1 .. Length - 1 /\ r.looped \in {0, 1}

\* The ring of a thread that is at "at".
RingOK(at, r) ==
    /\ RingTyped(r)
    /\ at \in Idle \cup {"recv"} => Clean(r)
    /\ at = "recv2" => r.looped = 1 /\ r.end = 0
    /\ at = "getall" => InOrder(r) \/ MovedBack(r)
    /\ at \in Answering => Clean(r) \/ MovedBack(r)

\* The cells from start up to end, or up to the end of the array, hold the
\* bytes of the stream that follow the first "taken" ones.
CellsInStep(r, taken) ==
    \A c \in Cell : c >= r.start /\ (r.looped = 1 \/ c < r.end)
                        => r.buffer[c] = taken + (c - r.start) + 1

\* The data get_all gave are the last bytes taken, or junk.
DataInStep(data, taken) ==
    data # None => \A i \in DOMAIN data : data[i] \in {taken - Len(data) + i, Junk}

\* Thread x and its peer p agree on what has been received and taken.
StreamOK(at, x, p) ==
    /\ at \in Reading /\ ~MovedBack(x.rb) => x.taken + AvailableData(x.rb) = p.rcvd
    /\ at \in Answering /\ ~MovedBack(x.rb) => x.taken = p.rcvd
    /\ at \in Reading => CellsInStep(x.rb, x.taken)
    /\ at = "lock" => DataInStep(x.data, x.taken)
    /\ at \in Reading \cup Answering /\ MovedBack(x.rb) => p.reset /\ p.err = "none"

Errors == {"none", "ECONNRESET", "EPIPE"}

\* A pending error means a reset, and only a client that is gone is reset or
\* can be: an error is not raised twice.
PeerOK(p) ==
    /\ DOMAIN p = {"state", "sent", "rcvd", "fin", "reset", "err", "poked"}
    /\ p.err \in Errors
    /\ p.sent \in Nat /\ p.rcvd \in Nat /\ p.rcvd <= p.sent
    /\ p.err # "none" => p.reset
    /\ p.reset => p.state = "gone"
    /\ p.poked => p.state = "gone"

\* Thread x at "at", with the clients' ends ps.
ThreadOK(at, x, ps) ==
    /\ DOMAIN x = {"conn", "rb", "data", "errno", "taken"}
    /\ x.taken \in Nat /\ x.errno \in Errors
    /\ at \in Idle \cup Reading \cup Answering \cup {"done"}
    /\ RingOK(at, x.rb)
    /\ at \in Idle => x.conn = None /\ x.taken = 0
    /\ at \notin Idle => x.conn \in Clients \ {None} /\ StreamOK(at, x, ps[x.conn])

RInv ==
    /\ Located /\ DOMAIN th = Threads /\ DOMAIN peer = Clients
    /\ \A c \in Clients : PeerOK(peer[c])
    /\ \A t \in Threads : ThreadOK(pc[t], th[t], peer)
    /\ \A t, u \in Threads : t # u /\ th[t].conn = th[u].conn => th[t].conn = None
    /\ \A c \in Clients : (\A t \in Threads : th[t].conn # c) => peer[c].rcvd = 0

\* A copy of n cells has length n, wherever it reaches.
LEMMA LoadLength ==
    ASSUME NEW b, NEW at, NEW n \in Nat
    PROVE  Len(Load(b, at, n)) = n /\ DOMAIN Load(b, at, n) = 1 .. n
  <1> DEFINE l == Load(b, at, n)
             S == {l[i] : i \in 1 .. n}
  <1>1. l = [i \in 1 .. n |-> l[i]]
    BY DEF Load
  <1> HIDE DEF l
  <1>2. l \in [1 .. n -> S]
    BY <1>1
  <1>3. l \in Seq(S)
    BY <1>2, SeqDef
  <1>4. Len(l) = n
    BY <1>2, <1>3, LenProperties
  <1> QED
    BY <1>1, <1>4 DEF l

\* The first recv of read_some, into a clean ring.
LEMMA FirstRecv ==
    ASSUME NEW r, RingTyped(r), Clean(r), NEW k \in -1 .. Length - r.end, NEW b, NEW q,
           q = CommitWrite(Ring(r.start, r.end, r.looped, b), k)
    PROVE  /\ RingTyped(q) /\ q.start = r.start /\ q.buffer = b
           /\ IF k = -1 THEN MovedBack(q) /\ q.looped = 0
              ELSE /\ ~MovedBack(q)
                   /\ AvailableData(q) = k
                   /\ IF k = Length - r.end THEN q.looped = 1 /\ q.end = 0
                                            ELSE q.looped = 0 /\ q.end = r.end + k
  <1>1. Length \in Nat /\ Length > 0 /\ r.start \in Nat /\ r.start < Length
    BY LengthAssumption DEF RingTyped, Cell
  <1>2. CASE k = Length - r.end
    <2>1. r.end + k = Length /\ Length % Length = 0
      BY <1>1, <1>2, WrapOnce DEF Clean
    <2>2. q = Ring(r.start, 0, 1, b)
      BY <1>1, <2>1 DEF CommitWrite, Ring
    <2> QED
      BY <1>1, <1>2, <2>2 DEF Ring, RingTyped, MovedBack, Clean, AvailableData, Cell
  <1>3. CASE k # Length - r.end
    <2>1. q = Ring(r.start, r.end + k, 0, b) /\ r.end + k < Length
      BY <1>1, <1>3 DEF CommitWrite, Ring, Clean
    <2> QED
      BY <1>1, <1>3, <2>1 DEF Ring, RingTyped, MovedBack, Clean, AvailableData, Cell
  <1> QED
    BY <1>2, <1>3

\* The second one, into the front of the array.
LEMMA SecondRecv ==
    ASSUME NEW r, RingTyped(r), r.looped = 1, r.end = 0, NEW k \in -1 .. r.start, NEW b,
           NEW q, q = CommitWrite(Ring(r.start, r.end, r.looped, b), k)
    PROVE  /\ RingTyped(q) /\ q.start = r.start /\ q.buffer = b /\ q.looped = 1 /\ q.end = k
           /\ IF k = -1 THEN MovedBack(q)
              ELSE /\ ~MovedBack(q) /\ InOrder(q)
                   /\ AvailableData(q) = AvailableData(r) + k
  <1>1. Length \in Nat /\ Length > 0 /\ r.start \in Nat /\ r.start < Length
    BY LengthAssumption DEF RingTyped, Cell
  <1>2. q = Ring(r.start, k, 1, b)
    BY <1>1 DEF CommitWrite, Ring
  <1> QED
    BY <1>1, <1>2 DEF Ring, RingTyped, MovedBack, InOrder, AvailableData, Cell

\* get_all on a ring with unread bytes: what it copies, and the ring after it.
LEMMA GetAllTakes ==
    ASSUME NEW r, RingTyped(r), InOrder(r) \/ MovedBack(r),
           NEW n, n = AvailableData(r), n > 0, NEW taken \in Nat, CellsInStep(r, taken)
    PROVE  \E m \in Nat :
             /\ m > 0 /\ Len(GetsBytes(r, n)) = m /\ DOMAIN GetsBytes(r, n) = 1 .. m
             /\ \A i \in 1 .. m : GetsBytes(r, n)[i] \in {taken + i, Junk}
             /\ RingTyped(CommitRead(r, n))
             /\ IF MovedBack(r) THEN MovedBack(CommitRead(r, n))
                                ELSE m = n /\ Clean(CommitRead(r, n))
  <1> DEFINE tail == Length - r.start
             m == IF r.looped = 1 /\ n < tail THEN tail ELSE n
             d == GetsBytes(r, n)
             q == CommitRead(r, n)
  <1>1. /\ Length \in Nat /\ Length > 0 /\ r.start \in Nat /\ r.start < Length
        /\ r.end \in Int /\ r.end >= -1 /\ r.end < Length
    BY LengthAssumption DEF RingTyped, Cell
  <1>2. \/ r.looped = 0 /\ n = r.end - r.start /\ ~MovedBack(r)
        \/ r.looped = 1 /\ n = Length + r.end - r.start /\ r.end >= 0 /\ ~MovedBack(r)
        \/ r.looped = 1 /\ n = Length - 1 - r.start /\ r.end = -1 /\ MovedBack(r)
    BY <1>1 DEF RingTyped, InOrder, MovedBack, AvailableData
  <1>3. n \in Nat /\ m \in Nat /\ m > 0 /\ (~MovedBack(r) => m = n)
    BY <1>1, <1>2
  <1>4. d = Load(r.buffer, r.start, m)
    BY DEF GetsBytes
  <1>5. r.looped = 0 => r.start + m = r.end
    BY <1>1, <1>2
  <1>6. RingTyped(q) /\ IF MovedBack(r) THEN MovedBack(q) ELSE Clean(q)
    <2>1. CASE r.looped = 0
      <3>1. r.start + n = r.end /\ ~MovedBack(r)
        BY <1>1, <1>2, <2>1
      <3>2. q = Ring(r.end, r.end, 0, r.buffer)
        BY <1>1, <2>1, <3>1 DEF CommitRead
      <3> QED
        BY <1>1, <1>3, <3>1, <3>2 DEF Ring, RingTyped, Clean, Cell
    <2>2. CASE r.looped = 1 /\ r.end >= 0
      <3>1. r.start + n = Length + r.end /\ ~MovedBack(r) /\ Length + r.end \in Nat
            /\ Length + r.end >= Length /\ Length + r.end < 2 * Length
        BY <1>1, <1>2, <2>2
      <3>2. (Length + r.end) % Length = r.end
        BY <1>1, <3>1, WrapOnce
      <3>3. q = Ring(r.end, r.end, 0, r.buffer)
        BY <3>1, <3>2 DEF CommitRead
      <3> QED
        BY <1>1, <2>2, <3>1, <3>3 DEF Ring, RingTyped, Clean, Cell
    <2>3. CASE r.looped = 1 /\ r.end = -1
      <3>1. r.start + n = Length - 1 /\ MovedBack(r) /\ ~(Length - 1 >= Length)
        BY <1>1, <1>2, <2>3
      <3>2. q = Ring(Length - 1, -1, 1, r.buffer)
        BY <2>3, <3>1 DEF CommitRead
      <3> QED
        BY <1>1, <3>1, <3>2 DEF Ring, RingTyped, MovedBack, Cell
    <2> QED
      BY <1>1, <1>2, <2>1, <2>2, <2>3
  <1> HIDE DEF d, q, m
  <1>7. ASSUME NEW i \in 1 .. m PROVE d[i] \in {taken + i, Junk}
    <2> DEFINE c == r.start + i - 1
    <2>1. d[i] = IF c \in Cell THEN r.buffer[c] ELSE Junk
      BY <1>4 DEF Load
    <2>2. /\ c \in Int /\ c >= r.start /\ taken + (c - r.start) + 1 = taken + i
          /\ (r.looped = 0 => c < r.end)
      BY <1>1, <1>3, <1>5
    <2>3. r.looped \in {0, 1}
      BY DEF RingTyped
    <2> HIDE DEF c
    <2> QED
      BY <2>1, <2>2, <2>3 DEF CellsInStep
  <1>8. Len(d) = m /\ DOMAIN d = 1 .. m
    BY <1>3, <1>4, LoadLength
  <1> QED
    BY <1>3, <1>6, <1>7, <1>8 DEF d, q

-----------------------------------------------------------------------------
(* A thread's step leaves the other threads and the ends of their clients as *)
(* they were; a client's step takes nothing a thread has received.           *)

LEMMA ThreadStep ==
    ASSUME RInv, NEW t \in Threads, NEW where, Goto(t, where),
           DOMAIN th' = Threads, \A u \in Threads \ {t} : th'[u] = th[u],
           th'[t].conn = th[t].conn,
           DOMAIN peer' = Clients, \A c \in Clients : c # th[t].conn => peer'[c] = peer[c],
           \A c \in Clients : PeerOK(peer'[c]),
           ThreadOK(where, th'[t], peer')
    PROVE  RInv'
  <1>1. Located' /\ pc'[t] = where /\ \A u \in Threads \ {t} : pc'[u] = pc[u]
    BY GotoMoves DEF RInv
  <1>2. ASSUME NEW u \in Threads \ {t} PROVE ThreadOK(pc'[u], th'[u], peer')
    <2>1. ThreadOK(pc[u], th[u], peer) /\ pc'[u] = pc[u] /\ th'[u] = th[u]
      BY <1>1 DEF RInv
    <2>2. pc[u] \notin Idle => th[u].conn \in Clients /\ th[u].conn # th[t].conn
      BY <2>1 DEF RInv, ThreadOK
    <2>3. pc[u] \notin Idle => peer'[th[u].conn] = peer[th[u].conn]
      BY <2>2
    <2> QED
      BY <2>1, <2>3 DEF ThreadOK
  <1>3. \A u \in Threads : ThreadOK(pc'[u], th'[u], peer') /\ th'[u].conn = th[u].conn
    BY <1>1, <1>2
  <1>4. \A u, v \in Threads : u # v /\ th'[u].conn = th'[v].conn => th'[u].conn = None
    BY <1>3 DEF RInv
  <1>5. \A c \in Clients : (\A u \in Threads : th'[u].conn # c) => peer'[c].rcvd = 0
    BY <1>3 DEF RInv
  <1> QED
    BY <1>1, <1>3, <1>4, <1>5 DEF RInv

LEMMA PeerStep ==
    ASSUME RInv, NEW c \in Clients, NEW p, Peer(c, p), PeerOK(p), p.rcvd = peer[c].rcvd,
           peer[c].reset => p.reset /\ (peer[c].err = "none" => p.err = "none")
    PROVE  RInv'
  <1>1. /\ pc' = pc /\ th' = th /\ DOMAIN peer' = Clients /\ peer'[c] = p
        /\ \A d \in Clients \ {c} : peer'[d] = peer[d]
    BY DEF Peer, RInv
  <1>2. ASSUME NEW t \in Threads PROVE ThreadOK(pc[t], th[t], peer')
    <2>1. ThreadOK(pc[t], th[t], peer)
      BY DEF RInv
    <2>2. CASE th[t].conn = c
      <3>1. pc[t] \notin Idle => StreamOK(pc[t], th[t], p)
        BY <2>1, <2>2 DEF ThreadOK, StreamOK
      <3> QED
        BY <1>1, <2>1, <2>2, <3>1 DEF ThreadOK
    <2>3. CASE th[t].conn # c
      BY <1>1, <2>1, <2>3 DEF ThreadOK
    <2> QED
      BY <2>2, <2>3
  <1>3. \A d \in Clients : PeerOK(peer'[d]) /\ peer'[d].rcvd = peer[d].rcvd
    BY <1>1 DEF RInv
  <1> QED
    BY <1>1, <1>2, <1>3 DEF RInv, Located

\* What a working thread has: its client's end, and an agreement on the stream.
LEMMA Connected ==
    ASSUME RInv, NEW t \in Threads, pc[t] \notin Idle
    PROVE  /\ th[t].conn \in Clients /\ PeerOK(peer[th[t].conn])
           /\ ThreadOK(pc[t], th[t], peer) /\ RingOK(pc[t], th[t].rb)
           /\ StreamOK(pc[t], th[t], peer[th[t].conn])
  BY DEF RInv, ThreadOK

-----------------------------------------------------------------------------
(* The steps of a thread *)

\* The new thread's first step, and the ones under the mutex.
LEMMA QuietStep ==
    ASSUME RInv, NEW t \in Threads, NEW where, Goto(t, where), peer' = peer,
           \/ pc[t] = "new" /\ where = "accept"
           \/ pc[t] \in Answering /\ where \in Answering \ {"lock"},
           \/ th' = th
           \/ th' = [th EXCEPT ![t].errno = "none"]
    PROVE  RInv'
  <1>1. /\ ThreadOK(pc[t], th[t], peer)
        /\ DOMAIN th = Threads /\ DOMAIN peer = Clients /\ \A c \in Clients : PeerOK(peer[c])
    BY DEF RInv
  <1>2. /\ DOMAIN th' = Threads /\ \A u \in Threads \ {t} : th'[u] = th[u]
        /\ DOMAIN th'[t] = DOMAIN th[t] /\ th'[t].conn = th[t].conn /\ th'[t].rb = th[t].rb
        /\ th'[t].data = th[t].data /\ th'[t].taken = th[t].taken
        /\ th'[t].errno \in {th[t].errno, "none"}
    BY <1>1 DEF ThreadOK
  <1>3. ThreadOK(where, th'[t], peer')
    <2>1. CASE pc[t] = "new"
      BY <1>1, <1>2, <2>1 DEF ThreadOK, RingOK, Idle, Reading, Answering, Errors
    <2>2. CASE pc[t] \in Answering /\ where \in Answering \ {"lock"}
      <3>1. RingOK(where, th'[t].rb)
        BY <1>1, <1>2, <2>2 DEF ThreadOK, RingOK, Idle, Reading, Answering
      <3>2. StreamOK(where, th'[t], peer[th[t].conn])
        BY <1>1, <1>2, <2>2 DEF ThreadOK, StreamOK, Idle, Reading, Answering
      <3> QED
        BY <1>1, <1>2, <2>2, <3>1, <3>2 DEF ThreadOK, Errors, Idle, Answering
    <2> QED
      BY <2>1, <2>2
  <1> QED
    BY <1>1, <1>2, <1>3, ThreadStep

\* accept: the client is nobody else's, and nothing of it has been received.
LEMMA AcceptRings == ASSUME RInv, NEW t \in Threads, Accept(t) PROVE RInv'
  <1>1. PICK c \in Waiting : th' = [th EXCEPT ![t].conn = c]
    BY DEF Accept
  <1>2. /\ c \in Clients /\ \A u \in Threads : th[u].conn # c
        /\ peer' = peer /\ pc[t] = "accept" /\ Goto(t, "recv")
    BY DEF Waiting, Accept, At
  <1>3. ThreadOK("accept", th[t], peer) /\ th[t].conn = None /\ c # None
    BY <1>2 DEF RInv, ThreadOK, Idle
  <1>4. peer[c].rcvd = 0
    BY <1>2 DEF RInv
  <1>5. /\ DOMAIN th' = Threads /\ \A u \in Threads \ {t} : th'[u] = th[u]
        /\ DOMAIN th'[t] = DOMAIN th[t] /\ th'[t].conn = c /\ th'[t].rb = th[t].rb
        /\ th'[t].taken = th[t].taken /\ th'[t].errno = th[t].errno
    BY <1>1, <1>3 DEF RInv, ThreadOK
  <1>6. Located' /\ pc'[t] = "recv" /\ \A u \in Threads \ {t} : pc'[u] = pc[u]
    BY <1>2, GotoMoves DEF RInv
  <1>7. ThreadOK("recv", th'[t], peer')
    <2>1. Clean(th[t].rb) /\ RingTyped(th[t].rb) /\ th[t].taken = 0
      BY <1>3 DEF ThreadOK, RingOK, Idle
    <2>2. RingOK("recv", th'[t].rb)
      BY <1>5, <2>1 DEF RingOK, Idle, Answering
    <2>3. StreamOK("recv", th'[t], peer[c])
      BY <1>4, <1>5, <2>1, LengthAssumption
         DEF StreamOK, Clean, MovedBack, AvailableData, CellsInStep, RingTyped, Cell, Reading,
             Answering
    <2> QED
      BY <1>2, <1>3, <1>5, <2>2, <2>3 DEF ThreadOK, Idle, Reading
  <1>8. \A u \in Threads : ThreadOK(pc'[u], th'[u], peer')
    BY <1>2, <1>5, <1>6, <1>7 DEF RInv
  <1>9. \A u, v \in Threads : u # v /\ th'[u].conn = th'[v].conn => th'[u].conn = None
    BY <1>2, <1>5 DEF RInv
  <1>10. \A d \in Clients : (\A u \in Threads : th'[u].conn # d) => peer'[d].rcvd = 0
    BY <1>2, <1>3, <1>5, NoneAssumption DEF RInv
  <1> QED
    BY <1>2, <1>5, <1>6, <1>8, <1>9, <1>10 DEF RInv

\* What a recv stores: the bytes of the stream that follow those received.
Arriving(rcvd, k) == [i \in 1 .. k |-> rcvd + i]

StreamAt(s, b, at, k, rcvd) ==
    \A c \in Cell : s[c] = IF c >= at /\ c < at + k THEN rcvd + (c - at) + 1 ELSE b[c]

LEMMA StoredStream ==
    ASSUME NEW b, NEW at \in Int, NEW k \in Nat, NEW rcvd \in Nat
    PROVE  StreamAt(Store(b, at, Arriving(rcvd, k)), b, at, k, rcvd)
  <1> DEFINE d == Arriving(rcvd, k)
  <1> SUFFICES ASSUME NEW c \in Cell
               PROVE  Store(b, at, d)[c]
                        = IF c >= at /\ c < at + k THEN rcvd + (c - at) + 1 ELSE b[c]
    BY DEF StreamAt
  <1>1. d \in [1 .. k -> Nat] /\ \A i \in 1 .. k : d[i] = rcvd + i
    BY DEF Arriving
  <1> HIDE DEF d
  <1>2. d \in Seq(Nat)
    BY <1>1, SeqDef
  <1>3. Len(d) = k
    BY <1>1, <1>2, LenProperties
  <1>4. c \in Int /\ (c >= at /\ c < at + k => d[c - at + 1] = rcvd + (c - at) + 1)
    BY <1>1, LengthAssumption DEF Cell
  <1>5. Store(b, at, d)[c] = IF c >= at /\ c < at + Len(d) THEN d[c - at + 1] ELSE b[c]
    BY DEF Store
  <1> QED
    BY <1>3, <1>4, <1>5 DEF d

\* The ring of a thread whose recv returned k, when the ring was r.
Filled(r, rcvd, k) ==
    CommitWrite(Ring(r.start, r.end, r.looped, Store(r.buffer, r.end, Arriving(rcvd, k))), k)

\* A recv moves bytes from the stream to the ring, or takes the error.
LEMMA ReceivedChanges ==
    ASSUME RInv, NEW t \in Threads, pc[t] \notin Idle,
           NEW size \in Nat, NEW k \in -1 .. size,
           RecvReturns(peer[th[t].conn], size, k), Received(t, k)
    PROVE  LET c == th[t].conn
           IN  /\ DOMAIN th' = Threads /\ \A u \in Threads \ {t} : th'[u] = th[u]
               /\ DOMAIN th'[t] = DOMAIN th[t] /\ th'[t].conn = c
               /\ th'[t].data = th[t].data /\ th'[t].taken = th[t].taken
               /\ th'[t].errno \in Errors
               /\ th'[t].rb = Filled(th[t].rb, peer[c].rcvd, k)
               /\ DOMAIN peer' = Clients /\ \A d \in Clients : d # c => peer'[d] = peer[d]
               /\ \A d \in Clients : PeerOK(peer'[d])
               /\ IF k = -1 THEN peer'[c].reset /\ peer'[c].err = "none"
                            ELSE peer'[c].rcvd = peer[c].rcvd + k
  <1> DEFINE c == th[t].conn
             p == peer[c]
  <1>1. /\ c \in Clients /\ PeerOK(p)
        /\ DOMAIN th[t] = {"conn", "rb", "data", "errno", "taken"} /\ th[t].errno \in Errors
        /\ DOMAIN th = Threads /\ DOMAIN peer = Clients /\ \A d \in Clients : PeerOK(peer[d])
    BY Connected DEF RInv, ThreadOK
  <1>2. /\ th' = [th EXCEPT ![t].rb = Filled(th[t].rb, p.rcvd, k),
                            ![t].errno = IF k = -1 THEN p.err ELSE @]
        /\ peer' = IF k = -1 THEN [peer EXCEPT ![c].err = "none"]
                             ELSE [peer EXCEPT ![c].rcvd = @ + k]
    BY DEF Received, Filled, Arriving
  <1>3. IF k = -1 THEN p.err # "none" ELSE k \in Nat /\ p.rcvd + k <= p.sent
    BY <1>1 DEF RecvReturns, PeerOK
  <1>4. PeerOK(peer'[c]) /\ IF k = -1 THEN peer'[c].reset /\ peer'[c].err = "none"
                                      ELSE peer'[c].rcvd = p.rcvd + k
    BY <1>1, <1>2, <1>3 DEF PeerOK, Errors
  <1>5. DOMAIN peer' = Clients /\ \A d \in Clients : d # c => peer'[d] = peer[d]
    BY <1>1, <1>2
  <1>6. /\ DOMAIN th' = Threads /\ \A u \in Threads \ {t} : th'[u] = th[u]
        /\ DOMAIN th'[t] = DOMAIN th[t] /\ th'[t].conn = c
        /\ th'[t].data = th[t].data /\ th'[t].taken = th[t].taken
        /\ th'[t].rb = Filled(th[t].rb, p.rcvd, k)
        /\ th'[t].errno = IF k = -1 THEN p.err ELSE th[t].errno
    BY <1>1, <1>2
  <1>7. p.err \in Errors
    BY <1>1 DEF PeerOK
  <1> QED
    BY <1>1, <1>4, <1>5, <1>6, <1>7

\* After the first recv the unread bytes are those it brought ...
LEMMA FirstFills ==
    ASSUME NEW r, RingTyped(r), Clean(r), NEW k \in -1 .. Length - r.end,
           NEW rcvd \in Nat, NEW q, q = Filled(r, rcvd, k)
    PROVE  CellsInStep(q, rcvd)
  <1> DEFINE b == Store(r.buffer, r.end, Arriving(rcvd, k))
  <1>1. /\ Length \in Nat /\ Length > 0 /\ r.start \in Nat /\ r.start < Length
        /\ r.end = r.start
    BY LengthAssumption DEF RingTyped, Clean, Cell
  <1>2. q = CommitWrite(Ring(r.start, r.end, r.looped, b), k)
    BY DEF Filled
  <1>3. /\ q.start = r.start /\ q.buffer = b
        /\ k = -1 => MovedBack(q) /\ q.looped = 0
        /\ k >= 0 => \/ k = Length - r.end /\ q.looped = 1
                     \/ q.looped = 0 /\ q.end = r.end + k
    <2> HIDE DEF b
    <2> QED
      BY <1>1, <1>2, FirstRecv
  <1>4. SUFFICES ASSUME NEW c \in Cell, c >= q.start, q.looped = 1 \/ c < q.end
                 PROVE  b[c] = rcvd + (c - r.start) + 1
    BY <1>3 DEF CellsInStep
  <1>5. c \in Nat /\ c < Length /\ c >= r.start
    BY <1>1, <1>3, <1>4 DEF Cell
  <1>6. k \in Nat /\ c < r.end + k
    BY <1>1, <1>3, <1>4, <1>5 DEF MovedBack
  <1>7. b[c] = IF c >= r.end /\ c < r.end + k THEN rcvd + (c - r.end) + 1 ELSE r.buffer[c]
    <2>1. r.end \in Int /\ k \in Nat
      BY <1>1, <1>6
    <2>2. StreamAt(b, r.buffer, r.end, k, rcvd)
      BY <2>1, StoredStream
    <2> QED
      BY <2>2 DEF StreamAt
  <1> QED
    BY <1>1, <1>5, <1>6, <1>7

\* ... and the second one leaves the cells from start on alone.
LEMMA SecondFills ==
    ASSUME NEW r, RingTyped(r), r.looped = 1, r.end = 0, NEW k \in -1 .. r.start,
           NEW rcvd \in Nat, NEW taken \in Nat, CellsInStep(r, taken),
           NEW q, q = Filled(r, rcvd, k)
    PROVE  CellsInStep(q, taken)
  <1> DEFINE b == Store(r.buffer, r.end, Arriving(rcvd, k))
  <1>1. Length \in Nat /\ r.start \in Nat /\ r.start < Length /\ r.end \in Int
    BY LengthAssumption DEF RingTyped, Cell
  <1>2. q = CommitWrite(Ring(r.start, r.end, r.looped, b), k)
    BY DEF Filled
  <1>3. q.start = r.start /\ q.buffer = b
    <2> HIDE DEF b
    <2> QED
      BY <1>1, <1>2, SecondRecv
  <1>4. SUFFICES ASSUME NEW c \in Cell, c >= r.start PROVE b[c] = r.buffer[c]
    BY <1>1, <1>3, <1>4 DEF CellsInStep
  <1>5. PICK n \in Nat : n <= r.start /\ Arriving(rcvd, k) = Arriving(rcvd, n)
    <2>1. 1 .. -1 = 1 .. 0
      OBVIOUS
    <2>2. k = -1 => Arriving(rcvd, k) = Arriving(rcvd, 0)
      BY <2>1 DEF Arriving
    <2> QED
      BY <1>1, <2>2
  <1>6. b[c] = IF c >= r.end /\ c < r.end + n THEN rcvd + (c - r.end) + 1 ELSE r.buffer[c]
    <2>1. b = Store(r.buffer, r.end, Arriving(rcvd, n))
      BY <1>5
    <2>2. StreamAt(b, r.buffer, r.end, n, rcvd)
      BY <1>1, <2>1, StoredStream
    <2> QED
      BY <2>2 DEF StreamAt
  <1>7. c \in Int /\ ~(c < r.end + n)
    BY <1>1, <1>4, <1>5 DEF Cell
  <1> QED
    BY <1>6, <1>7

\* read_some's first recv: the ring is clean, so there is room for it.
LEMMA ReadSomeRings == ASSUME RInv, NEW t \in Threads, ReadSome(t) PROVE RInv'
  <1> DEFINE r == th[t].rb
             c == th[t].conn
  <1>1. /\ pc[t] = "recv" /\ pc[t] \notin Idle /\ c \in Clients /\ PeerOK(peer[c])
        /\ ThreadOK("recv", th[t], peer) /\ RingOK("recv", r) /\ StreamOK("recv", th[t], peer[c])
    BY Connected DEF ReadSome, At, Idle
  <1>2. /\ Length \in Nat /\ Length > 0 /\ r.start \in Nat /\ r.start < Length
        /\ RingTyped(r) /\ Clean(r) /\ r.looped = 0 /\ r.end = r.start
    BY <1>1, LengthAssumption DEF RingOK, RingTyped, Clean, Cell
  <1>3. AvailableSpace(r) > 0 /\ RecvSize(r) = Length - r.end /\ RecvSize(r) \in Nat
        /\ AvailableData(r) = 0 /\ ~MovedBack(r)
    BY <1>2 DEF AvailableSpace, AvailableData, RecvSize, MovedBack
  <1>4. PICK k \in -1 .. RecvSize(r) :
          /\ RecvReturns(peer[c], RecvSize(r), k)
          /\ Received(t, k)
          /\ Goto(t, IF r.looped = 0 /\ k >= RecvSize(r) THEN "recv2" ELSE "getall")
    BY <1>3 DEF ReadSome
  <1> DEFINE where == IF k = Length - r.end THEN "recv2" ELSE "getall"
             q == Filled(r, peer[c].rcvd, k)
             b == Store(r.buffer, r.end, Arriving(peer[c].rcvd, k))
  <1>5. Goto(t, where) /\ k \in -1 .. Length - r.end
    BY <1>2, <1>3, <1>4
  <1>6. /\ DOMAIN th' = Threads /\ \A u \in Threads \ {t} : th'[u] = th[u]
        /\ DOMAIN th'[t] = DOMAIN th[t] /\ th'[t].conn = c
        /\ th'[t].taken = th[t].taken
        /\ th'[t].errno \in Errors /\ th'[t].rb = q
        /\ DOMAIN peer' = Clients /\ \A d \in Clients : d # c => peer'[d] = peer[d]
        /\ \A d \in Clients : PeerOK(peer'[d])
        /\ IF k = -1 THEN peer'[c].reset /\ peer'[c].err = "none"
                     ELSE peer'[c].rcvd = peer[c].rcvd + k
    BY <1>1, <1>3, <1>4, ReceivedChanges
  <1>7. q = CommitWrite(Ring(r.start, r.end, r.looped, b), k)
    BY DEF Filled
  <1> HIDE DEF b
  <1>8. /\ RingTyped(q) /\ q.start = r.start
        /\ IF k = -1 THEN MovedBack(q) /\ q.looped = 0
           ELSE /\ ~MovedBack(q)
                /\ AvailableData(q) = k
                /\ IF k = Length - r.end THEN q.looped = 1 /\ q.end = 0
                                         ELSE q.looped = 0 /\ q.end = r.end + k
    BY <1>2, <1>5, <1>7, FirstRecv
  <1>9. th[t].taken = peer[c].rcvd /\ th[t].taken \in Nat
    BY <1>1, <1>3 DEF StreamOK, ThreadOK, Reading, PeerOK
  <1>10. CellsInStep(q, th[t].taken)
    BY <1>2, <1>5, <1>9, FirstFills
  <1> HIDE DEF q
  <1>11. RingOK(where, q)
    BY <1>2, <1>5, <1>8 DEF RingOK, Idle, Answering, InOrder
  <1>12. StreamOK(where, th'[t], peer'[c])
    BY <1>6, <1>8, <1>9, <1>10 DEF StreamOK, Answering, Reading
  <1>13. ThreadOK(where, th'[t], peer')
    BY <1>1, <1>6, <1>11, <1>12 DEF ThreadOK, Idle, Reading
  <1> HIDE DEF where
  <1> QED
    BY <1>5, <1>6, <1>13, ThreadStep

\* The second recv, into the cells before start; an error there moves end to -1.
LEMMA ReadMoreRings == ASSUME RInv, NEW t \in Threads, ReadMore(t) PROVE RInv'
  <1> DEFINE r == th[t].rb
             c == th[t].conn
  <1>1. /\ pc[t] = "recv2" /\ pc[t] \notin Idle /\ c \in Clients /\ PeerOK(peer[c])
        /\ ThreadOK("recv2", th[t], peer) /\ RingOK("recv2", r) /\ StreamOK("recv2", th[t], peer[c])
    BY Connected DEF ReadMore, At, Idle
  <1>2. /\ Length \in Nat /\ Length > 0 /\ r.start \in Nat /\ r.start < Length
        /\ RingTyped(r) /\ r.looped = 1 /\ r.end = 0
    BY <1>1, LengthAssumption DEF RingOK, RingTyped, Cell
  <1>3. /\ AvailableSpace(r) = r.start /\ ~MovedBack(r)
        /\ AvailableData(r) = Length - r.start
    BY <1>2 DEF AvailableSpace, AvailableData, MovedBack
  <1>4. PICK k \in -1 .. AvailableSpace(r) :
          RecvReturns(peer[c], AvailableSpace(r), k) /\ Received(t, k)
    BY DEF ReadMore
  <1> DEFINE q == Filled(r, peer[c].rcvd, k)
             b == Store(r.buffer, r.end, Arriving(peer[c].rcvd, k))
  <1>5. Goto(t, "getall") /\ k \in -1 .. r.start /\ AvailableSpace(r) \in Nat
    BY <1>2, <1>3, <1>4 DEF ReadMore
  <1>6. /\ DOMAIN th' = Threads /\ \A u \in Threads \ {t} : th'[u] = th[u]
        /\ DOMAIN th'[t] = DOMAIN th[t] /\ th'[t].conn = c
        /\ th'[t].taken = th[t].taken
        /\ th'[t].errno \in Errors /\ th'[t].rb = q
        /\ DOMAIN peer' = Clients /\ \A d \in Clients : d # c => peer'[d] = peer[d]
        /\ \A d \in Clients : PeerOK(peer'[d])
        /\ IF k = -1 THEN peer'[c].reset /\ peer'[c].err = "none"
                     ELSE peer'[c].rcvd = peer[c].rcvd + k
    BY <1>1, <1>4, <1>5, ReceivedChanges
  <1>7. q = CommitWrite(Ring(r.start, r.end, r.looped, b), k)
    BY DEF Filled
  <1> HIDE DEF b
  <1>8. /\ RingTyped(q) /\ q.start = r.start
        /\ IF k = -1 THEN MovedBack(q)
           ELSE ~MovedBack(q) /\ InOrder(q) /\ AvailableData(q) = AvailableData(r) + k
    <2> HIDE DEF q, r
    <2> QED
      BY <1>2, <1>5, <1>7, SecondRecv
  <1>9. /\ th[t].taken + AvailableData(r) = peer[c].rcvd /\ th[t].taken \in Nat
        /\ CellsInStep(r, th[t].taken) /\ peer[c].rcvd \in Nat
    BY <1>1, <1>3 DEF StreamOK, ThreadOK, Reading, PeerOK
  <1>10. CellsInStep(q, th[t].taken)
    BY <1>2, <1>5, <1>9, SecondFills
  <1> HIDE DEF q
  <1>11. RingOK("getall", q)
    BY <1>5, <1>8 DEF RingOK, Idle, Answering
  <1>12. k # -1 => th[t].taken + AvailableData(q) = peer[c].rcvd + k
    BY <1>2, <1>3, <1>5, <1>8, <1>9
  <1>13. StreamOK("getall", th'[t], peer'[c])
    BY <1>6, <1>8, <1>10, <1>12 DEF StreamOK, Answering, Reading
  <1>14. ThreadOK("getall", th'[t], peer')
    BY <1>1, <1>6, <1>11, <1>13 DEF ThreadOK, Idle, Reading
  <1> QED
    BY <1>5, <1>6, <1>14, ThreadStep

\* m bytes that follow the first "taken" ones are the last of taken + m.
LEMMA GivenInStep ==
    ASSUME NEW d, NEW m \in Nat, Len(d) = m, DOMAIN d = 1 .. m, NEW taken \in Nat,
           \A i \in 1 .. m : d[i] \in {taken + i, Junk}
    PROVE  DataInStep(d, taken + m)
  <1>1. ASSUME NEW i \in DOMAIN d PROVE d[i] \in {(taken + m) - Len(d) + i, Junk}
    <2>1. i \in 1 .. m /\ (taken + m) - Len(d) + i = taken + i
      BY <1>1
    <2>2. d[i] \in {taken + i, Junk}
      BY <2>1
    <2> QED
      BY <2>1, <2>2
  <1> QED
    BY <1>1, Zenon DEF DataInStep

\* get_all: it takes everything, unless an error has moved end back.
LEMMA GetAllRings == ASSUME RInv, NEW t \in Threads, GetAll(t) PROVE RInv'
  <1> DEFINE r == th[t].rb
             c == th[t].conn
             n == AvailableData(r)
             d == GetsBytes(r, n)
             taken == th[t].taken
  <1>1. /\ pc[t] = "getall" /\ pc[t] \notin Idle /\ c \in Clients /\ PeerOK(peer[c])
        /\ ThreadOK("getall", th[t], peer) /\ RingOK("getall", r)
        /\ StreamOK("getall", th[t], peer[c])
    BY Connected DEF GetAll, At, Idle
  <1>2. /\ RingTyped(r) /\ (InOrder(r) \/ MovedBack(r))
        /\ r.start \in Int /\ r.end \in Int /\ Length \in Int
    BY <1>1, LengthAssumption DEF RingOK, RingTyped, Cell
  <1>3. /\ taken \in Nat /\ CellsInStep(r, taken) /\ n \in Int
        /\ ~MovedBack(r) => taken + n = peer[c].rcvd
        /\ MovedBack(r) => peer[c].reset /\ peer[c].err = "none"
    BY <1>1, <1>2 DEF StreamOK, ThreadOK, Reading, AvailableData
  <1>4. Goto(t, "lock") /\ peer' = peer /\ DOMAIN th = Threads /\ DOMAIN peer = Clients
        /\ \A e \in Clients : PeerOK(peer[e])
    BY DEF GetAll, RInv
  <1>5. ASSUME DOMAIN th' = Threads, \A u \in Threads \ {t} : th'[u] = th[u],
               DOMAIN th'[t] = DOMAIN th[t], th'[t].conn = c, th'[t].errno \in Errors,
               th'[t].taken \in Nat, RingTyped(th'[t].rb),
               DataInStep(th'[t].data, th'[t].taken),
               IF MovedBack(r) THEN MovedBack(th'[t].rb)
                               ELSE Clean(th'[t].rb) /\ th'[t].taken = peer[c].rcvd
        PROVE  RInv'
    <2>1. RingOK("lock", th'[t].rb)
      BY <1>5 DEF RingOK, Idle
    <2>2. StreamOK("lock", th'[t], peer[c])
      BY <1>2, <1>3, <1>5 DEF StreamOK, Reading, Clean, MovedBack, RingTyped, Cell
    <2>3. ThreadOK("lock", th'[t], peer')
      BY <1>1, <1>4, <1>5, <2>1, <2>2 DEF ThreadOK, Idle, Answering
    <2> QED
      BY <1>4, <1>5, <2>3, ThreadStep
  <1>6. CASE n > 0 /\ ~WrongLengthNoticed(d, n)
    <2>1. PICK m \in Nat :
             /\ m > 0 /\ Len(d) = m /\ DOMAIN d = 1 .. m
             /\ \A i \in 1 .. m : d[i] \in {taken + i, Junk}
             /\ RingTyped(CommitRead(r, n))
             /\ IF MovedBack(r) THEN MovedBack(CommitRead(r, n))
                                ELSE m = n /\ Clean(CommitRead(r, n))
      BY <1>2, <1>3, <1>6, GetAllTakes
    <2>2. /\ th' = [th EXCEPT ![t].data = d, ![t].rb = CommitRead(r, n), ![t].taken = @ + Len(d)]
          /\ DOMAIN th[t] = {"conn", "rb", "data", "errno", "taken"} /\ th[t].errno \in Errors
      BY <1>1, <1>6 DEF GetAll, ThreadOK
    <2> HIDE DEF d
    <2>3. /\ DOMAIN th' = Threads /\ \A u \in Threads \ {t} : th'[u] = th[u]
          /\ DOMAIN th'[t] = DOMAIN th[t] /\ th'[t].conn = c /\ th'[t].errno \in Errors
          /\ th'[t].taken = taken + m /\ th'[t].rb = CommitRead(r, n) /\ th'[t].data = d
      BY <1>4, <2>1, <2>2
    <2>4. DataInStep(d, taken + m)
      BY <1>3, <2>1, GivenInStep
    <2>5. taken + m \in Nat
      BY <1>3, <2>1
    <2> QED
      BY <1>3, <1>5, <2>1, <2>3, <2>4, <2>5
  <1>7. CASE ~(n > 0 /\ ~WrongLengthNoticed(d, n))
    <2>1. n <= 0
      <3>1. SUFFICES ASSUME n > 0 PROVE FALSE
        BY <1>3
      <3>2. PICK m \in Nat : m > 0 /\ Len(d) = m /\ (~MovedBack(r) => m = n)
        BY <1>2, <1>3, <3>1, GetAllTakes
      <3> QED
        BY <1>2, <1>3, <1>7, <3>1, <3>2 DEF WrongLengthNoticed
    <2>2. /\ th' = [th EXCEPT ![t].data = None, ![t].errno = "none"]
          /\ DOMAIN th[t] = {"conn", "rb", "data", "errno", "taken"}
      BY <1>1, <1>7 DEF GetAll, ThreadOK
    <2>3. /\ DOMAIN th' = Threads /\ \A u \in Threads \ {t} : th'[u] = th[u]
          /\ DOMAIN th'[t] = DOMAIN th[t] /\ th'[t].conn = c /\ th'[t].errno \in Errors
          /\ th'[t].taken = taken /\ th'[t].rb = r /\ th'[t].data = None
      BY <1>4, <2>2 DEF Errors
    <2>4. ~MovedBack(r) => Clean(r) /\ taken = peer[c].rcvd
      BY <1>2, <1>3, <2>1, LengthAssumption
         DEF RingTyped, InOrder, Clean, AvailableData, Cell
    <2> QED
      BY <1>2, <1>3, <1>5, <2>3, <2>4 DEF DataInStep
  <1> QED
    BY <1>6, <1>7

\* send: a ring that an error has moved back belongs to a reset connection, so
\* this send fails and ends the loop; any other thread goes back to a clean one.
LEMMA SendRings == ASSUME RInv, NEW t \in Threads, Send(t) PROVE RInv'
  <1> DEFINE c == th[t].conn
             p == peer[c]
             e == IF SendErrno(p) = "none" THEN th[t].errno ELSE SendErrno(p)
             where == IF LoopEnds(e) THEN "done" ELSE "recv"
  <1>1. /\ pc[t] = "send" /\ pc[t] \notin Idle /\ c \in Clients /\ PeerOK(p)
        /\ ThreadOK("send", th[t], peer) /\ RingOK("send", th[t].rb) /\ StreamOK("send", th[t], p)
    BY Connected DEF Send, At, Idle
  <1>2. /\ th' = [th EXCEPT ![t].errno = e, ![t].data = None] /\ Goto(t, where)
        /\ peer' = IF SendErrno(p) = "none" THEN [peer EXCEPT ![c].poked = (p.state = "gone")]
                                            ELSE [peer EXCEPT ![c].err = "none"]
        /\ DOMAIN th = Threads /\ DOMAIN peer = Clients /\ \A d \in Clients : PeerOK(peer[d])
    BY DEF Send, RInv
  <1>3. e \in Errors /\ DOMAIN th[t] = {"conn", "rb", "data", "errno", "taken"}
        /\ th[t].taken \in Nat
    BY <1>1 DEF SendErrno, ThreadOK, PeerOK, Errors
  <1>4. MovedBack(th[t].rb) => where = "done"
    BY <1>1 DEF StreamOK, SendErrno, LoopEnds, Reading, Answering
  <1> HIDE DEF e
  <1>5. /\ DOMAIN th' = Threads /\ \A u \in Threads \ {t} : th'[u] = th[u]
        /\ DOMAIN th'[t] = DOMAIN th[t] /\ th'[t].conn = c /\ th'[t].rb = th[t].rb
        /\ th'[t].taken = th[t].taken /\ th'[t].errno \in Errors
    BY <1>2, <1>3
  <1>6. DOMAIN peer' = Clients /\ \A d \in Clients : d # c => peer'[d] = peer[d]
    BY <1>2
  <1>7. PeerOK(peer'[c]) /\ peer'[c].rcvd = p.rcvd
    BY <1>1, <1>2 DEF PeerOK, Errors
  <1>8. where \in {"done", "recv"}
    OBVIOUS
  <1>9. ThreadOK(where, th'[t], peer')
    <2>1. ThreadOK("done", th'[t], peer')
      BY <1>1, <1>3, <1>5
         DEF ThreadOK, RingOK, StreamOK, Idle, Reading, Answering
    <2>2. CASE where = "recv"
      <3>1. /\ Clean(th[t].rb) /\ RingTyped(th[t].rb) /\ ~MovedBack(th[t].rb)
            /\ th[t].taken = p.rcvd
        BY <1>1, <1>4, <2>2 DEF RingOK, StreamOK, Reading, Answering
      <3>2. RingOK("recv", th'[t].rb)
        BY <1>5, <3>1 DEF RingOK, Idle, Answering
      <3>3. StreamOK("recv", th'[t], peer'[c])
        BY <1>3, <1>5, <1>7, <3>1, LengthAssumption
           DEF StreamOK, Clean, AvailableData, CellsInStep, RingTyped, Cell, Reading, Answering
      <3> QED
        BY <1>1, <1>3, <1>5, <2>2, <3>2, <3>3 DEF ThreadOK, Idle, Reading
    <2> QED
      BY <1>8, <2>1, <2>2
  <1> HIDE DEF where
  <1>10. \A d \in Clients : PeerOK(peer'[d])
    BY <1>2, <1>6, <1>7
  <1> QED
    BY <1>2, <1>5, <1>6, <1>9, <1>10, ThreadStep

-----------------------------------------------------------------------------
(* All steps *)

\* What the rings do not depend on: the mutex, the tree's root, the joins.
Sides ==
    /\ Asked /\ \A t \in Threads : hadRoot[t] \in BOOLEAN
    /\ tree.root \in BOOLEAN
    /\ lock \in Threads \cup {None}
    /\ joined \subseteq {t \in Threads : At(t, "done")}

\* A thread that is done does nothing more.
LEMMA DoneStays ==
    ASSUME Located, Sides, NEW t \in Threads, NEW where, Goto(t, where), ~At(t, "done")
    PROVE  joined \subseteq {u \in Threads : At(u, "done")'}
  BY GotoMoves DEF Sides, At

LEMMA SidesStep == ASSUME Located, Sides, Next PROVE Sides'
  <1>1. ASSUME NEW t \in Threads, CreateThread(t) \/ Accept(t) \/ GetAll(t) \/ ReadMore(t)
        PROVE  Sides'
    <2>1. PICK where : Goto(t, where)
      BY <1>1 DEF CreateThread, Accept, GetAll, ReadMore
    <2>2. ~At(t, "done") /\ UNCHANGED <<hadRoot, tree, lock, joined>>
      BY <1>1 DEF CreateThread, Accept, GetAll, ReadMore, At, shared, main
    <2> QED
      BY <2>1, <2>2, DoneStays DEF Sides, Asked, At
  <1>2. ASSUME NEW t \in Threads, ReadSome(t) \/ Send(t) PROVE Sides'
    <2>1. PICK where : Goto(t, where)
      BY <1>2 DEF ReadSome, Send
    <2>2. ~At(t, "done") /\ UNCHANGED <<hadRoot, tree, lock, joined>>
      BY <1>2 DEF ReadSome, Send, At, shared, main
    <2> QED
      BY <2>1, <2>2, DoneStays DEF Sides, Asked, At
  <1>3. ASSUME NEW t \in Threads, Lock(t) \/ Unlock(t) \/ Call(t) \/ Back(t) PROVE Sides'
    <2>1. PICK where : Goto(t, where)
      BY <1>3 DEF Lock, Unlock, Call, Back
    <2>2. ~At(t, "done") /\ joined' = joined
      BY <1>3 DEF Lock, Unlock, Call, Back, At, main
    <2>3. joined' \subseteq {u \in Threads : At(u, "done")'}
      BY <2>1, <2>2, DoneStays
    <2>4. Asked' /\ \A u \in Threads : hadRoot'[u] \in BOOLEAN
      BY <1>3 DEF Sides, Asked, Lock, Unlock, Call, Back
    <2>5. tree'.root \in BOOLEAN
      <3>1. CASE Back(t)
        <4>1. PICK r : tree' = [root |-> tree.root \/ r.op = "create",
                                urls |-> Applied(r, hadRoot[t], tree.urls)]
          BY <3>1 DEF Back
        <4>2. tree'.root = (tree.root \/ r.op = "create")
          BY <4>1
        <4>3. (tree.root \/ r.op = "create") \in BOOLEAN
          OBVIOUS
        <4> QED
          BY <4>2, <4>3
      <3>2. CASE ~Back(t)
        BY <1>3, <3>2 DEF Sides, Lock, Unlock, Call
      <3> QED
        BY <3>1, <3>2
    <2>6. lock' \in Threads \cup {None}
      BY <1>3 DEF Sides, Lock, Unlock, Call, Back
    <2> QED
      BY <2>3, <2>4, <2>5, <2>6 DEF Sides, At
  <1>4. ASSUME NEW t \in Threads, Join(t) \/ AcceptFails(t) PROVE Sides'
    BY <1>4 DEF Join, AcceptFails, Sides, Asked, At, shared
  <1>5. ASSUME NEW c \in Clients, Client(c) \/ DeliverReset(c) PROVE Sides'
    <2>1. UNCHANGED <<pc, hadRoot, tree, lock, joined>>
      BY <1>5 DEF Client, Connect, SendRequest, Abort, Finish, DeliverReset, Peer, shared, main
    <2> QED
      BY <2>1 DEF Sides, Asked, At
  <1> QED
    BY <1>1, <1>2, <1>3, <1>4, <1>5 DEF Next, Main, Work

\* A client's step changes nothing that was received, and a reset stays.
LEMMA ClientRings ==
    ASSUME RInv, NEW c \in Clients, Client(c) \/ DeliverReset(c) PROVE RInv'
  <1>1. PeerOK(peer[c])
    BY DEF RInv
  <1>2. CASE Connect(c)
    BY <1>1, <1>2, PeerStep DEF Connect, PeerOK
  <1>3. CASE SendRequest(c)
    <2> DEFINE p == [peer[c] EXCEPT !.sent = @ + MessageLength]
    <2>1. PeerOK(p) /\ p.rcvd = peer[c].rcvd /\ p.reset = peer[c].reset /\ p.err = peer[c].err
      BY <1>1, MessageAssumption DEF PeerOK
    <2>2. Peer(c, p)
      BY <1>3 DEF SendRequest
    <2> HIDE DEF p
    <2> QED
      BY <2>1, <2>2, PeerStep
  <1>4. ASSUME NEW state \in {"half", "gone"}, Finish(c, state) PROVE RInv'
    <2> DEFINE p == [peer[c] EXCEPT !.state = state, !.fin = TRUE]
    <2>1. ~peer[c].reset /\ ~peer[c].poked
      BY <1>1, <1>4 DEF PeerOK, Finish
    <2>2. PeerOK(p) /\ p.rcvd = peer[c].rcvd
      BY <1>1, <2>1 DEF PeerOK
    <2>3. Peer(c, p)
      BY <1>4 DEF Finish
    <2> HIDE DEF p
    <2> QED
      BY <2>1, <2>2, <2>3, PeerStep
  <1>5. CASE Abort(c)
    <2>1. PICK n \in peer[c].rcvd .. peer[c].sent :
            Peer(c, [peer[c] EXCEPT !.state = "gone", !.sent = n, !.reset = TRUE,
                                    !.err = IF peer[c].fin THEN "EPIPE" ELSE "ECONNRESET"])
      BY <1>5 DEF Abort
    <2> DEFINE p == [peer[c] EXCEPT !.state = "gone", !.sent = n, !.reset = TRUE,
                                    !.err = IF peer[c].fin THEN "EPIPE" ELSE "ECONNRESET"]
    <2>2. ~peer[c].reset
      BY <1>1, <1>5 DEF PeerOK, Abort
    <2>3. PeerOK(p) /\ p.rcvd = peer[c].rcvd
      BY <1>1 DEF PeerOK, Errors
    <2> HIDE DEF p
    <2> QED
      BY <2>1, <2>2, <2>3, PeerStep DEF p
  <1>6. CASE DeliverReset(c)
    <2> DEFINE p == [peer[c] EXCEPT !.reset = TRUE, !.err = "EPIPE", !.poked = FALSE]
    <2>1. peer[c].poked /\ ~peer[c].reset /\ Peer(c, p)
      BY <1>6 DEF DeliverReset
    <2>2. PeerOK(p) /\ p.rcvd = peer[c].rcvd
      BY <1>1, <2>1 DEF PeerOK, Errors
    <2> HIDE DEF p
    <2> QED
      BY <2>1, <2>2, PeerStep
  <1> QED
    BY <1>2, <1>3, <1>4, <1>5, <1>6 DEF Client

\* A step of the program.
LEMMA RInvInductive == RInv /\ [Next]_vars => RInv'
  <1> SUFFICES ASSUME RInv, [Next]_vars PROVE RInv'
    OBVIOUS
  <1>1. ASSUME UNCHANGED <<pc, th, peer>> PROVE RInv'
    BY <1>1 DEF RInv, Located
  <1>2. CASE UNCHANGED vars
    BY <1>1, <1>2 DEF vars
  <1>3. ASSUME NEW t \in Threads, Main(t) \/ AcceptFails(t) PROVE RInv'
    <2>1. CASE CreateThread(t)
      BY <2>1, QuietStep DEF CreateThread, At
    <2>2. CASE Join(t) \/ AcceptFails(t)
      BY <1>1, <2>2 DEF Join, AcceptFails
    <2> QED
      BY <1>3, <2>1, <2>2 DEF Main
  <1>4. ASSUME NEW t \in Threads, Lock(t) \/ Call(t) \/ Unlock(t) PROVE RInv'
    BY <1>4, QuietStep DEF Lock, Call, Unlock, At, Answering
  <1>5. ASSUME NEW t \in Threads, Back(t) PROVE RInv'
    <2>1. th' = th \/ th' = [th EXCEPT ![t].errno = "none"]
      BY <1>5 DEF Back
    <2> QED
      BY <1>5, <2>1, QuietStep DEF Back, At, Answering
  <1>6. ASSUME NEW t \in Threads, Work(t) PROVE RInv'
    BY <1>4, <1>5, <1>6, AcceptRings, ReadSomeRings, ReadMoreRings, GetAllRings, SendRings
       DEF Work
  <1> QED
    BY <1>2, <1>3, <1>6, ClientRings DEF Next

\* No thread has a client yet, and every ring is new.
LEMMA InitRInv == Init => RInv /\ Sides
  <1> SUFFICES ASSUME Init PROVE RInv /\ Sides
    OBVIOUS
  <1>1. ASSUME NEW t \in Threads PROVE ThreadOK(pc[t], th[t], peer)
    <2>1. pc[t] = "new" /\ th[t] = [conn |-> None, rb |-> NewRing, data |-> None,
                                    errno |-> "none", taken |-> 0]
      BY DEF Init
    <2>2. RingOK("new", NewRing)
      BY LengthAssumption
         DEF RingOK, NewRing, Ring, RingTyped, Clean, Cell, Idle, Answering
    <2> QED
      BY <2>1, <2>2 DEF ThreadOK, Errors, Idle
  <1>2. \A c \in Clients : PeerOK(peer[c]) /\ peer[c].rcvd = 0
    BY DEF Init, PeerOK, Errors
  <1>3. \A t \in Threads : th[t].conn = None
    BY DEF Init
  <1>4. Located /\ DOMAIN th = Threads /\ DOMAIN peer = Clients
    BY DEF Init, Located
  <1>5. Sides
    BY DEF Init, Sides, Asked
  <1> QED
    BY <1>1, <1>2, <1>3, <1>4, <1>5 DEF RInv

LEMMA RInvAlways == Spec => [](RInv /\ Sides)
  <1>1. RInv /\ Sides /\ [Next]_vars => (RInv /\ Sides)'
    <2>1. Sides /\ UNCHANGED vars => Sides'
      BY DEF Sides, Asked, At, vars, shared, main
    <2> QED
      BY <2>1, RInvInductive, SidesStep DEF RInv
  <1> QED
    BY <1>1, InitRInv, PTL DEF Spec

\* Every state's types, from the invariant.
LEMMA RInvTypeOK == ASSUME RInv, Sides PROVE TypeOK
  <1>1. ASSUME NEW t \in Threads
        PROVE  /\ pc[t] \in {"new", "accept", "recv", "recv2", "getall", "lock", "call", "back",
                             "unlock", "send", "done"}
               /\ th[t].conn \in Clients \cup {None}
               /\ th[t].rb.start \in Cell
               /\ th[t].rb.end \in -1 .. Length - 1
               /\ th[t].rb.looped \in {0, 1}
               /\ th[t].errno \in {"none", "ECONNRESET", "EPIPE"}
    <2>1. ThreadOK(pc[t], th[t], peer)
      BY DEF RInv
    <2> QED
      BY <2>1 DEF ThreadOK, RingOK, RingTyped, Errors, Idle, Reading, Answering
  <1>2. \A c \in Clients : peer[c].rcvd <= peer[c].sent
    BY DEF RInv, PeerOK
  <1> QED
    BY <1>1, <1>2 DEF TypeOK, Sides

\* What a recv is given: the rest of the array, or the cells before start.
LEMMA RInvRecv == ASSUME RInv PROVE RecvInBounds
  <1> SUFFICES ASSUME NEW t \in Threads, pc[t] \in {"recv", "recv2"}
               PROVE  LET r == th[t].rb
                          size == IF At(t, "recv") THEN RecvSize(r) ELSE AvailableSpace(r)
                      IN  r.end \in Cell /\ r.end + size <= Length /\ size <= AvailableSpace(r)
    BY DEF RecvInBounds, At
  <1> DEFINE r == th[t].rb
  <1>1. RingOK(pc[t], r)
    BY DEF RInv, ThreadOK
  <1>2. Length \in Nat /\ Length > 0 /\ r.start \in Nat /\ r.start < Length
    BY <1>1, LengthAssumption DEF RingOK, RingTyped, Cell
  <1>3. CASE pc[t] = "recv"
    <2>1. r.looped = 0 /\ r.end = r.start
      BY <1>1, <1>3 DEF RingOK, Clean
    <2> QED
      BY <1>2, <1>3, <2>1 DEF At, RecvSize, AvailableSpace, AvailableData, Cell
  <1>4. CASE pc[t] = "recv2"
    <2>1. r.looped = 1 /\ r.end = 0
      BY <1>1, <1>4 DEF RingOK
    <2> QED
      BY <1>2, <1>4, <2>1 DEF At, AvailableSpace, AvailableData, Cell
  <1> QED
    BY <1>3, <1>4

\* At the mutex: the data, and how much of the stream has been given.
LEMMA RInvInStep == ASSUME RInv PROVE InStep
  <1> SUFFICES ASSUME NEW t \in Threads, At(t, "lock")
               PROVE  /\ th[t].taken = peer[th[t].conn].rcvd \/ peer[th[t].conn].reset
                      /\ DataInStep(th[t].data, th[t].taken)
    BY DEF InStep, DataInStep
  <1>1. StreamOK("lock", th[t], peer[th[t].conn])
    BY Connected DEF At, Idle
  <1> QED
    BY <1>1 DEF StreamOK, Answering

\* No recv of read_some that brings bytes is given a length past the array or
\* over unread bytes, and the indices keep their ranges, -1 included.
THEOREM AlwaysRingsInBounds == Spec => []RingsInBounds
  <1>1. RInv /\ Sides => RingsInBounds
    BY RInvTypeOK, RInvRecv DEF RingsInBounds
  <1> QED
    BY <1>1, RInvAlways, PTL

\* What process_request is given are the client's bytes in order, every one
\* once, though get_all reads past the array and a recv's -1 is committed.
THEOREM AlwaysInStep == Spec => []InStep
  <1>1. RInv /\ Sides => InStep
    BY RInvInStep
  <1> QED
    BY <1>1, RInvAlways, PTL

=============================================================================
