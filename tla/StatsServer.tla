---------------------------- MODULE StatsServer ----------------------------
(***************************************************************************)
(* bin/stats_server.c with read_some of src/src/server.c: main creates one *)
(* thread per slot; a thread accepts one client, then reads, processes and *)
(* answers until a send fails with EPIPE; the URL tree is shared under one *)
(* mutex.  Each thread's ring is a ring of RingLayout.                     *)
(*                                                                         *)
(* A byte is its position in its client's stream, so the data handed to    *)
(* process_request is the client's k-th request, Script[c][k], when it is  *)
(* exactly the bytes of the k-th message.  The tree is the set of URLs     *)
(* that have a value (UrlStore models the tree itself).                    *)
(***************************************************************************)
EXTENDS RingLayout, FiniteSets

CONSTANTS Threads,          \* threads[QUEUE_MAX]
          Clients,
          Script,           \* Script[c]: the requests c sends, in order
          MessageLength,    \* bytes per request
          None

ASSUME NoneAssumption == None \notin Threads \cup Clients
ASSUME MessageAssumption == MessageLength \in Nat \ {0}

VARIABLES
    pc,         \* pc[t]: where thread t is in client_process
    hadRoot,    \* hadRoot[t]: what t's process_request saw in *root
    th,         \* th[t]: t's connection, ring, data and errno, see TypeOK;
                \* history: taken, the number of bytes get_all has given
    lock,       \* the holder of the mutex
    tree,       \* root: *root is not NULL; urls: the URLs with a value
    serial,     \* history: the URLs if requests ran one after the other
    joined,     \* the threads main has joined
    exited,     \* the process has ended
    peer        \* peer[c]: client c and the server's end of its connection

shared == <<lock, tree, serial, hadRoot>>
main == <<joined, exited>>
vars == <<pc, th, shared, main, peer>>

Init ==
    /\ pc = [t \in Threads |-> "new"]
    /\ hadRoot = [t \in Threads |-> FALSE]
    /\ th = [t \in Threads |-> [conn |-> None, rb |-> NewRing, data |-> None, errno |-> "none",
                               taken |-> 0]]
    /\ lock = None
    /\ tree = [root |-> FALSE, urls |-> {}] /\ serial = {}
    /\ joined = {} /\ exited = FALSE
    /\ peer = [c \in Clients |-> [state |-> "out", sent |-> 0, rcvd |-> 0, fin |-> FALSE,
                                  reset |-> FALSE, err |-> "none", poked |-> FALSE]]

At(t, where) == pc[t] = where
Goto(t, where) == pc' = [pc EXCEPT ![t] = where]

-----------------------------------------------------------------------------
(* main *)

CreateThread(t) == /\ At(t, "new")
                   /\ Goto(t, "accept")
                   /\ UNCHANGED <<th, shared, main, peer>>

Join(t) == /\ \A u \in Threads : ~At(u, "new")
           /\ At(t, "done") /\ t \notin joined
           /\ joined' = joined \cup {t}
           /\ exited' = (joined' = Threads)
           /\ UNCHANGED <<pc, th, shared, peer>>

-----------------------------------------------------------------------------
(* client_process: accept, then the loop up to the mutex *)

Waiting == {c \in Clients : peer[c].state # "out" /\ \A t \in Threads : th[t].conn # c}

Accept(t) == /\ At(t, "accept")
             /\ \E c \in Waiting : th' = [th EXCEPT ![t].conn = c]
             /\ Goto(t, "recv")
             /\ UNCHANGED <<shared, main, peer>>

\* exit(-1) ends the process, not the thread.
AcceptFails(t) == /\ At(t, "accept")
                  /\ exited' = TRUE
                  /\ UNCHANGED <<pc, th, shared, joined, peer>>

\* recv with room for size bytes returns k: what is there, 0 at the end of
\* the stream, -1 for a pending error; otherwise it does not return.
RecvReturns(p, size, k) ==
    IF p.sent > p.rcvd THEN k \in (IF size = 0 THEN {0} ELSE 1 .. size) /\ k <= p.sent - p.rcvd
    ELSE IF p.fin THEN k = 0
    ELSE IF p.err # "none" THEN k = -1
    ELSE p.reset /\ k = 0

\* Thread t's recv returns k and read_some commits it, an error's -1 as well.
Received(t, k) ==
    LET c == th[t].conn
        r == th[t].rb
        stored == Store(r.buffer, r.end, [i \in 1 .. k |-> peer[c].rcvd + i])
    IN  /\ th' = [th EXCEPT ![t].rb = CommitWrite(Ring(r.start, r.end, r.looped, stored), k),
                            ![t].errno = IF k = -1 THEN peer[c].err ELSE @]
        /\ peer' = IF k = -1 THEN [peer EXCEPT ![c].err = "none"]
                             ELSE [peer EXCEPT ![c].rcvd = @ + k]

\* Mutant of RecvSize: all the free space, wherever it is.
RecvSizeIgnoresEnd(r) == AvailableSpace(r)

RecvSize(r) == IF r.looped = 0 THEN Length - r.end ELSE AvailableSpace(r)

\* A first recv that fills the array to its end is followed by a second one,
\* whether or not there is more to come.
ReadSome(t) ==
    LET r == th[t].rb
    IN  /\ At(t, "recv")
        /\ IF AvailableSpace(r) > 0
           THEN \E k \in -1 .. RecvSize(r) :
                  /\ RecvReturns(peer[th[t].conn], RecvSize(r), k)
                  /\ Received(t, k)
                  /\ Goto(t, IF r.looped = 0 /\ k >= RecvSize(r) THEN "recv2" ELSE "getall")
           ELSE /\ th' = [th EXCEPT ![t].errno = "none"]
                /\ Goto(t, "getall")
                /\ UNCHANGED peer
        /\ UNCHANGED <<shared, main>>

ReadMore(t) ==
    LET size == AvailableSpace(th[t].rb)
    IN  /\ At(t, "recv2")
        /\ \E k \in -1 .. size :
             /\ RecvReturns(peer[th[t].conn], size, k)
             /\ Received(t, k)
        /\ Goto(t, "getall")
        /\ UNCHANGED <<shared, main>>

\* RingBuffer_get_all; a refusal is NULL and clears errno.
GetAll(t) ==
    LET r == th[t].rb
        n == AvailableData(r)
    IN  /\ At(t, "getall")
        /\ th' = IF n > 0 /\ ~WrongLengthNoticed(GetsBytes(r, n), n)
                 THEN [th EXCEPT ![t].data = GetsBytes(r, n), ![t].rb = CommitRead(r, n),
                                 ![t].taken = @ + Len(GetsBytes(r, n))]
                 ELSE [th EXCEPT ![t].data = None, ![t].errno = "none"]
        /\ Goto(t, "lock")
        /\ UNCHANGED <<shared, main, peer>>

-----------------------------------------------------------------------------
(* client_process: process_request under the mutex, the reply, the end *)

\* Mutant of LockFree: the mutex is not there.
LockFreeAlways == TRUE

LockFree == lock = None

Lock(t) == /\ At(t, "lock") /\ LockFree
           /\ lock' = t
           /\ Goto(t, "call")
           /\ UNCHANGED <<th, tree, serial, hadRoot, main, peer>>

\* process_request reads *root ...
Call(t) == /\ At(t, "call")
           /\ hadRoot' = [hadRoot EXCEPT ![t] = tree.root]
           /\ Goto(t, "back")
           /\ UNCHANGED <<th, lock, tree, serial, main, peer>>

\* What t's data may be taken for: nothing without data, the request it is
\* the bytes of, and otherwise (a request cut short, two in one recv, bytes
\* from outside the ring) a wrong format or a request about another URL.
Requests(t) ==
    LET script == Script[th[t].conn]
        Message(k) == [i \in 1 .. MessageLength |-> (k - 1) * MessageLength + i]
        whole == {k \in DOMAIN script : th[t].data = Message(k)}
    IN  IF th[t].data = None THEN {[op |-> "none", url |-> None]}
        ELSE IF whole # {} THEN {script[k] : k \in whole}
        ELSE {[op |-> op, url |-> None] : op \in {"wrong", "create"}}

\* The URLs after a request; a create that was given no root makes a tree of
\* its own.
Applied(r, hasRoot, urls) ==
    CASE r.op = "create" -> (IF hasRoot THEN urls ELSE {}) \cup {r.url}
      [] r.op = "delete" -> urls \ {r.url}
      [] OTHER -> urls

\* A check() of the request fails, and clears errno: a duplicate in
\* TSTree_delim_insert, an unknown URL in read_request.
CheckFails(r, urls) == \/ r.op = "create" /\ r.url \in urls
                       \/ r.op = "read" /\ r.url \notin urls

\* ... and a create stores the root it gets back.
Back(t) == /\ At(t, "back")
           /\ \E r \in Requests(t) :
                /\ tree' = [root |-> tree.root \/ r.op = "create",
                            urls |-> Applied(r, hadRoot[t], tree.urls)]
                /\ serial' = Applied(r, TRUE, serial)
                /\ th' = IF CheckFails(r, tree.urls) THEN [th EXCEPT ![t].errno = "none"] ELSE th
           /\ Goto(t, "unlock")
           /\ UNCHANGED <<lock, hadRoot, main, peer>>

\* Mutant of Unlock: the mutex stays taken.
UnlockForgets(t) == /\ At(t, "unlock")
                    /\ Goto(t, "send")
                    /\ UNCHANGED <<th, shared, main, peer>>

Unlock(t) == /\ At(t, "unlock")
             /\ lock' = None
             /\ Goto(t, "send")
             /\ UNCHANGED <<th, tree, serial, hadRoot, main, peer>>

\* send reports a pending error first, and EPIPE once the connection is down.
SendErrno(p) == IF p.err # "none" THEN p.err ELSE IF p.reset THEN "EPIPE" ELSE "none"

\* Mutant of LoopEnds: the loop has no condition.
LoopEndsNever(errno) == FALSE

\* while(errno != EPIPE)
LoopEnds(errno) == errno = "EPIPE"

\* send, the loop's test, and close and pthread_exit when it ends the loop.
Send(t) ==
    LET c == th[t].conn
        e == IF SendErrno(peer[c]) = "none" THEN th[t].errno ELSE SendErrno(peer[c])
    IN  /\ At(t, "send")
        /\ th' = [th EXCEPT ![t].errno = e, ![t].data = None]
        /\ Goto(t, IF LoopEnds(e) THEN "done" ELSE "recv")
        /\ peer' = IF SendErrno(peer[c]) = "none"
                   THEN [peer EXCEPT ![c].poked = (peer[c].state = "gone")]
                   ELSE [peer EXCEPT ![c].err = "none"]
        /\ UNCHANGED <<shared, main>>

-----------------------------------------------------------------------------
(* The clients and TCP, as the server sees them *)

Peer(c, p) == peer' = [peer EXCEPT ![c] = p] /\ UNCHANGED <<pc, th, shared, main>>

Connect(c) == /\ peer[c].state = "out"
              /\ Peer(c, [peer[c] EXCEPT !.state = "up"])

\* One more request; recv may see it in pieces, or together with the next.
SendRequest(c) == /\ peer[c].state = "up"
                  /\ peer[c].sent < Len(Script[c]) * MessageLength
                  /\ Peer(c, [peer[c] EXCEPT !.sent = @ + MessageLength])

\* shutdown(SHUT_WR) leaves a stream that ends but can be sent to; close ends
\* both ways.
Finish(c, state) == /\ peer[c].state \in {"up", "half"} \ {state}
                    /\ Peer(c, [peer[c] EXCEPT !.state = state, !.fin = TRUE])

\* A reset; what has not arrived by then is lost.
Abort(c) == /\ peer[c].state \in {"up", "half"}
            /\ \E n \in peer[c].rcvd .. peer[c].sent :
                 Peer(c, [peer[c] EXCEPT !.state = "gone", !.sent = n, !.reset = TRUE,
                                         !.err = IF peer[c].fin THEN "EPIPE" ELSE "ECONNRESET"])

\* A closed socket answers what is sent to it with a reset.
DeliverReset(c) == /\ peer[c].poked /\ ~peer[c].reset
                   /\ Peer(c, [peer[c] EXCEPT !.reset = TRUE, !.err = "EPIPE", !.poked = FALSE])

-----------------------------------------------------------------------------
Main(t) == CreateThread(t) \/ Join(t)

Work(t) == \/ Accept(t) \/ ReadSome(t) \/ ReadMore(t) \/ GetAll(t)
           \/ Lock(t) \/ Call(t) \/ Back(t) \/ Unlock(t) \/ Send(t)

Client(c) == \/ Connect(c) \/ SendRequest(c) \/ Abort(c)
             \/ \E state \in {"half", "gone"} : Finish(c, state)

Next == /\ ~exited
        /\ \/ \E t \in Threads : Main(t) \/ Work(t) \/ AcceptFails(t)
           \/ \E c \in Clients : Client(c) \/ DeliverReset(c)

Spec == Init /\ [][Next]_vars

\* The scheduler runs main and every thread, and the network delivers what it
\* owes.  Nothing is assumed of the clients or of which thread gets the mutex.
Fairness == /\ \A t \in Threads : /\ WF_vars(~exited /\ Main(t))
                                  /\ WF_vars(~exited /\ Work(t))
            /\ \A c \in Clients : WF_vars(~exited /\ DeliverReset(c))

FairSpec == Spec /\ Fairness

-----------------------------------------------------------------------------
TypeOK ==
    /\ \A t \in Threads :
         /\ pc[t] \in {"new", "accept", "recv", "recv2", "getall", "lock", "call", "back",
                       "unlock", "send", "done"}
         /\ hadRoot[t] \in BOOLEAN
         /\ th[t].conn \in Clients \cup {None}
         /\ th[t].rb.start \in Cell
         /\ th[t].rb.end \in -1 .. Length - 1
         /\ th[t].rb.looped \in {0, 1}
         /\ th[t].errno \in {"none", "ECONNRESET", "EPIPE"}
    /\ lock \in Threads \cup {None}
    /\ joined \subseteq {t \in Threads : At(t, "done")}
    /\ \A c \in Clients : peer[c].rcvd <= peer[c].sent

\* Between lock and unlock (stats_server.c:53-56) there is one thread, the
\* holder: process_request never runs twice at once on the shared tree.
InProcess(t) == pc[t] \in {"call", "back", "unlock"}

MutualExclusion == \A t \in Threads : InProcess(t) <=> lock = t

\* The tree holds what the requests leave in it one after the other: no
\* create is lost, though each reads *root, works on it and stores it again.
Serialized == tree.urls = serial

\* By the time a thread asks for the mutex every byte that came in has been
\* given to it once, unless the connection is reset (the -1 of a recv can make
\* the ring forget one), and its data are the last ones given, in order; only
\* a byte get_all took from past the array's end may differ from the one sent.
InStep ==
    \A t \in Threads : At(t, "lock") =>
        LET data == th[t].data
            p == peer[th[t].conn]
        IN  /\ th[t].taken = p.rcvd \/ p.reset
            /\ data # None => \A i \in DOMAIN data :
                                data[i] \in {th[t].taken - Len(data) + i, Junk}

\* Every recv that brings bytes stores them inside the array and over nothing
\* unread, although read_some commits the -1 of a failed recv like a count
\* (server.c:30): the send that follows ends the loop before end = -1 is used.
RecvInBounds ==
    \A t \in Threads :
        LET r == th[t].rb
            size == IF At(t, "recv") THEN RecvSize(r) ELSE AvailableSpace(r)
        IN  (At(t, "recv") \/ At(t, "recv2")) /\ peer[th[t].conn].sent > peer[th[t].conn].rcvd
              => r.end \in Cell /\ r.end + size <= Length /\ size <= AvailableSpace(r)

\* What a thread, a client and a ring hold is what they may hold, and no recv
\* that brings bytes is given a length that overruns the array or what is
\* unread, though a failed one moves end back by one (server.c:30).
RingsInBounds == TypeOK /\ RecvInBounds

-----------------------------------------------------------------------------
Served(c) == \E t \in Threads : th[t].conn = c /\ ~At(t, "done")

\* A client that has closed one way only keeps its thread going round: recv
\* returns 0, "no argument sent" is sent, and the mutex, which nothing makes
\* fair, may go to that thread every time.
Spinning == \E c \in Clients : peer[c].state = "half" /\ Served(c)

\* A client that has gone away gets its thread out of the loop and to the
\* join in main (log_server_project:24-25), unless one spins for ever.
GoneIsReleased == <>[]~Spinning =>
    \A c \in Clients : peer[c].state = "gone" /\ Served(c) ~> exited \/ ~Served(c)

\* What a client that stays has sent is read, processed and answered, unless
\* its thread waits in the second recv of read_some with it in the ring.
Pending(c) ==
    \/ peer[c].sent > peer[c].rcvd
    \/ \E t \in Threads : th[t].conn = c /\ (th[t].data # None \/ AvailableData(th[t].rb) > 0)

SentIsAnswered == <>[]~Spinning =>
    \A c \in Clients : Served(c) /\ Pending(c) ~>
        \/ exited \/ peer[c].state = "gone" \/ ~Pending(c)
        \/ \E t \in Threads : th[t].conn = c /\ At(t, "recv2")

\* Once every slot has had its client and all of those have gone, main's
\* joins return and the process exits.
ServerEnds ==
    (\A t \in Threads : \E c \in Clients : th[t].conn = c /\ peer[c].state = "gone") ~> exited

\* "Maximum 10 clients at the same time" (README.md:5): while fewer clients
\* than that are served, one that waits has a thread to wait for.
FreeSlotAccepts ==
    Waiting # {} /\ Cardinality({c \in Clients : Served(c)}) < Cardinality(Threads)
        => \E t \in Threads : At(t, "new") \/ At(t, "accept")

=============================================================================
