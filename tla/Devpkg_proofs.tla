--------------------------- MODULE Devpkg_proofs ---------------------------
(***************************************************************************)
(* devpkg's records are a part of what it installed, in order, and no run  *)
(* of any command, killed anywhere, loses a record or throws away a        *)
(* package that has not been installed.                                    *)
(*                                                                         *)
(* RecordsFollowInstalls is not inductive: the step that flushes the       *)
(* record has to know that the last install is the one it is of and that   *)
(* no record is of it yet.  IInv keeps that from INSTALL_SH on, through    *)
(* the cleanup and the buffer of fwrite, to the exit.                      *)
(***************************************************************************)
EXTENDS Devpkg, SequenceTheorems, TLAPS

-----------------------------------------------------------------------------
(* Sequences of URLs, and what is left of them.                            *)

LEMMA FrontOfAppended ==
    ASSUME NEW s \in Seq(Url), NEW x \in Url
    PROVE  /\ Append(s, x) \in Seq(Url) /\ Append(s, x) # <<>>
           /\ Len(Append(s, x)) = Len(s) + 1
           /\ Last(Append(s, x)) = x /\ Front(Append(s, x)) = s
  BY DEF Last, Front

LEMMA FrontAndLast ==
    ASSUME NEW s \in Seq(Url), s # <<>>
    PROVE  /\ Front(s) \in Seq(Url) /\ Last(s) \in Url
           /\ Len(Front(s)) = Len(s) - 1
           /\ s = Append(Front(s), Last(s))
<1>1. Len(s) \in Nat /\ Len(s) # 0 /\ \A i \in 1 .. Len(s) : s[i] \in Url
  BY EmptySeq, ElementOfSeq
<1>2. /\ Front(s) \in Seq(Url) /\ Len(Front(s)) = Len(s) - 1
      /\ \A i \in 1 .. Len(s) - 1 : Front(s)[i] = s[i]
  <2>1. PICK n \in Nat : Len(s) = n + 1
    <3>1. \A k \in Nat : k # 0 => (k - 1 \in Nat /\ k = (k - 1) + 1)  OBVIOUS
    <3>2. QED  BY <1>1, <3>1
  <2>2. Front(s) = SubSeq(s, 1, n)  BY <2>1 DEF Front
  <2>3. \A i \in 1 .. n : s[i] \in Url  BY <1>1, <2>1
  <2>4. /\ SubSeq(s, 1, n) \in Seq(Url)
        /\ Len(SubSeq(s, 1, n)) = IF 1 <= n THEN n - 1 + 1 ELSE 0
        /\ \A i \in 1 .. n - 1 + 1 : SubSeq(s, 1, n)[i] = s[1 + i - 1]
    BY <2>3, SubSeqProperties
  <2>5. QED  BY <2>1, <2>2, <2>4
<1>3. Last(s) \in Url /\ Last(s) = s[Len(s)]
  BY <1>1 DEF Last
<1>4. s = Append(Front(s), Last(s))
  <2> DEFINE t == Append(Front(s), Last(s))
  <2>1. t \in Seq(Url) /\ Len(t) = Len(s)
    BY <1>1, <1>2, <1>3
  <2>2. \A i \in 1 .. Len(s) : s[i] = t[i]
    BY <1>1, <1>2, <1>3
  <2> HIDE DEF t
  <2>3. s = t  BY <2>1, <2>2, SeqEqual
  <2>4. QED  BY <2>3 DEF t
<1>5. QED  BY <1>2, <1>3, <1>4

\* A file that is there is not None.
LEMMA FileIsThere ==
    ASSUME NEW s \in Seq(Url), Len(s) <= MaxRecords
    PROVE  s # None
<1>1. Len(s) \in 0 .. MaxRecords /\ s \in [1 .. Len(s) -> Url]
  BY LenProperties, MaxRecordsAssumption
<1>2. QED  BY <1>1, NoneAssumption

LEMMA NothingFollows ==
    ASSUME NEW s \in Seq(Url)
    PROVE  Follows(<<>>, s)
<1> DEFINE place == [i \in 1 .. Len(<<>>) |-> 1]
<1>1. \A i \in 1 .. Len(<<>>) : FALSE  OBVIOUS
<1>2. place \in [1 .. Len(<<>>) -> 1 .. Len(s)]  BY <1>1
<1>3. QED  BY <1>1, <1>2 DEF Follows

LEMMA FollowsMore ==
    ASSUME NEW r \in Seq(Url), NEW s \in Seq(Url), NEW x \in Url, Follows(r, s)
    PROVE  Follows(r, Append(s, x))
<1>1. PICK place \in [1 .. Len(r) -> 1 .. Len(s)] :
           /\ \A i \in 1 .. Len(r) : r[i] = s[place[i]]
           /\ \A i, j \in 1 .. Len(r) : i < j => place[i] < place[j]
  BY DEF Follows
<1>2. place \in [1 .. Len(r) -> 1 .. Len(Append(s, x))]
  BY <1>1
<1>3. \A i \in 1 .. Len(r) : r[i] = Append(s, x)[place[i]]
  BY <1>1
<1>4. QED  BY <1>1, <1>2, <1>3 DEF Follows

LEMMA BothFollow ==
    ASSUME NEW r \in Seq(Url), NEW s \in Seq(Url), NEW x \in Url, Follows(r, s)
    PROVE  Follows(Append(r, x), Append(s, x))
<1>1. PICK place \in [1 .. Len(r) -> 1 .. Len(s)] :
           /\ \A i \in 1 .. Len(r) : r[i] = s[place[i]]
           /\ \A i, j \in 1 .. Len(r) : i < j => place[i] < place[j]
  BY DEF Follows
<1> DEFINE R == Append(r, x)
           S == Append(s, x)
           further == [i \in 1 .. Len(R) |-> IF i = Len(R) THEN Len(S) ELSE place[i]]
<1>2. /\ Len(R) = Len(r) + 1 /\ Len(S) = Len(s) + 1
      /\ Len(r) \in Nat /\ Len(s) \in Nat
  OBVIOUS
<1>3. further \in [1 .. Len(R) -> 1 .. Len(S)]
  BY <1>1, <1>2
<1>4. \A i \in 1 .. Len(R) : R[i] = S[further[i]]
  BY <1>1, <1>2
<1>5. \A i, j \in 1 .. Len(R) : i < j => further[i] < further[j]
  <2> SUFFICES ASSUME NEW i \in 1 .. Len(R), NEW j \in 1 .. Len(R), i < j
               PROVE  further[i] < further[j]
    OBVIOUS
  <2>1. i \in 1 .. Len(r) /\ further[i] = place[i] /\ place[i] \in 1 .. Len(s)
    BY <1>1, <1>2
  <2>2. CASE j = Len(R)  BY <1>2, <2>1, <2>2
  <2>3. CASE j # Len(R)
    <3>1. j \in 1 .. Len(r) /\ further[j] = place[j]  BY <1>2, <2>3
    <3>2. QED  BY <1>1, <2>1, <3>1
  <2>4. QED  BY <2>2, <2>3
<1>6. QED  BY <1>3, <1>4, <1>5 DEF Follows

-----------------------------------------------------------------------------
(* The steps of a run.                                                     *)

LEMMA InitIInv == Init => IInv
<1> SUFFICES ASSUME Init PROVE IInv  OBVIOUS
<1> USE DEF Init
<1>1. TypeOK
  <2>1. archive \in [{"gz", "bz2"} -> Url \cup {None}]  OBVIOUS
  <2>2. <<>> \in Seq(Url)  BY EmptySeq
  <2>3. QED  BY <2>1, <2>2 DEF TypeOK
<1>2. RecordsFollowInstalls  BY DEF RecordsFollowInstalls
<1>3. Pending  BY DEF Pending
<1>4. Bounded  BY MaxRecordsAssumption DEF Bounded
<1>5. QED  BY <1>1, <1>2, <1>3, <1>4 DEF IInv

\* A step that installs and records nothing leaves the three other parts of
\* the invariant alone, if it ends where they ask for nothing.
LEMMA QuietStep ==
    ASSUME IInv, UNCHANGED <<db, installs, url>>,
           buffered' = None \/ (UNCHANGED buffered /\ pc' = pc),
           pc' \in {"cleanup", "record"} => pc \in {"cleanup", "record"},
           pc' \in {"gz", "bz2", "untar"} => Kind[url'] \in {"gz", "bz2"},
           pc' \in {"cleanup first", "cleanup last"} => request' = "install",
           pc' \in {"access", "make", "install"} => pc \in {"access", "make", "install"}
    PROVE  RecordsFollowInstalls' /\ Pending' /\ Bounded'
  BY DEF IInv, RecordsFollowInstalls, Pending, Bounded, LastIsUnrecorded

\* The types are kept by every step.
LEMMA StepTypeOK == IInv /\ [Next]_vars => TypeOK'
<1> SUFFICES ASSUME TypeOK, Pending, Next PROVE TypeOK'
  <2>1. IInv /\ UNCHANGED vars => TypeOK'  BY DEF IInv, TypeOK, vars
  <2>2. QED  BY <2>1 DEF IInv
<1>a. archive' = [k \in {"gz", "bz2"} |-> None] => archive' \in [{"gz", "bz2"} -> Url \cup {None}]
  OBVIOUS
<1> USE DEF Go, Works, Fails, files
<1>1. ASSUME NEW req \in {"install", "fetch", "build", "init"}, NEW u \in Url, Start(req, u)
      PROVE  TypeOK'
  BY <1>1 DEF Start, TypeOK
<1>2. CASE Exit
  <2>1. db' \in {None} \cup Seq(Url)
    <3>1. CASE buffered = None  BY <1>2, <3>1 DEF Exit, TypeOK
    <3>2. CASE buffered # None
      <4>1. buffered \in Url /\ db \in Seq(Url)  BY <3>2 DEF TypeOK, Pending
      <4>2. Append(db, buffered) \in Seq(Url)  BY <4>1, FrontOfAppended
      <4>3. QED  BY <1>2, <3>2, <4>2 DEF Exit
    <3>3. QED  BY <3>1, <3>2
  <2>2. QED  BY <1>2, <2>1 DEF Exit, TypeOK
<1>3. CASE Killed  BY <1>3 DEF Killed, TypeOK
<1>4. CASE DB_init
  <2>1. db' \in {None} \cup Seq(Url)  BY <1>4, EmptySeq DEF DB_init, TypeOK
  <2>2. QED  BY <1>4, <2>1 DEF DB_init, TypeOK
<1>5. CASE DB_update
  <2>1. db' \in {None} \cup Seq(Url)  BY <1>5, EmptySeq DEF DB_update, TypeOK
  <2>2. QED  BY <1>5, <2>1 DEF DB_update, TypeOK
<1>6. CASE Clone  BY <1>6 DEF Clone, TypeOK
<1>7. CASE Refuse  BY <1>7 DEF Refuse, TypeOK
<1>8. CASE Curl  BY <1>8 DEF Curl, TypeOK
<1>9. CASE Untar
  <2>1. archive[Kind[url]] \in Url \cup {None}  BY <1>9 DEF Untar, TypeOK, Pending
  <2>2. Unpacked \in SUBSET Url  BY <2>1 DEF Unpacked, TypeOK
  <2>3. tree' \in {None} \cup SUBSET Url  BY <1>9, <2>2 DEF Untar, TypeOK
  <2>4. failed' \in BOOLEAN  BY <1>9 DEF Untar
  <2>5. QED  BY <1>9, <2>3, <2>4 DEF Untar, TypeOK
<1>10. CASE Access  BY <1>10 DEF Access, TypeOK
<1>11. CASE Make  BY <1>11 DEF Make, TypeOK
<1>12. CASE Install
  <2>1. url \in Url  BY <1>12 DEF Install, TypeOK
  <2>2. installs' \in Seq(Url)  BY <1>12, <2>1, FrontOfAppended DEF Install, TypeOK
  <2>3. QED  BY <1>12, <2>2 DEF Install, TypeOK
<1>13. CASE Cleanup  BY <1>13, <1>a DEF Cleanup, Cleaned, TypeOK
<1>14. CASE CleanupFirst  BY <1>14, <1>a DEF CleanupFirst, Cleaned, TypeOK
<1>15. CASE CleanupLast  BY <1>15, <1>a DEF CleanupLast, Cleaned, TypeOK
<1>16. QED
  BY <1>1, <1>2, <1>3, <1>4, <1>5, <1>6, <1>7, <1>8, <1>9, <1>10, <1>11, <1>12, <1>13,
     <1>14, <1>15 DEF Next

\* A build that got through INSTALL_SH has a last install with no record.
LEMMA InstallPends ==
    ASSUME IInv, pc = "install", UNCHANGED <<db, url>>, installs' = Append(installs, url)
    PROVE  /\ RecordsFollowInstalls' /\ LastIsUnrecorded(url)'
           /\ Len(installs') <= MaxRecords /\ (db' # None => Len(db') <= Len(installs'))
<1>1. /\ installs \in Seq(Url) /\ url \in Url /\ Len(installs) \in Nat
      /\ Len(installs) < MaxRecords
  BY DEF IInv, TypeOK, Bounded
<1>2. /\ installs' # <<>> /\ Len(installs') = Len(installs) + 1
      /\ Last(installs') = url /\ Front(installs') = installs
  BY <1>1, FrontOfAppended
<1>3. /\ Len(installs') <= MaxRecords
      /\ db # None => Len(db) <= Len(installs') /\ Len(db) < Len(installs')
  <2>1. db # None => Len(db) \in Nat /\ Len(db) <= Len(installs)
    BY DEF IInv, TypeOK, Bounded
  <2>2. QED  BY <1>1, <1>2, <2>1, MaxRecordsAssumption
<1>4. db # None => Follows(db, installs) /\ Follows(db, installs')
  BY <1>1, FollowsMore DEF IInv, TypeOK, RecordsFollowInstalls
<1>5. RecordsFollowInstalls'  BY <1>4 DEF RecordsFollowInstalls
<1>6. LastIsUnrecorded(url)'
  <2>1. /\ installs' # <<>> /\ Last(installs') = url'
        /\ db' # None => Len(db') < Len(installs') /\ Follows(db', Front(installs'))
    BY <1>2, <1>3, <1>4
  <2>2. QED  BY <2>1 DEF LastIsUnrecorded
<1>7. QED  BY <1>3, <1>5, <1>6

\* What is flushed is the record of the last install.
LEMMA FlushFollows ==
    ASSUME IInv, buffered # None, db' = Append(db, buffered), installs' = installs
    PROVE  /\ RecordsFollowInstalls' /\ Len(db') <= Len(installs')
           /\ db \in Seq(Url) /\ db' \in Seq(Url) /\ db' # None
<1>1. /\ db # None /\ db \in Seq(Url) /\ buffered \in Url
      /\ installs \in Seq(Url) /\ Len(installs) \in Nat /\ Len(installs) <= MaxRecords
  BY DEF IInv, TypeOK, Pending, Bounded
<1>2. /\ installs # <<>> /\ Last(installs) = buffered
      /\ Len(db) < Len(installs) /\ Follows(db, Front(installs))
  BY <1>1 DEF IInv, Pending, LastIsUnrecorded
<1>3. Front(installs) \in Seq(Url) /\ installs = Append(Front(installs), buffered)
  BY <1>1, <1>2, FrontAndLast
<1>4. Follows(Append(db, buffered), Append(Front(installs), buffered))
  BY <1>1, <1>2, <1>3, BothFollow
<1>5. RecordsFollowInstalls'  BY <1>3, <1>4 DEF RecordsFollowInstalls
<1>6. db' \in Seq(Url) /\ Len(db') = Len(db) + 1 /\ Len(db) \in Nat
  BY <1>1, FrontOfAppended
<1>7. Len(db') <= Len(installs) /\ Len(db') <= MaxRecords
  BY <1>1, <1>2, <1>6, MaxRecordsAssumption
<1>8. QED  BY <1>1, <1>5, <1>6, <1>7, FileIsThere

\* A database that is made has no record.
LEMMA MadeFollows ==
    ASSUME IInv, installs' = installs, db = None \/ db' = db, db' = None \/ db' = <<>> \/ db' = db
    PROVE  /\ RecordsFollowInstalls'
           /\ db' # None => Len(db') <= Len(installs')
           /\ \A u : LastIsUnrecorded(u) => LastIsUnrecorded(u)'
<1>1. installs \in Seq(Url) /\ Len(installs) \in Nat  BY DEF IInv, TypeOK
<1>2. CASE db' = db
  BY <1>2 DEF IInv, RecordsFollowInstalls, Bounded, LastIsUnrecorded
<1>3. CASE db' = None
  BY <1>3 DEF RecordsFollowInstalls, LastIsUnrecorded
<1>4. CASE db' = <<>>
  <2>1. Len(db') = 0 /\ Follows(db', installs')
    BY <1>1, <1>4, EmptySeq, NothingFollows
  <2>2. ASSUME NEW u, LastIsUnrecorded(u) PROVE LastIsUnrecorded(u)'
    <3>1. installs # <<>> /\ Last(installs) = u  BY <2>2 DEF LastIsUnrecorded
    <3>2. Front(installs) \in Seq(Url) /\ Len(installs) # 0
      BY <1>1, <3>1, FrontAndLast, EmptySeq
    <3>3. Follows(db', Front(installs'))  BY <1>4, <3>2, NothingFollows
    <3>4. Len(db') < Len(installs')  BY <1>1, <2>1, <3>2
    <3>5. QED  BY <3>1, <3>3, <3>4 DEF LastIsUnrecorded
  <2>3. RecordsFollowInstalls'  BY <2>1 DEF RecordsFollowInstalls
  <2>4. Len(db') <= Len(installs')  BY <1>1, <2>1
  <2>5. QED  BY <2>2, <2>3, <2>4
<1>5. QED  BY <1>2, <1>3, <1>4

LEMMA StepIInv == IInv /\ [Next]_vars => IInv'
<1> SUFFICES ASSUME IInv, [Next]_vars PROVE RecordsFollowInstalls' /\ Pending' /\ Bounded'
  BY StepTypeOK DEF IInv
<1> USE DEF Go, Works, Fails, files
<1>1. ASSUME NEW req \in {"install", "fetch", "build", "init"}, NEW u \in Url, Start(req, u)
      PROVE  RecordsFollowInstalls' /\ Pending' /\ Bounded'
  <2>1. /\ UNCHANGED <<db, installs, buffered>> /\ pc = "idle" /\ buffered = None
        /\ request' = req /\ url' = u /\ Len(installs) < MaxRecords
    BY <1>1 DEF Start, IInv, Pending
  <2>2. /\ pc' \notin {"cleanup", "record", "untar", "cleanup last"}
        /\ pc' = "cleanup first" => req = "install"
        /\ pc' \in {"gz", "bz2"} => Kind[u] = pc'
    BY <1>1, KindAssumption DEF Start
  <2>3. Pending'  BY <2>1, <2>2 DEF Pending
  <2>4. RecordsFollowInstalls' /\ Bounded'
    BY <2>1 DEF IInv, RecordsFollowInstalls, Bounded
  <2>5. QED  BY <2>3, <2>4
<1>2. CASE Exit
  <2>1. pc' = "idle" /\ buffered' = None /\ installs' = installs  BY <1>2 DEF Exit
  <2>2. Pending'  BY <2>1 DEF Pending
  <2>3. CASE buffered = None
    BY <1>2, <2>1, <2>2, <2>3 DEF Exit, IInv, RecordsFollowInstalls, Bounded
  <2>4. CASE buffered # None
    <3>1. db' = Append(db, buffered)  BY <1>2, <2>4 DEF Exit
    <3>2. RecordsFollowInstalls' /\ Len(db') <= Len(installs')
      BY <2>1, <2>4, <3>1, FlushFollows
    <3>3. Bounded'  BY <2>1, <3>2 DEF IInv, Bounded
    <3>4. QED  BY <2>2, <3>2, <3>3
  <2>5. QED  BY <2>3, <2>4
<1>3. CASE Killed  BY <1>3, QuietStep DEF Killed
<1>4. CASE DB_init
  <2>1. /\ pc = "database" /\ pc' = "exit" /\ UNCHANGED <<installs, buffered>>
        /\ db' = db \/ (db = None /\ db' = <<>>)
    BY <1>4 DEF DB_init
  <2>2. buffered' = None  BY <2>1 DEF IInv, Pending
  <2>3. Pending'  BY <2>1, <2>2 DEF Pending
  <2>4. RecordsFollowInstalls' /\ (db' # None => Len(db') <= Len(installs'))
    BY <2>1, MadeFollows
  <2>5. QED  BY <2>1, <2>3, <2>4 DEF IInv, Bounded
<1>5. CASE DB_update
  <2>1. /\ pc = "record" /\ pc' = "exit" /\ UNCHANGED <<installs, url>>
        /\ db' = db \/ (db = None /\ db' = <<>>)
        /\ buffered' = None \/ (buffered' = url /\ db' # None)
    <3>1. buffered = None  BY <1>5 DEF DB_update, IInv, Pending
    <3>2. <<>> # None
      <4>1. <<>> \in Seq(Url) /\ Len(<<>>) <= MaxRecords  BY EmptySeq, MaxRecordsAssumption
      <4>2. QED  BY <4>1, FileIsThere
    <3>3. QED  BY <1>5, <3>1, <3>2 DEF DB_update
  <2>2. LastIsUnrecorded(url)  BY <2>1 DEF IInv, Pending
  <2>3. /\ RecordsFollowInstalls' /\ (db' # None => Len(db') <= Len(installs'))
        /\ LastIsUnrecorded(url)'
    <3>1. \A u : LastIsUnrecorded(u) => LastIsUnrecorded(u)'
      BY <2>1, MadeFollows
    <3>2. QED  BY <2>1, <2>2, <3>1, MadeFollows DEF LastIsUnrecorded
  <2>4. buffered' # None => LastIsUnrecorded(buffered)'
    BY <2>1, <2>3 DEF LastIsUnrecorded
  <2>5. Pending'  BY <2>1, <2>4 DEF Pending
  <2>6. QED  BY <2>1, <2>3, <2>5 DEF IInv, Bounded
<1>6. CASE Clone  BY <1>6, QuietStep DEF Clone, IInv, Pending
<1>7. CASE Refuse  BY <1>7, QuietStep DEF Refuse, IInv, Pending
<1>8. CASE Curl
  <2>1. pc \in {"gz", "bz2"} /\ UNCHANGED <<db, installs, url, buffered, request>>
        /\ pc' \in {"untar", "database"}
    BY <1>8 DEF Curl
  <2>2. buffered = None  BY <2>1 DEF IInv, Pending
  <2>3. Kind[url] \in {"gz", "bz2"}
    BY <2>1 DEF IInv, Pending
  <2>4. QED  BY <2>1, <2>2, <2>3, QuietStep
<1>9. CASE Untar  BY <1>9, QuietStep DEF Untar, IInv, Pending
<1>10. CASE Access  BY <1>10, QuietStep DEF Access, IInv, Pending
<1>11. CASE Make  BY <1>11, QuietStep DEF Make, IInv, Pending
<1>12. CASE Install
  <2>1. pc = "install" /\ UNCHANGED <<db, url, buffered>> /\ buffered = None
    BY <1>12 DEF Install, IInv, Pending
  <2>2. CASE pc' = "exit" /\ installs' = installs
    BY <2>1, <2>2, QuietStep
  <2>3. CASE pc' = "cleanup" /\ installs' = Append(installs, url)
    <3>1. /\ RecordsFollowInstalls' /\ LastIsUnrecorded(url)'
          /\ Len(installs') <= MaxRecords /\ (db' # None => Len(db') <= Len(installs'))
      BY <2>1, <2>3, InstallPends
    <3>2. QED  BY <2>1, <2>3, <3>1 DEF Pending, Bounded
  <2>4. QED  BY <1>12, <2>2, <2>3 DEF Install
<1>13. CASE Cleanup  BY <1>13, QuietStep DEF Cleanup, Cleaned, IInv, Pending
<1>14. CASE CleanupFirst  BY <1>14, QuietStep DEF CleanupFirst, Cleaned, IInv, Pending
<1>15. CASE CleanupLast  BY <1>15, QuietStep DEF CleanupLast, Cleaned, IInv, Pending
<1>16. CASE UNCHANGED vars
  BY <1>16 DEF vars, IInv, RecordsFollowInstalls, Pending, Bounded, LastIsUnrecorded
<1>17. QED
  BY <1>1, <1>2, <1>3, <1>4, <1>5, <1>6, <1>7, <1>8, <1>9, <1>10, <1>11, <1>12, <1>13,
     <1>14, <1>15, <1>16 DEF Next

LEMMA IInvAlways == Spec => []IInv
  BY InitIInv, StepIInv, PTL DEF Spec

-----------------------------------------------------------------------------
\* The records are a part of what was installed, in order: no record of a
\* build that failed or was killed before INSTALL_SH was through, and none
\* twice for one build (commands.c:93 to 96).
THEOREM AlwaysFollowsInstalls == Spec => []RecordsFollowInstalls
<1>1. IInv => RecordsFollowInstalls  BY DEF IInv
<1>2. QED  BY <1>1, IInvAlways, PTL

\* Only the flush on the way out of main adds to a database that is there,
\* and it adds at the end.
LEMMA StepKeepsRecords ==
    IInv /\ [Next]_vars => (db # None => db' # None /\ IsPrefix(db, db'))
<1> SUFFICES ASSUME IInv, [Next]_vars, db # None PROVE db' # None /\ IsPrefix(db, db')
  OBVIOUS
<1>1. db \in Seq(Url)  BY DEF IInv, TypeOK
<1>2. CASE db' = db
  <2>1. IsPrefix(db, db)  BY <1>1 DEF IsPrefix
  <2>2. QED  BY <1>2, <2>1
<1>3. CASE Exit /\ buffered # None
  <2>1. db' = Append(db, buffered) /\ installs' = installs  BY <1>3 DEF Exit
  <2>2. db' # None /\ buffered \in Url
    BY <1>3, <2>1, FlushFollows DEF IInv, TypeOK
  <2>3. IsPrefix(db, Append(db, buffered))  BY <1>1, <2>2 DEF IsPrefix
  <2>4. QED  BY <2>1, <2>2, <2>3
<1>4. db' = db \/ (Exit /\ buffered # None)
  BY DEF Next, vars, files, Go, Works, Fails, Start, Exit, Killed, DB_init, DB_update, Clone,
         Refuse, Curl, Untar, Access, Make, Install, Cleanup, CleanupFirst, CleanupLast, Cleaned
<1>5. QED  BY <1>2, <1>3, <1>4

\* Only CLEANUP_SH takes packages away: in -B after INSTALL_SH, when the last
\* install is the one asked for, and in -I.
LEMMA StepKeepsFetched ==
    IInv /\ [Next]_vars =>
        (tree # None /\ tree' = None =>
            request = "install" \/ (Len(installs) > 0 /\ Last(installs) = url))
<1> SUFFICES ASSUME IInv, [Next]_vars, tree # None, tree' = None
             PROVE  request = "install" \/ (Len(installs) > 0 /\ Last(installs) = url)
  OBVIOUS
<1>1. CASE Cleanup
  <2>1. LastIsUnrecorded(url) /\ installs \in Seq(Url)
    BY <1>1 DEF Cleanup, IInv, Pending, TypeOK
  <2>2. QED  BY <2>1, EmptySeq DEF LastIsUnrecorded
<1>2. CASE CleanupFirst \/ CleanupLast
  BY <1>2 DEF CleanupFirst, CleanupLast, IInv, Pending
<1>3. CASE Untar
  <2>1. archive[Kind[url]] \in Url \cup {None} /\ tree \in SUBSET Url
    BY <1>3 DEF Untar, IInv, TypeOK, Pending
  <2>2. Unpacked \in SUBSET Url  BY <2>1 DEF Unpacked
  <2>3. tree' = Unpacked \/ tree' = tree  BY <1>3 DEF Untar
  <2>4. tree' \in SUBSET Url  BY <2>1, <2>2, <2>3
  <2>5. QED  BY <2>4, NoneAssumption
<1>4. Cleanup \/ CleanupFirst \/ CleanupLast \/ Untar
  BY DEF Next, vars, files, Go, Works, Fails, Start, Exit, Killed, DB_init, DB_update, Clone,
         Refuse, Curl, Untar, Access, Make, Install, Cleanup, CleanupFirst, CleanupLast
<1>5. QED  BY <1>1, <1>2, <1>3, <1>4

\* However a run ends, it loses no record, and what was fetched stays until
\* it has been installed or -I throws it away (db.c:74, commands.c:104).
THEOREM FilesKept == Spec => FilesAreKept
<1>1. IInv /\ [Next]_vars => [db # None => db' # None /\ IsPrefix(db, db')]_vars
  BY StepKeepsRecords
<1>2. IInv /\ [Next]_vars =>
          [tree # None /\ tree' = None =>
               request = "install" \/ (Len(installs) > 0 /\ Last(installs) = url)]_vars
  BY StepKeepsFetched
<1>3. QED  BY <1>1, <1>2, IInvAlways, PTL DEF Spec, FilesAreKept, RecordsKept, FetchedIsKept
=============================================================================
