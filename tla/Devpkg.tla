------------------------------- MODULE Devpkg -------------------------------
(***************************************************************************)
(* devpkg (src/devpkg): one program run at a time, over the files it       *)
(* leaves behind in /tmp and in /usr/local/.devpkg.  A step is one shell   *)
(* command, or one use of the database; the program may be killed before   *)
(* any of them, and any command may fail.                                  *)
(*                                                                         *)
(* The macro check(A) is if((!A)), so that "check(rc != -1)" of            *)
(* Command_install fails for every rc: what follows line 106 there,        *)
(* Command_depends included, is never run.                                 *)
(***************************************************************************)
EXTENDS Integers, Sequences, SequencesExt

CONSTANTS Url,          \* what is named on the command line
          Kind,         \* of a URL: "git", "gz", "bz2", "depends" or "other"
          Remote,       \* the URLs with a scheme
          None,         \* nothing there
          MaxRecords    \* bound on the installs recorded

ASSUME KindAssumption == Kind \in [Url -> {"git", "gz", "bz2", "depends", "other"}]
ASSUME RemoteAssumption == Remote \subseteq Url
ASSUME MaxRecordsAssumption == MaxRecords \in Nat
ASSUME NoneAssumption ==
    /\ None \notin Url /\ \A S \in SUBSET Url : S # None
    /\ \A n \in 0 .. MaxRecords : \A s \in [1 .. n -> Url] : s # None

VARIABLES tree,         \* the packages unpacked in BUILD_DIR, None if it is missing
          archive,      \* the package in TAR_GZ_SRC and in TAR_BZ2_SRC, or None
          dbDir, db,    \* DB_DIR exists; the lines of DB_FILE, None if it is missing
          buffered,     \* the line fwrite holds until the program exits, or None
          request, url, \* of the running program
          pc,           \* what it does next
          failed,       \* some command of this run failed
          installs      \* the URLs given to each run that got through INSTALL_SH

vars == <<tree, archive, dbDir, db, buffered, request, url, pc, failed, installs>>
files == <<tree, archive, dbDir, db>>

Init == /\ tree = None /\ archive = [k \in {"gz", "bz2"} |-> None]
        /\ dbDir = FALSE /\ db = None
        /\ buffered = None /\ pc = "idle" /\ request = None /\ url = None
        /\ failed = FALSE /\ installs = <<>>

Go(next) == pc' = next /\ UNCHANGED <<request, url, installs, buffered>>

\* Shell_exec returns what the command's exit code says; a command that
\* fails may have done nothing.
Works(next) == Go(next) /\ UNCHANGED failed
Fails(next) == Go(next) /\ failed' = TRUE /\ UNCHANGED files

-----------------------------------------------------------------------------
(* main *)

Start(req, u) ==
    /\ pc = "idle" /\ Len(installs) < MaxRecords
    /\ request' = req /\ url' = u /\ failed' = FALSE
    /\ pc' = CASE req = "install" -> "cleanup first"
               [] req = "fetch" -> Kind[u]
               [] req = "build" -> "access"
               [] req = "init" -> "database"
    /\ UNCHANGED <<files, buffered, installs>>

\* Returning from main flushes the file that DB_update did not close.
Exit == /\ pc = "exit"
        /\ db' = IF buffered = None THEN db ELSE Append(db, buffered)
        /\ buffered' = None /\ pc' = "idle"
        /\ UNCHANGED <<tree, archive, dbDir, request, url, failed, installs>>

Killed == /\ pc # "idle"
          /\ pc' = "idle" /\ buffered' = None /\ failed' = TRUE
          /\ UNCHANGED <<files, request, url, installs>>

-----------------------------------------------------------------------------
(* db.c *)

\* The directory is made first, then the file; neither is touched when it is
\* there.
DB_init ==
    /\ pc = "database"
    /\ \/ dbDir' = TRUE /\ db' = (IF db = None THEN <<>> ELSE db) /\ Works("exit")
       \/ dbDir' = TRUE /\ ~dbDir /\ Go("exit") /\ failed' = TRUE /\ UNCHANGED db
       \/ Fails("exit")
    /\ UNCHANGED <<tree, archive>>

\* The answer of DB_find is logged only: a line may be recorded twice.
DB_update ==
    /\ pc = "record"
    /\ \/ /\ dbDir
          /\ db' = (IF db = None THEN <<>> ELSE db)
          /\ buffered' = url /\ pc' = "exit"
          /\ UNCHANGED <<tree, archive, dbDir, request, url, failed, installs>>
       \/ Fails("exit")

-----------------------------------------------------------------------------
(* Command_fetch *)

\* CLEANUP_SH
Cleaned == tree' = None /\ archive' = [k \in {"gz", "bz2"} |-> None] /\ UNCHANGED <<dbDir, db>>

\* GIT_SH: git clones into a directory of its own only.
Clone == /\ pc = "git"
         /\ \/ tree = None /\ tree' = {url} /\ Works("database") /\ UNCHANGED <<archive, dbDir, db>>
            \/ Fails("database")

\* -F refuses a DEPENDS file and a name it knows no command for.
Refuse == pc \in {"depends", "other"} /\ Fails("database")

\* CURL_SH, for a URL with a scheme; without one the archive of an earlier
\* run is taken as it is.
Curl == /\ pc \in {"gz", "bz2"}
        /\ \/ /\ archive' = [archive EXCEPT ![pc] = IF url \in Remote THEN url ELSE @]
              /\ Works("untar") /\ UNCHANGED <<tree, dbDir, db>>
           \/ url \in Remote /\ Fails("database")

\* apr_dir_make_recursive and TAR_SH: an archive is unpacked over what is
\* there.  The result of tar is tested for .tar.bz2 only, but -F does the
\* same after either.
Unpacked == (IF tree = None THEN {} ELSE tree) \cup ({archive[Kind[url]]} \ {None})

Untar == /\ pc = "untar"
         /\ \/ tree' = Unpacked /\ failed' = (archive[Kind[url]] = None)
            \/ tree' = (IF tree = None THEN {} ELSE tree) /\ failed' = TRUE
            \/ tree' = tree /\ failed' = TRUE
         /\ Go("database") /\ UNCHANGED <<archive, dbDir, db>>

-----------------------------------------------------------------------------
(* Command_build and Command_install *)

Access == /\ pc = "access"
          /\ \/ tree # None /\ Works("make") /\ UNCHANGED files
             \/ Fails("exit")

\* CONFIGURE_SH, where there is a script, and MAKE_SH.
Make == /\ pc = "make"
        /\ \/ Works("install") /\ UNCHANGED files
           \/ Fails("exit")

\* Mutant of Install: what INSTALL_SH returns is not looked at.
InstallUnchecked ==
    /\ pc = "install" /\ pc' = "cleanup"
    /\ \/ installs' = Append(installs, url) /\ UNCHANGED failed
       \/ UNCHANGED installs /\ failed' = TRUE
    /\ UNCHANGED <<files, buffered, request, url>>

\* INSTALL_SH
Install == /\ pc = "install"
           /\ \/ /\ installs' = Append(installs, url)
                 /\ pc' = "cleanup"
                 /\ UNCHANGED <<files, buffered, request, url, failed>>
              \/ Fails("exit")

\* Mutant of Cleanup: Command_build cleans up on its way out, too.
CleanupAlways == /\ pc \in {"cleanup", "make"}
                 /\ \/ Cleaned /\ Works("record")
                    \/ Fails("exit")

Cleanup == /\ pc = "cleanup"
           /\ \/ Cleaned /\ Works("record")
              \/ Fails("exit")

\* Command_install cleans up, asks DB_find and stops at line 106, where it
\* cleans up again.
CleanupFirst == /\ pc = "cleanup first"
                /\ \/ Cleaned /\ Works("cleanup last")
                   \/ Fails("cleanup last")

CleanupLast == /\ pc = "cleanup last"
               /\ \/ Cleaned /\ Works("exit")
                  \/ Fails("exit")

Next == \/ \E req \in {"install", "fetch", "build", "init"}, u \in Url : Start(req, u)
        \/ Exit \/ Killed
        \/ DB_init \/ DB_update
        \/ Clone \/ Refuse \/ Curl \/ Untar
        \/ Access \/ Make \/ Install \/ Cleanup \/ CleanupFirst \/ CleanupLast

Spec == Init /\ [][Next]_vars

-----------------------------------------------------------------------------
\* s is what is left of t when some of it is taken out.
Follows(s, t) == \E place \in [1 .. Len(s) -> 1 .. Len(t)] :
    /\ \A i \in 1 .. Len(s) : s[i] = t[place[i]]
    /\ \A i, j \in 1 .. Len(s) : i < j => place[i] < place[j]

\* The records are a part of the installs, in their order: a URL is never
\* recorded for a build that failed or was killed before INSTALL_SH was
\* through, nor twice for one build (commands.c:93 to 96).  The converse does
\* not hold: a program killed after it installed leaves no record.
RecordsFollowInstalls == db # None => Follows(db, installs)

\* No run of any command, however it ends, loses a record (db.c:74 opens the
\* file for writing).
RecordsKept == [][db # None => db' # None /\ IsPrefix(db, db')]_vars

\* What was fetched stays until it has been installed, so that a build that
\* failed can be tried again; only -I, which installs nothing, throws it away
\* (commands.c:104).
FetchedIsKept ==
    [][tree # None /\ tree' = None =>
          request = "install" \/ (Len(installs) > 0 /\ Last(installs) = url)]_vars

\* No run of devpkg loses a record, and what was fetched is thrown away only
\* when it has been installed, or by -I (db.c:74, commands.c:104).
FilesAreKept == RecordsKept /\ FetchedIsKept

-----------------------------------------------------------------------------
(* What makes RecordsFollowInstalls inductive.                             *)

TypeOK ==
    /\ tree \in {None} \cup SUBSET Url
    /\ archive \in [{"gz", "bz2"} -> Url \cup {None}]
    /\ dbDir \in BOOLEAN /\ db \in {None} \cup Seq(Url) /\ buffered \in Url \cup {None}
    /\ request \in {"install", "fetch", "build", "init", None}
    /\ url \in Url \cup {None} /\ (pc # "idle" => url \in Url)
    /\ failed \in BOOLEAN /\ installs \in Seq(Url)

\* The last install is one of u, and no record is of it.
LastIsUnrecorded(u) ==
    /\ installs # <<>> /\ Last(installs) = u
    /\ db # None => Len(db) < Len(installs) /\ Follows(db, Front(installs))

\* Between INSTALL_SH and the end of the run the last install waits for its
\* record, first on the way to DB_update and then in the buffer of fwrite;
\* only -F unpacks, and only -I cleans up twice.
Pending ==
    /\ pc \in {"cleanup", "record"} => LastIsUnrecorded(url)
    /\ buffered # None => pc = "exit" /\ db # None /\ LastIsUnrecorded(buffered)
    /\ pc \in {"gz", "bz2", "untar"} => Kind[url] \in {"gz", "bz2"}
    /\ pc \in {"cleanup first", "cleanup last"} => request = "install"

Bounded ==
    /\ Len(installs) <= MaxRecords /\ (db # None => Len(db) <= Len(installs))
    /\ pc \in {"access", "make", "install"} => Len(installs) < MaxRecords

IInv == TypeOK /\ RecordsFollowInstalls /\ Pending /\ Bounded

\* "install: devpkg -I <url>" (devpkg/README:6), once "devpkg -S" has made the
\* database (line 5): when -I of a package to be downloaded ends, no command of
\* it has failed and there is a database, which -I itself neither makes nor
\* removes, the URL is recorded as installed.
InstallInstalls ==
    /\ request = "install" /\ pc = "idle" /\ ~failed /\ db # None
    /\ url \in Remote /\ Kind[url] \in {"git", "gz", "bz2"}
    => Contains(db, url)
=============================================================================
