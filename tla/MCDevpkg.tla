------------------------------ MODULE MCDevpkg ------------------------------
(***************************************************************************)
(* What is named to devpkg: a repository, two archives of one kind, one of *)
(* another, and a file of URLs.  "c.gz" is an archive that is there        *)
(* already, "e" a file that names others.                                  *)
(***************************************************************************)
EXTENDS Devpkg

Urls == {"a.git", "b.gz", "c.gz", "d.bz2", "e"}
Kinds == [u \in Urls |-> CASE u = "a.git" -> "git" [] u = "d.bz2" -> "bz2"
                           [] u = "e" -> "depends" [] OTHER -> "gz"]

RemoteUrls == {"a.git", "b.gz", "d.bz2"}
=============================================================================
