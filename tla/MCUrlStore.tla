----------------------------- MODULE MCUrlStore -----------------------------
(***************************************************************************)
(* URLs for the requests of UrlStore.  Characters: 1 is '/', 2 'a', 3 'b', *)
(* 4 'c'.                                                                  *)
(***************************************************************************)
EXTENDS UrlStore

\* "a/b/c" and "a/b/", the URLs of the debug() calls.
abc == <<2, 1, 3, 1, 4>>
ab == <<2, 1, 3, 1>>

\* With these "a", a node on their way; "c/" and "c/a", which a walk to the
\* others passes or not, depending on which came first.
AllUrls == {abc, ab, <<2>>, <<4, 1>>, <<4, 1, 2>>}

\* Two URLs below "a/b/" and one below "a/".
SumUrls == {abc, <<2, 1, 3, 1, 2>>, <<2, 1, 2>>}

DelimUrls == {abc, ab}

OneSampling == {<<2>>}
SomeSamplings == {<<2>>, <<4, 6>>}
=============================================================================
