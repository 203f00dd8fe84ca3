---------------------------- MODULE BstringSearch ----------------------------
(***************************************************************************)
(* The functions of src/src/lcthw/bstrlib.c that only look at their        *)
(* strings: comparing, searching, splitting and joining.  A string is the  *)
(* sequence of its bytes, a position counts from 0 as in the code, and     *)
(* BSTR_ERR is -1.  NULL and destroyed arguments are left out, and so are  *)
(* the shortcuts for two arguments that share their data.                  *)
(***************************************************************************)
EXTENDS Integers, SequencesExt

CONSTANTS Down,    \* tolower, a function on bytes
          Nul      \* the byte '\0'

BSTR_ERR == -1
Signed(c) == IF c > 127 THEN c - 256 ELSE c       \* (char) c
At(s, i) == s[i + 1]
Shorter(s, t) == IF Len(s) < Len(t) THEN Len(s) ELSE Len(t)
Lowered(s) == [i \in DOMAIN s |-> Down[s[i]]]

-----------------------------------------------------------------------------
(* Comparing *)

\* Mutant of Extra: an extra '\0' counts for nothing.
ExtraNone(c) == Signed(Down[c])

\* What an extra character counts for, when it decides.
Extra(c) == IF Down[c] = 0 THEN 256 ELSE Signed(Down[c])

bstricmp(s, t) ==
    LET n == Shorter(s, t)
        differ == {i \in 1 .. n : Down[s[i]] # Down[t[i]]}
        i == Min(differ)
    IN  IF differ # {} THEN Signed(Down[s[i]]) - Signed(Down[t[i]])
        ELSE IF Len(s) > n THEN Extra(s[n + 1])
        ELSE IF Len(t) > n THEN - Extra(t[n + 1])
        ELSE 0

\* The difference returned is of the characters as they are, not lowered.
bstrnicmp(s, t, n) ==
    LET m == Min({n, Len(s), Len(t)})
        differ == {i \in 1 .. m : Down[s[i]] # Down[t[i]]}
    IN  IF differ # {} THEN s[Min(differ)] - t[Min(differ)]
        ELSE IF n = m \/ Len(s) = Len(t) THEN 0
        ELSE IF Len(s) > m THEN Extra(s[m + 1]) ELSE - Extra(t[m + 1])

\* The comparison ends at a '\0' both have.
bstrcmp(s, t) ==
    LET n == Shorter(s, t)
        stop == {i \in 1 .. n : s[i] # t[i] \/ s[i] = Nul}
    IN  IF stop # {} THEN Signed(s[Min(stop)]) - Signed(t[Min(stop)])
        ELSE IF Len(s) > n THEN 1 ELSE IF Len(t) > n THEN -1 ELSE 0

bstrncmp(s, t, n) ==
    LET m == Min({n, Len(s), Len(t)})
        stop == {i \in 1 .. m : s[i] # t[i] \/ s[i] = Nul}
    IN  IF stop # {} THEN Signed(s[Min(stop)]) - Signed(t[Min(stop)])
        ELSE IF n = m \/ Len(s) = Len(t) THEN 0
        ELSE IF Len(s) > m THEN 1 ELSE -1

biseq(s, t) == s = t
biseqcaseless(s, t) == Lowered(s) = Lowered(t)
bisstemeqblk(s, t) == IsPrefix(t, s)
bisstemeqcaselessblk(s, t) == IsPrefix(Lowered(t), Lowered(s))

\* What t is as a C string: it ends before its first '\0'.
CString(t) ==
    LET nuls == {i \in DOMAIN t : t[i] = Nul}
    IN  IF nuls = {} THEN t ELSE SubSeq(t, 1, Min(nuls) - 1)

biseqcstr(s, t) == s = CString(t)
biseqcstrcaseless(s, t) == Lowered(s) = Lowered(CString(t))

-----------------------------------------------------------------------------
(* Searching *)

Occurs(s, p, t) == p >= 0 /\ p + Len(t) <= Len(s) /\ SubSeq(s, p + 1, p + Len(t)) = t

RECURSIVE Scan(_, _, _, _, _)

\* Mutant of Decided: after a failed match the scan goes on where it is.
DecidedOn(s, t, i, j, ii) == IF i = ii + j THEN ii ELSE Scan(s, t, i, 0, ii)

\* j characters of t have been met, the first at ii, the last before i: a
\* match if nothing else was in between, else back to the start of t.
Decided(s, t, i, j, ii) == IF i = ii + j THEN ii ELSE Scan(s, t, i - j, 0, ii)

\* binstr's loop, unrolled by two: it looks for the next character of t at i,
\* then at i + 1, and remembers in ii where the first one was.
Scan(s, t, i, j, ii) ==
    LET c == At(t, j)
        k == IF c # At(s, i) THEN i + 1 ELSE i
        first == IF j = 0 THEN k ELSE ii
    IN  IF i >= Len(s) - 1
        THEN IF i = Len(s) - 1 /\ Len(t) = j + 1 /\ c = At(s, i)
             THEN Decided(s, t, i, j, ii) ELSE BSTR_ERR
        ELSE IF c # At(s, k) THEN Scan(s, t, i + 2, j, ii)
        ELSE IF j + 1 < Len(t) THEN Scan(s, t, k + 1, j + 1, first)
        ELSE Decided(s, t, k + 1, j + 1, first)

binstr(s, pos, t) ==
    LET places == {i \in pos .. Len(s) - 1 : At(s, i) = At(t, 0)}
    IN  IF pos < 0 \/ pos > Len(s) THEN BSTR_ERR
        ELSE IF t = <<>> THEN pos
        ELSE IF Len(s) - Len(t) + 1 <= pos THEN BSTR_ERR
        ELSE IF Len(t) = 1 THEN IF places = {} THEN BSTR_ERR ELSE Min(places)
        ELSE Scan(s, t, pos, 0, -1)

RECURSIVE Slide(_, _, _, _, _)

\* The other three: t is compared at i from its j-th character on, and where
\* the two part one step further, while there is room for t.
Slide(s, t, i, j, step) ==
    IF At(t, j) = At(s, i + j)
    THEN IF j + 1 = Len(t) THEN i ELSE Slide(s, t, i, j + 1, step)
    ELSE IF i + step \in 0 .. Len(s) - Len(t) THEN Slide(s, t, i + step, 0, step)
    ELSE BSTR_ERR

binstrr(s, pos, t) ==
    CASE pos \notin 0 .. Len(s) -> BSTR_ERR
      [] pos \in 0 .. Len(s) /\ t = <<>> -> pos
      [] pos \in 0 .. Len(s) /\ Len(t) > Len(s) -> BSTR_ERR
      [] OTHER -> Slide(s, t, Min({pos, Len(s) - Len(t)}), 0, -1)

binstrcaseless(s, pos, t) ==
    CASE pos \notin 0 .. Len(s) -> BSTR_ERR
      [] pos \in 0 .. Len(s) /\ t = <<>> -> pos
      [] pos \in 0 .. Len(s) /\ t # <<>> /\ Len(s) - Len(t) + 1 <= pos -> BSTR_ERR
      [] OTHER -> Slide(Lowered(s), Lowered(t), pos, 0, 1)

binstrrcaseless(s, pos, t) == binstrr(Lowered(s), pos, Lowered(t))

-----------------------------------------------------------------------------
(* Searching for characters *)

bstrchrp(s, c, pos) ==
    LET places == {i \in pos .. Len(s) - 1 : At(s, i) = c}
    IN  IF pos < 0 \/ places = {} THEN BSTR_ERR ELSE Min(places)

bstrrchrp(s, c, pos) ==
    LET places == {i \in 0 .. pos : At(s, i) = c}
    IN  IF pos >= Len(s) \/ places = {} THEN BSTR_ERR ELSE Max(places)

binchr(s, pos, chars) ==
    LET places == {i \in pos .. Len(s) - 1 : At(s, i) \in ToSet(chars)}
    IN  IF pos < 0 \/ places = {} THEN BSTR_ERR ELSE Min(places)

\* A position at the end is taken one back.
binchrr(s, pos, chars) ==
    LET from == IF pos = Len(s) THEN pos - 1 ELSE pos
        places == {i \in 0 .. from : At(s, i) \in ToSet(chars)}
    IN  IF pos > Len(s) \/ places = {} THEN BSTR_ERR ELSE Max(places)

\* An empty set of characters is refused.
bninchr(s, pos, chars) ==
    LET places == {i \in pos .. Len(s) - 1 : At(s, i) \notin ToSet(chars)}
    IN  IF pos < 0 \/ chars = <<>> \/ places = {} THEN BSTR_ERR ELSE Min(places)

bninchrr(s, pos, chars) ==
    LET from == IF pos = Len(s) THEN pos - 1 ELSE pos
        places == {i \in 0 .. from : At(s, i) \notin ToSet(chars)}
    IN  IF pos > Len(s) \/ chars = <<>> \/ places = {} THEN BSTR_ERR ELSE Max(places)

-----------------------------------------------------------------------------
(* Splitting and joining *)

\* bmidstr: the section is clamped to the string.
bmidstr(s, left, len) ==
    LET from == IF left < 0 THEN 0 ELSE left
        n == IF left < 0 THEN len + left ELSE len
    IN  SubSeq(s, from + 1, Min({Len(s), from + n}))

RECURSIVE bsplitscb(_, _, _), CutAt(_, _, _, _)

\* The pieces from p on; bsplitcb is the same for one separator.
bsplitscb(s, seps, p) ==
    LET ends == {i \in p .. Len(s) - 1 : At(s, i) \in ToSet(seps)}
    IN  IF ends = {} THEN <<bmidstr(s, p, Len(s) - p)>>
        ELSE <<bmidstr(s, p, Min(ends) - p)>> \o bsplitscb(s, seps, Min(ends) + 1)

\* The search goes on one character behind the start of the next piece: the
\* loop's i++ comes on top of i += splitStr->slen.
CutAt(s, sep, i, p) ==
    IF i > Len(s) - Len(sep) THEN <<bmidstr(s, p, Len(s) - p)>>
    ELSE IF Occurs(s, i, sep)
    THEN <<bmidstr(s, p, i - p)>> \o CutAt(s, sep, i + Len(sep) + 1, i + Len(sep))
    ELSE CutAt(s, sep, i + 1, p)

bsplitstrcb(s, sep, pos) ==
    CASE Len(sep) = 0 -> [i \in 1 .. Len(s) - pos |-> <<s[pos + i]>>]
      [] Len(sep) = 1 -> bsplitscb(s, sep, pos)
      [] OTHER -> CutAt(s, sep, pos, pos)

\* An empty set of separators gives the whole string, from 0 on.
bsplits(s, seps) == IF seps = <<>> THEN <<s>> ELSE bsplitscb(s, seps, 0)
bsplitstr(s, sep) == bsplitstrcb(s, sep, 0)

bjoinblk(pieces, sep) ==
    FoldLeft(LAMBDA acc, i : IF i = 1 THEN pieces[1] ELSE acc \o sep \o pieces[i],
             <<>>, [i \in DOMAIN pieces |-> i])

-----------------------------------------------------------------------------
(* Properties *)

\* binstr's unrolled scan returns the first place of t from pos on, binstrr the
\* last one up to pos, or BSTR_ERR when there is none, and the caseless two
\* return the same of the lowered strings.
FirstPlace(s, pos, t) ==
    LET from == {p \in pos .. Len(s) : Occurs(s, p, t)}
        upTo == {p \in 0 .. pos : Occurs(s, p, t)}
    IN  /\ binstr(s, pos, t) = IF from = {} THEN BSTR_ERR ELSE Min(from)
        /\ binstrr(s, pos, t) = IF upTo = {} THEN BSTR_ERR ELSE Max(upTo)
        /\ binstrcaseless(s, pos, t) = binstr(Lowered(s), pos, Lowered(t))
        /\ binstrrcaseless(s, pos, t) = binstrr(Lowered(s), pos, Lowered(t))

\* The searches for a set of characters agree: from any position on the nearest
\* character is one of the set or none of it, the backward searches are the
\* forward ones in the string turned round, and a set is as good as looking for
\* its characters one by one.
CharsAgree(s, pos, chars) ==
    LET found == {bstrchrp(s, c, pos) : c \in ToSet(chars)} \ {BSTR_ERR}
        turned(i) == IF i = BSTR_ERR THEN BSTR_ERR ELSE Len(s) - 1 - i
        back == Len(s) - pos
    IN  chars # <<>> =>
        /\ pos < Len(s) => pos \in {binchr(s, pos, chars), bninchr(s, pos, chars)}
        /\ binchr(s, pos, chars) = IF found = {} THEN BSTR_ERR ELSE Min(found)
        /\ pos > 0 => /\ binchrr(s, pos - 1, chars) = turned(binchr(Reverse(s), back, chars))
                      /\ bninchrr(s, pos - 1, chars) = turned(bninchr(Reverse(s), back, chars))
                      /\ bstrrchrp(s, chars[1], pos - 1) = binchrr(s, pos - 1, <<chars[1]>>)
        /\ binchrr(s, Len(s), chars) = binchrr(s, Len(s) - 1, chars)

\* The end of a string ranks below '\0' and above the bytes that are negative
\* as a char.  The sign of bstricmp is the lexicographic order of the ranks,
\* and bstrcmp's where no '\0' ends it: a total order, whatever the lengths.
\* bstrnicmp differs from bstricmp of the truncated strings at most in how much
\* it is (it subtracts the characters as they are), never in whether it is zero;
\* the tests for equality and for a stem say when the comparisons are zero.
Rank(s, i) == IF i > Len(s) THEN -1 ELSE 2 * Signed(s[i])
Below(s, t) ==
    \E i \in 1 .. Len(s) + 1 : /\ \A j \in 1 .. i - 1 : Rank(s, j) = Rank(t, j)
                               /\ Rank(s, i) < Rank(t, i)
CaselessOrder(s, t) ==
    /\ (bstricmp(s, t) < 0) = Below(Lowered(s), Lowered(t))
    /\ (bstricmp(s, t) = 0) = biseqcaseless(s, t)
    /\ biseqcstrcaseless(s, t) = (Nul \notin ToSet(s) /\ bstricmp(s, CString(t)) = 0)
    /\ bisstemeqcaselessblk(s, t) = (bstrnicmp(s, t, Len(t)) = 0)
    /\ \A n \in 0 .. Len(s) + 1 :
         /\ bstrnicmp(s, t, n) = - bstrnicmp(t, s, n)
         /\ (bstrnicmp(s, t, n) = 0) = (bstricmp(bmidstr(s, 0, n), bmidstr(t, 0, n)) = 0)

\* bstrcmp is antisymmetric, bstrncmp compares what is left of the strings when
\* both are truncated ("as if", bstrlib.c:980), and with no '\0' in either it is zero for equal
\* strings only and puts a string before its extensions.
PlainOrder(s, t) ==
    /\ bstrcmp(s, t) = - bstrcmp(t, s)
    /\ Nul \notin ToSet(s) \cup ToSet(t) =>
         /\ (bstrcmp(s, t) = 0) = biseq(s, t)
         /\ IsStrictPrefix(s, t) => bstrcmp(s, t) < 0
         /\ bisstemeqblk(s, t) = (bstrncmp(s, t, Len(t)) = 0)
    /\ biseqcstr(s, t) = (Nul \notin ToSet(s) /\ bstrcmp(s, CString(t)) = 0)
    /\ \A n \in 0 .. Len(s) + 1 : bstrncmp(s, t, n) = bstrcmp(bmidstr(s, 0, n), bmidstr(t, 0, n))

\* Splitting loses nothing: the pieces joined again with the separator are the
\* string, and no piece of a split by characters holds one of them.
SplitsJoin(s, sep) ==
    /\ bjoinblk(bsplitstr(s, sep), sep) = s
    /\ \A c \in ToSet(sep) : bjoinblk(bsplits(s, <<c>>), <<c>>) = s
    /\ sep # <<>> => \A i \in DOMAIN bsplits(s, sep) :
                         ToSet(bsplits(s, sep)[i]) \cap ToSet(sep) = {}
=============================================================================
