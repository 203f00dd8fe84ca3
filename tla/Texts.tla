-------------------------------- MODULE Texts --------------------------------
(***************************************************************************)
(* What the calls of src/src/lcthw/bstrlib.c that change a string do to    *)
(* its text, a sequence of characters: no allocation and no cells, only    *)
(* the text before and the text after.  Positions count from 0.            *)
(***************************************************************************)
EXTENDS Integers, SequencesExt

First(t, n) == SubSeq(t, 1, n)
Behind(t, n) == SubSeq(t, n + 1, Len(t))

\* t, filled up to length n.
Padded(t, n, fill) == t \o [i \in 1 .. n - Len(t) |-> fill]

\* What is above n or below m becomes n or m.
Clamped(i, m, n) == Min({Max({i, m}), n})

Overwritten(t, pos, s, fill) ==
    LET p == Padded(t, pos, fill) IN First(p, pos) \o s \o Behind(p, pos + Len(s))

Inserted(t, pos, s, fill) ==
    LET p == Padded(t, pos, fill) IN First(p, pos) \o s \o Behind(p, pos)

Replaced(t, pos, len, s, fill) ==
    First(Padded(t, pos, fill), pos) \o s \o Behind(t, pos + len)

Middle(t, left, len) ==
    SubSeq(t, Clamped(left, 0, Len(t)) + 1, Clamped(left + len, 0, Len(t)))

Deleted(t, pos, len) ==
    First(t, Clamped(pos, 0, Len(t))) \o Behind(t, Clamped(pos + len, 0, Len(t)))

TrimmedLeft(t, blank) == Behind(t, Min({Len(t)} \cup {i - 1 : i \in {j \in DOMAIN t : t[j] \notin blank}}))
TrimmedRight(t, blank) == First(t, Max({0} \cup {j \in DOMAIN t : t[j] \notin blank}))

\* len characters of t over and over.
Repeated(t, len) == [i \in 1 .. len |-> t[((i - 1) % Len(t)) + 1]]

\* t with every f from place pos on replaced by s, from left to right; like(_)
\* is what two characters must agree in.
Substituted(t, f, s, pos, like) ==
    LET Here(i) == i + Len(f) <= Len(t) /\ \A j \in DOMAIN f : like[t[i + j]] = like[f[j]]
        from[i \in Nat] == IF i >= Len(t) THEN <<>>
                           ELSE IF Here(i) THEN s \o from[i + Len(f)]
                           ELSE <<t[i + 1]>> \o from[i + 1]
    IN  First(t, pos) \o from[pos]
=============================================================================
