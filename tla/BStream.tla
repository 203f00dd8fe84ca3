------------------------------- MODULE BStream -------------------------------
(***************************************************************************)
(* The streams of src/src/lcthw/bstrlib.c: a bStream keeps in buff what it *)
(* has read from its core stream too early.  The core is what an           *)
(* fread-like function still has to give; it may give fewer bytes than it  *)
(* is asked for, here no more than the grain of the call, and gives none   *)
(* only at the end.  Strings are sequences of bytes; allocations succeed.  *)
(*                                                                         *)
(* A call works on x = [r, ended, mlen, buff, core, eof], where ended says *)
(* whether a '\0' follows the characters of r, and mlen is what r has been *)
(* allocated.                                                              *)
(***************************************************************************)
EXTENDS BstringSearch

CONSTANTS Data,       \* what a core stream holds when it is opened
          Terms,      \* the sets of terminators callers pass
          Seps,       \* the separators callers pass
          Unreads,    \* what callers push back
          MaxRead,    \* bound on the length of r
          MaxLen,     \* bound on what is still to be read
          First16,    \* what breada asks for first, 16
          BuffSize,   \* BS_BUFF_SZ, 1024
          Floor,      \* what the empty string is allocated, 8
          Chunk       \* BSSSC_BUFF_LEN, 256

VARIABLES core, buff, isEOF, maxBuffSz,
          open,       \* whether the bStream is open, or the core is read
          r, ended,
          call,       \* the last call, and what it was asked for
          pieces,     \* what it handed over, if it was a split
          lost        \* what it has read and will never be given

vars == <<core, buff, isEOF, maxBuffSz, open, r, ended, call, pieces, lost>>

First(s, n) == SubSeq(s, 1, Min({n, Len(s)}))
Behind(s, n) == SubSeq(s, n + 1, Len(s))
Here(s, chars) == {i \in DOMAIN s : s[i] \in chars}

\* What readFnPtr gives when it is asked for n bytes.
Given(x, n, grain) == First(x.core, Min({n, grain}))
Left(x, got) == Behind(x.core, Len(got))

-----------------------------------------------------------------------------
(* The core stream, read directly *)

RECURSIVE ReadAll(_, _, _)

\* breada: as much again as there is, until fewer bytes come.
ReadAll(x, n, grain) ==
    LET got == Given(x, n, grain)
        y == [x EXCEPT !.r = @ \o got, !.core = Left(x, got), !.ended = TRUE]
    IN  IF Len(got) < n THEN y ELSE ReadAll(y, Min({Len(y.r), BuffSize}), grain)
breada(x, grain) == ReadAll(x, First16, grain)

\* bgetsa, and bassigngets with an empty r: a line, or what is left.
bgetsa(x, term) ==
    LET n == Min(Here(x.core, {term}) \cup {Len(x.core)})
    IN  [x EXCEPT !.r = @ \o First(x.core, n), !.core = Behind(@, n), !.ended = TRUE]

-----------------------------------------------------------------------------
(* Reading lines *)

RECURSIVE FillLine(_, _, _)

\* Mutant of FillLine: the rest of the read is not kept.
FillLineOnly(x, terms, grain) ==
    LET got == Given(x, maxBuffSz, grain)
        n == Min(Here(got, terms))
        y == [x EXCEPT !.r = @ \o got, !.core = Left(x, got)]
    IN  IF got = <<>> THEN [x EXCEPT !.eof = TRUE, !.ended = TRUE]
        ELSE IF Here(got, terms) = {} THEN FillLine(y, terms, grain)
        ELSE [y EXCEPT !.r = x.r \o First(got, n), !.ended = TRUE]

\* Reads go straight into r, until one holds a terminator; what it holds
\* behind that is kept in buff.
FillLine(x, terms, grain) ==
    LET got == Given(x, maxBuffSz, grain)
        n == Min(Here(got, terms))
        y == [x EXCEPT !.r = @ \o got, !.core = Left(x, got)]
    IN  IF got = <<>> THEN [x EXCEPT !.eof = TRUE, !.ended = TRUE]
        ELSE IF Here(got, terms) = {} THEN FillLine(y, terms, grain)
        ELSE [y EXCEPT !.r = x.r \o First(got, n), !.buff = Behind(got, n), !.ended = TRUE]

\* bsreadlna, and bsreadlnsa for several terminators.
bsreadlnsa(x, terms, grain) ==
    LET held == Here(x.buff, terms)
        n == Min(held)
    IN  IF held # {}
        THEN [x EXCEPT !.r = @ \o First(x.buff, n), !.buff = Behind(@, n), !.ended = TRUE]
        ELSE FillLine([x EXCEPT !.r = @ \o x.buff, !.buff = <<>>], terms, grain)

\* The length of r is set to 0 first; its old characters stay.
Emptied(x) == [x EXCEPT !.r = <<>>, !.ended = @ /\ x.r = <<>>]
bsreadlns(x, terms, grain) == bsreadlnsa(Emptied(x), terms, grain)

-----------------------------------------------------------------------------
(* Reading n bytes *)

RECURSIVE Gather(_, _, _)

\* What bconcat leaves r allocated: the least power of two above len + 1, if
\* it was no more.
Grown(mlen, len) == IF mlen > len + 1 THEN mlen ELSE Min({2 ^ k : k \in 0 .. len + 1} \ 0 .. len + 1)
Concat(x, s) ==
    [x EXCEPT !.r = @ \o s, !.ended = TRUE, !.mlen = Grown(@, Len(x.r) + Len(s))]

\* bsreada's loop: buff to r, then the next read to buff.
Gather(x, n, grain) ==
    LET got == Given(x, Min({n - Len(x.buff), maxBuffSz}), grain)
        all == Concat(x, x.buff)
    IN  IF Len(x.buff) >= n
        THEN [Concat(x, First(x.buff, n)) EXCEPT !.buff = Behind(@, n)]
        ELSE IF got = <<>> THEN [all EXCEPT !.buff = <<>>, !.eof = TRUE]
        ELSE Gather([all EXCEPT !.buff = got, !.core = Left(x, got)], n - Len(x.buff), grain)

\* With nothing in buff and room in r, one read goes straight into r, however
\* little it gives.
bsreada(x, n, grain) ==
    LET got == Given(x, n, grain)
    IN  IF x.buff = <<>> /\ x.eof THEN x
        ELSE IF x.buff = <<>> /\ x.mlen > n + Len(x.r)
        THEN IF got = <<>> THEN [x EXCEPT !.eof = TRUE]
             ELSE [x EXCEPT !.r = @ \o got, !.core = Left(x, got), !.ended = TRUE]
        ELSE Gather(x, n, grain)

bsread(x, n, grain) == bsreada(Emptied(x), n, grain)

bsunread(x, s) == [x EXCEPT !.buff = s \o @]
bspeek(x) == [x EXCEPT !.r = x.buff, !.ended = TRUE]
bseof(x) == x.eof /\ x.buff = <<>>

-----------------------------------------------------------------------------
(* Splitting: a call works on a buffer of its own, here x.r, and hands the   *)
(* pieces over to a callback that asks to stop after `stop' pieces.  It      *)
(* gives back [x, pieces, lost].  The buffer keeps its allocation when it is *)
(* emptied: once a chunk has grown it, reads of a chunk go straight into it. *)

RECURSIVE SplitChars(_, _, _, _, _), SplitStrings(_, _, _, _, _), SplitChunks(_, _, _, _),
          Whole(_, _)

Handed(x, got, gone) == [x |-> x, pieces |-> got, lost |-> gone]

\* bssplitscb without characters: everything, once.
Whole(x, grain) ==
    LET more == bsreada(x, Chunk, grain)
    IN  IF more.r = x.r THEN Handed(more, <<x.r>>, <<>>) ELSE Whole(more, grain)

\* bssplitscb: what is behind a piece is unread before the piece is handed over.
SplitChars(x, chars, stop, got, grain) ==
    LET at == Min(Here(x.r, chars))
        now == Append(got, First(x.r, at - 1))
        rest == [bsunread(x, Behind(x.r, at)) EXCEPT !.r = <<>>]
        more == bsreada(x, Chunk, grain)
    IN  IF Here(x.r, chars) # {}
        THEN IF Len(now) = stop THEN Handed(rest, now, <<>>)
             ELSE SplitChars(rest, chars, stop, now, grain)
        ELSE IF more.r = x.r THEN Handed(more, Append(got, x.r), <<>>)
        ELSE SplitChars(more, chars, stop, got, grain)

\* bssplitstrcb: what is behind a piece stays in the buffer, which is
\* destroyed when the callback stops; what it holds when a read has met the
\* end of the stream is handed over as it is.
SplitStrings(x, sep, stop, got, grain) ==
    LET at == binstr(x.r, 0, sep)
        now == Append(got, First(x.r, at))
        rest == [x EXCEPT !.r = Behind(@, at + Len(sep))]
        more == bsreada(x, Chunk, grain)
    IN  IF at >= 0
        THEN IF Len(now) = stop THEN Handed(rest, now, rest.r)
             ELSE SplitStrings(rest, sep, stop, now, grain)
        ELSE IF bseof(more) THEN Handed(more, Append(got, more.r), <<>>)
        ELSE SplitStrings(more, sep, stop, got, grain)

\* bssplitstrcb without a separator: the chunks that are read.
SplitChunks(x, stop, got, grain) ==
    LET more == bsreada(x, Chunk, grain)
        now == Append(got, more.r)
    IN  IF more.r = <<>> THEN Handed(more, got, <<>>)
        ELSE IF Len(now) = stop THEN Handed(more, now, <<>>)
        ELSE SplitChunks([more EXCEPT !.r = <<>>], stop, now, grain)

OwnBuffer(x) == [x EXCEPT !.r = <<>>, !.mlen = Floor]
bssplitscb(x, chars, stop, grain) ==
    IF chars = {} THEN Whole(OwnBuffer(x), grain)
    ELSE SplitChars(OwnBuffer(x), chars, stop, <<>>, grain)
bssplitstrcb(x, sep, stop, grain) ==
    CASE sep = <<>> -> SplitChunks(OwnBuffer(x), stop, <<>>, grain)
      [] Len(sep) = 1 -> bssplitscb(x, ToSet(sep), stop, grain)
      [] OTHER -> SplitStrings(OwnBuffer(x), sep, stop, <<>>, grain)

-----------------------------------------------------------------------------
(* The calls, in any order *)

\* What r has been allocated, as far as a call looks at it.
Now == [r |-> r, ended |-> ended, mlen |-> Len(r) + 1, buff |-> buff, core |-> core, eof |-> isEOF]
Roomy == [Now EXCEPT !.mlen = Len(r) + MaxLen + 1]
Stop == {2, MaxLen + 2}

\* A call has left x.
Leaves(x) ==
    /\ Len(x.r) <= MaxRead /\ Len(x.buff) + Len(x.core) <= MaxLen
    /\ core' = x.core /\ buff' = x.buff /\ isEOF' = x.eof
    /\ r' = x.r /\ ended' = x.ended

Called(c, handed, gone) == call' = c /\ pieces' = handed /\ lost' = gone

Reads(c, x) == Leaves(x) /\ Called(c, <<>>, <<>>) /\ UNCHANGED <<open, maxBuffSz>>

Init == /\ core \in Data
        /\ buff = <<>> /\ isEOF = FALSE /\ maxBuffSz = BuffSize /\ open = FALSE
        /\ r = <<>> /\ ended = TRUE /\ call = <<"none">> /\ pieces = <<>> /\ lost = <<>>

bsopen == /\ ~open /\ open' = TRUE
          /\ buff' = <<>> /\ isEOF' = FALSE /\ maxBuffSz' = BuffSize
          /\ Called(<<"none">>, <<>>, <<>>)
          /\ UNCHANGED <<core, r, ended>>

\* The core stream is given back, without what was read too early.
bsclose == /\ open /\ open' = FALSE
           /\ buff' = <<>>
           /\ Called(<<"close">>, <<>>, buff)
           /\ UNCHANGED <<core, isEOF, maxBuffSz, r, ended>>

bsbufflength == /\ open
                /\ maxBuffSz' \in {1, BuffSize}
                /\ Called(<<"none">>, <<>>, <<>>)
                /\ UNCHANGED <<core, buff, isEOF, open, r, ended>>

\* TRUE is for the calls that append to r, FALSE for those that empty it first.
GetAll == ~open /\ \E grain \in 1 .. MaxLen :
                        Reads(<<"all", TRUE, MaxLen, grain = MaxLen>>, breada(Now, grain))
GetLine == ~open /\ \E terms \in Terms : \E c \in terms :
                        \/ Reads(<<"line", TRUE, {c}>>, bgetsa(Now, c))
                        \/ Reads(<<"line", FALSE, {c}>>, bgetsa(Emptied(Now), c))
ReadLine == open /\ \E terms \in Terms, grain \in 1 .. maxBuffSz :
                        \/ Reads(<<"line", TRUE, terms>>, bsreadlnsa(Now, terms, grain))
                        \/ Reads(<<"line", FALSE, terms>>, bsreadlns(Now, terms, grain))
Read == open /\ \E n \in 1 .. MaxRead : \E x \in {Now, Roomy}, grain \in 1 .. n :
                    \/ Reads(<<"read", TRUE, n, grain = n>>, bsreada(x, n, grain))
                    \/ Reads(<<"read", FALSE, n, grain = n>>, bsread(x, n, grain))
Unread == open /\ \E s \in Unreads : Reads(<<"unread", s>>, bsunread(Now, s))
Peek == open /\ Reads(<<"peek">>, bspeek(Now))

\* A split leaves r alone.
Splits(c, h) ==
    /\ Leaves([h.x EXCEPT !.r = r, !.ended = ended])
    /\ Called(c, h.pieces, h.lost)
    /\ UNCHANGED <<open, maxBuffSz>>

Split == open /\ \E chars \in Terms \cup {{}}, stop \in Stop, grain \in 1 .. Chunk :
                     Splits(<<"split", chars, stop>>, bssplitscb(Now, chars, stop, grain))
SplitStr == open /\ \E sep \in Seps, stop \in Stop, grain \in 1 .. Chunk :
                        Splits(<<"splitstr", sep, stop>>, bssplitstrcb(Now, sep, stop, grain))

Next == \/ bsopen \/ bsclose \/ bsbufflength \/ GetAll \/ GetLine
        \/ ReadLine \/ Read \/ Unread \/ Peek \/ Split \/ SplitStr

Spec == Init /\ [][Next]_vars

-----------------------------------------------------------------------------
(* Properties *)

B == INSTANCE ByteStream WITH stream <- buff \o core

\* Whatever is read, unread, peeked and split, and however little a read gives,
\* each call does what ByteStream says of it: a line ends where it should, the
\* pieces of a split are cut where they should be, and every byte is given in
\* its place and once, or lost by the two calls that lose some.
IsByteStream == B!Init /\ [][B!Next]_B!vars

\* Only reading lines, splitting and pushing back leaves more in buff: a read
\* of n bytes takes nothing from the core stream that it does not give
\* (bstrlib.c:2232).
NotReadAhead == [][Len(buff') > Len(buff) => call'[1] \in {"line", "unread", "split", "splitstr"}]_vars

\* r is without its '\0' only after bsread has emptied it at the end of the
\* core stream, and isEOF is never set before that end.
EndedUntilEof ==
    /\ ~ended => r = <<>> /\ core = <<>>
    /\ isEOF /\ open => core = <<>>
=============================================================================
