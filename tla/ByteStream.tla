----------------------------- MODULE ByteStream -----------------------------
(***************************************************************************)
(* What the reading functions of src/src/lcthw/bstrlib.c promise of a      *)
(* stream, call by call: what is read is what comes next, in order, each   *)
(* byte once; what is unread comes next; and a split hands over all        *)
(* pieces, or the first ones and leaves what is behind them.               *)
(***************************************************************************)
EXTENDS Integers, SequencesExt

CONSTANTS Chunk      \* what a split reads at a time

VARIABLES stream,    \* what is still to be read
          r,         \* the string that is read into
          call,      \* the last call and what it was asked for
          pieces,    \* what it handed over, if it was a split
          lost       \* what it took and nobody is given

vars == <<stream, r, call, pieces, lost>>

Rest(n) == SubSeq(stream, n + 1, Len(stream))
Ahead(n) == SubSeq(stream, 1, n)

Init == r = <<>> /\ call = <<"none">> /\ pieces = <<>> /\ lost = <<>>

-----------------------------------------------------------------------------
(* Reading *)

NotSplit == pieces' = <<>> /\ lost' = <<>>

\* The next n bytes come behind r, or replace it.
Take(appends, n) ==
    /\ r' = (IF appends THEN r ELSE <<>>) \o Ahead(n)
    /\ stream' = Rest(n)
    /\ NotSplit

\* Where the first line ends: behind the first terminator, or at the end.
LineEnd(terms) == Min({i \in DOMAIN stream : stream[i] \in terms} \cup {Len(stream)})

Line(appends, terms) == Take(appends, LineEnd(terms))

\* n bytes or what there is, if the core stream gives what it is asked for
\* ("full"); else at most that, and something unless there is nothing.
Read(appends, n, full) ==
    LET most == Min({n, Len(stream)})
    IN  \E k \in (IF full THEN most ELSE Min({1, most})) .. most : Take(appends, k)

Unread(s) == stream' = s \o stream /\ NotSplit /\ UNCHANGED r

Peek == IsPrefix(r', stream) /\ NotSplit /\ UNCHANGED stream

\* What a stream has read too early is lost when it is closed.
Close == /\ stream' = Rest(Len(lost')) /\ lost' = Ahead(Len(lost'))
         /\ pieces' = <<>>
         /\ UNCHANGED r

-----------------------------------------------------------------------------
(* Splitting *)

\* Where s holds one of seps, all of length len, counted from 0.
Holds(s, seps, len) == {i \in 0 .. Len(s) - len : SubSeq(s, i + 1, i + len) \in seps}

\* The pieces, with a separator of length len between any two, are what has
\* left the stream: up to its end, or up to a separator behind the piece the
\* callback stopped at.  None holds a separator, but for the one at the end of
\* the stream among its last `unsearched' bytes.
Pieces(seps, len, stop, unsearched) ==
    LET end[i \in 0 .. Len(pieces')] == IF i = 0 THEN - len ELSE end[i - 1] + len + Len(pieces'[i])
        n == Len(pieces')
    IN  /\ n \in 1 .. stop
        /\ \A i \in 1 .. n :
              /\ pieces'[i] = SubSeq(stream, end[i - 1] + len + 1, end[i])
              /\ i < n => end[i] \in Holds(stream, seps, len)
              /\ \A j \in Holds(pieces'[i], seps, len) :
                    i = n /\ j + len > Len(pieces'[n]) - unsearched
        /\ \/ /\ end[n] = Len(stream)
              /\ stream' = <<>> /\ lost' = <<>>
           \/ /\ n = stop /\ end[n] \in Holds(stream, seps, len)
              /\ Holds(pieces'[n], seps, len) = {}
              /\ lost' \o stream' = Rest(end[n] + len)
        /\ UNCHANGED r

\* An empty set of characters: everything, once.
Whole == pieces' = <<stream>> /\ lost' = <<>> /\ stream' = <<>> /\ UNCHANGED r

\* An empty separator: the stream in chunks, as it is read, up to its end or
\* as far as the callback wants (its comment says characters).
Chunks(stop) ==
    /\ \A i \in DOMAIN pieces' : Len(pieces'[i]) \in 1 .. Chunk
    /\ Len(pieces') <= stop
    /\ FlattenSeq(pieces') \o stream' = stream
    /\ Len(pieces') < stop => stream' = <<>>
    /\ lost' = <<>> /\ UNCHANGED r

Split(chars, stop) ==
    IF chars = {} THEN Whole
    ELSE Pieces({<<c>> : c \in chars}, 1, stop, 0) /\ lost' = <<>>

SplitStr(sep, stop) ==
    CASE sep = <<>> -> Chunks(stop)
      [] Len(sep) = 1 -> Split(ToSet(sep), stop)
      [] OTHER -> Pieces({sep}, Len(sep), stop, Chunk)

-----------------------------------------------------------------------------
Next == CASE call'[1] = "line" -> Line(call'[2], call'[3])
          [] call'[1] \in {"read", "all"} -> Read(call'[2], call'[3], call'[4])
          [] call'[1] = "unread" -> Unread(call'[2])
          [] call'[1] = "peek" -> Peek
          [] call'[1] = "split" -> Split(call'[2], call'[3])
          [] call'[1] = "splitstr" -> SplitStr(call'[2], call'[3])
          [] call'[1] = "close" -> Close
          [] call'[1] = "none" -> NotSplit /\ UNCHANGED <<stream, r>>
=============================================================================
