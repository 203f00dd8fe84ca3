------------------------------- MODULE Bstring -------------------------------
(***************************************************************************)
(* The functions of src/src/lcthw/bstrlib.c that change a bstring, on the  *)
(* cells of its allocation.  A bstring is [mlen, slen, data, over]: data   *)
(* is a function on the cells allocated, Junk where nothing was written,   *)
(* and over says that a store went past them.  Cells behind the one the    *)
(* length ends at are Junk again after each call: nobody may count on      *)
(* them.  A negative mlen is a write-protected string.                     *)
(*                                                                         *)
(* The string that is read is a text of its own or Self, the bstring that  *)
(* is changed.  An allocation gets what it asks for ("all"), only the      *)
(* smaller size it falls back to ("tight"), or fails ("none").  Integers   *)
(* do not overflow here, and NULL is never passed but to bsetstr.          *)
(***************************************************************************)
EXTENDS BstringSearch

CONSTANTS Text,      \* the contents callers pass
          Byte, Space, Up,
          Fill,      \* the characters passed as one
          Floor,     \* snapUpSize's least size, 8
          StartBuff, \* START_VSNBUFF, 16
          MaxLen,    \* bound on the length a call may leave
          Self, Junk

VARIABLES b,
          short      \* an allocation has been refused what it asked for

vars == <<b, short>>

Mem == {"all", "tight", "none"}

-----------------------------------------------------------------------------
(* Cells *)

Bstr(mlen, slen, data) == [mlen |-> mlen, slen |-> slen, data |-> data, over |-> FALSE]

\* memcpy of s into the cells from at on.
Store(x, at, s) ==
    [x EXCEPT !.data = [i \in DOMAIN @ |-> IF i \in at .. at + Len(s) - 1 THEN s[i - at + 1] ELSE @[i]],
              !.over = @ \/ ~(at .. at + Len(s) - 1 \subseteq DOMAIN x.data)]

\* The n bytes from cell from on.
Load(x, from, n) ==
    [i \in 1 .. n |-> IF from + i - 1 \in DOMAIN x.data THEN x.data[from + i - 1] ELSE Junk]

\* slen = n; data[n] = '\0'
Ended(x, n) == [Store(x, n, <<Nul>>) EXCEPT !.slen = n]

Contents(x) == Load(x, 0, x.slen)
Chars(x, src) == IF src = Self THEN Contents(x) ELSE src

\* The first n characters, or all.
First(s, n) == SubSeq(s, 1, Min({n, Len(s)}))

\* The test of most functions for a bstring that may be written.
Writable(x) == x.mlen > 0 /\ x.slen >= 0 /\ x.mlen >= x.slen

\* The copy of data that is about to be overwritten fails.
CopyFails(src, mem) == src = Self /\ mem = "none"

\* What a call returns: BSTR_OK or BSTR_ERR and the bstring.
Ok(x) == [ok |-> TRUE, b |-> x]
Err(x) == [ok |-> FALSE, b |-> x]

-----------------------------------------------------------------------------
(* Allocation *)

\* The least power of two above i.
snapUpSize(i) ==
    IF i < Floor THEN Floor
    ELSE LET p[k \in Nat] == IF 2 ^ k > i THEN 2 ^ k ELSE p[k + 1] IN p[0]

\* The size an allocation of len falls back to.
SizeGot(len, tight, mem) == IF mem = "all" THEN len ELSE tight

Resized(x, mlen) ==
    [x EXCEPT !.mlen = mlen,
              !.data = [i \in 0 .. mlen - 1 |-> IF i < x.slen THEN x.data[i] ELSE Junk]]

\* Mutant of balloc: a size that is already there to the last cell is enough.
ballocExact(x, olen, mem) ==
    IF ~Writable(x) \/ olen <= 0 THEN Err(x)
    ELSE IF olen <= x.mlen THEN Ok(x)
    ELSE IF mem = "none" THEN Err(x)
    ELSE Ok(Store(Resized(x, SizeGot(snapUpSize(olen), olen, mem)), x.slen, <<Nul>>))

\* Whether the data moves or is extended in place is left out.
balloc(x, olen, mem) ==
    IF ~Writable(x) \/ olen <= 0 THEN Err(x)
    ELSE IF olen < x.mlen \/ snapUpSize(olen) <= x.mlen THEN Ok(x)
    ELSE IF mem = "none" THEN Err(x)
    ELSE Ok(Store(Resized(x, SizeGot(snapUpSize(olen), olen, mem)), x.slen, <<Nul>>))

ballocmin(x, len, mem) ==
    LET n == Max({len, x.slen + 1})
    IN  IF ~Writable(x) \/ len <= 0 THEN Err(x)
        ELSE IF n = x.mlen THEN Ok(x)
        ELSE IF mem = "none" THEN Err(x) ELSE Ok(Ended(Resized(x, n), x.slen))

\* balloc, where it is called on a condition.
Grown(x, needed, olen, mem) == IF needed THEN balloc(x, olen, mem) ELSE Ok(x)

-----------------------------------------------------------------------------
(* New bstrings *)

Filled(mlen, s) ==
    Ended(Store(Bstr(mlen, 0, [i \in 0 .. mlen - 1 |-> Junk]), 0, s), Len(s))

bfromcstr(s) == Filled(snapUpSize(Len(s) + (IF s = <<>> THEN 2 ELSE 1)), s)
blk2bstr(s) == bfromcstr(s)
bstrcpy(s, mem) == Filled(SizeGot(snapUpSize(Len(s) + 1), Len(s) + 1, mem), s)

\* bfromcstrrangealloc tries maxl, then half the sum of that and minl, each
\* rounded down: one less than minl when both are minl and odd.
bfromcstrrangealloc(minl, maxl, s, mem) ==
    LET low == Max({minl, Len(s) + 1})
        high == Max({maxl, low})
    IN  Filled(SizeGot(high, high \div 2 + low \div 2, mem), s)

\* The macros that protect a string from its functions, and allow them again
\* with the length as the size.
bwriteprotect(x) == [x EXCEPT !.mlen = IF @ >= 0 THEN -1 ELSE @]
bwriteallow(x) == [x EXCEPT !.mlen = IF @ = -1 THEN Max({x.slen, 1}) ELSE @]

-----------------------------------------------------------------------------
(* Appending *)

\* Mutant of bconcat: no copy is taken of data that balloc is about to move.
bconcatUncopied(x, src, mem) ==
    LET d == x.slen  s == Chars(x, src)  n == d + Len(s)
        r == Grown(x, x.mlen <= n + 1, n + 1, mem)
        read == IF src = Self /\ r.b.mlen # x.mlen THEN [i \in DOMAIN s |-> Junk] ELSE s
    IN  IF x.mlen < d \/ ~r.ok THEN Err(x) ELSE Ok(Ended(Store(r.b, d, read), n))

\* When b has to grow and its own data is appended, a copy is read.
bconcat(x, src, mem) ==
    LET d == x.slen  s == Chars(x, src)  n == d + Len(s)
        r == Grown(x, x.mlen <= n + 1, n + 1, mem)
    IN  IF x.mlen < d \/ ~r.ok THEN Err(x) ELSE Ok(Ended(Store(r.b, d, s), n))

bconchar(x, c, mem) ==
    LET r == balloc(x, x.slen + 2, mem)
    IN  IF x.mlen < x.slen \/ ~r.ok THEN Err(x)
        ELSE Ok(Ended(Store(r.b, x.slen, <<c>>), x.slen + 1))

\* Mutant of bcatblk: no room is asked for the '\0'.
bcatblkTight(x, s, mem) ==
    LET n == x.slen + Len(s)
        r == Grown(x, x.mlen < n, n, mem)
    IN  IF ~Writable(x) \/ ~r.ok THEN Err(x) ELSE Ok(Ended(Store(r.b, x.slen, s), n))

bcatblk(x, s, mem) ==
    LET n == x.slen + Len(s)
        r == Grown(x, x.mlen <= n, n + 1, mem)
    IN  IF ~Writable(x) \/ ~r.ok THEN Err(x) ELSE Ok(Ended(Store(r.b, x.slen, s), n))

\* The characters of s go straight over the '\0' as far as there are cells;
\* the rest, if any, by bcatblk, whose failure leaves b without a '\0'.
bcatcstr(x, s, mem) ==
    LET room == x.mlen - x.slen
        head == Store(x, x.slen, First(s, room))
    IN  IF ~Writable(x) THEN Err(x)
        ELSE IF Len(s) < room THEN Ok(Ended(head, x.slen + Len(s)))
        ELSE bcatblk([head EXCEPT !.slen = x.mlen], SubSeq(s, room + 1, Len(s)), mem)

-----------------------------------------------------------------------------
(* Assigning *)

\* Enough for the characters is asked for, not for the '\0': balloc's snapped
\* size has room for it, the tight one has not.
bassign(x, src, mem) ==
    LET s == Chars(x, src)
        r == Grown(x, s # <<>>, Len(s), mem)
    IN  IF x.mlen = 0 \/ x.mlen < x.slen \/ ~r.ok THEN Err(x)
        ELSE Ok(Ended(Store(r.b, 0, s), Len(s)))

bassignmidstr(x, src, left, len, mem) ==
    LET s == bmidstr(Chars(x, src), left, len)
        r == Grown(x, s # <<>>, Len(s), mem)
    IN  IF x.mlen = 0 \/ x.mlen < x.slen \/ ~r.ok THEN Err(x)
        ELSE Ok(Ended(Store(r.b, 0, s), Len(s)))

\* As bcatcstr: what does not fit is copied after a resize, and lost if that
\* fails.
bassigncstr(x, s, mem) ==
    LET head == [Store(x, 0, First(s, x.mlen)) EXCEPT !.slen = x.mlen]
        r == balloc(head, Len(s) + 1, mem)
    IN  IF x.mlen = 0 \/ x.mlen < x.slen THEN Err(x)
        ELSE IF Len(s) < x.mlen THEN Ok(Ended(Store(x, 0, s), Len(s)))
        ELSE IF ~r.ok THEN Err(head)
        ELSE Ok(Ended(Store(r.b, x.mlen, SubSeq(s, x.mlen + 1, Len(s))), Len(s)))

bassignblk(x, s, mem) ==
    LET r == Grown(x, Len(s) + 1 > x.mlen, Len(s) + 1, mem)
    IN  IF x.mlen = 0 \/ x.mlen < x.slen \/ ~r.ok THEN Err(x)
        ELSE Ok(Ended(Store(r.b, 0, s), Len(s)))

-----------------------------------------------------------------------------
(* Editing in place *)

btrunc(x, n) ==
    IF ~Writable(x) \/ n < 0 THEN Err(x)
    ELSE IF x.slen > n THEN Ok(Ended(x, n)) ELSE Ok(x)

btoupper(x) ==
    IF ~Writable(x) THEN Err(x) ELSE Ok(Store(x, 0, [i \in 1 .. x.slen |-> Up[x.data[i - 1]]]))
btolower(x) ==
    IF ~Writable(x) THEN Err(x) ELSE Ok(Store(x, 0, [i \in 1 .. x.slen |-> Down[x.data[i - 1]]]))

bdelete(x, pos, len) ==
    LET from == Max({pos, 0})
        n == IF pos < 0 THEN len + pos ELSE len
    IN  IF ~Writable(x) \/ n < 0 THEN Err(x)
        ELSE IF n = 0 \/ from >= x.slen THEN Ok(x)
        ELSE IF from + n >= x.slen THEN Ok(Ended(x, from))
        ELSE Ok(Ended(Store(x, from, Load(x, from + n, x.slen - (from + n))), x.slen - n))

\* The places that are not white space.
Inked(x) == {i \in 0 .. x.slen - 1 : x.data[i] \notin Space}

bltrimws(x) ==
    IF ~Writable(x) THEN Err(x)
    ELSE IF Inked(x) = {} THEN Ok(Ended(x, 0)) ELSE bdelete(x, 0, Min(Inked(x)))
brtrimws(x) ==
    IF ~Writable(x) THEN Err(x)
    ELSE Ok(Ended(x, IF Inked(x) = {} THEN 0 ELSE Max(Inked(x)) + 1))
btrimws(x) ==
    IF ~Writable(x) \/ Inked(x) = {} THEN brtrimws(x)
    ELSE bdelete(brtrimws(x).b, 0, Min(Inked(x)))

-----------------------------------------------------------------------------
(* Overwriting and inserting *)

\* src may be NULL, here the empty text.
bsetstr(x, pos, src, fill, mem) ==
    LET s == Chars(x, src)
        r == balloc(x, pos + Len(s) + 1, mem)
        gap == [i \in 1 .. pos - x.slen |-> fill]
    IN  IF ~Writable(x) \/ pos < 0 \/ CopyFails(src, mem) \/ ~r.ok THEN Err(x)
        ELSE Ok(Ended(Store(Store(r.b, x.slen, gap), pos, s), Max({x.slen, pos + Len(s)})))

\* binsert and binsertblk; a copy is taken of a block inside b.
binsert(x, pos, src, fill, mem) ==
    LET s == Chars(x, src)  d == x.slen + Len(s)  l == pos + Len(s)
        r == balloc(x, Max({d, l}) + 1, mem)
        gap == [i \in 1 .. pos - x.slen |-> fill]
        moved == IF l > d THEN Store(r.b, x.slen, gap)
                 ELSE Store(r.b, l, Load(r.b, pos, d - l))
    IN  IF ~Writable(x) \/ pos < 0 \/ CopyFails(src, mem) \/ ~r.ok THEN Err(x)
        ELSE Ok(Ended(Store(moved, pos, s), Max({d, l})))

\* Past the end the gap is filled up to pos + len.
binsertch(x, pos, len, fill, mem) ==
    IF len < 0 THEN Err(x) ELSE binsert(x, pos, [i \in 1 .. len |-> fill], fill, mem)

\* The size asked for has no room for the '\0' when b is full.
breplace(x, pos, len, src, fill, mem) ==
    LET s == Chars(x, src)
        set == bsetstr(x, pos, src, fill, mem)
        r == Grown(x, Len(s) > len, x.slen + Len(s) - len, mem)
        tail == Load(x, pos + len, x.slen - (pos + len))
    IN  IF ~Writable(x) \/ pos < 0 \/ len < 0 THEN Err(x)
        ELSE IF pos + len >= x.slen
        THEN IF set.ok /\ src # Self /\ pos + Len(s) < set.b.slen
             THEN Ok(Ended(set.b, pos + Len(s))) ELSE set
        ELSE IF CopyFails(src, mem) \/ ~r.ok THEN Err(x)
        ELSE Ok(Ended(Store(Store(r.b, pos + Len(s), tail), pos, s), x.slen + Len(s) - len))

\* A string of one character is filled up with it by bsetstr.
bpattern(x, len, mem) ==
    LET r == balloc(x, len + 1, mem)
    IN  IF x.slen = 0 \/ len < 0 \/ ~r.ok THEN Err(x)
        ELSE IF len > 0 /\ x.slen = 1 THEN bsetstr(r.b, len, <<>>, x.data[0], mem)
        ELSE Ok(Ended(Store(r.b, 0, [i \in 1 .. len |-> x.data[(i - 1) % x.slen]]), len))

-----------------------------------------------------------------------------
(* Replacing *)

RECURSIVE Places(_, _, _)

\* The places where an instr finds f from pos on, each behind the one before.
Places(s, f, pos) ==
    LET i == binstr(s, pos, f) IN IF i < 0 THEN <<>> ELSE <<i>> \o Places(s, f, i + Len(f))

\* The pieces between the places, moved by what was replaced before them.
Shrunk(x, at, f, s) ==
    LET delta == Len(f) - Len(s)
        Piece(y, k) ==
            LET from == at[k] + Len(f)
                to == IF k = Len(at) THEN x.slen ELSE at[k + 1]
                put == Store(y, at[k] - (k - 1) * delta, s)
            IN  Store(put, from - k * delta, Load(put, from, to - from))
    IN  FoldLeft(Piece, x, [k \in DOMAIN at |-> k])

\* The same from the last piece to the first, since they move up.
Spread(x, at, f, s, slen) ==
    LET delta == Len(s) - Len(f)
        Piece(y, k) ==
            LET from == at[k] + Len(f)
                to == IF k = Len(at) THEN slen ELSE at[k + 1]
            IN  Store(Store(y, from + k * delta, Load(y, from, to - from)),
                      from + k * delta - Len(s), s)
    IN  FoldLeft(Piece, x, [k \in DOMAIN at |-> Len(at) + 1 - k])

\* bfindreplace and bfindreplacecaseless: in place, shrinking, or expanding
\* after one resize.
findreplaceengine(x, find, repl, pos, caseless, mem) ==
    LET f == Chars(x, find)  s == Chars(x, repl)
        at == IF caseless THEN Places(Lowered(Contents(x)), Lowered(f), pos)
              ELSE Places(Contents(x), f, pos)
        n == x.slen + Len(at) * (Len(s) - Len(f))
        r == balloc(x, n + 1, mem)
    IN  IF ~Writable(x) \/ pos < 0 \/ f = <<>> THEN Err(x)
        ELSE IF pos > x.slen - Len(f) THEN Ok(x)
        ELSE IF CopyFails(find, mem) \/ CopyFails(repl, mem) THEN Err(x)
        ELSE IF at = <<>> /\ Len(s) <= Len(f) THEN Ok(x)
        ELSE IF Len(s) = Len(f) THEN Ok(Shrunk(x, at, f, s))
        ELSE IF Len(s) < Len(f) THEN Ok(Ended(Shrunk(x, at, f, s), n))
        ELSE IF ~r.ok THEN Err(x)
        ELSE Ok(Ended(Spread(r.b, at, f, s, x.slen), n))

-----------------------------------------------------------------------------
(* Formatting *)

RECURSIVE Formatted(_, _, _, _)

\* vsnprintf writes what fits in n characters; when that may not be all, the
\* loop goes on with the length it reported or with twice the size.
Formatted(x, n, s, mem) ==
    LET m == IF Len(s) > n THEN Len(s) ELSE n + n
        r == balloc(Ended(Store(x, 0, First(s, n)), Min({n, Len(s)})), m + 2, mem)
    IN  IF Len(s) < n THEN Ok(Ended(Store(x, 0, s), Len(s)))
        ELSE IF r.ok THEN Formatted(r.b, m, s, mem) ELSE Err(x)

\* s is what the format, of fmt characters, gives.  Refused the first buffer,
\* the loop starts with room for one character.
bformat(fmt, s, mem) ==
    LET n == IF mem = "tight" THEN 1 ELSE Max({fmt + fmt, StartBuff})
        new == bfromcstrrangealloc(n + 2, n + 2, <<>>, "all")
    IN  IF mem = "none" THEN Err(new) ELSE Formatted(new, n, s, mem)

bformata(x, fmt, s, mem) ==
    LET r == bformat(fmt, s, mem)
    IN  IF ~Writable(x) \/ ~r.ok THEN Err(x) ELSE bconcat(x, Contents(r.b), mem)
bassignformat(x, fmt, s, mem) ==
    LET r == bformat(fmt, s, mem)
    IN  IF ~Writable(x) \/ ~r.ok THEN Err(x) ELSE bassign(x, Contents(r.b), mem)

\* vsnprintf writes over the end of b, at most count + 1 characters and a
\* '\0'; one more '\0' is stored where n + 2 cells end.
bvcformata(x, count, s, mem) ==
    LET n == x.slen + count
        r == balloc(x, n + 2, mem)
        l == x.slen + Len(First(s, count + 1))
        put == Store(Store(Store(r.b, x.slen, First(s, count + 1)), l, <<Nul>>), n + 2, <<Nul>>)
    IN  IF ~Writable(x) \/ count <= 0 \/ ~r.ok THEN Err(x)
        ELSE IF l <= n THEN Ok([put EXCEPT !.slen = l])
        ELSE Err(Ended(put, x.slen))

-----------------------------------------------------------------------------
(* The calls on one bstring, in any order *)

Source == Text \cup {Self}
Pos == -1 .. MaxLen
Span == 0 .. 2

\* What is behind the end is nobody's.
Settled(x) == [x EXCEPT !.data = [i \in DOMAIN @ |-> IF i <= x.slen THEN @[i] ELSE Junk]]

\* A call has returned r.  No call follows a store past the cells.
Returns(r, mem) ==
    /\ ~b.over
    /\ r.b.slen <= MaxLen
    /\ b' = Settled(r.b)
    /\ short' = (short \/ mem # "all")

Init == \E s \in Text : b = Settled(bfromcstr(s)) /\ short = FALSE

\* b is destroyed, which it has to be writable for, and a new one created.
Recreate ==
    /\ Writable(b)
    /\ ~b.over
    /\ \E s \in Text, mem \in Mem \ {"none"} :
          \E x \in {bfromcstr(s), blk2bstr(s), bstrcpy(s, mem)}
                   \cup {bfromcstrrangealloc(Len(s), max, s, mem) : max \in Len(s) .. Len(s) + 2}
                   \cup {bformat(1, s, mem).b} :
              b' = Settled(x) /\ short' = (mem # "all")
Protect == Returns(Ok(bwriteprotect(b)), "all")
Allow == Returns(Ok(bwriteallow(b)), "all")
Reserve == \E n \in Pos, mem \in Mem : \/ Returns(balloc(b, n, mem), mem)
                                      \/ Returns(ballocmin(b, n, mem), mem)
Concat == \E src \in Source, mem \in Mem : Returns(bconcat(b, src, mem), mem)
CatChar == \E c \in Fill, mem \in Mem : Returns(bconchar(b, c, mem), mem)
CatBlock == \E s \in Text, mem \in Mem : Returns(bcatblk(b, s, mem), mem)
CatC == \E s \in Text, mem \in Mem : Returns(bcatcstr(b, s, mem), mem)
Assign == \E src \in Source, mem \in Mem : Returns(bassign(b, src, mem), mem)
AssignMid == \E src \in Source, left \in Pos, len \in Span, mem \in Mem :
                 Returns(bassignmidstr(b, src, left, len, mem), mem)
AssignC == \E s \in Text, mem \in Mem : Returns(bassigncstr(b, s, mem), mem)
AssignBlock == \E s \in Text, mem \in Mem : Returns(bassignblk(b, s, mem), mem)
Truncate == \E n \in Pos : Returns(btrunc(b, n), "all")
Convert == Returns(btoupper(b), "all") \/ Returns(btolower(b), "all")
Delete == \E pos \in Pos, len \in Span : Returns(bdelete(b, pos, len), "all")
Trim == \E r \in {bltrimws(b), brtrimws(b), btrimws(b)} : Returns(r, "all")
SetAt == \E src \in Source, pos \in Pos, c \in Fill, mem \in Mem :
             Returns(bsetstr(b, pos, src, c, mem), mem)
Insert == \E src \in Source, pos \in Pos, c \in Fill, mem \in Mem :
              Returns(binsert(b, pos, src, c, mem), mem)
InsertChar == \E pos \in Pos, len \in Span, c \in Fill, mem \in Mem :
                  Returns(binsertch(b, pos, len, c, mem), mem)
Replace == \E src \in Source, pos \in Pos, len \in Span, c \in Fill, mem \in Mem :
               Returns(breplace(b, pos, len, src, c, mem), mem)
Pattern == \E len \in Pos, mem \in Mem : Returns(bpattern(b, len, mem), mem)
Substitute == \E find, repl \in Source, pos \in -1 .. 1, caseless \in BOOLEAN, mem \in Mem :
                  Returns(findreplaceengine(b, find, repl, pos, caseless, mem), mem)
Format == \E fmt \in {1, MaxLen}, s \in Text, mem \in Mem :
             Returns(bformata(b, fmt, s, mem), mem) \/ Returns(bassignformat(b, fmt, s, mem), mem)
FormatWithin == \E count \in Pos, s \in Text, mem \in Mem : Returns(bvcformata(b, count, s, mem), mem)

Next ==
    \/ Recreate \/ Protect \/ Allow \/ Reserve
    \/ Concat \/ CatChar \/ CatBlock \/ CatC
    \/ Assign \/ AssignMid \/ AssignC \/ AssignBlock
    \/ Truncate \/ Convert \/ Delete \/ Trim
    \/ SetAt \/ Insert \/ InsertChar \/ Replace \/ Pattern \/ Substitute
    \/ Format \/ FormatWithin

Spec == Init /\ [][Next]_vars

-----------------------------------------------------------------------------
(* Properties *)

TypeOK ==
    /\ b.slen \in 0 .. MaxLen /\ b.mlen \in Int
    /\ DOMAIN b.data = 0 .. Cardinality(DOMAIN b.data) - 1
    /\ \A i \in DOMAIN b.data : b.data[i] \in Byte \cup {Nul, Junk}
    /\ short \in BOOLEAN

\* As long as memory is granted in full, whatever is called in whatever order,
\* protection included, the characters of b are set, a '\0' follows them inside
\* the cells, and nothing has been stored outside.
Terminated ==
    ~short => /\ ~b.over
              /\ \A i \in 0 .. b.slen - 1 : b.data[i] # Junk
              /\ b.slen \in DOMAIN b.data /\ b.data[b.slen] = Nul

\* When memory runs short, a store goes past the cells only in the calls that
\* ask for no room for the '\0', in bvcformata, in the one that halves odd sizes, and in a
\* call on a string whose size is its length: an append that failed leaves it
\* so, and bwriteallow declares it so.
OverrunsKnown ==
    [][b'.over => b.mlen = b.slen \/ Assign \/ AssignMid \/ Replace \/ FormatWithin \/ Recreate]_vars

\* A write-protected string keeps its text and its cells until it is allowed.
ProtectedIsKept == [][b.mlen < 0 => b'.data = b.data /\ b'.slen = b.slen]_vars

T == INSTANCE Texts

\* The call leaves the text want, or it fails, for lack of memory or of
\* permission, and leaves the text there was.
Does(r, mem, want) ==
    IF r.ok THEN Contents(r.b) = want
    ELSE Contents(r.b) = Contents(b) /\ (mem # "all" \/ ~Writable(b))

\* Of a C string the first characters may be there when it fails.
DoesInPart(r, mem, want) == IF r.ok THEN Contents(r.b) = want ELSE mem # "all" \/ ~Writable(b)

\* Every call does to the text what Texts says, growing or in place, its own
\* data read or another's, or fails: as a whole, but for those of C strings.
EditsText ==
    LET t == Contents(b)
    IN  ~b.over => \A src \in Source, mem \in Mem :
          LET s == Chars(b, src)
          IN  /\ Does(bconcat(b, src, mem), mem, t \o s)
              /\ Does(bassign(b, src, mem), mem, s)
              /\ src \in Text => /\ Does(bcatblk(b, s, mem), mem, t \o s)
                                 /\ Does(bassignblk(b, s, mem), mem, s)
                                 /\ DoesInPart(bcatcstr(b, s, mem), mem, t \o s)
                                 /\ DoesInPart(bassigncstr(b, s, mem), mem, s)
                                 /\ Does(bformata(b, 1, s, mem), mem, t \o s)
                                 /\ Does(bassignformat(b, 1, s, mem), mem, s)
                                 /\ \A count \in 1 .. MaxLen :
                                       LET r == bvcformata(b, count, s, mem)
                                       IN  IF Len(s) <= count THEN Does(r, mem, t \o s)
                                           ELSE ~r.ok /\ Contents(r.b) = t
              /\ \A pos \in 0 .. MaxLen, c \in Fill :
                    /\ Does(bsetstr(b, pos, src, c, mem), mem, T!Overwritten(t, pos, s, c))
                    /\ Does(binsert(b, pos, src, c, mem), mem, T!Inserted(t, pos, s, c))
                    /\ \A len \in Span :
                         /\ Does(breplace(b, pos, len, src, c, mem), mem, T!Replaced(t, pos, len, s, c))
                         /\ Does(binsertch(b, pos, len, c, mem), mem,
                                 IF pos > Len(t) THEN T!Padded(t, pos + len, c)
                                 ELSE T!Inserted(t, pos, [i \in 1 .. len |-> c], c))
              /\ \A pos \in Pos, len \in Span :
                    Does(bassignmidstr(b, src, pos, len, mem), mem, T!Middle(s, pos, len))

\* The same of the calls that take and trim parts, repeat and substitute.
ReshapesText ==
    LET t == Contents(b)
        like == [caseless \in BOOLEAN |-> IF caseless THEN Down ELSE [c \in Byte |-> c]]
    IN  ~b.over =>
          /\ \A n \in 0 .. MaxLen : Does(btrunc(b, n), "all", T!Middle(t, 0, n))
          /\ \A pos \in Pos, len \in 1 .. 2 : Does(bdelete(b, pos, len), "all", T!Deleted(t, pos, len))
          /\ Does(bltrimws(b), "all", T!TrimmedLeft(t, Space))
          /\ Does(brtrimws(b), "all", T!TrimmedRight(t, Space))
          /\ Does(btrimws(b), "all", T!TrimmedLeft(T!TrimmedRight(t, Space), Space))
          /\ \A mem \in Mem :
                /\ t # <<>> => \A n \in 0 .. MaxLen : Does(bpattern(b, n, mem), mem, T!Repeated(t, n))
                /\ \A f \in Source \ {<<>>}, r \in Source, caseless \in BOOLEAN, pos \in 0 .. 1 :
                      Chars(b, f) # <<>> /\ pos <= Len(t) =>
                         Does(findreplaceengine(b, f, r, pos, caseless, mem), mem,
                              T!Substituted(t, Chars(b, f), Chars(b, r), pos, like[caseless]))
=============================================================================
