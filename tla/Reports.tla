------------------------------ MODULE Reports ------------------------------
(***************************************************************************)
(* reporter.c, which samples every number of a file, and proc.c, which     *)
(* samples the columns of a table.  Both read a character at a time,       *)
(* collect the digits of a number in an array and hand that to sscanf.     *)
(* fgetc's EOF arrives as one more character before feof is seen.          *)
(*                                                                         *)
(* A number is the sequence of its digits, Zero is 0.  What sscanf leaves  *)
(* alone keeps its value: Junk in a double that was only allocated.        *)
(***************************************************************************)
EXTENDS Integers, Sequences, FiniteSets, SequencesExt

CONSTANTS Digit, Space, NL, Eof, Nul,
          Junk,         \* the number found in allocated memory
          NumSize,      \* of nums (20) and num (16)
          NameSize,     \* of name (20)
          ArraySize     \* of array (200)

SizesAssumption == {NumSize, NameSize, ArraySize} \subseteq Nat \ {0}

Separator == {Space, NL}
Zero == <<>>

\* sscanf(nums, "%lf", &before)
Scanned(nums, before) ==
    LET n == CHOOSE k \in 0 .. NumSize : /\ \A j \in 1 .. k : nums[j] \in Digit
                                         /\ k = NumSize \/ nums[k + 1] \notin Digit
    IN  IF n = 0 THEN before ELSE SubSeq(nums, 1, n)

\* All NumSize characters are digits: sscanf reads on behind the array.
Unterminated(nums) == \A j \in 1 .. NumSize : nums[j] \in Digit

Blank == [j \in 1 .. NumSize |-> Nul]

-----------------------------------------------------------------------------
(* reporter.c *)

ReporterStart == [nums |-> Blank, i |-> 0, mid |-> Zero, array |-> <<>>,
                  spaced |-> FALSE, failed |-> FALSE, overrun |-> FALSE]

\* sscanf and array[count]
Recorded(r) == [r EXCEPT !.mid = Scanned(r.nums, r.mid),
                         !.array = Append(@, Scanned(r.nums, r.mid)),
                         !.overrun = @ \/ Unterminated(r.nums) \/ Len(r.array) >= ArraySize]

\* nums[0] to nums[i] are cleared: one more than were written, or than there are.
Separated(r) ==
    [Recorded(r) EXCEPT !.nums = [j \in 1 .. NumSize |-> IF j <= r.i + 1 THEN Nul ELSE @[j]],
                        !.overrun = @ \/ r.i = NumSize,
                        !.i = 0, !.spaced = TRUE]

\* nums has room for one more character.
HasRoom(r) == r.i < NumSize

ReporterRead(r, ch) ==
    IF r.failed THEN r
    ELSE IF ch \in Separator THEN IF r.spaced THEN r ELSE Separated(r)
    ELSE IF ~HasRoom(r) THEN [r EXCEPT !.failed = TRUE]
    ELSE [r EXCEPT !.nums[r.i + 1] = ch, !.i = @ + 1, !.spaced = FALSE]

reporter(file) ==
    LET r == FoldLeft(ReporterRead, ReporterStart, Append(file, Eof))
    IN  IF r.failed \/ r.spaced THEN r ELSE Recorded(r)

-----------------------------------------------------------------------------
(* proc.c *)

\* Lines 28 to 45: how many names the first line has; a name of more than
\* NameSize characters, or a file without a line end, ends the program.
Headings(head) ==
    FoldLeft(LAMBDA h, ch :
                 IF ch \notin Separator THEN [h EXCEPT !.i = @ + 1, !.spaced = FALSE,
                                                       !.failed = @ \/ h.i >= NameSize]
                 ELSE IF h.spaced THEN h
                 ELSE [h EXCEPT !.count = @ + 1, !.spaced = TRUE, !.i = 0],
             [i |-> 0, spaced |-> FALSE, count |-> 0, failed |-> FALSE], head)

TableStart(head) ==
    LET h == Headings(head)
    IN  [num |-> Blank, i |-> 0, elms |-> 0, doub |-> Junk, spaced |-> h.spaced,
         contents |-> [c \in 1 .. h.count |-> <<>>],
         failed |-> h.failed \/ head = <<>> \/ Last(head) # NL, overrun |-> FALSE]

\* sscanf and DArray_push(contents[elms], doub); the next doub is new memory.
Pushed(r) == [r EXCEPT !.contents[r.elms + 1] = Append(@, Scanned(r.num, r.doub)),
                       !.overrun = @ \/ Unterminated(r.num)]

\* Mutant of LineEnd: the column is not reset.
LineEndNot(r, ch) == r

LineEnd(r, ch) == IF ch = NL THEN [r EXCEPT !.elms = 0] ELSE r

\* Lines 53 to 75.  num is never cleared.
TableRead(r, ch) ==
    IF r.failed THEN r
    ELSE IF ch \in Separator
    THEN LineEnd(IF r.spaced THEN r
                 ELSE [Pushed(r) EXCEPT !.doub = Junk, !.elms = @ + 1, !.spaced = TRUE, !.i = 0], ch)
    ELSE IF r.elms >= Len(r.contents) \/ ~HasRoom(r) THEN [r EXCEPT !.failed = TRUE]
    ELSE [r EXCEPT !.num[r.i + 1] = ch, !.i = @ + 1, !.spaced = FALSE]

Table(head, data) ==
    LET r == FoldLeft(TableRead, TableStart(head), Append(data, Eof))
    IN  IF r.failed \/ r.spaced THEN r ELSE Pushed(r)

\* Lines 81 to 90: column c is shown as far as the column with the number i,
\* which by then counts the characters of the last number.
Shown(r, c) == Len(r.contents[r.i + 1])

Printed(r) == [c \in 1 .. Len(r.contents) |-> SubSeq(r.contents[c], 1, Shown(r, c))]

-----------------------------------------------------------------------------
(* The numbers of a file *)

Starts(file) == {k \in 1 .. Len(file) : file[k] \in Digit /\ (k = 1 \/ file[k - 1] \in Separator)}

Number(file, k) ==
    SubSeq(file, k, CHOOSE e \in k .. Len(file) : /\ \A j \in k .. e : file[j] \in Digit
                                                  /\ e = Len(file) \/ file[e + 1] \in Separator)

Numbers(file) ==
    LET s == SetToSortSeq(Starts(file), <) IN [n \in 1 .. Len(s) |-> Number(file, s[n])]

\* The column of the number that starts at k.
Column(file, k) ==
    Cardinality({j \in Starts(file) : j <= k /\ \A e \in j .. k : file[e] # NL})

EndsOpen(file) == file # <<>> /\ Last(file) \in Digit

\* A number laid over the one read before it.
Overlaid(before, number) == number \o SubSeq(before, Len(number) + 1, Len(before))

-----------------------------------------------------------------------------
\* reporter samples the numbers of the file in order.  A separator at the
\* start adds a 0, one at the end, or an empty file, the last number again
\* (reporter.c:38).
ReporterSamples(file) ==
    LET r == reporter(file)
        lead == IF file # <<>> /\ Head(file) \in Separator THEN <<Zero>> ELSE <<>>
        all == lead \o Numbers(file)
        again == IF EndsOpen(file) THEN <<>> ELSE IF all = <<>> THEN <<Zero>> ELSE <<Last(all)>>
    IN  ~r.failed /\ ~r.overrun => r.array = all \o again

\* reporter leaves its arrays for a number of exactly NumSize digits before
\* a separator and for more numbers than array holds, and for nothing else
\* (reporter.c:22, 29).
ReporterOverruns(file) ==
    LET r == reporter(file)
    IN  ~r.failed => (r.overrun <=> \/ \E k \in Starts(file) : Len(Number(file, k)) = NumSize
                                    \/ Len(r.array) > ArraySize)

\* Each column of proc has the numbers below its heading, in order, each
\* laid over the digits of the number before it in the file, longer ones
\* showing behind it (proc.c:59); a file that ends with a separator adds an
\* unset number to the column that would come next (proc.c:78).
ProcColumns(head, data) ==
    LET r == Table(head, data)
        at == SetToSortSeq(Starts(data), <)
        read[n \in 0 .. Len(at)] ==
            IF n = 0 THEN <<>>
            ELSE IF n = Len(at) /\ EndsOpen(data) THEN Number(data, at[n])
            ELSE Overlaid(read[n - 1], Number(data, at[n]))
        below(c) == SelectSeq([n \in 1 .. Len(at) |-> n], LAMBDA n : Column(data, at[n]) = c)
        next == 1 + Cardinality({k \in Starts(data) : NL \notin Range(SubSeq(data, k, Len(data)))})
        column(c) == [k \in 1 .. Len(below(c)) |-> read[below(c)[k]]]
    IN  ~r.failed /\ ~r.overrun =>
           r.contents = [c \in 1 .. Len(r.contents) |->
              column(c) \o (IF c = next /\ ~EndsOpen(data) THEN <<Junk>> ELSE <<>>)]

\* For a table of at least two full columns that ends with a line end, the
\* wrong bound of proc.c:84 is what keeps the unset number from being
\* sampled: each column is shown as long as the second one.
UnsetNotShown(head, data) ==
    LET r == Table(head, data)
        rectangular == \A c \in 1 .. Len(r.contents) :
            Cardinality({k \in Starts(data) : Column(data, k) = c})
              = Cardinality({k \in Starts(data) : Column(data, k) = 1})
    IN  ~r.failed /\ Len(r.contents) >= 2 /\ rectangular /\ data # <<>> /\ Last(data) = NL
           => \A c \in 1 .. Len(r.contents) : Junk \notin Range(Printed(r)[c])
=============================================================================
