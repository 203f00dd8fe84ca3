---------------------------- MODULE StringSearch ----------------------------
(***************************************************************************)
(* src/src/string_algos.c: String_find, whose skip table is static, and    *)
(* the StringScanner.  A string is the sequence of its bytes; a position   *)
(* counts from 0.  A skip table is named by the needle it was built for,   *)
(* and NoNeedle is the table of zeros it starts as.  A behaviour searches   *)
(* one string for any needles in any order.                                *)
(***************************************************************************)
EXTENDS Integers, SequencesExt

CONSTANTS Haystack, Needle,   \* the strings callers pass
          TopByte,            \* the byte 255, whose skip is never set up
          NoNeedle

VARIABLES table,    \* what String_find's static table was built for
          scan,     \* the scanner; at is its haystack pointer
          result    \* of the last call

vars == <<table, scan, result>>

Missed == -1
Hangs == -2        \* the call never returns

-----------------------------------------------------------------------------

\* String_setup_skipchars: the last place of c in the needle, its last
\* character not counted.
SkipChars(built, c) ==
    LET places == {i \in 1 .. Len(built) - 1 : built[i] = c}
    IN  IF built = NoNeedle \/ c = TopByte THEN 0
        ELSE IF places = {} THEN Len(built) ELSE Len(built) - Max(places)

Matches(h, at, needle) == SubSeq(h, at + 1, at + Len(needle)) = needle

RECURSIVE String_base_search(_, _, _, _, _)

\* Mutant of String_base_search: a jump goes one too far.
BaseSearchFar(h, at, hlen, needle, built) ==
    IF hlen <= Len(needle) \/ needle = <<>> THEN Missed
    ELSE IF Matches(h, at, needle) THEN at
    ELSE LET skip == SkipChars(built, h[at + Len(needle)]) + 1
         IN  String_base_search(h, at + skip, hlen - skip, needle, built)

\* hlen bytes are left from at on; a match must end before the last of them.
String_base_search(h, at, hlen, needle, built) ==
    LET skip == SkipChars(built, h[at + Len(needle)])
    IN  IF hlen <= Len(needle) \/ needle = <<>> THEN Missed
        ELSE IF Matches(h, at, needle) THEN at
        ELSE IF skip = 0 THEN Hangs
        ELSE String_base_search(h, at + skip, hlen - skip, needle, built)

Init == table = NoNeedle /\ result = Missed
        /\ scan \in {[in |-> h, at |-> 0, hlen |-> Len(h), needle |-> NoNeedle] : h \in Haystack}

\* The table is set up for the first needle the process looks for.
String_find(what) ==
    /\ result # Hangs
    /\ table' = IF table = NoNeedle THEN what ELSE table
    /\ result' = String_base_search(scan.in, 0, Len(scan.in), what, table')
    /\ UNCHANGED scan

\* hlen is the length left before the match; found counts from the start of
\* the string.
Advanced(found, needle) ==
    [scan EXCEPT !.at = found + Len(needle), !.hlen = @ - (found + Len(needle)),
                 !.needle = needle]

Reset(needle) == [scan EXCEPT !.at = 0, !.hlen = Len(scan.in), !.needle = needle]

StringScanner_scan(tofind) ==
    /\ result # Hangs
    /\ IF scan.hlen <= 0 THEN scan' = Reset(scan.needle) /\ result' = Missed
       ELSE LET found == String_base_search(scan.in, scan.at, scan.hlen, tofind, tofind)
            IN  /\ result' = found
                /\ scan' = IF found = Hangs THEN scan
                           ELSE IF found = Missed THEN Reset(tofind)
                           ELSE Advanced(found, tofind)
    /\ UNCHANGED table

Next == \E n \in Needle : String_find(n) \/ StringScanner_scan(n)

Spec == Init /\ [][Next]_vars

-----------------------------------------------------------------------------

Places(h, needle) == {p \in 0 .. Len(h) - Len(needle) : Matches(h, p, needle)}

\* The scanner never looks past its string, although the length it keeps is
\* not the length that is left: what it keeps is never more.
ScannerStaysInside == scan.hlen <= Len(scan.in) - scan.at

\* A search with a table of its own needle returns the first place of the
\* needle, unless that place is at the very end.  A table of another needle
\* may miss it, but what is found is a place, and a scanner's place is behind
\* the match of the scan before.
FindsFirst ==
    [][/\ \A n \in Needle : result' >= 0 /\ StringScanner_scan(n) =>
             result' \in Places(scan.in, n) /\ result' >= scan.at
       /\ \A n \in Needle \ {<<>>} : table' # NoNeedle /\ result' # Hangs /\ String_find(n) =>
             LET inner == Places(scan.in, n) \ {Len(scan.in) - Len(n)}
             IN  /\ result' # Missed => result' \in inner
                 /\ table' = n => result' = IF inner = {} THEN Missed ELSE Min(inner)]_vars

\* A search that does not end met the byte 255, or uses a table that was built
\* for the empty string.
HangsKnown ==
    [][result' = Hangs => \/ TopByte \in ToSet(scan.in)
                          \/ table' = <<>> /\ \E n \in Needle : String_find(n)]_vars
=============================================================================
