----------------------------- MODULE MCPrograms -----------------------------
(***************************************************************************)
(* The string libraries and the programs built on files, at sizes TLC can  *)
(* exhaust.  They share nothing, so a behaviour is one of a single part:   *)
(* devpkg's runs, the two searches of string_algos.c, a bstring, a stream, *)
(* or one question to the functions that only look at what they are given. *)
(* The other parts stay at one of their initial states.                    *)
(***************************************************************************)
EXTENDS MCDevpkg

CONSTANTS Self, Junk, NoNeedle

VARIABLES part,
          table, scan, result,                                          \* StringSearch
          b, short,                                                     \* Bstring
          core, buff, isEOF, maxBuffSz, open, r, ended,                 \* BStream
          call, pieces, lost,
          asked                                                         \* the question

-----------------------------------------------------------------------------
(* Strings.  65 and 97 are 'A' and 'a', 32 ' ', 10 '\n'; 200 is negative as *)
(* a char, 255 EOF.                                                        *)

UpTo(n, chars) == UNION {[1 .. k -> chars] : k \in 0 .. n}

Down == [c \in {0, 1, 2, 32, 65, 97, 200} |-> IF c = 65 THEN 97 ELSE c]
Up == [c \in DOMAIN Down |-> IF c = 97 THEN 65 ELSE c]

Find == INSTANCE StringSearch WITH
    Haystack <- UpTo(4, {1, 2, 255}), Needle <- UpTo(2, {1, 2}), TopByte <- 255

Text == INSTANCE Bstring WITH
    Text <- {<<>>, <<97>>, <<32, 65, 97>>}, Byte <- {32, 65, 97}, Space <- {32},
    Nul <- 0, Fill <- {97}, Floor <- 2, StartBuff <- 2, MaxLen <- 3

\* 1, 2, 3 and 3 for 16, 8, 256 and 1024; the long stream is one whose end,
\* behind the first chunk, holds a separator.
Stream == INSTANCE BStream WITH
    Data <- UpTo(3, {1, 2}) \cup {<<2, 1, 1, 2, 1>>},
    Terms <- {{2}, {1, 2}}, Seps <- {<<>>, <<2>>, <<2, 1>>}, Unreads <- {<<2, 1>>},
    MaxRead <- 2, MaxLen <- 5, First16 <- 1, Floor <- 2, Chunk <- 3, BuffSize <- 3, Nul <- 0

Ask == INSTANCE BstringSearch WITH Nul <- 0

\* Words of 12 bits: 3525 is what 2166136261 leaves of them.
Hash == INSTANCE HashAlgos WITH
    W <- 12, FNV_PRIME <- 16777619, FNV_OFFSET_BASIS <- 3525, MOD_ADLER <- 61

Report == INSTANCE Reports WITH
    Digit <- {1, 2}, Space <- 32, NL <- 10, Eof <- 255, Nul <- 0,
    NumSize <- 3, NameSize <- 2, ArraySize <- 3

ASSUME Hash!WAssumption /\ Report!SizesAssumption

\* Long strings of two characters, for the searches, and short ones of all
\* kinds of characters, for the orders.
Pairs == {[ask |-> "pair", s |-> s, t |-> t] : s \in UpTo(6, {1, 2}), t \in UpTo(3, {1, 2})}
         \cup {[ask |-> "pair", s |-> s, t |-> t] : s, t \in UpTo(3, {0, 65, 97, 200})}
Keys == {[ask |-> "key", s |-> s] : s \in UpTo(5, {1, 2, 7})}
Headings == {<<1, 10>>, <<1, 32, 1, 10>>, <<32, 10>>, <<1, 1, 1, 10>>, <<1>>}
Tables == {[ask |-> "table", head |-> h, data |-> d] : h \in Headings, d \in UpTo(6, {1, 2, 32, 10})}

Questions == Pairs \cup Keys \cup Tables
NoQuestion == [ask |-> "none"]

-----------------------------------------------------------------------------
findVars == <<table, scan, result>>
textVars == <<b, short>>
streamVars == <<core, buff, isEOF, maxBuffSz, open, r, ended, call, pieces, lost>>

PartsInit ==
    /\ part \in {"devpkg", "find", "text", "stream", "ask"}
    /\ Init
    /\ Find!Init /\ (part = "find" \/ scan.in = <<>>)
    /\ Text!Init /\ (part = "text" \/ Text!Contents(b) = <<>>)
    /\ Stream!Init /\ (part = "stream" \/ core = <<>>)
    /\ asked \in IF part = "ask" THEN Questions ELSE {NoQuestion}

DevpkgNext == part = "devpkg" /\ Next /\ UNCHANGED <<part, findVars, textVars, streamVars, asked>>
FindNext == part = "find" /\ Find!Next /\ UNCHANGED <<part, vars, textVars, streamVars, asked>>
TextNext == part = "text" /\ Text!Next /\ UNCHANGED <<part, vars, findVars, streamVars, asked>>
StreamNext == part = "stream" /\ Stream!Next /\ UNCHANGED <<part, vars, findVars, textVars, asked>>

PartsSpec ==
    PartsInit /\ [][DevpkgNext \/ FindNext \/ TextNext \/ StreamNext]_
                   <<part, vars, findVars, textVars, streamVars, asked>>

-----------------------------------------------------------------------------
\* A search finds the first place, but the one at the very end
\* (string_algos.c:22); one that does not end met the byte 255 or the table
\* of ""; and the scanner never looks past its string.
FindsFirst == Find!FindsFirst /\ Find!HangsKnown /\ []Find!ScannerStaysInside

\* Every call leaves a bstring that is set and ended inside its memory.
Terminated == part = "text" => Text!TypeOK /\ Text!Terminated

\* When memory runs short only known calls store behind it, and a
\* write-protected bstring is not written (bstrlib.c:438).
StoresAreKnown == Text!OverrunsKnown /\ Text!ProtectedIsKept

\* Appends, assignments, inserts, replacements, trims, deletes, repeats and
\* substitutions do to the text what Texts says, or nothing (bstrlib.c:368).
DoesToText == part = "text" => Text!EditsText /\ Text!ReshapesText

\* Each call on a stream does what ByteStream says of it: lines and pieces end
\* where they should, every byte is given in its place and once, and only
\* closing the stream and splitting it by a string loses some; what is read is
\* ended, and the end is seen at the end only (bstrlib.c:2275).
IsByteStream == Stream!IsByteStream /\ Stream!NotReadAhead /\ []Stream!EndedUntilEof

\* binstr finds the first place from any position on and its variants what
\* they look for (bstrlib.c:1097), the searches for characters agree with each
\* other (line 1389), and the pieces of a split joined again are the string
\* (line 2679).
SearchesAgree ==
    asked.ask = "pair" =>
       /\ \A pos \in 0 .. Len(asked.s) : /\ Ask!FirstPlace(asked.s, pos, asked.t)
                                         /\ Ask!CharsAgree(asked.s, pos, asked.t)
       /\ Ask!SplitsJoin(asked.s, asked.t)

\* bstricmp orders strings by their lowered signed characters (bstrlib.c:639),
\* and bstrcmp and bstrncmp agree and order strings (line 957).
OrdersAgree == asked.ask = "pair" => /\ Ask!CaselessOrder(asked.s, asked.t)
                                     /\ Ask!PlainOrder(asked.s, asked.t)

\* Changing one byte of a key changes each of its hashes (hashmap_algos.c).
OneByteApart == asked.ask = "key" =>
    \A i \in DOMAIN asked.s : Hash!OneByteApart(asked.s, [asked.s EXCEPT ![i] = 3])

\* reporter samples every number of its file in order and leaves its arrays
\* for long numbers and long files only (reporter.c:19); proc puts every
\* number under the heading of its column and never samples the one it did
\* not read (proc.c:53, 84).
TablesAreSampled ==
    asked.ask = "table" => /\ Report!ReporterSamples(asked.data)
                           /\ Report!ReporterOverruns(asked.data)
                           /\ Report!ProcColumns(asked.head, asked.data)
                           /\ Report!UnsetNotShown(asked.head, asked.data)
=============================================================================
