----------------------------- MODULE HashAlgos -----------------------------
(***************************************************************************)
(* hashmap_algos.c: the hash functions a Hashmap may be given, on words of *)
(* W bits.  uint32_t is W = 32, where FNV_PRIME, FNV_OFFSET_BASIS and      *)
(* MOD_ADLER have the values of the source; of the first two only their    *)
(* last W bits matter, and MOD_ADLER is the greatest prime that half a     *)
(* word holds.                                                             *)
(***************************************************************************)
EXTENDS Integers, Sequences, FiniteSets, SequencesExt, Bitwise

CONSTANTS W, FNV_PRIME, FNV_OFFSET_BASIS, MOD_ADLER

WAssumption == W \in Nat \ {0} /\ W % 2 = 0

Word(n) == n % 2^W
ShiftLeft(h, n) == Word(h * 2^n)
ShiftRight(h, n) == h \div 2^n

Hashmap_fnv1a_hash(s) ==
    FoldLeft(LAMBDA h, c : Word((h ^^ c) * Word(FNV_PRIME)), Word(FNV_OFFSET_BASIS), s)

\* Mutant of Hashmap_djb_hash: hash * 32 for hash * 33.
Hashmap_djb_hashShift(s) == FoldLeft(LAMBDA h, c : Word(ShiftLeft(h, 5) + c), Word(5381), s)

Hashmap_djb_hash(s) == FoldLeft(LAMBDA h, c : Word(ShiftLeft(h, 5) + h + c), Word(5381), s)

Hashmap_adler32_hash(s) ==
    LET sums == FoldLeft(LAMBDA r, c : LET a == (r.a + c) % MOD_ADLER
                                       IN  [a |-> a, b |-> (r.b + a) % MOD_ADLER],
                         [a |-> 1, b |-> 0], s)
    IN  ShiftLeft(sums.b, W \div 2) | sums.a

\* One byte of default_hash: hash += c, hash += hash << 10, hash ^= hash >> 6.
Stirred(h, c) ==
    LET added == Word(h + c)
        spread == Word(added + ShiftLeft(added, 10))
    IN  spread ^^ ShiftRight(spread, 6)

default_hash(s) ==
    LET stirred == FoldLeft(Stirred, 0, s)
        spread == Word(stirred + ShiftLeft(stirred, 3))
        folded == spread ^^ ShiftRight(spread, 11)
    IN  Word(folded + ShiftLeft(folded, 15))

-----------------------------------------------------------------------------
DifferAt(s, t) == {i \in 1 .. Len(s) : s[i] # t[i]}

\* Two keys of one length that differ in a single byte never share a hash:
\* every step of these functions can be undone, whatever has overflowed
\* before.
OneByteApart(s, t) ==
    Len(s) = Len(t) /\ Cardinality(DifferAt(s, t)) = 1 =>
       /\ Hashmap_fnv1a_hash(s) # Hashmap_fnv1a_hash(t)
       /\ Hashmap_djb_hash(s) # Hashmap_djb_hash(t)
       /\ Hashmap_adler32_hash(s) # Hashmap_adler32_hash(t)
       /\ default_hash(s) # default_hash(t)
=============================================================================
