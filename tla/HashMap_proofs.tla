--------------------------- MODULE HashMap_proofs ---------------------------
(***************************************************************************)
(* For every number of keys, buckets and nodes, every initial size, every  *)
(* ExpandRate and every hash: an array of the map has a cell left for the  *)
(* next push, each node lies in one cell of the bucket of its key, and as  *)
(* long as the buckets are in order a call is a call on a finite map.      *)
(*                                                                         *)
(* MapInv is the inductive invariant.  It says nothing of the order of the *)
(* keys, because a delete may spoil it: what depends on the order is       *)
(* proved of a step that starts in order, with what the search by halves   *)
(* answers in a bucket that is in order and in one that is not.            *)
(***************************************************************************)
EXTENDS HashMap, FiniteSetTheorems, FunctionTheorems, WellFoundedInduction, TLAPS

\* A set of numbers that is not empty has a least element.
LEMMA LeastOf ==
    ASSUME NEW T \in SUBSET Nat, T # {}
    PROVE  \E x \in T : \A y \in T : x <= y
<1> DEFINE R == OpToRel(<, Nat)
<1>1. IsWellFoundedOn(R, Nat)  BY NatLessThanWellFounded
<1> HIDE DEF R
<1>2. PICK x \in T : \A y \in T : ~ (<<y, x>> \in R)  BY <1>1, WFMin
<1>3. ASSUME NEW y \in T PROVE x <= y
  <2>1. x \in Nat /\ y \in Nat  OBVIOUS
  <2>2. y < x => <<y, x>> \in R  BY <2>1 DEF R, OpToRel
  <2>3. QED  BY <1>2, <2>1, <2>2
<1>4. QED  BY <1>3

\* Induction, in the form of a set of numbers: every property is a set.
LEMMA ByInduction ==
    ASSUME NEW T \in SUBSET Nat, 0 \in T, \A n \in T : n + 1 \in T
    PROVE  T = Nat
<1> SUFFICES ASSUME Nat \ T # {} PROVE FALSE  OBVIOUS
<1>1. PICK x \in Nat \ T : \A y \in Nat \ T : x <= y
  <2>1. Nat \ T \in SUBSET Nat  OBVIOUS
  <2>2. QED  BY <2>1, LeastOf
<1>2. x # 0 /\ x - 1 \in Nat /\ x - 1 \in T  BY <1>1
<1>3. (x - 1) + 1 = x  BY <1>1
<1>4. QED  BY <1>1, <1>2, <1>3

-----------------------------------------------------------------------------
(* The search by halves.                                                   *)

Halves(a) == (0 .. a.end) \X (-1 .. a.end - 1)
KeyIn(a, i) == heap[a.contents[i]].key
Middle(h) == h[1] + (h[2] - h[1]) \div 2
Upper(h) == <<Middle(h) + 1, h[2]>>
Lower(h) == <<h[1], Middle(h) - 1>>

\* What Hashmap_get_node makes of a half, f being what it makes of smaller ones.
Probed(a, k, f, h) ==
    IF h[1] > h[2] THEN -1
    ELSE IF KeyIn(a, Middle(h)) = k THEN Middle(h)
    ELSE IF KeyIn(a, Middle(h)) < k THEN f[Upper(h)]
    ELSE f[Lower(h)]

Searches(a, k, f) == f = [h \in Halves(a) |-> Probed(a, k, f, h)]

\* What is left of a half, above or below its middle, is a half (hashmap.c:89-106).
LEMMA HalvesOfHalves ==
    ASSUME NEW a, a.end \in Nat, NEW h \in Halves(a), h[1] <= h[2]
    PROVE  /\ Middle(h) \in h[1] .. h[2] /\ Middle(h) \in 0 .. a.end - 1
           /\ Upper(h) \in Halves(a) /\ Lower(h) \in Halves(a)
           /\ Upper(h)[1] = Middle(h) + 1 /\ Upper(h)[2] = h[2]
           /\ Lower(h)[1] = h[1] /\ Lower(h)[2] = Middle(h) - 1
<1>1. h[1] \in 0 .. a.end /\ h[2] \in -1 .. a.end - 1  BY DEF Halves
<1> DEFINE m == Middle(h)
<1>2. m \in h[1] .. h[2]  BY <1>1 DEF Middle
<1> HIDE DEF m
<1>3. Upper(h) = <<m + 1, h[2]>> /\ Lower(h) = <<h[1], m - 1>>  BY DEF m, Upper, Lower
<1>4. m + 1 \in 0 .. a.end /\ m - 1 \in -1 .. a.end - 1 /\ m \in 0 .. a.end - 1  BY <1>1, <1>2
<1>5. QED  BY <1>1, <1>2, <1>3, <1>4 DEF Halves, m

\* The loop ends: some function is what it makes of every half.
LEMMA SearchDefined ==
    ASSUME NEW a, a.end \in Nat, NEW k
    PROVE  \E f : Searches(a, k, f)
<1> DEFINE T == {n \in Nat : \E f : \A h \in Halves(a) : h[2] - h[1] < n => f[h] = Probed(a, k, f, h)}
<1>1. 0 \in T
  <2> DEFINE f == [h \in Halves(a) |-> -1]
  <2>1. ASSUME NEW h \in Halves(a), h[2] - h[1] < 0 PROVE f[h] = Probed(a, k, f, h)
    <3>1. h[1] > h[2]  BY <2>1 DEF Halves
    <3>2. QED  BY <3>1 DEF Probed
  <2> HIDE DEF f
  <2>2. QED  BY <2>1
<1>2. ASSUME NEW n \in T PROVE n + 1 \in T
  <2>1. PICK f : \A h \in Halves(a) : h[2] - h[1] < n => f[h] = Probed(a, k, f, h)  OBVIOUS
  <2> DEFINE g == [h \in Halves(a) |-> Probed(a, k, f, h)]
  <2>2. ASSUME NEW h \in Halves(a), h[2] - h[1] < n PROVE g[h] = f[h]  BY <2>1, <2>2
  <2>3. ASSUME NEW h \in Halves(a), h[2] - h[1] < n + 1 PROVE g[h] = Probed(a, k, g, h)
    <3>1. g[h] = Probed(a, k, f, h)  OBVIOUS
    <3>2. CASE h[1] > h[2]  BY <3>1, <3>2 DEF Probed
    <3>3. CASE h[1] <= h[2]
      <4>1. /\ Middle(h) \in h[1] .. h[2]
            /\ Upper(h) \in Halves(a) /\ Lower(h) \in Halves(a)
            /\ Upper(h)[1] = Middle(h) + 1 /\ Upper(h)[2] = h[2]
            /\ Lower(h)[1] = h[1] /\ Lower(h)[2] = Middle(h) - 1
        BY <3>3, HalvesOfHalves
      <4>2. h[1] \in Int /\ h[2] \in Int /\ n \in Nat  BY DEF Halves
      <4>3. Upper(h)[2] - Upper(h)[1] < n /\ Lower(h)[2] - Lower(h)[1] < n
        <5> DEFINE m == Middle(h)
        <5>1. m \in h[1] .. h[2] /\ Upper(h)[1] = m + 1 /\ Lower(h)[2] = m - 1  BY <4>1
        <5> HIDE DEF m
        <5>2. QED  BY <2>3, <4>1, <4>2, <5>1
      <4>4. g[Upper(h)] = f[Upper(h)] /\ g[Lower(h)] = f[Lower(h)]  BY <2>2, <4>1, <4>3
      <4> HIDE DEF g
      <4>5. QED  BY <3>1, <4>4 DEF Probed
    <3>4. QED  BY <3>2, <3>3 DEF Halves
  <2> HIDE DEF g
  <2>4. QED  BY <2>3
<1>3. T = Nat
  <2> HIDE DEF T
  <2>1. T \in SUBSET Nat  BY DEF T
  <2>2. QED  BY <1>1, <1>2, <2>1, ByInduction
<1>4. PICK f : \A h \in Halves(a) : h[2] - h[1] < a.end => f[h] = Probed(a, k, f, h)
  <2>1. a.end \in T  BY <1>3
  <2>2. QED  BY <2>1
<1>5. ASSUME NEW h \in Halves(a) PROVE f[h] = Probed(a, k, f, h)
  <2>1. h[2] - h[1] < a.end  BY DEF Halves
  <2>2. QED  BY <1>4, <2>1
<1> DEFINE g == [h \in Halves(a) |-> Probed(a, k, f, h)]
<1>6. \A h \in Halves(a) : g[h] = f[h]  BY <1>5
<1>7. ASSUME NEW h \in Halves(a) PROVE Probed(a, k, g, h) = Probed(a, k, f, h)
  <2>1. CASE h[1] <= h[2]
    <3>1. Upper(h) \in Halves(a) /\ Lower(h) \in Halves(a)  BY <2>1, HalvesOfHalves
    <3>2. g[Upper(h)] = f[Upper(h)] /\ g[Lower(h)] = f[Lower(h)]  BY <1>6, <3>1
    <3> HIDE DEF g
    <3>3. QED  BY <3>2 DEF Probed
  <2>2. CASE h[1] > h[2]  BY <2>2 DEF Probed
  <2>3. QED  BY <2>1, <2>2 DEF Halves
<1>8. Searches(a, k, g)
  <2>1. g = [h \in Halves(a) |-> Probed(a, k, g, h)]  BY <1>7
  <2>2. QED  BY <2>1 DEF Searches
<1>9. QED  BY <1>8

\* Keys in strictly ascending order, over any distance.
Ascending(a) == \A i, j \in 0 .. a.end - 1 : i < j => KeyIn(a, i) < KeyIn(a, j)
HasKeys(a) == \A i \in 0 .. a.end - 1 : KeyIn(a, i) \in Int

\* What the search answers about a half; in a bucket out of order it may miss.
Answers(a, k, h, p) ==
    /\ p = -1 \/ (p \in 0 .. a.end - 1 /\ KeyIn(a, p) = k)
    /\ Ascending(a) /\ p = -1 => \A i \in h[1] .. h[2] : KeyIn(a, i) # k

\* A place the search returns holds the key; it misses none that is in order.
LEMMA SearchAnswers ==
    ASSUME NEW a, a.end \in Nat, HasKeys(a), NEW k \in Int
    PROVE  Answers(a, k, <<0, a.end - 1>>, Hashmap_get_node(a, k))
<1> DEFINE f == CHOOSE f : Searches(a, k, f)
<1>1. Searches(a, k, f)  BY SearchDefined
<1>2. Hashmap_get_node(a, k) = f[<<0, a.end - 1>>]
  BY DEF Hashmap_get_node, Searches, Probed, Halves, KeyIn, Middle, Upper, Lower
<1>3. \A h \in Halves(a) : f[h] = Probed(a, k, f, h)
  <2> HIDE DEF f
  <2>1. f = [h \in Halves(a) |-> Probed(a, k, f, h)]  BY <1>1 DEF Searches
  <2>2. QED  BY <2>1
<1> HIDE DEF f
<1> DEFINE T == {n \in Nat : \A h \in Halves(a) : h[2] - h[1] < n => Answers(a, k, h, f[h])}
<1>4. 0 \in T
  <2>1. ASSUME NEW h \in Halves(a), h[2] - h[1] < 0 PROVE Answers(a, k, h, f[h])
    <3>1. h[1] > h[2] /\ h[1] .. h[2] = {}  BY <2>1 DEF Halves
    <3>2. f[h] = -1  BY <1>3, <3>1 DEF Probed
    <3>3. QED  BY <3>1, <3>2, Zenon DEF Answers
  <2>2. QED  BY <2>1
<1>5. ASSUME NEW n \in T PROVE n + 1 \in T
  <2>1. n \in Nat /\ \A h \in Halves(a) : h[2] - h[1] < n => Answers(a, k, h, f[h])  OBVIOUS
  <2> HIDE DEF T
  <2>2. ASSUME NEW h \in Halves(a), h[2] - h[1] < n + 1 PROVE Answers(a, k, h, f[h])
    <3> DEFINE m == Middle(h)
               u == Upper(h)
               v == Lower(h)
    <3>1. h[1] \in 0 .. a.end /\ h[2] \in -1 .. a.end - 1  BY DEF Halves
    <3>2. CASE h[1] > h[2]
      <4>1. f[h] = -1 /\ h[1] .. h[2] = {}  BY <1>3, <3>1, <3>2 DEF Probed
      <4>2. QED  BY <4>1, Zenon DEF Answers
    <3>3. CASE h[1] <= h[2]
      <4>1. /\ m \in h[1] .. h[2] /\ m \in 0 .. a.end - 1
            /\ u \in Halves(a) /\ u[1] = m + 1 /\ u[2] = h[2]
            /\ v \in Halves(a) /\ v[1] = h[1] /\ v[2] = m - 1
        BY <3>3, HalvesOfHalves
      <4>2. f[h] = IF KeyIn(a, m) = k THEN m ELSE IF KeyIn(a, m) < k THEN f[u] ELSE f[v]
        BY <1>3, <3>1, <3>3 DEF Probed
      <4> HIDE DEF m, u, v
      <4>3. Answers(a, k, u, f[u]) /\ Answers(a, k, v, f[v])
        <5>1. u[2] - u[1] < n /\ v[2] - v[1] < n  BY <2>1, <2>2, <3>1, <4>1
        <5>2. QED  BY <2>1, <4>1, <5>1
      <4>4. CASE KeyIn(a, m) = k
        <5>1. f[h] = m /\ m # -1  BY <4>1, <4>2, <4>4
        <5>2. QED  BY <4>1, <4>4, <5>1 DEF Answers
      <4>5. CASE KeyIn(a, m) # k /\ KeyIn(a, m) < k
        <5>1. f[h] = f[u]  BY <4>2, <4>5
        <5>2. ASSUME Ascending(a), f[u] = -1, NEW i \in h[1] .. h[2] PROVE KeyIn(a, i) # k
          <6>1. CASE i \in u[1] .. u[2]  BY <4>3, <5>2, <6>1 DEF Answers
          <6>2. CASE i = m  BY <4>5, <6>2
          <6>3. CASE i < m
            <7>1. i \in 0 .. a.end - 1 /\ KeyIn(a, i) \in Int /\ KeyIn(a, m) \in Int
              BY <3>1, <4>1 DEF HasKeys
            <7>2. KeyIn(a, i) < KeyIn(a, m)  BY <4>1, <5>2, <6>3, <7>1 DEF Ascending
            <7>3. QED  BY <4>5, <7>1, <7>2
          <6>4. QED  BY <3>1, <4>1, <6>1, <6>2, <6>3
        <5>3. QED  BY <4>3, <5>1, <5>2 DEF Answers
      <4>6. CASE KeyIn(a, m) # k /\ ~ (KeyIn(a, m) < k)
        <5>1. f[h] = f[v]  BY <4>2, <4>6
        <5>2. ASSUME Ascending(a), f[v] = -1, NEW i \in h[1] .. h[2] PROVE KeyIn(a, i) # k
          <6>1. CASE i \in v[1] .. v[2]  BY <4>3, <5>2, <6>1 DEF Answers
          <6>2. CASE i = m  BY <4>6, <6>2
          <6>3. CASE i > m
            <7>1. i \in 0 .. a.end - 1 /\ KeyIn(a, i) \in Int /\ KeyIn(a, m) \in Int
              BY <3>1, <4>1 DEF HasKeys
            <7>2. KeyIn(a, m) < KeyIn(a, i)  BY <4>1, <5>2, <6>3, <7>1 DEF Ascending
            <7>3. QED  BY <4>6, <7>1, <7>2
          <6>4. QED  BY <3>1, <4>1, <6>1, <6>2, <6>3
        <5>3. QED  BY <4>3, <5>1, <5>2 DEF Answers
      <4>7. QED  BY <4>4, <4>5, <4>6
    <3>4. QED  BY <3>1, <3>2, <3>3
  <2>3. QED  BY <2>1, <2>2 DEF T
<1>6. T = Nat
  <2> HIDE DEF T
  <2>1. T \in SUBSET Nat  BY DEF T
  <2>2. QED  BY <1>4, <1>5, <2>1, ByInduction
<1>7. <<0, a.end - 1>> \in Halves(a) /\ (a.end - 1) - 0 < a.end  BY DEF Halves
<1>8. \A h \in Halves(a) : h[2] - h[1] < a.end => Answers(a, k, h, f[h])
  <2>1. a.end \in T  BY <1>6
  <2>2. QED  BY <2>1
<1>9. QED  BY <1>2, <1>7, <1>8

-----------------------------------------------------------------------------
(* Arrays of pointers.                                                     *)

ArrayOK(a) ==
    /\ a = Array(a.end, a.max, a.contents)
    /\ a.end \in Nat /\ a.max \in Nat /\ a.end < a.max
    /\ a.contents \in [0 .. a.max - 1 -> Pointer]

\* What an array may be made to hold at most.
Grown(a, b) == b.max <= a.max \/ b.max <= b.end + ExpandRate + 1

\* The fields of an array.
LEMMA ArrayIs ==
    ASSUME NEW e, NEW m, NEW c
    PROVE  Array(e, m, c).end = e /\ Array(e, m, c).max = m /\ Array(e, m, c).contents = c
BY DEF Array

\* DArray_create leaves a cell whatever size it is asked for (darray.c:27).
LEMMA CreateIsOK == ArrayOK(DArray_create(InitialMax)) /\ DArray_create(InitialMax).end = 0
                    /\ DArray_create(InitialMax).max = InitialMax
<1> DEFINE c == [i \in 0 .. InitialMax - 1 |-> Null]
<1>1. c \in [0 .. InitialMax - 1 -> Pointer]  BY DEF Pointer
<1>2. DArray_create(InitialMax) = Array(0, InitialMax, c)  BY DEF DArray_create
<1> HIDE DEF c
<1>3. QED  BY <1>1, <1>2, ArrayIs, SizeAssumption DEF ArrayOK

\* realloc and what is done to the new cells.
LEMMA ResizeIsOK ==
    ASSUME NEW a, a.end \in Nat, a.max \in Nat, a.contents \in [0 .. a.max - 1 -> Pointer],
           NEW size \in Nat, a.end < size
    PROVE  LET b == DArray_resize(a, size)
           IN  /\ ArrayOK(b) /\ b.end = a.end /\ b.max = size
               /\ \A i \in 0 .. size - 1 : i < a.max => b.contents[i] = a.contents[i]
<1> DEFINE c == [i \in 0 .. size - 1 |-> IF i \in DOMAIN a.contents THEN a.contents[i] ELSE Junk]
<1>1. DArray_resize(a, size) = Array(a.end, size, c)  BY DEF DArray_resize
<1>2. c \in [0 .. size - 1 -> Pointer]
  <2>1. ASSUME NEW i \in 0 .. size - 1
        PROVE  (IF i \in DOMAIN a.contents THEN a.contents[i] ELSE Junk) \in Pointer
    BY DEF Pointer
  <2>2. QED  BY <2>1
<1>3. \A i \in 0 .. size - 1 : i < a.max => c[i] = a.contents[i]
  <2>1. DOMAIN a.contents = 0 .. a.max - 1  OBVIOUS
  <2>2. QED  BY <2>1
<1> HIDE DEF c
<1>4. QED  BY <1>1, <1>2, <1>3, ArrayIs DEF ArrayOK

\* DArray_expand keeps what was there, whatever it clears (darray.c:60-67).
LEMMA ExpandIsOK ==
    ASSUME NEW a, a.end \in Nat, a.max \in Nat, a.contents \in [0 .. a.max - 1 -> Pointer],
           a.end <= a.max
    PROVE  LET b == DArray_expand(a)
           IN  /\ ArrayOK(b) /\ b.end = a.end /\ b.max = a.max + ExpandRate
               /\ \A i \in 0 .. a.max - 1 : b.contents[i] = a.contents[i]
<1> DEFINE r == DArray_resize(a, a.max + ExpandRate)
           cleared == (ExpandRate + 1) \div WordSize
           c == [i \in DOMAIN r.contents |->
                    IF i >= a.max /\ i < a.max + cleared THEN Null ELSE r.contents[i]]
<1>1. DArray_expand(a) = [r EXCEPT !.contents = c]  BY DEF DArray_expand
<1>2. /\ ArrayOK(r) /\ r.end = a.end /\ r.max = a.max + ExpandRate
      /\ \A i \in 0 .. r.max - 1 : i < a.max => r.contents[i] = a.contents[i]
  <2>1. a.max + ExpandRate \in Nat /\ a.end < a.max + ExpandRate  BY RateAssumption
  <2> HIDE DEF r
  <2>2. r = DArray_resize(a, a.max + ExpandRate)  BY DEF r
  <2>3. QED  BY ONLY <2>1, <2>2, ResizeIsOK, a.end \in Nat, a.max \in Nat,
                     a.contents \in [0 .. a.max - 1 -> Pointer]
<1> HIDE DEF r, cleared
<1>3. r.contents \in [0 .. r.max - 1 -> Pointer] /\ r = Array(r.end, r.max, r.contents)
  BY <1>2 DEF ArrayOK
<1>4. c \in [0 .. r.max - 1 -> Pointer]
  <2>1. ASSUME NEW i \in DOMAIN r.contents
        PROVE  (IF i >= a.max /\ i < a.max + cleared THEN Null ELSE r.contents[i]) \in Pointer
    BY <1>3 DEF Pointer
  <2>2. DOMAIN r.contents = 0 .. r.max - 1  BY <1>3
  <2>3. QED  BY <2>1, <2>2
<1>5. \A i \in 0 .. a.max - 1 : c[i] = a.contents[i]
  <2>1. DOMAIN r.contents = 0 .. r.max - 1  BY <1>3
  <2>2. ASSUME NEW i \in 0 .. a.max - 1 PROVE i \in 0 .. r.max - 1 /\ i < a.max /\ ~ (i >= a.max)
    BY <1>2, RateAssumption
  <2>3. QED  BY <1>2, <2>1, <2>2
<1> HIDE DEF c
<1>6. [r EXCEPT !.contents = c] = Array(r.end, r.max, c)  BY <1>3 DEF Array
<1>7. r.end \in Nat /\ r.max \in Nat /\ r.end < r.max  BY <1>2 DEF ArrayOK
<1>8. QED  BY <1>1, <1>2, <1>4, <1>5, <1>6, <1>7, ArrayIs DEF ArrayOK

\* DArray_push appends, and expands as soon as the array is full (darray.c:86).
LEMMA PushIsOK ==
    ASSUME NEW a, ArrayOK(a), NEW el \in Pointer
    PROVE  LET b == DArray_push(a, el)
           IN  /\ ArrayOK(b) /\ b.end = a.end + 1 /\ Grown(a, b)
               /\ b.contents[a.end] = el
               /\ \A i \in 0 .. a.end - 1 : b.contents[i] = a.contents[i]
<1> DEFINE p == Array(a.end + 1, a.max, Put(a, a.end, el))
<1>0. a.end \in Nat /\ a.max \in Nat /\ a.end < a.max /\ a.contents \in [0 .. a.max - 1 -> Pointer]
  BY DEF ArrayOK
<1>1. p.end = a.end + 1 /\ p.max = a.max /\ p.contents = Put(a, a.end, el)  BY ArrayIs
<1>2. /\ Put(a, a.end, el) \in [0 .. a.max - 1 -> Pointer]
      /\ Put(a, a.end, el)[a.end] = el
      /\ \A i \in 0 .. a.end - 1 : Put(a, a.end, el)[i] = a.contents[i]
  BY <1>0 DEF Put
<1>3. p = Array(p.end, p.max, p.contents)  BY <1>1
<1>4. DArray_push(a, el) = IF Full(p) THEN DArray_expand(p) ELSE p  BY DEF DArray_push
<1> HIDE DEF p
<1>5. CASE Full(p)
  <2>1. p.end \in Nat /\ p.max \in Nat /\ p.end = p.max  BY <1>0, <1>1, <1>5 DEF Full
  <2> DEFINE b == DArray_expand(p)
  <2>2. /\ ArrayOK(b) /\ b.end = p.end /\ b.max = p.max + ExpandRate
        /\ \A i \in 0 .. p.max - 1 : b.contents[i] = p.contents[i]
    <3>1. p.contents \in [0 .. p.max - 1 -> Pointer] /\ p.end <= p.max  BY <1>1, <1>2, <2>1
    <3>2. QED  BY <2>1, <3>1, ExpandIsOK
  <2> HIDE DEF b
  <2>3. Grown(a, b)  BY <2>1, <2>2, RateAssumption DEF Grown
  <2>4. \A i \in 0 .. a.end : i \in 0 .. p.max - 1  BY <1>0, <1>1
  <2>5. b.contents[a.end] = el /\ \A i \in 0 .. a.end - 1 : b.contents[i] = a.contents[i]
    BY <1>0, <1>1, <1>2, <2>2, <2>4
  <2>6. QED  BY <1>1, <1>4, <1>5, <2>2, <2>3, <2>5 DEF b
<1>6. CASE ~ Full(p)
  <2>1. ArrayOK(p)  BY <1>0, <1>1, <1>2, <1>3, <1>6 DEF ArrayOK, Full
  <2>2. Grown(a, p)  BY <1>0, <1>1 DEF Grown
  <2>3. QED  BY <1>1, <1>2, <1>4, <1>6, <2>1, <2>2
<1>7. QED  BY <1>5, <1>6

\* DArray_pop takes the last one, and keeps a cell more than is in use (darray.c:68-71).
LEMMA PopIsOK ==
    ASSUME NEW a, ArrayOK(a), a.end > 0
    PROVE  LET b == DArray_pop(a)
           IN  /\ ArrayOK(b) /\ b.end = a.end - 1 /\ Grown(a, b)
               /\ \A i \in 0 .. a.end - 2 : b.contents[i] = a.contents[i]
<1> DEFINE p == Array(a.end - 1, a.max, Put(a, a.end - 1, Null))
           size == (IF p.end < ExpandRate THEN ExpandRate ELSE p.end) + 1
<1>0. a.end \in Nat /\ a.max \in Nat /\ a.end < a.max /\ a.contents \in [0 .. a.max - 1 -> Pointer]
  BY DEF ArrayOK
<1>1. p.end = a.end - 1 /\ p.max = a.max /\ p.contents = Put(a, a.end - 1, Null)  BY ArrayIs
<1>2. /\ Put(a, a.end - 1, Null) \in [0 .. a.max - 1 -> Pointer]
      /\ \A i \in 0 .. a.end - 2 : Put(a, a.end - 1, Null)[i] = a.contents[i]
  <2>1. Null \in Pointer  BY DEF Pointer
  <2>2. QED  BY <1>0, <2>1 DEF Put
<1>3. p = Array(p.end, p.max, p.contents)  BY <1>1
<1>4. DArray_pop(a) = IF p.end > ExpandRate /\ p.end % ExpandRate # 0 THEN DArray_resize(p, size) ELSE p
  BY DEF DArray_pop, DArray_contract
<1>5. p.end \in Nat /\ p.max \in Nat  BY <1>0, <1>1
<1> HIDE DEF p
<1>6. size \in Nat /\ p.end < size /\ size <= p.end + ExpandRate + 1  BY <1>5, RateAssumption
<1> HIDE DEF size
<1>7. CASE p.end > ExpandRate /\ p.end % ExpandRate # 0
  <2> DEFINE b == DArray_resize(p, size)
  <2>1. /\ ArrayOK(b) /\ b.end = p.end /\ b.max = size
        /\ \A i \in 0 .. size - 1 : i < p.max => b.contents[i] = p.contents[i]
    <3>1. p.contents \in [0 .. p.max - 1 -> Pointer]  BY <1>1, <1>2
    <3>2. QED  BY <1>5, <1>6, <3>1, ResizeIsOK
  <2>2. DArray_pop(a) = b  BY <1>4, <1>7
  <2> HIDE DEF b
  <2>3. Grown(a, b)  BY <1>6, <2>1 DEF Grown
  <2>4. ASSUME NEW i \in 0 .. a.end - 2 PROVE b.contents[i] = a.contents[i]
    <3>1. i \in 0 .. size - 1 /\ i < p.max  BY <1>0, <1>1, <1>6
    <3>2. QED  BY <1>1, <1>2, <2>1, <3>1
  <2>5. QED  BY <1>1, <2>1, <2>2, <2>3, <2>4
<1>8. CASE ~ (p.end > ExpandRate /\ p.end % ExpandRate # 0)
  <2>1. DArray_pop(a) = p  BY <1>4, <1>8
  <2>2. ArrayOK(p)  BY <1>0, <1>1, <1>2, <1>3, <1>5 DEF ArrayOK
  <2>3. Grown(a, p)  BY <1>0, <1>1 DEF Grown
  <2>4. QED  BY <1>1, <1>2, <2>1, <2>2, <2>3
<1>9. QED  BY <1>7, <1>8

\* A sorted push puts the new element at some place and moves up what is there.
Inserts(a, b, el, place) ==
    /\ b.contents[place] = el
    /\ \A i \in 0 .. place - 1 : b.contents[i] = a.contents[i]
    /\ \A i \in place .. a.end - 1 : b.contents[i + 1] = a.contents[i]

\* The elements that go up are those cmp does not put below it.
Parts(a, below, place) ==
    /\ \A i \in place .. a.end - 1 : a.contents[i] \notin below
    /\ place > 0 => a.contents[place - 1] \in below

\* There is a place from which no element is below the new one.
LEMMA PlaceExists ==
    ASSUME NEW a, a.end \in Nat, NEW below
    PROVE  \E p \in 0 .. a.end : Parts(a, below, p)
<1> DEFINE T == {p \in 0 .. a.end : \A i \in p .. a.end - 1 : a.contents[i] \notin below}
<1>1. a.end \in T  OBVIOUS
<1>2. T \in SUBSET Nat /\ T # {}  BY <1>1
<1>3. PICK p \in T : \A q \in T : p <= q
  <2> HIDE DEF T
  <2>1. QED  BY <1>2, LeastOf
<1>4. ASSUME p > 0 PROVE a.contents[p - 1] \in below
  <2>1. p \in 0 .. a.end /\ p - 1 \in 0 .. a.end /\ ~ (p <= p - 1)  BY <1>4
  <2>2. p - 1 \notin T  BY <1>3, <2>1
  <2>3. PICK i \in p - 1 .. a.end - 1 : a.contents[i] \in below  BY <2>1, <2>2
  <2>4. i \notin p .. a.end - 1
    <3>1. p \in T  OBVIOUS
    <3>2. QED  BY <2>3, <3>1
  <2>5. i = p - 1  BY <2>1, <2>4
  <2>6. QED  BY <2>3, <2>5
<1>5. QED  BY <1>4 DEF Parts

\* A sorted push is a push and a way down (darray.c:106-112).
LEMMA PushSortIsOK ==
    ASSUME NEW a, ArrayOK(a), NEW el \in Pointer, NEW below
    PROVE  LET b == DArray_push_sort(a, el, below)
           IN  /\ ArrayOK(b) /\ b.end = a.end + 1 /\ Grown(a, b)
               /\ \E p \in 0 .. a.end : Inserts(a, b, el, p) /\ Parts(a, below, p)
<1> DEFINE b == DArray_push(a, el)
           place == CHOOSE p \in 0 .. a.end : Parts(a, below, p)
           c == [i \in DOMAIN b.contents |->
                    IF i = place THEN el
                    ELSE IF i > place /\ i <= a.end THEN a.contents[i - 1]
                    ELSE b.contents[i]]
           d == DArray_push_sort(a, el, below)
<1>0. a.end \in Nat /\ a.contents \in [0 .. a.max - 1 -> Pointer] /\ a.end < a.max /\ a.max \in Nat
  BY DEF ArrayOK
<1>1. /\ ArrayOK(b) /\ b.end = a.end + 1 /\ Grown(a, b)
      /\ b.contents[a.end] = el
      /\ \A i \in 0 .. a.end - 1 : b.contents[i] = a.contents[i]
  BY PushIsOK
<1>2. d = [b EXCEPT !.contents = c]
  BY DEF DArray_push_sort, Parts
<1>3. place \in 0 .. a.end /\ Parts(a, below, place)  BY <1>0, PlaceExists
<1> HIDE DEF b, place, d
<1>4. /\ b.contents \in [0 .. b.max - 1 -> Pointer] /\ b = Array(b.end, b.max, b.contents)
      /\ b.end \in Nat /\ b.max \in Nat /\ b.end < b.max
  BY <1>1 DEF ArrayOK
<1>5. DOMAIN b.contents = 0 .. b.max - 1  BY <1>4
<1>6. c \in [0 .. b.max - 1 -> Pointer]
  <2>1. ASSUME NEW i \in 0 .. b.max - 1
        PROVE  (IF i = place THEN el
                ELSE IF i > place /\ i <= a.end THEN a.contents[i - 1]
                ELSE b.contents[i]) \in Pointer
    <3>1. CASE i > place /\ i <= a.end
      <4>1. i - 1 \in 0 .. a.max - 1  BY <1>0, <1>3, <3>1
      <4>2. a.contents[i - 1] \in Pointer  BY <1>0, <4>1
      <4>3. QED  BY <3>1, <4>2
    <3>2. CASE ~ (i > place /\ i <= a.end)  BY <1>4, <3>2
    <3>3. QED  BY <3>1, <3>2
  <2>2. QED  BY <1>5, <2>1
<1>7. c[place] = el
  <2>1. place \in 0 .. b.max - 1  BY <1>0, <1>1, <1>3, <1>4
  <2>2. QED  BY <1>5, <2>1
<1>8. ASSUME NEW i \in 0 .. place - 1 PROVE c[i] = a.contents[i]
  <2>1. i \in 0 .. b.max - 1 /\ i # place /\ ~ (i > place) /\ i \in 0 .. a.end - 1
    BY <1>0, <1>1, <1>3, <1>4
  <2>2. c[i] = b.contents[i]  BY <1>5, <2>1
  <2>3. QED  BY <1>1, <2>1, <2>2
<1>9. ASSUME NEW i \in place .. a.end - 1 PROVE c[i + 1] = a.contents[i]
  <2>1. i + 1 \in 0 .. b.max - 1 /\ i + 1 # place /\ i + 1 > place /\ i + 1 <= a.end /\ (i + 1) - 1 = i
    BY <1>0, <1>1, <1>3, <1>4
  <2>2. c[i + 1] = a.contents[(i + 1) - 1]  BY <1>5, <2>1
  <2>3. QED  BY <2>1, <2>2
<1> HIDE DEF c
<1>10. d = Array(b.end, b.max, c)  BY <1>2, <1>4 DEF Array
<1>11. d.end = b.end /\ d.max = b.max /\ d.contents = c  BY <1>10, ArrayIs
<1>12. ArrayOK(d) /\ Grown(a, d)  BY <1>1, <1>4, <1>6, <1>10, <1>11 DEF ArrayOK, Grown
<1>13. Inserts(a, d, el, place)  BY <1>7, <1>8, <1>9, <1>11 DEF Inserts
<1>14. QED  BY <1>1, <1>3, <1>11, <1>12, <1>13 DEF d

\* A delete moves the last element to the place that gets free.
LEMMA EmptiedIsOK ==
    ASSUME NEW a, ArrayOK(a), NEW i \in 0 .. a.end - 1,
           \A j \in 0 .. a.end - 1 : a.contents[j] = a.contents[i] => j = i
    PROVE  LET b == Emptied(a, i)
           IN  /\ ArrayOK(b) /\ b.end = a.end - 1 /\ Grown(a, b)
               /\ \A j \in 0 .. a.end - 2 :
                     b.contents[j] = a.contents[IF j = i THEN a.end - 1 ELSE j]
<1> DEFINE last == a.contents[a.end - 1]
           p == DArray_pop(a)
           e == Emptied(a, i)
<1>0. a.end \in Nat /\ a.end > 0 /\ a.end - 1 \in 0 .. a.max - 1 /\ last \in Pointer
  BY DEF ArrayOK
<1>1. /\ ArrayOK(p) /\ p.end = a.end - 1 /\ Grown(a, p)
      /\ \A j \in 0 .. a.end - 2 : p.contents[j] = a.contents[j]
  BY <1>0, PopIsOK
<1>2. e = IF last = a.contents[i] THEN p ELSE DArray_set(p, i, last)
  BY DEF Emptied, DArray_last
<1> HIDE DEF p, e
<1>3. CASE last = a.contents[i]
  <2>1. i = a.end - 1  BY <1>0, <1>3
  <2>2. e = p  BY <1>2, <1>3
  <2>3. ASSUME NEW j \in 0 .. a.end - 2 PROVE e.contents[j] = a.contents[IF j = i THEN a.end - 1 ELSE j]
    <3>1. j # i  BY <1>0, <2>1
    <3>2. QED  BY <1>1, <2>2, <3>1
  <2>4. QED  BY <1>1, <2>2, <2>3 DEF e
<1>4. CASE last # a.contents[i]
  <2>1. i # a.end - 1 /\ i \in 0 .. a.end - 2  BY <1>0, <1>4
  <2>2. p.end \in Nat /\ p.max \in Nat /\ p.end < p.max /\ p.contents \in [0 .. p.max - 1 -> Pointer]
    BY <1>1 DEF ArrayOK
  <2>3. i \in 0 .. p.max - 1 /\ ~ (i > p.end)  BY <1>0, <1>1, <2>1, <2>2
  <2>4. e = Array(p.end, p.max, Put(p, i, last))  BY <1>2, <1>4, <2>3 DEF DArray_set
  <2>5. e.end = p.end /\ e.max = p.max /\ e.contents = Put(p, i, last)  BY <2>4, ArrayIs
  <2>6. Put(p, i, last) = [p.contents EXCEPT ![i] = last]  BY DEF Put
  <2>7. e.contents \in [0 .. p.max - 1 -> Pointer]  BY <1>0, <2>2, <2>5, <2>6
  <2>8. ArrayOK(e) /\ Grown(a, e)  BY <1>1, <2>2, <2>4, <2>5, <2>7 DEF ArrayOK, Grown
  <2>9. ASSUME NEW j \in 0 .. a.end - 2 PROVE e.contents[j] = a.contents[IF j = i THEN a.end - 1 ELSE j]
    <3>1. j \in 0 .. p.max - 1  BY <1>0, <1>1, <2>2
    <3>2. e.contents[j] = IF j = i THEN last ELSE p.contents[j]  BY <2>2, <2>5, <2>6, <3>1
    <3>3. QED  BY <1>1, <3>2
  <2>10. QED  BY <1>1, <2>5, <2>8, <2>9 DEF e
<1>5. QED  BY <1>3, <1>4

-----------------------------------------------------------------------------
(* Nodes in their cells.  H is the heap.                                   *)

HeapOK(H) ==
    /\ DOMAIN H \subseteq 1 .. MaxNodes
    /\ \A n \in DOMAIN H : /\ H[n] = [key |-> H[n].key, data |-> H[n].data]
                           /\ H[n].key \in Key /\ H[n].data \in Data[H[n].key]

Holds(H, b, a) ==
    \A i \in 0 .. a.end - 1 :
       /\ a.contents[i] \in DOMAIN H /\ BucketOf(H[a.contents[i]].key) = b
       /\ \A j \in 0 .. i - 1 : a.contents[j] # a.contents[i]

BucketOK(H, b, a) == ArrayOK(a) /\ a.max <= MaxCells /\ Holds(H, b, a)

MapInv ==
    /\ HeapOK(heap)
    /\ buckets = NoMap \/ DOMAIN buckets = 0 .. Buckets - 1
    /\ \A b \in DOMAIN buckets : buckets[b] = Null \/ BucketOK(heap, b, buckets[b])
    /\ DOMAIN heap \subseteq Stored

\* A map that is destroyed has no buckets.
LEMMA NothingInNoMap == DOMAIN NoMap = {}
<1>1. DOMAIN NoMap = 1 .. 0  BY DEF NoMap
<1>2. QED  BY <1>1

\* A bucket is not taken for NULL.
LEMMA BucketIsNotNull ==
    ASSUME NEW H, NEW b, NEW a, BucketOK(H, b, a)
    PROVE  a # Null
<1>1. /\ a = [end |-> a.end, max |-> a.max, contents |-> a.contents]
      /\ a.end \in Nat /\ a.max \in Nat /\ a.max <= MaxCells
      /\ a.contents \in [0 .. a.max - 1 -> Pointer]
  BY DEF BucketOK, ArrayOK, Array
<1>2. MaxCells \in Nat  BY RateAssumption, SizeAssumption DEF MaxCells
<1>3. a.max \in 0 .. MaxCells  BY <1>1, <1>2
<1>4. a \in [end : Nat, max : Nat, contents : [0 .. a.max - 1 -> Pointer]]  BY <1>1
<1>5. QED  BY <1>3, <1>4, BucketAssumption

\* No node is in two cells of a bucket.
LEMMA Distinct ==
    ASSUME NEW H, NEW b, NEW a, a.end \in Nat, Holds(H, b, a),
           NEW i \in 0 .. a.end - 1, NEW j \in 0 .. a.end - 1, a.contents[i] = a.contents[j]
    PROVE  i = j
<1>1. i < j => i \in 0 .. j - 1  OBVIOUS
<1>2. j < i => j \in 0 .. i - 1  OBVIOUS
<1>3. QED  BY <1>1, <1>2 DEF Holds

\* No bucket holds more than all nodes.
LEMMA HoldsAtMost ==
    ASSUME NEW H, HeapOK(H), NEW b, NEW a, a.end \in Nat, Holds(H, b, a)
    PROVE  a.end <= MaxNodes
<1> DEFINE S == 0 .. a.end - 1
           f == [i \in S |-> a.contents[i]]
<1>1. f \in [S -> 1 .. MaxNodes]
  <2>1. ASSUME NEW i \in S PROVE a.contents[i] \in 1 .. MaxNodes  BY DEF Holds, HeapOK
  <2>2. QED  BY <2>1
<1>2. ASSUME NEW i \in S, NEW j \in S, f[i] = f[j] PROVE i = j
  <2>1. /\ i \in 0 .. a.end - 1 /\ j \in 0 .. a.end - 1 /\ a.contents[i] = a.contents[j]
        /\ a.end \in Nat /\ Holds(H, b, a)
    BY <1>2
  <2>2. QED  BY ONLY <2>1, Distinct
<1>3. f \in Injection(S, 1 .. MaxNodes)
  <2> HIDE DEF f, S
  <2>1. QED  BY <1>1, <1>2, Fun_IsInj
<1>4. IsFiniteSet(1 .. MaxNodes) /\ Cardinality(1 .. MaxNodes) = MaxNodes
  <2>1. MaxNodes \in Nat  BY SizeAssumption
  <2>2. QED  BY <2>1, FS_Interval
<1>5. Cardinality(S) = a.end
  <2>1. a.end - 1 \in Int /\ 0 \in Int  OBVIOUS
  <2>2. Cardinality(S) = IF 0 > a.end - 1 THEN 0 ELSE (a.end - 1) - 0 + 1  BY <2>1, FS_Interval
  <2>3. QED  BY <2>2
<1> HIDE DEF f, S
<1>6. QED  BY <1>3, <1>4, <1>5, FS_Injection

\* An array that is pushed to or popped from stays below MaxCells.
LEMMA GrownFits ==
    ASSUME NEW H, HeapOK(H), NEW b, NEW a, ArrayOK(a), a.max <= MaxCells,
           NEW c, ArrayOK(c), Grown(a, c), Holds(H, b, c)
    PROVE  BucketOK(H, b, c)
<1>1. c.end \in Nat /\ c.max \in Nat /\ a.max \in Nat  BY DEF ArrayOK
<1>2. c.end <= MaxNodes  BY <1>1, HoldsAtMost
<1>3. c.max <= MaxCells  BY <1>1, <1>2, RateAssumption, SizeAssumption DEF Grown, MaxCells
<1>4. QED  BY <1>3 DEF BucketOK

\* The hash picks one of the buckets (hashmap.c:73-75).
LEMMA BucketInRange ==
    ASSUME NEW k \in Key
    PROVE  BucketOf(k) \in 0 .. Buckets - 1
<1>1. HashOf[k] \in Nat /\ Buckets \in Nat \ {0}  BY KeyAssumption, SizeAssumption
<1>2. \A x, y : x \in Nat /\ y \in Nat \ {0} => x % y \in 0 .. y - 1  OBVIOUS
<1>3. QED  BY <1>1, <1>2 DEF BucketOf

\* Where the nodes are.
LEMMA StoredIs ==
    ASSUME MapInv
    PROVE  /\ Stored = DOMAIN heap
           /\ \A n \in DOMAIN heap :
                /\ BucketOf(heap[n].key) \in DOMAIN buckets
                /\ buckets[BucketOf(heap[n].key)] # Null
                /\ \E i \in 0 .. buckets[BucketOf(heap[n].key)].end - 1 :
                      buckets[BucketOf(heap[n].key)].contents[i] = n
<1>1. ASSUME NEW n \in Stored
      PROVE  /\ n \in DOMAIN heap /\ BucketOf(heap[n].key) \in DOMAIN buckets
             /\ buckets[BucketOf(heap[n].key)] # Null
             /\ \E i \in 0 .. buckets[BucketOf(heap[n].key)].end - 1 :
                   buckets[BucketOf(heap[n].key)].contents[i] = n
  <2>1. PICK b \in DOMAIN buckets : buckets[b] # Null /\ n \in Elements(buckets[b])
    BY DEF Stored
  <2>2. PICK i \in 0 .. buckets[b].end - 1 : buckets[b].contents[i] = n
    BY <2>1 DEF Elements
  <2>3. Holds(heap, b, buckets[b])  BY <2>1 DEF MapInv, BucketOK
  <2>4. n \in DOMAIN heap /\ BucketOf(heap[n].key) = b  BY <2>2, <2>3 DEF Holds
  <2>5. QED  BY <2>1, <2>2, <2>4
<1>2. DOMAIN heap \subseteq Stored  BY DEF MapInv
<1>3. QED  BY <1>1, <1>2

\* A step that changes one bucket, and only nodes of it.
LEMMA OneBucketChanged ==
    ASSUME MapInv, HeapOK(heap'), NEW b \in DOMAIN buckets, NEW c, BucketOK(heap', b, c),
           buckets' = [buckets EXCEPT ![b] = c],
           \A n \in DOMAIN heap : BucketOf(heap[n].key) # b
                => n \in DOMAIN heap' /\ heap'[n].key = heap[n].key,
           \A n \in DOMAIN heap' : n \in Elements(c) \/ (n \in DOMAIN heap /\ BucketOf(heap[n].key) # b)
    PROVE  MapInv'
<1>1. DOMAIN buckets' = DOMAIN buckets /\ buckets'[b] = c
      /\ \A d \in DOMAIN buckets : d # b => buckets'[d] = buckets[d]
  OBVIOUS
<1>2. b \in 0 .. Buckets - 1 /\ DOMAIN buckets = 0 .. Buckets - 1
  <2>1. DOMAIN NoMap = {}  BY NothingInNoMap
  <2>2. QED  BY <2>1 DEF MapInv
<1>3. ASSUME NEW d \in DOMAIN buckets PROVE buckets'[d] = Null \/ BucketOK(heap', d, buckets'[d])
  <2>1. CASE d = b  BY <1>1, <2>1
  <2>2. CASE d # b /\ buckets[d] # Null
    <3>1. buckets'[d] = buckets[d] /\ BucketOK(heap, d, buckets[d])  BY <1>1, <2>2 DEF MapInv
    <3>2. Holds(heap', d, buckets[d])
      <4>1. ASSUME NEW i \in 0 .. buckets[d].end - 1
            PROVE  LET n == buckets[d].contents[i]
                   IN  n \in DOMAIN heap' /\ BucketOf(heap'[n].key) = d
        <5> DEFINE n == buckets[d].contents[i]
        <5>1. n \in DOMAIN heap /\ BucketOf(heap[n].key) = d  BY <3>1 DEF BucketOK, Holds
        <5> HIDE DEF n
        <5>2. n \in DOMAIN heap' /\ heap'[n].key = heap[n].key  BY <2>2, <5>1
        <5>3. BucketOf(heap'[n].key) = d  BY <5>1, <5>2
        <5>4. QED  BY <5>2, <5>3 DEF n
      <4>2. QED  BY <3>1, <4>1 DEF BucketOK, Holds
    <3>3. QED  BY <3>1, <3>2 DEF BucketOK
  <2>3. CASE d # b /\ buckets[d] = Null  BY <1>1, <2>3
  <2>4. QED  BY <2>1, <2>2, <2>3
<1>4. ASSUME NEW n \in DOMAIN heap' PROVE n \in Stored'
  <2>1. CASE n \in Elements(c)
    <3>1. c # Null  BY BucketIsNotNull
    <3>2. QED  BY <1>1, <2>1, <3>1 DEF Stored
  <2>2. CASE n \in DOMAIN heap /\ BucketOf(heap[n].key) # b
    <3> DEFINE d == BucketOf(heap[n].key)
    <3>1. /\ d \in DOMAIN buckets /\ buckets[d] # Null
          /\ \E i \in 0 .. buckets[d].end - 1 : buckets[d].contents[i] = n
      BY <2>2, StoredIs
    <3> HIDE DEF d
    <3>2. n \in Elements(buckets[d])  BY <3>1 DEF Elements
    <3>3. buckets'[d] = buckets[d]  BY <1>1, <2>2, <3>1 DEF d
    <3>4. QED  BY <1>1, <3>1, <3>2, <3>3 DEF Stored
  <2>3. QED  BY <2>1, <2>2
<1>5. QED  BY <1>1, <1>2, <1>3, <1>4 DEF MapInv

\* What the search tells of the map.
LEMMA PlaceIs ==
    ASSUME MapInv, NEW k \in Key, buckets # NoMap
    PROVE  /\ BucketOf(k) \in DOMAIN buckets
           /\ \/ Place(k) = -1
              \/ /\ buckets[BucketOf(k)] # Null
                 /\ BucketOK(heap, BucketOf(k), buckets[BucketOf(k)])
                 /\ Place(k) \in 0 .. buckets[BucketOf(k)].end - 1
                 /\ NodeAt(k) \in DOMAIN heap /\ heap[NodeAt(k)].key = k
           /\ Place(k) = -1 /\ (buckets[BucketOf(k)] = Null \/ Ascending(buckets[BucketOf(k)]))
                => \A n \in DOMAIN heap : heap[n].key # k
<1> DEFINE b == BucketOf(k)
           a == buckets[b]
<1>1. b \in DOMAIN buckets  BY BucketInRange DEF MapInv
<1>2. Place(k) = IF a = Null THEN -1 ELSE Hashmap_get_node(a, k)  BY DEF Place
<1>3. NodeAt(k) = a.contents[Place(k)]  BY DEF NodeAt
<1>4. ASSUME NEW n \in DOMAIN heap, heap[n].key = k
      PROVE  a # Null /\ \E i \in 0 .. a.end - 1 : a.contents[i] = n
  BY <1>4, StoredIs
<1>5. CASE a = Null
  <2> HIDE DEF a, b
  <2>1. QED  BY <1>1, <1>2, <1>4, <1>5 DEF b, a
<1>6. CASE a # Null
  <2>1. BucketOK(heap, b, a)  BY <1>1, <1>6 DEF MapInv
  <2>2. a.end \in Nat /\ Holds(heap, b, a)  BY <2>1 DEF BucketOK, ArrayOK
  <2>3. HasKeys(a)
    <3>1. ASSUME NEW i \in 0 .. a.end - 1 PROVE KeyIn(a, i) \in Int
      BY <2>2, KeyAssumption DEF Holds, KeyIn, MapInv, HeapOK
    <3>2. QED  BY <3>1 DEF HasKeys
  <2>4. k \in Int  BY KeyAssumption
  <2> HIDE DEF a, b
  <2>5. Answers(a, k, <<0, a.end - 1>>, Place(k))  BY <1>2, <1>6, <2>2, <2>3, <2>4, SearchAnswers
  <2>6. Place(k) = -1 \/ (Place(k) \in 0 .. a.end - 1 /\ heap[NodeAt(k)].key = k /\ NodeAt(k) \in DOMAIN heap)
    BY <1>3, <2>2, <2>5 DEF Answers, KeyIn, Holds
  <2>7. ASSUME Place(k) = -1, Ascending(a), NEW n \in DOMAIN heap, heap[n].key = k PROVE FALSE
    <3>1. PICK i \in 0 .. a.end - 1 : a.contents[i] = n  BY <1>4, <2>7
    <3>2. KeyIn(a, i) = k  BY <2>7, <3>1 DEF KeyIn
    <3>3. <<0, a.end - 1>>[1] = 0 /\ <<0, a.end - 1>>[2] = a.end - 1  OBVIOUS
    <3>4. KeyIn(a, i) # k  BY <2>5, <2>7, <3>1, <3>3 DEF Answers
    <3>5. QED  BY <3>2, <3>4
  <2>8. QED  BY <1>1, <1>6, <2>1, <2>6, <2>7 DEF a, b
<1>7. QED  BY <1>5, <1>6

-----------------------------------------------------------------------------
(* What a sorted push and a delete do to the nodes of a bucket.            *)

\* The bucket's keys in order, in a heap H; Ordered of the primed bucket too.
OrderedIn(H, a) == \A i \in 1 .. a.end - 1 : H[a.contents[i - 1]].key < H[a.contents[i]].key

\* Keys that ascend from each cell to the next ascend over any distance.
LEMMA OrderedAscends ==
    ASSUME NEW a, a.end \in Nat, HasKeys(a), OrderedIn(heap, a)
    PROVE  Ascending(a)
<1> DEFINE T == {n \in Nat : \A i, j \in 0 .. a.end - 1 : i < j /\ j <= i + n => KeyIn(a, i) < KeyIn(a, j)}
<1>1. 0 \in T  OBVIOUS
<1>2. ASSUME NEW n \in T PROVE n + 1 \in T
  <2>1. n \in Nat /\ \A i, j \in 0 .. a.end - 1 : i < j /\ j <= i + n => KeyIn(a, i) < KeyIn(a, j)
    OBVIOUS
  <2>2. ASSUME NEW i \in 0 .. a.end - 1, NEW j \in 0 .. a.end - 1, i < j, j <= i + (n + 1)
        PROVE  KeyIn(a, i) < KeyIn(a, j)
    <3>1. j \in 1 .. a.end - 1 /\ j - 1 \in 0 .. a.end - 1  BY <2>2
    <3>2. KeyIn(a, j - 1) < KeyIn(a, j)  BY <3>1 DEF OrderedIn, KeyIn
    <3>3. KeyIn(a, i) \in Int /\ KeyIn(a, j) \in Int /\ KeyIn(a, j - 1) \in Int  BY <3>1 DEF HasKeys
    <3>4. CASE i = j - 1  BY <3>2, <3>4
    <3>5. CASE i # j - 1
      <4>1. i < j - 1 /\ j - 1 <= i + n  BY <2>1, <2>2, <3>5
      <4>2. KeyIn(a, i) < KeyIn(a, j - 1)  BY <2>1, <3>1, <4>1
      <4>3. QED  BY <3>2, <3>3, <4>2
    <3>6. QED  BY <3>4, <3>5
  <2> HIDE DEF T
  <2>3. QED  BY <2>1, <2>2 DEF T
<1>3. T = Nat
  <2> HIDE DEF T
  <2>1. T \in SUBSET Nat  BY DEF T
  <2>2. QED  BY <1>1, <1>2, <2>1, ByInduction
<1>4. ASSUME NEW i \in 0 .. a.end - 1, NEW j \in 0 .. a.end - 1, i < j
      PROVE  KeyIn(a, i) < KeyIn(a, j)
  <2>1. a.end \in T /\ j <= i + a.end  BY <1>3
  <2>2. QED  BY <1>4, <2>1
<1>5. QED  BY <1>4 DEF Ascending

\* The cell an element came from.
From(p, i) == IF i < p THEN i ELSE i - 1

InsertedAt(a, c, n, p) ==
    /\ c.contents[p] = n
    /\ \A i \in 0 .. a.end : i # p => /\ From(p, i) \in 0 .. a.end - 1
                                      /\ c.contents[i] = a.contents[From(p, i)]
    /\ \A j \in 0 .. a.end - 1 : \E i \in 0 .. a.end : i # p /\ c.contents[i] = a.contents[j]

\* Each cell after a sorted push, and the one its element came from.
LEMMA InsertedFrom ==
    ASSUME NEW a, NEW c, NEW n, a.end \in Nat, c.end = a.end + 1,
           NEW p \in 0 .. a.end, Inserts(a, c, n, p)
    PROVE  InsertedAt(a, c, n, p)
<1>1. ASSUME NEW i \in 0 .. a.end, i # p
      PROVE  From(p, i) \in 0 .. a.end - 1 /\ c.contents[i] = a.contents[From(p, i)]
  <2>1. CASE i < p
    <3>1. From(p, i) = i /\ i \in 0 .. p - 1 /\ i \in 0 .. a.end - 1  BY <2>1 DEF From
    <3>2. QED  BY <3>1 DEF Inserts
  <2>2. CASE ~ (i < p)
    <3>1. From(p, i) = i - 1 /\ i - 1 \in p .. a.end - 1 /\ (i - 1) + 1 = i  BY <1>1, <2>2 DEF From
    <3>2. c.contents[(i - 1) + 1] = a.contents[i - 1]  BY <3>1 DEF Inserts
    <3>3. QED  BY <3>1, <3>2
  <2>3. QED  BY <2>1, <2>2
<1>2. ASSUME NEW j \in 0 .. a.end - 1 PROVE \E i \in 0 .. a.end : i # p /\ c.contents[i] = a.contents[j]
  <2>1. CASE j < p
    <3>1. j \in 0 .. p - 1 /\ j \in 0 .. a.end /\ j # p  BY <2>1
    <3>2. QED  BY <3>1 DEF Inserts
  <2>2. CASE ~ (j < p)
    <3>1. j \in p .. a.end - 1 /\ j + 1 \in 0 .. a.end /\ j + 1 # p  BY <2>2
    <3>2. QED  BY <3>1 DEF Inserts
  <2>3. QED  BY <2>1, <2>2
<1>3. QED  BY <1>1, <1>2 DEF Inserts, InsertedAt

\* A node n that is new comes into bucket b, which was a and becomes c.
ComesIn(H, G, b, a, c, n, p) ==
    /\ a.end \in Nat /\ Holds(H, b, a) /\ c.end = a.end + 1 /\ n \notin DOMAIN H
    /\ p \in 0 .. a.end /\ Inserts(a, c, n, p)
    /\ DOMAIN G = DOMAIN H \cup {n} /\ \A m \in DOMAIN H : G[m] = H[m]
    /\ BucketOf(G[n].key) = b

\* A bucket after a sorted push holds its nodes and the new one.
LEMMA InsertedHolds ==
    ASSUME NEW H, NEW G, NEW b, NEW a, NEW c, NEW n, NEW p, ComesIn(H, G, b, a, c, n, p)
    PROVE  Holds(G, b, c) /\ Elements(c) = Elements(a) \cup {n}
<1>0. /\ a.end \in Nat /\ Holds(H, b, a) /\ c.end = a.end + 1 /\ n \notin DOMAIN H
      /\ p \in 0 .. a.end /\ Inserts(a, c, n, p)
      /\ DOMAIN G = DOMAIN H \cup {n} /\ \A m \in DOMAIN H : G[m] = H[m]
      /\ BucketOf(G[n].key) = b
  BY DEF ComesIn
<1> USE <1>0
<1>1. /\ c.contents[p] = n
      /\ \A i \in 0 .. a.end : i # p => /\ From(p, i) \in 0 .. a.end - 1
                                        /\ c.contents[i] = a.contents[From(p, i)]
      /\ \A j \in 0 .. a.end - 1 : \E i \in 0 .. a.end : i # p /\ c.contents[i] = a.contents[j]
  <2>1. InsertedAt(a, c, n, p)  BY InsertedFrom
  <2>2. QED  BY ONLY <2>1 DEF InsertedAt
<1>2. 0 .. c.end - 1 = 0 .. a.end  OBVIOUS
<1>3. ASSUME NEW j \in 0 .. a.end - 1
      PROVE  /\ a.contents[j] \in DOMAIN G /\ a.contents[j] # n
             /\ BucketOf(G[a.contents[j]].key) = b
  <2>1. a.contents[j] \in DOMAIN H /\ BucketOf(H[a.contents[j]].key) = b  BY DEF Holds
  <2>2. G[a.contents[j]] = H[a.contents[j]]  BY <2>1
  <2>3. QED  BY <2>1, <2>2
<1>4. ASSUME NEW i \in 0 .. a.end
      PROVE  c.contents[i] \in DOMAIN G /\ BucketOf(G[c.contents[i]].key) = b
  <2>1. CASE i = p
    <3>1. c.contents[i] = n  BY <1>1, <2>1
    <3>2. n \in DOMAIN G /\ BucketOf(G[n].key) = b  BY ONLY <1>0
    <3>3. QED  BY ONLY <3>1, <3>2
  <2>2. CASE i # p
    <3>1. From(p, i) \in 0 .. a.end - 1 /\ c.contents[i] = a.contents[From(p, i)]  BY <1>1, <2>2
    <3>2. QED  BY <1>3, <3>1
  <2>3. QED  BY <2>1, <2>2
<1>5. ASSUME NEW i \in 0 .. a.end, NEW j \in 0 .. i - 1 PROVE c.contents[j] # c.contents[i]
  <2>1. j \in 0 .. a.end /\ j < i /\ i \in Int /\ j \in Int  OBVIOUS
  <2>2. CASE i = p  BY <1>1, <1>3, <2>1, <2>2
  <2>3. CASE j = p  BY <1>1, <1>3, <2>1, <2>3
  <2>4. CASE i # p /\ j # p
    <3>1. /\ From(p, i) \in 0 .. a.end - 1 /\ c.contents[i] = a.contents[From(p, i)]
          /\ From(p, j) \in 0 .. a.end - 1 /\ c.contents[j] = a.contents[From(p, j)]
      BY <1>1, <2>1, <2>4
    <3>2. From(p, j) # From(p, i)  BY <2>1, <2>4 DEF From
    <3>3. QED  BY <3>1, <3>2, Distinct
  <2>5. QED  BY <2>2, <2>3, <2>4
<1>6. Holds(G, b, c)  BY <1>2, <1>4, <1>5 DEF Holds
<1>7. ASSUME NEW m PROVE m \in Elements(c) <=> m \in Elements(a) \cup {n}
  <2>1. m \in Elements(c) <=> \E i \in 0 .. a.end : m = c.contents[i]  BY <1>2 DEF Elements
  <2>2. m \in Elements(a) <=> \E i \in 0 .. a.end - 1 : m = a.contents[i]  BY DEF Elements
  <2>3. ASSUME NEW i \in 0 .. a.end, m = c.contents[i] PROVE m \in Elements(a) \cup {n}
    <3>1. CASE i = p  BY <1>1, <2>3, <3>1
    <3>2. CASE i # p  BY <1>1, <2>2, <2>3, <3>2
    <3>3. QED  BY <3>1, <3>2
  <2>4. m = n => \E i \in 0 .. a.end : m = c.contents[i]  BY <1>1
  <2>5. m \in Elements(a) => \E i \in 0 .. a.end : m = c.contents[i]  BY <1>1, <2>2
  <2>6. QED  BY <2>1, <2>3, <2>4, <2>5
<1>8. QED  BY <1>6, <1>7

\* A key that is not in an ordered bucket goes where it belongs.
LEMMA InsertedOrdered ==
    ASSUME NEW G, NEW b, NEW a, NEW c, NEW n, NEW p, ComesIn(heap, G, b, a, c, n, p),
           HasKeys(a), OrderedIn(heap, a), G[n].key \in Int, \A i \in 0 .. a.end - 1 : KeyIn(a, i) # G[n].key,
           Parts(a, {m \in DOMAIN heap : heap[m].key < G[n].key}, p)
    PROVE  OrderedIn(G, c)
<1>. /\ a.end \in Nat /\ Holds(heap, b, a) /\ c.end = a.end + 1 /\ n \notin DOMAIN heap
      /\ p \in 0 .. a.end /\ Inserts(a, c, n, p)
      /\ \A m \in DOMAIN heap : G[m] = heap[m]
  BY DEF ComesIn
<1> DEFINE Key0(i) == G[c.contents[i]].key
<1>1. /\ c.contents[p] = n
      /\ \A i \in 0 .. a.end : i # p => /\ From(p, i) \in 0 .. a.end - 1
                                        /\ c.contents[i] = a.contents[From(p, i)]
  <2>1. InsertedAt(a, c, n, p)  BY InsertedFrom
  <2>2. QED  BY ONLY <2>1 DEF InsertedAt
<1>2. \A j \in 0 .. a.end - 1 : a.contents[j] \in DOMAIN heap /\ G[a.contents[j]].key = KeyIn(a, j)
                                /\ KeyIn(a, j) \in Int
  BY DEF Holds, KeyIn, HasKeys
<1>3. Key0(p) = G[n].key  BY <1>1
<1>4. \A i \in 0 .. a.end : i # p => From(p, i) \in 0 .. a.end - 1 /\ Key0(i) = KeyIn(a, From(p, i))
  BY <1>1, <1>2
<1>5. \A i, j \in 0 .. a.end - 1 : i < j => KeyIn(a, i) < KeyIn(a, j)
  BY OrderedAscends DEF Ascending
<1>6. p > 0 => KeyIn(a, p - 1) < G[n].key  BY <1>2 DEF Parts, KeyIn
<1>7. ASSUME NEW i \in p .. a.end - 1 PROVE G[n].key < KeyIn(a, i)
  <2>1. i \in 0 .. a.end - 1 /\ a.contents[i] \notin {m \in DOMAIN heap : heap[m].key < G[n].key}
    BY DEF Parts
  <2>2. a.contents[i] \in DOMAIN heap /\ KeyIn(a, i) \in Int /\ KeyIn(a, i) # G[n].key  BY <1>2, <2>1
  <2>3. ~ (KeyIn(a, i) < G[n].key)  BY <2>1, <2>2 DEF KeyIn
  <2>4. QED  BY <2>2, <2>3
<1> HIDE DEF Key0
<1>8. ASSUME NEW i \in 1 .. c.end - 1 PROVE Key0(i - 1) < Key0(i)
  <2>1. i \in 0 .. a.end /\ i - 1 \in 0 .. a.end  OBVIOUS
  <2>2. CASE i = p
    <3>1. i - 1 # p /\ From(p, i - 1) = p - 1 /\ p > 0  BY <2>2 DEF From
    <3>2. QED  BY <1>3, <1>4, <1>6, <2>1, <2>2, <3>1
  <2>3. CASE i - 1 = p
    <3>1. i # p /\ From(p, i) = p /\ p \in p .. a.end - 1  BY <2>1, <2>3 DEF From
    <3>2. QED  BY <1>3, <1>4, <1>7, <2>1, <2>3, <3>1
  <2>4. CASE i # p /\ i - 1 # p
    <3>1. From(p, i - 1) < From(p, i)  BY <2>1, <2>4 DEF From
    <3>2. QED  BY <1>4, <1>5, <2>1, <2>4, <3>1
  <2>5. QED  BY <2>2, <2>3, <2>4
<1>9. QED  BY <1>8 DEF OrderedIn, Key0

\* The node of cell i goes from bucket b, which was a and becomes c.
GoesOut(H, G, b, a, c, i) ==
    /\ a.end \in Nat /\ Holds(H, b, a) /\ i \in 0 .. a.end - 1 /\ c.end = a.end - 1
    /\ \A j \in 0 .. a.end - 2 : c.contents[j] = a.contents[IF j = i THEN a.end - 1 ELSE j]
    /\ DOMAIN G = DOMAIN H \ {a.contents[i]} /\ \A m \in DOMAIN G : G[m] = H[m]

\* A bucket after a delete holds its nodes but for the deleted one.
LEMMA EmptiedHolds ==
    ASSUME NEW H, NEW G, NEW b, NEW a, NEW c, NEW i, GoesOut(H, G, b, a, c, i)
    PROVE  Holds(G, b, c) /\ Elements(c) = Elements(a) \ {a.contents[i]}
<1>. /\ a.end \in Nat /\ Holds(H, b, a) /\ i \in 0 .. a.end - 1 /\ c.end = a.end - 1
     /\ \A j \in 0 .. a.end - 2 : c.contents[j] = a.contents[IF j = i THEN a.end - 1 ELSE j]
     /\ DOMAIN G = DOMAIN H \ {a.contents[i]} /\ \A m \in DOMAIN G : G[m] = H[m]
  BY DEF GoesOut
<1> DEFINE Old(j) == IF j = i THEN a.end - 1 ELSE j
<1>0. 0 .. c.end - 1 = 0 .. a.end - 2  OBVIOUS
<1>1. ASSUME NEW j \in 0 .. a.end - 2
      PROVE  Old(j) \in 0 .. a.end - 1 /\ Old(j) # i /\ c.contents[j] = a.contents[Old(j)]
  OBVIOUS
<1>2. ASSUME NEW j \in 0 .. a.end - 1, j # i PROVE a.contents[j] # a.contents[i]  BY <1>2, Distinct
<1>3. ASSUME NEW j \in 0 .. a.end - 2, NEW k \in 0 .. j - 1 PROVE c.contents[k] # c.contents[j]
  <2>1. k \in 0 .. a.end - 2  OBVIOUS
  <2>2. Old(k) # Old(j)  OBVIOUS
  <2> HIDE DEF Old
  <2>3. QED  BY <1>1, <2>1, <2>2, Distinct
<1> HIDE DEF Old
<1>4. ASSUME NEW j \in 0 .. a.end - 2
      PROVE  c.contents[j] \in DOMAIN G /\ BucketOf(G[c.contents[j]].key) = b
  <2>1. a.contents[Old(j)] # a.contents[i]  BY <1>1, <1>2
  <2>2. a.contents[Old(j)] \in DOMAIN H /\ BucketOf(H[a.contents[Old(j)]].key) = b  BY <1>1 DEF Holds
  <2>3. a.contents[Old(j)] \in DOMAIN G  BY <2>1, <2>2
  <2>4. QED  BY <1>1, <2>2, <2>3
<1>5. Holds(G, b, c)  BY <1>0, <1>3, <1>4 DEF Holds
<1>6. ASSUME NEW m PROVE m \in Elements(c) <=> m \in Elements(a) \ {a.contents[i]}
  <2>1. m \in Elements(c) <=> \E j \in 0 .. a.end - 2 : m = c.contents[j]  BY <1>0 DEF Elements
  <2>2. m \in Elements(a) <=> \E j \in 0 .. a.end - 1 : m = a.contents[j]  BY DEF Elements
  <2>3. ASSUME NEW j \in 0 .. a.end - 2, m = c.contents[j] PROVE m \in Elements(a) \ {a.contents[i]}
    BY <1>1, <1>2, <2>2, <2>3
  <2>4. ASSUME NEW j \in 0 .. a.end - 1, m = a.contents[j], m # a.contents[i]
        PROVE  \E k \in 0 .. a.end - 2 : m = c.contents[k]
    <3>1. j # i  BY <2>4
    <3>2. CASE j = a.end - 1
      <4>1. i \in 0 .. a.end - 2 /\ Old(i) = j  BY <3>1, <3>2 DEF Old
      <4>2. QED  BY <1>1, <2>4, <4>1
    <3>3. CASE j # a.end - 1
      <4>1. j \in 0 .. a.end - 2 /\ Old(j) = j  BY <3>1, <3>3 DEF Old
      <4>2. QED  BY <1>1, <2>4, <4>1
    <3>4. QED  BY <3>2, <3>3
  <2>5. QED  BY <2>1, <2>2, <2>3, <2>4
<1>7. QED  BY <1>5, <1>6

\* The place of one of the last two elements is not missed.
LEMMA EmptiedOrdered ==
    ASSUME NEW G, NEW b, NEW a, NEW c, NEW i, GoesOut(heap, G, b, a, c, i),
           HasKeys(a), OrderedIn(heap, a), i >= a.end - 2
    PROVE  OrderedIn(G, c)
<1>. /\ a.end \in Nat /\ Holds(heap, b, a) /\ i \in 0 .. a.end - 1 /\ c.end = a.end - 1
     /\ \A j \in 0 .. a.end - 2 : c.contents[j] = a.contents[IF j = i THEN a.end - 1 ELSE j]
     /\ DOMAIN G = DOMAIN heap \ {a.contents[i]} /\ \A m \in DOMAIN G : G[m] = heap[m]
  BY DEF GoesOut
<1> DEFINE Old(j) == IF j = i THEN a.end - 1 ELSE j
<1>1. ASSUME NEW j \in 0 .. a.end - 2
      PROVE  Old(j) \in 0 .. a.end - 1 /\ Old(j) # i /\ c.contents[j] = a.contents[Old(j)]
  OBVIOUS
<1>2. ASSUME NEW j \in 0 .. a.end - 2 PROVE G[c.contents[j]].key = KeyIn(a, Old(j))
  <2> HIDE DEF Old
  <2>1. a.contents[Old(j)] # a.contents[i]  BY <1>1, Distinct
  <2>2. a.contents[Old(j)] \in DOMAIN heap  BY <1>1 DEF Holds
  <2>3. QED  BY <1>1, <2>1, <2>2 DEF KeyIn
<1>3. \A x, y \in 0 .. a.end - 1 : x < y => KeyIn(a, x) < KeyIn(a, y)
  BY OrderedAscends DEF Ascending
<1>4. ASSUME NEW j \in 1 .. c.end - 1 PROVE G[c.contents[j - 1]].key < G[c.contents[j]].key
  <2>1. j \in 0 .. a.end - 2 /\ j - 1 \in 0 .. a.end - 2 /\ Old(j - 1) < Old(j)  OBVIOUS
  <2> HIDE DEF Old
  <2>2. QED  BY <1>1, <1>2, <1>3, <2>1
<1>5. QED  BY <1>4 DEF OrderedIn

-----------------------------------------------------------------------------
(* The calls.                                                              *)

AllIn(H, B) == \A b \in DOMAIN B : B[b] # Null => OrderedIn(H, B[b])

\* AllOrdered, in a heap that is named.
LEMMA OrderedIsAllIn == (AllOrdered <=> AllIn(heap, buckets)) /\ (AllOrdered' <=> AllIn(heap', buckets'))
BY DEF AllOrdered, Live, Ordered, AllIn, OrderedIn

\* The keys of a bucket are numbers.
LEMMA BucketHasKeys ==
    ASSUME MapInv, NEW b, NEW a, ArrayOK(a), Holds(heap, b, a)
    PROVE  HasKeys(a) /\ a.end \in Nat
<1>1. ASSUME NEW i \in 0 .. a.end - 1 PROVE KeyIn(a, i) \in Int
  <2>1. heap[a.contents[i]].key \in Key  BY DEF Holds, MapInv, HeapOK
  <2>2. QED  BY <2>1, KeyAssumption DEF KeyIn
<1>2. QED  BY <1>1 DEF HasKeys, ArrayOK

\* A bucket of which no key changes.
LEMMA StaysOrdered ==
    ASSUME NEW b, NEW a, a.end \in Nat, Holds(heap, b, a), OrderedIn(heap, a),
           NEW G, \A m \in DOMAIN heap : BucketOf(heap[m].key) = b => G[m].key = heap[m].key
    PROVE  OrderedIn(G, a)
<1>1. ASSUME NEW i \in 0 .. a.end - 1 PROVE G[a.contents[i]].key = heap[a.contents[i]].key
  <2>1. a.contents[i] \in DOMAIN heap /\ BucketOf(heap[a.contents[i]].key) = b  BY DEF Holds
  <2>2. QED  BY <2>1
<1>2. ASSUME NEW i \in 1 .. a.end - 1 PROVE G[a.contents[i - 1]].key < G[a.contents[i]].key
  <2>1. i \in 0 .. a.end - 1 /\ i - 1 \in 0 .. a.end - 1  OBVIOUS
  <2>2. QED  BY <1>1, <2>1 DEF OrderedIn
<1>3. QED  BY <1>2 DEF OrderedIn

\* A step that changes one bucket and leaves it in order.
LEMMA OneBucketOrdered ==
    ASSUME MapInv, AllIn(heap, buckets), NEW b \in DOMAIN buckets, NEW c,
           buckets' = [buckets EXCEPT ![b] = c], OrderedIn(heap', c),
           \A n \in DOMAIN heap : BucketOf(heap[n].key) # b => heap'[n].key = heap[n].key
    PROVE  AllIn(heap', buckets')
<1>1. SUFFICES ASSUME NEW d \in DOMAIN buckets, d # b, buckets[d] # Null
               PROVE  OrderedIn(heap', buckets[d])
  BY DEF AllIn
<1>2. BucketOK(heap, d, buckets[d])  BY <1>1 DEF MapInv
<1>3. Holds(heap, d, buckets[d]) /\ buckets[d].end \in Nat  BY <1>2 DEF BucketOK, ArrayOK
<1>4. OrderedIn(heap, buckets[d])  BY <1>1 DEF AllIn
<1>5. \A m \in DOMAIN heap : BucketOf(heap[m].key) = d => heap'[m].key = heap[m].key  BY <1>1
<1>6. QED  BY <1>3, <1>4, <1>5, StaysOrdered

\* The datum d comes to node m, whose key is k.
Overwritten(H, G, m, k, d) ==
    /\ m \in DOMAIN H /\ H[m].key = k /\ DOMAIN G = DOMAIN H
    /\ \A n \in DOMAIN H : /\ G[n].key = H[n].key
                            /\ G[n].data = IF n = m THEN d ELSE H[n].data

\* A set of a key that is found.
LEMMA SetFound ==
    ASSUME MapInv, NEW k \in Key, NEW d \in Data[k], buckets # NoMap, Place(k) >= 0,
           heap' = [heap EXCEPT ![NodeAt(k)].data = d], buckets' = buckets
    PROVE  MapInv' /\ (AllOrdered => AllOrdered') /\ Overwritten(heap, heap', NodeAt(k), k, d)
<1> DEFINE m == NodeAt(k)
<1>1. Place(k) # -1  OBVIOUS
<1>2. m \in DOMAIN heap /\ heap[m].key = k  BY <1>1, PlaceIs
<1>3. heap[m] = [key |-> heap[m].key, data |-> heap[m].data]  BY <1>2 DEF MapInv, HeapOK
<1> HIDE DEF m
<1>4. heap' = [heap EXCEPT ![m] = [heap[m] EXCEPT !.data = d]]  BY DEF m
<1>5. [heap[m] EXCEPT !.data = d] = [key |-> k, data |-> d]  BY <1>2, <1>3
<1>6. DOMAIN heap' = DOMAIN heap /\ heap'[m] = [key |-> k, data |-> d]
      /\ \A n \in DOMAIN heap : n # m => heap'[n] = heap[n]
  BY <1>2, <1>4, <1>5
<1>7. ASSUME NEW n \in DOMAIN heap
      PROVE  heap'[n].key = heap[n].key /\ heap'[n].data = IF n = m THEN d ELSE heap[n].data
  <2>1. CASE n = m
    <3>1. heap'[n] = [key |-> k, data |-> d] /\ heap[n].key = k  BY <1>2, <1>6, <2>1
    <3>2. heap'[n].key = k /\ heap'[n].data = d  BY <3>1
    <3>3. QED  BY <2>1, <3>1, <3>2
  <2>2. CASE n # m
    <3>1. heap'[n] = heap[n]  BY <1>6, <2>2
    <3>2. QED  BY <2>2, <3>1
  <2>3. QED  BY <2>1, <2>2
<1>8. HeapOK(heap')
  <2>1. ASSUME NEW n \in DOMAIN heap'
        PROVE  /\ heap'[n] = [key |-> heap'[n].key, data |-> heap'[n].data]
               /\ heap'[n].key \in Key /\ heap'[n].data \in Data[heap'[n].key]
    <3>1. CASE n = m  BY <1>6, <3>1
    <3>2. CASE n # m  BY <1>6, <3>2 DEF MapInv, HeapOK
    <3>3. QED  BY <3>1, <3>2
  <2>2. QED  BY <1>6, <2>1 DEF HeapOK, MapInv
<1>9. ASSUME NEW b \in DOMAIN buckets, buckets[b] # Null PROVE BucketOK(heap', b, buckets[b])
  <2>1. BucketOK(heap, b, buckets[b])  BY <1>9 DEF MapInv
  <2>2. ASSUME NEW n \in DOMAIN heap PROVE n \in DOMAIN heap' /\ BucketOf(heap'[n].key) = BucketOf(heap[n].key)
    BY <1>6, <1>7
  <2>3. Holds(heap', b, buckets[b])  BY <2>1, <2>2 DEF BucketOK, Holds
  <2>4. QED  BY <2>1, <2>3 DEF BucketOK
<1>10. MapInv'
  <2>1. Stored' = Stored  BY DEF Stored
  <2>2. DOMAIN heap' \subseteq Stored'  BY <1>6, <2>1 DEF MapInv
  <2>3. QED  BY <1>8, <1>9, <2>2 DEF MapInv
<1>11. ASSUME AllIn(heap, buckets) PROVE AllIn(heap', buckets')
  <2>1. SUFFICES ASSUME NEW b \in DOMAIN buckets, buckets[b] # Null PROVE OrderedIn(heap', buckets[b])
    BY DEF AllIn
  <2>2. BucketOK(heap, b, buckets[b])  BY <2>1 DEF MapInv
  <2>3. Holds(heap, b, buckets[b]) /\ buckets[b].end \in Nat  BY <2>2 DEF BucketOK, ArrayOK
  <2>4. OrderedIn(heap, buckets[b])  BY <1>11, <2>1 DEF AllIn
  <2>5. QED  BY <1>7, <2>3, <2>4, StaysOrdered
<1>12. Overwritten(heap, heap', m, k, d)  BY <1>2, <1>6, <1>7 DEF Overwritten
<1>13. QED  BY <1>10, <1>11, <1>12, OrderedIsAllIn DEF m

\* A set of a key that is not found.
LEMMA SetAdds ==
    ASSUME MapInv, NEW k \in Key, NEW d \in Data[k], buckets # NoMap, Place(k) = -1,
           DOMAIN heap # 1 .. MaxNodes,
           heap' = [n \in DOMAIN heap \cup {Fresh} |-> IF n = Fresh THEN [key |-> k, data |-> d] ELSE heap[n]],
           buckets' = [buckets EXCEPT ![BucketOf(k)] =
                          DArray_push_sort(Bucket(k), Fresh, {n \in DOMAIN heap : heap[n].key < k})]
    PROVE  /\ MapInv' /\ (AllOrdered => AllOrdered')
           /\ AllOrdered => \A n \in DOMAIN heap : heap[n].key # k
           /\ Fresh \notin DOMAIN heap
<1> DEFINE b == BucketOf(k)
           a == Bucket(k)
           f == Fresh
           below == {n \in DOMAIN heap : heap[n].key < k}
           c == DArray_push_sort(a, f, below)
<1>1. f \in 1 .. MaxNodes /\ f \notin DOMAIN heap
  <2>1. \E n \in 1 .. MaxNodes : n \notin DOMAIN heap  BY DEF MapInv, HeapOK
  <2>2. QED  BY <2>1 DEF Fresh
<1>2. b \in DOMAIN buckets  BY PlaceIs
<1>3. ArrayOK(a) /\ a.max <= MaxCells /\ Holds(heap, b, a)
  <2>1. CASE buckets[b] = Null
    <3>1. a = DArray_create(InitialMax)  BY <2>1 DEF Bucket
    <3>2. ArrayOK(a) /\ a.end = 0 /\ a.max = InitialMax  BY <3>1, CreateIsOK
    <3> HIDE DEF a
    <3>3. InitialMax <= MaxCells  BY SizeAssumption, RateAssumption DEF MaxCells
    <3>4. 0 .. a.end - 1 = {}  BY <3>2
    <3>5. QED  BY <3>2, <3>3, <3>4, Zenon DEF Holds
  <2>2. CASE buckets[b] # Null
    <3>1. a = buckets[b] /\ BucketOK(heap, b, buckets[b])  BY <1>2, <2>2 DEF Bucket, MapInv
    <3> HIDE DEF a, b
    <3>2. QED  BY <3>1 DEF BucketOK
  <2>3. QED  BY <2>1, <2>2
<1>4. f \in Pointer  BY <1>1 DEF Pointer
<1> HIDE DEF a, f, below, c
<1>5. /\ ArrayOK(c) /\ c.end = a.end + 1 /\ Grown(a, c)
      /\ \E p \in 0 .. a.end : Inserts(a, c, f, p) /\ Parts(a, below, p)
  BY <1>3, <1>4, PushSortIsOK DEF c
<1>6. PICK p \in 0 .. a.end : Inserts(a, c, f, p) /\ Parts(a, below, p)  BY <1>5
<1>7. /\ DOMAIN heap' = DOMAIN heap \cup {f} /\ heap'[f] = [key |-> k, data |-> d]
      /\ \A n \in DOMAIN heap : heap'[n] = heap[n]
  BY <1>1 DEF f
<1>8. heap'[f].key = k /\ BucketOf(heap'[f].key) = b  BY <1>7
<1>9. HasKeys(a) /\ a.end \in Nat  BY <1>3, BucketHasKeys
<1>16. ComesIn(heap, heap', b, a, c, f, p)
  <2> HIDE DEF b
  <2>1. QED  BY <1>1, <1>3, <1>5, <1>6, <1>7, <1>8, <1>9 DEF ComesIn
<1>10. Holds(heap', b, c) /\ Elements(c) = Elements(a) \cup {f}
  BY ONLY <1>16, InsertedHolds
<1>11. HeapOK(heap')
  <2>1. ASSUME NEW n \in DOMAIN heap'
        PROVE  /\ heap'[n] = [key |-> heap'[n].key, data |-> heap'[n].data]
               /\ heap'[n].key \in Key /\ heap'[n].data \in Data[heap'[n].key]
    <3>1. CASE n = f  BY <1>7, <3>1
    <3>2. CASE n # f
      <4>1. n \in DOMAIN heap /\ heap'[n] = heap[n]  BY <1>7, <3>2
      <4>2. QED  BY <4>1 DEF MapInv, HeapOK
    <3>3. QED  BY <3>1, <3>2
  <2>2. DOMAIN heap' \subseteq 1 .. MaxNodes  BY <1>1, <1>7 DEF MapInv, HeapOK
  <2>3. QED  BY <2>1, <2>2 DEF HeapOK
<1>12. BucketOK(heap', b, c)  BY <1>3, <1>5, <1>10, <1>11, GrownFits
<1>13. buckets' = [buckets EXCEPT ![b] = c]  BY DEF a, f, below, c
<1>14. MapInv'
  <2>1. \A n \in DOMAIN heap : BucketOf(heap[n].key) # b => n \in DOMAIN heap' /\ heap'[n].key = heap[n].key
    BY <1>7
  <2>2. ASSUME NEW n \in DOMAIN heap'
        PROVE  n \in Elements(c) \/ (n \in DOMAIN heap /\ BucketOf(heap[n].key) # b)
    <3>1. CASE n = f  BY <1>10, <3>1
    <3>2. CASE n # f /\ BucketOf(heap[n].key) = b
      <4>1. n \in DOMAIN heap  BY <1>7, <3>2
      <4>2. buckets[b] # Null /\ \E i \in 0 .. buckets[b].end - 1 : buckets[b].contents[i] = n
        <5>1. /\ buckets[BucketOf(heap[n].key)] # Null
              /\ \E i \in 0 .. buckets[BucketOf(heap[n].key)].end - 1 :
                    buckets[BucketOf(heap[n].key)].contents[i] = n
          BY <4>1, StoredIs
        <5> HIDE DEF b
        <5>2. QED  BY <3>2, <5>1
      <4>3. a = buckets[b]  BY <4>2 DEF a, Bucket
      <4>4. n \in Elements(a)  BY <4>2, <4>3 DEF Elements
      <4>5. QED  BY <1>10, <4>4
    <3>3. CASE n # f /\ BucketOf(heap[n].key) # b  BY <1>7, <3>3
    <3>4. QED  BY <3>1, <3>2, <3>3
  <2> HIDE DEF b
  <2>3. QED  BY <1>2, <1>11, <1>12, <1>13, <2>1, <2>2, OneBucketChanged
<1>15. ASSUME AllIn(heap, buckets)
       PROVE  AllIn(heap', buckets') /\ \A n \in DOMAIN heap : heap[n].key # k
  <2>1. OrderedIn(heap, a)
    <3>1. CASE buckets[b] = Null
      <4>1. a.end = 0  BY <3>1, CreateIsOK DEF a, Bucket
      <4>2. 1 .. a.end - 1 = {}  BY <4>1
      <4>3. QED  BY <4>2, Zenon DEF OrderedIn
    <3>2. CASE buckets[b] # Null
      <4>1. a = buckets[b]  BY <3>2 DEF a, Bucket
      <4>2. QED  BY <1>2, <1>15, <3>2, <4>1 DEF AllIn
    <3>3. QED  BY <3>1, <3>2
  <2>2. Ascending(a)  BY <1>9, <2>1, OrderedAscends
  <2>3. \A n \in DOMAIN heap : heap[n].key # k
    <3>1. buckets[b] # Null => a = buckets[b]  BY DEF a, Bucket
    <3>2. buckets[BucketOf(k)] = Null \/ Ascending(buckets[BucketOf(k)])  BY <2>2, <3>1
    <3>3. QED  BY <3>2, PlaceIs
  <2>4. \A i \in 0 .. a.end - 1 : KeyIn(a, i) # heap'[f].key
    <3>1. ASSUME NEW i \in 0 .. a.end - 1 PROVE KeyIn(a, i) # k
      BY <1>3, <2>3 DEF Holds, KeyIn
    <3>2. QED  BY <1>8, <3>1
  <2>5. Parts(a, {m \in DOMAIN heap : heap[m].key < heap'[f].key}, p)  BY <1>6, <1>8 DEF below
  <2>6. heap'[f].key \in Int  BY <1>8, KeyAssumption
  <2>7. OrderedIn(heap', c)
    BY ONLY <1>9, <1>16, <2>1, <2>4, <2>5, <2>6, InsertedOrdered
  <2>8. \A n \in DOMAIN heap : BucketOf(heap[n].key) # b => heap'[n].key = heap[n].key  BY <1>7
  <2> HIDE DEF b
  <2>9. AllIn(heap', buckets')  BY <1>2, <1>13, <1>15, <2>7, <2>8, OneBucketOrdered
  <2>10. QED  BY <2>3, <2>9
<1>17. QED  BY <1>1, <1>14, <1>15, OrderedIsAllIn DEF f

\* A delete of a key that is found.
LEMMA DeleteTakes ==
    ASSUME MapInv, NEW k \in Key, buckets # NoMap, Place(k) # -1,
           heap' = Restrict(heap, DOMAIN heap \ {NodeAt(k)}),
           buckets' = [buckets EXCEPT ![BucketOf(k)] = Emptied(buckets[BucketOf(k)], Place(k))]
    PROVE  /\ MapInv' /\ (AllOrdered /\ ~ LeavesHole(k) => AllOrdered')
           /\ NodeAt(k) \in DOMAIN heap /\ heap[NodeAt(k)].key = k
<1> DEFINE b == BucketOf(k)
           a == buckets[b]
           i == Place(k)
           c == Emptied(a, i)
           m == NodeAt(k)
<1>1. /\ b \in DOMAIN buckets /\ BucketOK(heap, b, a) /\ i \in 0 .. a.end - 1
      /\ m \in DOMAIN heap /\ heap[m].key = k /\ a # Null
  BY PlaceIs
<1>2. m = a.contents[i]  BY DEF NodeAt
<1>3. buckets' = [buckets EXCEPT ![b] = c]  OBVIOUS
<1>4. LeavesHole(k) <=> i < a.end - 2  BY DEF LeavesHole
<1>5. BucketOf(heap[m].key) = b  BY <1>1
<1>6. DOMAIN heap' = DOMAIN heap \ {m} /\ \A n \in DOMAIN heap' : heap'[n] = heap[n]
  BY DEF Restrict
<1> HIDE DEF a, b, i, m
<1>7. ArrayOK(a) /\ a.max <= MaxCells /\ Holds(heap, b, a)  BY <1>1 DEF BucketOK
<1>8. HasKeys(a) /\ a.end \in Nat  BY <1>7, BucketHasKeys
<1>9. ASSUME NEW j \in 0 .. a.end - 1, a.contents[j] = a.contents[i] PROVE j = i
  BY <1>1, <1>7, <1>8, <1>9, Distinct
<1> HIDE DEF c
<1>10. /\ ArrayOK(c) /\ c.end = a.end - 1 /\ Grown(a, c)
       /\ \A j \in 0 .. a.end - 2 : c.contents[j] = a.contents[IF j = i THEN a.end - 1 ELSE j]
  BY <1>1, <1>7, <1>9, EmptiedIsOK DEF c
<1>16. GoesOut(heap, heap', b, a, c, i)
  BY <1>1, <1>2, <1>6, <1>7, <1>8, <1>10 DEF GoesOut
<1>11. Holds(heap', b, c) /\ Elements(c) = Elements(a) \ {m}
  BY ONLY <1>2, <1>16, EmptiedHolds
<1>12. HeapOK(heap')
  <2>1. HeapOK(heap)  BY DEF MapInv
  <2>2. QED  BY <1>6, <2>1 DEF HeapOK
<1>13. BucketOK(heap', b, c)  BY <1>7, <1>10, <1>11, <1>12, GrownFits
<1>14. MapInv'
  <2>1. ASSUME NEW n \in DOMAIN heap, BucketOf(heap[n].key) # b
        PROVE  n \in DOMAIN heap' /\ heap'[n].key = heap[n].key
    BY <1>5, <1>6, <2>1
  <2>2. ASSUME NEW n \in DOMAIN heap'
        PROVE  n \in Elements(c) \/ (n \in DOMAIN heap /\ BucketOf(heap[n].key) # b)
    <3>1. n \in DOMAIN heap /\ n # m  BY <1>6
    <3>2. CASE BucketOf(heap[n].key) = b
      <4>1. \E j \in 0 .. buckets[BucketOf(heap[n].key)].end - 1 :
               buckets[BucketOf(heap[n].key)].contents[j] = n
        BY <3>1, StoredIs
      <4>2. n \in Elements(a)  BY <3>2, <4>1 DEF Elements, a
      <4>3. QED  BY <1>11, <3>1, <4>2
    <3>3. QED  BY <3>1, <3>2
  <2>3. QED  BY <1>1, <1>3, <1>12, <1>13, <2>1, <2>2, OneBucketChanged
<1>15. ASSUME AllIn(heap, buckets), ~ LeavesHole(k) PROVE AllIn(heap', buckets')
  <2>1. OrderedIn(heap, a)  BY <1>1, <1>15 DEF AllIn, a
  <2>2. i >= a.end - 2  BY <1>1, <1>4, <1>8, <1>15
  <2>3. OrderedIn(heap', c)
    BY ONLY <1>8, <1>16, <2>1, <2>2, EmptiedOrdered
  <2>4. ASSUME NEW n \in DOMAIN heap, BucketOf(heap[n].key) # b PROVE heap'[n].key = heap[n].key
    BY <1>5, <1>6, <2>4
  <2>5. QED  BY <1>1, <1>3, <1>15, <2>3, <2>4, OneBucketOrdered
<1>17. QED  BY <1>1, <1>14, <1>15, OrderedIsAllIn DEF m

-----------------------------------------------------------------------------
(* MapInv under every call.                                                *)

\* Hashmap_create makes a map without nodes.
LEMMA InitInOrder == Init => MapInv /\ DOMAIN heap = {}
<1> SUFFICES ASSUME Init PROVE MapInv /\ DOMAIN heap = {}  OBVIOUS
<1>1. DOMAIN heap = {}  BY NothingInNoMap DEF Init, NoMap
<1>2. DOMAIN buckets = 0 .. Buckets - 1 /\ \A b \in DOMAIN buckets : buckets[b] = Null
  BY DEF Init, NewMap
<1>3. HeapOK(heap)  BY <1>1 DEF HeapOK
<1>4. QED  BY <1>1, <1>2, <1>3 DEF MapInv

\* What every call keeps.
KeptInOrder == MapInv' /\ (AllOrdered => AllOrdered')

\* A get or a traverse changes nothing.
LEMMA NothingChanged ==
    ASSUME MapInv, UNCHANGED <<buckets, heap>>
    PROVE  KeptInOrder
BY DEF KeptInOrder, MapInv, Stored, HeapOK, BucketOK, Holds, BucketOf, AllOrdered, Live, Ordered

\* A set keeps the map in place and in order.
LEMMA SetInOrder ==
    ASSUME MapInv, NEW k \in Key, NEW d \in Data[k], Hashmap_set(k, d)
    PROVE  KeptInOrder
<1>1. CASE Place(k) >= 0 /\ heap' = [heap EXCEPT ![NodeAt(k)].data = d] /\ buckets' = buckets
  <2>1. buckets # NoMap  BY DEF Hashmap_set
  <2>2. QED  BY <1>1, <2>1, SetFound DEF KeptInOrder
<1>2. CASE /\ Place(k) = -1 /\ DOMAIN heap # 1 .. MaxNodes
           /\ heap' = [n \in DOMAIN heap \cup {Fresh} |->
                          IF n = Fresh THEN [key |-> k, data |-> d] ELSE heap[n]]
           /\ buckets' = [buckets EXCEPT ![BucketOf(k)] =
                             DArray_push_sort(Bucket(k), Fresh, {n \in DOMAIN heap : heap[n].key < k})]
  <2>1. buckets # NoMap  BY DEF Hashmap_set
  <2>2. QED  BY <1>2, <2>1, SetAdds DEF KeptInOrder
<1>3. QED  BY <1>1, <1>2 DEF Hashmap_set

\* A delete keeps the map in place, and in order unless it leaves a hole.
LEMMA DeleteInOrder ==
    ASSUME MapInv, NEW k \in Key, Hashmap_delete(k)
    PROVE  MapInv' /\ (AllOrdered /\ ~ LeavesHole(k) => AllOrdered')
<1>1. CASE Place(k) = -1
  <2>1. UNCHANGED <<buckets, heap>>  BY <1>1 DEF Hashmap_delete
  <2>2. QED  BY <2>1, NothingChanged DEF KeptInOrder
<1>2. CASE Place(k) # -1
  <2>1. /\ buckets # NoMap
        /\ heap' = Restrict(heap, DOMAIN heap \ {NodeAt(k)})
        /\ buckets' = [buckets EXCEPT ![BucketOf(k)] = Emptied(buckets[BucketOf(k)], Place(k))]
    BY <1>2 DEF Hashmap_delete
  <2>2. QED  BY <1>2, <2>1, DeleteTakes
<1>3. QED  BY <1>1, <1>2

\* While there is no map there are no nodes.
LEMMA NothingWithoutMap ==
    ASSUME MapInv, buckets = NoMap
    PROVE  DOMAIN heap = {}
<1>1. Stored = {}  BY NothingInNoMap DEF Stored
<1>2. QED  BY <1>1, StoredIs

\* A map is created where there are no nodes.
LEMMA CreateInOrder ==
    ASSUME MapInv, Hashmap_create
    PROVE  KeptInOrder /\ DOMAIN heap = {} /\ DOMAIN heap' = {}
<1>1. DOMAIN heap = {} /\ heap' = heap  BY NothingWithoutMap DEF Hashmap_create
<1>2. DOMAIN buckets' = 0 .. Buckets - 1 /\ \A b \in DOMAIN buckets' : buckets'[b] = Null
  BY DEF Hashmap_create, NewMap
<1>3. HeapOK(heap')  BY <1>1 DEF HeapOK
<1>4. MapInv'  BY <1>1, <1>2, <1>3 DEF MapInv
<1>5. AllOrdered'  BY <1>2 DEF AllOrdered, Live
<1>6. QED  BY <1>1, <1>4, <1>5 DEF KeptInOrder

\* Hashmap_destroy leaves no node (hashmap.c:43-61).
LEMMA DestroyInOrder ==
    ASSUME MapInv, Hashmap_destroy
    PROVE  KeptInOrder /\ DOMAIN heap' = {}
<1>1. heap' = Restrict(heap, DOMAIN heap \ Stored) /\ buckets' = NoMap  BY DEF Hashmap_destroy
<1>2. DOMAIN heap' = {}  BY <1>1, StoredIs DEF Restrict
<1>3. DOMAIN buckets' = {}  BY <1>1, NothingInNoMap
<1>4. HeapOK(heap')  BY <1>2 DEF HeapOK
<1>5. MapInv'  BY <1>1, <1>2, <1>3, <1>4 DEF MapInv
<1>6. AllOrdered'  BY <1>3 DEF AllOrdered, Live
<1>7. QED  BY <1>2, <1>5, <1>6 DEF KeptInOrder

\* Any step keeps the map in place, and all but one kind of delete keep its order.
LEMMA StepInOrder ==
    ASSUME MapInv, [Next]_vars
    PROVE  /\ MapInv'
           /\ AllOrdered /\ ~ AllOrdered' => \E k \in Key : LeavesHole(k) /\ Hashmap_delete(k)
<1>1. ASSUME NEW k \in Key, NEW d \in Data[k], Hashmap_set(k, d) PROVE KeptInOrder
  BY <1>1, SetInOrder
<1>2. ASSUME NEW k \in Key, Hashmap_get(k) PROVE KeptInOrder
  BY <1>2, NothingChanged DEF Hashmap_get
<1>3. ASSUME NEW k \in Key, Hashmap_delete(k)
      PROVE  /\ MapInv'
             /\ AllOrdered /\ ~ AllOrdered' => \E j \in Key : LeavesHole(j) /\ Hashmap_delete(j)
  BY <1>3, DeleteInOrder
<1>4. ASSUME Hashmap_create PROVE KeptInOrder  BY <1>4, CreateInOrder
<1>5. ASSUME Hashmap_traverse PROVE KeptInOrder  BY <1>5, NothingChanged DEF Hashmap_traverse
<1>6. ASSUME Hashmap_destroy PROVE KeptInOrder  BY <1>6, DestroyInOrder
<1>7. ASSUME UNCHANGED vars PROVE KeptInOrder  BY <1>7, NothingChanged DEF vars
<1>8. KeptInOrder \/ \E k \in Key : Hashmap_delete(k)
  <2>1. CASE \E k \in Key : \/ \E d \in Data[k] : Hashmap_set(k, d)
                            \/ Hashmap_get(k) \/ Hashmap_delete(k)
    BY ONLY <1>1, <1>2, <2>1, Zenon
  <2>2. QED  BY <1>4, <1>5, <1>6, <1>7, <2>1 DEF Next
<1>9. QED  BY ONLY <1>3, <1>8, Zenon DEF KeptInOrder

\* Every sequence of calls keeps the nodes in their cells.
LEMMA MapInvAlways == Spec => []MapInv
<1>1. Init => MapInv  BY InitInOrder
<1>2. MapInv /\ [Next]_vars => MapInv'  BY StepInOrder
<1>3. QED  BY <1>1, <1>2, PTL DEF Spec

\* MapInv is more than NodesInPlace.
LEMMA MapInvInPlace == MapInv => NodesInPlace
<1> SUFFICES ASSUME MapInv PROVE NodesInPlace  OBVIOUS
<1>1. \A n \in DOMAIN heap : heap[n].key \in Key /\ heap[n].data \in Data[heap[n].key]
  BY DEF MapInv, HeapOK
<1>2. ASSUME NEW b \in Live
      PROVE  ArrayOK(buckets[b]) /\ Holds(heap, b, buckets[b])
  BY DEF Live, MapInv, BucketOK
<1>3. ASSUME NEW b \in Live
      PROVE  /\ buckets[b].end \in Nat /\ buckets[b].max \in Nat
             /\ DOMAIN buckets[b].contents = 0 .. buckets[b].max - 1
             /\ Range(buckets[b].contents) \subseteq Pointer
  <2> DEFINE a == buckets[b]
  <2>1. ArrayOK(a)  BY <1>2
  <2> HIDE DEF a
  <2>2. a.end \in Nat /\ a.max \in Nat /\ a.contents \in [0 .. a.max - 1 -> Pointer]  BY <2>1 DEF ArrayOK
  <2>3. Range(a.contents) \subseteq Pointer  BY <2>2 DEF Range
  <2>4. QED  BY <2>2, <2>3 DEF a
<1>4. TypeOK  BY <1>1, <1>3 DEF TypeOK, MapInv, HeapOK
<1>5. NodesOnce  BY <1>2 DEF NodesOnce, Holds, MapInv
<1>6. QED  BY <1>4, <1>5 DEF NodesInPlace

\* Every live node of a Hashmap is in one cell of the bucket of its key and no
\* cell in use holds anything else, in order or not: a get follows no wild
\* pointer and Hashmap_destroy frees each node once (hashmap.c:172).
THEOREM AlwaysNodesInPlace == Spec => []NodesInPlace
BY MapInvAlways, MapInvInPlace, PTL

\* DArray_push stores first and looks at the size afterwards (darray.c:84-86);
\* no sequence of map calls, with its expansions and contractions, leaves a
\* bucket without the cell for that store.
THEOREM AlwaysRoomForPush == Spec => []RoomForPush
<1>1. MapInv => RoomForPush  BY DEF MapInv, BucketOK, ArrayOK, RoomForPush, Live
<1>2. QED  BY <1>1, MapInvAlways, PTL

-----------------------------------------------------------------------------
(* The map the nodes stand for.                                            *)

KeysApart(H) == \A m, n \in DOMAIN H : H[m].key = H[n].key => m = n
KeysOf(H) == {H[n].key : n \in DOMAIN H}
MappedOf(H) == [k \in KeysOf(H) |-> H[CHOOSE n \in DOMAIN H : H[n].key = k].data]

\* A map of nodes whose keys are apart.
LEMMA MappedIs ==
    ASSUME NEW H, KeysApart(H)
    PROVE  /\ MappedOf(H) = [k \in KeysOf(H) |-> MappedOf(H)[k]]
           /\ DOMAIN MappedOf(H) = KeysOf(H)
           /\ \A n \in DOMAIN H : H[n].key \in KeysOf(H) /\ MappedOf(H)[H[n].key] = H[n].data
           /\ \A k \in KeysOf(H) : \E n \in DOMAIN H : H[n].key = k
<1>1. ASSUME NEW n \in DOMAIN H
      PROVE  H[n].key \in KeysOf(H) /\ MappedOf(H)[H[n].key] = H[n].data
  <2> DEFINE k == H[n].key
             m == CHOOSE m \in DOMAIN H : H[m].key = k
  <2>1. k \in KeysOf(H)  BY DEF KeysOf
  <2>2. m \in DOMAIN H /\ H[m].key = k  OBVIOUS
  <2>3. m = n  BY <2>2 DEF KeysApart
  <2>4. MappedOf(H)[k] = H[m].data  BY <2>1 DEF MappedOf
  <2>5. QED  BY <2>1, <2>3, <2>4
<1>2. QED  BY <1>1 DEF MappedOf, KeysOf

\* A function that agrees with every node is the map of the nodes.
LEMMA MapsTo ==
    ASSUME NEW H, KeysApart(H), NEW f, f = [k \in KeysOf(H) |-> f[k]],
           \A n \in DOMAIN H : f[H[n].key] = H[n].data
    PROVE  MappedOf(H) = f
<1>1. ASSUME NEW k \in KeysOf(H) PROVE MappedOf(H)[k] = f[k]
  <2>1. PICK n \in DOMAIN H : H[n].key = k  BY DEF KeysOf
  <2>2. MappedOf(H)[H[n].key] = H[n].data  BY MappedIs
  <2>3. f[H[n].key] = H[n].data  OBVIOUS
  <2>4. QED  BY ONLY <2>1, <2>2, <2>3
<1>2. MappedOf(H) = [k \in KeysOf(H) |-> MappedOf(H)[k]]  BY MappedIs
<1>3. QED  BY ONLY <1>1, <1>2, f = [k \in KeysOf(H) |-> f[k]]

\* No nodes make the empty map.
LEMMA NothingMapped ==
    ASSUME NEW H, DOMAIN H = {}
    PROVE  MappedOf(H) = <<>>
<1>1. KeysOf(H) = {}  BY DEF KeysOf
<1>2. MappedOf(H) = [k \in {} |-> H[CHOOSE n \in DOMAIN H : H[n].key = k].data]  BY <1>1 DEF MappedOf
<1>3. QED  BY <1>2

\* What is mapped depends on the nodes alone.
LEMMA MappedIsOf == MapInv => Mapped = MappedOf(heap)
<1> SUFFICES ASSUME MapInv PROVE Mapped = MappedOf(heap)  OBVIOUS
<1>1. Stored = DOMAIN heap  BY StoredIs
<1>2. QED  BY <1>1 DEF Mapped, MappedOf, KeysOf

\* In buckets that are in order no key has two nodes.
LEMMA OrderedApart ==
    ASSUME MapInv, AllOrdered
    PROVE  KeysApart(heap)
<1> SUFFICES ASSUME NEW m \in DOMAIN heap, NEW n \in DOMAIN heap, heap[m].key = heap[n].key
             PROVE  m = n
  BY DEF KeysApart
<1> DEFINE b == BucketOf(heap[m].key)
           a == buckets[b]
<1>1. b \in DOMAIN buckets /\ a # Null /\ \E i \in 0 .. a.end - 1 : a.contents[i] = m  BY StoredIs
<1>2. \E i \in 0 .. a.end - 1 : a.contents[i] = n
  <2>1. BucketOf(heap[n].key) = b  OBVIOUS
  <2>2. \E i \in 0 .. buckets[BucketOf(heap[n].key)].end - 1 :
           buckets[BucketOf(heap[n].key)].contents[i] = n
    BY StoredIs
  <2> HIDE DEF b
  <2>3. QED  BY <2>1, <2>2
<1> HIDE DEF b
<1>3. BucketOK(heap, b, a) /\ OrderedIn(heap, a)
  BY <1>1 DEF MapInv, AllOrdered, Live, Ordered, OrderedIn
<1> HIDE DEF a
<1>4. a.end \in Nat /\ HasKeys(a)  BY <1>3, BucketHasKeys DEF BucketOK
<1>5. Ascending(a)  BY <1>3, <1>4, OrderedAscends
<1>6. PICK i \in 0 .. a.end - 1 : a.contents[i] = m  BY <1>1
<1>7. PICK j \in 0 .. a.end - 1 : a.contents[j] = n  BY <1>2
<1>8. KeyIn(a, i) = KeyIn(a, j) /\ KeyIn(a, i) \in Int  BY <1>4, <1>6, <1>7 DEF KeyIn, HasKeys
<1>9. ~ (i < j) /\ ~ (j < i)
  <2>1. i < j => KeyIn(a, i) < KeyIn(a, j)  BY <1>5 DEF Ascending
  <2>2. j < i => KeyIn(a, j) < KeyIn(a, i)  BY <1>5 DEF Ascending
  <2>3. QED  BY <1>8, <2>1, <2>2
<1>10. QED  BY <1>6, <1>7, <1>9

\* And so it does after a step.
LEMMA MappedAfter == MapInv' => Mapped' = MappedOf(heap')
<1>1. (MapInv => Mapped = MappedOf(heap))'  BY MappedIsOf, PTL
<1>2. MappedOf(heap)' = MappedOf(heap')  BY DEF MappedOf, KeysOf
<1>3. QED  BY <1>1, <1>2

\* A set of a key that has a node.
LEMMA SetMaps ==
    ASSUME MapInv, MapInv', AllOrdered, NEW k \in Key, NEW d \in Data[k],
           buckets # NoMap, Place(k) >= 0,
           heap' = [heap EXCEPT ![NodeAt(k)].data = d], buckets' = buckets
    PROVE  Mapped' = [j \in DOMAIN Mapped \cup {k} |-> IF j = k THEN d ELSE Mapped[j]]
<1> DEFINE m == NodeAt(k)
           M == MappedOf(heap)
           f == [j \in KeysOf(heap) \cup {k} |-> IF j = k THEN d ELSE M[j]]
<1>1. /\ m \in DOMAIN heap /\ heap[m].key = k
      /\ DOMAIN heap' = DOMAIN heap
      /\ \A n \in DOMAIN heap : /\ heap'[n].key = heap[n].key
                                /\ heap'[n].data = IF n = m THEN d ELSE heap[n].data
  <2>1. Overwritten(heap, heap', m, k, d)  BY SetFound
  <2>2. QED  BY ONLY <2>1 DEF Overwritten
<1>2. KeysApart(heap)  BY OrderedApart
<1> HIDE DEF m
<1>3. KeysApart(heap')  BY <1>1, <1>2 DEF KeysApart
<1>4. KeysOf(heap') = KeysOf(heap) /\ k \in KeysOf(heap)  BY <1>1 DEF KeysOf
<1>5. ASSUME NEW n \in DOMAIN heap' PROVE f[heap'[n].key] = heap'[n].data
  <2>1. n \in DOMAIN heap /\ heap'[n].key = heap[n].key  BY <1>1
  <2>2. heap[n].key \in KeysOf(heap) /\ M[heap[n].key] = heap[n].data  BY <1>2, <2>1, MappedIs
  <2>3. f[heap[n].key] = IF heap[n].key = k THEN d ELSE M[heap[n].key]  BY <2>2
  <2>4. heap[n].key = k <=> n = m  BY <1>1, <1>2, <2>1 DEF KeysApart
  <2>5. heap'[n].data = IF n = m THEN d ELSE heap[n].data  BY <1>1, <2>1
  <2> HIDE DEF f, M
  <2>6. QED  BY <2>1, <2>2, <2>3, <2>4, <2>5
<1>6. f = [j \in KeysOf(heap') |-> f[j]]  BY <1>4
<1>7. Mapped = M /\ Mapped' = MappedOf(heap') /\ DOMAIN M = KeysOf(heap)
  BY <1>2, MappedIsOf, MappedAfter, MappedIs
<1> HIDE DEF f, M
<1>8. MappedOf(heap') = f  BY ONLY <1>3, <1>5, <1>6, MapsTo
<1>9. QED  BY <1>7, <1>8 DEF f

\* A set of a key that has none.
LEMMA AddMaps ==
    ASSUME MapInv, MapInv', AllOrdered, NEW k \in Key, NEW d \in Data[k],
           buckets # NoMap, Place(k) = -1, DOMAIN heap # 1 .. MaxNodes,
           heap' = [n \in DOMAIN heap \cup {Fresh} |-> IF n = Fresh THEN [key |-> k, data |-> d] ELSE heap[n]],
           buckets' = [buckets EXCEPT ![BucketOf(k)] =
                          DArray_push_sort(Bucket(k), Fresh, {n \in DOMAIN heap : heap[n].key < k})]
    PROVE  Mapped' = [j \in DOMAIN Mapped \cup {k} |-> IF j = k THEN d ELSE Mapped[j]]
<1> DEFINE m == Fresh
           M == MappedOf(heap)
           f == [j \in KeysOf(heap) \cup {k} |-> IF j = k THEN d ELSE M[j]]
<1>1. m \notin DOMAIN heap /\ \A n \in DOMAIN heap : heap[n].key # k  BY SetAdds
<1>2. KeysApart(heap)  BY OrderedApart
<1> HIDE DEF m
<1>3. /\ DOMAIN heap' = DOMAIN heap \cup {m} /\ heap'[m] = [key |-> k, data |-> d]
      /\ \A n \in DOMAIN heap : heap'[n] = heap[n]
  BY <1>1 DEF m
<1>4. heap'[m].key = k /\ heap'[m].data = d  BY <1>3
<1>5. KeysApart(heap')
  <2> SUFFICES ASSUME NEW x \in DOMAIN heap', NEW y \in DOMAIN heap', heap'[x].key = heap'[y].key
               PROVE  x = y
    BY DEF KeysApart
  <2>1. CASE x = m \/ y = m  BY <1>1, <1>3, <1>4, <2>1
  <2>2. CASE x # m /\ y # m
    <3>1. x \in DOMAIN heap /\ y \in DOMAIN heap /\ heap'[x] = heap[x] /\ heap'[y] = heap[y]
      BY <1>3, <2>2
    <3>2. QED  BY <1>2, <3>1 DEF KeysApart
  <2>3. QED  BY <2>1, <2>2
<1>6. KeysOf(heap') = KeysOf(heap) \cup {k}
  <2>1. ASSUME NEW j PROVE j \in KeysOf(heap') <=> j \in KeysOf(heap) \cup {k}
    <3>1. j \in KeysOf(heap') <=> \E n \in DOMAIN heap \cup {m} : heap'[n].key = j  BY <1>3 DEF KeysOf
    <3>2. j \in KeysOf(heap) <=> \E n \in DOMAIN heap : heap[n].key = j  BY DEF KeysOf
    <3>3. QED  BY <1>3, <1>4, <3>1, <3>2
  <2>2. QED  BY <2>1
<1>7. ASSUME NEW n \in DOMAIN heap' PROVE f[heap'[n].key] = heap'[n].data
  <2>1. CASE n = m  BY <1>4, <2>1
  <2>2. CASE n # m
    <3>1. n \in DOMAIN heap /\ heap'[n] = heap[n] /\ heap[n].key # k  BY <1>1, <1>3, <2>2
    <3>2. heap[n].key \in KeysOf(heap) /\ M[heap[n].key] = heap[n].data  BY <1>2, <3>1, MappedIs
    <3>3. QED  BY <3>1, <3>2
  <2>3. QED  BY <2>1, <2>2
<1>8. f = [j \in KeysOf(heap') |-> f[j]]  BY <1>6
<1>9. Mapped = M /\ Mapped' = MappedOf(heap') /\ DOMAIN M = KeysOf(heap)
  BY <1>2, MappedIsOf, MappedAfter, MappedIs
<1> HIDE DEF f, M
<1>10. MappedOf(heap') = f  BY ONLY <1>5, <1>7, <1>8, MapsTo
<1>11. QED  BY <1>9, <1>10 DEF f

\* What get and delete return.
LEMMA FindMapped ==
    ASSUME MapInv, AllOrdered, NEW k \in Key, buckets # NoMap
    PROVE  DataAt(k) = Map!At(k) /\ (k \in DOMAIN Mapped <=> Place(k) # -1)
<1>1. KeysApart(heap)  BY OrderedApart
<1>2. Mapped = MappedOf(heap) /\ DOMAIN Mapped = KeysOf(heap)  BY <1>1, MappedIsOf, MappedIs
<1>3. CASE Place(k) = -1
  <2>1. ASSUME buckets[BucketOf(k)] # Null PROVE Ascending(buckets[BucketOf(k)])
    <3> DEFINE b == BucketOf(k)
               a == buckets[b]
    <3>1. b \in DOMAIN buckets  BY PlaceIs
    <3>2. BucketOK(heap, b, a) /\ OrderedIn(heap, a)
      BY <2>1, <3>1 DEF MapInv, AllOrdered, Live, Ordered, OrderedIn
    <3> HIDE DEF a, b
    <3>3. a.end \in Nat /\ HasKeys(a)  BY <3>2, BucketHasKeys DEF BucketOK
    <3>4. Ascending(a)  BY <3>2, <3>3, OrderedAscends
    <3>5. QED  BY <3>4 DEF a, b
  <2>2. \A n \in DOMAIN heap : heap[n].key # k  BY <1>3, <2>1, PlaceIs
  <2>3. k \notin KeysOf(heap)  BY <2>2 DEF KeysOf
  <2>4. DataAt(k) = Null  BY <1>3 DEF DataAt
  <2>5. QED  BY <1>2, <1>3, <2>3, <2>4 DEF Map!At
<1>4. CASE Place(k) # -1
  <2>1. NodeAt(k) \in DOMAIN heap /\ heap[NodeAt(k)].key = k  BY <1>4, PlaceIs
  <2>2. k \in KeysOf(heap) /\ MappedOf(heap)[k] = heap[NodeAt(k)].data  BY <1>1, <2>1, MappedIs
  <2>3. DataAt(k) = heap[NodeAt(k)].data  BY <1>4 DEF DataAt
  <2>4. QED  BY <1>2, <1>4, <2>2, <2>3 DEF Map!At
<1>5. QED  BY <1>3, <1>4

\* A delete of a key that has a node.
LEMMA DeleteMaps ==
    ASSUME MapInv, MapInv', AllOrdered, NEW k \in Key, buckets # NoMap, Place(k) # -1,
           heap' = Restrict(heap, DOMAIN heap \ {NodeAt(k)})
    PROVE  Mapped' = Map!Without(k)
<1> DEFINE m == NodeAt(k)
           M == MappedOf(heap)
           f == [j \in KeysOf(heap) \ {k} |-> M[j]]
<1>1. m \in DOMAIN heap /\ heap[m].key = k  BY PlaceIs
<1>2. KeysApart(heap)  BY OrderedApart
<1>3. DOMAIN heap' = DOMAIN heap \ {m} /\ \A n \in DOMAIN heap' : heap'[n] = heap[n]  BY DEF Restrict
<1> HIDE DEF m
<1>4. KeysApart(heap')  BY <1>2, <1>3 DEF KeysApart
<1>5. ASSUME NEW n \in DOMAIN heap' PROVE n \in DOMAIN heap /\ heap'[n] = heap[n] /\ heap[n].key # k
  BY <1>1, <1>2, <1>3 DEF KeysApart
<1>6. KeysOf(heap') = KeysOf(heap) \ {k}
  <2>1. ASSUME NEW j PROVE j \in KeysOf(heap') <=> j \in KeysOf(heap) \ {k}
    <3>1. j \in KeysOf(heap') <=> \E n \in DOMAIN heap' : heap'[n].key = j  BY DEF KeysOf
    <3>2. j \in KeysOf(heap) <=> \E n \in DOMAIN heap : heap[n].key = j  BY DEF KeysOf
    <3>3. \A n \in DOMAIN heap : heap[n].key # k => n \in DOMAIN heap'  BY <1>1, <1>3
    <3>4. QED  BY <1>5, <3>1, <3>2, <3>3
  <2>2. QED  BY <2>1
<1>7. ASSUME NEW n \in DOMAIN heap' PROVE f[heap'[n].key] = heap'[n].data
  <2>1. heap[n].key \in KeysOf(heap) /\ M[heap[n].key] = heap[n].data  BY <1>2, <1>5, MappedIs
  <2>2. QED  BY <1>5, <2>1
<1>8. f = [j \in KeysOf(heap') |-> f[j]]  BY <1>6
<1>9. Mapped = M /\ Mapped' = MappedOf(heap') /\ DOMAIN M = KeysOf(heap)
  BY <1>2, MappedIsOf, MappedAfter, MappedIs
<1>10. Map!Without(k) = [j \in DOMAIN Mapped \ {k} |-> Mapped[j]]
  BY DEF Map!Without, Map!Restrict
<1> HIDE DEF f, M
<1>11. MappedOf(heap') = f  BY ONLY <1>4, <1>7, <1>8, MapsTo
<1>12. QED  BY <1>9, <1>10, <1>11 DEF f

-----------------------------------------------------------------------------
(* The calls as calls of KeyMap.                                           *)

\* A step that leaves no node leaves the empty map.
LEMMA NothingMappedAfter ==
    ASSUME MapInv', DOMAIN heap' = {}
    PROVE  Mapped' = <<>>
BY MappedAfter, NothingMapped

\* A step that leaves the nodes alone leaves the map alone.
LEMMA UnchangedMap ==
    ASSUME MapInv, MapInv', heap' = heap
    PROVE  Mapped' = Mapped
BY MappedIsOf, MappedAfter

\* Hashmap_set is a set on the map, with or without a new node (hashmap.c:107-125).
LEMMA SetIsSet ==
    ASSUME MapInv, MapInv', AllOrdered, NEW k \in Key, NEW d \in Data[k], Hashmap_set(k, d)
    PROVE  Map!Set(k, d)
<1>1. buckets # NoMap /\ out' = Map!Outcome("set", k, d, {})  BY DEF Hashmap_set, Outcome, Map!Outcome
<1>2. CASE Place(k) >= 0 /\ heap' = [heap EXCEPT ![NodeAt(k)].data = d] /\ buckets' = buckets
  <2>1. Mapped' = [j \in DOMAIN Mapped \cup {k} |-> IF j = k THEN d ELSE Mapped[j]]
    BY <1>1, <1>2, SetMaps
  <2>2. QED  BY <1>1, <2>1 DEF Map!Set
<1>3. CASE /\ Place(k) = -1 /\ DOMAIN heap # 1 .. MaxNodes
           /\ heap' = [n \in DOMAIN heap \cup {Fresh} |->
                          IF n = Fresh THEN [key |-> k, data |-> d] ELSE heap[n]]
           /\ buckets' = [buckets EXCEPT ![BucketOf(k)] =
                             DArray_push_sort(Bucket(k), Fresh, {n \in DOMAIN heap : heap[n].key < k})]
  <2>1. Mapped' = [j \in DOMAIN Mapped \cup {k} |-> IF j = k THEN d ELSE Mapped[j]]
    BY <1>1, <1>3, AddMaps
  <2>2. QED  BY <1>1, <2>1 DEF Map!Set
<1>4. QED  BY <1>2, <1>3 DEF Hashmap_set

\* Hashmap_get returns what the map holds (hashmap.c:126-140).
LEMMA GetIsGet ==
    ASSUME MapInv, MapInv', AllOrdered, NEW k \in Key, Hashmap_get(k)
    PROVE  Map!Get(k)
<1>1. buckets # NoMap /\ out' = Map!Outcome("get", k, DataAt(k), {}) /\ heap' = heap
  BY DEF Hashmap_get, Outcome, Map!Outcome
<1>2. DataAt(k) = Map!At(k)  BY <1>1, FindMapped
<1>3. Mapped' = Mapped  BY <1>1, UnchangedMap
<1>4. QED  BY <1>1, <1>2, <1>3 DEF Map!Get

\* Hashmap_delete returns it and takes it out (hashmap.c:158-175).
LEMMA DeleteIsDelete ==
    ASSUME MapInv, MapInv', AllOrdered, NEW k \in Key, Hashmap_delete(k)
    PROVE  Map!Delete(k)
<1>1. buckets # NoMap /\ out' = Map!Outcome("delete", k, DataAt(k), {})
  BY DEF Hashmap_delete, Outcome, Map!Outcome
<1>2. DataAt(k) = Map!At(k) /\ (k \in DOMAIN Mapped <=> Place(k) # -1)  BY <1>1, FindMapped
<1>3. CASE Place(k) = -1
  <2>1. heap' = heap  BY <1>3 DEF Hashmap_delete
  <2>2. Mapped' = Mapped  BY <2>1, UnchangedMap
  <2>3. DOMAIN Mapped \ {k} = DOMAIN Mapped  BY <1>2, <1>3
  <2>4. Mapped = [j \in DOMAIN Mapped |-> Mapped[j]]  BY DEF Mapped
  <2>5. Map!Without(k) = Mapped  BY <2>3, <2>4 DEF Map!Without, Map!Restrict
  <2>6. QED  BY <1>1, <1>2, <2>2, <2>5 DEF Map!Delete
<1>4. CASE Place(k) # -1
  <2>1. heap' = Restrict(heap, DOMAIN heap \ {NodeAt(k)})  BY <1>4 DEF Hashmap_delete
  <2>2. Mapped' = Map!Without(k)  BY <1>1, <1>4, <2>1, DeleteMaps
  <2>3. QED  BY <1>1, <1>2, <2>2 DEF Map!Delete
<1>5. QED  BY <1>3, <1>4

\* Hashmap_create makes an empty map.
LEMMA CreateIsCreate ==
    ASSUME MapInv, MapInv', Hashmap_create
    PROVE  Map!Create
<1>1. heap' = heap /\ out' = Map!Outcome("create", Null, Null, {})
  BY DEF Hashmap_create, Outcome, Map!Outcome
<1>2. DOMAIN heap = {}  BY CreateInOrder
<1>3. Mapped = <<>>  BY <1>2, MappedIsOf, NothingMapped
<1>4. Mapped' = Mapped  BY <1>1, UnchangedMap
<1>5. QED  BY <1>1, <1>3, <1>4 DEF Map!Create

\* Hashmap_traverse visits the keys of the map (hashmap.c:141-157).
LEMMA TraverseIsTraverse ==
    ASSUME MapInv, MapInv', Hashmap_traverse
    PROVE  Map!Traverse
<1>1. heap' = heap /\ out' = Map!Outcome("traverse", Null, Null, {heap[n].key : n \in Stored})
  BY DEF Hashmap_traverse, Outcome, Map!Outcome
<1>2. DOMAIN Mapped = {heap[n].key : n \in Stored}  BY DEF Mapped
<1>3. Mapped' = Mapped  BY <1>1, UnchangedMap
<1>4. QED  BY <1>1, <1>2, <1>3 DEF Map!Traverse

\* Hashmap_destroy empties the map.
LEMMA DestroyIsDestroy ==
    ASSUME MapInv, MapInv', Hashmap_destroy
    PROVE  Map!Destroy
<1>1. out' = Map!Outcome("destroy", Null, Null, {})  BY DEF Hashmap_destroy, Outcome, Map!Outcome
<1>2. DOMAIN heap' = {}  BY DestroyInOrder
<1>3. Mapped' = <<>>  BY <1>2, NothingMappedAfter
<1>4. QED  BY <1>1, <1>3 DEF Map!Destroy

\* In order, a call is a call of KeyMap.
LEMMA CallIsCall ==
    ASSUME MapInv, AllOrdered, Next
    PROVE  Map!Next
<1>1. MapInv'  BY StepInOrder
<1>2. ASSUME NEW k \in Key, NEW d \in Data[k], Hashmap_set(k, d) PROVE Map!Set(k, d)
  BY <1>1, <1>2, SetIsSet
<1>3. ASSUME NEW k \in Key, Hashmap_get(k) PROVE Map!Get(k)  BY <1>1, <1>3, GetIsGet
<1>4. ASSUME NEW k \in Key, Hashmap_delete(k) PROVE Map!Delete(k)  BY <1>1, <1>4, DeleteIsDelete
<1>5. CASE \E k \in Key : \/ \E d \in Data[k] : Hashmap_set(k, d)
                          \/ Hashmap_get(k) \/ Hashmap_delete(k)
  <2>1. \E k \in Key : (\E d \in Data[k] : Map!Set(k, d)) \/ Map!Get(k) \/ Map!Delete(k)
    BY ONLY <1>2, <1>3, <1>4, <1>5, Zenon
  <2>2. QED  BY <2>1 DEF Map!Next
<1>6. ASSUME Hashmap_create PROVE Map!Next  BY <1>1, <1>6, CreateIsCreate DEF Map!Next
<1>7. ASSUME Hashmap_traverse PROVE Map!Next  BY <1>1, <1>7, TraverseIsTraverse DEF Map!Next
<1>8. ASSUME Hashmap_destroy PROVE Map!Next  BY <1>1, <1>8, DestroyIsDestroy DEF Map!Next
<1>9. QED  BY <1>5, <1>6, <1>7, <1>8 DEF Next

\* Only the delete of a node with two or more after it, whose place the last
\* one takes, can take a bucket out of order (hashmap.c:172), and while none is
\* out of order every call returns and does what it would on a finite map
\* (hashmap.c:111).
THEOREM AlwaysMapInOrder == Spec => IsMapInOrder
<1>1. Init => Map!Init
  <2> SUFFICES ASSUME Init PROVE Map!Init  OBVIOUS
  <2>1. MapInv /\ DOMAIN heap = {}  BY InitInOrder
  <2>2. Mapped = <<>>  BY <2>1, MappedIsOf, NothingMapped
  <2>3. QED  BY <2>2 DEF Init, Map!Init, Outcome, Map!Outcome
<1>2. MapInv /\ [Next]_vars => [AllOrdered => Map!Next]_vars  BY CallIsCall
<1>3. MapInv /\ [Next]_vars
        => [AllOrdered /\ ~ AllOrdered' => \E k \in Key : LeavesHole(k) /\ Hashmap_delete(k)]_vars
  BY StepInOrder
<1>4. Spec => OrderIsKept  BY <1>3, MapInvAlways, PTL DEF Spec, OrderIsKept
<1>5. Spec => IsKeyMap  BY <1>1, <1>2, MapInvAlways, PTL DEF Spec, IsKeyMap
<1>6. QED  BY <1>4, <1>5 DEF IsMapInOrder

=============================================================================
