-------------------------- MODULE UrlStore_proofs --------------------------
(***************************************************************************)
(* For every set of URLs, every list of values and every count width: the  *)
(* URL store stays a search tree with a Stats wherever one is read, whose  *)
(* pointers dangle from the first delete of a delimiter on and never       *)
(* before; and until then the requests about other URLs are those of a set.*)
(* And for every set of keys: a lookup in the plain tree, TSTree, finds    *)
(* what the calls put there.                                               *)
(*                                                                         *)
(* The tree is finite and has no cycle, so a walk comes to its end within  *)
(* as many steps as there are nodes (WalkFollows), and to the same end     *)
(* whichever way it is described (WalkOnly).  A node that pointers lead to *)
(* has one trail from the root, and the trail is the search for its name   *)
(* (Tree).  An insert puts names behind the end of a search, which no      *)
(* trail had (FreshIsNew), a delete of a delimiter cuts trails (CutTree),  *)
(* and nothing else touches a pointer (SameLinksKeep).  The plain tree has *)
(* the pointers of a store (Bare), so what holds of its walks holds here.  *)
(***************************************************************************)
EXTENDS UrlStore, SequenceTheorems, FiniteSetTheorems, WellFoundedInduction, TLAPS

-----------------------------------------------------------------------------
(* Induction and recursion *)

\* A set of numbers that is not empty has a least element.
LEMMA LeastOf ==
    ASSUME NEW T \in SUBSET Nat, T # {}
    PROVE  \E x \in T : \A y \in T : x <= y
<1> DEFINE R == OpToRel(<, Nat)
<1>1. IsWellFoundedOn(R, Nat)  BY NatLessThanWellFounded
<1> HIDE DEF R
<1>2. PICK x \in T : \A y \in T : ~ (<<y, x>> \in R)  BY <1>1, WFMin
<1>3. ASSUME NEW y \in T PROVE x <= y
  <2>1. x \in Nat /\ y \in Nat  OBVIOUS
  <2>2. y < x => <<y, x>> \in R  BY <2>1 DEF R, OpToRel
  <2>3. QED  BY <1>2, <2>1, <2>2
<1>4. QED  BY <1>3

\* Induction, in the form of a set of numbers: every property is a set.
LEMMA ByInduction ==
    ASSUME NEW T \in SUBSET Nat, 0 \in T, \A n \in T : n + 1 \in T
    PROVE  T = Nat
<1> SUFFICES ASSUME Nat \ T # {} PROVE FALSE  OBVIOUS
<1>1. PICK x \in Nat \ T : \A y \in Nat \ T : x <= y
  <2>1. Nat \ T \in SUBSET Nat  OBVIOUS
  <2>2. QED  BY <2>1, LeastOf
<1>2. x # 0 /\ x - 1 \in Nat /\ x - 1 \in T  BY <1>1
<1>3. (x - 1) + 1 = x  BY <1>1
<1>4. QED  BY <1>1, <1>2, <1>3

\* A recursive function on 0 .. n: each value is made from the one before.
Iterates(f, n, a, G) ==
    \A i \in 0 .. n : f[i] = IF i = 0 THEN a ELSE G[<<i, f[i - 1]>>]

LEMMA IteratesSome ==
    ASSUME NEW A, NEW a \in A, NEW N \in Nat, NEW G \in [(1 .. N) \X A -> A]
    PROVE  \E f \in [0 .. N -> A] : Iterates(f, N, a, G)
  <1> DEFINE T == {n \in Nat : n <= N => \E f \in [0 .. n -> A] : Iterates(f, n, a, G)}
  <1>1. 0 \in T
    <2>1. [i \in 0 .. 0 |-> a] \in [0 .. 0 -> A] /\ Iterates([i \in 0 .. 0 |-> a], 0, a, G)
      BY DEF Iterates
    <2> QED
      BY <2>1
  <1>2. ASSUME NEW n \in T PROVE n + 1 \in T
    <2> SUFFICES ASSUME n + 1 <= N
                 PROVE  \E g \in [0 .. n + 1 -> A] : Iterates(g, n + 1, a, G)
      OBVIOUS
    <2>0. n \in Nat /\ n + 1 \in 1 .. N
      BY <1>2
    <2>1. PICK f \in [0 .. n -> A] : Iterates(f, n, a, G)
      BY <1>2
    <2> HIDE DEF T
    <2> DEFINE last == G[<<n + 1, f[n]>>]
               g == [i \in 0 .. n + 1 |-> IF i <= n THEN f[i] ELSE last]
    <2>2. last \in A
      BY <2>0, <2>1
    <2> HIDE DEF last
    <2>3. g \in [0 .. n + 1 -> A]
      BY <2>0, <2>1, <2>2
    <2>4. ASSUME NEW i \in 0 .. n + 1
          PROVE  g[i] = IF i = 0 THEN a ELSE G[<<i, g[i - 1]>>]
      <3>1. CASE i <= n
        <4>1. i \in 0 .. n /\ g[i] = f[i] /\ (i # 0 => g[i - 1] = f[i - 1])
          BY <2>0, <3>1
        <4> QED
          BY <2>1, <4>1 DEF Iterates
      <3>2. CASE i = n + 1
        <4>1. i # 0 /\ i - 1 = n /\ g[n] = f[n] /\ g[i] = last
          BY <2>0, <3>2
        <4> QED
          BY <3>2, <4>1 DEF last
      <3> QED
        BY <2>0, <3>1, <3>2
    <2> HIDE DEF g
    <2> QED
      BY <2>3, <2>4 DEF Iterates
  <1>3. T = Nat
    BY <1>1, <1>2, ByInduction
  <1> QED
    BY <1>3

-----------------------------------------------------------------------------
(* Names and pointers *)

Name == Seq(Nat) \ {Nil}
Pointer == Seq(Nat)

LEMMA NameFacts ==
    ASSUME NEW q \in Name
    PROVE  /\ Len(q) \in Nat \ {0} /\ q # Nil /\ q \in Pointer
           /\ \A i \in 1 .. Len(q) : q[i] \in Nat
           /\ Last(q) = q[Len(q)] /\ Last(q) \in Nat
  <1>1. Len(q) \in Nat /\ Len(q) # 0 /\ \A i \in 1 .. Len(q) : q[i] \in Nat
    BY EmptySeq, LenProperties, ElementOfSeq DEF Name, Nil
  <1>2. Last(q) = q[Len(q)]
    BY DEF Last
  <1> QED
    BY <1>1, <1>2 DEF Name, Pointer

StatsType == [sum : Int, n : -1 .. CountWrap - 1]
NodeType == [low : Pointer, high : Pointer, equal : Pointer, value : BOOLEAN, stat : StatsType]

\* Low and high differ from a node in their last character, equal has one more.
Sibling(q, x) == Len(x) = Len(q) /\ \A i \in 1 .. Len(q) - 1 : x[i] = q[i]
Child(q, x) == Len(x) = Len(q) + 1 /\ \A i \in 1 .. Len(q) : x[i] = q[i]

Heap == UNION {[D -> NodeType] : D \in SUBSET Name}

Shaped(h, r) ==
    /\ h \in Heap
    /\ r \in Pointer /\ (r = Nil \/ Len(r) = 1)
    /\ \A q \in DOMAIN h : /\ h[q].low = Nil \/ Sibling(q, h[q].low)
                           /\ h[q].high = Nil \/ Sibling(q, h[q].high)
                           /\ h[q].equal = Nil \/ Child(q, h[q].equal)

\* Two nodes, and two heaps, with the same pointers.
SameLinks(x, y) == x.low = y.low /\ x.high = y.high /\ x.equal = y.equal
Alike(h2, h) == DOMAIN h2 = DOMAIN h /\ \A q \in DOMAIN h : SameLinks(h2[q], h[q])

LEMMA AlikeSelf == \A h : Alike(h, h)
  BY DEF Alike, SameLinks

\* A node that a search for key may meet.
Near(q, key) == Len(q) <= Len(key) /\ \A i \in 1 .. Len(q) - 1 : q[i] = key[i]

LEMMA HeapFacts ==
    ASSUME NEW h \in Heap
    PROVE  /\ DOMAIN h \subseteq Name
           /\ \A q \in DOMAIN h : h[q] \in NodeType /\ q \in Name /\ q # Nil
           /\ Nil \notin DOMAIN h
  BY DEF Heap, Name

LEMMA TowardsNear ==
    ASSUME NEW h, NEW r, Shaped(h, r), NEW key \in Name,
           NEW q \in DOMAIN h, q # key, Near(q, key)
    PROVE  /\ Towards(h, q, key) \in Pointer
           /\ Towards(h, q, key) # Nil => /\ Near(Towards(h, q, key), key)
                                          /\ Len(q) <= Len(Towards(h, q, key))
                                          /\ Towards(h, q, key) \in Name
  <1> DEFINE t == Towards(h, q, key)
             c == key[Len(q)]
  <1>1. h \in Heap /\ q \in Name /\ h[q] \in NodeType
    BY HeapFacts DEF Shaped
  <1>2. /\ Len(q) \in Nat \ {0} /\ Len(key) \in Nat /\ Last(q) = q[Len(q)] /\ Last(q) \in Nat
        /\ \A i \in 1 .. Len(key) : key[i] \in Nat
        /\ c \in Nat
    BY <1>1, NameFacts DEF Near
  <1>3. t = IF c < Last(q) THEN h[q].low ELSE IF c > Last(q) THEN h[q].high ELSE h[q].equal
    BY DEF Towards
  <1>4. t \in Pointer
    BY <1>1, <1>3 DEF NodeType
  <1>5. ASSUME t # Nil PROVE Near(t, key) /\ Len(q) <= Len(t)
    <2>1. CASE c < Last(q) \/ c > Last(q)
      <3>1. Sibling(q, t)
        BY <1>2, <1>3, <1>5, <2>1 DEF Shaped
      <3> HIDE DEF t
      <3> QED
        BY <1>2, <3>1 DEF Sibling, Near
    <2>2. CASE c = Last(q)
      <3>1. Child(q, t)
        BY <1>2, <1>3, <1>5, <2>2 DEF Shaped
      <3>2. \A i \in 1 .. Len(q) : q[i] = key[i]
        BY <1>2, <2>2 DEF Near
      <3>3. Len(q) # Len(key)
        <4> SUFFICES ASSUME Len(q) = Len(key) PROVE FALSE
          OBVIOUS
        <4>1. q \in Seq(Nat) /\ key \in Seq(Nat)
          BY <1>1 DEF Name
        <4>2. q = key
          BY <3>2, <4>1, SeqEqual
        <4> QED
          BY <4>2
      <3> HIDE DEF t
      <3> QED
        BY <1>2, <3>1, <3>2, <3>3 DEF Child, Near
    <2> QED
      BY <1>2, <2>1, <2>2
  <1>6. t # Nil => t \in Name
    BY <1>4 DEF Name, Pointer
  <1> QED
    BY <1>4, <1>5, <1>6

-----------------------------------------------------------------------------
(* The search for a name *)

\* p is where a search for key from r goes, as far as it has come.
Follows(h, r, key, p) ==
    /\ p \in Seq(Pointer) /\ Len(p) >= 1 /\ p[1] = r
    /\ \A i \in 1 .. Len(p) - 1 : /\ p[i] \in DOMAIN h /\ p[i] # key
                                  /\ p[i + 1] = Towards(h, p[i], key)

LEMMA FollowsType ==
    ASSUME NEW h, NEW r, NEW key, NEW p, Follows(h, r, key, p)
    PROVE  /\ Len(p) \in Nat \ {0}
           /\ \A i \in 1 .. Len(p) : p[i] \in Pointer
           /\ Last(p) = p[Len(p)]
  BY LenProperties, ElementOfSeq DEF Follows, Last

\* A search meets nothing but what is near its key.
LEMMA FollowsNear ==
    ASSUME NEW h, NEW r, Shaped(h, r), NEW key \in Name, NEW p, Follows(h, r, key, p)
    PROVE  \A i \in 1 .. Len(p) : p[i] # Nil => Near(p[i], key) /\ p[i] \in Name
  <1> DEFINE T == {i \in Nat : i + 1 <= Len(p) /\ p[i + 1] # Nil =>
                                  Near(p[i + 1], key) /\ p[i + 1] \in Name}
  <1>0. Len(p) \in Nat \ {0} /\ \A i \in 1 .. Len(p) : p[i] \in Pointer
    BY FollowsType
  <1>1. 0 \in T
    <2> SUFFICES ASSUME r # Nil PROVE Near(r, key) /\ r \in Name
      BY DEF Follows
    <2>1. r \in Name /\ Len(r) = 1 /\ Len(key) \in Nat \ {0}
      BY NameFacts DEF Shaped, Name, Pointer
    <2> QED
      BY <2>1 DEF Near
  <1>2. ASSUME NEW n \in T PROVE n + 1 \in T
    <2> SUFFICES ASSUME n + 1 + 1 <= Len(p), p[n + 1 + 1] # Nil
                 PROVE  Near(p[n + 1 + 1], key) /\ p[n + 1 + 1] \in Name
      OBVIOUS
    <2>1. n \in Nat /\ n + 1 \in 1 .. Len(p) - 1 /\ n + 1 <= Len(p)
      BY <1>0
    <2>2. p[n + 1] \in DOMAIN h /\ p[n + 1] # key /\ p[n + 1 + 1] = Towards(h, p[n + 1], key)
      BY <2>1 DEF Follows
    <2>3. p[n + 1] # Nil
      BY <2>2, HeapFacts DEF Shaped
    <2>4. Near(p[n + 1], key)
      BY <1>2, <2>1, <2>3
    <2> HIDE DEF T
    <2> QED
      BY <2>2, <2>4, TowardsNear
  <1>3. T = Nat
    BY <1>1, <1>2, ByInduction
  <1>4. ASSUME NEW i \in 1 .. Len(p), p[i] # Nil PROVE Near(p[i], key) /\ p[i] \in Name
    <2>1. i - 1 \in Nat /\ (i - 1) + 1 = i /\ i <= Len(p)
      BY <1>0
    <2>2. i - 1 \in T
      <3> HIDE DEF T
      <3> QED
        BY <1>3, <2>1
    <2> QED
      BY <1>4, <2>1, <2>2
  <1> QED
    BY <1>4

LEMMA FollowsStep ==
    ASSUME NEW h, NEW r, Shaped(h, r), NEW key \in Name, NEW p, Follows(h, r, key, p),
           NEW i \in 1 .. Len(p) - 1
    PROVE  /\ p[i] \in DOMAIN h /\ p[i] \in Name /\ p[i] # key /\ Near(p[i], key)
           /\ p[i + 1] = Towards(h, p[i], key)
           /\ p[i + 1] # Nil => Len(p[i]) <= Len(p[i + 1])
  <1>1. p[i] \in DOMAIN h /\ p[i] # key /\ p[i + 1] = Towards(h, p[i], key)
    BY DEF Follows
  <1>2. p[i] # Nil /\ p[i] \in Name
    BY <1>1, HeapFacts DEF Shaped
  <1>3. i \in 1 .. Len(p)
    BY FollowsType
  <1>4. Near(p[i], key)
    BY <1>2, <1>3, FollowsNear
  <1> QED
    BY <1>1, <1>2, <1>4, TowardsNear

\* Names grow on the way down.
LEMMA FollowsGrows ==
    ASSUME NEW h, NEW r, Shaped(h, r), NEW key \in Name, NEW p, Follows(h, r, key, p),
           NEW i \in 1 .. Len(p)
    PROVE  \A j \in i .. Len(p) : p[j] # Nil => Len(p[i]) <= Len(p[j])
  <1> DEFINE T == {n \in Nat : i + n <= Len(p) /\ p[i + n] # Nil => Len(p[i]) <= Len(p[i + n])}
  <1>0. Len(p) \in Nat \ {0} /\ i \in Nat /\ \A j \in 1 .. Len(p) : p[j] \in Pointer /\ Len(p[j]) \in Nat
    <2>1. Len(p) \in Nat \ {0} /\ \A j \in 1 .. Len(p) : p[j] \in Pointer
      BY FollowsType
    <2> QED
      BY <2>1, LenProperties DEF Pointer
  <1>1. 0 \in T
    BY <1>0
  <1>2. ASSUME NEW n \in T PROVE n + 1 \in T
    <2> SUFFICES ASSUME i + (n + 1) <= Len(p), p[i + (n + 1)] # Nil
                 PROVE  Len(p[i]) <= Len(p[i + (n + 1)])
      OBVIOUS
    <2>1. /\ n \in Nat /\ i + n \in 1 .. Len(p) - 1 /\ i + n <= Len(p) /\ i + n \in 1 .. Len(p)
          /\ i + (n + 1) = (i + n) + 1 /\ (i + n) + 1 \in 1 .. Len(p)
      BY <1>0
    <2>2. p[i + n] \in Name /\ Len(p[i + n]) <= Len(p[(i + n) + 1])
      BY <2>1, FollowsStep
    <2>3. Len(p[i]) <= Len(p[i + n])
      BY <1>2, <2>1, <2>2, NameFacts
    <2> QED
      BY <1>0, <2>1, <2>2, <2>3
  <1>3. T = Nat
    BY <1>1, <1>2, ByInduction
  <1>4. ASSUME NEW j \in i .. Len(p), p[j] # Nil PROVE Len(p[i]) <= Len(p[j])
    <2>1. j - i \in Nat /\ i + (j - i) = j /\ j <= Len(p)
      BY <1>0
    <2>2. j - i \in T
      <3> HIDE DEF T
      <3> QED
        BY <1>3, <2>1
    <2> QED
      BY <1>4, <2>1, <2>2
  <1> QED
    BY <1>4

\* Two searches that meet the same characters go the same way.
LEMMA SameWay ==
    ASSUME NEW h, NEW r, NEW key, NEW other,
           NEW p, Follows(h, r, key, p), NEW w, Follows(h, r, other, w),
           \A i \in 1 .. Len(p) - 1 : Towards(h, p[i], key) = Towards(h, p[i], other)
    PROVE  \A i \in 1 .. Len(p) : i <= Len(w) => p[i] = w[i]
  <1> DEFINE T == {n \in Nat : n + 1 <= Len(p) /\ n + 1 <= Len(w) => p[n + 1] = w[n + 1]}
  <1>0. Len(p) \in Nat \ {0} /\ Len(w) \in Nat \ {0}
    BY FollowsType
  <1>1. 0 \in T
    BY DEF Follows
  <1>2. ASSUME NEW n \in T PROVE n + 1 \in T
    <2> SUFFICES ASSUME n + 1 + 1 <= Len(p), n + 1 + 1 <= Len(w)
                 PROVE  p[n + 1 + 1] = w[n + 1 + 1]
      OBVIOUS
    <2>1. n + 1 \in 1 .. Len(p) - 1 /\ n + 1 \in 1 .. Len(w) - 1 /\ p[n + 1] = w[n + 1]
      BY <1>0, <1>2
    <2> HIDE DEF T
    <2> QED
      BY <2>1 DEF Follows
  <1>3. T = Nat
    BY <1>1, <1>2, ByInduction
  <1>4. ASSUME NEW i \in 1 .. Len(p), i <= Len(w) PROVE p[i] = w[i]
    <2>1. i - 1 \in Nat /\ (i - 1) + 1 = i /\ i <= Len(p)
      BY <1>0
    <2>2. i - 1 \in T
      <3> HIDE DEF T
      <3> QED
        BY <1>3, <2>1
    <2> QED
      BY <1>4, <2>1, <2>2
  <1> QED
    BY <1>4

\* The tree has no cycle: every live child is deeper.
Deepens(h, depth, most) ==
    /\ most \in Nat /\ depth \in [DOMAIN h -> 0 .. most]
    /\ \A q \in DOMAIN h : \A x \in {h[q].low, h[q].high, h[q].equal} \cap DOMAIN h :
          depth[q] < depth[x]

Acyclic(h) == \E depth, most : Deepens(h, depth, most)

LEMMA FollowsDeepens ==
    ASSUME NEW h, NEW r, NEW key, NEW p, Follows(h, r, key, p),
           NEW depth, NEW most, Deepens(h, depth, most),
           NEW m \in 0 .. Len(p), \A i \in 1 .. m : p[i] \in DOMAIN h,
           NEW i \in 1 .. m
    PROVE  \A j \in i + 1 .. m : depth[p[i]] < depth[p[j]]
  <1> DEFINE T == {n \in Nat : i + (n + 1) <= m => depth[p[i]] < depth[p[i + (n + 1)]]}
  <1>0. /\ Len(p) \in Nat \ {0} /\ m \in Nat /\ i \in Nat /\ m <= Len(p)
        /\ \A j \in 1 .. m : depth[p[j]] \in Nat
    BY FollowsType DEF Deepens
  <1>1. ASSUME NEW j \in 1 .. m, j + 1 <= m PROVE depth[p[j]] < depth[p[j + 1]]
    <2>1. j \in 1 .. Len(p) - 1 /\ j + 1 \in 1 .. m
      BY <1>0, <1>1
    <2>2. p[j + 1] = Towards(h, p[j], key) /\ p[j] \in DOMAIN h /\ p[j + 1] \in DOMAIN h
      BY <2>1 DEF Follows
    <2>3. p[j + 1] \in {h[p[j]].low, h[p[j]].high, h[p[j]].equal}
      BY <2>2 DEF Towards
    <2> QED
      BY <2>2, <2>3 DEF Deepens
  <1>2. 0 \in T
    BY <1>0, <1>1
  <1>3. ASSUME NEW n \in T PROVE n + 1 \in T
    <2> SUFFICES ASSUME i + (n + 1 + 1) <= m
                 PROVE  depth[p[i]] < depth[p[i + (n + 1 + 1)]]
      OBVIOUS
    <2>1. /\ n \in Nat /\ i + (n + 1) \in 1 .. m /\ i + (n + 1) <= m
          /\ i + (n + 1 + 1) = (i + (n + 1)) + 1 /\ (i + (n + 1)) + 1 \in 1 .. m
      BY <1>0
    <2>2. depth[p[i]] < depth[p[i + (n + 1)]]
      BY <1>3, <2>1
    <2>3. depth[p[i + (n + 1)]] < depth[p[(i + (n + 1)) + 1]]
      BY <1>0, <1>1, <2>1
    <2> QED
      BY <1>0, <2>1, <2>2, <2>3
  <1>4. T = Nat
    BY <1>2, <1>3, ByInduction
  <1>5. ASSUME NEW j \in i + 1 .. m PROVE depth[p[i]] < depth[p[j]]
    <2>1. j - i - 1 \in Nat /\ i + ((j - i - 1) + 1) = j /\ j <= m
      BY <1>0
    <2>2. j - i - 1 \in T
      <3> HIDE DEF T
      <3> QED
        BY <1>4, <2>1
    <2> QED
      BY <2>1, <2>2
  <1> QED
    BY <1>5

\* So no search meets more nodes than there are.
LEMMA FollowsShort ==
    ASSUME NEW h, IsFiniteSet(DOMAIN h), Acyclic(h),
           NEW r, NEW key, NEW p, Follows(h, r, key, p),
           NEW m \in 0 .. Len(p), \A i \in 1 .. m : p[i] \in DOMAIN h
    PROVE  m <= Cardinality(DOMAIN h)
  <1> DEFINE f == [i \in 1 .. m |-> p[i]]
  <1>0. Len(p) \in Nat \ {0} /\ m \in Nat
    BY FollowsType
  <1>1. PICK depth, most : Deepens(h, depth, most)
    BY DEF Acyclic
  <1>2. ASSUME NEW i \in 1 .. m, NEW j \in 1 .. m, i < j PROVE f[i] # f[j]
    <2>1. j \in i + 1 .. m
      BY <1>0, <1>2
    <2>2. depth[p[i]] < depth[p[j]]
      BY <1>1, <2>1, FollowsDeepens
    <2>3. depth[p[i]] \in Nat /\ depth[p[j]] \in Nat
      BY <1>1 DEF Deepens
    <2> QED
      BY <2>2, <2>3
  <1>3. f \in Injection(1 .. m, DOMAIN h)
    <2>1. f \in [1 .. m -> DOMAIN h]
      OBVIOUS
    <2>2. \A i, j \in 1 .. m : f[i] = f[j] => i = j
      <3> SUFFICES ASSUME NEW i \in 1 .. m, NEW j \in 1 .. m, i # j PROVE f[i] # f[j]
        OBVIOUS
      <3>1. i < j \/ j < i
        BY <1>0
      <3> HIDE DEF f
      <3> QED
        BY <1>2, <3>1
    <2> HIDE DEF f
    <2> QED
      BY <2>1, <2>2 DEF Injection, IsInjective
  <1>4. Cardinality(1 .. m) <= Cardinality(DOMAIN h)
    <2> HIDE DEF f
    <2> QED
      BY <1>3, FS_Injection
  <1>5. Cardinality(1 .. m) = m
    BY <1>0, FS_Interval
  <1> QED
    BY <1>4, <1>5

-----------------------------------------------------------------------------
(* Walk *)

Stopped(h, key, p) == Last(p) = key \/ Last(p) \notin DOMAIN h

\* What Walk makes of the path it has come.
Onward(h, key) ==
    [x \in (1 .. Cardinality(DOMAIN h)) \X Seq(Pointer) |->
        IF Stopped(h, key, x[2]) THEN x[2] ELSE Append(x[2], Towards(h, Last(x[2]), key))]

LEMMA OnwardType ==
    ASSUME NEW h, NEW r, Shaped(h, r), NEW key
    PROVE  Onward(h, key) \in [(1 .. Cardinality(DOMAIN h)) \X Seq(Pointer) -> Seq(Pointer)]
  <1>1. ASSUME NEW p \in Seq(Pointer), ~Stopped(h, key, p)
        PROVE  Append(p, Towards(h, Last(p), key)) \in Seq(Pointer)
    <2>1. Last(p) \in DOMAIN h
      BY <1>1 DEF Stopped
    <2>2. h[Last(p)] \in NodeType
      BY <2>1, HeapFacts DEF Shaped
    <2>3. Towards(h, Last(p), key) \in Pointer
      BY <2>2 DEF Towards, NodeType
    <2> QED
      BY <2>3, AppendProperties
  <1> QED
    BY <1>1 DEF Onward

\* Walk in a heap with the pointers of h.
LEMMA WalkIterates ==
    ASSUME NEW h, NEW r, Shaped(h, r), IsFiniteSet(DOMAIN h), NEW key,
           NEW h2, Alike(h2, h)
    PROVE  \E w \in [0 .. Cardinality(DOMAIN h) -> Seq(Pointer)] :
              /\ Iterates(w, Cardinality(DOMAIN h), <<r>>, Onward(h, key))
              /\ Walk(h2, r, key) = w[Cardinality(DOMAIN h)]
  <1> DEFINE N == Cardinality(DOMAIN h2)
             Step(w) == [i \in 0 .. N |->
                            IF i = 0 THEN <<r>>
                            ELSE LET path == w[i - 1]
                                 IN  IF Last(path) = key \/ Last(path) \notin DOMAIN h2 THEN path
                                     ELSE Append(path, Towards(h2, Last(path), key))]
             g == CHOOSE w : w = Step(w)
  <1>0. DOMAIN h2 = DOMAIN h /\ \A q \in DOMAIN h : Towards(h2, q, key) = Towards(h, q, key)
    BY DEF Alike, SameLinks, Towards
  <1>1. N \in Nat
    BY <1>0, FS_CardinalityType
  <1>2. <<r>> \in Seq(Pointer)
    BY DEF Shaped
  <1> HIDE DEF N
  <1>3. PICK w \in [0 .. N -> Seq(Pointer)] : Iterates(w, N, <<r>>, Onward(h, key))
    BY <1>0, <1>1, <1>2, OnwardType, IteratesSome DEF N
  <1>4. \A i \in 0 .. N : i # 0 => <<i, w[i - 1]>> \in (1 .. N) \X Seq(Pointer)
    BY <1>1
  <1>5. w = Step(w)
    <2>1. ASSUME NEW i \in 0 .. N PROVE w[i] = Step(w)[i]
      BY <1>0, <1>3, <1>4 DEF Iterates, Onward, N, Stopped
    <2> QED
      BY <2>1
  <1>6. g = Step(g)
    BY <1>5
  <1>7. Walk(h2, r, key) = g[N]
    BY DEF Walk, N
  <1> HIDE DEF g
  <1>8. \A i \in 0 .. N : g[i] = w[i]
    <2> DEFINE T == {i \in Nat : i <= N => g[i] = w[i]}
    <2>1. 0 \in T
      BY <1>1, <1>5, <1>6
    <2>2. ASSUME NEW n \in T PROVE n + 1 \in T
      <3>1. n \in Nat /\ (n + 1 <= N => n + 1 \in 0 .. N /\ n + 1 # 0 /\ (n + 1) - 1 = n /\ g[n] = w[n])
        BY <1>1, <2>2
      <3>2. \A i \in 0 .. N : w[i] = Step(w)[i] /\ g[i] = Step(g)[i]
        BY <1>5, <1>6
      <3>3. ASSUME n + 1 <= N PROVE Step(w)[n + 1] = Step(g)[n + 1]
        BY <3>1, <3>3
      <3> HIDE DEF Step
      <3>4. n + 1 <= N => g[n + 1] = w[n + 1]
        BY <3>1, <3>2, <3>3
      <3> QED
        BY <3>1, <3>4
    <2>3. T = Nat
      BY <2>1, <2>2, ByInduction
    <2>4. \A i \in 0 .. N : i \in Nat /\ i <= N
      BY <1>1
    <2>5. \A i \in 0 .. N : i \in T
      <3> HIDE DEF T
      <3> QED
        BY <2>3, <2>4
    <2> QED
      BY <2>4, <2>5
  <1> QED
    BY <1>0, <1>1, <1>3, <1>7, <1>8 DEF N

\* A tree searches can be made in.
Sound(h, r) == Shaped(h, r) /\ IsFiniteSet(DOMAIN h) /\ Acyclic(h)

LEMMA FollowsOnward ==
    ASSUME NEW h, NEW r, Shaped(h, r), NEW key, NEW p, Follows(h, r, key, p), ~Stopped(h, key, p)
    PROVE  LET more == Append(p, Towards(h, Last(p), key))
           IN  Follows(h, r, key, more) /\ Len(more) = Len(p) + 1
  <1> DEFINE n == Len(p)
             t == Towards(h, Last(p), key)
             more == Append(p, t)
  <1>1. n \in Nat \ {0} /\ Last(p) = p[n] /\ p \in Seq(Pointer)
    BY FollowsType DEF Follows
  <1>2. p[n] \in DOMAIN h /\ p[n] # key
    BY <1>1 DEF Stopped
  <1>3. h[p[n]] \in NodeType
    BY <1>2, HeapFacts DEF Shaped
  <1>4. t \in Pointer
    BY <1>1, <1>3 DEF Towards, NodeType
  <1> HIDE DEF t
  <1>5. /\ more \in Seq(Pointer) /\ Len(more) = n + 1 /\ more[n + 1] = t
        /\ \A i \in 1 .. n : more[i] = p[i]
    BY <1>1, <1>4, AppendProperties
  <1> HIDE DEF more
  <1>6. ASSUME NEW i \in 1 .. Len(more) - 1
        PROVE  /\ more[i] \in DOMAIN h /\ more[i] # key
               /\ more[i + 1] = Towards(h, more[i], key)
    <2>1. CASE i = n
      BY <1>1, <1>2, <1>5, <2>1 DEF t
    <2>2. CASE i # n
      <3>1. i \in 1 .. n - 1 /\ i \in 1 .. n /\ i + 1 \in 1 .. n
        BY <1>1, <1>5, <2>2
      <3> QED
        BY <1>5, <3>1 DEF Follows, n
    <2> QED
      BY <2>1, <2>2
  <1>7. Len(more) >= 1 /\ more[1] = r
    <2>1. 1 \in 1 .. n /\ n + 1 >= 1 /\ p[1] = r
      BY <1>1 DEF Follows
    <2> QED
      BY <1>5, <2>1
  <1>8. Follows(h, r, key, more)
    BY <1>5, <1>6, <1>7 DEF Follows
  <1> QED
    BY <1>5, <1>8 DEF more, t, n

\* Walk comes to the key, or to where there is no node.
LEMMA WalkFollows ==
    ASSUME NEW h, NEW r, Sound(h, r), NEW key
    PROVE  Follows(h, r, key, Walk(h, r, key)) /\ Stopped(h, key, Walk(h, r, key))
  <1> DEFINE N == Cardinality(DOMAIN h)
  <1>0. Shaped(h, r) /\ IsFiniteSet(DOMAIN h) /\ Acyclic(h) /\ N \in Nat
    BY FS_CardinalityType DEF Sound
  <1>1. PICK w \in [0 .. N -> Seq(Pointer)] :
            Iterates(w, N, <<r>>, Onward(h, key)) /\ Walk(h, r, key) = w[N]
    <2>1. Alike(h, h)
      BY AlikeSelf
    <2> QED
      BY <1>0, <2>1, WalkIterates
  <1> HIDE DEF N
  <1> DEFINE Come(n) == Follows(h, r, key, w[n]) /\ (Stopped(h, key, w[n]) \/ Len(w[n]) = n + 1)
             T == {n \in Nat : n <= N => Come(n)}
  <1>2. 0 \in T
    <2>0. 0 \in 0 .. N
      BY <1>0
    <2>1. w[0] = <<r>>
      BY <1>1, <2>0 DEF Iterates
    <2>2. w[0] \in Seq(Pointer) /\ Len(w[0]) = 1 /\ w[0][1] = r
      <3>1. w[0] \in Seq(Pointer)
        BY <1>1, <2>0
      <3> QED
        BY <2>1, <3>1
    <2>3. Follows(h, r, key, w[0])
      BY <2>2 DEF Follows
    <2> QED
      BY <2>2, <2>3
  <1>3. ASSUME NEW n \in Nat, n \in T PROVE n + 1 \in T
    <2> SUFFICES ASSUME n + 1 <= N PROVE Come(n + 1)
      OBVIOUS
    <2>0. n + 1 \in 1 .. N /\ n + 1 \in 0 .. N /\ n + 1 # 0 /\ (n + 1) - 1 = n /\ n \in 0 .. N
      BY <1>0
    <2>1. Come(n)
      BY <1>0, <1>3
    <2>2. w[n + 1] = IF Stopped(h, key, w[n]) THEN w[n] ELSE Append(w[n], Towards(h, Last(w[n]), key))
      <3>1. w[n + 1] = Onward(h, key)[<<n + 1, w[n]>>]
        BY <1>1, <2>0 DEF Iterates
      <3>2. <<n + 1, w[n]>> \in (1 .. Cardinality(DOMAIN h)) \X Seq(Pointer)
        BY <1>1, <2>0 DEF N
      <3> QED
        BY <3>1, <3>2 DEF Onward
    <2> HIDE DEF T
    <2>3. CASE Stopped(h, key, w[n])
      BY <2>1, <2>2, <2>3
    <2>4. CASE ~Stopped(h, key, w[n])
      <3>1. Follows(h, r, key, w[n + 1]) /\ Len(w[n + 1]) = Len(w[n]) + 1
        BY <1>0, <2>1, <2>2, <2>4, FollowsOnward
      <3> QED
        BY <2>1, <2>4, <3>1
    <2> QED
      BY <2>3, <2>4
  <1>4. T = Nat
    <2>1. T \in SUBSET Nat /\ \A n \in T : n + 1 \in T
      BY <1>3
    <2> HIDE DEF T
    <2> QED
      BY <1>2, <2>1, ByInduction
  <1>5. Come(N)
    <2>1. N \in T
      <3> HIDE DEF T
      <3> QED
        BY <1>0, <1>4
    <2> HIDE DEF Come
    <2> QED
      BY <1>0, <2>1
  <1>6. Stopped(h, key, w[N])
    <2> SUFFICES ASSUME ~Stopped(h, key, w[N]) PROVE FALSE
      OBVIOUS
    <2> DEFINE p == w[N]
    <2>1. Follows(h, r, key, p) /\ Len(p) = N + 1
      BY <1>5
    <2>2. \A i \in 1 .. N + 1 : p[i] \in DOMAIN h
      <3>1. Last(p) = p[N + 1] /\ Last(p) \in DOMAIN h
        BY <2>1, FollowsType DEF Stopped
      <3>2. \A i \in 1 .. N : p[i] \in DOMAIN h
        <4>1. \A i \in 1 .. N : i \in 1 .. Len(p) - 1
          BY <1>0, <2>1
        <4> QED
          BY <2>1, <4>1 DEF Follows
      <3> HIDE DEF p
      <3>3. \A i \in 1 .. N + 1 : i = N + 1 \/ i \in 1 .. N
        BY <1>0
      <3> QED
        BY <3>1, <3>2, <3>3
    <2> HIDE DEF p
    <2>3. N + 1 \in 0 .. Len(p)
      BY <1>0, <2>1
    <2>4. N + 1 <= N
      BY <1>0, <2>1, <2>2, <2>3, FollowsShort DEF N
    <2> QED
      BY <1>0, <2>4
  <1> QED
    BY <1>1, <1>5, <1>6

\* ... and to nowhere else.
LEMMA WalkOnly ==
    ASSUME NEW h, NEW r, Sound(h, r), NEW key,
           NEW p, Follows(h, r, key, p), Stopped(h, key, p)
    PROVE  Walk(h, r, key) = p
  <1> DEFINE w == Walk(h, r, key)
  <1>1. Follows(h, r, key, w) /\ Stopped(h, key, w)
    BY WalkFollows
  <1> HIDE DEF w
  <1>2. /\ Len(p) \in Nat \ {0} /\ Len(w) \in Nat \ {0} /\ p \in Seq(Pointer) /\ w \in Seq(Pointer)
        /\ Last(p) = p[Len(p)] /\ Last(w) = w[Len(w)]
    <2>1. Len(p) \in Nat \ {0} /\ p \in Seq(Pointer) /\ Last(p) = p[Len(p)]
      BY FollowsType DEF Follows
    <2>2. Len(w) \in Nat \ {0} /\ Last(w) = w[Len(w)]
      BY <1>1, FollowsType
    <2>3. w \in Seq(Pointer)
      BY <1>1 DEF Follows
    <2> QED
      BY <2>1, <2>2, <2>3
  <1>3. \A i \in 1 .. Len(p) : i <= Len(w) => p[i] = w[i]
    BY <1>1, SameWay
  <1>4. ~(Len(p) < Len(w))
    <2> SUFFICES ASSUME Len(p) < Len(w) PROVE FALSE
      OBVIOUS
    <2>1. Len(p) \in 1 .. Len(w) - 1 /\ Len(p) \in 1 .. Len(p)
      BY <1>2
    <2>2. w[Len(p)] \in DOMAIN h /\ w[Len(p)] # key
      BY <1>1, <2>1 DEF Follows
    <2>3. p[Len(p)] = w[Len(p)]
      BY <1>2, <1>3, <2>1
    <2> QED
      BY <1>2, <2>2, <2>3 DEF Stopped
  <1>5. ~(Len(w) < Len(p))
    <2> SUFFICES ASSUME Len(w) < Len(p) PROVE FALSE
      OBVIOUS
    <2>1. Len(w) \in 1 .. Len(p) - 1 /\ Len(w) \in 1 .. Len(p) /\ Len(w) <= Len(w)
      BY <1>2
    <2>2. p[Len(w)] \in DOMAIN h /\ p[Len(w)] # key
      BY <2>1 DEF Follows
    <2>3. p[Len(w)] = w[Len(w)]
      BY <1>3, <2>1
    <2> QED
      BY <1>1, <1>2, <2>2, <2>3 DEF Stopped
  <1>6. Len(p) = Len(w)
    BY <1>2, <1>4, <1>5
  <1>7. \A i \in 1 .. Len(p) : p[i] = w[i]
    BY <1>2, <1>3, <1>6
  <1>8. p = w
    BY <1>2, <1>6, <1>7, SeqEqual
  <1> QED
    BY <1>8 DEF w

\* The search for q comes to q.
Leads(h, r, q, p) == Follows(h, r, q, p) /\ p[Len(p)] = q
Led(h, r, q) == \E p : Leads(h, r, q, p)

LEMMA LedIsFound ==
    ASSUME NEW h, NEW r, Sound(h, r), NEW q
    PROVE  Led(h, r, q) <=> Pinpoint(h, r, q) = q
  <1>1. ASSUME NEW p, Leads(h, r, q, p) PROVE Pinpoint(h, r, q) = q
    <2>1. Follows(h, r, q, p) /\ Last(p) = q
      BY <1>1, FollowsType DEF Leads
    <2>2. Walk(h, r, q) = p
      BY <2>1, WalkOnly DEF Stopped
    <2> QED
      BY <2>1, <2>2 DEF Pinpoint
  <1>2. ASSUME Pinpoint(h, r, q) = q PROVE Leads(h, r, q, Walk(h, r, q))
    <2>1. Follows(h, r, q, Walk(h, r, q)) /\ Last(Walk(h, r, q)) = q
      BY <1>2, WalkFollows DEF Pinpoint
    <2>2. Last(Walk(h, r, q)) = Walk(h, r, q)[Len(Walk(h, r, q))]
      BY <2>1, FollowsType
    <2> QED
      BY <2>1, <2>2 DEF Leads
  <1> QED
    BY <1>1, <1>2 DEF Led

-----------------------------------------------------------------------------
(* Traversed *)

Kids(h, q) == {h[q].low, h[q].high, h[q].equal} \ {Nil}

\* S is what comes of as many rounds as there are nodes.
Levels(h, s, S) ==
    \E t \in [0 .. Cardinality(DOMAIN h) -> SUBSET Pointer] :
       /\ t[0] = {s} \ {Nil}
       /\ \A i \in 1 .. Cardinality(DOMAIN h) :
             t[i] = t[i - 1] \cup UNION {Kids(h, q) : q \in t[i - 1] \cap DOMAIN h}
       /\ S = t[Cardinality(DOMAIN h)]

\* Traversed in a heap with the pointers of h.
LEMMA TraversedIterates ==
    ASSUME NEW h, NEW r, Shaped(h, r), IsFiniteSet(DOMAIN h), NEW s \in Pointer,
           NEW h2, Alike(h2, h)
    PROVE  Levels(h, s, Traversed(h2, s))
  <1> DEFINE N == Cardinality(DOMAIN h2)
             More(S) == S \cup UNION {Kids(h, q) : q \in S \cap DOMAIN h}
             G == [x \in (1 .. N) \X SUBSET Pointer |-> More(x[2])]
             Step(t) == [i \in 0 .. N |->
                            IF i = 0 THEN {s} \ {Nil}
                            ELSE LET seen == t[i - 1]
                                 IN  seen \cup UNION {{h2[q].low, h2[q].high, h2[q].equal} \ {Nil} :
                                                          q \in seen \cap DOMAIN h2}]
             g == CHOOSE t : t = Step(t)
  <1>0. DOMAIN h2 = DOMAIN h /\ \A q \in DOMAIN h : Kids(h2, q) = Kids(h, q)
    BY DEF Alike, SameLinks, Kids
  <1>1. N \in Nat /\ {s} \ {Nil} \in SUBSET Pointer
    BY <1>0, FS_CardinalityType
  <1>2. ASSUME NEW S \in SUBSET Pointer PROVE More(S) \in SUBSET Pointer
    <2>1. \A q \in DOMAIN h : Kids(h, q) \subseteq Pointer
      BY HeapFacts DEF Shaped, NodeType, Kids
    <2> QED
      BY <2>1
  <1> HIDE DEF More
  <1>3. G \in [(1 .. N) \X SUBSET Pointer -> SUBSET Pointer]
    BY <1>2
  <1> HIDE DEF N, G
  <1>4. PICK t \in [0 .. N -> SUBSET Pointer] : Iterates(t, N, {s} \ {Nil}, G)
    BY <1>1, <1>3, IteratesSome
  <1>5. \A i \in 1 .. N : t[i] = More(t[i - 1])
    <2> SUFFICES ASSUME NEW i \in 1 .. N PROVE t[i] = More(t[i - 1])
      OBVIOUS
    <2>1. i \in 0 .. N /\ i # 0 /\ i - 1 \in 0 .. N
      BY <1>1
    <2>2. t[i] = G[<<i, t[i - 1]>>] /\ t[i - 1] \in SUBSET Pointer
      BY <1>4, <2>1 DEF Iterates
    <2> QED
      BY <2>2 DEF G
  <1>6. t[0] = {s} \ {Nil}
    <2>1. 0 \in 0 .. N
      BY <1>1
    <2> QED
      BY <1>4, <2>1 DEF Iterates
  <1>7. t = Step(t)
    <2>1. ASSUME NEW i \in 0 .. N PROVE t[i] = Step(t)[i]
      <3>1. CASE i = 0
        BY <1>6, <3>1
      <3>2. CASE i # 0
        <4>1. i \in 1 .. N
          BY <1>1, <3>2
        <4> QED
          <5>1. t[i] = t[i - 1] \cup UNION {Kids(h2, q) : q \in t[i - 1] \cap DOMAIN h2}
            BY <1>0, <1>5, <4>1 DEF More
          <5> QED
            BY <3>2, <5>1 DEF Kids
      <3> QED
        BY <3>1, <3>2
    <2> QED
      BY <2>1
  <1>8. g = Step(g)
    BY <1>7
  <1>9. Traversed(h2, s) = g[N]
    BY DEF Traversed, N
  <1> HIDE DEF g
  <1>10. \A i \in 0 .. N : t[i] = Step(t)[i] /\ g[i] = Step(g)[i]
    BY <1>7, <1>8
  <1> DEFINE T == {i \in Nat : i <= N => g[i] = t[i]}
  <1>11. 0 \in T
    <2>1. 0 \in 0 .. N
      BY <1>1
    <2>2. Step(t)[0] = {s} \ {Nil} /\ Step(g)[0] = {s} \ {Nil}
      BY <2>1
    <2> HIDE DEF Step
    <2> QED
      BY <1>10, <2>1, <2>2
  <1>12. ASSUME NEW n \in T PROVE n + 1 \in T
    <2>1. n \in Nat /\ (n + 1 <= N => n + 1 \in 0 .. N /\ n + 1 # 0 /\ (n + 1) - 1 = n /\ g[n] = t[n])
      BY <1>1, <1>12
    <2>2. ASSUME n + 1 <= N PROVE Step(t)[n + 1] = Step(g)[n + 1]
      BY <2>1, <2>2
    <2> HIDE DEF Step
    <2>3. n + 1 <= N => g[n + 1] = t[n + 1]
      BY <1>10, <2>1, <2>2
    <2> QED
      BY <2>1, <2>3
  <1>13. T = Nat
    BY <1>11, <1>12, ByInduction
  <1>14. g[N] = t[N]
    <2>1. N \in T
      <3> HIDE DEF T
      <3> QED
        BY <1>1, <1>13
    <2> QED
      BY <1>1, <2>1
  <1> QED
    BY <1>0, <1>4, <1>5, <1>6, <1>9, <1>14 DEF More, N, Levels

\* Traversed finds nothing outside a set that pointers do not leave.
LEMMA TraversedWithin ==
    ASSUME NEW h, NEW r, Shaped(h, r), IsFiniteSet(DOMAIN h), NEW s \in Pointer,
           NEW S, s = Nil \/ s \in S, \A q \in S \cap DOMAIN h : Kids(h, q) \subseteq S
    PROVE  Traversed(h, s) \subseteq S
  <1> DEFINE N == Cardinality(DOMAIN h)
  <1>0. N \in Nat
    BY FS_CardinalityType
  <1>1. PICK t \in [0 .. N -> SUBSET Pointer] :
              /\ t[0] = {s} \ {Nil}
              /\ \A i \in 1 .. N :
                    t[i] = t[i - 1] \cup UNION {Kids(h, q) : q \in t[i - 1] \cap DOMAIN h}
              /\ Traversed(h, s) = t[N]
    <2>1. Alike(h, h)
      BY AlikeSelf
    <2>2. Levels(h, s, Traversed(h, s))
      BY <2>1, TraversedIterates
    <2> QED
      BY <2>2 DEF Levels
  <1> HIDE DEF N
  <1> DEFINE T == {n \in Nat : n <= N => t[n] \subseteq S}
  <1>2. 0 \in T
    BY <1>1
  <1>3. ASSUME NEW n \in T PROVE n + 1 \in T
    <2>1. n \in Nat /\ (n + 1 <= N => n + 1 \in 1 .. N /\ (n + 1) - 1 = n /\ t[n] \subseteq S)
      BY <1>0, <1>3
    <2>2. n + 1 <= N => t[n + 1] = t[n] \cup UNION {Kids(h, q) : q \in t[n] \cap DOMAIN h}
      BY <1>1, <2>1
    <2>3. n + 1 <= N => t[n + 1] \subseteq S
      BY <2>1, <2>2
    <2> QED
      BY <2>1, <2>3
  <1>4. T = Nat
    BY <1>2, <1>3, ByInduction
  <1>5. N \in T
    <2> HIDE DEF T
    <2> QED
      BY <1>0, <1>4
  <1> QED
    BY <1>0, <1>1, <1>5

\* ... and everything a search comes to.
LEMMA LedIsTraversed ==
    ASSUME NEW h, NEW r, Sound(h, r), NEW q \in Name, Led(h, r, q)
    PROVE  q \in Traversed(h, r)
  <1> DEFINE N == Cardinality(DOMAIN h)
  <1>0. Shaped(h, r) /\ IsFiniteSet(DOMAIN h) /\ Acyclic(h) /\ N \in Nat /\ r \in Pointer
    BY FS_CardinalityType DEF Sound, Shaped
  <1>1. PICK p : Leads(h, r, q, p)
    BY DEF Led
  <1>2. Follows(h, r, q, p) /\ Len(p) \in Nat \ {0} /\ p[Len(p)] = q
    BY <1>1, FollowsType DEF Leads
  <1>3. Len(p) - 1 <= N
    <2>1. Len(p) - 1 \in 0 .. Len(p) /\ \A i \in 1 .. Len(p) - 1 : p[i] \in DOMAIN h
      BY <1>2 DEF Follows
    <2> QED
      BY <1>0, <1>2, <2>1, FollowsShort
  <1>4. PICK t \in [0 .. N -> SUBSET Pointer] :
              /\ t[0] = {r} \ {Nil}
              /\ \A i \in 1 .. N :
                    t[i] = t[i - 1] \cup UNION {Kids(h, x) : x \in t[i - 1] \cap DOMAIN h}
              /\ Traversed(h, r) = t[N]
    <2>1. Alike(h, h)
      BY AlikeSelf
    <2>2. Levels(h, r, Traversed(h, r))
      BY <1>0, <2>1, TraversedIterates
    <2> QED
      BY <2>2 DEF Levels
  <1> HIDE DEF N
  <1> DEFINE T == {n \in Nat : n <= N => IF n + 1 <= Len(p) THEN p[n + 1] \in t[n] ELSE q \in t[n]}
  <1>5. \A i \in 1 .. Len(p) - 1 : /\ p[i] \in DOMAIN h /\ p[i + 1] = Towards(h, p[i], q)
                                   /\ p[i + 1] # Nil
    <2> SUFFICES ASSUME NEW i \in 1 .. Len(p) - 1 PROVE p[i + 1] # Nil
      BY <1>2 DEF Follows
    <2>1. CASE i + 1 = Len(p)
      BY <1>2, <2>1 DEF Name
    <2>2. CASE i + 1 # Len(p)
      <3>1. i + 1 \in 1 .. Len(p) - 1
        BY <1>2, <2>2
      <3>2. p[i + 1] \in DOMAIN h
        BY <1>2, <3>1 DEF Follows
      <3> QED
        BY <1>0, <3>2, HeapFacts DEF Shaped
    <2> QED
      BY <2>1, <2>2
  <1>6. 0 \in T
    <2>1. p[1] = r /\ 0 + 1 <= Len(p)
      BY <1>2 DEF Follows
    <2>2. r # Nil
      <3>1. CASE Len(p) = 1
        BY <1>2, <2>1, <3>1 DEF Name
      <3>2. CASE Len(p) # 1
        <4>1. 1 \in 1 .. Len(p) - 1
          BY <1>2, <3>2
        <4>2. p[1] \in DOMAIN h
          BY <1>5, <4>1
        <4> QED
          BY <1>0, <2>1, <4>2, HeapFacts DEF Shaped
      <3> QED
        BY <3>1, <3>2
    <2> QED
      BY <1>4, <2>1, <2>2
  <1>7. ASSUME NEW n \in T PROVE n + 1 \in T
    <2> SUFFICES ASSUME n + 1 <= N
                 PROVE  IF n + 1 + 1 <= Len(p) THEN p[n + 1 + 1] \in t[n + 1] ELSE q \in t[n + 1]
      OBVIOUS
    <2>1. n \in Nat /\ n + 1 \in 1 .. N /\ (n + 1) - 1 = n
      BY <1>0
    <2>2. t[n + 1] = t[n] \cup UNION {Kids(h, x) : x \in t[n] \cap DOMAIN h}
      BY <1>4, <2>1
    <2>3. IF n + 1 <= Len(p) THEN p[n + 1] \in t[n] ELSE q \in t[n]
      BY <1>0, <1>7, <2>1
    <2> HIDE DEF T
    <2>4. CASE n + 1 + 1 <= Len(p)
      <3>1. n + 1 \in 1 .. Len(p) - 1 /\ n + 1 <= Len(p)
        BY <1>2, <2>1, <2>4
      <3>2. p[n + 1] \in t[n] \cap DOMAIN h
        BY <1>5, <2>3, <3>1
      <3>3. p[n + 1 + 1] \in Kids(h, p[n + 1])
        BY <1>5, <3>1 DEF Towards, Kids
      <3> QED
        BY <2>2, <2>4, <3>2, <3>3
    <2>5. CASE ~(n + 1 + 1 <= Len(p))
      <3>1. q \in t[n]
        <4>1. n + 1 <= Len(p) => n + 1 = Len(p)
          BY <1>2, <2>1, <2>5
        <4> QED
          BY <1>2, <2>3, <4>1
      <3> QED
        BY <2>2, <2>5, <3>1
    <2> QED
      BY <2>4, <2>5
  <1>8. T = Nat
    BY <1>6, <1>7, ByInduction
  <1>9. N \in T
    <2> HIDE DEF T
    <2> QED
      BY <1>0, <1>8
  <1>10. q \in t[N]
    <2>1. N + 1 <= Len(p) => N + 1 = Len(p)
      BY <1>0, <1>2, <1>3
    <2> QED
      BY <1>0, <1>2, <1>9, <2>1
  <1> QED
    BY <1>4, <1>10

-----------------------------------------------------------------------------
(* The tree *)

\* R is what pointers lead to from the root, and trail[q] the only way to q,
\* which is the way a search for q takes.
Tree(h, r, R, trail) ==
    /\ R \in SUBSET Name
    /\ r = Nil \/ (r \in R /\ trail[r] = <<r>>)
    /\ \A q \in R : Leads(h, r, q, trail[q])
    /\ \A q \in R \cap DOMAIN h : \A x \in Kids(h, q) : x \in R /\ trail[x] = Append(trail[q], x)

LEMMA TrailFacts ==
    ASSUME NEW h, NEW r, NEW R, NEW trail, Tree(h, r, R, trail), NEW q \in R
    PROVE  /\ q \in Name /\ Follows(h, r, q, trail[q]) /\ trail[q][Len(trail[q])] = q
           /\ trail[q] \in Seq(Pointer) /\ Len(trail[q]) \in Nat \ {0}
  <1>1. Follows(h, r, q, trail[q]) /\ trail[q][Len(trail[q])] = q /\ q \in Name
    BY DEF Tree, Leads
  <1>2. Len(trail[q]) \in Nat \ {0}
    BY <1>1, FollowsType
  <1> QED
    BY <1>1, <1>2 DEF Follows

\* A search goes along the trails.
LEMMA AlongTrails ==
    ASSUME NEW h, NEW r, Shaped(h, r), NEW R, NEW trail, Tree(h, r, R, trail),
           NEW key, NEW p, Follows(h, r, key, p)
    PROVE  \A i \in 1 .. Len(p) : p[i] # Nil =>
              /\ p[i] \in R /\ Len(trail[p[i]]) = i
              /\ \A j \in 1 .. i : trail[p[i]][j] = p[j]
  <1> DEFINE On(i) == p[i] # Nil => /\ p[i] \in R /\ Len(trail[p[i]]) = i
                                    /\ \A j \in 1 .. i : trail[p[i]][j] = p[j]
             T == {n \in Nat : n + 1 <= Len(p) => On(n + 1)}
  <1>0. Len(p) \in Nat \ {0}
    BY FollowsType
  <1>1. 0 \in T
    <2> SUFFICES ASSUME p[1] # Nil PROVE On(1)
      OBVIOUS
    <2>1. p[1] = r /\ r \in R /\ trail[r] = <<r>>
      BY DEF Follows, Tree
    <2> QED
      BY <2>1
  <1>2. ASSUME NEW n \in T PROVE n + 1 \in T
    <2> SUFFICES ASSUME n + 1 + 1 <= Len(p), p[n + 1 + 1] # Nil PROVE On(n + 1 + 1)
      OBVIOUS
    <2> DEFINE q == p[n + 1]
               x == p[n + 1 + 1]
    <2>1. n \in Nat /\ n + 1 \in 1 .. Len(p) - 1 /\ n + 1 <= Len(p)
      BY <1>0
    <2>2. q \in DOMAIN h /\ x = Towards(h, q, key)
      BY <2>1 DEF Follows
    <2>3. q # Nil
      BY <2>2, HeapFacts DEF Shaped
    <2>4. q \in R /\ Len(trail[q]) = n + 1 /\ \A j \in 1 .. n + 1 : trail[q][j] = p[j]
      BY <1>2, <2>1, <2>3
    <2> HIDE DEF T
    <2>5. x \in Kids(h, q)
      BY <2>2 DEF Towards, Kids
    <2>6. x \in R /\ trail[x] = Append(trail[q], x)
      BY <2>2, <2>4, <2>5 DEF Tree
    <2>7. trail[q] \in Seq(Pointer) /\ x \in Pointer
      BY <2>4, <2>6, TrailFacts DEF Tree, Name, Pointer
    <2> HIDE DEF q, x
    <2> DEFINE longer == Append(trail[q], x)
    <2>8. /\ Len(longer) = n + 1 + 1 /\ longer[n + 1 + 1] = x
          /\ \A j \in 1 .. n + 1 : longer[j] = trail[q][j]
      BY <2>1, <2>4, <2>7, AppendProperties
    <2> HIDE DEF longer
    <2>9. \A j \in 1 .. n + 1 + 1 : longer[j] = p[j]
      <3> SUFFICES ASSUME NEW j \in 1 .. n + 1 + 1 PROVE longer[j] = p[j]
        OBVIOUS
      <3>1. CASE j = n + 1 + 1
        BY <2>8, <3>1 DEF x
      <3>2. CASE j # n + 1 + 1
        <4>1. j \in 1 .. n + 1
          BY <2>1, <3>2
        <4> QED
          BY <2>4, <2>8, <4>1
      <3> QED
        BY <3>1, <3>2
    <2> QED
      BY <2>6, <2>8, <2>9 DEF x, longer
  <1>3. T = Nat
    <2>1. T \in SUBSET Nat
      OBVIOUS
    <2> HIDE DEF T
    <2> QED
      BY <1>1, <1>2, <2>1, ByInduction
  <1>4. ASSUME NEW i \in 1 .. Len(p) PROVE On(i)
    <2>1. i - 1 \in Nat /\ (i - 1) + 1 = i /\ i <= Len(p)
      BY <1>0
    <2>2. i - 1 \in T
      <3> HIDE DEF T
      <3> QED
        BY <1>3, <2>1
    <2> HIDE DEF On
    <2> QED
      BY <2>1, <2>2
  <1> QED
    BY <1>4

-----------------------------------------------------------------------------
(* Heaps with the same pointers *)

LEMMA SameLinksKeep ==
    ASSUME NEW h, NEW r, Sound(h, r), NEW h2 \in Heap, DOMAIN h2 = DOMAIN h,
           \A q \in DOMAIN h : SameLinks(h2[q], h[q])
    PROVE  /\ Sound(h2, r)
           /\ \A R, trail : Tree(h, r, R, trail) => Tree(h2, r, R, trail)
  <1>1. \A q \in DOMAIN h : Kids(h2, q) = Kids(h, q)
    BY DEF SameLinks, Kids
  <1>2. \A q \in DOMAIN h : \A key : Towards(h2, q, key) = Towards(h, q, key)
    BY DEF SameLinks, Towards
  <1>3. Shaped(h2, r)
    BY DEF Sound, Shaped, SameLinks
  <1>4. Acyclic(h2)
    <2>1. PICK depth, most : Deepens(h, depth, most)
      BY DEF Sound, Acyclic
    <2>2. Deepens(h2, depth, most)
      BY <2>1 DEF Deepens, SameLinks
    <2> QED
      BY <2>2 DEF Acyclic
  <1>5. \A q, p : Leads(h, r, q, p) => Leads(h2, r, q, p)
    BY <1>2 DEF Leads, Follows
  <1> QED
    BY <1>1, <1>3, <1>4, <1>5 DEF Sound, Tree

-----------------------------------------------------------------------------
(* What an insert adds to the tree *)

Prefix(key, m) == SubSeq(key, 1, m)

LEMMA PrefixFacts ==
    ASSUME NEW key \in Name, NEW m \in 1 .. Len(key)
    PROVE  /\ Prefix(key, m) \in Name /\ Len(Prefix(key, m)) = m
           /\ \A i \in 1 .. m : Prefix(key, m)[i] = key[i]
           /\ Last(Prefix(key, m)) = key[m] /\ Len(key) \in Nat /\ m \in Nat /\ key[m] \in Nat
           /\ m = Len(key) => Prefix(key, m) = key
  <1> DEFINE n == Len(key)
             s == Prefix(key, m)
  <1>1. n \in Nat /\ key \in Seq(Nat) /\ (\A i \in 1 .. n : key[i] \in Nat) /\ m \in Nat /\ 1 <= m /\ m <= n
    BY NameFacts DEF Name
  <1> HIDE DEF n
  <1>2. s \in Seq(Nat) /\ Len(s) = m /\ \A i \in 1 .. m : s[i] = key[i]
    <2>1. \A i \in 1 .. m : key[i] \in Nat
      BY <1>1
    <2>2. /\ s \in Seq(Nat) /\ Len(s) = IF 1 <= m THEN m - 1 + 1 ELSE 0
          /\ \A i \in 1 .. m - 1 + 1 : s[i] = key[1 + i - 1]
      BY <1>1, <2>1, SubSeqProperties DEF Prefix
    <2> HIDE DEF s
    <2> QED
      BY <1>1, <2>2
  <1> HIDE DEF s
  <1>3. s \in Name
    BY <1>1, <1>2, EmptySeq DEF Name, Nil
  <1>4. Last(s) = key[m]
    <2>1. m \in 1 .. m
      BY <1>1
    <2> QED
      BY <1>2, <2>1 DEF Last
  <1>5. m = n => s = key
    BY <1>1, <1>2, SeqEqual DEF n
  <1> QED
    BY <1>1, <1>2, <1>3, <1>4, <1>5 DEF s, n

\* The length of the first name an insert makes, and the names it makes.
From(path, key) ==
    LET hook == path[Len(path) - 1]
    IN  IF Len(path) = 1 THEN 1
        ELSE IF key[Len(hook)] = Last(hook) THEN Len(hook) + 1 ELSE Len(hook)

Fresh(path, key) == {Prefix(key, m) : m \in From(path, key) .. Len(key)}

\* The search for key ends at NULL.
Ends(h, r, key, path) == /\ Sound(h, r) /\ key \in Name /\ path = Walk(h, r, key)
                         /\ path[Len(path)] = Nil

LEMMA BeforeLast ==
    ASSUME NEW n \in Nat \ {0}, n # 1
    PROVE  n - 1 \in 1 .. n - 1 /\ 1 \in 1 .. n - 1 /\ (n - 1) + 1 = n
  OBVIOUS

LEMMA EndsFacts ==
    ASSUME NEW h, NEW r, NEW key, NEW path, Ends(h, r, key, path)
    PROVE  /\ Shaped(h, r) /\ h \in Heap /\ key \in Name /\ Follows(h, r, key, path)
           /\ path[Len(path)] = Nil /\ Len(path) \in Nat \ {0}
           /\ Len(path) = 1 <=> r = Nil
           /\ From(path, key) \in 1 .. Len(key)
           /\ Len(key) \in Nat \ {0}
  <1>1. Shaped(h, r) /\ h \in Heap /\ key \in Name /\ Follows(h, r, key, path) /\ path[Len(path)] = Nil
    BY WalkFollows DEF Ends, Sound, Shaped
  <1>2. Len(path) \in Nat \ {0} /\ Len(key) \in Nat \ {0}
    BY <1>1, FollowsType, NameFacts
  <1>3. ASSUME Len(path) # 1
        PROVE  /\ Len(path) - 1 \in 1 .. Len(path) - 1 /\ 1 \in 1 .. Len(path) - 1
               /\ path[1] \in DOMAIN h
    <2>1. Len(path) - 1 \in 1 .. Len(path) - 1 /\ 1 \in 1 .. Len(path) - 1
      BY <1>2, <1>3, BeforeLast
    <2> QED
      BY <1>1, <2>1 DEF Follows
  <1>4. Len(path) = 1 <=> r = Nil
    <2>1. path[1] = r
      BY <1>1 DEF Follows
    <2>2. Len(path) # 1 => r # Nil
      BY <1>1, <1>3, <2>1, HeapFacts
    <2> QED
      BY <1>1, <2>1, <2>2
  <1>5. From(path, key) \in 1 .. Len(key)
    <2>1. CASE Len(path) = 1
      BY <1>2, <2>1 DEF From
    <2>2. CASE Len(path) # 1
      <3> DEFINE hook == path[Len(path) - 1]
      <3>1. hook \in Name /\ hook # key /\ Near(hook, key)
        BY <1>1, <1>3, <2>2, FollowsStep
      <3> HIDE DEF hook
      <3>2. Len(hook) \in Nat \ {0} /\ Last(hook) = hook[Len(hook)] /\ hook \in Seq(Nat) /\ key \in Seq(Nat)
        BY <1>1, <3>1, NameFacts DEF Name
      <3>3. key[Len(hook)] = Last(hook) => Len(hook) # Len(key)
        <4> SUFFICES ASSUME key[Len(hook)] = Last(hook), Len(hook) = Len(key) PROVE FALSE
          OBVIOUS
        <4>1. \A i \in 1 .. Len(hook) : hook[i] = key[i]
          BY <3>1, <3>2 DEF Near
        <4>2. hook = key
          BY <3>2, <4>1, SeqEqual
        <4> QED
          BY <3>1, <4>2
      <3> QED
        BY <1>2, <2>2, <3>1, <3>2, <3>3 DEF From, Near, hook
    <2> QED
      BY <2>1, <2>2
  <1> QED
    BY <1>1, <1>2, <1>4, <1>5

LEMMA FreshFacts ==
    ASSUME NEW h, NEW r, NEW key, NEW path, Ends(h, r, key, path)
    PROVE  \A q \in Fresh(path, key) :
              /\ q \in Name /\ Len(q) \in From(path, key) .. Len(key) /\ q = Prefix(key, Len(q))
              /\ \A i \in 1 .. Len(q) : q[i] = key[i]
  <1> SUFFICES ASSUME NEW q \in Fresh(path, key)
               PROVE  /\ q \in Name /\ Len(q) \in From(path, key) .. Len(key)
                      /\ q = Prefix(key, Len(q))
                      /\ \A i \in 1 .. Len(q) : q[i] = key[i]
    OBVIOUS
  <1>1. PICK m \in From(path, key) .. Len(key) : q = Prefix(key, m)
    BY DEF Fresh
  <1>2. m \in 1 .. Len(key) /\ key \in Name
    BY EndsFacts
  <1> QED
    BY <1>1, <1>2, PrefixFacts

\* The node the new ones are hung under.
LEMMA HookFacts ==
    ASSUME NEW h, NEW r, NEW key, NEW path, Ends(h, r, key, path), r # Nil
    PROVE  LET hook == path[Len(path) - 1]
           IN  /\ hook \in DOMAIN h /\ hook \in Name /\ Near(hook, key) /\ hook # key
               /\ Len(path) - 1 \in 1 .. Len(path) - 1
               /\ Towards(h, hook, key) = Nil
               /\ From(path, key) = IF key[Len(hook)] = Last(hook) THEN Len(hook) + 1 ELSE Len(hook)
               /\ Len(hook) \in Nat \ {0} /\ Len(hook) <= From(path, key)
               /\ key[Len(hook)] \in Nat /\ Last(hook) \in Nat /\ Last(hook) = hook[Len(hook)]
  <1> DEFINE hook == path[Len(path) - 1]
  <1>1. /\ Shaped(h, r) /\ key \in Name /\ Follows(h, r, key, path) /\ path[Len(path)] = Nil
        /\ Len(path) \in Nat \ {0} /\ Len(path) # 1 /\ Len(key) \in Nat \ {0}
    BY EndsFacts
  <1>2. Len(path) - 1 \in 1 .. Len(path) - 1 /\ (Len(path) - 1) + 1 = Len(path)
    BY <1>1, BeforeLast
  <1>3. hook \in DOMAIN h /\ hook \in Name /\ Near(hook, key) /\ hook # key /\ Towards(h, hook, key) = Nil
    <2> DEFINE i == Len(path) - 1
    <2>1. i \in 1 .. Len(path) - 1 /\ path[i + 1] = Nil
      BY <1>1, <1>2
    <2> HIDE DEF i
    <2>2. /\ path[i] \in DOMAIN h /\ path[i] \in Name /\ path[i] # key /\ Near(path[i], key)
          /\ path[i + 1] = Towards(h, path[i], key)
      BY <1>1, <2>1, FollowsStep
    <2> QED
      BY <2>1, <2>2 DEF i
  <1> HIDE DEF hook
  <1>4. Len(hook) \in Nat \ {0} /\ Last(hook) \in Nat /\ Last(hook) = hook[Len(hook)]
    BY <1>3, NameFacts
  <1>5. key[Len(hook)] \in Nat
    <2>1. Len(hook) \in 1 .. Len(key)
      BY <1>1, <1>3, <1>4 DEF Near
    <2> QED
      BY <1>1, <2>1, NameFacts
  <1>6. From(path, key) = IF key[Len(hook)] = Last(hook) THEN Len(hook) + 1 ELSE Len(hook)
    BY <1>1 DEF From, hook
  <1> QED
    BY <1>2, <1>3, <1>4, <1>5, <1>6 DEF hook

\* No name an insert makes is in the tree: the search would have come to it.
LEMMA FreshIsNew ==
    ASSUME NEW h, NEW r, NEW key, NEW path, Ends(h, r, key, path),
           NEW R, NEW trail, Tree(h, r, R, trail)
    PROVE  Fresh(path, key) \cap R = {}
  <1> SUFFICES ASSUME NEW x \in Fresh(path, key), x \in R PROVE FALSE
    OBVIOUS
  <1> DEFINE p == trail[x]
             k == Len(p)
             n == Len(path)
             m == Len(x)
  <1>1. /\ Shaped(h, r) /\ h \in Heap /\ key \in Name /\ Follows(h, r, key, path)
        /\ path[n] = Nil /\ n \in Nat \ {0} /\ Len(key) \in Nat \ {0}
    BY EndsFacts
  <1>2. /\ x \in Name /\ m \in From(path, key) .. Len(key) /\ m \in Nat
        /\ \A i \in 1 .. m : x[i] = key[i]
    BY FreshFacts, EndsFacts
  <1>3. Follows(h, r, x, p) /\ p[k] = x /\ k \in Nat \ {0}
    BY TrailFacts
  <1> HIDE DEF k, n, m, p
  <1>4. \A i \in 1 .. k - 1 : Towards(h, p[i], x) = Towards(h, p[i], key)
    <2> SUFFICES ASSUME NEW i \in 1 .. k - 1
                 PROVE  Towards(h, p[i], x) = Towards(h, p[i], key)
      OBVIOUS
    <2>1. p[i] \in Name /\ Near(p[i], x)
      BY <1>1, <1>2, <1>3, FollowsStep DEF k
    <2>2. Len(p[i]) \in 1 .. m
      BY <1>2, <2>1, NameFacts DEF Near, m
    <2>3. x[Len(p[i])] = key[Len(p[i])]
      BY <1>2, <2>2
    <2> QED
      BY <2>3 DEF Towards
  <1>5. \A i \in 1 .. k : i <= n => p[i] = path[i]
    BY <1>1, <1>3, <1>4, SameWay DEF k, n
  <1>6. k < n
    <2> SUFFICES ASSUME n <= k PROVE FALSE
      BY <1>1, <1>3
    <2>1. n \in 1 .. k /\ p[n] = Nil
      BY <1>1, <1>3, <1>5
    <2>2. CASE n = k
      BY <1>2, <1>3, <2>1, <2>2 DEF Name
    <2>3. CASE n # k
      <3>1. n \in 1 .. k - 1
        BY <1>1, <1>3, <2>3
      <3>2. p[n] \in DOMAIN h
        BY <1>3, <3>1 DEF Follows, k
      <3> QED
        BY <1>1, <2>1, <3>2, HeapFacts
    <2> QED
      BY <2>2, <2>3
  <1>7. /\ k \in 1 .. n - 1 /\ path[k] = x /\ r # Nil
    <2>1. k \in 1 .. n - 1 /\ k \in 1 .. k /\ k <= n /\ n # 1
      BY <1>1, <1>3, <1>6
    <2> QED
      BY <1>3, <1>5, <2>1, EndsFacts DEF n
  <1>8. /\ x \in DOMAIN h /\ x # key /\ path[k + 1] = Towards(h, x, key)
    BY <1>1, <1>7, FollowsStep DEF n
  <1>9. m \in 1 .. m /\ Last(x) = key[m]
    BY <1>2, NameFacts DEF m
  <1>10. path[k + 1] = h[x].equal
    <2>1. key[m] \in Nat
      <3>1. m \in 1 .. Len(key)
        BY <1>1, <1>2, <1>9
      <3> QED
        BY <1>1, <3>1, NameFacts
    <2> QED
      BY <1>8, <1>9, <2>1 DEF Towards, m
  <1> DEFINE hook == path[n - 1]
  <1>11. /\ From(path, key) = IF key[Len(hook)] = Last(hook) THEN Len(hook) + 1 ELSE Len(hook)
         /\ Len(hook) \in Nat \ {0} /\ hook # Nil /\ From(path, key) <= m /\ n - 1 \in 1 .. n - 1
    <2>1. /\ From(path, key) = IF key[Len(hook)] = Last(hook) THEN Len(hook) + 1 ELSE Len(hook)
          /\ Len(hook) \in Nat \ {0} /\ hook # Nil /\ n - 1 \in 1 .. n - 1
      BY <1>7, HookFacts DEF n, Name
    <2>2. From(path, key) \in Nat
      BY EndsFacts
    <2> QED
      BY <1>2, <2>1, <2>2
  <1>12. CASE k = n - 1
    BY <1>2, <1>7, <1>9, <1>11, <1>12 DEF m
  <1>13. CASE k # n - 1
    <2>1. k + 1 \in 1 .. n - 1 /\ k + 1 \in 1 .. n /\ n - 1 \in k + 1 .. n
      BY <1>1, <1>3, <1>7, <1>13
    <2>2. path[k + 1] # Nil
      <3>1. path[k + 1] \in DOMAIN h
        BY <1>1, <2>1 DEF Follows, n
      <3> QED
        BY <1>1, <3>1, HeapFacts
    <2>3. Child(x, path[k + 1])
      BY <1>1, <1>8, <1>10, <2>2 DEF Shaped
    <2>4. Len(path[k + 1]) = m + 1
      BY <2>3 DEF Child, m
    <2>5. Len(path[k + 1]) <= Len(hook)
      BY <1>1, <1>11, <2>1, FollowsGrows DEF n
    <2> HIDE DEF hook
    <2> QED
      BY <1>2, <1>11, <2>4, <2>5
  <1> QED
    BY <1>12, <1>13

\* h2 and r2 are h and r with the new names, the first one hung under the node
\* the search for key came to last.
Grown(h, r, key, path, h2, r2) ==
    /\ h2 \in Heap /\ DOMAIN h2 = DOMAIN h \cup Fresh(path, key)
    /\ r2 = IF r = Nil THEN Prefix(key, From(path, key)) ELSE r
    /\ \A m \in From(path, key) .. Len(key) :
          LET node == h2[Prefix(key, m)]
          IN  /\ node.low = Nil /\ node.high = Nil
              /\ node.equal = IF m = Len(key) THEN Nil ELSE Prefix(key, m + 1)
    /\ \A q \in DOMAIN h \ Fresh(path, key) :
          IF r # Nil /\ q = path[Len(path) - 1]
          THEN SameLinks(h2[q], Linked(h, q, key, Prefix(key, From(path, key))))
          ELSE SameLinks(h2[q], h[q])

\* The side of node q that a search for key takes.
Side(q, key) == IF key[Len(q)] < Last(q) THEN "low"
                ELSE IF key[Len(q)] > Last(q) THEN "high" ELSE "equal"

LEMMA GrownHook ==
    ASSUME NEW h, NEW r, NEW key, NEW path, Ends(h, r, key, path), r # Nil,
           NEW h2, NEW r2, Grown(h, r, key, path, h2, r2),
           path[Len(path) - 1] \notin Fresh(path, key)
    PROVE  LET hook == path[Len(path) - 1]
               first == Prefix(key, From(path, key))
           IN  /\ h2[hook].low = IF Side(hook, key) = "low" THEN first ELSE h[hook].low
               /\ h2[hook].high = IF Side(hook, key) = "high" THEN first ELSE h[hook].high
               /\ h2[hook].equal = IF Side(hook, key) = "equal" THEN first ELSE h[hook].equal
               /\ \A k2 : Towards(h2, hook, k2) = IF Side(hook, k2) = Side(hook, key) THEN first
                                                 ELSE Towards(h, hook, k2)
  <1> DEFINE hook == path[Len(path) - 1]
             first == Prefix(key, From(path, key))
  <1>1. hook \in DOMAIN h
    BY HookFacts
  <1>2. h[hook] \in NodeType
    BY <1>1, EndsFacts, HeapFacts
  <1>3. SameLinks(h2[hook], Linked(h, hook, key, first))
    BY <1>1 DEF Grown
  <1> HIDE DEF hook, first
  <1>4. /\ h2[hook].low = IF Side(hook, key) = "low" THEN first ELSE h[hook].low
        /\ h2[hook].high = IF Side(hook, key) = "high" THEN first ELSE h[hook].high
        /\ h2[hook].equal = IF Side(hook, key) = "equal" THEN first ELSE h[hook].equal
    <2>1. CASE key[Len(hook)] < Last(hook)
      <3>1. Linked(h, hook, key, first) = [h[hook] EXCEPT !.low = first] /\ Side(hook, key) = "low"
        BY <2>1 DEF Linked, Side
      <3> QED
        BY <1>2, <1>3, <3>1 DEF SameLinks, NodeType
    <2>2. CASE ~(key[Len(hook)] < Last(hook)) /\ key[Len(hook)] > Last(hook)
      <3>1. Linked(h, hook, key, first) = [h[hook] EXCEPT !.high = first] /\ Side(hook, key) = "high"
        BY <2>2 DEF Linked, Side
      <3> QED
        BY <1>2, <1>3, <3>1 DEF SameLinks, NodeType
    <2>3. CASE ~(key[Len(hook)] < Last(hook)) /\ ~(key[Len(hook)] > Last(hook))
      <3>1. Linked(h, hook, key, first) = [h[hook] EXCEPT !.equal = first] /\ Side(hook, key) = "equal"
        BY <2>3 DEF Linked, Side
      <3> QED
        BY <1>2, <1>3, <3>1 DEF SameLinks, NodeType
    <2> QED
      BY <2>1, <2>2, <2>3
  <1>5. \A k2 : Towards(h2, hook, k2) = IF Side(hook, k2) = Side(hook, key) THEN first
                                       ELSE Towards(h, hook, k2)
    BY <1>4 DEF Towards, Side
  <1> QED
    BY <1>4, <1>5 DEF hook, first

LEMMA GrownShaped ==
    ASSUME NEW h, NEW r, NEW key, NEW path, Ends(h, r, key, path),
           NEW R, NEW trail, Tree(h, r, R, trail),
           NEW h2, NEW r2, Grown(h, r, key, path, h2, r2)
    PROVE  Shaped(h2, r2)
  <1> DEFINE a == From(path, key)
             first == Prefix(key, a)
  <1>1. /\ Shaped(h, r) /\ h \in Heap /\ key \in Name /\ a \in 1 .. Len(key) /\ Len(key) \in Nat \ {0}
        /\ Len(path) = 1 <=> r = Nil
    BY EndsFacts
  <1>2. r2 \in Pointer /\ (r2 = Nil \/ Len(r2) = 1)
    <2>1. CASE r = Nil
      <3>1. r2 = Prefix(key, 1) /\ 1 \in 1 .. Len(key)
        BY <1>1, <2>1 DEF Grown, From
      <3> QED
        BY <1>1, <3>1, PrefixFacts DEF Name, Pointer
    <2>2. CASE r # Nil
      BY <1>1, <2>2 DEF Grown, Shaped
    <2> QED
      BY <2>1, <2>2
  <1>3. ASSUME NEW q \in DOMAIN h2
        PROVE  /\ h2[q].low = Nil \/ Sibling(q, h2[q].low)
               /\ h2[q].high = Nil \/ Sibling(q, h2[q].high)
               /\ h2[q].equal = Nil \/ Child(q, h2[q].equal)
    <2>1. CASE q \in Fresh(path, key)
      <3>1. PICK m \in a .. Len(key) : q = Prefix(key, m)
        BY <2>1 DEF Fresh
      <3>2. /\ h2[q].low = Nil /\ h2[q].high = Nil
            /\ h2[q].equal = IF m = Len(key) THEN Nil ELSE Prefix(key, m + 1)
        BY <3>1 DEF Grown
      <3>3. m # Len(key) => Child(q, Prefix(key, m + 1))
        <4> SUFFICES ASSUME m # Len(key) PROVE Child(q, Prefix(key, m + 1))
          OBVIOUS
        <4>1. m \in 1 .. Len(key) /\ m + 1 \in 1 .. Len(key)
          BY <1>1
        <4>2. Len(q) = m /\ \A i \in 1 .. m : q[i] = key[i]
          BY <1>1, <3>1, <4>1, PrefixFacts
        <4>3. Len(Prefix(key, m + 1)) = m + 1 /\ \A i \in 1 .. m + 1 : Prefix(key, m + 1)[i] = key[i]
          BY <1>1, <4>1, PrefixFacts
        <4>4. \A i \in 1 .. m : i \in 1 .. m + 1
          BY <4>1
        <4> QED
          BY <4>2, <4>3, <4>4 DEF Child
      <3> QED
        BY <3>2, <3>3
    <2>2. CASE q \notin Fresh(path, key) /\ ~(r # Nil /\ q = path[Len(path) - 1])
      <3>1. q \in DOMAIN h /\ SameLinks(h2[q], h[q])
        BY <2>2 DEF Grown
      <3> QED
        BY <1>1, <3>1 DEF SameLinks, Shaped
    <2>3. CASE q \notin Fresh(path, key) /\ r # Nil /\ q = path[Len(path) - 1]
      <3>1. /\ q \in DOMAIN h /\ q \in Name /\ Near(q, key)
            /\ a = IF key[Len(q)] = Last(q) THEN Len(q) + 1 ELSE Len(q)
            /\ Len(q) \in Nat \ {0} /\ Last(q) = q[Len(q)] /\ Last(q) \in Nat /\ key[Len(q)] \in Nat
        BY <2>3, HookFacts
      <3>2. /\ h2[q].low = IF Side(q, key) = "low" THEN first ELSE h[q].low
            /\ h2[q].high = IF Side(q, key) = "high" THEN first ELSE h[q].high
            /\ h2[q].equal = IF Side(q, key) = "equal" THEN first ELSE h[q].equal
        BY <2>3, GrownHook
      <3>3. Len(first) = a /\ \A i \in 1 .. a : first[i] = key[i]
        BY <1>1, PrefixFacts
      <3> HIDE DEF a, first
      <3>4. Side(q, key) \in {"low", "high"} => Sibling(q, first)
        <4> SUFFICES ASSUME Side(q, key) \in {"low", "high"} PROVE Sibling(q, first)
          OBVIOUS
        <4>1. a = Len(q)
          BY <3>1 DEF Side
        <4> QED
          BY <3>1, <3>3, <4>1 DEF Near, Sibling
      <3>5. Side(q, key) = "equal" => Child(q, first)
        <4> SUFFICES ASSUME Side(q, key) = "equal" PROVE Child(q, first)
          OBVIOUS
        <4>1. key[Len(q)] = Last(q) /\ a = Len(q) + 1
          BY <3>1 DEF Side
        <4>2. \A i \in 1 .. Len(q) : q[i] = key[i] /\ i \in 1 .. a
          BY <3>1, <4>1 DEF Near
        <4> QED
          BY <3>3, <4>1, <4>2 DEF Child
      <3> QED
        BY <1>1, <3>1, <3>2, <3>4, <3>5 DEF Shaped
    <2> QED
      BY <2>1, <2>2, <2>3
  <1> QED
    BY <1>2, <1>3 DEF Shaped, Grown

LEMMA FreshIsFinite ==
    ASSUME NEW h, NEW r, NEW key, NEW path, Ends(h, r, key, path)
    PROVE  IsFiniteSet(Fresh(path, key))
  <1> DEFINE a == From(path, key)
             f == [m \in a .. Len(key) |-> Prefix(key, m)]
  <1>1. a \in Int /\ Len(key) \in Int
    BY EndsFacts
  <1>2. IsFiniteSet(a .. Len(key))
    BY <1>1, FS_Interval
  <1>3. f \in Surjection(a .. Len(key), Fresh(path, key))
    BY DEF Surjection, Fresh
  <1> HIDE DEF f
  <1> QED
    BY <1>2, <1>3, FS_Surjection

LEMMA GrownAcyclic ==
    ASSUME NEW h, NEW r, NEW key, NEW path, Ends(h, r, key, path),
           NEW R, NEW trail, Tree(h, r, R, trail),
           NEW h2, NEW r2, Grown(h, r, key, path, h2, r2)
    PROVE  Acyclic(h2)
  <1> DEFINE F == Fresh(path, key)
             a == From(path, key)
             first == Prefix(key, a)
  <1>1. PICK depth, most : Deepens(h, depth, most)
    BY DEF Ends, Sound, Acyclic
  <1>2. \A q \in F : Len(q) \in 1 .. Len(key)
    <2>1. \A q \in F : Len(q) \in a .. Len(key)
      BY FreshFacts
    <2> QED
      BY <2>1, EndsFacts
  <1> DEFINE depth2 == [q \in DOMAIN h2 |-> IF q \in F THEN most + Len(q) ELSE depth[q]]
             most2 == most + Len(key)
  <1>3. most \in Nat /\ Len(key) \in Nat /\ \A q \in DOMAIN h : depth[q] \in 0 .. most
    BY <1>1, EndsFacts DEF Deepens
  <1>4. DOMAIN h2 = DOMAIN h \cup F
    BY DEF Grown
  <1> HIDE DEF F
  <1>5. depth2 \in [DOMAIN h2 -> 0 .. most2] /\ most2 \in Nat
    <2>1. ASSUME NEW q \in DOMAIN h2 PROVE depth2[q] \in 0 .. most2
      <3>1. CASE q \in F
        BY <1>2, <1>3, <3>1
      <3>2. CASE q \notin F
        BY <1>3, <1>4, <3>2
      <3> QED
        BY <3>1, <3>2
    <2> QED
      BY <1>3, <2>1
  <1>6. ASSUME NEW q \in DOMAIN h2, NEW x \in {h2[q].low, h2[q].high, h2[q].equal} \cap DOMAIN h2
        PROVE  depth2[q] < depth2[x]
    <2>0. x # Nil
      <3>1. Nil \notin DOMAIN h2
        BY HeapFacts DEF Grown
      <3> QED
        BY <3>1
    <2>1. CASE q \in F
      <3>1. PICK m \in a .. Len(key) : q = Prefix(key, m)
        BY <2>1 DEF Fresh, F
      <3>2. m # Len(key) /\ x = Prefix(key, m + 1)
        BY <2>0, <3>1 DEF Grown
      <3>3. m \in 1 .. Len(key) /\ m + 1 \in 1 .. Len(key) /\ m + 1 \in a .. Len(key) /\ key \in Name
        BY <3>2, EndsFacts
      <3>4. x \in F /\ Len(q) = m /\ Len(x) = m + 1
        <4>1. x \in F
          BY <3>2, <3>3 DEF F, Fresh
        <4>2. Len(q) = m
          BY <3>1, <3>3, PrefixFacts
        <4>3. Len(x) = m + 1
          BY <3>2, <3>3, PrefixFacts
        <4> QED
          BY <4>1, <4>2, <4>3
      <3> QED
        BY <1>3, <2>1, <3>3, <3>4
    <2>2. CASE q \notin F /\ x \in F
      BY <1>2, <1>3, <1>4, <2>2
    <2>3. CASE q \notin F /\ x \notin F
      <3>1. q \in DOMAIN h /\ x \in DOMAIN h
        BY <1>4, <2>3
      <3>2. x \in {h[q].low, h[q].high, h[q].equal}
        <4>1. CASE ~(r # Nil /\ q = path[Len(path) - 1])
          <5>1. SameLinks(h2[q], h[q])
            BY <2>3, <3>1, <4>1 DEF Grown, F
          <5> QED
            BY <5>1 DEF SameLinks
        <4>2. CASE r # Nil /\ q = path[Len(path) - 1]
          <5>1. first \in F
            <6>1. a \in a .. Len(key)
              BY EndsFacts
            <6> QED
              BY <6>1 DEF F, Fresh
          <5>2. /\ h2[q].low = IF Side(q, key) = "low" THEN first ELSE h[q].low
                /\ h2[q].high = IF Side(q, key) = "high" THEN first ELSE h[q].high
                /\ h2[q].equal = IF Side(q, key) = "equal" THEN first ELSE h[q].equal
            BY <2>3, <4>2, GrownHook DEF F
          <5> HIDE DEF first
          <5> QED
            BY <2>3, <5>1, <5>2
        <4> QED
          BY <4>1, <4>2
      <3>3. depth[q] < depth[x]
        BY <1>1, <3>1, <3>2 DEF Deepens
      <3> QED
        BY <2>3, <3>3
    <2> QED
      BY <2>1, <2>2, <2>3
  <1> HIDE DEF depth2, most2
  <1>7. Deepens(h2, depth2, most2)
    BY <1>5, <1>6 DEF Deepens
  <1> QED
    BY <1>7 DEF Acyclic

LEMMA GrownSound ==
    ASSUME NEW h, NEW r, NEW key, NEW path, Ends(h, r, key, path),
           NEW R, NEW trail, Tree(h, r, R, trail),
           NEW h2, NEW r2, Grown(h, r, key, path, h2, r2)
    PROVE  Sound(h2, r2)
  <1>1. IsFiniteSet(DOMAIN h \cup Fresh(path, key))
    BY FreshIsFinite, FS_Union DEF Ends, Sound
  <1>2. Shaped(h2, r2) /\ Acyclic(h2)
    BY GrownShaped, GrownAcyclic
  <1> QED
    BY <1>1, <1>2 DEF Sound, Grown

\* The search for a node that was in the tree goes as before.
LEMMA GrownKeepsWay ==
    ASSUME NEW h, NEW r, NEW key, NEW path, Ends(h, r, key, path),
           NEW R, NEW trail, Tree(h, r, R, trail),
           NEW h2, NEW r2, Grown(h, r, key, path, h2, r2),
           NEW q \in R
    PROVE  r # Nil /\ r2 = r /\ Leads(h2, r2, q, trail[q])
  <1> DEFINE p == trail[q]
  <1>1. Shaped(h, r) /\ h \in Heap /\ DOMAIN h2 = DOMAIN h \cup Fresh(path, key)
    BY EndsFacts DEF Grown
  <1>2. Follows(h, r, q, p) /\ p[Len(p)] = q /\ Len(p) \in Nat \ {0} /\ q \in Name
    BY TrailFacts
  <1> HIDE DEF p
  <1>3. r # Nil
    <2>1. p[1] = r
      BY <1>2 DEF Follows
    <2>2. CASE Len(p) = 1
      BY <1>2, <2>1, <2>2 DEF Name
    <2>3. CASE Len(p) # 1
      <3>1. 1 \in 1 .. Len(p) - 1
        BY <1>2, <2>3, BeforeLast
      <3>2. p[1] \in DOMAIN h
        BY <1>2, <3>1 DEF Follows
      <3> QED
        BY <1>1, <2>1, <3>2, HeapFacts
    <2> QED
      BY <2>2, <2>3
  <1>4. r2 = r
    BY <1>3 DEF Grown
  <1>5. ASSUME NEW i \in 1 .. Len(p) - 1
        PROVE  p[i] \in DOMAIN h2 /\ p[i] # q /\ p[i + 1] = Towards(h2, p[i], q)
    <2> DEFINE x == p[i]
    <2>1. x \in DOMAIN h /\ x \in Name /\ x # q /\ p[i + 1] = Towards(h, x, q)
      BY <1>1, <1>2, FollowsStep
    <2>2. p[i + 1] # Nil
      <3>1. CASE i + 1 = Len(p)
        BY <1>2, <3>1 DEF Name
      <3>2. CASE i + 1 # Len(p)
        <4>1. i + 1 \in 1 .. Len(p) - 1
          BY <1>2, <3>2
        <4>2. p[i + 1] \in DOMAIN h
          BY <1>2, <4>1 DEF Follows
        <4> QED
          BY <1>1, <4>2, HeapFacts
      <3> QED
        BY <3>1, <3>2
    <2>3. x \in R /\ x \notin Fresh(path, key)
      <3>1. i \in 1 .. Len(p) /\ p[i] # Nil
        BY <1>2, <2>1 DEF Name
      <3>2. x \in R
        BY <1>1, <1>2, <3>1, AlongTrails
      <3> QED
        BY <3>2, FreshIsNew
    <2> HIDE DEF x
    <2>4. Towards(h2, x, q) = Towards(h, x, q)
      <3>1. CASE x # path[Len(path) - 1]
        <4>1. SameLinks(h2[x], h[x])
          BY <2>1, <2>3, <3>1 DEF Grown
        <4> QED
          BY <4>1 DEF SameLinks, Towards
      <3>2. CASE x = path[Len(path) - 1]
        <4>1. Towards(h, x, key) = Nil
          BY <1>3, <3>2, HookFacts
        <4>2. Side(x, q) # Side(x, key)
          <5>1. Side(x, q) = Side(x, key) => Towards(h, x, q) = Towards(h, x, key)
            BY DEF Side, Towards
          <5> QED
            BY <2>1, <2>2, <4>1, <5>1
        <4> QED
          BY <1>3, <2>3, <3>2, <4>2, GrownHook
      <3> QED
        BY <3>1, <3>2
    <2> QED
      BY <1>1, <2>1, <2>4 DEF x
  <1>6. Follows(h2, r2, q, p)
    <2>1. p \in Seq(Pointer) /\ Len(p) >= 1 /\ p[1] = r2
      BY <1>2, <1>4 DEF Follows
    <2> QED
      BY <1>5, <2>1 DEF Follows
  <1> QED
    BY <1>2, <1>3, <1>4, <1>6 DEF Leads, p

\* The way to a new node: the search for key, then the new names.
NewTrail(path, key, q) ==
    [i \in 1 .. Len(path) + Len(q) - From(path, key) |->
        IF i < Len(path) THEN path[i] ELSE Prefix(key, From(path, key) + i - Len(path))]

LEMMA NewTrailType ==
    ASSUME NEW h, NEW r, NEW key, NEW path, Ends(h, r, key, path), NEW q \in Fresh(path, key)
    PROVE  LET p == NewTrail(path, key, q)
               n == Len(path)
               a == From(path, key)
           IN  /\ p \in Seq(Pointer) /\ Len(p) = n + Len(q) - a /\ Len(p) >= n
               /\ n \in Nat \ {0} /\ a \in Nat \ {0} /\ Len(q) \in Nat /\ a <= Len(q) /\ Len(q) <= Len(key)
               /\ Len(key) \in Nat
               /\ \A i \in 1 .. Len(p) :
                     p[i] = IF i < n THEN path[i] ELSE Prefix(key, a + i - n)
               /\ p[Len(p)] = q
  <1> DEFINE p == NewTrail(path, key, q)
             n == Len(path)
             a == From(path, key)
             m == Len(q)
  <1>1. /\ n \in Nat \ {0} /\ a \in 1 .. Len(key) /\ Len(key) \in Nat /\ m \in a .. Len(key)
        /\ q = Prefix(key, m) /\ key \in Name /\ Follows(h, r, key, path)
    BY EndsFacts, FreshFacts
  <1>2. p = [i \in 1 .. n + m - a |-> IF i < n THEN path[i] ELSE Prefix(key, a + i - n)]
    BY DEF NewTrail
  <1> HIDE DEF p, n, a, m
  <1>3. n + m - a \in Nat /\ n + m - a >= n /\ a + (n + m - a) - n = m /\ n + m - a \in 1 .. n + m - a
    BY <1>1
  <1>4. p \in [1 .. n + m - a -> Pointer]
    <2>1. ASSUME NEW i \in 1 .. n + m - a PROVE p[i] \in Pointer
      <3>1. CASE i < n
        <4>1. i \in 1 .. n
          BY <1>1, <3>1
        <4>2. path[i] \in Pointer
          BY <1>1, <4>1, FollowsType DEF n
        <4> QED
          BY <1>2, <3>1, <4>2
      <3>2. CASE ~(i < n)
        <4>1. a + i - n \in 1 .. Len(key)
          BY <1>1, <3>2
        <4>2. Prefix(key, a + i - n) \in Pointer
          BY <1>1, <4>1, PrefixFacts DEF Name, Pointer
        <4> QED
          BY <1>2, <3>2, <4>2
      <3> QED
        BY <3>1, <3>2
    <2> QED
      BY <1>2, <2>1
  <1>5. p \in Seq(Pointer)
    BY <1>3, <1>4, SeqDef
  <1>6. Len(p) = n + m - a
    BY <1>3, <1>4, <1>5, LenProperties
  <1>7. \A i \in 1 .. Len(p) : p[i] = IF i < n THEN path[i] ELSE Prefix(key, a + i - n)
    BY <1>2, <1>6
  <1>8. p[Len(p)] = q
    BY <1>1, <1>3, <1>6, <1>7
  <1>9. a \in Nat \ {0} /\ a <= m /\ m <= Len(key) /\ m \in Nat
    BY <1>1
  <1> QED
    BY <1>1, <1>3, <1>5, <1>6, <1>7, <1>8, <1>9 DEF p, n, a, m

LEMMA GrownNewWay ==
    ASSUME NEW h, NEW r, NEW key, NEW path, Ends(h, r, key, path),
           NEW R, NEW trail, Tree(h, r, R, trail),
           NEW h2, NEW r2, Grown(h, r, key, path, h2, r2),
           NEW q \in Fresh(path, key)
    PROVE  Leads(h2, r2, q, NewTrail(path, key, q))
  <1> DEFINE p == NewTrail(path, key, q)
             n == Len(path)
             a == From(path, key)
             m == Len(q)
  <1>1. /\ Shaped(h, r) /\ h \in Heap /\ key \in Name /\ Follows(h, r, key, path)
        /\ DOMAIN h2 = DOMAIN h \cup Fresh(path, key) /\ path[n] = Nil
        /\ n = 1 <=> r = Nil
    BY EndsFacts DEF Grown
  <1>2. /\ p \in Seq(Pointer) /\ Len(p) = n + m - a /\ Len(p) >= n
        /\ n \in Nat \ {0} /\ a \in Nat \ {0} /\ m \in Nat /\ a <= m /\ m <= Len(key) /\ Len(key) \in Nat
        /\ \A i \in 1 .. Len(p) : p[i] = IF i < n THEN path[i] ELSE Prefix(key, a + i - n)
        /\ p[Len(p)] = q
    BY NewTrailType
  <1>3. q \in Name /\ \A i \in 1 .. m : q[i] = key[i]
    BY FreshFacts
  <1> HIDE DEF p, n, a, m
  <1>4. p[1] = r2
    <2>1. 1 \in 1 .. Len(p)
      BY <1>2
    <2>2. CASE r = Nil
      <3>1. a = 1 /\ n = 1
        BY <1>1, <2>2 DEF From, a, n
      <3>2. p[1] = Prefix(key, 1)
        BY <1>2, <2>1, <3>1
      <3> QED
        BY <2>2, <3>1, <3>2 DEF Grown, a
    <2>3. CASE r # Nil
      <3>1. 1 < n
        BY <1>1, <1>2, <2>3
      <3>2. p[1] = path[1] /\ path[1] = r /\ r2 = r
        BY <1>1, <1>2, <2>1, <2>3, <3>1 DEF Follows, Grown
      <3> QED
        BY <3>2
    <2> QED
      BY <2>2, <2>3
  <1>5. ASSUME NEW i \in 1 .. Len(p) - 1
        PROVE  p[i] \in DOMAIN h2 /\ p[i] # q /\ p[i + 1] = Towards(h2, p[i], q)
    <2>1. i \in 1 .. Len(p) /\ i + 1 \in 1 .. Len(p) /\ i \in Nat
      BY <1>2
    <2>2. CASE i < n
      <3> DEFINE x == path[i]
      <3>1. i \in 1 .. n - 1 /\ p[i] = x
        BY <1>2, <2>1, <2>2
      <3>2. x \in DOMAIN h /\ x \in Name /\ Near(x, key) /\ path[i + 1] = Towards(h, x, key)
        BY <1>1, <3>1, FollowsStep DEF n
      <3>3. x \in R /\ x \notin Fresh(path, key)
        <4>1. i \in 1 .. n
          BY <1>2, <3>1
        <4>2. x \in R
          BY <1>1, <3>2, <4>1, AlongTrails DEF n, Name
        <4> QED
          BY <4>2, FreshIsNew
      <3>4. r # Nil
        BY <1>1, <1>2, <3>1
      <3> DEFINE hook == path[n - 1]
      <3>5. /\ hook \in Name /\ Len(hook) \in Nat \ {0} /\ Len(hook) <= a /\ Towards(h, hook, key) = Nil
            /\ n - 1 \in 1 .. n - 1
        BY <3>4, HookFacts DEF n, a
      <3>6. Len(x) \in 1 .. m
        <4>1. i \in 1 .. n /\ n - 1 \in i .. n
          BY <1>2, <3>1
        <4>2. Len(x) <= Len(hook)
          BY <1>1, <3>5, <4>1, FollowsGrows DEF n, Name
        <4>3. Len(x) \in Nat \ {0}
          BY <3>2, NameFacts
        <4> HIDE DEF x, hook
        <4> QED
          BY <1>2, <3>5, <4>2, <4>3
      <3>7. q[Len(x)] = key[Len(x)]
        BY <1>3, <3>6
      <3>8. Towards(h2, x, q) = Towards(h2, x, key) /\ Side(x, q) = Side(x, key)
        BY <3>7 DEF Towards, Side
      <3> HIDE DEF x
      <3>9. CASE i = n - 1
        <4>1. x = hook
          BY <3>9 DEF x
        <4>2. Towards(h2, hook, key) = Prefix(key, a)
          BY <3>3, <3>4, <4>1, GrownHook DEF n, a
        <4>3. p[i + 1] = Prefix(key, a)
          <5>1. ~(i + 1 < n) /\ a + (i + 1) - n = a
            BY <1>2, <3>9
          <5> QED
            BY <1>2, <2>1, <5>1
        <4> QED
          BY <1>1, <3>1, <3>2, <3>3, <3>8, <4>1, <4>2, <4>3
      <3>10. CASE i # n - 1
        <4>1. i + 1 < n /\ i + 1 \in 1 .. n - 1
          BY <1>2, <3>1, <3>10
        <4>2. path[i + 1] # Nil
          <5>1. path[i + 1] \in DOMAIN h
            BY <1>1, <4>1 DEF Follows, n
          <5> QED
            BY <1>1, <5>1, HeapFacts
        <4>3. x # hook
          BY <3>2, <3>5, <4>2
        <4>4. SameLinks(h2[x], h[x])
          BY <3>2, <3>3, <4>3 DEF Grown, n
        <4>5. Towards(h2, x, key) = Towards(h, x, key)
          BY <4>4 DEF SameLinks, Towards
        <4>6. p[i + 1] = path[i + 1]
          BY <1>2, <2>1, <4>1
        <4> QED
          BY <1>1, <3>1, <3>2, <3>3, <3>8, <4>5, <4>6
      <3> QED
        BY <3>9, <3>10
    <2>3. CASE ~(i < n)
      <3> DEFINE k == a + i - n
      <3>1. k \in a .. Len(key) /\ k < m /\ k \in 1 .. Len(key) /\ k \in 1 .. m /\ k # Len(key)
        <4>1. /\ n \in Nat /\ a \in Nat \ {0} /\ m \in Nat /\ a <= m /\ m <= Len(key) /\ Len(key) \in Nat
              /\ i \in Nat /\ n <= i /\ i < n + m - a
          BY <1>2, <2>1, <2>3
        <4>2. k \in Nat /\ a <= k /\ k < m
          BY <4>1
        <4> HIDE DEF k
        <4> QED
          BY <4>1, <4>2
      <3>2. p[i] = Prefix(key, k) /\ p[i + 1] = Prefix(key, k + 1)
        <4>1. ~(i + 1 < n) /\ a + (i + 1) - n = k + 1
          BY <1>2, <2>1, <2>3
        <4> QED
          BY <1>2, <2>1, <2>3, <4>1
      <3> HIDE DEF k
      <3>3. Len(p[i]) = k /\ Last(p[i]) = key[k] /\ key[k] \in Nat
        BY <1>1, <3>1, <3>2, PrefixFacts
      <3>4. p[i] \in Fresh(path, key)
        BY <3>1, <3>2 DEF Fresh, a
      <3>5. h2[p[i]].equal = Prefix(key, k + 1)
        BY <3>1, <3>2 DEF Grown, a
      <3>6. Towards(h2, p[i], q) = h2[p[i]].equal
        <4>1. q[k] = key[k]
          BY <1>3, <3>1
        <4> QED
          BY <3>3, <4>1 DEF Towards
      <3>7. p[i] # q
        BY <1>2, <3>1, <3>3 DEF m
      <3> QED
        BY <1>1, <3>2, <3>4, <3>5, <3>6, <3>7
    <2> QED
      BY <2>2, <2>3
  <1>6. Follows(h2, r2, q, p)
    <2>1. Len(p) >= 1
      BY <1>2
    <2> QED
      BY <1>2, <1>4, <1>5, <2>1 DEF Follows
  <1> QED
    BY <1>2, <1>6 DEF Leads, p

\* One name more, one step more.
LEMMA NewTrailGrows ==
    ASSUME NEW h, NEW r, NEW key, NEW path, Ends(h, r, key, path),
           NEW k \in From(path, key) .. Len(key), k # Len(key)
    PROVE  NewTrail(path, key, Prefix(key, k + 1))
              = Append(NewTrail(path, key, Prefix(key, k)), Prefix(key, k + 1))
  <1> DEFINE q == Prefix(key, k)
             x == Prefix(key, k + 1)
             s == NewTrail(path, key, q)
             t == NewTrail(path, key, x)
             n == Len(path)
             a == From(path, key)
             longer == Append(s, x)
  <1>1. a \in 1 .. Len(key) /\ Len(key) \in Nat /\ key \in Name /\ n \in Nat \ {0}
    BY EndsFacts
  <1>2. k \in 1 .. Len(key) /\ k + 1 \in 1 .. Len(key) /\ k + 1 \in a .. Len(key) /\ k \in a .. Len(key)
    BY <1>1
  <1>3. q \in Fresh(path, key) /\ x \in Fresh(path, key)
    BY <1>2 DEF Fresh
  <1>4. Len(q) = k /\ Len(x) = k + 1 /\ x \in Pointer
    <2>1. Len(q) = k
      BY <1>1, <1>2, PrefixFacts
    <2>2. Len(x) = k + 1 /\ x \in Name
      BY <1>1, <1>2, PrefixFacts
    <2> QED
      BY <2>1, <2>2 DEF Name, Pointer
  <1>5. /\ s \in Seq(Pointer) /\ Len(s) = n + k - a
        /\ \A i \in 1 .. Len(s) : s[i] = IF i < n THEN path[i] ELSE Prefix(key, a + i - n)
    BY <1>3, <1>4, NewTrailType
  <1>6. /\ t \in Seq(Pointer) /\ Len(t) = n + (k + 1) - a
        /\ \A i \in 1 .. Len(t) : t[i] = IF i < n THEN path[i] ELSE Prefix(key, a + i - n)
    BY <1>3, <1>4, NewTrailType
  <1> HIDE DEF s, t, n, a
  <1>7. /\ longer \in Seq(Pointer) /\ Len(longer) = Len(s) + 1 /\ longer[Len(s) + 1] = x
        /\ \A i \in 1 .. Len(s) : longer[i] = s[i]
    BY <1>4, <1>5, AppendProperties
  <1> HIDE DEF longer
  <1>8. Len(longer) = Len(t)
    BY <1>1, <1>2, <1>5, <1>6, <1>7
  <1>9. ASSUME NEW i \in 1 .. Len(t) PROVE t[i] = longer[i]
    <2>1. CASE i = Len(s) + 1
      <3>1. ~(i < n) /\ a + i - n = k + 1
        BY <1>1, <1>2, <1>5, <2>1
      <3> QED
        BY <1>6, <1>7, <2>1, <3>1
    <2>2. CASE i # Len(s) + 1
      <3>1. i \in 1 .. Len(s)
        BY <1>1, <1>2, <1>5, <1>6, <2>2
      <3> QED
        BY <1>5, <1>6, <1>7, <3>1
    <2> QED
      BY <2>1, <2>2
  <1>10. t = longer
    BY <1>6, <1>7, <1>8, <1>9, SeqEqual
  <1> QED
    BY <1>10 DEF t, longer, s

LEMMA NewTrailStarts ==
    ASSUME NEW h, NEW r, NEW key, NEW path, Ends(h, r, key, path),
           NEW R, NEW trail, Tree(h, r, R, trail)
    PROVE  LET first == Prefix(key, From(path, key))
           IN  NewTrail(path, key, first)
                  = IF r = Nil THEN <<first>> ELSE Append(trail[path[Len(path) - 1]], first)
  <1> DEFINE n == Len(path)
             a == From(path, key)
             first == Prefix(key, a)
             t == NewTrail(path, key, first)
  <1>1. /\ a \in 1 .. Len(key) /\ Len(key) \in Nat /\ key \in Name /\ n \in Nat \ {0}
        /\ Shaped(h, r) /\ Follows(h, r, key, path)
        /\ n = 1 <=> r = Nil
    BY EndsFacts
  <1>2. first \in Fresh(path, key) /\ first \in Name /\ Len(first) = a
    <2>1. a \in a .. Len(key)
      BY <1>1
    <2> QED
      BY <1>1, <2>1, PrefixFacts DEF Fresh
  <1>3. /\ t \in Seq(Pointer) /\ Len(t) = n
        /\ \A i \in 1 .. n : t[i] = IF i < n THEN path[i] ELSE Prefix(key, a + i - n)
    <2>1. /\ t \in Seq(Pointer) /\ Len(t) = n + a - a
          /\ \A i \in 1 .. Len(t) : t[i] = IF i < n THEN path[i] ELSE Prefix(key, a + i - n)
      BY <1>2, NewTrailType
    <2>2. n + a - a = n
      BY <1>1
    <2> QED
      BY <2>1, <2>2
  <1>4. t[n] = first
    <2>1. n \in 1 .. n /\ ~(n < n) /\ a + n - n = a
      BY <1>1
    <2> QED
      BY <1>3, <2>1
  <1> HIDE DEF t, n, first
  <1>5. CASE r = Nil
    <2>1. <<first>> \in Seq(Pointer) /\ Len(<<first>>) = 1 /\ <<first>>[1] = first
      BY <1>2 DEF Name, Pointer
    <2>2. \A i \in 1 .. 1 : t[i] = <<first>>[i]
      BY <1>1, <1>4, <1>5, <2>1
    <2> DEFINE one == <<first>>
    <2>3. one \in Seq(Pointer) /\ Len(one) = 1 /\ \A i \in 1 .. 1 : t[i] = one[i]
      BY <2>1, <2>2
    <2> HIDE DEF one
    <2>4. t = one
      BY <1>1, <1>3, <1>5, <2>3, SeqEqual
    <2> QED
      BY <1>5, <2>4 DEF one, t, first
  <1>6. CASE r # Nil
    <2> DEFINE hook == path[n - 1]
               s == trail[hook]
               longer == Append(s, first)
    <2>1. n - 1 \in 1 .. n /\ n - 1 \in Nat /\ hook # Nil
      <3>1. n - 1 \in 1 .. n - 1 /\ hook # Nil
        BY <1>6, HookFacts DEF n, Name
      <3> QED
        BY <1>1, <3>1
    <2>2. hook \in R /\ Len(s) = n - 1 /\ \A j \in 1 .. n - 1 : s[j] = path[j]
      BY <1>1, <2>1, AlongTrails DEF n
    <2>3. s \in Seq(Pointer)
      BY <2>2, TrailFacts
    <2> HIDE DEF s, hook
    <2>4. /\ longer \in Seq(Pointer) /\ Len(longer) = (n - 1) + 1 /\ longer[(n - 1) + 1] = first
          /\ \A i \in 1 .. n - 1 : longer[i] = s[i]
      BY <1>2, <2>2, <2>3, AppendProperties DEF Name, Pointer
    <2> HIDE DEF longer
    <2>5. ASSUME NEW i \in 1 .. n PROVE t[i] = longer[i]
      <3>1. CASE i = n
        BY <1>1, <1>4, <2>4, <3>1
      <3>2. CASE i # n
        <4>1. i \in 1 .. n - 1 /\ i < n
          BY <1>1, <3>2
        <4> QED
          BY <1>3, <2>2, <2>4, <4>1
      <3> QED
        BY <3>1, <3>2
    <2>6. t = longer
      BY <1>1, <1>3, <2>4, <2>5, SeqEqual
    <2> QED
      BY <1>6, <2>6 DEF longer, s, hook, t, n, first
  <1> QED
    BY <1>5, <1>6

LEMMA GrownTree ==
    ASSUME NEW h, NEW r, NEW key, NEW path, Ends(h, r, key, path),
           NEW R, NEW trail, Tree(h, r, R, trail),
           NEW h2, NEW r2, Grown(h, r, key, path, h2, r2)
    PROVE  \E trail2 : Tree(h2, r2, R \cup Fresh(path, key), trail2)
  <1> DEFINE F == Fresh(path, key)
             a == From(path, key)
             first == Prefix(key, a)
             trail2 == [q \in R \cup F |-> IF q \in F THEN NewTrail(path, key, q) ELSE trail[q]]
  <1>1. R \cap F = {} /\ R \subseteq Name /\ F \subseteq Name /\ DOMAIN h2 = DOMAIN h \cup F
    <2>1. R \cap F = {}
      BY FreshIsNew
    <2>2. F \subseteq Name
      BY FreshFacts
    <2> QED
      BY <2>1, <2>2 DEF Tree, Grown
  <1>2. \A q \in F : trail2[q] = NewTrail(path, key, q)
    OBVIOUS
  <1>3. \A q \in R : trail2[q] = trail[q]
    BY <1>1
  <1>4. a \in a .. Len(key) /\ first \in F
    <2>1. a \in a .. Len(key)
      BY EndsFacts
    <2> QED
      BY <2>1 DEF Fresh
  <1> HIDE DEF F, trail2, first
  <1>5. r2 = Nil \/ (r2 \in R \cup F /\ trail2[r2] = <<r2>>)
    <2>1. CASE r = Nil
      <3>1. r2 = first /\ NewTrail(path, key, first) = <<first>>
        BY <2>1, NewTrailStarts DEF Grown, first
      <3> QED
        BY <1>2, <1>4, <3>1
    <2>2. CASE r # Nil
      BY <1>3, <2>2 DEF Grown, Tree
    <2> QED
      BY <2>1, <2>2
  <1>6. ASSUME NEW q \in R \cup F PROVE Leads(h2, r2, q, trail2[q])
    <2>1. CASE q \in F
      BY <1>2, <2>1, GrownNewWay DEF F
    <2>2. CASE q \in R
      BY <1>3, <2>2, GrownKeepsWay
    <2> QED
      BY <2>1, <2>2
  <1>7. ASSUME NEW q \in (R \cup F) \cap DOMAIN h2, NEW x \in Kids(h2, q)
        PROVE  x \in R \cup F /\ trail2[x] = Append(trail2[q], x)
    <2>1. CASE q \in F
      <3>1. PICK k \in a .. Len(key) : q = Prefix(key, k)
        BY <2>1 DEF F, Fresh
      <3>2. k # Len(key) /\ x = Prefix(key, k + 1)
        BY <3>1 DEF Grown, Kids
      <3>3. x \in F
        <4>1. k + 1 \in a .. Len(key)
          BY <3>2, EndsFacts
        <4> QED
          BY <3>2, <4>1 DEF F, Fresh
      <3>4. NewTrail(path, key, x) = Append(NewTrail(path, key, q), x)
        BY <3>1, <3>2, NewTrailGrows
      <3> QED
        BY <1>2, <2>1, <3>3, <3>4
    <2>2. CASE q \in R /\ x \in Kids(h, q)
      <3>1. q \in DOMAIN h
        BY <1>1, <2>2
      <3>2. x \in R /\ trail[x] = Append(trail[q], x)
        BY <2>2, <3>1 DEF Tree
      <3> QED
        BY <1>3, <2>2, <3>2
    <2>3. CASE q \in R /\ x \notin Kids(h, q)
      <3>1. q \in DOMAIN h \ F /\ r # Nil
        BY <1>1, <2>3, GrownKeepsWay
      <3>2. q = path[Len(path) - 1]
        <4> SUFFICES ASSUME q # path[Len(path) - 1] PROVE FALSE
          OBVIOUS
        <4>1. SameLinks(h2[q], h[q])
          BY <3>1 DEF Grown, F
        <4> QED
          BY <2>3, <4>1 DEF SameLinks, Kids
      <3>3. /\ h2[q].low = IF Side(q, key) = "low" THEN first ELSE h[q].low
            /\ h2[q].high = IF Side(q, key) = "high" THEN first ELSE h[q].high
            /\ h2[q].equal = IF Side(q, key) = "equal" THEN first ELSE h[q].equal
        BY <3>1, <3>2, GrownHook DEF F, first
      <3>4. x = first
        BY <2>3, <3>3 DEF Kids
      <3>5. NewTrail(path, key, first) = Append(trail[q], first)
        BY <3>1, <3>2, NewTrailStarts DEF first
      <3> QED
        BY <1>2, <1>3, <1>4, <2>3, <3>4, <3>5
    <2> QED
      BY <2>1, <2>2, <2>3
  <1>8. Tree(h2, r2, R \cup F, trail2)
    BY <1>1, <1>5, <1>6, <1>7 DEF Tree
  <1> QED
    BY <1>8 DEF F

-----------------------------------------------------------------------------
(* Stats *)

\* A Stats that is there.
LiveStats == StatsType \ {NoStats}

LEMMA StatsIsLive ==
    ASSUME NEW s \in Int, NEW n \in Int
    PROVE  Stats(s, n) \in LiveStats
  <1>1. n % CountWrap \in 0 .. CountWrap - 1
    BY CountAssumption
  <1>2. 0 .. CountWrap - 1 \subseteq -1 .. CountWrap - 1
    BY CountAssumption
  <1>3. n % CountWrap # -1
    BY <1>1
  <1> DEFINE m == n % CountWrap
  <1> HIDE DEF m
  <1>4. [sum |-> s, n |-> m] # [sum |-> 0, n |-> -1]
    <2>1. [sum |-> s, n |-> m].n = m /\ [sum |-> 0, n |-> -1].n = -1
      OBVIOUS
    <2> QED
      BY <1>3, <2>1 DEF m
  <1> QED
    BY <1>1, <1>2, <1>4 DEF Stats, LiveStats, StatsType, NoStats, m

LEMMA LiveStatsFacts ==
    ASSUME NEW st \in StatsType
    PROVE  st.sum \in Int /\ st.n \in Int /\ Mean(st) \in Int
  <1>1. st.sum \in Int /\ st.n \in Int
    BY CountAssumption DEF StatsType
  <1>2. ASSUME st.n > 0 PROVE st.sum \div st.n \in Int
    <2> DEFINE a == st.sum
               b == st.n
    <2>1. a \in Int /\ b \in Int /\ b > 0
      BY <1>1, <1>2
    <2> HIDE DEF a, b
    <2>2. a \div b \in Int
      BY <2>1
    <2> QED
      BY <2>2 DEF a, b
  <1> QED
    BY <1>1, <1>2 DEF Mean

LEMMA SampledIsLive ==
    ASSUME NEW st \in LiveStats, NEW s \in Samplings
    PROVE  Sampled(st, s) \in LiveStats
  <1> DEFINE N == Len(s)
             Step(f) == [i \in 0 .. N |-> IF i = 0 THEN st ELSE Stats_sample(f[i - 1], s[i])]
             g == CHOOSE f : f = Step(f)
             G == [x \in (1 .. N) \X LiveStats |-> Stats_sample(x[2], s[x[1]])]
  <1>1. N \in Nat /\ \A i \in 1 .. N : s[i] \in Int
    BY SamplingsAssumption, LenProperties, ElementOfSeq
  <1> HIDE DEF N
  <1>2. ASSUME NEW i \in 1 .. N, NEW x \in LiveStats PROVE Stats_sample(x, s[i]) \in LiveStats
    <2>1. x.sum \in Int /\ x.n \in Int
      BY LiveStatsFacts DEF LiveStats
    <2>2. x.sum + s[i] \in Int /\ x.n + 1 \in Int
      BY <1>1, <2>1
    <2> QED
      BY <2>2, StatsIsLive DEF Stats_sample
  <1>3. G \in [(1 .. N) \X LiveStats -> LiveStats]
    BY <1>2
  <1>4. \A i \in 1 .. N, x \in LiveStats : G[<<i, x>>] = Stats_sample(x, s[i])
    OBVIOUS
  <1> HIDE DEF G
  <1>5. PICK f \in [0 .. N -> LiveStats] : Iterates(f, N, st, G)
    BY <1>1, <1>3, IteratesSome
  <1>6. f = Step(f)
    <2>1. ASSUME NEW i \in 0 .. N PROVE f[i] = Step(f)[i]
      <3>1. i # 0 => i \in 1 .. N /\ f[i - 1] \in LiveStats
        BY <1>1, <1>5
      <3> QED
        BY <1>4, <1>5, <3>1 DEF Iterates
    <2> QED
      BY <2>1
  <1>7. \A i \in 0 .. N : g[i] = IF i = 0 THEN st ELSE Stats_sample(g[i - 1], s[i])
    <2>1. g = Step(g)
      BY <1>6
    <2> HIDE DEF g
    <2> QED
      BY <2>1
  <1>8. Sampled(st, s) = g[N]
    BY DEF Sampled, N
  <1> HIDE DEF g
  <1> DEFINE T == {i \in Nat : i <= N => g[i] \in LiveStats}
  <1>9. 0 \in T
    <2>1. 0 \in 0 .. N
      BY <1>1
    <2>2. g[0] = st
      BY <1>7, <2>1
    <2> QED
      BY <2>2
  <1>10. ASSUME NEW n \in T PROVE n + 1 \in T
    <2>1. n \in Nat /\ (n + 1 <= N => n + 1 \in 0 .. N /\ n + 1 \in 1 .. N /\ (n + 1) - 1 = n /\ g[n] \in LiveStats)
      BY <1>1, <1>10
    <2>2. n + 1 <= N => g[n + 1] = Stats_sample(g[n], s[n + 1])
      <3>1. n + 1 # 0
        BY <2>1
      <3> QED
        BY <1>7, <2>1, <3>1
    <2> QED
      BY <1>2, <2>1, <2>2
  <1>11. T = Nat
    BY <1>9, <1>10, ByInduction
  <1>12. N \in T
    <2> HIDE DEF T
    <2> QED
      BY <1>1, <1>11
  <1> QED
    BY <1>1, <1>8, <1>12

\* h2 is h with other statistics.
Restated(h, h2) ==
    /\ h2 \in Heap /\ DOMAIN h2 = DOMAIN h
    /\ \A q \in DOMAIN h : /\ SameLinks(h2[q], h[q]) /\ h2[q].value = h[q].value
                           /\ h2[q].stat = h[q].stat \/ h2[q].stat \in LiveStats

WithStats(h, S, f) == [q \in DOMAIN h |-> IF q \in S THEN [h[q] EXCEPT !.stat = f[q]] ELSE h[q]]

LEMMA SomeRestated ==
    ASSUME NEW h \in Heap, NEW S, NEW f, \A q \in S \cap DOMAIN h : f[q] \in LiveStats
    PROVE  Restated(h, WithStats(h, S, f))
  <1> DEFINE h2 == [q \in DOMAIN h |-> IF q \in S THEN [h[q] EXCEPT !.stat = f[q]] ELSE h[q]]
  <1>1. ASSUME NEW q \in DOMAIN h
        PROVE  /\ h2[q] \in NodeType /\ SameLinks(h2[q], h[q]) /\ h2[q].value = h[q].value
               /\ h2[q].stat = h[q].stat \/ h2[q].stat \in LiveStats
    <2>1. h[q] \in NodeType
      BY HeapFacts
    <2>2. CASE q \in S
      <3>1. f[q] \in LiveStats /\ h2[q] = [h[q] EXCEPT !.stat = f[q]]
        BY <2>2
      <3> QED
        BY <2>1, <3>1 DEF NodeType, LiveStats, SameLinks
    <2>3. CASE q \notin S
      BY <2>1, <2>3 DEF SameLinks
    <2> QED
      BY <2>2, <2>3
  <1>2. DOMAIN h \subseteq Name
    BY HeapFacts
  <1>3. h2 \in Heap
    <2>1. h2 \in [DOMAIN h -> NodeType]
      BY <1>1
    <2> QED
      BY <1>2, <2>1 DEF Heap
  <1> QED
    BY <1>1, <1>3 DEF Restated, WithStats

LEMMA TracedRestates ==
    ASSUME NEW h \in Heap, NEW list \in Seq(DOMAIN h), NEW new \in LiveStats
    PROVE  Restated(h, Traced(h, list, new))
  <1> DEFINE k == Len(list)
             Old(i) == h[list[i]].stat
             New(j, x) == Stats(Old(k - j).sum - Mean(Old(k - j + 1)) + Mean(x), Old(k - j).n)
             Step(f) == [j \in 0 .. k - 1 |-> IF j = 0 THEN new ELSE New(j, f[j - 1])]
             t == CHOOSE f : f = Step(f)
             G == [x \in (1 .. k - 1) \X LiveStats |-> New(x[1], x[2])]
  <1>1. k \in Nat /\ \A i \in 1 .. k : list[i] \in DOMAIN h
    BY LenProperties, ElementOfSeq
  <1>2. \A i \in 1 .. k : Old(i) \in StatsType
    BY <1>1, HeapFacts DEF NodeType
  <1> DEFINE S == {q \in DOMAIN h : \E i \in 1 .. k : list[i] = q}
             f2 == [q \in DOMAIN h |-> t[k - CHOOSE i \in 1 .. k : list[i] = q]]
  <1>3. Traced(h, list, new) = WithStats(h, S, f2)
    BY DEF Traced, WithStats
  <1> HIDE DEF k, Old
  <1>4. ASSUME NEW j \in 1 .. k - 1, NEW x \in LiveStats PROVE New(j, x) \in LiveStats
    <2>1. k - j \in 1 .. k /\ k - j + 1 \in 1 .. k
      BY <1>1
    <2>2. Old(k - j).sum \in Int /\ Old(k - j).n \in Int
      BY <1>2, <2>1, LiveStatsFacts
    <2>3. Mean(Old(k - j + 1)) \in Int
      BY <1>2, <2>1, LiveStatsFacts
    <2>4. Mean(x) \in Int
      BY LiveStatsFacts DEF LiveStats
    <2>5. Old(k - j).sum - Mean(Old(k - j + 1)) + Mean(x) \in Int
      BY <2>2, <2>3, <2>4
    <2> QED
      BY <2>2, <2>5, StatsIsLive
  <1> HIDE DEF New
  <1>5. G \in [(1 .. k - 1) \X LiveStats -> LiveStats]
    BY <1>4
  <1>6. \A j \in 1 .. k - 1, x \in LiveStats : G[<<j, x>>] = New(j, x)
    OBVIOUS
  <1> HIDE DEF G, t
  <1>7. ASSUME k # 0 PROVE \A j \in 0 .. k - 1 : t[j] \in LiveStats
    <2> DEFINE N == k - 1
    <2>1. N \in Nat
      BY <1>1, <1>7
    <2>2. PICK f \in [0 .. N -> LiveStats] : Iterates(f, N, new, G)
      <3>1. G \in [(1 .. N) \X LiveStats -> LiveStats]
        BY <1>5
      <3> HIDE DEF N
      <3> QED
        BY <2>1, <3>1, IteratesSome
    <2>3. f = Step(f)
      <3>1. ASSUME NEW i \in 0 .. N PROVE f[i] = Step(f)[i]
        <4>1. i # 0 => i \in 1 .. N /\ f[i - 1] \in LiveStats
          BY <2>1, <2>2
        <4> QED
          BY <1>6, <2>2, <4>1 DEF Iterates
      <3> QED
        BY <3>1
    <2>4. t = Step(t)
      BY <2>3 DEF t
    <2>5. \A j \in 0 .. N : t[j] = IF j = 0 THEN new ELSE New(j, t[j - 1])
      BY <2>4
    <2> HIDE DEF N
    <2> DEFINE T == {i \in Nat : i <= N => t[i] \in LiveStats}
    <2>6. 0 \in T
      <3>1. 0 \in 0 .. N
        BY <2>1
      <3> QED
        BY <2>5, <3>1
    <2>7. ASSUME NEW n \in T PROVE n + 1 \in T
      <3>1. n \in Nat /\ (n + 1 <= N => n + 1 \in 0 .. N /\ n + 1 \in 1 .. k - 1 /\ (n + 1) - 1 = n /\ t[n] \in LiveStats)
        BY <2>1, <2>7 DEF N
      <3>2. n + 1 <= N => t[n + 1] = New(n + 1, t[n])
        BY <2>5, <3>1
      <3> QED
        BY <1>4, <3>1, <3>2
    <2>8. T = Nat
      BY <2>6, <2>7, ByInduction
    <2>9. \A j \in 0 .. N : j \in T /\ j <= N
      <3> HIDE DEF T
      <3> QED
        BY <2>1, <2>8
    <2> QED
      BY <2>9 DEF N
  <1>8. \A q \in S : f2[q] \in LiveStats
    <2> SUFFICES ASSUME NEW q \in S PROVE f2[q] \in LiveStats
      OBVIOUS
    <2> DEFINE c == CHOOSE i \in 1 .. k : list[i] = q
    <2>1. c \in 1 .. k
      OBVIOUS
    <2>2. f2[q] = t[k - c]
      OBVIOUS
    <2> HIDE DEF c, S, f2
    <2>3. k - c \in 0 .. k - 1 /\ k # 0
      BY <1>1, <2>1
    <2> QED
      BY <1>7, <2>2, <2>3
  <1> HIDE DEF S, f2
  <1> QED
    BY <1>3, <1>8, SomeRestated

LEMMA LessOneRestates ==
    ASSUME NEW h \in Heap, NEW list \in Seq(DOMAIN h)
    PROVE  Restated(h, LessOne(h, list))
  <1>1. Len(list) \in Nat /\ \A i \in 1 .. Len(list) : list[i] \in DOMAIN h
    BY LenProperties, ElementOfSeq
  <1>2. CASE Len(list) < 2
    BY <1>2 DEF LessOne, Restated, SameLinks
  <1>3. CASE ~(Len(list) < 2)
    <2> DEFINE q == list[Len(list) - 1]
               less == Stats(h[q].stat.sum, h[q].stat.n - 1)
               f == [y \in {q} |-> less]
    <2>1. q \in DOMAIN h
      <3>1. Len(list) - 1 \in 1 .. Len(list)
        BY <1>1, <1>3
      <3> QED
        BY <1>1, <3>1
    <2>2. h[q].stat \in StatsType
      BY <2>1, HeapFacts DEF NodeType
    <2>3. h[q].stat.sum \in Int /\ h[q].stat.n - 1 \in Int
      BY <2>2, LiveStatsFacts
    <2>4. less \in LiveStats
      BY <2>3, StatsIsLive
    <2>5. LessOne(h, list) = WithStats(h, {q}, f)
      <3>1. LessOne(h, list) = [h EXCEPT ![q].stat = less]
        BY <1>3 DEF LessOne
      <3> HIDE DEF less, q
      <3> QED
        BY <3>1 DEF Heap, WithStats
    <2>6. \A x \in {q} \cap DOMAIN h : f[x] \in LiveStats
      BY <2>4
    <2> HIDE DEF less, q, f
    <2> QED
      BY <2>5, <2>6, SomeRestated
  <1> QED
    BY <1>2, <1>3

LEMMA RestatedTwice ==
    ASSUME NEW h, NEW h2, NEW h3, Restated(h, h2), Restated(h2, h3)
    PROVE  Restated(h, h3)
  BY DEF Restated, SameLinks

-----------------------------------------------------------------------------
(* Insert *)

\* c is the nodes that count one more.
PlacedAll(h, path, key, c) ==
    [q \in DOMAIN h \cup Range(NewNodes(path, key)) |->
        IF q \in c THEN OneMore(Placed(h, path, key, q)) ELSE Placed(h, path, key, q)]

LEMMA InsertedIsPlaced ==
    ASSUME NEW h, NEW r, NEW key
    PROVE  IF Last(Walk(h, r, key)) = key /\ h[key].value THEN Inserted(h, r, key) = h
           ELSE \E c : Inserted(h, r, key) = PlacedAll(h, Walk(h, r, key), key, c)
  <1> DEFINE path == Walk(h, r, key)
             new == NewNodes(path, key)
             pushed == SelectSeq(path \o new, IsDelim)
             c == {pushed[i] : i \in {j \in DOMAIN pushed :
                                          j = Len(pushed) \/ pushed[j + 1] \in Range(new)}}
  <1>1. Last(path) = key /\ h[key].value => Inserted(h, r, key) = h
    BY DEF Inserted
  <1>2. ~(Last(path) = key /\ h[key].value) => Inserted(h, r, key) = PlacedAll(h, path, key, c)
    BY DEF Inserted, PlacedAll
  <1> HIDE DEF c
  <1> QED
    BY <1>1, <1>2

LEMMA OneMoreFacts ==
    ASSUME NEW node \in NodeType
    PROVE  /\ OneMore(node) \in NodeType /\ SameLinks(OneMore(node), node)
           /\ OneMore(node).value = node.value /\ OneMore(node).stat \in LiveStats
  <1>1. node.stat \in StatsType
    BY DEF NodeType
  <1>2. node.stat.sum \in Int /\ node.stat.n + 1 \in Int
    BY <1>1, LiveStatsFacts
  <1> DEFINE st == Stats(node.stat.sum, node.stat.n + 1)
  <1>3. st \in LiveStats
    BY <1>2, StatsIsLive
  <1>4. OneMore(node) = [node EXCEPT !.stat = st]
    BY DEF OneMore
  <1> HIDE DEF st
  <1> QED
    BY <1>3, <1>4 DEF NodeType, LiveStats, SameLinks

LEMMA NewNodesFacts ==
    ASSUME NEW h, NEW r, NEW key, NEW path, Ends(h, r, key, path)
    PROVE  /\ Range(NewNodes(path, key)) = Fresh(path, key)
           /\ NewNodes(path, key) # <<>> /\ NewNodes(path, key)[1] = Prefix(key, From(path, key))
           /\ key \in Fresh(path, key) /\ Last(path) # key
  <1> DEFINE a == From(path, key)
             new == NewNodes(path, key)
             N == Len(key) - a + 1
  <1>1. a \in 1 .. Len(key) /\ Len(key) \in Nat \ {0} /\ key \in Name /\ Last(path) = Nil
    BY EndsFacts, FollowsType
  <1>2. Last(path) # key
    BY <1>1 DEF Name
  <1>3. new = [i \in 1 .. N |-> SubSeq(key, 1, a + i - 1)]
    BY <1>2 DEF NewNodes, From
  <1> HIDE DEF a, new
  <1>4. DOMAIN new = 1 .. N /\ \A i \in 1 .. N : new[i] = Prefix(key, a + i - 1)
    BY <1>3 DEF Prefix
  <1>5. Range(new) = {new[i] : i \in 1 .. N}
    BY <1>4 DEF Range
  <1>6. \A i \in 1 .. N : a + i - 1 \in a .. Len(key)
    BY <1>1
  <1>7. \A m \in a .. Len(key) : m - a + 1 \in 1 .. N /\ a + (m - a + 1) - 1 = m
    BY <1>1
  <1>8. Range(new) = Fresh(path, key)
    <2>1. Range(new) \subseteq Fresh(path, key)
      BY <1>4, <1>5, <1>6 DEF Fresh, a
    <2>2. \A m \in a .. Len(key) : Prefix(key, m) = new[m - a + 1]
      BY <1>4, <1>7
    <2>3. Fresh(path, key) \subseteq Range(new)
      BY <1>5, <1>7, <2>2 DEF Fresh, a
    <2> QED
      BY <2>1, <2>3
  <1>9. 1 \in 1 .. N /\ a + 1 - 1 = a
    BY <1>1
  <1>10. new[1] = Prefix(key, a)
    <2>1. new[1] = Prefix(key, a + 1 - 1)
      BY <1>4, <1>9
    <2> QED
      BY <1>9, <2>1
  <1>11. new # <<>>
    <2>1. DOMAIN <<>> = {}
      OBVIOUS
    <2> QED
      BY <1>4, <1>9, <2>1
  <1>12. key \in Fresh(path, key)
    <2>1. Len(key) \in a .. Len(key) /\ Len(key) \in 1 .. Len(key)
      BY <1>1
    <2>2. Prefix(key, Len(key)) = key
      BY <1>1, <2>1, PrefixFacts
    <2> QED
      BY <2>1, <2>2 DEF Fresh, a
  <1> QED
    BY <1>2, <1>8, <1>10, <1>11, <1>12 DEF new, a

LEMMA LinkedFacts ==
    ASSUME NEW h, NEW q, h[q] \in NodeType, NEW key, NEW child \in Pointer
    PROVE  /\ Linked(h, q, key, child) \in NodeType
           /\ Linked(h, q, key, child).value = h[q].value
           /\ Linked(h, q, key, child).stat = h[q].stat
  <1> DEFINE node == h[q]
  <1>1. node \in NodeType
    OBVIOUS
  <1> HIDE DEF node
  <1>2. /\ [node EXCEPT !.low = child] \in NodeType
        /\ [node EXCEPT !.high = child] \in NodeType
        /\ [node EXCEPT !.equal = child] \in NodeType
    BY <1>1 DEF NodeType
  <1>3. /\ [node EXCEPT !.low = child].value = node.value
        /\ [node EXCEPT !.high = child].value = node.value
        /\ [node EXCEPT !.equal = child].value = node.value
        /\ [node EXCEPT !.low = child].stat = node.stat
        /\ [node EXCEPT !.high = child].stat = node.stat
        /\ [node EXCEPT !.equal = child].stat = node.stat
    BY <1>1 DEF NodeType
  <1>4. CASE key[Len(q)] < Last(q)
    <2>1. Linked(h, q, key, child) = [node EXCEPT !.low = child]
      BY <1>4 DEF Linked, node
    <2> QED
      BY <1>2, <1>3, <2>1 DEF node
  <1>5. CASE ~(key[Len(q)] < Last(q)) /\ key[Len(q)] > Last(q)
    <2>1. Linked(h, q, key, child) = [node EXCEPT !.high = child]
      BY <1>5 DEF Linked, node
    <2> QED
      BY <1>2, <1>3, <2>1 DEF node
  <1>6. CASE ~(key[Len(q)] < Last(q)) /\ ~(key[Len(q)] > Last(q))
    <2>1. Linked(h, q, key, child) = [node EXCEPT !.equal = child]
      BY <1>6 DEF Linked, node
    <2> QED
      BY <1>2, <1>3, <2>1 DEF node
  <1> QED
    BY <1>4, <1>5, <1>6

\* Every delimiter and every URL has a Stats.
Meant(h) == \A q \in DOMAIN h : IsDelim(q) \/ h[q].value => h[q].stat # NoStats

\* What an insert of key makes of the values and the statistics; F is the
\* nodes it makes.
Valued(h, key, F, h2) ==
    /\ \A q \in DOMAIN h2 : h2[q].value <=> q = key \/ (q \in DOMAIN h \ F /\ h[q].value)
    /\ Meant(h) => Meant(h2)

LEMMA PlacedNew ==
    ASSUME NEW h, NEW r, NEW key, NEW path, Ends(h, r, key, path), NEW q \in Fresh(path, key)
    PROVE  LET node == Placed(h, path, key, q)
           IN  /\ node \in NodeType /\ node.low = Nil /\ node.high = Nil
               /\ node.equal = IF q = key THEN Nil ELSE Prefix(key, Len(q) + 1)
               /\ node.value = (q = key)
               /\ q = key \/ IsDelim(q) => node.stat # NoStats
  <1>1. Range(NewNodes(path, key)) = Fresh(path, key)
    BY NewNodesFacts
  <1>2. /\ q \in Name /\ Len(q) \in From(path, key) .. Len(key) /\ q = Prefix(key, Len(q))
        /\ key \in Name /\ From(path, key) \in 1 .. Len(key) /\ Len(key) \in Nat
    BY FreshFacts, EndsFacts
  <1> DEFINE e == IF q = key THEN Nil ELSE SubSeq(key, 1, Len(q) + 1)
             node == [low |-> Nil, high |-> Nil, value |-> q = key, stat |-> FirstStat(q, key), equal |-> e]
  <1>3. Placed(h, path, key, q) = node
    BY <1>1 DEF Placed
  <1>4. e \in Pointer
    <2>1. CASE q = key
      BY <2>1, EmptySeq DEF Pointer, Nil
    <2>2. CASE q # key
      <3>1. Len(q) # Len(key)
        <4>1. Len(key) \in 1 .. Len(key)
          BY <1>2
        <4>2. Prefix(key, Len(key)) = key
          BY <1>2, <4>1, PrefixFacts
        <4> QED
          BY <1>2, <2>2, <4>2
      <3>2. Len(q) + 1 \in 1 .. Len(key)
        BY <1>2, <3>1
      <3>3. Prefix(key, Len(q) + 1) \in Name
        BY <1>2, <3>2, PrefixFacts
      <3> QED
        BY <2>2, <3>3 DEF Prefix, Name, Pointer
    <2> QED
      BY <2>1, <2>2
  <1>5. FirstStat(q, key) \in StatsType /\ (q = key \/ IsDelim(q) => FirstStat(q, key) # NoStats)
    <2>1. Stats_create \in LiveStats
      BY StatsIsLive DEF Stats_create
    <2>2. NoStats \in StatsType
      BY CountAssumption DEF NoStats, StatsType
    <2> QED
      BY <2>1, <2>2 DEF FirstStat, LiveStats
  <1>6. Nil \in Pointer
    BY EmptySeq DEF Pointer, Nil
  <1>7. e = IF q = key THEN Nil ELSE Prefix(key, Len(q) + 1)
    BY DEF Prefix
  <1> HIDE DEF e
  <1> QED
    BY <1>3, <1>4, <1>5, <1>6, <1>7 DEF NodeType

LEMMA PlacedOld ==
    ASSUME NEW h, NEW r, NEW key, NEW path, Ends(h, r, key, path),
           NEW q \in DOMAIN h, q \notin Fresh(path, key)
    PROVE  LET node == Placed(h, path, key, q)
           IN  /\ node \in NodeType /\ node.value = h[q].value /\ node.stat = h[q].stat
               /\ IF r # Nil /\ q = path[Len(path) - 1]
                  THEN SameLinks(node, Linked(h, q, key, Prefix(key, From(path, key))))
                  ELSE SameLinks(node, h[q])
  <1> DEFINE first == Prefix(key, From(path, key))
  <1>1. /\ Range(NewNodes(path, key)) = Fresh(path, key) /\ q # key
        /\ NewNodes(path, key) # <<>> /\ NewNodes(path, key)[1] = first
    BY NewNodesFacts
  <1>2. h[q] \in NodeType /\ (Len(path) > 1 <=> r # Nil)
    <2>1. h[q] \in NodeType
      BY EndsFacts, HeapFacts
    <2>2. Len(path) \in Nat \ {0} /\ (Len(path) = 1 <=> r = Nil)
      BY EndsFacts
    <2> DEFINE n == Len(path)
    <2>3. n \in Nat \ {0} /\ (n = 1 <=> r = Nil)
      BY <2>2
    <2> HIDE DEF n
    <2>4. n > 1 <=> r # Nil
      BY <2>3
    <2> QED
      BY <2>1, <2>4 DEF n
  <1>3. first \in Pointer
    BY EndsFacts, PrefixFacts DEF Name, Pointer
  <1> HIDE DEF first
  <1>4. Placed(h, path, key, q) = IF r # Nil /\ q = path[Len(path) - 1] THEN Linked(h, q, key, first)
                                  ELSE h[q]
    BY <1>1, <1>2 DEF Placed
  <1>5. /\ Linked(h, q, key, first) \in NodeType /\ Linked(h, q, key, first).value = h[q].value
        /\ Linked(h, q, key, first).stat = h[q].stat
    BY <1>2, <1>3, LinkedFacts
  <1> QED
    BY <1>2, <1>4, <1>5 DEF SameLinks, first

\* An insert whose search ends at NULL makes the tree grow.
LEMMA PlacedGrown ==
    ASSUME NEW h, NEW r, NEW key, NEW path, Ends(h, r, key, path), NEW c
    PROVE  LET h2 == PlacedAll(h, path, key, c)
               r2 == IF r = Nil THEN NewNodes(path, key)[1] ELSE r
           IN  Grown(h, r, key, path, h2, r2) /\ Valued(h, key, Fresh(path, key), h2)
  <1> DEFINE F == Fresh(path, key)
             h2 == PlacedAll(h, path, key, c)
             P(q) == Placed(h, path, key, q)
             r2 == IF r = Nil THEN NewNodes(path, key)[1] ELSE r
  <1>1. /\ Range(NewNodes(path, key)) = F /\ NewNodes(path, key)[1] = Prefix(key, From(path, key))
        /\ key \in F
    BY NewNodesFacts
  <1>2. DOMAIN h2 = DOMAIN h \cup F
    BY <1>1 DEF PlacedAll
  <1>3. \A q \in DOMAIN h2 : h2[q] = IF q \in c THEN OneMore(P(q)) ELSE P(q)
    BY DEF PlacedAll
  <1>4. DOMAIN h2 \in SUBSET Name
    <2>1. DOMAIN h \subseteq Name
      BY EndsFacts, HeapFacts
    <2>2. F \subseteq Name
      BY FreshFacts
    <2> QED
      BY <1>2, <2>1, <2>2
  <1>5. h2 = [q \in DOMAIN h2 |-> h2[q]]
    BY DEF PlacedAll
  <1> HIDE DEF h2
  <1>6. \A q \in DOMAIN h2 : P(q) \in NodeType
    <2>1. \A q \in F : P(q) \in NodeType
      BY PlacedNew
    <2>2. \A q \in DOMAIN h \ F : P(q) \in NodeType
      BY PlacedOld
    <2> QED
      BY <1>2, <2>1, <2>2
  <1>7. \A q \in DOMAIN h2 :
            /\ h2[q] \in NodeType /\ SameLinks(h2[q], P(q)) /\ h2[q].value = P(q).value
            /\ P(q).stat # NoStats => h2[q].stat # NoStats
    <2> SUFFICES ASSUME NEW q \in DOMAIN h2
                 PROVE  /\ h2[q] \in NodeType /\ SameLinks(h2[q], P(q)) /\ h2[q].value = P(q).value
                        /\ P(q).stat # NoStats => h2[q].stat # NoStats
      OBVIOUS
    <2>1. P(q) \in NodeType /\ h2[q] = IF q \in c THEN OneMore(P(q)) ELSE P(q)
      BY <1>3, <1>6
    <2> HIDE DEF P
    <2>2. /\ OneMore(P(q)) \in NodeType /\ SameLinks(OneMore(P(q)), P(q))
          /\ OneMore(P(q)).value = P(q).value /\ OneMore(P(q)).stat \in LiveStats
      BY <2>1, OneMoreFacts
    <2> QED
      BY <2>1, <2>2 DEF SameLinks, LiveStats
  <1>8. h2 \in Heap
    <2>1. h2 \in [DOMAIN h2 -> NodeType]
      BY <1>5, <1>7
    <2> QED
      BY <1>4, <2>1 DEF Heap
  <1>9. ASSUME NEW m \in From(path, key) .. Len(key)
        PROVE  LET node == h2[Prefix(key, m)]
               IN  /\ node.low = Nil /\ node.high = Nil
                   /\ node.equal = IF m = Len(key) THEN Nil ELSE Prefix(key, m + 1)
    <2> DEFINE q == Prefix(key, m)
    <2>1. q \in F
      BY DEF Fresh
    <2>2. Len(q) = m /\ (q = key <=> m = Len(key))
      <3>1. m \in 1 .. Len(key) /\ key \in Name
        BY EndsFacts
      <3>2. Len(q) = m /\ (m = Len(key) => q = key)
        BY <3>1, PrefixFacts
      <3> QED
        BY <3>2
    <2> HIDE DEF q
    <2>3. /\ P(q).low = Nil /\ P(q).high = Nil
          /\ P(q).equal = IF q = key THEN Nil ELSE Prefix(key, Len(q) + 1)
      BY <2>1, PlacedNew
    <2>4. SameLinks(h2[q], P(q))
      BY <1>2, <1>7, <2>1
    <2> HIDE DEF P
    <2> QED
      BY <2>2, <2>3, <2>4 DEF SameLinks, q
  <1>10. ASSUME NEW q \in DOMAIN h \ F
         PROVE  IF r # Nil /\ q = path[Len(path) - 1]
                THEN SameLinks(h2[q], Linked(h, q, key, Prefix(key, From(path, key))))
                ELSE SameLinks(h2[q], h[q])
    <2>1. IF r # Nil /\ q = path[Len(path) - 1]
          THEN SameLinks(P(q), Linked(h, q, key, Prefix(key, From(path, key))))
          ELSE SameLinks(P(q), h[q])
      BY PlacedOld
    <2>2. SameLinks(h2[q], P(q))
      BY <1>2, <1>7
    <2> HIDE DEF P
    <2> QED
      BY <2>1, <2>2 DEF SameLinks
  <1>11. Grown(h, r, key, path, h2, r2)
    BY <1>1, <1>2, <1>8, <1>9, <1>10 DEF Grown
  <1>12. \A q \in F : P(q).value = (q = key) /\ (q = key \/ IsDelim(q) => P(q).stat # NoStats)
    BY PlacedNew
  <1>13. \A q \in DOMAIN h \ F : q # key /\ P(q).value = h[q].value /\ P(q).stat = h[q].stat
    BY <1>1, PlacedOld
  <1> HIDE DEF P, F
  <1>14. \A q \in DOMAIN h2 : h2[q].value <=> q = key \/ (q \in DOMAIN h \ F /\ h[q].value)
    BY <1>2, <1>7, <1>12, <1>13
  <1>15. Meant(h) => Meant(h2)
    BY <1>2, <1>7, <1>12, <1>13 DEF Meant
  <1> QED
    BY <1>11, <1>14, <1>15 DEF Valued, F, h2

\* Another changes no pointer.
LEMMA PlacedAgain ==
    ASSUME NEW h \in Heap, NEW key \in DOMAIN h, NEW path, Last(path) = key, NEW c
    PROVE  LET h2 == PlacedAll(h, path, key, c)
           IN  /\ h2 \in Heap /\ DOMAIN h2 = DOMAIN h
               /\ \A q \in DOMAIN h : SameLinks(h2[q], h[q])
               /\ Valued(h, key, {}, h2)
  <1> DEFINE h2 == PlacedAll(h, path, key, c)
             P(q) == Placed(h, path, key, q)
  <1>1. NewNodes(path, key) = <<>> /\ Range(NewNodes(path, key)) = {}
    BY DEF NewNodes, Range
  <1>2. DOMAIN h2 = DOMAIN h /\ h2 = [q \in DOMAIN h |-> h2[q]]
    BY <1>1 DEF PlacedAll
  <1>3. \A q \in DOMAIN h : h2[q] = IF q \in c THEN OneMore(P(q)) ELSE P(q)
    BY DEF PlacedAll
  <1>4. \A q \in DOMAIN h : P(q) = IF q = key THEN [h[q] EXCEPT !.value = TRUE, !.stat = Stats_create] ELSE h[q]
    BY <1>1 DEF Placed
  <1> HIDE DEF h2, P
  <1>5. \A q \in DOMAIN h : /\ P(q) \in NodeType /\ SameLinks(P(q), h[q])
                            /\ P(q).value <=> (q = key \/ h[q].value)
                            /\ h[q].stat # NoStats \/ q = key => P(q).stat # NoStats
    <2> SUFFICES ASSUME NEW q \in DOMAIN h
                 PROVE  /\ P(q) \in NodeType /\ SameLinks(P(q), h[q])
                        /\ P(q).value <=> (q = key \/ h[q].value)
                        /\ h[q].stat # NoStats \/ q = key => P(q).stat # NoStats
      OBVIOUS
    <2>1. h[q] \in NodeType
      BY HeapFacts
    <2>2. Stats_create \in LiveStats
      BY StatsIsLive DEF Stats_create
    <2>3. CASE q = key
      <3> DEFINE node == h[q]
      <3>1. P(q) = [node EXCEPT !.value = TRUE, !.stat = Stats_create]
        BY <1>4, <2>3
      <3>2. node \in NodeType
        BY <2>1
      <3> HIDE DEF node
      <3>3. P(q) \in NodeType /\ SameLinks(P(q), node) /\ P(q).value = TRUE /\ P(q).stat = Stats_create
        BY <2>2, <3>1, <3>2 DEF NodeType, SameLinks, LiveStats
      <3> QED
        BY <2>2, <2>3, <3>3 DEF node, LiveStats
    <2>4. CASE q # key
      BY <1>4, <2>1, <2>4 DEF SameLinks
    <2> QED
      BY <2>3, <2>4
  <1>6. \A q \in DOMAIN h :
            /\ h2[q] \in NodeType /\ SameLinks(h2[q], P(q)) /\ h2[q].value = P(q).value
            /\ P(q).stat # NoStats => h2[q].stat # NoStats
    <2> SUFFICES ASSUME NEW q \in DOMAIN h
                 PROVE  /\ h2[q] \in NodeType /\ SameLinks(h2[q], P(q)) /\ h2[q].value = P(q).value
                        /\ P(q).stat # NoStats => h2[q].stat # NoStats
      OBVIOUS
    <2>1. P(q) \in NodeType /\ h2[q] = IF q \in c THEN OneMore(P(q)) ELSE P(q)
      BY <1>3, <1>5
    <2>2. /\ OneMore(P(q)) \in NodeType /\ SameLinks(OneMore(P(q)), P(q))
          /\ OneMore(P(q)).value = P(q).value /\ OneMore(P(q)).stat \in LiveStats
      BY <2>1, OneMoreFacts
    <2> QED
      BY <2>1, <2>2 DEF SameLinks, LiveStats
  <1>7. h2 \in Heap
    <2>1. h2 \in [DOMAIN h -> NodeType]
      BY <1>2, <1>6
    <2>2. DOMAIN h \in SUBSET Name
      BY HeapFacts
    <2> QED
      BY <2>1, <2>2 DEF Heap
  <1>8. \A q \in DOMAIN h : SameLinks(h2[q], h[q])
    BY <1>5, <1>6 DEF SameLinks
  <1>9. Valued(h, key, {}, h2)
    <2>1. Meant(h) => Meant(h2)
      BY <1>2, <1>5, <1>6 DEF Meant
    <2>2. \A q \in DOMAIN h2 : h2[q].value <=> q = key \/ (q \in DOMAIN h \ {} /\ h[q].value)
      BY <1>2, <1>5, <1>6
    <2> QED
      BY <2>1, <2>2 DEF Valued
  <1> QED
    BY <1>2, <1>7, <1>8, <1>9 DEF h2

-----------------------------------------------------------------------------
(* Update and delete *)

LEMMA FlattenType ==
    ASSUME NEW S, NEW seqs \in Seq(Seq(S))
    PROVE  FlattenSeq(seqs) \in Seq(S)
  <1> DEFINE n == Len(seqs)
             Step(f) == [i \in 1 .. n |-> IF i = 1 THEN seqs[i] ELSE f[i - 1] \o seqs[i]]
             g == CHOOSE f : f = Step(f)
             G == [x \in (1 .. n) \X Seq(S) |-> IF x[1] = 1 THEN seqs[1] ELSE x[2] \o seqs[x[1]]]
  <1>1. n \in Nat /\ \A i \in 1 .. n : seqs[i] \in Seq(S)
    BY LenProperties, ElementOfSeq
  <1>2. n = 0 => FlattenSeq(seqs) = <<>> /\ <<>> \in Seq(S)
    BY EmptySeq DEF FlattenSeq
  <1>3. n # 0 => FlattenSeq(seqs) = g[n]
    BY DEF FlattenSeq
  <1> HIDE DEF n, g
  <1>4. ASSUME n # 0 PROVE g[n] \in Seq(S)
    <2>1. \A i \in 1 .. n, x \in Seq(S) : x \o seqs[i] \in Seq(S)
      BY <1>1, ConcatProperties
    <2>2. 1 \in 1 .. n
      BY <1>1, <1>4
    <2>3. G \in [(1 .. n) \X Seq(S) -> Seq(S)]
      BY <1>1, <2>1, <2>2
    <2>4. \A i \in 1 .. n, x \in Seq(S) : G[<<i, x>>] = IF i = 1 THEN seqs[i] ELSE x \o seqs[i]
      OBVIOUS
    <2> HIDE DEF G
    <2>5. <<>> \in Seq(S)
      BY EmptySeq
    <2>6. PICK w \in [0 .. n -> Seq(S)] : Iterates(w, n, <<>>, G)
      BY <1>1, <2>3, <2>5, IteratesSome
    <2> DEFINE f == [i \in 1 .. n |-> w[i]]
    <2>7. f = Step(f)
      <3>1. ASSUME NEW i \in 1 .. n PROVE f[i] = Step(f)[i]
        <4>1. /\ i \in 0 .. n /\ i # 0 /\ i - 1 \in 0 .. n /\ (i # 1 => i - 1 \in 1 .. n)
          BY <1>1
        <4>2. w[i] = G[<<i, w[i - 1]>>] /\ w[i - 1] \in Seq(S)
          BY <2>6, <4>1 DEF Iterates
        <4>3. w[i] = IF i = 1 THEN seqs[i] ELSE w[i - 1] \o seqs[i]
          BY <2>4, <4>2
        <4> QED
          BY <4>1, <4>3
      <3> QED
        BY <3>1
    <2>8. g = Step(g)
      <3> HIDE DEF Step, f
      <3> QED
        BY <2>7 DEF g
    <2>9. \A i \in 1 .. n : g[i] = IF i = 1 THEN seqs[i] ELSE g[i - 1] \o seqs[i]
      BY <2>8
    <2> DEFINE T == {i \in Nat : i + 1 <= n => g[i + 1] \in Seq(S)}
    <2>10. 0 \in T
      <3>1. g[1] = seqs[1] /\ seqs[1] \in Seq(S) /\ 0 + 1 = 1
        BY <1>1, <2>2, <2>9
      <3> HIDE DEF Step
      <3> QED
        BY <3>1
    <2>11. ASSUME NEW i \in T PROVE i + 1 \in T
      <3>1. /\ i \in Nat
            /\ i + 1 + 1 <= n => /\ i + 1 + 1 \in 1 .. n /\ i + 1 + 1 # 1 /\ (i + 1 + 1) - 1 = i + 1
                                 /\ g[i + 1] \in Seq(S)
        BY <1>1, <2>11
      <3>2. i + 1 + 1 <= n => g[i + 1 + 1] = g[i + 1] \o seqs[i + 1 + 1]
        BY <2>9, <3>1
      <3>3. i + 1 + 1 <= n => g[i + 1 + 1] \in Seq(S)
        BY <2>1, <3>1, <3>2
      <3> QED
        BY <3>1, <3>3
    <2>12. T = Nat
      BY <2>10, <2>11, ByInduction
    <2>13. n - 1 \in T /\ (n - 1) + 1 = n /\ n <= n
      <3>1. n - 1 \in Nat /\ (n - 1) + 1 = n /\ n <= n
        BY <1>1, <1>4
      <3> HIDE DEF T
      <3> QED
        BY <2>12, <3>1
    <2> QED
      BY <2>13
  <1> QED
    BY <1>2, <1>3, <1>4

\* A search that comes to a node came through live nodes only.
LEMMA DelimListType ==
    ASSUME NEW h, NEW r, Sound(h, r), NEW u \in DOMAIN h, Pinpoint(h, r, u) = u
    PROVE  DelimList(h, r, u) \in Seq(DOMAIN h)
  <1> DEFINE path == Walk(h, r, u)
             n == Len(path)
             D == DOMAIN h
             pieces == [i \in 1 .. n |-> IF IsPrefix(path[i], u) /\ IsDelim(path[i]) THEN <<path[i]>> ELSE <<>>]
  <1>1. Follows(h, r, u, path) /\ n \in Nat \ {0} /\ path[n] = u
    <2>1. Follows(h, r, u, path)
      BY WalkFollows
    <2> QED
      BY <2>1, FollowsType DEF Pinpoint
  <1>2. DelimList(h, r, u) = IF Pinpoint(h, r, u) = u /\ ~IsDelim(u) THEN Append(FlattenSeq(pieces), u)
                             ELSE FlattenSeq(pieces)
    BY DEF DelimList
  <1> HIDE DEF path
  <1>3. \A i \in 1 .. n : path[i] \in D
    <2> SUFFICES ASSUME NEW i \in 1 .. n PROVE path[i] \in D
      OBVIOUS
    <2>1. CASE i = n
      BY <1>1, <2>1
    <2>2. CASE i # n
      <3>1. i \in 1 .. n - 1
        BY <1>1, <2>2
      <3> QED
        BY <1>1, <3>1 DEF Follows
    <2> QED
      BY <2>1, <2>2
  <1> HIDE DEF n, D
  <1>4. pieces \in Seq(Seq(D))
    <2>1. <<>> \in Seq(D) /\ \A x \in D : <<x>> \in Seq(D)
      BY EmptySeq
    <2>2. pieces \in [1 .. n -> Seq(D)]
      BY <1>3, <2>1
    <2> QED
      BY <1>1, <2>2, SeqDef
  <1> HIDE DEF pieces
  <1>5. FlattenSeq(pieces) \in Seq(D)
    BY <1>4, FlattenType
  <1>6. Append(FlattenSeq(pieces), u) \in Seq(D)
    BY <1>5, AppendProperties DEF D
  <1> QED
    BY <1>2, <1>5, <1>6 DEF D

\* A node a search finds is a live one, if the search does not stray.
LEMMA FoundIsLive ==
    ASSUME NEW h, NEW r, Sound(h, r), NEW u, ~Lost(h, r, u), Pinpoint(h, r, u) # Nil
    PROVE  Pinpoint(h, r, u) = u /\ u \in DOMAIN h
  <1>1. Stopped(h, u, Walk(h, r, u))
    BY WalkFollows
  <1> QED
    BY <1>1 DEF Stopped, Lost, Pinpoint

LEMMA DeletedRest ==
    ASSUME NEW h \in Heap, NEW list \in Seq(DOMAIN h)
    PROVE  Restated(h, LessOne(Traced(h, list, Stats_create), list))
  <1> DEFINE h2 == Traced(h, list, Stats_create)
  <1>1. Stats_create \in LiveStats
    BY StatsIsLive DEF Stats_create
  <1>2. Restated(h, h2)
    BY <1>1, TracedRestates
  <1> HIDE DEF h2
  <1>3. h2 \in Heap /\ DOMAIN h2 = DOMAIN h
    BY <1>2 DEF Restated
  <1>4. Restated(h2, LessOne(h2, list))
    BY <1>3, LessOneRestates
  <1> QED
    BY <1>2, <1>4, RestatedTwice DEF h2

LEMMA RestatedMeans ==
    ASSUME NEW h, NEW h2, Restated(h, h2)
    PROVE  Meant(h) => Meant(h2)
  BY DEF Restated, Meant, LiveStats

LEMMA DeletedLeafFacts ==
    ASSUME NEW h \in Heap, NEW list \in Seq(DOMAIN h), NEW u \in DOMAIN h
    PROVE  LET h2 == DeletedLeaf(h, list, u)
           IN  /\ h2 \in Heap /\ DOMAIN h2 = DOMAIN h
               /\ \A q \in DOMAIN h : SameLinks(h2[q], h[q]) /\ (h2[q].value <=> q # u /\ h[q].value)
               /\ Meant(h) => Meant(h2)
  <1> DEFINE rest == LessOne(Traced(h, list, Stats_create), list)
             h2 == DeletedLeaf(h, list, u)
  <1>1. Restated(h, rest)
    BY DeletedRest
  <1>2. h2 = [rest EXCEPT ![u].value = FALSE]
    BY DEF DeletedLeaf
  <1> HIDE DEF rest, h2
  <1>3. rest \in Heap /\ DOMAIN rest = DOMAIN h
    BY <1>1 DEF Restated
  <1>4. DOMAIN h2 = DOMAIN h /\ h2 = [q \in DOMAIN h |-> h2[q]]
    BY <1>2, <1>3
  <1>5. \A q \in DOMAIN h : /\ h2[q] \in NodeType /\ SameLinks(h2[q], rest[q]) /\ h2[q].stat = rest[q].stat
                            /\ h2[q].value <=> q # u /\ rest[q].value
    <2> SUFFICES ASSUME NEW q \in DOMAIN h
                 PROVE  /\ h2[q] \in NodeType /\ SameLinks(h2[q], rest[q]) /\ h2[q].stat = rest[q].stat
                        /\ h2[q].value <=> q # u /\ rest[q].value
      OBVIOUS
    <2> DEFINE node == rest[q]
    <2>1. node \in NodeType
      BY <1>3, HeapFacts
    <2>2. h2[q] = IF q = u THEN [node EXCEPT !.value = FALSE] ELSE node
      BY <1>2, <1>3
    <2> HIDE DEF node
    <2>3. /\ h2[q] \in NodeType /\ SameLinks(h2[q], node) /\ h2[q].stat = node.stat
          /\ h2[q].value <=> q # u /\ node.value
      BY <2>1, <2>2 DEF NodeType, SameLinks
    <2> QED
      BY <2>3 DEF node
  <1>6. h2 \in Heap
    <2>1. h2 \in [DOMAIN h -> NodeType]
      BY <1>4, <1>5
    <2>2. DOMAIN h \in SUBSET Name
      BY HeapFacts
    <2> QED
      BY <2>1, <2>2 DEF Heap
  <1>7. \A q \in DOMAIN h : SameLinks(rest[q], h[q]) /\ rest[q].value = h[q].value
    BY <1>1 DEF Restated
  <1>8. \A q \in DOMAIN h : SameLinks(h2[q], h[q]) /\ (h2[q].value <=> q # u /\ h[q].value)
    BY <1>5, <1>7 DEF SameLinks
  <1>9. Meant(h) => Meant(h2)
    <2>1. Meant(h) => Meant(rest)
      BY <1>1, RestatedMeans
    <2>2. Meant(rest) => Meant(h2)
      BY <1>3, <1>4, <1>5 DEF Meant
    <2> QED
      BY <2>1, <2>2
  <1> QED
    BY <1>4, <1>6, <1>8, <1>9 DEF h2

\* What is below a delimiter has longer names.
LEMMA BelowIsLonger ==
    ASSUME NEW h, NEW r, Sound(h, r), NEW u \in DOMAIN h
    PROVE  \A q \in Traversed(h, h[u].equal) : q \in Name /\ Len(q) > Len(u)
  <1> DEFINE S == {q \in Name : Len(q) > Len(u)}
  <1>1. Shaped(h, r) /\ IsFiniteSet(DOMAIN h) /\ h \in Heap
    BY DEF Sound, Shaped
  <1>2. h[u].equal \in Pointer /\ Len(u) \in Nat
    <2>1. u \in Name /\ h[u] \in NodeType
      BY <1>1, HeapFacts
    <2> QED
      BY <2>1, NameFacts DEF NodeType
  <1>3. h[u].equal = Nil \/ h[u].equal \in S
    <2> SUFFICES ASSUME h[u].equal # Nil PROVE h[u].equal \in S
      OBVIOUS
    <2>1. Child(u, h[u].equal)
      BY <1>1 DEF Shaped
    <2> QED
      BY <1>2, <2>1 DEF Child, Name, Pointer
  <1>4. \A q \in S \cap DOMAIN h : Kids(h, q) \subseteq S
    <2> SUFFICES ASSUME NEW q \in S, q \in DOMAIN h, NEW x \in Kids(h, q) PROVE x \in S
      OBVIOUS
    <2>1. x \in Name
      <3>1. h[q] \in NodeType
        BY <1>1, HeapFacts
      <3> QED
        BY <3>1 DEF Kids, NodeType, Pointer, Name
    <2>2. Sibling(q, x) \/ Child(q, x)
      BY <1>1 DEF Shaped, Kids
    <2>3. Len(x) >= Len(q) /\ Len(q) \in Nat
      BY <2>2, NameFacts DEF Sibling, Child
    <2> QED
      BY <1>2, <2>1, <2>3
  <1>5. Traversed(h, h[u].equal) \subseteq S
    <2> HIDE DEF S
    <2> QED
      BY <1>1, <1>2, <1>3, <1>4, TraversedWithin
  <1> QED
    BY <1>5

\* Taking nodes away leaves a tree, as far as pointers still lead.
LEMMA CutTree ==
    ASSUME NEW h, NEW r, Sound(h, r), NEW R, NEW trail, Tree(h, r, R, trail),
           NEW h2 \in Heap, DOMAIN h2 \subseteq DOMAIN h,
           \A q \in DOMAIN h2 : SameLinks(h2[q], h[q])
    PROVE  LET R2 == {q \in R : \A i \in 1 .. Len(trail[q]) - 1 : trail[q][i] \in DOMAIN h2}
           IN  Sound(h2, r) /\ Tree(h2, r, R2, trail)
  <1> DEFINE D == DOMAIN h2
             R2 == {q \in R : \A i \in 1 .. Len(trail[q]) - 1 : trail[q][i] \in D}
  <1>1. \A q \in D : Kids(h2, q) = Kids(h, q) /\ \A key : Towards(h2, q, key) = Towards(h, q, key)
    BY DEF SameLinks, Kids, Towards
  <1>2. Shaped(h2, r)
    BY DEF Sound, Shaped, SameLinks
  <1>3. IsFiniteSet(D)
    BY FS_Subset DEF Sound
  <1>4. Acyclic(h2)
    <2>1. PICK depth, most : Deepens(h, depth, most)
      BY DEF Sound, Acyclic
    <2> DEFINE depth2 == [q \in D |-> depth[q]]
    <2>2. depth2 \in [D -> 0 .. most]
      BY <2>1 DEF Deepens
    <2>3. Deepens(h2, depth2, most)
      BY <2>1, <2>2 DEF Deepens, SameLinks
    <2> QED
      BY <2>3 DEF Acyclic
  <1>5. r = Nil \/ (r \in R2 /\ trail[r] = <<r>>)
    <2> SUFFICES ASSUME r # Nil PROVE r \in R2 /\ trail[r] = <<r>>
      OBVIOUS
    <2>1. r \in R /\ trail[r] = <<r>>
      BY DEF Tree
    <2>2. 1 .. Len(trail[r]) - 1 = {}
      BY <2>1
    <2> QED
      BY <2>1, <2>2
  <1>6. ASSUME NEW q \in R2 PROVE Leads(h2, r, q, trail[q])
    <2>1. /\ Leads(h, r, q, trail[q])
          /\ \A i \in 1 .. Len(trail[q]) - 1 : trail[q][i] \in D
      BY DEF Tree
    <2> DEFINE p == trail[q]
    <2> HIDE DEF p
    <2>2. Leads(h, r, q, p) /\ \A i \in 1 .. Len(p) - 1 : p[i] \in D
      BY <2>1 DEF p
    <2>3. Leads(h2, r, q, p)
      BY <1>1, <2>2 DEF Leads, Follows
    <2> QED
      BY <2>3 DEF p
  <1>7. ASSUME NEW q \in R2 \cap D, NEW x \in Kids(h2, q)
        PROVE  x \in R2 /\ trail[x] = Append(trail[q], x)
    <2>1. q \in R /\ q \in DOMAIN h /\ x \in Kids(h, q)
      BY <1>1
    <2>2. x \in R /\ trail[x] = Append(trail[q], x)
      BY <2>1 DEF Tree
    <2>3. /\ trail[q] \in Seq(Pointer) /\ Len(trail[q]) \in Nat \ {0} /\ trail[q][Len(trail[q])] = q
          /\ x \in Pointer
      <3>1. /\ trail[q] \in Seq(Pointer) /\ Len(trail[q]) \in Nat \ {0}
            /\ trail[q][Len(trail[q])] = q
        BY <2>1, TrailFacts
      <3>2. x \in Pointer
        BY <2>2 DEF Tree, Name, Pointer
      <3> QED
        BY <3>1, <3>2
    <2> DEFINE p == trail[q]
               s == Append(p, x)
    <2>4. Len(s) = Len(p) + 1 /\ \A i \in 1 .. Len(p) : s[i] = p[i]
      BY <2>3, AppendProperties
    <2>5. \A i \in 1 .. Len(p) - 1 : p[i] \in D
      OBVIOUS
    <2>6. Len(p) \in Nat \ {0} /\ p[Len(p)] = q
      BY <2>3
    <2> HIDE DEF p, s
    <2>7. \A i \in 1 .. Len(s) - 1 : s[i] \in D
      <3> SUFFICES ASSUME NEW i \in 1 .. Len(s) - 1 PROVE s[i] \in D
        OBVIOUS
      <3>1. i \in 1 .. Len(p)
        BY <2>4, <2>6
      <3>2. s[i] = p[i] /\ (i = Len(p) \/ i \in 1 .. Len(p) - 1)
        BY <2>4, <2>6, <3>1
      <3> QED
        BY <2>5, <2>6, <3>2
    <2> QED
      BY <2>2, <2>7 DEF p, s
  <1>8. R2 \in SUBSET Name
    BY DEF Tree
  <1>9. Tree(h2, r, R2, trail)
    <2> HIDE DEF R2
    <2> QED
      BY <1>5, <1>6, <1>7, <1>8 DEF Tree
  <1> QED
    BY <1>2, <1>3, <1>4, <1>9 DEF Sound

-----------------------------------------------------------------------------
(* The store *)

\* h is a tree with statistics; until a node is freed its nodes are what
\* pointers lead to, and from then on some pointer leads to none.
Store(h, r, f) ==
    /\ Sound(h, r) /\ Meant(h)
    /\ \E R, trail : Tree(h, r, R, trail) /\ IF f THEN ~(R \subseteq DOMAIN h) ELSE R = DOMAIN h

LEMMA StoreKept ==
    ASSUME NEW h, NEW r, NEW f, Store(h, r, f), NEW h2 \in Heap, DOMAIN h2 = DOMAIN h,
           \A q \in DOMAIN h : SameLinks(h2[q], h[q]), Meant(h) => Meant(h2)
    PROVE  Store(h2, r, f)
  <1>1. Sound(h, r) /\ Meant(h)
    BY DEF Store
  <1>2. PICK R, trail : Tree(h, r, R, trail) /\ IF f THEN ~(R \subseteq DOMAIN h) ELSE R = DOMAIN h
    BY DEF Store
  <1>3. Sound(h2, r) /\ Tree(h2, r, R, trail)
    BY <1>1, <1>2, SameLinksKeep
  <1> QED
    BY <1>1, <1>2, <1>3 DEF Store

LEMMA StoreFacts ==
    ASSUME NEW h, NEW r, NEW f \in BOOLEAN, Store(h, r, f)
    PROVE  /\ f <=> ~(Traversed(h, r) \subseteq DOMAIN h)
           /\ ~f => /\ Traversed(h, r) = DOMAIN h
                    /\ \A q \in DOMAIN h : Pinpoint(h, r, q) = q
                    /\ \A key : ~Lost(h, r, key)
  <1>1. Sound(h, r) /\ Shaped(h, r) /\ IsFiniteSet(DOMAIN h) /\ r \in Pointer
    BY DEF Store, Sound, Shaped
  <1>2. PICK R, trail : Tree(h, r, R, trail) /\ IF f THEN ~(R \subseteq DOMAIN h) ELSE R = DOMAIN h
    BY DEF Store
  <1>3. R \subseteq Name /\ \A q \in R : Led(h, r, q)
    BY <1>2 DEF Tree, Led
  <1>4. Traversed(h, r) = R
    <2>1. Traversed(h, r) \subseteq R
      <3>1. r = Nil \/ r \in R
        BY <1>2 DEF Tree
      <3>2. \A q \in R \cap DOMAIN h : Kids(h, q) \subseteq R
        BY <1>2 DEF Tree
      <3> QED
        BY <1>1, <3>1, <3>2, TraversedWithin
    <2>2. R \subseteq Traversed(h, r)
      BY <1>1, <1>3, LedIsTraversed
    <2> QED
      BY <2>1, <2>2
  <1>5. \A q \in R : Pinpoint(h, r, q) = q
    BY <1>1, <1>3, LedIsFound
  <1>6. ASSUME ~f, NEW key PROVE ~Lost(h, r, key)
    <2> DEFINE p == Walk(h, r, key)
    <2>1. Follows(h, r, key, p)
      BY <1>1, WalkFollows
    <2> HIDE DEF p
    <2>2. Len(p) \in Nat \ {0} /\ Last(p) = p[Len(p)]
      BY <2>1, FollowsType
    <2>3. Len(p) \in 1 .. Len(p)
      BY <2>2
    <2>4. Last(p) # Nil => Last(p) \in R
      BY <1>1, <1>2, <2>1, <2>2, <2>3, AlongTrails
    <2> QED
      BY <1>2, <1>6, <2>4 DEF Lost, Pinpoint, p
  <1> QED
    BY <1>2, <1>4, <1>5, <1>6

\* The URLs in a tree.
Valid(h) == {q \in DOMAIN h : h[q].value}

LEMMA InsertKeepsStore ==
    ASSUME NEW h, NEW r, NEW f \in BOOLEAN, Store(h, r, f), NEW key \in Name, ~Lost(h, r, key)
    PROVE  LET h2 == Inserted(h, r, key)
               r2 == IF r = Nil THEN NewNodes(Walk(h, r, key), key)[1] ELSE r
           IN  Store(h2, r2, f) /\ (~f => Valid(h2) = Valid(h) \cup {key})
  <1> DEFINE path == Walk(h, r, key)
             h2 == Inserted(h, r, key)
             r2 == IF r = Nil THEN NewNodes(path, key)[1] ELSE r
  <1>1. Sound(h, r) /\ Shaped(h, r) /\ h \in Heap /\ Meant(h)
    BY DEF Store, Sound, Shaped
  <1>2. Follows(h, r, key, path) /\ Len(path) \in Nat \ {0} /\ Last(path) = path[Len(path)]
    <2>1. Follows(h, r, key, path)
      BY <1>1, WalkFollows
    <2> QED
      BY <2>1, FollowsType
  <1>3. CASE Last(path) = Nil
    <2>1. Ends(h, r, key, path)
      BY <1>1, <1>2, <1>3 DEF Ends
    <2>2. PICK R, trail : Tree(h, r, R, trail) /\ IF f THEN ~(R \subseteq DOMAIN h) ELSE R = DOMAIN h
      BY DEF Store
    <2> DEFINE F == Fresh(path, key)
    <2>3. PICK c : h2 = PlacedAll(h, path, key, c)
      <3>1. Last(path) # key
        BY <1>3 DEF Name
      <3> QED
        BY <3>1, InsertedIsPlaced
    <2> HIDE DEF path, h2
    <2>4. Grown(h, r, key, path, h2, r2) /\ Valued(h, key, F, h2)
      BY <2>1, <2>3, PlacedGrown
    <2> HIDE DEF r2
    <2>5. Sound(h2, r2)
      BY <2>1, <2>2, <2>4, GrownSound
    <2>6. PICK trail2 : Tree(h2, r2, R \cup F, trail2)
      BY <2>1, <2>2, <2>4, GrownTree
    <2>7. R \cap F = {}
      BY <2>1, <2>2, FreshIsNew
    <2>8. key \in F /\ DOMAIN h2 = DOMAIN h \cup F
      BY <2>1, <2>4, NewNodesFacts DEF Grown
    <2> HIDE DEF F
    <2>9. IF f THEN ~(R \cup F \subseteq DOMAIN h2) ELSE R \cup F = DOMAIN h2
      BY <2>2, <2>7, <2>8
    <2>10. Store(h2, r2, f)
      <3>1. Meant(h2)
        BY <1>1, <2>4 DEF Valued
      <3> QED
        BY <2>5, <2>6, <2>9, <3>1 DEF Store
    <2>11. ~f => Valid(h2) = Valid(h) \cup {key}
      <3> SUFFICES ASSUME ~f PROVE Valid(h2) = Valid(h) \cup {key}
        OBVIOUS
      <3>1. DOMAIN h \cap F = {}
        BY <2>2, <2>7
      <3>2. \A q \in DOMAIN h2 : h2[q].value <=> q = key \/ (q \in DOMAIN h \ F /\ h[q].value)
        BY <2>4 DEF Valued
      <3> QED
        BY <2>8, <3>1, <3>2 DEF Valid
    <2> QED
      BY <2>10, <2>11 DEF r2, h2, path
  <1>4. CASE Last(path) # Nil
    <2>1. Last(path) = key /\ key \in DOMAIN h
      BY <1>1, <1>4, FoundIsLive DEF Pinpoint
    <2>2. r2 = r
      <3> SUFFICES ASSUME r = Nil PROVE FALSE
        OBVIOUS
      <3>1. path[1] = Nil
        BY <1>2 DEF Follows
      <3>2. CASE Len(path) = 1
        BY <1>2, <1>4, <3>1, <3>2
      <3>3. CASE Len(path) # 1
        <4>1. 1 \in 1 .. Len(path) - 1
          BY <1>2, <3>3, BeforeLast
        <4>2. path[1] \in DOMAIN h
          BY <1>2, <4>1 DEF Follows
        <4> QED
          BY <1>1, <3>1, <4>2, HeapFacts
      <3> QED
        BY <3>2, <3>3
    <2>3. CASE h[key].value
      <3>1. h2 = h
        BY <2>1, <2>3, InsertedIsPlaced
      <3>2. Valid(h) = Valid(h) \cup {key}
        BY <2>1, <2>3 DEF Valid
      <3> QED
        BY <2>2, <3>1, <3>2
    <2>4. CASE ~h[key].value
      <3>1. PICK c : h2 = PlacedAll(h, path, key, c)
        BY <2>4, InsertedIsPlaced
      <3> HIDE DEF path, h2, r2
      <3>2. /\ h2 \in Heap /\ DOMAIN h2 = DOMAIN h
            /\ \A q \in DOMAIN h : SameLinks(h2[q], h[q])
            /\ Valued(h, key, {}, h2)
        BY <1>1, <2>1, <3>1, PlacedAgain
      <3>3. Store(h2, r, f)
        <4>1. Meant(h) => Meant(h2)
          BY <3>2 DEF Valued
        <4> QED
          BY <3>2, <4>1, StoreKept
      <3>4. Valid(h2) = Valid(h) \cup {key}
        BY <2>1, <3>2 DEF Valued, Valid
      <3> QED
        BY <2>2, <3>3, <3>4 DEF h2, r2, path
    <2> QED
      BY <2>3, <2>4
  <1> QED
    BY <1>3, <1>4

LEMMA UpdateKeepsStore ==
    ASSUME NEW h, NEW r, NEW f \in BOOLEAN, Store(h, r, f),
           NEW u \in DOMAIN h, Pinpoint(h, r, u) = u, h[u].stat # NoStats, NEW s \in Samplings
    PROVE  LET h2 == Traced(h, DelimList(h, r, u), Sampled(h[u].stat, s))
           IN  Store(h2, r, f) /\ Valid(h2) = Valid(h)
  <1> DEFINE h2 == Traced(h, DelimList(h, r, u), Sampled(h[u].stat, s))
  <1>1. Sound(h, r) /\ h \in Heap
    BY DEF Store, Sound, Shaped
  <1>2. DelimList(h, r, u) \in Seq(DOMAIN h)
    BY <1>1, DelimListType
  <1>3. Sampled(h[u].stat, s) \in LiveStats
    <2>1. h[u].stat \in LiveStats
      BY <1>1, HeapFacts DEF NodeType, LiveStats
    <2> QED
      BY <2>1, SampledIsLive
  <1>4. Restated(h, h2)
    BY <1>1, <1>2, <1>3, TracedRestates
  <1> HIDE DEF h2
  <1>5. Store(h2, r, f)
    <2>1. Meant(h) => Meant(h2)
      BY <1>4, RestatedMeans
    <2> QED
      BY <1>4, <2>1, StoreKept DEF Restated
  <1>6. Valid(h2) = Valid(h)
    BY <1>4 DEF Restated, Valid
  <1> QED
    BY <1>5, <1>6 DEF h2

LEMMA DeleteLeafKeepsStore ==
    ASSUME NEW h, NEW r, NEW f \in BOOLEAN, Store(h, r, f),
           NEW u \in DOMAIN h, Pinpoint(h, r, u) = u
    PROVE  LET h2 == DeletedLeaf(h, DelimList(h, r, u), u)
           IN  Store(h2, r, f) /\ Valid(h2) = Valid(h) \ {u}
  <1> DEFINE h2 == DeletedLeaf(h, DelimList(h, r, u), u)
  <1>1. Sound(h, r) /\ h \in Heap
    BY DEF Store, Sound, Shaped
  <1>2. DelimList(h, r, u) \in Seq(DOMAIN h)
    BY <1>1, DelimListType
  <1>3. /\ h2 \in Heap /\ DOMAIN h2 = DOMAIN h
        /\ \A q \in DOMAIN h : SameLinks(h2[q], h[q]) /\ (h2[q].value <=> q # u /\ h[q].value)
        /\ Meant(h) => Meant(h2)
    BY <1>1, <1>2, DeletedLeafFacts
  <1> HIDE DEF h2
  <1>4. Store(h2, r, f)
    BY <1>3, StoreKept
  <1>5. Valid(h2) = Valid(h) \ {u}
    BY <1>3 DEF Valid
  <1> QED
    BY <1>4, <1>5 DEF h2

\* The pointer to a deleted delimiter stays, and leads to no node.
LEMMA DeleteDelimKeepsStore ==
    ASSUME NEW h, NEW r, NEW f \in BOOLEAN, Store(h, r, f),
           NEW u \in DOMAIN h, Pinpoint(h, r, u) = u
    PROVE  Store(DeletedDelim(h, DelimList(h, r, u), u), r, TRUE)
  <1> DEFINE list == DelimList(h, r, u)
             rest == LessOne(Traced(h, list, Stats_create), list)
             gone == {u} \cup Traversed(h, h[u].equal)
             h2 == DeletedDelim(h, list, u)
  <1>1. Sound(h, r) /\ Shaped(h, r) /\ h \in Heap /\ Meant(h)
    BY DEF Store, Sound, Shaped
  <1>2. list \in Seq(DOMAIN h)
    BY <1>1, DelimListType
  <1> HIDE DEF list
  <1>3. Restated(h, rest)
    BY <1>1, <1>2, DeletedRest
  <1>4. h2 = [q \in DOMAIN h \ gone |-> rest[q]]
    BY DEF DeletedDelim
  <1> HIDE DEF rest, h2
  <1>5. u \in Name /\ Len(u) \in Nat
    BY <1>1, HeapFacts, NameFacts
  <1>6. \A q \in gone : q = u \/ Len(q) > Len(u)
    BY <1>1, BelowIsLonger
  <1>7. u \in gone
    OBVIOUS
  <1> HIDE DEF gone
  <1>8. DOMAIN h2 = DOMAIN h \ gone /\ \A q \in DOMAIN h2 : h2[q] = rest[q]
    BY <1>4
  <1>9. h2 \in Heap
    <2>1. \A q \in DOMAIN h : rest[q] \in NodeType
      BY <1>3, HeapFacts DEF Restated
    <2>2. h2 \in [DOMAIN h \ gone -> NodeType]
      BY <1>4, <2>1
    <2>3. DOMAIN h \ gone \in SUBSET Name
      BY <1>1, HeapFacts
    <2> QED
      BY <2>2, <2>3 DEF Heap
  <1>10. DOMAIN h2 \subseteq DOMAIN h /\ \A q \in DOMAIN h2 : SameLinks(h2[q], h[q])
    BY <1>3, <1>8 DEF Restated
  <1>11. Meant(h2)
    <2>1. Meant(rest) /\ DOMAIN rest = DOMAIN h
      BY <1>1, <1>3, RestatedMeans DEF Restated
    <2> QED
      BY <1>8, <2>1 DEF Meant
  <1>12. PICK R, trail : Tree(h, r, R, trail)
    BY DEF Store
  <1> DEFINE R2 == {q \in R : \A i \in 1 .. Len(trail[q]) - 1 : trail[q][i] \in DOMAIN h2}
  <1>13. Sound(h2, r) /\ Tree(h2, r, R2, trail)
    BY <1>1, <1>9, <1>10, <1>12, CutTree
  <1>14. u \in R
    <2> DEFINE p == Walk(h, r, u)
    <2>1. Follows(h, r, u, p)
      BY <1>1, WalkFollows
    <2>2. Len(p) \in Nat \ {0} /\ p[Len(p)] = u
      BY <2>1, FollowsType DEF Pinpoint
    <2> HIDE DEF p
    <2>3. Len(p) \in 1 .. Len(p) /\ p[Len(p)] # Nil
      BY <1>5, <2>2 DEF Name
    <2>4. p[Len(p)] \in R
      BY <1>1, <1>12, <2>1, <2>3, AlongTrails
    <2> QED
      BY <2>2, <2>4
  <1>15. \A i \in 1 .. Len(trail[u]) - 1 : trail[u][i] \in DOMAIN h2
    <2> DEFINE p == trail[u]
    <2>1. Follows(h, r, u, p) /\ Len(p) \in Nat \ {0} /\ p[Len(p)] = u
      BY <1>12, <1>14, TrailFacts
    <2> HIDE DEF p
    <2>2. ASSUME NEW i \in 1 .. Len(p) - 1 PROVE p[i] \in DOMAIN h2
      <3>1. p[i] \in DOMAIN h /\ p[i] # u /\ p[i] \in Name
        BY <1>1, <1>5, <2>1, FollowsStep
      <3>2. Len(p[i]) <= Len(u)
        <4>1. i \in 1 .. Len(p) /\ Len(p) \in i .. Len(p) /\ p[Len(p)] # Nil
          BY <1>5, <2>1 DEF Name
        <4>2. Len(p[i]) <= Len(p[Len(p)])
          BY <1>1, <1>5, <2>1, <4>1, FollowsGrows
        <4> QED
          BY <2>1, <4>2
      <3>3. p[i] \notin gone
        <4>1. Len(p[i]) \in Nat
          BY <3>1, NameFacts
        <4> QED
          BY <1>5, <1>6, <3>1, <3>2, <4>1
      <3> QED
        BY <1>8, <3>1, <3>3
    <2> QED
      BY <2>2 DEF p
  <1>16. u \in R2 /\ u \notin DOMAIN h2
    BY <1>7, <1>8, <1>14, <1>15
  <1> HIDE DEF R2
  <1>17. ~(R2 \subseteq DOMAIN h2)
    BY <1>16
  <1>18. Store(h2, r, TRUE)
    BY <1>11, <1>13, <1>17 DEF Store
  <1> QED
    BY <1>18 DEF h2, list

-----------------------------------------------------------------------------
(* The requests *)

\* Inductive: the store, and what the type of the other variables is.
StoreInv == /\ Store(heap, root, freed)
            /\ freed \in BOOLEAN /\ calls \in Nat
            /\ fault \in {"none", "dangling", "recycled", "null"}

LEMMA StoreInvSound == StoreInv => StoreIsSound
  <1> SUFFICES ASSUME StoreInv PROVE StoreIsSound
    OBVIOUS
  <1>1. Store(heap, root, freed) /\ freed \in BOOLEAN
    BY DEF StoreInv
  <1>2. Shaped(heap, root) /\ heap \in Heap /\ Meant(heap)
    BY <1>1 DEF Store, Sound, Shaped
  <1>3. TypeOK
    <2>1. ASSUME NEW q \in DOMAIN heap
          PROVE  /\ {heap[q].low, heap[q].high, heap[q].equal} \subseteq Seq(Nat)
                 /\ heap[q].value \in BOOLEAN
                 /\ heap[q].stat.sum \in Int /\ heap[q].stat.n \in -1 .. CountWrap - 1
      <3>1. heap[q] \in NodeType
        BY <1>2, HeapFacts
      <3>2. heap[q].stat \in StatsType
        BY <3>1 DEF NodeType
      <3> QED
        BY <3>1, <3>2 DEF NodeType, StatsType, Pointer
    <2>2. root \in Seq(Nat)
      BY <1>2 DEF Shaped, Pointer
    <2> QED
      BY <2>1, <2>2 DEF TypeOK, StoreInv
  <1>4. SearchTree /\ DanglesOnceFreed
    BY <1>1, StoreFacts DEF SearchTree, DanglesOnceFreed
  <1>5. StatsWhereAssumed
    BY <1>2 DEF Meant, StatsWhereAssumed
  <1> QED
    BY <1>3, <1>4, <1>5 DEF StoreIsSound

LEMMA InitStore == Init => StoreInv
  <1> SUFFICES ASSUME Init PROVE StoreInv
    OBVIOUS
  <1>1. heap = <<>> /\ root = Nil /\ freed = FALSE /\ fault = "none" /\ calls = 0
    BY DEF Init
  <1>2. DOMAIN heap = {} /\ heap \in [{} -> NodeType]
    BY <1>1
  <1>3. Shaped(heap, root)
    <2>1. heap \in Heap
      BY <1>2 DEF Heap
    <2>2. root \in Pointer
      BY <1>1, EmptySeq DEF Pointer, Nil
    <2> QED
      BY <1>1, <1>2, <2>1, <2>2 DEF Shaped
  <1>4. Acyclic(heap)
    <2> DEFINE depth == [q \in {} |-> 0]
    <2>1. depth \in [DOMAIN heap -> 0 .. 0]
      BY <1>2
    <2>2. Deepens(heap, depth, 0)
      BY <1>2, <2>1 DEF Deepens
    <2> QED
      BY <2>2 DEF Acyclic
  <1>5. IsFiniteSet(DOMAIN heap)
    BY <1>2, FS_EmptySet
  <1>6. Tree(heap, root, {}, <<>>)
    BY <1>1 DEF Tree
  <1>7. Store(heap, root, freed)
    BY <1>1, <1>2, <1>3, <1>4, <1>5, <1>6 DEF Store, Sound, Meant
  <1> QED
    BY <1>1, <1>7 DEF StoreInv

LEMMA UrlsAreNames == \A u \in Urls : u \in Name
  BY UrlAssumption DEF Name, Nil

\* What a request does to the store.
LEMMA CreateKeeps ==
    ASSUME StoreInv, NEW u \in Urls, create_request(u)
    PROVE  StoreInv'
  <1>1. calls' \in Nat /\ freed \in BOOLEAN /\ Store(heap, root, freed)
    BY DEF StoreInv, create_request, Begins
  <1>2. CASE Meets("dangling") \/ Meets("recycled")
    BY <1>1, <1>2 DEF StoreInv, Meets
  <1>3. CASE ~Strays(u) /\ ~(Meets("dangling") \/ Meets("recycled"))
    <2>1. /\ heap' = Inserted(heap, root, u)
          /\ root' = IF root = Nil THEN NewNodes(Walk(heap, root, u), u)[1] ELSE root
          /\ freed' = freed /\ fault' = fault
      BY <1>3 DEF create_request, Answer
    <2>2. ~Lost(heap, root, u) /\ u \in Name
      BY <1>3, UrlsAreNames DEF Strays
    <2>3. Store(heap', root', freed')
      BY <1>1, <2>1, <2>2, InsertKeepsStore
    <2> QED
      BY <1>1, <2>1, <2>3 DEF StoreInv
  <1> QED
    BY <1>2, <1>3 DEF create_request

LEMMA UpdateKeeps ==
    ASSUME StoreInv, NEW u \in Urls, update_request(u)
    PROVE  StoreInv'
  <1>1. calls' \in Nat /\ freed \in BOOLEAN /\ Store(heap, root, freed) /\ Sound(heap, root)
    BY DEF StoreInv, update_request, Begins, Store
  <1>2. CASE UNCHANGED <<heap, root, freed>> /\ (fault' = fault \/ fault' \in {"dangling", "null"})
    BY <1>1, <1>2 DEF StoreInv
  <1>3. CASE ~(UNCHANGED <<heap, root, freed>> /\ (fault' = fault \/ fault' \in {"dangling", "null"}))
    <2>1. /\ ~Strays(u) /\ Pinpoint(heap, root, u) # Nil /\ heap[u].stat # NoStats
          /\ \E s \in Samplings : heap' = Traced(heap, DelimList(heap, root, u), Sampled(heap[u].stat, s))
          /\ root' = root /\ freed' = freed /\ fault' = fault
      BY <1>3 DEF update_request, Meets, Answer
    <2>2. Pinpoint(heap, root, u) = u /\ u \in DOMAIN heap
      <3>1. ~Lost(heap, root, u)
        BY <2>1 DEF Strays
      <3> QED
        BY <1>1, <2>1, <3>1, FoundIsLive
    <2>3. Store(heap', root', freed')
      BY <1>1, <2>1, <2>2, UpdateKeepsStore
    <2> QED
      BY <1>1, <2>1, <2>3 DEF StoreInv
  <1> QED
    BY <1>2, <1>3

LEMMA DeleteKeeps ==
    ASSUME StoreInv, NEW u \in Urls, delete_request(u)
    PROVE  StoreInv'
  <1>1. calls' \in Nat /\ freed \in BOOLEAN /\ Store(heap, root, freed) /\ Sound(heap, root)
    BY DEF StoreInv, delete_request, Begins, Store
  <1>2. CASE UNCHANGED <<heap, root, freed>> /\ (fault' = fault \/ fault' = "dangling")
    BY <1>1, <1>2 DEF StoreInv
  <1>3. CASE ~(UNCHANGED <<heap, root, freed>> /\ (fault' = fault \/ fault' = "dangling"))
    <2> DEFINE list == DelimList(heap, root, u)
    <2>1. /\ ~Strays(u) /\ Pinpoint(heap, root, u) # Nil
          /\ heap' = IF IsDelim(u) THEN DeletedDelim(heap, list, u) ELSE DeletedLeaf(heap, list, u)
          /\ freed' = (freed \/ IsDelim(u)) /\ root' = root /\ fault' = fault
      BY <1>3 DEF delete_request, Meets, Answer
    <2>2. Pinpoint(heap, root, u) = u /\ u \in DOMAIN heap
      <3>1. ~Lost(heap, root, u)
        BY <2>1 DEF Strays
      <3> QED
        BY <1>1, <2>1, <3>1, FoundIsLive
    <2>3. CASE IsDelim(u)
      <3>1. heap' = DeletedDelim(heap, list, u) /\ freed' = TRUE
        BY <2>1, <2>3
      <3>2. Store(heap', root', freed')
        BY <1>1, <2>1, <2>2, <3>1, DeleteDelimKeepsStore
      <3> QED
        BY <1>1, <2>1, <3>1, <3>2 DEF StoreInv
    <2>4. CASE ~IsDelim(u)
      <3>1. heap' = DeletedLeaf(heap, list, u) /\ freed' = freed
        BY <1>1, <2>1, <2>4
      <3>2. Store(heap', root', freed')
        BY <1>1, <2>1, <2>2, <3>1, DeleteLeafKeepsStore
      <3> QED
        BY <1>1, <2>1, <3>1, <3>2 DEF StoreInv
    <2> QED
      BY <2>3, <2>4
  <1> QED
    BY <1>2, <1>3

LEMMA NextKeeps == StoreInv /\ [Next]_vars => StoreInv'
  <1> SUFFICES ASSUME StoreInv, [Next]_vars PROVE StoreInv'
    OBVIOUS
  <1>1. ASSUME NEW u \in Urls, create_request(u) PROVE StoreInv'
    BY <1>1, CreateKeeps
  <1>2. ASSUME NEW u \in Urls, read_request(u) PROVE StoreInv'
    BY <1>2 DEF StoreInv, read_request, Begins, Meets, Answer
  <1>3. ASSUME NEW u \in Urls, update_request(u) PROVE StoreInv'
    BY <1>3, UpdateKeeps
  <1>4. ASSUME NEW u \in Urls, delete_request(u) PROVE StoreInv'
    BY <1>4, DeleteKeeps
  <1>5. CASE list_request
    <2>1. UNCHANGED <<heap, root, freed>> /\ (fault' = fault \/ fault' = "dangling") /\ calls' = calls + 1
      BY <1>5 DEF list_request, Begins, Meets, Answer
    <2> QED
      BY <2>1 DEF StoreInv
  <1>6. CASE UNCHANGED vars
    BY <1>6 DEF StoreInv, vars
  <1> QED
    BY <1>1, <1>2, <1>3, <1>4, <1>5, <1>6 DEF Next, process_request

LEMMA StoreInvAlways == Spec => []StoreInv
  <1> QED
    BY InitStore, NextKeeps, PTL DEF Spec

\* Whatever URLs there are and whatever is asked of them in whatever order,
\* every node is where the search for it looks until a node is freed, every
\* URL and delimiter has its Stats, and a pointer dangles from the first delete
\* of a delimiter on and never before.
THEOREM StoreAlwaysSound == Spec => []StoreIsSound
  <1> QED
    BY StoreInvAlways, StoreInvSound, PTL

-----------------------------------------------------------------------------
(* The set of URLs *)

\* What holds of the store while nothing has been freed.
LEMMA Unfreed ==
    ASSUME StoreInv, ~freed
    PROVE  /\ Store(heap, root, freed) /\ Sound(heap, root) /\ freed = FALSE
           /\ \A key : ~Lost(heap, root, key)
           /\ \A q \in DOMAIN heap : Pinpoint(heap, root, q) = q /\ q # Nil /\ heap[q].value \in BOOLEAN
           /\ Traversed(heap, root) = DOMAIN heap
           /\ \A u : Pinpoint(heap, root, u) # Nil => Pinpoint(heap, root, u) = u /\ u \in DOMAIN heap
           /\ Present = Valid(heap)
  <1>1. Store(heap, root, freed) /\ freed = FALSE /\ Sound(heap, root) /\ heap \in Heap
    BY DEF StoreInv, Store, Sound, Shaped
  <1>2. /\ \A key : ~Lost(heap, root, key)
        /\ \A q \in DOMAIN heap : Pinpoint(heap, root, q) = q
        /\ Traversed(heap, root) = DOMAIN heap
    BY <1>1, StoreFacts
  <1>3. \A q \in DOMAIN heap : q # Nil /\ heap[q].value \in BOOLEAN
    BY <1>1, HeapFacts DEF NodeType
  <1>4. \A u : Pinpoint(heap, root, u) # Nil => Pinpoint(heap, root, u) = u /\ u \in DOMAIN heap
    BY <1>1, <1>2, FoundIsLive
  <1> QED
    BY <1>1, <1>2, <1>3, <1>4 DEF Present, Valid

\* A request does what UrlMap's does, and meets no undefined behaviour.
Maps == fault' = "none" /\ Map!Next

LEMMA CreateMaps ==
    ASSUME StoreInv, ~freed, NEW u \in Urls, create_request(u)
    PROVE  Maps
  <1>1. /\ Store(heap, root, freed) /\ freed = FALSE /\ ~Lost(heap, root, u) /\ ~Strays(u)
        /\ Present = Valid(heap) /\ u \in Name
    BY Unfreed, UrlsAreNames DEF Strays
  <1>2. heap' = Inserted(heap, root, u) /\ reply' = Reply("create", TRUE, {}) /\ fault' = "none"
    BY <1>1 DEF create_request, Answer, Begins
  <1>3. Valid(heap') = Valid(heap) \cup {u}
    BY <1>1, <1>2, InsertKeepsStore
  <1>4. Present' = Present \cup {u}
    BY <1>1, <1>3 DEF Present, Valid
  <1>5. Map!Create(u)
    BY <1>2, <1>4 DEF Map!Create, Map!Reply, Reply
  <1> QED
    BY <1>2, <1>5 DEF Maps, Map!Next

LEMMA ReadMaps ==
    ASSUME StoreInv, ~freed, NEW u \in Urls, read_request(u)
    PROVE  Maps
  <1>1. ~Strays(u) /\ ((Pinpoint(heap, root, u) = u /\ heap[u].value) = (u \in Present))
    <2>1. \A q \in DOMAIN heap : Pinpoint(heap, root, q) = q /\ q # Nil /\ heap[q].value \in BOOLEAN
      BY Unfreed
    <2>2. Pinpoint(heap, root, u) # Nil => u \in DOMAIN heap
      BY Unfreed
    <2>3. u # Nil
      BY UrlsAreNames DEF Name
    <2>4. ~Strays(u)
      BY Unfreed DEF Strays
    <2> QED
      BY <2>1, <2>2, <2>3, <2>4 DEF Present
  <1>2. /\ reply' = Reply("read", Pinpoint(heap, root, u) = u /\ heap[u].value, {})
        /\ heap' = heap /\ fault' = "none"
    BY <1>1 DEF read_request, Answer, Begins
  <1>3. Present' = Present
    BY <1>2 DEF Present
  <1>4. Map!Read(u)
    BY <1>1, <1>2, <1>3 DEF Map!Read, Map!Reply, Reply
  <1> QED
    BY <1>2, <1>4 DEF Maps, Map!Next

LEMMA UpdateMaps ==
    ASSUME StoreInv, ~freed, NEW u \in Urls, Updatable(u), update_request(u)
    PROVE  Maps
  <1>1. /\ Store(heap, root, freed) /\ freed = FALSE
        /\ ~Strays(u) /\ ~Lost(heap, root, DebugParent) /\ Present = Valid(heap)
    BY Unfreed DEF Strays
  <1>2. CASE Pinpoint(heap, root, u) = Nil
    <2>1. u \notin Present
      BY <1>2, Unfreed DEF Present
    <2>2. heap' = heap /\ reply' = Reply("update", FALSE, {}) /\ fault' = "none"
      BY <1>1, <1>2 DEF update_request, Answer, Begins
    <2>3. Present' = Present
      BY <2>2 DEF Present
    <2>4. Map!Update(u)
      BY <2>1, <2>2, <2>3 DEF Map!Update, Map!Reply, Reply
    <2> QED
      BY <2>2, <2>4 DEF Maps, Map!Next
  <1>3. CASE Pinpoint(heap, root, u) # Nil
    <2>1. Pinpoint(heap, root, u) = u /\ u \in DOMAIN heap
      BY <1>3, Unfreed
    <2>2. heap[u].stat # NoStats /\ DebugParent \in DOMAIN heap
      BY <2>1 DEF Updatable
    <2>3. Pinpoint(heap, root, DebugParent) # Nil
      BY <2>2, Unfreed
    <2>4. PICK s \in Samplings :
              heap' = Traced(heap, DelimList(heap, root, u), Sampled(heap[u].stat, s))
      BY <1>1, <1>3, <2>2, <2>3 DEF update_request
    <2>5. reply' = Reply("update", TRUE, {}) /\ fault' = "none"
      BY <1>1, <1>3, <2>2, <2>3 DEF update_request, Answer, Begins
    <2>6. Valid(heap') = Valid(heap)
      BY <1>1, <2>1, <2>2, <2>4, UpdateKeepsStore
    <2>7. Present' = Present
      BY <1>1, <2>6 DEF Present, Valid
    <2>8. Map!Update(u)
      BY <2>5, <2>7 DEF Map!Update, Map!Reply, Reply
    <2> QED
      BY <2>5, <2>8 DEF Maps, Map!Next
  <1> QED
    BY <1>2, <1>3

LEMMA DeleteMaps ==
    ASSUME StoreInv, ~freed, NEW u \in Urls, ~IsDelim(u), delete_request(u)
    PROVE  Maps
  <1>1. /\ Store(heap, root, freed) /\ freed = FALSE
        /\ ~Strays(u) /\ Present = Valid(heap)
    BY Unfreed DEF Strays
  <1>2. CASE Pinpoint(heap, root, u) = Nil
    <2>1. u \notin Present
      BY <1>2, Unfreed DEF Present
    <2>2. heap' = heap /\ reply' = Reply("delete", FALSE, {}) /\ fault' = "none"
      BY <1>1, <1>2 DEF delete_request, Answer, Begins
    <2>3. Present' = Present \ {u}
      BY <2>1, <2>2 DEF Present
    <2>4. Map!Delete(u)
      BY <2>1, <2>2, <2>3 DEF Map!Delete, Map!Reply, Reply
    <2> QED
      BY <2>2, <2>4 DEF Maps, Map!Next
  <1>3. CASE Pinpoint(heap, root, u) # Nil
    <2>1. Pinpoint(heap, root, u) = u /\ u \in DOMAIN heap
      BY <1>3, Unfreed
    <2>2. /\ heap' = DeletedLeaf(heap, DelimList(heap, root, u), u)
          /\ reply' = Reply("delete", TRUE, {}) /\ fault' = "none"
      BY <1>1, <1>3 DEF delete_request, Answer, Begins
    <2>3. Valid(heap') = Valid(heap) \ {u}
      BY <1>1, <2>1, <2>2, DeleteLeafKeepsStore
    <2>4. Present' = Present \ {u}
      BY <1>1, <2>3 DEF Present, Valid
    <2>5. Map!Delete(u)
      BY <2>2, <2>4 DEF Map!Delete, Map!Reply, Reply
    <2> QED
      BY <2>2, <2>5 DEF Maps, Map!Next
  <1> QED
    BY <1>2, <1>3

LEMMA ListMaps ==
    ASSUME StoreInv, ~freed, list_request
    PROVE  Maps
  <1>1. ~Lost(heap, root, DebugUrl) /\ Traversed(heap, root) = DOMAIN heap
    BY Unfreed
  <1>2. reply' = Reply("list", TRUE, Present) /\ heap' = heap /\ fault' = "none"
    BY <1>1 DEF list_request, Answer, Begins, Present
  <1>3. Present' = Present
    BY <1>2 DEF Present
  <1>4. Map!List
    BY <1>2, <1>3 DEF Map!List, Map!Reply, Reply
  <1> QED
    BY <1>2, <1>4 DEF Maps, Map!Next

LEMMA LeafMaps == StoreInv /\ ~freed /\ LeafNext => Maps
  BY CreateMaps, ReadMaps, UpdateMaps, DeleteMaps, ListMaps DEF LeafNext

\* Whatever the URLs are: until a node is freed, requests about URLs that do
\* not end in '/' follow neither NULL nor a freed node, and are the requests
\* of a set of URLs.
THEOREM AlwaysSafeUntilFreed == Spec => SafeUntilFreed
  <1>1. Init => Map!Init
    BY DEF Init, Map!Init, Present, Map!Reply, Reply
  <1>2. StoreInv /\ [Next]_vars => [~freed /\ LeafNext => fault' = "none"]_vars
    BY LeafMaps DEF Maps
  <1>3. StoreInv /\ [Next]_vars => [~freed /\ LeafNext => Map!Next]_vars
    BY LeafMaps DEF Maps
  <1> QED
    BY <1>1, <1>2, <1>3, StoreInvAlways, PTL DEF Spec, SafeUntilFreed, NothingBroken, IsUrlMap

-----------------------------------------------------------------------------
(* The plain tree, TSTree, on the same shape *)

CONSTANTS Key, Asked, Value, NoValue
VARIABLES nodes, top, words, gone

Plain == INSTANCE TSTree WITH heap <- nodes, root <- top

LEMMA PlainOperators ==
    /\ \A h, r, key : /\ Plain!Walk(h, r, key) = Walk(h, r, key)
                      /\ Plain!Pinpoint(h, r, key) = Pinpoint(h, r, key)
    /\ \A h, r : Plain!Traversed(h, r) = Traversed(h, r)
    /\ Plain!Nil = Nil /\ \A S : Plain!Max(S) = Max(S)
    /\ \A s, t : /\ Plain!IsPrefix(s, t) = IsPrefix(s, t)
                 /\ Plain!IsStrictPrefix(s, t) = IsStrictPrefix(s, t)
                 /\ Plain!Front(s) = Front(s)
  <1>1. \A h, r, key : Plain!Walk(h, r, key) = Walk(h, r, key)
    BY DEF Plain!Walk, Walk, Plain!Towards, Towards, Plain!Last, Last, Plain!Cardinality, Cardinality
  <1>2. \A h, r, key : Plain!Pinpoint(h, r, key) = Pinpoint(h, r, key)
    BY <1>1 DEF Plain!Pinpoint, Pinpoint, Plain!Last, Last
  <1>3. \A h, r : Plain!Traversed(h, r) = Traversed(h, r)
    BY DEF Plain!Traversed, Traversed, Plain!Nil, Nil, Plain!Cardinality, Cardinality
  <1>4. Plain!Nil = Nil /\ \A S : Plain!Max(S) = Max(S)
    BY DEF Plain!Nil, Nil, Plain!Max, Max
  <1>5. \A s, t : /\ Plain!IsPrefix(s, t) = IsPrefix(s, t)
                  /\ Plain!IsStrictPrefix(s, t) = IsStrictPrefix(s, t)
                  /\ Plain!Front(s) = Front(s)
    BY DEF Plain!IsPrefix, IsPrefix, Plain!IsStrictPrefix, IsStrictPrefix, Plain!Front, Front
  <1> QED
    BY <1>1, <1>2, <1>3, <1>4, <1>5

LEMMA IteratesOnce ==
    ASSUME NEW n \in Nat, NEW a, NEW G, NEW f, NEW g, Iterates(f, n, a, G), Iterates(g, n, a, G)
    PROVE  f[n] = g[n]
  <1> DEFINE T == {i \in Nat : i <= n => f[i] = g[i]}
  <1>1. 0 \in T
    <2>1. 0 \in 0 .. n
      OBVIOUS
    <2> QED
      BY <2>1 DEF Iterates
  <1>2. ASSUME NEW i \in T PROVE i + 1 \in T
    <2>1. i \in Nat /\ (i + 1 <= n => i + 1 \in 0 .. n /\ i + 1 # 0 /\ (i + 1) - 1 = i /\ f[i] = g[i])
      BY <1>2
    <2>2. i + 1 <= n => f[i + 1] = G[<<i + 1, f[i]>>] /\ g[i + 1] = G[<<i + 1, g[i]>>]
      BY <2>1 DEF Iterates
    <2> QED
      BY <2>1, <2>2
  <1>3. T = Nat
    BY <1>1, <1>2, ByInduction
  <1>4. n \in T
    <2> HIDE DEF T
    <2> QED
      BY <1>3
  <1> QED
    BY <1>4

LEMMA LevelsOnce ==
    ASSUME NEW h, IsFiniteSet(DOMAIN h), NEW s, NEW S, NEW S2, Levels(h, s, S), Levels(h, s, S2)
    PROVE  S = S2
  <1> DEFINE N == Cardinality(DOMAIN h)
             Round(R) == R \cup UNION {Kids(h, q) : q \in R \cap DOMAIN h}
  <1>1. PICK t : t[0] = {s} \ {Nil} /\ (\A i \in 1 .. N : t[i] = Round(t[i - 1])) /\ S = t[N]
    BY DEF Levels
  <1>2. PICK u : u[0] = {s} \ {Nil} /\ (\A i \in 1 .. N : u[i] = Round(u[i - 1])) /\ S2 = u[N]
    BY DEF Levels
  <1>3. N \in Nat
    BY FS_CardinalityType
  <1> HIDE DEF N, Round
  <1> DEFINE T == {n \in Nat : n <= N => t[n] = u[n]}
  <1>4. 0 \in T
    BY <1>1, <1>2
  <1>5. ASSUME NEW n \in T PROVE n + 1 \in T
    <2>1. n \in Nat /\ (n + 1 <= N => n + 1 \in 1 .. N /\ (n + 1) - 1 = n /\ t[n] = u[n])
      BY <1>3, <1>5
    <2>2. n + 1 <= N => t[n + 1] = u[n + 1]
      BY <1>1, <1>2, <2>1
    <2> QED
      BY <2>1, <2>2
  <1>6. T = Nat
    BY <1>4, <1>5, ByInduction
  <1>7. N \in T
    <2> HIDE DEF T
    <2> QED
      BY <1>3, <1>6
  <1> QED
    BY <1>1, <1>2, <1>3, <1>7

LEMMA TraversedAlike ==
    ASSUME NEW h, NEW r, Shaped(h, r), IsFiniteSet(DOMAIN h), NEW s \in Pointer,
           NEW h2, Alike(h2, h)
    PROVE  Traversed(h2, s) = Traversed(h, s)
  <1>1. Levels(h, s, Traversed(h2, s))
    BY TraversedIterates
  <1>2. Levels(h, s, Traversed(h, s))
    <2>1. Alike(h, h)
      BY AlikeSelf
    <2> QED
      BY <2>1, TraversedIterates
  <1> QED
    BY <1>1, <1>2, LevelsOnce

PlainNode == [low : Pointer, high : Pointer, equal : Pointer, value : Value \cup {NoValue}]
PlainHeap == UNION {[D -> PlainNode] : D \in SUBSET Name}

LEMMA PlainHeapFacts ==
    ASSUME NEW h \in PlainHeap
    PROVE  /\ DOMAIN h \subseteq Name /\ h \in [DOMAIN h -> PlainNode]
           /\ \A q \in DOMAIN h : h[q] \in PlainNode /\ q \in Name /\ q # Nil
  BY DEF PlainHeap, Name

\* A store with the pointers of a plain tree.
Bare(h) == [q \in DOMAIN h |-> [low |-> h[q].low, high |-> h[q].high, equal |-> h[q].equal,
                                value |-> FALSE, stat |-> Stats_create]]

PlainTree(h, r) == h \in PlainHeap /\ Store(Bare(h), r, FALSE)

LEMMA BareFacts ==
    ASSUME NEW h \in PlainHeap
    PROVE  /\ Bare(h) \in Heap /\ DOMAIN Bare(h) = DOMAIN h /\ Alike(h, Bare(h)) /\ Meant(Bare(h))
           /\ \A q \in DOMAIN h : SameLinks(Bare(h)[q], h[q])
  <1>1. DOMAIN Bare(h) = DOMAIN h /\ \A q \in DOMAIN h : SameLinks(Bare(h)[q], h[q])
    BY DEF Bare, SameLinks
  <1>2. Stats_create \in LiveStats
    BY StatsIsLive DEF Stats_create
  <1>3. \A q \in DOMAIN h : Bare(h)[q] \in NodeType /\ Bare(h)[q].stat # NoStats
    BY <1>2, PlainHeapFacts DEF Bare, NodeType, PlainNode, LiveStats
  <1>4. Bare(h) = [q \in DOMAIN h |-> Bare(h)[q]]
    BY DEF Bare
  <1>5. Bare(h) \in [DOMAIN h -> NodeType] /\ DOMAIN h \in SUBSET Name
    BY <1>3, <1>4, PlainHeapFacts
  <1>6. Bare(h) \in Heap
    BY <1>5 DEF Heap
  <1> QED
    BY <1>1, <1>3, <1>6 DEF Alike, SameLinks, Meant

\* Searches go the way they go in the store, and find every node.
LEMMA PlainSearches ==
    ASSUME NEW h, NEW r, PlainTree(h, r)
    PROVE  /\ Sound(Bare(h), r) /\ Shaped(Bare(h), r)
           /\ \A key : Walk(h, r, key) = Walk(Bare(h), r, key)
           /\ Traversed(h, r) = DOMAIN h
           /\ \A q \in DOMAIN h : Pinpoint(h, r, q) = q
           /\ \A key : Pinpoint(h, r, key) = Nil \/ (Pinpoint(h, r, key) = key /\ key \in DOMAIN h)
  <1> DEFINE g == Bare(h)
  <1>1. h \in PlainHeap /\ Store(g, r, FALSE) /\ Sound(g, r) /\ Shaped(g, r)
        /\ IsFiniteSet(DOMAIN g) /\ r \in Pointer
    BY DEF PlainTree, Store, Sound, Shaped
  <1>2. DOMAIN g = DOMAIN h /\ Alike(h, g)
    BY <1>1, BareFacts
  <1> HIDE DEF g
  <1>3. ASSUME NEW key PROVE Walk(h, r, key) = Walk(g, r, key)
    <2>1. PICK w \in [0 .. Cardinality(DOMAIN g) -> Seq(Pointer)] :
              /\ Iterates(w, Cardinality(DOMAIN g), <<r>>, Onward(g, key))
              /\ Walk(h, r, key) = w[Cardinality(DOMAIN g)]
      BY <1>1, <1>2, WalkIterates
    <2>2. PICK w2 \in [0 .. Cardinality(DOMAIN g) -> Seq(Pointer)] :
              /\ Iterates(w2, Cardinality(DOMAIN g), <<r>>, Onward(g, key))
              /\ Walk(g, r, key) = w2[Cardinality(DOMAIN g)]
      <3>1. Alike(g, g)
        BY AlikeSelf
      <3> QED
        BY <1>1, <3>1, WalkIterates
    <2>3. Cardinality(DOMAIN g) \in Nat
      BY <1>1, FS_CardinalityType
    <2> QED
      BY <2>1, <2>2, <2>3, IteratesOnce
  <1>4. Traversed(g, r) = DOMAIN g /\ (\A q \in DOMAIN g : Pinpoint(g, r, q) = q)
        /\ \A key : ~Lost(g, r, key)
    BY <1>1, StoreFacts
  <1>5. Traversed(h, r) = Traversed(g, r)
    BY <1>1, <1>2, TraversedAlike
  <1>6. \A key : Pinpoint(h, r, key) = Pinpoint(g, r, key)
    BY <1>3 DEF Pinpoint
  <1>7. \A key : Pinpoint(g, r, key) = Nil \/ (Pinpoint(g, r, key) = key /\ key \in DOMAIN g)
    BY <1>1, <1>4, FoundIsLive
  <1> QED
    BY <1>1, <1>2, <1>3, <1>4, <1>5, <1>6, <1>7 DEF g

\* A tree without a root has no nodes.
LEMMA RootOfNode ==
    ASSUME NEW h, NEW r, PlainTree(h, r), DOMAIN h # {}
    PROVE  r # Nil
  <1> SUFFICES ASSUME r = Nil PROVE FALSE
    OBVIOUS
  <1> DEFINE g == Bare(h)
  <1>1. /\ Shaped(g, r) /\ IsFiniteSet(DOMAIN g) /\ Store(g, r, FALSE) /\ DOMAIN g = DOMAIN h
        /\ r \in Pointer
    BY BareFacts DEF PlainTree, Store, Sound, Shaped
  <1>2. Traversed(g, r) = DOMAIN g
    BY <1>1, StoreFacts
  <1> HIDE DEF g
  <1> DEFINE S == {}
  <1>3. Traversed(g, r) \subseteq S
    <2>1. \A q \in S \cap DOMAIN g : Kids(g, q) \subseteq S
      BY DEF S
    <2> HIDE DEF S
    <2> QED
      BY <1>1, <2>1, TraversedWithin
  <1> QED
    BY <1>1, <1>2, <1>3

-----------------------------------------------------------------------------
(* Calls on the plain tree *)

PlainPlaced(h, path, key, v, q) ==
    LET new == NewNodes(path, key)
    IN  IF q \in Range(new)
        THEN [low |-> Nil, high |-> Nil, value |-> IF q = key THEN v ELSE NoValue,
              equal |-> IF q = key THEN Nil ELSE SubSeq(key, 1, Len(q) + 1)]
        ELSE IF q = key /\ h[q].value = NoValue THEN [h[q] EXCEPT !.value = v]
        ELSE IF new # <<>> /\ q = path[Len(path) - 1] THEN Linked(h, q, key, new[1])
        ELSE h[q]

PlainInserted(h, r, key, v) ==
    [q \in DOMAIN h \cup Range(NewNodes(Walk(h, r, key), key)) |->
        PlainPlaced(h, Walk(h, r, key), key, v, q)]

LEMMA InsertIsPlaced ==
    ASSUME NEW key, NEW v, Plain!TSTree_insert(key, v)
    PROVE  /\ nodes' = PlainInserted(nodes, top, key, v)
           /\ top' = IF top = Nil THEN NewNodes(Walk(nodes, top, key), key)[1] ELSE top
           /\ words' = [w \in DOMAIN words \cup {key} |-> IF w \in DOMAIN words THEN words[w] ELSE v]
           /\ gone' = gone \ {key}
  BY DEF Plain!TSTree_insert, PlainInserted, PlainPlaced, Plain!NewNode, Plain!NewNodes, NewNodes,
         Plain!Walk, Walk, Plain!Towards, Towards, Plain!Last, Last, Plain!Cardinality, Cardinality,
         Plain!Linked, Linked, Plain!ToSet, Range, Plain!Nil, Nil

\* What an insert makes of the values, and which nodes end a way down.
Filled(h, key, v, h2) ==
    /\ DOMAIN h \cup {key} \subseteq DOMAIN h2
    /\ \A q \in DOMAIN h2 :
          /\ h2[q].value = IF q \in DOMAIN h /\ (q = key => h[q].value # NoValue) THEN h[q].value
                           ELSE IF q = key THEN v ELSE NoValue
          /\ h2[q].equal = Nil => q = key \/ (q \in DOMAIN h /\ h[q].equal = Nil)

LEMMA PlainLinked ==
    ASSUME NEW h, NEW g, NEW q, h[q] \in PlainNode, g[q] \in NodeType, SameLinks(g[q], h[q]),
           NEW key, NEW child \in Pointer \ {Nil}
    PROVE  LET node == Linked(h, q, key, child)
           IN  /\ node \in PlainNode /\ node.value = h[q].value
               /\ node.equal = Nil => h[q].equal = Nil
               /\ SameLinks(node, Linked(g, q, key, child))
  <1> DEFINE node == h[q]
             other == g[q]
             Is(x, y) == /\ x \in PlainNode /\ x.value = node.value
                         /\ x.equal = Nil => node.equal = Nil
                         /\ SameLinks(x, y)
  <1>1. node \in PlainNode /\ other \in NodeType /\ SameLinks(other, node)
    OBVIOUS
  <1>2. CASE key[Len(q)] < Last(q)
    <2>1. Linked(h, q, key, child) = [node EXCEPT !.low = child]
          /\ Linked(g, q, key, child) = [other EXCEPT !.low = child]
      BY <1>2 DEF Linked
    <2> HIDE DEF node, other
    <2> QED
      BY <1>1, <2>1 DEF PlainNode, NodeType, SameLinks, node
  <1>3. CASE ~(key[Len(q)] < Last(q)) /\ key[Len(q)] > Last(q)
    <2>1. Linked(h, q, key, child) = [node EXCEPT !.high = child]
          /\ Linked(g, q, key, child) = [other EXCEPT !.high = child]
      BY <1>3 DEF Linked
    <2> HIDE DEF node, other
    <2> QED
      BY <1>1, <2>1 DEF PlainNode, NodeType, SameLinks, node
  <1>4. CASE ~(key[Len(q)] < Last(q)) /\ ~(key[Len(q)] > Last(q))
    <2>1. Linked(h, q, key, child) = [node EXCEPT !.equal = child]
          /\ Linked(g, q, key, child) = [other EXCEPT !.equal = child]
      BY <1>4 DEF Linked
    <2> HIDE DEF node, other
    <2> QED
      BY <1>1, <2>1 DEF PlainNode, NodeType, SameLinks, node
  <1> QED
    BY <1>2, <1>3, <1>4

\* A key that is not there yet.
LEMMA InsertsNew ==
    ASSUME NEW h, NEW r, PlainTree(h, r), NEW key \in Name, NEW v \in Value,
           Last(Walk(h, r, key)) = Nil
    PROVE  LET h2 == PlainInserted(h, r, key, v)
               r2 == IF r = Nil THEN NewNodes(Walk(h, r, key), key)[1] ELSE r
           IN  PlainTree(h2, r2) /\ Filled(h, key, v, h2)
  <1> DEFINE g == Bare(h)
             path == Walk(h, r, key)
             F == Fresh(path, key)
             P(q) == PlainPlaced(h, path, key, v, q)
             h2 == PlainInserted(h, r, key, v)
             r2 == IF r = Nil THEN NewNodes(path, key)[1] ELSE r
             first == Prefix(key, From(path, key))
  <1>1. /\ h \in PlainHeap /\ Store(g, r, FALSE) /\ Sound(g, r) /\ path = Walk(g, r, key)
        /\ g \in Heap /\ DOMAIN g = DOMAIN h /\ \A q \in DOMAIN h : SameLinks(g[q], h[q])
    BY PlainSearches, BareFacts DEF PlainTree
  <1>2. Ends(g, r, key, path)
    <2>1. Follows(g, r, key, path)
      BY <1>1, WalkFollows
    <2>2. Last(path) = path[Len(path)]
      BY <2>1, FollowsType
    <2> QED
      BY <1>1, <2>2 DEF Ends
  <1>3. PICK R, trail : Tree(g, r, R, trail) /\ R = DOMAIN g
    BY <1>1 DEF Store
  <1>4. F \cap DOMAIN h = {}
    BY <1>1, <1>2, <1>3, FreshIsNew
  <1>5. /\ Range(NewNodes(path, key)) = F /\ NewNodes(path, key)[1] = first
        /\ NewNodes(path, key) # <<>> /\ key \in F
    BY <1>2, NewNodesFacts
  <1>6. DOMAIN h2 = DOMAIN h \cup F /\ h2 = [q \in DOMAIN h2 |-> h2[q]]
        /\ \A q \in DOMAIN h2 : h2[q] = P(q)
    BY <1>5 DEF PlainInserted
  <1>7. From(path, key) \in 1 .. Len(key) /\ Len(key) \in Nat \ {0}
    BY <1>2, EndsFacts
  <1> HIDE DEF g, path, h2
  <1>8. first \in Pointer \ {Nil}
    BY <1>7, PrefixFacts DEF Name, Pointer
  <1>9. ASSUME NEW q \in F
        PROVE  /\ P(q) \in PlainNode /\ P(q).low = Nil /\ P(q).high = Nil
               /\ P(q).equal = IF q = key THEN Nil ELSE Prefix(key, Len(q) + 1)
               /\ P(q).value = IF q = key THEN v ELSE NoValue
               /\ P(q).equal = Nil => q = key
               /\ q = key <=> Len(q) = Len(key)
    <2>1. Len(q) \in From(path, key) .. Len(key) /\ q = Prefix(key, Len(q))
      BY <1>2, FreshFacts
    <2>2. Len(q) \in 1 .. Len(key) /\ (Len(q) # Len(key) => Len(q) + 1 \in 1 .. Len(key))
      BY <1>7, <2>1
    <2>3. Len(q) = Len(key) => q = key
      BY <2>1, <2>2, PrefixFacts
    <2>4. q # key => Prefix(key, Len(q) + 1) \in Pointer \ {Nil}
      BY <2>2, <2>3, PrefixFacts DEF Name, Pointer
    <2>5. P(q) = [low |-> Nil, high |-> Nil, value |-> IF q = key THEN v ELSE NoValue,
                  equal |-> IF q = key THEN Nil ELSE Prefix(key, Len(q) + 1)]
      BY <1>5 DEF PlainPlaced, Prefix
    <2>6. Nil \in Pointer
      BY EmptySeq DEF Nil, Pointer
    <2> HIDE DEF P
    <2> QED
      BY <2>3, <2>4, <2>5, <2>6 DEF PlainNode
  <1>10. ASSUME NEW q \in DOMAIN h
         PROVE  /\ P(q) \in PlainNode /\ q # key /\ P(q).value = h[q].value
                /\ P(q).equal = Nil => h[q].equal = Nil
                /\ IF q = path[Len(path) - 1] THEN SameLinks(P(q), Linked(g, q, key, first))
                   ELSE SameLinks(P(q), g[q])
    <2>1. q \notin F /\ q # key /\ h[q] \in PlainNode /\ g[q] \in NodeType /\ SameLinks(g[q], h[q])
      BY <1>1, <1>4, <1>5, PlainHeapFacts, HeapFacts
    <2>2. P(q) = IF q = path[Len(path) - 1] THEN Linked(h, q, key, first) ELSE h[q]
      BY <1>5, <2>1 DEF PlainPlaced
    <2> HIDE DEF P, F, first
    <2>3. CASE q = path[Len(path) - 1]
      BY <1>8, <2>1, <2>2, <2>3, PlainLinked
    <2>4. CASE q # path[Len(path) - 1]
      BY <2>1, <2>2, <2>4 DEF SameLinks
    <2> QED
      BY <2>3, <2>4
  <1> HIDE DEF P
  <1>11. h2 \in PlainHeap
    <2>1. DOMAIN h2 \in SUBSET Name
      BY <1>1, <1>2, <1>6, FreshFacts, PlainHeapFacts
    <2>2. h2 \in [DOMAIN h2 -> PlainNode]
      BY <1>6, <1>9, <1>10
    <2> QED
      BY <2>1, <2>2 DEF PlainHeap
  <1> DEFINE g2 == Bare(h2)
  <1>12. g2 \in Heap /\ DOMAIN g2 = DOMAIN h2 /\ Meant(g2) /\ \A q \in DOMAIN h2 : SameLinks(g2[q], h2[q])
    BY <1>11, BareFacts
  <1> HIDE DEF g2
  <1>13. Grown(g, r, key, path, g2, r2)
    <2>1. ASSUME NEW m \in From(path, key) .. Len(key)
          PROVE  LET node == g2[Prefix(key, m)]
                 IN  /\ node.low = Nil /\ node.high = Nil
                     /\ node.equal = IF m = Len(key) THEN Nil ELSE Prefix(key, m + 1)
      <3> DEFINE q == Prefix(key, m)
      <3>1. q \in F
        BY DEF Fresh
      <3>2. Len(q) = m
        <4>1. m \in 1 .. Len(key)
          BY <1>7
        <4> QED
          BY <4>1, PrefixFacts
      <3> HIDE DEF q
      <3>3. SameLinks(g2[q], P(q))
        BY <1>6, <1>12, <3>1 DEF SameLinks
      <3>4. /\ P(q).low = Nil /\ P(q).high = Nil
            /\ P(q).equal = IF m = Len(key) THEN Nil ELSE Prefix(key, m + 1)
        BY <1>9, <3>1, <3>2
      <3> QED
        BY <3>3, <3>4 DEF SameLinks, q
    <2>2. ASSUME NEW q \in DOMAIN g \ F
          PROVE  IF r # Nil /\ q = path[Len(path) - 1]
                 THEN SameLinks(g2[q], Linked(g, q, key, first))
                 ELSE SameLinks(g2[q], g[q])
      <3>1. q \in DOMAIN h /\ SameLinks(g2[q], P(q))
        BY <1>1, <1>6, <1>12
      <3>2. IF q = path[Len(path) - 1] THEN SameLinks(P(q), Linked(g, q, key, first))
            ELSE SameLinks(P(q), g[q])
        BY <1>10, <3>1
      <3>3. r # Nil
        BY <1>1, <3>1, RootOfNode DEF g
      <3> QED
        BY <3>1, <3>2, <3>3 DEF SameLinks
    <2> QED
      BY <1>1, <1>5, <1>6, <1>12, <2>1, <2>2 DEF Grown
  <1>14. Store(g2, r2, FALSE)
    <2> HIDE DEF r2, F
    <2>1. Sound(g2, r2)
      BY <1>2, <1>3, <1>13, GrownSound
    <2>2. \E trail2 : Tree(g2, r2, R \cup F, trail2)
      BY <1>2, <1>3, <1>13, GrownTree DEF F
    <2>3. R \cup F = DOMAIN g2
      BY <1>1, <1>3, <1>6, <1>12
    <2> QED
      BY <1>12, <2>1, <2>2, <2>3 DEF Store
  <1>15. Filled(h, key, v, h2)
    BY <1>4, <1>5, <1>6, <1>9, <1>10 DEF Filled
  <1> QED
    BY <1>11, <1>14, <1>15 DEF PlainTree, g2, h2, path

\* A key that is there: the one change is to a value that was missing.
LEMMA InsertsAgain ==
    ASSUME NEW h, NEW r, PlainTree(h, r), NEW key \in Name, NEW v \in Value,
           Last(Walk(h, r, key)) # Nil
    PROVE  LET h2 == PlainInserted(h, r, key, v)
           IN  r # Nil /\ PlainTree(h2, r) /\ Filled(h, key, v, h2)
  <1> DEFINE path == Walk(h, r, key)
             P(q) == PlainPlaced(h, path, key, v, q)
             h2 == PlainInserted(h, r, key, v)
  <1>1. Last(path) = key /\ key \in DOMAIN h
    BY PlainSearches DEF Pinpoint
  <1>2. r # Nil
    BY <1>1, RootOfNode
  <1>3. NewNodes(path, key) = <<>> /\ Range(<<>>) = {}
    BY <1>1 DEF NewNodes, Range
  <1>4. DOMAIN h2 = DOMAIN h /\ h2 = [q \in DOMAIN h2 |-> h2[q]] /\ \A q \in DOMAIN h2 : h2[q] = P(q)
    BY <1>3 DEF PlainInserted
  <1>5. h \in PlainHeap /\ Store(Bare(h), r, FALSE)
    BY DEF PlainTree
  <1> HIDE DEF path, h2
  <1>6. ASSUME NEW q \in DOMAIN h
        PROVE  /\ P(q) \in PlainNode /\ SameLinks(P(q), h[q])
               /\ P(q).value = IF q = key => h[q].value # NoValue THEN h[q].value ELSE v
    <2>1. h[q] \in PlainNode
      BY <1>5, PlainHeapFacts
    <2>2. P(q) = IF q = key /\ h[q].value = NoValue THEN [h[q] EXCEPT !.value = v] ELSE h[q]
      BY <1>3 DEF PlainPlaced
    <2> HIDE DEF P
    <2> QED
      BY <2>1, <2>2 DEF PlainNode, SameLinks
  <1> HIDE DEF P
  <1>7. h2 \in PlainHeap
    BY <1>4, <1>5, <1>6, PlainHeapFacts DEF PlainHeap
  <1>8. \A q \in DOMAIN h : SameLinks(Bare(h2)[q], Bare(h)[q])
    <2>1. \A q \in DOMAIN h : SameLinks(Bare(h2)[q], h2[q]) /\ SameLinks(Bare(h)[q], h[q])
      BY <1>4, <1>5, <1>7, BareFacts
    <2> QED
      BY <1>4, <1>6, <2>1 DEF SameLinks
  <1>9. Store(Bare(h2), r, FALSE)
    <2>1. DOMAIN Bare(h2) = DOMAIN Bare(h) /\ DOMAIN Bare(h) = DOMAIN h /\ Bare(h2) \in Heap /\ Meant(Bare(h2))
      BY <1>4, <1>5, <1>7, BareFacts
    <2> QED
      BY <1>5, <1>8, <2>1, StoreKept
  <1>10. Filled(h, key, v, h2)
    BY <1>1, <1>4, <1>6 DEF Filled, SameLinks
  <1> QED
    BY <1>2, <1>7, <1>9, <1>10 DEF PlainTree, h2

\* A tree without nodes.
LEMMA EmptyTree ==
    ASSUME NEW h, DOMAIN h = {}, h = [q \in DOMAIN h |-> h[q]]
    PROVE  PlainTree(h, Nil)
  <1>1. h \in [{} -> PlainNode] /\ {} \in SUBSET Name
    OBVIOUS
  <1>2. h \in PlainHeap
    BY <1>1 DEF PlainHeap
  <1> DEFINE g == Bare(h)
  <1>3. g \in Heap /\ DOMAIN g = {} /\ Meant(g)
    BY <1>2, BareFacts
  <1> HIDE DEF g
  <1>4. Shaped(g, Nil)
    BY <1>3, EmptySeq DEF Shaped, Pointer, Nil
  <1>5. Sound(g, Nil)
    <2>1. IsFiniteSet({})
      BY FS_EmptySet
    <2>2. Acyclic(g)
      <3>1. Deepens(g, [q \in {} |-> 0], 0)
        BY <1>3 DEF Deepens
      <3> QED
        BY <3>1 DEF Acyclic
    <2> QED
      BY <1>3, <1>4, <2>1, <2>2 DEF Sound
  <1>6. Tree(g, Nil, {}, <<>>)
    BY <1>3 DEF Tree
  <1>7. Store(g, Nil, FALSE)
    BY <1>3, <1>5, <1>6 DEF Store
  <1> QED
    BY <1>2, <1>7 DEF PlainTree, g

-----------------------------------------------------------------------------
(* The invariant of the plain tree *)

ValuesAreWords ==
    \A q \in DOMAIN nodes : nodes[q].value = IF q \in DOMAIN words THEN words[q] ELSE NoValue

\* Every way down ends at a key that was inserted.
EndsAreKeys == \A q \in DOMAIN nodes : nodes[q].equal = Nil => q \in DOMAIN words \cup gone

PlainInv ==
    /\ PlainTree(nodes, top)
    /\ words \in [DOMAIN words -> Value]
    /\ DOMAIN words \cup gone \subseteq DOMAIN nodes
    /\ DOMAIN words \cap gone = {}
    /\ ValuesAreWords
    /\ EndsAreKeys

LEMMA PlainInit == Plain!Init => PlainInv
  <1> SUFFICES ASSUME Plain!Init PROVE PlainInv
    OBVIOUS
  <1>1. nodes = [q \in {} |-> NoValue] /\ top = Nil /\ words = <<>> /\ gone = {}
    BY DEF Plain!Init, Plain!Nil, Nil
  <1>2. DOMAIN nodes = {} /\ nodes = [q \in DOMAIN nodes |-> nodes[q]]
    BY <1>1
  <1>3. PlainTree(nodes, top)
    BY <1>1, <1>2, EmptyTree
  <1>4. DOMAIN words = {} /\ words \in [{} -> Value]
    BY <1>1
  <1> QED
    BY <1>1, <1>2, <1>3, <1>4 DEF PlainInv, ValuesAreWords, EndsAreKeys

LEMMA PlainInsert ==
    ASSUME Plain!KeyAssumption, PlainInv, NEW key \in Key, NEW v \in Value,
           Plain!TSTree_insert(key, v)
    PROVE  PlainInv'
  <1>1. key \in Name /\ NoValue \notin Value
    BY DEF Plain!KeyAssumption, Name, Nil
  <1>2. PlainTree(nodes, top)
    BY DEF PlainInv
  <1>3. PlainTree(nodes', top') /\ Filled(nodes, key, v, nodes')
    <2> DEFINE h2 == PlainInserted(nodes, top, key, v)
               r2 == IF top = Nil THEN NewNodes(Walk(nodes, top, key), key)[1] ELSE top
    <2>1. PlainTree(h2, r2) /\ Filled(nodes, key, v, h2)
      <3>1. CASE Last(Walk(nodes, top, key)) = Nil
        BY <1>1, <1>2, <3>1, InsertsNew
      <3>2. CASE Last(Walk(nodes, top, key)) # Nil
        <4>1. top # Nil /\ PlainTree(h2, top) /\ Filled(nodes, key, v, h2)
          BY <1>1, <1>2, <3>2, InsertsAgain
        <4> QED
          BY <4>1
      <3> QED
        BY <3>1, <3>2
    <2>2. nodes' = h2 /\ top' = r2
      BY InsertIsPlaced
    <2> HIDE DEF h2, r2
    <2> QED
      BY <2>1, <2>2
  <1>4. /\ words' = [w \in DOMAIN words \cup {key} |-> IF w \in DOMAIN words THEN words[w] ELSE v]
        /\ gone' = gone \ {key}
    BY InsertIsPlaced
  <1>5. /\ words \in [DOMAIN words -> Value] /\ DOMAIN words \cup gone \subseteq DOMAIN nodes
        /\ DOMAIN words \cap gone = {} /\ ValuesAreWords /\ EndsAreKeys
    BY DEF PlainInv
  <1>6. DOMAIN words' = DOMAIN words \cup {key} /\ words' \in [DOMAIN words' -> Value]
    BY <1>4, <1>5
  <1>7. DOMAIN words' \cup gone' \subseteq DOMAIN nodes'
    BY <1>3, <1>4, <1>5, <1>6 DEF Filled
  <1>8. ValuesAreWords'
    <2> SUFFICES ASSUME NEW q \in DOMAIN nodes'
                 PROVE  nodes'[q].value = IF q \in DOMAIN words' THEN words'[q] ELSE NoValue
      BY DEF ValuesAreWords
    <2>1. nodes'[q].value = IF q \in DOMAIN nodes /\ (q = key => nodes[q].value # NoValue)
                            THEN nodes[q].value ELSE IF q = key THEN v ELSE NoValue
      BY <1>3 DEF Filled
    <2>2. q \in DOMAIN nodes => nodes[q].value = IF q \in DOMAIN words THEN words[q] ELSE NoValue
      BY <1>5 DEF ValuesAreWords
    <2>3. q \in DOMAIN words => q \in DOMAIN nodes /\ words[q] # NoValue
      BY <1>1, <1>5
    <2> QED
      BY <1>4, <1>6, <2>1, <2>2, <2>3
  <1>9. EndsAreKeys'
    BY <1>3, <1>4, <1>5, <1>6 DEF EndsAreKeys, Filled
  <1> QED
    BY <1>3, <1>4, <1>5, <1>6, <1>7, <1>8, <1>9 DEF PlainInv

LEMMA PlainDelete ==
    ASSUME PlainInv, NEW key \in Key, Plain!TSTree_delete(key)
    PROVE  PlainInv'
  <1>1. PlainTree(nodes, top) /\ nodes \in PlainHeap /\ Store(Bare(nodes), top, FALSE)
    BY DEF PlainInv, PlainTree
  <1>2. /\ key \in DOMAIN nodes /\ nodes' = [nodes EXCEPT ![key].value = NoValue] /\ top' = top
        /\ words' = [w \in DOMAIN words \ {key} |-> words[w]]
        /\ gone' = IF key \in DOMAIN words THEN gone \cup {key} ELSE gone
    BY <1>1, PlainOperators, PlainSearches DEF Plain!TSTree_delete, Plain!Forgotten
  <1>3. DOMAIN nodes' = DOMAIN nodes /\ nodes' = [q \in DOMAIN nodes' |-> nodes'[q]]
    BY <1>2
  <1>4. ASSUME NEW q \in DOMAIN nodes
        PROVE  /\ nodes'[q] \in PlainNode /\ SameLinks(nodes'[q], nodes[q])
               /\ nodes'[q].value = IF q = key THEN NoValue ELSE nodes[q].value
    <2>1. nodes[q] \in PlainNode
      BY <1>1, PlainHeapFacts
    <2>2. nodes'[q] = IF q = key THEN [nodes[q] EXCEPT !.value = NoValue] ELSE nodes[q]
      BY <1>2
    <2> QED
      BY <2>1, <2>2 DEF PlainNode, SameLinks
  <1>5. nodes' \in PlainHeap
    BY <1>1, <1>3, <1>4, PlainHeapFacts DEF PlainHeap
  <1>6. PlainTree(nodes', top')
    <2> DEFINE h2 == nodes'
    <2>1. \A q \in DOMAIN nodes : SameLinks(Bare(h2)[q], h2[q]) /\ SameLinks(Bare(nodes)[q], nodes[q])
      BY <1>1, <1>3, <1>5, BareFacts
    <2>2. \A q \in DOMAIN nodes : SameLinks(Bare(h2)[q], Bare(nodes)[q])
      BY <1>4, <2>1 DEF SameLinks
    <2>3. /\ DOMAIN Bare(h2) = DOMAIN Bare(nodes) /\ DOMAIN Bare(nodes) = DOMAIN nodes
          /\ Bare(h2) \in Heap /\ Meant(Bare(h2))
      BY <1>1, <1>3, <1>5, BareFacts
    <2>4. Store(Bare(h2), top, FALSE)
      BY <1>1, <2>2, <2>3, StoreKept
    <2> QED
      BY <1>2, <1>5, <2>4 DEF PlainTree
  <1>7. /\ words \in [DOMAIN words -> Value] /\ DOMAIN words \cup gone \subseteq DOMAIN nodes
        /\ DOMAIN words \cap gone = {} /\ ValuesAreWords /\ EndsAreKeys
    BY DEF PlainInv
  <1>8. DOMAIN words' = DOMAIN words \ {key} /\ words' \in [DOMAIN words' -> Value]
    BY <1>2, <1>7
  <1>9. ValuesAreWords'
    BY <1>2, <1>3, <1>4, <1>7, <1>8 DEF ValuesAreWords
  <1>10. EndsAreKeys'
    BY <1>2, <1>3, <1>4, <1>7, <1>8 DEF EndsAreKeys, SameLinks
  <1> QED
    BY <1>2, <1>3, <1>6, <1>7, <1>8, <1>9, <1>10 DEF PlainInv

LEMMA PlainDestroy ==
    ASSUME PlainInv, Plain!TSTree_destroy
    PROVE  PlainInv'
  <1>1. PlainTree(nodes, top)
    BY DEF PlainInv
  <1>2. /\ nodes' = [q \in DOMAIN nodes \ Traversed(nodes, top) |-> nodes[q]]
        /\ top' = Nil /\ words' = <<>> /\ gone' = {}
    BY PlainOperators DEF Plain!TSTree_destroy
  <1>3. DOMAIN nodes' = {} /\ nodes' = [q \in DOMAIN nodes' |-> nodes'[q]]
    BY <1>1, <1>2, PlainSearches
  <1>4. PlainTree(nodes', top')
    BY <1>2, <1>3, EmptyTree
  <1>5. DOMAIN words' = {} /\ words' \in [{} -> Value]
    BY <1>2
  <1> QED
    BY <1>2, <1>3, <1>4, <1>5 DEF PlainInv, ValuesAreWords, EndsAreKeys

LEMMA PlainInvAlways ==
    ASSUME Plain!KeyAssumption
    PROVE  Plain!Spec => []PlainInv
  <1>1. Plain!Init => PlainInv
    BY PlainInit
  <1>2. PlainInv /\ [Plain!Next]_Plain!vars => PlainInv'
    <2>1. ASSUME PlainInv, Plain!Next PROVE PlainInv'
      BY <2>1, PlainInsert, PlainDelete, PlainDestroy DEF Plain!Next
    <2>2. ASSUME PlainInv, UNCHANGED Plain!vars PROVE PlainInv'
      <3>1. UNCHANGED <<nodes, top, words, gone>>
        BY <2>2 DEF Plain!vars
      <3> QED
        BY <2>2, <3>1 DEF PlainInv, ValuesAreWords, EndsAreKeys
    <2> QED
      BY <2>1, <2>2
  <1> QED
    BY <1>1, <1>2, PTL DEF Plain!Spec

-----------------------------------------------------------------------------
(* What the lookups of the plain tree find *)

LEMMA PlainShape ==
    ASSUME NEW h, NEW r, PlainTree(h, r)
    PROVE  /\ Cardinality(DOMAIN h) \in Nat /\ DOMAIN h \subseteq Name /\ Nil \notin DOMAIN h
           /\ r = Nil \/ (r \in DOMAIN h /\ Len(r) = 1)
           /\ \A q \in DOMAIN h : /\ h[q].low = Nil \/ Sibling(q, h[q].low)
                                  /\ h[q].high = Nil \/ Sibling(q, h[q].high)
                                  /\ h[q].equal = Nil \/ Child(q, h[q].equal)
                                  /\ Kids(h, q) \subseteq DOMAIN h
  <1> DEFINE g == Bare(h)
  <1>1. /\ h \in PlainHeap /\ Store(g, r, FALSE) /\ Shaped(g, r) /\ IsFiniteSet(DOMAIN g)
        /\ DOMAIN g = DOMAIN h /\ \A q \in DOMAIN h : SameLinks(g[q], h[q])
    BY BareFacts DEF PlainTree, Store, Sound
  <1> HIDE DEF g
  <1>2. PICK R, trail : Tree(g, r, R, trail) /\ R = DOMAIN h
    BY <1>1 DEF Store
  <1>3. \A q \in DOMAIN h : Kids(g, q) \subseteq DOMAIN h
    BY <1>1, <1>2 DEF Tree
  <1>4. r = Nil \/ (r \in DOMAIN h /\ Len(r) = 1)
    BY <1>1, <1>2 DEF Tree, Shaped
  <1>5. Cardinality(DOMAIN h) \in Nat /\ DOMAIN h \subseteq Name /\ Nil \notin DOMAIN h
    BY <1>1, FS_CardinalityType, PlainHeapFacts
  <1> QED
    BY <1>1, <1>3, <1>4, <1>5 DEF Shaped, SameLinks, Kids

\* IsPrefix, character by character.
LEMMA PrefixIs ==
    ASSUME NEW s \in Name, NEW t \in Name
    PROVE  IsPrefix(s, t) <=> Len(s) <= Len(t) /\ \A i \in 1 .. Len(s) : t[i] = s[i]
  <1>1. Len(s) \in 1 .. Len(s) /\ Len(s) \in Nat /\ Len(t) \in Nat
    BY NameFacts
  <1>2. Prefix(s, Len(s)) = s
    BY <1>1, PrefixFacts
  <1>3. ASSUME Len(s) <= Len(t)
        PROVE  Prefix(t, Len(s)) = s <=> \A i \in 1 .. Len(s) : t[i] = s[i]
    <2>1. Len(s) \in 1 .. Len(t)
      BY <1>1, <1>3
    <2> DEFINE u == Prefix(t, Len(s))
    <2>2. u \in Name /\ Len(u) = Len(s) /\ \A i \in 1 .. Len(s) : u[i] = t[i]
      BY <2>1, PrefixFacts
    <2> HIDE DEF u
    <2>3. u \in Seq(Nat) /\ s \in Seq(Nat)
      BY <2>2 DEF Name
    <2>4. (\A i \in 1 .. Len(s) : t[i] = s[i]) => u = s
      BY <2>2, <2>3, SeqEqual
    <2> QED
      BY <2>2, <2>4 DEF u
  <1> QED
    BY <1>2, <1>3 DEF IsPrefix, Prefix

LEMMA FrontIs ==
    ASSUME NEW s \in Name, NEW t \in Name, Len(s) <= Len(t), \A i \in 1 .. Len(s) - 1 : t[i] = s[i]
    PROVE  IsPrefix(Front(s), t)
  <1>1. Len(s) \in Nat \ {0} /\ Len(t) \in Nat \ {0}
    BY NameFacts
  <1>2. CASE Len(s) = 1
    <2>1. s \in Seq(Nat) /\ t \in Seq(Nat)
      BY DEF Name
    <2>2. \A u \in Seq(Nat) : SubSeq(u, 1, 0) = <<>>
      BY SubSeqEmpty
    <2>3. Front(s) = <<>>
      BY <1>2, <2>1, <2>2 DEF Front
    <2>4. <<>> \in Seq(Nat) /\ Len(<<>>) = 0
      BY EmptySeq
    <2> QED
      BY <1>1, <2>1, <2>2, <2>3, <2>4 DEF IsPrefix
  <1>3. CASE Len(s) # 1
    <2>1. Len(s) - 1 \in 1 .. Len(s) /\ Len(s) - 1 <= Len(t)
      <3>1. \A m, n \in Nat \ {0} : m # 1 /\ m <= n => m - 1 \in 1 .. m /\ m - 1 <= n
        OBVIOUS
      <3> QED
        BY <1>1, <1>3, <3>1
    <2>2. /\ Prefix(s, Len(s) - 1) \in Name /\ Len(Prefix(s, Len(s) - 1)) = Len(s) - 1
          /\ \A i \in 1 .. Len(s) - 1 : Prefix(s, Len(s) - 1)[i] = s[i]
      BY <2>1, PrefixFacts
    <2>3. Front(s) = Prefix(s, Len(s) - 1)
      BY DEF Front, Prefix
    <2> QED
      BY <2>1, <2>2, <2>3, PrefixIs
  <1> QED
    BY <1>2, <1>3

\* The tree has a node for every prefix of a node.
LEMMA PrefixesAreNodes ==
    ASSUME NEW h, NEW r, PlainTree(h, r), NEW w \in DOMAIN h, NEW k \in Name, IsPrefix(k, w)
    PROVE  k \in DOMAIN h
  <1> DEFINE g == Bare(h)
             S == {q \in DOMAIN h : \A n \in 1 .. Len(q) : Prefix(q, n) \in DOMAIN h}
  <1>1. /\ h \in PlainHeap /\ Shaped(g, r) /\ IsFiniteSet(DOMAIN g) /\ r \in Pointer
        /\ DOMAIN g = DOMAIN h /\ \A q \in DOMAIN h : SameLinks(g[q], h[q])
    BY BareFacts DEF PlainTree, Store, Sound, Shaped
  <1>2. Traversed(g, r) = DOMAIN h
    <2>1. Alike(h, g) /\ Traversed(h, r) = DOMAIN h
      BY <1>1, BareFacts, PlainSearches
    <2> HIDE DEF g
    <2> QED
      BY <1>1, <2>1, TraversedAlike
  <1>3. r = Nil \/ r \in S
    <2> SUFFICES ASSUME r # Nil PROVE r \in S
      OBVIOUS
    <2>1. r \in DOMAIN h /\ r \in Name /\ Len(r) = 1
      BY PlainShape
    <2>2. \A n \in 1 .. Len(r) : Prefix(r, n) = r
      BY <2>1, PrefixFacts
    <2> QED
      BY <2>1, <2>2
  <1>4. ASSUME NEW q \in S, NEW x \in Kids(h, q) PROVE x \in S
    <2>1. x \in DOMAIN h /\ x \in Name /\ q \in DOMAIN h /\ q \in Name /\ x # Nil
      BY PlainShape DEF Kids
    <2>2. Sibling(q, x) \/ Child(q, x)
      BY <2>1, PlainShape DEF Kids
    <2>3. Len(x) \in Nat \ {0} /\ Len(q) \in Nat \ {0}
      BY <2>1, NameFacts
    <2>4. ASSUME NEW n \in 1 .. Len(x), n # Len(x) PROVE Prefix(x, n) \in DOMAIN h
      <3>1. n \in 1 .. Len(q) /\ \A i \in 1 .. n : x[i] = q[i]
        BY <2>2, <2>3, <2>4 DEF Sibling, Child
      <3> DEFINE u == Prefix(x, n)
                 v == Prefix(q, n)
      <3>2. /\ u \in Name /\ Len(u) = n /\ v \in Name /\ Len(v) = n
            /\ \A i \in 1 .. n : u[i] = x[i] /\ v[i] = q[i]
        BY <2>1, <3>1, PrefixFacts
      <3>3. v \in DOMAIN h
        BY <3>1
      <3> HIDE DEF u, v
      <3>4. u \in Seq(Nat) /\ v \in Seq(Nat)
        BY <3>2 DEF Name
      <3>5. u = v
        BY <3>1, <3>2, <3>4, SeqEqual
      <3> QED
        BY <3>3, <3>5 DEF u
    <2>5. Prefix(x, Len(x)) = x
      <3>1. Len(x) \in 1 .. Len(x)
        BY <2>3
      <3> QED
        BY <2>1, <3>1, PrefixFacts
    <2> QED
      BY <2>1, <2>4, <2>5
  <1>5. \A q \in S \cap DOMAIN g : Kids(g, q) \subseteq S
    BY <1>1, <1>4 DEF SameLinks, Kids
  <1> HIDE DEF S, g
  <1>6. Traversed(g, r) \subseteq S
    BY <1>1, <1>3, <1>5, TraversedWithin
  <1>7. w \in S /\ w \in Name
    BY <1>2, <1>6, PlainShape
  <1>8. Len(k) \in 1 .. Len(w) /\ Len(k) \in 1 .. Len(k)
    BY <1>7, NameFacts DEF IsPrefix
  <1>9. Prefix(w, Len(k)) = k
    BY <1>8, PrefixFacts DEF IsPrefix, Prefix
  <1> QED
    BY <1>7, <1>8, <1>9 DEF S

-----------------------------------------------------------------------------
(* A prefix search goes down from its start *)

\* What PrefixNode makes of the node it is at.
Lower(q) ==
    IF q = Nil THEN Nil ELSE IF nodes[q].value # NoValue THEN q ELSE nodes[q].equal

LEMMA PrefixNodeIterates ==
    ASSUME PlainInv, NEW key, Plain!PrefixStart(key) \in DOMAIN nodes \cup {Nil}
    PROVE  \E d \in [0 .. Cardinality(DOMAIN nodes) -> DOMAIN nodes \cup {Nil}] :
              /\ d[0] = Plain!PrefixStart(key)
              /\ \A i \in 1 .. Cardinality(DOMAIN nodes) : d[i] = Lower(d[i - 1])
              /\ Plain!PrefixNode(key) = d[Cardinality(DOMAIN nodes)]
  <1> DEFINE N == Cardinality(DOMAIN nodes)
             A == DOMAIN nodes \cup {Nil}
             s == Plain!PrefixStart(key)
             G == [x \in (1 .. N) \X A |-> Lower(x[2])]
             Step(t) == [i \in 0 .. N |->
                            IF i = 0 THEN s
                            ELSE LET q == t[i - 1]
                                 IN  IF q = Nil THEN Nil
                                     ELSE IF nodes[q].value # NoValue THEN q ELSE nodes[q].equal]
             g == CHOOSE t : t = Step(t)
  <1>1. N \in Nat /\ \A q \in DOMAIN nodes : nodes[q].equal \in A
    BY PlainShape DEF PlainInv, Kids
  <1>2. G \in [(1 .. N) \X A -> A]
    BY <1>1 DEF Lower
  <1>3. Plain!PrefixNode(key) = g[N]
    BY DEF Plain!PrefixNode, Plain!Nil, Nil, Plain!Cardinality, Cardinality
  <1>4. s \in A
    OBVIOUS
  <1> HIDE DEF N, G, A, s
  <1>5. PICK t \in [0 .. N -> A] : Iterates(t, N, s, G)
    BY <1>1, <1>2, <1>4, IteratesSome
  <1>6. t[0] = s /\ \A i \in 1 .. N : t[i] = Lower(t[i - 1])
    <2>1. 0 \in 0 .. N /\ \A i \in 1 .. N : i \in 0 .. N /\ i # 0 /\ i - 1 \in 0 .. N
      BY <1>1
    <2>2. t[0] = s /\ \A i \in 1 .. N : t[i] = G[<<i, t[i - 1]>>] /\ t[i - 1] \in A
      BY <1>5, <2>1 DEF Iterates
    <2> QED
      BY <2>2 DEF G
  <1>7. t = Step(t)
    <2>1. ASSUME NEW i \in 0 .. N PROVE t[i] = Step(t)[i]
      <3>1. i # 0 => i \in 1 .. N
        BY <1>1
      <3> QED
        BY <1>6, <3>1 DEF Lower
    <2> QED
      BY <2>1
  <1>8. g = Step(g)
    BY <1>7
  <1> HIDE DEF g
  <1>9. g[0] = s /\ g = [i \in 0 .. N |-> g[i]] /\ \A i \in 1 .. N : g[i] = Lower(g[i - 1])
    <2>1. \A i \in 0 .. N : g[i] = Step(g)[i]
      BY <1>8
    <2>2. 0 \in 0 .. N /\ \A i \in 1 .. N : i \in 0 .. N /\ i # 0
      BY <1>1
    <2>3. DOMAIN g = 0 .. N /\ g = [i \in DOMAIN g |-> g[i]]
      BY <1>8
    <2> QED
      BY <2>1, <2>2, <2>3 DEF Lower
  <1> DEFINE T == {i \in Nat : i <= N => g[i] \in A}
  <1>10. 0 \in T
    BY <1>4, <1>9
  <1>11. ASSUME NEW n \in T PROVE n + 1 \in T
    <2>1. n \in Nat /\ (n + 1 <= N => n + 1 \in 1 .. N /\ (n + 1) - 1 = n /\ g[n] \in A)
      BY <1>1, <1>11
    <2>2. n + 1 <= N => g[n + 1] = Lower(g[n])
      BY <1>9, <2>1
    <2>3. n + 1 <= N => g[n + 1] \in A
      BY <1>1, <2>1, <2>2 DEF Lower, A
    <2> QED
      BY <2>1, <2>3
  <1>12. T = Nat
    BY <1>10, <1>11, ByInduction
  <1>13. \A i \in 0 .. N : g[i] \in A
    <2>1. \A i \in 0 .. N : i \in T
      <3> HIDE DEF T
      <3> QED
        BY <1>1, <1>12
    <2> QED
      BY <1>1, <2>1
  <1>14. g \in [0 .. N -> A]
    BY <1>9, <1>13
  <1> QED
    BY <1>3, <1>9, <1>14 DEF N, A, s

\* It comes to a value or to the end of the way down.
LEMMA DownToValue ==
    ASSUME PlainInv, NEW d \in [0 .. Cardinality(DOMAIN nodes) -> DOMAIN nodes \cup {Nil}],
           \A i \in 1 .. Cardinality(DOMAIN nodes) : d[i] = Lower(d[i - 1])
    PROVE  LET q == d[Cardinality(DOMAIN nodes)]
           IN  q = Nil \/ (q \in DOMAIN nodes /\ nodes[q].value # NoValue)
  <1> DEFINE N == Cardinality(DOMAIN nodes)
             g == Bare(nodes)
  <1>1. /\ Store(g, top, FALSE) /\ Sound(g, top) /\ Shaped(g, top) /\ DOMAIN g = DOMAIN nodes
        /\ \A q \in DOMAIN nodes : SameLinks(g[q], nodes[q])
    BY BareFacts DEF PlainInv, PlainTree, Store, Sound
  <1> HIDE DEF g
  <1>2. PICK R, trail : Tree(g, top, R, trail) /\ R = DOMAIN nodes
    BY <1>1 DEF Store
  <1>3. N \in Nat /\ Nil \notin DOMAIN nodes
    BY PlainShape DEF PlainInv
  <1>4. \A q \in DOMAIN nodes : /\ trail[q] \in Seq(Pointer) /\ Len(trail[q]) \in Nat \ {0}
                                /\ Follows(g, top, q, trail[q]) /\ trail[q][Len(trail[q])] = q
    BY <1>2, TrailFacts
  <1>5. ASSUME NEW q \in DOMAIN nodes, nodes[q].equal # Nil
        PROVE  nodes[q].equal \in DOMAIN nodes /\ Len(trail[nodes[q].equal]) = Len(trail[q]) + 1
    <2> DEFINE x == nodes[q].equal
    <2>1. x \in Kids(g, q)
      BY <1>1, <1>5 DEF SameLinks, Kids
    <2>2. x \in DOMAIN nodes /\ trail[x] = Append(trail[q], x)
      BY <1>1, <1>2, <2>1 DEF Tree
    <2>3. x \in Pointer
      BY <1>1, <1>2, <2>2 DEF Tree, Name, Pointer
    <2> HIDE DEF x
    <2>4. Len(Append(trail[q], x)) = Len(trail[q]) + 1
      BY <1>4, <2>3, AppendProperties
    <2> QED
      BY <2>2, <2>4 DEF x
  <1> HIDE DEF N
  <1> DEFINE On(i) == \/ d[i] = Nil
                      \/ d[i] \in DOMAIN nodes /\ (nodes[d[i]].value # NoValue \/ Len(trail[d[i]]) >= i + 1)
             T == {i \in Nat : i <= N => On(i)}
  <1>6. 0 \in T
    <2>1. 0 \in 0 .. N
      BY <1>3
    <2>2. d[0] \in DOMAIN nodes \cup {Nil}
      BY <2>1 DEF N
    <2> QED
      BY <1>4, <2>2
  <1>7. ASSUME NEW n \in T PROVE n + 1 \in T
    <2> SUFFICES ASSUME n + 1 <= N PROVE On(n + 1)
      BY <1>7
    <2>1. n \in Nat /\ On(n) /\ n + 1 \in 1 .. N /\ (n + 1) - 1 = n
      BY <1>3, <1>7
    <2>2. d[n + 1] = Lower(d[n])
      BY <2>1 DEF N
    <2>3. CASE d[n] = Nil
      BY <2>2, <2>3 DEF Lower
    <2>4. CASE d[n] \in DOMAIN nodes /\ nodes[d[n]].value # NoValue
      BY <1>3, <2>2, <2>4 DEF Lower
    <2>5. CASE d[n] \in DOMAIN nodes /\ nodes[d[n]].value = NoValue
      <3>1. Len(trail[d[n]]) >= n + 1 /\ d[n + 1] = nodes[d[n]].equal
        BY <1>3, <2>1, <2>2, <2>5 DEF Lower
      <3>2. d[n + 1] # Nil =>
               d[n + 1] \in DOMAIN nodes /\ Len(trail[d[n + 1]]) = Len(trail[d[n]]) + 1
        BY <1>5, <2>5, <3>1
      <3>3. Len(trail[d[n]]) \in Nat
        BY <1>4, <2>5
      <3> QED
        BY <2>1, <3>1, <3>2, <3>3
    <2> QED
      BY <2>1, <2>3, <2>4, <2>5
  <1>8. T = Nat
    BY <1>6, <1>7, ByInduction
  <1>9. On(N)
    <2>1. N \in T
      <3> HIDE DEF T
      <3> QED
        BY <1>3, <1>8
    <2> QED
      BY <1>3, <2>1
  <1>10. ASSUME NEW q \in DOMAIN nodes PROVE Len(trail[q]) <= N
    <2> DEFINE p == trail[q]
    <2>1. Len(p) \in Nat \ {0} /\ Follows(g, top, q, p) /\ p[Len(p)] = q
      BY <1>4
    <2> HIDE DEF p
    <2>2. \A i \in 1 .. Len(p) : p[i] \in DOMAIN g
      <3> SUFFICES ASSUME NEW i \in 1 .. Len(p) PROVE p[i] \in DOMAIN g
        OBVIOUS
      <3>1. i = Len(p) \/ i \in 1 .. Len(p) - 1
        BY <2>1
      <3> QED
        BY <1>1, <2>1, <3>1 DEF Follows
    <2>3. Len(p) \in 0 .. Len(p)
      BY <2>1
    <2>4. IsFiniteSet(DOMAIN g) /\ Acyclic(g)
      BY <1>1 DEF Sound
    <2>5. Len(p) <= Cardinality(DOMAIN g)
      BY <2>1, <2>2, <2>3, <2>4, FollowsShort
    <2> QED
      BY <1>1, <2>5 DEF N, p
  <1>11. ASSUME d[N] \in DOMAIN nodes, Len(trail[d[N]]) >= N + 1 PROVE FALSE
    <2>1. Len(trail[d[N]]) <= N /\ Len(trail[d[N]]) \in Nat
      BY <1>4, <1>10, <1>11
    <2> QED
      BY <1>3, <1>11, <2>1
  <1> QED
    BY <1>9, <1>11 DEF N

\* From a node it goes to a word, or loses its way at a deleted key.
LEMMA PrefixInTree ==
    ASSUME PlainInv, NoValue \notin Value,
           NEW k \in Name, k \in DOMAIN nodes, Plain!PrefixStart(k) = k
    PROVE  LET found == Plain!PrefixNode(k)
           IN  IF found = Nil THEN \E g \in gone : IsPrefix(k, g)
               ELSE found \in DOMAIN words /\ IsPrefix(k, found)
  <1> DEFINE N == Cardinality(DOMAIN nodes)
  <1>1. PICK d \in [0 .. N -> DOMAIN nodes \cup {Nil}] :
              /\ d[0] = k /\ \A i \in 1 .. N : d[i] = Lower(d[i - 1])
              /\ Plain!PrefixNode(k) = d[N]
    BY PrefixNodeIterates
  <1>2. d[N] = Nil \/ (d[N] \in DOMAIN nodes /\ nodes[d[N]].value # NoValue)
    BY <1>1, DownToValue
  <1>3. /\ N \in Nat /\ Nil \notin DOMAIN nodes /\ DOMAIN nodes \subseteq Name
        /\ \A q \in DOMAIN nodes : nodes[q].equal = Nil \/
              (Child(q, nodes[q].equal) /\ nodes[q].equal \in DOMAIN nodes)
    BY PlainShape DEF PlainInv, Kids
  <1>4. \A q \in DOMAIN nodes : nodes[q].value = NoValue /\ nodes[q].equal = Nil => q \in gone
    BY DEF PlainInv, ValuesAreWords, EndsAreKeys
  <1> HIDE DEF N
  <1> DEFINE On(i) == \/ d[i] = Nil /\ \E g \in gone : IsPrefix(k, g)
                      \/ d[i] \in DOMAIN nodes /\ IsPrefix(k, d[i])
             T == {i \in Nat : i <= N => On(i)}
  <1>5. 0 \in T
    BY <1>1, PrefixIs
  <1>6. ASSUME NEW n \in T PROVE n + 1 \in T
    <2> SUFFICES ASSUME n + 1 <= N PROVE On(n + 1)
      BY <1>6
    <2>1. n \in Nat /\ On(n) /\ n + 1 \in 1 .. N /\ (n + 1) - 1 = n
      BY <1>3, <1>6
    <2>2. d[n + 1] = Lower(d[n])
      BY <1>1, <2>1
    <2>3. CASE d[n] = Nil
      BY <1>3, <2>1, <2>2, <2>3 DEF Lower
    <2>4. CASE d[n] \in DOMAIN nodes /\ nodes[d[n]].value # NoValue
      BY <1>3, <2>1, <2>2, <2>4 DEF Lower
    <2>5. CASE d[n] \in DOMAIN nodes /\ nodes[d[n]].value = NoValue
      <3> DEFINE q == d[n]
                 x == nodes[q].equal
      <3>1. q \in DOMAIN nodes /\ q \in Name /\ IsPrefix(k, q) /\ d[n + 1] = x /\ nodes[q].value = NoValue
        BY <1>3, <2>1, <2>2, <2>5 DEF Lower
      <3>2. CASE x = Nil
        BY <1>4, <3>1, <3>2
      <3>3. CASE x # Nil
        <4>1. Child(q, x) /\ x \in DOMAIN nodes /\ x \in Name
          BY <1>3, <3>1, <3>3
        <4> HIDE DEF q, x
        <4>2. Len(k) \in Nat /\ Len(q) \in Nat /\ Len(x) = Len(q) + 1
          BY <3>1, <4>1, NameFacts DEF Child
        <4>3. Len(k) <= Len(q) /\ \A i \in 1 .. Len(k) : q[i] = k[i]
          BY <3>1, PrefixIs
        <4>4. Len(k) <= Len(x) /\ \A i \in 1 .. Len(k) : i \in 1 .. Len(q) /\ x[i] = q[i]
          BY <4>1, <4>2, <4>3 DEF Child
        <4>5. IsPrefix(k, x)
          BY <4>1, <4>3, <4>4, PrefixIs
        <4> QED
          BY <3>1, <4>1, <4>5
      <3> QED
        BY <3>2, <3>3
    <2> QED
      BY <2>1, <2>3, <2>4, <2>5
  <1>7. T = Nat
    BY <1>5, <1>6, ByInduction
  <1>8. On(N)
    <2>1. N \in T
      <3> HIDE DEF T
      <3> QED
        BY <1>3, <1>7
    <2> QED
      BY <1>3, <2>1
  <1>9. \A q \in DOMAIN nodes : nodes[q].value # NoValue => q \in DOMAIN words
    BY DEF PlainInv, ValuesAreWords
  <1> QED
    BY <1>1, <1>2, <1>3, <1>8, <1>9

\* The search for a key comes by every node that the key starts with.
LEMMA PassesPrefixes ==
    ASSUME NEW h, NEW r, PlainTree(h, r), NEW k \in Name, k \notin DOMAIN h,
           NEW w \in DOMAIN h, IsPrefix(w, k)
    PROVE  \E i \in DOMAIN Walk(h, r, k) : Walk(h, r, k)[i] = w
  <1> DEFINE g == Bare(h)
             path == Walk(h, r, k)
  <1>1. /\ Store(g, r, FALSE) /\ Sound(g, r) /\ Shaped(g, r) /\ DOMAIN g = DOMAIN h
        /\ path = Walk(g, r, k) /\ w \in Name
    BY BareFacts, PlainSearches, PlainShape DEF PlainTree, Store
  <1> HIDE DEF g, path
  <1>2. PICK R, trail : Tree(g, r, R, trail) /\ R = DOMAIN h
    BY <1>1 DEF Store
  <1> DEFINE p == trail[w]
  <1>3. Follows(g, r, w, p) /\ p[Len(p)] = w /\ Len(p) \in Nat \ {0} /\ p \in Seq(Pointer)
    BY <1>2, TrailFacts
  <1> HIDE DEF p
  <1>4. Len(w) <= Len(k) /\ \A i \in 1 .. Len(w) : k[i] = w[i]
    BY <1>1, PrefixIs
  <1>5. ASSUME NEW i \in 1 .. Len(p) - 1
        PROVE  p[i] \in DOMAIN g /\ p[i] # k /\ Towards(g, p[i], k) = Towards(g, p[i], w)
               /\ p[i + 1] = Towards(g, p[i], w)
    <2>1. p[i] \in DOMAIN g /\ p[i + 1] = Towards(g, p[i], w)
      BY <1>3 DEF Follows
    <2>2. p[i] \in Name /\ p[i] # Nil /\ i \in 1 .. Len(p)
      BY <1>1, <1>3, <2>1, PlainShape
    <2>3. Near(p[i], w)
      BY <1>1, <1>3, <2>2, FollowsNear
    <2>4. Len(p[i]) \in 1 .. Len(w)
      BY <1>1, <2>2, <2>3, NameFacts DEF Near
    <2>5. k[Len(p[i])] = w[Len(p[i])]
      BY <1>4, <2>4
    <2> QED
      BY <1>1, <2>1, <2>5 DEF Towards
  <1>6. Follows(g, r, k, p)
    BY <1>3, <1>5 DEF Follows
  <1>7. Follows(g, r, k, path) /\ Stopped(g, k, path)
    BY <1>1, WalkFollows
  <1>8. Len(path) \in Nat \ {0} /\ Last(path) = path[Len(path)] /\ DOMAIN path = 1 .. Len(path)
    <2>1. path \in Seq(Pointer)
      BY <1>7 DEF Follows
    <2> QED
      BY <1>7, <2>1, FollowsType, LenProperties
  <1>9. \A i \in 1 .. Len(p) : i <= Len(path) => p[i] = path[i]
    BY <1>5, <1>6, <1>7, SameWay
  <1>10. ~(Len(path) < Len(p))
    <2> SUFFICES ASSUME Len(path) < Len(p) PROVE FALSE
      OBVIOUS
    <2>1. Len(path) \in 1 .. Len(p) - 1 /\ Len(path) \in 1 .. Len(p) /\ Len(path) <= Len(path)
      BY <1>3, <1>8
    <2>2. p[Len(path)] \in DOMAIN g /\ p[Len(path)] # k /\ p[Len(path)] = path[Len(path)]
      BY <1>5, <1>9, <2>1
    <2> QED
      BY <1>7, <1>8, <2>2 DEF Stopped
  <1>11. Len(p) \in 1 .. Len(path) /\ Len(p) \in 1 .. Len(p)
    BY <1>3, <1>8, <1>10
  <1>12. path[Len(p)] = w /\ Len(p) \in DOMAIN path
    BY <1>3, <1>8, <1>9, <1>11
  <1> QED
    BY <1>12 DEF path

\* The largest of a set of indices.
LEMMA MaxIs ==
    ASSUME NEW n \in Nat, NEW S \in SUBSET (1 .. n), S # {}
    PROVE  Max(S) \in S /\ \A i \in S : i <= Max(S)
  <1> DEFINE T == {n - i : i \in S}
  <1>1. T \in SUBSET Nat /\ T # {}
    OBVIOUS
  <1>2. PICK x \in T : \A y \in T : x <= y
    BY <1>1, LeastOf
  <1>3. PICK m \in S : x = n - m
    BY <1>2
  <1>4. \A i \in S : m >= i
    <2> SUFFICES ASSUME NEW i \in S PROVE m >= i
      OBVIOUS
    <2>1. n - m <= n - i /\ m \in Nat /\ i \in Nat
      BY <1>2, <1>3
    <2> QED
      BY <2>1
  <1>5. \E m2 \in S : \A i \in S : m2 >= i
    BY <1>4
  <1>6. Max(S) \in S /\ \A i \in S : Max(S) >= i
    BY <1>5 DEF Max
  <1> QED
    BY <1>6

LEMMA WalkInTree ==
    ASSUME NEW h, NEW r, PlainTree(h, r), NEW k \in Name
    PROVE  \E n \in Nat : /\ DOMAIN Walk(h, r, k) = 1 .. n
                          /\ \A i \in 1 .. n : Walk(h, r, k)[i] \in DOMAIN h \cup {Nil}
  <1> DEFINE g == Bare(h)
             path == Walk(h, r, k)
  <1>1. Sound(g, r) /\ path = Walk(g, r, k) /\ DOMAIN g = DOMAIN h
    BY BareFacts, PlainSearches DEF PlainTree
  <1> HIDE DEF g, path
  <1>2. Follows(g, r, k, path) /\ path \in Seq(Pointer)
    BY <1>1, WalkFollows DEF Follows
  <1>3. /\ Len(path) \in Nat \ {0} /\ Last(path) = path[Len(path)] /\ DOMAIN path = 1 .. Len(path)
    BY <1>2, FollowsType, LenProperties
  <1>4. ASSUME NEW i \in 1 .. Len(path) PROVE path[i] \in DOMAIN h \cup {Nil}
    <2>1. CASE i = Len(path)
      <3>1. Pinpoint(h, r, k) = path[i]
        BY <1>3, <2>1 DEF Pinpoint, path
      <3> QED
        BY <3>1, PlainSearches
    <2>2. CASE i # Len(path)
      <3>1. i \in 1 .. Len(path) - 1
        <4>1. \A n \in Nat \ {0} : \A j \in 1 .. n : j # n => j \in 1 .. n - 1
          OBVIOUS
        <4> QED
          BY <1>3, <2>2, <4>1
      <3> QED
        BY <1>1, <1>2, <3>1 DEF Follows
    <2> QED
      BY <2>1, <2>2
  <1> QED
    BY <1>3, <1>4 DEF path

\* Elsewhere it stays at the longest word that the key starts with.
LEMMA PrefixOffTree ==
    ASSUME PlainInv, NoValue \notin Value, NEW k \in Name, k \notin DOMAIN nodes,
           Plain!PrefixStart(k) = Plain!LastMatched(k)
    PROVE  LET above == {w \in DOMAIN words : IsPrefix(w, k)}
               found == Plain!PrefixNode(k)
           IN  IF found = Nil THEN above = {}
               ELSE found \in above /\ \A w \in above : Len(w) <= Len(found)
  <1> DEFINE N == Cardinality(DOMAIN nodes)
             path == Walk(nodes, top, k)
             on == {i \in DOMAIN path : /\ path[i] # Nil /\ IsStrictPrefix(path[i], k)
                                        /\ nodes[path[i]].value # NoValue}
             above == {w \in DOMAIN words : IsPrefix(w, k)}
             last == IF on = {} THEN Nil ELSE path[Max(on)]
  <1>1. Plain!LastMatched(k) = last
    BY PlainOperators DEF Plain!LastMatched
  <1>2. PlainTree(nodes, top) /\ DOMAIN words \subseteq DOMAIN nodes
        /\ \A q \in DOMAIN nodes : nodes[q].value # NoValue <=> q \in DOMAIN words
    BY DEF PlainInv, ValuesAreWords
  <1>3. N \in Nat /\ Nil \notin DOMAIN nodes /\ DOMAIN nodes \subseteq Name
    BY <1>2, PlainShape
  <1> DEFINE g == Bare(nodes)
  <1>4. /\ Shaped(g, top) /\ Sound(g, top) /\ path = Walk(g, top, k) /\ DOMAIN g = DOMAIN nodes
    BY <1>2, BareFacts, PlainSearches DEF PlainTree
  <1> HIDE DEF g, N, path
  <1>5. /\ Follows(g, top, k, path) /\ Len(path) \in Nat \ {0} /\ DOMAIN path = 1 .. Len(path)
        /\ Stopped(g, k, path) /\ Last(path) = path[Len(path)]
        /\ \A i \in 1 .. Len(path) : path[i] \in Pointer
    <2>1. Follows(g, top, k, path) /\ Stopped(g, k, path)
      BY <1>4, WalkFollows
    <2>2. path \in Seq(Pointer)
      BY <2>1 DEF Follows
    <2> QED
      BY <2>1, <2>2, FollowsType, LenProperties
  <1>6. \A i \in DOMAIN path : path[i] # Nil => path[i] \in DOMAIN nodes
    BY <1>2, WalkInTree DEF path
  <1>7. \A i \in on : path[i] \in above
    BY <1>2, <1>6 DEF IsStrictPrefix
  <1>8. ASSUME NEW w \in above PROVE \E i \in on : path[i] = w
    <2>1. w \in DOMAIN nodes /\ IsPrefix(w, k) /\ w # k /\ w # Nil /\ nodes[w].value # NoValue
      BY <1>2, <1>3
    <2>2. PICK i \in DOMAIN path : path[i] = w
      BY <1>2, <2>1, PassesPrefixes DEF path
    <2> QED
      BY <2>1, <2>2 DEF IsStrictPrefix
  <1>9. on \in SUBSET (1 .. Len(path))
    BY <1>5
  <1> HIDE DEF on, above
  <1>10. on # {} => Max(on) \in on /\ \A i \in on : i <= Max(on)
    BY <1>5, <1>9, MaxIs
  <1>11. last = Nil \/ (last \in DOMAIN nodes /\ nodes[last].value # NoValue)
    <2>1. on # {} => path[Max(on)] \in DOMAIN nodes /\ nodes[path[Max(on)]].value # NoValue
      BY <1>5, <1>6, <1>9, <1>10 DEF on
    <2> QED
      BY <2>1
  <1>12. on # {} => last # Nil
    BY <1>10 DEF on
  <1> HIDE DEF last
  <1>13. Plain!PrefixNode(k) = last
    <2>1. PICK d \in [0 .. N -> DOMAIN nodes \cup {Nil}] :
              /\ d[0] = last /\ \A i \in 1 .. N : d[i] = Lower(d[i - 1])
              /\ Plain!PrefixNode(k) = d[N]
      BY <1>1, <1>11, PrefixNodeIterates DEF N
    <2> DEFINE T == {i \in Nat : i <= N => d[i] = last}
    <2>2. 0 \in T
      BY <2>1
    <2>3. ASSUME NEW n \in T PROVE n + 1 \in T
      <3>1. n \in Nat /\ (n + 1 <= N => n + 1 \in 1 .. N /\ (n + 1) - 1 = n /\ d[n] = last)
        BY <1>3, <2>3
      <3>2. n + 1 <= N => d[n + 1] = Lower(last)
        BY <2>1, <3>1
      <3>3. Lower(last) = last
        BY <1>3, <1>11 DEF Lower
      <3> QED
        BY <3>1, <3>2, <3>3
    <2>4. T = Nat
      BY <2>2, <2>3, ByInduction
    <2>5. N \in T
      <3> HIDE DEF T
      <3> QED
        BY <1>3, <2>4
    <2> QED
      BY <1>3, <2>1, <2>5
  <1>14. CASE on = {}
    <2>1. last = Nil /\ above = {}
      BY <1>8, <1>14 DEF last
    <2> QED
      BY <1>13, <2>1 DEF above
  <1>15. CASE on # {}
    <2>1. last # Nil /\ last = path[Max(on)] /\ last \in above
      BY <1>7, <1>10, <1>12, <1>15 DEF last
    <2>2. ASSUME NEW w \in above PROVE Len(w) <= Len(last)
      <3>1. PICK i \in on : path[i] = w
        BY <1>8
      <3>2. i \in 1 .. Len(path) /\ Max(on) \in i .. Len(path)
        <4>1. \A n \in Nat : \A x, m \in 1 .. n : x <= m => m \in x .. n
          OBVIOUS
        <4>2. i \in 1 .. Len(path) /\ Max(on) \in 1 .. Len(path) /\ i <= Max(on)
          BY <1>9, <1>10, <1>15
        <4> QED
          BY <1>5, <4>1, <4>2
      <3>3. \A j \in i .. Len(path) : path[j] # Nil => Len(path[i]) <= Len(path[j])
        BY <1>4, <1>5, <3>2, FollowsGrows
      <3> QED
        BY <2>1, <3>1, <3>2, <3>3
    <2> QED
      BY <1>13, <2>1, <2>2 DEF above
  <1> QED
    BY <1>14, <1>15

LEMMA PrefixFound ==
    ASSUME Plain!KeyAssumption, PlainInv
    PROVE  Plain!PrefixFindsWord
  <1>1. NoValue \notin Value /\ \A k \in Asked : k \in Name
    BY DEF Plain!KeyAssumption, Name, Nil
  <1>2. /\ PlainTree(nodes, top) /\ DOMAIN words \subseteq DOMAIN nodes /\ gone \subseteq DOMAIN nodes
        /\ Nil \notin DOMAIN nodes
    BY PlainShape DEF PlainInv
  <1>3. ASSUME NEW k \in Asked
        PROVE  LET below == {w \in DOMAIN words : IsPrefix(k, w)}
                   above == {w \in DOMAIN words : IsPrefix(w, k)}
                   found == Plain!PrefixNode(k)
               IN  IF found = Nil THEN (below \cup above) = {} \/ \E g \in gone : IsPrefix(k, g)
                   ELSE IF below \cup {g \in gone : IsPrefix(k, g)} # {} THEN found \in below
                   ELSE found \in above /\ \A w \in above : Len(w) <= Len(found)
    <2>1. CASE k \in DOMAIN nodes
      <3>1. Plain!PrefixStart(k) = k
        BY <1>2, <2>1, PlainOperators, PlainSearches DEF Plain!PrefixStart
      <3>2. LET found == Plain!PrefixNode(k)
            IN  IF found = Nil THEN \E g \in gone : IsPrefix(k, g)
                ELSE found \in DOMAIN words /\ IsPrefix(k, found)
        BY <1>1, <2>1, <3>1, PrefixInTree
      <3> QED
        BY <3>2
    <2>2. CASE k \notin DOMAIN nodes
      <3>1. Plain!PrefixStart(k) = Plain!LastMatched(k)
        BY <1>2, <2>2, PlainOperators, PlainSearches DEF Plain!PrefixStart
      <3>2. LET above == {w \in DOMAIN words : IsPrefix(w, k)}
                found == Plain!PrefixNode(k)
            IN  IF found = Nil THEN above = {}
                ELSE found \in above /\ \A w \in above : Len(w) <= Len(found)
        BY <1>1, <2>2, <3>1, PrefixOffTree
      <3>3. \A w \in DOMAIN nodes : ~IsPrefix(k, w)
        BY <1>1, <1>2, <2>2, PrefixesAreNodes
      <3> QED
        BY <1>2, <3>2, <3>3
    <2> QED
      BY <2>1, <2>2
  <1> QED
    BY <1>3, PlainOperators DEF Plain!PrefixFindsWord

\* add_all_psb gives nodes with values, the first one if it has one, and stays
\* in a set that pointers do not leave.
LEMMA AddsWithin ==
    ASSUME PlainInv, NEW s \in DOMAIN nodes \cup {Nil},
           NEW S, s = Nil \/ s \in S, \A q \in S \cap DOMAIN nodes : Kids(nodes, q) \subseteq S
    PROVE  LET found == Plain!add_all_psb(s)
           IN  /\ \A q \in found : q \in S /\ q \in DOMAIN nodes /\ nodes[q].value # NoValue
               /\ s # Nil /\ nodes[s].value # NoValue => s \in found
  <1> DEFINE N == Cardinality(DOMAIN nodes)
             With(X) == {q \in X \ {Nil} : nodes[q].value # NoValue}
             More(X) == X \cup With(UNION {{nodes[q].equal, nodes[q].low, nodes[q].high} : q \in X})
             A == {X \in SUBSET (S \cap DOMAIN nodes) :
                      /\ With(X) = X
                      /\ s # Nil /\ nodes[s].value # NoValue => s \in X}
             G == [x \in (1 .. N) \X A |-> More(x[2])]
             Step(t) == [i \in 0 .. N |->
                            IF i = 0 THEN With({s})
                            ELSE LET seen == t[i - 1]
                                 IN  seen \cup With(UNION {{nodes[q].equal, nodes[q].low, nodes[q].high} :
                                                              q \in seen})]
             g == CHOOSE t : t = Step(t)
  <1>1. N \in Nat /\ Nil \notin DOMAIN nodes /\ \A q \in DOMAIN nodes : Kids(nodes, q) \subseteq DOMAIN nodes
    BY PlainShape DEF PlainInv
  <1>2. With({s}) \in A
    BY <1>1
  <1>3. ASSUME NEW X \in A PROVE More(X) \in A
    <2>1. X \subseteq S \cap DOMAIN nodes /\ With(X) = X
      OBVIOUS
    <2>2. \A q \in X : {nodes[q].equal, nodes[q].low, nodes[q].high} \ {Nil} \subseteq S \cap DOMAIN nodes
      BY <1>1, <2>1 DEF Kids
    <2>3. With(UNION {{nodes[q].equal, nodes[q].low, nodes[q].high} : q \in X}) \subseteq S \cap DOMAIN nodes
      BY <2>2
    <2>4. \A q \in More(X) : q # Nil /\ nodes[q].value # NoValue
      BY <2>1
    <2> QED
      BY <2>1, <2>3, <2>4
  <1> HIDE DEF With
  <1>4. Plain!add_all_psb(s) = g[N]
    BY DEF Plain!add_all_psb, Plain!Nil, Nil, Plain!Cardinality, Cardinality, With
  <1> HIDE DEF A, More
  <1>5. G \in [(1 .. N) \X A -> A]
    BY <1>3
  <1> HIDE DEF N, G
  <1>6. PICK t \in [0 .. N -> A] : Iterates(t, N, With({s}), G)
    BY <1>1, <1>2, <1>5, IteratesSome
  <1>7. t[0] = With({s}) /\ \A i \in 1 .. N : t[i] = More(t[i - 1])
    <2>1. 0 \in 0 .. N /\ \A i \in 1 .. N : i \in 0 .. N /\ i # 0 /\ i - 1 \in 0 .. N
      BY <1>1
    <2>2. t[0] = With({s}) /\ \A i \in 1 .. N : t[i] = G[<<i, t[i - 1]>>] /\ t[i - 1] \in A
      BY <1>6, <2>1 DEF Iterates
    <2> QED
      BY <2>2 DEF G
  <1>8. t = Step(t)
    <2>1. ASSUME NEW i \in 0 .. N PROVE t[i] = Step(t)[i]
      <3>1. i # 0 => i \in 1 .. N
        BY <1>1
      <3> QED
        BY <1>7, <3>1 DEF More
    <2> QED
      BY <2>1
  <1>9. g = Step(g)
    BY <1>8
  <1> HIDE DEF g
  <1>10. g[0] = With({s}) /\ \A i \in 1 .. N : g[i] = More(g[i - 1])
    <2>1. \A i \in 0 .. N : g[i] = Step(g)[i]
      BY <1>9
    <2>2. 0 \in 0 .. N /\ \A i \in 1 .. N : i \in 0 .. N /\ i # 0
      BY <1>1
    <2> QED
      BY <2>1, <2>2 DEF More
  <1> DEFINE T == {i \in Nat : i <= N => g[i] \in A}
  <1>11. 0 \in T
    BY <1>2, <1>10
  <1>12. ASSUME NEW n \in T PROVE n + 1 \in T
    <2>1. n \in Nat /\ (n + 1 <= N => n + 1 \in 1 .. N /\ (n + 1) - 1 = n /\ g[n] \in A)
      BY <1>1, <1>12
    <2>2. n + 1 <= N => g[n + 1] = More(g[n])
      BY <1>10, <2>1
    <2>3. n + 1 <= N => g[n + 1] \in A
      BY <1>3, <2>1, <2>2
    <2> QED
      BY <2>1, <2>3
  <1>13. T = Nat
    BY <1>11, <1>12, ByInduction
  <1>14. g[N] \in A
    <2>1. N \in T
      <3> HIDE DEF T
      <3> QED
        BY <1>1, <1>13
    <2> QED
      BY <1>1, <2>1
  <1> QED
    BY <1>4, <1>14 DEF A, With

LEMMA MatchesFound ==
    ASSUME Plain!KeyAssumption, PlainInv
    PROVE  Plain!MatchesAreNear
  <1>1. NoValue \notin Value /\ \A k \in Asked : k \in Name
    BY DEF Plain!KeyAssumption, Name, Nil
  <1>2. /\ PlainTree(nodes, top) /\ DOMAIN words \subseteq DOMAIN nodes
        /\ \A q \in DOMAIN nodes : nodes[q].value # NoValue <=> q \in DOMAIN words
    BY <1>1 DEF PlainInv, ValuesAreWords
  <1>3. /\ Nil \notin DOMAIN nodes /\ DOMAIN nodes \subseteq Name
        /\ \A q \in DOMAIN nodes : /\ Kids(nodes, q) \subseteq DOMAIN nodes
                                   /\ \A x \in Kids(nodes, q) : Sibling(q, x) \/ Child(q, x)
    BY <1>2, PlainShape DEF Kids
  <1> SUFFICES ASSUME NEW k \in Asked
               PROVE  LET found == Plain!TSTree_possible_match_by_prefix(k)
                      IN  /\ found \subseteq DOMAIN words
                          /\ k \in DOMAIN words => k \in found
                          /\ k \in DOMAIN nodes => \A w \in found : IsPrefix(Front(k), w)
    BY PlainOperators DEF Plain!MatchesAreNear
  <1> DEFINE s == Plain!PrefixStart(k)
             found == Plain!add_all_psb(s)
  <1>4. Plain!TSTree_possible_match_by_prefix(k) = found
    BY DEF Plain!TSTree_possible_match_by_prefix
  <1>5. /\ k \in DOMAIN nodes => s = k
        /\ s \in DOMAIN nodes \cup {Nil}
    <2>1. k \in DOMAIN nodes => s = k
      BY <1>2, <1>3, PlainOperators, PlainSearches DEF Plain!PrefixStart
    <2>2. ASSUME k \notin DOMAIN nodes PROVE s \in DOMAIN nodes \cup {Nil}
      <3> DEFINE path == Walk(nodes, top, k)
                 on == {i \in DOMAIN path : /\ path[i] # Nil /\ IsStrictPrefix(path[i], k)
                                            /\ nodes[path[i]].value # NoValue}
      <3>1. s = IF on = {} THEN Nil ELSE path[Max(on)]
        <4>1. s = Plain!LastMatched(k)
          BY <1>2, <2>2, PlainOperators, PlainSearches DEF Plain!PrefixStart
        <4> QED
          BY <4>1, PlainOperators DEF Plain!LastMatched
      <3>2. PICK n \in Nat : DOMAIN path = 1 .. n /\ \A i \in 1 .. n : path[i] \in DOMAIN nodes \cup {Nil}
        BY <1>1, <1>2, WalkInTree
      <3> HIDE DEF path
      <3>3. on \in SUBSET (1 .. n) /\ (on # {} => Max(on) \in on)
        BY <3>2, MaxIs
      <3> QED
        BY <3>1, <3>2, <3>3
    <2> QED
      BY <2>1, <2>2
  <1> HIDE DEF s
  <1>6. /\ \A q \in found : q \in DOMAIN nodes /\ nodes[q].value # NoValue
        /\ s # Nil /\ nodes[s].value # NoValue => s \in found
    BY <1>3, <1>5, AddsWithin
  <1>7. ASSUME k \in DOMAIN nodes, NEW w \in found PROVE IsPrefix(Front(k), w)
    <2> DEFINE S == {q \in DOMAIN nodes : Len(k) <= Len(q) /\ \A i \in 1 .. Len(k) - 1 : q[i] = k[i]}
    <2>1. k \in Name /\ Len(k) \in Nat \ {0} /\ s = k
      BY <1>1, <1>5, <1>7, NameFacts
    <2>2. s \in S
      BY <1>7, <2>1
    <2>3. ASSUME NEW q \in S, NEW x \in Kids(nodes, q) PROVE x \in S
      <3>1. q \in DOMAIN nodes /\ x \in DOMAIN nodes /\ (Sibling(q, x) \/ Child(q, x))
        BY <1>3
      <3>2. Len(q) \in Nat /\ Len(x) \in Nat /\ Len(k) <= Len(q)
        BY <1>3, <3>1, NameFacts
      <3>3. Len(q) <= Len(x) /\ \A i \in 1 .. Len(k) - 1 : x[i] = q[i]
        BY <2>1, <3>1, <3>2 DEF Sibling, Child
      <3>4. Len(k) <= Len(x)
        BY <2>1, <3>2, <3>3
      <3> QED
        BY <3>1, <3>3, <3>4
    <2> HIDE DEF S
    <2>4. w \in S
      BY <1>5, <2>2, <2>3, AddsWithin
    <2>5. w \in Name /\ Len(k) <= Len(w) /\ \A i \in 1 .. Len(k) - 1 : w[i] = k[i]
      BY <1>3, <2>4 DEF S
    <2> QED
      BY <2>1, <2>5, FrontIs
  <1> HIDE DEF found
  <1>8. k \in DOMAIN words => k \in found
    BY <1>2, <1>3, <1>5, <1>6
  <1> QED
    BY <1>2, <1>4, <1>6, <1>7, <1>8

LEMMA SearchFound ==
    ASSUME Plain!KeyAssumption, PlainInv
    PROVE  Plain!SearchFindsWords
  <1>1. \A key : Plain!Pinpoint(nodes, top, key) = Pinpoint(nodes, top, key)
    BY PlainOperators
  <1>2. /\ \A q \in DOMAIN nodes : Pinpoint(nodes, top, q) = q
        /\ \A key : \/ Pinpoint(nodes, top, key) = Nil
                    \/ Pinpoint(nodes, top, key) = key /\ key \in DOMAIN nodes
        /\ Nil \notin DOMAIN nodes
    BY PlainSearches, PlainShape DEF PlainInv
  <1>3. DOMAIN words \subseteq DOMAIN nodes
        /\ \A q \in DOMAIN nodes : nodes[q].value = IF q \in DOMAIN words THEN words[q] ELSE NoValue
    BY DEF PlainInv, ValuesAreWords
  <1> QED
    BY <1>1, <1>2, <1>3, PlainOperators DEF Plain!SearchFindsWords, Plain!TSTree_search

\* Whatever keys are inserted and deleted in whatever order, TSTree_search,
\* TSTree_search_prefix, TSTree_possible_match_by_prefix and TSTree_traverse
\* find in the plain tree what the calls left there.
THEOREM WordsAlwaysFound ==
    ASSUME Plain!KeyAssumption
    PROVE  Plain!Spec => []Plain!WordsAreFound
  <1>1. PlainInv => Plain!NothingUnreached
    BY PlainOperators, PlainSearches DEF PlainInv, Plain!NothingUnreached
  <1>2. PlainInv => Plain!WordsAreFound
    BY <1>1, SearchFound, PrefixFound, MatchesFound DEF Plain!WordsAreFound
  <1> QED
    BY <1>2, PlainInvAlways, PTL
=============================================================================
