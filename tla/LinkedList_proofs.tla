------------------------- MODULE LinkedList_proofs -------------------------
(***************************************************************************)
(* For every number of lists and nodes and every set of values: the lists  *)
(* of list.c stay well linked under every call, a call on lists is a call  *)
(* on sequences, and nodes are lost in two known places only.              *)
(***************************************************************************)
EXTENDS LinkedList, SequenceTheorems, WellFoundedInduction, TLAPS

-----------------------------------------------------------------------------
(* Induction, in the form of a set of numbers: the provers cannot take an  *)
(* operator as a parameter, but every property is a set.                   *)

LEMMA LeastOf ==
    ASSUME NEW T \in SUBSET Nat, T # {}
    PROVE  \E x \in T : \A y \in T : x <= y
<1> DEFINE R == OpToRel(<, Nat)
<1>1. IsWellFoundedOn(R, Nat)  BY NatLessThanWellFounded
<1> HIDE DEF R
<1>2. PICK x \in T : \A y \in T : ~ (<<y, x>> \in R)  BY <1>1, WFMin
<1>3. ASSUME NEW y \in T PROVE x <= y
  <2>1. x \in Nat /\ y \in Nat  OBVIOUS
  <2>2. y < x => <<y, x>> \in R  BY <2>1 DEF R, OpToRel
  <2>3. QED  BY <1>2, <2>1, <2>2
<1>4. QED  BY <1>3

LEMMA ByInduction ==
    ASSUME NEW T \in SUBSET Nat, 0 \in T, \A n \in T : n + 1 \in T
    PROVE  T = Nat
<1> SUFFICES ASSUME Nat \ T # {} PROVE FALSE  OBVIOUS
<1>1. PICK x \in Nat \ T : \A y \in Nat \ T : x <= y
  <2>1. Nat \ T \in SUBSET Nat  OBVIOUS
  <2>2. QED  BY <2>1, LeastOf
<1>2. x # 0 /\ x - 1 \in Nat /\ x - 1 \in T  BY <1>1
<1>3. (x - 1) + 1 = x  BY <1>1
<1>4. QED  BY <1>1, <1>2, <1>3

-----------------------------------------------------------------------------
(* The way through a list.                                                 *)

Way(m, l, c) ==
    /\ c \in Seq(DOMAIN m.nodes) /\ Len(c) = m.lists[l].count
    /\ Leads(m, l, c)

\* There is only one: what Chain computes, node by node, along next.
LEMMA WayIsChain ==
    ASSUME NEW m, NEW l, NEW c, Way(m, l, c)
    PROVE  Chain(m, l) = c
<1> DEFINE n == m.lists[l].count
           first == m.lists[l].first
           Unfolds(f) == f = [i \in 1 .. n |-> IF i = 1 THEN first ELSE After(m, f[i - 1])]
           node == CHOOSE f : Unfolds(f)
<1>0. n \in Nat /\ Len(c) = n /\ c = [i \in 1 .. n |-> c[i]]  BY LenProperties DEF Way
<1>1. \A i \in 1 .. n : c[i] = IF i = 1 THEN first ELSE After(m, c[i - 1])
  <2>1. ASSUME NEW i \in 1 .. n, i # 1 PROVE c[i] = After(m, c[i - 1])
    <3>1. i - 1 \in 1 .. n /\ i - 1 # n /\ (i - 1) + 1 = i  BY <1>0, <2>1
    <3>2. c[i - 1] \in DOMAIN m.nodes /\ m.nodes[c[i - 1]].next = c[(i - 1) + 1]
      BY <3>1 DEF Way, Leads
    <3>3. QED  BY <3>1, <3>2 DEF After
  <2>2. 1 \in 1 .. n => c[1] = first  BY <1>0 DEF Way, Leads
  <2>3. QED  BY <2>1, <2>2
<1>2. Unfolds(node)
  <2>1. c = [i \in 1 .. n |-> IF i = 1 THEN first ELSE After(m, c[i - 1])]
    <3> HIDE DEF n, first
    <3>1. QED  BY <1>0, <1>1
  <2>2. Unfolds(c)  BY <2>1
  <2> HIDE DEF Unfolds
  <2>3. QED  BY <2>2
<1>3. \A i \in 1 .. n : node[i] = IF i = 1 THEN first ELSE After(m, node[i - 1])
  <2>1. node = [i \in 1 .. n |-> IF i = 1 THEN first ELSE After(m, node[i - 1])]  BY <1>2
  <2> HIDE DEF node, n, first
  <2>2. QED  BY <2>1
<1>4. Chain(m, l) = [i \in 1 .. n |-> node[i]]  BY DEF Chain
<1> HIDE DEF node, n, first
<1> DEFINE T == {i \in Nat : i \in 1 .. n => node[i] = c[i]}
<1>5. T = Nat
  <2>1. 0 \in T  OBVIOUS
  <2>2. \A i \in T : i + 1 \in T
    <3>1. SUFFICES ASSUME NEW i \in Nat, i \in 1 .. n => node[i] = c[i], i + 1 \in 1 .. n
                   PROVE  node[i + 1] = c[i + 1]
      OBVIOUS
    <3>2. CASE i = 0
      <4>1. i + 1 = 1  BY <3>2
      <4>2. QED  BY <1>1, <1>3, <3>1, <4>1
    <3>3. CASE i # 0
      <4>1. i \in 1 .. n /\ i + 1 # 1 /\ (i + 1) - 1 = i  BY <1>0, <3>1, <3>3
      <4>2. node[i + 1] = After(m, node[i])  BY <1>3, <3>1, <4>1
      <4>3. c[i + 1] = After(m, c[i])  BY <1>1, <3>1, <4>1
      <4>4. QED  BY <3>1, <4>1, <4>2, <4>3
    <3>4. QED  BY <3>2, <3>3
  <2>3. T \in SUBSET Nat  OBVIOUS
  <2> HIDE DEF T
  <2>4. QED  BY <2>1, <2>2, <2>3, ByInduction
<1>6. \A i \in 1 .. n : node[i] = c[i]  BY <1>0, <1>5
<1>7. QED  BY <1>0, <1>4, <1>6

LEMMA ChainIsWay ==
    ASSUME NEW m, Typed(m), NEW l \in DOMAIN m.lists, Leads(m, l, Chain(m, l))
    PROVE  Way(m, l, Chain(m, l))
<1> DEFINE n == m.lists[l].count
           c == Chain(m, l)
<1>1. n \in Nat  BY DEF Typed, List
<1> DEFINE node == CHOOSE f : f = [i \in 1 .. n |-> IF i = 1 THEN m.lists[l].first
                                                      ELSE After(m, f[i - 1])]
<1>2. c = [i \in 1 .. n |-> node[i]]  BY DEF Chain
<1>3. \A i \in 1 .. n : c[i] \in DOMAIN m.nodes  BY DEF Leads
<1> HIDE DEF n, c, node
<1>4. c \in [1 .. n -> DOMAIN m.nodes]  BY <1>2, <1>3
<1>5. c \in Seq(DOMAIN m.nodes) /\ Len(c) = n  BY <1>1, <1>4
<1>6. QED  BY <1>5 DEF Way, n, c

\* No node is twice on it: where prev leads back from one place, it leads
\* back from the other, until one of them is the first.
LEMMA WayIsSimple ==
    ASSUME NEW m, NEW l, NEW c, Way(m, l, c), Null \notin DOMAIN m.nodes
    PROVE  \A i, j \in 1 .. Len(c) : c[i] = c[j] => i = j
<1> DEFINE T == {i \in Nat : i \in 1 .. Len(c) =>
                       \A j \in 1 .. Len(c) : i < j => c[i] # c[j]}
<1>1. Len(c) \in Nat /\ \A i \in 1 .. Len(c) : c[i] \in DOMAIN m.nodes
  BY LenProperties, ElementOfSeq DEF Way
<1>2. \A i \in 1 .. Len(c) : m.nodes[c[i]].prev = IF i = 1 THEN Null ELSE c[i - 1]
  BY DEF Way, Leads
<1>3. T = Nat
  <2>1. 0 \in T  OBVIOUS
  <2>2. \A i \in T : i + 1 \in T
    <3> SUFFICES ASSUME NEW i \in T PROVE i + 1 \in T  OBVIOUS
    <3> SUFFICES ASSUME i + 1 \in 1 .. Len(c)
                 PROVE  \A j \in 1 .. Len(c) : i + 1 < j => c[i + 1] # c[j]
      OBVIOUS
    <3>1. SUFFICES ASSUME NEW j \in 1 .. Len(c), i + 1 < j, c[i + 1] = c[j]
                   PROVE  FALSE
      OBVIOUS
    <3>a. i \in Nat /\ (i \in 1 .. Len(c) => \A k \in 1 .. Len(c) : i < k => c[i] # c[k])
      OBVIOUS
    <3> HIDE DEF T
    <3>2. j # 1 /\ j - 1 \in 1 .. Len(c) /\ i < j - 1  BY <1>1, <3>1, <3>a
    <3>3. m.nodes[c[j]].prev = c[j - 1]  BY <1>2, <3>2
    <3>4. CASE i = 0
      <4>1. i + 1 = 1  BY <3>4
      <4>2. m.nodes[c[i + 1]].prev = Null  BY <1>2, <3>1, <4>1
      <4>3. QED  BY <1>1, <3>1, <3>2, <3>3, <4>2
    <3>5. CASE i # 0
      <4>1. i \in 1 .. Len(c) /\ i + 1 # 1 /\ (i + 1) - 1 = i  BY <1>1, <3>a, <3>1, <3>5
      <4>2. m.nodes[c[i + 1]].prev = c[i]  BY <1>2, <3>1, <4>1
      <4>3. QED  BY <3>1, <3>2, <3>3, <3>a, <4>1, <4>2
    <3>6. QED  BY <3>4, <3>5
  <2>3. T \in SUBSET Nat  OBVIOUS
  <2> HIDE DEF T
  <2>4. QED  BY <2>1, <2>2, <2>3, ByInduction
<1>4. \A i, j \in 1 .. Len(c) : i < j => c[i] # c[j]
  <2>1. \A i \in 1 .. Len(c) : i \in T  BY <1>1, <1>3
  <2>2. QED  BY <2>1
<1>5. QED  BY <1>1, <1>4

-----------------------------------------------------------------------------
(* The ways through all lists.                                             *)

Apart(c, d) == \A i \in 1 .. Len(c), j \in 1 .. Len(d) : c[i] # d[j]

Ways(m, C) ==
    /\ \A l \in DOMAIN m.lists : Way(m, l, C[l])
    /\ \A l, k \in DOMAIN m.lists : l # k => Apart(C[l], C[k])

\* C, with other nodes for list l, for the lists of w.
Renewed(C, w, l, c) == [k \in DOMAIN w.lists |-> IF k = l THEN c ELSE C[k]]

Chains(m) == [l \in DOMAIN m.lists |-> Chain(m, l)]

LEMMA LinkedHasWays ==
    ASSUME NEW m, Typed(m), Linked(m)
    PROVE  Ways(m, Chains(m))
<1>1. ASSUME NEW l \in DOMAIN m.lists
      PROVE  Way(m, l, Chain(m, l)) /\ DOMAIN Chain(m, l) = 1 .. Len(Chain(m, l))
  <2>1. Way(m, l, Chain(m, l))  BY ChainIsWay DEF Linked
  <2>2. QED  BY <2>1, LenProperties DEF Way
<1>2. \A l \in DOMAIN m.lists : Chains(m)[l] = Chain(m, l)  BY DEF Chains
<1>3. ASSUME NEW l \in DOMAIN m.lists, NEW k \in DOMAIN m.lists, l # k
      PROVE  Apart(Chain(m, l), Chain(m, k))
  BY <1>1, <1>3 DEF Linked, Apart
<1>4. QED  BY <1>1, <1>2, <1>3 DEF Ways

LEMMA WaysAreChains ==
    ASSUME NEW m, NEW C, Ways(m, C)
    PROVE  /\ Linked(m)
           /\ \A l \in DOMAIN m.lists : Chain(m, l) = C[l]
<1>1. \A l \in DOMAIN m.lists : Chain(m, l) = C[l]  BY WayIsChain DEF Ways
<1>2. \A l \in DOMAIN m.lists : Leads(m, l, C[l]) /\ DOMAIN C[l] = 1 .. Len(C[l])
  BY LenProperties DEF Ways, Way
<1>3. \A l, k \in DOMAIN m.lists : l # k => \A i \in DOMAIN C[l], j \in DOMAIN C[k] : C[l][i] # C[k][j]
  BY <1>2 DEF Ways, Apart
<1>4. Linked(m)  BY <1>1, <1>2, <1>3 DEF Linked
<1>5. QED  BY <1>1, <1>4

\* A list none of whose nodes has its links changed.
LEMMA WayIsKept ==
    ASSUME NEW m, NEW w, NEW l, NEW c, Way(m, l, c), w.lists[l] = m.lists[l],
           \A i \in 1 .. Len(c) : /\ c[i] \in DOMAIN w.nodes
                                  /\ w.nodes[c[i]].next = m.nodes[c[i]].next
                                  /\ w.nodes[c[i]].prev = m.nodes[c[i]].prev
    PROVE  Way(w, l, c)
<1>1. Len(c) \in Nat /\ c \in [1 .. Len(c) -> DOMAIN m.nodes]  BY LenProperties DEF Way
<1>2. c \in [1 .. Len(c) -> DOMAIN w.nodes]  BY <1>1
<1>3. c \in Seq(DOMAIN w.nodes)  BY <1>1, <1>2
<1>4. Leads(w, l, c)  BY DEF Way, Leads
<1>5. QED  BY <1>3, <1>4 DEF Way

-----------------------------------------------------------------------------
(* A new list.                                                             *)

LEMMA ListedWays ==
    ASSUME NEW m, Typed(m), NEW C, Ways(m, C), NEW l \in ListId, l \notin DOMAIN m.lists
    PROVE  LET w == Listed(m, l)
           IN  /\ Typed(w) /\ DOMAIN w.lists = DOMAIN m.lists \cup {l} /\ w.nodes = m.nodes
               /\ Ways(w, Renewed(C, w, l, <<>>))
<1> DEFINE w == Listed(m, l)
           D == Renewed(C, w, l, <<>>)
<1>1. /\ w = [nodes |-> m.nodes, lists |-> With(m.lists, l, NewList)]
      /\ w.nodes = m.nodes /\ w.lists = With(m.lists, l, NewList)
  BY DEF Listed, Typed
<1>2. /\ DOMAIN w.lists = DOMAIN m.lists \cup {l}
      /\ w.lists[l] = NewList
      /\ \A k \in DOMAIN m.lists : w.lists[k] = m.lists[k]
  BY <1>1 DEF With
<1>3. Typed(w)
  <2>1. NewList \in List  BY DEF NewList, List
  <2>2. w.lists \in [DOMAIN w.lists -> List]  BY <1>1, <2>1 DEF With, Typed
  <2>3. QED  BY <1>1, <1>2, <2>2 DEF Typed
<1> HIDE DEF w
<1>4. Way(w, l, <<>>)
  BY <1>2, EmptySeq DEF Way, Leads, NewList
<1>5. \A k \in DOMAIN m.lists : Way(w, k, C[k])
  <2>1. SUFFICES ASSUME NEW k \in DOMAIN m.lists PROVE Way(w, k, C[k])  OBVIOUS
  <2>2. Way(m, k, C[k])  BY DEF Ways
  <2>3. \A i \in 1 .. Len(C[k]) : C[k][i] \in DOMAIN m.nodes  BY <2>2, ElementOfSeq DEF Way
  <2>4. QED  BY <1>1, <1>2, <2>2, <2>3, WayIsKept
<1>6. /\ D[l] = <<>> /\ \A k \in DOMAIN m.lists : k # l /\ D[k] = C[k]
  BY <1>2 DEF Renewed
<1> HIDE DEF D
<1>7. Len(<<>>) = 0 /\ \A c : Apart(<<>>, c) /\ Apart(c, <<>>)  BY DEF Apart
<1>8. Ways(w, D)
  <2>1. \A k \in DOMAIN w.lists : Way(w, k, D[k])  BY <1>2, <1>4, <1>5, <1>6
  <2>2. \A j, k \in DOMAIN w.lists : j # k => Apart(D[j], D[k])
    BY <1>2, <1>6, <1>7 DEF Ways
  <2>3. QED  BY <2>1, <2>2 DEF Ways
<1>9. QED  BY <1>1, <1>2, <1>3, <1>8 DEF w, D

-----------------------------------------------------------------------------
(* A call that changes one list.                                           *)

\* From m to w, list l goes from the nodes b to the nodes c, some of them
\* old and some new; the nodes off l and the other lists are left alone.
Rewires(m, w, l, b, c) ==
    /\ DOMAIN w.lists = DOMAIN m.lists
    /\ \A k \in DOMAIN m.lists : k # l => w.lists[k] = m.lists[k]
    /\ \A x \in DOMAIN m.nodes :
          (\A i \in 1 .. Len(b) : x # b[i]) =>
              /\ x \in DOMAIN w.nodes
              /\ w.nodes[x].next = m.nodes[x].next /\ w.nodes[x].prev = m.nodes[x].prev
    /\ \A i \in 1 .. Len(c) : c[i] \notin DOMAIN m.nodes \/ \E j \in 1 .. Len(b) : c[i] = b[j]

LEMMA OneWayChanged ==
    ASSUME NEW m, NEW C, Ways(m, C), NEW w, NEW l \in DOMAIN m.lists, NEW c, Way(w, l, c),
           Rewires(m, w, l, C[l], c)
    PROVE  Ways(w, Renewed(C, w, l, c))
<1> DEFINE D == Renewed(C, w, l, c)
<1>0. DOMAIN w.lists = DOMAIN m.lists  BY DEF Rewires
<1>1. D[l] = c /\ \A k \in DOMAIN m.lists : k # l => D[k] = C[k]  BY <1>0 DEF Renewed
<1> HIDE DEF D
<1>2. ASSUME NEW k \in DOMAIN m.lists, k # l
      PROVE  Way(w, k, C[k]) /\ Apart(c, C[k]) /\ Apart(C[k], c)
  <2>1. Way(m, k, C[k]) /\ Apart(C[k], C[l])  BY <1>2 DEF Ways
  <2>2. \A i \in 1 .. Len(C[k]) : C[k][i] \in DOMAIN m.nodes  BY <2>1, ElementOfSeq DEF Way
  <2>3. \A i \in 1 .. Len(C[k]) : \A j \in 1 .. Len(C[l]) : C[k][i] # C[l][j]  BY <2>1 DEF Apart
  <2>4. Way(w, k, C[k])
    <3>1. w.lists[k] = m.lists[k]  BY <1>2 DEF Rewires
    <3>2. \A i \in 1 .. Len(C[k]) : /\ C[k][i] \in DOMAIN w.nodes
                                    /\ w.nodes[C[k][i]].next = m.nodes[C[k][i]].next
                                    /\ w.nodes[C[k][i]].prev = m.nodes[C[k][i]].prev
      BY <2>2, <2>3 DEF Rewires
    <3>3. QED  BY <2>1, <3>1, <3>2, WayIsKept
  <2>5. \A i \in 1 .. Len(c), j \in 1 .. Len(C[k]) : c[i] # C[k][j]
    BY <2>2, <2>3 DEF Rewires
  <2>6. QED  BY <2>4, <2>5 DEF Apart
<1>3. \A k \in DOMAIN w.lists : Way(w, k, D[k])  BY <1>0, <1>1, <1>2
<1>4. ASSUME NEW j \in DOMAIN w.lists, NEW k \in DOMAIN w.lists, j # k
      PROVE  Apart(D[j], D[k])
  <2>1. CASE j = l  BY <1>0, <1>1, <1>2, <1>4, <2>1
  <2>2. CASE k = l  BY <1>0, <1>1, <1>2, <1>4, <2>2
  <2>3. CASE j # l /\ k # l
    <3>1. D[j] = C[j] /\ D[k] = C[k]  BY <1>0, <1>1, <2>3
    <3>2. QED  BY <1>0, <1>4, <3>1 DEF Ways
  <2>4. QED  BY <2>1, <2>2, <2>3
<1>5. Ways(w, D)  BY <1>3, <1>4 DEF Ways
<1>6. QED  BY <1>5 DEF D

\* What a way says of its ends.
LEMMA WayEnds ==
    ASSUME NEW m, Typed(m), NEW l \in DOMAIN m.lists, NEW c, Way(m, l, c)
    PROVE  /\ Len(c) \in Nat /\ m.lists[l].count = Len(c)
           /\ \A i \in 1 .. Len(c) : c[i] \in DOMAIN m.nodes /\ c[i] \in NodeId /\ c[i] # Null
           /\ Len(c) = 0 => m.lists[l].first = Null /\ m.lists[l].last = Null
           /\ Len(c) # 0 => /\ m.lists[l].first = c[1] /\ m.lists[l].last = c[Len(c)]
                            /\ 1 \in 1 .. Len(c) /\ Len(c) \in 1 .. Len(c)
<1>1. Len(c) \in Nat /\ m.lists[l].count = Len(c)  BY LenProperties DEF Way
<1>2. \A i \in 1 .. Len(c) : c[i] \in DOMAIN m.nodes  BY ElementOfSeq DEF Way
<1>3. Null \notin NodeId /\ DOMAIN m.nodes \subseteq NodeId  BY NullAssumption DEF Typed
<1>4. QED  BY <1>1, <1>2, <1>3 DEF Way, Leads

LEMMA PushedMemory ==
    ASSUME NEW m, Typed(m), NEW C, Ways(m, C), NEW l \in DOMAIN m.lists, NEW v \in Value,
           NEW n \in FreeNodes(m)
    PROVE  LET w == Pushed(m, l, v, n)
               c == C[l]
           IN  /\ Typed(w)
               /\ DOMAIN w.lists = DOMAIN m.lists /\ DOMAIN w.nodes = DOMAIN m.nodes \cup {n}
               /\ \A k \in DOMAIN m.lists : k # l => w.lists[k] = m.lists[k]
               /\ w.lists[l].first = (IF Len(c) = 0 THEN n ELSE m.lists[l].first)
               /\ w.lists[l].last = n /\ w.lists[l].count = Len(c) + 1
               /\ w.nodes[n].next = Null /\ w.nodes[n].prev = m.lists[l].last /\ w.nodes[n].value = v
               /\ \A x \in DOMAIN m.nodes :
                     /\ w.nodes[x].next = IF Len(c) # 0 /\ x = m.lists[l].last THEN n ELSE m.nodes[x].next
                     /\ w.nodes[x].prev = m.nodes[x].prev /\ w.nodes[x].value = m.nodes[x].value
<1> DEFINE w == Pushed(m, l, v, n)
           c == C[l]
           L == m.lists[l]
           new == [next |-> Null, prev |-> L.last, value |-> v]
           linked == With(m.nodes, n, new)
<1>1. Way(m, l, c)  BY DEF Ways
<1>2. /\ Len(c) \in Nat /\ L.count = Len(c)
      /\ Len(c) = 0 => L.first = Null /\ L.last = Null
      /\ Len(c) # 0 => L.last \in DOMAIN m.nodes /\ L.last # Null
  BY <1>1, WayEnds
<1>3. /\ m.nodes \in [DOMAIN m.nodes -> Node] /\ m.lists \in [DOMAIN m.lists -> List]
      /\ DOMAIN m.nodes \subseteq NodeId /\ DOMAIN m.lists \subseteq ListId
      /\ L \in List /\ n \in NodeId /\ n \notin DOMAIN m.nodes
  BY DEF Typed, FreeNodes
<1>4. new \in Node  BY <1>3 DEF Node, List
<1>5. /\ linked \in [DOMAIN m.nodes \cup {n} -> Node] /\ linked[n] = new
      /\ \A x \in DOMAIN m.nodes : linked[x] = m.nodes[x]
  BY <1>3, <1>4 DEF With
<1> HIDE DEF linked, c
<1>6. CASE Len(c) = 0
  <2> DEFINE lists == [m.lists EXCEPT ![l] = [first |-> n, last |-> n, count |-> @.count + 1]]
  <2>1. w = [nodes |-> linked, lists |-> lists]  BY <1>2, <1>6 DEF Pushed, linked
  <2>2. [first |-> n, last |-> n, count |-> L.count + 1] \in List  BY <1>2, <1>3 DEF List
  <2>3. lists \in [DOMAIN m.lists -> List]  BY <1>3, <2>2
  <2>4. w.nodes = linked /\ w.lists = lists  BY <2>1
  <2>5. Typed(w)  BY <1>3, <1>5, <2>1, <2>3, <2>4 DEF Typed
  <2>6. /\ lists[l] = [first |-> n, last |-> n, count |-> L.count + 1]
        /\ \A k \in DOMAIN m.lists : k # l => lists[k] = m.lists[k]
        /\ DOMAIN lists = DOMAIN m.lists /\ DOMAIN linked = DOMAIN m.nodes \cup {n}
    BY <1>3, <1>5
  <2> HIDE DEF lists, w
  <2>7. QED  BY <1>2, <1>5, <1>6, <2>4, <2>5, <2>6 DEF w, c
<1>7. CASE Len(c) # 0
  <2> DEFINE nodes == [linked EXCEPT ![L.last].next = n]
             lists == [m.lists EXCEPT ![l].last = n, ![l].count = @ + 1]
  <2>1. w = [nodes |-> nodes, lists |-> lists]  BY <1>2, <1>7 DEF Pushed, linked
  <2>2. /\ lists[l].first = L.first /\ lists[l].last = n /\ lists[l].count = L.count + 1
        /\ lists[l] \in List
        /\ \A k \in DOMAIN m.lists : k # l => lists[k] = m.lists[k]
        /\ DOMAIN lists = DOMAIN m.lists
    <3>1. L = [first |-> L.first, last |-> L.last, count |-> L.count]  BY <1>3 DEF List
    <3>2. lists[l] = [first |-> L.first, last |-> n, count |-> L.count + 1]  BY <1>3, <3>1
    <3>3. [first |-> L.first, last |-> n, count |-> L.count + 1] \in List  BY <1>2, <1>3 DEF List
    <3>4. \A k \in DOMAIN m.lists : k # l => lists[k] = m.lists[k]  BY <1>3
    <3>5. DOMAIN lists = DOMAIN m.lists  BY <1>3
    <3> HIDE DEF lists
    <3>6. QED  BY <3>2, <3>3, <3>4, <3>5
  <2>3. lists \in [DOMAIN m.lists -> List]  BY <1>3, <2>2
  <2>4. L.last # n /\ L.last \in DOMAIN linked  BY <1>2, <1>3, <1>5, <1>7
  <2>5. /\ nodes[L.last] = [linked[L.last] EXCEPT !.next = n]
        /\ \A x \in DOMAIN m.nodes \cup {n} : x # L.last => nodes[x] = linked[x]
        /\ DOMAIN nodes = DOMAIN m.nodes \cup {n}
    BY <1>5, <2>4
  <2>6. linked[L.last] \in Node  BY <1>5, <2>4
  <2>7. /\ nodes[L.last] \in Node /\ nodes[L.last].next = n
        /\ nodes[L.last].prev = linked[L.last].prev /\ nodes[L.last].value = linked[L.last].value
    BY <1>3, <2>5, <2>6 DEF Node
  <2>8. nodes \in [DOMAIN m.nodes \cup {n} -> Node]
    <3>1. \A x \in DOMAIN m.nodes \cup {n} : nodes[x] \in Node  BY <1>5, <2>5, <2>7
    <3>2. nodes = [x \in DOMAIN m.nodes \cup {n} |-> nodes[x]]  BY <1>5
    <3>3. QED  BY <3>1, <3>2
  <2>9. w.nodes = nodes /\ w.lists = lists  BY <2>1
  <2>10. Typed(w)  BY <1>3, <2>1, <2>2, <2>3, <2>5, <2>8, <2>9 DEF Typed
  <2> HIDE DEF nodes, lists, w
  <2>11. nodes[n] = new  BY <1>5, <2>4, <2>5
  <2>12. \A x \in DOMAIN m.nodes :
            /\ nodes[x].next = IF x = L.last THEN n ELSE m.nodes[x].next
            /\ nodes[x].prev = m.nodes[x].prev /\ nodes[x].value = m.nodes[x].value
    BY <1>2, <1>5, <1>7, <2>5, <2>7
  <2>13. QED  BY <1>2, <1>7, <2>2, <2>5, <2>9, <2>10, <2>11, <2>12 DEF w, c
<1>8. QED  BY <1>6, <1>7

LEMMA PushedWays ==
    ASSUME NEW m, Typed(m), NEW C, Ways(m, C), NEW l \in DOMAIN m.lists, NEW v \in Value,
           NEW n \in FreeNodes(m)
    PROVE  LET w == Pushed(m, l, v, n)
           IN  Ways(w, Renewed(C, w, l, Append(C[l], n)))
<1> DEFINE w == Pushed(m, l, v, n)
           c == C[l]
           d == Append(c, n)
<1>1. Way(m, l, c)  BY DEF Ways
<1>2. /\ Len(c) \in Nat
      /\ \A i \in 1 .. Len(c) : c[i] \in DOMAIN m.nodes /\ c[i] \in NodeId /\ c[i] # Null
      /\ Len(c) = 0 => m.lists[l].first = Null /\ m.lists[l].last = Null
      /\ Len(c) # 0 => /\ m.lists[l].first = c[1] /\ m.lists[l].last = c[Len(c)]
                       /\ 1 \in 1 .. Len(c) /\ Len(c) \in 1 .. Len(c)
  BY <1>1, WayEnds
<1>3. /\ DOMAIN w.lists = DOMAIN m.lists /\ DOMAIN w.nodes = DOMAIN m.nodes \cup {n}
      /\ \A k \in DOMAIN m.lists : k # l => w.lists[k] = m.lists[k]
      /\ w.lists[l].first = (IF Len(c) = 0 THEN n ELSE m.lists[l].first)
      /\ w.lists[l].last = n /\ w.lists[l].count = Len(c) + 1
      /\ w.nodes[n].next = Null /\ w.nodes[n].prev = m.lists[l].last
      /\ \A x \in DOMAIN m.nodes :
            /\ w.nodes[x].next = IF Len(c) # 0 /\ x = m.lists[l].last THEN n ELSE m.nodes[x].next
            /\ w.nodes[x].prev = m.nodes[x].prev
  BY PushedMemory
<1>4. n \notin DOMAIN m.nodes  BY DEF FreeNodes
<1>5. \A i, j \in 1 .. Len(c) : c[i] = c[j] => i = j
  <2>1. Null \notin DOMAIN m.nodes  BY NullAssumption DEF Typed
  <2>2. QED  BY <1>1, <2>1, WayIsSimple
<1>6. c \in Seq(DOMAIN w.nodes) /\ n \in DOMAIN w.nodes
  <2>1. c \in [1 .. Len(c) -> DOMAIN w.nodes]  BY <1>1, <1>2, <1>3, LenProperties DEF Way
  <2>2. QED  BY <1>2, <1>3, <2>1
<1>7. /\ d \in Seq(DOMAIN w.nodes) /\ Len(d) = Len(c) + 1 /\ d[Len(c) + 1] = n
      /\ \A i \in 1 .. Len(c) : d[i] = c[i]
  <2> HIDE DEF w, c
  <2>1. QED  BY <1>6, AppendProperties
<1>8. \A i \in 1 .. Len(c) : /\ m.nodes[c[i]].next = IF i = Len(c) THEN Null ELSE c[i + 1]
                             /\ m.nodes[c[i]].prev = IF i = 1 THEN Null ELSE c[i - 1]
  BY <1>1, <1>2 DEF Way, Leads
<1> HIDE DEF w, c, d
<1>9. Way(w, l, d)
  <2>1. w.lists[l].first = d[1]
    <3>1. CASE Len(c) = 0  BY <1>3, <1>7, <3>1
    <3>2. CASE Len(c) # 0  BY <1>2, <1>3, <1>7, <3>2
    <3>3. QED  BY <3>1, <3>2
  <2>2. w.lists[l].last = d[Len(c) + 1]  BY <1>3, <1>7
  <2>3. ASSUME NEW i \in 1 .. Len(c) + 1
        PROVE  /\ d[i] \in DOMAIN w.nodes
               /\ w.nodes[d[i]].next = IF i = Len(c) + 1 THEN Null ELSE d[i + 1]
               /\ w.nodes[d[i]].prev = IF i = 1 THEN Null ELSE d[i - 1]
    <3>1. CASE i = Len(c) + 1
      <4>1. d[i] = n  BY <1>7, <3>1
      <4>2. CASE Len(c) = 0  BY <1>2, <1>3, <3>1, <4>1, <4>2
      <4>3. CASE Len(c) # 0
        <5>1. i # 1 /\ d[i - 1] = c[Len(c)]  BY <1>2, <1>7, <3>1, <4>3
        <5>2. QED  BY <1>2, <1>3, <3>1, <4>1, <4>3, <5>1
      <4>4. QED  BY <4>2, <4>3
    <3>2. CASE i # Len(c) + 1
      <4>1. i \in 1 .. Len(c)  BY <1>2, <3>2
      <4>2. d[i] = c[i] /\ c[i] \in DOMAIN m.nodes  BY <1>2, <1>7, <4>1
      <4>3. Len(c) # 0 /\ (c[i] = m.lists[l].last <=> i = Len(c))  BY <1>2, <1>5, <4>1
      <4>4. i # Len(c) => i + 1 \in 1 .. Len(c)  BY <1>2, <4>1
      <4>5. i # 1 => i - 1 \in 1 .. Len(c)  BY <1>2, <4>1
      <4>6. w.nodes[c[i]].prev = IF i = 1 THEN Null ELSE d[i - 1]
        BY <1>3, <1>7, <1>8, <4>1, <4>2, <4>5
      <4>7. w.nodes[c[i]].next = d[i + 1]
        <5>1. CASE i = Len(c)  BY <1>3, <1>7, <4>2, <4>3, <5>1
        <5>2. CASE i # Len(c)  BY <1>3, <1>7, <1>8, <4>1, <4>2, <4>3, <4>4, <5>2
        <5>3. QED  BY <5>1, <5>2
      <4>8. QED  BY <1>3, <3>2, <4>2, <4>6, <4>7
    <3>3. QED  BY <3>1, <3>2
  <2>4. w.lists[l].count = Len(c) + 1 /\ Len(c) + 1 # 0  BY <1>2, <1>3
  <2>5. Leads(w, l, d)  BY <2>1, <2>2, <2>3, <2>4 DEF Leads
  <2>6. QED  BY <1>7, <2>4, <2>5 DEF Way
<1>10. \A x \in DOMAIN m.nodes :
          (\A i \in 1 .. Len(C[l]) : x # C[l][i]) =>
              /\ x \in DOMAIN w.nodes
              /\ w.nodes[x].next = m.nodes[x].next /\ w.nodes[x].prev = m.nodes[x].prev
  BY <1>2, <1>3 DEF c
<1>11. \A i \in 1 .. Len(d) : d[i] \notin DOMAIN m.nodes \/ \E j \in 1 .. Len(C[l]) : d[i] = C[l][j]
  <2>1. ASSUME NEW i \in 1 .. Len(d)
        PROVE  d[i] \notin DOMAIN m.nodes \/ \E j \in 1 .. Len(C[l]) : d[i] = C[l][j]
    <3>1. CASE i = Len(c) + 1  BY <1>4, <1>7, <3>1
    <3>2. CASE i # Len(c) + 1
      <4>1. i \in 1 .. Len(c)  BY <1>2, <1>7, <3>2
      <4>2. QED  BY <1>7, <4>1 DEF c
    <3>3. QED  BY <3>1, <3>2
  <2>2. QED  BY <2>1
<1>12. Rewires(m, w, l, C[l], d)  BY <1>3, <1>10, <1>11 DEF Rewires
<1>13. Ways(w, Renewed(C, w, l, d))  BY <1>9, <1>12, OneWayChanged
<1>14. QED  BY <1>13 DEF w, d, c

LEMMA Single ==
    ASSUME NEW S, NEW n \in S
    PROVE  <<n>> \in Seq(S) /\ Len(<<n>>) = 1 /\ <<n>>[1] = n
OBVIOUS

LEMMA UnshiftedMemory ==
    ASSUME NEW m, Typed(m), NEW C, Ways(m, C), NEW l \in DOMAIN m.lists, NEW v \in Value,
           NEW n \in FreeNodes(m)
    PROVE  LET w == Unshifted(m, l, v, n)
               c == C[l]
           IN  /\ Typed(w)
               /\ DOMAIN w.lists = DOMAIN m.lists /\ DOMAIN w.nodes = DOMAIN m.nodes \cup {n}
               /\ \A k \in DOMAIN m.lists : k # l => w.lists[k] = m.lists[k]
               /\ w.lists[l].last = (IF Len(c) = 0 THEN n ELSE m.lists[l].last)
               /\ w.lists[l].first = n /\ w.lists[l].count = Len(c) + 1
               /\ w.nodes[n].prev = Null /\ w.nodes[n].next = m.lists[l].first /\ w.nodes[n].value = v
               /\ \A x \in DOMAIN m.nodes :
                     /\ w.nodes[x].prev = IF Len(c) # 0 /\ x = m.lists[l].first THEN n ELSE m.nodes[x].prev
                     /\ w.nodes[x].next = m.nodes[x].next /\ w.nodes[x].value = m.nodes[x].value
<1> DEFINE w == Unshifted(m, l, v, n)
           c == C[l]
           L == m.lists[l]
           new == [next |-> L.first, prev |-> Null, value |-> v]
           linked == With(m.nodes, n, new)
<1>1. Way(m, l, c)  BY DEF Ways
<1>2. /\ Len(c) \in Nat /\ L.count = Len(c)
      /\ Len(c) = 0 => L.first = Null /\ L.last = Null
      /\ Len(c) # 0 => L.first \in DOMAIN m.nodes /\ L.first # Null
  BY <1>1, WayEnds
<1>3. /\ m.nodes \in [DOMAIN m.nodes -> Node] /\ m.lists \in [DOMAIN m.lists -> List]
      /\ DOMAIN m.nodes \subseteq NodeId /\ DOMAIN m.lists \subseteq ListId
      /\ L \in List /\ n \in NodeId /\ n \notin DOMAIN m.nodes
  BY DEF Typed, FreeNodes
<1>4. new \in Node  BY <1>3 DEF Node, List
<1>5. /\ linked \in [DOMAIN m.nodes \cup {n} -> Node] /\ linked[n] = new
      /\ \A x \in DOMAIN m.nodes : linked[x] = m.nodes[x]
  BY <1>3, <1>4 DEF With
<1> HIDE DEF linked, c
<1>6. CASE Len(c) = 0
  <2> DEFINE lists == [m.lists EXCEPT ![l] = [first |-> n, last |-> n, count |-> @.count + 1]]
  <2>1. w = [nodes |-> linked, lists |-> lists]  BY <1>2, <1>6 DEF Unshifted, linked
  <2>2. [first |-> n, last |-> n, count |-> L.count + 1] \in List  BY <1>2, <1>3 DEF List
  <2>3. lists \in [DOMAIN m.lists -> List]  BY <1>3, <2>2
  <2>4. w.nodes = linked /\ w.lists = lists  BY <2>1
  <2>5. Typed(w)  BY <1>3, <1>5, <2>1, <2>3, <2>4 DEF Typed
  <2>6. /\ lists[l] = [first |-> n, last |-> n, count |-> L.count + 1]
        /\ \A k \in DOMAIN m.lists : k # l => lists[k] = m.lists[k]
        /\ DOMAIN lists = DOMAIN m.lists /\ DOMAIN linked = DOMAIN m.nodes \cup {n}
    BY <1>3, <1>5
  <2> HIDE DEF lists, w
  <2>7. QED  BY <1>2, <1>5, <1>6, <2>4, <2>5, <2>6 DEF w, c
<1>7. CASE Len(c) # 0
  <2> DEFINE nodes == [linked EXCEPT ![L.first].prev = n]
             lists == [m.lists EXCEPT ![l].first = n, ![l].count = @ + 1]
  <2>1. w = [nodes |-> nodes, lists |-> lists]  BY <1>2, <1>7 DEF Unshifted, linked
  <2>2. /\ lists[l].last = L.last /\ lists[l].first = n /\ lists[l].count = L.count + 1
        /\ lists[l] \in List
        /\ \A k \in DOMAIN m.lists : k # l => lists[k] = m.lists[k]
        /\ DOMAIN lists = DOMAIN m.lists
    <3>1. L = [first |-> L.first, last |-> L.last, count |-> L.count]  BY <1>3 DEF List
    <3>2. lists[l] = [first |-> n, last |-> L.last, count |-> L.count + 1]  BY <1>3, <3>1
    <3>3. [first |-> n, last |-> L.last, count |-> L.count + 1] \in List  BY <1>2, <1>3 DEF List
    <3>4. \A k \in DOMAIN m.lists : k # l => lists[k] = m.lists[k]  BY <1>3
    <3>5. DOMAIN lists = DOMAIN m.lists  BY <1>3
    <3> HIDE DEF lists
    <3>6. QED  BY <3>2, <3>3, <3>4, <3>5
  <2>3. lists \in [DOMAIN m.lists -> List]  BY <1>3, <2>2
  <2>4. L.first # n /\ L.first \in DOMAIN linked  BY <1>2, <1>3, <1>5, <1>7
  <2>5. /\ nodes[L.first] = [linked[L.first] EXCEPT !.prev = n]
        /\ \A x \in DOMAIN m.nodes \cup {n} : x # L.first => nodes[x] = linked[x]
        /\ DOMAIN nodes = DOMAIN m.nodes \cup {n}
    BY <1>5, <2>4
  <2>6. linked[L.first] \in Node  BY <1>5, <2>4
  <2>7. /\ nodes[L.first] \in Node /\ nodes[L.first].prev = n
        /\ nodes[L.first].next = linked[L.first].next /\ nodes[L.first].value = linked[L.first].value
    BY <1>3, <2>5, <2>6 DEF Node
  <2>8. nodes \in [DOMAIN m.nodes \cup {n} -> Node]
    <3>1. \A x \in DOMAIN m.nodes \cup {n} : nodes[x] \in Node  BY <1>5, <2>5, <2>7
    <3>2. nodes = [x \in DOMAIN m.nodes \cup {n} |-> nodes[x]]  BY <1>5
    <3>3. QED  BY <3>1, <3>2
  <2>9. w.nodes = nodes /\ w.lists = lists  BY <2>1
  <2>10. Typed(w)  BY <1>3, <2>1, <2>2, <2>3, <2>5, <2>8, <2>9 DEF Typed
  <2> HIDE DEF nodes, lists, w
  <2>11. nodes[n] = new  BY <1>5, <2>4, <2>5
  <2>12. \A x \in DOMAIN m.nodes :
            /\ nodes[x].prev = IF x = L.first THEN n ELSE m.nodes[x].prev
            /\ nodes[x].next = m.nodes[x].next /\ nodes[x].value = m.nodes[x].value
    BY <1>2, <1>5, <1>7, <2>5, <2>7
  <2>13. QED  BY <1>2, <1>7, <2>2, <2>5, <2>9, <2>10, <2>11, <2>12 DEF w, c
<1>8. QED  BY <1>6, <1>7

LEMMA UnshiftedWays ==
    ASSUME NEW m, Typed(m), NEW C, Ways(m, C), NEW l \in DOMAIN m.lists, NEW v \in Value,
           NEW n \in FreeNodes(m)
    PROVE  LET w == Unshifted(m, l, v, n)
           IN  Ways(w, Renewed(C, w, l, <<n>> \o C[l]))
<1> DEFINE w == Unshifted(m, l, v, n)
           c == C[l]
           d == <<n>> \o c
<1>1. Way(m, l, c)  BY DEF Ways
<1>2. /\ Len(c) \in Nat
      /\ \A i \in 1 .. Len(c) : c[i] \in DOMAIN m.nodes /\ c[i] \in NodeId /\ c[i] # Null
      /\ Len(c) = 0 => m.lists[l].first = Null /\ m.lists[l].last = Null
      /\ Len(c) # 0 => /\ m.lists[l].first = c[1] /\ m.lists[l].last = c[Len(c)]
                       /\ 1 \in 1 .. Len(c) /\ Len(c) \in 1 .. Len(c)
  BY <1>1, WayEnds
<1>0. Len(c) \in Nat  BY <1>2
<1>3. /\ DOMAIN w.lists = DOMAIN m.lists /\ DOMAIN w.nodes = DOMAIN m.nodes \cup {n}
      /\ \A k \in DOMAIN m.lists : k # l => w.lists[k] = m.lists[k]
      /\ w.lists[l].last = (IF Len(c) = 0 THEN n ELSE m.lists[l].last)
      /\ w.lists[l].first = n /\ w.lists[l].count = Len(c) + 1
      /\ w.nodes[n].prev = Null /\ w.nodes[n].next = m.lists[l].first
      /\ \A x \in DOMAIN m.nodes :
            /\ w.nodes[x].prev = IF Len(c) # 0 /\ x = m.lists[l].first THEN n ELSE m.nodes[x].prev
            /\ w.nodes[x].next = m.nodes[x].next
  BY UnshiftedMemory
<1>4. n \notin DOMAIN m.nodes  BY DEF FreeNodes
<1>5. \A i, j \in 1 .. Len(c) : c[i] = c[j] => i = j
  <2>1. Null \notin DOMAIN m.nodes  BY NullAssumption DEF Typed
  <2>2. QED  BY <1>1, <2>1, WayIsSimple
<1>6. c \in Seq(DOMAIN w.nodes) /\ n \in DOMAIN w.nodes
  <2>1. c \in [1 .. Len(c) -> DOMAIN w.nodes]  BY <1>1, <1>2, <1>3, LenProperties DEF Way
  <2>2. QED  BY <1>2, <1>3, <2>1
<1>7. /\ d \in Seq(DOMAIN w.nodes) /\ Len(d) = Len(c) + 1 /\ d[1] = n
      /\ \A i \in 2 .. Len(c) + 1 : d[i] = c[i - 1]
  <2> HIDE DEF w, c
  <2>1. <<n>> \in Seq(DOMAIN w.nodes) /\ Len(<<n>>) = 1 /\ <<n>>[1] = n  BY <1>6, Single
  <2>2. QED  BY <1>2, <1>6, <2>1, ConcatProperties
<1>8. \A i \in 1 .. Len(c) : /\ m.nodes[c[i]].next = IF i = Len(c) THEN Null ELSE c[i + 1]
                             /\ m.nodes[c[i]].prev = IF i = 1 THEN Null ELSE c[i - 1]
  BY <1>1, <1>2 DEF Way, Leads
<1> HIDE DEF w, c, d
<1>9. Way(w, l, d)
  <2>1. w.lists[l].first = d[1]  BY <1>3, <1>7
  <2>2. w.lists[l].last = d[Len(c) + 1]
    <3>1. CASE Len(c) = 0  BY <1>3, <1>7, <3>1
    <3>2. CASE Len(c) # 0
      <4>1. d[Len(c) + 1] = c[Len(c)]  BY <1>2, <1>7, <3>2
      <4>2. QED  BY <1>2, <1>3, <3>2, <4>1
    <3>3. QED  BY <3>1, <3>2
  <2>3. ASSUME NEW i \in 1 .. Len(c) + 1
        PROVE  /\ d[i] \in DOMAIN w.nodes
               /\ w.nodes[d[i]].next = IF i = Len(c) + 1 THEN Null ELSE d[i + 1]
               /\ w.nodes[d[i]].prev = IF i = 1 THEN Null ELSE d[i - 1]
    <3>1. CASE i = 1
      <4>1. d[i] = n  BY <1>7, <3>1
      <4>2. CASE Len(c) = 0  BY <1>2, <1>3, <3>1, <4>1, <4>2
      <4>3. CASE Len(c) # 0
        <5>1. i # Len(c) + 1 /\ i + 1 = 2 /\ 2 \in 2 .. Len(c) + 1 /\ 2 - 1 = 1
          BY <1>0, <3>1, <4>3
        <5>2. d[i + 1] = c[1]  BY <1>7, <5>1
        <5>3. QED  BY <1>2, <1>3, <3>1, <4>1, <4>3, <5>1, <5>2
      <4>4. QED  BY <4>2, <4>3
    <3>2. CASE i # 1
      <4>1. PICK j \in 1 .. Len(c) : i = j + 1 /\ j = i - 1
        <5>1. i - 1 \in 1 .. Len(c) /\ i = (i - 1) + 1  BY <1>2, <3>2
        <5>2. QED  BY <5>1
      <4>2. d[i] = c[j] /\ c[j] \in DOMAIN m.nodes  BY <1>2, <1>7, <4>1
      <4>3. Len(c) # 0 /\ (c[j] = m.lists[l].first <=> j = 1)  BY <1>2, <1>5, <4>1
      <4>6. w.nodes[c[j]].next = IF i = Len(c) + 1 THEN Null ELSE d[i + 1]
        <5>1. CASE j = Len(c)  BY <1>3, <1>8, <4>1, <4>2, <5>1
        <5>2. CASE j # Len(c)
          <6>1. j + 1 \in 1 .. Len(c) /\ i + 1 \in 2 .. Len(c) + 1 /\ (i + 1) - 1 = j + 1
                /\ i # Len(c) + 1
            BY <1>2, <4>1, <5>2
          <6>2. QED  BY <1>3, <1>7, <1>8, <4>1, <4>2, <5>2, <6>1
        <5>3. QED  BY <5>1, <5>2
      <4>7. w.nodes[c[j]].prev = d[i - 1]
        <5>1. CASE j = 1  BY <1>3, <1>7, <4>1, <4>2, <4>3, <5>1
        <5>2. CASE j # 1
          <6>1. j \in 2 .. Len(c) + 1 /\ j - 1 \in 1 .. Len(c)  BY <1>0, <4>1, <5>2
          <6>2. QED  BY <1>3, <1>7, <1>8, <4>1, <4>2, <4>3, <5>2, <6>1
        <5>3. QED  BY <5>1, <5>2
      <4>8. QED  BY <1>3, <3>2, <4>2, <4>6, <4>7
    <3>3. QED  BY <3>1, <3>2
  <2>4. w.lists[l].count = Len(c) + 1 /\ Len(c) + 1 # 0  BY <1>2, <1>3
  <2>5. Leads(w, l, d)  BY <2>1, <2>2, <2>3, <2>4 DEF Leads
  <2>6. QED  BY <1>7, <2>4, <2>5 DEF Way
<1>10. \A x \in DOMAIN m.nodes :
          (\A i \in 1 .. Len(C[l]) : x # C[l][i]) =>
              /\ x \in DOMAIN w.nodes
              /\ w.nodes[x].next = m.nodes[x].next /\ w.nodes[x].prev = m.nodes[x].prev
  BY <1>2, <1>3 DEF c
<1>11. \A i \in 1 .. Len(d) : d[i] \notin DOMAIN m.nodes \/ \E j \in 1 .. Len(C[l]) : d[i] = C[l][j]
  <2>1. ASSUME NEW i \in 1 .. Len(d)
        PROVE  d[i] \notin DOMAIN m.nodes \/ \E j \in 1 .. Len(C[l]) : d[i] = C[l][j]
    <3>1. CASE i = 1  BY <1>4, <1>7, <3>1
    <3>2. CASE i # 1
      <4>1. i - 1 \in 1 .. Len(c) /\ i \in 2 .. Len(c) + 1  BY <1>2, <1>7, <3>2
      <4>2. QED  BY <1>7, <4>1 DEF c
    <3>3. QED  BY <3>1, <3>2
  <2>2. QED  BY <2>1
<1>12. Rewires(m, w, l, C[l], d)  BY <1>3, <1>10, <1>11 DEF Rewires
<1>13. Ways(w, Renewed(C, w, l, d))  BY <1>9, <1>12, OneWayChanged
<1>14. QED  BY <1>13 DEF w, d, c

-----------------------------------------------------------------------------
(* Taking a node out.                                                      *)

Pointer == NodeId \cup {Null}

LEMMA NextSet ==
    ASSUME NEW D, NEW N \in [D -> Node], NEW x \in D, NEW y \in Pointer
    PROVE  LET M == [N EXCEPT ![x].next = y]
           IN  /\ M \in [D -> Node]
               /\ \A z \in D : /\ M[z].next = IF z = x THEN y ELSE N[z].next
                               /\ M[z].prev = N[z].prev /\ M[z].value = N[z].value
<1> DEFINE M == [N EXCEPT ![x].next = y]
<1>1. N[x] = [next |-> N[x].next, prev |-> N[x].prev, value |-> N[x].value]  BY DEF Node
<1>2. M[x] = [next |-> y, prev |-> N[x].prev, value |-> N[x].value]  BY <1>1
<1>3. M[x] \in Node  BY <1>2 DEF Node, Pointer
<1>4. M = [z \in D |-> M[z]] /\ \A z \in D : z # x => M[z] = N[z]  OBVIOUS
<1> HIDE DEF M
<1>5. M \in [D -> Node]  BY <1>3, <1>4
<1>6. QED  BY <1>2, <1>4, <1>5 DEF M

LEMMA PrevSet ==
    ASSUME NEW D, NEW N \in [D -> Node], NEW x \in D, NEW y \in Pointer
    PROVE  LET M == [N EXCEPT ![x].prev = y]
           IN  /\ M \in [D -> Node]
               /\ \A z \in D : /\ M[z].prev = IF z = x THEN y ELSE N[z].prev
                               /\ M[z].next = N[z].next /\ M[z].value = N[z].value
<1> DEFINE M == [N EXCEPT ![x].prev = y]
<1>1. N[x] = [next |-> N[x].next, prev |-> N[x].prev, value |-> N[x].value]  BY DEF Node
<1>2. M[x] = [next |-> N[x].next, prev |-> y, value |-> N[x].value]  BY <1>1
<1>3. M[x] \in Node  BY <1>2 DEF Node, Pointer
<1>4. M = [z \in D |-> M[z]] /\ \A z \in D : z # x => M[z] = N[z]  OBVIOUS
<1> HIDE DEF M
<1>5. M \in [D -> Node]  BY <1>3, <1>4
<1>6. QED  BY <1>2, <1>4, <1>5 DEF M

\* The end pointers of one list.
LEMMA ListSet ==
    ASSUME NEW D, NEW L \in [D -> List], NEW l \in D, NEW f \in Pointer, NEW t \in Pointer, NEW k \in Nat
    PROVE  LET M == [L EXCEPT ![l] = [first |-> f, last |-> t, count |-> k]]
           IN  /\ M \in [D -> List] /\ DOMAIN M = D
               /\ M[l] = [first |-> f, last |-> t, count |-> k]
               /\ \A z \in D : z # l => M[z] = L[z]
BY DEF List, Pointer

\* What Unlinked makes of the memory.
LEMMA UnlinkedMemory ==
    ASSUME NEW m, Typed(m), NEW l \in DOMAIN m.lists, NEW n \in DOMAIN m.nodes,
           m.nodes[n].next # Null => m.nodes[n].next \in DOMAIN m.nodes,
           m.nodes[n].prev # Null => m.nodes[n].prev \in DOMAIN m.nodes
    PROVE  LET u == Unlinked(m, l, n)
               next == m.nodes[n].next
               prev == m.nodes[n].prev
           IN  /\ Typed(u)
               /\ DOMAIN u.lists = DOMAIN m.lists /\ DOMAIN u.nodes = DOMAIN m.nodes
               /\ \A k \in DOMAIN m.lists : k # l => u.lists[k] = m.lists[k]
               /\ u.lists[l] = [first |-> IF prev = Null THEN next ELSE m.lists[l].first,
                                last |-> IF next = Null THEN prev ELSE m.lists[l].last,
                                count |-> m.lists[l].count]
               /\ \A x \in DOMAIN m.nodes :
                     /\ u.nodes[x].next = IF prev # Null /\ x = prev THEN next ELSE m.nodes[x].next
                     /\ u.nodes[x].prev = IF next # Null /\ x = next THEN prev ELSE m.nodes[x].prev
                     /\ u.nodes[x].value = m.nodes[x].value
<1> DEFINE u == Unlinked(m, l, n)
           next == m.nodes[n].next
           prev == m.nodes[n].prev
           D == DOMAIN m.nodes
           N == m.nodes
           L == m.lists
           first == IF prev = Null THEN next ELSE L[l].first
           last == IF next = Null THEN prev ELSE L[l].last
           lists == [L EXCEPT ![l] = [first |-> first, last |-> last, count |-> L[l].count]]
<1>1. /\ N \in [D -> Node] /\ L \in [DOMAIN L -> List] /\ L[l] \in List
      /\ m = [nodes |-> N, lists |-> L] /\ D \subseteq NodeId /\ DOMAIN L \subseteq ListId
  BY DEF Typed
<1>2. next \in Pointer /\ prev \in Pointer /\ L[l].first \in Pointer /\ L[l].last \in Pointer
      /\ L[l].count \in Nat /\ first \in Pointer /\ last \in Pointer
  BY <1>1 DEF Node, List, Pointer
<1>3. /\ lists \in [DOMAIN L -> List] /\ DOMAIN lists = DOMAIN L
      /\ lists[l] = [first |-> first, last |-> last, count |-> L[l].count]
      /\ \A k \in DOMAIN L : k # l => lists[k] = L[k]
  <2> HIDE DEF first, last, L
  <2>1. QED  BY <1>1, <1>2, ListSet
<1>4. ASSUME NEW nodes \in [D -> Node], u = [nodes |-> nodes, lists |-> lists],
             \A x \in D : /\ nodes[x].next = IF prev # Null /\ x = prev THEN next ELSE N[x].next
                          /\ nodes[x].prev = IF next # Null /\ x = next THEN prev ELSE N[x].prev
                          /\ nodes[x].value = N[x].value
      PROVE  /\ Typed(u)
             /\ DOMAIN u.lists = DOMAIN L /\ DOMAIN u.nodes = D
             /\ \A k \in DOMAIN L : k # l => u.lists[k] = L[k]
             /\ u.lists[l] = [first |-> first, last |-> last, count |-> L[l].count]
             /\ \A x \in D : /\ u.nodes[x].next = IF prev # Null /\ x = prev THEN next ELSE N[x].next
                             /\ u.nodes[x].prev = IF next # Null /\ x = next THEN prev ELSE N[x].prev
                             /\ u.nodes[x].value = N[x].value
  <2> HIDE DEF lists, u, first, last, next, prev, N, L, D
  <2>1. u.nodes = nodes /\ u.lists = lists  BY <1>4
  <2>2. DOMAIN u.nodes = D /\ DOMAIN u.lists = DOMAIN L  BY <1>3, <1>4, <2>1
  <2>3. Typed(u)  BY <1>1, <1>3, <1>4, <2>1, <2>2 DEF Typed
  <2>4. QED  BY <1>3, <1>4, <2>1, <2>2, <2>3
<1>5. CASE next = Null /\ prev = Null
  <2>1. u = [nodes |-> N, lists |-> [[L EXCEPT ![l].first = Null] EXCEPT ![l].last = Null]]
    BY <1>1, <1>5 DEF Unlinked
  <2>2. [[L EXCEPT ![l].first = Null] EXCEPT ![l].last = Null] = lists
    <3>1. L[l] = [first |-> L[l].first, last |-> L[l].last, count |-> L[l].count]  BY <1>1 DEF List
    <3>2. [[L EXCEPT ![l].first = Null] EXCEPT ![l].last = Null][l]
             = [first |-> Null, last |-> Null, count |-> L[l].count]
      BY <1>1, <3>1
    <3>3. first = Null /\ last = Null  BY <1>5
    <3>4. QED  BY <1>1, <3>2, <3>3
  <2>3. u = [nodes |-> N, lists |-> lists]  BY <2>1, <2>2
  <2>4. \A x \in D : /\ N[x].next = IF prev # Null /\ x = prev THEN next ELSE N[x].next
                     /\ N[x].prev = IF next # Null /\ x = next THEN prev ELSE N[x].prev
    BY <1>5
  <2> HIDE DEF lists, u, first, last, next, prev, N, D, L
  <2>5. N \in [D -> Node]  BY <1>1
  <2>6. QED  BY <1>4, <2>3, <2>4, <2>5 DEF lists, u, first, last, next, prev, N, D, L
<1>6. CASE next = Null /\ prev # Null
  <2> DEFINE nodes == [N EXCEPT ![prev].next = Null]
  <2>1. u = [nodes |-> nodes, lists |-> [L EXCEPT ![l].last = prev]]
    BY <1>1, <1>6 DEF Unlinked
  <2>2. [L EXCEPT ![l].last = prev] = lists
    <3>1. first = L[l].first /\ last = prev  BY <1>6
    <3> HIDE DEF first, last, L, prev
    <3>2. L[l] = [first |-> L[l].first, last |-> L[l].last, count |-> L[l].count]  BY <1>1 DEF List
    <3>3. [L EXCEPT ![l].last = prev][l] = [first |-> L[l].first, last |-> prev, count |-> L[l].count]
      BY <1>1, <3>2
    <3>4. QED  BY <1>1, <3>1, <3>3
  <2>3. u = [nodes |-> nodes, lists |-> lists]  BY <2>1, <2>2
  <2>4. prev \in D /\ Null \in Pointer  BY <1>6 DEF Pointer
  <2>5. /\ nodes \in [D -> Node]
        /\ \A x \in D : /\ nodes[x].next = IF x = prev THEN Null ELSE N[x].next
                        /\ nodes[x].prev = N[x].prev /\ nodes[x].value = N[x].value
    <3> HIDE DEF prev, N, D
    <3>1. N \in [D -> Node]  BY <1>1
    <3>2. QED  BY <2>4, <3>1, NextSet
  <2> HIDE DEF nodes
  <2>6. \A x \in D : /\ nodes[x].next = IF prev # Null /\ x = prev THEN next ELSE N[x].next
                     /\ nodes[x].prev = IF next # Null /\ x = next THEN prev ELSE N[x].prev
                     /\ nodes[x].value = N[x].value
    BY <1>6, <2>5
  <2>7. QED  BY <1>4, <2>3, <2>5, <2>6
<1>7. CASE next # Null /\ prev = Null
  <2> DEFINE nodes == [N EXCEPT ![next].prev = Null]
  <2>1. u = [nodes |-> nodes, lists |-> [L EXCEPT ![l].first = next]]
    BY <1>1, <1>7 DEF Unlinked
  <2>2. [L EXCEPT ![l].first = next] = lists
    <3>1. first = next /\ last = L[l].last  BY <1>7
    <3> HIDE DEF first, last, L, next
    <3>2. L[l] = [first |-> L[l].first, last |-> L[l].last, count |-> L[l].count]  BY <1>1 DEF List
    <3>3. [L EXCEPT ![l].first = next][l] = [first |-> next, last |-> L[l].last, count |-> L[l].count]
      BY <1>1, <3>2
    <3>4. QED  BY <1>1, <3>1, <3>3
  <2>3. u = [nodes |-> nodes, lists |-> lists]  BY <2>1, <2>2
  <2>4. next \in D /\ Null \in Pointer  BY <1>7 DEF Pointer
  <2>5. /\ nodes \in [D -> Node]
        /\ \A x \in D : /\ nodes[x].prev = IF x = next THEN Null ELSE N[x].prev
                        /\ nodes[x].next = N[x].next /\ nodes[x].value = N[x].value
    <3> HIDE DEF next, N, D
    <3>1. N \in [D -> Node]  BY <1>1
    <3>2. QED  BY <2>4, <3>1, PrevSet
  <2> HIDE DEF nodes
  <2>6. \A x \in D : /\ nodes[x].next = IF prev # Null /\ x = prev THEN next ELSE N[x].next
                     /\ nodes[x].prev = IF next # Null /\ x = next THEN prev ELSE N[x].prev
                     /\ nodes[x].value = N[x].value
    BY <1>7, <2>5
  <2>7. QED  BY <1>4, <2>3, <2>5, <2>6
<1>8. CASE next # Null /\ prev # Null
  <2> DEFINE back == [N EXCEPT ![next].prev = prev]
             nodes == [back EXCEPT ![prev].next = next]
  <2>1. u = [nodes |-> nodes, lists |-> L]  BY <1>1, <1>8 DEF Unlinked
  <2>2. L = lists
    <3>1. first = L[l].first /\ last = L[l].last  BY <1>8
    <3>2. L[l] = [first |-> L[l].first, last |-> L[l].last, count |-> L[l].count]  BY <1>1 DEF List
    <3>3. QED  BY <1>1, <3>1, <3>2
  <2>3. u = [nodes |-> nodes, lists |-> lists]  BY <2>1, <2>2
  <2>4. next \in D /\ prev \in D  BY <1>8
  <2>5. /\ back \in [D -> Node]
        /\ \A x \in D : /\ back[x].prev = IF x = next THEN prev ELSE N[x].prev
                        /\ back[x].next = N[x].next /\ back[x].value = N[x].value
    <3> HIDE DEF next, prev, N, D
    <3>1. N \in [D -> Node]  BY <1>1
    <3>2. QED  BY <1>2, <2>4, <3>1, PrevSet
  <2> HIDE DEF back
  <2>6. /\ nodes \in [D -> Node]
        /\ \A x \in D : /\ nodes[x].next = IF x = prev THEN next ELSE back[x].next
                        /\ nodes[x].prev = back[x].prev /\ nodes[x].value = back[x].value
    <3> HIDE DEF next, prev, N, D
    <3>1. QED  BY <1>2, <2>4, <2>5, NextSet
  <2> HIDE DEF nodes
  <2>7. \A x \in D : /\ nodes[x].next = IF prev # Null /\ x = prev THEN next ELSE N[x].next
                     /\ nodes[x].prev = IF next # Null /\ x = next THEN prev ELSE N[x].prev
                     /\ nodes[x].value = N[x].value
    BY <1>8, <2>5, <2>6
  <2>8. QED  BY <1>4, <2>3, <2>6, <2>7
<1>9. QED  BY <1>5, <1>6, <1>7, <1>8

LEMMA RemovedMemory ==
    ASSUME NEW m, Typed(m), NEW l \in DOMAIN m.lists, NEW c, Way(m, l, c), NEW i \in 1 .. Len(c)
    PROVE  LET n == c[i]
               w == Removed(m, l, n)
               next == m.nodes[n].next
               prev == m.nodes[n].prev
           IN  /\ Typed(w)
               /\ DOMAIN w.lists = DOMAIN m.lists /\ DOMAIN w.nodes = DOMAIN m.nodes \ {n}
               /\ \A k \in DOMAIN m.lists : k # l => w.lists[k] = m.lists[k]
               /\ w.lists[l].first = (IF i = 1 THEN next ELSE m.lists[l].first)
               /\ w.lists[l].last = (IF i = Len(c) THEN prev ELSE m.lists[l].last)
               /\ w.lists[l].count = Len(c) - 1
               /\ \A x \in DOMAIN m.nodes \ {n} :
                     /\ w.nodes[x].next = IF i # 1 /\ x = prev THEN next ELSE m.nodes[x].next
                     /\ w.nodes[x].prev = IF i # Len(c) /\ x = next THEN prev ELSE m.nodes[x].prev
                     /\ w.nodes[x].value = m.nodes[x].value
<1> DEFINE n == c[i]
           next == m.nodes[n].next
           prev == m.nodes[n].prev
           u == Unlinked(m, l, n)
           w == Removed(m, l, n)
<1>1. /\ Len(c) \in Nat /\ m.lists[l].count = Len(c) /\ Len(c) # 0
      /\ \A j \in 1 .. Len(c) : c[j] \in DOMAIN m.nodes /\ c[j] # Null
  BY WayEnds
<1>2. /\ n \in DOMAIN m.nodes
      /\ next = IF i = Len(c) THEN Null ELSE c[i + 1]
      /\ prev = IF i = 1 THEN Null ELSE c[i - 1]
  BY <1>1 DEF Way, Leads
<1>3. /\ i # Len(c) => next \in DOMAIN m.nodes /\ next # Null
      /\ i # 1 => prev \in DOMAIN m.nodes /\ prev # Null
  <2>1. i # Len(c) => i + 1 \in 1 .. Len(c)  BY <1>1
  <2>2. i # 1 => i - 1 \in 1 .. Len(c)  BY <1>1
  <2>3. QED  BY <1>1, <1>2, <2>1, <2>2
<1>4. (next = Null <=> i = Len(c)) /\ (prev = Null <=> i = 1)  BY <1>2, <1>3
<1>5. /\ Typed(u)
      /\ DOMAIN u.lists = DOMAIN m.lists /\ DOMAIN u.nodes = DOMAIN m.nodes
      /\ \A k \in DOMAIN m.lists : k # l => u.lists[k] = m.lists[k]
      /\ u.lists[l] = [first |-> IF prev = Null THEN next ELSE m.lists[l].first,
                       last |-> IF next = Null THEN prev ELSE m.lists[l].last,
                       count |-> m.lists[l].count]
      /\ \A x \in DOMAIN m.nodes :
            /\ u.nodes[x].next = IF prev # Null /\ x = prev THEN next ELSE m.nodes[x].next
            /\ u.nodes[x].prev = IF next # Null /\ x = next THEN prev ELSE m.nodes[x].prev
            /\ u.nodes[x].value = m.nodes[x].value
  <2>1. /\ m.nodes[n].next # Null => m.nodes[n].next \in DOMAIN m.nodes
        /\ m.nodes[n].prev # Null => m.nodes[n].prev \in DOMAIN m.nodes
    BY <1>3, <1>4
  <2> HIDE DEF n
  <2>2. QED  BY <1>2, <2>1, UnlinkedMemory
<1> HIDE DEF u, next, prev, n
<1> DEFINE nodes == Without(u.nodes, n)
           lists == [u.lists EXCEPT ![l].count = @ - 1]
<1>6. /\ u = [nodes |-> u.nodes, lists |-> u.lists]
      /\ u.nodes \in [DOMAIN m.nodes -> Node] /\ u.lists \in [DOMAIN m.lists -> List]
      /\ DOMAIN m.nodes \subseteq NodeId /\ DOMAIN m.lists \subseteq ListId
  BY <1>5 DEF Typed
<1>7. w = [nodes |-> nodes, lists |-> lists]
  <2>1. FreeNode(u, n) = [nodes |-> nodes, lists |-> u.lists]  BY <1>6 DEF FreeNode
  <2>2. w = [FreeNode(u, n) EXCEPT !.lists[l].count = @ - 1]  BY DEF Removed, u
  <2> HIDE DEF w, nodes
  <2>3. QED  BY <2>1, <2>2
<1>8. w.nodes = nodes /\ w.lists = lists  BY <1>7
<1>9. /\ nodes \in [DOMAIN m.nodes \ {n} -> Node] /\ DOMAIN nodes = DOMAIN m.nodes \ {n}
      /\ \A x \in DOMAIN m.nodes \ {n} : nodes[x] = u.nodes[x]
  BY <1>6 DEF Without
<1>10. /\ lists \in [DOMAIN m.lists -> List] /\ DOMAIN lists = DOMAIN m.lists
       /\ \A k \in DOMAIN m.lists : k # l => lists[k] = u.lists[k]
       /\ lists[l].first = u.lists[l].first /\ lists[l].last = u.lists[l].last
       /\ lists[l].count = Len(c) - 1
  <2>1. u.lists[l].count = Len(c) /\ Len(c) - 1 \in Nat  BY <1>1, <1>5
  <2>2. /\ u.lists[l] = [first |-> u.lists[l].first, last |-> u.lists[l].last, count |-> Len(c)]
        /\ u.lists[l].first \in Pointer /\ u.lists[l].last \in Pointer
    BY <1>6, <2>1 DEF List, Pointer
  <2>3. lists[l] = [first |-> u.lists[l].first, last |-> u.lists[l].last, count |-> Len(c) - 1]
    BY <1>6, <2>2
  <2>4. lists[l] \in List  BY <2>1, <2>2, <2>3 DEF List, Pointer
  <2>5. \A k \in DOMAIN m.lists : k # l => lists[k] = u.lists[k]  BY <1>6
  <2>6. lists = [k \in DOMAIN m.lists |-> lists[k]]  BY <1>6
  <2> HIDE DEF lists
  <2>7. lists \in [DOMAIN m.lists -> List]
    <3>1. \A k \in DOMAIN m.lists : lists[k] \in List  BY <1>6, <2>4, <2>5
    <3>2. QED  BY <2>6, <3>1
  <2>8. QED  BY <2>3, <2>5, <2>7
<1> HIDE DEF nodes, lists, w
<1>11. Typed(w)
  <2>1. DOMAIN w.nodes \subseteq NodeId /\ DOMAIN w.lists \subseteq ListId
    BY <1>6, <1>8, <1>9, <1>10
  <2>2. w.nodes \in [DOMAIN w.nodes -> Node] /\ w.lists \in [DOMAIN w.lists -> List]
    BY <1>8, <1>9, <1>10
  <2>3. QED  BY <1>7, <1>8, <2>1, <2>2 DEF Typed
<1>12. /\ w.lists[l].first = (IF i = 1 THEN next ELSE m.lists[l].first)
       /\ w.lists[l].last = (IF i = Len(c) THEN prev ELSE m.lists[l].last)
       /\ w.lists[l].count = Len(c) - 1
  BY <1>4, <1>5, <1>8, <1>10
<1>13. \A x \in DOMAIN m.nodes \ {n} :
          /\ w.nodes[x].next = IF i # 1 /\ x = prev THEN next ELSE m.nodes[x].next
          /\ w.nodes[x].prev = IF i # Len(c) /\ x = next THEN prev ELSE m.nodes[x].prev
          /\ w.nodes[x].value = m.nodes[x].value
  BY <1>4, <1>5, <1>8, <1>9
<1>14. /\ DOMAIN w.lists = DOMAIN m.lists /\ DOMAIN w.nodes = DOMAIN m.nodes \ {n}
       /\ \A k \in DOMAIN m.lists : k # l => w.lists[k] = m.lists[k]
  BY <1>5, <1>8, <1>9, <1>10
<1>15. QED  BY <1>11, <1>12, <1>13, <1>14 DEF w, n, next, prev

\* A sequence without its element at i.
Dropped(c, i) == [j \in 1 .. Len(c) - 1 |-> IF j < i THEN c[j] ELSE c[j + 1]]

LEMMA RemovedWays ==
    ASSUME NEW m, Typed(m), NEW C, Ways(m, C), NEW l \in DOMAIN m.lists, NEW i \in 1 .. Len(C[l])
    PROVE  LET w == Removed(m, l, C[l][i])
           IN  Ways(w, Renewed(C, w, l, Dropped(C[l], i)))
<1> DEFINE c == C[l]
           n == c[i]
           w == Removed(m, l, n)
           d == Dropped(c, i)
           next == m.nodes[n].next
           prev == m.nodes[n].prev
<1>1. Way(m, l, c)  BY DEF Ways
<1>2. /\ Len(c) \in Nat
      /\ \A j \in 1 .. Len(c) : c[j] \in DOMAIN m.nodes /\ c[j] # Null
      /\ Len(c) # 0 /\ m.lists[l].first = c[1] /\ m.lists[l].last = c[Len(c)]
  BY <1>1, WayEnds
<1>0. Len(c) \in Nat /\ i \in 1 .. Len(c)  BY <1>2
<1>3. \A j, k \in 1 .. Len(c) : c[j] = c[k] => j = k
  <2>1. Null \notin DOMAIN m.nodes  BY NullAssumption DEF Typed
  <2>2. QED  BY <1>1, <2>1, WayIsSimple
<1>4. \A j \in 1 .. Len(c) : /\ m.nodes[c[j]].next = IF j = Len(c) THEN Null ELSE c[j + 1]
                             /\ m.nodes[c[j]].prev = IF j = 1 THEN Null ELSE c[j - 1]
  BY <1>1, <1>2 DEF Way, Leads
<1>5. /\ DOMAIN w.lists = DOMAIN m.lists /\ DOMAIN w.nodes = DOMAIN m.nodes \ {n}
      /\ \A k \in DOMAIN m.lists : k # l => w.lists[k] = m.lists[k]
      /\ w.lists[l].first = (IF i = 1 THEN next ELSE m.lists[l].first)
      /\ w.lists[l].last = (IF i = Len(c) THEN prev ELSE m.lists[l].last)
      /\ w.lists[l].count = Len(c) - 1
      /\ \A x \in DOMAIN m.nodes \ {n} :
            /\ w.nodes[x].next = IF i # 1 /\ x = prev THEN next ELSE m.nodes[x].next
            /\ w.nodes[x].prev = IF i # Len(c) /\ x = next THEN prev ELSE m.nodes[x].prev
  <2> HIDE DEF c
  <2>1. QED  BY <1>0, <1>1, RemovedMemory
<1>6. /\ next = IF i = Len(c) THEN Null ELSE c[i + 1]
      /\ prev = IF i = 1 THEN Null ELSE c[i - 1]
  BY <1>0, <1>4
<1> HIDE DEF w, n, next, prev
<1>7. \A j \in 1 .. Len(c) : j # i => c[j] \in DOMAIN w.nodes /\ c[j] \in DOMAIN m.nodes \ {n}
  BY <1>0, <1>2, <1>3, <1>5 DEF n
<1> HIDE DEF c
<1>8. /\ d \in Seq(DOMAIN w.nodes) /\ Len(d) = Len(c) - 1
      /\ \A j \in 1 .. Len(c) - 1 : d[j] = IF j < i THEN c[j] ELSE c[j + 1]
  <2>1. \A j \in 1 .. Len(c) - 1 : (IF j < i THEN c[j] ELSE c[j + 1]) \in DOMAIN w.nodes
    <3>1. ASSUME NEW j \in 1 .. Len(c) - 1
          PROVE  /\ j < i => j \in 1 .. Len(c) /\ j # i
                 /\ ~ (j < i) => j + 1 \in 1 .. Len(c) /\ j + 1 # i
      BY <1>0
    <3>2. QED  BY <1>7, <3>1
  <2>2. d \in [1 .. Len(c) - 1 -> DOMAIN w.nodes]  BY <2>1 DEF Dropped
  <2>3. Len(c) - 1 \in Nat  BY <1>0
  <2>4. d \in Seq(DOMAIN w.nodes) /\ Len(d) = Len(c) - 1  BY <2>2, <2>3
  <2>5. QED  BY <2>4 DEF Dropped
<1> HIDE DEF d
<1>9. Way(w, l, d)
  <2>1. Len(c) - 1 # 0 => w.lists[l].first = d[1] /\ w.lists[l].last = d[Len(c) - 1]
    <3> SUFFICES ASSUME Len(c) - 1 # 0
                 PROVE  w.lists[l].first = d[1] /\ w.lists[l].last = d[Len(c) - 1]
      OBVIOUS
    <3>1. 1 \in 1 .. Len(c) - 1 /\ Len(c) - 1 \in 1 .. Len(c) - 1
      <4>1. PICK e \in Nat : Len(c) - 1 = e
        <5>1. Len(c) - 1 \in Nat  BY <1>0
        <5>2. QED  BY <5>1
      <4>2. e # 0  BY <4>1
      <4>3. QED  BY <4>1, <4>2
    <3>2. w.lists[l].first = d[1]
      <4>1. CASE i = 1
        <5>1. d[1] = c[1 + 1] /\ next = c[i + 1]  BY <1>0, <1>6, <1>8, <3>1, <4>1
        <5>2. QED  BY <1>5, <4>1, <5>1
      <4>2. CASE i # 1
        <5>1. 1 < i  BY <1>0, <4>2
        <5>2. QED  BY <1>2, <1>5, <1>8, <3>1, <4>2, <5>1
      <4>3. QED  BY <4>1, <4>2
    <3>3. w.lists[l].last = d[Len(c) - 1]
      <4>1. CASE i = Len(c)
        <5>1. Len(c) - 1 < i /\ i # 1 /\ i - 1 = Len(c) - 1  BY <1>0, <3>1, <4>1
        <5>2. QED  BY <1>5, <1>6, <1>8, <3>1, <4>1, <5>1
      <4>2. CASE i # Len(c)
        <5>1. ~ (Len(c) - 1 < i) /\ (Len(c) - 1) + 1 = Len(c)  BY <1>0, <4>2
        <5>2. QED  BY <1>2, <1>5, <1>8, <3>1, <4>2, <5>1
      <4>3. QED  BY <4>1, <4>2
    <3>4. QED  BY <3>2, <3>3
  <2>2. Len(c) - 1 = 0 => w.lists[l].first = Null /\ w.lists[l].last = Null
    <3>1. ASSUME Len(c) - 1 = 0 PROVE i = 1 /\ i = Len(c)
      <4>1. PICK e \in Nat : Len(c) = e  BY <1>0
      <4>2. e - 1 = 0 /\ i \in 1 .. e  BY <1>0, <3>1, <4>1
      <4>3. QED  BY <4>1, <4>2
    <3>2. QED  BY <1>5, <1>6, <3>1
  <2>3. ASSUME NEW j \in 1 .. Len(c) - 1
        PROVE  /\ d[j] \in DOMAIN w.nodes
               /\ w.nodes[d[j]].next = IF j = Len(c) - 1 THEN Null ELSE d[j + 1]
               /\ w.nodes[d[j]].prev = IF j = 1 THEN Null ELSE d[j - 1]
    \* p is the place the node at j had.
    <3>1. PICK p \in 1 .. Len(c) : p = (IF j < i THEN j ELSE j + 1) /\ p # i
      BY <1>0
    <3>2. d[j] = c[p] /\ c[p] \in DOMAIN w.nodes /\ c[p] \in DOMAIN m.nodes \ {n}
      BY <1>7, <1>8, <3>1
    <3>3. /\ c[p] = prev /\ i # 1 <=> p = i - 1
          /\ c[p] = next /\ i # Len(c) <=> p = i + 1
      <4>1. i # 1 => i - 1 \in 1 .. Len(c)  BY <1>0
      <4>2. i # Len(c) => i + 1 \in 1 .. Len(c)  BY <1>0
      <4>3. p = i - 1 => i # 1  BY <1>0, <3>1
      <4>4. p = i + 1 => i # Len(c)  BY <1>0, <3>1
      <4>5. QED  BY <1>3, <1>6, <3>1, <4>1, <4>2, <4>3, <4>4
    <3>4. w.nodes[c[p]].next = IF j = Len(c) - 1 THEN Null ELSE d[j + 1]
      <4>1. CASE p = i - 1
        <5>1. j = i - 1 /\ p = j /\ j + 1 = i  BY <1>0, <3>1, <4>1
        <5>2. w.nodes[c[p]].next = next  BY <1>5, <3>2, <3>3, <4>1
        <5>3. CASE i = Len(c)  BY <1>6, <5>1, <5>2, <5>3
        <5>4. CASE i # Len(c)
          <6>1. j # Len(c) - 1 /\ j + 1 \in 1 .. Len(c) - 1 /\ ~ (j + 1 < i)  BY <1>0, <5>1, <5>4
          <6>2. d[j + 1] = c[i + 1]  BY <1>8, <5>1, <6>1
          <6>3. QED  BY <1>6, <5>2, <5>4, <6>1, <6>2
        <5>5. QED  BY <5>3, <5>4
      <4>2. CASE p # i - 1
        <5>1. w.nodes[c[p]].next = IF p = Len(c) THEN Null ELSE c[p + 1]
          BY <1>4, <1>5, <3>1, <3>2, <3>3, <4>2
        <5>2. CASE p = Len(c)
          <6>1. j = Len(c) - 1  BY <1>0, <3>1, <4>2, <5>2
          <6>2. QED  BY <5>1, <5>2, <6>1
        <5>3. CASE p # Len(c)
          <6>1. /\ j # Len(c) - 1 /\ j + 1 \in 1 .. Len(c) - 1
                /\ p + 1 = IF j + 1 < i THEN j + 1 ELSE (j + 1) + 1
            BY <1>0, <3>1, <4>2, <5>3
          <6>2. d[j + 1] = c[p + 1]  BY <1>8, <6>1
          <6>3. QED  BY <5>1, <5>3, <6>1, <6>2
        <5>4. QED  BY <5>2, <5>3
      <4>3. QED  BY <4>1, <4>2
    <3>5. w.nodes[c[p]].prev = IF j = 1 THEN Null ELSE d[j - 1]
      <4>1. CASE p = i + 1
        <5>1. j = i  BY <1>0, <3>1, <4>1
        <5>2. w.nodes[c[p]].prev = prev  BY <1>5, <3>2, <3>3, <4>1
        <5>3. CASE i = 1  BY <1>6, <5>1, <5>2, <5>3
        <5>4. CASE i # 1
          <6>1. j # 1 /\ j - 1 \in 1 .. Len(c) - 1 /\ j - 1 < i  BY <1>0, <5>1, <5>4
          <6>2. d[j - 1] = c[i - 1]  BY <1>8, <5>1, <6>1
          <6>3. QED  BY <1>6, <5>2, <5>4, <6>1, <6>2
        <5>5. QED  BY <5>3, <5>4
      <4>2. CASE p # i + 1
        <5>1. w.nodes[c[p]].prev = IF p = 1 THEN Null ELSE c[p - 1]
          BY <1>4, <1>5, <3>1, <3>2, <3>3, <4>2
        <5>2. CASE p = 1
          <6>1. j = 1  BY <1>0, <3>1, <5>2
          <6>2. QED  BY <5>1, <5>2, <6>1
        <5>3. CASE p # 1
          <6>1. /\ j # 1 /\ j - 1 \in 1 .. Len(c) - 1
                /\ p - 1 = IF j - 1 < i THEN j - 1 ELSE (j - 1) + 1
            BY <1>0, <3>1, <4>2, <5>3
          <6>2. d[j - 1] = c[p - 1]  BY <1>8, <6>1
          <6>3. QED  BY <5>1, <5>3, <6>1, <6>2
        <5>4. QED  BY <5>2, <5>3
      <4>3. QED  BY <4>1, <4>2
    <3>6. QED  BY <3>2, <3>4, <3>5
  <2>4. w.lists[l].count = Len(c) - 1  BY <1>5
  <2>5. Leads(w, l, d)  BY <2>1, <2>2, <2>3, <2>4 DEF Leads
  <2>6. QED  BY <1>8, <2>4, <2>5 DEF Way
<1>10. \A x \in DOMAIN m.nodes :
          (\A j \in 1 .. Len(C[l]) : x # C[l][j]) =>
              /\ x \in DOMAIN w.nodes
              /\ w.nodes[x].next = m.nodes[x].next /\ w.nodes[x].prev = m.nodes[x].prev
  <2>1. SUFFICES ASSUME NEW x \in DOMAIN m.nodes, \A j \in 1 .. Len(c) : x # c[j]
                 PROVE  /\ x \in DOMAIN w.nodes
                        /\ w.nodes[x].next = m.nodes[x].next /\ w.nodes[x].prev = m.nodes[x].prev
    BY DEF c
  <2>2. x # n  BY <1>0, <2>1 DEF n
  <2>3. i # 1 => x # prev
    <3>1. i # 1 => i - 1 \in 1 .. Len(c)  BY <1>0
    <3>2. QED  BY <1>6, <2>1, <3>1
  <2>4. i # Len(c) => x # next
    <3>1. i # Len(c) => i + 1 \in 1 .. Len(c)  BY <1>0
    <3>2. QED  BY <1>6, <2>1, <3>1
  <2>5. QED  BY <1>5, <2>2, <2>3, <2>4
<1>11. \A j \in 1 .. Len(d) : d[j] \notin DOMAIN m.nodes \/ \E k \in 1 .. Len(C[l]) : d[j] = C[l][k]
  <2>1. ASSUME NEW j \in 1 .. Len(d) PROVE \E k \in 1 .. Len(c) : d[j] = c[k]
    <3>1. j \in 1 .. Len(c) - 1  BY <1>8
    <3>2. (IF j < i THEN j ELSE j + 1) \in 1 .. Len(c)  BY <1>0, <3>1
    <3>3. QED  BY <1>8, <3>1, <3>2
  <2>2. QED  BY <2>1 DEF c
<1>12. Rewires(m, w, l, C[l], d)  BY <1>5, <1>10, <1>11 DEF Rewires
<1>13. Ways(w, Renewed(C, w, l, d))  BY <1>9, <1>12, OneWayChanged
<1>14. QED  BY <1>13 DEF w, d, c, n

-----------------------------------------------------------------------------
(* The calls, on the values.                                               *)

Sound(m) == Typed(m) /\ Linked(m)

LEMMA SoundHasWays ==
    ASSUME NEW m, Sound(m)
    PROVE  /\ Typed(m) /\ Ways(m, Chains(m))
           /\ \A l \in DOMAIN m.lists : Chains(m)[l] = Chain(m, l)
BY LinkedHasWays DEF Sound, Chains

LEMMA ValuesAlong ==
    ASSUME NEW m, NEW C, Ways(m, C), NEW l \in DOMAIN m.lists
    PROVE  /\ Values(m, l) = [i \in 1 .. Len(C[l]) |-> m.nodes[C[l][i]].value]
           /\ Len(C[l]) \in Nat
           /\ \A i \in 1 .. Len(C[l]) : C[l][i] \in DOMAIN m.nodes
<1>1. Way(m, l, C[l]) /\ Chain(m, l) = C[l]  BY WaysAreChains DEF Ways
<1>2. /\ DOMAIN C[l] = 1 .. Len(C[l]) /\ Len(C[l]) \in Nat
      /\ \A i \in 1 .. Len(C[l]) : C[l][i] \in DOMAIN m.nodes
  BY <1>1, LenProperties, ElementOfSeq DEF Way
<1>3. QED  BY <1>1, <1>2 DEF Values, ValueAt

\* The first and the last value, where there is one.
LEMMA SoundValues ==
    ASSUME NEW m, Sound(m), NEW l \in DOMAIN m.lists
    PROVE  /\ Values(m, l) \in Seq(Value) /\ Len(Values(m, l)) = m.lists[l].count
           /\ DOMAIN Chain(m, l) = 1 .. Len(Values(m, l))
           /\ Values(m, l) = <<>> => /\ m.lists[l].first = Null /\ m.lists[l].last = Null
                                     /\ FirstValue(m, l) = Null /\ LastValue(m, l) = Null
           /\ Values(m, l) # <<>> =>
                 LET c == Chain(m, l)
                     k == Len(Values(m, l))
                 IN  /\ k \in Nat /\ 1 \in 1 .. k /\ k \in 1 .. k
                     /\ m.lists[l].first = c[1] /\ m.lists[l].last = c[k]
                     /\ c[1] # Null /\ c[k] # Null
                     /\ FirstValue(m, l) = Values(m, l)[1] /\ LastValue(m, l) = Values(m, l)[k]
           /\ \A i \in 1 .. Len(Values(m, l)) :
                 /\ Chain(m, l)[i] \in DOMAIN m.nodes
                 /\ Values(m, l)[i] = m.nodes[Chain(m, l)[i]].value
<1> DEFINE C == Chains(m)
           c == C[l]
           s == Values(m, l)
<1>1. /\ Typed(m) /\ Way(m, l, c) /\ Ways(m, C) /\ c = Chain(m, l)
  BY SoundHasWays DEF Ways
<1> HIDE DEF C
<1>2. /\ Len(c) \in Nat /\ m.lists[l].count = Len(c)
      /\ \A i \in 1 .. Len(c) : c[i] \in DOMAIN m.nodes /\ c[i] \in NodeId /\ c[i] # Null
      /\ Len(c) = 0 => m.lists[l].first = Null /\ m.lists[l].last = Null
      /\ Len(c) # 0 => /\ m.lists[l].first = c[1] /\ m.lists[l].last = c[Len(c)]
                       /\ 1 \in 1 .. Len(c) /\ Len(c) \in 1 .. Len(c)
  BY <1>1, WayEnds
<1>3. s = [i \in 1 .. Len(c) |-> m.nodes[c[i]].value]  BY <1>1, ValuesAlong
<1>4. DOMAIN c = 1 .. Len(c)  BY <1>1, LenProperties DEF Way
<1> HIDE DEF s, c
<1>5. \A i \in 1 .. Len(c) : m.nodes[c[i]].value \in Value  BY <1>1, <1>2 DEF Typed, Node
<1>6. s \in [1 .. Len(c) -> Value]  BY <1>3, <1>5
<1>7. s \in Seq(Value) /\ Len(s) = Len(c)  BY <1>2, <1>6
<1>8. s = <<>> <=> Len(c) = 0  BY <1>7, EmptySeq
<1>9. \A i \in 1 .. Len(c) : s[i] = m.nodes[c[i]].value  BY <1>3
<1>10. ASSUME s = <<>>
       PROVE  /\ m.lists[l].first = Null /\ m.lists[l].last = Null
              /\ FirstValue(m, l) = Null /\ LastValue(m, l) = Null
  BY <1>2, <1>8, <1>10 DEF FirstValue, LastValue
<1>11. ASSUME s # <<>>
       PROVE  /\ Len(s) \in Nat /\ 1 \in 1 .. Len(s) /\ Len(s) \in 1 .. Len(s)
              /\ m.lists[l].first = c[1] /\ m.lists[l].last = c[Len(s)]
              /\ c[1] # Null /\ c[Len(s)] # Null
              /\ FirstValue(m, l) = s[1] /\ LastValue(m, l) = s[Len(s)]
  BY <1>2, <1>7, <1>8, <1>9, <1>11 DEF FirstValue, LastValue
<1>12. QED  BY <1>1, <1>2, <1>4, <1>7, <1>9, <1>10, <1>11 DEF s, c

LEMMA EmptyIsNull ==
    ASSUME NEW m, Sound(m), NEW l \in DOMAIN m.lists
    PROVE  m.lists[l].first = Null <=> Values(m, l) = <<>>
<1>1. CASE Values(m, l) = <<>>  BY <1>1, SoundValues
<1>2. CASE Values(m, l) # <<>>
  <2>1. m.lists[l].first = Chain(m, l)[1] /\ Chain(m, l)[1] # Null  BY <1>2, SoundValues
  <2>2. QED  BY <1>2, <2>1
<1>3. QED  BY <1>1, <1>2

LEMMA ListedSound ==
    ASSUME NEW m, Sound(m), NEW l \in FreeLists(m)
    PROVE  LET w == Listed(m, l)
           IN  /\ Sound(w) /\ DOMAIN w.lists = DOMAIN m.lists \cup {l} /\ w.nodes = m.nodes
               /\ Values(w, l) = <<>>
               /\ \A k \in DOMAIN m.lists : Values(w, k) = Values(m, k)
<1> DEFINE w == Listed(m, l)
           C == Chains(m)
           D == Renewed(C, w, l, <<>>)
<1>1. /\ Typed(m) /\ Ways(m, C) /\ l \in ListId /\ l \notin DOMAIN m.lists
  BY SoundHasWays DEF FreeLists
<1> HIDE DEF C
<1>2. /\ Typed(w) /\ DOMAIN w.lists = DOMAIN m.lists \cup {l} /\ w.nodes = m.nodes /\ Ways(w, D)
  BY <1>1, ListedWays
<1> HIDE DEF w
<1>3. D[l] = <<>> /\ \A k \in DOMAIN m.lists : D[k] = C[k]  BY <1>1, <1>2 DEF Renewed
<1> HIDE DEF D
<1>4. Sound(w)  BY <1>2, WaysAreChains DEF Sound
<1>5. Values(w, l) = <<>>
  <2>1. Values(w, l) = [i \in 1 .. Len(D[l]) |-> w.nodes[D[l][i]].value]  BY <1>2, ValuesAlong
  <2>2. Len(<<>>) = 0  OBVIOUS
  <2>3. QED  BY <1>3, <2>1, <2>2
<1>6. ASSUME NEW k \in DOMAIN m.lists PROVE Values(w, k) = Values(m, k)
  <2>1. Values(w, k) = [i \in 1 .. Len(D[k]) |-> w.nodes[D[k][i]].value]  BY <1>2, ValuesAlong
  <2>2. Values(m, k) = [i \in 1 .. Len(C[k]) |-> m.nodes[C[k][i]].value]  BY <1>1, ValuesAlong
  <2>3. QED  BY <1>2, <1>3, <2>1, <2>2
<1>7. QED  BY <1>2, <1>4, <1>5, <1>6 DEF w

\* What a change of one list leaves of the values of the others.
LEMMA OtherValues ==
    ASSUME NEW m, NEW C, Ways(m, C), NEW w, NEW l, NEW c, Ways(w, Renewed(C, w, l, c)),
           DOMAIN w.lists = DOMAIN m.lists, l \in DOMAIN m.lists,
           \A x \in DOMAIN m.nodes :
               (\A i \in 1 .. Len(C[l]) : x # C[l][i]) => w.nodes[x].value = m.nodes[x].value
    PROVE  \A k \in DOMAIN m.lists : k # l => Values(w, k) = Values(m, k)
<1> SUFFICES ASSUME NEW k \in DOMAIN m.lists, k # l PROVE Values(w, k) = Values(m, k)
  OBVIOUS
<1> DEFINE D == Renewed(C, w, l, c)
<1>1. D[k] = C[k]  BY DEF Renewed
<1> HIDE DEF D
<1>2. Values(w, k) = [i \in 1 .. Len(D[k]) |-> w.nodes[D[k][i]].value]  BY ValuesAlong DEF D
<1>3. /\ Values(m, k) = [i \in 1 .. Len(C[k]) |-> m.nodes[C[k][i]].value]
      /\ \A i \in 1 .. Len(C[k]) : C[k][i] \in DOMAIN m.nodes
  BY ValuesAlong
<1>4. \A i \in 1 .. Len(C[k]) : \A j \in 1 .. Len(C[l]) : C[k][i] # C[l][j]  BY DEF Ways, Apart
<1>5. \A i \in 1 .. Len(C[k]) : w.nodes[C[k][i]].value = m.nodes[C[k][i]].value  BY <1>3, <1>4
<1>6. QED  BY <1>1, <1>2, <1>3, <1>5

LEMMA PushedSound ==
    ASSUME NEW m, Sound(m), NEW l \in DOMAIN m.lists, NEW v \in Value, NEW n \in FreeNodes(m)
    PROVE  LET w == Pushed(m, l, v, n)
           IN  /\ Sound(w) /\ DOMAIN w.lists = DOMAIN m.lists /\ DOMAIN w.nodes = DOMAIN m.nodes \cup {n}
               /\ Values(w, l) = Append(Values(m, l), v)
               /\ \A k \in DOMAIN m.lists : k # l => Values(w, k) = Values(m, k)
<1> DEFINE w == Pushed(m, l, v, n)
           C == Chains(m)
           c == C[l]
           d == Append(c, n)
           D == Renewed(C, w, l, d)
<1>1. Typed(m) /\ Ways(m, C)  BY SoundHasWays
<1> HIDE DEF C
<1>2. /\ Typed(w) /\ DOMAIN w.lists = DOMAIN m.lists /\ DOMAIN w.nodes = DOMAIN m.nodes \cup {n}
      /\ w.nodes[n].value = v
      /\ \A x \in DOMAIN m.nodes : w.nodes[x].value = m.nodes[x].value
  BY <1>1, PushedMemory
<1>3. Ways(w, D)  BY <1>1, PushedWays
<1> HIDE DEF w
<1>4. Sound(w)  BY <1>2, <1>3, WaysAreChains DEF Sound
<1>5. \A k \in DOMAIN m.lists : k # l => Values(w, k) = Values(m, k)
  <2>1. \A x \in DOMAIN m.nodes :
            (\A i \in 1 .. Len(C[l]) : x # C[l][i]) => w.nodes[x].value = m.nodes[x].value
    BY <1>2
  <2> HIDE DEF d, c
  <2>2. QED  BY <1>1, <1>2, <1>3, <2>1, OtherValues
<1>6. Values(w, l) = Append(Values(m, l), v)
  <2>1. D[l] = d  BY <1>2 DEF Renewed
  <2> HIDE DEF D
  <2>2. Values(w, l) = [i \in 1 .. Len(d) |-> w.nodes[d[i]].value]
    BY <1>2, <1>3, <2>1, ValuesAlong
  <2>3. /\ Values(m, l) = [i \in 1 .. Len(c) |-> m.nodes[c[i]].value]
        /\ Len(c) \in Nat /\ \A i \in 1 .. Len(c) : c[i] \in DOMAIN m.nodes
    BY <1>1, ValuesAlong
  <2>4. Values(m, l) \in Seq(Value) /\ Len(Values(m, l)) = Len(c)
    <3>1. Values(m, l) \in Seq(Value)  BY SoundValues
    <3>2. QED  BY <2>3, <3>1
  <2>5. Len(d) = Len(c) + 1 /\ d[Len(c) + 1] = n /\ \A i \in 1 .. Len(c) : d[i] = c[i]
    <3>1. c \in Seq(DOMAIN m.nodes \cup {n})
      <4>1. Way(m, l, c)  BY <1>1 DEF Ways
      <4> HIDE DEF c
      <4>2. c \in [1 .. Len(c) -> DOMAIN m.nodes \cup {n}]  BY <2>3, <4>1, LenProperties DEF Way
      <4>3. QED  BY <2>3, <4>2
    <3> HIDE DEF c
    <3>2. QED  BY <3>1, AppendProperties
  <2>6. /\ Len(Append(Values(m, l), v)) = Len(c) + 1
        /\ Append(Values(m, l), v) \in Seq(Value)
        /\ Append(Values(m, l), v)[Len(c) + 1] = v
        /\ \A i \in 1 .. Len(c) : Append(Values(m, l), v)[i] = Values(m, l)[i]
    <3> HIDE DEF c
    <3>1. QED  BY <2>4, AppendProperties
  <2> DEFINE t == Append(Values(m, l), v)
             s == Values(w, l)
  <2> HIDE DEF c, d, t
  <2>7. s = [i \in 1 .. Len(c) + 1 |-> w.nodes[d[i]].value]  BY <2>2, <2>5
  <2>8. t = [i \in 1 .. Len(c) + 1 |-> t[i]]  BY <2>6, LenProperties DEF t
  <2>9. \A i \in 1 .. Len(c) + 1 : t[i] = w.nodes[d[i]].value
    <3>1. ASSUME NEW i \in 1 .. Len(c) + 1 PROVE t[i] = w.nodes[d[i]].value
      <4>1. CASE i = Len(c) + 1  BY <1>2, <2>5, <2>6, <4>1 DEF t
      <4>2. CASE i # Len(c) + 1
        <5>1. i \in 1 .. Len(c)  BY <2>3, <4>2
        <5>2. QED  BY <1>2, <2>3, <2>5, <2>6, <5>1 DEF t
      <4>3. QED  BY <4>1, <4>2
    <3>2. QED  BY <3>1
  <2>10. s = t  BY <2>7, <2>8, <2>9
  <2>11. QED  BY <2>10 DEF t
<1>7. QED  BY <1>2, <1>4, <1>5, <1>6 DEF w

LEMMA UnshiftedSound ==
    ASSUME NEW m, Sound(m), NEW l \in DOMAIN m.lists, NEW v \in Value, NEW n \in FreeNodes(m)
    PROVE  LET w == Unshifted(m, l, v, n)
           IN  /\ Sound(w) /\ DOMAIN w.lists = DOMAIN m.lists
               /\ Values(w, l) = <<v>> \o Values(m, l)
               /\ \A k \in DOMAIN m.lists : k # l => Values(w, k) = Values(m, k)
<1> DEFINE w == Unshifted(m, l, v, n)
           C == Chains(m)
           c == C[l]
           d == <<n>> \o c
           D == Renewed(C, w, l, d)
<1>1. Typed(m) /\ Ways(m, C)  BY SoundHasWays
<1> HIDE DEF C
<1>2. /\ Typed(w) /\ DOMAIN w.lists = DOMAIN m.lists
      /\ w.nodes[n].value = v
      /\ \A x \in DOMAIN m.nodes : w.nodes[x].value = m.nodes[x].value
  BY <1>1, UnshiftedMemory
<1>3. Ways(w, D)  BY <1>1, UnshiftedWays
<1> HIDE DEF w
<1>4. Sound(w)  BY <1>2, <1>3, WaysAreChains DEF Sound
<1>5. \A k \in DOMAIN m.lists : k # l => Values(w, k) = Values(m, k)
  <2>1. \A x \in DOMAIN m.nodes :
            (\A i \in 1 .. Len(C[l]) : x # C[l][i]) => w.nodes[x].value = m.nodes[x].value
    BY <1>2
  <2> HIDE DEF d, c
  <2>2. QED  BY <1>1, <1>2, <1>3, <2>1, OtherValues
<1>6. Values(w, l) = <<v>> \o Values(m, l)
  <2>1. D[l] = d  BY <1>2 DEF Renewed
  <2> HIDE DEF D
  <2>2. Values(w, l) = [i \in 1 .. Len(d) |-> w.nodes[d[i]].value]
    BY <1>2, <1>3, <2>1, ValuesAlong
  <2>3. /\ Values(m, l) = [i \in 1 .. Len(c) |-> m.nodes[c[i]].value]
        /\ Len(c) \in Nat /\ \A i \in 1 .. Len(c) : c[i] \in DOMAIN m.nodes
    BY <1>1, ValuesAlong
  <2>4. Values(m, l) \in Seq(Value) /\ Len(Values(m, l)) = Len(c)
    <3>1. Values(m, l) \in Seq(Value)  BY SoundValues
    <3>2. QED  BY <2>3, <3>1
  <2>5. Len(d) = Len(c) + 1 /\ d[1] = n /\ \A i \in 2 .. Len(c) + 1 : d[i] = c[i - 1]
    <3>1. c \in Seq(DOMAIN m.nodes \cup {n})
      <4>1. Way(m, l, c)  BY <1>1 DEF Ways
      <4> HIDE DEF c
      <4>2. c \in [1 .. Len(c) -> DOMAIN m.nodes \cup {n}]  BY <2>3, <4>1, LenProperties DEF Way
      <4>3. QED  BY <2>3, <4>2
    <3>2. <<n>> \in Seq(DOMAIN m.nodes \cup {n}) /\ Len(<<n>>) = 1 /\ <<n>>[1] = n
      BY Single
    <3> HIDE DEF c
    <3>3. QED  BY <2>3, <3>1, <3>2, ConcatProperties
  <2> DEFINE t == <<v>> \o Values(m, l)
             s == Values(w, l)
  <2>6. Len(t) = Len(c) + 1 /\ t \in Seq(Value) /\ t[1] = v
        /\ \A i \in 2 .. Len(c) + 1 : t[i] = Values(m, l)[i - 1]
    <3>1. <<v>> \in Seq(Value) /\ Len(<<v>>) = 1 /\ <<v>>[1] = v
      BY Single
    <3> HIDE DEF c
    <3>2. QED  BY <2>3, <2>4, <3>1, ConcatProperties
  <2> HIDE DEF c, d, t
  <2>7. s = [i \in 1 .. Len(c) + 1 |-> w.nodes[d[i]].value]  BY <2>2, <2>5
  <2>8. t = [i \in 1 .. Len(c) + 1 |-> t[i]]  BY <2>6, LenProperties
  <2>9. \A i \in 1 .. Len(c) + 1 : t[i] = w.nodes[d[i]].value
    <3>1. ASSUME NEW i \in 1 .. Len(c) + 1 PROVE t[i] = w.nodes[d[i]].value
      <4>1. CASE i = 1  BY <1>2, <2>5, <2>6, <4>1
      <4>2. CASE i # 1
        <5>1. i \in 2 .. Len(c) + 1 /\ i - 1 \in 1 .. Len(c)  BY <2>3, <4>2
        <5>2. QED  BY <1>2, <2>3, <2>5, <2>6, <5>1
      <4>3. QED  BY <4>1, <4>2
    <3>2. QED  BY <3>1
  <2>10. s = t  BY <2>7, <2>8, <2>9
  <2>11. QED  BY <2>10 DEF t
<1>7. QED  BY <1>2, <1>4, <1>5, <1>6 DEF w

LEMMA RemovedSound ==
    ASSUME NEW m, Sound(m), NEW l \in DOMAIN m.lists, NEW i \in 1 .. Len(Values(m, l))
    PROVE  LET w == Removed(m, l, Chain(m, l)[i])
           IN  /\ Sound(w) /\ DOMAIN w.lists = DOMAIN m.lists
               /\ DOMAIN w.nodes = DOMAIN m.nodes \ {Chain(m, l)[i]}
               /\ Values(w, l) = Dropped(Values(m, l), i)
               /\ \A k \in DOMAIN m.lists : k # l => Values(w, k) = Values(m, k)
<1> DEFINE C == Chains(m)
           c == C[l]
           n == c[i]
           w == Removed(m, l, n)
           d == Dropped(c, i)
           D == Renewed(C, w, l, d)
<1>1. Typed(m) /\ Ways(m, C) /\ c = Chain(m, l)  BY SoundHasWays
<1> HIDE DEF C
<1>2. /\ Values(m, l) = [j \in 1 .. Len(c) |-> m.nodes[c[j]].value]
      /\ Len(c) \in Nat /\ \A j \in 1 .. Len(c) : c[j] \in DOMAIN m.nodes
  BY <1>1, ValuesAlong
<1>3. Len(Values(m, l)) = Len(c) /\ i \in 1 .. Len(c)  BY <1>2
<1>4. Way(m, l, c)  BY <1>1 DEF Ways
<1>5. \A j \in 1 .. Len(c) : c[j] = c[i] => j = i
  <2>1. Null \notin DOMAIN m.nodes  BY <1>1, NullAssumption DEF Typed
  <2> HIDE DEF c
  <2>2. QED  BY <1>3, <1>4, <2>1, WayIsSimple
<1>6. /\ Typed(w) /\ DOMAIN w.lists = DOMAIN m.lists /\ DOMAIN w.nodes = DOMAIN m.nodes \ {n}
      /\ \A x \in DOMAIN m.nodes \ {n} : w.nodes[x].value = m.nodes[x].value
  <2> HIDE DEF c
  <2>1. QED  BY <1>1, <1>3, <1>4, RemovedMemory
<1>7. Ways(w, D)  BY <1>1, <1>3, RemovedWays
<1> HIDE DEF w, n
<1>8. Sound(w)  BY <1>6, <1>7, WaysAreChains DEF Sound
<1>9. \A k \in DOMAIN m.lists : k # l => Values(w, k) = Values(m, k)
  <2>1. \A x \in DOMAIN m.nodes :
            (\A j \in 1 .. Len(C[l]) : x # C[l][j]) => w.nodes[x].value = m.nodes[x].value
    BY <1>3, <1>6 DEF n
  <2> HIDE DEF d, c
  <2>2. QED  BY <1>1, <1>6, <1>7, <2>1, OtherValues
<1>10. Values(w, l) = Dropped(Values(m, l), i)
  <2>1. D[l] = d  BY <1>6 DEF Renewed
  <2> HIDE DEF D
  <2>2. Values(w, l) = [j \in 1 .. Len(d) |-> w.nodes[d[j]].value]
    BY <1>6, <1>7, <2>1, ValuesAlong
  <2> HIDE DEF c
  <2>3. \A j \in 1 .. Len(c) - 1 : d[j] = IF j < i THEN c[j] ELSE c[j + 1]  BY DEF Dropped
  <2>4. Len(d) = Len(c) - 1
    <3>1. DOMAIN d = 1 .. Len(c) - 1 /\ Len(c) - 1 \in Nat  BY <1>2, <1>3 DEF Dropped
    <3>2. QED  BY <3>1 DEF Dropped
  <2>5. \A j \in 1 .. Len(c) - 1 : w.nodes[d[j]].value
                                      = IF j < i THEN Values(m, l)[j] ELSE Values(m, l)[j + 1]
    <3>1. ASSUME NEW j \in 1 .. Len(c) - 1
          PROVE  w.nodes[d[j]].value = IF j < i THEN Values(m, l)[j] ELSE Values(m, l)[j + 1]
      <4>1. CASE j < i
        <5>1. j \in 1 .. Len(c) /\ j # i  BY <1>2, <1>3, <4>1
        <5>2. QED  BY <1>2, <1>5, <1>6, <2>3, <4>1, <5>1 DEF n
      <4>2. CASE ~ (j < i)
        <5>1. j + 1 \in 1 .. Len(c) /\ j + 1 # i  BY <1>2, <1>3, <4>2
        <5>2. QED  BY <1>2, <1>5, <1>6, <2>3, <4>2, <5>1 DEF n
      <4>3. QED  BY <4>1, <4>2
    <3>2. QED  BY <3>1
  <2>6. Values(w, l) = [j \in 1 .. Len(c) - 1 |-> IF j < i THEN Values(m, l)[j] ELSE Values(m, l)[j + 1]]
    <3> HIDE DEF d
    <3>1. QED  BY <2>2, <2>4, <2>5
  <2>7. QED  BY <1>3, <2>6 DEF Dropped
<1>11. QED  BY <1>1, <1>6, <1>8, <1>9, <1>10 DEF w, n

\* The abstract lists drop an element the way SequencesExt does.
LEMMA DroppedIsRemoveAt ==
    ASSUME NEW S, NEW s \in Seq(S), NEW i \in 1 .. Len(s)
    PROVE  RemoveAt(s, i) = Dropped(s, i)
<1> DEFINE a == SubSeq(s, 1, i - 1)
           b == SubSeq(s, i + 1, Len(s))
<1>1. Len(s) \in Nat /\ i \in Int /\ \A j \in 1 .. Len(s) : s[j] \in S
  BY LenProperties, ElementOfSeq
<1>2. /\ a \in Seq(S) /\ Len(a) = i - 1
      /\ \A j \in 1 .. i - 1 : a[j] = s[j]
  <2>1. \A j \in 1 .. i - 1 : s[j] \in S  BY <1>1
  <2>2. i - 1 \in Int /\ 1 \in Int  BY <1>1
  <2> HIDE DEF a
  <2>3. /\ a \in Seq(S) /\ Len(a) = (IF 1 <= i - 1 THEN (i - 1) - 1 + 1 ELSE 0)
        /\ \A j \in 1 .. (i - 1) - 1 + 1 : a[j] = s[1 + j - 1]
    BY <2>1, <2>2, SubSeqProperties DEF a
  <2>4. (i - 1) - 1 + 1 = i - 1 /\ (~ (1 <= i - 1) => i - 1 = 0)  BY <1>1
  <2>5. \A j \in 1 .. i - 1 : 1 + j - 1 = j  BY <1>1
  <2>6. QED  BY <2>3, <2>4, <2>5
<1>3. /\ b \in Seq(S) /\ Len(b) = Len(s) - i
      /\ \A j \in 1 .. Len(s) - i : b[j] = s[i + j]
  <2>1. \A j \in i + 1 .. Len(s) : s[j] \in S  BY <1>1
  <2>2. i + 1 \in Int /\ Len(s) \in Int  BY <1>1
  <2> HIDE DEF b
  <2>3. /\ b \in Seq(S) /\ Len(b) = (IF i + 1 <= Len(s) THEN Len(s) - (i + 1) + 1 ELSE 0)
        /\ \A j \in 1 .. Len(s) - (i + 1) + 1 : b[j] = s[i + 1 + j - 1]
    BY <2>1, <2>2, SubSeqProperties DEF b
  <2>4. Len(s) - (i + 1) + 1 = Len(s) - i /\ (~ (i + 1 <= Len(s)) => Len(s) - i = 0)  BY <1>1
  <2>5. \A j \in 1 .. Len(s) - i : i + 1 + j - 1 = i + j  BY <1>1
  <2>6. QED  BY <2>3, <2>4, <2>5
<1> HIDE DEF a, b
<1>4. /\ a \o b \in Seq(S) /\ Len(a \o b) = Len(s) - 1
      /\ \A j \in 1 .. Len(s) - 1 : (a \o b)[j] = IF j < i THEN s[j] ELSE s[j + 1]
  <2>1. /\ a \o b \in Seq(S) /\ Len(a \o b) = Len(a) + Len(b)
        /\ \A j \in 1 .. Len(a) + Len(b) : (a \o b)[j] = IF j <= Len(a) THEN a[j] ELSE b[j - Len(a)]
    BY <1>2, <1>3, ConcatProperties
  <2>2. Len(a) + Len(b) = Len(s) - 1  BY <1>1, <1>2, <1>3
  <2>3. ASSUME NEW j \in 1 .. Len(s) - 1
        PROVE  (a \o b)[j] = IF j < i THEN s[j] ELSE s[j + 1]
    <3>1. CASE j < i
      <4>1. j <= Len(a) /\ j \in 1 .. i - 1  BY <1>1, <1>2, <3>1
      <4>2. QED  BY <1>2, <2>1, <2>2, <3>1, <4>1
    <3>2. CASE ~ (j < i)
      <4>1. ~ (j <= Len(a)) /\ j - Len(a) \in 1 .. Len(s) - i /\ i + (j - Len(a)) = j + 1
        BY <1>1, <1>2, <3>2
      <4>2. QED  BY <1>3, <2>1, <2>2, <3>2, <4>1
    <3>3. QED  BY <3>1, <3>2
  <2>4. QED  BY <2>1, <2>2, <2>3
<1>5. a \o b = [j \in 1 .. Len(s) - 1 |-> IF j < i THEN s[j] ELSE s[j + 1]]
  <2>1. a \o b = [j \in 1 .. Len(s) - 1 |-> (a \o b)[j]]  BY <1>4, LenProperties
  <2> DEFINE t == a \o b
  <2> HIDE DEF t
  <2>2. \A j \in 1 .. Len(s) - 1 : t[j] = IF j < i THEN s[j] ELSE s[j + 1]  BY <1>4 DEF t
  <2>3. t = [j \in 1 .. Len(s) - 1 |-> t[j]]  BY <2>1 DEF t
  <2>4. t = [j \in 1 .. Len(s) - 1 |-> IF j < i THEN s[j] ELSE s[j + 1]]  BY <2>2, <2>3
  <2>5. QED  BY <2>4 DEF t
<1>6. QED  BY <1>5 DEF RemoveAt, Dropped, a, b

\* A destroy: the last node goes, and the list.
LEMMA FreedSound ==
    ASSUME NEW m, Sound(m), NEW l \in DOMAIN m.lists
    PROVE  LET w == FreeList(FreeNode(m, m.lists[l].last), l)
           IN  /\ Sound(w) /\ DOMAIN w.lists = DOMAIN m.lists \ {l}
               /\ \A k \in DOMAIN m.lists \ {l} : /\ Values(w, k) = Values(m, k)
                                                 /\ Chain(w, k) = Chain(m, k)
<1> DEFINE n == m.lists[l].last
           w == FreeList(FreeNode(m, n), l)
           C == Chains(m)
<1>1. Typed(m) /\ Ways(m, C)  BY SoundHasWays
<1> HIDE DEF n, C
<1>2. w = [nodes |-> Without(m.nodes, n), lists |-> Without(m.lists, l)]
  <2>1. m = [nodes |-> m.nodes, lists |-> m.lists]  BY <1>1 DEF Typed
  <2>2. FreeNode(m, n) = [nodes |-> Without(m.nodes, n), lists |-> m.lists]  BY <2>1 DEF FreeNode
  <2>3. QED  BY <2>2 DEF FreeList
<1>3. /\ DOMAIN w.lists = DOMAIN m.lists \ {l} /\ DOMAIN w.nodes = DOMAIN m.nodes \ {n}
      /\ \A k \in DOMAIN m.lists \ {l} : w.lists[k] = m.lists[k]
      /\ \A x \in DOMAIN m.nodes \ {n} : w.nodes[x] = m.nodes[x]
      /\ w = [nodes |-> w.nodes, lists |-> w.lists]
  BY <1>2 DEF Without
<1> HIDE DEF w
<1>4. Typed(w)
  <2>1. w.nodes = [x \in DOMAIN m.nodes \ {n} |-> m.nodes[x]]  BY <1>2 DEF Without
  <2>2. w.lists = [k \in DOMAIN m.lists \ {l} |-> m.lists[k]]  BY <1>2 DEF Without
  <2>3. w.nodes \in [DOMAIN w.nodes -> Node]  BY <1>1, <2>1 DEF Typed
  <2>4. w.lists \in [DOMAIN w.lists -> List]  BY <1>1, <2>2 DEF Typed
  <2>5. DOMAIN w.nodes \subseteq NodeId /\ DOMAIN w.lists \subseteq ListId  BY <1>1, <1>3 DEF Typed
  <2>6. QED  BY <1>3, <2>3, <2>4, <2>5 DEF Typed
<1>5. ASSUME NEW k \in DOMAIN m.lists \ {l}
      PROVE  \A i \in 1 .. Len(C[k]) : C[k][i] \in DOMAIN m.nodes \ {n}
  <2>1. \A i \in 1 .. Len(C[k]) : C[k][i] \in DOMAIN m.nodes  BY <1>1, ValuesAlong
  <2>2. Way(m, l, C[l])  BY <1>1 DEF Ways
  <2>3. Null \notin DOMAIN m.nodes  BY <1>1, NullAssumption DEF Typed
  <2>4. n = Null \/ \E j \in 1 .. Len(C[l]) : n = C[l][j]
    <3>1. /\ Len(C[l]) = 0 => m.lists[l].last = Null
          /\ Len(C[l]) # 0 => m.lists[l].last = C[l][Len(C[l])] /\ Len(C[l]) \in 1 .. Len(C[l])
      BY <1>1, <2>2, WayEnds
    <3>2. QED  BY <3>1 DEF n
  <2>5. \A i \in 1 .. Len(C[k]) : \A j \in 1 .. Len(C[l]) : C[k][i] # C[l][j]
    BY <1>1 DEF Ways, Apart
  <2>6. QED  BY <2>1, <2>3, <2>4, <2>5
<1>6. Ways(w, C)
  <2>1. ASSUME NEW k \in DOMAIN m.lists \ {l} PROVE Way(w, k, C[k])
    <3>1. Way(m, k, C[k]) /\ w.lists[k] = m.lists[k]  BY <1>1, <1>3 DEF Ways
    <3>2. \A i \in 1 .. Len(C[k]) : /\ C[k][i] \in DOMAIN w.nodes
                                    /\ w.nodes[C[k][i]].next = m.nodes[C[k][i]].next
                                    /\ w.nodes[C[k][i]].prev = m.nodes[C[k][i]].prev
      BY <1>3, <1>5
    <3>3. QED  BY <3>1, <3>2, WayIsKept
  <2>2. QED  BY <1>1, <1>3, <2>1 DEF Ways
<1>7. Sound(w)  BY <1>4, <1>6, WaysAreChains DEF Sound
<1>8. ASSUME NEW k \in DOMAIN m.lists \ {l}
      PROVE  Values(w, k) = Values(m, k) /\ Chain(w, k) = Chain(m, k)
  <2>1. Values(w, k) = [i \in 1 .. Len(C[k]) |-> w.nodes[C[k][i]].value]  BY <1>3, <1>6, ValuesAlong
  <2>2. Values(m, k) = [i \in 1 .. Len(C[k]) |-> m.nodes[C[k][i]].value]  BY <1>1, ValuesAlong
  <2>3. \A i \in 1 .. Len(C[k]) : w.nodes[C[k][i]] = m.nodes[C[k][i]]  BY <1>3, <1>5
  <2>4. Chain(w, k) = C[k] /\ Chain(m, k) = C[k]  BY <1>1, <1>3, <1>6, WaysAreChains
  <2>5. QED  BY <2>1, <2>2, <2>3, <2>4
<1>9. QED  BY <1>3, <1>7, <1>8 DEF w, n

-----------------------------------------------------------------------------
(* Which nodes nothing leads to any more.                                  *)

Elements(c) == {c[i] : i \in 1 .. Len(c)}
Nodes(m, l) == Range(Chain(m, l))
Lost(m, H) == DOMAIN m.nodes \ UNION {Nodes(m, l) : l \in H}

LEMMA NodesAlong ==
    ASSUME NEW m, NEW C, Ways(m, C), NEW l \in DOMAIN m.lists
    PROVE  Nodes(m, l) = Elements(C[l])
<1>1. Way(m, l, C[l]) /\ Chain(m, l) = C[l]  BY WaysAreChains DEF Ways
<1>2. DOMAIN C[l] = 1 .. Len(C[l])  BY <1>1, LenProperties DEF Way
<1>3. QED  BY <1>1, <1>2 DEF Nodes, Range, Elements

LEMMA SoundNodes ==
    ASSUME NEW m, Sound(m)
    PROVE  /\ \A l \in DOMAIN m.lists : Nodes(m, l) \subseteq DOMAIN m.nodes
           /\ \A l, k \in DOMAIN m.lists : l # k => Nodes(m, l) \cap Nodes(m, k) = {}
<1> DEFINE C == Chains(m)
<1>1. Ways(m, C)  BY SoundHasWays
<1> HIDE DEF C
<1>2. \A l \in DOMAIN m.lists : /\ Nodes(m, l) = Elements(C[l])
                                /\ \A i \in 1 .. Len(C[l]) : C[l][i] \in DOMAIN m.nodes
  BY <1>1, NodesAlong, ValuesAlong
<1>3. \A l, k \in DOMAIN m.lists : l # k =>
          \A i \in 1 .. Len(C[l]) : \A j \in 1 .. Len(C[k]) : C[l][i] # C[k][j]
  BY <1>1 DEF Ways, Apart
<1>4. QED  BY <1>2, <1>3 DEF Elements

LEMMA RenewedNodes ==
    ASSUME NEW m, NEW C, Ways(m, C), NEW w, NEW l \in DOMAIN m.lists, NEW c,
           Ways(w, Renewed(C, w, l, c)), DOMAIN w.lists = DOMAIN m.lists
    PROVE  /\ Nodes(w, l) = Elements(c)
           /\ \A k \in DOMAIN m.lists : k # l => Nodes(w, k) = Nodes(m, k)
<1> DEFINE D == Renewed(C, w, l, c)
<1>1. D[l] = c /\ \A k \in DOMAIN m.lists : k # l => D[k] = C[k]  BY DEF Renewed
<1>2. Ways(w, D)  OBVIOUS
<1> HIDE DEF D
<1>3. \A k \in DOMAIN m.lists : /\ Nodes(w, k) = Elements(D[k])
                                /\ Nodes(m, k) = Elements(C[k])
  BY <1>2, NodesAlong
<1>4. QED  BY <1>1, <1>3

LEMMA ListedNodes ==
    ASSUME NEW m, Sound(m), NEW l \in FreeLists(m)
    PROVE  LET w == Listed(m, l)
           IN  /\ Nodes(w, l) = {}
               /\ \A k \in DOMAIN m.lists : Nodes(w, k) = Nodes(m, k)
<1> DEFINE w == Listed(m, l)
           C == Chains(m)
           D == Renewed(C, w, l, <<>>)
<1>1. /\ Typed(m) /\ Ways(m, C) /\ l \in ListId /\ l \notin DOMAIN m.lists
  BY SoundHasWays DEF FreeLists
<1> HIDE DEF C
<1>2. DOMAIN w.lists = DOMAIN m.lists \cup {l} /\ Ways(w, D)  BY <1>1, ListedWays
<1> HIDE DEF w
<1>3. D[l] = <<>> /\ \A k \in DOMAIN m.lists : D[k] = C[k]  BY <1>1, <1>2 DEF Renewed
<1> HIDE DEF D
<1>4. /\ \A k \in DOMAIN m.lists : /\ Nodes(m, k) = Elements(C[k])
                                   /\ Nodes(w, k) = Elements(D[k])
      /\ Nodes(w, l) = Elements(D[l])
  BY <1>1, <1>2, NodesAlong
<1>5. Elements(<<>>) = {}
  <2>1. Len(<<>>) = 0  OBVIOUS
  <2>2. QED  BY <2>1 DEF Elements
<1>6. QED  BY <1>3, <1>4, <1>5 DEF w

LEMMA PushedNodes ==
    ASSUME NEW m, Sound(m), NEW l \in DOMAIN m.lists, NEW v \in Value, NEW n \in FreeNodes(m),
           NEW w, w = Pushed(m, l, v, n) \/ w = Unshifted(m, l, v, n)
    PROVE  /\ DOMAIN w.nodes = DOMAIN m.nodes \cup {n} /\ n \notin DOMAIN m.nodes
           /\ Nodes(w, l) = Nodes(m, l) \cup {n}
           /\ \A k \in DOMAIN m.lists : k # l => Nodes(w, k) = Nodes(m, k)
<1> DEFINE C == Chains(m)
           c == C[l]
<1>1. Typed(m) /\ Ways(m, C)  BY SoundHasWays
<1> HIDE DEF C
<1>2. DOMAIN w.lists = DOMAIN m.lists /\ DOMAIN w.nodes = DOMAIN m.nodes \cup {n}
  BY <1>1, PushedMemory, UnshiftedMemory
<1>3. PICK d \in {Append(c, n), <<n>> \o c} : Ways(w, Renewed(C, w, l, d))
  BY <1>1, PushedWays, UnshiftedWays
<1>4. /\ Nodes(m, l) = Elements(c) /\ Len(c) \in Nat
      /\ \A i \in 1 .. Len(c) : c[i] \in DOMAIN m.nodes
  BY <1>1, NodesAlong, ValuesAlong
<1>5. c \in Seq(DOMAIN m.nodes \cup {n})
  <2>1. Way(m, l, c)  BY <1>1 DEF Ways
  <2> HIDE DEF c
  <2>2. c \in [1 .. Len(c) -> DOMAIN m.nodes \cup {n}]  BY <1>4, <2>1, LenProperties DEF Way
  <2>3. QED  BY <1>4, <2>2
<1>6. Elements(d) = Elements(c) \cup {n}
  <2> HIDE DEF c
  <2>1. CASE d = Append(c, n)
    <3>1. Len(d) = Len(c) + 1 /\ d[Len(c) + 1] = n /\ \A i \in 1 .. Len(c) : d[i] = c[i]
      BY <1>5, <2>1, AppendProperties
    <3>2. 1 .. Len(d) = 1 .. Len(c) \cup {Len(c) + 1}  BY <1>4, <3>1
    <3>3. QED  BY <3>1, <3>2 DEF Elements
  <2>2. CASE d = <<n>> \o c
    <3>1. <<n>> \in Seq(DOMAIN m.nodes \cup {n}) /\ Len(<<n>>) = 1 /\ <<n>>[1] = n  BY Single
    <3>2. Len(d) = Len(c) + 1 /\ d[1] = n /\ \A i \in 2 .. Len(c) + 1 : d[i] = c[i - 1]
      BY <1>4, <1>5, <2>2, <3>1, ConcatProperties
    <3>3. \A i \in 1 .. Len(c) : i + 1 \in 2 .. Len(c) + 1 /\ d[i + 1] = c[i]
      <4>1. \A i \in 1 .. Len(c) : i + 1 \in 2 .. Len(c) + 1 /\ (i + 1) - 1 = i  BY <1>4
      <4>2. QED  BY <3>2, <4>1
    <3>4. 1 .. Len(d) = {1} \cup 2 .. Len(c) + 1 /\ 2 .. Len(c) + 1 \subseteq 1 .. Len(d)
      BY <1>4, <3>2
    <3>5. \A i \in 2 .. Len(c) + 1 : i - 1 \in 1 .. Len(c)  BY <1>4
    <3>6. \A i \in 1 .. Len(d) : d[i] = n \/ \E j \in 1 .. Len(c) : d[i] = c[j]
      BY <3>2, <3>4, <3>5
    <3>7. \A j \in 1 .. Len(c) : \E i \in 1 .. Len(d) : d[i] = c[j]  BY <3>3, <3>4
    <3>8. 1 \in 1 .. Len(d)  BY <3>4
    <3>9. QED  BY <3>2, <3>6, <3>7, <3>8 DEF Elements
  <2>3. QED  BY <2>1, <2>2
<1> HIDE DEF c
<1>7. Nodes(w, l) = Elements(d) /\ \A k \in DOMAIN m.lists : k # l => Nodes(w, k) = Nodes(m, k)
  <2>1. /\ l \in DOMAIN m.lists /\ Ways(m, C) /\ Ways(w, Renewed(C, w, l, d))
        /\ DOMAIN w.lists = DOMAIN m.lists
    BY <1>1, <1>2, <1>3
  <2>2. QED  BY ONLY <2>1, RenewedNodes
<1>8. n \notin DOMAIN m.nodes  BY DEF FreeNodes
<1>9. QED  BY <1>2, <1>4, <1>6, <1>7, <1>8

LEMMA RemovedNodes ==
    ASSUME NEW m, Sound(m), NEW l \in DOMAIN m.lists, NEW i \in 1 .. Len(Values(m, l)),
           NEW w, w = Removed(m, l, Chain(m, l)[i])
    PROVE  /\ DOMAIN w.nodes = DOMAIN m.nodes \ {Chain(m, l)[i]}
           /\ Chain(m, l)[i] \in Nodes(m, l)
           /\ Nodes(w, l) = Nodes(m, l) \ {Chain(m, l)[i]}
           /\ \A k \in DOMAIN m.lists : k # l => Nodes(w, k) = Nodes(m, k)
<1> DEFINE C == Chains(m)
           c == C[l]
           n == c[i]
           d == Dropped(c, i)
<1>1. Typed(m) /\ Ways(m, C) /\ c = Chain(m, l)  BY SoundHasWays
<1> HIDE DEF C
<1>2. /\ Nodes(m, l) = Elements(c) /\ Len(c) \in Nat
      /\ \A j \in 1 .. Len(c) : c[j] \in DOMAIN m.nodes
      /\ Len(Values(m, l)) = Len(c) /\ i \in 1 .. Len(c)
  BY <1>1, NodesAlong, ValuesAlong
<1>3. Way(m, l, c)  BY <1>1 DEF Ways
<1>4. \A j \in 1 .. Len(c) : c[j] = c[i] => j = i
  <2>1. Null \notin DOMAIN m.nodes  BY <1>1, NullAssumption DEF Typed
  <2> HIDE DEF c
  <2>2. QED  BY <1>2, <1>3, <2>1, WayIsSimple
<1>5. DOMAIN w.lists = DOMAIN m.lists /\ DOMAIN w.nodes = DOMAIN m.nodes \ {n}
  BY <1>1, RemovedSound
<1>6. Ways(w, Renewed(C, w, l, d))  BY <1>1, <1>2, RemovedWays
<1> HIDE DEF n, c
<1>7. Elements(d) = Elements(c) \ {n}
  <2>1. /\ \A j \in 1 .. Len(c) - 1 : d[j] = IF j < i THEN c[j] ELSE c[j + 1]
        /\ Len(d) = Len(c) - 1
    <3>1. DOMAIN d = 1 .. Len(c) - 1 /\ Len(c) - 1 \in Nat  BY <1>2 DEF Dropped
    <3>2. QED  BY <3>1 DEF Dropped
  <2> HIDE DEF d
  <2>2. ASSUME NEW j \in 1 .. Len(d) PROVE d[j] # n /\ \E k \in 1 .. Len(c) : d[j] = c[k]
    <3>1. CASE j < i
      <4>1. j \in 1 .. Len(c) /\ j # i /\ j \in 1 .. Len(c) - 1  BY <1>2, <2>1, <3>1
      <4>2. QED  BY <1>4, <2>1, <3>1, <4>1 DEF n
    <3>2. CASE ~ (j < i)
      <4>1. j + 1 \in 1 .. Len(c) /\ j + 1 # i /\ j \in 1 .. Len(c) - 1  BY <1>2, <2>1, <3>2
      <4>2. QED  BY <1>4, <2>1, <3>2, <4>1 DEF n
    <3>3. QED  BY <3>1, <3>2
  <2>3. ASSUME NEW k \in 1 .. Len(c), c[k] # n PROVE \E j \in 1 .. Len(d) : d[j] = c[k]
    <3>1. k # i  BY <2>3 DEF n
    <3>2. CASE k < i
      <4>1. k \in 1 .. Len(c) - 1  BY <1>2, <3>2
      <4>2. QED  BY <2>1, <3>2, <4>1
    <3>3. CASE ~ (k < i)
      <4>1. k - 1 \in 1 .. Len(c) - 1 /\ ~ (k - 1 < i) /\ (k - 1) + 1 = k  BY <1>2, <3>1, <3>3
      <4>2. QED  BY <2>1, <4>1
    <3>4. QED  BY <3>2, <3>3
  <2>4. \A x \in Elements(d) : x # n /\ x \in Elements(c)  BY <2>2 DEF Elements
  <2>5. \A x \in Elements(c) : x # n => x \in Elements(d)  BY <2>3 DEF Elements
  <2>6. QED  BY <2>4, <2>5
<1>8. n \in Nodes(m, l)  BY <1>2 DEF n, Elements
<1>9. Nodes(w, l) = Nodes(m, l) \ {n} /\ \A k \in DOMAIN m.lists : k # l => Nodes(w, k) = Nodes(m, k)
  BY <1>1, <1>2, <1>5, <1>6, <1>7, RenewedNodes
<1>10. QED  BY <1>1, <1>5, <1>8, <1>9 DEF n

LEMMA FreedNodes ==
    ASSUME NEW m, Sound(m), NEW l \in DOMAIN m.lists,
           NEW w, w = FreeList(FreeNode(m, m.lists[l].last), l)
    PROVE  /\ DOMAIN w.nodes = DOMAIN m.nodes \ {m.lists[l].last}
           /\ Nodes(m, l) # {} => m.lists[l].last \in Nodes(m, l)
           /\ \A k \in DOMAIN m.lists \ {l} : Nodes(w, k) = Nodes(m, k)
<1> DEFINE n == m.lists[l].last
           C == Chains(m)
<1>1. Typed(m) /\ Ways(m, C)  BY SoundHasWays
<1> HIDE DEF C
<1>2. DOMAIN w.nodes = DOMAIN m.nodes \ {n}
  <2>1. m = [nodes |-> m.nodes, lists |-> m.lists]  BY <1>1 DEF Typed
  <2>2. FreeNode(m, n) = [nodes |-> Without(m.nodes, n), lists |-> m.lists]  BY <2>1 DEF FreeNode
  <2>3. w.nodes = Without(m.nodes, n)  BY <2>2 DEF FreeList
  <2>4. QED  BY <2>3 DEF Without
<1>3. /\ DOMAIN Chain(m, l) = 1 .. Len(Values(m, l))
      /\ Values(m, l) = <<>> => Nodes(m, l) = {}
      /\ Values(m, l) # <<>> => n \in Nodes(m, l)
  <2>1. DOMAIN Chain(m, l) = 1 .. Len(Values(m, l))  BY SoundValues
  <2>2. Values(m, l) = <<>> => Nodes(m, l) = {}
    <3>1. Len(<<>>) = 0  OBVIOUS
    <3>2. QED  BY <2>1, <3>1 DEF Nodes, Range
  <2>3. Values(m, l) # <<>> => n \in Nodes(m, l)
    <3>1. Values(m, l) # <<>> =>
              Len(Values(m, l)) \in 1 .. Len(Values(m, l)) /\ n = Chain(m, l)[Len(Values(m, l))]
      BY SoundValues
    <3>2. QED  BY <2>1, <3>1 DEF Nodes, Range
  <2>4. QED  BY <2>1, <2>2, <2>3
<1>4. ASSUME NEW k \in DOMAIN m.lists \ {l} PROVE Nodes(w, k) = Nodes(m, k)
  <2>1. Chain(w, k) = Chain(m, k)  BY FreedSound
  <2>2. QED  BY <2>1 DEF Nodes
<1>5. QED  BY <1>2, <1>3, <1>4

\* A push, an unshift, a remove and a new list lose no node.
LEMMA NothingLost ==
    ASSUME NEW m, Sound(m), NEW H \in SUBSET DOMAIN m.lists, NEW l \in H
    PROVE  /\ \A v \in Value, n \in FreeNodes(m) :
                 /\ Lost(Pushed(m, l, v, n), H) = Lost(m, H)
                 /\ Lost(Unshifted(m, l, v, n), H) = Lost(m, H)
           /\ \A i \in 1 .. Len(Values(m, l)) : Lost(Removed(m, l, Chain(m, l)[i]), H) = Lost(m, H)
<1>1. l \in DOMAIN m.lists /\ H \subseteq DOMAIN m.lists  OBVIOUS
<1>2. ASSUME NEW w, NEW n, n \notin DOMAIN m.nodes, DOMAIN w.nodes = DOMAIN m.nodes \cup {n},
             Nodes(w, l) = Nodes(m, l) \cup {n},
             \A k \in DOMAIN m.lists : k # l => Nodes(w, k) = Nodes(m, k)
      PROVE  Lost(w, H) = Lost(m, H)
  <2>1. \A x : (\E k \in H : x \in Nodes(w, k)) <=> (\E k \in H : x \in Nodes(m, k)) \/ x = n
    BY <1>1, <1>2
  <2>2. QED  BY <1>2, <2>1 DEF Lost
<1>3. ASSUME NEW w, NEW n, n \in Nodes(m, l), DOMAIN w.nodes = DOMAIN m.nodes \ {n},
             Nodes(w, l) = Nodes(m, l) \ {n},
             \A k \in DOMAIN m.lists : k # l => Nodes(w, k) = Nodes(m, k)
      PROVE  Lost(w, H) = Lost(m, H)
  <2>1. \A k \in H : k # l => n \notin Nodes(m, k)  BY <1>1, <1>3, SoundNodes
  <2>2. \A x : (\E k \in H : x \in Nodes(w, k)) <=> (\E k \in H : x \in Nodes(m, k)) /\ x # n
    BY <1>1, <1>3, <2>1
  <2>3. \A x : x = n => \E k \in H : x \in Nodes(m, k)  BY <1>3
  <2>4. QED  BY <1>3, <2>2, <2>3 DEF Lost
<1>4. ASSUME NEW v \in Value, NEW n \in FreeNodes(m), NEW w, w = Pushed(m, l, v, n) \/ w = Unshifted(m, l, v, n)
      PROVE  Lost(w, H) = Lost(m, H)
  <2>1. /\ DOMAIN w.nodes = DOMAIN m.nodes \cup {n} /\ n \notin DOMAIN m.nodes
        /\ Nodes(w, l) = Nodes(m, l) \cup {n}
        /\ \A k \in DOMAIN m.lists : k # l => Nodes(w, k) = Nodes(m, k)
    BY <1>1, <1>4, PushedNodes
  <2>2. QED  BY <1>2, <2>1
<1>5. ASSUME NEW i \in 1 .. Len(Values(m, l)), NEW w, w = Removed(m, l, Chain(m, l)[i])
      PROVE  Lost(w, H) = Lost(m, H)
  <2> DEFINE n == Chain(m, l)[i]
  <2>1. /\ DOMAIN w.nodes = DOMAIN m.nodes \ {n} /\ n \in Nodes(m, l)
        /\ Nodes(w, l) = Nodes(m, l) \ {n}
        /\ \A k \in DOMAIN m.lists : k # l => Nodes(w, k) = Nodes(m, k)
    BY <1>1, <1>5, RemovedNodes
  <2> HIDE DEF n
  <2>2. QED  BY <1>3, <2>1
<1>6. QED  BY <1>4, <1>5

LEMMA ListedLosesNothing ==
    ASSUME NEW m, Sound(m), NEW H \in SUBSET DOMAIN m.lists, NEW l \in FreeLists(m)
    PROVE  Lost(Listed(m, l), H \cup {l}) = Lost(m, H)
<1> DEFINE w == Listed(m, l)
<1>1. Nodes(w, l) = {} /\ \A k \in DOMAIN m.lists : Nodes(w, k) = Nodes(m, k)  BY ListedNodes
<1>2. w.nodes = m.nodes  BY ListedSound
<1> HIDE DEF w
<1>3. \A x : (\E k \in H \cup {l} : x \in Nodes(w, k)) <=> (\E k \in H : x \in Nodes(m, k))
  BY <1>1
<1>4. Lost(w, H \cup {l}) = Lost(m, H)  BY <1>2, <1>3 DEF Lost
<1>5. QED  BY <1>4 DEF w

\* A destroy leaves all nodes but the last.
LEMMA LostByDestroy ==
    ASSUME NEW m, Sound(m), NEW H \in SUBSET DOMAIN m.lists, NEW l \in H
    PROVE  Lost(FreeList(FreeNode(m, m.lists[l].last), l), H \ {l})
               = Lost(m, H) \cup (Nodes(m, l) \ {m.lists[l].last})
<1> DEFINE n == m.lists[l].last
           w == FreeList(FreeNode(m, m.lists[l].last), l)
<1>1. /\ DOMAIN w.nodes = DOMAIN m.nodes \ {n}
      /\ Nodes(m, l) # {} => n \in Nodes(m, l)
      /\ \A k \in DOMAIN m.lists \ {l} : Nodes(w, k) = Nodes(m, k)
  BY FreedNodes
<1>2. /\ \A k \in DOMAIN m.lists : Nodes(m, k) \subseteq DOMAIN m.nodes
      /\ \A k \in DOMAIN m.lists : k # l => Nodes(m, l) \cap Nodes(m, k) = {}
  BY SoundNodes
<1>3. n = Null \/ n \in Nodes(m, l)
  <2>1. Values(m, l) = <<>> => n = Null  BY SoundValues
  <2>2. Values(m, l) # <<>> => n \in Nodes(m, l)
    <3>1. DOMAIN Chain(m, l) = 1 .. Len(Values(m, l))  BY SoundValues
    <3>2. Values(m, l) # <<>> =>
              Len(Values(m, l)) \in 1 .. Len(Values(m, l)) /\ n = Chain(m, l)[Len(Values(m, l))]
      BY SoundValues
    <3>3. QED  BY <3>1, <3>2 DEF Nodes, Range
  <2>3. QED  BY <2>1, <2>2
<1>4. Null \notin DOMAIN m.nodes  BY NullAssumption DEF Sound, Typed
<1> HIDE DEF w, n
<1>5. \A x : (\E k \in H \ {l} : x \in Nodes(w, k)) <=> (\E k \in H \ {l} : x \in Nodes(m, k))
  BY <1>1
<1>6. \A x \in DOMAIN m.nodes :
          x # n /\ ~ (\E k \in H \ {l} : x \in Nodes(m, k))
             <=> ~ (\E k \in H : x \in Nodes(m, k)) \/ (x \in Nodes(m, l) /\ x # n)
  BY <1>2, <1>3, <1>4
<1>7. Lost(w, H \ {l}) = Lost(m, H) \cup (Nodes(m, l) \ {n})
  <2>1. \A x : x \in Lost(w, H \ {l})
                  <=> x \in DOMAIN m.nodes /\ x # n /\ ~ (\E k \in H \ {l} : x \in Nodes(m, k))
    BY <1>1, <1>5 DEF Lost
  <2>2. \A x : x \in Lost(m, H) <=> x \in DOMAIN m.nodes /\ ~ (\E k \in H : x \in Nodes(m, k))
    BY DEF Lost
  <2>3. Nodes(m, l) \subseteq DOMAIN m.nodes  BY <1>2
  <2>4. QED  BY <1>6, <2>1, <2>2, <2>3
<1>8. QED  BY <1>7 DEF w, n

-----------------------------------------------------------------------------
(* The loop of merge_and_sort.                                             *)

\* With "to" beside them, the lists are those of m, and sound; nodes only go
\* from the two that are merged to "to".
Beside(m, to, l1, l2, w) ==
    /\ Sound(w) /\ DOMAIN w.lists = DOMAIN m.lists \cup {to}
    /\ DOMAIN w.nodes = DOMAIN m.nodes
    /\ Nodes(w, l1) \cup Nodes(w, l2) \cup Nodes(w, to) = Nodes(m, l1) \cup Nodes(m, l2)
    /\ \A k \in DOMAIN m.lists : k # l1 /\ k # l2 => Nodes(w, k) = Nodes(m, k)

LEMMA MovedLargerBeside ==
    ASSUME NEW m, NEW to, NEW l1 \in DOMAIN m.lists, NEW l2 \in DOMAIN m.lists, to \notin DOMAIN m.lists,
           NEW w, Beside(m, to, l1, l2, w)
    PROVE  Beside(m, to, l1, l2, MovedLarger(w, l1, l2, to))
<1> DEFINE from == IF FirstValue(w, l1) > FirstValue(w, l2) THEN l1 ELSE l2
<1>1. CASE w.lists[l1].first = Null \/ w.lists[l2].first = Null
  BY <1>1 DEF MovedLarger
<1>2. CASE ~ (w.lists[l1].first = Null \/ w.lists[l2].first = Null)
  <2> DEFINE s == Values(w, from)
             n == w.lists[from].first
             u == Removed(w, from, n)
             v == FirstValue(w, from)
  <2>1. from \in DOMAIN w.lists /\ Sound(w) /\ w.lists[from].first # Null  BY <1>2 DEF Beside
  <2>2. MovedLarger(w, l1, l2, to) = Pushed(u, to, v, n)  BY <1>2, <2>1 DEF MovedLarger, Shifted
  <2> HIDE DEF from
  <2>3. s # <<>> /\ n = Chain(w, from)[1] /\ 1 \in 1 .. Len(s) /\ v = s[1] /\ s \in Seq(Value)
    BY <2>1, SoundValues
  <2>4. /\ Sound(u) /\ DOMAIN u.lists = DOMAIN w.lists /\ DOMAIN u.nodes = DOMAIN w.nodes \ {n}
    BY <2>1, <2>3, RemovedSound
  <2>5. v \in Value /\ n \in DOMAIN w.nodes /\ DOMAIN w.nodes \subseteq NodeId
    <3>1. v \in Value  BY <2>3, ElementOfSeq
    <3>2. n \in DOMAIN w.nodes  BY <2>1, <2>3, SoundValues
    <3>3. QED  BY <2>1, <3>1, <3>2 DEF Sound, Typed
  <2>6. n \in FreeNodes(u) /\ to \in DOMAIN u.lists  BY <2>4, <2>5 DEF FreeNodes, Beside
  <2>7. /\ n \in Nodes(w, from) /\ Nodes(u, from) = Nodes(w, from) \ {n}
        /\ \A k \in DOMAIN w.lists : k # from => Nodes(u, k) = Nodes(w, k)
    BY <2>1, <2>3, RemovedNodes
  <2>8. from \in {l1, l2} /\ from # to  BY DEF from
  <2> DEFINE p == Pushed(u, to, v, n)
  <2> HIDE DEF u, v, n
  <2>9. Sound(p) /\ DOMAIN p.lists = DOMAIN u.lists
    BY <2>4, <2>5, <2>6, PushedSound
  <2>10. /\ DOMAIN p.nodes = DOMAIN u.nodes \cup {n} /\ Nodes(p, to) = Nodes(u, to) \cup {n}
         /\ \A k \in DOMAIN u.lists : k # to => Nodes(p, k) = Nodes(u, k)
    BY <2>4, <2>5, <2>6, PushedNodes
  <2> HIDE DEF p
  <2>11. DOMAIN p.lists = DOMAIN m.lists \cup {to} /\ DOMAIN p.nodes = DOMAIN m.nodes
    BY <2>4, <2>5, <2>9, <2>10 DEF Beside
  <2>12. \A k \in DOMAIN m.lists : k # l1 /\ k # l2 => Nodes(p, k) = Nodes(m, k)
    BY <2>4, <2>7, <2>8, <2>10 DEF Beside
  <2>13. Nodes(p, l1) \cup Nodes(p, l2) \cup Nodes(p, to) = Nodes(w, l1) \cup Nodes(w, l2) \cup Nodes(w, to)
    <3>1. /\ l1 \in DOMAIN w.lists /\ l2 \in DOMAIN w.lists /\ to \in DOMAIN w.lists
          /\ l1 # to /\ l2 # to /\ DOMAIN u.lists = DOMAIN w.lists
      BY <2>4 DEF Beside
    <3>2. Nodes(p, l1) = Nodes(u, l1) /\ Nodes(p, l2) = Nodes(u, l2) /\ Nodes(u, to) = Nodes(w, to)
      BY <2>7, <2>8, <2>10, <3>1
    <3>3. CASE from = l1 /\ l1 # l2
      <4>1. Nodes(u, l2) = Nodes(w, l2)  BY <2>7, <3>1, <3>3
      <4>2. QED  BY <2>7, <2>10, <3>2, <3>3, <4>1
    <3>4. CASE from = l2 /\ l1 # l2
      <4>1. Nodes(u, l1) = Nodes(w, l1)  BY <2>7, <3>1, <3>4
      <4>2. QED  BY <2>7, <2>10, <3>2, <3>4, <4>1
    <3>5. CASE l1 = l2  BY <2>7, <2>8, <2>10, <3>2, <3>5
    <3>6. QED  BY <2>8, <3>3, <3>4, <3>5
  <2>14. Beside(m, to, l1, l2, p)  BY <2>9, <2>11, <2>12, <2>13 DEF Beside
  <2>15. QED  BY <2>2, <2>14 DEF p
<1>3. QED  BY <1>1, <1>2

\* What is left of s when its first i values are gone.
Behind(s, i) == [x \in 1 .. Len(s) - i |-> s[x + i]]

LEMMA BehindOf ==
    ASSUME NEW S, NEW s \in Seq(S), NEW i \in 0 .. Len(s)
    PROVE  /\ Behind(s, i) \in Seq(S) /\ Len(Behind(s, i)) = Len(s) - i
           /\ Behind(s, i) = <<>> <=> i = Len(s)
           /\ Behind(s, i) = SubSeq(s, i + 1, Len(s))
           /\ i < Len(s) => Dropped(Behind(s, i), 1) = Behind(s, i + 1)
<1> DEFINE b == Behind(s, i)
           n == Len(s) - i
<1>1. /\ Len(s) \in Nat /\ i \in Nat /\ n \in Nat /\ n = Len(s) - i
      /\ \A x \in 1 .. Len(s) : s[x] \in S
  BY LenProperties, ElementOfSeq
<1>2. b = [x \in 1 .. n |-> s[x + i]]  BY DEF Behind
<1> HIDE DEF b, n
<1>3. \A x \in 1 .. n : x + i \in 1 .. Len(s) /\ b[x] = s[x + i]  BY <1>1, <1>2
<1>4. b \in [1 .. n -> S]  BY <1>1, <1>2, <1>3
<1>5. b \in Seq(S) /\ Len(b) = n  BY <1>1, <1>4
<1>6. b = <<>> <=> i = Len(s)  BY <1>1, <1>5, EmptySeq
<1>7. b = SubSeq(s, i + 1, Len(s))
  <2> DEFINE t == SubSeq(s, i + 1, Len(s))
  <2>1. i + 1 \in 1 .. Len(s) + 1 /\ Len(s) \in i .. Len(s)  BY <1>1
  <2>2. t = [x \in 1 .. n |-> s[x + i]]
    <3>1. t = [x \in 1 .. (Len(s) - (i + 1)) + 1 |-> s[(i + 1) + x - 1]]  BY <1>1
    <3>2. (Len(s) - (i + 1)) + 1 = n /\ \A x \in 1 .. n : (i + 1) + x - 1 = x + i  BY <1>1
    <3>3. QED  BY <3>1, <3>2
  <2>3. QED  BY <1>2, <2>2
<1>8. ASSUME i < Len(s) PROVE Dropped(b, 1) = Behind(s, i + 1)
  <2>1. Dropped(b, 1) = [x \in 1 .. n - 1 |-> b[x + 1]]  BY <1>5 DEF Dropped
  <2>2. Behind(s, i + 1) = [x \in 1 .. n - 1 |-> s[x + (i + 1)]]
    <3>1. Len(s) - (i + 1) = n - 1  BY <1>1
    <3>2. QED  BY <3>1 DEF Behind
  <2>3. \A x \in 1 .. n - 1 : b[x + 1] = s[x + (i + 1)]
    <3> SUFFICES ASSUME NEW x \in 1 .. n - 1 PROVE b[x + 1] = s[x + (i + 1)]  OBVIOUS
    <3>1. x + 1 \in 1 .. n /\ (x + 1) + i = x + (i + 1)  BY <1>1
    <3>2. QED  BY <1>3, <3>1
  <2>4. QED  BY <2>1, <2>2, <2>3
<1>9. QED  BY <1>1, <1>5, <1>6, <1>7, <1>8 DEF b

\* After t rounds the two lists have lost their first values, t of them unless
\* one is empty by now; they are not both empty unless they were from the start.
Trimmed(m, to, l1, l2, w, t) ==
    /\ \E i \in 0 .. Len(Values(m, l1)), j \in 0 .. Len(Values(m, l2)) :
          /\ Values(w, l1) = Behind(Values(m, l1), i) /\ Values(w, l2) = Behind(Values(m, l2), j)
          /\ i = Len(Values(m, l1)) /\ j = Len(Values(m, l2)) => i = 0 /\ j = 0
          /\ i = Len(Values(m, l1)) \/ j = Len(Values(m, l2)) \/ i + j = t
          /\ i = 0 /\ j = 0 => Values(w, to) = <<>>
    /\ \A k \in DOMAIN m.lists : k # l1 /\ k # l2 => Values(w, k) = Values(m, k)

LEMMA MovedLargerTrims ==
    ASSUME NEW m, Sound(m), NEW to, NEW l1 \in DOMAIN m.lists, NEW l2 \in DOMAIN m.lists, l1 # l2,
           to \notin DOMAIN m.lists, NEW w, Beside(m, to, l1, l2, w),
           NEW t \in Nat, Trimmed(m, to, l1, l2, w, t)
    PROVE  Trimmed(m, to, l1, l2, MovedLarger(w, l1, l2, to), t + 1)
<1> DEFINE s == Values(m, l1)
           r == Values(m, l2)
<1>1. PICK i \in 0 .. Len(s), j \in 0 .. Len(r) :
         /\ Values(w, l1) = Behind(s, i) /\ Values(w, l2) = Behind(r, j)
         /\ i = Len(s) /\ j = Len(r) => i = 0 /\ j = 0
         /\ i = Len(s) \/ j = Len(r) \/ i + j = t
         /\ i = 0 /\ j = 0 => Values(w, to) = <<>>
  BY DEF Trimmed
<1>2. \A k \in DOMAIN m.lists : k # l1 /\ k # l2 => Values(w, k) = Values(m, k)  BY DEF Trimmed
<1>3. /\ s \in Seq(Value) /\ r \in Seq(Value) /\ Len(s) \in Nat /\ Len(r) \in Nat
      /\ i \in Nat /\ j \in Nat /\ i <= Len(s) /\ j <= Len(r)
  BY SoundValues, LenProperties
<1>4. /\ Sound(w) /\ l1 \in DOMAIN w.lists /\ l2 \in DOMAIN w.lists /\ to \in DOMAIN w.lists
      /\ DOMAIN w.lists = DOMAIN m.lists \cup {to} /\ l1 # to /\ l2 # to
  BY DEF Beside
<1> HIDE DEF s, r
<1>5. /\ Behind(s, i) = <<>> <=> i = Len(s)
      /\ Behind(r, j) = <<>> <=> j = Len(r)
      /\ i < Len(s) => Dropped(Behind(s, i), 1) = Behind(s, i + 1)
      /\ j < Len(r) => Dropped(Behind(r, j), 1) = Behind(r, j + 1)
  <2>1. /\ Behind(s, i) = <<>> <=> i = Len(s)
        /\ i < Len(s) => Dropped(Behind(s, i), 1) = Behind(s, i + 1)
    <3>1. s \in Seq(Value) /\ i \in 0 .. Len(s)  BY <1>3
    <3>2. QED  BY ONLY <3>1, BehindOf, Zenon
  <2>2. /\ Behind(r, j) = <<>> <=> j = Len(r)
        /\ j < Len(r) => Dropped(Behind(r, j), 1) = Behind(r, j + 1)
    <3>1. r \in Seq(Value) /\ j \in 0 .. Len(r)  BY <1>3
    <3>2. QED  BY ONLY <3>1, BehindOf, Zenon
  <2>3. QED  BY <2>1, <2>2
<1>6. /\ w.lists[l1].first = Null <=> i = Len(s)
      /\ w.lists[l2].first = Null <=> j = Len(r)
  <2>1. \A l \in DOMAIN w.lists : w.lists[l].first = Null <=> Values(w, l) = <<>>
    BY <1>4, EmptyIsNull
  <2>2. QED  BY <1>1, <1>4, <1>5, <2>1
<1>7. CASE w.lists[l1].first = Null \/ w.lists[l2].first = Null
  <2>1. MovedLarger(w, l1, l2, to) = w  BY <1>7 DEF MovedLarger
  <2>2. i = Len(s) \/ j = Len(r)  BY <1>6, <1>7
  <2>3. QED  BY <1>1, <1>2, <2>1, <2>2 DEF Trimmed, s, r
<1>8. CASE ~ (w.lists[l1].first = Null \/ w.lists[l2].first = Null)
  <2> DEFINE from == IF FirstValue(w, l1) > FirstValue(w, l2) THEN l1 ELSE l2
             n == w.lists[from].first
             u == Removed(w, from, n)
             v == FirstValue(w, from)
             p == Pushed(u, to, v, n)
  <2>1. i < Len(s) /\ j < Len(r)  BY <1>3, <1>6, <1>8
  <2>2. MovedLarger(w, l1, l2, to) = p  BY <1>8 DEF MovedLarger, Shifted
  <2>3. from \in DOMAIN w.lists /\ from \in {l1, l2} /\ w.lists[from].first # Null  BY <1>4, <1>8
  <2> HIDE DEF from
  <2>4. /\ n = Chain(w, from)[1] /\ 1 \in 1 .. Len(Values(w, from))
        /\ v = Values(w, from)[1] /\ Values(w, from) \in Seq(Value)
        /\ n \in DOMAIN w.nodes
    BY <1>4, <2>3, SoundValues
  <2>5. /\ Sound(u) /\ DOMAIN u.lists = DOMAIN w.lists /\ DOMAIN u.nodes = DOMAIN w.nodes \ {n}
        /\ Values(u, from) = Dropped(Values(w, from), 1)
        /\ \A k \in DOMAIN w.lists : k # from => Values(u, k) = Values(w, k)
    BY <1>4, <2>3, <2>4, RemovedSound
  <2>6. v \in Value /\ n \in FreeNodes(u) /\ to \in DOMAIN u.lists
    <3>1. v \in Value  BY <2>4, ElementOfSeq
    <3>2. DOMAIN w.nodes \subseteq NodeId  BY <1>4 DEF Sound, Typed
    <3>3. QED  BY <1>4, <2>4, <2>5, <3>1, <3>2 DEF FreeNodes
  <2> HIDE DEF u, v, n
  <2>7. \A k \in DOMAIN u.lists : k # to => Values(p, k) = Values(u, k)
    BY <2>5, <2>6, PushedSound
  <2> HIDE DEF p
  <2>8. /\ Values(p, from) = Dropped(Values(w, from), 1)
        /\ \A k \in DOMAIN m.lists : k # from => Values(p, k) = Values(w, k)
    BY <1>4, <2>3, <2>5, <2>7
  <2>9. \A k \in DOMAIN m.lists : k # l1 /\ k # l2 => Values(p, k) = Values(m, k)
    BY <1>2, <2>3, <2>8
  <2>10. CASE from = l1
    <3>1. Values(p, l1) = Behind(s, i + 1) /\ Values(p, l2) = Behind(r, j)
      BY <1>1, <1>5, <2>1, <2>8, <2>10
    <3>2. i + 1 \in 0 .. Len(s) /\ i + 1 # 0 /\ j # Len(r)
          /\ (i + 1 = Len(s) \/ j = Len(r) \/ (i + 1) + j = t + 1)
      BY <1>1, <1>3, <2>1
    <3>3. QED  BY <2>2, <2>9, <3>1, <3>2 DEF Trimmed, s, r
  <2>11. CASE from = l2
    <3>1. Values(p, l1) = Behind(s, i) /\ Values(p, l2) = Behind(r, j + 1)
      BY <1>1, <1>5, <2>1, <2>8, <2>11
    <3>2. j + 1 \in 0 .. Len(r) /\ j + 1 # 0 /\ i # Len(s)
          /\ (i = Len(s) \/ j + 1 = Len(r) \/ i + (j + 1) = t + 1)
      BY <1>1, <1>3, <2>1
    <3>3. QED  BY <2>2, <2>9, <3>1, <3>2 DEF Trimmed, s, r
  <2>12. QED  BY <2>3, <2>10, <2>11
<1>9. QED  BY <1>7, <1>8

LEMMA AllMovedBeside ==
    ASSUME NEW m, Sound(m), NEW l1 \in DOMAIN m.lists, NEW l2 \in DOMAIN m.lists, l1 # l2,
           NEW to \in FreeLists(m)
    PROVE  LET w == AllMoved(m, l1, l2, to)
           IN  /\ Beside(m, to, l1, l2, w)
               /\ Trimmed(m, to, l1, l2, w, Len(Values(m, l1)) + Len(Values(m, l2)))
<1> DEFINE n == m.lists[l1].count + m.lists[l2].count
           Rule(f, i) == IF i = 0 THEN Listed(m, to) ELSE MovedLarger(f[i - 1], l1, l2, to)
           Unfolds(f, k) == f = [i \in 0 .. k |-> Rule(f, i)]
           moved == CHOOSE f : Unfolds(f, n)
<1>1. n \in Nat  BY DEF Sound, Typed, List
<1>2. to \notin DOMAIN m.lists /\ to \in ListId  BY DEF FreeLists
<1>3. AllMoved(m, l1, l2, to) = moved[n]  BY DEF AllMoved
<1> HIDE DEF n
\* The loop can be unfolded, as far as it runs.
<1>4. \E f : Unfolds(f, n)
  <2> DEFINE T == {k \in Nat : \E f : Unfolds(f, k)}
  <2>1. 0 \in T
    <3> DEFINE f == [i \in 0 .. 0 |-> Listed(m, to)]
    <3>1. f = [i \in 0 .. 0 |-> Rule(f, i)]  OBVIOUS
    <3> HIDE DEF f
    <3>2. Unfolds(f, 0)  BY <3>1
    <3>3. QED  BY <3>2
  <2>2. \A k \in T : k + 1 \in T
    <3> SUFFICES ASSUME NEW k \in Nat, NEW f, Unfolds(f, k) PROVE \E g : Unfolds(g, k + 1)
      OBVIOUS
    <3> DEFINE g == [i \in 0 .. k + 1 |-> IF i = k + 1 THEN MovedLarger(f[k], l1, l2, to) ELSE f[i]]
    <3>1. \A i \in 0 .. k : g[i] = f[i]  OBVIOUS
    <3>2. f = [i \in 0 .. k |-> IF i = 0 THEN Listed(m, to) ELSE MovedLarger(f[i - 1], l1, l2, to)]
      OBVIOUS
    <3>3. \A i \in 0 .. k : f[i] = IF i = 0 THEN Listed(m, to) ELSE MovedLarger(f[i - 1], l1, l2, to)
      BY <3>2
    <3>4. ASSUME NEW i \in 0 .. k + 1
          PROVE  g[i] = IF i = 0 THEN Listed(m, to) ELSE MovedLarger(g[i - 1], l1, l2, to)
      <4>1. CASE i = k + 1
        <5>1. i # 0 /\ i - 1 = k /\ g[k] = f[k]  BY <4>1
        <5>2. g[i] = MovedLarger(f[k], l1, l2, to)  BY <4>1
        <5>3. QED  BY <5>1, <5>2
      <4>2. CASE i # k + 1
        <5>1. i \in 0 .. k /\ g[i] = f[i]  BY <4>2
        <5>2. i # 0 => i - 1 \in 0 .. k  BY <5>1
        <5> HIDE DEF g
        <5>3. QED  BY <3>1, <3>3, <5>1, <5>2
      <4>3. QED  BY <4>1, <4>2
    <3>5. g = [i \in 0 .. k + 1 |-> g[i]]  OBVIOUS
    <3> HIDE DEF g
    <3>6. g = [i \in 0 .. k + 1 |-> IF i = 0 THEN Listed(m, to) ELSE MovedLarger(g[i - 1], l1, l2, to)]
      BY <3>4, <3>5
    <3>7. Unfolds(g, k + 1)  BY <3>6
    <3>8. QED  BY <3>7
  <2>3. T \in SUBSET Nat  OBVIOUS
  <2> HIDE DEF T
  <2>4. T = Nat  BY <2>1, <2>2, <2>3, ByInduction
  <2>5. n \in T  BY <1>1, <2>4
  <2>6. QED  BY <2>5 DEF T
<1>5. \A i \in 0 .. n : moved[i] = IF i = 0 THEN Listed(m, to) ELSE MovedLarger(moved[i - 1], l1, l2, to)
  <2>1. Unfolds(moved, n)
    <3> HIDE DEF Unfolds
    <3>1. QED  BY <1>4
  <2>2. moved = [i \in 0 .. n |-> IF i = 0 THEN Listed(m, to) ELSE MovedLarger(moved[i - 1], l1, l2, to)]
    BY <2>1
  <2> HIDE DEF moved
  <2>3. QED  BY <2>2
<1> HIDE DEF moved
<1> DEFINE Merging(w, i) == Beside(m, to, l1, l2, w) /\ Trimmed(m, to, l1, l2, w, i)
           T == {i \in Nat : i \in 0 .. n => Merging(moved[i], i)}
<1>6. T = Nat
  <2>1. 0 \in T
    <3> DEFINE w == Listed(m, to)
    <3>1. 0 \in 0 .. n /\ moved[0] = w  BY <1>1, <1>5
    <3>2. /\ Sound(w) /\ DOMAIN w.lists = DOMAIN m.lists \cup {to} /\ w.nodes = m.nodes
          /\ Values(w, to) = <<>> /\ \A k \in DOMAIN m.lists : Values(w, k) = Values(m, k)
      BY ListedSound
    <3>3. Nodes(w, to) = {} /\ \A k \in DOMAIN m.lists : Nodes(w, k) = Nodes(m, k)  BY ListedNodes
    <3> HIDE DEF w
    <3>4. Beside(m, to, l1, l2, w)  BY <3>2, <3>3 DEF Beside
    <3>5. Trimmed(m, to, l1, l2, w, 0)
      <4> DEFINE s == Values(m, l1)
                 r == Values(m, l2)
      <4>1. s \in Seq(Value) /\ r \in Seq(Value)  BY SoundValues
      <4> HIDE DEF s, r
      <4>2. s = Behind(s, 0) /\ r = Behind(r, 0)  BY <4>1 DEF Behind
      <4>3. 0 \in 0 .. Len(s) /\ 0 \in 0 .. Len(r)  BY <4>1, LenProperties
      <4>4. Values(w, l1) = Behind(s, 0) /\ Values(w, l2) = Behind(r, 0)  BY <3>2, <4>2 DEF s, r
      <4>5. QED  BY <3>2, <4>3, <4>4 DEF Trimmed, s, r
    <3>6. QED  BY <3>1, <3>4, <3>5
  <2>2. \A i \in T : i + 1 \in T
    <3>1. SUFFICES ASSUME NEW i \in Nat, i \in 0 .. n => Merging(moved[i], i), i + 1 \in 0 .. n
                   PROVE  Merging(moved[i + 1], i + 1)
      OBVIOUS
    <3>2. i \in 0 .. n /\ i + 1 # 0 /\ (i + 1) - 1 = i  BY <1>1, <3>1
    <3>3. moved[i + 1] = MovedLarger(moved[i], l1, l2, to)  BY <1>5, <3>1, <3>2
    <3>4. Beside(m, to, l1, l2, moved[i]) /\ Trimmed(m, to, l1, l2, moved[i], i)  BY <3>1, <3>2
    <3>5. QED  BY <1>2, <3>3, <3>4, MovedLargerBeside, MovedLargerTrims
  <2>3. T \in SUBSET Nat  OBVIOUS
  <2> HIDE DEF T
  <2>4. QED  BY <2>1, <2>2, <2>3, ByInduction
<1>7. n \in T /\ n \in 0 .. n  BY <1>1, <1>6
<1>8. n = Len(Values(m, l1)) + Len(Values(m, l2))  BY SoundValues DEF n
<1>9. QED  BY <1>3, <1>7, <1>8

-----------------------------------------------------------------------------
(* Every call leaves the lists well linked.                                *)

Returnable == Value \cup ListId \cup {Null}

\* The invariant, and what a step has to keep of it.
LEMMA WellLinkedIsSound ==
    ListsWellLinked <=> Sound(mem) /\ held \subseteq DOMAIN mem.lists /\ out.ret \in Returnable
BY DEF ListsWellLinked, TypeOK, Sound, Returnable

LEMMA ValuesReturned ==
    ASSUME NEW m, Sound(m), NEW l \in DOMAIN m.lists
    PROVE  FirstValue(m, l) \in Value \cup {Null} /\ LastValue(m, l) \in Value \cup {Null}
<1> DEFINE s == Values(m, l)
<1>1. s \in Seq(Value)  BY SoundValues
<1>2. CASE s = <<>>
  <2>1. FirstValue(m, l) = Null /\ LastValue(m, l) = Null  BY <1>2, SoundValues
  <2>2. QED  BY <2>1
<1>3. CASE s # <<>>
  <2>1. /\ 1 \in 1 .. Len(s) /\ Len(s) \in 1 .. Len(s)
        /\ FirstValue(m, l) = s[1] /\ LastValue(m, l) = s[Len(s)]
    BY <1>3, SoundValues
  <2> HIDE DEF s
  <2>2. s[1] \in Value /\ s[Len(s)] \in Value  BY <1>1, <2>1, ElementOfSeq
  <2>3. QED  BY <2>1, <2>2
<1>4. QED  BY <1>2, <1>3

LEMMA ManyHaveFirst ==
    ASSUME NEW m, Sound(m), NEW l \in DOMAIN m.lists, ~ (m.lists[l].count <= 1)
    PROVE  FirstValue(m, l) \in Value
<1> DEFINE s == Values(m, l)
<1>1. s \in Seq(Value) /\ Len(s) = m.lists[l].count  BY SoundValues
<1>2. s # <<>>
  <2>1. Len(<<>>) = 0  OBVIOUS
  <2> HIDE DEF s
  <2>2. QED  BY <1>1, <2>1
<1>3. 1 \in 1 .. Len(s) /\ FirstValue(m, l) = s[1]  BY <1>2, SoundValues
<1>4. QED  BY <1>1, <1>3, ElementOfSeq

\* Taking an element off one end.
LEMMA EndsRemoved ==
    ASSUME NEW m, Sound(m), NEW l \in DOMAIN m.lists
    PROVE  /\ m.lists[l].first # Null =>
                 LET w == Removed(m, l, m.lists[l].first)
                 IN  Sound(w) /\ DOMAIN w.lists = DOMAIN m.lists
           /\ m.lists[l].last # Null =>
                 LET w == Removed(m, l, m.lists[l].last)
                 IN  Sound(w) /\ DOMAIN w.lists = DOMAIN m.lists
<1>1. m.lists[l].first # Null \/ m.lists[l].last # Null =>
          /\ 1 \in 1 .. Len(Values(m, l)) /\ Len(Values(m, l)) \in 1 .. Len(Values(m, l))
          /\ m.lists[l].first = Chain(m, l)[1]
          /\ m.lists[l].last = Chain(m, l)[Len(Values(m, l))]
  BY SoundValues
<1>2. QED  BY <1>1, RemovedSound

\* LIST_FOREACH runs its body on a list of one element only.
LEMMA VisitsSingle ==
    ASSUME NEW m, Sound(m), NEW l \in DOMAIN m.lists
    PROVE  /\ Visits(m.lists[l].first, m.lists[l].last) # <<>> <=> Len(Values(m, l)) = 1
           /\ Visits(m.lists[l].last, m.lists[l].first) # <<>> <=> Len(Values(m, l)) = 1
<1> DEFINE s == Values(m, l)
           c == Chain(m, l)
           L == m.lists[l]
<1>0. \A from, to : Visits(from, to) # <<>> <=> from = to /\ from # Null
  <2>1. \A n : <<n>> # <<>>  OBVIOUS
  <2>2. QED  BY <2>1 DEF Visits
<1>1. CASE s = <<>>
  <2>1. L.first = Null /\ L.last = Null  BY <1>1, SoundValues
  <2>2. Len(s) = 0  BY <1>1
  <2> HIDE DEF s, L
  <2>3. Len(s) # 1 /\ Visits(L.first, L.last) = <<>> /\ Visits(L.last, L.first) = <<>>
    BY <1>0, <2>1, <2>2
  <2>4. QED  BY <2>3 DEF s, L
<1>2. CASE s # <<>>
  <2>1. DOMAIN c = 1 .. Len(s) /\ Len(s) \in Nat /\ 1 \in 1 .. Len(s) /\ Len(s) \in 1 .. Len(s)
        /\ L.first = c[1] /\ L.last = c[Len(s)] /\ c[1] # Null /\ c[Len(s)] # Null
    BY <1>2, SoundValues
  <2>2. Way(m, l, c)
    <3>1. Ways(m, Chains(m)) /\ Chains(m)[l] = c  BY SoundHasWays
    <3>2. QED  BY <3>1 DEF Ways
  <2>3. Len(c) = Len(s)  BY <2>1, <2>2, LenProperties DEF Way
  <2>4. Null \notin DOMAIN m.nodes  BY NullAssumption DEF Sound, Typed
  <2>5. \A i, j \in 1 .. Len(s) : c[i] = c[j] => i = j
    <3> HIDE DEF c, s
    <3>1. QED  BY <2>2, <2>3, <2>4, WayIsSimple
  <2> HIDE DEF c, s, L
  <2>6. c[1] = c[Len(s)] <=> Len(s) = 1  BY <2>1, <2>5
  <2>7. QED  BY <1>0, <2>1, <2>6 DEF s, L
<1>3. QED  BY <1>1, <1>2

LEMMA StepSound ==
    ASSUME ListsWellLinked, [Next]_vars
    PROVE  ListsWellLinked'
<1>1. /\ Sound(mem) /\ held \subseteq DOMAIN mem.lists /\ out.ret \in Returnable
      /\ DOMAIN mem.lists \subseteq ListId
  BY WellLinkedIsSound DEF Sound, Typed
<1>2. SUFFICES Sound(mem') /\ held' \subseteq DOMAIN mem'.lists /\ out'.ret \in Returnable
  BY DEF ListsWellLinked, TypeOK, Sound, Returnable
<1>3. \A call, ret : Returned(call, ret).ret = ret  BY DEF Returned
<1>4. Null \in Returnable /\ Value \subseteq Returnable /\ ListId \subseteq Returnable  BY DEF Returnable
<1>5. CASE List_create
  <2>1. PICK l \in FreeLists(mem) : mem' = Listed(mem, l) /\ held' = held \cup {l}
                                    /\ out' = Returned(<<"create">>, l)
    BY <1>5 DEF List_create
  <2>2. l \in ListId  BY DEF FreeLists
  <2>3. Sound(Listed(mem, l)) /\ DOMAIN Listed(mem, l).lists = DOMAIN mem.lists \cup {l}
    BY <1>1, ListedSound
  <2>4. QED  BY <1>1, <1>3, <1>4, <2>1, <2>2, <2>3
<1>6. ASSUME NEW l \in held PROVE l \in DOMAIN mem.lists  BY <1>1
<1>7. ASSUME NEW l \in held, List_destroy(l)
      PROVE  Sound(mem') /\ held' \subseteq DOMAIN mem'.lists /\ out'.ret \in Returnable
  <2>1. mem' = FreeList(FreeNode(mem, mem.lists[l].last), l) /\ held' = held \ {l}
        /\ out' = Returned(<<"destroy", l>>, Null)
    BY <1>7 DEF List_destroy
  <2>2. Sound(mem') /\ DOMAIN mem'.lists = DOMAIN mem.lists \ {l}  BY <1>1, <1>6, <2>1, FreedSound
  <2>3. QED  BY <1>1, <1>3, <1>4, <2>1, <2>2
<1>8. ASSUME NEW l \in held, List_clear_destroy(l)
      PROVE  Sound(mem') /\ held' \subseteq DOMAIN mem'.lists /\ out'.ret \in Returnable
  <2>1. /\ \/ mem' = FreeList(FreeNode(mem, mem.lists[l].last), l)
           \/ mem' = mem
        /\ held' = {k \in held : k \in DOMAIN mem'.lists}
        /\ out' = Returned(<<"clear_destroy", l>>, Null)
    BY <1>8 DEF List_clear_destroy
  <2>2. Sound(mem')  BY <1>1, <1>6, <2>1, FreedSound
  <2>3. QED  BY <1>3, <1>4, <2>1, <2>2
<1>9. ASSUME NEW l \in held, NEW v \in Value, NEW n \in FreeNodes(mem), mem' = Pushed(mem, l, v, n)
      PROVE  Sound(mem') /\ DOMAIN mem'.lists = DOMAIN mem.lists
  BY <1>1, <1>6, <1>9, PushedSound
<1>10. ASSUME NEW l \in held, NEW v \in Value, List_push(l, v) \/ List_insert_sorted(l, v)
       PROVE  Sound(mem') /\ held' \subseteq DOMAIN mem'.lists /\ out'.ret \in Returnable
  <2>1. /\ (\E n \in FreeNodes(mem) : mem' = Pushed(mem, l, v, n)) \/ mem' = mem
        /\ out'.ret = Null /\ held' = held
    BY <1>3, <1>10 DEF List_push, List_insert_sorted
  <2>2. QED  BY <1>1, <1>4, <1>9, <2>1
<1>11. ASSUME NEW l \in held, NEW v \in Value, List_unshift(l, v)
       PROVE  Sound(mem') /\ held' \subseteq DOMAIN mem'.lists /\ out'.ret \in Returnable
  <2>1. PICK n \in FreeNodes(mem) : mem' = Unshifted(mem, l, v, n)  BY <1>11 DEF List_unshift
  <2>2. out' = Returned(<<"unshift", l, v>>, Null) /\ held' = held  BY <1>11 DEF List_unshift
  <2>3. Sound(mem') /\ DOMAIN mem'.lists = DOMAIN mem.lists  BY <1>1, <1>6, <2>1, UnshiftedSound
  <2>4. QED  BY <1>1, <1>3, <1>4, <2>2, <2>3
<1>12. ASSUME NEW l \in held, List_pop(l)
       PROVE  Sound(mem') /\ held' \subseteq DOMAIN mem'.lists /\ out'.ret \in Returnable
  <2>1. /\ mem' = IF mem.lists[l].last = Null THEN mem ELSE Removed(mem, l, mem.lists[l].last)
        /\ out' = Returned(<<"pop", l>>, LastValue(mem, l)) /\ held' = held
    BY <1>12 DEF List_pop
  <2>2. Sound(mem') /\ DOMAIN mem'.lists = DOMAIN mem.lists  BY <1>1, <1>6, <2>1, EndsRemoved
  <2>3. LastValue(mem, l) \in Returnable  BY <1>1, <1>4, <1>6, ValuesReturned
  <2>4. QED  BY <1>1, <1>3, <2>1, <2>2, <2>3
<1>13. ASSUME NEW l \in held, List_shift(l)
       PROVE  Sound(mem') /\ held' \subseteq DOMAIN mem'.lists /\ out'.ret \in Returnable
  <2>1. /\ mem' = IF mem.lists[l].first = Null THEN mem ELSE Removed(mem, l, mem.lists[l].first)
        /\ out' = Returned(<<"shift", l>>, FirstValue(mem, l)) /\ held' = held
    BY <1>13 DEF List_shift, Shifted
  <2>2. Sound(mem') /\ DOMAIN mem'.lists = DOMAIN mem.lists  BY <1>1, <1>6, <2>1, EndsRemoved
  <2>3. FirstValue(mem, l) \in Returnable  BY <1>1, <1>4, <1>6, ValuesReturned
  <2>4. QED  BY <1>1, <1>3, <2>1, <2>2, <2>3
<1>14. ASSUME NEW l \in held, NEW i \in DOMAIN Chain(mem, l), List_remove(l, i)
       PROVE  Sound(mem') /\ held' \subseteq DOMAIN mem'.lists /\ out'.ret \in Returnable
  <2> DEFINE n == Chain(mem, l)[i]
  <2>1. /\ mem' = Removed(mem, l, n) /\ held' = held
        /\ out' = Returned(<<"remove", l, i>>, mem.nodes[n].value)
    BY <1>14 DEF List_remove
  <2>2. i \in 1 .. Len(Values(mem, l)) /\ n \in DOMAIN mem.nodes  BY <1>1, <1>6, SoundValues
  <2>3. Sound(mem') /\ DOMAIN mem'.lists = DOMAIN mem.lists  BY <1>1, <1>6, <2>1, <2>2, RemovedSound
  <2>4. mem.nodes[n].value \in Value  BY <1>1, <2>2 DEF Sound, Typed, Node
  <2>5. QED  BY <1>1, <1>3, <1>4, <2>1, <2>3, <2>4
<1>15. ASSUME NEW l \in held, List_first(l) \/ List_last(l)
       PROVE  Sound(mem') /\ held' \subseteq DOMAIN mem'.lists /\ out'.ret \in Returnable
  <2>1. out'.ret \in {FirstValue(mem, l), LastValue(mem, l)}
    BY <1>3, <1>15 DEF List_first, List_last
  <2>2. mem' = mem /\ held' = held  BY <1>15 DEF List_first, List_last
  <2>3. out'.ret \in Returnable  BY <1>1, <1>4, <1>6, <2>1, ValuesReturned
  <2>4. QED  BY <1>1, <2>2, <2>3
<1>16. ASSUME NEW l \in held, List_bubble_sort(l)
       PROVE  Sound(mem') /\ held' \subseteq DOMAIN mem'.lists /\ out'.ret \in Returnable
  BY <1>1, <1>3, <1>4, <1>16 DEF List_bubble_sort
<1>17. ASSUME NEW l \in held, List_merge_sort(l)
       PROVE  Sound(mem') /\ held' \subseteq DOMAIN mem'.lists /\ out'.ret \in Returnable
  <2>1. l \in DOMAIN mem.lists /\ l \in Returnable  BY <1>1, <1>4, <1>6
  <2>2. CASE mem.lists[l].count <= 1
    <3>1. out' = Returned(<<"merge_sort", l>>, l) /\ mem' = mem /\ held' = held
      BY <1>17, <2>2 DEF List_merge_sort
    <3>2. QED  BY <1>1, <1>3, <2>1, <3>1
  <2>3. CASE ~ (mem.lists[l].count <= 1)
    <3>1. PICK new \in FreeLists(mem), n \in FreeNodes(mem) :
             /\ mem' = Pushed(Listed(mem, new), new, FirstValue(mem, l), n)
             /\ held' = held \cup {new} /\ out' = Returned(<<"merge_sort", l>>, new)
      BY <1>17, <2>3 DEF List_merge_sort
    <3> DEFINE w == Listed(mem, new)
               v == FirstValue(mem, l)
    <3>2. new \in ListId  BY DEF FreeLists
    <3>3. Sound(w) /\ DOMAIN w.lists = DOMAIN mem.lists \cup {new} /\ w.nodes = mem.nodes
      BY <1>1, ListedSound
    <3>4. v \in Value  BY <1>1, <2>1, <2>3, ManyHaveFirst
    <3>5. n \in FreeNodes(w) /\ new \in DOMAIN w.lists  BY <3>3 DEF FreeNodes
    <3>6. mem' = Pushed(w, new, v, n)  BY <3>1
    <3> HIDE DEF w, v
    <3>7. Sound(mem') /\ DOMAIN mem'.lists = DOMAIN w.lists
      <4>1. Sound(Pushed(w, new, v, n)) /\ DOMAIN Pushed(w, new, v, n).lists = DOMAIN w.lists
        <5>1. Sound(w) /\ new \in DOMAIN w.lists /\ v \in Value /\ n \in FreeNodes(w)
          BY <3>3, <3>4, <3>5
        <5>2. QED  BY ONLY <5>1, PushedSound
      <4>2. QED  BY <3>6, <4>1
    <3>8. QED  BY <1>1, <1>3, <1>4, <3>1, <3>2, <3>3, <3>7
  <2>4. QED  BY <2>2, <2>3
<1>18. ASSUME NEW l \in held, NEW k \in held, List_merge(l, k)
       PROVE  Sound(mem') /\ held' \subseteq DOMAIN mem'.lists /\ out'.ret \in Returnable
  <2>1. MergeRefused(l, k)  BY <1>1, NullAssumption DEF MergeRefused
  <2>2. out' = Returned(<<"merge", l, k>>, Null) /\ mem' = mem /\ held' = held \cap DOMAIN mem'.lists
    BY <1>18, <2>1 DEF List_merge, MergeResult, Merged
  <2>3. QED  BY <1>1, <1>3, <1>4, <2>2
<1>19. ASSUME NEW l \in held, NEW k \in held, Merge_sort(l, k)
       PROVE  Sound(mem') /\ held' \subseteq DOMAIN mem'.lists /\ out'.ret \in Returnable
  <2>0. l # k  BY <1>19 DEF Merge_sort
  <2>1. PICK to \in FreeLists(mem) :
           /\ mem' = AllMoved(mem, l, k, to)
           /\ out' = Returned(<<"Merge_sort", l, k>>, MergeAndSortResult(mem', l, k, to))
           /\ held' = IF out'.ret = to THEN held \cup {to} ELSE held
    BY <1>19 DEF Merge_sort
  <2>2. to \in ListId  BY DEF FreeLists
  <2>3. Sound(mem') /\ DOMAIN mem'.lists = DOMAIN mem.lists \cup {to}
    BY <1>1, <1>6, <2>0, <2>1, AllMovedBeside DEF Beside
  <2>4. out'.ret \in {Null, to}  BY <1>3, <2>1 DEF MergeAndSortResult
  <2>5. QED  BY <1>1, <1>4, <2>1, <2>2, <2>3, <2>4
<1>20. CASE UNCHANGED vars  BY <1>1, <1>20 DEF vars
<1>21. CASE Next
  BY <1>5, <1>7, <1>8, <1>10, <1>11, <1>12, <1>13, <1>14, <1>15, <1>16, <1>17, <1>18, <1>19, <1>21
     DEF Next
<1>22. QED  BY <1>20, <1>21

LEMMA InitSound == Init => ListsWellLinked
<1> SUFFICES ASSUME Init PROVE ListsWellLinked  OBVIOUS
<1>1. mem = [nodes |-> <<>>, lists |-> <<>>] /\ held = {} /\ out = Returned(<<"none">>, Null)
  BY DEF Init
<1>2. DOMAIN mem.nodes = {} /\ DOMAIN mem.lists = {}
  <2>1. \A f : f = <<>> => DOMAIN f = {}  OBVIOUS
  <2>2. QED  BY <1>1, <2>1
<1>3. mem.nodes \in [DOMAIN mem.nodes -> Node] /\ mem.lists \in [DOMAIN mem.lists -> List]
  BY <1>1, <1>2
<1>4. Typed(mem)  BY <1>1, <1>2, <1>3 DEF Typed
<1>5. Linked(mem)  BY <1>2 DEF Linked
<1>6. QED  BY <1>1, <1>4, <1>5 DEF ListsWellLinked, TypeOK, Returned

\* Whatever calls came before, next and prev lead through the counted nodes
\* of each list, and no two lists share one (list.c, queue.h, stack.h,
\* list_algos.c).
THEOREM AlwaysWellLinked == Spec => []ListsWellLinked
<1>1. Init => ListsWellLinked  BY InitSound
<1>2. ListsWellLinked /\ [Next]_vars => ListsWellLinked'  BY StepSound
<1>3. QED  BY <1>1, <1>2, PTL DEF Spec

-----------------------------------------------------------------------------
(* The calls of the deques are calls on sequences.                         *)

Abstract(m, H) == [l \in H |-> Values(m, l)]

\* Every call on lists is that call on their sequences.
LEMMA StepIsDeques ==
    ASSUME ListsWellLinked, Next
    PROVE  Sequence!Next
<1> DEFINE seqs == Abstract(mem, held)
           seqsNext == Abstract(mem', held')
<1>1. /\ Sound(mem) /\ held \subseteq DOMAIN mem.lists
      /\ DOMAIN mem.lists \subseteq ListId
  BY WellLinkedIsSound DEF Sound, Typed
<1>2. \A call, ret : /\ Returned(call, ret) = Sequence!Returned(call, ret)
                     /\ Returned(call, ret).ret = ret
  BY DEF Returned, Sequence!Returned
<1>3. /\ seqs = [l \in held |-> Values(mem, l)]
      /\ seqsNext = [l \in held' |-> Values(mem', l)]
      /\ DOMAIN seqs = held /\ \A l \in held : seqs[l] = Values(mem, l)
  BY DEF Abstract
<1>4. ASSUME NEW l \in held PROVE l \in DOMAIN mem.lists  BY <1>1
<1> HIDE DEF seqs, seqsNext
<1>5. CASE List_create
  <2>1. PICK l \in FreeLists(mem) : mem' = Listed(mem, l) /\ held' = held \cup {l}
                                    /\ out' = Returned(<<"create">>, l)
    BY <1>5 DEF List_create
  <2>2. l \in ListId /\ l \notin held  BY <1>1 DEF FreeLists
  <2>3. Values(mem', l) = <<>> /\ \A k \in held : Values(mem', k) = Values(mem, k)
    BY <1>1, <2>1, ListedSound
  <2>4. seqsNext = [k \in held \cup {l} |-> IF k = l THEN <<>> ELSE seqs[k]]
    BY <1>3, <2>1, <2>2, <2>3
  <2>5. Sequence!Create(l)
    BY <1>2, <1>3, <2>1, <2>2, <2>4 DEF Sequence!Create, Sequence!Grown
  <2>6. QED  BY <2>2, <2>5 DEF Sequence!Next
<1>6. ASSUME NEW l \in held, mem' = FreeList(FreeNode(mem, mem.lists[l].last), l),
             held' = held \ {l}
      PROVE  seqsNext = [k \in held \ {l} |-> seqs[k]]
  <2>1. \A k \in held \ {l} : Values(mem', k) = Values(mem, k)  BY <1>1, <1>4, <1>6, FreedSound
  <2>2. QED  BY <1>3, <1>6, <2>1
<1>7. ASSUME NEW l \in held, List_destroy(l) PROVE Sequence!Next
  <2>1. mem' = FreeList(FreeNode(mem, mem.lists[l].last), l) /\ held' = held \ {l}
        /\ out' = Returned(<<"destroy", l>>, Null)
    BY <1>7 DEF List_destroy
  <2>2. seqsNext = [k \in held \ {l} |-> seqs[k]]  BY <1>6, <2>1
  <2>3. Sequence!Destroy(l)  BY <1>2, <1>3, <2>1, <2>2 DEF Sequence!Destroy, Sequence!Shrunk
  <2>4. QED  BY <1>3, <2>3 DEF Sequence!Next
<1>8. ASSUME NEW l \in held, List_clear_destroy(l) PROVE Sequence!Next
  <2>1. /\ mem' = IF Visits(mem.lists[l].first, mem.lists[l].last) # <<>>
                  THEN FreeList(FreeNode(mem, mem.lists[l].last), l)
                  ELSE mem
        /\ held' = {k \in held : k \in DOMAIN mem'.lists}
        /\ out' = Returned(<<"clear_destroy", l>>, Null)
    BY <1>8 DEF List_clear_destroy
  <2>2. Visits(mem.lists[l].first, mem.lists[l].last) # <<>> <=> Len(seqs[l]) = 1
    BY <1>1, <1>3, <1>4, VisitsSingle
  <2>3. seqsNext = IF Len(seqs[l]) = 1 THEN [k \in held \ {l} |-> seqs[k]] ELSE seqs
    <3>1. CASE Len(seqs[l]) = 1
      <4>1. mem' = FreeList(FreeNode(mem, mem.lists[l].last), l)  BY <2>1, <2>2, <3>1
      <4>2. DOMAIN mem'.lists = DOMAIN mem.lists \ {l}  BY <1>1, <1>4, <4>1, FreedSound
      <4>3. held' = held \ {l}  BY <1>1, <2>1, <4>2
      <4>4. QED  BY <1>6, <3>1, <4>1, <4>3
    <3>2. CASE Len(seqs[l]) # 1
      <4>1. mem' = mem  BY <2>1, <2>2, <3>2
      <4>2. held' = held  BY <1>1, <2>1, <4>1
      <4>3. QED  BY <1>3, <3>2, <4>1, <4>2
    <3>3. QED  BY <3>1, <3>2
  <2>4. Sequence!ClearDestroy(l)
    BY <1>2, <1>3, <2>1, <2>3 DEF Sequence!ClearDestroy, Sequence!Shrunk
  <2>5. QED  BY <1>3, <2>4 DEF Sequence!Next
\* A push appends, and so does an insert_sorted that finds a place.
<1>9. ASSUME NEW l \in held, NEW v \in Value, NEW n \in FreeNodes(mem), mem' = Pushed(mem, l, v, n),
             held' = held
      PROVE  seqsNext = [seqs EXCEPT ![l] = Append(seqs[l], v)]
  <2>1. /\ Values(mem', l) = Append(Values(mem, l), v)
        /\ \A k \in held : k # l => Values(mem', k) = Values(mem, k)
    BY <1>1, <1>4, <1>9, PushedSound
  <2>2. QED  BY <1>3, <1>9, <2>1
<1>10. ASSUME NEW l \in held, NEW v \in Value, List_push(l, v) PROVE Sequence!Next
  <2>1. PICK n \in FreeNodes(mem) : mem' = Pushed(mem, l, v, n)  BY <1>10 DEF List_push
  <2>2. out' = Returned(<<"push", l, v>>, Null) /\ held' = held  BY <1>10 DEF List_push
  <2>3. seqsNext = [seqs EXCEPT ![l] = Append(seqs[l], v)]  BY <1>9, <2>1, <2>2
  <2>4. Sequence!Push(l, v)  BY <1>2, <1>3, <2>2, <2>3 DEF Sequence!Push
  <2>5. QED  BY <1>3, <2>4 DEF Sequence!Next
<1>11. ASSUME NEW l \in held, NEW v \in Value, List_unshift(l, v) PROVE Sequence!Next
  <2>1. PICK n \in FreeNodes(mem) : mem' = Unshifted(mem, l, v, n)  BY <1>11 DEF List_unshift
  <2>2. out' = Returned(<<"unshift", l, v>>, Null) /\ held' = held  BY <1>11 DEF List_unshift
  <2>3. /\ Values(mem', l) = <<v>> \o Values(mem, l)
        /\ \A k \in held : k # l => Values(mem', k) = Values(mem, k)
    BY <1>1, <1>4, <2>1, UnshiftedSound
  <2>4. seqsNext = [seqs EXCEPT ![l] = <<v>> \o @]
    BY <1>3, <2>2, <2>3
  <2>5. Sequence!Unshift(l, v)  BY <1>2, <1>3, <2>2, <2>4 DEF Sequence!Unshift
  <2>6. QED  BY <1>3, <2>5 DEF Sequence!Next
\* A remove, a pop and a shift take the element at some i.
<1>12. ASSUME NEW call, NEW l \in held, NEW i \in 1 .. Len(Values(mem, l)), held' = held,
              mem' = Removed(mem, l, Chain(mem, l)[i]), out' = Returned(call, Values(mem, l)[i])
       PROVE  Sequence!Take(call, l, i)
  <2> DEFINE s == Values(mem, l)
  <2>1. /\ Values(mem', l) = Dropped(s, i)
        /\ \A k \in held : k # l => Values(mem', k) = Values(mem, k)
    BY <1>1, <1>4, <1>12, RemovedSound
  <2>2. s \in Seq(Value)  BY <1>1, <1>4, SoundValues
  <2>3. Dropped(s, i) = RemoveAt(s, i) /\ s # <<>>
    <3> HIDE DEF s
    <3>1. i \in 1 .. Len(s)  BY DEF s
    <3>2. QED  BY <2>2, <3>1, DroppedIsRemoveAt, EmptySeq
  <2>4. seqsNext = [seqs EXCEPT ![l] = RemoveAt(@, i)] /\ seqs[l] # <<>>
    <3> HIDE DEF s
    <3>1. seqs[l] = s  BY <1>3 DEF s
    <3>2. QED  BY <1>3, <1>12, <2>1, <2>3, <3>1
  <2>5. QED  BY <1>2, <1>3, <1>12, <2>4 DEF Sequence!Take, Sequence!RemoveAt, RemoveAt
<1>13. ASSUME NEW call, NEW l \in held, NEW i, mem' = mem, held' = held,
              out' = Returned(call, IF Values(mem, l) = <<>> THEN Null ELSE Values(mem, l)[i])
       PROVE  Sequence!Look(call, l, i)
  <2>1. seqsNext = seqs  BY <1>3, <1>13
  <2>2. QED  BY <1>2, <1>3, <1>13, <2>1 DEF Sequence!Look
<1>14. ASSUME NEW l \in held, List_pop(l) PROVE Sequence!Next
  <2> DEFINE k == Len(Values(mem, l))
  <2>1. /\ mem' = IF mem.lists[l].last = Null THEN mem ELSE Removed(mem, l, mem.lists[l].last)
        /\ out' = Returned(<<"pop", l>>, LastValue(mem, l)) /\ held' = held
    BY <1>14 DEF List_pop
  <2>2. ASSUME Values(mem, l) = <<>> PROVE Sequence!TakeOrNull(<<"pop", l>>, l, k)
    <3>1. mem.lists[l].last = Null /\ LastValue(mem, l) = Null  BY <1>1, <1>4, <2>2, SoundValues
    <3>2. Sequence!Look(<<"pop", l>>, l, k)  BY <1>13, <2>1, <2>2, <3>1
    <3>3. QED  BY <1>3, <2>2, <3>2 DEF Sequence!TakeOrNull
  <2>3. ASSUME Values(mem, l) # <<>> PROVE Sequence!TakeOrNull(<<"pop", l>>, l, k)
    <3>1. /\ k \in 1 .. k /\ mem.lists[l].last = Chain(mem, l)[k] /\ Chain(mem, l)[k] # Null
          /\ LastValue(mem, l) = Values(mem, l)[k]
      BY <1>1, <1>4, <2>3, SoundValues
    <3>2. Sequence!Take(<<"pop", l>>, l, k)  BY <1>12, <2>1, <3>1
    <3>3. QED  BY <3>2 DEF Sequence!TakeOrNull
  <2>4. Sequence!Pop(l)  BY <1>3, <2>2, <2>3 DEF Sequence!Pop
  <2>5. QED  BY <1>3, <2>4 DEF Sequence!Next
<1>15. ASSUME NEW l \in held, List_shift(l) PROVE Sequence!Next
  <2>1. /\ mem' = IF mem.lists[l].first = Null THEN mem ELSE Removed(mem, l, mem.lists[l].first)
        /\ out' = Returned(<<"shift", l>>, FirstValue(mem, l)) /\ held' = held
    BY <1>15 DEF List_shift, Shifted
  <2>2. ASSUME Values(mem, l) = <<>> PROVE Sequence!TakeOrNull(<<"shift", l>>, l, 1)
    <3>1. mem.lists[l].first = Null /\ FirstValue(mem, l) = Null  BY <1>1, <1>4, <2>2, SoundValues
    <3>2. Sequence!Look(<<"shift", l>>, l, 1)  BY <1>13, <2>1, <2>2, <3>1
    <3>3. QED  BY <1>3, <2>2, <3>2 DEF Sequence!TakeOrNull
  <2>3. ASSUME Values(mem, l) # <<>> PROVE Sequence!TakeOrNull(<<"shift", l>>, l, 1)
    <3>1. /\ 1 \in 1 .. Len(Values(mem, l)) /\ mem.lists[l].first = Chain(mem, l)[1]
          /\ Chain(mem, l)[1] # Null /\ FirstValue(mem, l) = Values(mem, l)[1]
      BY <1>1, <1>4, <2>3, SoundValues
    <3>2. Sequence!Take(<<"shift", l>>, l, 1)  BY <1>12, <2>1, <3>1
    <3>3. QED  BY <3>2 DEF Sequence!TakeOrNull
  <2>4. Sequence!Shift(l)  BY <2>2, <2>3 DEF Sequence!Shift
  <2>5. QED  BY <1>3, <2>4 DEF Sequence!Next
<1>16. ASSUME NEW l \in held, NEW i \in DOMAIN Chain(mem, l), List_remove(l, i)
       PROVE  Sequence!Next
  <2>1. /\ mem' = Removed(mem, l, Chain(mem, l)[i]) /\ held' = held
        /\ out' = Returned(<<"remove", l, i>>, mem.nodes[Chain(mem, l)[i]].value)
    BY <1>16 DEF List_remove
  <2>2. i \in 1 .. Len(Values(mem, l)) /\ Values(mem, l)[i] = mem.nodes[Chain(mem, l)[i]].value
    BY <1>1, <1>4, SoundValues
  <2>3. Sequence!RemoveNth(l, i)  BY <1>12, <2>1, <2>2 DEF Sequence!RemoveNth
  <2>4. i \in DOMAIN seqs[l]
    <3>1. Values(mem, l) \in Seq(Value)  BY <1>1, <1>4, SoundValues
    <3>2. QED  BY <1>3, <2>2, <3>1, LenProperties
  <2>5. QED  BY <1>3, <2>3, <2>4 DEF Sequence!Next
<1>17. ASSUME NEW l \in held, List_first(l) \/ List_last(l) PROVE Sequence!Next
  <2> DEFINE s == Values(mem, l)
  <2>1. /\ FirstValue(mem, l) = IF s = <<>> THEN Null ELSE s[1]
        /\ LastValue(mem, l) = IF s = <<>> THEN Null ELSE s[Len(s)]
    BY <1>1, <1>4, SoundValues
  <2>2. mem' = mem /\ held' = held  BY <1>17 DEF List_first, List_last
  <2>3. CASE List_first(l)
    <3>1. out' = Returned(<<"first", l>>, FirstValue(mem, l))  BY <2>3 DEF List_first
    <3>2. Sequence!LookFirst(l)  BY <1>13, <2>1, <2>2, <3>1 DEF Sequence!LookFirst
    <3>3. QED  BY <1>3, <3>2 DEF Sequence!Next
  <2>4. CASE List_last(l)
    <3>1. out' = Returned(<<"last", l>>, LastValue(mem, l))  BY <2>4 DEF List_last
    <3>2. Sequence!Look(<<"last", l>>, l, Len(s))  BY <1>13, <2>1, <2>2, <3>1
    <3>3. Sequence!LookLast(l)  BY <1>3, <3>2 DEF Sequence!LookLast
    <3>4. QED  BY <1>3, <3>3 DEF Sequence!Next
  <2>5. QED  BY <1>17, <2>3, <2>4
<1>18. ASSUME mem' = mem, held' = held PROVE seqsNext = seqs  BY <1>3, <1>18
<1>19. ASSUME NEW l \in held, List_bubble_sort(l) PROVE Sequence!Next
  <2>1. out' = Returned(<<"bubble_sort", l>>, Null) /\ mem' = mem /\ held' = held
    BY <1>19 DEF List_bubble_sort
  <2>2. Sequence!BubbleSort(l)  BY <1>2, <1>3, <1>18, <2>1 DEF Sequence!BubbleSort
  <2>3. QED  BY <1>3, <2>2 DEF Sequence!Next
<1>20. ASSUME NEW l \in held, NEW v \in Value, List_insert_sorted(l, v) PROVE Sequence!Next
  <2> DEFINE s == Values(mem, l)
             L == mem.lists[l]
             fits == L.first = Null \/ (Visits(L.last, L.first) # <<>> /\ v > mem.nodes[L.last].value)
  <2>1. /\ fits => \E n \in FreeNodes(mem) : mem' = Pushed(mem, l, v, n)
        /\ ~ fits => mem' = mem
        /\ out' = Returned(<<"insert_sorted", l, v>>, Null) /\ held' = held
    BY <1>20 DEF List_insert_sorted
  <2>2. fits <=> s = <<>> \/ (Len(s) = 1 /\ v > s[1])
    <3>1. CASE s = <<>>
      <4>1. L.first = Null  BY <1>1, <1>4, <3>1, SoundValues
      <4>2. QED  BY <3>1, <4>1
    <3>2. CASE s # <<>>
      <4>1. L.first # Null /\ L.last = Chain(mem, l)[Len(s)] /\ Len(s) \in 1 .. Len(s)
        BY <1>1, <1>4, <3>2, SoundValues
      <4>2. mem.nodes[L.last].value = s[Len(s)]  BY <1>1, <1>4, <4>1, SoundValues
      <4>3. Visits(L.last, L.first) # <<>> <=> Len(s) = 1  BY <1>1, <1>4, VisitsSingle
      <4> HIDE DEF s, L
      <4>4. QED  BY <3>2, <4>1, <4>2, <4>3
    <3>3. QED  BY <3>1, <3>2
  <2> HIDE DEF fits
  <2>3. seqsNext = [seqs EXCEPT ![l] = IF fits THEN Append(seqs[l], v) ELSE seqs[l]]
    <3>1. CASE fits
      <4>1. PICK n \in FreeNodes(mem) : mem' = Pushed(mem, l, v, n)  BY <2>1, <3>1
      <4>2. seqsNext = [seqs EXCEPT ![l] = Append(seqs[l], v)]  BY <1>9, <2>1, <4>1
      <4>3. QED  BY <3>1, <4>2
    <3>2. CASE ~ fits
      <4>1. seqsNext = seqs  BY <1>18, <2>1, <3>2
      <4>2. seqs = [seqs EXCEPT ![l] = seqs[l]]  BY <1>3
      <4>3. QED  BY <3>2, <4>1, <4>2
    <3>3. QED  BY <3>1, <3>2
  <2>4. fits <=> seqs[l] = <<>> \/ (Len(seqs[l]) = 1 /\ v > seqs[l][1])  BY <1>3, <2>2
  <2>5. Sequence!InsertSorted(l, v)
    BY <1>2, <1>3, <2>1, <2>3, <2>4 DEF Sequence!InsertSorted
  <2>6. QED  BY <1>3, <2>5 DEF Sequence!Next
<1>21. ASSUME NEW l \in held, List_merge_sort(l) PROVE Sequence!Next
  <2>1. Len(seqs[l]) = mem.lists[l].count  BY <1>1, <1>3, <1>4, SoundValues
  <2>2. CASE mem.lists[l].count <= 1
    <3>1. out' = Returned(<<"merge_sort", l>>, l) /\ mem' = mem /\ held' = held
      BY <1>21, <2>2 DEF List_merge_sort
    <3>2. Sequence!MergeSort(l)  BY <1>2, <1>3, <1>18, <2>1, <2>2, <3>1 DEF Sequence!MergeSort
    <3>3. QED  BY <1>3, <3>2 DEF Sequence!Next
  <2>3. CASE ~ (mem.lists[l].count <= 1)
    <3>1. PICK new \in FreeLists(mem), n \in FreeNodes(mem) :
             /\ mem' = Pushed(Listed(mem, new), new, FirstValue(mem, l), n)
             /\ held' = held \cup {new} /\ out' = Returned(<<"merge_sort", l>>, new)
      BY <1>21, <2>3 DEF List_merge_sort
    <3> DEFINE w == Listed(mem, new)
               v == FirstValue(mem, l)
    <3>2. /\ Sound(w) /\ DOMAIN w.lists = DOMAIN mem.lists \cup {new} /\ w.nodes = mem.nodes
          /\ Values(w, new) = <<>> /\ \A k \in DOMAIN mem.lists : Values(w, k) = Values(mem, k)
      BY <1>1, ListedSound
    <3>3. v \in Value  BY <1>1, <1>4, <2>3, ManyHaveFirst
    <3>4. n \in FreeNodes(w) /\ new \in DOMAIN w.lists  BY <3>2 DEF FreeNodes
    <3>5. new \in ListId \ held /\ \A k \in held : k # new /\ k \in DOMAIN w.lists
      BY <1>1, <3>2 DEF FreeLists
    <3>6. mem' = Pushed(w, new, v, n)  BY <3>1
    <3>7. v = seqs[l][1]
      <4>1. Len(<<>>) = 0  OBVIOUS
      <4>2. Values(mem, l) # <<>>
        <5>1. Values(mem, l) = <<>> => Len(seqs[l]) = 0  BY <1>3, <4>1
        <5>2. QED  BY <2>1, <2>3, <5>1
      <4>3. QED  BY <1>1, <1>3, <1>4, <4>2, SoundValues
    <3> HIDE DEF w, v
    <3>8. /\ Values(mem', new) = Append(Values(w, new), v)
          /\ \A k \in DOMAIN w.lists : k # new => Values(mem', k) = Values(w, k)
      <4>1. Sound(w) /\ new \in DOMAIN w.lists /\ v \in Value /\ n \in FreeNodes(w)
        BY <3>2, <3>3, <3>4
      <4>2. QED  BY ONLY <3>6, <4>1, PushedSound
    <3>9. Values(mem', new) = <<v>> /\ \A k \in held : Values(mem', k) = Values(mem, k)
      <4>1. Append(<<>>, v) = <<v>>  OBVIOUS
      <4>2. QED  BY <1>1, <3>2, <3>5, <3>8, <4>1
    <3>10. seqsNext = [k \in held \cup {new} |-> IF k = new THEN <<seqs[l][1]>> ELSE seqs[k]]
      BY <1>3, <3>1, <3>5, <3>7, <3>9
    <3>11. mem.lists[l].count \in Nat  BY <1>1, <1>4 DEF Sound, Typed, List
    <3>12. Sequence!MergeSort(l)
      <4>1. Len(seqs[l]) > 1  BY <2>1, <2>3, <3>11
      <4>2. QED  BY <1>2, <1>3, <3>1, <3>5, <3>10, <4>1 DEF Sequence!MergeSort, Sequence!Grown
    <3>13. QED  BY <1>3, <3>12 DEF Sequence!Next
  <2>4. QED  BY <2>2, <2>3
<1>22. ASSUME NEW l \in held, NEW k \in held, List_merge(l, k) PROVE Sequence!Next
  <2>1. MergeRefused(l, k)  BY <1>1, NullAssumption DEF MergeRefused
  <2>2. out' = Returned(<<"merge", l, k>>, Null) /\ mem' = mem /\ held' = held /\ l # k
    BY <1>1, <1>22, <2>1 DEF List_merge, MergeResult, Merged
  <2>3. Sequence!Merge(l, k)  BY <1>2, <1>3, <1>18, <2>2 DEF Sequence!Merge
  <2>4. QED  BY <1>3, <2>2, <2>3 DEF Sequence!Next
<1>23. ASSUME NEW l \in held, NEW k \in held, Merge_sort(l, k) PROVE Sequence!Next
  <2> DEFINE s == Values(mem, l)
             r == Values(mem, k)
  <2>1. l # k  BY <1>23 DEF Merge_sort
  <2>2. PICK to \in FreeLists(mem) :
           /\ mem' = AllMoved(mem, l, k, to)
           /\ out' = Returned(<<"Merge_sort", l, k>>, MergeAndSortResult(mem', l, k, to))
           /\ held' = IF out'.ret = to THEN held \cup {to} ELSE held
    BY <1>23 DEF Merge_sort
  <2>3. /\ to \in ListId /\ to \notin DOMAIN mem.lists /\ to \notin held /\ to # Null
        /\ l \in DOMAIN mem.lists /\ k \in DOMAIN mem.lists
    BY <1>1, NullAssumption DEF FreeLists
  <2>4. /\ Beside(mem, to, l, k, mem')
        /\ Trimmed(mem, to, l, k, mem', Len(s) + Len(r))
    BY <1>1, <2>1, <2>2, <2>3, AllMovedBeside
  <2>5. /\ s \in Seq(Value) /\ r \in Seq(Value) /\ Len(s) \in Nat /\ Len(r) \in Nat
        /\ seqs[l] = s /\ seqs[k] = r
    BY <1>1, <1>3, <2>3, SoundValues, LenProperties
  <2>6. PICK i \in 0 .. Len(s), j \in 0 .. Len(r) :
           /\ Values(mem', l) = Behind(s, i) /\ Values(mem', k) = Behind(r, j)
           /\ i = Len(s) /\ j = Len(r) => i = 0 /\ j = 0
           /\ i = Len(s) \/ j = Len(r) \/ i + j = Len(s) + Len(r)
           /\ i = 0 /\ j = 0 => Values(mem', to) = <<>>
    BY <2>4 DEF Trimmed
  <2>7. \A x \in held : x # l /\ x # k => Values(mem', x) = seqs[x]  BY <1>1, <1>3, <2>4 DEF Trimmed
  <2> HIDE DEF s, r
  <2>8. i = Len(s) \/ j = Len(r)  BY <2>5, <2>6
  <2>9. /\ Behind(s, i) = <<>> <=> i = Len(s)
        /\ Behind(r, j) = <<>> <=> j = Len(r)
        /\ Behind(s, i) = Sequence!Dropped(s, i)
        /\ Behind(r, j) = Sequence!Dropped(r, j)
    BY <2>5, BehindOf DEF Sequence!Dropped
  <2>10. \A x \in {l, k} : mem'.lists[x].first = Null <=> Values(mem', x) = <<>>
    <3>1. Sound(mem') /\ l \in DOMAIN mem'.lists /\ k \in DOMAIN mem'.lists  BY <2>3, <2>4 DEF Beside
    <3>2. \A x \in DOMAIN mem'.lists : mem'.lists[x].first = Null <=> Values(mem', x) = <<>>
      BY <3>1, EmptyIsNull
    <3>3. QED  BY <3>1, <3>2
  <2>11. LeftOver(mem', l, k) = {} <=> i = Len(s) /\ j = Len(r)
    BY <2>6, <2>9, <2>10 DEF LeftOver
  \* Nothing is left over when both were empty.
  <2>12. CASE i = Len(s) /\ j = Len(r)
    <3>1. i = 0 /\ j = 0 /\ s = <<>> /\ r = <<>> /\ Values(mem', to) = <<>>
      BY <2>5, <2>6, <2>12, EmptySeq
    <3>2. out' = Returned(<<"Merge_sort", l, k>>, to)  BY <2>2, <2>11, <2>12 DEF MergeAndSortResult
    <3>3. held' = held \cup {to}  BY <1>2, <2>2, <3>2
    <3>4. Values(mem', l) = seqs[l] /\ Values(mem', k) = seqs[k]  BY <2>5, <2>6, <2>9, <2>12, <3>1
    <3>5. seqsNext = [x \in held \cup {to} |-> IF x = to THEN <<>> ELSE seqs[x]]
      BY <1>3, <2>3, <2>7, <3>1, <3>3, <3>4
    <3>6. Sequence!MergeSortTwo(l, k)
      BY <1>2, <1>3, <2>3, <2>5, <3>1, <3>2, <3>5 DEF Sequence!MergeSortTwo, Sequence!Grown
    <3>7. QED  BY <1>3, <2>1, <3>6 DEF Sequence!Next
  \* What is left over goes to List_merge, which refuses it.
  <2>13. CASE ~ (i = Len(s) /\ j = Len(r))
    <3>1. \A x \in {l, k} : MergeRefused(to, x)  BY <2>3, <1>1, NullAssumption DEF MergeRefused
    <3>2. \E x \in LeftOver(mem', l, k) : x \in {l, k}  BY <2>11, <2>13 DEF LeftOver
    <3>3. out' = Returned(<<"Merge_sort", l, k>>, Null)  BY <2>2, <3>1, <3>2 DEF MergeAndSortResult
    <3>4. held' = held  BY <1>2, <2>2, <2>3, <3>3
    <3>5. seqsNext = [seqs EXCEPT ![l] = Sequence!Dropped(s, i), ![k] = Sequence!Dropped(r, j)]
      <4>1. Values(mem', l) = Sequence!Dropped(s, i) /\ Values(mem', k) = Sequence!Dropped(r, j)
        BY <2>6, <2>9
      <4>2. QED  BY <1>3, <2>1, <2>7, <3>4, <4>1
    <3>6. ~ (i = Len(s) <=> j = Len(r))  BY <2>8, <2>13
    <3>7. \E x \in 0 .. Len(seqs[l]), y \in 0 .. Len(seqs[k]) :
             /\ ~ (x = Len(seqs[l]) <=> y = Len(seqs[k]))
             /\ seqsNext = [seqs EXCEPT ![l] = Sequence!Dropped(@, x), ![k] = Sequence!Dropped(@, y)]
      <4>1. seqsNext = [seqs EXCEPT ![l] = Sequence!Dropped(@, i), ![k] = Sequence!Dropped(@, j)]
        BY <1>3, <2>1, <2>5, <3>5
      <4>2. i \in 0 .. Len(seqs[l]) /\ j \in 0 .. Len(seqs[k])
            /\ ~ (i = Len(seqs[l]) <=> j = Len(seqs[k]))
        BY <2>5, <3>6
      <4>3. QED  BY ONLY <4>1, <4>2, Zenon
    <3>8. Sequence!MergeSortTwo(l, k)
      <4>1. out' = Sequence!Returned(<<"Merge_sort", l, k>>, Null)  BY <1>2, <3>3
      <4>2. QED  BY ONLY <3>7, <4>1, Zenon DEF Sequence!MergeSortTwo, seqs, seqsNext, Abstract
    <3>9. QED  BY <1>3, <2>1, <3>8 DEF Sequence!Next
  <2>14. QED  BY <2>12, <2>13
<1>24. QED
  BY <1>5, <1>7, <1>8, <1>10, <1>11, <1>14, <1>15, <1>16, <1>17, <1>19, <1>20, <1>21, <1>22, <1>23
     DEF Next

\* Whatever calls came before, each call of list.c and list_algos.c, of the
\* sorts, merges and clear_destroys too, is that call on sequences: a push
\* appends what it was given, a pop returns the last value and drops it.
THEOREM ListsAreDeques == Spec => IsDeques
<1>1. Init => Sequence!Init
  <2>1. SUFFICES ASSUME Init PROVE Sequence!Init  OBVIOUS
  <2>2. held = {} /\ out = Returned(<<"none">>, Null)  BY <2>1 DEF Init
  <2>3. [l \in held |-> Values(mem, l)] = <<>>  BY <2>2
  <2>4. QED  BY <2>2, <2>3 DEF Sequence!Init, Sequence!Returned, Returned
<1>2. ListsWellLinked /\ [Next]_vars => [Sequence!Next]_(Sequence!vars)
  <2>1. SUFFICES ASSUME ListsWellLinked, [Next]_vars PROVE [Sequence!Next]_(Sequence!vars)
    OBVIOUS
  <2>2. CASE Next  BY <2>1, <2>2, StepIsDeques
  <2>3. CASE UNCHANGED vars  BY <2>3 DEF vars, Sequence!vars
  <2>4. QED  BY <2>1, <2>2, <2>3
<1>3. Spec => Sequence!Init /\ [][Sequence!Next]_(Sequence!vars)
  BY <1>1, <1>2, AlwaysWellLinked, PTL DEF Spec
<1>4. QED  BY <1>3 DEF IsDeques, Sequence!Spec

-----------------------------------------------------------------------------
(* What nodes get lost.                                                    *)

LEMMA StepLeaks ==
    ASSUME ListsWellLinked, Next
    PROVE  CASE out'.call[1] = "destroy" ->
                    \E l \in held \ held' :
                       Lost(mem', held') = Lost(mem, held) \cup (Nodes(mem, l) \ {mem.lists[l].last})
             [] out'.call[1] = "Merge_sort" ->
                    /\ Lost(mem, held) \subseteq Lost(mem', held')
                    /\ Lost(mem', held') # Lost(mem, held) => out'.ret = Null
             [] OTHER -> Lost(mem', held') = Lost(mem, held)
<1> DEFINE Goal == CASE out'.call[1] = "destroy" ->
                    \E l \in held \ held' :
                       Lost(mem', held') = Lost(mem, held) \cup (Nodes(mem, l) \ {mem.lists[l].last})
             [] out'.call[1] = "Merge_sort" ->
                    /\ Lost(mem, held) \subseteq Lost(mem', held')
                    /\ Lost(mem', held') # Lost(mem, held) => out'.ret = Null
             [] OTHER -> Lost(mem', held') = Lost(mem, held)
<1>1. /\ Sound(mem) /\ held \in SUBSET DOMAIN mem.lists
      /\ DOMAIN mem.lists \subseteq ListId
  BY WellLinkedIsSound DEF Sound, Typed
<1>2. \A call, ret : Returned(call, ret).ret = ret /\ Returned(call, ret).call = call  BY DEF Returned
<1>3. ASSUME NEW l \in held PROVE l \in DOMAIN mem.lists  BY <1>1
\* Most calls lose nothing.
<1>4. ASSUME NEW call, NEW ret, out' = Returned(call, ret), call[1] \notin {"destroy", "Merge_sort"},
             Lost(mem', held') = Lost(mem, held)
      PROVE  Goal
  BY <1>2, <1>4
<1>5. ASSUME List_create PROVE Goal
  <2>1. PICK l \in FreeLists(mem) : mem' = Listed(mem, l) /\ held' = held \cup {l}
                                    /\ out' = Returned(<<"create">>, l)
    BY <1>5 DEF List_create
  <2>2. Lost(mem', held') = Lost(mem, held)  BY <1>1, <2>1, ListedLosesNothing
  <2> HIDE DEF Goal
  <2>3. QED  BY <1>4, <2>1, <2>2
<1>6. ASSUME NEW l \in held, List_destroy(l) PROVE Goal
  <2>1. mem' = FreeList(FreeNode(mem, mem.lists[l].last), l) /\ held' = held \ {l}
        /\ out' = Returned(<<"destroy", l>>, Null)
    BY <1>6 DEF List_destroy
  <2>2. Lost(mem', held') = Lost(mem, held) \cup (Nodes(mem, l) \ {mem.lists[l].last})
    BY <1>1, <2>1, LostByDestroy
  <2>3. l \in held \ held'  BY <2>1
  <2>4. out'.call[1] = "destroy"  BY <1>2, <2>1
  <2>5. QED  BY <2>2, <2>3, <2>4
<1>7. ASSUME NEW l \in held, List_clear_destroy(l) PROVE Goal
  <2> DEFINE L == mem.lists[l]
  <2>1. /\ mem' = IF Visits(L.first, L.last) # <<>> THEN FreeList(FreeNode(mem, L.last), l) ELSE mem
        /\ held' = {k \in held : k \in DOMAIN mem'.lists}
        /\ out' = Returned(<<"clear_destroy", l>>, Null)
    BY <1>7 DEF List_clear_destroy
  <2>2. CASE Visits(L.first, L.last) = <<>>
    <3>1. mem' = mem /\ held' = held  BY <1>1, <2>1, <2>2
    <3> HIDE DEF Goal
    <3>2. QED  BY <1>4, <2>1, <3>1
  <2>3. CASE Visits(L.first, L.last) # <<>>
    <3>1. mem' = FreeList(FreeNode(mem, L.last), l)  BY <2>1, <2>3
    <3>2. held' = held \ {l}
      <4>1. DOMAIN mem'.lists = DOMAIN mem.lists \ {l}  BY <1>1, <1>3, <3>1, FreedSound
      <4>2. QED  BY <1>1, <2>1, <4>1
    \* The list has one node, its last.
    <3>3. Len(Values(mem, l)) = 1  BY <1>1, <1>3, <2>3, VisitsSingle
    <3>4. Nodes(mem, l) \subseteq {L.last}
      <4>1. Len(<<>>) = 0  OBVIOUS
      <4>2. Values(mem, l) # <<>>  BY <3>3, <4>1
      <4>3. DOMAIN Chain(mem, l) = 1 .. Len(Values(mem, l)) /\ L.last = Chain(mem, l)[Len(Values(mem, l))]
        BY <1>1, <1>3, <4>2, SoundValues
      <4>4. \A i \in DOMAIN Chain(mem, l) : Chain(mem, l)[i] = L.last  BY <3>3, <4>3
      <4>5. QED  BY <4>4 DEF Nodes, Range
    <3>5. Lost(mem', held') = Lost(mem, held) \cup (Nodes(mem, l) \ {L.last})
      BY <1>1, <3>1, <3>2, LostByDestroy
    <3>6. Lost(mem', held') = Lost(mem, held)  BY <3>4, <3>5
    <3> HIDE DEF Goal
    <3>7. QED  BY <1>4, <2>1, <3>6
  <2>4. QED  BY <2>2, <2>3
<1>8. ASSUME NEW l \in held, NEW v \in Value,
             List_push(l, v) \/ List_unshift(l, v) \/ List_insert_sorted(l, v)
      PROVE  Goal
  <2>1. /\ \/ \E n \in FreeNodes(mem) : mem' = Pushed(mem, l, v, n) \/ mem' = Unshifted(mem, l, v, n)
           \/ mem' = mem
        /\ held' = held
    BY <1>8 DEF List_push, List_unshift, List_insert_sorted
  <2>2. PICK call : /\ call \in {<<"push", l, v>>, <<"unshift", l, v>>, <<"insert_sorted", l, v>>}
                    /\ out' = Returned(call, Null)
    BY <1>8 DEF List_push, List_unshift, List_insert_sorted
  <2>3. Lost(mem', held') = Lost(mem, held)  BY <1>1, <2>1, NothingLost
  <2> HIDE DEF Goal
  <2>4. QED  BY <1>4, <2>2, <2>3
<1>9. ASSUME NEW l \in held, mem.lists[l].first # Null \/ mem.lists[l].last # Null
      PROVE  /\ Lost(Removed(mem, l, mem.lists[l].first), held) = Lost(mem, held)
             /\ Lost(Removed(mem, l, mem.lists[l].last), held) = Lost(mem, held)
  <2> DEFINE k == Len(Values(mem, l))
  <2>1. /\ 1 \in 1 .. k /\ k \in 1 .. k
        /\ mem.lists[l].first = Chain(mem, l)[1] /\ mem.lists[l].last = Chain(mem, l)[k]
    BY <1>1, <1>3, <1>9, SoundValues
  <2>2. QED  BY <1>1, <2>1, NothingLost
<1>10. ASSUME NEW l \in held, List_pop(l) \/ List_shift(l) PROVE Goal
  <2>1. PICK call, ret : call \in {<<"pop", l>>, <<"shift", l>>} /\ out' = Returned(call, ret)
    BY <1>10 DEF List_pop, List_shift
  <2>2. /\ held' = held
        /\ \/ mem' = mem
           \/ mem.lists[l].first # Null /\ mem' = Removed(mem, l, mem.lists[l].first)
           \/ mem.lists[l].last # Null /\ mem' = Removed(mem, l, mem.lists[l].last)
    BY <1>10 DEF List_pop, List_shift, Shifted
  <2>3. Lost(mem', held') = Lost(mem, held)  BY <1>9, <2>2
  <2> HIDE DEF Goal
  <2>4. QED  BY <1>4, <2>1, <2>3
<1>11. ASSUME NEW l \in held, NEW i \in DOMAIN Chain(mem, l), List_remove(l, i)
       PROVE  Goal
  <2>1. mem' = Removed(mem, l, Chain(mem, l)[i]) /\ held' = held  BY <1>11 DEF List_remove
  <2>2. PICK ret : out' = Returned(<<"remove", l, i>>, ret)  BY <1>11 DEF List_remove
  <2>3. i \in 1 .. Len(Values(mem, l))  BY <1>1, <1>3, SoundValues
  <2>4. Lost(mem', held') = Lost(mem, held)  BY <1>1, <2>1, <2>3, NothingLost
  <2> HIDE DEF Goal
  <2>5. QED  BY <1>4, <2>2, <2>4
<1>12. ASSUME NEW l \in held, List_first(l) \/ List_last(l) \/ List_bubble_sort(l) PROVE Goal
  <2>1. PICK call, ret : /\ call \in {<<"first", l>>, <<"last", l>>, <<"bubble_sort", l>>}
                         /\ out' = Returned(call, ret)
    BY <1>12 DEF List_first, List_last, List_bubble_sort
  <2>2. mem' = mem /\ held' = held  BY <1>12 DEF List_first, List_last, List_bubble_sort
  <2> HIDE DEF Goal
  <2>3. QED  BY <1>4, <2>1, <2>2
<1>13. ASSUME NEW l \in held, List_merge_sort(l) PROVE Goal
  <2>1. PICK ret : out' = Returned(<<"merge_sort", l>>, ret)  BY <1>13 DEF List_merge_sort
  <2>2. CASE mem' = mem /\ held' = held
    <3> HIDE DEF Goal
    <3>1. QED  BY <1>4, <2>1, <2>2
  <2>3. CASE ~ (mem' = mem /\ held' = held)
    <3>1. PICK new \in FreeLists(mem), n \in FreeNodes(mem) :
             /\ mem' = Pushed(Listed(mem, new), new, FirstValue(mem, l), n)
             /\ held' = held \cup {new}
      BY <1>13, <2>3 DEF List_merge_sort
    <3>2. ~ (mem.lists[l].count <= 1)  BY <1>13, <2>3 DEF List_merge_sort
    <3> DEFINE w == Listed(mem, new)
               v == FirstValue(mem, l)
    <3>3. Sound(w) /\ DOMAIN w.lists = DOMAIN mem.lists \cup {new} /\ w.nodes = mem.nodes
      BY <1>1, ListedSound
    <3>4. v \in Value  BY <1>1, <1>3, <3>2, ManyHaveFirst
    <3>5. Lost(w, held \cup {new}) = Lost(mem, held)  BY <1>1, ListedLosesNothing
    <3>6. mem' = Pushed(w, new, v, n)  BY <3>1
    <3>7. n \in FreeNodes(w)  BY <3>3 DEF FreeNodes
    <3>8. held' \in SUBSET DOMAIN w.lists /\ new \in held'  BY <1>1, <3>1, <3>3
    <3> HIDE DEF w, v
    <3>9. Lost(Pushed(w, new, v, n), held') = Lost(w, held')
      <4>1. Sound(w) /\ held' \in SUBSET DOMAIN w.lists /\ new \in held' /\ v \in Value /\ n \in FreeNodes(w)
        BY <3>3, <3>4, <3>7, <3>8
      <4>2. QED  BY ONLY <4>1, NothingLost
    <3>10. Lost(mem', held') = Lost(mem, held)  BY <3>1, <3>5, <3>6, <3>9
    <3> HIDE DEF Goal
    <3>11. QED  BY <1>4, <2>1, <3>10
  <2>4. QED  BY <2>2, <2>3
<1>14. ASSUME NEW l \in held, NEW k \in held, List_merge(l, k) PROVE Goal
  <2>1. MergeRefused(l, k)  BY <1>1, NullAssumption DEF MergeRefused
  <2>2. out' = Returned(<<"merge", l, k>>, Null) /\ mem' = mem /\ held' = held
    BY <1>1, <1>14, <2>1 DEF List_merge, MergeResult, Merged
  <2> HIDE DEF Goal
  <2>3. QED  BY <1>4, <2>2
<1>15. ASSUME NEW l \in held, NEW k \in held, Merge_sort(l, k) PROVE Goal
  <2>0. l # k  BY <1>15 DEF Merge_sort
  <2>1. PICK to \in FreeLists(mem) :
           /\ mem' = AllMoved(mem, l, k, to)
           /\ out' = Returned(<<"Merge_sort", l, k>>, MergeAndSortResult(mem', l, k, to))
           /\ held' = IF out'.ret = to THEN held \cup {to} ELSE held
    BY <1>15 DEF Merge_sort
  <2>2. Beside(mem, to, l, k, mem')  BY <1>1, <1>3, <2>0, <2>1, AllMovedBeside
  <2>3. out'.ret \in {Null, to} /\ out'.call[1] = "Merge_sort"  BY <1>2, <2>1 DEF MergeAndSortResult
  <2>4. /\ DOMAIN mem'.nodes = DOMAIN mem.nodes
        /\ Nodes(mem', l) \cup Nodes(mem', k) \cup Nodes(mem', to) = Nodes(mem, l) \cup Nodes(mem, k)
        /\ \A j \in DOMAIN mem.lists : j # l /\ j # k => Nodes(mem', j) = Nodes(mem, j)
    BY <2>2 DEF Beside
  <2>5. \A x : (\E j \in held : x \in Nodes(mem', j)) => (\E j \in held : x \in Nodes(mem, j))
    BY <1>1, <2>4
  <2>6. \A x : (\E j \in held \cup {to} : x \in Nodes(mem', j)) <=> (\E j \in held : x \in Nodes(mem, j))
    BY <1>1, <2>4
  <2>7. CASE held' = held
    <3>1. Lost(mem, held) \subseteq Lost(mem', held')  BY <2>4, <2>5, <2>7 DEF Lost
    <3>2. out'.ret # to \/ to \in held  BY <2>1, <2>7
    <3>3. to \notin held  BY <1>1 DEF FreeLists
    <3>4. QED  BY <2>3, <3>1, <3>2, <3>3
  <2>8. CASE held' = held \cup {to}
    <3>1. Lost(mem', held') = Lost(mem, held)  BY <2>4, <2>6, <2>8 DEF Lost
    <3>2. QED  BY <2>3, <3>1
  <2>9. QED  BY <2>1, <2>7, <2>8
<1> HIDE DEF Goal
<1>16. Goal
  BY <1>5, <1>6, <1>7, <1>8, <1>10, <1>11, <1>12, <1>13, <1>14, <1>15 DEF Next
<1>17. QED  BY <1>16 DEF Goal

\* Only a destroy of a list of several elements and Merge_sort lose nodes
\* (list.c:43, list_algos.c:38); the other calls, on any lists and in any
\* order, lose none.
THEOREM ListsLeakOnlyBy == Spec => LeaksOnlyBy
<1> DEFINE Step == CASE out'.call[1] = "destroy" ->
                            \E l \in held \ held' :
                               Orphans' = Orphans \cup (Range(Chain(mem, l)) \ {mem.lists[l].last})
                     [] out'.call[1] = "Merge_sort" ->
                            Orphans \subseteq Orphans' /\ (Orphans' # Orphans => out'.ret = Null)
                     [] OTHER -> Orphans' = Orphans
<1>1. ListsWellLinked /\ [Next]_vars => [Step]_vars
  <2>1. Orphans = Lost(mem, held) /\ Orphans' = Lost(mem', held')
    BY DEF Orphans, InLists, Lost, Nodes
  <2>2. ASSUME ListsWellLinked, Next PROVE Step  BY <2>1, <2>2, StepLeaks DEF Nodes
  <2> HIDE DEF Step
  <2>3. QED  BY <2>2
<1> HIDE DEF Step
<1>2. Spec => [][Step]_vars  BY <1>1, AlwaysWellLinked, PTL DEF Spec
<1>3. QED  BY <1>2 DEF LeaksOnlyBy, Step

\* Both together: the lists callers see are sequences of values, and the
\* nodes they do not see are lost where the comment of LeaksOnlyBy says.
THEOREM AlwaysSequences == Spec => ListsAreSequences
BY ListsAreDeques, ListsLeakOnlyBy DEF ListsAreSequences
=============================================================================
