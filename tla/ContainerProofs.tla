--------------------------- MODULE ContainerProofs ---------------------------
(***************************************************************************)
(* List, for any values and any bound on the length: the links are a ring, *)
(* every call does to the sequence of values what its reference says, and  *)
(* foreach visits what was in the list.                                    *)
(*                                                                         *)
(* Tree, for any set of keys and any sequence of calls: insert and erase   *)
(* leave an AVL tree, the tree does what a set does, and iterators and     *)
(* searches find in it what they would in the set.                         *)
(*                                                                         *)
(* The way there: a tree is a root that joins two trees (Join, Split), and *)
(* only the fields of its nodes make it one (Frame); a rotation joins the  *)
(* three trees below two nodes anew; Rebalance mends the lean that one     *)
(* step more or less of a child makes; and by induction on the height the  *)
(* recursion of insert and erase returns a tree of nearly the height it    *)
(* was called for (Returns).  The exchange of a node with its successor    *)
(* makes a heap that is no tree: PlaceTaken compares it with one that is.  *)
(***************************************************************************)
EXTENDS List, Tree, FiniteSetTheorems, SequenceTheorems, NaturalsInduction,
        WellFoundedInduction, TLAPS

-----------------------------------------------------------------------------
(* Induction over the naturals, over a set and not over a predicate: the   *)
(* form in which it can be cited.                                          *)

\* A set of naturals that is not empty has a least element.  It follows from
\* the library's theorem that < is well founded on Nat.
LEMMA LeastNat ==
    ASSUME NEW T \in SUBSET Nat, T # {}
    PROVE  \E m \in T : \A n \in T : m <= n
<1> DEFINE R == {ss \in Nat \X Nat : ss[1] < ss[2]}
<1>1. IsWellFoundedOn(R, Nat)
  BY NatLessThanWellFounded DEF OpToRel
<1>2. \A y, x \in Nat : y < x => <<y, x>> \in R
  OBVIOUS
<1> HIDE DEF R
<1>3. PICK x \in T : \A y \in T : ~(<<y, x>> \in R)
  BY <1>1, WFMin
<1>4. \A y \in T : ~(y < x)
  BY <1>2, <1>3
<1> QED BY <1>4

\* A set with 0 and with the successor of each of its numbers has them all.
LEMMA SetInduction ==
    ASSUME NEW T, 0 \in T, \A n \in Nat : n \in T => n + 1 \in T
    PROVE  Nat \subseteq T
<1> SUFFICES ASSUME Nat \ T # {} PROVE FALSE
  OBVIOUS
<1>1. PICK m \in Nat \ T : \A n \in Nat \ T : m <= n
  BY LeastNat
<1>2. m - 1 \in Nat /\ m - 1 \notin Nat \ T
  BY <1>1
<1> QED BY <1>1, <1>2

-----------------------------------------------------------------------------
(* Sequences of n elements, as functions                                   *)

\* x comes to be the k-th element; the k-th element goes.
Put(s, n, k, x) ==
    [i \in 1 .. n + 1 |-> IF i < k THEN s[i] ELSE IF i = k THEN x ELSE s[i - 1]]
Without(s, n, k) == [i \in 1 .. n - 1 |-> IF i < k THEN s[i] ELSE s[i + 1]]

\* A set of naturals that is not empty has the minimum that Min chooses.
LEMMA MinIsLeast ==
    ASSUME NEW T \in SUBSET Nat, T # {}
    PROVE  Min(T) \in T /\ \A n \in T : Min(T) <= n
<1>1. \E x \in T : \A y \in T : x =< y
  BY LeastNat
<1> QED BY <1>1 DEF Min

\* A set of naturals that is not empty and has a bound has its maximum.
LEMMA MaxIsGreatest ==
    ASSUME NEW n \in Nat, NEW T \in SUBSET (0 .. n), T # {}
    PROVE  Max(T) \in T /\ \A m \in T : m <= Max(T)
<1> DEFINE U == {n - m : m \in T}
<1>1. U \in SUBSET Nat /\ U # {}
  OBVIOUS
<1>2. PICK u \in U : \A w \in U : u <= w
  BY <1>1, LeastNat
<1>3. PICK x \in T : u = n - x
  BY <1>2
<1>4. \A y \in T : x >= y
  <2>1. \A y \in T : n - y \in U
    OBVIOUS
  <2> HIDE DEF U
  <2> QED BY <1>2, <1>3, <2>1
<1>5. \E z \in T : \A y \in T : z >= y
  BY <1>4
<1> HIDE DEF U
<1>6. Max(T) \in T /\ \A y \in T : Max(T) >= y
  BY <1>5 DEF Max
<1> QED BY <1>6

\* A sequence of n elements is known by its elements.
LEMMA SameSequence ==
    ASSUME NEW S, NEW n \in Nat, NEW s \in Seq(S), Len(s) = n, NEW t, DOMAIN t = 1 .. n,
           t = [i \in 1 .. n |-> t[i]], \A i \in 1 .. n : s[i] = t[i]
    PROVE  s = t
<1>1. s \in [1 .. n -> S]
  OBVIOUS
<1> QED BY <1>1

\* The operators on sequences, as Put ...
LEMMA PutFacts ==
    ASSUME NEW S, NEW n \in Nat, NEW s \in [1 .. n -> S], NEW x \in S
    PROVE  /\ Append(s, x) = Put(s, n, n + 1, x)
           /\ <<x>> \o s = Put(s, n, 1, x)
           /\ \A k \in 1 .. n + 1 : InsertAt(s, k, x) = Put(s, n, k, x)
<1>1. s \in Seq(S) /\ Len(s) = n
  OBVIOUS
<1>2. Append(s, x) = Put(s, n, n + 1, x)
  <2> DEFINE w == Append(s, x)
             t == Put(s, n, n + 1, x)
  <2>1. w \in Seq(S) /\ Len(w) = n + 1
    BY <1>1
  <2>2. \A i \in 1 .. n + 1 : w[i] = t[i]
    BY <1>1 DEF Put
  <2>3. DOMAIN t = 1 .. n + 1 /\ t = [i \in 1 .. n + 1 |-> t[i]]
    BY DEF Put
  <2>4. n + 1 \in Nat
    BY <1>1
  <2> HIDE DEF t, w
  <2>5. w = t
    BY <2>1, <2>2, <2>3, <2>4, SameSequence
  <2> QED BY <2>5 DEF w, t
<1>3. <<x>> \o s = Put(s, n, 1, x)
  BY <1>1 DEF Put
<1>4. ASSUME NEW k \in 1 .. n + 1 PROVE InsertAt(s, k, x) = Put(s, n, k, x)
  <2> DEFINE a == SubSeq(s, 1, k - 1)
             b == SubSeq(s, k, n)
  <2>1. a \in Seq(S) /\ Len(a) = k - 1 /\ \A i \in 1 .. k - 1 : a[i] = s[i]
    BY <1>1
  <2>2. b \in Seq(S) /\ Len(b) = n - k + 1 /\ \A i \in 1 .. n - k + 1 : b[i] = s[k + i - 1]
    BY <1>1
  <2> HIDE DEF a, b
  <2> DEFINE c == a \o <<x>>
             w == c \o b
             t == Put(s, n, k, x)
  <2>3. c \in Seq(S) /\ Len(c) = k /\ \A i \in 1 .. k : c[i] = IF i < k THEN s[i] ELSE x
    <3>1. <<x>> \in Seq(S) /\ Len(<<x>>) = 1 /\ <<x>>[1] = x
      OBVIOUS
    <3> QED BY <2>1, <3>1, ConcatProperties
  <2> HIDE DEF c
  <2>4. w \in Seq(S) /\ Len(w) = n + 1
        /\ \A i \in 1 .. n + 1 : w[i] = IF i <= k THEN c[i] ELSE b[i - k]
    <3>1. Len(c) + Len(b) = n + 1
      BY <2>2, <2>3
    <3>2. w \in Seq(S) /\ Len(w) = Len(c) + Len(b)
          /\ \A i \in 1 .. Len(c) + Len(b) :
                w[i] = IF i <= Len(c) THEN c[i] ELSE b[i - Len(c)]
      BY <2>2, <2>3, ConcatProperties
    <3> HIDE DEF w
    <3> QED BY <2>3, <3>1, <3>2
  <2>5. DOMAIN t = 1 .. n + 1 /\ t = [i \in 1 .. n + 1 |-> t[i]]
    BY DEF Put
  <2>6. ASSUME NEW i \in 1 .. n + 1 PROVE t[i] = IF i < k THEN s[i] ELSE IF i = k THEN x ELSE s[i - 1]
    BY DEF Put
  <2> HIDE DEF w, t
  <2>7. ASSUME NEW i \in 1 .. n + 1 PROVE w[i] = t[i]
    <3>1. CASE i <= k
      BY <2>3, <2>4, <2>6, <3>1
    <3>2. CASE i > k
      <4>1. i - k \in 1 .. n - k + 1 /\ k + (i - k) - 1 = i - 1
        BY <3>2
      <4>2. b[i - k] = s[i - 1]
        BY <2>2, <4>1
      <4>3. ~(i <= k) /\ ~(i < k) /\ i # k
        BY <3>2
      <4>4. w[i] = b[i - k]
        BY <2>4, <4>3
      <4>5. t[i] = s[i - 1]
        BY <2>6, <4>3
      <4> QED BY <4>2, <4>4, <4>5
    <3> QED BY <3>1, <3>2
  <2>8. w = t
    BY <2>4, <2>5, <2>7, SameSequence
  <2> QED BY <1>1, <2>8 DEF InsertAt, w, t, c, a, b
<1> QED BY <1>2, <1>3, <1>4

\* ... and as Without.
LEMMA WithoutFacts ==
    ASSUME NEW S, NEW n \in Nat, NEW s \in [1 .. n -> S]
    PROVE  /\ n > 0 => Tail(s) = Without(s, n, 1) /\ Front(s) = Without(s, n, n)
           /\ \A k \in 1 .. n : RemoveAt(s, k) = Without(s, n, k)
<1>1. s \in Seq(S) /\ Len(s) = n
  OBVIOUS
<1>2. ASSUME n > 0 PROVE Tail(s) = Without(s, n, 1)
  <2> DEFINE w == Tail(s)
             t == Without(s, n, 1)
  <2>1. w \in Seq(S) /\ Len(w) = n - 1
    BY <1>2, <1>1
  <2>2. \A i \in 1 .. n - 1 : w[i] = t[i]
    BY <1>2, <1>1 DEF Without
  <2>3. DOMAIN t = 1 .. n - 1 /\ t = [i \in 1 .. n - 1 |-> t[i]]
    BY DEF Without
  <2>4. n - 1 \in Nat
    BY <1>2, <1>1
  <2> HIDE DEF t, w
  <2>5. w = t
    BY <2>1, <2>2, <2>3, <2>4, SameSequence
  <2> QED BY <2>5 DEF w, t
<1>3. ASSUME n > 0 PROVE Front(s) = Without(s, n, n)
  BY <1>1, <1>3 DEF Without, Front
<1>4. ASSUME NEW k \in 1 .. n PROVE RemoveAt(s, k) = Without(s, n, k)
  <2> DEFINE a == SubSeq(s, 1, k - 1)
             b == SubSeq(s, k + 1, n)
             w == a \o b
             t == Without(s, n, k)
  <2>1. a \in Seq(S) /\ Len(a) = k - 1 /\ \A i \in 1 .. k - 1 : a[i] = s[i]
    BY <1>1
  <2>2. b \in Seq(S) /\ Len(b) = n - k /\ \A i \in 1 .. n - k : b[i] = s[k + i]
    BY <1>1
  <2> HIDE DEF a, b
  <2>3. w \in Seq(S) /\ Len(w) = n - 1
    <3>1. Len(w) = Len(a) + Len(b) /\ w \in Seq(S)
      BY <2>1, <2>2, ConcatProperties
    <3> HIDE DEF w
    <3> QED BY <2>1, <2>2, <3>1
  <2>4. \A i \in 1 .. n - 1 : w[i] = t[i]
    BY <2>1, <2>2 DEF Without
  <2>5. DOMAIN t = 1 .. n - 1 /\ t = [i \in 1 .. n - 1 |-> t[i]]
    BY DEF Without
  <2>6. n - 1 \in Nat
    OBVIOUS
  <2> HIDE DEF w, t
  <2>7. w = t
    BY <2>3, <2>4, <2>5, <2>6, SameSequence
  <2> QED BY <1>1, <2>7 DEF RemoveAt, w, t, a, b
<1> QED BY <1>2, <1>3, <1>4

-----------------------------------------------------------------------------
(* The ring                                                                *)

After(l, i) == IF i = l.size THEN 1 ELSE i + 1
Before(l, i) == IF i = 1 THEN l.size ELSE i - 1

\* The nodes of l are those of s, linked in its order and from the last to the
\* first.
Ring(l, s) ==
    /\ l = [cells |-> l.cells, first |-> l.first, size |-> l.size]
    /\ l.size \in Nat /\ s \in [1 .. l.size -> Nodes]
    /\ \A i, j \in 1 .. l.size : s[i] = s[j] => i = j
    /\ \A n : n \in DOMAIN l.cells <=> \E i \in 1 .. l.size : n = s[i]
    /\ l.cells \in [DOMAIN l.cells -> Cell]
    /\ l.first = IF l.size = 0 THEN None ELSE s[1]
    /\ \A i \in 1 .. l.size : /\ l.cells[s[i]].next = s[After(l, i)]
                              /\ l.cells[s[i]].prev = s[Before(l, i)]

\* The nodes from first on are those of the ring.
LEMMA RingNodes ==
    ASSUME NEW l, NEW s, Ring(l, s)
    PROVE  NodesOf(l) = s
<1> DEFINE n == l.size
           Step(x) == l.cells[x].next
           Defines(f) == f = [i \in 1 .. n |-> IF i = 1 THEN l.first ELSE l.cells[f[i - 1]].next]
           node == CHOOSE f : Defines(f)
<1>1. n \in Nat /\ s \in [1 .. n -> Nodes]
  BY DEF Ring
<1>2. \A i \in 1 .. n : s[i] = IF i = 1 THEN l.first ELSE l.cells[s[i - 1]].next
  <2> SUFFICES ASSUME NEW i \in 1 .. n
               PROVE  s[i] = IF i = 1 THEN l.first ELSE l.cells[s[i - 1]].next
    OBVIOUS
  <2>1. CASE i = 1
    BY <1>1, <2>1 DEF Ring
  <2>2. CASE i # 1
    <3>1. i - 1 \in 1 .. n /\ After(l, i - 1) = i
      BY <1>1, <2>2 DEF After
    <3> QED BY <2>2, <3>1 DEF Ring
  <2> QED BY <2>1, <2>2
<1>3. Defines(s)
  BY <1>1, <1>2
<1>4. node = [i \in 1 .. n |-> IF i = 1 THEN l.first ELSE l.cells[node[i - 1]].next]
  BY <1>3
<1>5. NodesOf(l) = node
  BY DEF NodesOf
<1> HIDE DEF node
<1>6. \A i \in 1 .. n : node[i] = IF i = 1 THEN l.first ELSE l.cells[node[i - 1]].next
  BY <1>4, Zenon
<1>7. \A i \in 1 .. n : node[i] = s[i]
  <2> DEFINE T == {m \in Nat : m \in 1 .. n => node[m] = s[m]}
  <2>1. 0 \in T
    OBVIOUS
  <2>2. ASSUME NEW m \in Nat, m \in T PROVE m + 1 \in T
    <3> SUFFICES ASSUME m + 1 \in 1 .. n PROVE node[m + 1] = s[m + 1]
      BY <2>2
    <3>1. CASE m = 0
      BY <1>2, <1>6, <3>1
    <3>2. CASE m # 0
      <4>1. m \in 1 .. n /\ m + 1 # 1 /\ (m + 1) - 1 = m
        BY <1>1, <3>2
      <4>2. node[m] = s[m]
        BY <2>2, <4>1
      <4> HIDE DEF n
      <4> QED BY <1>2, <1>6, <4>1, <4>2
    <3> QED BY <3>1, <3>2
  <2> HIDE DEF T
  <2>3. Nat \subseteq T
    BY <2>1, <2>2, SetInduction
  <2> QED BY <1>1, <2>3 DEF T
<1>8. DOMAIN node = 1 .. n
  BY <1>4, Zenon
<1>9. node = [i \in 1 .. n |-> node[i]]
  BY <1>4, Zenon
<1> HIDE DEF n
<1> QED BY <1>1, <1>5, <1>7, <1>9

\* The values, and where a node is.
LEMMA RingItems ==
    ASSUME NEW l, NEW s, Ring(l, s)
    PROVE  /\ Items(l) = [i \in 1 .. l.size |-> l.cells[s[i]].value]
           /\ Items(l) \in [1 .. l.size -> Values]
           /\ \A i \in 1 .. l.size : IndexOf(l, s[i]) = i
<1>1. NodesOf(l) = s
  BY RingNodes
<1>2. Items(l) = [i \in 1 .. l.size |-> l.cells[s[i]].value]
  BY <1>1 DEF Items
<1>3. \A i \in 1 .. l.size : l.cells[s[i]] \in Cell
  BY DEF Ring
<1>4. Items(l) \in [1 .. l.size -> Values]
  BY <1>2, <1>3 DEF Cell
<1>5. ASSUME NEW i \in 1 .. l.size PROVE IndexOf(l, s[i]) = i
  <2>1. \A j \in 1 .. l.size : s[j] = s[i] => j = i
    BY DEF Ring
  <2> QED BY <1>1, <2>1 DEF IndexOf
<1> QED BY <1>2, <1>4, <1>5

\* The allocated nodes are counted by size, which the bound limits.
LEMMA RingSize ==
    ASSUME NEW l, NEW s, Ring(l, s)
    PROVE  /\ Cardinality(DOMAIN l.cells) = l.size
           /\ DOMAIN l.cells \subseteq Nodes /\ l.size <= MaxLength
           /\ Range(s) = DOMAIN l.cells
<1>1. l.size \in Nat /\ s \in [1 .. l.size -> Nodes]
  BY DEF Ring
<1>2. DOMAIN l.cells \subseteq Nodes /\ Range(s) = DOMAIN l.cells
  BY <1>1 DEF Ring, Range
<1>3. s \in Bijection(1 .. l.size, DOMAIN l.cells)
  <2>1. s \in [1 .. l.size -> DOMAIN l.cells]
    BY <1>1 DEF Ring
  <2>2. s \in Injection(1 .. l.size, DOMAIN l.cells)
    BY <2>1 DEF Injection, IsInjective, Ring
  <2>3. s \in Surjection(1 .. l.size, DOMAIN l.cells)
    BY <2>1 DEF Surjection, Ring
  <2> QED BY <2>2, <2>3 DEF Bijection
<1>4. Cardinality(DOMAIN l.cells) = l.size
  BY <1>1, <1>3, FS_CountingElements DEF ExistsBijection
<1>5. IsFiniteSet(Nodes) /\ Cardinality(Nodes) = MaxLength
  BY ListAssumption, FS_Interval DEF Nodes
<1>6. Cardinality(DOMAIN l.cells) <= Cardinality(Nodes)
  BY <1>2, <1>5, FS_Subset
<1> QED BY <1>2, <1>4, <1>5, <1>6

\* There is a node to allocate while the list is below its bound.
LEMMA FreshNode ==
    ASSUME NEW l, NEW s, Ring(l, s), l.size < MaxLength
    PROVE  Fresh(l) \in Nodes \ DOMAIN l.cells
<1>1. Cardinality(Nodes) = MaxLength
  BY ListAssumption, FS_Interval DEF Nodes
<1>2. Nodes \ DOMAIN l.cells # {}
  <2> SUFFICES ASSUME Nodes \subseteq DOMAIN l.cells PROVE FALSE
    OBVIOUS
  <2>1. DOMAIN l.cells = Nodes
    BY RingSize
  <2>2. Cardinality(DOMAIN l.cells) = l.size
    BY RingSize
  <2>3. l.size \in Nat
    BY DEF Ring
  <2> QED BY <1>1, <2>1, <2>2, <2>3, ListAssumption
<1>3. Nodes \ DOMAIN l.cells \in SUBSET Nat
  BY DEF Nodes
<1> QED BY <1>2, <1>3, MinIsLeast DEF Fresh

-----------------------------------------------------------------------------
(* What the operations do to the ring                                      *)

\* The cells d, with n linked in behind p and before q.
IsLinked(c, d, n, v, p, q) ==
    /\ d \in [DOMAIN c \cup {n} -> Cell]
    /\ d[n].value = v /\ d[n].next = q /\ d[n].prev = p
    /\ \A x \in DOMAIN c : /\ d[x].value = c[x].value
                           /\ d[x].next = IF x = p THEN n ELSE c[x].next
                           /\ d[x].prev = IF x = q THEN n ELSE c[x].prev

\* LinkedBetween does that.
LEMMA LinkedFacts ==
    ASSUME NEW l, NEW n \in Nodes, NEW v \in Values, NEW p, NEW q,
           n \notin DOMAIN l.cells, p \in DOMAIN l.cells, q \in DOMAIN l.cells,
           l.cells \in [DOMAIN l.cells -> Cell], DOMAIN l.cells \subseteq Nodes
    PROVE  IsLinked(l.cells, LinkedBetween(l, n, v, p, q), n, v, p, q)
<1> DEFINE c == l.cells
           new == [value |-> v, next |-> q, prev |-> p]
           c1 == [m \in DOMAIN c \cup {n} |-> IF m = n THEN new ELSE c[m]]
           c2 == [c1 EXCEPT ![p].next = n]
           d == [c2 EXCEPT ![q].prev = n]
<1>1. new \in Cell /\ new.value = v /\ new.next = q /\ new.prev = p
  BY DEF Cell
<1>2. c1 \in [DOMAIN c \cup {n} -> Cell] /\ c1[n] = new /\ \A x \in DOMAIN c : c1[x] = c[x]
  BY <1>1
<1> HIDE DEF c1, new
<1>3. c2 \in [DOMAIN c \cup {n} -> Cell] /\ c2[n] = new
      /\ \A x \in DOMAIN c : /\ c2[x].value = c[x].value /\ c2[x].prev = c[x].prev
                             /\ c2[x].next = IF x = p THEN n ELSE c[x].next
  BY <1>2 DEF Cell
<1> HIDE DEF c2
<1>4. d \in [DOMAIN c \cup {n} -> Cell] /\ d[n] = new
      /\ \A x \in DOMAIN c : /\ d[x].value = c2[x].value /\ d[x].next = c2[x].next
                             /\ d[x].prev = IF x = q THEN n ELSE c2[x].prev
  BY <1>3 DEF Cell
<1>5. d = LinkedBetween(l, n, v, p, q)
  BY DEF LinkedBetween, c2, c1, new
<1> HIDE DEF d
<1> QED BY <1>1, <1>3, <1>4, <1>5 DEF IsLinked

\* The cells d, with n taken out.
IsUnlinked(c, d, n) ==
    /\ d \in [DOMAIN c \ {n} -> Cell]
    /\ \A x \in DOMAIN c \ {n} :
          /\ d[x].value = c[x].value
          /\ d[x].next = IF x = c[n].prev THEN c[n].next ELSE c[x].next
          /\ d[x].prev = IF x = c[n].next THEN c[n].prev ELSE c[x].prev

\* Unlinked does that.
LEMMA UnlinkedFacts ==
    ASSUME NEW l, NEW n, n \in DOMAIN l.cells,
           l.cells \in [DOMAIN l.cells -> Cell], DOMAIN l.cells \subseteq Nodes,
           l.cells[n].prev \in DOMAIN l.cells, l.cells[n].next \in DOMAIN l.cells
    PROVE  IsUnlinked(l.cells, Unlinked(l, n), n)
BY DEF IsUnlinked, Unlinked, Cell

\* The list with x, of value v, as its k-th node.
Grown(l, k, x, v, p, q) ==
    [cells |-> LinkedBetween(l, x, v, p, q),
     first |-> IF k = 1 THEN x ELSE l.first, size |-> l.size + 1]

\* Linked in behind the node before and before the node behind, it is a ring.
LEMMA GrownRing ==
    ASSUME NEW l, NEW s, Ring(l, s), l.size > 0,
           NEW k \in 1 .. l.size + 1, NEW x \in Nodes \ DOMAIN l.cells, NEW v \in Values
    PROVE  LET p == s[IF k = 1 THEN l.size ELSE k - 1]
               q == s[IF k = l.size + 1 THEN 1 ELSE k]
               m == Grown(l, k, x, v, p, q)
           IN  /\ Ring(m, Put(s, l.size, k, x))
               /\ Items(m) = Put(Items(l), l.size, k, v)
<1> DEFINE N == l.size
           c == l.cells
           p == s[IF k = 1 THEN N ELSE k - 1]
           q == s[IF k = N + 1 THEN 1 ELSE k]
           d == LinkedBetween(l, x, v, p, q)
           m == Grown(l, k, x, v, p, q)
           t == Put(s, N, k, x)
<1>1. N \in Nat \ {0} /\ s \in [1 .. N -> Nodes] /\ c \in [DOMAIN c -> Cell] /\ k \in 1 .. N + 1
  BY DEF Ring
<1>2. \A i \in 1 .. N : s[i] \in DOMAIN c
  BY DEF Ring
<1>3. DOMAIN c \subseteq Nodes
  BY <1>1 DEF Ring
<1>4. p \in DOMAIN c /\ q \in DOMAIN c
  BY <1>1, <1>2
<1>5. /\ d \in [DOMAIN c \cup {x} -> Cell]
      /\ d[x].value = v /\ d[x].next = q /\ d[x].prev = p
      /\ \A y \in DOMAIN c : /\ d[y].value = c[y].value
                             /\ d[y].next = IF y = p THEN x ELSE c[y].next
                             /\ d[y].prev = IF y = q THEN x ELSE c[y].prev
  <2>1. x \in Nodes /\ x \notin DOMAIN l.cells
    OBVIOUS
  <2> HIDE DEF p, q
  <2>2. IsLinked(l.cells, LinkedBetween(l, x, v, p, q), x, v, p, q)
    BY <1>1, <1>3, <1>4, <2>1, LinkedFacts
  <2> QED BY <2>2 DEF IsLinked
<1>6. m = [cells |-> d, first |-> IF k = 1 THEN x ELSE l.first, size |-> N + 1]
  BY DEF Grown
<1>7. m.cells = d /\ m.size = N + 1 /\ m.first = (IF k = 1 THEN x ELSE l.first)
      /\ m = [cells |-> m.cells, first |-> m.first, size |-> m.size]
  BY <1>6
<1>8. /\ t[k] = x /\ t \in [1 .. N + 1 -> Nodes]
      /\ \A i \in 1 .. N : IF i < k THEN t[i] = s[i] ELSE t[i + 1] = s[i]
      /\ \A i \in 1 .. N + 1 : \/ i = k
                               \/ i < k /\ i \in 1 .. N /\ t[i] = s[i]
                               \/ i > k /\ i - 1 \in 1 .. N /\ t[i] = s[i - 1]
  BY <1>1 DEF Put
<1>9. \A i, j \in 1 .. N : s[i] = s[j] => i = j
  BY DEF Ring
<1>10. /\ \A i \in 1 .. N : s[i] = p <=> i = IF k = 1 THEN N ELSE k - 1
       /\ \A i \in 1 .. N : s[i] = q <=> i = IF k = N + 1 THEN 1 ELSE k
  BY <1>1, <1>9
<1>11. \A i \in 1 .. N : /\ c[s[i]].next = s[IF i = N THEN 1 ELSE i + 1]
                         /\ c[s[i]].prev = s[IF i = 1 THEN N ELSE i - 1]
  BY DEF Ring, After, Before
<1>12. \A i \in 1 .. N : s[i] # x
  BY <1>2
<1>13. \A i, j \in 1 .. N + 1 : t[i] = t[j] => i = j
  <2> HIDE DEF t, N
  <2> SUFFICES ASSUME NEW i \in 1 .. N + 1, NEW j \in 1 .. N + 1, t[i] = t[j]
               PROVE  i = j
    OBVIOUS
  <2>1. CASE i = k \/ j = k
    BY <1>8, <1>12, <2>1
  <2>2. CASE i # k /\ j # k
    <3>1. PICK a \in 1 .. N : t[i] = s[a] /\ ((i < k /\ a = i) \/ (i > k /\ a = i - 1))
      BY <1>8, <2>2
    <3>2. PICK b \in 1 .. N : t[j] = s[b] /\ ((j < k /\ b = j) \/ (j > k /\ b = j - 1))
      BY <1>8, <2>2
    <3>3. a = b
      BY <1>9, <3>1, <3>2
    <3> QED BY <1>1, <3>1, <3>2, <3>3
  <2> QED BY <2>1, <2>2
<1>14. \A n : n \in DOMAIN d <=> \E i \in 1 .. N + 1 : n = t[i]
  <2> HIDE DEF t, N, c, d
  <2>1. ASSUME NEW n \in DOMAIN d PROVE \E i \in 1 .. N + 1 : n = t[i]
    <3>1. CASE n = x
      BY <1>1, <1>8, <3>1
    <3>2. CASE n \in DOMAIN c
      <4>1. PICK i \in 1 .. N : n = s[i]
        BY <3>2 DEF Ring, c, N
      <4>2. i \in 1 .. N + 1 /\ i + 1 \in 1 .. N + 1
        BY <1>1
      <4> QED BY <1>8, <4>1, <4>2
    <3> QED BY <1>5, <2>1, <3>1, <3>2
  <2>2. ASSUME NEW i \in 1 .. N + 1 PROVE t[i] \in DOMAIN d
    BY <1>2, <1>5, <1>8
  <2> QED BY <2>1, <2>2
<1>15. m.first = t[1]
  <2>1. l.first = s[1]
    BY <1>1 DEF Ring
  <2> HIDE DEF m, t, N
  <2> QED BY <1>1, <1>7, <1>8, <2>1
<1>16. ASSUME NEW i \in 1 .. N + 1
       PROVE  /\ d[t[i]].next = t[IF i = N + 1 THEN 1 ELSE i + 1]
              /\ d[t[i]].prev = t[IF i = 1 THEN N + 1 ELSE i - 1]
  <2> HIDE DEF t, d, c, p, q, N
  <2>0. /\ \A j \in 1 .. N : d[s[j]].next = IF s[j] = p THEN x ELSE c[s[j]].next
        /\ \A j \in 1 .. N : d[s[j]].prev = IF s[j] = q THEN x ELSE c[s[j]].prev
    BY <1>2, <1>5
  <2>1. CASE i = k
    BY <1>1, <1>5, <1>8, <2>1 DEF p, q
  <2>2. CASE i < k
    <3>1. i \in 1 .. N /\ t[i] = s[i]
      BY <1>8, <2>2
    <3>2. d[s[i]].next = IF i = k - 1 THEN x ELSE s[IF i = N THEN 1 ELSE i + 1]
      BY <1>1, <1>10, <1>11, <2>0, <2>2, <3>1
    <3>3. d[s[i]].prev = IF i = (IF k = N + 1 THEN 1 ELSE k) THEN x ELSE s[IF i = 1 THEN N ELSE i - 1]
      BY <1>1, <1>10, <1>11, <2>0, <2>2, <3>1
    <3>4. i # k - 1 => i # N /\ i + 1 \in 1 .. N /\ i + 1 < k
      BY <1>1, <2>2, <3>1
    <3>5. d[t[i]].next = t[IF i = N + 1 THEN 1 ELSE i + 1]
      BY <1>1, <1>8, <2>2, <3>1, <3>2, <3>4
    <3>6. CASE i = 1
      BY <1>1, <1>8, <2>2, <3>1, <3>3, <3>5, <3>6
    <3>7. CASE i # 1
      <4>1. i - 1 \in 1 .. N /\ i - 1 < k
        BY <1>1, <2>2, <3>1, <3>7
      <4> QED BY <1>1, <1>8, <2>2, <3>1, <3>3, <3>5, <3>7, <4>1
    <3> QED BY <3>6, <3>7
  <2>3. CASE i > k
    <3> DEFINE j == i - 1
    <3>1. j \in 1 .. N /\ t[i] = s[j] /\ j >= k /\ i = j + 1
      BY <1>1, <1>8, <2>3
    <3> HIDE DEF j
    <3>2. d[s[j]].next = IF k = 1 /\ j = N THEN x ELSE s[IF j = N THEN 1 ELSE j + 1]
      BY <1>1, <1>10, <1>11, <2>0, <3>1
    <3>3. d[s[j]].prev = IF j = k THEN x ELSE s[IF j = 1 THEN N ELSE j - 1]
      BY <1>1, <1>10, <1>11, <2>0, <3>1
    <3>4. CASE j = N
      BY <1>1, <1>8, <3>1, <3>2, <3>3, <3>4
    <3>5. CASE j # N
      <4>1. j + 1 \in 1 .. N
        BY <1>1, <3>1, <3>5
      <4>2. d[t[i]].next = t[i + 1]
        BY <1>1, <1>8, <3>1, <3>2, <3>5, <4>1
      <4> QED BY <1>1, <1>8, <3>1, <3>3, <3>5, <4>2
    <3> QED BY <3>4, <3>5
  <2> QED BY <2>1, <2>2, <2>3
<1>17. Ring(m, t)
  <2>1. \A i \in 1 .. m.size : After(m, i) = (IF i = N + 1 THEN 1 ELSE i + 1)
                               /\ Before(m, i) = (IF i = 1 THEN N + 1 ELSE i - 1)
    BY <1>7 DEF After, Before
  <2>2. m.size \in Nat /\ m.size # 0
    BY <1>1, <1>7
  <2>3. DOMAIN d = DOMAIN c \cup {x}
    BY <1>5
  <2> HIDE DEF m, t, d, c, p, q, N
  <2> QED BY <1>5, <1>7, <1>8, <1>13, <1>14, <1>15, <1>16, <2>1, <2>2, <2>3 DEF Ring
<1>18. Items(m) = Put(Items(l), N, k, v)
  <2>1. Items(m) = [i \in 1 .. N + 1 |-> d[t[i]].value]
    <3>1. Items(m) = [i \in 1 .. m.size |-> m.cells[t[i]].value]
      <4> HIDE DEF m, t
      <4> QED BY <1>17, RingItems
    <3> HIDE DEF m, t, d, N
    <3> QED BY <1>7, <3>1
  <2>2. Items(l) = [i \in 1 .. N |-> c[s[i]].value]
    BY RingItems
  <2> HIDE DEF m, t, d, c, p, q, N
  <2>3. ASSUME NEW i \in 1 .. N + 1
        PROVE  d[t[i]].value = IF i < k THEN Items(l)[i] ELSE IF i = k THEN v ELSE Items(l)[i - 1]
    BY <1>1, <1>2, <1>5, <1>8, <2>2
  <2> QED BY <2>1, <2>3 DEF Put
<1> QED BY <1>17, <1>18

\* Deleting the k-th node leaves a ring without it.
LEMMA DeletedRing ==
    ASSUME NEW l, NEW s, Ring(l, s), NEW k \in 1 .. l.size
    PROVE  LET m == Deleted(l, s[k])
           IN  /\ Ring(m, Without(s, l.size, k))
               /\ Items(m) = Without(Items(l), l.size, k)
               /\ m.size = l.size - 1
<1> DEFINE N == l.size
           c == l.cells
           n == s[k]
           d == Unlinked(l, n)
           m == Deleted(l, n)
           t == Without(s, N, k)
<1>1. N \in Nat \ {0} /\ k \in 1 .. N /\ s \in [1 .. N -> Nodes] /\ c \in [DOMAIN c -> Cell]
  BY DEF Ring
<1>2. \A i \in 1 .. N : s[i] \in DOMAIN c
  BY DEF Ring
<1>3. DOMAIN c \subseteq Nodes
  BY <1>1 DEF Ring
<1>4. \A i, j \in 1 .. N : s[i] = s[j] => i = j
  BY DEF Ring
<1>5. \A i \in 1 .. N : /\ c[s[i]].next = s[IF i = N THEN 1 ELSE i + 1]
                        /\ c[s[i]].prev = s[IF i = 1 THEN N ELSE i - 1]
  BY DEF Ring, After, Before
<1>6. t \in [1 .. N - 1 -> Nodes]
      /\ \A i \in 1 .. N - 1 : IF i < k THEN t[i] = s[i] ELSE t[i] = s[i + 1]
  BY <1>1 DEF Without
<1>7. CASE N = 1
  <2>1. l.first = n
    BY <1>1, <1>7 DEF Ring
  <2>2. m = EmptyList
    BY <1>7, <2>1 DEF Deleted
  <2>3. Ring(EmptyList, t)
    <3>1. DOMAIN EmptyList.cells = {} /\ EmptyList.cells \in [{} -> Cell]
      BY DEF EmptyList
    <3>2. EmptyList.size = 0 /\ EmptyList.first = None
          /\ EmptyList = [cells |-> EmptyList.cells, first |-> EmptyList.first, size |-> EmptyList.size]
      BY DEF EmptyList
    <3>3. t \in [1 .. 0 -> Nodes]
      BY <1>6, <1>7
    <3> HIDE DEF t
    <3> QED BY <3>1, <3>2, <3>3 DEF Ring
  <2>4. Items(EmptyList) = Without(Items(l), N, k)
    <3>1. Items(EmptyList) = [i \in 1 .. 0 |-> EmptyList.cells[t[i]].value]
      <4> HIDE DEF t
      <4>1. EmptyList.size = 0
        BY DEF EmptyList
      <4> QED BY <2>3, <4>1, RingItems
    <3>2. DOMAIN Without(Items(l), N, k) = 1 .. 0
          /\ Without(Items(l), N, k) = [i \in 1 .. 0 |-> Without(Items(l), N, k)[i]]
      BY <1>7 DEF Without
    <3> HIDE DEF t
    <3> QED BY <3>1, <3>2
  <2> QED BY <1>7, <2>2, <2>3, <2>4 DEF EmptyList
<1>8. CASE N # 1
  <2> DEFINE p == s[IF k = 1 THEN N ELSE k - 1]
             q == s[IF k = N THEN 1 ELSE k + 1]
  <2>1. c[n].prev = p /\ c[n].next = q /\ p \in DOMAIN c /\ q \in DOMAIN c /\ n \in DOMAIN c
    BY <1>1, <1>2, <1>5
  <2>2. /\ d \in [DOMAIN c \ {n} -> Cell]
        /\ \A x \in DOMAIN c \ {n} : /\ d[x].value = c[x].value
                                     /\ d[x].next = IF x = p THEN q ELSE c[x].next
                                     /\ d[x].prev = IF x = q THEN p ELSE c[x].prev
    <3> HIDE DEF p, q, n
    <3>1. IsUnlinked(l.cells, Unlinked(l, n), n)
      BY <1>1, <1>3, <2>1, UnlinkedFacts
    <3> QED BY <2>1, <3>1 DEF IsUnlinked
  <2>3. m = [cells |-> d, size |-> N - 1, first |-> IF n = l.first THEN q ELSE l.first]
    BY <1>8, <2>1 DEF Deleted
  <2>4. m.cells = d /\ m.size = N - 1 /\ m.first = (IF n = l.first THEN q ELSE l.first)
        /\ m = [cells |-> m.cells, first |-> m.first, size |-> m.size]
    BY <2>3
  <2>5. m.first = t[1] /\ m.size # 0
    <3>1. l.first = s[1] /\ (s[k] = s[1] <=> k = 1)
      BY <1>1, <1>4 DEF Ring
    <3>2. k = 1 => q = s[2]
      BY <1>1, <1>8
    <3> HIDE DEF m, t, q
    <3> QED BY <1>1, <1>6, <1>8, <2>4, <3>1, <3>2
  <2>6. \A i, j \in 1 .. N - 1 : t[i] = t[j] => i = j
    <3> HIDE DEF t, N
    <3> SUFFICES ASSUME NEW i \in 1 .. N - 1, NEW j \in 1 .. N - 1, t[i] = t[j]
                 PROVE  i = j
      OBVIOUS
    <3>1. i \in 1 .. N /\ i + 1 \in 1 .. N /\ j \in 1 .. N /\ j + 1 \in 1 .. N
      BY <1>1
    <3> QED BY <1>1, <1>4, <1>6, <3>1
  <2>7. \A x : x \in DOMAIN d <=> \E i \in 1 .. N - 1 : x = t[i]
    <3> HIDE DEF t, d, c, N
    <3>1. ASSUME NEW x \in DOMAIN d PROVE \E i \in 1 .. N - 1 : x = t[i]
      <4>1. PICK j \in 1 .. N : x = s[j]
        BY <2>2 DEF Ring, c, N
      <4>2. j # k
        BY <2>2, <4>1
      <4>3. CASE j < k
        BY <1>1, <1>6, <4>1, <4>3
      <4>4. CASE j > k
        <5>1. j - 1 \in 1 .. N - 1 /\ (j - 1) + 1 = j /\ ~(j - 1 < k)
          BY <1>1, <4>4
        <5> QED BY <1>6, <4>1, <5>1
      <4> QED BY <1>1, <4>2, <4>3, <4>4
    <3>2. ASSUME NEW i \in 1 .. N - 1 PROVE t[i] \in DOMAIN d
      <4>1. PICK j \in 1 .. N : t[i] = s[j] /\ j # k
        <5>1. i \in 1 .. N /\ i + 1 \in 1 .. N
          BY <1>1
        <5> QED BY <1>1, <1>6, <5>1
      <4>2. s[j] # s[k]
        BY <1>1, <1>4, <4>1
      <4> QED BY <1>2, <2>2, <4>1, <4>2
    <3> QED BY <3>1, <3>2
  <2>8. ASSUME NEW i \in 1 .. N - 1
        PROVE  /\ d[t[i]].next = t[IF i = N - 1 THEN 1 ELSE i + 1]
               /\ d[t[i]].prev = t[IF i = 1 THEN N - 1 ELSE i - 1]
               /\ d[t[i]].value = c[t[i]].value
    <3> HIDE DEF t, d, c, N, p, q
    <3> DEFINE j == IF i < k THEN i ELSE i + 1
    <3>1. j \in 1 .. N /\ j # k /\ t[i] = s[j]
      BY <1>1, <1>6
    <3>2. s[j] # s[k] /\ s[j] \in DOMAIN c
      BY <1>1, <1>2, <1>4, <3>1
    <3>3. /\ s[j] = p <=> j = IF k = 1 THEN N ELSE k - 1
          /\ s[j] = q <=> j = IF k = N THEN 1 ELSE k + 1
      <4>1. (IF k = 1 THEN N ELSE k - 1) \in 1 .. N /\ (IF k = N THEN 1 ELSE k + 1) \in 1 .. N
        BY <1>1
      <4> HIDE DEF j
      <4> QED BY <1>4, <3>1, <4>1 DEF p, q
    <3>4. d[s[j]].next = IF j = (IF k = 1 THEN N ELSE k - 1) THEN q ELSE s[IF j = N THEN 1 ELSE j + 1]
      <4> HIDE DEF j
      <4> QED BY <1>5, <2>2, <3>1, <3>2, <3>3
    <3>5. d[s[j]].prev = IF j = (IF k = N THEN 1 ELSE k + 1) THEN p ELSE s[IF j = 1 THEN N ELSE j - 1]
      <4> HIDE DEF j
      <4> QED BY <1>5, <2>2, <3>1, <3>2, <3>3
    <3>6. d[t[i]].next = t[IF i = N - 1 THEN 1 ELSE i + 1]
      <4>1. CASE i = N - 1
        BY <1>1, <1>6, <1>8, <3>1, <3>4, <4>1 DEF q
      <4>2. CASE i # N - 1
        <5>1. i + 1 \in 1 .. N - 1
          BY <1>1, <4>2
        <5>2. t[i + 1] = IF i + 1 < k THEN s[i + 1] ELSE s[i + 2]
          BY <1>1, <1>6, <5>1
        <5> QED BY <1>1, <3>1, <3>4, <4>2, <5>2 DEF q
      <4> QED BY <4>1, <4>2
    <3>7. d[t[i]].prev = t[IF i = 1 THEN N - 1 ELSE i - 1]
      <4>1. CASE i = 1
        <5>1. t[N - 1] = IF N - 1 < k THEN s[N - 1] ELSE s[N]
          BY <1>1, <1>6, <1>8
        <5> QED BY <1>1, <1>8, <3>1, <3>5, <4>1, <5>1 DEF p
      <4>2. CASE i # 1
        <5>1. i - 1 \in 1 .. N - 1
          BY <1>1, <4>2
        <5>2. t[i - 1] = IF i - 1 < k THEN s[i - 1] ELSE s[i]
          BY <1>1, <1>6, <5>1
        <5> QED BY <1>1, <3>1, <3>5, <4>2, <5>2 DEF p
      <4> QED BY <4>1, <4>2
    <3> HIDE DEF j
    <3> QED BY <2>2, <3>1, <3>2, <3>6, <3>7
  <2>9. Ring(m, t)
    <3>1. \A i \in 1 .. m.size : After(m, i) = (IF i = N - 1 THEN 1 ELSE i + 1)
                                 /\ Before(m, i) = (IF i = 1 THEN N - 1 ELSE i - 1)
      BY <2>4 DEF After, Before
    <3>2. m.size \in Nat
      BY <1>1, <2>4
    <3>3. DOMAIN d = DOMAIN c \ {n}
      BY <2>2
    <3> HIDE DEF m, t, d, c, p, q, N
    <3>4. \A i \in 1 .. m.size : /\ m.cells[t[i]].next = t[After(m, i)]
                                 /\ m.cells[t[i]].prev = t[Before(m, i)]
      BY <2>4, <2>8, <3>1
    <3>5. m.cells \in [DOMAIN m.cells -> Cell] /\ t \in [1 .. m.size -> Nodes]
      BY <1>6, <2>2, <2>4, <3>3
    <3>6. /\ \A i, j \in 1 .. m.size : t[i] = t[j] => i = j
          /\ \A x : x \in DOMAIN m.cells <=> \E i \in 1 .. m.size : x = t[i]
      BY <2>4, <2>6, <2>7
    <3> QED BY <2>4, <2>5, <3>2, <3>4, <3>5, <3>6 DEF Ring
  <2>10. Items(m) = Without(Items(l), N, k)
    <3>1. Items(m) = [i \in 1 .. N - 1 |-> d[t[i]].value]
      <4>1. Items(m) = [i \in 1 .. m.size |-> m.cells[t[i]].value]
        <5> HIDE DEF m, t
        <5> QED BY <2>9, RingItems
      <4> HIDE DEF m, t, d, N
      <4> QED BY <2>4, <4>1
    <3>2. Items(l) = [i \in 1 .. N |-> c[s[i]].value]
      BY RingItems
    <3> HIDE DEF m, t, d, c, p, q, N
    <3>3. ASSUME NEW i \in 1 .. N - 1
          PROVE  d[t[i]].value = IF i < k THEN Items(l)[i] ELSE Items(l)[i + 1]
      <4>1. i \in 1 .. N /\ i + 1 \in 1 .. N
        BY <1>1
      <4> QED BY <1>6, <2>8, <3>2, <4>1
    <3> QED BY <3>1, <3>3 DEF Without
  <2>11. m.size = N - 1
    BY <2>4
  <2> QED BY <2>9, <2>10, <2>11, Zenon
<1> QED BY <1>7, <1>8

-----------------------------------------------------------------------------
(* The member functions                                                    *)

IsRing(l) == \E s : Ring(l, s)

\* m is l with v as its k-th value.
Grew(l, m, k, v) ==
    /\ k \in 1 .. l.size + 1 /\ IsRing(m)
    /\ Items(m) = Put(Items(l), l.size, k, v)

\* The first node is linked to itself.
LEMMA FirstPushed ==
    ASSUME NEW l, IsRing(l), l.size = 0, l.size < MaxLength, NEW v \in Values
    PROVE  LET m == PushedBack(l, v) IN Grew(l, m, 1, v) /\ m.cells[m.first].prev = m.first
                                        /\ m = [m EXCEPT !.first = m.first]
<1> DEFINE n == Fresh(l)
           m == PushedBack(l, v)
           cell == [value |-> v, next |-> n, prev |-> n]
           t == [i \in 1 .. 1 |-> n]
<1>1. n \in Nodes
  BY FreshNode DEF IsRing
<1>2. m = [cells |-> [x \in {n} |-> cell], first |-> n, size |-> 1]
  BY DEF PushedBack
<1>3. cell \in Cell /\ cell.next = n /\ cell.prev = n /\ cell.value = v
  BY <1>1 DEF Cell
<1>4. t \in [1 .. 1 -> Nodes] /\ t[1] = n
  BY <1>1
<1> HIDE DEF cell, n, t
<1>5. /\ m.size = 1 /\ m.first = n /\ m.cells \in [{n} -> Cell] /\ m.cells[n] = cell
      /\ m = [cells |-> m.cells, first |-> m.first, size |-> m.size]
      /\ m = [m EXCEPT !.first = m.first]
  BY <1>2, <1>3
<1> HIDE DEF m
<1>6. Ring(m, t)
  <2>1. DOMAIN m.cells = {n} /\ \A i \in 1 .. 1 : i = 1
    BY <1>5
  <2>2. \A x : x \in DOMAIN m.cells <=> \E i \in 1 .. 1 : x = t[i]
    BY <1>4, <2>1
  <2>3. After(m, 1) = 1 /\ Before(m, 1) = 1
    BY <1>5 DEF After, Before
  <2>4. \A i \in 1 .. m.size : /\ m.cells[t[i]].next = t[After(m, i)]
                               /\ m.cells[t[i]].prev = t[Before(m, i)]
    BY <1>3, <1>4, <1>5, <2>1, <2>3
  <2>5. \A i, j \in 1 .. m.size : t[i] = t[j] => i = j
    BY <1>5, <2>1
  <2>6. m.size \in Nat /\ m.size # 0 /\ m.first = t[1] /\ t \in [1 .. m.size -> Nodes]
    BY <1>4, <1>5
  <2>7. m.cells \in [DOMAIN m.cells -> Cell]
        /\ \A x : x \in DOMAIN m.cells <=> \E i \in 1 .. m.size : x = t[i]
    BY <1>5, <2>1, <2>2
  <2>8. m = [cells |-> m.cells, first |-> m.first, size |-> m.size]
    BY <1>5
  <2> QED BY <2>4, <2>5, <2>6, <2>7, <2>8 DEF Ring
<1>7. Items(m) = Put(Items(l), 0, 1, v)
  <2>1. Items(m) = [i \in 1 .. 1 |-> m.cells[t[i]].value]
    <3>1. Items(m) = [i \in 1 .. m.size |-> m.cells[t[i]].value]
      BY <1>6, RingItems
    <3>2. m.size = 1
      BY <1>5
    <3> QED BY <3>1, <3>2
  <2> QED BY <1>3, <1>4, <1>5, <2>1 DEF Put
<1>8. Grew(l, m, 1, v)
  BY <1>6, <1>7 DEF Grew, IsRing
<1>9. m.cells[m.first].prev = m.first
  BY <1>3, <1>5
<1> QED BY <1>5, <1>8, <1>9 DEF m

\* Where the first and the last node are.
LEMMA RingEnds ==
    ASSUME NEW l, NEW s, Ring(l, s), l.size > 0
    PROVE  /\ l.first = s[1] /\ l.cells[l.first].prev = s[l.size]
           /\ 1 \in 1 .. l.size /\ l.size \in 1 .. l.size
<1>1. l.first = s[1] /\ l.size \in Nat /\ 1 \in 1 .. l.size /\ l.size \in 1 .. l.size
  BY DEF Ring
<1>2. Before(l, 1) = l.size
  BY DEF Before
<1> QED BY <1>1, <1>2 DEF Ring

\* push_back puts the value behind all others.
LEMMA PushBackGrows ==
    ASSUME NEW l, IsRing(l), l.size < MaxLength, NEW v \in Values
    PROVE  Grew(l, PushedBack(l, v), l.size + 1, v)
<1>1. PICK s : Ring(l, s)
  BY DEF IsRing
<1>2. l.size \in Nat
  BY <1>1 DEF Ring
<1>3. CASE l.size = 0
  BY <1>3, FirstPushed
<1>4. CASE l.size # 0
  <2> DEFINE k == l.size + 1
             x == Fresh(l)
             m == Grown(l, k, x, v, s[IF k = 1 THEN l.size ELSE k - 1],
                        s[IF k = l.size + 1 THEN 1 ELSE k])
  <2>1. x \in Nodes \ DOMAIN l.cells /\ k \in 1 .. l.size + 1 /\ k # 1 /\ l.size > 0
    BY <1>1, <1>2, <1>4, FreshNode
  <2>2. Ring(m, Put(s, l.size, k, x)) /\ Items(m) = Put(Items(l), l.size, k, v)
    <3> HIDE DEF x, k
    <3> QED BY <1>1, <2>1, GrownRing
  <2>3. PushedBack(l, v) = Grown(l, k, x, v, s[l.size], s[1])
    BY <1>1, <1>2, <1>4, <2>1, RingEnds DEF PushedBack, Grown
  <2>4. m = Grown(l, k, x, v, s[l.size], s[1])
    BY <1>2, <1>4
  <2> HIDE DEF m, x
  <2> QED BY <2>1, <2>2, <2>3, <2>4 DEF Grew, IsRing
<1> QED BY <1>3, <1>4

\* push_front before all others: behind the last, and first is moved there.
LEMMA PushFrontGrows ==
    ASSUME NEW l, IsRing(l), l.size < MaxLength, NEW v \in Values
    PROVE  Grew(l, PushedFront(l, v), 1, v)
<1>1. PICK s : Ring(l, s)
  BY DEF IsRing
<1>2. l.size \in Nat
  BY <1>1 DEF Ring
<1> DEFINE b == PushedBack(l, v)
<1>3. CASE l.size = 0
  <2>1. Grew(l, b, 1, v) /\ b.cells[b.first].prev = b.first /\ b = [b EXCEPT !.first = b.first]
    BY <1>3, FirstPushed
  <2>2. PushedFront(l, v) = [b EXCEPT !.first = b.cells[b.first].prev]
    BY DEF PushedFront
  <2> HIDE DEF b
  <2> QED BY <2>1, <2>2
<1>4. CASE l.size # 0
  <2> DEFINE k == 1
             x == Fresh(l)
             d == LinkedBetween(l, x, v, s[l.size], s[1])
             m == Grown(l, k, x, v, s[IF k = 1 THEN l.size ELSE k - 1],
                        s[IF k = l.size + 1 THEN 1 ELSE k])
  <2>1. x \in Nodes \ DOMAIN l.cells /\ k \in 1 .. l.size + 1 /\ l.size > 0
    BY <1>1, <1>2, <1>4, FreshNode
  <2>2. Ring(m, Put(s, l.size, k, x)) /\ Items(m) = Put(Items(l), l.size, k, v)
    <3> HIDE DEF x, k
    <3> QED BY <1>1, <2>1, GrownRing
  <2>3. b = [cells |-> d, first |-> s[1], size |-> l.size + 1]
    BY <1>1, <1>2, <1>4, <2>1, RingEnds DEF PushedBack
  <2>4. d[s[1]].prev = x
    <3>1. s[1] \in DOMAIN l.cells /\ s[l.size] \in DOMAIN l.cells
      BY <1>1, <2>1, RingEnds DEF Ring
    <3>2. l.cells \in [DOMAIN l.cells -> Cell] /\ DOMAIN l.cells \subseteq Nodes
      BY <1>1, RingSize DEF Ring
    <3>3. IsLinked(l.cells, d, x, v, s[l.size], s[1])
      BY <2>1, <3>1, <3>2, LinkedFacts
    <3> QED BY <3>1, <3>3 DEF IsLinked
  <2>5. PushedFront(l, v) = [cells |-> d, first |-> x, size |-> l.size + 1]
    <3>1. PushedFront(l, v) = [b EXCEPT !.first = b.cells[b.first].prev]
      BY DEF PushedFront
    <3> HIDE DEF b, d, x
    <3> QED BY <2>3, <2>4, <3>1
  <2>6. m = [cells |-> d, first |-> x, size |-> l.size + 1]
    BY <1>2, <1>4 DEF Grown
  <2>7. Grew(l, m, 1, v)
    BY <2>1, <2>2 DEF Grew, IsRing
  <2> HIDE DEF m, d
  <2> QED BY <2>5, <2>6, <2>7
<1> QED BY <1>3, <1>4

\* The iterators: end(), or a node of the ring.
IteratorsOf(l) == DOMAIN l.cells \cup {None}

\* insert(iterator) puts the value before what stands there, or last.
LEMMA InsertBeforeGrows ==
    ASSUME NEW l, IsRing(l), l.size < MaxLength, NEW v \in Values, NEW pos \in IteratorsOf(l)
    PROVE  Grew(l, InsertedBefore(l, pos, v),
                IF pos = None THEN l.size + 1 ELSE IndexOf(l, pos), v)
<1>1. PICK s : Ring(l, s)
  BY DEF IsRing
<1>2. l.size \in Nat
  BY <1>1 DEF Ring
<1>3. CASE pos = None
  BY <1>3, PushBackGrows DEF InsertedBefore
<1>4. CASE pos # None
  <2>1. PICK k \in 1 .. l.size : pos = s[k]
    BY <1>1, <1>4 DEF IteratorsOf, Ring
  <2>2. IndexOf(l, pos) = k
    BY <1>1, <2>1, RingItems
  <2>3. l.first = s[1] /\ (pos = l.first <=> k = 1) /\ l.size > 0
    BY <1>1, <1>2, <2>1 DEF Ring
  <2>4. CASE k = 1
    <3>1. InsertedBefore(l, pos, v) = PushedFront(l, v)
      BY <1>4, <2>3, <2>4 DEF InsertedBefore
    <3> QED BY <1>4, <2>2, <2>4, <3>1, PushFrontGrows
  <2>5. CASE k # 1
    <3> DEFINE x == Fresh(l)
               m == Grown(l, k, x, v, s[IF k = 1 THEN l.size ELSE k - 1],
                          s[IF k = l.size + 1 THEN 1 ELSE k])
    <3>1. x \in Nodes \ DOMAIN l.cells /\ k \in 1 .. l.size + 1
      BY <1>1, <1>2, <2>1, FreshNode
    <3>2. Ring(m, Put(s, l.size, k, x)) /\ Items(m) = Put(Items(l), l.size, k, v)
      <4> HIDE DEF x
      <4> QED BY <1>1, <2>3, <3>1, GrownRing
    <3>3. l.cells[pos].prev = s[k - 1]
      <4>1. Before(l, k) = k - 1
        BY <2>5 DEF Before
      <4> QED BY <1>1, <2>1, <4>1 DEF Ring
    <3>4. InsertedBefore(l, pos, v) = [cells |-> LinkedBetween(l, x, v, s[k - 1], pos),
                                       first |-> l.first, size |-> l.size + 1]
      BY <1>4, <2>3, <2>5, <3>3 DEF InsertedBefore
    <3>7. m = [cells |-> LinkedBetween(l, x, v, s[k - 1], pos), first |-> l.first, size |-> l.size + 1]
      BY <1>2, <2>1, <2>5 DEF Grown
    <3>8. Grew(l, m, k, v)
      BY <3>1, <3>2 DEF Grew, IsRing
    <3> HIDE DEF m, x
    <3> QED BY <1>4, <2>2, <3>4, <3>7, <3>8
  <2> QED BY <2>4, <2>5
<1> QED BY <1>3, <1>4

\* insert(reverse_iterator) puts it behind what stands there, or first.
LEMMA InsertAfterGrows ==
    ASSUME NEW l, IsRing(l), l.size < MaxLength, NEW v \in Values, NEW pos \in IteratorsOf(l)
    PROVE  Grew(l, InsertedAfter(l, pos, v), IF pos = None THEN 1 ELSE IndexOf(l, pos) + 1, v)
<1>1. PICK s : Ring(l, s)
  BY DEF IsRing
<1>2. l.size \in Nat
  BY <1>1 DEF Ring
<1>3. CASE pos = None
  BY <1>3, PushFrontGrows DEF InsertedAfter
<1>4. CASE pos # None
  <2>1. PICK j \in 1 .. l.size : pos = s[j]
    BY <1>1, <1>4 DEF IteratorsOf, Ring
  <2>2. IndexOf(l, pos) = j
    BY <1>1, <2>1, RingItems
  <2>3. l.size > 0
    BY <1>2, <2>1
  <2>4. pos = l.cells[l.first].prev <=> j = l.size
    BY <1>1, <2>1, <2>3, RingEnds DEF Ring
  <2>5. CASE j = l.size
    <3>1. InsertedAfter(l, pos, v) = PushedBack(l, v)
      BY <1>4, <2>4, <2>5 DEF InsertedAfter
    <3> QED BY <1>4, <2>2, <2>5, <3>1, PushBackGrows
  <2>6. CASE j # l.size
    <3> DEFINE k == j + 1
               x == Fresh(l)
               m == Grown(l, k, x, v, s[IF k = 1 THEN l.size ELSE k - 1],
                          s[IF k = l.size + 1 THEN 1 ELSE k])
    <3>1. x \in Nodes \ DOMAIN l.cells /\ k \in 1 .. l.size + 1
      BY <1>1, <1>2, <2>1, FreshNode
    <3>2. Ring(m, Put(s, l.size, k, x)) /\ Items(m) = Put(Items(l), l.size, k, v)
      <4> HIDE DEF x, k
      <4> QED BY <1>1, <2>3, <3>1, GrownRing
    <3>3. l.cells[pos].next = s[k]
      <4>1. After(l, j) = k
        BY <2>6 DEF After
      <4> QED BY <1>1, <2>1, <4>1 DEF Ring
    <3>4. InsertedAfter(l, pos, v) = [cells |-> LinkedBetween(l, x, v, pos, s[k]),
                                      first |-> l.first, size |-> l.size + 1]
      <4> HIDE DEF k
      <4> QED BY <1>4, <2>4, <2>6, <3>3 DEF InsertedAfter
    <3>7. m = [cells |-> LinkedBetween(l, x, v, pos, s[k]), first |-> l.first, size |-> l.size + 1]
      <4>1. k # 1 /\ k # l.size + 1 /\ k - 1 = j
        BY <1>2, <2>1, <2>6
      <4> HIDE DEF k, x
      <4> QED BY <2>1, <4>1 DEF Grown
    <3>8. Grew(l, m, k, v)
      BY <3>1, <3>2 DEF Grew, IsRing
    <3>9. IndexOf(l, pos) + 1 = k
      BY <2>2
    <3> HIDE DEF m, x, k
    <3> QED BY <1>4, <3>4, <3>7, <3>8, <3>9
  <2> QED BY <2>5, <2>6
<1> QED BY <1>3, <1>4

-----------------------------------------------------------------------------
(* The searches                                                            *)

\* The first of the places at, as an iterator; Find and FirstAt are that.
LEMMA FirstPlace ==
    ASSUME NEW l, IsRing(l), NEW at \in SUBSET (1 .. l.size)
    PROVE  LET r == IF at = {} THEN None ELSE NodesOf(l)[Min(at)]
           IN  /\ r \in IteratorsOf(l) /\ (r = None <=> at = {})
               /\ at # {} => /\ IndexOf(l, r) = Min(at) /\ Min(at) \in at
                             /\ \A i \in at : Min(at) <= i
<1>1. PICK s : Ring(l, s)
  BY DEF IsRing
<1>2. NodesOf(l) = s /\ l.size \in Nat
  BY <1>1, RingNodes DEF Ring
<1>3. CASE at = {}
  BY <1>3 DEF IteratorsOf
<1>4. CASE at # {}
  <2>1. at \in SUBSET Nat
    BY <1>2
  <2>2. Min(at) \in at /\ \A i \in at : Min(at) <= i
    BY <1>4, <2>1, MinIsLeast
  <2>3. Min(at) \in 1 .. l.size
    BY <2>2
  <2>4. s[Min(at)] \in DOMAIN l.cells /\ s[Min(at)] # None
    BY <1>1, <2>3 DEF Ring, Nodes, None
  <2>5. IndexOf(l, s[Min(at)]) = Min(at)
    BY <1>1, <2>3, RingItems
  <2> QED BY <1>2, <1>4, <2>2, <2>4, <2>5 DEF IteratorsOf
<1> QED BY <1>3, <1>4

\* The last of them; LastAt is that.
LEMMA LastPlace ==
    ASSUME NEW l, IsRing(l), NEW at \in SUBSET (1 .. l.size)
    PROVE  LET r == IF at = {} THEN None ELSE NodesOf(l)[Max(at)]
           IN  /\ r \in IteratorsOf(l) /\ (r = None <=> at = {})
               /\ at # {} => /\ IndexOf(l, r) = Max(at) /\ Max(at) \in at
                             /\ \A i \in at : i <= Max(at)
<1>1. PICK s : Ring(l, s)
  BY DEF IsRing
<1>2. NodesOf(l) = s /\ l.size \in Nat
  BY <1>1, RingNodes DEF Ring
<1>3. CASE at = {}
  BY <1>3 DEF IteratorsOf
<1>4. CASE at # {}
  <2>1. at \in SUBSET (0 .. l.size)
    BY <1>2
  <2>2. Max(at) \in at /\ \A i \in at : i <= Max(at)
    BY <1>2, <1>4, <2>1, MaxIsGreatest
  <2>3. Max(at) \in 1 .. l.size
    BY <2>2
  <2>4. s[Max(at)] \in DOMAIN l.cells /\ s[Max(at)] # None
    BY <1>1, <2>3 DEF Ring, Nodes, None
  <2>5. IndexOf(l, s[Max(at)]) = Max(at)
    BY <1>1, <2>3, RingItems
  <2> QED BY <1>2, <1>4, <2>2, <2>4, <2>5 DEF IteratorsOf
<1> QED BY <1>3, <1>4

-----------------------------------------------------------------------------
(* The invariant                                                           *)

ListInv ==
    /\ IsRing(list)
    /\ cursor \in Nodes \cup {None} /\ inForeach \in BOOLEAN
    /\ ForeachComplete

\* A ring is well formed.
LEMMA RingIsLinked ==
    ASSUME IsRing(list), cursor \in Nodes \cup {None}, inForeach \in BOOLEAN
    PROVE  ListWellFormed
<1>1. PICK s : Ring(list, s)
  BY DEF IsRing
<1>2. NodesOf(list) = s /\ list.size \in Nat /\ list.size <= MaxLength
      /\ DOMAIN list.cells \subseteq Nodes /\ Range(s) = DOMAIN list.cells
      /\ Cardinality(DOMAIN list.cells) = list.size
  BY <1>1, RingNodes, RingSize DEF Ring
<1>3. ListTypeOK
  <2>1. \A n \in DOMAIN list.cells : list.cells[n] \in Cell
    BY <1>1 DEF Ring
  <2>2. list.first \in Nodes \cup {None}
    BY <1>1, <1>2 DEF Ring
  <2>3. list.size \in 0 .. MaxLength
    BY <1>2, ListAssumption
  <2> QED BY <1>2, <2>1, <2>2, <2>3 DEF ListTypeOK
<1>4. list.first = None <=> list.size = 0
  BY <1>1, <1>2 DEF Ring, Nodes, None
<1>5. ASSUME NEW n \in DOMAIN list.cells
      PROVE  /\ list.cells[list.cells[n].next].prev = n
             /\ list.cells[list.cells[n].prev].next = n
  <2>1. PICK i \in 1 .. list.size : n = s[i]
    BY <1>1 DEF Ring
  <2>2. /\ After(list, i) \in 1 .. list.size /\ Before(list, After(list, i)) = i
        /\ Before(list, i) \in 1 .. list.size /\ After(list, Before(list, i)) = i
    BY <1>2 DEF After, Before
  <2> QED BY <1>1, <2>1, <2>2 DEF Ring
<1>6. ListLinked
  BY <1>2, <1>4, <1>5 DEF ListLinked
<1> QED BY <1>3, <1>6 DEF ListWellFormed

\* An empty list is a ring without nodes.
LEMMA EmptyRing == IsRing(EmptyList) /\ Items(EmptyList) = <<>> /\ EmptyList.size = 0
<1> DEFINE t == [i \in 1 .. 0 |-> 0]
<1>1. DOMAIN EmptyList.cells = {} /\ EmptyList.cells \in [{} -> Cell]
  BY DEF EmptyList
<1>2. EmptyList.size = 0 /\ EmptyList.first = None
      /\ EmptyList = [cells |-> EmptyList.cells, first |-> EmptyList.first, size |-> EmptyList.size]
  BY DEF EmptyList
<1>3. t \in [1 .. 0 -> Nodes]
  OBVIOUS
<1> HIDE DEF t
<1>4. Ring(EmptyList, t)
  BY <1>1, <1>2, <1>3 DEF Ring
<1>5. Items(EmptyList) = [i \in 1 .. 0 |-> EmptyList.cells[t[i]].value]
  BY <1>2, <1>4, RingItems
<1> QED BY <1>2, <1>4, <1>5 DEF IsRing

-----------------------------------------------------------------------------
(* What each call does to the list                                         *)

\* The values are a sequence as long as the list.
LEMMA ItemsTyped ==
    ASSUME NEW l, IsRing(l)
    PROVE  l.size \in Nat /\ Items(l) \in [1 .. l.size -> Values]
BY RingItems DEF IsRing, Ring

\* A ring, and the effect that the reference of the call says.
Exact == IsRing(list') /\ CallEffect(call', list, Items(list), Items(list'))

\* push_back and push_front.
LEMMA PushesExact ==
    ASSUME ListInv, NEW v \in Values, PushBack(v) \/ PushFront(v)
    PROVE  Exact
<1> DEFINE N == list.size
           s == Items(list)
<1>1. N \in Nat /\ s \in [1 .. N -> Values] /\ IsRing(list)
  BY ItemsTyped DEF ListInv
<1>2. N < MaxLength
  BY DEF PushBack, PushFront, Room
<1>3. CASE PushBack(v)
  <2>1. list' = PushedBack(list, v) /\ call' = [op |-> "push_back", at |-> 0, value |-> v]
    BY <1>3 DEF PushBack, Do
  <2>2. Grew(list, list', N + 1, v)
    BY <1>1, <1>2, <2>1, PushBackGrows
  <2> HIDE DEF N, s
  <2>3. IsRing(list') /\ Items(list') = Append(s, v)
    BY <1>1, <2>2, PutFacts DEF Grew, N, s
  <2> QED BY <2>1, <2>3 DEF Exact, CallEffect, s
<1>4. CASE PushFront(v)
  <2>1. list' = PushedFront(list, v) /\ call' = [op |-> "push_front", at |-> 0, value |-> v]
    BY <1>4 DEF PushFront, Do
  <2>2. Grew(list, list', 1, v)
    BY <1>1, <1>2, <2>1, PushFrontGrows
  <2> HIDE DEF N, s
  <2>3. IsRing(list') /\ Items(list') = <<v>> \o s
    BY <1>1, <2>2, PutFacts DEF Grew, N, s
  <2> QED BY <2>1, <2>3 DEF Exact, CallEffect, s
<1> QED BY <1>3, <1>4

\* Deleting the node of an iterator removes its value.
LEMMA DeletedItems ==
    ASSUME NEW l, IsRing(l), NEW pos \in DOMAIN l.cells
    PROVE  /\ IndexOf(l, pos) \in 1 .. l.size /\ NodesOf(l)[IndexOf(l, pos)] = pos
           /\ IsRing(Deleted(l, pos))
           /\ Items(Deleted(l, pos)) = Without(Items(l), l.size, IndexOf(l, pos))
<1>1. PICK s : Ring(l, s)
  BY DEF IsRing
<1>2. PICK k \in 1 .. l.size : pos = s[k]
  BY <1>1 DEF Ring
<1>3. IndexOf(l, pos) = k /\ NodesOf(l) = s
  BY <1>1, <1>2, RingItems, RingNodes
<1> QED BY <1>1, <1>2, <1>3, DeletedRing DEF IsRing

\* pop_front and pop_back.
LEMMA PopsExact ==
    ASSUME ListInv, PopFront \/ PopBack
    PROVE  Exact
<1> DEFINE N == list.size
           t == Items(list)
<1>1. N \in Nat /\ t \in [1 .. N -> Values] /\ IsRing(list) /\ N > 0
  BY ItemsTyped DEF ListInv, PopFront, PopBack
<1>2. PICK s : Ring(list, s)
  BY <1>1 DEF IsRing
<1>3. /\ list.first = s[1] /\ list.cells[list.first].prev = s[N]
      /\ 1 \in 1 .. N /\ N \in 1 .. N
  BY <1>1, <1>2, RingEnds
<1>4. CASE PopFront
  <2>1. list' = Deleted(list, s[1]) /\ call' = [op |-> "pop_front", at |-> 0, value |-> 0]
    BY <1>3, <1>4 DEF PopFront, Do
  <2>2. IsRing(list') /\ Items(list') = Without(t, N, 1)
    BY <1>2, <1>3, <2>1, DeletedRing DEF IsRing
  <2> HIDE DEF N, t
  <2>3. Items(list') = Tail(t)
    BY <1>1, <2>2, WithoutFacts
  <2> QED BY <2>1, <2>2, <2>3 DEF Exact, CallEffect, t
<1>5. CASE PopBack
  <2>1. list' = Deleted(list, s[N]) /\ call' = [op |-> "pop_back", at |-> 0, value |-> 0]
    BY <1>3, <1>5 DEF PopBack, Do
  <2>2. IsRing(list') /\ Items(list') = Without(t, N, N)
    BY <1>2, <1>3, <2>1, DeletedRing DEF IsRing
  <2> HIDE DEF N, t
  <2>3. Items(list') = Front(t)
    BY <1>1, <2>2, WithoutFacts
  <2> QED BY <2>1, <2>2, <2>3 DEF Exact, CallEffect, t
<1> QED BY <1>4, <1>5

\* erase(iterator).
LEMMA EraseExact ==
    ASSUME ListInv, NEW n \in Positions, Erase(n)
    PROVE  Exact
<1> DEFINE N == list.size
           t == Items(list)
<1>1. N \in Nat /\ t \in [1 .. N -> Values] /\ IsRing(list)
  BY ItemsTyped DEF ListInv
<1>2. list' = (IF n = None THEN list ELSE Deleted(list, n))
      /\ call' = [op |-> "erase", at |-> n, value |-> 0]
  BY DEF Erase, Do
<1>3. CASE n = None
  BY <1>1, <1>2, <1>3 DEF Exact, CallEffect
<1>4. CASE n # None
  <2>1. n \in DOMAIN list.cells /\ list' = Deleted(list, n)
    BY <1>2, <1>4 DEF Positions
  <2>2. /\ IndexOf(list, n) \in 1 .. N /\ IsRing(list')
        /\ Items(list') = Without(t, N, IndexOf(list, n))
    BY <1>1, <2>1, DeletedItems
  <2> HIDE DEF N, t
  <2>3. Items(list') = RemoveAt(t, IndexOf(list, n))
    BY <1>1, <2>2, WithoutFacts
  <2> QED BY <1>2, <1>4, <2>2, <2>3 DEF Exact, CallEffect, t
<1> QED BY <1>3, <1>4

\* erase(value), which finds the first.
LEMMA EraseValueExact ==
    ASSUME ListInv, NEW v \in Values, EraseValue(v)
    PROVE  Exact
<1> DEFINE N == list.size
           t == Items(list)
           at == {i \in 1 .. N : t[i] = v}
           r == Find(list, v)
<1>1. N \in Nat /\ t \in [1 .. N -> Values] /\ IsRing(list)
  BY ItemsTyped DEF ListInv
<1>2. list' = (IF r = None THEN list ELSE Deleted(list, r))
      /\ call' = [op |-> "erase_value", at |-> 0, value |-> v]
  BY DEF EraseValue, Do
<1>3. r = IF at = {} THEN None ELSE NodesOf(list)[Min(at)]
  BY DEF Find
<1>4. at \in SUBSET (1 .. N)
  OBVIOUS
<1>5. Len(t) = N
  BY <1>1
<1>6. RemoveFirst(t, v) = IF at = {} THEN t ELSE RemoveAt(t, Min(at))
  <2>1. at = {i \in 1 .. Len(t) : t[i] = v}
    BY <1>5
  <2>2. (\E i \in 1 .. Len(t) : t[i] = v) <=> at # {}
    BY <1>5
  <2> HIDE DEF at, t
  <2> QED BY <2>1, <2>2 DEF RemoveFirst, SelectInSeq
<1> HIDE DEF at, r, N, t
<1>7. /\ r \in IteratorsOf(list) /\ (r = None <=> at = {})
      /\ at # {} => IndexOf(list, r) = Min(at)
  BY <1>1, <1>3, <1>4, FirstPlace DEF N
<1>8. CASE at = {}
  <2>1. list' = list /\ RemoveFirst(t, v) = t
    BY <1>2, <1>6, <1>7, <1>8
  <2> QED BY <1>1, <1>2, <2>1 DEF Exact, CallEffect, t
<1>9. CASE at # {}
  <2>1. r \in DOMAIN list.cells /\ list' = Deleted(list, r)
    BY <1>2, <1>7, <1>9 DEF IteratorsOf
  <2>2. /\ Min(at) \in 1 .. N /\ IsRing(list')
        /\ Items(list') = Without(t, N, Min(at))
    BY <1>1, <1>7, <1>9, <2>1, DeletedItems DEF N, t
  <2>3. Items(list') = RemoveFirst(t, v)
    BY <1>1, <1>6, <1>9, <2>2, WithoutFacts
  <2> QED BY <1>2, <2>2, <2>3 DEF Exact, CallEffect, t
<1> QED BY <1>8, <1>9

\* insert, before and behind an iterator.
LEMMA InsertsExact ==
    ASSUME ListInv, NEW pos \in Positions, NEW v \in Values,
           Insert(pos, v) \/ InsertReverse(pos, v)
    PROVE  Exact
<1> DEFINE N == list.size
           t == Items(list)
<1>1. N \in Nat /\ t \in [1 .. N -> Values] /\ IsRing(list)
  BY ItemsTyped DEF ListInv
<1>2. N < MaxLength /\ pos \in IteratorsOf(list)
  BY DEF Insert, InsertReverse, Room, Positions, IteratorsOf
<1>3. Len(t) = N
  BY <1>1
<1>4. CASE Insert(pos, v)
  <2> DEFINE k == IF pos = None THEN N + 1 ELSE IndexOf(list, pos)
  <2>1. list' = InsertedBefore(list, pos, v) /\ call' = [op |-> "insert", at |-> pos, value |-> v]
    BY <1>4 DEF Insert, Do
  <2>2. Grew(list, list', k, v)
    BY <1>1, <1>2, <2>1, InsertBeforeGrows
  <2> HIDE DEF N, t, k
  <2>3. IsRing(list') /\ Items(list') = InsertAt(t, k, v)
    BY <1>1, <2>2, PutFacts DEF Grew, N, t
  <2>4. k = IF pos = None THEN Len(t) + 1 ELSE IndexOf(list, pos)
    BY <1>3 DEF k
  <2> QED BY <2>1, <2>3, <2>4 DEF Exact, CallEffect, t
<1>5. CASE InsertReverse(pos, v)
  <2> DEFINE k == IF pos = None THEN 1 ELSE IndexOf(list, pos) + 1
  <2>1. /\ list' = InsertedAfter(list, pos, v)
        /\ call' = [op |-> "insert_reverse", at |-> pos, value |-> v]
    BY <1>5 DEF InsertReverse, Do
  <2>2. Grew(list, list', k, v)
    BY <1>1, <1>2, <2>1, InsertAfterGrows
  <2> HIDE DEF N, t, k
  <2>3. IsRing(list') /\ Items(list') = InsertAt(t, k, v)
    BY <1>1, <2>2, PutFacts DEF Grew, N, t
  <2> QED BY <2>1, <2>3 DEF Exact, CallEffect, t, k
<1> QED BY <1>4, <1>5

\* clear.
LEMMA ClearExact ==
    ASSUME ListClear
    PROVE  Exact
<1>1. list' = EmptyList /\ call' = [op |-> "clear", at |-> 0, value |-> 0]
  BY DEF ListClear, Do
<1> QED BY <1>1, EmptyRing DEF Exact, CallEffect

\* A value put in is one more, and keeps the order if it is put where it
\* belongs.
LEMMA PutSorted ==
    ASSUME NEW n \in Nat, NEW s \in [1 .. n -> Values], NEW k \in 1 .. n + 1, NEW v \in Values
    PROVE  /\ WithOneMore(s, Put(s, n, k, v), v)
           /\ /\ \A i \in 1 .. n : (i < k => s[i] <= v) /\ (i >= k => v <= s[i])
              /\ SortedBy(s, LAMBDA x, y : x <= y)
              => SortedBy(Put(s, n, k, v), LAMBDA x, y : x <= y)
           /\ /\ \A i \in 1 .. n : (i < k => s[i] >= v) /\ (i >= k => v >= s[i])
              /\ SortedBy(s, LAMBDA x, y : x >= y)
              => SortedBy(Put(s, n, k, v), LAMBDA x, y : x >= y)
<1> DEFINE t == Put(s, n, k, v)
<1>1. /\ t \in [1 .. n + 1 -> Values] /\ t[k] = v /\ DOMAIN s = 1 .. n
      /\ \A i \in 1 .. n + 1 : \/ i = k
                               \/ i < k /\ i \in 1 .. n /\ t[i] = s[i]
                               \/ i > k /\ i - 1 \in 1 .. n /\ t[i] = s[i - 1]
  BY DEF Put
<1>2. Without(t, n + 1, k) = s
  <2>1. Without(t, n + 1, k) = [i \in 1 .. n |-> IF i < k THEN t[i] ELSE t[i + 1]]
    BY DEF Without
  <2>2. ASSUME NEW i \in 1 .. n PROVE s[i] = IF i < k THEN t[i] ELSE t[i + 1]
    <3>1. i \in 1 .. n + 1 /\ i + 1 \in 1 .. n + 1 /\ (i + 1) - 1 = i
      OBVIOUS
    <3> HIDE DEF t
    <3> QED BY <1>1, <3>1
  <2> HIDE DEF t
  <2> QED BY <2>1, <2>2
<1> HIDE DEF t
<1>3. WithOneMore(s, t, v)
  <2>1. n + 1 \in Nat
    OBVIOUS
  <2>2. RemoveAt(t, k) = s
    BY <1>1, <1>2, <2>1, WithoutFacts
  <2> QED BY <1>1, <2>2 DEF WithOneMore
<1>4. ASSUME \A i \in 1 .. n : (i < k => s[i] <= v) /\ (i >= k => v <= s[i]),
             SortedBy(s, LAMBDA x, y : x <= y)
      PROVE  SortedBy(t, LAMBDA x, y : x <= y)
  <2> SUFFICES ASSUME NEW i \in 1 .. n + 1, NEW j \in 1 .. n + 1, i < j
               PROVE  t[i] <= t[j]
    BY <1>1 DEF SortedBy
  <2>1. \A a, b \in 1 .. n : a < b => s[a] <= s[b]
    BY <1>1, <1>4 DEF SortedBy
  <2>2. v \in Nat /\ \A a \in 1 .. n : s[a] \in Nat
    BY ListAssumption
  <2>3. CASE i = k
    <3>1. j - 1 \in 1 .. n /\ j - 1 >= k /\ t[j] = s[j - 1]
      BY <1>1, <2>3
    <3> QED BY <1>1, <1>4, <2>3, <3>1
  <2>4. CASE j = k
    <3>1. i \in 1 .. n /\ i < k /\ t[i] = s[i]
      BY <1>1, <2>4
    <3> QED BY <1>1, <1>4, <2>4, <3>1
  <2>5. CASE i < k /\ j > k
    <3>1. i \in 1 .. n /\ t[i] = s[i] /\ j - 1 \in 1 .. n /\ j - 1 >= k /\ t[j] = s[j - 1]
      BY <1>1, <2>5
    <3>2. s[i] <= v /\ v <= s[j - 1]
      BY <1>4, <2>5, <3>1
    <3> QED BY <2>2, <3>1, <3>2
  <2>6. CASE j < k
    <3>1. i \in 1 .. n /\ t[i] = s[i] /\ j \in 1 .. n /\ t[j] = s[j]
      BY <1>1, <2>6
    <3> QED BY <2>1, <3>1
  <2>7. CASE i > k
    <3>1. i - 1 \in 1 .. n /\ t[i] = s[i - 1] /\ j - 1 \in 1 .. n /\ t[j] = s[j - 1] /\ i - 1 < j - 1
      BY <1>1, <2>7
    <3> QED BY <2>1, <3>1
  <2> QED BY <2>3, <2>4, <2>5, <2>6, <2>7
<1>5. ASSUME \A i \in 1 .. n : (i < k => s[i] >= v) /\ (i >= k => v >= s[i]),
             SortedBy(s, LAMBDA x, y : x >= y)
      PROVE  SortedBy(t, LAMBDA x, y : x >= y)
  <2> SUFFICES ASSUME NEW i \in 1 .. n + 1, NEW j \in 1 .. n + 1, i < j
               PROVE  t[i] >= t[j]
    BY <1>1 DEF SortedBy
  <2>1. \A a, b \in 1 .. n : a < b => s[a] >= s[b]
    BY <1>1, <1>5 DEF SortedBy
  <2>2. v \in Nat /\ \A a \in 1 .. n : s[a] \in Nat
    BY ListAssumption
  <2>3. CASE i = k
    <3>1. j - 1 \in 1 .. n /\ j - 1 >= k /\ t[j] = s[j - 1]
      BY <1>1, <2>3
    <3> QED BY <1>1, <1>5, <2>3, <3>1
  <2>4. CASE j = k
    <3>1. i \in 1 .. n /\ i < k /\ t[i] = s[i]
      BY <1>1, <2>4
    <3> QED BY <1>1, <1>5, <2>4, <3>1
  <2>5. CASE i < k /\ j > k
    <3>1. i \in 1 .. n /\ t[i] = s[i] /\ j - 1 \in 1 .. n /\ j - 1 >= k /\ t[j] = s[j - 1]
      BY <1>1, <2>5
    <3>2. s[i] >= v /\ v >= s[j - 1]
      BY <1>5, <2>5, <3>1
    <3> QED BY <2>2, <3>1, <3>2
  <2>6. CASE j < k
    <3>1. i \in 1 .. n /\ t[i] = s[i] /\ j \in 1 .. n /\ t[j] = s[j]
      BY <1>1, <2>6
    <3> QED BY <2>1, <3>1
  <2>7. CASE i > k
    <3>1. i - 1 \in 1 .. n /\ t[i] = s[i - 1] /\ j - 1 \in 1 .. n /\ t[j] = s[j - 1] /\ i - 1 < j - 1
      BY <1>1, <2>7
    <3> QED BY <2>1, <3>1
  <2> QED BY <2>3, <2>4, <2>5, <2>6, <2>7
<1> QED BY <1>3, <1>4, <1>5 DEF t

\* The loop of a sorted insert stops at the first place of at, and the value
\* goes before it: what is before is not in at.
LEMMA InsertedAtFirst ==
    ASSUME ListInv, Room, NEW v \in Values, NEW at \in SUBSET (1 .. list.size),
           list' = InsertedBefore(list, IF at = {} THEN None ELSE NodesOf(list)[Min(at)], v)
    PROVE  \E k \in 1 .. list.size + 1 :
             /\ Grew(list, list', k, v)
             /\ \A i \in at : k <= i
             /\ k \in at \/ (k = list.size + 1 /\ at = {})
<1> DEFINE r == IF at = {} THEN None ELSE NodesOf(list)[Min(at)]
           k == IF r = None THEN list.size + 1 ELSE IndexOf(list, r)
<1>1. IsRing(list) /\ list.size < MaxLength
  BY DEF ListInv, Room
<1>2. /\ r \in IteratorsOf(list) /\ (r = None <=> at = {})
      /\ at # {} => /\ IndexOf(list, r) = Min(at) /\ Min(at) \in at
                    /\ \A i \in at : Min(at) <= i
  BY <1>1, FirstPlace
<1>3. list' = InsertedBefore(list, r, v)
  OBVIOUS
<1> HIDE DEF r
<1>4. Grew(list, list', k, v)
  BY <1>1, <1>2, <1>3, InsertBeforeGrows
<1>5. k \in 1 .. list.size + 1
  BY <1>4 DEF Grew
<1>6. /\ \A i \in at : k <= i
      /\ k \in at \/ (k = list.size + 1 /\ at = {})
  BY <1>2
<1> QED BY <1>4, <1>5, <1>6

\* The loop backwards: the value goes behind the last place of at.
LEMMA InsertedAtLast ==
    ASSUME ListInv, Room, NEW v \in Values, NEW at \in SUBSET (1 .. list.size),
           list' = InsertedAfter(list, IF at = {} THEN None ELSE NodesOf(list)[Max(at)], v)
    PROVE  \E k \in 1 .. list.size + 1 :
             /\ Grew(list, list', k, v)
             /\ \A i \in at : i < k
             /\ k - 1 \in at \/ (k = 1 /\ at = {})
<1> DEFINE r == IF at = {} THEN None ELSE NodesOf(list)[Max(at)]
           k == IF r = None THEN 1 ELSE IndexOf(list, r) + 1
<1>1. IsRing(list) /\ list.size < MaxLength
  BY DEF ListInv, Room
<1>2. /\ r \in IteratorsOf(list) /\ (r = None <=> at = {})
      /\ at # {} => /\ IndexOf(list, r) = Max(at) /\ Max(at) \in at
                    /\ \A i \in at : i <= Max(at)
  BY <1>1, LastPlace
<1>3. list' = InsertedAfter(list, r, v)
  OBVIOUS
<1> HIDE DEF r
<1>4. Grew(list, list', k, v)
  BY <1>1, <1>2, <1>3, InsertAfterGrows
<1>5. k \in 1 .. list.size + 1
  BY <1>4 DEF Grew
<1>6. /\ \A i \in at : i < k
      /\ k - 1 \in at \/ (k = 1 /\ at = {})
  <2>1. list.size \in Nat
    BY <1>1, ItemsTyped
  <2>2. CASE at = {}
    BY <1>2, <2>2
  <2>3. CASE at # {}
    <3>1. Max(at) \in 1 .. list.size /\ k = Max(at) + 1
      BY <1>2, <2>3
    <3>2. \A i \in at : i \in 1 .. list.size /\ i <= Max(at)
      BY <1>2, <2>3
    <3>3. Max(at) \in at
      BY <1>2, <2>3
    <3> HIDE DEF k
    <3> QED BY <2>1, <3>1, <3>2, <3>3
  <2> QED BY <2>2, <2>3
<1> QED BY <1>4, <1>5, <1>6

\* The value is where an ascending list wants it ...
LEMMA AscendingExact ==
    ASSUME ListInv, NEW v \in Values, NEW k, Grew(list, list', k, v),
           call'.op \in {"asc", "comp"}, call'.value = v,
           SortedBy(Items(list), LAMBDA x, y : x <= y) =>
               \A i \in 1 .. list.size : /\ i < k => Items(list)[i] <= v
                                         /\ i >= k => v <= Items(list)[i]
    PROVE  Exact
<1> DEFINE N == list.size
           s == Items(list)
           t == Put(s, N, k, v)
<1>1. N \in Nat /\ s \in [1 .. N -> Values]
  BY ItemsTyped DEF ListInv
<1>2. k \in 1 .. N + 1 /\ IsRing(list') /\ Items(list') = t
  BY DEF Grew
<1>3. /\ WithOneMore(s, t, v)
      /\ SortedBy(s, LAMBDA x, y : x <= y) => SortedBy(t, LAMBDA x, y : x <= y)
  BY <1>1, <1>2, PutSorted
<1> HIDE DEF t
<1>4. CallEffect(call', list, s, t)
  BY <1>3 DEF CallEffect
<1> QED BY <1>2, <1>4 DEF Exact

\* ... and a descending one.
LEMMA DescendingExact ==
    ASSUME ListInv, NEW v \in Values, NEW k, Grew(list, list', k, v),
           call'.op = "desc", call'.value = v,
           SortedBy(Items(list), LAMBDA x, y : x >= y) =>
               \A i \in 1 .. list.size : /\ i < k => Items(list)[i] >= v
                                         /\ i >= k => v >= Items(list)[i]
    PROVE  Exact
<1> DEFINE N == list.size
           s == Items(list)
           t == Put(s, N, k, v)
<1>1. N \in Nat /\ s \in [1 .. N -> Values]
  BY ItemsTyped DEF ListInv
<1>2. k \in 1 .. N + 1 /\ IsRing(list') /\ Items(list') = t
  BY DEF Grew
<1>3. /\ WithOneMore(s, t, v)
      /\ SortedBy(s, LAMBDA x, y : x >= y) => SortedBy(t, LAMBDA x, y : x >= y)
  BY <1>1, <1>2, PutSorted
<1> HIDE DEF t
<1>4. CallEffect(call', list, s, t)
  BY <1>3 DEF CallEffect
<1> QED BY <1>2, <1>4 DEF Exact

\* The forward loops.
LEMMA SortedInsertsExact ==
    ASSUME ListInv, NEW v \in Values,
           SortedInsertAsc(v) \/ SortedInsertDesc(v) \/ SortedInsertComp(v)
    PROVE  Exact
<1> DEFINE N == list.size
           s == Items(list)
<1>1. N \in Nat /\ s \in [1 .. N -> Values]
  BY ItemsTyped DEF ListInv
<1>2. v \in Nat /\ \A i \in 1 .. N : s[i] \in Nat
  BY <1>1, ListAssumption
<1>3. Room
  BY DEF SortedInsertAsc, SortedInsertDesc, SortedInsertComp
<1>4. CASE SortedInsertAsc(v)
  <2> DEFINE at == {i \in 1 .. N : v < s[i] \/ ~(s[i] < v)}
  <2>1. /\ list' = InsertedBefore(list, IF at = {} THEN None ELSE NodesOf(list)[Min(at)], v)
        /\ call' = [op |-> "asc", at |-> 0, value |-> v]
    BY <1>4 DEF SortedInsertAsc, FirstAt, Do
  <2>2. at \in SUBSET (1 .. list.size) /\ \A i \in 1 .. N : i \in at <=> v <= s[i]
    BY <1>2
  <2> HIDE DEF at
  <2>3. PICK k \in 1 .. N + 1 : /\ Grew(list, list', k, v) /\ \A i \in at : k <= i
                                /\ k \in at \/ (k = N + 1 /\ at = {})
    BY <1>3, <2>1, <2>2, InsertedAtFirst
  <2>4. ASSUME \A i, j \in 1 .. N : i < j => s[i] <= s[j]
        PROVE  \A i \in 1 .. N : (i < k => s[i] <= v) /\ (i >= k => v <= s[i])
    <3> HIDE DEF N, s
    <3> QED BY <1>1, <1>2, <2>2, <2>3, <2>4
  <2>5. SortedBy(s, LAMBDA x, y : x <= y) => \A i, j \in 1 .. N : i < j => s[i] <= s[j]
    BY <1>1 DEF SortedBy
  <2> QED BY <2>1, <2>3, <2>4, <2>5, AscendingExact
<1>5. CASE SortedInsertDesc(v)
  <2> DEFINE at == {i \in 1 .. N : s[i] < v \/ ~(v < s[i])}
  <2>1. /\ list' = InsertedBefore(list, IF at = {} THEN None ELSE NodesOf(list)[Min(at)], v)
        /\ call' = [op |-> "desc", at |-> 0, value |-> v]
    BY <1>5 DEF SortedInsertDesc, FirstAt, Do
  <2>2. at \in SUBSET (1 .. list.size) /\ \A i \in 1 .. N : i \in at <=> v >= s[i]
    BY <1>2
  <2> HIDE DEF at
  <2>3. PICK k \in 1 .. N + 1 : /\ Grew(list, list', k, v) /\ \A i \in at : k <= i
                                /\ k \in at \/ (k = N + 1 /\ at = {})
    BY <1>3, <2>1, <2>2, InsertedAtFirst
  <2>4. ASSUME \A i, j \in 1 .. N : i < j => s[i] >= s[j]
        PROVE  \A i \in 1 .. N : (i < k => s[i] >= v) /\ (i >= k => v >= s[i])
    <3> HIDE DEF N, s
    <3> QED BY <1>1, <1>2, <2>2, <2>3, <2>4
  <2>5. SortedBy(s, LAMBDA x, y : x >= y) => \A i, j \in 1 .. N : i < j => s[i] >= s[j]
    BY <1>1 DEF SortedBy
  <2> QED BY <2>1, <2>3, <2>4, <2>5, DescendingExact
<1>6. CASE SortedInsertComp(v)
  <2> DEFINE at == {i \in 1 .. N : v < s[i]}
  <2>1. /\ list' = InsertedBefore(list, IF at = {} THEN None ELSE NodesOf(list)[Min(at)], v)
        /\ call' = [op |-> "comp", at |-> 0, value |-> v]
    BY <1>6 DEF SortedInsertComp, FirstAt, Do
  <2>2. at \in SUBSET (1 .. list.size) /\ \A i \in 1 .. N : i \in at <=> v < s[i]
    BY <1>2
  <2> HIDE DEF at
  <2>3. PICK k \in 1 .. N + 1 : /\ Grew(list, list', k, v) /\ \A i \in at : k <= i
                                /\ k \in at \/ (k = N + 1 /\ at = {})
    BY <1>3, <2>1, <2>2, InsertedAtFirst
  <2>4. ASSUME \A i, j \in 1 .. N : i < j => s[i] <= s[j]
        PROVE  \A i \in 1 .. N : (i < k => s[i] <= v) /\ (i >= k => v <= s[i])
    <3> HIDE DEF N, s
    <3> QED BY <1>1, <1>2, <2>2, <2>3, <2>4
  <2>5. SortedBy(s, LAMBDA x, y : x <= y) => \A i, j \in 1 .. N : i < j => s[i] <= s[j]
    BY <1>1 DEF SortedBy
  <2> QED BY <2>1, <2>3, <2>4, <2>5, AscendingExact
<1> QED BY <1>4, <1>5, <1>6

\* The backward loops.
LEMMA SortedReverseInsertsExact ==
    ASSUME ListInv, NEW v \in Values,
           SortedReverseInsertAsc(v) \/ SortedReverseInsertDesc(v)
    PROVE  Exact
<1> DEFINE N == list.size
           s == Items(list)
<1>1. N \in Nat /\ s \in [1 .. N -> Values]
  BY ItemsTyped DEF ListInv
<1>2. v \in Nat /\ \A i \in 1 .. N : s[i] \in Nat
  BY <1>1, ListAssumption
<1>3. Room
  BY DEF SortedReverseInsertAsc, SortedReverseInsertDesc
<1>4. CASE SortedReverseInsertAsc(v)
  <2> DEFINE at == {i \in 1 .. N : v > s[i] \/ ~(s[i] > v)}
  <2>1. /\ list' = InsertedAfter(list, IF at = {} THEN None ELSE NodesOf(list)[Max(at)], v)
        /\ call' = [op |-> "asc", at |-> 0, value |-> v]
    BY <1>4 DEF SortedReverseInsertAsc, LastAt, Do
  <2>2. at \in SUBSET (1 .. list.size) /\ \A i \in 1 .. N : i \in at <=> s[i] <= v
    BY <1>2
  <2> HIDE DEF at
  <2>3. PICK k \in 1 .. N + 1 : /\ Grew(list, list', k, v) /\ \A i \in at : i < k
                                /\ k - 1 \in at \/ (k = 1 /\ at = {})
    BY <1>3, <2>1, <2>2, InsertedAtLast
  <2>4. ASSUME \A i, j \in 1 .. N : i < j => s[i] <= s[j]
        PROVE  \A i \in 1 .. N : (i < k => s[i] <= v) /\ (i >= k => v <= s[i])
    <3> HIDE DEF N, s
    <3> QED BY <1>1, <1>2, <2>2, <2>3, <2>4
  <2>5. SortedBy(s, LAMBDA x, y : x <= y) => \A i, j \in 1 .. N : i < j => s[i] <= s[j]
    BY <1>1 DEF SortedBy
  <2> QED BY <2>1, <2>3, <2>4, <2>5, AscendingExact
<1>5. CASE SortedReverseInsertDesc(v)
  <2> DEFINE at == {i \in 1 .. N : s[i] > v \/ ~(v > s[i])}
  <2>1. /\ list' = InsertedAfter(list, IF at = {} THEN None ELSE NodesOf(list)[Max(at)], v)
        /\ call' = [op |-> "desc", at |-> 0, value |-> v]
    BY <1>5 DEF SortedReverseInsertDesc, LastAt, Do
  <2>2. at \in SUBSET (1 .. list.size) /\ \A i \in 1 .. N : i \in at <=> s[i] >= v
    BY <1>2
  <2> HIDE DEF at
  <2>3. PICK k \in 1 .. N + 1 : /\ Grew(list, list', k, v) /\ \A i \in at : i < k
                                /\ k - 1 \in at \/ (k = 1 /\ at = {})
    BY <1>3, <2>1, <2>2, InsertedAtLast
  <2>4. ASSUME \A i, j \in 1 .. N : i < j => s[i] >= s[j]
        PROVE  \A i \in 1 .. N : (i < k => s[i] >= v) /\ (i >= k => v >= s[i])
    <3> HIDE DEF N, s
    <3> QED BY <1>1, <1>2, <2>2, <2>3, <2>4
  <2>5. SortedBy(s, LAMBDA x, y : x >= y) => \A i, j \in 1 .. N : i < j => s[i] >= s[j]
    BY <1>1 DEF SortedBy
  <2> QED BY <2>1, <2>3, <2>4, <2>5, DescendingExact
<1> QED BY <1>4, <1>5

-----------------------------------------------------------------------------
(* foreach                                                                 *)

\* A node of the ring is one of the list, and no end().
LEMMA RingPlaces ==
    ASSUME NEW l, NEW s, Ring(l, s)
    PROVE  \A i \in 1 .. l.size : s[i] \in DOMAIN l.cells /\ s[i] # None
<1>1. \A i \in 1 .. l.size : s[i] \in DOMAIN l.cells
  BY DEF Ring
<1>2. \A i \in 1 .. l.size : s[i] \in 1 .. MaxLength
  BY DEF Ring, Nodes
<1> QED BY <1>1, <1>2, ListAssumption DEF None

\* The iterator stands on the k-th node of l, and the rest is to do; or it is
\* at the end.
AtPlace(l, s, k, c, d) ==
    IF k > l.size THEN c = None /\ d = <<>> ELSE c = s[k] /\ d = SubSeq(s, k, l.size)

\* That is what ForeachComplete says of it.
LEMMA PlaceIsComplete ==
    ASSUME NEW s, Ring(list, s)
    PROVE  /\ (\E k \in 1 .. list.size + 1 : AtPlace(list, s, k, cursor, todo)) => ForeachComplete
           /\ ForeachComplete /\ inForeach =>
                \E k \in 1 .. list.size + 1 : AtPlace(list, s, k, cursor, todo)
<1>1. NodesOf(list) = s /\ list.size \in Nat
  BY RingNodes DEF Ring
<1>2. \A i \in 1 .. list.size : IndexOf(list, s[i]) = i /\ s[i] \in DOMAIN list.cells /\ s[i] # None
  BY RingItems, RingPlaces
<1>3. ASSUME NEW k \in 1 .. list.size + 1, AtPlace(list, s, k, cursor, todo)
      PROVE  ForeachComplete
  <2>1. CASE k > list.size
    BY <1>3, <2>1 DEF AtPlace, ForeachComplete
  <2>2. CASE ~(k > list.size)
    <3>1. k \in 1 .. list.size /\ cursor = s[k] /\ todo = SubSeq(s, k, list.size)
      BY <1>1, <1>3, <2>2 DEF AtPlace
    <3>2. cursor # None /\ cursor \in DOMAIN list.cells /\ IndexOf(list, cursor) = k
      BY <1>2, <3>1
    <3> QED BY <1>1, <3>1, <3>2 DEF ForeachComplete
  <2> QED BY <2>1, <2>2
<1>4. ASSUME ForeachComplete, inForeach
      PROVE  \E k \in 1 .. list.size + 1 : AtPlace(list, s, k, cursor, todo)
  <2>1. CASE cursor = None
    <3>1. list.size + 1 \in 1 .. list.size + 1 /\ list.size + 1 > list.size
      BY <1>1
    <3>2. todo = <<>>
      BY <1>4, <2>1 DEF ForeachComplete
    <3> QED BY <2>1, <3>1, <3>2 DEF AtPlace
  <2>2. CASE cursor # None
    <3>1. PICK k \in 1 .. list.size : cursor = s[k]
      BY <1>4, <2>2 DEF ForeachComplete, Ring
    <3>2. IndexOf(list, cursor) = k /\ k \in 1 .. list.size + 1 /\ ~(k > list.size)
      BY <1>1, <1>2, <3>1
    <3>3. todo = SubSeq(s, k, list.size)
      BY <1>1, <1>4, <2>2, <3>2 DEF ForeachComplete
    <3> QED BY <3>1, <3>2, <3>3 DEF AtPlace
  <2> QED BY <2>1, <2>2
<1> QED BY <1>3, <1>4

\* In the next state, too.
LEMMA PlaceIsCompleteNext ==
    ASSUME NEW s, Ring(list', s), NEW k \in 1 .. list'.size + 1,
           AtPlace(list', s, k, cursor', todo')
    PROVE  ForeachComplete'
<1>1. NodesOf(list') = s /\ list'.size \in Nat
  BY RingNodes DEF Ring
<1>2. \A i \in 1 .. list'.size : /\ IndexOf(list', s[i]) = i
                                 /\ s[i] \in DOMAIN list'.cells /\ s[i] # None
  BY RingItems, RingPlaces
<1>3. CASE k > list'.size
  BY <1>3 DEF AtPlace, ForeachComplete
<1>4. CASE ~(k > list'.size)
  <2>1. k \in 1 .. list'.size /\ cursor' = s[k] /\ todo' = SubSeq(s, k, list'.size)
    BY <1>1, <1>4 DEF AtPlace
  <2>2. cursor' # None /\ cursor' \in DOMAIN list'.cells /\ IndexOf(list', cursor') = k
    BY <1>2, <2>1
  <2> QED BY <1>1, <2>1, <2>2 DEF ForeachComplete
<1> QED BY <1>3, <1>4

\* The rest of a sequence, by one element shorter; and the whole of it.
LEMMA RestFacts ==
    ASSUME NEW S, NEW n \in Nat, NEW s \in [1 .. n -> S]
    PROVE  /\ n = 0 => s = <<>>
           /\ n > 0 => SubSeq(s, 1, n) = s
           /\ \A k \in 1 .. n : Tail(SubSeq(s, k, n)) = IF k = n THEN <<>> ELSE SubSeq(s, k + 1, n)
           /\ \A k \in 1 .. n - 1 : \A j \in 1 .. k :
                SubSeq(Without(s, n, j), k, n - 1) = SubSeq(s, k + 1, n)
<1>1. s \in Seq(S) /\ Len(s) = n
  OBVIOUS
<1>2. n = 0 => s = <<>>
  BY <1>1
<1>3. n > 0 => SubSeq(s, 1, n) = s
  BY <1>1
<1>4. ASSUME NEW k \in 1 .. n
      PROVE  Tail(SubSeq(s, k, n)) = IF k = n THEN <<>> ELSE SubSeq(s, k + 1, n)
  <2> DEFINE a == SubSeq(s, k, n)
  <2>1. a \in Seq(S) /\ Len(a) = n - k + 1 /\ \A i \in 1 .. n - k + 1 : a[i] = s[k + i - 1]
    BY <1>1
  <2> DEFINE w == Tail(a)
  <2> HIDE DEF a
  <2>2. w \in Seq(S) /\ Len(w) = n - k /\ \A i \in 1 .. n - k : w[i] = a[i + 1]
    BY <2>1
  <2> HIDE DEF w
  <2>3. CASE k = n
    <3>1. w = <<>>
      BY <2>2, <2>3
    <3> QED BY <2>3, <3>1 DEF a, w
  <2>4. CASE k # n
    <3> DEFINE b == SubSeq(s, k + 1, n)
    <3>1. b \in Seq(S) /\ Len(b) = n - k /\ \A i \in 1 .. n - k : b[i] = s[k + i]
      BY <1>1, <2>4
    <3> HIDE DEF b
    <3>2. \A i \in 1 .. n - k : w[i] = b[i]
      BY <2>1, <2>2, <3>1
    <3>3. w = b
      BY <2>2, <3>1, <3>2
    <3> QED BY <2>4, <3>3 DEF w, a, b
  <2> QED BY <2>3, <2>4
<1>5. ASSUME NEW k \in 1 .. n - 1, NEW j \in 1 .. k
      PROVE  SubSeq(Without(s, n, j), k, n - 1) = SubSeq(s, k + 1, n)
  <2> DEFINE t == Without(s, n, j)
             a == SubSeq(t, k, n - 1)
             b == SubSeq(s, k + 1, n)
  <2>1. t \in [1 .. n - 1 -> S] /\ \A i \in k .. n - 1 : t[i] = s[i + 1]
    BY DEF Without
  <2> HIDE DEF t
  <2>2. t \in Seq(S) /\ Len(t) = n - 1
    BY <2>1
  <2>3. a \in Seq(S) /\ Len(a) = n - k /\ \A i \in 1 .. n - k : a[i] = t[k + i - 1]
    BY <2>2
  <2>4. b \in Seq(S) /\ Len(b) = n - k /\ \A i \in 1 .. n - k : b[i] = s[k + i]
    BY <1>1
  <2> HIDE DEF a, b
  <2>5. \A i \in 1 .. n - k : a[i] = b[i]
    BY <2>1, <2>3, <2>4
  <2>6. a = b
    BY <2>3, <2>4, <2>5
  <2> QED BY <2>6 DEF a, b, t
<1> QED BY <1>2, <1>3, <1>4, <1>5

\* foreach starts on the first node with all of them to do.
LEMMA BeginKeeps ==
    ASSUME ListInv, ForeachBegin
    PROVE  ListInv'
<1>1. PICK s : Ring(list, s)
  BY DEF ListInv, IsRing
<1>2. list' = list /\ cursor' = list.first /\ todo' = s /\ inForeach' = TRUE
  BY <1>1, RingNodes DEF ForeachBegin
<1>3. list.size \in Nat /\ s \in [1 .. list.size -> Nodes]
      /\ list.first = IF list.size = 0 THEN None ELSE s[1]
  BY <1>1 DEF Ring
<1>4. 1 \in 1 .. list.size + 1 /\ AtPlace(list, s, 1, list.first, s)
  BY <1>3, RestFacts DEF AtPlace
<1>5. ForeachComplete'
  BY <1>1, <1>2, <1>4, PlaceIsCompleteNext
<1>6. list.first \in Nodes \cup {None}
  BY <1>3
<1>7. IsRing(list')
  BY <1>1, <1>2 DEF IsRing
<1> QED BY <1>2, <1>5, <1>6, <1>7 DEF ListInv

\* The iterator has moved on when the function is called, so deleting the
\* element it left, or one before that, does not touch the rest.
LEMMA StepKeeps ==
    ASSUME ListInv, ForeachStep
    PROVE  ListInv'
<1> DEFINE N == list.size
<1>1. PICK s : Ring(list, s)
  BY DEF ListInv, IsRing
<1>2. N \in Nat /\ s \in [1 .. N -> Nodes] /\ inForeach /\ cursor # None
  BY <1>1 DEF Ring, ForeachStep
<1>3. PICK k \in 1 .. N + 1 : AtPlace(list, s, k, cursor, todo)
  BY <1>1, <1>2, PlaceIsComplete DEF ListInv
<1>4. k \in 1 .. N /\ cursor = s[k] /\ todo = SubSeq(s, k, N)
  BY <1>2, <1>3 DEF AtPlace
<1>5. cursor' = IF k = N THEN None ELSE s[k + 1]
  <2>1. list.cells[s[k]].next = s[IF k = N THEN 1 ELSE k + 1] /\ list.first = s[1]
    BY <1>1, <1>2, <1>4 DEF Ring, After
  <2>2. k # N => s[k + 1] # s[1]
    <3>1. \A i, j \in 1 .. N : s[i] = s[j] => i = j
      BY <1>1 DEF Ring
    <3>2. 1 \in 1 .. N /\ (k # N => k + 1 \in 1 .. N) /\ k + 1 # 1
      BY <1>2, <1>4
    <3> HIDE DEF N
    <3> QED BY <3>1, <3>2
  <2>3. cursor' = Advanced(list, s[k])
    BY <1>4 DEF ForeachStep
  <2> QED BY <2>1, <2>2, <2>3 DEF Advanced
<1>6. todo' = IF k = N THEN <<>> ELSE SubSeq(s, k + 1, N)
  <2>1. todo' = Tail(SubSeq(s, k, N))
    BY <1>4 DEF ForeachStep
  <2> HIDE DEF N
  <2> QED BY <1>2, <1>4, <2>1, RestFacts
<1>7. list' = list \/ \E j \in 1 .. k : list' = Deleted(list, s[j])
  <2> DEFINE v == list.cells[cursor].value
             at == {i \in 1 .. N : Items(list)[i] = v}
  <2>1. list' \in {list, Deleted(list, s[k]), Deleted(list, Find(list, v))}
    BY <1>4 DEF ForeachStep
  <2>2. Find(list, v) = IF at = {} THEN None ELSE NodesOf(list)[Min(at)]
    BY DEF Find
  <2>3. k \in at
    <3>1. Items(list) = [i \in 1 .. N |-> list.cells[s[i]].value]
      BY <1>1, RingItems
    <3> QED BY <1>4, <3>1
  <2>4. at \in SUBSET Nat
    BY <1>2
  <2> HIDE DEF at
  <2>5. Min(at) \in at /\ Min(at) <= k
    BY <2>3, <2>4, MinIsLeast
  <2>6. Min(at) \in 1 .. k /\ Find(list, v) = s[Min(at)]
    <3>1. Min(at) \in 1 .. N
      BY <2>5 DEF at
    <3> QED BY <1>1, <2>2, <2>3, <2>5, <3>1, RingNodes
  <2>7. k \in 1 .. k
    BY <1>4
  <2> QED BY <2>1, <2>6, <2>7
<1>8. ForeachComplete' /\ IsRing(list')
  <2>1. CASE list' = list
    <3>1. AtPlace(list', s, k + 1, cursor', todo') /\ k + 1 \in 1 .. N + 1
      BY <1>2, <1>4, <1>5, <1>6, <2>1 DEF AtPlace
    <3> QED BY <1>1, <2>1, <3>1, PlaceIsCompleteNext DEF IsRing
  <2>2. ASSUME NEW j \in 1 .. k, list' = Deleted(list, s[j])
        PROVE  ForeachComplete' /\ IsRing(list')
    <3> DEFINE t == Without(s, N, j)
    <3>1. j \in 1 .. N
      BY <1>2, <1>4
    <3>2. Ring(list', t) /\ list'.size = N - 1
      BY <1>1, <2>2, <3>1, DeletedRing
    <3>3. k # N => t[k] = s[k + 1]
      BY <1>2, <1>4 DEF Without
    <3>4. k # N => SubSeq(t, k, N - 1) = SubSeq(s, k + 1, N)
      <4> HIDE DEF N
      <4> SUFFICES ASSUME k # N PROVE SubSeq(t, k, N - 1) = SubSeq(s, k + 1, N)
        OBVIOUS
      <4>1. k \in 1 .. N - 1
        BY <1>2, <1>4
      <4> QED BY <1>2, <4>1, RestFacts
    <3> HIDE DEF t
    <3>5. AtPlace(list', t, k, cursor', todo') /\ k \in 1 .. list'.size + 1
      <4> HIDE DEF N
      <4>1. CASE k = N
        <5>1. k > list'.size /\ k \in 1 .. list'.size + 1
          BY <1>2, <1>4, <3>2, <4>1
        <5> QED BY <1>5, <1>6, <4>1, <5>1 DEF AtPlace
      <4>2. CASE k # N
        <5>1. ~(k > list'.size) /\ k \in 1 .. list'.size + 1
          BY <1>2, <1>4, <3>2, <4>2
        <5> QED BY <1>5, <1>6, <3>2, <3>3, <3>4, <4>2, <5>1 DEF AtPlace
      <4> QED BY <4>1, <4>2
    <3> QED BY <3>2, <3>5, PlaceIsCompleteNext DEF IsRing
  <2> QED BY <1>7, <2>1, <2>2
<1>9. cursor' \in Nodes \cup {None} /\ inForeach' \in BOOLEAN
  BY <1>2, <1>4, <1>5 DEF ForeachStep
<1> QED BY <1>8, <1>9 DEF ListInv

-----------------------------------------------------------------------------
(* Theorems                                                                *)

\* A call leaves foreach, which is not running, alone.
LEMMA CallKeeps ==
    ASSUME ListInv, Exact, ~inForeach, UNCHANGED <<cursor, inForeach, todo>>
    PROVE  ListInv'
BY DEF ListInv, Exact, ForeachComplete

\* Each step is a call, which is exact, or one of foreach.
LEMMA StepIsExact ==
    ASSUME ListInv, [ListNext]_listVars
    PROVE  \/ Exact /\ ~inForeach /\ UNCHANGED <<cursor, inForeach, todo>>
           \/ ForeachBegin \/ ForeachStep \/ ForeachEnd
           \/ UNCHANGED listVars
<1>1. CASE PopFront \/ PopBack
  BY <1>1, PopsExact DEF PopFront, PopBack, Do
<1>2. CASE ListClear
  BY <1>2, ClearExact DEF ListClear, Do
<1>3. ASSUME NEW n \in Positions, Erase(n)
      PROVE  Exact /\ ~inForeach /\ UNCHANGED <<cursor, inForeach, todo>>
  BY <1>3, EraseExact DEF Erase, Do
<1>4. ASSUME NEW v \in Values, PushBack(v) \/ PushFront(v)
      PROVE  Exact /\ ~inForeach /\ UNCHANGED <<cursor, inForeach, todo>>
  BY <1>4, PushesExact DEF PushBack, PushFront, Do
<1>5. ASSUME NEW v \in Values, EraseValue(v)
      PROVE  Exact /\ ~inForeach /\ UNCHANGED <<cursor, inForeach, todo>>
  BY <1>5, EraseValueExact DEF EraseValue, Do
<1>6. ASSUME NEW v \in Values, SortedInsertAsc(v) \/ SortedInsertDesc(v) \/ SortedInsertComp(v)
      PROVE  Exact /\ ~inForeach /\ UNCHANGED <<cursor, inForeach, todo>>
  <2>1. ~inForeach /\ UNCHANGED <<cursor, inForeach, todo>>
    BY <1>6 DEF SortedInsertAsc, SortedInsertDesc, SortedInsertComp, Do
  <2> QED BY <1>6, <2>1, SortedInsertsExact
<1>7. ASSUME NEW v \in Values, SortedReverseInsertAsc(v) \/ SortedReverseInsertDesc(v)
      PROVE  Exact /\ ~inForeach /\ UNCHANGED <<cursor, inForeach, todo>>
  <2>1. ~inForeach /\ UNCHANGED <<cursor, inForeach, todo>>
    BY <1>7 DEF SortedReverseInsertAsc, SortedReverseInsertDesc, Do
  <2> QED BY <1>7, <2>1, SortedReverseInsertsExact
<1>8. ASSUME NEW v \in Values, NEW pos \in Positions, Insert(pos, v) \/ InsertReverse(pos, v)
      PROVE  Exact /\ ~inForeach /\ UNCHANGED <<cursor, inForeach, todo>>
  BY <1>8, InsertsExact DEF Insert, InsertReverse, Do
<1> QED BY <1>1, <1>2, <1>3, <1>4, <1>5, <1>6, <1>7, <1>8 DEF ListNext

\* The list starts empty.
LEMMA InitListInv == ListInit => ListInv
<1> SUFFICES ASSUME ListInit PROVE ListInv
  OBVIOUS
<1>1. list = EmptyList /\ cursor = None /\ inForeach = FALSE
  BY DEF ListInit
<1> QED BY <1>1, EmptyRing DEF ListInv, ForeachComplete

\* Every step keeps the invariant.
LEMMA StepListInv == ListInv /\ [ListNext]_listVars => ListInv'
<1> SUFFICES ASSUME ListInv, [ListNext]_listVars PROVE ListInv'
  OBVIOUS
<1>1. CASE Exact /\ ~inForeach /\ UNCHANGED <<cursor, inForeach, todo>>
  BY <1>1, CallKeeps
<1>2. CASE ForeachBegin
  BY <1>2, BeginKeeps
<1>3. CASE ForeachStep
  BY <1>3, StepKeeps
<1>4. CASE ForeachEnd
  BY <1>4 DEF ForeachEnd, ListInv, ForeachComplete
<1>5. CASE UNCHANGED listVars
  <2>1. list' = list /\ cursor' = cursor /\ inForeach' = inForeach /\ todo' = todo
    BY <1>5 DEF listVars
  <2> QED BY <2>1 DEF ListInv, ForeachComplete
<1> QED BY <1>1, <1>2, <1>3, <1>4, <1>5, StepIsExact

\* The invariant holds in every reachable state.
LEMMA AlwaysListInv == ListSpec => []ListInv
BY InitListInv, StepListInv, PTL DEF ListSpec

\* The ring is closed both ways and holds exactly the allocated nodes, which
\* _size counts: no chain of calls leaks a node or links to a freed one.
THEOREM ListIsWellFormed == ListSpec => []ListWellFormed
<1>1. ListInv => ListWellFormed
  BY RingIsLinked DEF ListInv
<1> QED BY <1>1, AlwaysListInv, PTL

\* foreach visits what was in the list, in order, although the function it
\* calls erases elements, and never stands on a freed node.
THEOREM ForeachVisitsAll == ListSpec => []ForeachComplete
<1>1. ListInv => ForeachComplete
  BY DEF ListInv
<1> QED BY <1>1, AlwaysListInv, PTL

\* Every member function does to the sequence of values what its reference
\* says, for any values and any length.
THEOREM CallsAreExact == ListSpec => ListCallsExact
<1>1. ListInv /\ [ListNext]_listVars
        => [~inForeach /\ ~inForeach' => CallEffect(call', list, Items(list), Items(list'))]_listVars
  <2> SUFFICES ASSUME ListInv, [ListNext]_listVars, ~inForeach, ~inForeach',
                      ~UNCHANGED listVars
               PROVE  CallEffect(call', list, Items(list), Items(list'))
    OBVIOUS
  <2>1. ~ForeachBegin /\ ~ForeachStep /\ ~ForeachEnd
    BY DEF ForeachBegin, ForeachStep, ForeachEnd
  <2> QED BY <2>1, StepIsExact DEF Exact
<1> QED BY <1>1, AlwaysListInv, PTL DEF ListSpec, ListCallsExact

-----------------------------------------------------------------------------
(* Numbers and keys                                                        *)

\* The greater of two numbers.
MaxOf(a, b) == IF a < b THEN b ELSE a

\* The operator Max on two numbers.
LEMMA MaxOfTwo == \A a, b \in Nat : Max({a, b}) = MaxOf(a, b)
<1> SUFFICES ASSUME NEW a \in Nat, NEW b \in Nat PROVE Max({a, b}) = MaxOf(a, b)
  OBVIOUS
<1>1. \E x \in {a, b} : \A y \in {a, b} : x >= y
  <2>1. CASE a < b
    BY <2>1
  <2>2. CASE ~(a < b)
    BY <2>2
  <2> QED BY <2>1, <2>2
<1>2. Max({a, b}) \in {a, b} /\ \A y \in {a, b} : Max({a, b}) >= y
  BY <1>1 DEF Max
<1> QED BY <1>2 DEF MaxOf

\* The keys are positive.
LEMMA KeyFacts == Nil \notin Keys /\ Keys \subseteq Nat /\ Nil \in Links /\ Keys \subseteq Links
  BY KeysAssumption DEF Links

-----------------------------------------------------------------------------
(* The heap: what the functions that set fields make of heap h             *)

\* g is h, but for the parent of n.
ParentSet(g, h, D, n, p) ==
    /\ g \in [D -> Node]
    /\ \A x \in D : /\ g[x].left = h[x].left /\ g[x].right = h[x].right
                    /\ g[x].height = h[x].height
                    /\ g[x].parent = IF x = n THEN p ELSE h[x].parent
                    /\ x # n => g[x] = h[x]

\* g is h, but n has l for its left child, and l has n for its parent.
LeftSet(g, h, D, n, l) ==
    /\ g \in [D -> Node]
    /\ \A x \in D : /\ g[x].left = (IF x = n THEN l ELSE h[x].left)
                    /\ g[x].right = h[x].right
                    /\ g[x].height = h[x].height
                    /\ g[x].parent = (IF x = l THEN n ELSE h[x].parent)
                    /\ x \notin {n, l} => g[x] = h[x]

\* g is h, but n has r for its right child, and r has n for its parent.
RightSet(g, h, D, n, r) ==
    /\ g \in [D -> Node]
    /\ \A x \in D : /\ g[x].left = h[x].left
                    /\ g[x].right = (IF x = n THEN r ELSE h[x].right)
                    /\ g[x].height = h[x].height
                    /\ g[x].parent = (IF x = r THEN n ELSE h[x].parent)
                    /\ x \notin {n, r} => g[x] = h[x]

\* g is h, but the height of n is what those of its children make it.
HeightUpdated(g, h, D, n) ==
    /\ g \in [D -> Node]
    /\ \A x \in D : /\ g[x].left = h[x].left /\ g[x].right = h[x].right
                    /\ g[x].parent = h[x].parent
                    /\ x # n => g[x] = h[x]
    /\ g[n].height = MaxOf(Height(h, h[n].left), Height(h, h[n].right)) + 1

\* SetParent changes one field of one node, if there is one.
LEMMA SetParentFacts ==
    ASSUME NEW h, NEW D \in SUBSET Keys, h \in [D -> Node],
           NEW n \in D \cup {Nil}, NEW p \in Links
    PROVE  ParentSet(SetParent(h, n, p), h, D, n, p)
<1>1. CASE n = Nil
  BY <1>1, KeyFacts DEF SetParent, ParentSet
<1>2. CASE n # Nil
  BY <1>2 DEF SetParent, Node, ParentSet
<1> QED BY <1>1, <1>2

\* SetLeft links both ways.
LEMMA SetLeftFacts ==
    ASSUME NEW h, NEW D \in SUBSET Keys, h \in [D -> Node],
           NEW n \in D, NEW l \in D \cup {Nil}
    PROVE  LeftSet(SetLeft(h, n, l), h, D, n, l)
<1> DEFINE f == [h EXCEPT ![n].left = l]
<1>1. l \in Links /\ n \in Links
  BY KeyFacts DEF Links
<1>2. /\ f \in [D -> Node]
      /\ \A x \in D : /\ f[x].left = IF x = n THEN l ELSE h[x].left
                      /\ f[x].right = h[x].right /\ f[x].height = h[x].height
                      /\ f[x].parent = h[x].parent
                      /\ x # n => f[x] = h[x]
  BY <1>1 DEF Node
<1>3. SetLeft(h, n, l) = SetParent(f, l, n)
  BY DEF SetLeft
<1> HIDE DEF f
<1>4. ParentSet(SetParent(f, l, n), f, D, l, n)
  BY <1>1, <1>2, SetParentFacts
<1> QED BY <1>2, <1>3, <1>4 DEF ParentSet, LeftSet

\* So does SetRight.
LEMMA SetRightFacts ==
    ASSUME NEW h, NEW D \in SUBSET Keys, h \in [D -> Node],
           NEW n \in D, NEW r \in D \cup {Nil}
    PROVE  RightSet(SetRight(h, n, r), h, D, n, r)
<1> DEFINE f == [h EXCEPT ![n].right = r]
<1>1. r \in Links /\ n \in Links
  BY KeyFacts DEF Links
<1>2. /\ f \in [D -> Node]
      /\ \A x \in D : /\ f[x].right = IF x = n THEN r ELSE h[x].right
                      /\ f[x].left = h[x].left /\ f[x].height = h[x].height
                      /\ f[x].parent = h[x].parent
                      /\ x # n => f[x] = h[x]
  BY <1>1 DEF Node
<1>3. SetRight(h, n, r) = SetParent(f, r, n)
  BY DEF SetRight
<1> HIDE DEF f
<1>4. ParentSet(SetParent(f, r, n), f, D, r, n)
  BY <1>1, <1>2, SetParentFacts
<1> QED BY <1>2, <1>3, <1>4 DEF ParentSet, RightSet

\* Heights are naturals.
LEMMA HeightType ==
    ASSUME NEW h, NEW D \in SUBSET Keys, h \in [D -> Node], NEW n \in D \cup {Nil}
    PROVE  Height(h, n) \in Nat
BY KeyFacts DEF Height, Node

\* UpdateHeight stores the height that the children's heights give.
LEMMA UpdateHeightFacts ==
    ASSUME NEW h, NEW D \in SUBSET Keys, h \in [D -> Node], NEW n \in D,
           h[n].left \in D \cup {Nil}, h[n].right \in D \cup {Nil}
    PROVE  HeightUpdated(UpdateHeight(h, n), h, D, n)
<1> DEFINE new == Max({Height(h, h[n].left), Height(h, h[n].right)}) + 1
<1>1. Height(h, h[n].left) \in Nat /\ Height(h, h[n].right) \in Nat
  BY HeightType
<1>2. new = MaxOf(Height(h, h[n].left), Height(h, h[n].right)) + 1
  BY <1>1, MaxOfTwo
<1>3. new \in Nat
  BY <1>1, <1>2 DEF MaxOf
<1>4. UpdateHeight(h, n) = [h EXCEPT ![n].height = new]
  BY DEF UpdateHeight
<1> HIDE DEF new
<1> QED BY <1>2, <1>3, <1>4 DEF Node, HeightUpdated
-----------------------------------------------------------------------------
(* Subtrees                                                                *)

\* Heights that siblings may have.
Even(a, b) == a <= b + 1 /\ b <= a + 1

\* The stored height is right, and the node does not lean.
Level(h, x) ==
    /\ h[x].height = MaxOf(Height(h, h[x].left), Height(h, h[x].right)) + 1
    /\ Even(Height(h, h[x].left), Height(h, h[x].right))

\* The children of x know their parent.
KnownAbove(h, x) == /\ h[x].left # Nil => h[h[x].left].parent = x
                    /\ h[x].right # Nil => h[h[x].right].parent = x

\* t says which nodes each node of S has at or below it: as x should.
Hangs(h, S, t, x) ==
    /\ h[x].left \in S \cup {Nil} /\ h[x].right \in S \cup {Nil}
    /\ t[x] = t[h[x].left] \cup {x} \cup t[h[x].right]
    /\ \A y \in t[h[x].left] : y < x
    /\ \A y \in t[h[x].right] : x < y
    /\ \A y \in t[x] : t[y] \subseteq t[x]
    /\ KnownAbove(h, x)
    /\ Level(h, x)

\* As every node of S should.
Shape(h, S, t) ==
    /\ t \in [S \cup {Nil} -> SUBSET S] /\ t[Nil] = {}
    /\ \A x \in S : Hangs(h, S, t, x)

\* n is the root of an AVL tree of the nodes in S.  Its parent may be any.
IsTree(h, n, S) ==
    \/ n = Nil /\ S = {}
    \/ n \in S /\ \E t : Shape(h, S, t) /\ t[n] = S

\* x has the trees of A and B for its children, in order.
Joint(h, x, A, B) ==
    /\ IsTree(h, h[x].left, A) /\ IsTree(h, h[x].right, B)
    /\ \A y \in A : y < x
    /\ \A y \in B : x < y
    /\ KnownAbove(h, x)

\* No node is Nil, so only the empty tree is.
LEMMA TreeRoot ==
    ASSUME NEW h, NEW n, NEW S \in SUBSET Keys, IsTree(h, n, S)
    PROVE  n \in S \cup {Nil} /\ (n = Nil <=> S = {})
BY KeyFacts DEF IsTree

\* A level joint of two trees is a tree.
LEMMA Join ==
    ASSUME NEW h, NEW A \in SUBSET Keys, NEW B \in SUBSET Keys, NEW x \in Keys,
           Joint(h, x, A, B), Level(h, x)
    PROVE  IsTree(h, x, A \cup {x} \cup B)
<1> DEFINE S == A \cup {x} \cup B
           l == h[x].left
           r == h[x].right
<1>1. x \in Nat /\ A \subseteq Nat /\ B \subseteq Nat /\ Nil \notin S
  BY KeyFacts
<1>2. /\ x \notin A /\ x \notin B /\ A \cap B = {}
      /\ l \in A \cup {Nil} /\ r \in B \cup {Nil}
  BY <1>1, TreeRoot DEF Joint
<1>3. PICK ta : /\ ta \in [A \cup {Nil} -> SUBSET A] /\ ta[Nil] = {} /\ ta[l] = A
                /\ \A y \in A : Hangs(h, A, ta, y)
  <2>1. CASE l = Nil
    <3> DEFINE e == [y \in {Nil} |-> {}]
    <3>1. A = {}
      BY <2>1, TreeRoot DEF Joint
    <3>2. e \in [A \cup {Nil} -> SUBSET A] /\ e[Nil] = {} /\ e[l] = A
      BY <2>1, <3>1
    <3> HIDE DEF e
    <3> QED BY <3>1, <3>2
  <2>2. CASE l # Nil
    BY <2>2 DEF Joint, IsTree, Shape
  <2> QED BY <2>1, <2>2
<1>4. PICK tb : /\ tb \in [B \cup {Nil} -> SUBSET B] /\ tb[Nil] = {} /\ tb[r] = B
                /\ \A y \in B : Hangs(h, B, tb, y)
  <2>1. CASE r = Nil
    <3> DEFINE e == [y \in {Nil} |-> {}]
    <3>1. B = {}
      BY <2>1, TreeRoot DEF Joint
    <3>2. e \in [B \cup {Nil} -> SUBSET B] /\ e[Nil] = {} /\ e[r] = B
      BY <2>1, <3>1
    <3> HIDE DEF e
    <3> QED BY <3>1, <3>2
  <2>2. CASE r # Nil
    BY <2>2 DEF Joint, IsTree, Shape
  <2> QED BY <2>1, <2>2
<1> DEFINE t == [y \in S \cup {Nil} |->
                    IF y = x THEN S ELSE IF y \in A THEN ta[y] ELSE IF y \in B THEN tb[y] ELSE {}]
<1>5. t \in [S \cup {Nil} -> SUBSET S] /\ t[x] = S /\ t[Nil] = {}
  BY <1>1, <1>3, <1>4
<1>6. /\ \A y \in A \cup {Nil} : t[y] = ta[y]
      /\ \A y \in B \cup {Nil} : t[y] = tb[y]
  BY <1>1, <1>2, <1>3, <1>4
<1> HIDE DEF t
<1>7. \A y \in A : Hangs(h, S, t, y)
  <2> SUFFICES ASSUME NEW y \in A PROVE Hangs(h, S, t, y)
    OBVIOUS
  <2>1. Hangs(h, A, ta, y)
    BY <1>3
  <2>2. /\ h[y].left \in A \cup {Nil} /\ h[y].right \in A \cup {Nil}
        /\ ta[y] \subseteq A
    BY <1>3, <2>1 DEF Hangs
  <2> QED BY <1>6, <2>1, <2>2 DEF Hangs
<1>8. \A y \in B : Hangs(h, S, t, y)
  <2> SUFFICES ASSUME NEW y \in B PROVE Hangs(h, S, t, y)
    OBVIOUS
  <2>1. Hangs(h, B, tb, y)
    BY <1>4
  <2>2. /\ h[y].left \in B \cup {Nil} /\ h[y].right \in B \cup {Nil}
        /\ tb[y] \subseteq B
    BY <1>4, <2>1 DEF Hangs
  <2> QED BY <1>6, <2>1, <2>2 DEF Hangs
<1>9. Hangs(h, S, t, x)
  <2>1. t[l] = A /\ t[r] = B
    BY <1>2, <1>3, <1>4, <1>6
  <2>2. \A y \in S : t[y] \subseteq S
    BY <1>5
  <2> QED BY <1>2, <1>5, <2>1, <2>2 DEF Hangs, Joint
<1> QED BY <1>5, <1>7, <1>8, <1>9 DEF IsTree, Shape

\* The other way: a tree is its root, a level joint of two.
LEMMA Split ==
    ASSUME NEW h, NEW S \in SUBSET Keys, NEW x, x # Nil, IsTree(h, x, S)
    PROVE  /\ x \in S
           /\ Level(h, x)
           /\ \E A, B \in SUBSET S : Joint(h, x, A, B) /\ S = A \cup {x} \cup B
<1> DEFINE l == h[x].left
           r == h[x].right
           A == {y \in S : y < x}
           B == {y \in S : x < y}
<1>1. PICK t : x \in S /\ Shape(h, S, t) /\ t[x] = S
  BY DEF IsTree
<1>2. S \subseteq Nat /\ Nil \notin S
  BY KeyFacts
<1>3. /\ t \in [S \cup {Nil} -> SUBSET S] /\ t[Nil] = {}
      /\ \A y \in S : Hangs(h, S, t, y)
  BY <1>1 DEF Shape
<1>4. Hangs(h, S, t, x)
  BY <1>1, <1>3
<1>5. /\ l \in S \cup {Nil} /\ r \in S \cup {Nil} /\ S = t[l] \cup {x} \cup t[r]
      /\ \A y \in t[l] : y < x
      /\ \A y \in t[r] : x < y
      /\ KnownAbove(h, x) /\ Level(h, x)
  BY <1>1, <1>4 DEF Hangs
<1>6. t[l] = A /\ t[r] = B
  BY <1>2, <1>5
<1>7. ASSUME NEW c \in S \cup {Nil} PROVE IsTree(h, c, t[c])
  <2> DEFINE u == [y \in t[c] \cup {Nil} |-> t[y]]
  <2>1. CASE c = Nil
    BY <1>3, <2>1 DEF IsTree
  <2>2. CASE c # Nil
    <3>1. c \in S /\ Hangs(h, S, t, c)
      BY <1>3, <2>2
    <3>2. t[c] \subseteq S /\ c \in t[c] /\ \A y \in t[c] : t[y] \subseteq t[c]
      BY <1>3, <3>1 DEF Hangs
    <3>3. \A y \in t[c] : Hangs(h, t[c], u, y)
      <4> SUFFICES ASSUME NEW y \in t[c] PROVE Hangs(h, t[c], u, y)
        OBVIOUS
      <4>1. y \in S /\ Hangs(h, S, t, y) /\ t[y] \subseteq t[c]
        BY <1>3, <3>2
      <4>2. /\ h[y].left \in S \cup {Nil} /\ h[y].right \in S \cup {Nil}
            /\ t[y] = t[h[y].left] \cup {y} \cup t[h[y].right]
        BY <4>1 DEF Hangs
      <4>3. \A d \in S : d \in t[d]
        BY <1>3 DEF Hangs
      <4>4. h[y].left \in t[c] \cup {Nil} /\ h[y].right \in t[c] \cup {Nil}
        BY <4>1, <4>2, <4>3
      <4>5. /\ u[y] = t[y] /\ u[h[y].left] = t[h[y].left] /\ u[h[y].right] = t[h[y].right]
            /\ \A z \in t[y] : u[z] = t[z]
        BY <4>1, <4>4
      <4> HIDE DEF u
      <4> QED BY <4>1, <4>4, <4>5 DEF Hangs
    <3>4. u \in [t[c] \cup {Nil} -> SUBSET t[c]] /\ u[Nil] = {} /\ u[c] = t[c]
      BY <1>3, <3>2
    <3> HIDE DEF u
    <3> QED BY <3>2, <3>3, <3>4 DEF IsTree, Shape
  <2> QED BY <2>1, <2>2
<1>8. IsTree(h, l, A) /\ IsTree(h, r, B)
  BY <1>5, <1>6, <1>7
<1>9. Joint(h, x, A, B) /\ S = A \cup {x} \cup B
  BY <1>5, <1>6, <1>8 DEF Joint
<1> HIDE DEF A, B
<1>10. A \in SUBSET S /\ B \in SUBSET S
  BY <1>9
<1> QED BY <1>1, <1>5, <1>9, <1>10

\* Only the fields of its nodes make a tree, without the root's parent.
LEMMA Frame ==
    ASSUME NEW h, NEW g, NEW n, NEW S \in SUBSET Keys, IsTree(h, n, S),
           \A x \in S : /\ g[x].left = h[x].left /\ g[x].right = h[x].right
                        /\ g[x].height = h[x].height
                        /\ x # n => g[x].parent = h[x].parent
    PROVE  IsTree(g, n, S) /\ Height(g, n) = Height(h, n)
<1>1. CASE n = Nil
  BY <1>1, KeyFacts DEF IsTree, Height
<1>2. CASE n # Nil
  <2>1. PICK t : n \in S /\ Shape(h, S, t) /\ t[n] = S
    BY <1>2 DEF IsTree
  <2>2. S \subseteq Nat /\ Nil \notin S
    BY KeyFacts
  <2>3. \A c \in S \cup {Nil} : Height(g, c) = Height(h, c)
    BY DEF Height
  <2>4. ASSUME NEW x \in S PROVE Hangs(g, S, t, x)
    <3>1. Hangs(h, S, t, x)
      BY <2>1 DEF Shape
    <3>2. h[x].left \in S \cup {Nil} /\ h[x].right \in S \cup {Nil}
      BY <3>1 DEF Hangs
    <3>3. h[x].left # n /\ h[x].right # n
      BY <2>1, <2>2, <3>1 DEF Hangs
    <3>4. KnownAbove(g, x) /\ Level(g, x)
      BY <2>3, <3>1, <3>2, <3>3 DEF Hangs, KnownAbove, Level
    <3> QED BY <3>1, <3>4 DEF Hangs
  <2> QED BY <2>1, <2>3, <2>4 DEF IsTree, Shape
<1> QED BY <1>1, <1>2
-----------------------------------------------------------------------------
(* Rotation                                                                *)

\* rotate_right: what it makes of the two nodes and of the inner child.
RotatedRight(g, h, D, n, l) ==
    /\ g \in [D -> Node]
    /\ g[l].left = h[l].left /\ g[l].right = n
    /\ g[n].left = h[l].right /\ g[n].right = h[n].right
    /\ g[l].parent = h[l].parent
    /\ g[n].height = MaxOf(Height(h, h[l].right), Height(h, h[n].right)) + 1
    /\ g[l].height = MaxOf(Height(h, h[l].left), g[n].height) + 1
    /\ g[n].parent = l
    /\ \A x \in D \ {n, l} :
         /\ g[x].left = h[x].left /\ g[x].right = h[x].right /\ g[x].height = h[x].height
         /\ g[x].parent = (IF x = h[l].right THEN n ELSE h[x].parent)
         /\ x # h[l].right => g[x] = h[x]

\* What the assignments of rotate_right come to.
LEMMA RotateRightFacts ==
    ASSUME NEW h, NEW D \in SUBSET Keys, h \in [D -> Node],
           NEW n \in D, NEW l \in D, l = h[n].left, n # l,
           h[l].left \in (D \cup {Nil}) \ {n, l}, h[l].right \in (D \cup {Nil}) \ {n, l},
           h[n].right \in (D \cup {Nil}) \ {n, l}
    PROVE  /\ RotateRight(h, n).node = l
           /\ RotatedRight(RotateRight(h, n).heap, h, D, n, l)
<1> DEFINE h1 == SetLeft(h, n, h[l].right)
           h2 == SetRight(h1, l, n)
           h3 == UpdateHeight(h2, n)
           h4 == UpdateHeight(h3, l)
<1>1. RotateRight(h, n) = [heap |-> h4, node |-> l]
  BY DEF RotateRight
<1>2. LeftSet(h1, h, D, n, h[l].right)
  BY SetLeftFacts
<1> HIDE DEF h1
<1>3. RightSet(h2, h1, D, l, n)
  BY <1>2, SetRightFacts DEF LeftSet
<1> HIDE DEF h2
<1>4. Nil \notin D
  BY KeyFacts
<1>5. /\ h2 \in [D -> Node]
      /\ h2[n].left = h[l].right /\ h2[n].right = h[n].right /\ h2[n].parent = l
      /\ h2[l].left = h[l].left /\ h2[l].right = n /\ h2[l].parent = h[l].parent
      /\ \A x \in D : h2[x].height = h[x].height
      /\ \A x \in D \ {n, l} :
           /\ h2[x].left = h[x].left /\ h2[x].right = h[x].right
           /\ h2[x].parent = (IF x = h[l].right THEN n ELSE h[x].parent)
           /\ x # h[l].right => h2[x] = h[x]
  BY <1>2, <1>3, <1>4 DEF LeftSet, RightSet
<1>6. HeightUpdated(h3, h2, D, n)
  BY <1>5, UpdateHeightFacts
<1> HIDE DEF h3
<1>7. HeightUpdated(h4, h3, D, l)
  <2>1. h3 \in [D -> Node] /\ h3[l].left \in D \cup {Nil} /\ h3[l].right \in D \cup {Nil}
    BY <1>5, <1>6 DEF HeightUpdated
  <2> QED BY <2>1, UpdateHeightFacts
<1> HIDE DEF h4
<1>8. h3[n].height = MaxOf(Height(h, h[l].right), Height(h, h[n].right)) + 1
  <2>1. \A c \in D \cup {Nil} : Height(h2, c) = Height(h, c)
    BY <1>5 DEF Height
  <2>2. \A a, b \in D \cup {Nil} :
           MaxOf(Height(h, a), Height(h, b)) = MaxOf(Height(h, b), Height(h, a))
    BY HeightType DEF MaxOf
  <2> QED BY <1>5, <1>6, <2>1, <2>2 DEF HeightUpdated
<1>9. h4[l].height = MaxOf(Height(h, h[l].left), h3[n].height) + 1
  <2>1. Height(h3, h3[l].left) = Height(h, h[l].left)
    BY <1>5, <1>6 DEF Height, HeightUpdated
  <2>2. Height(h3, h3[l].right) = h3[n].height
    BY <1>4, <1>5, <1>6 DEF Height, HeightUpdated
  <2>3. Height(h, h[l].left) \in Nat /\ h3[n].height \in Nat
    BY <1>6, HeightType DEF HeightUpdated, Node
  <2>4. MaxOf(Height(h, h[l].left), h3[n].height) = MaxOf(h3[n].height, Height(h, h[l].left))
    BY <2>3 DEF MaxOf
  <2> QED BY <1>7, <2>1, <2>2, <2>4 DEF HeightUpdated
<1>10. RotatedRight(h4, h, D, n, l)
  BY <1>5, <1>6, <1>7, <1>8, <1>9 DEF HeightUpdated, RotatedRight
<1> QED BY <1>1, <1>10

\* The trees that it leaves: that of the lower node, if it is level, and the
\* outer one of the upper node.
TreesLeftRight(g, h, D, n, l, A, B, C) ==
    /\ RotatedRight(g, h, D, n, l)
    /\ IsTree(g, n, B \cup {n} \cup C)
    /\ IsTree(g, h[l].left, A)
    /\ Height(g, h[l].left) = Height(h, h[l].left)
    /\ KnownAbove(g, l)
    /\ \A x \in D \ (A \cup B \cup C \cup {l, n}) : g[x] = h[x]

\* A, B and C hang below n and its left child l, from left to right.
CanRotateRight(h, n, l, A, B, C) ==
    /\ l = h[n].left
    /\ IsTree(h, h[l].left, A) /\ IsTree(h, h[l].right, B) /\ IsTree(h, h[n].right, C)
    /\ \A y \in A : y < l
    /\ \A y \in B : l < y /\ y < n
    /\ \A y \in C : n < y
    /\ l < n
    /\ h[l].left # Nil => h[h[l].left].parent = l
    /\ h[n].right # Nil => h[h[n].right].parent = n
    /\ Even(Height(h, h[l].right), Height(h, h[n].right))

\* rotate_right keeps the three trees and makes one of the inner and the outer
\* one, below n.
LEMMA RotateRightTrees ==
    ASSUME NEW h, NEW D \in SUBSET Keys, h \in [D -> Node], NEW n \in D, NEW l \in D,
           NEW A \in SUBSET D, NEW B \in SUBSET D, NEW C \in SUBSET D,
           CanRotateRight(h, n, l, A, B, C)
    PROVE  /\ RotateRight(h, n).node = l
           /\ TreesLeftRight(RotateRight(h, n).heap, h, D, n, l, A, B, C)
<1> USE DEF CanRotateRight
<1> DEFINE g == RotateRight(h, n).heap
<1>1. D \subseteq Nat /\ Nil \notin D
  BY KeyFacts
<1>2. /\ h[l].left \in A \cup {Nil} /\ h[l].right \in B \cup {Nil}
      /\ h[n].right \in C \cup {Nil}
  BY TreeRoot
<1>3. /\ n # l /\ n \notin A \cup B \cup C /\ l \notin A \cup B \cup C
      /\ A \cap B = {} /\ A \cap C = {} /\ B \cap C = {}
  BY <1>1
<1>4. RotateRight(h, n).node = l /\ RotatedRight(g, h, D, n, l)
  <2>1. /\ h[l].left \in (D \cup {Nil}) \ {n, l} /\ h[l].right \in (D \cup {Nil}) \ {n, l}
        /\ h[n].right \in (D \cup {Nil}) \ {n, l}
    BY <1>1, <1>2, <1>3
  <2> HIDE DEF g
  <2>2. RotateRight(h, n).node = l /\ RotatedRight(RotateRight(h, n).heap, h, D, n, l)
    BY <1>3, <2>1, RotateRightFacts
  <2> QED BY <2>2 DEF g
<1> HIDE DEF g
<1>5. IsTree(g, h[l].left, A) /\ Height(g, h[l].left) = Height(h, h[l].left)
  BY <1>1, <1>2, <1>3, <1>4, Frame DEF RotatedRight
<1>6. IsTree(g, h[l].right, B) /\ Height(g, h[l].right) = Height(h, h[l].right)
  BY <1>1, <1>2, <1>3, <1>4, Frame DEF RotatedRight
<1>7. IsTree(g, h[n].right, C) /\ Height(g, h[n].right) = Height(h, h[n].right)
  BY <1>1, <1>2, <1>3, <1>4, Frame DEF RotatedRight
<1>8. KnownAbove(g, n) /\ KnownAbove(g, l)
  <2>1. n # Nil /\ l # Nil /\ n \in D /\ l \in D
    BY <1>1
  <2>2. KnownAbove(g, n)
    <3>1. h[l].right # Nil => g[h[l].right].parent = n
      BY <1>2, <1>3, <1>4 DEF RotatedRight
    <3>2. h[n].right # Nil => g[h[n].right].parent = n
      BY <1>2, <1>3, <1>4 DEF RotatedRight
    <3> QED BY <1>4, <3>1, <3>2 DEF RotatedRight, KnownAbove
  <2>3. KnownAbove(g, l)
    <3>1. h[l].left # Nil => g[h[l].left].parent = l
      BY <1>2, <1>3, <1>4 DEF RotatedRight
    <3> QED BY <1>4, <3>1 DEF RotatedRight, KnownAbove
  <2> QED BY <2>2, <2>3
<1>9. Joint(g, n, B, C)
  BY <1>4, <1>6, <1>7, <1>8 DEF RotatedRight, Joint
<1>10. Level(g, n)
  <2>1. Height(h, h[l].right) \in Nat /\ Height(h, h[n].right) \in Nat
    BY <1>2, HeightType
  <2> QED BY <1>4, <1>6, <1>7, <2>1 DEF RotatedRight, Level, Even, MaxOf
<1>11. IsTree(g, n, B \cup {n} \cup C)
  <2>1. n \in Keys /\ B \in SUBSET Keys /\ C \in SUBSET Keys
    OBVIOUS
  <2>2. IsTree(g, n, B \cup {n} \cup C)
    BY <1>9, <1>10, <2>1, Join
  <2>3. B \cup {n} \cup C = B \cup {n} \cup C
    OBVIOUS
  <2> QED BY <2>2, <2>3
<1>12. \A x \in D \ (A \cup B \cup C \cup {l, n}) : g[x] = h[x]
  BY <1>2, <1>4, <1>1 DEF RotatedRight
<1> QED BY <1>4, <1>5, <1>8, <1>11, <1>12 DEF g, TreesLeftRight

\* rotate_left: what it makes of the two nodes and of the inner child.
RotatedLeft(g, h, D, n, r) ==
    /\ g \in [D -> Node]
    /\ g[r].right = h[r].right /\ g[r].left = n
    /\ g[n].right = h[r].left /\ g[n].left = h[n].left
    /\ g[r].parent = h[r].parent
    /\ g[n].height = MaxOf(Height(h, h[r].left), Height(h, h[n].left)) + 1
    /\ g[r].height = MaxOf(Height(h, h[r].right), g[n].height) + 1
    /\ g[n].parent = r
    /\ \A x \in D \ {n, r} :
         /\ g[x].left = h[x].left /\ g[x].right = h[x].right /\ g[x].height = h[x].height
         /\ g[x].parent = (IF x = h[r].left THEN n ELSE h[x].parent)
         /\ x # h[r].left => g[x] = h[x]

\* What the assignments of rotate_left come to.
LEMMA RotateLeftFacts ==
    ASSUME NEW h, NEW D \in SUBSET Keys, h \in [D -> Node],
           NEW n \in D, NEW r \in D, r = h[n].right, n # r,
           h[r].right \in (D \cup {Nil}) \ {n, r}, h[r].left \in (D \cup {Nil}) \ {n, r},
           h[n].left \in (D \cup {Nil}) \ {n, r}
    PROVE  /\ RotateLeft(h, n).node = r
           /\ RotatedLeft(RotateLeft(h, n).heap, h, D, n, r)
<1> DEFINE h1 == SetRight(h, n, h[r].left)
           h2 == SetLeft(h1, r, n)
           h3 == UpdateHeight(h2, n)
           h4 == UpdateHeight(h3, r)
<1>1. RotateLeft(h, n) = [heap |-> h4, node |-> r]
  BY DEF RotateLeft
<1>2. RightSet(h1, h, D, n, h[r].left)
  BY SetRightFacts
<1> HIDE DEF h1
<1>3. LeftSet(h2, h1, D, r, n)
  BY <1>2, SetLeftFacts DEF RightSet
<1> HIDE DEF h2
<1>4. Nil \notin D
  BY KeyFacts
<1>5. /\ h2 \in [D -> Node]
      /\ h2[n].right = h[r].left /\ h2[n].left = h[n].left /\ h2[n].parent = r
      /\ h2[r].right = h[r].right /\ h2[r].left = n /\ h2[r].parent = h[r].parent
      /\ \A x \in D : h2[x].height = h[x].height
      /\ \A x \in D \ {n, r} :
           /\ h2[x].left = h[x].left /\ h2[x].right = h[x].right
           /\ h2[x].parent = (IF x = h[r].left THEN n ELSE h[x].parent)
           /\ x # h[r].left => h2[x] = h[x]
  BY <1>2, <1>3, <1>4 DEF RightSet, LeftSet
<1>6. HeightUpdated(h3, h2, D, n)
  BY <1>5, UpdateHeightFacts
<1> HIDE DEF h3
<1>7. HeightUpdated(h4, h3, D, r)
  <2>1. h3 \in [D -> Node] /\ h3[r].left \in D \cup {Nil} /\ h3[r].right \in D \cup {Nil}
    BY <1>5, <1>6 DEF HeightUpdated
  <2> QED BY <2>1, UpdateHeightFacts
<1> HIDE DEF h4
<1>8. h3[n].height = MaxOf(Height(h, h[r].left), Height(h, h[n].left)) + 1
  <2>1. \A c \in D \cup {Nil} : Height(h2, c) = Height(h, c)
    BY <1>5 DEF Height
  <2>2. \A a, b \in D \cup {Nil} :
           MaxOf(Height(h, a), Height(h, b)) = MaxOf(Height(h, b), Height(h, a))
    BY HeightType DEF MaxOf
  <2> QED BY <1>5, <1>6, <2>1, <2>2 DEF HeightUpdated
<1>9. h4[r].height = MaxOf(Height(h, h[r].right), h3[n].height) + 1
  <2>1. Height(h3, h3[r].right) = Height(h, h[r].right)
    BY <1>5, <1>6 DEF Height, HeightUpdated
  <2>2. Height(h3, h3[r].left) = h3[n].height
    BY <1>4, <1>5, <1>6 DEF Height, HeightUpdated
  <2>3. Height(h, h[r].right) \in Nat /\ h3[n].height \in Nat
    BY <1>6, HeightType DEF HeightUpdated, Node
  <2>4. MaxOf(Height(h, h[r].right), h3[n].height) = MaxOf(h3[n].height, Height(h, h[r].right))
    BY <2>3 DEF MaxOf
  <2> QED BY <1>7, <2>1, <2>2, <2>4 DEF HeightUpdated
<1>10. RotatedLeft(h4, h, D, n, r)
  BY <1>5, <1>6, <1>7, <1>8, <1>9 DEF HeightUpdated, RotatedLeft
<1> QED BY <1>1, <1>10

\* The trees that it leaves: that of the lower node, if it is level, and the
\* outer one of the upper node.
TreesLeftLeft(g, h, D, n, r, A, B, C) ==
    /\ RotatedLeft(g, h, D, n, r)
    /\ IsTree(g, n, B \cup {n} \cup C)
    /\ IsTree(g, h[r].right, A)
    /\ Height(g, h[r].right) = Height(h, h[r].right)
    /\ KnownAbove(g, r)
    /\ \A x \in D \ (A \cup B \cup C \cup {r, n}) : g[x] = h[x]

\* C, B and A hang below n and its right child r, from left to right.
CanRotateLeft(h, n, r, A, B, C) ==
    /\ r = h[n].right
    /\ IsTree(h, h[r].right, A) /\ IsTree(h, h[r].left, B) /\ IsTree(h, h[n].left, C)
    /\ \A y \in A : r < y
    /\ \A y \in B : y < r /\ n < y
    /\ \A y \in C : y < n
    /\ n < r
    /\ h[r].right # Nil => h[h[r].right].parent = r
    /\ h[n].left # Nil => h[h[n].left].parent = n
    /\ Even(Height(h, h[r].left), Height(h, h[n].left))

\* rotate_left keeps the three trees and makes one of the inner and the outer
\* one, below n.
LEMMA RotateLeftTrees ==
    ASSUME NEW h, NEW D \in SUBSET Keys, h \in [D -> Node], NEW n \in D, NEW r \in D,
           NEW A \in SUBSET D, NEW B \in SUBSET D, NEW C \in SUBSET D,
           CanRotateLeft(h, n, r, A, B, C)
    PROVE  /\ RotateLeft(h, n).node = r
           /\ TreesLeftLeft(RotateLeft(h, n).heap, h, D, n, r, A, B, C)
<1> USE DEF CanRotateLeft
<1> DEFINE g == RotateLeft(h, n).heap
<1>1. D \subseteq Nat /\ Nil \notin D
  BY KeyFacts
<1>2. /\ h[r].right \in A \cup {Nil} /\ h[r].left \in B \cup {Nil}
      /\ h[n].left \in C \cup {Nil}
  BY TreeRoot
<1>3. /\ n # r /\ n \notin A \cup B \cup C /\ r \notin A \cup B \cup C
      /\ A \cap B = {} /\ A \cap C = {} /\ B \cap C = {}
  BY <1>1
<1>4. RotateLeft(h, n).node = r /\ RotatedLeft(g, h, D, n, r)
  <2>1. /\ h[r].right \in (D \cup {Nil}) \ {n, r} /\ h[r].left \in (D \cup {Nil}) \ {n, r}
        /\ h[n].left \in (D \cup {Nil}) \ {n, r}
    BY <1>1, <1>2, <1>3
  <2> HIDE DEF g
  <2>2. RotateLeft(h, n).node = r /\ RotatedLeft(RotateLeft(h, n).heap, h, D, n, r)
    BY <1>3, <2>1, RotateLeftFacts
  <2> QED BY <2>2 DEF g
<1> HIDE DEF g
<1>5. IsTree(g, h[r].right, A) /\ Height(g, h[r].right) = Height(h, h[r].right)
  BY <1>1, <1>2, <1>3, <1>4, Frame DEF RotatedLeft
<1>6. IsTree(g, h[r].left, B) /\ Height(g, h[r].left) = Height(h, h[r].left)
  BY <1>1, <1>2, <1>3, <1>4, Frame DEF RotatedLeft
<1>7. IsTree(g, h[n].left, C) /\ Height(g, h[n].left) = Height(h, h[n].left)
  BY <1>1, <1>2, <1>3, <1>4, Frame DEF RotatedLeft
<1>8. KnownAbove(g, n) /\ KnownAbove(g, r)
  <2>1. n # Nil /\ r # Nil /\ n \in D /\ r \in D
    BY <1>1
  <2>2. KnownAbove(g, n)
    <3>1. h[r].left # Nil => g[h[r].left].parent = n
      BY <1>2, <1>3, <1>4 DEF RotatedLeft
    <3>2. h[n].left # Nil => g[h[n].left].parent = n
      BY <1>2, <1>3, <1>4 DEF RotatedLeft
    <3> QED BY <1>4, <3>1, <3>2 DEF RotatedLeft, KnownAbove
  <2>3. KnownAbove(g, r)
    <3>1. h[r].right # Nil => g[h[r].right].parent = r
      BY <1>2, <1>3, <1>4 DEF RotatedLeft
    <3> QED BY <1>4, <3>1 DEF RotatedLeft, KnownAbove
  <2> QED BY <2>2, <2>3
<1>9. Joint(g, n, C, B)
  BY <1>4, <1>6, <1>7, <1>8 DEF RotatedLeft, Joint
<1>10. Level(g, n)
  <2>1. Height(h, h[r].left) \in Nat /\ Height(h, h[n].left) \in Nat
    BY <1>2, HeightType
  <2> QED BY <1>4, <1>6, <1>7, <2>1 DEF RotatedLeft, Level, Even, MaxOf
<1>11. IsTree(g, n, B \cup {n} \cup C)
  <2>1. n \in Keys /\ B \in SUBSET Keys /\ C \in SUBSET Keys
    OBVIOUS
  <2>2. IsTree(g, n, C \cup {n} \cup B)
    BY <1>9, <1>10, <2>1, Join
  <2>3. C \cup {n} \cup B = B \cup {n} \cup C
    OBVIOUS
  <2> QED BY <2>2, <2>3
<1>12. \A x \in D \ (A \cup B \cup C \cup {r, n}) : g[x] = h[x]
  BY <1>2, <1>4, <1>1 DEF RotatedLeft
<1> QED BY <1>4, <1>5, <1>8, <1>11, <1>12 DEF g, TreesLeftLeft
-----------------------------------------------------------------------------
(* Rebalancing                                                             *)

\* res is a heap with a tree of S, whose children had heights a and b.
Rebalanced(res, h, D, S, a, b) ==
    /\ res.heap \in [D -> Node] /\ IsTree(res.heap, res.node, S)
    /\ Height(res.heap, res.node) \in {MaxOf(a, b), MaxOf(a, b) + 1}
    /\ Even(a, b) => Height(res.heap, res.node) = MaxOf(a, b) + 1
    /\ \A x \in D \ S : res.heap[x] = h[x]

\* A node that is not Nil has a height of one at least.
LEMMA TreeHeight ==
    ASSUME NEW h, NEW D \in SUBSET Keys, h \in [D -> Node], NEW S \in SUBSET D,
           NEW n, IsTree(h, n, S)
    PROVE  /\ Height(h, n) \in Nat
           /\ Height(h, n) = 0 <=> n = Nil
           /\ n # Nil => n \in S /\ Height(h, n) = h[n].height
<1>1. n \in S \cup {Nil} /\ n \in D \cup {Nil}
  BY TreeRoot
<1>2. CASE n = Nil
  BY <1>2 DEF Height
<1>3. CASE n # Nil
  <2>1. S \in SUBSET Keys
    OBVIOUS
  <2>2. PICK A, B \in SUBSET S : Level(h, n) /\ Joint(h, n, A, B) /\ n \in S
    BY <1>3, <2>1, Split
  <2>3. h[n].left \in D \cup {Nil} /\ h[n].right \in D \cup {Nil}
    <3>1. A \in SUBSET Keys /\ B \in SUBSET Keys
      OBVIOUS
    <3> QED BY <2>2, <3>1, TreeRoot DEF Joint
  <2>4. Height(h, h[n].left) \in Nat /\ Height(h, h[n].right) \in Nat
    BY <2>3, HeightType
  <2> QED BY <1>3, <2>2, <2>4 DEF Level, MaxOf, Height
<1> QED BY <1>2, <1>3

\* The left child is two higher, and so is its own left child: one rotation.
LEMMA SingleRight ==
    ASSUME NEW h, NEW D \in SUBSET Keys, h \in [D -> Node],
           NEW n \in D, NEW A \in SUBSET D, NEW B \in SUBSET D, Joint(h, n, A, B),
           NEW l, l = h[n].left, NEW r, r = h[n].right, Height(h, l) = Height(h, r) + 2,
           Height(h, h[l].left) >= Height(h, h[l].right)
    PROVE  Rebalanced(RotateRight(h, n), h, D, A \cup {n} \cup B, Height(h, l), Height(h, r))
<1> DEFINE b == Height(h, r)
           u == Height(h, h[l].left)
           v == Height(h, h[l].right)
           g == RotateRight(h, n).heap
<1>1. IsTree(h, l, A) /\ IsTree(h, r, B)
  BY DEF Joint
<1>2. b \in Nat /\ l # Nil /\ l \in A /\ Height(h, l) = h[l].height
  BY <1>1, TreeHeight
<1>3. PICK A1, A2 \in SUBSET A : Joint(h, l, A1, A2) /\ Level(h, l) /\ A = A1 \cup {l} \cup A2
  <2>1. A \in SUBSET Keys
    OBVIOUS
  <2>2. Level(h, l) /\ \E C, E \in SUBSET A : Joint(h, l, C, E) /\ A = C \cup {l} \cup E
    BY <1>1, <1>2, <2>1, Split
  <2> QED BY <2>2
<1>4. /\ IsTree(h, h[l].left, A1) /\ IsTree(h, h[l].right, A2)
      /\ A1 \in SUBSET D /\ A2 \in SUBSET D
  BY <1>3 DEF Joint
<1>5. u \in Nat /\ v \in Nat
  BY <1>4, TreeHeight
<1>6. u = b + 1 /\ v \in {b, b + 1}
  BY <1>2, <1>3, <1>5 DEF Level, Even, MaxOf
<1>7. D \subseteq Nat
  BY KeyFacts
<1>8. /\ RotateRight(h, n).node = l
      /\ RotatedRight(g, h, D, n, l)
      /\ IsTree(g, n, A2 \cup {n} \cup B)
      /\ IsTree(g, h[l].left, A1)
      /\ Height(g, h[l].left) = u
      /\ KnownAbove(g, l)
      /\ \A x \in D \ (A1 \cup A2 \cup B \cup {l, n}) : g[x] = h[x]
  <2>1. /\ \A y \in A : y < n
        /\ \A y \in B : n < y
        /\ h[r].parent = n \/ r = Nil
        /\ h[l].left # Nil => h[h[l].left].parent = l
    BY <1>3 DEF Joint, KnownAbove
  <2>2. Even(v, b)
    BY <1>2, <1>6 DEF Even
  <2>3. /\ l \in D /\ l < n
        /\ \A y \in A1 : y < l
        /\ \A y \in A2 : l < y /\ y < n
    BY <1>2, <1>3, <2>1 DEF Joint
  <2> HIDE DEF g, v, b, u
  <2>4. RotateRight(h, n).node = l /\ TreesLeftRight(RotateRight(h, n).heap, h, D, n, l, A1, A2, B)
    <3>1. Even(Height(h, h[l].right), Height(h, h[n].right))
      BY <2>2 DEF v, b
    <3>2. h[n].right # Nil => h[h[n].right].parent = n
      BY <2>1
    <3>3. CanRotateRight(h, n, l, A1, A2, B)
      BY <1>1, <1>4, <2>1, <2>3, <3>1, <3>2 DEF CanRotateRight
    <3>4. l \in D /\ A1 \in SUBSET D /\ A2 \in SUBSET D
      BY <1>4, <2>3
    <3> QED BY <3>3, <3>4, RotateRightTrees
  <2> QED BY <2>4 DEF g, TreesLeftRight, u
<1> DEFINE w == MaxOf(v, b) + 1
<1>9. w \in {b + 1, b + 2}
  BY <1>2, <1>6 DEF MaxOf
<1> HIDE DEF g
<1>10. n # l /\ n # Nil
  BY <1>2, <1>7, KeyFacts DEF Joint
<1>11. g[l].left = h[l].left /\ g[l].right = n /\ Height(g, n) = w /\ g[l].height = MaxOf(u, w) + 1
  BY <1>8, <1>10 DEF RotatedRight, Height
<1> HIDE DEF w, u, v, b
<1>12. Joint(g, l, A1, A2 \cup {n} \cup B)
  <2>1. \A y \in A2 \cup {n} \cup B : l < y
    <3>1. l < n /\ (\A y \in B : n < y) /\ \A y \in A2 : l < y
      BY <1>2, <1>3 DEF Joint
    <3> QED BY <1>2, <1>7, <3>1
  <2>2. \A y \in A1 : y < l
    BY <1>3 DEF Joint
  <2> QED BY <1>8, <1>11, <2>1, <2>2 DEF Joint
<1>13. Level(g, l) /\ g[l].height \in {b + 2, b + 3}
  BY <1>2, <1>6, <1>8, <1>9, <1>11 DEF Level, Even, MaxOf
<1>14. IsTree(g, l, A \cup {n} \cup B)
  <2>1. A1 \in SUBSET Keys /\ A2 \cup {n} \cup B \in SUBSET Keys /\ l \in Keys
    BY <1>2, <1>4
  <2>2. A1 \cup {l} \cup (A2 \cup {n} \cup B) = A \cup {n} \cup B
    BY <1>3
  <2>3. IsTree(g, l, A1 \cup {l} \cup (A2 \cup {n} \cup B))
    BY <1>12, <1>13, <2>1, Join
  <2> QED BY <2>2, <2>3
<1>15. Height(g, l) \in {b + 2, b + 3}
  BY <1>2, <1>13 DEF Height
<1>16. ~Even(Height(h, l), b) /\ MaxOf(Height(h, l), b) = b + 2
  BY <1>2 DEF Even, MaxOf, b
<1>17. \A x \in D \ (A \cup {n} \cup B) : g[x] = h[x]
  BY <1>3, <1>8
<1>18. g \in [D -> Node]
  BY <1>8 DEF RotatedRight
<1> QED BY <1>2, <1>8, <1>14, <1>15, <1>16, <1>17, <1>18 DEF Rebalanced, g, b

\* The right child is two higher, and so is its own right child: one rotation.
LEMMA SingleLeft ==
    ASSUME NEW h, NEW D \in SUBSET Keys, h \in [D -> Node],
           NEW n \in D, NEW A \in SUBSET D, NEW B \in SUBSET D, Joint(h, n, B, A),
           NEW r, r = h[n].right, NEW l, l = h[n].left, Height(h, r) = Height(h, l) + 2,
           Height(h, h[r].right) >= Height(h, h[r].left)
    PROVE  Rebalanced(RotateLeft(h, n), h, D, A \cup {n} \cup B, Height(h, r), Height(h, l))
<1> DEFINE b == Height(h, l)
           u == Height(h, h[r].right)
           v == Height(h, h[r].left)
           g == RotateLeft(h, n).heap
<1>1. IsTree(h, r, A) /\ IsTree(h, l, B)
  BY DEF Joint
<1>2. b \in Nat /\ r # Nil /\ r \in A /\ Height(h, r) = h[r].height
  BY <1>1, TreeHeight
<1>3. PICK A1, A2 \in SUBSET A : Joint(h, r, A2, A1) /\ Level(h, r) /\ A = A1 \cup {r} \cup A2
  <2>1. A \in SUBSET Keys
    OBVIOUS
  <2>2. Level(h, r) /\ \E C, E \in SUBSET A : Joint(h, r, C, E) /\ A = C \cup {r} \cup E
    BY <1>1, <1>2, <2>1, Split
  <2> QED BY <2>2
<1>4. /\ IsTree(h, h[r].right, A1) /\ IsTree(h, h[r].left, A2)
      /\ A1 \in SUBSET D /\ A2 \in SUBSET D
  BY <1>3 DEF Joint
<1>5. u \in Nat /\ v \in Nat
  BY <1>4, TreeHeight
<1>6. u = b + 1 /\ v \in {b, b + 1}
  BY <1>2, <1>3, <1>5 DEF Level, Even, MaxOf
<1>7. D \subseteq Nat
  BY KeyFacts
<1>8. /\ RotateLeft(h, n).node = r
      /\ RotatedLeft(g, h, D, n, r)
      /\ IsTree(g, n, A2 \cup {n} \cup B)
      /\ IsTree(g, h[r].right, A1)
      /\ Height(g, h[r].right) = u
      /\ KnownAbove(g, r)
      /\ \A x \in D \ (A1 \cup A2 \cup B \cup {r, n}) : g[x] = h[x]
  <2>1. /\ \A y \in A : n < y
        /\ \A y \in B : y < n
        /\ h[l].parent = n \/ l = Nil
        /\ h[r].right # Nil => h[h[r].right].parent = r
    BY <1>3 DEF Joint, KnownAbove
  <2>2. Even(v, b)
    BY <1>2, <1>6 DEF Even
  <2>3. /\ r \in D /\ n < r
        /\ \A y \in A1 : r < y
        /\ \A y \in A2 : y < r /\ n < y
    BY <1>2, <1>3, <2>1 DEF Joint
  <2> HIDE DEF g, v, b, u
  <2>4. RotateLeft(h, n).node = r /\ TreesLeftLeft(RotateLeft(h, n).heap, h, D, n, r, A1, A2, B)
    <3>1. Even(Height(h, h[r].left), Height(h, h[n].left))
      BY <2>2 DEF v, b
    <3>2. h[n].left # Nil => h[h[n].left].parent = n
      BY <2>1
    <3>3. CanRotateLeft(h, n, r, A1, A2, B)
      BY <1>1, <1>4, <2>1, <2>3, <3>1, <3>2 DEF CanRotateLeft
    <3>4. r \in D /\ A1 \in SUBSET D /\ A2 \in SUBSET D
      BY <1>4, <2>3
    <3> QED BY <3>3, <3>4, RotateLeftTrees
  <2> QED BY <2>4 DEF g, TreesLeftLeft, u
<1> DEFINE w == MaxOf(v, b) + 1
<1>9. w \in {b + 1, b + 2}
  BY <1>2, <1>6 DEF MaxOf
<1> HIDE DEF g
<1>10. n # r /\ n # Nil
  BY <1>2, <1>7, KeyFacts DEF Joint
<1>11. g[r].right = h[r].right /\ g[r].left = n /\ Height(g, n) = w /\ g[r].height = MaxOf(u, w) + 1
  BY <1>8, <1>10 DEF RotatedLeft, Height
<1> HIDE DEF w, u, v, b
<1>12. Joint(g, r, A2 \cup {n} \cup B, A1)
  <2>1. \A y \in A2 \cup {n} \cup B : y < r
    <3>1. n < r /\ (\A y \in B : y < n) /\ \A y \in A2 : y < r
      BY <1>2, <1>3 DEF Joint
    <3> QED BY <1>2, <1>7, <3>1
  <2>2. \A y \in A1 : r < y
    BY <1>3 DEF Joint
  <2> QED BY <1>8, <1>11, <2>1, <2>2 DEF Joint
<1>13. Level(g, r) /\ g[r].height \in {b + 2, b + 3}
  BY <1>2, <1>6, <1>8, <1>9, <1>11 DEF Level, Even, MaxOf
<1>14. IsTree(g, r, A \cup {n} \cup B)
  <2>1. A1 \in SUBSET Keys /\ A2 \cup {n} \cup B \in SUBSET Keys /\ r \in Keys
    BY <1>2, <1>4
  <2>2. (A2 \cup {n} \cup B) \cup {r} \cup A1 = A \cup {n} \cup B
    BY <1>3
  <2>3. IsTree(g, r, (A2 \cup {n} \cup B) \cup {r} \cup A1)
    BY <1>12, <1>13, <2>1, Join
  <2> QED BY <2>2, <2>3
<1>15. Height(g, r) \in {b + 2, b + 3}
  BY <1>2, <1>13 DEF Height
<1>16. ~Even(Height(h, r), b) /\ MaxOf(Height(h, r), b) = b + 2
  BY <1>2 DEF Even, MaxOf, b
<1>17. \A x \in D \ (A \cup {n} \cup B) : g[x] = h[x]
  BY <1>3, <1>8
<1>18. g \in [D -> Node]
  BY <1>8 DEF RotatedLeft
<1> QED BY <1>2, <1>8, <1>14, <1>15, <1>16, <1>17, <1>18 DEF Rebalanced, g, b

\* Its right child is the higher one: that is rotated up first.
LEMMA DoubleRight ==
    ASSUME NEW h, NEW D \in SUBSET Keys, h \in [D -> Node],
           NEW n \in D, NEW A \in SUBSET D, NEW B \in SUBSET D, Joint(h, n, A, B),
           NEW l, l = h[n].left, NEW r, r = h[n].right, Height(h, l) = Height(h, r) + 2,
           NEW m, m = h[l].right, Height(h, h[l].left) < Height(h, m)
    PROVE  LET inner == RotateLeft(h, l)
           IN  Rebalanced(RotateRight(SetLeft(inner.heap, n, inner.node), n),
                          h, D, A \cup {n} \cup B, Height(h, l), Height(h, r))
<1> DEFINE b == Height(h, r)
           u == Height(h, h[l].left)
           v == Height(h, m)
           p == Height(h, h[m].left)
           q == Height(h, h[m].right)
<1>1. IsTree(h, l, A) /\ IsTree(h, r, B)
  BY DEF Joint
<1>2. b \in Nat /\ l # Nil /\ l \in A /\ Height(h, l) = h[l].height
  BY <1>1, TreeHeight
<1>3. PICK A1, A2 \in SUBSET A : Joint(h, l, A1, A2) /\ Level(h, l) /\ A = A1 \cup {l} \cup A2
  <2>1. A \in SUBSET Keys
    OBVIOUS
  <2>2. Level(h, l) /\ \E C, E \in SUBSET A : Joint(h, l, C, E) /\ A = C \cup {l} \cup E
    BY <1>1, <1>2, <2>1, Split
  <2> QED BY <2>2
<1>4. /\ IsTree(h, h[l].left, A1) /\ IsTree(h, m, A2)
      /\ A1 \in SUBSET D /\ A2 \in SUBSET D
  BY <1>3 DEF Joint
<1>5. u \in Nat /\ v \in Nat
  BY <1>4, TreeHeight
<1>6. u = b /\ v = b + 1
  BY <1>2, <1>3, <1>5 DEF Level, Even, MaxOf
<1>7. m # Nil /\ m \in A2 /\ v = h[m].height
  <2> QED BY <1>2, <1>4, <1>6, TreeHeight
<1>8. PICK M1, M2 \in SUBSET A2 : Joint(h, m, M1, M2) /\ Level(h, m) /\ A2 = M1 \cup {m} \cup M2
  <2>1. A2 \in SUBSET Keys
    BY <1>4
  <2>2. Level(h, m) /\ \E C, E \in SUBSET A2 : Joint(h, m, C, E) /\ A2 = C \cup {m} \cup E
    BY <1>4, <1>7, <2>1, Split
  <2> QED BY <2>2
<1>9. /\ IsTree(h, h[m].left, M1) /\ IsTree(h, h[m].right, M2)
      /\ M1 \in SUBSET D /\ M2 \in SUBSET D
  BY <1>4, <1>8 DEF Joint
<1>10. p \in Nat /\ q \in Nat
  BY <1>9, TreeHeight
<1>11. p \in {b - 1, b} /\ q \in {b - 1, b} /\ Even(p, u) /\ Even(q, b)
  <2>1. h[m].height = MaxOf(p, q) + 1 \/ h[m].height = MaxOf(q, p) + 1
    BY <1>8 DEF Level
  <2>2. Even(p, q) \/ Even(q, p)
    BY <1>8 DEF Level
  <2> HIDE DEF u, v, p, q, b
  <2> QED BY <1>2, <1>6, <1>7, <1>10, <2>1, <2>2 DEF Even, MaxOf
<1> HIDE DEF u, v, p, q, b
<1>12. D \subseteq Nat /\ Nil \notin D
  BY KeyFacts, SMTT(30)
<1>13. /\ l < n /\ \A y \in A1 : y < l
       /\ \A y \in A2 : l < y /\ y < n
       /\ \A y \in M1 : y < m
       /\ \A y \in M2 : m < y
       /\ \A y \in B : n < y
  BY <1>2, <1>3, <1>8 DEF Joint
<1>31. /\ l \in Nat /\ m \in Nat /\ n \in Nat
       /\ A1 \subseteq Nat /\ A2 \subseteq Nat /\ M1 \subseteq Nat /\ M2 \subseteq Nat
       /\ B \subseteq Nat
  BY <1>2, <1>4, <1>7, <1>9, <1>12, SMTT(30)
<1>14. /\ KnownAbove(h, l) /\ KnownAbove(h, m) /\ KnownAbove(h, n)
  BY <1>3, <1>8 DEF Joint
<1>15. /\ n \notin A \cup B /\ A \cap B = {}
       /\ l \notin A1 \cup A2 /\ A1 \cap A2 = {}
       /\ m \notin M1 \cup M2 /\ M1 \cap M2 = {}
  <2>1. /\ A \subseteq Nat /\ B \subseteq Nat /\ A1 \subseteq Nat /\ A2 \subseteq Nat
        /\ n \in Nat /\ l \in Nat /\ m \in Nat
    BY <1>2, <1>4, <1>7, <1>12
  <2>2. \A y \in A : y < n
    BY DEF Joint
  <2>3. n \notin A \cup B /\ A \cap B = {}
    BY <1>13, <2>1, <2>2
  <2>4. l \notin A1 \cup A2 /\ A1 \cap A2 = {}
    BY <1>13, <2>1
  <2>5. m \notin M1 \cup M2 /\ M1 \cap M2 = {}
    BY <1>8, <1>13, <2>1
  <2> QED BY <2>3, <2>4, <2>5
<1> DEFINE g == RotateLeft(h, l).heap
<1>16. /\ RotateLeft(h, l).node = m
       /\ RotatedLeft(g, h, D, l, m)
       /\ IsTree(g, l, M1 \cup {l} \cup A1)
       /\ IsTree(g, h[m].right, M2)
       /\ Height(g, h[m].right) = q
       /\ KnownAbove(g, m)
       /\ \A x \in D \ (M2 \cup M1 \cup A1 \cup {m, l}) : g[x] = h[x]
  <2> HIDE DEF g
  <2>1. l \in D /\ m \in D /\ l < m /\ \A y \in M1 : l < y
    BY <1>2, <1>7, <1>4, <1>8, <1>13
  <2>2. \A y \in M1 : l < y /\ y < m
    BY <1>13, <2>1
  <2>3. /\ h[m].right # Nil => h[h[m].right].parent = m
        /\ h[l].left # Nil => h[h[l].left].parent = l
    BY <1>14 DEF KnownAbove
  <2>4. m = h[l].right /\ Even(Height(h, h[m].left), Height(h, h[l].left))
    BY <1>11 DEF p, u
  <2>5. RotateLeft(h, l).node = m /\ TreesLeftLeft(RotateLeft(h, l).heap, h, D, l, m, M2, M1, A1)
    <3>1. CanRotateLeft(h, l, m, M2, M1, A1)
      BY <1>4, <1>9, <1>13, <2>1, <2>2, <2>3, <2>4, Zenon DEF CanRotateLeft
    <3> QED BY <1>4, <1>9, <2>1, <3>1, RotateLeftTrees
  <2> QED BY <2>5 DEF g, TreesLeftLeft, q
<1> HIDE DEF g
<1>17. \A x \in B \cup {n} : g[x] = h[x]
  BY <1>3, <1>8, <1>15, <1>16
<1>18. IsTree(g, r, B) /\ Height(g, r) = b
  BY <1>1, <1>17, Frame DEF b
<1>19. g[m].left = l /\ g[m].right = h[m].right /\ Height(g, l) = b + 1 /\ g[n].right = r
  <2>1. g[l].height = b + 1
    <3>1. g[l].height = MaxOf(p, u) + 1
      BY <1>16, Zenon DEF RotatedLeft, p, u
    <3> QED BY <1>2, <1>6, <1>10, <1>11, <3>1 DEF MaxOf
  <2> QED BY <1>2, <1>16, <1>17, <2>1, Zenon DEF RotatedLeft, Height
<1> DEFINE f == SetLeft(g, n, m)
<1>20. LeftSet(f, g, D, n, m)
  <2>1. m \in D \cup {Nil} /\ g \in [D -> Node]
    BY <1>4, <1>7, <1>16, Zenon DEF RotatedLeft
  <2> QED BY <2>1, SetLeftFacts
<1> HIDE DEF f
<1>21. /\ m \in D /\ f \in [D -> Node] /\ m = f[n].left /\ f[m].left = l /\ f[m].right = h[m].right
       /\ f[n].right = r
  <2>1. m \in D /\ m # n
    BY <1>3, <1>4, <1>7, <1>15
  <2> QED BY <1>19, <1>20, <2>1 DEF LeftSet
<1>22. /\ \A x \in M1 \cup {l} \cup A1 : f[x] = g[x]
       /\ \A x \in M2 : f[x] = g[x]
       /\ \A x \in B : f[x] = g[x]
  <2>1. \A x \in A \cup B : x # m => f[x] = g[x]
    BY <1>15, <1>20 DEF LeftSet
  <2>2. m \notin M1 \cup {l} \cup A1 \cup M2 \cup B
    BY <1>3, <1>7, <1>8, <1>15
  <2> QED BY <1>2, <1>3, <1>8, <2>1, <2>2
<1>23. /\ IsTree(f, l, M1 \cup {l} \cup A1) /\ Height(f, l) = b + 1
       /\ IsTree(f, h[m].right, M2) /\ Height(f, h[m].right) = q
       /\ IsTree(f, r, B) /\ Height(f, r) = b
  <2> DEFINE E == M1 \cup {l} \cup A1
  <2>1. E \in SUBSET Keys /\ M2 \in SUBSET Keys
    BY <1>2, <1>4, <1>9
  <2> HIDE DEF E
  <2>2. IsTree(f, l, E) /\ Height(f, l) = b + 1
    <3>1. IsTree(g, l, E) /\ Height(g, l) = b + 1 /\ \A x \in E : f[x] = g[x]
      BY <1>16, <1>19, <1>22 DEF E
    <3> QED BY <2>1, <3>1, Frame
  <2>3. IsTree(f, h[m].right, M2) /\ Height(f, h[m].right) = q
    BY <1>16, <1>22, <2>1, Frame
  <2>4. IsTree(f, r, B) /\ Height(f, r) = b
    BY <1>18, <1>22, Frame, SMTT(30)
  <2> QED BY <2>2, <2>3, <2>4 DEF E
<1> DEFINE k == RotateRight(f, n).heap
           A3 == M1 \cup {l} \cup A1
<1>24. /\ RotateRight(f, n).node = m
       /\ RotatedRight(k, f, D, n, m)
       /\ IsTree(k, n, M2 \cup {n} \cup B)
       /\ IsTree(k, f[m].left, A3)
       /\ Height(k, f[m].left) = Height(f, f[m].left)
       /\ KnownAbove(k, m)
       /\ \A x \in D \ (A3 \cup M2 \cup B \cup {m, n}) : k[x] = f[x]
  <2>1. A3 \in SUBSET D
    BY <1>2, <1>4, <1>9
  <2>2. /\ m < n /\ \A y \in A3 : y < m
        /\ \A y \in M2 : m < y /\ y < n
    <3>1. l < m /\ m < n /\ \A y \in M2 : y < n
      BY <1>7, <1>8, <1>13
    <3>2. \A y \in A1 : y < m
      BY <1>31, <1>13, <3>1
    <3> QED BY <1>13, <3>1, <3>2
  <2>3. f[l].parent = m
    <3>1. f[l] = g[l]
      BY <1>22
    <3> QED BY <1>16, <3>1, Zenon DEF RotatedLeft
  <2>4. r # Nil => f[r].parent = n
    <3>1. r # Nil => r \in B /\ h[r].parent = n
      BY <1>1, <1>14, TreeRoot DEF KnownAbove
    <3> QED BY <1>17, <1>22, <3>1
  <2>5. Even(Height(f, f[m].right), Height(f, f[n].right))
    BY <1>11, <1>21, <1>23
  <2>6. /\ IsTree(f, f[m].left, A3) /\ IsTree(f, f[m].right, M2) /\ IsTree(f, f[n].right, B)
        /\ f[m].left # Nil => f[f[m].left].parent = m
        /\ f[n].right # Nil => f[f[n].right].parent = n
    BY <1>21, <1>23, <2>3, <2>4
  <2> HIDE DEF A3, k
  <2>7. RotateRight(f, n).node = m /\ TreesLeftRight(RotateRight(f, n).heap, f, D, n, m, A3, M2, B)
    <3>1. CanRotateRight(f, n, m, A3, M2, B)
      BY <1>13, <1>21, <2>2, <2>5, <2>6 DEF CanRotateRight
    <3> QED BY <1>9, <1>21, <2>1, <3>1, RotateRightTrees
  <2> QED BY <2>7 DEF k, A3, TreesLeftRight
<1> HIDE DEF k
<1>25. /\ k[m].left = l /\ k[m].right = n /\ Height(k, l) = b + 1 /\ Height(k, n) = b + 1
       /\ k[m].height = b + 2
  <2>1. k[n].height = b + 1 /\ k[m].height = b + 2
    BY <1>2, <1>10, <1>11, <1>21, <1>23, <1>24 DEF RotatedRight, MaxOf
  <2> QED BY <1>12, <1>21, <1>23, <1>24, <2>1 DEF RotatedRight, Height
<1>26. Joint(k, m, A3, M2 \cup {n} \cup B) /\ Level(k, m)
  <2>1. \A y \in M2 \cup {n} \cup B : m < y
    <3>1. m < n
      BY <1>7, <1>13
    <3> QED BY <1>31, <1>13, <3>1
  <2>2. \A y \in A3 : y < m
    <3>1. l < m
      BY <1>7, <1>13
    <3> QED BY <1>31, <1>13, <3>1
  <2>3. Joint(k, m, A3, M2 \cup {n} \cup B)
    BY <1>21, <1>24, <1>25, <2>1, <2>2 DEF Joint
  <2> QED BY <1>2, <1>25, <2>3 DEF Level, Even, MaxOf
<1>27. IsTree(k, m, A \cup {n} \cup B) /\ Height(k, m) = b + 2
  <2>1. A3 \in SUBSET Keys /\ M2 \cup {n} \cup B \in SUBSET Keys /\ m \in Keys
    BY <1>2, <1>4, <1>7, <1>9
  <2>2. A3 \cup {m} \cup (M2 \cup {n} \cup B) = A \cup {n} \cup B
    BY <1>3, <1>8
  <2> HIDE DEF A3
  <2>3. IsTree(k, m, A3 \cup {m} \cup (M2 \cup {n} \cup B))
    BY <1>26, <2>1, Join, SMTT(30)
  <2> QED BY <1>7, <1>25, <2>2, <2>3 DEF Height
<1>28. \A x \in D \ (A \cup {n} \cup B) : k[x] = h[x]
  <2> SUFFICES ASSUME NEW x \in D \ (A \cup {n} \cup B) PROVE k[x] = h[x]
    OBVIOUS
  <2>1. x \notin A3 \cup M2 \cup B \cup {m, n} /\ x \notin M2 \cup M1 \cup A1 \cup {m, l}
    BY <1>3, <1>8
  <2> QED BY <1>16, <1>20, <1>24, <2>1 DEF LeftSet
<1>29. ~Even(Height(h, l), b) /\ MaxOf(Height(h, l), b) = b + 2
  <2>1. Height(h, l) = b + 2
    BY DEF b
  <2> QED BY <1>2, <2>1 DEF Even, MaxOf
<1>30. k \in [D -> Node]
  BY <1>24, Zenon DEF RotatedRight
<1> DEFINE inner == RotateLeft(h, l)
           res == RotateRight(SetLeft(inner.heap, n, inner.node), n)
<1>32. res.heap = k /\ res.node = m
  BY <1>16, <1>24, Zenon DEF k, f, g
<1> HIDE DEF res, A3
<1>33. Rebalanced(res, h, D, A \cup {n} \cup B, Height(h, l), b)
  BY <1>2, <1>27, <1>28, <1>29, <1>30, <1>32 DEF Rebalanced
<1> QED BY <1>33 DEF res, b

\* Its left child is the higher one: that is rotated up first.
LEMMA DoubleLeft ==
    ASSUME NEW h, NEW D \in SUBSET Keys, h \in [D -> Node],
           NEW n \in D, NEW A \in SUBSET D, NEW B \in SUBSET D, Joint(h, n, B, A),
           NEW r, r = h[n].right, NEW l, l = h[n].left, Height(h, r) = Height(h, l) + 2,
           NEW m, m = h[r].left, Height(h, h[r].right) < Height(h, m)
    PROVE  LET inner == RotateRight(h, r)
           IN  Rebalanced(RotateLeft(SetRight(inner.heap, n, inner.node), n),
                          h, D, A \cup {n} \cup B, Height(h, r), Height(h, l))
<1> DEFINE b == Height(h, l)
           u == Height(h, h[r].right)
           v == Height(h, m)
           p == Height(h, h[m].right)
           q == Height(h, h[m].left)
<1>1. IsTree(h, r, A) /\ IsTree(h, l, B)
  BY DEF Joint
<1>2. b \in Nat /\ r # Nil /\ r \in A /\ Height(h, r) = h[r].height
  BY <1>1, TreeHeight
<1>3. PICK A1, A2 \in SUBSET A : Joint(h, r, A2, A1) /\ Level(h, r) /\ A = A1 \cup {r} \cup A2
  <2>1. A \in SUBSET Keys
    OBVIOUS
  <2>2. Level(h, r) /\ \E C, E \in SUBSET A : Joint(h, r, C, E) /\ A = C \cup {r} \cup E
    BY <1>1, <1>2, <2>1, Split
  <2> QED BY <2>2
<1>4. /\ IsTree(h, h[r].right, A1) /\ IsTree(h, m, A2)
      /\ A1 \in SUBSET D /\ A2 \in SUBSET D
  BY <1>3 DEF Joint
<1>5. u \in Nat /\ v \in Nat
  BY <1>4, TreeHeight
<1>6. u = b /\ v = b + 1
  BY <1>2, <1>3, <1>5 DEF Level, Even, MaxOf
<1>7. m # Nil /\ m \in A2 /\ v = h[m].height
  <2> QED BY <1>2, <1>4, <1>6, TreeHeight
<1>8. PICK M1, M2 \in SUBSET A2 : Joint(h, m, M2, M1) /\ Level(h, m) /\ A2 = M1 \cup {m} \cup M2
  <2>1. A2 \in SUBSET Keys
    BY <1>4
  <2>2. Level(h, m) /\ \E C, E \in SUBSET A2 : Joint(h, m, C, E) /\ A2 = C \cup {m} \cup E
    BY <1>4, <1>7, <2>1, Split
  <2> QED BY <2>2
<1>9. /\ IsTree(h, h[m].right, M1) /\ IsTree(h, h[m].left, M2)
      /\ M1 \in SUBSET D /\ M2 \in SUBSET D
  BY <1>4, <1>8 DEF Joint
<1>10. p \in Nat /\ q \in Nat
  BY <1>9, TreeHeight
<1>11. p \in {b - 1, b} /\ q \in {b - 1, b} /\ Even(p, u) /\ Even(q, b)
  <2>1. h[m].height = MaxOf(p, q) + 1 \/ h[m].height = MaxOf(q, p) + 1
    BY <1>8 DEF Level
  <2>2. Even(p, q) \/ Even(q, p)
    BY <1>8 DEF Level
  <2> HIDE DEF u, v, p, q, b
  <2> QED BY <1>2, <1>6, <1>7, <1>10, <2>1, <2>2 DEF Even, MaxOf
<1> HIDE DEF u, v, p, q, b
<1>12. D \subseteq Nat /\ Nil \notin D
  BY KeyFacts, SMTT(30)
<1>13. /\ n < r /\ \A y \in A1 : r < y
       /\ \A y \in A2 : y < r /\ n < y
       /\ \A y \in M1 : m < y
       /\ \A y \in M2 : y < m
       /\ \A y \in B : y < n
  BY <1>2, <1>3, <1>8 DEF Joint
<1>31. /\ r \in Nat /\ m \in Nat /\ n \in Nat
       /\ A1 \subseteq Nat /\ A2 \subseteq Nat /\ M1 \subseteq Nat /\ M2 \subseteq Nat
       /\ B \subseteq Nat
  BY <1>2, <1>4, <1>7, <1>9, <1>12, SMTT(30)
<1>14. /\ KnownAbove(h, r) /\ KnownAbove(h, m) /\ KnownAbove(h, n)
  BY <1>3, <1>8 DEF Joint
<1>15. /\ n \notin A \cup B /\ A \cap B = {}
       /\ r \notin A1 \cup A2 /\ A1 \cap A2 = {}
       /\ m \notin M1 \cup M2 /\ M1 \cap M2 = {}
  <2>1. /\ A \subseteq Nat /\ B \subseteq Nat /\ A1 \subseteq Nat /\ A2 \subseteq Nat
        /\ n \in Nat /\ r \in Nat /\ m \in Nat
    BY <1>2, <1>4, <1>7, <1>12
  <2>2. \A y \in A : n < y
    BY DEF Joint
  <2>3. n \notin A \cup B /\ A \cap B = {}
    BY <1>13, <2>1, <2>2
  <2>4. r \notin A1 \cup A2 /\ A1 \cap A2 = {}
    BY <1>13, <2>1
  <2>5. m \notin M1 \cup M2 /\ M1 \cap M2 = {}
    BY <1>8, <1>13, <2>1
  <2> QED BY <2>3, <2>4, <2>5
<1> DEFINE g == RotateRight(h, r).heap
<1>16. /\ RotateRight(h, r).node = m
       /\ RotatedRight(g, h, D, r, m)
       /\ IsTree(g, r, M1 \cup {r} \cup A1)
       /\ IsTree(g, h[m].left, M2)
       /\ Height(g, h[m].left) = q
       /\ KnownAbove(g, m)
       /\ \A x \in D \ (M2 \cup M1 \cup A1 \cup {m, r}) : g[x] = h[x]
  <2> HIDE DEF g
  <2>1. r \in D /\ m \in D /\ m < r /\ \A y \in M1 : y < r
    BY <1>2, <1>7, <1>4, <1>8, <1>13
  <2>2. \A y \in M1 : y < r /\ m < y
    BY <1>13, <2>1
  <2>3. /\ h[m].left # Nil => h[h[m].left].parent = m
        /\ h[r].right # Nil => h[h[r].right].parent = r
    BY <1>14 DEF KnownAbove
  <2>4. m = h[r].left /\ Even(Height(h, h[m].right), Height(h, h[r].right))
    BY <1>11 DEF p, u
  <2>5. RotateRight(h, r).node = m /\ TreesLeftRight(RotateRight(h, r).heap, h, D, r, m, M2, M1, A1)
    <3>1. CanRotateRight(h, r, m, M2, M1, A1)
      BY <1>4, <1>9, <1>13, <2>1, <2>2, <2>3, <2>4, Zenon DEF CanRotateRight
    <3> QED BY <1>4, <1>9, <2>1, <3>1, RotateRightTrees
  <2> QED BY <2>5 DEF g, TreesLeftRight, q
<1> HIDE DEF g
<1>17. \A x \in B \cup {n} : g[x] = h[x]
  BY <1>3, <1>8, <1>15, <1>16
<1>18. IsTree(g, l, B) /\ Height(g, l) = b
  BY <1>1, <1>17, Frame DEF b
<1>19. g[m].right = r /\ g[m].left = h[m].left /\ Height(g, r) = b + 1 /\ g[n].left = l
  <2>1. g[r].height = b + 1
    <3>1. g[r].height = MaxOf(p, u) + 1
      BY <1>16, Zenon DEF RotatedRight, p, u
    <3> QED BY <1>2, <1>6, <1>10, <1>11, <3>1 DEF MaxOf
  <2> QED BY <1>2, <1>16, <1>17, <2>1, Zenon DEF RotatedRight, Height
<1> DEFINE f == SetRight(g, n, m)
<1>20. RightSet(f, g, D, n, m)
  <2>1. m \in D \cup {Nil} /\ g \in [D -> Node]
    BY <1>4, <1>7, <1>16, Zenon DEF RotatedRight
  <2> QED BY <2>1, SetRightFacts
<1> HIDE DEF f
<1>21. /\ m \in D /\ f \in [D -> Node] /\ m = f[n].right /\ f[m].right = r /\ f[m].left = h[m].left
       /\ f[n].left = l
  <2>1. m \in D /\ m # n
    BY <1>3, <1>4, <1>7, <1>15
  <2> QED BY <1>19, <1>20, <2>1 DEF RightSet
<1>22. /\ \A x \in M1 \cup {r} \cup A1 : f[x] = g[x]
       /\ \A x \in M2 : f[x] = g[x]
       /\ \A x \in B : f[x] = g[x]
  <2>1. \A x \in A \cup B : x # m => f[x] = g[x]
    BY <1>15, <1>20 DEF RightSet
  <2>2. m \notin M1 \cup {r} \cup A1 \cup M2 \cup B
    BY <1>3, <1>7, <1>8, <1>15
  <2> QED BY <1>2, <1>3, <1>8, <2>1, <2>2
<1>23. /\ IsTree(f, r, M1 \cup {r} \cup A1) /\ Height(f, r) = b + 1
       /\ IsTree(f, h[m].left, M2) /\ Height(f, h[m].left) = q
       /\ IsTree(f, l, B) /\ Height(f, l) = b
  <2> DEFINE E == M1 \cup {r} \cup A1
  <2>1. E \in SUBSET Keys /\ M2 \in SUBSET Keys
    BY <1>2, <1>4, <1>9
  <2> HIDE DEF E
  <2>2. IsTree(f, r, E) /\ Height(f, r) = b + 1
    <3>1. IsTree(g, r, E) /\ Height(g, r) = b + 1 /\ \A x \in E : f[x] = g[x]
      BY <1>16, <1>19, <1>22 DEF E
    <3> QED BY <2>1, <3>1, Frame
  <2>3. IsTree(f, h[m].left, M2) /\ Height(f, h[m].left) = q
    BY <1>16, <1>22, <2>1, Frame
  <2>4. IsTree(f, l, B) /\ Height(f, l) = b
    BY <1>18, <1>22, Frame, SMTT(30)
  <2> QED BY <2>2, <2>3, <2>4 DEF E
<1> DEFINE k == RotateLeft(f, n).heap
           A3 == M1 \cup {r} \cup A1
<1>24. /\ RotateLeft(f, n).node = m
       /\ RotatedLeft(k, f, D, n, m)
       /\ IsTree(k, n, M2 \cup {n} \cup B)
       /\ IsTree(k, f[m].right, A3)
       /\ Height(k, f[m].right) = Height(f, f[m].right)
       /\ KnownAbove(k, m)
       /\ \A x \in D \ (A3 \cup M2 \cup B \cup {m, n}) : k[x] = f[x]
  <2>1. A3 \in SUBSET D
    BY <1>2, <1>4, <1>9
  <2>2. /\ n < m /\ \A y \in A3 : m < y
        /\ \A y \in M2 : y < m /\ n < y
    <3>1. m < r /\ n < m /\ \A y \in M2 : n < y
      BY <1>7, <1>8, <1>13
    <3>2. \A y \in A1 : m < y
      BY <1>31, <1>13, <3>1
    <3> QED BY <1>13, <3>1, <3>2
  <2>3. f[r].parent = m
    <3>1. f[r] = g[r]
      BY <1>22
    <3> QED BY <1>16, <3>1, Zenon DEF RotatedRight
  <2>4. l # Nil => f[l].parent = n
    <3>1. l # Nil => l \in B /\ h[l].parent = n
      BY <1>1, <1>14, TreeRoot DEF KnownAbove
    <3> QED BY <1>17, <1>22, <3>1
  <2>5. Even(Height(f, f[m].left), Height(f, f[n].left))
    BY <1>11, <1>21, <1>23
  <2>6. /\ IsTree(f, f[m].right, A3) /\ IsTree(f, f[m].left, M2) /\ IsTree(f, f[n].left, B)
        /\ f[m].right # Nil => f[f[m].right].parent = m
        /\ f[n].left # Nil => f[f[n].left].parent = n
    BY <1>21, <1>23, <2>3, <2>4
  <2> HIDE DEF A3, k
  <2>7. RotateLeft(f, n).node = m /\ TreesLeftLeft(RotateLeft(f, n).heap, f, D, n, m, A3, M2, B)
    <3>1. CanRotateLeft(f, n, m, A3, M2, B)
      BY <1>13, <1>21, <2>2, <2>5, <2>6 DEF CanRotateLeft
    <3> QED BY <1>9, <1>21, <2>1, <3>1, RotateLeftTrees
  <2> QED BY <2>7 DEF k, A3, TreesLeftLeft
<1> HIDE DEF k
<1>25. /\ k[m].right = r /\ k[m].left = n /\ Height(k, r) = b + 1 /\ Height(k, n) = b + 1
       /\ k[m].height = b + 2
  <2>1. k[n].height = b + 1 /\ k[m].height = b + 2
    BY <1>2, <1>10, <1>11, <1>21, <1>23, <1>24 DEF RotatedLeft, MaxOf
  <2> QED BY <1>12, <1>21, <1>23, <1>24, <2>1 DEF RotatedLeft, Height
<1>26. Joint(k, m, M2 \cup {n} \cup B, A3) /\ Level(k, m)
  <2>1. \A y \in M2 \cup {n} \cup B : y < m
    <3>1. n < m
      BY <1>7, <1>13
    <3> QED BY <1>31, <1>13, <3>1
  <2>2. \A y \in A3 : m < y
    <3>1. m < r
      BY <1>7, <1>13
    <3> QED BY <1>31, <1>13, <3>1
  <2>3. Joint(k, m, M2 \cup {n} \cup B, A3)
    BY <1>21, <1>24, <1>25, <2>1, <2>2 DEF Joint
  <2> QED BY <1>2, <1>25, <2>3 DEF Level, Even, MaxOf
<1>27. IsTree(k, m, A \cup {n} \cup B) /\ Height(k, m) = b + 2
  <2>1. A3 \in SUBSET Keys /\ M2 \cup {n} \cup B \in SUBSET Keys /\ m \in Keys
    BY <1>2, <1>4, <1>7, <1>9
  <2>2. (M2 \cup {n} \cup B) \cup {m} \cup A3 = A \cup {n} \cup B
    BY <1>3, <1>8
  <2> HIDE DEF A3
  <2>3. IsTree(k, m, (M2 \cup {n} \cup B) \cup {m} \cup A3)
    BY <1>26, <2>1, Join, SMTT(30)
  <2> QED BY <1>7, <1>25, <2>2, <2>3 DEF Height
<1>28. \A x \in D \ (A \cup {n} \cup B) : k[x] = h[x]
  <2> SUFFICES ASSUME NEW x \in D \ (A \cup {n} \cup B) PROVE k[x] = h[x]
    OBVIOUS
  <2>1. x \notin A3 \cup M2 \cup B \cup {m, n} /\ x \notin M2 \cup M1 \cup A1 \cup {m, r}
    BY <1>3, <1>8
  <2> QED BY <1>16, <1>20, <1>24, <2>1 DEF RightSet
<1>29. ~Even(Height(h, r), b) /\ MaxOf(Height(h, r), b) = b + 2
  <2>1. Height(h, r) = b + 2
    BY DEF b
  <2> QED BY <1>2, <2>1 DEF Even, MaxOf
<1>30. k \in [D -> Node]
  BY <1>24, Zenon DEF RotatedLeft
<1> DEFINE inner == RotateRight(h, r)
           res == RotateLeft(SetRight(inner.heap, n, inner.node), n)
<1>32. res.heap = k /\ res.node = m
  BY <1>16, <1>24, Zenon DEF k, f, g
<1> HIDE DEF res, A3
<1>33. Rebalanced(res, h, D, A \cup {n} \cup B, Height(h, r), b)
  BY <1>2, <1>27, <1>28, <1>29, <1>30, <1>32 DEF Rebalanced
<1> QED BY <1>33 DEF res, b

\* rebalance: whatever the children are, if they differ by two at most, the
\* result is a tree of the same nodes.
LEMMA RebalanceTree ==
    ASSUME NEW h, NEW D \in SUBSET Keys, h \in [D -> Node],
           NEW n \in D, NEW A \in SUBSET D, NEW B \in SUBSET D, Joint(h, n, A, B),
           NEW a, a = Height(h, h[n].left), NEW b, b = Height(h, h[n].right),
           a <= b + 2, b <= a + 2
    PROVE  Rebalanced(Rebalance(h, n), h, D, A \cup {n} \cup B, a, b)
<1> DEFINE g == UpdateHeight(h, n)
           S == A \cup {n} \cup B
           l == h[n].left
           r == h[n].right
           bl == BalanceFactor(g, l)
           br == BalanceFactor(g, r)
<1>1. D \subseteq Nat /\ Nil \notin D /\ n # Nil
  BY KeyFacts
<1>2. IsTree(h, l, A) /\ IsTree(h, r, B)
  BY DEF Joint
<1>3. a \in Nat /\ b \in Nat /\ l \in A \cup {Nil} /\ r \in B \cup {Nil}
  BY <1>2, TreeHeight, TreeRoot
<1>4. HeightUpdated(g, h, D, n)
  BY <1>3, UpdateHeightFacts
<1>5. /\ g \in [D -> Node] /\ g[n].left = l /\ g[n].right = r
      /\ \A x \in D : x # n => g[x] = h[x]
      /\ g[n].height = MaxOf(a, b) + 1
  BY <1>4 DEF HeightUpdated
<1> HIDE DEF g
<1>6. n \notin A \cup B
  BY <1>1 DEF Joint
<1>7. IsTree(g, l, A) /\ Height(g, l) = a
  BY <1>2, <1>5, <1>6, Frame
<1>8. IsTree(g, r, B) /\ Height(g, r) = b
  BY <1>2, <1>5, <1>6, Frame
<1>9. Joint(g, n, A, B)
  <2>1. KnownAbove(g, n)
    BY <1>3, <1>5, <1>6 DEF Joint, KnownAbove
  <2> QED BY <1>5, <1>7, <1>8, <2>1 DEF Joint
<1>10. BalanceFactor(g, n) = a - b
  BY <1>5, <1>7, <1>8 DEF BalanceFactor
<1>11. ASSUME NEW res, Rebalanced(res, g, D, S, a, b)
       PROVE  Rebalanced(res, h, D, S, a, b)
  BY <1>5, <1>11 DEF Rebalanced
<1>12. CASE Even(a, b)
  <2>1. ~(a - b > 1) /\ ~(a - b < -1)
    BY <1>3, <1>12 DEF Even
  <2>2. Rebalance(h, n) = [heap |-> g, node |-> n]
    BY <1>10, <2>1 DEF Rebalance, g
  <2>3. IsTree(g, n, S)
    <3>1. Level(g, n)
      BY <1>5, <1>7, <1>8, <1>12 DEF Level
    <3> QED BY <1>9, <3>1, Join
  <2>4. Height(g, n) = MaxOf(a, b) + 1
    BY <1>1, <1>5 DEF Height
  <2>5. Rebalanced([heap |-> g, node |-> n], g, D, S, a, b)
    BY <1>5, <2>3, <2>4 DEF Rebalanced
  <2> QED BY <1>11, <2>2, <2>5
<1>13. CASE a = b + 2
  <2>1. a - b > 1 /\ ~(a - b < -1)
    BY <1>3, <1>13
  <2>2. l # Nil /\ l \in D
    <3>1. Height(h, l) # 0
      BY <1>3, <1>13
    <3>2. l # Nil
      BY <3>1 DEF Height
    <3> QED BY <1>3, <3>2
  <2>3. g[l].left \in D \cup {Nil} /\ g[l].right \in D \cup {Nil}
    <3>1. A \in SUBSET Keys
      OBVIOUS
    <3>2. PICK C, E \in SUBSET A : Joint(g, l, C, E)
      BY <1>7, <2>2, <3>1, Split
    <3> QED BY <3>1, <3>2, TreeRoot DEF Joint
  <2>4. Height(g, g[l].left) \in Nat /\ Height(g, g[l].right) \in Nat
    BY <1>5, <2>3, HeightType
  <2>5. bl = Height(g, g[l].left) - Height(g, g[l].right)
    BY DEF BalanceFactor
  <2> HIDE DEF bl, br
  <2>6. CASE Height(g, g[l].left) >= Height(g, g[l].right)
    <3>1. bl >= 0 /\ ~(bl < 0)
      BY <2>4, <2>5, <2>6
    <3>2. Rebalance(h, n) = RotateRight(g, n)
      <4> HIDE DEF l
      <4> QED BY <1>5, <1>10, <2>1, <3>1 DEF Rebalance, g, bl
    <3>3. Rebalanced(RotateRight(g, n), g, D, S, a, b)
      BY <1>5, <1>7, <1>8, <1>9, <1>13, <2>6, SingleRight, SMTT(30)
    <3> QED BY <1>11, <3>2, <3>3
  <2>7. CASE Height(g, g[l].left) < Height(g, g[l].right)
    <3> DEFINE inner == RotateLeft(g, l)
               res == RotateRight(SetLeft(inner.heap, n, inner.node), n)
    <3>1. ~(bl >= 0) /\ bl < 0
      BY <2>4, <2>5, <2>7
    <3>2. Rebalance(h, n) = res
      <4> HIDE DEF l
      <4> QED BY <1>5, <1>10, <2>1, <3>1 DEF Rebalance, g, bl
    <3>3. Rebalanced(res, g, D, S, a, b)
      <4>1. l = g[n].left /\ r = g[n].right /\ Height(g, l) = Height(g, r) + 2
        BY <1>5, <1>7, <1>8, <1>13
      <4> HIDE DEF l, r
      <4>2. Rebalanced(res, g, D, S, Height(g, l), Height(g, r))
        BY <1>5, <1>9, <2>7, <4>1, DoubleRight
      <4> QED BY <1>7, <1>8, <4>2
    <3> QED BY <1>11, <3>2, <3>3
  <2> QED BY <2>4, <2>6, <2>7
<1>14. CASE b = a + 2
  <2>1. a - b < -1 /\ ~(a - b > 1)
    BY <1>3, <1>14
  <2>2. r # Nil /\ r \in D
    <3>1. Height(h, r) # 0
      BY <1>3, <1>14
    <3>2. r # Nil
      BY <3>1 DEF Height
    <3> QED BY <1>3, <3>2
  <2>3. g[r].left \in D \cup {Nil} /\ g[r].right \in D \cup {Nil}
    <3>1. B \in SUBSET Keys
      OBVIOUS
    <3>2. PICK C, E \in SUBSET B : Joint(g, r, C, E)
      BY <1>8, <2>2, <3>1, Split
    <3> QED BY <3>1, <3>2, TreeRoot DEF Joint
  <2>4. Height(g, g[r].left) \in Nat /\ Height(g, g[r].right) \in Nat
    BY <1>5, <2>3, HeightType
  <2>5. br = Height(g, g[r].left) - Height(g, g[r].right)
    BY DEF BalanceFactor
  <2>8. \A res : Rebalanced(res, g, D, B \cup {n} \cup A, b, a) => Rebalanced(res, g, D, S, a, b)
    <3>1. MaxOf(a, b) = MaxOf(b, a) /\ (Even(a, b) <=> Even(b, a)) /\ S = B \cup {n} \cup A
      BY <1>3 DEF MaxOf, Even
    <3> QED BY <3>1 DEF Rebalanced
  <2> HIDE DEF bl, br
  <2>6. CASE Height(g, g[r].right) >= Height(g, g[r].left)
    <3>1. br <= 0 /\ ~(br > 0)
      BY <2>4, <2>5, <2>6
    <3>2. Rebalance(h, n) = RotateLeft(g, n)
      <4> HIDE DEF r
      <4> QED BY <1>5, <1>10, <2>1, <3>1 DEF Rebalance, g, br
    <3>3. Rebalanced(RotateLeft(g, n), g, D, B \cup {n} \cup A, b, a)
      <4>1. B \cup {n} \cup A = A \cup {n} \cup B
        OBVIOUS
      <4> QED BY <1>5, <1>7, <1>8, <1>9, <1>14, <2>6, <4>1, SingleLeft, SMTT(30)
    <3> QED BY <1>11, <2>8, <3>2, <3>3
  <2>7. CASE Height(g, g[r].right) < Height(g, g[r].left)
    <3> DEFINE inner == RotateRight(g, r)
               res == RotateLeft(SetRight(inner.heap, n, inner.node), n)
    <3>1. ~(br <= 0) /\ br > 0
      BY <2>4, <2>5, <2>7
    <3>2. Rebalance(h, n) = res
      <4> HIDE DEF r
      <4> QED BY <1>5, <1>10, <2>1, <3>1 DEF Rebalance, g, br
    <3>3. Rebalanced(res, g, D, B \cup {n} \cup A, b, a)
      <4>1. B \cup {n} \cup A = A \cup {n} \cup B
        OBVIOUS
      <4>2. l = g[n].left /\ r = g[n].right /\ Height(g, r) = Height(g, l) + 2
        BY <1>5, <1>7, <1>8, <1>14
      <4> HIDE DEF l, r
      <4>3. Rebalanced(res, g, D, B \cup {n} \cup A, Height(g, r), Height(g, l))
        <5> HIDE DEF S
        <5> QED BY <1>5, <1>9, <2>7, <4>1, <4>2, DoubleLeft
      <4> QED BY <1>7, <1>8, <4>1, <4>3
    <3> QED BY <1>11, <2>8, <3>2, <3>3
  <2> QED BY <2>4, <2>6, <2>7
<1> QED
  <2>1. Even(a, b) \/ a = b + 2 \/ b = a + 2
    BY <1>3 DEF Even
  <2> QED BY <2>1, <1>12, <1>13, <1>14

-----------------------------------------------------------------------------
(* The recursion of insert and erase                                       *)

\* What a call for the tree at n, of the nodes in S, returns if it leaves
\* those in E: a tree of these, of nearly the height, and nothing else
\* touched.  It says changed if that is the case.
Returns(sub, h, D, n, S, E) ==
    /\ sub.heap \in [(D \ S) \cup E -> Node]
    /\ IsTree(sub.heap, sub.node, E)
    /\ \A x \in D \ (S \cup E) : sub.heap[x] = h[x]
    /\ Even(Height(sub.heap, sub.node), Height(h, n))
    /\ sub.changed = (E # S)
    /\ E = S => sub.node = n /\ Height(sub.heap, sub.node) = Height(h, n)

\* On the way back the node takes what its left child has become.
LEMMA RehangLeft ==
    ASSUME NEW h, NEW D \in SUBSET Keys, h \in [D -> Node], NEW n \in D,
           NEW A \in SUBSET D, NEW B \in SUBSET D, Joint(h, n, A, B), Level(h, n),
           NEW E \in SUBSET Keys, \A y \in E : y < n, E \cap (D \ A) = {},
           NEW sub, Returns(sub, h, D, h[n].left, A, E)
    PROVE  Returns(Rehang(n, "left", sub), h, D, n, A \cup {n} \cup B, E \cup {n} \cup B)
<1> DEFINE C == (D \ A) \cup E
           f == sub.heap
           c == sub.node
           o == h[n].right
           g == SetLeft(f, n, c)
           b == Rebalance(g, n)
           res == Rehang(n, "left", sub)
           ha == Height(h, h[n].left)
           he == Height(f, c)
           ho == Height(h, o)
           N == E \cup {n} \cup B
<1>1. n \in Nat /\ D \subseteq Nat /\ E \subseteq Nat /\ n # Nil
  BY KeyFacts
<1>2. /\ f \in [C -> Node] /\ IsTree(f, c, E)
      /\ \A x \in D \ (A \cup E) : f[x] = h[x]
      /\ Even(he, ha) /\ sub.changed = (E # A)
      /\ E = A => c = h[n].left /\ he = ha
  BY DEF Returns
<1>3. /\ IsTree(h, h[n].left, A) /\ IsTree(h, o, B) /\ KnownAbove(h, n)
      /\ \A y \in A : y < n
      /\ \A y \in B : n < y
  BY DEF Joint
<1>4. /\ n \notin A /\ n \notin B /\ n \notin E /\ A \cap B = {} /\ E \cap B = {}
      /\ C \in SUBSET Keys /\ n \in C /\ E \in SUBSET C /\ B \in SUBSET C
      /\ (D \ (A \cup {n} \cup B)) \cup N = C
  <2>1. n \notin A /\ n \notin B /\ A \cap B = {}
    <3>1. (\A y \in A : y < n) /\ (\A y \in B : n < y)
      BY <1>3
    <3>2. n \notin A
      BY <1>1, <3>1
    <3>3. n \notin B
      BY <1>1, <3>1
    <3>4. ASSUME NEW y \in A, y \in B PROVE FALSE
      <4>1. y < n /\ n < y
        BY <3>1, <3>4
      <4>2. y \in Nat
        BY <1>1
      <4> QED BY <1>1, <4>1, <4>2
    <3> QED BY <3>2, <3>3, <3>4
  <2>2. n \in D \ A /\ B \subseteq D \ A
    BY <2>1
  <2>3. n \notin E /\ E \cap B = {}
    BY <2>2
  <2>4. C \in SUBSET Keys /\ n \in C /\ E \in SUBSET C /\ B \in SUBSET C
    BY <2>2
  <2>5. (D \ (A \cup {n} \cup B)) \cup N = C
    BY <2>2
  <2> QED BY <2>1, <2>3, <2>4, <2>5
<1>5. c \in E \cup {Nil} /\ o \in B \cup {Nil}
  BY <1>2, <1>3, TreeRoot
<1> HIDE DEF C, c, f, o
<1>6. LeftSet(g, f, C, n, c)
  <2>1. c \in C \cup {Nil}
    BY <1>4, <1>5
  <2> QED BY <1>2, <1>4, <2>1, SetLeftFacts
<1>7. f[n] = h[n] /\ \A x \in B : f[x] = h[x]
  BY <1>2, <1>4
<1> HIDE DEF g
<1>8. /\ g \in [C -> Node] /\ g[n].left = c /\ g[n].right = o
      /\ g[n].height = h[n].height
      /\ \A x \in B : g[x] = h[x]
      /\ \A x \in C \ (E \cup {n}) : g[x] = f[x]
      /\ \A x \in E : /\ g[x].left = f[x].left /\ g[x].right = f[x].right
                      /\ g[x].height = f[x].height
                      /\ x # c => g[x].parent = f[x].parent
      /\ c # Nil => g[c].parent = n
  <2>1. n # c
    BY <1>1, <1>4, <1>5
  <2>2. \A x \in C \ (E \cup {n}) : g[x] = f[x]
    <3>1. n \in C /\ E \subseteq C
      BY <1>4
    <3>2. \A x \in C \ (E \cup {n}) : x \notin {n, c}
      BY <1>1, <1>5, KeyFacts DEF C
    <3> QED BY <1>6, <3>2 DEF LeftSet
  <2>3. \A x \in B : g[x] = h[x]
    BY <1>1, <1>4, <1>7, <2>2
  <2>4. /\ g[n].left = c /\ g[n].right = o /\ g[n].height = h[n].height
        /\ g \in [C -> Node]
    BY <1>4, <1>6, <1>7 DEF LeftSet, o
  <2>5. /\ \A x \in E : /\ g[x].left = f[x].left /\ g[x].right = f[x].right
                        /\ g[x].height = f[x].height
                        /\ x # c => g[x].parent = f[x].parent
        /\ c # Nil => g[c].parent = n
    <3>1. ASSUME NEW x \in E
          PROVE  /\ g[x].left = f[x].left /\ g[x].right = f[x].right
                 /\ g[x].height = f[x].height
                 /\ x # c => g[x].parent = f[x].parent
      <4>1. x \in C /\ x # n
        BY <1>4
      <4> QED BY <1>6, <4>1 DEF LeftSet
    <3>2. ASSUME c # Nil PROVE g[c].parent = n
      <4>1. c \in C
        BY <1>4, <1>5, <3>2
      <4> QED BY <1>6, <4>1 DEF LeftSet
    <3> QED BY <3>1, <3>2
  <2> QED BY <2>2, <2>3, <2>4, <2>5
<1>9. IsTree(g, c, E) /\ Height(g, c) = he
  <2>1. IsTree(f, c, E)
    BY <1>2
  <2>2. \A x \in E : /\ g[x].left = f[x].left /\ g[x].right = f[x].right
                     /\ g[x].height = f[x].height
                     /\ x # c => g[x].parent = f[x].parent
    BY <1>8
  <2> QED BY <2>1, <2>2, Frame
<1>10. IsTree(g, o, B) /\ Height(g, o) = ho
  BY <1>3, <1>8, Frame
<1>11. Joint(g, n, E, B)
  <2>1. o # Nil => g[o].parent = n
    <3>1. o # Nil => h[o].parent = n /\ o \in B
      BY <1>3, <1>5 DEF KnownAbove, o
    <3> QED BY <1>8, <3>1
  <2> QED BY <1>3, <1>8, <1>9, <1>10, <2>1 DEF Joint, KnownAbove
<1>12. \A x \in D \ (A \cup {n} \cup B \cup E) : g[x] = h[x]
  BY <1>2, <1>8 DEF C
<1>13. ha \in Nat /\ ho \in Nat /\ he \in Nat
  <2>1. h[n].left \in D \cup {Nil} /\ o \in D \cup {Nil}
    BY <1>3, <1>5, TreeRoot
  <2>2. c \in C \cup {Nil}
    BY <1>4, <1>5
  <2> QED BY <1>2, <1>4, <2>1, <2>2, HeightType
<1>14. Even(ha, ho) /\ h[n].height = MaxOf(ha, ho) + 1
  <2>1. \/ Even(ha, ho) /\ h[n].height = MaxOf(ha, ho) + 1
        \/ Even(ho, ha) /\ h[n].height = MaxOf(ho, ha) + 1
    BY DEF Level, o
  <2> HIDE DEF ha, ho
  <2> QED BY <1>13, <2>1 DEF Even, MaxOf
<1>15. Height(h, n) = h[n].height
  BY <1>1 DEF Height
<1>16. E # A <=> N # A \cup {n} \cup B
  BY <1>4
<1>17. ASSUME E = A PROVE Returns(res, h, D, n, A \cup {n} \cup B, N)
  <2>1. res = [heap |-> g, node |-> n, changed |-> FALSE]
    BY <1>2, <1>17 DEF Rehang, g, f, c
  <2>2. Level(g, n)
    <3>1. Height(g, g[n].left) = ha /\ Height(g, g[n].right) = ho
      BY <1>2, <1>8, <1>9, <1>10, <1>17
    <3>2. /\ Height(g, g[n].left) = Height(h, h[n].left)
          /\ Height(g, g[n].right) = Height(h, h[n].right)
      BY <3>1 DEF o
    <3> QED BY <1>8, <3>2 DEF Level
  <2>3. IsTree(g, n, E \cup {n} \cup B)
    BY <1>4, <1>11, <2>2, Join
  <2>4. E \cup {n} \cup B = N
    OBVIOUS
  <2>5. Height(g, n) = Height(h, n)
    BY <1>1, <1>8, <1>15 DEF Height
  <2>6. N = A \cup {n} \cup B /\ Even(Height(h, n), Height(h, n))
    <3>1. h[n].height \in Nat
      BY DEF Node
    <3> QED BY <1>15, <1>17, <3>1 DEF Even
  <2> HIDE DEF res, N
  <2>7. res.heap = g /\ res.node = n /\ res.changed = FALSE
    BY <2>1
  <2>8. IsTree(g, n, N) /\ g \in [(D \ (A \cup {n} \cup B)) \cup N -> Node]
    BY <1>4, <1>8, <2>3, <2>4
  <2>9. \A x \in D \ ((A \cup {n} \cup B) \cup N) : g[x] = h[x]
    BY <1>12, <1>17, <2>6
  <2> QED BY <2>5, <2>6, <2>7, <2>8, <2>9 DEF Returns
<1>18. ASSUME E # A PROVE Returns(res, h, D, n, A \cup {n} \cup B, N)
  <2>1. res = [heap |-> b.heap, node |-> b.node, changed |-> TRUE]
    BY <1>2, <1>18 DEF Rehang, g, f, c
  <2>2. he <= ho + 2 /\ ho <= he + 2
    <3> HIDE DEF he, ho, ha
    <3> QED BY <1>2, <1>13, <1>14 DEF Even
  <2>3. Rebalanced(b, g, C, N, he, ho) \/ Rebalanced(b, g, C, N, ho, he)
    <3>1. Height(g, g[n].left) = he /\ Height(g, g[n].right) = ho
      BY <1>8, <1>9, <1>10
    <3>2. E \cup {n} \cup B = N
      OBVIOUS
    <3> HIDE DEF he, ho, N
    <3>3. Rebalanced(Rebalance(g, n), g, C, E \cup {n} \cup B, he, ho)
      BY <1>4, <1>8, <1>11, <2>2, <3>1, RebalanceTree
    <3> QED BY <3>2, <3>3
  <2> DEFINE new == Height(b.heap, b.node)
  <2>4. /\ b.heap \in [C -> Node] /\ IsTree(b.heap, b.node, N)
        /\ \A x \in C \ N : b.heap[x] = g[x]
        /\ new \in {MaxOf(he, ho), MaxOf(he, ho) + 1}
        /\ Even(he, ho) => new = MaxOf(he, ho) + 1
    <3>1. MaxOf(he, ho) = MaxOf(ho, he) /\ (Even(he, ho) <=> Even(ho, he))
      <4> HIDE DEF he, ho
      <4> QED BY <1>13 DEF MaxOf, Even
    <3> HIDE DEF he, ho, b, N
    <3> QED BY <2>3, <3>1 DEF Rebalanced
  <2>5. Even(new, h[n].height)
    <3> HIDE DEF he, ho, ha, new
    <3> QED BY <1>2, <1>13, <1>14, <2>4 DEF Even, MaxOf
  <2>6. \A x \in D \ (A \cup {n} \cup B \cup N) : b.heap[x] = h[x]
    <3>1. \A x \in D \ (A \cup {n} \cup B \cup E) : x \in C \ N
      BY <1>4 DEF C
    <3> QED BY <1>12, <2>4, <3>1
  <2> HIDE DEF res, b, N
  <2>7. res.heap = b.heap /\ res.node = b.node /\ res.changed = TRUE /\ N # A \cup {n} \cup B
    BY <1>16, <1>18, <2>1
  <2>8. b.heap \in [(D \ (A \cup {n} \cup B)) \cup N -> Node]
    BY <1>4, <2>4
  <2>9. \A x \in D \ ((A \cup {n} \cup B) \cup N) : b.heap[x] = h[x]
    BY <2>6
  <2> HIDE DEF new
  <2>10. Even(Height(b.heap, b.node), Height(h, n))
    BY <1>15, <2>5 DEF new
  <2> QED BY <2>4, <2>7, <2>8, <2>9, <2>10 DEF Returns
<1> QED BY <1>17, <1>18

\* On the way back the node takes what its right child has become.
LEMMA RehangRight ==
    ASSUME NEW h, NEW D \in SUBSET Keys, h \in [D -> Node], NEW n \in D,
           NEW A \in SUBSET D, NEW B \in SUBSET D, Joint(h, n, B, A), Level(h, n),
           NEW E \in SUBSET Keys, \A y \in E : n < y, E \cap (D \ A) = {},
           NEW sub, Returns(sub, h, D, h[n].right, A, E)
    PROVE  Returns(Rehang(n, "right", sub), h, D, n, A \cup {n} \cup B, E \cup {n} \cup B)
<1> DEFINE C == (D \ A) \cup E
           f == sub.heap
           c == sub.node
           o == h[n].left
           g == SetRight(f, n, c)
           b == Rebalance(g, n)
           res == Rehang(n, "right", sub)
           ha == Height(h, h[n].right)
           he == Height(f, c)
           ho == Height(h, o)
           N == E \cup {n} \cup B
<1>1. n \in Nat /\ D \subseteq Nat /\ E \subseteq Nat /\ n # Nil
  BY KeyFacts
<1>2. /\ f \in [C -> Node] /\ IsTree(f, c, E)
      /\ \A x \in D \ (A \cup E) : f[x] = h[x]
      /\ Even(he, ha) /\ sub.changed = (E # A)
      /\ E = A => c = h[n].right /\ he = ha
  BY DEF Returns
<1>3. /\ IsTree(h, h[n].right, A) /\ IsTree(h, o, B) /\ KnownAbove(h, n)
      /\ \A y \in A : n < y
      /\ \A y \in B : y < n
  BY DEF Joint
<1>4. /\ n \notin A /\ n \notin B /\ n \notin E /\ A \cap B = {} /\ E \cap B = {}
      /\ C \in SUBSET Keys /\ n \in C /\ E \in SUBSET C /\ B \in SUBSET C
      /\ (D \ (A \cup {n} \cup B)) \cup N = C
  <2>1. n \notin A /\ n \notin B /\ A \cap B = {}
    <3>1. (\A y \in A : n < y) /\ (\A y \in B : y < n)
      BY <1>3
    <3>2. n \notin A
      BY <1>1, <3>1
    <3>3. n \notin B
      BY <1>1, <3>1
    <3>4. ASSUME NEW y \in A, y \in B PROVE FALSE
      <4>1. y < n /\ n < y
        BY <3>1, <3>4
      <4>2. y \in Nat
        BY <1>1
      <4> QED BY <1>1, <4>1, <4>2
    <3> QED BY <3>2, <3>3, <3>4
  <2>2. n \in D \ A /\ B \subseteq D \ A
    BY <2>1
  <2>3. n \notin E /\ E \cap B = {}
    BY <2>2
  <2>4. C \in SUBSET Keys /\ n \in C /\ E \in SUBSET C /\ B \in SUBSET C
    BY <2>2
  <2>5. (D \ (A \cup {n} \cup B)) \cup N = C
    BY <2>2
  <2> QED BY <2>1, <2>3, <2>4, <2>5
<1>5. c \in E \cup {Nil} /\ o \in B \cup {Nil}
  BY <1>2, <1>3, TreeRoot
<1> HIDE DEF C, c, f, o
<1>6. RightSet(g, f, C, n, c)
  <2>1. c \in C \cup {Nil}
    BY <1>4, <1>5
  <2> QED BY <1>2, <1>4, <2>1, SetRightFacts
<1>7. f[n] = h[n] /\ \A x \in B : f[x] = h[x]
  BY <1>2, <1>4
<1> HIDE DEF g
<1>8. /\ g \in [C -> Node] /\ g[n].right = c /\ g[n].left = o
      /\ g[n].height = h[n].height
      /\ \A x \in B : g[x] = h[x]
      /\ \A x \in C \ (E \cup {n}) : g[x] = f[x]
      /\ \A x \in E : /\ g[x].left = f[x].left /\ g[x].right = f[x].right
                      /\ g[x].height = f[x].height
                      /\ x # c => g[x].parent = f[x].parent
      /\ c # Nil => g[c].parent = n
  <2>1. n # c
    BY <1>1, <1>4, <1>5
  <2>2. \A x \in C \ (E \cup {n}) : g[x] = f[x]
    <3>1. n \in C /\ E \subseteq C
      BY <1>4
    <3>2. \A x \in C \ (E \cup {n}) : x \notin {n, c}
      BY <1>1, <1>5, KeyFacts DEF C
    <3> QED BY <1>6, <3>2 DEF RightSet
  <2>3. \A x \in B : g[x] = h[x]
    BY <1>1, <1>4, <1>7, <2>2
  <2>4. /\ g[n].right = c /\ g[n].left = o /\ g[n].height = h[n].height
        /\ g \in [C -> Node]
    BY <1>4, <1>6, <1>7 DEF RightSet, o
  <2>5. /\ \A x \in E : /\ g[x].left = f[x].left /\ g[x].right = f[x].right
                        /\ g[x].height = f[x].height
                        /\ x # c => g[x].parent = f[x].parent
        /\ c # Nil => g[c].parent = n
    <3>1. ASSUME NEW x \in E
          PROVE  /\ g[x].left = f[x].left /\ g[x].right = f[x].right
                 /\ g[x].height = f[x].height
                 /\ x # c => g[x].parent = f[x].parent
      <4>1. x \in C /\ x # n
        BY <1>4
      <4> QED BY <1>6, <4>1 DEF RightSet
    <3>2. ASSUME c # Nil PROVE g[c].parent = n
      <4>1. c \in C
        BY <1>4, <1>5, <3>2
      <4> QED BY <1>6, <4>1 DEF RightSet
    <3> QED BY <3>1, <3>2
  <2> QED BY <2>2, <2>3, <2>4, <2>5
<1>9. IsTree(g, c, E) /\ Height(g, c) = he
  <2>1. IsTree(f, c, E)
    BY <1>2
  <2>2. \A x \in E : /\ g[x].left = f[x].left /\ g[x].right = f[x].right
                     /\ g[x].height = f[x].height
                     /\ x # c => g[x].parent = f[x].parent
    BY <1>8
  <2> QED BY <2>1, <2>2, Frame
<1>10. IsTree(g, o, B) /\ Height(g, o) = ho
  BY <1>3, <1>8, Frame
<1>11. Joint(g, n, B, E)
  <2>1. o # Nil => g[o].parent = n
    <3>1. o # Nil => h[o].parent = n /\ o \in B
      BY <1>3, <1>5 DEF KnownAbove, o
    <3> QED BY <1>8, <3>1
  <2> QED BY <1>3, <1>8, <1>9, <1>10, <2>1 DEF Joint, KnownAbove
<1>12. \A x \in D \ (A \cup {n} \cup B \cup E) : g[x] = h[x]
  BY <1>2, <1>8 DEF C
<1>13. ha \in Nat /\ ho \in Nat /\ he \in Nat
  <2>1. h[n].right \in D \cup {Nil} /\ o \in D \cup {Nil}
    BY <1>3, <1>5, TreeRoot
  <2>2. c \in C \cup {Nil}
    BY <1>4, <1>5
  <2> QED BY <1>2, <1>4, <2>1, <2>2, HeightType
<1>14. Even(ha, ho) /\ h[n].height = MaxOf(ha, ho) + 1
  <2>1. \/ Even(ha, ho) /\ h[n].height = MaxOf(ha, ho) + 1
        \/ Even(ho, ha) /\ h[n].height = MaxOf(ho, ha) + 1
    BY DEF Level, o
  <2> HIDE DEF ha, ho
  <2> QED BY <1>13, <2>1 DEF Even, MaxOf
<1>15. Height(h, n) = h[n].height
  BY <1>1 DEF Height
<1>16. E # A <=> N # A \cup {n} \cup B
  BY <1>4
<1>17. ASSUME E = A PROVE Returns(res, h, D, n, A \cup {n} \cup B, N)
  <2>1. res = [heap |-> g, node |-> n, changed |-> FALSE]
    BY <1>2, <1>17 DEF Rehang, g, f, c
  <2>2. Level(g, n)
    <3>1. Height(g, g[n].right) = ha /\ Height(g, g[n].left) = ho
      BY <1>2, <1>8, <1>9, <1>10, <1>17
    <3>2. /\ Height(g, g[n].left) = Height(h, h[n].left)
          /\ Height(g, g[n].right) = Height(h, h[n].right)
      BY <3>1 DEF o
    <3> QED BY <1>8, <3>2 DEF Level
  <2>3. IsTree(g, n, B \cup {n} \cup E)
    BY <1>4, <1>11, <2>2, Join
  <2>4. B \cup {n} \cup E = N
    OBVIOUS
  <2>5. Height(g, n) = Height(h, n)
    BY <1>1, <1>8, <1>15 DEF Height
  <2>6. N = A \cup {n} \cup B /\ Even(Height(h, n), Height(h, n))
    <3>1. h[n].height \in Nat
      BY DEF Node
    <3> QED BY <1>15, <1>17, <3>1 DEF Even
  <2> HIDE DEF res, N
  <2>7. res.heap = g /\ res.node = n /\ res.changed = FALSE
    BY <2>1
  <2>8. IsTree(g, n, N) /\ g \in [(D \ (A \cup {n} \cup B)) \cup N -> Node]
    BY <1>4, <1>8, <2>3, <2>4
  <2>9. \A x \in D \ ((A \cup {n} \cup B) \cup N) : g[x] = h[x]
    BY <1>12, <1>17, <2>6
  <2> QED BY <2>5, <2>6, <2>7, <2>8, <2>9 DEF Returns
<1>18. ASSUME E # A PROVE Returns(res, h, D, n, A \cup {n} \cup B, N)
  <2>1. res = [heap |-> b.heap, node |-> b.node, changed |-> TRUE]
    BY <1>2, <1>18 DEF Rehang, g, f, c
  <2>2. he <= ho + 2 /\ ho <= he + 2
    <3> HIDE DEF he, ho, ha
    <3> QED BY <1>2, <1>13, <1>14 DEF Even
  <2>3. Rebalanced(b, g, C, N, he, ho) \/ Rebalanced(b, g, C, N, ho, he)
    <3>1. Height(g, g[n].right) = he /\ Height(g, g[n].left) = ho
      BY <1>8, <1>9, <1>10
    <3>2. B \cup {n} \cup E = N
      OBVIOUS
    <3> HIDE DEF he, ho, N
    <3>3. Rebalanced(Rebalance(g, n), g, C, B \cup {n} \cup E, ho, he)
      BY <1>4, <1>8, <1>11, <2>2, <3>1, RebalanceTree
    <3> QED BY <3>2, <3>3
  <2> DEFINE new == Height(b.heap, b.node)
  <2>4. /\ b.heap \in [C -> Node] /\ IsTree(b.heap, b.node, N)
        /\ \A x \in C \ N : b.heap[x] = g[x]
        /\ new \in {MaxOf(he, ho), MaxOf(he, ho) + 1}
        /\ Even(he, ho) => new = MaxOf(he, ho) + 1
    <3>1. MaxOf(he, ho) = MaxOf(ho, he) /\ (Even(he, ho) <=> Even(ho, he))
      <4> HIDE DEF he, ho
      <4> QED BY <1>13 DEF MaxOf, Even
    <3> HIDE DEF he, ho, b, N
    <3> QED BY <2>3, <3>1 DEF Rebalanced
  <2>5. Even(new, h[n].height)
    <3> HIDE DEF he, ho, ha, new
    <3> QED BY <1>2, <1>13, <1>14, <2>4 DEF Even, MaxOf
  <2>6. \A x \in D \ (A \cup {n} \cup B \cup N) : b.heap[x] = h[x]
    <3>1. \A x \in D \ (A \cup {n} \cup B \cup E) : x \in C \ N
      BY <1>4 DEF C
    <3> QED BY <1>12, <2>4, <3>1
  <2> HIDE DEF res, b, N
  <2>7. res.heap = b.heap /\ res.node = b.node /\ res.changed = TRUE /\ N # A \cup {n} \cup B
    BY <1>16, <1>18, <2>1
  <2>8. b.heap \in [(D \ (A \cup {n} \cup B)) \cup N -> Node]
    BY <1>4, <2>4
  <2>9. \A x \in D \ ((A \cup {n} \cup B) \cup N) : b.heap[x] = h[x]
    BY <2>6
  <2> HIDE DEF new
  <2>10. Even(Height(b.heap, b.node), Height(h, n))
    BY <1>15, <2>5 DEF new
  <2> QED BY <2>4, <2>7, <2>8, <2>9, <2>10 DEF Returns
<1> QED BY <1>17, <1>18

-----------------------------------------------------------------------------
(* The recursive functions have the values their equations say.            *)

\* Naturals on a finite set are bounded.
LEMMA RankBound ==
    ASSUME NEW S, IsFiniteSet(S), NEW rank \in [S -> Nat]
    PROVE  \E b \in Nat : \A x \in S : rank[x] < b
<1>1. PICK n \in Nat : ExistsBijection(1 .. n, S)
  BY FS_NatBijection
<1>2. PICK f \in [1 .. n -> S] : \A x \in S : \E i \in 1 .. n : f[i] = x
  BY <1>1 DEF ExistsBijection, Bijection, Surjection, Injection
<1> DEFINE T == {m \in Nat : \E b \in Nat : \A i \in 1 .. n : i <= m => rank[f[i]] < b}
<1>3. 0 \in T
  OBVIOUS
<1>4. ASSUME NEW m \in Nat, m \in T PROVE m + 1 \in T
  <2>1. PICK b \in Nat : \A i \in 1 .. n : i <= m => rank[f[i]] < b
    BY <1>4
  <2>2. CASE m + 1 \in 1 .. n
    <3>1. rank[f[m + 1]] \in Nat
      BY <2>2
    <3>2. PICK c \in Nat : b <= c /\ rank[f[m + 1]] < c
      <4>1. b + rank[f[m + 1]] + 1 \in Nat
        BY <3>1
      <4>2. b <= b + rank[f[m + 1]] + 1 /\ rank[f[m + 1]] < b + rank[f[m + 1]] + 1
        BY <3>1
      <4> QED BY <4>1, <4>2
    <3>3. \A i \in 1 .. n : i <= m + 1 => rank[f[i]] < c
      <4> SUFFICES ASSUME NEW i \in 1 .. n, i <= m + 1 PROVE rank[f[i]] < c
        OBVIOUS
      <4>1. rank[f[i]] \in Nat
        OBVIOUS
      <4>2. CASE i <= m
        BY <2>1, <3>2, <4>1, <4>2
      <4>3. CASE i = m + 1
        BY <3>2, <4>3
      <4> QED BY <4>2, <4>3
    <3> QED BY <3>2, <3>3
  <2>3. CASE m + 1 \notin 1 .. n
    <3>1. \A i \in 1 .. n : i <= m + 1 => i <= m
      <4> SUFFICES ASSUME NEW i \in 1 .. n, i <= m + 1, ~(i <= m) PROVE FALSE
        OBVIOUS
      <4>1. i = m + 1
        OBVIOUS
      <4> QED BY <2>3, <4>1
    <3> HIDE DEF T
    <3>2. \A i \in 1 .. n : i <= m + 1 => rank[f[i]] < b
      BY <2>1, <3>1
    <3> QED BY <3>2 DEF T
  <2> QED BY <2>2, <2>3
<1> HIDE DEF T
<1>5. n \in T
  BY <1>3, <1>4, SetInduction
<1>6. PICK b \in Nat : \A i \in 1 .. n : i <= n => rank[f[i]] < b
  BY <1>5 DEF T
<1>7. \A x \in S : rank[x] < b
  BY <1>2, <1>6
<1> QED BY <1>7

\* The children of every node but k are nodes, of a lower rank.
Descends(h, D, k, rank) ==
    /\ rank \in [D \cup {Nil} -> Nat]
    /\ \A x \in D \ {k} : /\ h[x].left \in D \cup {Nil} /\ rank[h[x].left] < rank[x]
                          /\ h[x].right \in D \cup {Nil} /\ rank[h[x].right] < rank[x]

\* One call of the recursion of Returned, those below it being those of f.
OneCall(f, h, k, atNil, atKey, m) ==
    IF m = Nil THEN atNil
    ELSE IF m = k THEN atKey
    ELSE IF k < m THEN Rehang(m, "left", f[h[m].left])
    ELSE Rehang(m, "right", f[h[m].right])

\* f is the recursion of Returned.
Calls(f, h, D, k, atNil, atKey) ==
    f = [m \in D \cup {Nil} |-> OneCall(f, h, k, atNil, atKey, m)]

\* The recursion ends, because each call is for a node of a lower rank.
LEMMA CallsExist ==
    ASSUME NEW h, NEW D \in SUBSET Keys, NEW k, NEW rank, Descends(h, D, k, rank),
           NEW atNil, NEW atKey
    PROVE  \E f : Calls(f, h, D, k, atNil, atKey)
<1> DEFINE S == D \cup {Nil}
           Call(f, m) == OneCall(f, h, k, atNil, atKey, m)
           T == {i \in Nat : \E f : \A m \in S : rank[m] < i => f[m] = Call(f, m)}
<1>1. rank \in [S -> Nat]
  BY DEF Descends
<1>2. 0 \in T
  BY <1>1
<1>3. ASSUME NEW i \in Nat, i \in T PROVE i + 1 \in T
  <2>1. PICK f : \A m \in S : rank[m] < i => f[m] = Call(f, m)
    BY <1>3
  <2> DEFINE g == [m \in S |-> Call(f, m)]
  <2>2. \A m \in S : g[m] = Call(f, m)
    OBVIOUS
  <2> HIDE DEF g, Call
  <2>3. \A m \in S : rank[m] < i => g[m] = f[m]
    BY <2>1, <2>2
  <2>4. ASSUME NEW m \in S, rank[m] < i + 1 PROVE g[m] = Call(g, m)
    <3>1. CASE m = Nil \/ m = k
      BY <2>2, <3>1 DEF Call, OneCall
    <3>2. CASE m # Nil /\ m # k
      <4>1. /\ h[m].left \in S /\ h[m].right \in S
            /\ rank[h[m].left] < rank[m] /\ rank[h[m].right] < rank[m]
        BY <3>2 DEF Descends
      <4>2. rank[h[m].left] < i /\ rank[h[m].right] < i
        BY <1>1, <2>4, <4>1
      <4>3. g[h[m].left] = f[h[m].left] /\ g[h[m].right] = f[h[m].right]
        BY <2>3, <4>1, <4>2
      <4> QED BY <2>2, <4>3 DEF Call, OneCall
    <3> QED BY <3>1, <3>2
  <2> QED BY <2>4
<1>4. IsFiniteSet(S)
  <2>1. IsFiniteSet(D)
    BY KeysAssumption, FS_Subset
  <2> QED BY <2>1, FS_AddElement
<1>5. PICK b \in Nat : \A m \in S : rank[m] < b
  BY <1>1, <1>4, RankBound
<1> HIDE DEF T
<1>6. b \in T
  BY <1>2, <1>3, SetInduction
<1>7. PICK f : \A m \in S : rank[m] < b => f[m] = Call(f, m)
  BY <1>6 DEF T
<1> DEFINE g == [m \in S |-> Call(f, m)]
<1>8. \A m \in S : g[m] = Call(f, m)
  OBVIOUS
<1> HIDE DEF g, Call
<1>9. \A m \in S : g[m] = f[m]
  BY <1>5, <1>7, <1>8
<1>10. ASSUME NEW m \in S PROVE Call(g, m) = Call(f, m)
  <2>1. m \notin {Nil, k} => h[m].left \in S /\ h[m].right \in S
    BY DEF Descends
  <2> QED BY <1>9, <2>1 DEF Call, OneCall
<1>11. g = [m \in S |-> Call(g, m)]
  BY <1>10 DEF g
<1>12. Calls(g, h, D, k, atNil, atKey)
  BY <1>11 DEF Calls, Call
<1> QED BY <1>12

\* What a call returns, by its own equation.
LEMMA ReturnedEq ==
    ASSUME NEW h, NEW D \in SUBSET Keys, DOMAIN h = D, NEW k, NEW rank,
           Descends(h, D, k, rank), NEW atNil, NEW atKey
    PROVE  \E f : /\ \A m \in D \cup {Nil} : f[m] = OneCall(f, h, k, atNil, atKey, m)
                  /\ \A m \in D \cup {Nil} : Returned(h, m, k, atNil, atKey) = f[m]
<1> DEFINE f == CHOOSE f : Calls(f, h, D, k, atNil, atKey)
<1>1. Calls(f, h, D, k, atNil, atKey)
  BY CallsExist
<1>2. \A m \in D \cup {Nil} : Returned(h, m, k, atNil, atKey) = f[m]
  BY DEF Returned, Calls, OneCall
<1> HIDE DEF f
<1>3. \A m \in D \cup {Nil} : f[m] = OneCall(f, h, k, atNil, atKey, m)
  BY <1>1 DEF Calls
<1> QED BY <1>2, <1>3

\* What the innermost call returns: k is not there and now it is as F says, or
\* k is the root of the trees of S.
Yields(atNil, atKey, h, D, k, F) ==
    /\ k \notin D => Returns(atNil, h, D, Nil, {}, F)
    /\ \A S \in SUBSET D : k \in S /\ IsTree(h, k, S) =>
           Returns(atKey, h, D, k, S, (S \ {k}) \cup F)

\* w has the children that h has, but those of k.
SameLinks(w, h, D, k) ==
    \A x \in D \ {k} : w[x].left = h[x].left /\ w[x].right = h[x].right

\* What the recursion makes of the tree at n, if it makes of the place where
\* k is, or should be, what F says: k goes, or it is there, and all others
\* stay.  The heap that the search reads may differ from h in the node of k.
LEMMA ReturnsBelow ==
    ASSUME NEW w, NEW D \in SUBSET Keys, DOMAIN w = D, NEW h, h \in [D -> Node],
           NEW k \in Keys, NEW rank, Descends(w, D, k, rank),
           SameLinks(w, h, D, k),
           NEW F \in SUBSET {k}, NEW atNil, NEW atKey, Yields(atNil, atKey, h, D, k, F),
           NEW n, NEW U \in SUBSET D, IsTree(h, n, U), k \in D => k \in U
    PROVE  Returns(Returned(w, n, k, atNil, atKey), h, D, n, U, (U \ {k}) \cup F)
<1>1. PICK f : /\ \A m \in D \cup {Nil} : f[m] = OneCall(f, w, k, atNil, atKey, m)
               /\ \A m \in D \cup {Nil} : Returned(w, m, k, atNil, atKey) = f[m]
  BY ReturnedEq
<1> DEFINE Ready(m, S) == IsTree(h, m, S) /\ (k \in D => k \in S)
           Done(m, S) == Returns(f[m], h, D, m, S, (S \ {k}) \cup F)
           T == {i \in Nat : \A m \in D \cup {Nil}, S \in SUBSET D :
                               rank[m] < i /\ Ready(m, S) => Done(m, S)}
<1>2. rank \in [D \cup {Nil} -> Nat] /\ k \in Nat /\ D \subseteq Nat /\ k # Nil
  BY KeyFacts DEF Descends
<1>3. 0 \in T
  BY <1>2
<1>4. ASSUME NEW i \in Nat, i \in T PROVE i + 1 \in T
  <2>1. ASSUME NEW m \in D \cup {Nil}, NEW S \in SUBSET D, rank[m] < i + 1,
               IsTree(h, m, S), k \in D => k \in S
        PROVE  Done(m, S)
    <3> DEFINE E == (S \ {k}) \cup F
    <3>0. S \in SUBSET Keys
      OBVIOUS
    <3>1. CASE m = Nil
      <4>1. S = {} /\ k \notin D
        BY <2>1, <3>0, <3>1, TreeRoot
      <4>2. f[m] = atNil
        BY <1>1, <3>1 DEF OneCall
      <4>3. Returns(atNil, h, D, Nil, {}, F)
        BY <4>1 DEF Yields
      <4> QED BY <3>1, <4>1, <4>2, <4>3
    <3>2. CASE m = k
      <4>1. f[m] = atKey /\ k \in S
        BY <1>1, <1>2, <2>1, <3>0, <3>2, TreeRoot DEF OneCall
      <4>2. Returns(atKey, h, D, k, S, (S \ {k}) \cup F)
        BY <2>1, <3>2, <4>1 DEF Yields
      <4> QED BY <3>2, <4>1, <4>2
    <3>3. CASE m # Nil /\ m # k
      <4>1. PICK A, B \in SUBSET S : Joint(h, m, A, B) /\ S = A \cup {m} \cup B
        BY <2>1, <3>0, <3>3, Split
      <4>2. m \in D /\ m \in Nat /\ m \in S /\ Level(h, m)
        BY <1>2, <2>1, <3>0, <3>3, Split
      <4>3. /\ h[m].left \in D \cup {Nil} /\ h[m].right \in D \cup {Nil}
            /\ rank[h[m].left] < i /\ rank[h[m].right] < i
            /\ w[m].left = h[m].left /\ w[m].right = h[m].right
        BY <1>2, <2>1, <3>3, <4>2 DEF Descends, SameLinks
      <4>4. A \in SUBSET D /\ B \in SUBSET D /\ A \subseteq Nat /\ B \subseteq Nat
        BY <1>2
      <4>5. /\ IsTree(h, h[m].left, A) /\ IsTree(h, h[m].right, B)
            /\ \A y \in A : y < m
            /\ \A y \in B : m < y
        BY <4>1 DEF Joint
      <4>6. m \notin A /\ m \notin B /\ A \cap B = {}
        BY <4>2, <4>4, <4>5
      <4>7. CASE k < m
        <5> DEFINE EA == (A \ {k}) \cup F
        <5>1. k \notin B /\ (k \in D => k \in A)
          BY <1>2, <2>1, <4>1, <4>2, <4>4, <4>5, <4>7
        <5>2. Done(h[m].left, A)
          BY <1>4, <4>3, <4>4, <4>5, <5>1
        <5>3. /\ EA \in SUBSET Keys /\ EA \cap (D \ A) = {}
              /\ \A y \in EA : y < m
          BY <4>4, <4>5, <4>7, <5>1
        <5>4. S = A \cup {m} \cup B /\ E = EA \cup {m} \cup B
          BY <3>3, <4>1, <5>1
        <5>5. f[m] = Rehang(m, "left", f[h[m].left])
          BY <1>1, <3>3, <4>3, <4>7 DEF OneCall
        <5> HIDE DEF EA, E
        <5>6. Returns(f[h[m].left], h, D, h[m].left, A, EA)
          BY <5>2 DEF EA
        <5> DEFINE sub == f[h[m].left]
        <5> HIDE DEF sub
        <5>7. Joint(h, m, A, B) /\ Level(h, m) /\ Returns(sub, h, D, h[m].left, A, EA)
          BY <4>1, <4>2, <5>6 DEF sub
        <5>8. Returns(Rehang(m, "left", sub), h, D, m, A \cup {m} \cup B, EA \cup {m} \cup B)
          BY <4>2, <4>4, <5>3, <5>7, RehangLeft
        <5>9. Returns(f[m], h, D, m, A \cup {m} \cup B, EA \cup {m} \cup B)
          BY <5>5, <5>8 DEF sub
        <5> QED BY <5>4, <5>9 DEF E
      <4>8. CASE m < k
        <5> DEFINE EB == (B \ {k}) \cup F
        <5>1. k \notin A /\ (k \in D => k \in B)
          BY <1>2, <2>1, <4>1, <4>2, <4>4, <4>5, <4>8
        <5>2. Done(h[m].right, B)
          BY <1>4, <4>3, <4>4, <4>5, <5>1
        <5>3. /\ EB \in SUBSET Keys /\ EB \cap (D \ B) = {}
              /\ \A y \in EB : m < y
          BY <4>4, <4>5, <4>8, <5>1
        <5>4. S = B \cup {m} \cup A /\ E = EB \cup {m} \cup A
          BY <3>3, <4>1, <5>1
        <5>5. f[m] = Rehang(m, "right", f[h[m].right])
          BY <1>1, <1>2, <3>3, <4>2, <4>3, <4>8 DEF OneCall
        <5> HIDE DEF EB, E
        <5>6. Returns(f[h[m].right], h, D, h[m].right, B, EB)
          BY <5>2 DEF EB
        <5> DEFINE sub == f[h[m].right]
        <5> HIDE DEF sub
        <5>7. Joint(h, m, A, B) /\ Level(h, m) /\ Returns(sub, h, D, h[m].right, B, EB)
          BY <4>1, <4>2, <5>6 DEF sub
        <5>8. Returns(Rehang(m, "right", sub), h, D, m, B \cup {m} \cup A, EB \cup {m} \cup A)
          BY <4>2, <4>4, <5>3, <5>7, RehangRight
        <5>9. Returns(f[m], h, D, m, B \cup {m} \cup A, EB \cup {m} \cup A)
          BY <5>5, <5>8 DEF sub
        <5> QED BY <5>4, <5>9 DEF E
      <4> QED BY <1>2, <3>3, <4>2, <4>7, <4>8
    <3> QED BY <3>1, <3>2, <3>3
  <2> QED BY <2>1
<1> HIDE DEF T
<1>5. n \in D \cup {Nil} /\ rank[n] + 1 \in Nat /\ rank[n] < rank[n] + 1
  <2>1. U \in SUBSET Keys
    OBVIOUS
  <2>2. n \in D \cup {Nil}
    BY <2>1, TreeRoot
  <2> QED BY <1>2, <2>2
<1>6. rank[n] + 1 \in T
  BY <1>3, <1>4, <1>5, SetInduction
<1>7. Done(n, U)
  BY <1>5, <1>6 DEF T
<1> QED BY <1>1, <1>5, <1>7

-----------------------------------------------------------------------------
(* Going down one side of a tree                                           *)

\* A walk that ends: at the nodes of stop it is res, from others it goes on
\* with next, of a lower rank.
Walks(f, S, stop, res, next) ==
    f = [m \in S |-> IF m \in stop THEN res[m] ELSE f[next[m]]]

\* There is such a walk.
LEMMA WalkExists ==
    ASSUME NEW S, IsFiniteSet(S), NEW rank \in [S -> Nat], NEW stop, NEW res, NEW next,
           \A m \in S \ stop : next[m] \in S /\ rank[next[m]] < rank[m]
    PROVE  \E f : Walks(f, S, stop, res, next)
<1> DEFINE Step(f, m) == IF m \in stop THEN res[m] ELSE f[next[m]]
           T == {i \in Nat : \E f : \A m \in S : rank[m] < i => f[m] = Step(f, m)}
<1>1. 0 \in T
  OBVIOUS
<1>2. ASSUME NEW i \in Nat, i \in T PROVE i + 1 \in T
  <2>1. PICK f : \A m \in S : rank[m] < i => f[m] = Step(f, m)
    BY <1>2
  <2> DEFINE g == [m \in S |-> Step(f, m)]
  <2>2. \A m \in S : g[m] = Step(f, m)
    OBVIOUS
  <2> HIDE DEF g, Step
  <2>3. \A m \in S : rank[m] < i => g[m] = f[m]
    BY <2>1, <2>2
  <2>4. ASSUME NEW m \in S, rank[m] < i + 1 PROVE g[m] = Step(g, m)
    <3>1. m \notin stop => g[next[m]] = f[next[m]]
      <4> SUFFICES ASSUME m \notin stop PROVE g[next[m]] = f[next[m]]
        OBVIOUS
      <4>1. next[m] \in S /\ rank[next[m]] \in Nat /\ rank[m] \in Nat /\ rank[next[m]] < rank[m]
        OBVIOUS
      <4>2. rank[next[m]] < i
        BY <2>4, <4>1
      <4> QED BY <2>3, <4>1, <4>2
    <3> QED BY <2>2, <3>1 DEF Step
  <2> QED BY <2>4
<1>3. PICK b \in Nat : \A m \in S : rank[m] < b
  BY RankBound
<1> HIDE DEF T
<1>4. b \in T
  BY <1>1, <1>2, SetInduction
<1>5. PICK f : \A m \in S : rank[m] < b => f[m] = Step(f, m)
  BY <1>4 DEF T
<1> DEFINE g == [m \in S |-> Step(f, m)]
<1>6. \A m \in S : g[m] = f[m]
  BY <1>3, <1>5
<1>7. g = [m \in S |-> IF m \in stop THEN res[m] ELSE g[next[m]]]
  <2>1. \A m \in S : Step(f, m) = IF m \in stop THEN res[m] ELSE g[next[m]]
    <3> HIDE DEF g
    <3> QED BY <1>6
  <2> HIDE DEF Step
  <2> QED BY <2>1
<1> QED BY <1>7 DEF Walks

\* Heights grow from child to parent.
LEMMA TreeRank ==
    ASSUME NEW h, NEW D \in SUBSET Keys, h \in [D -> Node], NEW n, IsTree(h, n, D), NEW k
    PROVE  Descends(h, D, k, [x \in D \cup {Nil} |-> Height(h, x)])
<1> DEFINE rank == [x \in D \cup {Nil} |-> Height(h, x)]
<1>1. rank \in [D \cup {Nil} -> Nat]
  BY HeightType
<1>2. ASSUME NEW x \in D
      PROVE  /\ h[x].left \in D \cup {Nil} /\ rank[h[x].left] < rank[x]
             /\ h[x].right \in D \cup {Nil} /\ rank[h[x].right] < rank[x]
  <2>1. \E t : Hangs(h, D, t, x)
    BY DEF IsTree, Shape
  <2>2. h[x].left \in D \cup {Nil} /\ h[x].right \in D \cup {Nil} /\ Level(h, x)
    BY <2>1 DEF Hangs
  <2>3. Height(h, h[x].left) \in Nat /\ Height(h, h[x].right) \in Nat
    BY <2>2, HeightType
  <2>4. Height(h, x) = MaxOf(Height(h, h[x].left), Height(h, h[x].right)) + 1
    BY <2>2, KeyFacts DEF Level, Height
  <2>5. Height(h, h[x].left) < Height(h, x) /\ Height(h, h[x].right) < Height(h, x)
    BY <2>3, <2>4 DEF MaxOf
  <2> QED BY <2>2, <2>5
<1> HIDE DEF rank
<1>3. Descends(h, D, k, rank)
  BY <1>1, <1>2 DEF Descends
<1> QED BY <1>3 DEF rank

\* Descend, by its own equation.
LEMMA DescendEq ==
    ASSUME NEW h, NEW D \in SUBSET Keys, h \in [D -> Node], NEW root0, IsTree(h, root0, D),
           NEW side
    PROVE  \E f : /\ \A m \in D : f[m] = IF Child(h, m, side) = Nil THEN m
                                                                    ELSE f[Child(h, m, side)]
                  /\ \A m \in D : Descend(h, m, side) = f[m]
<1> DEFINE rank == [x \in D \cup {Nil} |-> Height(h, x)]
           stop == {m \in D : Child(h, m, side) = Nil}
           res == [m \in D |-> m]
           next == [m \in D |-> Child(h, m, side)]
           low == [x \in D |-> rank[x]]
           Down(f) == f = [m \in D |-> IF Child(h, m, side) = Nil THEN m
                                       ELSE f[Child(h, m, side)]]
<1>1. Descends(h, D, Nil, rank)
  BY TreeRank
<1> HIDE DEF rank
<1>2. low \in [D -> Nat]
  BY <1>1 DEF Descends
<1>3. \A m \in D \ stop : next[m] \in D /\ low[next[m]] < low[m]
  BY <1>1, KeyFacts DEF Descends, Child
<1>4. IsFiniteSet(D)
  BY KeysAssumption, FS_Subset
<1> HIDE DEF low
<1>5. PICK f : Walks(f, D, stop, res, next)
  <2> HIDE DEF stop, res, next
  <2> QED BY <1>2, <1>3, <1>4, WalkExists
<1>6. Down(f)
  <2>1. \A m \in D : (IF m \in stop THEN res[m] ELSE f[next[m]])
                     = IF Child(h, m, side) = Nil THEN m ELSE f[Child(h, m, side)]
    OBVIOUS
  <2> QED BY <1>5, <2>1 DEF Walks
<1> DEFINE e == CHOOSE d : Down(d)
<1>7. Down(e)
  <2> HIDE DEF Down
  <2> QED BY <1>6
<1>8. \A m \in D : Descend(h, m, side) = e[m]
  BY DEF Descend
<1> HIDE DEF e
<1>9. \A m \in D : e[m] = IF Child(h, m, side) = Nil THEN m ELSE e[Child(h, m, side)]
  BY <1>7
<1> QED BY <1>8, <1>9

\* s is at the left end of the tree at n.
LeftEnd(s, h, n, S) ==
    /\ s \in S /\ h[s].left = Nil
    /\ \A x \in S \ {s} : s < x
    /\ s # n => h[s].parent \in S /\ h[h[s].parent].left = s

\* Descend reaches the left end: the least node.
LEMMA DescendLeft ==
    ASSUME NEW h, NEW D \in SUBSET Keys, h \in [D -> Node], NEW root0, IsTree(h, root0, D),
           NEW n, n # Nil, NEW S \in SUBSET D, IsTree(h, n, S)
    PROVE  LeftEnd(Descend(h, n, "left"), h, n, S)
<1> DEFINE rank == [x \in D \cup {Nil} |-> Height(h, x)]
<1>1. PICK f : /\ \A m \in D : f[m] = IF Child(h, m, "left") = Nil THEN m
                                      ELSE f[Child(h, m, "left")]
               /\ \A m \in D : Descend(h, m, "left") = f[m]
  BY DescendEq
<1>2. \A m \in D : f[m] = IF h[m].left = Nil THEN m ELSE f[h[m].left]
  BY <1>1 DEF Child
<1>3. Descends(h, D, Nil, rank)
  BY TreeRank
<1> HIDE DEF rank
<1>4. rank \in [D \cup {Nil} -> Nat] /\ D \subseteq Nat /\ Nil \notin D
  BY <1>3, KeyFacts DEF Descends
<1> DEFINE Done(m, V) == LeftEnd(f[m], h, m, V)
           T == {i \in Nat : \A m \in D, V \in SUBSET D :
                               rank[m] < i /\ IsTree(h, m, V) => Done(m, V)}
<1>5. 0 \in T
  BY <1>4
<1>6. ASSUME NEW i \in Nat, i \in T PROVE i + 1 \in T
  <2>1. ASSUME NEW m \in D, NEW V \in SUBSET D, rank[m] < i + 1, IsTree(h, m, V)
        PROVE  Done(m, V)
    <3>1. V \in SUBSET Keys /\ m # Nil
      BY <1>4
    <3>2. PICK A, B \in SUBSET V : Joint(h, m, A, B) /\ V = A \cup {m} \cup B
      BY <2>1, <3>1, Split
    <3>3. /\ IsTree(h, h[m].left, A) /\ IsTree(h, h[m].right, B) /\ KnownAbove(h, m)
          /\ \A y \in A : y < m
          /\ \A y \in B : m < y
      BY <3>2 DEF Joint
    <3>4. /\ A \in SUBSET D /\ A \in SUBSET Keys /\ A \subseteq Nat
          /\ B \in SUBSET D /\ B \in SUBSET Keys /\ B \subseteq Nat /\ m \in Nat
      BY <1>4, <3>1
    <3>5. CASE h[m].left = Nil
      <4>1. A = {} /\ f[m] = m
        BY <1>2, <3>3, <3>4, <3>5, TreeRoot
      <4> QED BY <3>2, <3>3, <3>5, <4>1 DEF LeftEnd
    <3>6. CASE h[m].left # Nil
      <4> DEFINE c == h[m].left
      <4>1. c \in A /\ h[c].parent = m /\ f[m] = f[c]
        BY <1>2, <3>3, <3>4, <3>6, TreeRoot DEF KnownAbove
      <4>2. rank[c] < i
        <5>1. rank[c] < rank[m] /\ rank[c] \in Nat /\ rank[m] \in Nat
          BY <1>3, <1>4, <3>4, <4>1 DEF Descends
        <5> QED BY <2>1, <5>1
      <4>3. Done(c, A)
        BY <1>6, <3>3, <3>4, <4>1, <4>2
      <4>4. /\ f[c] \in A /\ h[f[c]].left = Nil
            /\ \A x \in A \ {f[c]} : f[c] < x
            /\ f[c] # c => h[f[c]].parent \in A /\ h[h[f[c]].parent].left = f[c]
        BY <4>3 DEF LeftEnd
      <4>5. ASSUME NEW x \in V \ {f[c]} PROVE f[c] < x
        <5>1. CASE x \in A
          BY <4>4, <5>1
        <5>2. CASE x = m
          BY <3>3, <4>4, <5>2
        <5>3. CASE x \in B
          <6>1. x \in Nat /\ f[c] \in Nat /\ m < x /\ f[c] < m
            BY <3>3, <3>4, <4>4, <5>3
          <6> QED BY <3>4, <6>1
        <5> QED BY <3>2, <5>1, <5>2, <5>3
      <4>6. f[c] \in V /\ m \in V
        BY <3>2, <4>4
      <4>7. h[f[c]].parent \in V /\ h[h[f[c]].parent].left = f[c]
        <5>1. CASE f[c] = c
          BY <4>1, <4>6, <5>1
        <5>2. CASE f[c] # c
          BY <3>2, <4>4, <5>2
        <5> QED BY <5>1, <5>2
      <4> HIDE DEF c
      <4> QED BY <4>1, <4>4, <4>5, <4>6, <4>7 DEF LeftEnd
    <3> QED BY <3>5, <3>6
  <2> QED BY <2>1
<1> HIDE DEF T
<1>7. n \in S /\ n \in D
  BY DEF IsTree
<1>8. rank[n] + 1 \in Nat /\ rank[n] < rank[n] + 1
  BY <1>4, <1>7
<1>9. rank[n] + 1 \in T
  BY <1>5, <1>6, <1>8, SetInduction
<1>10. Done(n, S)
  BY <1>7, <1>8, <1>9 DEF T
<1> QED BY <1>1, <1>7, <1>10

\* s is at the right end of the tree at n.
RightEnd(s, h, n, S) ==
    /\ s \in S /\ h[s].right = Nil
    /\ \A x \in S \ {s} : x < s
    /\ s # n => h[s].parent \in S /\ h[h[s].parent].right = s

\* Descend reaches the right end: the greatest node.
LEMMA DescendRight ==
    ASSUME NEW h, NEW D \in SUBSET Keys, h \in [D -> Node], NEW root0, IsTree(h, root0, D),
           NEW n, n # Nil, NEW S \in SUBSET D, IsTree(h, n, S)
    PROVE  RightEnd(Descend(h, n, "right"), h, n, S)
<1> DEFINE rank == [x \in D \cup {Nil} |-> Height(h, x)]
<1>1. PICK f : /\ \A m \in D : f[m] = IF Child(h, m, "right") = Nil THEN m
                                      ELSE f[Child(h, m, "right")]
               /\ \A m \in D : Descend(h, m, "right") = f[m]
  BY DescendEq
<1>2. \A m \in D : f[m] = IF h[m].right = Nil THEN m ELSE f[h[m].right]
  BY <1>1 DEF Child
<1>3. Descends(h, D, Nil, rank)
  BY TreeRank
<1> HIDE DEF rank
<1>4. rank \in [D \cup {Nil} -> Nat] /\ D \subseteq Nat /\ Nil \notin D
  BY <1>3, KeyFacts DEF Descends
<1> DEFINE Done(m, V) == RightEnd(f[m], h, m, V)
           T == {i \in Nat : \A m \in D, V \in SUBSET D :
                               rank[m] < i /\ IsTree(h, m, V) => Done(m, V)}
<1>5. 0 \in T
  BY <1>4
<1>6. ASSUME NEW i \in Nat, i \in T PROVE i + 1 \in T
  <2>1. ASSUME NEW m \in D, NEW V \in SUBSET D, rank[m] < i + 1, IsTree(h, m, V)
        PROVE  Done(m, V)
    <3>1. V \in SUBSET Keys /\ m # Nil
      BY <1>4
    <3>2. PICK A, B \in SUBSET V : Joint(h, m, A, B) /\ V = A \cup {m} \cup B
      BY <2>1, <3>1, Split
    <3>3. /\ IsTree(h, h[m].left, A) /\ IsTree(h, h[m].right, B) /\ KnownAbove(h, m)
          /\ \A y \in A : y < m
          /\ \A y \in B : m < y
      BY <3>2 DEF Joint
    <3>4. /\ A \in SUBSET D /\ A \in SUBSET Keys /\ A \subseteq Nat
          /\ B \in SUBSET D /\ B \in SUBSET Keys /\ B \subseteq Nat /\ m \in Nat
      BY <1>4, <3>1
    <3>5. CASE h[m].right = Nil
      <4>1. B = {} /\ f[m] = m
        BY <1>2, <3>3, <3>4, <3>5, TreeRoot
      <4> QED BY <3>2, <3>3, <3>5, <4>1 DEF RightEnd
    <3>6. CASE h[m].right # Nil
      <4> DEFINE c == h[m].right
      <4>1. c \in B /\ h[c].parent = m /\ f[m] = f[c]
        BY <1>2, <3>3, <3>4, <3>6, TreeRoot DEF KnownAbove
      <4>2. rank[c] < i
        <5>1. rank[c] < rank[m] /\ rank[c] \in Nat /\ rank[m] \in Nat
          BY <1>3, <1>4, <3>4, <4>1 DEF Descends
        <5> QED BY <2>1, <5>1
      <4>3. Done(c, B)
        BY <1>6, <3>3, <3>4, <4>1, <4>2
      <4>4. /\ f[c] \in B /\ h[f[c]].right = Nil
            /\ \A x \in B \ {f[c]} : x < f[c]
            /\ f[c] # c => h[f[c]].parent \in B /\ h[h[f[c]].parent].right = f[c]
        BY <4>3 DEF RightEnd
      <4>5. ASSUME NEW x \in V \ {f[c]} PROVE x < f[c]
        <5>1. CASE x \in B
          BY <4>4, <5>1
        <5>2. CASE x = m
          BY <3>3, <4>4, <5>2
        <5>3. CASE x \in A
          <6>1. x \in Nat /\ f[c] \in Nat /\ x < m /\ m < f[c]
            BY <3>3, <3>4, <4>4, <5>3
          <6> QED BY <3>4, <6>1
        <5> QED BY <3>2, <5>1, <5>2, <5>3
      <4>6. f[c] \in V /\ m \in V
        BY <3>2, <4>4
      <4>7. h[f[c]].parent \in V /\ h[h[f[c]].parent].right = f[c]
        <5>1. CASE f[c] = c
          BY <4>1, <4>6, <5>1
        <5>2. CASE f[c] # c
          BY <3>2, <4>4, <5>2
        <5> QED BY <5>1, <5>2
      <4> HIDE DEF c
      <4> QED BY <4>1, <4>4, <4>5, <4>6, <4>7 DEF RightEnd
    <3> QED BY <3>5, <3>6
  <2> QED BY <2>1
<1> HIDE DEF T
<1>7. n \in S /\ n \in D
  BY DEF IsTree
<1>8. rank[n] + 1 \in Nat /\ rank[n] < rank[n] + 1
  BY <1>4, <1>7
<1>9. rank[n] + 1 \in T
  BY <1>5, <1>6, <1>8, SetInduction
<1>10. Done(n, S)
  BY <1>7, <1>8, <1>9 DEF T
<1> QED BY <1>1, <1>7, <1>10

-----------------------------------------------------------------------------
(* insert: the new node, or the old one                                    *)

\* Where k is missing, the new node is the tree.
LEMMA CreatedReturns ==
    ASSUME NEW h, NEW D \in SUBSET Keys, h \in [D -> Node], NEW k \in Keys, k \notin D
    PROVE  Returns(Created(h, k), h, D, Nil, {}, {k})
<1> DEFINE g == [m \in D \cup {k} |-> IF m = k THEN NewNode ELSE h[m]]
<1>1. Created(h, k) = [heap |-> g, node |-> k, changed |-> TRUE]
  BY DEF Created
<1>2. NewNode \in Node
  BY KeyFacts DEF NewNode, Node
<1>3. g \in [D \cup {k} -> Node]
  BY <1>2
<1>4. g[k] = NewNode /\ \A x \in D : g[x] = h[x]
  OBVIOUS
<1> HIDE DEF g
<1>5. g[k].left = Nil /\ g[k].right = Nil /\ g[k].height = 1
  BY <1>4 DEF NewNode
<1>6. Height(g, Nil) = 0 /\ Height(g, k) = 1 /\ Height(h, Nil) = 0
  BY <1>5, KeyFacts DEF Height
<1>7. Level(g, k) /\ Even(1, 0)
  BY <1>5, <1>6 DEF Level, Even, MaxOf
<1>8. Joint(g, k, {}, {})
  BY <1>5 DEF Joint, IsTree, KnownAbove
<1>9. {} \cup {k} \cup {} = {k} /\ {} \in SUBSET Keys
  OBVIOUS
<1>10. IsTree(g, k, {k})
  BY <1>7, <1>8, <1>9, Join
<1>11. (D \ {}) \cup {k} = D \cup {k} /\ {k} # {}
  OBVIOUS
<1> DEFINE res == Created(h, k)
<1>12. res.heap = g /\ res.node = k /\ res.changed = TRUE
  BY <1>1
<1> HIDE DEF res
<1>13. Returns(res, h, D, Nil, {}, {k})
  BY <1>3, <1>4, <1>6, <1>7, <1>10, <1>11, <1>12 DEF Returns
<1> QED BY <1>13 DEF res

\* Where it is, nothing changes.
LEMMA UnchangedReturns ==
    ASSUME NEW h, NEW D \in SUBSET Keys, h \in [D -> Node],
           NEW n, NEW S \in SUBSET D, IsTree(h, n, S)
    PROVE  Returns(Unchanged(h, n), h, D, n, S, S)
<1>1. Height(h, n) \in Nat
  BY TreeHeight
<1>2. Even(Height(h, n), Height(h, n))
  BY <1>1 DEF Even
<1>3. (D \ S) \cup S = D
  OBVIOUS
<1> QED BY <1>2, <1>3 DEF Unchanged, Returns

\* So insert makes the tree of one node more, at most.
LEMMA InsertYields ==
    ASSUME NEW h, NEW D \in SUBSET Keys, h \in [D -> Node], NEW k \in Keys
    PROVE  Yields(Created(h, k), Unchanged(h, k), h, D, k, {k})
<1>1. k \notin D => Returns(Created(h, k), h, D, Nil, {}, {k})
  BY CreatedReturns
<1>2. ASSUME NEW S \in SUBSET D, k \in S, IsTree(h, k, S)
      PROVE  Returns(Unchanged(h, k), h, D, k, S, (S \ {k}) \cup {k})
  <2>1. (S \ {k}) \cup {k} = S
    BY <1>2
  <2> QED BY <1>2, <2>1, UnchangedReturns
<1> QED BY <1>1, <1>2 DEF Yields

-----------------------------------------------------------------------------
(* erase                                                                   *)

\* Delete frees one node.
LEMMA DeleteFacts ==
    ASSUME NEW h, NEW D \in SUBSET Keys, h \in [D -> Node], NEW k
    PROVE  /\ Delete(h, k) \in [D \ {k} -> Node]
           /\ \A x \in D \ {k} : Delete(h, k)[x] = h[x]
BY DEF Delete, Restrict

\* A node without a child on one side gives way to the child on the other.
\* It may be w that is spliced: the height of k makes no difference.
LEMMA SplicedReturns ==
    ASSUME NEW h, NEW D \in SUBSET Keys, h \in [D -> Node], NEW k \in D,
           NEW w \in [D -> Node], \A x \in D \ {k} : w[x] = h[x],
           w[k].left = h[k].left, w[k].right = h[k].right,
           NEW S \in SUBSET D, IsTree(h, k, S), h[k].left = Nil \/ h[k].right = Nil
    PROVE  Returns(Spliced(w, k), h, D, k, S, S \ {k})
<1> DEFINE f == Delete(w, k)
           c == IF h[k].left # Nil THEN h[k].left ELSE h[k].right
           E == S \ {k}
<1>1. Spliced(w, k) = [heap |-> f, node |-> c, changed |-> TRUE]
  BY DEF Spliced
<1>2. f \in [D \ {k} -> Node] /\ \A x \in D \ {k} : f[x] = h[x]
  <2>1. /\ Delete(w, k) \in [D \ {k} -> Node]
        /\ \A x \in D \ {k} : Delete(w, k)[x] = w[x]
    <3> HIDE DEF f
    <3> QED BY DEF Delete, Restrict
  <2> HIDE DEF f
  <2> QED BY <2>1 DEF f
<1> HIDE DEF f
<1>3. S \in SUBSET Keys /\ k # Nil /\ k \in Nat /\ S \subseteq Nat
  BY KeyFacts
<1>4. PICK A, B \in SUBSET S : Joint(h, k, A, B) /\ S = A \cup {k} \cup B
  BY <1>3, Split
<1>5. k \in S /\ Level(h, k)
  BY <1>3, Split
<1>6. /\ IsTree(h, h[k].left, A) /\ IsTree(h, h[k].right, B)
      /\ k \notin A /\ k \notin B
  BY <1>3, <1>4 DEF Joint
<1>7. A \in SUBSET Keys /\ B \in SUBSET Keys /\ A \in SUBSET D /\ B \in SUBSET D
  BY <1>3
<1>8. Height(h, h[k].left) \in Nat /\ Height(h, h[k].right) \in Nat
  BY <1>6, <1>7, TreeHeight
<1>9. IsTree(h, c, E) /\ Even(Height(h, c), h[k].height)
  <2>1. CASE h[k].left # Nil
    <3>1. B = {} /\ Height(h, h[k].right) = 0
      BY <1>6, <1>7, <2>1, TreeRoot DEF Height
    <3>2. c = h[k].left /\ E = A
      BY <1>4, <1>6, <2>1, <3>1
    <3> HIDE DEF c, E
    <3> QED BY <1>5, <1>6, <1>8, <3>1, <3>2 DEF Level, Even, MaxOf
  <2>2. CASE h[k].left = Nil
    <3>1. A = {} /\ Height(h, h[k].left) = 0
      BY <1>6, <1>7, <2>2, TreeRoot DEF Height
    <3>2. c = h[k].right /\ E = B
      BY <1>4, <1>6, <2>2, <3>1
    <3> HIDE DEF c, E
    <3> QED BY <1>5, <1>6, <1>8, <3>1, <3>2 DEF Level, Even, MaxOf
  <2> QED BY <2>1, <2>2
<1>10. E \in SUBSET Keys /\ E \subseteq D \ {k} /\ (D \ S) \cup E = D \ {k} /\ E # S
  <2>1. E \in SUBSET Keys /\ E \subseteq D \ {k} /\ E # S
    BY <1>3, <1>5
  <2>2. (D \ S) \cup E = D \ {k}
    BY <1>5
  <2> QED BY <2>1, <2>2
<1> HIDE DEF c, E
<1>11. IsTree(f, c, E) /\ Height(f, c) = Height(h, c)
  <2>1. \A x \in E : /\ f[x].left = h[x].left /\ f[x].right = h[x].right
                     /\ f[x].height = h[x].height
                     /\ x # c => f[x].parent = h[x].parent
    BY <1>2, <1>10
  <2>2. IsTree(h, c, E) /\ E \in SUBSET Keys
    BY <1>9, <1>10
  <2> QED BY <2>1, <2>2, Frame
<1>12. Even(Height(f, c), Height(h, k))
  BY <1>3, <1>9, <1>11 DEF Height
<1>13. \A x \in D \ (S \cup E) : f[x] = h[x]
  BY <1>2, <1>5
<1> DEFINE res == Spliced(w, k)
<1>14. res.heap = f /\ res.node = c /\ res.changed = TRUE
  BY <1>1
<1> HIDE DEF res
<1>15. Returns(res, h, D, k, S, E)
  BY <1>2, <1>10, <1>11, <1>12, <1>13, <1>14 DEF Returns
<1> QED BY <1>15 DEF E, res

\* The height of a tree that lost a level on one side at most: it is again
\* nearly what it was.
LEMMA NewHeight ==
    ASSUME NEW a \in Nat, NEW old \in Nat, NEW b \in Nat, Even(a, old), Even(b, old),
           NEW new, new \in {MaxOf(a, b), MaxOf(a, b) + 1},
           Even(a, b) => new = MaxOf(a, b) + 1
    PROVE  /\ a <= b + 2 /\ b <= a + 2
           /\ Even(new, MaxOf(a, old) + 1)
BY DEF Even, MaxOf

\* The right child, if it has no left one, takes the left child of k and the
\* place of k.
LEMMA RightTakesOver ==
    ASSUME NEW h, NEW D \in SUBSET Keys, h \in [D -> Node], NEW k \in D,
           NEW A \in SUBSET D, NEW B \in SUBSET D, Joint(h, k, A, B), Level(h, k),
           h[k].left # Nil, NEW s, s = h[k].right, s # Nil, h[s].left = Nil,
           NEW b, b = Rebalance(Delete(SetLeft(h, s, h[k].left), k), s)
    PROVE  Returns([heap |-> b.heap, node |-> b.node, changed |-> TRUE],
                   h, D, k, A \cup {k} \cup B, A \cup B)
<1> DEFINE l == h[k].left
           e == h[s].right
           f == SetLeft(h, s, l)
           g == Delete(f, k)
           X == D \ {k}
<1>1. /\ IsTree(h, l, A) /\ IsTree(h, s, B) /\ KnownAbove(h, k)
      /\ \A y \in A : y < k
      /\ \A y \in B : k < y
  BY DEF Joint
<1>2. /\ A \in SUBSET Keys /\ B \in SUBSET Keys /\ A \subseteq Nat /\ B \subseteq Nat
      /\ k \in Nat /\ Nil \notin D /\ D \subseteq Nat
  BY KeyFacts
<1>3. PICK C, E \in SUBSET B : Joint(h, s, C, E) /\ B = C \cup {s} \cup E
  BY <1>1, <1>2, Split
<1>4. s \in B /\ Level(h, s)
  BY <1>1, <1>2, Split
<1>5. /\ IsTree(h, Nil, C) /\ IsTree(h, e, E) /\ KnownAbove(h, s)
      /\ \A y \in E : s < y
  BY <1>3 DEF Joint
<1>6. C \in SUBSET Keys /\ E \in SUBSET Keys /\ E \in SUBSET D
  BY <1>2
<1>7. C = {} /\ e \in E \cup {Nil} /\ l \in A
  BY <1>1, <1>2, <1>5, <1>6, TreeRoot
<1>8. B = {s} \cup E /\ s \notin E /\ s \in D /\ s \in Nat /\ k < s
  <2>1. s \in Nat /\ E \subseteq Nat
    BY <1>2, <1>4
  <2>2. s \notin E
    BY <1>5, <2>1
  <2> QED BY <1>1, <1>3, <1>4, <1>7, <2>1, <2>2
<1>9. k \notin A /\ k \notin B /\ A \cap B = {}
  BY <1>1, <1>2
<1>10. /\ X \in SUBSET Keys /\ A \in SUBSET X /\ E \in SUBSET X /\ s \in X
  BY <1>2, <1>8, <1>9
<1> HIDE DEF l, e
<1>11. LeftSet(f, h, D, s, l)
  BY <1>7, <1>8, SetLeftFacts
<1> HIDE DEF f
<1>12. g \in [X -> Node] /\ \A x \in X : g[x] = f[x]
  <2>1. f \in [D -> Node]
    BY <1>11 DEF LeftSet
  <2> QED BY <2>1 DEF Delete, Restrict
<1> HIDE DEF g, X
<1>13. /\ g[s].left = l /\ g[s].right = e /\ g[l].parent = s
       /\ \A x \in E : g[x] = h[x]
       /\ \A x \in A : /\ g[x].left = h[x].left /\ g[x].right = h[x].right
                       /\ g[x].height = h[x].height
                       /\ x # l => g[x].parent = h[x].parent
  <2>1. g[s].left = l /\ g[s].right = e
    BY <1>8, <1>10, <1>11, <1>12 DEF LeftSet, e
  <2>2. l \in D /\ l \in X
    BY <1>7, <1>10
  <2>3. g[l].parent = s
    BY <1>11, <1>12, <2>2 DEF LeftSet
  <2>4. \A x \in E : x \in D /\ x \in X /\ x \notin {s, l}
    BY <1>7, <1>8, <1>9, <1>10
  <2>5. \A x \in E : g[x] = h[x]
    BY <1>11, <1>12, <2>4 DEF LeftSet
  <2>6. \A x \in A : x \in D /\ x \in X /\ x # s
    BY <1>4, <1>9, <1>10
  <2>7. \A x \in A : /\ g[x].left = h[x].left /\ g[x].right = h[x].right
                     /\ g[x].height = h[x].height
                     /\ x # l => g[x].parent = h[x].parent
    BY <1>11, <1>12, <2>6 DEF LeftSet
  <2> QED BY <2>1, <2>3, <2>5, <2>7
<1>14. IsTree(g, l, A) /\ Height(g, l) = Height(h, l)
  <2>1. \A x \in A : /\ g[x].left = h[x].left /\ g[x].right = h[x].right
                     /\ g[x].height = h[x].height
                     /\ x # l => g[x].parent = h[x].parent
    BY <1>13
  <2> QED BY <1>1, <1>2, <2>1, Frame
<1>15. IsTree(g, e, E) /\ Height(g, e) = Height(h, e)
  BY <1>5, <1>6, <1>13, Frame
<1>16. Joint(g, s, A, E)
  <2>1. \A y \in A : y < s
    BY <1>1, <1>2, <1>8
  <2>2. KnownAbove(g, s)
    <3>1. e # Nil => e \in E /\ h[e].parent = s
      BY <1>5, <1>7 DEF KnownAbove, e
    <3> QED BY <1>13, <3>1 DEF KnownAbove
  <2> QED BY <1>5, <1>13, <1>14, <1>15, <2>1, <2>2 DEF Joint
<1> DEFINE a == Height(h, l)
           old == Height(h, s)
           low == Height(h, e)
           new == Height(b.heap, b.node)
<1>17. a \in Nat /\ old \in Nat /\ low \in Nat
  BY <1>1, <1>5, <1>6, TreeHeight
<1>18. Even(a, old) /\ Height(h, k) = MaxOf(a, old) + 1
  BY <1>2 DEF Level, l, Height
<1>19. old = low + 1
  <2>1. old = MaxOf(0, low) + 1
    BY <1>2, <1>4, <1>8 DEF Level, e, Height
  <2> HIDE DEF old, low
  <2> QED BY <1>17, <2>1 DEF MaxOf
<1>20. a <= low + 2 /\ low <= a + 2
  <2> HIDE DEF a, old, low
  <2> QED BY <1>17, <1>18, <1>19 DEF Even
<1>21. Rebalanced(b, g, X, A \cup {s} \cup E, a, low)
  <2>1. b = Rebalance(g, s)
    BY DEF g, f, l
  <2>2. a = Height(g, g[s].left) /\ low = Height(g, g[s].right)
    BY <1>13, <1>14, <1>15
  <2> HIDE DEF a, low
  <2>3. g \in [X -> Node]
    BY <1>12
  <2>4. Rebalanced(Rebalance(g, s), g, X, A \cup {s} \cup E, a, low)
    BY <1>10, <1>16, <1>20, <2>2, <2>3, RebalanceTree
  <2> QED BY <2>1, <2>4
<1>22. A \cup {s} \cup E = A \cup B
  BY <1>8
<1>23. /\ b.heap \in [X -> Node] /\ IsTree(b.heap, b.node, A \cup B)
       /\ new \in {MaxOf(a, low), MaxOf(a, low) + 1}
       /\ Even(a, low) => new = MaxOf(a, low) + 1
       /\ \A x \in X \ (A \cup B) : b.heap[x] = g[x]
  BY <1>21, <1>22 DEF Rebalanced
<1>24. Even(new, Height(h, k))
  <2> HIDE DEF a, old, low, new
  <2>1. Even(low, old)
    BY <1>17, <1>19 DEF Even
  <2> QED BY <1>17, <1>18, <1>23, <2>1, NewHeight
<1>25. \A x \in D \ (A \cup {k} \cup B \cup (A \cup B)) : b.heap[x] = h[x]
  <2> SUFFICES ASSUME NEW x \in D \ (A \cup {k} \cup B \cup (A \cup B))
               PROVE  b.heap[x] = h[x]
    OBVIOUS
  <2>1. x \in X \ (A \cup B) /\ x \in D
    BY DEF X
  <2>2. x # s /\ x # l
    BY <1>4, <1>7, <2>1
  <2> QED BY <1>11, <1>12, <1>23, <2>1, <2>2 DEF LeftSet
<1>26. (D \ (A \cup {k} \cup B)) \cup (A \cup B) = X
  BY <1>9 DEF X
<1>27. A \cup {k} \cup B # A \cup B
  BY <1>9
<1> DEFINE res == [heap |-> b.heap, node |-> b.node, changed |-> TRUE]
<1>28. res.heap = b.heap /\ res.node = b.node /\ res.changed = TRUE
  OBVIOUS
<1> HIDE DEF res, new
<1>29. Even(Height(b.heap, b.node), Height(h, k))
  BY <1>24 DEF new
<1>30. Returns(res, h, D, k, A \cup {k} \cup B, A \cup B)
  BY <1>23, <1>25, <1>26, <1>27, <1>28, <1>29 DEF Returns
<1> QED BY <1>30 DEF res

\* hh is h with n in the place of s, in the tree at r that has s at its left
\* end, below p.
TakesPlace(hh, h, B, n, s, p, r) ==
    /\ hh[n].left = Nil /\ hh[n].right = h[s].right
    /\ hh[n].height = h[s].height /\ hh[n].parent = p
    /\ hh[p].left = n
    /\ \A x \in B \ {s} : /\ hh[x].right = h[x].right /\ hh[x].height = h[x].height
                          /\ x # p => hh[x].left = h[x].left
                          /\ x \notin {r, h[s].right} => hh[x].parent = h[x].parent
    /\ h[s].right # Nil => hh[h[s].right].parent = n

\* It is a tree again, if n is less than the nodes of B.
LEMMA PlaceTaken ==
    ASSUME NEW h, NEW B \in SUBSET Keys, NEW r, IsTree(h, r, B),
           NEW s, LeftEnd(s, h, r, B), s # r, NEW p, p = h[s].parent,
           NEW n \in Keys, n \notin B, \A y \in B : n < y,
           NEW hh, TakesPlace(hh, h, B, n, s, p, r)
    PROVE  IsTree(hh, r, (B \ {s}) \cup {n}) /\ Height(hh, r) = Height(h, r)
<1> DEFINE V == (B \ {s}) \cup {n}
           e == h[s].right
           Swap(Z) == IF s \in Z THEN (Z \ {s}) \cup {n} ELSE Z
<1>1. s \in B /\ h[s].left = Nil /\ p \in B /\ h[p].left = s /\ \A x \in B \ {s} : s < x
  BY DEF LeftEnd
<1>2. PICK t : r \in B /\ Shape(h, B, t) /\ t[r] = B
  BY <1>1 DEF IsTree
<1>3. B \subseteq Nat /\ n \in Nat /\ Nil \notin B /\ n # Nil
  BY KeyFacts
<1>4. /\ t \in [B \cup {Nil} -> SUBSET B] /\ t[Nil] = {}
      /\ \A x \in B : Hangs(h, B, t, x)
  BY <1>2 DEF Shape
<1>5. ASSUME NEW x \in B
      PROVE  /\ h[x].left \in B \cup {Nil} /\ h[x].right \in B \cup {Nil}
             /\ t[x] = t[h[x].left] \cup {x} \cup t[h[x].right]
             /\ \A y \in t[h[x].left] : y < x
             /\ \A y \in t[h[x].right] : x < y
             /\ \A y \in t[x] : t[y] \subseteq t[x]
             /\ h[x].left # Nil => h[h[x].left].parent = x
             /\ h[x].right # Nil => h[h[x].right].parent = x
             /\ Level(h, x)
  BY <1>4 DEF Hangs, KnownAbove
<1>6. \A x \in B : x \in t[x] /\ t[x] \subseteq B
  BY <1>4, <1>5
<1>7. ASSUME NEW x \in B PROVE h[x].left # r /\ h[x].right # r
  BY <1>2, <1>3, <1>5
<1>8. s \notin t[e] /\ e # s /\ e \in B \cup {Nil} /\ t[s] = {s} \cup t[e]
  <2>1. t[s] = {} \cup {s} \cup t[e] /\ e \in B \cup {Nil} /\ \A y \in t[e] : s < y
    BY <1>1, <1>4, <1>5
  <2> QED BY <1>1, <1>3, <1>6, <2>1
<1>9. p # s
  BY <1>1, <1>3
<1>10. \A x \in B \ {s, p} : h[x].left # s /\ h[x].right # s
  BY <1>1, <1>3, <1>5
<1>11. ASSUME NEW x \in B \ {s} PROVE s \notin t[h[x].right] /\ h[x].right # s
  <2>1. s < x /\ s \in Nat /\ x \in Nat
    BY <1>1, <1>3
  <2>2. s \notin t[h[x].right]
    BY <1>5, <2>1
  <2> QED BY <1>1, <1>6, <2>2
<1> DEFINE u == [x \in V \cup {Nil} |-> IF x = n THEN Swap(t[s]) ELSE Swap(t[x])]
<1>12. u \in [V \cup {Nil} -> SUBSET V]
  <2>1. ASSUME NEW Z \in SUBSET B PROVE Swap(Z) \in SUBSET V
    OBVIOUS
  <2>2. t[s] \in SUBSET B /\ \A x \in (B \ {s}) \cup {Nil} : t[x] \in SUBSET B
    BY <1>1, <1>4
  <2> HIDE DEF Swap, V
  <2>3. \A x \in V \cup {Nil} : x # n => x \in (B \ {s}) \cup {Nil}
    BY DEF V
  <2> QED BY <2>1, <2>2, <2>3
<1>13. u[n] = Swap(t[s]) /\ u[Nil] = {} /\ \A x \in (B \ {s}) \cup {Nil} : u[x] = Swap(t[x])
  <2>1. Swap(t[Nil]) = {}
    BY <1>4
  <2>2. n \notin (B \ {s}) \cup {Nil}
    BY <1>3
  <2> HIDE DEF Swap
  <2> QED BY <1>3, <2>1, <2>2
<1> HIDE DEF u
<1>14. \A Y, Z \in SUBSET B : Y \subseteq Z => Swap(Y) \subseteq Swap(Z)
  OBVIOUS
<1>15. u[n] = {n} \cup u[e] /\ u[e] = t[e]
  <2>1. e \in (B \ {s}) \cup {Nil} /\ Swap(t[e]) = t[e]
    BY <1>8
  <2>2. Swap(t[s]) = {n} \cup t[e]
    BY <1>8
  <2> QED BY <1>13, <2>1, <2>2
<1>16. u[r] = V
  <2>1. Swap(B) = V
    BY <1>1
  <2> QED BY <1>2, <1>13, <2>1
<1>17. ASSUME NEW x \in V, NEW y \in u[x] PROVE u[y] \subseteq u[x]
  <2> DEFINE at(z) == IF z = n THEN s ELSE z
  <2>1. u[x] = Swap(t[at(x)]) /\ at(x) \in B
    BY <1>1, <1>13
  <2>2. t[at(x)] \in SUBSET B
    BY <1>4, <2>1
  <2>3. at(y) \in t[at(x)]
    <3> HIDE DEF at
    <3>1. y \in Swap(t[at(x)])
      BY <2>1
    <3>2. y # s
      BY <1>1, <2>2, <3>1
    <3>3. y = n => s \in t[at(x)]
      BY <2>2, <3>1
    <3> QED BY <3>1, <3>2, <3>3 DEF at
  <2>4. at(y) \in B /\ y \in V
    BY <1>12, <2>2, <2>3
  <2>5. u[y] = Swap(t[at(y)])
    BY <1>13, <2>4
  <2>6. t[at(y)] \subseteq t[at(x)] /\ t[at(y)] \in SUBSET B
    BY <1>4, <1>5, <2>1, <2>3, <2>4
  <2> HIDE DEF at, Swap
  <2> QED BY <1>14, <2>1, <2>2, <2>5, <2>6
<1>18. \A c \in (B \ {s}) \cup {Nil} : Height(hh, c) = Height(h, c)
  BY DEF Height, TakesPlace
<1>19. Height(hh, n) = Height(h, s)
  BY <1>1, <1>3 DEF Height, TakesPlace
<1>20. Hangs(hh, V, u, n)
  <2>1. hh[n].left = Nil /\ hh[n].right = e /\ (e # Nil => hh[e].parent = n)
    BY DEF TakesPlace
  <2>2. e \in V \cup {Nil} /\ e \in (B \ {s}) \cup {Nil}
    BY <1>8
  <2>3. Height(hh, e) = Height(h, e) /\ Height(hh, Nil) = Height(h, Nil)
    BY <1>18, <2>2
  <2>4. Level(hh, n)
    <3>1. Level(h, s) /\ h[s].left = Nil /\ hh[n].height = h[s].height
      BY <1>1, <1>5 DEF TakesPlace
    <3> HIDE DEF e
    <3> QED BY <2>1, <2>3, <3>1 DEF Level, e
  <2>5. \A y \in u[e] : n < y
    BY <1>4, <1>8, <1>15
  <2>6. u[n] = u[Nil] \cup {n} \cup u[e] /\ n \in V
    BY <1>13, <1>15
  <2>7. \A y \in u[n] : u[y] \subseteq u[n]
    BY <1>17, <2>6
  <2> HIDE DEF e, V
  <2> QED BY <1>13, <2>1, <2>2, <2>4, <2>5, <2>6, <2>7 DEF Hangs, KnownAbove
<1>21. ASSUME NEW x \in B \ {s}, NEW c \in B, c = h[x].left \/ c = h[x].right, c # s
       PROVE  hh[c].parent = x
  <2>1. h[c].parent = x /\ c # r
    <3>1. c # Nil /\ x \in B
      BY <1>3
    <3>2. CASE c = h[x].left
      BY <1>5, <1>7, <3>1, <3>2
    <3>3. CASE c = h[x].right
      BY <1>5, <1>7, <3>1, <3>3
    <3> QED BY <1>21, <3>2, <3>3
  <2>2. c # e
    <3>1. e # Nil => h[e].parent = s
      BY <1>1, <1>5
    <3> QED BY <1>3, <2>1, <3>1
  <2> QED BY <1>21, <2>1, <2>2 DEF TakesPlace
<1>22. ASSUME NEW x \in B \ {s} PROVE Hangs(hh, V, u, x)
  <2> DEFINE a == h[x].left
             c == h[x].right
             d == IF x = p THEN n ELSE a
  <2>1. hh[x].right = c /\ hh[x].height = h[x].height /\ hh[x].left = d
    BY DEF TakesPlace
  <2>2. c \in (B \ {s}) \cup {Nil} /\ Swap(t[c]) = t[c]
    BY <1>5, <1>11
  <2>3. x # p => a \in (B \ {s}) \cup {Nil}
    BY <1>5, <1>10
  <2>4. x = p => a = s
    BY <1>1
  <2>5. u[c] = t[c] /\ u[d] = Swap(t[a])
    BY <1>13, <2>2, <2>3, <2>4
  <2>6. u[x] = u[d] \cup {x} \cup u[c]
    <3>1. u[x] = Swap(t[x]) /\ t[x] = t[a] \cup {x} \cup t[c] /\ s \notin t[c] /\ x # s
      BY <1>5, <1>11, <1>13
    <3>2. Swap(t[x]) = Swap(t[a]) \cup {x} \cup t[c]
      BY <3>1
    <3> QED BY <2>5, <3>1, <3>2
  <2>7. \A y \in u[d] : y < x
    <3>1. \A y \in t[a] : y < x
      BY <1>5
    <3>2. n < x
      OBVIOUS
    <3> QED BY <2>5, <3>1, <3>2
  <2>8. \A y \in u[c] : x < y
    BY <1>5, <2>5
  <2>9. c \in V \cup {Nil} /\ d \in V \cup {Nil} /\ x \in V
    BY <2>2, <2>3
  <2>10. KnownAbove(hh, x)
    <3>1. c # Nil => hh[c].parent = x
      BY <1>21, <2>2
    <3>2. d # Nil => hh[d].parent = x
      <4>1. CASE x = p
        BY <4>1 DEF TakesPlace
      <4>2. CASE x # p
        BY <1>21, <2>3, <4>2
      <4> QED BY <4>1, <4>2
    <3> QED BY <2>1, <3>1, <3>2 DEF KnownAbove
  <2>11. Level(hh, x)
    <3>1. Height(hh, c) = Height(h, c)
      BY <1>18, <2>2
    <3>2. Height(hh, d) = Height(h, a)
      BY <1>18, <1>19, <2>3, <2>4
    <3>3. Level(h, x)
      BY <1>5
    <3> HIDE DEF c, d, a
    <3> QED BY <2>1, <3>1, <3>2, <3>3 DEF Level, a, c
  <2>12. \A y \in u[x] : u[y] \subseteq u[x]
    BY <1>17, <2>9
  <2> HIDE DEF a, c, d, V
  <2> QED BY <2>1, <2>6, <2>7, <2>8, <2>9, <2>10, <2>11, <2>12 DEF Hangs
<1>23. r \in V /\ r \in (B \ {s}) \cup {Nil}
  BY <1>2
<1>24. Shape(hh, V, u)
  BY <1>12, <1>13, <1>20, <1>22 DEF Shape
<1> HIDE DEF V
<1>25. IsTree(hh, r, V)
  BY <1>16, <1>23, <1>24 DEF IsTree
<1> QED BY <1>18, <1>23, <1>25 DEF V

\* The exchange: s has the children of n, n is below p and has the right
\* child of s.  No height is changed.
Exchanged(g, h, D, n, s, p) ==
    /\ g \in [D -> Node]
    /\ g[s].left = h[n].left /\ g[s].right = h[n].right
    /\ g[n].left = Nil /\ g[n].right = h[s].right /\ g[n].parent = p
    /\ g[p].left = n
    /\ g[h[n].left].parent = s /\ g[h[n].right].parent = s
    /\ h[s].right # Nil => g[h[s].right].parent = n
    /\ \A x \in D : /\ g[x].height = h[x].height
                    /\ x \notin {s, n} => g[x].right = h[x].right
                    /\ x \notin {s, n, p} => g[x].left = h[x].left
                    /\ x \notin {n, h[n].left, h[n].right, h[s].right} =>
                           g[x].parent = h[x].parent

\* So it is, if the successor is not the right child itself.
LEMMA ExchangeFacts ==
    ASSUME NEW h, NEW D \in SUBSET Keys, h \in [D -> Node],
           NEW n \in D, NEW s \in D \ {n}, NEW p \in D \ {n, s}, p = h[s].parent,
           NEW l \in D \ {n, s, p}, l = h[n].left,
           NEW r \in D \ {n, s, l}, r = h[n].right,
           h[s].left = Nil, NEW e \in (D \cup {Nil}) \ {n, s, l, r}, e = h[s].right
    PROVE  Exchanged(SwapWithSuccessor(h, n, s), h, D, n, s, p)
<1> DEFINE f1 == SetLeft(h, s, l)
           f2 == SetRight(f1, s, r)
           f3 == SetLeft(f2, p, n)
           f4 == SetLeft(f3, n, Nil)
           f5 == SetRight(f4, n, e)
<1>1. Nil \notin D
  BY KeyFacts
<1>2. LeftSet(f1, h, D, s, l)
  BY SetLeftFacts
<1> HIDE DEF f1
<1>3. RightSet(f2, f1, D, s, r)
  BY <1>2, SetRightFacts DEF LeftSet
<1> HIDE DEF f2
<1>4. f2[s].parent = p
  BY <1>2, <1>3 DEF LeftSet, RightSet
<1>5. LeftSet(f3, f2, D, p, n)
  BY <1>3, SetLeftFacts DEF RightSet
<1> HIDE DEF f3
<1>6. LeftSet(f4, f3, D, n, Nil)
  <2>1. f3 \in [D -> Node]
    BY <1>5 DEF LeftSet
  <2> QED BY <2>1, SetLeftFacts
<1> HIDE DEF f4
<1>7. RightSet(f5, f4, D, n, e)
  <2>1. f4 \in [D -> Node]
    BY <1>6 DEF LeftSet
  <2> QED BY <2>1, SetRightFacts
<1>8. SwapWithSuccessor(h, n, s) = f5
  BY <1>4 DEF SwapWithSuccessor, f1, f2, f3, f4
<1> HIDE DEF f5
<1>9. \A x \in D :
        /\ f2[x].left = (IF x = s THEN l ELSE h[x].left)
        /\ f2[x].right = (IF x = s THEN r ELSE h[x].right)
        /\ f2[x].height = h[x].height
        /\ f2[x].parent = (IF x \in {l, r} THEN s ELSE h[x].parent)
  BY <1>2, <1>3 DEF LeftSet, RightSet
<1>10. \A x \in D :
        /\ f4[x].left = (IF x = n THEN Nil ELSE IF x = p THEN n ELSE f2[x].left)
        /\ f4[x].right = f2[x].right
        /\ f4[x].height = f2[x].height
        /\ f4[x].parent = (IF x = n THEN p ELSE f2[x].parent)
  BY <1>1, <1>5, <1>6 DEF LeftSet
<1>11. /\ f5 \in [D -> Node]
       /\ \A x \in D :
            /\ f5[x].left = f4[x].left
            /\ f5[x].right = (IF x = n THEN e ELSE f4[x].right)
            /\ f5[x].height = f4[x].height
            /\ f5[x].parent = (IF x = e THEN n ELSE f4[x].parent)
  BY <1>7 DEF RightSet
<1>12. /\ f5[s].left = l /\ f5[s].right = r
       /\ f5[n].left = Nil /\ f5[n].right = e /\ f5[n].parent = p
       /\ f5[p].left = n
  BY <1>9, <1>10, <1>11
<1>13. f5[l].parent = s /\ f5[r].parent = s /\ (e # Nil => f5[e].parent = n)
  BY <1>9, <1>10, <1>11
<1>14. \A x \in D : /\ f5[x].height = h[x].height
                    /\ x \notin {s, n} => f5[x].right = h[x].right
                    /\ x \notin {s, n, p} => f5[x].left = h[x].left
                    /\ x \notin {n, l, r, e} => f5[x].parent = h[x].parent
  BY <1>9, <1>10, <1>11
<1>15. Exchanged(f5, h, D, n, s, p)
  BY <1>11, <1>12, <1>13, <1>14 DEF Exchanged
<1> QED BY <1>8, <1>15

\* Nodes with the same fields are the same.
LEMMA SameNode ==
    ASSUME NEW x \in Node, NEW y \in Node, x.left = y.left, x.right = y.right,
           x.parent = y.parent, x.height = y.height
    PROVE  x = y
BY DEF Node

\* The links about the node at the left end.
LEMMA AboutLeftEnd ==
    ASSUME NEW h, NEW B \in SUBSET Keys, NEW r, IsTree(h, r, B),
           NEW s, LeftEnd(s, h, r, B), s # r
    PROVE  /\ h[s].parent \in B \ {s} /\ h[h[s].parent].left = s /\ h[h[s].parent].right # s
           /\ h[s].right \in (B \cup {Nil}) \ {s}
           /\ h[s].right # Nil => h[h[s].right].parent = s
<1>1. s \in B /\ h[s].parent \in B /\ h[h[s].parent].left = s
  BY DEF LeftEnd
<1>2. PICK t : Shape(h, B, t)
  BY <1>1 DEF IsTree
<1>3. B \subseteq Nat /\ Nil \notin B
  BY KeyFacts
<1>4. ASSUME NEW x \in B
      PROVE  /\ h[x].left \in B \cup {Nil} /\ h[x].right \in B \cup {Nil}
             /\ h[x].left \in B => h[x].left < x
             /\ h[x].right \in B => x < h[x].right
             /\ h[x].right # Nil => h[h[x].right].parent = x
  <2>1. \A y \in B : y \in t[y]
    BY <1>2 DEF Shape, Hangs
  <2>2. Hangs(h, B, t, x)
    BY <1>2 DEF Shape
  <2> QED BY <2>1, <2>2 DEF Hangs, KnownAbove
<1>5. s < h[s].parent /\ h[s].parent # s
  <2> DEFINE p == h[s].parent
  <2>1. p \in B /\ p \in Nat /\ s \in Nat
    BY <1>1, <1>3
  <2>2. h[p].left = s
    BY <1>1
  <2>3. h[p].left \in B => h[p].left < p
    BY <1>4, <2>1
  <2> HIDE DEF p
  <2>4. s < p
    BY <1>1, <2>2, <2>3
  <2>5. p # s
    BY <2>1, <2>4
  <2> QED BY <2>4, <2>5 DEF p
<1>6. h[h[s].parent].right # s
  <2> DEFINE p == h[s].parent
  <2>1. p \in B /\ p \in Nat /\ s \in Nat /\ s < p
    BY <1>1, <1>3, <1>5
  <2>2. h[p].right \in B => p < h[p].right
    BY <1>4, <2>1
  <2> HIDE DEF p
  <2>3. h[p].right # s
    BY <1>1, <2>1, <2>2
  <2> QED BY <2>3 DEF p
<1>7. h[s].right \in (B \cup {Nil}) \ {s}
  <2> DEFINE q == h[s].right
  <2>1. q \in B \cup {Nil} /\ (q \in B => s < q)
    BY <1>1, <1>4
  <2> HIDE DEF q
  <2>2. s \in Nat
    BY <1>1, <1>3
  <2>3. q # s
    BY <1>1, <2>1, <2>2
  <2> QED BY <2>1, <2>3 DEF q
<1> QED BY <1>1, <1>4, <1>5, <1>6, <1>7

\* Every link of a tree is known above.
LEMMA TreeLinks ==
    ASSUME NEW h, NEW D \in SUBSET Keys, NEW n, IsTree(h, n, D), NEW x \in D
    PROVE  /\ h[x].left \in D \cup {Nil} /\ h[x].right \in D \cup {Nil}
           /\ KnownAbove(h, x)
<1>1. PICK t : Shape(h, D, t)
  BY DEF IsTree
<1>2. Hangs(h, D, t, x)
  BY <1>1 DEF Shape
<1> QED BY <1>2 DEF Hangs

\* The links that the search goes down after the exchange.  Nothing goes on
\* from n.
LEMMA ExchangedDescends ==
    ASSUME NEW h, NEW D \in SUBSET Keys, h \in [D -> Node], NEW root0, IsTree(h, root0, D),
           NEW n \in D, NEW s \in D \ {n}, NEW p \in D \ {n, s}, p = h[s].parent,
           h[n].left \in D \ {n, s}, h[n].right \in D \ {n, s}, h[p].right # s,
           NEW g, Exchanged(g, h, D, n, s, p)
    PROVE  \E rank : Descends(g, D, n, rank)
<1> DEFINE H == [x \in D \cup {Nil} |-> Height(h, x)]
           rank == [x \in D \cup {Nil} |-> IF x = n THEN 0 ELSE IF x = s THEN H[n] ELSE H[x]]
<1>1. Descends(h, D, Nil, H)
  BY TreeRank
<1> HIDE DEF H
<1>2. /\ H \in [D \cup {Nil} -> Nat] /\ Nil \notin D
      /\ \A x \in D : /\ h[x].left \in D \cup {Nil} /\ H[h[x].left] < H[x]
                      /\ h[x].right \in D \cup {Nil} /\ H[h[x].right] < H[x]
  BY <1>1, KeyFacts DEF Descends
<1>3. /\ rank \in [D \cup {Nil} -> Nat] /\ rank[n] = 0 /\ rank[s] = H[n]
      /\ \A x \in (D \cup {Nil}) \ {n, s} : rank[x] = H[x]
  BY <1>2
<1> HIDE DEF rank
<1>4. ASSUME NEW x \in D \ {n}
      PROVE  /\ g[x].left \in D \cup {Nil} /\ rank[g[x].left] < rank[x]
             /\ g[x].right \in D \cup {Nil} /\ rank[g[x].right] < rank[x]
  <2>1. CASE x = s
    <3>1. g[s].left = h[n].left /\ g[s].right = h[n].right
      BY DEF Exchanged
    <3>2. rank[h[n].left] = H[h[n].left] /\ rank[h[n].right] = H[h[n].right]
      BY <1>3
    <3> QED BY <1>2, <1>3, <2>1, <3>1, <3>2
  <2>2. ASSUME x # s, NEW c \in D \cup {Nil}, c # s, H[c] < H[x]
        PROVE  rank[c] < rank[x]
    <3>1. rank[x] = H[x] /\ H[x] \in Nat /\ H[c] \in Nat
      BY <1>2, <1>3, <2>2
    <3>2. rank[c] = 0 \/ rank[c] = H[c]
      BY <1>3, <2>2
    <3> QED BY <2>2, <3>1, <3>2
  <2>3. CASE x = p
    <3>1. g[p].left = n /\ g[p].right = h[p].right
      BY DEF Exchanged
    <3>2. H[h[p].right] < H[p] /\ h[p].right \in D \cup {Nil}
      BY <1>2
    <3>3. rank[n] < rank[p]
      <4>1. rank[p] = H[p] /\ H[p] \in Nat /\ H[h[p].right] \in Nat
        BY <1>2, <1>3, <3>2
      <4> QED BY <1>3, <3>2, <4>1
    <3>4. rank[h[p].right] < rank[p]
      BY <2>2, <2>3, <3>2
    <3> QED BY <2>3, <3>1, <3>2, <3>3, <3>4
  <2>4. CASE x # s /\ x # p
    <3>1. g[x].left = h[x].left /\ g[x].right = h[x].right
      BY <2>4 DEF Exchanged
    <3>2. h[x].left # s /\ h[x].right # s
      <4>1. KnownAbove(h, x) /\ s # Nil
        BY <1>2, TreeLinks
      <4> QED BY <2>4, <4>1 DEF KnownAbove
    <3> QED BY <1>2, <2>2, <2>4, <3>1, <3>2
  <2> QED BY <2>1, <2>3, <2>4
<1>5. Descends(g, D, n, rank)
  BY <1>3, <1>4 DEF Descends
<1> QED BY <1>5

\* A successor that is deeper takes the place of n; n, in its place, is
\* spliced by the search that goes on in the right subtree.
LEMMA SuccessorTakesOver ==
    ASSUME NEW h, NEW D \in SUBSET Keys, h \in [D -> Node], NEW root0, IsTree(h, root0, D),
           NEW n \in D, NEW A \in SUBSET D, NEW B \in SUBSET D, Joint(h, n, A, B), Level(h, n),
           h[n].left # Nil, h[n].right # Nil,
           NEW s, LeftEnd(s, h, h[n].right, B), s # h[n].right,
           NEW g, g = SwapWithSuccessor(h, n, s),
           NEW sub, sub = Returned(g, g[s].right, n, Unchanged(g, Nil), Spliced(g, n))
    PROVE  Returns(Rehang(s, "right", sub), h, D, n, A \cup {n} \cup B, A \cup B)
<1> DEFINE l == h[n].left
           r == h[n].right
           p == h[s].parent
           e == h[s].right
           hh == [g EXCEPT ![n].height = h[s].height]
           V == (B \ {s}) \cup {n}
           E == B \ {s}
           X == D \ {n}
           f == sub.heap
           c == sub.node
           gg == SetRight(f, s, c)
           b == Rebalance(gg, s)
           a == Height(h, l)
           old == Height(h, r)
           low == Height(f, c)
           new == Height(b.heap, b.node)
<1>1. /\ A \subseteq Nat /\ B \subseteq Nat /\ n \in Nat /\ Nil \notin D
      /\ A \in SUBSET Keys /\ B \in SUBSET Keys
  BY KeyFacts
<1>2. /\ IsTree(h, l, A) /\ IsTree(h, r, B) /\ l \in A /\ r \in B
      /\ h[l].parent = n /\ h[r].parent = n
      /\ \A y \in A : y < n
      /\ \A y \in B : n < y
  BY <1>1, TreeRoot DEF Joint, KnownAbove
<1>3. n \notin A /\ n \notin B /\ A \cap B = {}
  BY <1>1, <1>2
<1>4. s \in B /\ h[s].left = Nil /\ \A y \in E : s < y
  BY DEF LeftEnd
<1>5. /\ p \in B \ {s} /\ h[p].left = s /\ h[p].right # s
      /\ e \in (B \cup {Nil}) \ {s}
      /\ e # Nil => h[e].parent = s
  BY <1>1, <1>2, AboutLeftEnd
<1>6. /\ s \in D \ {n} /\ p \in D \ {n, s} /\ l \in D \ {n, s, p} /\ r \in D \ {n, s, l}
      /\ e \in (D \cup {Nil}) \ {n, s, l, r}
  <2>1. s \in D \ {n} /\ p \in D \ {n, s}
    BY <1>3, <1>4, <1>5
  <2>2. l \in D \ {n, s, p}
    BY <1>2, <1>3, <1>4, <1>5
  <2>3. r \in D \ {n, s, l}
    BY <1>2, <1>3, <1>4
  <2>4. e # r
    BY <1>1, <1>2, <1>4, <1>5, <2>1
  <2>5. e \notin {n, s, l}
    BY <1>1, <1>2, <1>3, <1>5
  <2>6. e \in D \cup {Nil}
    BY <1>5
  <2> QED BY <2>1, <2>2, <2>3, <2>4, <2>5, <2>6
<1> HIDE DEF l, r, p, e
<1>7. Exchanged(g, h, D, n, s, p)
  BY <1>4, <1>6, ExchangeFacts DEF l, r, p, e
<1>8. /\ g \in [D -> Node]
      /\ g[s].left = l /\ g[s].right = r
      /\ g[n].left = Nil /\ g[n].right = e /\ g[n].parent = p
      /\ g[p].left = n /\ g[l].parent = s /\ g[r].parent = s
      /\ e # Nil => g[e].parent = n
      /\ \A x \in D : /\ g[x].height = h[x].height
                      /\ x \notin {s, n} => g[x].right = h[x].right
                      /\ x \notin {s, n, p} => g[x].left = h[x].left
                      /\ x \notin {n, l, r, e} => g[x].parent = h[x].parent
  BY <1>7 DEF Exchanged, l, r, e
<1>9. /\ hh \in [D -> Node]
      /\ \A x \in D \ {n} : hh[x] = g[x]
      /\ hh[n].left = Nil /\ hh[n].right = e /\ hh[n].parent = p
      /\ hh[n].height = h[s].height
  <2>1. h[s].height \in Nat
    BY <1>6 DEF Node
  <2> QED BY <1>8, <2>1 DEF Node
<1> HIDE DEF hh
<1>10. TakesPlace(hh, h, B, n, s, p, r)
  <2>1. hh[p] = g[p] /\ hh[p].left = n
    BY <1>6, <1>8, <1>9
  <2>2. \A x \in B \ {s} : x \in D \ {n} /\ x # l
    BY <1>2, <1>3
  <2>3. \A x \in B \ {s} : /\ hh[x].right = h[x].right /\ hh[x].height = h[x].height
                           /\ x # p => hh[x].left = h[x].left
                           /\ x \notin {r, e} => hh[x].parent = h[x].parent
    BY <1>8, <1>9, <2>2
  <2>4. e # Nil => hh[e].parent = n
    BY <1>6, <1>8, <1>9
  <2> QED BY <1>9, <2>1, <2>3, <2>4 DEF TakesPlace, e
<1>11. IsTree(hh, r, V) /\ Height(hh, r) = old
  BY <1>1, <1>2, <1>3, <1>10, PlaceTaken DEF r, p
<1>12. PICK rank : Descends(g, D, n, rank)
  <2>1. h[n].left \in D \ {n, s} /\ h[n].right \in D \ {n, s} /\ h[p].right # s
    BY <1>5, <1>6 DEF l, r
  <2>2. p = h[s].parent
    BY DEF p
  <2> QED BY <1>6, <1>7, <2>1, <2>2, ExchangedDescends
<1>13. Yields(Unchanged(g, Nil), Spliced(g, n), hh, D, n, {})
  <2>1. ASSUME NEW S \in SUBSET D, n \in S, IsTree(hh, n, S)
        PROVE  Returns(Spliced(g, n), hh, D, n, S, (S \ {n}) \cup {})
    <3>1. Returns(Spliced(g, n), hh, D, n, S, S \ {n})
      BY <1>8, <1>9, <2>1, SplicedReturns
    <3>2. (S \ {n}) \cup {} = S \ {n}
      OBVIOUS
    <3> QED BY <3>1, <3>2
  <2> QED BY <2>1 DEF Yields
<1>14. Returns(sub, hh, D, r, V, E)
  <2>1. DOMAIN g = D /\ SameLinks(g, hh, D, n)
    BY <1>8, <1>9 DEF SameLinks
  <2>2. V \in SUBSET D /\ n \in V
    BY <1>6
  <2>3. {} \in SUBSET {n} /\ n \in Keys
    OBVIOUS
  <2>4. (V \ {n}) \cup {} = E
    BY <1>3
  <2> HIDE DEF V, E
  <2>5. Returns(Returned(g, r, n, Unchanged(g, Nil), Spliced(g, n)),
                hh, D, r, V, (V \ {n}) \cup {})
    BY <1>9, <1>11, <1>12, <1>13, <2>1, <2>2, <2>3, ReturnsBelow
  <2>6. sub = Returned(g, r, n, Unchanged(g, Nil), Spliced(g, n))
    BY <1>8
  <2> QED BY <2>4, <2>5, <2>6
<1>15. (D \ V) \cup E = X /\ E # V /\ E \in SUBSET Keys
  <2>1. n \in V /\ n \notin E
    BY <1>3
  <2>2. (D \ V) \cup E = X
    BY <1>3, <1>4, <1>6
  <2> QED BY <1>1, <2>1, <2>2
<1>16. /\ f \in [X -> Node] /\ IsTree(f, c, E)
       /\ \A x \in D \ (V \cup E) : f[x] = hh[x]
       /\ Even(low, old) /\ sub.changed = TRUE
  BY <1>11, <1>14, <1>15 DEF Returns
<1>17. X \in SUBSET Keys /\ A \in SUBSET X /\ E \in SUBSET X /\ s \in X /\ s \notin E /\ s \notin A
  BY <1>1, <1>3, <1>4, <1>6
<1>18. c \in E \cup {Nil} /\ c \in X \cup {Nil} /\ c # s
  <2>1. c \in E \cup {Nil}
    BY <1>15, <1>16, TreeRoot
  <2> QED BY <1>1, <1>6, <1>17, <2>1
<1>19. \A x \in D \ (B \cup {n}) : f[x] = g[x]
  BY <1>9, <1>16
<1>20. f[s] = g[s]
  <2>1. s \in D \ (V \cup E)
    BY <1>6
  <2> QED BY <1>6, <1>9, <1>16, <2>1
<1> HIDE DEF f, c, X, E, V
<1>21. RightSet(gg, f, X, s, c)
  BY <1>16, <1>17, <1>18, SetRightFacts
<1> HIDE DEF gg
<1>22. /\ gg \in [X -> Node] /\ gg[s].left = l /\ gg[s].right = c
       /\ c # Nil => gg[c].parent = s
       /\ \A x \in X \ {s, c} : gg[x] = f[x]
       /\ \A x \in E : /\ gg[x].left = f[x].left /\ gg[x].right = f[x].right
                       /\ gg[x].height = f[x].height
                       /\ x # c => gg[x].parent = f[x].parent
  <2>1. \A x \in E : x \in X /\ x # s
    BY <1>17
  <2>2. gg[s].left = l
    BY <1>8, <1>17, <1>20, <1>21 DEF RightSet
  <2>3. c # Nil => gg[c].parent = s
    BY <1>18, <1>21 DEF RightSet
  <2>4. gg \in [X -> Node] /\ gg[s].right = c
    BY <1>17, <1>21 DEF RightSet
  <2>5. \A x \in X \ {s, c} : gg[x] = f[x]
    BY <1>21 DEF RightSet
  <2>6. \A x \in E : /\ gg[x].left = f[x].left /\ gg[x].right = f[x].right
                     /\ gg[x].height = f[x].height
                     /\ x # c => gg[x].parent = f[x].parent
    BY <1>21, <2>1 DEF RightSet
  <2> QED BY <2>2, <2>3, <2>4, <2>5, <2>6
<1>23. IsTree(gg, c, E) /\ Height(gg, c) = low
  <2>1. \A x \in E : /\ gg[x].left = f[x].left /\ gg[x].right = f[x].right
                     /\ gg[x].height = f[x].height
                     /\ x # c => gg[x].parent = f[x].parent
    BY <1>22
  <2>2. IsTree(f, c, E) /\ E \in SUBSET Keys
    BY <1>15, <1>16
  <2>3. IsTree(gg, c, E) /\ Height(gg, c) = Height(f, c)
    BY <2>1, <2>2, Frame
  <2> QED BY <2>3
<1>24. \A x \in A : x \in X \ {s, c} /\ x \in D \ (B \cup {n})
  <2> SUFFICES ASSUME NEW x \in A PROVE x \in X \ {s, c} /\ x \in D \ (B \cup {n})
    OBVIOUS
  <2>1. x \in X /\ x # s /\ x \in D /\ x # Nil /\ x # n /\ x \notin B
    BY <1>1, <1>3, <1>17
  <2>2. c # x
    BY <1>18, <2>1 DEF E
  <2> QED BY <2>1, <2>2
<1>25. \A x \in A : gg[x] = g[x]
  BY <1>19, <1>22, <1>24
<1>26. IsTree(gg, l, A) /\ Height(gg, l) = a
  <2>1. \A x \in A : x \in D /\ x \notin {s, n, p} /\ x \notin {r, e}
    BY <1>1, <1>2, <1>3, <1>4, <1>5
  <2>2. \A x \in A : /\ gg[x].left = h[x].left /\ gg[x].right = h[x].right
                     /\ gg[x].height = h[x].height
                     /\ x # l => gg[x].parent = h[x].parent
    BY <1>8, <1>25, <2>1
  <2> QED BY <1>1, <1>2, <2>2, Frame
<1>27. Joint(gg, s, A, E)
  <2>1. \A y \in A : y < s
    BY <1>1, <1>2, <1>4
  <2>2. \A y \in E : s < y
    BY <1>4
  <2>3. gg[l].parent = s
    BY <1>2, <1>8, <1>25
  <2>4. KnownAbove(gg, s)
    BY <1>22, <2>3 DEF KnownAbove
  <2> QED BY <1>22, <1>23, <1>26, <2>1, <2>2, <2>4 DEF Joint
<1>28. a \in Nat /\ old \in Nat /\ low \in Nat
  <2>1. a \in Nat /\ old \in Nat
    BY <1>2, TreeHeight
  <2>2. low \in Nat
    BY <1>16, <1>17, TreeHeight
  <2> QED BY <2>1, <2>2
<1>29. Even(a, old) /\ Height(h, n) = MaxOf(a, old) + 1
  BY <1>1 DEF Level, l, r, Height
<1>30. Rebalanced(b, gg, X, A \cup {s} \cup E, a, low)
  <2>1. a <= low + 2 /\ low <= a + 2
    <3> HIDE DEF a, old, low
    <3> QED BY <1>16, <1>28, <1>29 DEF Even
  <2>2. a = Height(gg, gg[s].left) /\ low = Height(gg, gg[s].right) /\ gg \in [X -> Node]
    BY <1>22, <1>23, <1>26
  <2> HIDE DEF a, low
  <2> QED BY <1>17, <1>27, <2>1, <2>2, RebalanceTree
<1>31. A \cup {s} \cup E = A \cup B
  BY <1>4 DEF E
<1> HIDE DEF b
<1>32. /\ b.heap \in [X -> Node] /\ IsTree(b.heap, b.node, A \cup B)
       /\ new \in {MaxOf(a, low), MaxOf(a, low) + 1}
       /\ Even(a, low) => new = MaxOf(a, low) + 1
       /\ \A x \in X \ (A \cup B) : b.heap[x] = gg[x]
  BY <1>30, <1>31 DEF Rebalanced
<1>33. Even(new, Height(h, n))
  <2> HIDE DEF a, old, low, new
  <2> QED BY <1>16, <1>28, <1>29, <1>32, NewHeight
<1>34. \A x \in D \ (A \cup {n} \cup B \cup (A \cup B)) : b.heap[x] = h[x]
  <2> SUFFICES ASSUME NEW x \in D \ (A \cup {n} \cup B \cup (A \cup B))
               PROVE  b.heap[x] = h[x]
    OBVIOUS
  <2>1. x \in X \ (A \cup B) /\ x \in D \ (B \cup {n})
    BY DEF X
  <2>2. x \in X \ {s, c}
    <3>1. x # s /\ x # Nil /\ x \notin B
      BY <1>1, <1>4, <2>1
    <3>2. x # c
      BY <1>18, <3>1 DEF E
    <3> QED BY <2>1, <3>1, <3>2
  <2>3. x \notin {s, n, p} /\ x \notin {n, l, r, e}
    BY <1>1, <1>2, <1>4, <1>5, <2>1
  <2>4. b.heap[x] = g[x]
    BY <1>19, <1>22, <1>32, <2>1, <2>2
  <2>5. g[x] \in Node /\ h[x] \in Node
    BY <1>8
  <2>6. g[x] = h[x]
    BY <1>8, <2>3, <2>5, SameNode
  <2> QED BY <2>4, <2>6
<1>35. (D \ (A \cup {n} \cup B)) \cup (A \cup B) = X /\ A \cup {n} \cup B # A \cup B
  <2>1. n \in A \cup {n} \cup B /\ n \notin A \cup B
    BY <1>3
  <2>2. (D \ (A \cup {n} \cup B)) \cup (A \cup B) = X
    BY <1>3 DEF X
  <2> QED BY <2>1, <2>2
<1> DEFINE res == Rehang(s, "right", sub)
<1>36. res = [heap |-> b.heap, node |-> b.node, changed |-> TRUE]
  BY <1>16 DEF Rehang, b, gg, f, c
<1>37. res.heap = b.heap /\ res.node = b.node /\ res.changed = TRUE
  BY <1>36
<1> HIDE DEF res, new
<1>38. Even(Height(b.heap, b.node), Height(h, n))
  BY <1>33 DEF new
<1>39. Returns(res, h, D, n, A \cup {n} \cup B, A \cup B)
  BY <1>32, <1>34, <1>35, <1>37, <1>38 DEF Returns
<1> QED BY <1>39 DEF res

\* What erase makes of the node it finds: its tree, without it.
LEMMA EraseYields ==
    ASSUME NEW h, NEW D \in SUBSET Keys, h \in [D -> Node], NEW root0, IsTree(h, root0, D),
           NEW k \in Keys
    PROVE  Yields(Unchanged(h, Nil), EraseFound(h, k), h, D, k, {})
<1>1. Returns(Unchanged(h, Nil), h, D, Nil, {}, {})
  <2>1. {} \in SUBSET D /\ IsTree(h, Nil, {})
    BY DEF IsTree
  <2> QED BY <2>1, UnchangedReturns
<1>2. ASSUME NEW S \in SUBSET D, k \in S, IsTree(h, k, S)
      PROVE  Returns(EraseFound(h, k), h, D, k, S, S \ {k})
  <2>1. k \in D /\ k # Nil /\ S \in SUBSET Keys /\ k \in Nat /\ S \subseteq Nat
    BY <1>2, KeyFacts
  <2>2. CASE h[k].left = Nil \/ h[k].right = Nil
    <3>1. EraseFound(h, k) = Spliced(h, k)
      BY <2>2 DEF EraseFound
    <3>2. Returns(Spliced(h, k), h, D, k, S, S \ {k})
      BY <1>2, <2>1, <2>2, SplicedReturns
    <3> QED BY <3>1, <3>2
  <2>3. CASE h[k].left # Nil /\ h[k].right # Nil
    <3> DEFINE s == Successor(h, k)
    <3>1. PICK A, B \in SUBSET S : Joint(h, k, A, B) /\ S = A \cup {k} \cup B
      BY <1>2, <2>1, Split
    <3>2. Level(h, k)
      BY <1>2, <2>1, Split
    <3>3. A \in SUBSET D /\ B \in SUBSET D /\ S \ {k} = A \cup B
      BY <2>1, <3>1 DEF Joint
    <3>4. s = Descend(h, h[k].right, "left") /\ IsTree(h, h[k].right, B)
      BY <2>3, <3>1 DEF Successor, Joint
    <3> HIDE DEF s
    <3>5. LeftEnd(s, h, h[k].right, B)
      BY <2>3, <3>3, <3>4, DescendLeft
    <3>6. CASE s = h[k].right
      <4> DEFINE b == Rebalance(Delete(SetLeft(h, s, h[k].left), k), s)
      <4>1. EraseFound(h, k) = [heap |-> b.heap, node |-> b.node, changed |-> TRUE]
        BY <2>3, <3>6 DEF EraseFound, s
      <4>2. s # Nil /\ h[s].left = Nil
        BY <2>3, <3>5, <3>6 DEF LeftEnd
      <4> HIDE DEF b
      <4>3. b = Rebalance(Delete(SetLeft(h, s, h[k].left), k), s)
        BY DEF b
      <4>4. Returns([heap |-> b.heap, node |-> b.node, changed |-> TRUE],
                    h, D, k, A \cup {k} \cup B, A \cup B)
        BY <2>1, <2>3, <3>1, <3>2, <3>3, <3>6, <4>2, <4>3, RightTakesOver
      <4> QED BY <3>1, <3>3, <4>1, <4>4
    <3>7. CASE s # h[k].right
      <4> DEFINE g == SwapWithSuccessor(h, k, s)
                 sub == Returned(g, g[s].right, k, Unchanged(g, Nil), Spliced(g, k))
      <4>2. EraseFound(h, k) = Rehang(s, "right", sub)
        BY <2>3, <3>7 DEF EraseFound, s, g
      <4> HIDE DEF g
      <4>3. g = SwapWithSuccessor(h, k, s)
        BY DEF g
      <4> HIDE DEF sub
      <4>4. sub = Returned(g, g[s].right, k, Unchanged(g, Nil), Spliced(g, k))
        BY DEF sub
      <4>5. Returns(Rehang(s, "right", sub), h, D, k, A \cup {k} \cup B, A \cup B)
        BY <2>1, <2>3, <3>1, <3>2, <3>3, <3>5, <3>7, <4>3, <4>4, SuccessorTakesOver
      <4> QED BY <3>1, <3>3, <4>2, <4>5
    <3> QED BY <3>6, <3>7
  <2> QED BY <2>2, <2>3
<1>3. \A S \in SUBSET D : (S \ {k}) \cup {} = S \ {k}
  OBVIOUS
<1> QED BY <1>1, <1>2, <1>3 DEF Yields

-----------------------------------------------------------------------------
(* The keys in order                                                       *)

\* f is the recursion of InOrder.
Lists(f, D) ==
    f = [m \in D \cup {Nil} |-> IF m = Nil THEN <<>>
                                ELSE f[heap[m].left] \o <<m>> \o f[heap[m].right]]

\* There is such a function.
LEMMA ListsExist ==
    ASSUME NEW D \in SUBSET Keys, NEW rank, Descends(heap, D, Nil, rank)
    PROVE  \E f : Lists(f, D)
<1> DEFINE S == D \cup {Nil}
           Keep(f, m) == IF m = Nil THEN <<>>
                         ELSE f[heap[m].left] \o <<m>> \o f[heap[m].right]
           T == {i \in Nat : \E f : \A m \in S : rank[m] < i => f[m] = Keep(f, m)}
<1>1. rank \in [S -> Nat]
  BY DEF Descends
<1>2. 0 \in T
  BY <1>1
<1>3. ASSUME NEW i \in Nat, i \in T PROVE i + 1 \in T
  <2>1. PICK f : \A m \in S : rank[m] < i => f[m] = Keep(f, m)
    BY <1>3
  <2> DEFINE g == [m \in S |-> Keep(f, m)]
  <2>2. \A m \in S : g[m] = Keep(f, m)
    OBVIOUS
  <2> HIDE DEF g, Keep
  <2>3. \A m \in S : rank[m] < i => g[m] = f[m]
    BY <2>1, <2>2
  <2>4. ASSUME NEW m \in S, rank[m] < i + 1 PROVE g[m] = Keep(g, m)
    <3>1. CASE m = Nil
      BY <2>2, <3>1 DEF Keep
    <3>2. CASE m # Nil
      <4>1. /\ heap[m].left \in S /\ heap[m].right \in S
            /\ rank[heap[m].left] < rank[m] /\ rank[heap[m].right] < rank[m]
        BY <3>2, KeyFacts DEF Descends
      <4>2. rank[heap[m].left] < i /\ rank[heap[m].right] < i
        BY <1>1, <2>4, <4>1
      <4>3. g[heap[m].left] = f[heap[m].left] /\ g[heap[m].right] = f[heap[m].right]
        BY <2>3, <4>1, <4>2
      <4> QED BY <2>2, <4>3 DEF Keep
    <3> QED BY <3>1, <3>2
  <2> QED BY <2>4
<1>4. IsFiniteSet(S)
  <2>1. IsFiniteSet(D)
    BY KeysAssumption, FS_Subset
  <2> QED BY <2>1, FS_AddElement
<1>5. PICK b \in Nat : \A m \in S : rank[m] < b
  BY <1>1, <1>4, RankBound
<1> HIDE DEF T
<1>6. b \in T
  BY <1>2, <1>3, SetInduction
<1>7. PICK f : \A m \in S : rank[m] < b => f[m] = Keep(f, m)
  BY <1>6 DEF T
<1> DEFINE g == [m \in S |-> Keep(f, m)]
<1>8. \A m \in S : g[m] = Keep(f, m)
  OBVIOUS
<1> HIDE DEF g, Keep
<1>9. \A m \in S : g[m] = f[m]
  BY <1>5, <1>7, <1>8
<1>10. ASSUME NEW m \in S PROVE Keep(g, m) = Keep(f, m)
  <2>1. m # Nil => heap[m].left \in S /\ heap[m].right \in S
    BY KeyFacts DEF Descends
  <2> QED BY <1>9, <2>1 DEF Keep
<1>11. g = [m \in S |-> Keep(g, m)]
  BY <1>10 DEF g
<1>12. Lists(g, D)
  BY <1>11 DEF Lists, Keep
<1> QED BY <1>12

\* q lists the keys of S in order.
Ascends(q, S) ==
    /\ q \in Seq(Nat)
    /\ \A i \in 1 .. Len(q) : q[i] \in S
    /\ \A x \in S : \E i \in 1 .. Len(q) : q[i] = x
    /\ \A i \in 2 .. Len(q) : q[i - 1] < q[i]

\* Lists in order on either side of x, and x between them, are one in order.
LEMMA AscendsJoined ==
    ASSUME NEW A \in SUBSET Nat, NEW B \in SUBSET Nat, NEW x \in Nat,
           \A y \in A : y < x, \A y \in B : x < y,
           NEW p, Ascends(p, A), NEW q, Ascends(q, B)
    PROVE  Ascends(p \o <<x>> \o q, A \cup {x} \cup B)
<1> DEFINE s == p \o <<x>> \o q
           a == Len(p)
           b == Len(q)
<1>1. p \in Seq(Nat) /\ q \in Seq(Nat) /\ a \in Nat /\ b \in Nat
  BY DEF Ascends
<1>2. /\ s \in Seq(Nat) /\ Len(s) = a + 1 + b
      /\ \A i \in 1 .. a : s[i] = p[i]
      /\ s[a + 1] = x
      /\ \A i \in 1 .. b : s[a + 1 + i] = q[i]
  BY <1>1
<1> HIDE DEF s, a, b
<1>3. /\ \A i \in 1 .. a : p[i] \in A
      /\ \A y \in A : \E i \in 1 .. a : p[i] = y
      /\ \A i \in 2 .. a : p[i - 1] < p[i]
  BY DEF Ascends, a
<1>4. /\ \A i \in 1 .. b : q[i] \in B
      /\ \A y \in B : \E i \in 1 .. b : q[i] = y
      /\ \A i \in 2 .. b : q[i - 1] < q[i]
  BY DEF Ascends, b
<1>5. \A i \in 1 .. Len(s) : i \in 1 .. a \/ i = a + 1 \/ \E j \in 1 .. b : i = a + 1 + j
  <2> SUFFICES ASSUME NEW i \in 1 .. Len(s), i \notin 1 .. a, i # a + 1
               PROVE  \E j \in 1 .. b : i = a + 1 + j
    OBVIOUS
  <2>1. i - (a + 1) \in 1 .. b /\ i = a + 1 + (i - (a + 1))
    BY <1>1, <1>2
  <2> QED BY <2>1
<1>6. ASSUME NEW i \in 1 .. Len(s) PROVE s[i] \in A \cup {x} \cup B
  <2>1. CASE i \in 1 .. a
    BY <1>2, <1>3, <2>1
  <2>2. CASE i = a + 1
    BY <1>2, <2>2
  <2>3. ASSUME NEW j \in 1 .. b, i = a + 1 + j PROVE s[i] \in B
    BY <1>2, <1>4, <2>3
  <2> QED BY <1>5, <2>1, <2>2, <2>3
<1>7. ASSUME NEW y \in A \cup {x} \cup B PROVE \E i \in 1 .. Len(s) : s[i] = y
  <2>1. CASE y \in A
    <3>1. PICK i \in 1 .. a : p[i] = y
      BY <1>3, <2>1
    <3>2. i \in 1 .. Len(s)
      BY <1>1, <1>2
    <3> QED BY <1>2, <3>1, <3>2
  <2>2. CASE y = x
    <3>1. a + 1 \in 1 .. Len(s)
      BY <1>1, <1>2
    <3> QED BY <1>2, <2>2, <3>1
  <2>3. CASE y \in B
    <3>1. PICK i \in 1 .. b : q[i] = y
      BY <1>4, <2>3
    <3>2. a + 1 + i \in 1 .. Len(s)
      BY <1>1, <1>2
    <3> QED BY <1>2, <3>1, <3>2
  <2> QED BY <2>1, <2>2, <2>3
<1>8. ASSUME NEW i \in 2 .. Len(s) PROVE s[i - 1] < s[i]
  <2>1. CASE i \in 2 .. a
    <3>1. i \in 1 .. a /\ i - 1 \in 1 .. a
      BY <1>1, <2>1
    <3> QED BY <1>2, <1>3, <2>1, <3>1
  <2>2. CASE i = a + 1
    <3>1. i - 1 \in 1 .. a /\ i - 1 = a
      BY <1>1, <2>2
    <3>2. s[i - 1] = p[a] /\ p[a] \in A
      BY <1>2, <1>3, <3>1
    <3> QED BY <1>2, <2>2, <3>2
  <2>3. CASE i = a + 2
    <3>1. 1 \in 1 .. b /\ i = a + 1 + 1 /\ i - 1 = a + 1
      BY <1>1, <1>2, <2>3
    <3>2. s[i] = q[1] /\ q[1] \in B
      BY <1>2, <1>4, <3>1
    <3> QED BY <1>2, <3>1, <3>2
  <2>4. CASE i > a + 2
    <3> DEFINE j == i - (a + 1)
    <3>1. j \in 2 .. b /\ j \in 1 .. b /\ j - 1 \in 1 .. b /\ i = a + 1 + j /\ i - 1 = a + 1 + (j - 1)
      BY <1>1, <1>2, <2>4
    <3> HIDE DEF j
    <3> QED BY <1>2, <1>4, <3>1
  <2> QED BY <1>1, <1>2, <2>1, <2>2, <2>3, <2>4
<1>9. Ascends(s, A \cup {x} \cup B)
  BY <1>2, <1>6, <1>7, <1>8 DEF Ascends
<1> QED BY <1>9 DEF s

\* InOrder lists the nodes of every subtree in order.
LEMMA InOrderAscends ==
    ASSUME NEW D \in SUBSET Keys, DOMAIN heap = D, heap \in [D -> Node],
           IsTree(heap, root, D)
    PROVE  Ascends(InOrder(root), D)
<1> DEFINE rank == [x \in D \cup {Nil} |-> Height(heap, x)]
           f == CHOOSE f : Lists(f, D)
<1>1. Descends(heap, D, Nil, rank)
  BY TreeRank
<1> HIDE DEF rank
<1>2. Lists(f, D)
  BY <1>1, ListsExist
<1>3. InOrder(root) = f[root]
  BY DEF InOrder, Lists
<1> HIDE DEF f
<1>4. \A m \in D \cup {Nil} : f[m] = IF m = Nil THEN <<>>
                                     ELSE f[heap[m].left] \o <<m>> \o f[heap[m].right]
  BY <1>2 DEF Lists
<1>5. rank \in [D \cup {Nil} -> Nat] /\ D \subseteq Nat /\ Nil \notin D
  BY <1>1, KeyFacts DEF Descends
<1> DEFINE T == {i \in Nat : \A m \in D \cup {Nil}, V \in SUBSET D :
                               rank[m] < i /\ IsTree(heap, m, V) => Ascends(f[m], V)}
<1>6. 0 \in T
  BY <1>5
<1>7. ASSUME NEW i \in Nat, i \in T PROVE i + 1 \in T
  <2>1. ASSUME NEW m \in D \cup {Nil}, NEW V \in SUBSET D, rank[m] < i + 1,
               IsTree(heap, m, V)
        PROVE  Ascends(f[m], V)
    <3>1. V \in SUBSET Keys
      OBVIOUS
    <3>2. CASE m = Nil
      <4>1. f[m] = <<>> /\ V = {}
        BY <1>4, <2>1, <3>1, <3>2, TreeRoot
      <4> QED BY <4>1 DEF Ascends
    <3>3. CASE m # Nil
      <4>1. PICK A, B \in SUBSET V : Joint(heap, m, A, B) /\ V = A \cup {m} \cup B
        BY <2>1, <3>1, <3>3, Split
      <4>2. /\ IsTree(heap, heap[m].left, A) /\ IsTree(heap, heap[m].right, B)
            /\ \A y \in A : y < m
            /\ \A y \in B : m < y
        BY <4>1 DEF Joint
      <4>3. /\ heap[m].left \in D \cup {Nil} /\ rank[heap[m].left] < rank[m]
            /\ heap[m].right \in D \cup {Nil} /\ rank[heap[m].right] < rank[m]
        BY <1>1, <3>3, KeyFacts DEF Descends
      <4>4. rank[heap[m].left] < i /\ rank[heap[m].right] < i
        BY <1>5, <2>1, <4>3
      <4>5. A \in SUBSET D /\ B \in SUBSET D /\ A \in SUBSET Nat /\ B \in SUBSET Nat /\ m \in Nat
        BY <1>5, <3>3
      <4>6. Ascends(f[heap[m].left], A) /\ Ascends(f[heap[m].right], B)
        BY <1>7, <4>2, <4>3, <4>4, <4>5
      <4>7. f[m] = f[heap[m].left] \o <<m>> \o f[heap[m].right]
        BY <1>4, <3>3
      <4>8. Ascends(f[heap[m].left] \o <<m>> \o f[heap[m].right], A \cup {m} \cup B)
        BY <4>2, <4>5, <4>6, AscendsJoined
      <4> QED BY <4>1, <4>7, <4>8
    <3> QED BY <3>2, <3>3
  <2> QED BY <2>1
<1> HIDE DEF T
<1>8. root \in D \cup {Nil}
  BY TreeRoot
<1>9. rank[root] + 1 \in Nat /\ rank[root] < rank[root] + 1
  BY <1>5, <1>8
<1>10. rank[root] + 1 \in T
  BY <1>6, <1>7, <1>9, SetInduction
<1>11. Ascends(f[root], D)
  BY <1>8, <1>9, <1>10 DEF T
<1> QED BY <1>3, <1>11

-----------------------------------------------------------------------------
(* The theorems                                                            *)

\* heap h is an AVL tree of the nodes of D, with n at its top.
Sound(h, n, D) ==
    /\ D \in SUBSET Keys /\ h \in [D -> Node]
    /\ IsTree(h, n, D)
    /\ n # Nil => h[n].parent = Nil

\* The inductive invariant: all that is allocated is in the tree.
TreeInv ==
    /\ Sound(heap, root, DOMAIN heap)
    /\ size = Cardinality(DOMAIN heap)
    /\ changed \in BOOLEAN

\* What insert and erase leave, once the root has no parent.
LEMMA AdoptedSound ==
    ASSUME NEW h, NEW D \in SUBSET Keys, NEW n, NEW r, NEW E \in SUBSET Keys,
           Returns(r, h, D, n, D, E)
    PROVE  Sound(SetParent(r.heap, r.node, Nil), r.node, E) /\ r.changed = (E # D)
<1> DEFINE f == r.heap
           c == r.node
           g == SetParent(f, c, Nil)
<1>1. (D \ D) \cup E = E
  OBVIOUS
<1>2. f \in [E -> Node] /\ IsTree(f, c, E) /\ r.changed = (E # D)
  BY <1>1 DEF Returns
<1> HIDE DEF f, c
<1>3. c \in E \cup {Nil} /\ Nil \in Links /\ Nil \notin E
  BY <1>2, TreeRoot, KeyFacts
<1>4. ParentSet(g, f, E, c, Nil)
  BY <1>2, <1>3, SetParentFacts
<1> HIDE DEF g
<1>5. g \in [E -> Node]
  BY <1>4 DEF ParentSet
<1>6. \A x \in E : /\ g[x].left = f[x].left /\ g[x].right = f[x].right
                   /\ g[x].height = f[x].height
                   /\ x # c => g[x].parent = f[x].parent
  BY <1>4 DEF ParentSet
<1>7. c # Nil => g[c].parent = Nil
  BY <1>3, <1>4 DEF ParentSet
<1>8. IsTree(g, c, E)
  BY <1>2, <1>6, Frame
<1>9. Sound(g, c, E)
  BY <1>5, <1>7, <1>8 DEF Sound
<1> QED BY <1>2, <1>9 DEF g, f, c

\* insert adds the key to the tree.
LEMMA InsertKeeps ==
    ASSUME TreeInv, NEW k \in Keys, TreeInsert(k)
    PROVE  /\ TreeInv'
           /\ DOMAIN heap' = DOMAIN heap \cup {k}
           /\ changed' = (k \notin DOMAIN heap)
<1> DEFINE D == DOMAIN heap
           r == InsertBelow(heap, root, k)
           E == D \cup {k}
<1>1. D \in SUBSET Keys /\ heap \in [D -> Node] /\ IsTree(heap, root, D) /\ IsFiniteSet(D)
  BY KeysAssumption, FS_Subset DEF TreeInv, Sound
<1>2. PICK rank : Descends(heap, D, k, rank)
  <2> HIDE DEF D
  <2> QED BY <1>1, TreeRank
<1>3. Yields(Created(heap, k), Unchanged(heap, k), heap, D, k, {k})
  <2> HIDE DEF D
  <2> QED BY <1>1, InsertYields
<1>4. Returns(r, heap, D, root, D, E)
  <2>1. DOMAIN heap = D /\ SameLinks(heap, heap, D, k) /\ {k} \in SUBSET {k}
    BY DEF SameLinks
  <2>2. (D \ {k}) \cup {k} = E
    OBVIOUS
  <2>3. r = Returned(heap, root, k, Created(heap, k), Unchanged(heap, k))
    BY DEF InsertBelow
  <2> HIDE DEF D, E, r
  <2>4. Returns(Returned(heap, root, k, Created(heap, k), Unchanged(heap, k)),
                heap, D, root, D, (D \ {k}) \cup {k})
    BY <1>1, <1>2, <1>3, <2>1, ReturnsBelow
  <2> QED BY <2>2, <2>3, <2>4
<1>5. Sound(SetParent(r.heap, r.node, Nil), r.node, E) /\ r.changed = (E # D)
  <2>1. E \in SUBSET Keys
    BY <1>1
  <2> HIDE DEF D, E, r
  <2> QED BY <1>1, <1>4, <2>1, AdoptedSound
<1>6. /\ heap' = SetParent(r.heap, r.node, Nil) /\ root' = r.node
      /\ changed' = r.changed /\ size' = IF r.changed THEN size + 1 ELSE size
  BY DEF TreeInsert, Adopt
<1> HIDE DEF r
<1>7. Sound(heap', root', E)
  BY <1>5, <1>6
<1>8. DOMAIN heap' = E
  BY <1>7 DEF Sound
<1>9. changed' = (k \notin D)
  BY <1>5, <1>6
<1>10. size' = Cardinality(E)
  <2>1. size = Cardinality(D)
    BY DEF TreeInv
  <2>2. Cardinality(E) = IF k \in D THEN Cardinality(D) ELSE Cardinality(D) + 1
    BY <1>1, FS_AddElement
  <2> HIDE DEF D, E
  <2> QED BY <1>6, <1>9, <2>1, <2>2
<1> QED BY <1>7, <1>8, <1>9, <1>10 DEF TreeInv

\* erase takes the key out of it.
LEMMA EraseKeeps ==
    ASSUME TreeInv, NEW k \in Keys, TreeErase(k)
    PROVE  /\ TreeInv'
           /\ DOMAIN heap' = DOMAIN heap \ {k}
           /\ changed' = (k \in DOMAIN heap)
<1> DEFINE D == DOMAIN heap
           r == EraseBelow(heap, root, k)
           E == D \ {k}
<1>1. D \in SUBSET Keys /\ heap \in [D -> Node] /\ IsTree(heap, root, D) /\ IsFiniteSet(D)
  BY KeysAssumption, FS_Subset DEF TreeInv, Sound
<1>2. PICK rank : Descends(heap, D, k, rank)
  <2> HIDE DEF D
  <2> QED BY <1>1, TreeRank
<1>3. Yields(Unchanged(heap, Nil), EraseFound(heap, k), heap, D, k, {})
  <2> HIDE DEF D
  <2> QED BY <1>1, EraseYields
<1>4. Returns(r, heap, D, root, D, E)
  <2>1. DOMAIN heap = D /\ SameLinks(heap, heap, D, k) /\ {} \in SUBSET {k}
    BY DEF SameLinks
  <2>2. (D \ {k}) \cup {} = E
    OBVIOUS
  <2>3. r = Returned(heap, root, k, Unchanged(heap, Nil), EraseFound(heap, k))
    BY DEF EraseBelow
  <2> HIDE DEF D, E, r
  <2>4. Returns(Returned(heap, root, k, Unchanged(heap, Nil), EraseFound(heap, k)),
                heap, D, root, D, (D \ {k}) \cup {})
    BY <1>1, <1>2, <1>3, <2>1, ReturnsBelow
  <2> QED BY <2>2, <2>3, <2>4
<1>5. Sound(SetParent(r.heap, r.node, Nil), r.node, E) /\ r.changed = (E # D)
  <2>1. E \in SUBSET Keys
    BY <1>1
  <2> HIDE DEF D, E, r
  <2> QED BY <1>1, <1>4, <2>1, AdoptedSound
<1>6. /\ heap' = SetParent(r.heap, r.node, Nil) /\ root' = r.node
      /\ changed' = r.changed /\ size' = IF r.changed THEN size - 1 ELSE size
  BY DEF TreeErase, Adopt
<1> HIDE DEF r
<1>7. Sound(heap', root', E)
  BY <1>5, <1>6
<1>8. DOMAIN heap' = E
  BY <1>7 DEF Sound
<1>9. changed' = (k \in D)
  BY <1>5, <1>6
<1>10. size' = Cardinality(E)
  <2>1. size = Cardinality(D)
    BY DEF TreeInv
  <2>2. Cardinality(E) = IF k \in D THEN Cardinality(D) - 1 ELSE Cardinality(D)
    BY <1>1, FS_RemoveElement
  <2> HIDE DEF D, E
  <2> QED BY <1>6, <1>9, <2>1, <2>2
<1> QED BY <1>7, <1>8, <1>9, <1>10 DEF TreeInv

\* The empty tree is sound.
LEMMA EmptySound ==
    ASSUME NEW h, h = <<>>
    PROVE  Sound(h, Nil, DOMAIN h) /\ DOMAIN h = {} /\ Cardinality(DOMAIN h) = 0
<1>1. DOMAIN h = {} /\ h \in [{} -> Node]
  OBVIOUS
<1>2. Cardinality({}) = 0
  BY FS_EmptySet
<1>3. Sound(h, Nil, {})
  BY <1>1 DEF Sound, IsTree
<1> QED BY <1>1, <1>2, <1>3

\* The invariant holds at first.
LEMMA InitTreeInv == TreeInit => TreeInv
BY EmptySound DEF TreeInit, TreeInv

\* clear empties it.
LEMMA ClearKeeps ==
    ASSUME TreeInv, TreeClear
    PROVE  TreeInv' /\ DOMAIN heap' = {} /\ changed' = changed /\ size' = 0
<1>1. heap' = <<>> /\ root' = Nil /\ size' = 0 /\ changed' = changed
  BY DEF TreeClear
<1> QED BY <1>1, EmptySound DEF TreeInv

\* Every step preserves it.
LEMMA StepTreeInv == TreeInv /\ [TreeNext]_treeVars => TreeInv'
<1> SUFFICES ASSUME TreeInv, [TreeNext]_treeVars PROVE TreeInv'
  OBVIOUS
<1>1. ASSUME NEW k \in Keys, TreeInsert(k) PROVE TreeInv'
  BY <1>1, InsertKeeps
<1>2. ASSUME NEW k \in Keys, TreeErase(k) PROVE TreeInv'
  BY <1>2, EraseKeeps
<1>3. CASE TreeClear
  BY <1>3, ClearKeeps
<1>4. CASE UNCHANGED treeVars
  BY <1>4 DEF treeVars, TreeInv
<1> QED BY <1>1, <1>2, <1>3, <1>4 DEF TreeNext

\* So it holds always.
LEMMA AlwaysTreeInv == TreeSpec => []TreeInv
<1>1. TreeInit => TreeInv
  BY InitTreeInv
<1>2. TreeInv /\ [TreeNext]_treeVars => TreeInv'
  BY StepTreeInv
<1> QED BY <1>1, <1>2, PTL DEF TreeSpec

\* A sound tree is what TreeWellFormed says.
LEMMA SoundIsWellFormed == TreeInv => TreeWellFormed
<1> SUFFICES ASSUME TreeInv PROVE TreeWellFormed
  OBVIOUS
<1> DEFINE D == DOMAIN heap
<1>1. /\ D \in SUBSET Keys /\ heap \in [D -> Node] /\ IsTree(heap, root, D)
      /\ root # Nil => heap[root].parent = Nil
      /\ size = Cardinality(D) /\ changed \in BOOLEAN /\ DOMAIN heap = D
  BY DEF TreeInv, Sound
<1> HIDE DEF D
<1>2. IsFiniteSet(D) /\ Cardinality(D) \in Nat
  BY <1>1, KeysAssumption, FS_Subset, FS_CardinalityType
<1>3. root \in D \cup {Nil}
  BY <1>1, TreeRoot
<1>4. TreeTypeOK
  BY <1>1, <1>2, <1>3, KeyFacts DEF TreeTypeOK
<1>5. ASSUME NEW x \in D
      PROVE  /\ heap[x].left \in D \cup {Nil} /\ heap[x].right \in D \cup {Nil}
             /\ KnownAbove(heap, x) /\ Level(heap, x)
  <2>1. PICK t : Shape(heap, D, t)
    BY <1>1 DEF IsTree
  <2>2. Hangs(heap, D, t, x)
    BY <2>1 DEF Shape
  <2> QED BY <2>2 DEF Hangs
<1>6. TreeBalanced
  <2>1. ASSUME NEW x \in D
        PROVE  /\ heap[x].height = Max({Height(heap, heap[x].left), Height(heap, heap[x].right)}) + 1
               /\ BalanceFactor(heap, x) \in -1 .. 1
    <3> DEFINE a == Height(heap, heap[x].left)
               b == Height(heap, heap[x].right)
    <3>1. a \in Nat /\ b \in Nat
      BY <1>1, <1>5, HeightType
    <3>2. heap[x].height = MaxOf(a, b) + 1 /\ Even(a, b)
      BY <1>5 DEF Level
    <3>3. BalanceFactor(heap, x) = a - b
      BY DEF BalanceFactor
    <3> HIDE DEF a, b
    <3>4. Max({a, b}) = MaxOf(a, b)
      BY <3>1, MaxOfTwo
    <3>5. a - b \in -1 .. 1
      BY <3>1, <3>2 DEF Even
    <3> QED BY <3>2, <3>3, <3>4, <3>5 DEF a, b
  <2> QED BY <1>1, <2>1 DEF TreeBalanced
<1>7. TreeLinked
  <2> DEFINE q == InOrder(root)
  <2>1. Ascends(q, D)
    BY <1>1, InOrderAscends
  <2> HIDE DEF q
  <2>2. DOMAIN q = 1 .. Len(q)
    BY <2>1 DEF Ascends
  <2>3. Range(q) = D
    BY <2>1, <2>2 DEF Ascends, Range
  <2>4. \A i \in 2 .. Len(q) : q[i - 1] < q[i]
    BY <2>1 DEF Ascends
  <2>5. \A x \in D : \A c \in {heap[x].left, heap[x].right} \ {Nil} : heap[c].parent = x
    BY <1>5 DEF KnownAbove
  <2> QED BY <1>1, <2>3, <2>4, <2>5 DEF TreeLinked, q
<1> QED BY <1>4, <1>6, <1>7 DEF TreeWellFormed

\* Any sequence of insert, erase and clear leaves an AVL tree: all allocated
\* nodes in it, in order, each linked with its parent, the stored heights
\* right, and none leaning by more than one.
THEOREM TreeIsWellFormed == TreeSpec => []TreeWellFormed
<1>1. TreeSpec => []TreeInv
  BY AlwaysTreeInv
<1>2. TreeInv => TreeWellFormed
  BY SoundIsWellFormed
<1> QED BY <1>1, <1>2, PTL

\* The tree implements the set of its keys: insert and erase add and remove
\* the one key they are given, report whether they did, and size() is the
\* number of keys.
THEOREM TreeIsASet == TreeSpec => TreeImplementsSet
<1> USE DEF Contents!Init, Contents!Next
<1>1. TreeInit => Contents!Init
  <2> SUFFICES ASSUME TreeInit PROVE Contents!Init
    OBVIOUS
  <2>1. DOMAIN heap = {}
    BY EmptySound DEF TreeInit
  <2> QED BY <2>1 DEF TreeInit
<1>2. \A S : Contents!Cardinality(S) = Cardinality(S)
  BY DEF Contents!Cardinality, Cardinality
<1>3. TreeInv /\ TreeInv' /\ [TreeNext]_treeVars
      => [Contents!Next]_<<DOMAIN heap, size, changed>>
  <2> SUFFICES ASSUME TreeInv, TreeInv', [TreeNext]_treeVars
               PROVE  [Contents!Next]_<<DOMAIN heap, size, changed>>
    OBVIOUS
  <2>1. size' = Cardinality(DOMAIN heap')
    BY DEF TreeInv
  <2>2. ASSUME NEW k \in Keys, TreeInsert(k) PROVE Contents!Insert(k)
    <3>1. /\ DOMAIN heap' = DOMAIN heap \cup {k}
          /\ changed' = (k \notin DOMAIN heap)
      BY <2>2, InsertKeeps
    <3> QED BY <1>2, <2>1, <3>1 DEF Contents!Insert
  <2>3. ASSUME NEW k \in Keys, TreeErase(k) PROVE Contents!Erase(k)
    <3>1. /\ DOMAIN heap' = DOMAIN heap \ {k}
          /\ changed' = (k \in DOMAIN heap)
      BY <2>3, EraseKeeps
    <3> QED BY <1>2, <2>1, <3>1 DEF Contents!Erase
  <2>4. CASE TreeClear
    <3>1. Contents!Clear
      BY <2>4, ClearKeeps DEF Contents!Clear
    <3> QED BY <3>1
  <2>5. CASE UNCHANGED treeVars
    BY <2>5 DEF treeVars
  <2> QED BY <2>2, <2>3, <2>4, <2>5 DEF TreeNext
<1> QED BY <1>1, <1>3, AlwaysTreeInv, PTL DEF TreeSpec, TreeImplementsSet, Contents!Spec

-----------------------------------------------------------------------------
(* Finding the way                                                         *)

\* The least of a set.
LEMMA LeastIs ==
    ASSUME NEW S \in SUBSET Nat, NEW x \in S, \A y \in S \ {x} : x < y
    PROVE  Least(S) = x
<1>1. \A y \in S : x <= y
  OBVIOUS
<1>2. Min(S) \in S /\ \A y \in S : Min(S) <= y
  BY <1>1 DEF Min
<1>3. Min(S) = x
  <2> DEFINE m == Min(S)
  <2>1. m \in Nat /\ x \in Nat /\ m <= x /\ x <= m
    BY <1>1, <1>2
  <2> HIDE DEF m
  <2>2. m = x
    BY <2>1
  <2> QED BY <2>2 DEF m
<1> QED BY <1>3 DEF Least

\* The greatest of a set.
LEMMA GreatestIs ==
    ASSUME NEW S \in SUBSET Nat, NEW x \in S, \A y \in S \ {x} : y < x
    PROVE  Greatest(S) = x
<1>1. \A y \in S : x >= y
  OBVIOUS
<1>2. Max(S) \in S /\ \A y \in S : Max(S) >= y
  BY <1>1 DEF Max
<1>3. Max(S) = x
  <2> DEFINE m == Max(S)
  <2>1. m \in Nat /\ x \in Nat /\ m <= x /\ x <= m
    BY <1>1, <1>2
  <2> HIDE DEF m
  <2>2. m = x
    BY <2>1
  <2> QED BY <2>2 DEF m
<1> QED BY <1>3 DEF Greatest

\* t says which nodes hang at and below each node of the tree at n, and n has
\* no parent.
Whole(h, n, D, t) ==
    /\ h \in [D -> Node] /\ IsTree(h, n, D)
    /\ Shape(h, D, t) /\ n \in D /\ t[n] = D /\ h[n].parent = Nil

\* What t says of a node.
AtNode(h, D, t, x) ==
    /\ h[x].left \in D \cup {Nil} /\ h[x].right \in D \cup {Nil}
    /\ t[x] = t[h[x].left] \cup {x} \cup t[h[x].right]
    /\ \A y \in t[h[x].left] : y < x
    /\ \A y \in t[h[x].right] : x < y
    /\ \A y \in t[x] : t[y] \subseteq t[x]
    /\ KnownAbove(h, x)
    /\ t[Nil] = {} /\ t[x] \in SUBSET D /\ x \in t[x]
    /\ Nil \notin D /\ D \subseteq Nat

\* It says so of every node.
LEMMA WholeFacts ==
    ASSUME NEW h, NEW D \in SUBSET Keys, NEW n, NEW t, Whole(h, n, D, t), NEW x \in D
    PROVE  AtNode(h, D, t, x)
<1>1. Shape(h, D, t)
  BY DEF Whole
<1>2. Hangs(h, D, t, x)
  BY <1>1 DEF Shape
<1>3. t[Nil] = {} /\ t[x] \in SUBSET D
  BY <1>1 DEF Shape
<1> QED BY <1>2, <1>3, KeyFacts DEF Hangs, AtNode

\* All that hangs below a node is a tree.
LEMMA WholeTree ==
    ASSUME NEW h, NEW D \in SUBSET Keys, NEW n, NEW t, Whole(h, n, D, t), NEW x \in D
    PROVE  IsTree(h, x, t[x])
<1> DEFINE S == t[x]
           u == [y \in S \cup {Nil} |-> t[y]]
<1>1. /\ t[Nil] = {} /\ S \in SUBSET D /\ x \in S /\ Nil \notin D /\ D \subseteq Nat
      /\ \A y \in S : t[y] \subseteq S
  <2>1. AtNode(h, D, t, x)
    BY WholeFacts
  <2> QED BY <2>1 DEF AtNode
<1>2. u \in [S \cup {Nil} -> SUBSET S] /\ u[Nil] = {} /\ u[x] = S
  <2> HIDE DEF S
  <2> QED BY <1>1 DEF S
<1>3. \A y \in S \cup {Nil} : u[y] = t[y]
  OBVIOUS
<1> HIDE DEF u, S
<1>4. ASSUME NEW y \in S PROVE Hangs(h, S, u, y)
  <2>1. y \in D /\ Hangs(h, D, t, y) /\ t[y] \subseteq S
    BY <1>1 DEF Whole, Shape
  <2>2. /\ h[y].left \in D \cup {Nil} /\ h[y].right \in D \cup {Nil}
        /\ t[y] = t[h[y].left] \cup {y} \cup t[h[y].right]
    BY <2>1 DEF Hangs
  <2>3. \A d \in D : d \in t[d]
    <3> SUFFICES ASSUME NEW d \in D PROVE d \in t[d]
      OBVIOUS
    <3>1. AtNode(h, D, t, d)
      BY WholeFacts
    <3> QED BY <3>1 DEF AtNode
  <2>4. h[y].left \in S \cup {Nil} /\ h[y].right \in S \cup {Nil}
    BY <2>1, <2>2, <2>3
  <2>5. /\ u[y] = t[y] /\ u[h[y].left] = t[h[y].left] /\ u[h[y].right] = t[h[y].right]
        /\ \A z \in t[y] : u[z] = t[z]
    BY <1>3, <2>1, <2>4
  <2> QED BY <2>1, <2>4, <2>5 DEF Hangs
<1> QED BY <1>1, <1>2, <1>4 DEF IsTree, Shape, S

\* A node that is not the root is a child.
LEMMA EachIsAChild ==
    ASSUME NEW h, NEW D \in SUBSET Keys, NEW n, NEW t, Whole(h, n, D, t),
           NEW x \in D, x # n
    PROVE  h[x].parent \in D /\ (h[h[x].parent].left = x \/ h[h[x].parent].right = x)
<1> DEFINE H == [y \in D \cup {Nil} |-> Height(h, y)]
           P == {y \in D : x \in t[y] /\ y # x}
           T == {H[y] : y \in P}
<1>1. Descends(h, D, Nil, H)
  <2>1. h \in [D -> Node] /\ IsTree(h, n, D)
    BY DEF Whole
  <2> QED BY <2>1, TreeRank
<1> HIDE DEF H
<1>2. n \in P /\ Nil \notin D
  BY KeyFacts DEF Whole
<1>3. T \in SUBSET Nat /\ T # {}
  BY <1>1, <1>2 DEF Descends
<1>4. PICK i \in T : \A j \in T : i <= j
  BY <1>3, LeastNat
<1>5. PICK p \in P : i = H[p]
  BY <1>4
<1>6. /\ h[p].left \in D \cup {Nil} /\ h[p].right \in D \cup {Nil}
      /\ t[p] = t[h[p].left] \cup {p} \cup t[h[p].right]
      /\ t[Nil] = {} /\ KnownAbove(h, p)
  <2> HIDE DEF P
  <2>1. p \in D
    BY <1>5 DEF P
  <2>2. AtNode(h, D, t, p)
    BY <2>1, WholeFacts
  <2> QED BY <2>2 DEF AtNode
<1>7. /\ H \in [D \cup {Nil} -> Nat]
      /\ H[h[p].left] < H[p] /\ H[h[p].right] < H[p]
  BY <1>1, <1>2 DEF Descends
<1>8. ASSUME NEW c \in D \cup {Nil}, x \in t[c], H[c] < H[p] PROVE c = x
  <2>1. c \in D
    BY <1>6, <1>8
  <2>2. c # x => H[c] \in T
    BY <1>8, <2>1
  <2>3. H[c] \in Nat /\ H[p] \in Nat
    BY <1>7, <2>1
  <2> HIDE DEF T, P
  <2> QED BY <1>4, <1>5, <1>8, <2>2, <2>3
<1>9. h[p].left = x \/ h[p].right = x
  <2>1. x \in t[h[p].left] \/ x \in t[h[p].right]
    BY <1>6
  <2> HIDE DEF T, P
  <2> QED BY <1>6, <1>7, <1>8, <2>1
<1>10. h[x].parent = p
  BY <1>2, <1>6, <1>9 DEF KnownAbove
<1> QED BY <1>9, <1>10

\* Heights, counted from above: those of the parents are less.
LEMMA ClimbRank ==
    ASSUME NEW h, NEW D \in SUBSET Keys, NEW n, NEW t, Whole(h, n, D, t)
    PROVE  \E rank \in [D -> Nat] :
             \A x \in D \ {n} : h[x].parent \in D /\ rank[h[x].parent] < rank[x]
<1> DEFINE H == [y \in D \cup {Nil} |-> Height(h, y)]
           low == [y \in D |-> H[y]]
<1>1. Descends(h, D, Nil, H)
  <2>1. h \in [D -> Node] /\ IsTree(h, n, D)
    BY DEF Whole
  <2> QED BY <2>1, TreeRank
<1> HIDE DEF H
<1>2. H \in [D \cup {Nil} -> Nat] /\ low \in [D -> Nat]
  BY <1>1 DEF Descends
<1>3. \A y \in D : low[y] = H[y]
  OBVIOUS
<1>4. IsFiniteSet(D)
  BY KeysAssumption, FS_Subset
<1> HIDE DEF low
<1>5. PICK b \in Nat : \A y \in D : low[y] < b
  BY <1>2, <1>4, RankBound
<1> DEFINE rank == [y \in D |-> b - low[y]]
<1>6. ASSUME NEW y \in D PROVE low[y] \in Nat /\ b - low[y] \in Nat
  <2>1. low[y] \in Nat /\ low[y] < b
    BY <1>2, <1>5
  <2> QED BY <2>1
<1>7. rank \in [D -> Nat]
  BY <1>6
<1>8. ASSUME NEW x \in D \ {n} PROVE h[x].parent \in D /\ rank[h[x].parent] < rank[x]
  <2> DEFINE p == h[x].parent
  <2>1. p \in D /\ (h[p].left = x \/ h[p].right = x)
    BY EachIsAChild
  <2> HIDE DEF p
  <2>2. low[x] < low[p]
    BY <1>1, <1>3, <2>1, KeyFacts DEF Descends
  <2>3. rank[p] = b - low[p] /\ rank[x] = b - low[x] /\ low[p] \in Nat /\ low[x] \in Nat
    BY <1>6, <2>1
  <2>4. rank[p] < rank[x]
    <3> HIDE DEF rank
    <3> QED BY <2>2, <2>3
  <2> QED BY <2>1, <2>4 DEF p
<1> QED BY <1>7, <1>8

\* What hangs at a node is between its neighbours: any other node is below it
\* all or above it all.
LEMMA Between ==
    ASSUME NEW h, NEW D \in SUBSET Keys, NEW n, NEW t, Whole(h, n, D, t),
           NEW m \in D, NEW x \in D \ t[m]
    PROVE  (\A y \in t[m] : y < x) \/ (\A y \in t[m] : x < y)
<1> DEFINE Clear(c) == \A z \in D \ t[c] : (\A y \in t[c] : y < z) \/ (\A y \in t[c] : z < y)
<1>1. PICK rank \in [D -> Nat] :
        \A z \in D \ {n} : h[z].parent \in D /\ rank[h[z].parent] < rank[z]
  BY ClimbRank
<1> DEFINE T == {i \in Nat : \A c \in D : rank[c] < i => Clear(c)}
<1>2. 0 \in T
  BY <1>1
<1>3. ASSUME NEW i \in Nat, i \in T PROVE i + 1 \in T
  <2>1. ASSUME NEW c \in D, rank[c] < i + 1 PROVE Clear(c)
    <3>1. CASE c = n
      <4>1. D \ t[c] = {}
        BY <3>1 DEF Whole
      <4> QED BY <4>1
    <3>2. CASE c # n
      <4> DEFINE p == h[c].parent
      <4>1. p \in D /\ (h[p].left = c \/ h[p].right = c)
        BY <3>2, EachIsAChild
      <4>2. rank[p] < i
        <5>1. rank[p] < rank[c] /\ rank[p] \in Nat /\ rank[c] \in Nat
          BY <1>1, <3>2, <4>1
        <5> QED BY <2>1, <5>1
      <4>3. Clear(p)
        BY <1>3, <4>1, <4>2
      <4> HIDE DEF p
      <4>4. /\ t[p] = t[h[p].left] \cup {p} \cup t[h[p].right]
            /\ \A y \in t[h[p].left] : y < p
            /\ \A y \in t[h[p].right] : p < y
            /\ t[p] \in SUBSET D /\ D \subseteq Nat
        <5>1. p \in D
          BY <4>1
        <5> HIDE DEF Clear, T
        <5>2. AtNode(h, D, t, p)
          BY <5>1, WholeFacts
        <5> QED BY <5>2 DEF AtNode
      <4>5. ASSUME NEW z \in D \ t[c]
            PROVE  (\A y \in t[c] : y < z) \/ (\A y \in t[c] : z < y)
        <5>1. CASE z \notin t[p]
          BY <4>1, <4>3, <4>4, <5>1
        <5>2. CASE z \in t[p] /\ c = h[p].left
          <6>1. z = p \/ p < z
            BY <4>4, <4>5, <5>2
          <6>2. \A y \in t[c] : y \in Nat /\ p \in Nat /\ z \in Nat /\ y < p
            BY <4>1, <4>4, <5>2
          <6>3. \A y \in t[c] : y < z
            BY <6>1, <6>2
          <6> QED BY <6>3
        <5>3. CASE z \in t[p] /\ c = h[p].right
          <6>1. z = p \/ z < p
            BY <4>4, <4>5, <5>3
          <6>2. \A y \in t[c] : y \in Nat /\ p \in Nat /\ z \in Nat /\ p < y
            BY <4>1, <4>4, <5>3
          <6>3. \A y \in t[c] : z < y
            BY <6>1, <6>2
          <6> QED BY <6>3
        <5> QED BY <4>1, <5>1, <5>2, <5>3
      <4> QED BY <4>5
    <3> QED BY <3>1, <3>2
  <2> QED BY <2>1
<1> HIDE DEF T
<1>4. rank[m] + 1 \in Nat /\ rank[m] < rank[m] + 1
  BY <1>1
<1>5. rank[m] + 1 \in T
  BY <1>2, <1>3, <1>4, SetInduction
<1>6. Clear(m)
  BY <1>4, <1>5 DEF T
<1> QED BY <1>6

\* Climb, by its own equation.
LEMMA ClimbEq ==
    ASSUME NEW h, NEW D \in SUBSET Keys, NEW n, NEW t, Whole(h, n, D, t), NEW side
    PROVE  \E f : /\ \A m \in D : f[m] = IF h[m].parent = Nil \/ Child(h, h[m].parent, side) # m
                                         THEN h[m].parent ELSE f[h[m].parent]
                  /\ \A m \in D : Climb(h, m, side) = f[m]
<1> DEFINE Top(m) == h[m].parent = Nil \/ Child(h, h[m].parent, side) # m
           stop == {m \in D : Top(m)}
           res == [m \in D |-> h[m].parent]
           Up(f) == f = [m \in D |-> LET p == h[m].parent
                                     IN  IF p = Nil \/ Child(h, p, side) # m THEN p ELSE f[p]]
<1>1. PICK rank \in [D -> Nat] :
        \A x \in D \ {n} : h[x].parent \in D /\ rank[h[x].parent] < rank[x]
  BY ClimbRank
<1>2. h[n].parent = Nil /\ DOMAIN h = D
  BY DEF Whole
<1>3. \A m \in D \ stop : res[m] \in D /\ rank[res[m]] < rank[m]
  BY <1>1, <1>2
<1>4. IsFiniteSet(D)
  BY KeysAssumption, FS_Subset
<1>5. PICK f : Walks(f, D, stop, res, res)
  <2> HIDE DEF stop, res
  <2> QED BY <1>1, <1>3, <1>4, WalkExists
<1>6. Up(f)
  <2>1. \A m \in D : (IF m \in stop THEN res[m] ELSE f[res[m]])
                     = LET p == h[m].parent
                       IN  IF p = Nil \/ Child(h, p, side) # m THEN p ELSE f[p]
    OBVIOUS
  <2> QED BY <1>5, <2>1 DEF Walks
<1> DEFINE e == CHOOSE d : Up(d)
<1>7. Up(e)
  <2> HIDE DEF Up
  <2> QED BY <1>6
<1>8. \A m \in D : Climb(h, m, side) = e[m]
  BY <1>2 DEF Climb
<1> HIDE DEF e
<1>9. \A m \in D : e[m] = IF Top(m) THEN h[m].parent ELSE e[h[m].parent]
  BY <1>7
<1> QED BY <1>8, <1>9

\* The climb on the right ends at the first node after the tree at m.
LEMMA ClimbRight ==
    ASSUME NEW h, NEW D \in SUBSET Keys, NEW n, NEW t, Whole(h, n, D, t), NEW m \in D
    PROVE  Climb(h, m, "right") = Least({x \in D : \A y \in t[m] : y < x})
<1> DEFINE Out(c) == {x \in D : \A y \in t[c] : y < x}
<1>1. PICK f : /\ \A c \in D : f[c] = IF h[c].parent = Nil \/ Child(h, h[c].parent, "right") # c
                                      THEN h[c].parent ELSE f[h[c].parent]
               /\ \A c \in D : Climb(h, c, "right") = f[c]
  BY ClimbEq
<1>2. \A c \in D : f[c] = IF h[c].parent = Nil \/ h[h[c].parent].right # c
                          THEN h[c].parent ELSE f[h[c].parent]
  BY <1>1 DEF Child
<1>3. PICK rank \in [D -> Nat] :
        \A z \in D \ {n} : h[z].parent \in D /\ rank[h[z].parent] < rank[z]
  BY ClimbRank
<1> DEFINE T == {i \in Nat : \A c \in D : rank[c] < i => f[c] = Least(Out(c))}
<1>4. 0 \in T
  BY <1>3
<1>5. ASSUME NEW i \in Nat, i \in T PROVE i + 1 \in T
  <2>1. ASSUME NEW c \in D, rank[c] < i + 1 PROVE f[c] = Least(Out(c))
    <3>0. D \subseteq Nat /\ Nil \notin D /\ c \in t[c] /\ t[c] \in SUBSET D
      <4> HIDE DEF T, Out
      <4>1. AtNode(h, D, t, c)
        BY WholeFacts
      <4> QED BY <4>1 DEF AtNode
    <3>a. \A d \in D : rank[d] < i => f[d] = Least(Out(d))
      BY <1>5
    <3> HIDE DEF T, Out
    <3>1. CASE c = n
      <4>1. h[c].parent = Nil /\ t[c] = D
        BY <3>1 DEF Whole
      <4>2. ASSUME NEW x \in Out(c) PROVE FALSE
        <5>1. x \in D /\ \A y \in t[c] : y < x
          BY <4>2 DEF Out
        <5>2. x \in Nat /\ x < x
          BY <3>0, <4>1, <5>1
        <5> QED BY <5>2
      <4>3. Out(c) = {}
        BY <4>2
      <4> QED BY <1>2, <4>1, <4>3 DEF Least
    <3>2. CASE c # n
      <4> DEFINE p == h[c].parent
      <4>1. p \in D /\ (h[p].left = c \/ h[p].right = c) /\ p # Nil
        BY <3>0, <3>2, EachIsAChild, SMTT(30)
      <4>2. rank[p] < i
        <5>1. rank[p] < rank[c] /\ rank[p] \in Nat /\ rank[c] \in Nat
          BY <1>3, <3>2, <4>1
        <5> QED BY <2>1, <5>1
      <4>3. f[p] = Least(Out(p))
        BY <3>a, <4>1, <4>2
      <4>4. f[c] = IF h[p].right # c THEN p ELSE f[p]
        BY <1>2, <4>1
      <4> HIDE DEF p
      <4>5. /\ t[p] = t[h[p].left] \cup {p} \cup t[h[p].right]
            /\ \A y \in t[h[p].left] : y < p
            /\ \A y \in t[h[p].right] : p < y
            /\ t[p] \in SUBSET D
        <5>1. p \in D
          BY <4>1
        <5>2. AtNode(h, D, t, p)
          BY <5>1, WholeFacts
        <5> QED BY <5>2 DEF AtNode
      <4>6. \A x \in D \ t[p] : (\A y \in t[p] : y < x) \/ (\A y \in t[p] : x < y)
        <5>1. p \in D
          BY <4>1
        <5> QED BY <5>1, Between
      <4>7. CASE h[p].right # c
        <5>1. c = h[p].left
          BY <4>1, <4>7
        <5>2. p \in Out(c)
          BY <4>1, <4>5, <5>1 DEF Out
        <5>3. ASSUME NEW x \in Out(c) \ {p} PROVE p < x
          <6>0. x \in D /\ x # p /\ \A y \in t[c] : y < x
            BY <5>3 DEF Out
          <6>1. x \notin t[c] /\ x \in D
            <7>1. x \in Nat
              BY <3>0, <6>0
            <7>2. ~(x < x)
              BY <7>1
            <7> QED BY <6>0, <7>2
          <6>2. CASE x \in t[p]
            <7>1. x \in t[h[p].right]
              BY <4>5, <5>1, <6>0, <6>1, <6>2
            <7> QED BY <4>5, <7>1
          <6>3. CASE x \notin t[p]
            <7>1. c \in t[p] /\ p \in t[p] /\ c < x
              BY <3>0, <4>5, <5>1, <6>0
            <7>2. ~(x < c)
              BY <3>0, <6>1, <7>1
            <7>3. \A y \in t[p] : y < x
              BY <4>6, <6>1, <6>3, <7>1, <7>2
            <7> QED BY <7>1, <7>3
          <6> QED BY <6>2, <6>3
        <5>4. Least(Out(c)) = p
          <6>1. Out(c) \in SUBSET Nat
            BY <3>0 DEF Out
          <6> QED BY <5>2, <5>3, <6>1, LeastIs
        <5> QED BY <4>4, <4>7, <5>4
      <4>8. CASE h[p].right = c
        <5>1. Out(c) = Out(p)
          <6>1. ASSUME NEW x \in D, \A y \in t[c] : y < x PROVE \A y \in t[p] : y < x
            <7>0. x \in Nat /\ c \in Nat
              BY <3>0, <6>1
            <7>1. c < x /\ ~(x < c) /\ c \in t[p]
              BY <3>0, <4>5, <4>8, <6>1, <7>0
            <7>2. x \notin t[c]
              <8>1. ~(x < x)
                BY <7>0
              <8> QED BY <6>1, <8>1
            <7>3. x \notin t[p]
              <8> SUFFICES ASSUME x \in t[p] PROVE FALSE
                OBVIOUS
              <8>2. x = p \/ x \in t[h[p].left]
                BY <4>5, <4>8, <7>2
              <8>3. x = p \/ x < p
                BY <4>5, <8>2
              <8>4. p < c /\ p \in Nat
                BY <3>0, <4>1, <4>5, <4>8
              <8> QED BY <7>0, <7>1, <8>3, <8>4
            <7> QED BY <4>6, <7>1, <7>3
          <6>2. t[c] \subseteq t[p]
            BY <4>5, <4>8
          <6>3. \A x \in D : (\A y \in t[c] : y < x) <=> (\A y \in t[p] : y < x)
            BY <6>1, <6>2
          <6>4. \A x \in Out(c) : x \in Out(p)
            BY <6>3 DEF Out
          <6>5. \A x \in Out(p) : x \in Out(c)
            BY <6>3 DEF Out
          <6> QED BY <6>4, <6>5
        <5> QED BY <4>3, <4>4, <4>8, <5>1
      <4> QED BY <4>7, <4>8
    <3> QED BY <3>1, <3>2
  <2>2. i + 1 \in Nat
    OBVIOUS
  <2> HIDE DEF Out
  <2> QED BY <2>1, <2>2
<1> HIDE DEF T
<1>6. rank[m] + 1 \in Nat /\ rank[m] < rank[m] + 1
  BY <1>3
<1>7. rank[m] + 1 \in T
  BY <1>4, <1>5, <1>6, SetInduction
<1>8. f[m] = Least(Out(m))
  BY <1>6, <1>7 DEF T
<1> QED BY <1>1, <1>8 DEF Out

\* Successor: the first node after m.
LEMMA SuccessorIs ==
    ASSUME NEW h, NEW D \in SUBSET Keys, NEW n, NEW t, Whole(h, n, D, t), NEW m \in D
    PROVE  Successor(h, m) = Least({x \in D : m < x})
<1> DEFINE Out == {x \in D : m < x}
           c == h[m].right
<1>1. /\ D \subseteq Nat /\ Nil \notin D /\ m \in t[m] /\ t[m] \in SUBSET D
      /\ h[m].left \in D \cup {Nil} /\ h[m].right \in D \cup {Nil}
      /\ t[m] = t[h[m].left] \cup {m} \cup t[h[m].right]
      /\ \A y \in t[h[m].left] : y < m
      /\ \A y \in t[h[m].right] : m < y
      /\ t[Nil] = {}
  <2> HIDE DEF Out, c
  <2>1. AtNode(h, D, t, m)
    BY WholeFacts
  <2> QED BY <2>1 DEF AtNode
<1>2. CASE c = Nil
  <2>1. Successor(h, m) = Climb(h, m, "right")
    BY <1>2 DEF Successor
  <2>2. Out = {x \in D : \A y \in t[m] : y < x}
    <3>1. ASSUME NEW x \in D, m < x PROVE \A y \in t[m] : y < x
      <4> SUFFICES ASSUME NEW y \in t[m] PROVE y < x
        OBVIOUS
      <4>1. y = m \/ y < m
        BY <1>1, <1>2
      <4>2. y \in Nat /\ m \in Nat /\ x \in Nat
        BY <1>1
      <4> QED BY <3>1, <4>1, <4>2
    <3> QED BY <1>1, <3>1
  <2> HIDE DEF Out
  <2> QED BY <2>1, <2>2, ClimbRight DEF Out
<1>3. CASE c # Nil
  <2> DEFINE s == Descend(h, c, "left")
  <2>1. Successor(h, m) = s
    BY <1>3 DEF Successor
  <2>2. c \in D /\ t[c] \in SUBSET D /\ c \in t[c]
    <3>1. c \in D
      BY <1>1, <1>3
    <3> HIDE DEF c
    <3>2. AtNode(h, D, t, c)
      BY <3>1, WholeFacts
    <3> QED BY <3>1, <3>2 DEF AtNode
  <2>3. LeftEnd(s, h, c, t[c])
    <3>1. IsTree(h, c, t[c])
      <4> HIDE DEF c
      <4> QED BY <2>2, WholeTree
    <3>2. h \in [D -> Node] /\ IsTree(h, n, D)
      BY DEF Whole
    <3> HIDE DEF c
    <3> QED BY <1>3, <2>2, <3>1, <3>2, DescendLeft
  <2> HIDE DEF s, c
  <2>4. s \in t[c] /\ \A x \in t[c] \ {s} : s < x
    BY <2>3 DEF LeftEnd
  <2>5. s \in Out
    BY <1>1, <2>2, <2>4 DEF c
  <2>6. ASSUME NEW x \in Out \ {s} PROVE s < x
    <3>1. x \in D /\ m < x /\ x \in Nat /\ m \in Nat /\ s \in Nat /\ m < s
      BY <1>1, <2>5, <2>6
    <3>2. CASE x \in t[m]
      <4>1. x \in t[c]
        BY <1>1, <3>1, <3>2 DEF c
      <4> QED BY <2>4, <2>6, <4>1
    <3>3. CASE x \notin t[m]
      <4>1. (\A y \in t[m] : y < x) \/ (\A y \in t[m] : x < y)
        BY <3>1, <3>3, Between
      <4>2. s \in t[m] /\ m \in t[m]
        BY <1>1, <2>4 DEF c
      <4> QED BY <3>1, <4>1, <4>2
    <3> QED BY <3>2, <3>3
  <2>7. Least(Out) = s
    <3>1. Out \in SUBSET Nat
      BY <1>1
    <3> HIDE DEF Out
    <3> QED BY <2>5, <2>6, <3>1, LeastIs
  <2> QED BY <2>1, <2>7
<1> QED BY <1>2, <1>3

\* The climb on the left ends at the last node before the tree at m.
LEMMA ClimbLeft ==
    ASSUME NEW h, NEW D \in SUBSET Keys, NEW n, NEW t, Whole(h, n, D, t), NEW m \in D
    PROVE  Climb(h, m, "left") = Greatest({x \in D : \A y \in t[m] : x < y})
<1> DEFINE Out(c) == {x \in D : \A y \in t[c] : x < y}
<1>1. PICK f : /\ \A c \in D : f[c] = IF h[c].parent = Nil \/ Child(h, h[c].parent, "left") # c
                                      THEN h[c].parent ELSE f[h[c].parent]
               /\ \A c \in D : Climb(h, c, "left") = f[c]
  BY ClimbEq
<1>2. \A c \in D : f[c] = IF h[c].parent = Nil \/ h[h[c].parent].left # c
                          THEN h[c].parent ELSE f[h[c].parent]
  BY <1>1 DEF Child
<1>3. PICK rank \in [D -> Nat] :
        \A z \in D \ {n} : h[z].parent \in D /\ rank[h[z].parent] < rank[z]
  BY ClimbRank
<1> DEFINE T == {i \in Nat : \A c \in D : rank[c] < i => f[c] = Greatest(Out(c))}
<1>4. 0 \in T
  BY <1>3
<1>5. ASSUME NEW i \in Nat, i \in T PROVE i + 1 \in T
  <2>1. ASSUME NEW c \in D, rank[c] < i + 1 PROVE f[c] = Greatest(Out(c))
    <3>0. D \subseteq Nat /\ Nil \notin D /\ c \in t[c] /\ t[c] \in SUBSET D
      <4> HIDE DEF T, Out
      <4>1. AtNode(h, D, t, c)
        BY WholeFacts
      <4> QED BY <4>1 DEF AtNode
    <3>a. \A d \in D : rank[d] < i => f[d] = Greatest(Out(d))
      BY <1>5
    <3> HIDE DEF T, Out
    <3>1. CASE c = n
      <4>1. h[c].parent = Nil /\ t[c] = D
        BY <3>1 DEF Whole
      <4>2. ASSUME NEW x \in Out(c) PROVE FALSE
        <5>1. x \in D /\ \A y \in t[c] : x < y
          BY <4>2 DEF Out
        <5>2. x \in Nat /\ x < x
          BY <3>0, <4>1, <5>1
        <5> QED BY <5>2
      <4>3. Out(c) = {}
        BY <4>2
      <4> QED BY <1>2, <4>1, <4>3 DEF Greatest
    <3>2. CASE c # n
      <4> DEFINE p == h[c].parent
      <4>1. p \in D /\ (h[p].left = c \/ h[p].right = c) /\ p # Nil
        BY <3>0, <3>2, EachIsAChild, SMTT(30)
      <4>2. rank[p] < i
        <5>1. rank[p] < rank[c] /\ rank[p] \in Nat /\ rank[c] \in Nat
          BY <1>3, <3>2, <4>1
        <5> QED BY <2>1, <5>1
      <4>3. f[p] = Greatest(Out(p))
        BY <3>a, <4>1, <4>2
      <4>4. f[c] = IF h[p].left # c THEN p ELSE f[p]
        BY <1>2, <4>1
      <4> HIDE DEF p
      <4>5. /\ t[p] = t[h[p].left] \cup {p} \cup t[h[p].right]
            /\ \A y \in t[h[p].left] : y < p
            /\ \A y \in t[h[p].right] : p < y
            /\ t[p] \in SUBSET D
        <5>1. p \in D
          BY <4>1
        <5>2. AtNode(h, D, t, p)
          BY <5>1, WholeFacts
        <5> QED BY <5>2 DEF AtNode
      <4>6. \A x \in D \ t[p] : (\A y \in t[p] : y < x) \/ (\A y \in t[p] : x < y)
        <5>1. p \in D
          BY <4>1
        <5> QED BY <5>1, Between
      <4>7. CASE h[p].left # c
        <5>1. c = h[p].right
          BY <4>1, <4>7
        <5>2. p \in Out(c)
          BY <4>1, <4>5, <5>1 DEF Out
        <5>3. ASSUME NEW x \in Out(c) \ {p} PROVE x < p
          <6>0. x \in D /\ x # p /\ \A y \in t[c] : x < y
            BY <5>3 DEF Out
          <6>1. x \notin t[c] /\ x \in D
            <7>1. x \in Nat
              BY <3>0, <6>0
            <7>2. ~(x < x)
              BY <7>1
            <7> QED BY <6>0, <7>2
          <6>2. CASE x \in t[p]
            <7>1. x \in t[h[p].left]
              BY <4>5, <5>1, <6>0, <6>1, <6>2
            <7> QED BY <4>5, <7>1
          <6>3. CASE x \notin t[p]
            <7>1. c \in t[p] /\ p \in t[p] /\ x < c
              BY <3>0, <4>5, <5>1, <6>0
            <7>2. ~(c < x)
              BY <3>0, <6>1, <7>1
            <7>3. \A y \in t[p] : x < y
              BY <4>6, <6>1, <6>3, <7>1, <7>2
            <7> QED BY <7>1, <7>3
          <6> QED BY <6>2, <6>3
        <5>4. Greatest(Out(c)) = p
          <6>1. Out(c) \in SUBSET Nat
            BY <3>0 DEF Out
          <6> QED BY <5>2, <5>3, <6>1, GreatestIs
        <5> QED BY <4>4, <4>7, <5>4
      <4>8. CASE h[p].left = c
        <5>1. Out(c) = Out(p)
          <6>1. ASSUME NEW x \in D, \A y \in t[c] : x < y PROVE \A y \in t[p] : x < y
            <7>0. x \in Nat /\ c \in Nat
              BY <3>0, <6>1
            <7>1. x < c /\ ~(c < x) /\ c \in t[p]
              BY <3>0, <4>5, <4>8, <6>1, <7>0
            <7>2. x \notin t[c]
              <8>1. ~(x < x)
                BY <7>0
              <8> QED BY <6>1, <8>1
            <7>3. x \notin t[p]
              <8> SUFFICES ASSUME x \in t[p] PROVE FALSE
                OBVIOUS
              <8>2. x = p \/ x \in t[h[p].right]
                BY <4>5, <4>8, <7>2
              <8>3. x = p \/ p < x
                BY <4>5, <8>2
              <8>4. c < p /\ p \in Nat
                BY <3>0, <4>1, <4>5, <4>8
              <8> QED BY <7>0, <7>1, <8>3, <8>4
            <7> QED BY <4>6, <7>1, <7>3
          <6>2. t[c] \subseteq t[p]
            BY <4>5, <4>8
          <6>3. \A x \in D : (\A y \in t[c] : x < y) <=> (\A y \in t[p] : x < y)
            BY <6>1, <6>2
          <6>4. \A x \in Out(c) : x \in Out(p)
            BY <6>3 DEF Out
          <6>5. \A x \in Out(p) : x \in Out(c)
            BY <6>3 DEF Out
          <6> QED BY <6>4, <6>5
        <5> QED BY <4>3, <4>4, <4>8, <5>1
      <4> QED BY <4>7, <4>8
    <3> QED BY <3>1, <3>2
  <2>2. i + 1 \in Nat
    OBVIOUS
  <2> HIDE DEF Out
  <2> QED BY <2>1, <2>2
<1> HIDE DEF T
<1>6. rank[m] + 1 \in Nat /\ rank[m] < rank[m] + 1
  BY <1>3
<1>7. rank[m] + 1 \in T
  BY <1>4, <1>5, <1>6, SetInduction
<1>8. f[m] = Greatest(Out(m))
  BY <1>6, <1>7 DEF T
<1> QED BY <1>1, <1>8 DEF Out

\* Predecessor: the last node before m.
LEMMA PredecessorIs ==
    ASSUME NEW h, NEW D \in SUBSET Keys, NEW n, NEW t, Whole(h, n, D, t), NEW m \in D
    PROVE  Predecessor(h, m) = Greatest({x \in D : x < m})
<1> DEFINE Out == {x \in D : x < m}
           c == h[m].left
<1>1. /\ D \subseteq Nat /\ Nil \notin D /\ m \in t[m] /\ t[m] \in SUBSET D
      /\ h[m].left \in D \cup {Nil} /\ h[m].right \in D \cup {Nil}
      /\ t[m] = t[h[m].left] \cup {m} \cup t[h[m].right]
      /\ \A y \in t[h[m].left] : y < m
      /\ \A y \in t[h[m].right] : m < y
      /\ t[Nil] = {}
  <2> HIDE DEF Out, c
  <2>1. AtNode(h, D, t, m)
    BY WholeFacts
  <2> QED BY <2>1 DEF AtNode
<1>2. CASE c = Nil
  <2>1. Predecessor(h, m) = Climb(h, m, "left")
    BY <1>2 DEF Predecessor
  <2>2. Out = {x \in D : \A y \in t[m] : x < y}
    <3>1. ASSUME NEW x \in D, x < m PROVE \A y \in t[m] : x < y
      <4> SUFFICES ASSUME NEW y \in t[m] PROVE x < y
        OBVIOUS
      <4>1. y = m \/ m < y
        BY <1>1, <1>2
      <4>2. y \in Nat /\ m \in Nat /\ x \in Nat
        BY <1>1
      <4> QED BY <3>1, <4>1, <4>2
    <3> QED BY <1>1, <3>1
  <2> HIDE DEF Out
  <2> QED BY <2>1, <2>2, ClimbLeft DEF Out
<1>3. CASE c # Nil
  <2> DEFINE s == Descend(h, c, "right")
  <2>1. Predecessor(h, m) = s
    BY <1>3 DEF Predecessor
  <2>2. c \in D /\ t[c] \in SUBSET D /\ c \in t[c]
    <3>1. c \in D
      BY <1>1, <1>3
    <3> HIDE DEF c
    <3>2. AtNode(h, D, t, c)
      BY <3>1, WholeFacts
    <3> QED BY <3>1, <3>2 DEF AtNode
  <2>3. RightEnd(s, h, c, t[c])
    <3>1. IsTree(h, c, t[c])
      <4> HIDE DEF c
      <4> QED BY <2>2, WholeTree
    <3>2. h \in [D -> Node] /\ IsTree(h, n, D)
      BY DEF Whole
    <3> HIDE DEF c
    <3> QED BY <1>3, <2>2, <3>1, <3>2, DescendRight
  <2> HIDE DEF s, c
  <2>4. s \in t[c] /\ \A x \in t[c] \ {s} : x < s
    BY <2>3 DEF RightEnd
  <2>5. s \in Out
    BY <1>1, <2>2, <2>4 DEF c
  <2>6. ASSUME NEW x \in Out \ {s} PROVE x < s
    <3>1. x \in D /\ x < m /\ x \in Nat /\ m \in Nat /\ s \in Nat /\ s < m
      BY <1>1, <2>5, <2>6
    <3>2. CASE x \in t[m]
      <4>1. x \in t[c]
        BY <1>1, <3>1, <3>2 DEF c
      <4> QED BY <2>4, <2>6, <4>1
    <3>3. CASE x \notin t[m]
      <4>1. (\A y \in t[m] : y < x) \/ (\A y \in t[m] : x < y)
        BY <3>1, <3>3, Between
      <4>2. s \in t[m] /\ m \in t[m]
        BY <1>1, <2>4 DEF c
      <4> QED BY <3>1, <4>1, <4>2
    <3> QED BY <3>2, <3>3
  <2>7. Greatest(Out) = s
    <3>1. Out \in SUBSET Nat
      BY <1>1
    <3> HIDE DEF Out
    <3> QED BY <2>5, <2>6, <3>1, GreatestIs
  <2> QED BY <2>1, <2>7
<1> QED BY <1>2, <1>3

\* FindFrom, by its own equation.
LEMMA FindEq ==
    ASSUME NEW D \in SUBSET Keys, NEW n, NEW t, Whole(heap, n, D, t), NEW k \in Keys
    PROVE  \E f : /\ \A m \in D \cup {Nil} :
                       f[m] = IF m = Nil \/ m = k THEN m
                              ELSE f[IF k < m THEN heap[m].left ELSE heap[m].right]
                  /\ \A m \in D \cup {Nil} : FindFrom(m, k) = f[m]
<1> DEFINE S == D \cup {Nil}
           Turn(m) == IF k < m THEN heap[m].left ELSE heap[m].right
           stop == {m \in S : m = Nil \/ m = k}
           res == [m \in S |-> m]
           next == [m \in S |-> Turn(m)]
           rank == [x \in D \cup {Nil} |-> Height(heap, x)]
           Found(f) == f = [m \in S |-> IF m = Nil \/ m = k THEN m
                                        ELSE f[IF k < m THEN heap[m].left ELSE heap[m].right]]
<1>1. heap \in [D -> Node] /\ IsTree(heap, n, D) /\ DOMAIN heap = D
  BY DEF Whole
<1>2. Descends(heap, D, Nil, rank)
  BY <1>1, TreeRank
<1> HIDE DEF rank
<1>3. rank \in [S -> Nat]
  BY <1>2 DEF Descends
<1>4. \A m \in S \ stop : next[m] \in S /\ rank[next[m]] < rank[m]
  <2> SUFFICES ASSUME NEW m \in S \ stop PROVE next[m] \in S /\ rank[next[m]] < rank[m]
    OBVIOUS
  <2>1. m \in D \ {Nil} /\ next[m] = Turn(m)
    OBVIOUS
  <2>2. Turn(m) = heap[m].left \/ Turn(m) = heap[m].right
    OBVIOUS
  <2> HIDE DEF next, Turn
  <2> QED BY <1>2, <2>1, <2>2 DEF Descends
<1>5. IsFiniteSet(S)
  BY KeysAssumption, FS_Subset, FS_AddElement
<1>6. PICK f : Walks(f, S, stop, res, next)
  <2> HIDE DEF S, stop, res, next
  <2> QED BY <1>3, <1>4, <1>5, WalkExists, SMTT(30)
<1>7. Found(f)
  <2>1. \A m \in S : (IF m \in stop THEN res[m] ELSE f[next[m]])
                     = IF m = Nil \/ m = k THEN m
                       ELSE f[IF k < m THEN heap[m].left ELSE heap[m].right]
    OBVIOUS
  <2> QED BY <1>6, <2>1 DEF Walks
<1> DEFINE e == CHOOSE d : Found(d)
<1>8. Found(e)
  <2> HIDE DEF Found
  <2> QED BY <1>7
<1>9. \A m \in S : FindFrom(m, k) = e[m]
  BY <1>1 DEF FindFrom
<1> HIDE DEF e
<1>10. \A m \in S : e[m] = IF m = Nil \/ m = k THEN m
                           ELSE e[IF k < m THEN heap[m].left ELSE heap[m].right]
  BY <1>8
<1> QED BY <1>9, <1>10

\* The search finds the key if it hangs below.
LEMMA FindIs ==
    ASSUME NEW D \in SUBSET Keys, NEW n, NEW t, Whole(heap, n, D, t), NEW k \in Keys
    PROVE  FindFrom(n, k) = IF k \in D THEN k ELSE Nil
<1> DEFINE rank == [x \in D \cup {Nil} |-> Height(heap, x)]
<1>1. PICK f : /\ \A m \in D \cup {Nil} :
                    f[m] = IF m = Nil \/ m = k THEN m
                           ELSE f[IF k < m THEN heap[m].left ELSE heap[m].right]
               /\ \A m \in D \cup {Nil} : FindFrom(m, k) = f[m]
  BY FindEq
<1>2. Descends(heap, D, Nil, rank)
  <2>1. heap \in [D -> Node] /\ IsTree(heap, n, D)
    BY DEF Whole
  <2> QED BY <2>1, TreeRank
<1> HIDE DEF rank
<1>3. /\ rank \in [D \cup {Nil} -> Nat] /\ Nil \notin D /\ D \subseteq Nat /\ k \in Nat
      /\ Nil \notin Keys
  BY <1>2, KeyFacts DEF Descends
<1> DEFINE Right(m) == f[m] = IF k \in t[m] THEN k ELSE Nil
           T == {i \in Nat : \A m \in D \cup {Nil} : rank[m] < i => Right(m)}
<1>4. 0 \in T
  BY <1>3
<1>5. ASSUME NEW i \in Nat, i \in T PROVE i + 1 \in T
  <2>1. ASSUME NEW m \in D \cup {Nil}, rank[m] < i + 1 PROVE Right(m)
    <3>1. CASE m = Nil
      <4>1. t[Nil] = {}
        BY DEF Whole, Shape
      <4> QED BY <1>1, <3>1, <4>1
    <3>2. CASE m = k
      <4>1. AtNode(heap, D, t, m)
        <5>1. m \in D
          BY <1>3, <3>2
        <5> HIDE DEF T, Right
        <5> QED BY <5>1, WholeFacts
      <4>2. k \in t[m]
        BY <3>2, <4>1 DEF AtNode
      <4> QED BY <1>1, <3>2, <4>2
    <3>3. CASE m # Nil /\ m # k
      <4> DEFINE c == IF k < m THEN heap[m].left ELSE heap[m].right
      <4>1. f[m] = f[c]
        BY <1>1, <3>3
      <4>2. m \in D \ {Nil}
        BY <3>3
      <4>3. AtNode(heap, D, t, m)
        <5> HIDE DEF T, Right, c
        <5> QED BY <4>2, WholeFacts
      <4>4. c \in D \cup {Nil} /\ rank[c] < rank[m]
        BY <1>2, <4>2 DEF Descends
      <4>5. rank[c] < i
        <5> HIDE DEF c
        <5>1. rank[c] \in Nat /\ rank[m] \in Nat
          BY <1>3, <4>4
        <5> QED BY <2>1, <4>4, <5>1
      <4>6. k \in t[m] <=> k \in t[c]
        <5>1. /\ t[m] = t[heap[m].left] \cup {m} \cup t[heap[m].right]
              /\ \A y \in t[heap[m].left] : y < m
              /\ \A y \in t[heap[m].right] : m < y
          BY <4>3 DEF AtNode
        <5>2. m \in Nat /\ m # k
          BY <1>3, <3>3, <4>2
        <5>3. CASE k < m
          <6>1. c = heap[m].left /\ ~(m < k)
            BY <1>3, <5>2, <5>3
          <6> HIDE DEF c
          <6> QED BY <5>1, <5>2, <6>1
        <5>4. CASE ~(k < m)
          <6>1. c = heap[m].right
            BY <5>4
          <6> HIDE DEF c
          <6> QED BY <5>1, <5>2, <5>4, <6>1
        <5> QED BY <5>3, <5>4
      <4>7. Right(c)
        <5> HIDE DEF c
        <5> QED BY <1>5, <4>4, <4>5
      <4> HIDE DEF c
      <4> QED BY <4>1, <4>6, <4>7
    <3> QED BY <3>1, <3>2, <3>3
  <2>2. i + 1 \in Nat
    OBVIOUS
  <2> HIDE DEF Right
  <2> QED BY <2>1, <2>2
<1> HIDE DEF T
<1>6. n \in D /\ t[n] = D
  BY DEF Whole
<1>7. rank[n] + 1 \in Nat /\ rank[n] < rank[n] + 1
  BY <1>3, <1>6
<1>8. rank[n] + 1 \in T
  BY <1>4, <1>5, <1>7, SetInduction
<1>9. Right(n)
  BY <1>6, <1>7, <1>8 DEF T
<1> QED BY <1>1, <1>6, <1>9

\* BoundFrom, by its own equation.
LEMMA BoundEq ==
    ASSUME NEW D \in SUBSET Keys, NEW n, NEW t, Whole(heap, n, D, t), NEW goesLeft
    PROVE  \E f : /\ \A at \in (D \cup {Nil}) \X Links :
                       f[at] = IF at[1] = Nil THEN at[2]
                               ELSE IF at[1] \in goesLeft THEN f[<<heap[at[1]].left, at[1]>>]
                               ELSE f[<<heap[at[1]].right, at[2]>>]
                  /\ BoundFrom(n, goesLeft) = f[<<n, Nil>>]
<1> DEFINE A == D \cup {Nil}
           S == A \X Links
           Turn(at) == IF at[1] \in goesLeft THEN <<heap[at[1]].left, at[1]>>
                       ELSE <<heap[at[1]].right, at[2]>>
           stop == {at \in S : at[1] = Nil}
           res == [at \in S |-> at[2]]
           next == [at \in S |-> Turn(at)]
           H == [x \in D \cup {Nil} |-> Height(heap, x)]
           rank == [at \in S |-> H[at[1]]]
           Bound(f) == f = [at \in S |->
                              IF at[1] = Nil THEN at[2]
                              ELSE IF at[1] \in goesLeft THEN f[<<heap[at[1]].left, at[1]>>]
                              ELSE f[<<heap[at[1]].right, at[2]>>]]
<1>1. heap \in [D -> Node] /\ IsTree(heap, n, D) /\ DOMAIN heap = D
  BY DEF Whole
<1>2. Descends(heap, D, Nil, H)
  BY <1>1, TreeRank
<1> HIDE DEF H
<1>3. H \in [A -> Nat] /\ A \subseteq Links
  BY <1>2 DEF Descends, Links
<1>4. rank \in [S -> Nat]
  BY <1>3
<1>5. ASSUME NEW at \in S \ stop PROVE next[at] \in S /\ rank[next[at]] < rank[at]
  <2>1. at[1] \in D \ {Nil} /\ at[1] \in Links /\ at[2] \in Links /\ next[at] = Turn(at)
    BY <1>3
  <2> DEFINE m == at[1]
  <2>2. /\ heap[m].left \in A /\ H[heap[m].left] < H[m]
        /\ heap[m].right \in A /\ H[heap[m].right] < H[m]
    BY <1>2, <2>1 DEF Descends
  <2>3. Turn(at) \in S /\ H[Turn(at)[1]] < H[m]
    BY <2>1, <2>2
  <2>4. \A b \in S : rank[b] = H[b[1]]
    OBVIOUS
  <2> HIDE DEF next, rank, Turn
  <2> QED BY <2>1, <2>3, <2>4
<1>6. IsFiniteSet(S)
  <2>1. IsFiniteSet(A) /\ IsFiniteSet(Links)
    BY KeysAssumption, FS_Subset, FS_AddElement DEF Links
  <2> QED BY <2>1, FS_Product
<1>7. PICK f : Walks(f, S, stop, res, next)
  <2> HIDE DEF S, stop, res, next, rank
  <2> QED BY <1>4, <1>5, <1>6, WalkExists
<1>8. Bound(f)
  <2>1. \A at \in S : (IF at \in stop THEN res[at] ELSE f[next[at]])
                      = IF at[1] = Nil THEN at[2]
                        ELSE IF at[1] \in goesLeft THEN f[<<heap[at[1]].left, at[1]>>]
                        ELSE f[<<heap[at[1]].right, at[2]>>]
    <3> HIDE DEF S
    <3> QED OBVIOUS
  <2> HIDE DEF S, stop, res, next
  <2>2. f = [at \in S |-> IF at \in stop THEN res[at] ELSE f[next[at]]]
    BY <1>7 DEF Walks
  <2> QED BY <2>1, <2>2
<1> DEFINE e == CHOOSE d : Bound(d)
<1>9. Bound(e)
  <2> HIDE DEF Bound
  <2> QED BY <1>8
<1>10. BoundFrom(n, goesLeft) = e[<<n, Nil>>]
  BY <1>1 DEF BoundFrom
<1> HIDE DEF e
<1>11. \A at \in S : e[at] = IF at[1] = Nil THEN at[2]
                             ELSE IF at[1] \in goesLeft THEN e[<<heap[at[1]].left, at[1]>>]
                             ELSE e[<<heap[at[1]].right, at[2]>>]
  <2> HIDE DEF S
  <2> QED BY <1>9
<1> QED BY <1>10, <1>11

\* If the search goes left at the upper end of the keys, it ends at the first
\* of them.
LEMMA BoundIs ==
    ASSUME NEW D \in SUBSET Keys, NEW n, NEW t, Whole(heap, n, D, t),
           NEW goesLeft \in SUBSET D,
           \A x \in goesLeft, y \in D : x < y => y \in goesLeft
    PROVE  BoundFrom(n, goesLeft) = Least(goesLeft)
<1> DEFINE H == [x \in D \cup {Nil} |-> Height(heap, x)]
<1>1. PICK f : /\ \A at \in (D \cup {Nil}) \X Links :
                    f[at] = IF at[1] = Nil THEN at[2]
                            ELSE IF at[1] \in goesLeft THEN f[<<heap[at[1]].left, at[1]>>]
                            ELSE f[<<heap[at[1]].right, at[2]>>]
               /\ BoundFrom(n, goesLeft) = f[<<n, Nil>>]
  BY BoundEq
<1>2. Descends(heap, D, Nil, H)
  <2>1. heap \in [D -> Node] /\ IsTree(heap, n, D)
    BY DEF Whole
  <2> QED BY <2>1, TreeRank
<1> HIDE DEF H
<1>3. /\ H \in [D \cup {Nil} -> Nat] /\ Nil \notin D /\ D \subseteq Nat
      /\ D \cup {Nil} \subseteq Links /\ Nil \in Links
  BY <1>2, KeyFacts DEF Descends
<1>4. \A m \in D \cup {Nil}, r \in Links :
        f[<<m, r>>] = IF m = Nil THEN r
                      ELSE IF m \in goesLeft THEN f[<<heap[m].left, m>>]
                      ELSE f[<<heap[m].right, r>>]
  BY <1>1
<1> DEFINE Ends(m, r) == f[<<m, r>>] = IF t[m] \cap goesLeft = {} THEN r
                                       ELSE Least(t[m] \cap goesLeft)
           T == {i \in Nat : \A m \in D \cup {Nil}, r \in Links : H[m] < i => Ends(m, r)}
<1>5. 0 \in T
  BY <1>3
<1>6. ASSUME NEW i \in Nat, i \in T PROVE i + 1 \in T
  <2>1. \A m \in D \cup {Nil}, r \in Links : H[m] < i => Ends(m, r)
    BY <1>6
  <2>2. ASSUME NEW m \in D \cup {Nil}, NEW r \in Links, H[m] < i + 1 PROVE Ends(m, r)
    <3> HIDE DEF T
    <3>1. CASE m = Nil
      <4>1. t[Nil] = {}
        BY DEF Whole, Shape
      <4> QED BY <1>4, <3>1, <4>1
    <3>2. CASE m # Nil
      <4> DEFINE l == heap[m].left
                 c == heap[m].right
      <4>1. m \in D /\ m \in Links /\ m \in Nat
        BY <1>3, <3>2
      <4> HIDE DEF Ends
      <4>2. AtNode(heap, D, t, m)
        BY <4>1, WholeFacts
      <4>3. /\ t[m] = t[l] \cup {m} \cup t[c]
            /\ \A y \in t[l] : y < m
            /\ \A y \in t[c] : m < y
            /\ t[m] \in SUBSET D
        BY <4>2 DEF AtNode
      <4>4. /\ l \in D \cup {Nil} /\ H[l] < H[m]
            /\ c \in D \cup {Nil} /\ H[c] < H[m]
        BY <1>2, <3>2, <4>1 DEF Descends
      <4> HIDE DEF l, c
      <4>5. H[l] < i /\ H[c] < i
        <5>1. H[l] \in Nat /\ H[c] \in Nat /\ H[m] \in Nat
          BY <1>3, <4>4
        <5> QED BY <2>2, <4>4, <5>1
      <4>6. CASE m \in goesLeft
        <5>1. f[<<m, r>>] = f[<<l, m>>]
          BY <1>4, <3>2, <4>6 DEF l
        <5>2. Ends(l, m)
          BY <2>1, <4>1, <4>4, <4>5
        <5>3. f[<<l, m>>] = IF t[l] \cap goesLeft = {} THEN m ELSE Least(t[l] \cap goesLeft)
          BY <5>2 DEF Ends
        <5> DEFINE G == t[m] \cap goesLeft
        <5>4. G \in SUBSET Nat /\ m \in G
          BY <1>3, <4>3, <4>6
        <5>5. CASE t[l] \cap goesLeft = {}
          <6>1. \A y \in G \ {m} : m < y
            BY <4>3, <5>5
          <6> HIDE DEF G
          <6>2. Least(G) = m
            BY <5>4, <6>1, LeastIs
          <6> QED BY <5>1, <5>3, <5>4, <5>5, <6>2 DEF G, Ends
        <5>6. CASE t[l] \cap goesLeft # {}
          <6> DEFINE L == t[l] \cap goesLeft
          <6>1. L \in SUBSET Nat /\ L # {}
            BY <1>3, <4>3, <5>6
          <6>2. PICK x \in L : \A y \in L : x <= y
            <7> HIDE DEF L
            <7> QED BY <6>1, LeastNat
          <6>3. \A y \in L \ {x} : x < y
            <7> HIDE DEF L
            <7> QED BY <6>1, <6>2
          <6>4. Least(L) = x
            <7> HIDE DEF L
            <7> QED BY <6>1, <6>3, LeastIs
          <6>5. x \in G /\ x < m /\ x \in Nat
            BY <4>3, <6>1
          <6>6. \A y \in G \ {x} : x < y
            <7> SUFFICES ASSUME NEW y \in G \ {x} PROVE x < y
              OBVIOUS
            <7>1. y \in L \/ y = m \/ m < y
              BY <4>3
            <7>2. y \in Nat
              BY <5>4
            <7> HIDE DEF L, G
            <7> QED BY <4>1, <6>3, <6>5, <7>1, <7>2
          <6>7. Least(G) = x
            <7> HIDE DEF G
            <7> QED BY <5>4, <6>5, <6>6, LeastIs
          <6>8. f[<<l, m>>] = Least(L)
            BY <5>3, <5>6
          <6> HIDE DEF L
          <6> QED BY <5>1, <5>4, <6>4, <6>7, <6>8 DEF Ends
        <5> QED BY <5>5, <5>6
      <4>7. CASE m \notin goesLeft
        <5>1. f[<<m, r>>] = f[<<c, r>>]
          BY <1>4, <3>2, <4>7 DEF c
        <5>2. Ends(c, r)
          BY <2>1, <4>4, <4>5
        <5>3. t[m] \cap goesLeft = t[c] \cap goesLeft
          <6>1. \A y \in t[l] : y \notin goesLeft
            BY <4>1, <4>3, <4>7
          <6> QED BY <4>3, <4>7, <6>1
        <5> QED BY <5>1, <5>2, <5>3 DEF Ends
      <4> QED BY <4>6, <4>7
    <3> QED BY <3>1, <3>2
  <2>3. i + 1 \in Nat
    OBVIOUS
  <2> HIDE DEF Ends
  <2> QED BY <2>2, <2>3
<1> HIDE DEF T
<1>7. n \in D /\ t[n] = D
  BY DEF Whole
<1>8. H[n] + 1 \in Nat /\ H[n] < H[n] + 1
  BY <1>3, <1>7
<1>9. H[n] + 1 \in T
  BY <1>5, <1>6, <1>8, SetInduction
<1>10. Ends(n, Nil)
  BY <1>3, <1>7, <1>8, <1>9 DEF T
<1>11. t[n] \cap goesLeft = goesLeft
  BY <1>7
<1>12. f[<<n, Nil>>] = IF goesLeft = {} THEN Nil ELSE Least(goesLeft)
  BY <1>10, <1>11
<1> QED BY <1>1, <1>12 DEF Least

\* Iterators and lookups of a sound tree find what the set of keys says.
LEMMA SoundNavigates == TreeInv => TreeNavigates
<1> SUFFICES ASSUME TreeInv PROVE TreeNavigates
  OBVIOUS
<1> DEFINE D == DOMAIN heap
<1>1. /\ D \in SUBSET Keys /\ heap \in [D -> Node] /\ IsTree(heap, root, D)
      /\ root # Nil => heap[root].parent = Nil
      /\ D = DOMAIN heap
  BY DEF TreeInv, Sound
<1> HIDE DEF D
<1>2. CASE root = Nil
  <2>1. D = {}
    BY <1>1, <1>2, TreeRoot
  <2>2. TreeIterates
    BY <1>1, <1>2, <2>1 DEF TreeIterates, FirstNode, Least
  <2>3. ASSUME NEW k \in Keys PROVE FindFrom(root, k) = Nil
    <3> DEFINE F(f) == f = [m \in D \cup {Nil} |->
                              IF m = Nil \/ m = k THEN m
                              ELSE f[IF k < m THEN heap[m].left ELSE heap[m].right]]
               e == CHOOSE f : F(f)
    <3>1. F([m \in {Nil} |-> Nil])
      BY <2>1
    <3>2. F(e)
      <4> HIDE DEF F
      <4> QED BY <3>1
    <3>3. FindFrom(root, k) = e[root]
      BY <1>1 DEF FindFrom
    <3> HIDE DEF e
    <3> QED BY <1>2, <3>2, <3>3
  <2>4. ASSUME NEW goesLeft PROVE BoundFrom(root, goesLeft) = Nil
    <3> DEFINE S == (D \cup {Nil}) \X Links
               F(f) == f = [at \in S |->
                              IF at[1] = Nil THEN at[2]
                              ELSE IF at[1] \in goesLeft THEN f[<<heap[at[1]].left, at[1]>>]
                              ELSE f[<<heap[at[1]].right, at[2]>>]]
               e == CHOOSE f : F(f)
    <3>1. \A at \in S : at[1] = Nil
      BY <2>1
    <3>2. F([at \in S |-> at[2]])
      <4> HIDE DEF S
      <4> QED BY <3>1
    <3>3. F(e)
      <4> HIDE DEF F
      <4> QED BY <3>2
    <3>4. BoundFrom(root, goesLeft) = e[<<root, Nil>>]
      BY <1>1 DEF BoundFrom
    <3> HIDE DEF e
    <3>5. <<root, Nil>> \in S
      BY <1>2, KeyFacts
    <3>6. e[<<root, Nil>>] = IF <<root, Nil>>[1] = Nil THEN <<root, Nil>>[2]
                             ELSE IF <<root, Nil>>[1] \in goesLeft
                             THEN e[<<heap[<<root, Nil>>[1]].left, <<root, Nil>>[1]>>]
                             ELSE e[<<heap[<<root, Nil>>[1]].right, <<root, Nil>>[2]>>]
      <4> HIDE DEF S
      <4> QED BY <3>3, <3>5
    <3> QED BY <1>2, <3>4, <3>6
  <2>5. Least({}) = Nil
    BY DEF Least
  <2>6. TreeLooksUp
    BY <1>1, <2>1, <2>3, <2>4, <2>5 DEF TreeLooksUp, LowerBoundFrom, UpperBoundFrom
  <2> QED BY <2>2, <2>6 DEF TreeNavigates
<1>3. CASE root # Nil
  <2>1. PICK t : root \in D /\ Shape(heap, D, t) /\ t[root] = D
    BY <1>1, <1>3 DEF IsTree
  <2>2. Whole(heap, root, D, t)
    BY <1>1, <1>3, <2>1 DEF Whole
  <2>3. D \subseteq Nat /\ Keys \subseteq Nat
    BY <1>1, KeyFacts
  <2>4. FirstNode = Least(D)
    <3> DEFINE s == Descend(heap, root, "left")
    <3>1. LeftEnd(s, heap, root, D)
      BY <1>1, <1>3, DescendLeft
    <3>2. FirstNode = s
      BY <1>3 DEF FirstNode
    <3> HIDE DEF s
    <3>3. s \in D /\ \A x \in D \ {s} : s < x
      BY <3>1 DEF LeftEnd
    <3>4. D \in SUBSET Nat
      BY <2>3
    <3>5. Least(D) = s
      BY <3>3, <3>4, LeastIs
    <3> QED BY <3>2, <3>5
  <2>5. ASSUME NEW x \in D
        PROVE  /\ Successor(heap, x) = Least({m \in D : m > x})
               /\ Predecessor(heap, x) = Greatest({m \in D : m < x})
    <3>1. Successor(heap, x) = Least({m \in D : x < m})
      BY <1>1, <2>2, SuccessorIs
    <3>2. Predecessor(heap, x) = Greatest({m \in D : m < x})
      BY <1>1, <2>2, PredecessorIs
    <3>3. {m \in D : m > x} = {m \in D : x < m}
      BY <2>3
    <3> QED BY <3>1, <3>2, <3>3
  <2>6. ASSUME NEW k \in Keys
        PROVE  /\ LowerBoundFrom(root, k) = Least({m \in D : m >= k})
               /\ UpperBoundFrom(root, k) = Least({m \in D : m > k})
    <3> DEFINE A == {m \in D : ~(m < k)}
               B == {m \in D : k < m}
    <3>1. A \in SUBSET D /\ B \in SUBSET D
      OBVIOUS
    <3>2. /\ \A x \in A, y \in D : x < y => y \in A
          /\ \A x \in B, y \in D : x < y => y \in B
      BY <2>3
    <3>3. A = {m \in D : m >= k} /\ B = {m \in D : m > k}
      <4>1. \A m \in D : (~(m < k) <=> m >= k) /\ (k < m <=> m > k)
        BY <2>3
      <4>2. A = {m \in D : m >= k}
        BY <4>1
      <4>3. B = {m \in D : m > k}
        BY <4>1
      <4> QED BY <4>2, <4>3
    <3>4. LowerBoundFrom(root, k) = BoundFrom(root, A)
      BY <1>1 DEF LowerBoundFrom
    <3>5. UpperBoundFrom(root, k) = BoundFrom(root, B)
      BY <1>1 DEF UpperBoundFrom
    <3> HIDE DEF A, B
    <3>6. BoundFrom(root, A) = Least(A)
      BY <1>1, <2>2, <3>1, <3>2, BoundIs
    <3>7. BoundFrom(root, B) = Least(B)
      BY <1>1, <2>2, <3>1, <3>2, BoundIs
    <3> QED BY <3>3, <3>4, <3>5, <3>6, <3>7
  <2>7. \A k \in Keys : FindFrom(root, k) = IF k \in D THEN k ELSE Nil
    BY <1>1, <2>2, FindIs
  <2>8. TreeIterates
    BY <1>1, <2>4, <2>5 DEF TreeIterates
  <2>9. TreeLooksUp
    BY <1>1, <2>6, <2>7 DEF TreeLooksUp
  <2> QED BY <2>8, <2>9 DEF TreeNavigates
<1> QED BY <1>2, <1>3

\* However the tree came to be, begin() is its least key, ++ and -- go to the
\* next and the previous key, and find, lower_bound and upper_bound answer for
\* any key as they would on the set.
THEOREM TreeAnswers == TreeSpec => []TreeNavigates
<1>1. TreeSpec => []TreeInv
  BY AlwaysTreeInv
<1>2. TreeInv => TreeNavigates
  BY SoundNavigates
<1> QED BY <1>1, <1>2, PTL
=============================================================================
