---------------------------- MODULE BTreeLemmas ----------------------------
(***************************************************************************)
(* What the parts of the B-tree's operations do to a tree, for any set of  *)
(* keys and any number of elements in a node.                              *)
(*                                                                         *)
(* A tree is a Shape when its nodes can be given children, levels above    *)
(* the leaves and bounds that fit their rows.  Each way in which insert    *)
(* and delete change rows (an element comes or goes, a node is cut, two    *)
(* are merged, keys are exchanged) is a step from Shape to Shape, and so   *)
(* that the keys of the tree are known (KeysOf).  A descent is decided by  *)
(* the bounds: it ends where a key is or would be.                         *)
(***************************************************************************)
EXTENDS BTree, FiniteSetTheorems, NaturalsInduction, WellFoundedInduction, SequenceTheorems,
        TLAPS

-----------------------------------------------------------------------------
(* Induction over the naturals, over a set and not over a predicate: the   *)
(* form in which it can be cited.                                          *)

\* A set of naturals that is not empty has a least element.  It follows from
\* the library's theorem that < is well founded on Nat.
LEMMA LeastNat ==
    ASSUME NEW T \in SUBSET Nat, T # {}
    PROVE  \E m \in T : \A n \in T : m <= n
<1> DEFINE R == {ss \in Nat \X Nat : ss[1] < ss[2]}
<1>1. IsWellFoundedOn(R, Nat)
  BY NatLessThanWellFounded DEF OpToRel
<1>2. \A y, x \in Nat : y < x => <<y, x>> \in R
  OBVIOUS
<1> HIDE DEF R
<1>3. PICK x \in T : \A y \in T : ~(<<y, x>> \in R)
  BY <1>1, WFMin
<1>4. \A y \in T : ~(y < x)
  BY <1>2, <1>3
<1> QED BY <1>4

\* A set with 0 and with the successor of each of its numbers has them all.
LEMMA SetInduction ==
    ASSUME NEW T, 0 \in T, \A n \in Nat : n \in T => n + 1 \in T
    PROVE  Nat \subseteq T
<1> SUFFICES ASSUME Nat \ T # {} PROVE FALSE
  OBVIOUS
<1>1. PICK m \in Nat \ T : \A n \in Nat \ T : m <= n
  BY LeastNat
<1>2. m - 1 \in Nat /\ m - 1 \notin Nat \ T
  BY <1>1
<1> QED BY <1>1, <1>2

-----------------------------------------------------------------------------
(* Rows                                                                    *)

\* An element of a node, and the elements of one.
Element == [key : Nat, left : Nat, right : Nat]
Rows == Seq(Element)

\* What bounds the child before element i, or behind the last one.
LoAt(s, i, lo) == IF i = 1 THEN lo ELSE s[i - 1].key
HiAt(s, i, hi) == IF i > Len(s) THEN hi ELSE s[i].key

\* The keys rise and are between the bounds.
Ordered(s, lo, hi) ==
    /\ lo < hi
    /\ \A i \in 1 .. Len(s) : lo < s[i].key /\ s[i].key < hi
    /\ \A i, j \in 1 .. Len(s) : i < j => s[i].key < s[j].key

\* c gives the children: c[i] before element i, c[i + 1] behind it.
Links(s, c) == \A i \in 1 .. Len(s) : s[i].left = c[i] /\ s[i].right = c[i + 1]

\* c is l, an element, and r.
IsCut(c, m, l, r) ==
    /\ m \in 1 .. Len(c) /\ Len(l) = m - 1 /\ Len(r) = Len(c) - m
    /\ \A i \in 1 .. m - 1 : l[i] = c[i]
    /\ \A i \in 1 .. Len(c) - m : r[i] = c[m + i]

\* Elements of a row.
LEMMA RowFacts ==
    ASSUME NEW s \in Rows
    PROVE  /\ Len(s) \in Nat /\ DOMAIN s = 1 .. Len(s) /\ (s = <<>> <=> Len(s) = 0)
           /\ \A i \in 1 .. Len(s) : s[i] \in Element /\ s[i].key \in Nat
                                     /\ s[i].left \in Nat /\ s[i].right \in Nat
<1>1. Len(s) \in Nat /\ DOMAIN s = 1 .. Len(s) /\ s \in [1 .. Len(s) -> Element]
  BY DEF Rows
<1>2. s = <<>> <=> Len(s) = 0
  BY EmptySeq DEF Rows
<1> QED BY <1>1, <1>2 DEF Element

\* The bounds of the parts are those of the whole.
LEMMA CutBounds ==
    ASSUME NEW c \in Rows, NEW l \in Rows, NEW r \in Rows, NEW m \in Nat, IsCut(c, m, l, r),
           NEW lo \in Int, NEW hi \in Int
    PROVE  /\ \A j \in 1 .. m : /\ LoAt(l, j, lo) = LoAt(c, j, lo)
                                /\ HiAt(l, j, c[m].key) = HiAt(c, j, hi)
           /\ \A j \in 1 .. Len(r) + 1 : /\ LoAt(r, j, c[m].key) = LoAt(c, j + m, lo)
                                         /\ HiAt(r, j, hi) = HiAt(c, j + m, hi)
<1>1. Len(c) \in Nat /\ Len(l) \in Nat /\ Len(r) \in Nat /\ Len(l) = m - 1 /\ Len(r) = Len(c) - m
      /\ m \in 1 .. Len(c)
  BY RowFacts DEF IsCut
<1>2. ASSUME NEW j \in 1 .. m
      PROVE  /\ LoAt(l, j, lo) = LoAt(c, j, lo)
             /\ HiAt(l, j, c[m].key) = HiAt(c, j, hi)
  <2>1. CASE j < m
    BY <1>1, <2>1 DEF LoAt, HiAt, IsCut
  <2>2. CASE j = m
    <3>1. m = 1 \/ l[m - 1] = c[m - 1]
      BY <1>1 DEF IsCut
    <3> QED BY <1>1, <2>2, <3>1 DEF LoAt, HiAt
  <2> QED BY <1>1, <2>1, <2>2
<1>3. ASSUME NEW j \in 1 .. Len(r) + 1
      PROVE  /\ LoAt(r, j, c[m].key) = LoAt(c, j + m, lo)
             /\ HiAt(r, j, hi) = HiAt(c, j + m, hi)
  <2>1. LoAt(r, j, c[m].key) = LoAt(c, j + m, lo)
    <3>1. CASE j = 1
      BY <1>1, <3>1 DEF LoAt
    <3>2. CASE j > 1
      <4>1. j - 1 \in 1 .. Len(c) - m /\ m + (j - 1) = (j + m) - 1 /\ j + m # 1 /\ j # 1
        BY <1>1, <3>2
      <4>2. r[j - 1] = c[m + (j - 1)]
        BY <4>1 DEF IsCut
      <4> QED BY <4>1, <4>2 DEF LoAt
    <3> QED BY <1>1, <3>1, <3>2
  <2>2. HiAt(r, j, hi) = HiAt(c, j + m, hi)
    <3>1. CASE j > Len(r)
      BY <1>1, <3>1 DEF HiAt
    <3>2. CASE ~(j > Len(r))
      <4>1. j \in 1 .. Len(c) - m /\ m + j = j + m /\ ~(j + m > Len(c))
        BY <1>1, <3>2
      <4>2. r[j] = c[m + j]
        BY <4>1 DEF IsCut
      <4> QED BY <3>2, <4>1, <4>2 DEF HiAt
    <3> QED BY <3>1, <3>2
  <2> QED BY <2>1, <2>2
<1> QED BY <1>2, <1>3

\* The parts of an ordered row, and what they make.
LEMMA CutOrder ==
    ASSUME NEW c \in Rows, NEW l \in Rows, NEW r \in Rows, NEW m \in Nat, IsCut(c, m, l, r),
           NEW lo \in Int, NEW hi \in Int
    PROVE  Ordered(c, lo, hi) <=> /\ Ordered(l, lo, c[m].key) /\ Ordered(r, c[m].key, hi)
                                  /\ lo < c[m].key /\ c[m].key < hi
<1>1. /\ Len(c) \in Nat /\ Len(l) \in Nat /\ Len(r) \in Nat /\ Len(l) = m - 1 /\ Len(r) = Len(c) - m
      /\ m \in 1 .. Len(c)
      /\ \A i \in 1 .. Len(c) : c[i].key \in Nat
      /\ \A i \in 1 .. Len(l) : l[i].key \in Nat /\ l[i].key = c[i].key /\ i \in 1 .. Len(c) /\ i < m
      /\ \A i \in 1 .. Len(r) : r[i].key \in Nat /\ r[i].key = c[m + i].key /\ m + i \in 1 .. Len(c)
  <2>1. Len(c) \in Nat /\ Len(l) \in Nat /\ Len(r) \in Nat /\ Len(l) = m - 1 /\ Len(r) = Len(c) - m
        /\ m \in 1 .. Len(c)
    BY RowFacts DEF IsCut
  <2>2. \A i \in 1 .. Len(c) : c[i].key \in Nat
    BY RowFacts
  <2>3. \A i \in 1 .. Len(l) : i \in 1 .. m - 1 /\ i \in 1 .. Len(c) /\ i < m
    BY <2>1
  <2>4. \A i \in 1 .. Len(r) : i \in 1 .. Len(c) - m /\ m + i \in 1 .. Len(c)
    BY <2>1
  <2> QED BY <2>1, <2>2, <2>3, <2>4, RowFacts DEF IsCut
<1>2. ASSUME Ordered(c, lo, hi)
      PROVE  Ordered(l, lo, c[m].key) /\ Ordered(r, c[m].key, hi) /\ lo < c[m].key /\ c[m].key < hi
  <2>1. Ordered(l, lo, c[m].key)
    BY <1>1, <1>2 DEF Ordered
  <2>2. \A i \in 1 .. Len(r) : m < m + i
    BY <1>1
  <2>3. \A i \in 1 .. Len(r) : c[m].key < r[i].key /\ r[i].key < hi
    <3> TAKE i \in 1 .. Len(r)
    <3>1. r[i].key = c[m + i].key /\ m + i \in 1 .. Len(c) /\ m \in 1 .. Len(c) /\ m < m + i
      BY <1>1, <2>2
    <3>2. c[m].key < c[m + i].key /\ c[m + i].key < hi
      BY <3>1, <1>2 DEF Ordered
    <3> QED BY <3>1, <3>2
  <2>4. \A i, j \in 1 .. Len(r) : i < j => m + i < m + j
    BY <1>1
  <2>5. \A i, j \in 1 .. Len(r) : i < j => r[i].key < r[j].key
    <3> SUFFICES ASSUME NEW i \in 1 .. Len(r), NEW j \in 1 .. Len(r), i < j
                 PROVE  r[i].key < r[j].key
      OBVIOUS
    <3>1. r[i].key = c[m + i].key /\ m + i \in 1 .. Len(c) /\ r[j].key = c[m + j].key
          /\ m + j \in 1 .. Len(c) /\ m + i < m + j
      BY <1>1, <2>4
    <3>2. c[m + i].key < c[m + j].key
      BY <3>1, <1>2 DEF Ordered
    <3> QED BY <3>1, <3>2
  <2> QED BY <1>1, <1>2, <2>1, <2>3, <2>5 DEF Ordered
<1>3. ASSUME Ordered(l, lo, c[m].key), Ordered(r, c[m].key, hi), lo < c[m].key, c[m].key < hi
      PROVE  Ordered(c, lo, hi)
  <2>1. ASSUME NEW i \in 1 .. Len(c), i < m
        PROVE  i \in 1 .. Len(l) /\ lo < c[i].key /\ c[i].key < c[m].key
    <3>1. i \in 1 .. Len(l)
      BY <1>1, <2>1
    <3> QED BY <3>1, <1>1, <1>3 DEF Ordered
  <2>2. ASSUME NEW i \in 1 .. Len(c), m < i
        PROVE  i - m \in 1 .. Len(r) /\ r[i - m].key = c[i].key /\ c[m].key < c[i].key /\ c[i].key < hi
    <3>1. i - m \in 1 .. Len(r) /\ m + (i - m) = i
      BY <1>1, <2>2
    <3>2. r[i - m].key = c[i].key
      <4> DEFINE k == i - m
      <4>1. k \in 1 .. Len(r) /\ m + k = i
        BY <3>1
      <4> HIDE DEF k
      <4>2. r[k].key = c[m + k].key
        BY <1>1, <4>1
      <4>3. r[k].key = c[i].key
        BY <4>1, <4>2
      <4> QED BY <4>3 DEF k
    <3>3. c[m].key < r[i - m].key /\ r[i - m].key < hi
      BY <3>1, <1>3 DEF Ordered
    <3> QED BY <3>1, <3>2, <3>3
  <2>3. \A i \in 1 .. Len(c) : lo < c[i].key /\ c[i].key < hi
    <3> TAKE i \in 1 .. Len(c)
    <3>1. c[i].key \in Nat /\ c[m].key \in Nat /\ (i < m \/ i = m \/ m < i)
      BY <1>1
    <3>2. CASE i < m
      BY <2>1, <3>1, <3>2, <1>3
    <3>3. CASE m < i
      BY <2>2, <3>1, <3>3, <1>3
    <3>4. CASE i = m
      BY <1>3, <3>4
    <3> QED BY <3>1, <3>2, <3>3, <3>4
  <2>4. ASSUME NEW i \in 1 .. Len(c), NEW j \in 1 .. Len(c), i < j PROVE c[i].key < c[j].key
    <3>1. c[i].key \in Nat /\ c[m].key \in Nat /\ c[j].key \in Nat
      BY <1>1
    <3>2. CASE j < m
      <4>1. i \in 1 .. Len(l) /\ j \in 1 .. Len(l)
        BY <1>1, <2>4, <3>2
      <4> QED BY <4>1, <1>1, <1>3, <2>4 DEF Ordered
    <3>3. CASE m < i
      <4>1. i - m \in 1 .. Len(r) /\ j - m \in 1 .. Len(r) /\ i - m < j - m
        BY <1>1, <2>4, <3>3
      <4>2. r[i - m].key = c[i].key /\ r[j - m].key = c[j].key
        <5>1. m < j
          BY <1>1, <2>4, <3>3
        <5> QED BY <2>2, <3>3, <5>1
      <4> QED BY <4>1, <4>2, <1>3 DEF Ordered
    <3>4. CASE i <= m /\ m <= j
      <4>1. (i < m \/ i = m) /\ (m < j \/ m = j)
        BY <3>4, <1>1
      <4>2. i < m => c[i].key < c[m].key
        BY <2>1
      <4>3. m < j => c[m].key < c[j].key
        BY <2>2
      <4> QED BY <4>1, <4>2, <4>3, <3>1, <2>4, <1>1
    <3> QED BY <3>2, <3>3, <3>4, <1>1
  <2>5. lo < hi
    BY <1>1, <1>3
  <2> QED BY <2>3, <2>4, <2>5 DEF Ordered
<1> QED BY <1>2, <1>3

\* q is s with the key k at a.
KeyInserted(q, s, a, k) ==
    /\ q \in Rows /\ Len(q) = Len(s) + 1 /\ a \in 1 .. Len(q)
    /\ \A i \in 1 .. a - 1 : q[i].key = s[i].key
    /\ q[a].key = k
    /\ \A i \in a .. Len(s) : q[i + 1].key = s[i].key

\* The children with x and y instead of child a.
ChInserted(c, a, x, y) ==
    [j \in Nat |-> IF j < a THEN c[j] ELSE IF j = a THEN x ELSE IF j = a + 1 THEN y ELSE c[j - 1]]

\* q is s without element i.
KeyRemoved(q, s, i) ==
    /\ q \in Rows /\ Len(q) = Len(s) - 1 /\ i \in 1 .. Len(s)
    /\ \A j \in 1 .. i - 1 : q[j].key = s[j].key
    /\ \A j \in i .. Len(q) : q[j].key = s[j + 1].key

\* The children without child i + 1.
ChRemoved(c, i) == [j \in Nat |-> IF j <= i THEN c[j] ELSE c[j + 1]]

\* Position finds the first greater key, or the end.
LEMMA PositionFacts ==
    ASSUME NEW s \in Rows, NEW k \in Nat
    PROVE  /\ Position(s, k) \in 1 .. Len(s) + 1
           /\ \A i \in 1 .. Len(s) : i < Position(s, k) => ~(k < s[i].key)
           /\ Position(s, k) <= Len(s) => k < s[Position(s, k)].key
<1> DEFINE T == {i \in DOMAIN s : k < s[i].key} \cup {Len(s) + 1}
<1>1. Len(s) \in Nat /\ DOMAIN s = 1 .. Len(s)
  BY RowFacts
<1>2. T \in SUBSET Nat /\ T # {}
  BY <1>1
<1>3. \E m \in T : \A n \in T : m <= n
  <2> HIDE DEF T
  <2> QED BY <1>2, LeastNat
<1>4. Position(s, k) = Min(T)
  BY DEF Position
<1>5. Min(T) \in T /\ \A n \in T : Min(T) <= n
  <2> HIDE DEF T
  <2> QED BY <1>3 DEF Min
<1> DEFINE a == Min(T)
<1>6. a \in 1 .. Len(s) + 1 /\ (a <= Len(s) => k < s[a].key)
  <2>1. a \in T
    BY <1>5
  <2> HIDE DEF a
  <2>2. CASE a \in DOMAIN s /\ k < s[a].key
    BY <1>1, <2>2
  <2>3. CASE a = Len(s) + 1
    BY <1>1, <2>3
  <2> QED BY <2>1, <2>2, <2>3
<1>7. ASSUME NEW i \in 1 .. Len(s), i < a PROVE ~(k < s[i].key)
  <2> SUFFICES ASSUME k < s[i].key PROVE FALSE
    OBVIOUS
  <2>1. i \in T
    BY <1>1
  <2>2. a <= i
    BY <1>5, <2>1
  <2> HIDE DEF a
  <2> QED BY <1>1, <1>6, <1>7, <2>2
<1> HIDE DEF T
<1> QED BY <1>4, <1>6, <1>7

\* Element i of q, which is s with e at a: whose it is, and its children.
Inserts(q, s, a, e, i) ==
    /\ i < a - 1 => q[i].key = s[i].key /\ q[i].left = s[i].left /\ q[i].right = s[i].right
    /\ i = a - 1 => q[i].key = s[i].key /\ q[i].left = s[i].left /\ q[i].right = e.left
    /\ i = a => q[i].key = e.key /\ q[i].left = e.left /\ q[i].right = e.right
    /\ i = a + 1 => q[i].key = s[i - 1].key /\ q[i].left = e.right /\ q[i].right = s[i - 1].right
    /\ i > a + 1 => q[i].key = s[i - 1].key /\ q[i].left = s[i - 1].left
                    /\ q[i].right = s[i - 1].right

\* BTreeNode::Insert
LEMMA NodeInsertRow ==
    ASSUME NEW s \in Rows, NEW e \in Element
    PROVE  LET a == Position(s, e.key)
               q == NodeInsert(s, e)
           IN  /\ KeyInserted(q, s, a, e.key)
               /\ \A i \in 1 .. Len(s) + 1 : Inserts(q, s, a, e, i)
<1> DEFINE a == Position(s, e.key)
           more == InsertAt(s, a, e)
           q == NodeInsert(s, e)
           L == Len(s)
<1>1. /\ L \in Nat /\ s \in [1 .. L -> Element] /\ a \in 1 .. L + 1 /\ e.key \in Nat
      /\ \A i \in 1 .. L : s[i] \in Element
  <2>1. e.key \in Nat
    BY DEF Element
  <2>2. a \in 1 .. L + 1
    BY <2>1, PositionFacts
  <2> QED BY <2>1, <2>2, RowFacts DEF Rows
<1> HIDE DEF a
<1>2. /\ more \in Rows /\ Len(more) = L + 1
      /\ \A i \in 1 .. L + 1 : more[i] = IF i < a THEN s[i] ELSE IF i = a THEN e ELSE s[i - 1]
  <2> DEFINE f == SubSeq(s, 1, a - 1)
             g == SubSeq(s, a, L)
  <2>1. /\ f \in Rows /\ Len(f) = a - 1 /\ \A i \in 1 .. a - 1 : f[i] = s[i]
    BY <1>1 DEF Rows
  <2>2. /\ g \in Rows /\ Len(g) = L - a + 1 /\ \A i \in 1 .. L - a + 1 : g[i] = s[a + i - 1]
    BY <1>1 DEF Rows
  <2>3. more = f \o <<e>> \o g
    BY DEF InsertAt
  <2> HIDE DEF f, g
  <2> DEFINE h == f \o <<e>>
  <2>4. /\ h \in Rows /\ Len(h) = a /\ \A i \in 1 .. a - 1 : h[i] = s[i]
        /\ h[a] = e
    BY <1>1, <2>1 DEF Rows
  <2> HIDE DEF h
  <2>5. /\ h \o g \in Rows /\ Len(h \o g) = L + 1
        /\ \A i \in 1 .. L + 1 : (h \o g)[i] = IF i <= a THEN h[i] ELSE g[i - a]
    BY <1>1, <2>2, <2>4 DEF Rows
  <2>6. more = h \o g
    BY <2>3 DEF h
  <2> HIDE DEF more
  <2>7. ASSUME NEW i \in 1 .. L + 1
        PROVE  more[i] = IF i < a THEN s[i] ELSE IF i = a THEN e ELSE s[i - 1]
    <3>1. CASE i <= a
      BY <1>1, <2>4, <2>5, <2>6, <3>1
    <3>2. CASE i > a
      <4> DEFINE k == i - a
      <4>1. k \in 1 .. L - a + 1 /\ a + k - 1 = i - 1
        BY <1>1, <3>2
      <4> HIDE DEF k
      <4>3. g[k] = s[a + k - 1]
        BY <4>1, <2>2
      <4>4. g[k] = s[i - 1]
        BY <4>1, <4>3
      <4>2. g[i - a] = s[i - 1]
        BY <4>4 DEF k
      <4> QED BY <1>1, <2>5, <2>6, <3>2, <4>2
    <3> QED BY <1>1, <3>1, <3>2
  <2> QED BY <2>5, <2>6, <2>7
<1>3. q = [i \in DOMAIN more |->
            IF i = a - 1 THEN [more[i] EXCEPT !.right = e.left]
            ELSE IF i = a + 1 THEN [more[i] EXCEPT !.left = e.right]
            ELSE more[i]]
  BY DEF NodeInsert, a
<1>4. DOMAIN more = 1 .. L + 1
  BY <1>2, RowFacts
<1> HIDE DEF more, q
<1>5. \A i \in 1 .. L + 1 : more[i] \in Element
  BY <1>1, <1>2
<1>6. \A i \in 1 .. L + 1 : q[i] = IF i = a - 1 THEN [more[i] EXCEPT !.right = e.left]
                                   ELSE IF i = a + 1 THEN [more[i] EXCEPT !.left = e.right]
                                   ELSE more[i]
  BY <1>3, <1>4
<1>7. \A i \in 1 .. L + 1 : /\ q[i] \in Element
                            /\ q[i].key = more[i].key
                            /\ q[i].left = IF i = a + 1 THEN e.right ELSE more[i].left
                            /\ q[i].right = IF i = a - 1 THEN e.left ELSE more[i].right
  <2> TAKE i \in 1 .. L + 1
  <2>1. more[i] \in Element /\ e.left \in Nat /\ e.right \in Nat
    BY <1>5 DEF Element
  <2>2. \A x \in Nat : /\ [more[i] EXCEPT !.right = x] \in Element
                      /\ [more[i] EXCEPT !.right = x].key = more[i].key
                      /\ [more[i] EXCEPT !.right = x].left = more[i].left
                      /\ [more[i] EXCEPT !.right = x].right = x
                      /\ [more[i] EXCEPT !.left = x] \in Element
                      /\ [more[i] EXCEPT !.left = x].key = more[i].key
                      /\ [more[i] EXCEPT !.left = x].left = x
                      /\ [more[i] EXCEPT !.left = x].right = more[i].right
    BY <2>1 DEF Element
  <2>3. CASE i = a - 1
    <3>2. ~(i = a + 1)
      BY <1>1, <2>3
    <3>1. ~(i = a + 1) /\ q[i] = [more[i] EXCEPT !.right = e.left]
      BY <3>2, <1>6, <2>3, Zenon
    <3>3. /\ q[i] \in Element /\ q[i].key = more[i].key
          /\ q[i].left = more[i].left /\ q[i].right = e.left
      BY <2>1, <2>2, <3>1, ZenonT(60)
    <3> QED BY <2>3, <3>2, <3>3
  <2>4. CASE i = a + 1
    <3>2. ~(i = a - 1)
      BY <1>1, <2>4
    <3>1. ~(i = a - 1) /\ q[i] = [more[i] EXCEPT !.left = e.right]
      BY <3>2, <1>6, <2>4, Zenon
    <3> QED BY <2>1, <2>2, <2>4, <3>1
  <2>5. CASE i # a - 1 /\ i # a + 1
    BY <1>6, <2>1, <2>5
  <2> QED BY <2>3, <2>4, <2>5
<1>8. q \in Rows /\ Len(q) = L + 1
  <2>1. q \in [1 .. L + 1 -> Element]
    BY <1>3, <1>4, <1>7
  <2> QED BY <2>1, <1>1 DEF Rows
<1>9. ASSUME NEW i \in 1 .. L + 1
      PROVE  /\ i < a - 1 => q[i].key = s[i].key /\ q[i].left = s[i].left /\ q[i].right = s[i].right
             /\ i = a - 1 => q[i].key = s[i].key /\ q[i].left = s[i].left /\ q[i].right = e.left
             /\ i = a => q[i].key = e.key /\ q[i].left = e.left /\ q[i].right = e.right
             /\ i = a + 1 => q[i].key = s[i - 1].key /\ q[i].left = e.right /\ q[i].right = s[i - 1].right
             /\ i > a + 1 => q[i].key = s[i - 1].key /\ q[i].left = s[i - 1].left
                             /\ q[i].right = s[i - 1].right
  BY <1>1, <1>2, <1>7
<1>10. /\ \A i \in 1 .. a - 1 : q[i].key = s[i].key
       /\ q[a].key = e.key
       /\ \A i \in a .. L : q[i + 1].key = s[i].key
  <2>1. ASSUME NEW i \in 1 .. a - 1 PROVE q[i].key = s[i].key
    BY <1>1, <1>9
  <2>2. q[a].key = e.key
    BY <1>1, <1>9
  <2>3. ASSUME NEW i \in a .. L PROVE q[i + 1].key = s[i].key
    <3>1. i + 1 \in 1 .. L + 1 /\ (i + 1) - 1 = i /\ (i + 1 = a + 1 \/ i + 1 > a + 1)
      BY <1>1
    <3> QED BY <1>9, <3>1
  <2> QED BY <2>1, <2>2, <2>3
<1>11. KeyInserted(q, s, a, e.key)
  BY <1>1, <1>8, <1>10 DEF KeyInserted
<1>12. \A i \in 1 .. L + 1 : Inserts(q, s, a, e, i)
  BY <1>9 DEF Inserts
<1> QED BY <1>11, <1>12 DEF a, q

\* BTreeNode::Insert adds the key at its position in the row, and the children
\* that the element brings at that gap.
LEMMA NodeInsertFacts ==
    ASSUME NEW s \in Rows, NEW c, Links(s, c), NEW e \in Element
    PROVE  LET a == Position(s, e.key)
           IN  /\ KeyInserted(NodeInsert(s, e), s, a, e.key)
               /\ Links(NodeInsert(s, e), ChInserted(c, a, e.left, e.right))
<1> DEFINE a == Position(s, e.key)
           q == NodeInsert(s, e)
           L == Len(s)
<1>1. L \in Nat /\ a \in 1 .. L + 1 /\ e.key \in Nat
  <2>1. e.key \in Nat
    BY DEF Element
  <2> QED BY <2>1, PositionFacts, RowFacts
<1>2. KeyInserted(q, s, a, e.key) /\ \A i \in 1 .. L + 1 : Inserts(q, s, a, e, i)
  BY NodeInsertRow
<1> HIDE DEF a, q
<1>8. Len(q) = L + 1
  BY <1>2 DEF KeyInserted
<1>9. ASSUME NEW i \in 1 .. L + 1
      PROVE  /\ i < a - 1 => q[i].key = s[i].key /\ q[i].left = s[i].left /\ q[i].right = s[i].right
             /\ i = a - 1 => q[i].key = s[i].key /\ q[i].left = s[i].left /\ q[i].right = e.left
             /\ i = a => q[i].key = e.key /\ q[i].left = e.left /\ q[i].right = e.right
             /\ i = a + 1 => q[i].key = s[i - 1].key /\ q[i].left = e.right /\ q[i].right = s[i - 1].right
             /\ i > a + 1 => q[i].key = s[i - 1].key /\ q[i].left = s[i - 1].left
                             /\ q[i].right = s[i - 1].right
  BY <1>2 DEF Inserts
<1>11. KeyInserted(q, s, a, e.key)
  BY <1>2
<1> DEFINE d == ChInserted(c, a, e.left, e.right)
<1>12. \A j \in Nat : /\ j < a => d[j] = c[j]
                      /\ j = a => d[j] = e.left
                      /\ j = a + 1 => d[j] = e.right
                      /\ j > a + 1 => d[j] = c[j - 1]
  BY <1>1 DEF ChInserted
<1> HIDE DEF d
<1>13. ASSUME NEW i \in 1 .. L + 1 PROVE q[i].left = d[i] /\ q[i].right = d[i + 1]
  <2>0. i \in Nat /\ i + 1 \in Nat
    BY <1>1
  <2>1. CASE i < a
    <3>1. i \in 1 .. L /\ i + 1 <= a
      BY <1>1, <2>1
    <3>2. s[i].left = c[i] /\ s[i].right = c[i + 1]
      BY <3>1 DEF Links
    <3>3. CASE i < a - 1
      BY <1>1, <1>9, <1>12, <2>0, <2>1, <3>2, <3>3
    <3>4. CASE i = a - 1
      BY <1>1, <1>9, <1>12, <2>0, <2>1, <3>2, <3>4
    <3> QED BY <1>1, <2>1, <3>3, <3>4
  <2>2. CASE i = a
    BY <1>1, <1>9, <1>12, <2>0, <2>2
  <2>3. CASE i > a
    <3>1. i - 1 \in 1 .. L /\ (i - 1) + 1 = i /\ (i + 1) - 1 = i /\ i + 1 > a + 1
      BY <1>1, <2>3
    <3>2. s[i - 1].left = c[i - 1] /\ s[i - 1].right = c[i]
      BY <3>1 DEF Links
    <3>3. d[i + 1] = c[i]
      BY <1>12, <2>0, <3>1
    <3>4. q[i].right = s[i - 1].right
      BY <1>1, <1>9, <2>3
    <3>5. CASE i = a + 1
      BY <1>9, <1>12, <2>0, <3>2, <3>3, <3>4, <3>5
    <3>6. CASE i > a + 1
      BY <1>9, <1>12, <2>0, <3>2, <3>3, <3>4, <3>6
    <3> QED BY <1>1, <2>3, <3>5, <3>6
  <2> QED BY <1>1, <2>1, <2>2, <2>3
<1>14. Links(q, d)
  BY <1>8, <1>13 DEF Links
<1> QED BY <1>11, <1>14 DEF a, q, d

\* RemoveAt of a row.
LEMMA RemoveAtFacts ==
    ASSUME NEW s \in Rows, NEW i \in 1 .. Len(s)
    PROVE  /\ RemoveAt(s, i) \in Rows /\ Len(RemoveAt(s, i)) = Len(s) - 1
           /\ \A j \in 1 .. Len(s) - 1 : RemoveAt(s, i)[j] = IF j < i THEN s[j] ELSE s[j + 1]
<1> DEFINE f == SubSeq(s, 1, i - 1)
           g == SubSeq(s, i + 1, Len(s))
<1>0. Len(s) \in Nat
  BY RowFacts
<1>1. /\ f \in Rows /\ Len(f) = i - 1 /\ \A j \in 1 .. i - 1 : f[j] = s[j]
  BY <1>0 DEF Rows
<1>2. /\ g \in Rows /\ Len(g) = Len(s) - i /\ \A j \in 1 .. Len(s) - i : g[j] = s[i + j]
  BY <1>0 DEF Rows
<1>3. RemoveAt(s, i) = f \o g
  BY DEF RemoveAt
<1> HIDE DEF f, g
<1>4. /\ f \o g \in Rows /\ Len(f \o g) = Len(s) - 1
      /\ \A j \in 1 .. Len(s) - 1 : (f \o g)[j] = IF j < i THEN f[j] ELSE g[j - (i - 1)]
  <2>1. /\ f \o g \in Rows /\ Len(f \o g) = Len(f) + Len(g)
        /\ \A j \in 1 .. Len(f) + Len(g) : (f \o g)[j] = IF j <= Len(f) THEN f[j] ELSE g[j - Len(f)]
    <3>1. f \in Seq(Element) /\ g \in Seq(Element)
      BY <1>1, <1>2 DEF Rows
    <3> QED BY <3>1, ConcatProperties DEF Rows
  <2>2. Len(f) + Len(g) = Len(s) - 1 /\ Len(f) = i - 1
    BY <1>0, <1>1, <1>2
  <2>3. \A j \in 1 .. Len(s) - 1 : j <= i - 1 <=> j < i
    BY <1>0
  <2> QED BY <2>1, <2>2, <2>3
<1>5. ASSUME NEW j \in 1 .. Len(s) - 1, ~(j < i) PROVE g[j - (i - 1)] = s[j + 1]
  <2>1. j - (i - 1) \in 1 .. Len(s) - i /\ i + (j - (i - 1)) = j + 1
    BY <1>0, <1>5
  <2> QED BY <1>2, <2>1
<1>6. ASSUME NEW j \in 1 .. Len(s) - 1, j < i PROVE f[j] = s[j]
  BY <1>0, <1>1, <1>6
<1> QED BY <1>3, <1>4, <1>5, <1>6

\* What a merge leaves of the row of the parent.
LEMMA ParentRow ==
    ASSUME NEW s \in Rows, NEW c, Links(s, c), NEW i \in 1 .. Len(s)
    PROVE  LET rest == RemoveAt(s, i)
               q == IF i > Len(rest) THEN rest ELSE [rest EXCEPT ![i].left = s[i].left]
           IN  KeyRemoved(q, s, i) /\ Links(q, ChRemoved(c, i))
<1> DEFINE rest == RemoveAt(s, i)
           q == IF i > Len(rest) THEN rest ELSE [rest EXCEPT ![i].left = s[i].left]
           L == Len(s)
<1>1. /\ L \in Nat /\ \A j \in 1 .. L : s[j] \in Element
      /\ rest \in Rows /\ Len(rest) = L - 1
      /\ \A j \in 1 .. L - 1 : rest[j] = IF j < i THEN s[j] ELSE s[j + 1]
  BY RowFacts, RemoveAtFacts
<1>2. /\ q \in Rows /\ Len(q) = L - 1
      /\ \A j \in 1 .. L - 1 : /\ q[j].key = rest[j].key
                               /\ q[j].right = rest[j].right
                               /\ q[j].left = IF j = i THEN s[i].left ELSE rest[j].left
  <2> HIDE DEF rest
  <2>1. s[i].left \in Nat
    BY RowFacts
  <2>2. CASE i > Len(rest)
    BY <1>1, <2>2
  <2>3. CASE ~(i > Len(rest))
    <3>1. q = [rest EXCEPT ![i].left = s[i].left] /\ rest \in [1 .. L - 1 -> Element]
      BY <1>1, <2>3 DEF Rows
    <3>2. i \in 1 .. L - 1
      BY <1>1, <2>3
    <3> HIDE DEF q
    <3>3. q \in [1 .. L - 1 -> Element]
      BY <2>1, <3>1, <3>2 DEF Element
    <3>4. \A j \in 1 .. L - 1 : /\ q[j].key = rest[j].key
                               /\ q[j].right = rest[j].right
                               /\ q[j].left = IF j = i THEN s[i].left ELSE rest[j].left
      BY <2>1, <3>1, <3>2 DEF Element
    <3>5. q \in Rows /\ Len(q) = L - 1
      BY <1>1, <3>3, SMTT(30) DEF Rows
    <3> QED BY <3>4, <3>5
  <2> QED BY <2>2, <2>3
<1> HIDE DEF q, rest
<1>3. ASSUME NEW j \in 1 .. L - 1
      PROVE  /\ j < i => q[j].key = s[j].key /\ q[j].left = s[j].left /\ q[j].right = s[j].right
             /\ j >= i => q[j].key = s[j + 1].key /\ q[j].right = s[j + 1].right
             /\ j = i => q[j].left = s[i].left
             /\ j > i => q[j].left = s[j + 1].left
  BY <1>1, <1>2
<1>4. KeyRemoved(q, s, i)
  <2>1. ASSUME NEW j \in 1 .. i - 1 PROVE q[j].key = s[j].key
    <3>1. j \in 1 .. L - 1 /\ j < i
      BY <1>1
    <3> QED BY <1>3, <3>1
  <2>2. ASSUME NEW j \in i .. Len(q) PROVE q[j].key = s[j + 1].key
    <3>1. j \in 1 .. L - 1 /\ j >= i
      BY <1>1, <1>2
    <3> QED BY <1>3, <3>1
  <2> QED BY <1>1, <1>2, <2>1, <2>2 DEF KeyRemoved
<1> DEFINE d == ChRemoved(c, i)
<1>5. \A j \in Nat : (j <= i => d[j] = c[j]) /\ (j > i => d[j] = c[j + 1])
  BY DEF ChRemoved
<1> HIDE DEF d
<1>6. ASSUME NEW j \in 1 .. L - 1 PROVE q[j].left = d[j] /\ q[j].right = d[j + 1]
  <2>0. j \in Nat /\ j + 1 \in Nat /\ j \in 1 .. L /\ j + 1 \in 1 .. L
    BY <1>1
  <2>1. s[j].left = c[j] /\ s[j].right = c[j + 1] /\ s[j + 1].left = c[j + 1]
        /\ s[j + 1].right = c[j + 1 + 1]
    BY <2>0 DEF Links
  <2>2. CASE j < i
    BY <1>1, <1>3, <1>5, <2>0, <2>1, <2>2
  <2>3. CASE j = i
    BY <1>1, <1>3, <1>5, <2>0, <2>1, <2>3
  <2>4. CASE j > i
    BY <1>1, <1>3, <1>5, <2>0, <2>1, <2>4
  <2> QED BY <1>1, <2>2, <2>3, <2>4
<1>7. Links(q, d)
  BY <1>2, <1>6 DEF Links
<1> QED BY <1>4, <1>7 DEF q, rest, d

-----------------------------------------------------------------------------
(* Trees                                                                   *)

\* Bounds of gaps.
LEMMA Gaps ==
    ASSUME NEW s \in Rows, NEW lo \in Int, NEW hi \in Int, Ordered(s, lo, hi),
           NEW j \in 1 .. Len(s) + 1
    PROVE  /\ LoAt(s, j, lo) \in Int /\ HiAt(s, j, hi) \in Int
           /\ lo <= LoAt(s, j, lo) /\ HiAt(s, j, hi) <= hi /\ LoAt(s, j, lo) < HiAt(s, j, hi)
           /\ \A i \in 1 .. Len(s) : i < j => s[i].key <= LoAt(s, j, lo)
           /\ \A i \in 1 .. Len(s) : i >= j => HiAt(s, j, hi) <= s[i].key
<1>1. /\ Len(s) \in Nat /\ \A i \in 1 .. Len(s) : s[i].key \in Nat
  BY RowFacts
<1>2. LoAt(s, j, lo) \in Int /\ lo <= LoAt(s, j, lo)
  <2>1. CASE j = 1
    BY <2>1 DEF LoAt
  <2>2. CASE j # 1
    <3>1. j - 1 \in 1 .. Len(s)
      BY <1>1, <2>2
    <3> QED BY <1>1, <2>2, <3>1 DEF LoAt, Ordered
  <2> QED BY <2>1, <2>2
<1>3. HiAt(s, j, hi) \in Int /\ HiAt(s, j, hi) <= hi
  <2>1. CASE j > Len(s)
    BY <2>1 DEF HiAt
  <2>2. CASE ~(j > Len(s))
    <3>1. j \in 1 .. Len(s)
      BY <1>1, <2>2
    <3> QED BY <1>1, <2>2, <3>1 DEF HiAt, Ordered
  <2> QED BY <2>1, <2>2
<1>4. ASSUME NEW i \in 1 .. Len(s), i < j PROVE s[i].key <= LoAt(s, j, lo)
  <2>1. j # 1 /\ j - 1 \in 1 .. Len(s) /\ (i = j - 1 \/ i < j - 1)
    BY <1>1, <1>4
  <2>2. s[i].key <= s[j - 1].key
    BY <1>1, <2>1 DEF Ordered
  <2> QED BY <2>1, <2>2 DEF LoAt
<1>5. ASSUME NEW i \in 1 .. Len(s), i >= j PROVE HiAt(s, j, hi) <= s[i].key
  <2>1. ~(j > Len(s)) /\ j \in 1 .. Len(s) /\ (i = j \/ j < i)
    BY <1>1, <1>5
  <2>2. s[j].key <= s[i].key
    BY <1>1, <2>1 DEF Ordered
  <2> QED BY <2>1, <2>2 DEF HiAt
<1>6. LoAt(s, j, lo) < HiAt(s, j, hi)
  <2>1. CASE j > Len(s)
    <3>1. j = 1 \/ (j # 1 /\ j - 1 \in 1 .. Len(s))
      BY <1>1
    <3> QED BY <2>1, <3>1 DEF LoAt, HiAt, Ordered
  <2>2. CASE ~(j > Len(s))
    <3>1. j \in 1 .. Len(s) /\ (j = 1 \/ (j # 1 /\ j - 1 \in 1 .. Len(s) /\ j - 1 < j))
      BY <1>1, <2>2
    <3> QED BY <2>2, <3>1 DEF LoAt, HiAt, Ordered
  <2> QED BY <2>1, <2>2
<1> QED BY <1>2, <1>3, <1>4, <1>5, <1>6

\* One gap after another.
LEMMA TwoGaps ==
    ASSUME NEW s \in Rows, NEW lo \in Int, NEW hi \in Int, Ordered(s, lo, hi),
           NEW j \in 1 .. Len(s) + 1, NEW k \in 1 .. Len(s) + 1, j < k
    PROVE  LoAt(s, j, lo) < LoAt(s, k, lo) /\ HiAt(s, j, hi) <= LoAt(s, k, lo)
<1>1. /\ Len(s) \in Nat /\ \A i \in 1 .. Len(s) : s[i].key \in Nat
  BY RowFacts
<1>2. j \in 1 .. Len(s) /\ k # 1 /\ ~(j > Len(s)) /\ k - 1 \in 1 .. Len(s)
  BY <1>1
<1>3. HiAt(s, j, hi) = s[j].key /\ LoAt(s, k, lo) = s[k - 1].key
  BY <1>2 DEF HiAt, LoAt
<1>4. s[j].key <= s[k - 1].key
  <2>1. j = k - 1 \/ j < k - 1
    BY <1>1
  <2> QED BY <1>1, <1>2, <2>1 DEF Ordered
<1>5. LoAt(s, j, lo) \in Int /\ LoAt(s, j, lo) < s[j].key
  <2>1. CASE j = 1
    BY <1>1, <1>2, <2>1 DEF LoAt, Ordered
  <2>2. CASE j # 1
    <3>1. j - 1 \in 1 .. Len(s) /\ j - 1 < j
      BY <1>1, <2>2
    <3> QED BY <1>1, <1>2, <2>2, <3>1 DEF LoAt, Ordered
  <2> QED BY <2>1, <2>2
<1> QED BY <1>1, <1>2, <1>3, <1>4, <1>5

\* Functions that agree on a set.
Agree(T, f, g) == \A x \in T : f[x] = g[x]

\* A tree of nodes T, among the allocated nodes D, with rows and parents.
\* Node n has level lv[n], 0 for a leaf, keys between lo[n] and hi[n], and the
\* children ch[n].  An inner node may be out of elements: it has one child.
BTyped(D, row, par, root, T, ch, lv, lo, hi) ==
    /\ D \in SUBSET (Nat \ {0}) /\ IsFiniteSet(D)
    /\ row \in [D -> Rows] /\ par \in [D -> Nat]
    /\ T \in SUBSET D /\ root \in T
    /\ ch \in [T -> [Nat -> Nat]] /\ lv \in [T -> Nat] /\ lo \in [T -> Int] /\ hi \in [T -> Int]

\* c is a node of the tree, the child of n at gap j, with the bounds of the gap.
HangsAt(row, par, root, T, lv, lo, hi, n, j, c) ==
    /\ c \in T /\ c # root /\ par[c] = n /\ lv[c] + 1 = lv[n]
    /\ lo[c] = LoAt(row[n], j, lo[n]) /\ hi[c] = HiAt(row[n], j, hi[n])

\* The row of n is in order within its bounds and its links are its children: none
\* in a leaf, a node at every gap of an inner one.
NodeFits(row, par, root, T, ch, lv, lo, hi, n) ==
    /\ Ordered(row[n], lo[n], hi[n]) /\ Links(row[n], ch[n])
    /\ lv[n] = 0 => \A j \in Nat : ch[n][j] = 0
    /\ lv[n] > 0 => \A j \in 1 .. Len(row[n]) + 1 :
                        HangsAt(row, par, root, T, lv, lo, hi, n, j, ch[n][j])

\* n, which is not the root, is a child of its parent.
Hangs(row, par, root, T, ch, lv, n) ==
    /\ par[n] \in T /\ lv[n] < lv[root] /\ lv[par[n]] > 0
    /\ \E j \in 1 .. Len(row[par[n]]) + 1 : ch[par[n]][j] = n

\* The tree.  Of the allocated nodes D, with their rows and parents, T are those
\* of the tree; every other one is empty.  Each has its children ch, its level lv
\* above the leaves, and the bounds lo and hi between which its keys are.
Shape(D, row, par, root, top, T, ch, lv, lo, hi) ==
    /\ BTyped(D, row, par, root, T, ch, lv, lo, hi)
    /\ \A n \in D \ T : row[n] = <<>>
    /\ \A n \in T : NodeFits(row, par, root, T, ch, lv, lo, hi, n)
    /\ \A n \in T \ {root} : Hangs(row, par, root, T, ch, lv, n)
    /\ lo[root] = -1 /\ hi[root] = top /\ (par[root] = 0 \/ par[root] \in D \ T)

\* The types.
LEMMA ShapeTypes ==
    ASSUME NEW D, NEW row, NEW par, NEW root, NEW top, NEW T, NEW ch, NEW lv, NEW lo, NEW hi,
           Shape(D, row, par, root, top, T, ch, lv, lo, hi)
    PROVE  /\ D \in SUBSET (Nat \ {0}) /\ IsFiniteSet(D) /\ T \in SUBSET D /\ root \in T /\ 0 \notin D
           /\ \A n \in D : /\ n \in Nat /\ n # 0 /\ row[n] \in Rows /\ par[n] \in Nat
                           /\ Len(row[n]) \in Nat
           /\ \A n \in T : /\ n \in D /\ lv[n] \in Nat /\ lo[n] \in Int /\ hi[n] \in Int
                           /\ ch[n] \in [Nat -> Nat]
<1>1. BTyped(D, row, par, root, T, ch, lv, lo, hi)
  BY DEF Shape
<1>2. \A s \in Rows : Len(s) \in Nat
  BY RowFacts
<1> QED BY <1>1, <1>2 DEF BTyped

\* A child of an inner node.
LEMMA ChildHangs ==
    ASSUME NEW D, NEW row, NEW par, NEW root, NEW top, NEW T, NEW ch, NEW lv, NEW lo, NEW hi,
           Shape(D, row, par, root, top, T, ch, lv, lo, hi),
           NEW n \in T, lv[n] > 0, NEW j \in 1 .. Len(row[n]) + 1
    PROVE  HangsAt(row, par, root, T, lv, lo, hi, n, j, ch[n][j])
<1>1. NodeFits(row, par, root, T, ch, lv, lo, hi, n)
  BY DEF Shape
<1> QED BY <1>1 DEF NodeFits

\* The place of a node below its parent.
LEMMA NodeHangs ==
    ASSUME NEW D, NEW row, NEW par, NEW root, NEW top, NEW T, NEW ch, NEW lv, NEW lo, NEW hi,
           Shape(D, row, par, root, top, T, ch, lv, lo, hi), NEW n \in T, n # root
    PROVE  /\ par[n] \in T /\ lv[par[n]] = lv[n] + 1 /\ lv[n] < lv[root]
           /\ \E j \in 1 .. Len(row[par[n]]) + 1 :
                /\ ch[par[n]][j] = n
                /\ HangsAt(row, par, root, T, lv, lo, hi, par[n], j, n)
<1>1. Hangs(row, par, root, T, ch, lv, n)
  BY DEF Shape
<1>2. PICK j \in 1 .. Len(row[par[n]]) + 1 : ch[par[n]][j] = n
  BY <1>1 DEF Hangs
<1>3. par[n] \in T /\ lv[par[n]] > 0 /\ lv[n] < lv[root]
  BY <1>1 DEF Hangs
<1>4. HangsAt(row, par, root, T, lv, lo, hi, par[n], j, n)
  BY <1>2, <1>3, ChildHangs
<1>5. lv[n] + 1 = lv[par[n]]
  BY <1>4 DEF HangsAt
<1> QED BY <1>2, <1>3, <1>4, <1>5

\* Two gaps of a node have two children.
LEMMA GapsDiffer ==
    ASSUME NEW D, NEW row, NEW par, NEW root, NEW top, NEW T, NEW ch, NEW lv, NEW lo, NEW hi,
           Shape(D, row, par, root, top, T, ch, lv, lo, hi), NEW n \in T, lv[n] > 0,
           NEW j \in 1 .. Len(row[n]) + 1, NEW k \in 1 .. Len(row[n]) + 1,
           ch[n][j] = ch[n][k]
    PROVE  j = k
<1>1. /\ row[n] \in Rows /\ Len(row[n]) \in Nat /\ lo[n] \in Int /\ hi[n] \in Int
      /\ Ordered(row[n], lo[n], hi[n])
  BY ShapeTypes DEF Shape, NodeFits
<1>2. LoAt(row[n], j, lo[n]) = LoAt(row[n], k, lo[n])
  <2>1. HangsAt(row, par, root, T, lv, lo, hi, n, j, ch[n][j])
    BY ChildHangs
  <2>2. HangsAt(row, par, root, T, lv, lo, hi, n, k, ch[n][k])
    BY ChildHangs
  <2> QED BY <2>1, <2>2 DEF HangsAt
<1>3. ~(j < k) /\ ~(k < j)
  <2>1. LoAt(row[n], j, lo[n]) \in Int
    BY <1>1, Gaps
  <2>2. ASSUME j < k PROVE FALSE
    <3>1. LoAt(row[n], j, lo[n]) < LoAt(row[n], k, lo[n])
      BY <1>1, <2>2, TwoGaps
    <3> QED BY <1>2, <2>1, <3>1
  <2>3. ASSUME k < j PROVE FALSE
    <3>1. LoAt(row[n], k, lo[n]) < LoAt(row[n], j, lo[n])
      BY <1>1, <2>3, TwoGaps
    <3> QED BY <1>2, <2>1, <3>1
  <2> QED BY <2>2, <2>3
<1> QED BY <1>1, <1>3

-----------------------------------------------------------------------------
(* Intervals                                                               *)

\* z is not inside the interval.
Outside(z, a, b) == z <= a \/ b <= z

\* Keys and bounds of a node m that is not below y.
ApartFrom(row, lv, lo, hi, y, m) ==
    /\ \A i \in 1 .. Len(row[m]) : Outside(row[m][i].key, lo[y], hi[y])
    /\ Outside(lo[m], lo[y], hi[y]) /\ Outside(hi[m], lo[y], hi[y])
    /\ lv[y] = lv[m] => hi[y] <= lo[m] \/ hi[m] <= lo[y]

\* What is outside an interval is outside what is inside.
LEMMA OutsideInner ==
    ASSUME NEW z \in Int, NEW a \in Int, NEW b \in Int, NEW c \in Int, NEW d \in Int,
           Outside(z, a, b), a <= c, d <= b
    PROVE  Outside(z, c, d)
BY DEF Outside

\* Rows and bounds of the nodes.
LEMMA NodeTypes ==
    ASSUME NEW D, NEW row, NEW par, NEW root, NEW top, NEW T, NEW ch, NEW lv, NEW lo, NEW hi,
           Shape(D, row, par, root, top, T, ch, lv, lo, hi)
    PROVE  /\ T \in SUBSET D /\ root \in T
           /\ \A n \in T : /\ lv[n] \in Nat /\ lo[n] \in Int /\ hi[n] \in Int /\ row[n] \in Rows
                           /\ Len(row[n]) \in Nat /\ Ordered(row[n], lo[n], hi[n]) /\ lo[n] < hi[n]
                           /\ \A i \in 1 .. Len(row[n]) : row[n][i].key \in Nat
           /\ \A n \in T : n # root => lv[n] < lv[root]
           /\ \A n \in T : lv[n] <= lv[root]
<1>1. \A n \in T : n # root => lv[n] < lv[root]
  BY DEF Shape, Hangs
<1>2. /\ T \in SUBSET D /\ root \in T
      /\ \A n \in T : /\ lv[n] \in Nat /\ lo[n] \in Int /\ hi[n] \in Int /\ row[n] \in Rows
                      /\ Len(row[n]) \in Nat
                      /\ \A i \in 1 .. Len(row[n]) : row[n][i].key \in Nat
  BY ShapeTypes, RowFacts
<1>3. \A n \in T : Ordered(row[n], lo[n], hi[n])
  BY DEF Shape, NodeFits
<1>4. \A n \in T : lo[n] < hi[n]
  BY <1>3 DEF Ordered
<1> QED BY <1>1, <1>2, <1>3, <1>4

\* The interval of a node is inside that of its parent, between keys of it.
LEMMA Inside ==
    ASSUME NEW D, NEW row, NEW par, NEW root, NEW top, NEW T, NEW ch, NEW lv, NEW lo, NEW hi,
           Shape(D, row, par, root, top, T, ch, lv, lo, hi), NEW y \in T, y # root
    PROVE  /\ par[y] \in T /\ lv[par[y]] = lv[y] + 1
           /\ lo[par[y]] <= lo[y] /\ hi[y] <= hi[par[y]]
           /\ \A i \in 1 .. Len(row[par[y]]) : Outside(row[par[y]][i].key, lo[y], hi[y])
<1>1. PICK p \in T : p = par[y] /\ lv[p] = lv[y] + 1
  BY NodeHangs
<1>2. PICK j \in 1 .. Len(row[p]) + 1 : HangsAt(row, par, root, T, lv, lo, hi, p, j, y)
  BY <1>1, NodeHangs
<1>3. lo[y] = LoAt(row[p], j, lo[p]) /\ hi[y] = HiAt(row[p], j, hi[p])
  BY <1>2 DEF HangsAt
<1>4. /\ row[p] \in Rows /\ lo[p] \in Int /\ hi[p] \in Int /\ Ordered(row[p], lo[p], hi[p])
      /\ Len(row[p]) \in Nat
  BY NodeTypes
<1>5. /\ lo[p] <= LoAt(row[p], j, lo[p]) /\ HiAt(row[p], j, hi[p]) <= hi[p]
      /\ \A i \in 1 .. Len(row[p]) : i < j => row[p][i].key <= LoAt(row[p], j, lo[p])
      /\ \A i \in 1 .. Len(row[p]) : i >= j => HiAt(row[p], j, hi[p]) <= row[p][i].key
  BY <1>4, Gaps
<1>6. ASSUME NEW i \in 1 .. Len(row[p]) PROVE Outside(row[p][i].key, lo[y], hi[y])
  <2>1. i < j \/ i >= j
    BY <1>4
  <2> QED BY <1>3, <1>5, <2>1 DEF Outside
<1> QED BY <1>1, <1>3, <1>5, <1>6

\* Siblings are apart.
LEMMA Siblings ==
    ASSUME NEW D, NEW row, NEW par, NEW root, NEW top, NEW T, NEW ch, NEW lv, NEW lo, NEW hi,
           Shape(D, row, par, root, top, T, ch, lv, lo, hi), NEW y \in T, y # root,
           NEW m \in T, m # root, m # y, par[y] = par[m]
    PROVE  hi[y] <= lo[m] \/ hi[m] <= lo[y]
<1>1. PICK p \in T : p = par[y]
  BY NodeHangs
<1>2. PICK j \in 1 .. Len(row[p]) + 1 : ch[p][j] = y /\ HangsAt(row, par, root, T, lv, lo, hi, p, j, y)
  BY <1>1, NodeHangs
<1>3. PICK k \in 1 .. Len(row[p]) + 1 : ch[p][k] = m /\ HangsAt(row, par, root, T, lv, lo, hi, p, k, m)
  BY <1>1, NodeHangs
<1>4. /\ lo[y] = LoAt(row[p], j, lo[p]) /\ hi[y] = HiAt(row[p], j, hi[p])
      /\ lo[m] = LoAt(row[p], k, lo[p]) /\ hi[m] = HiAt(row[p], k, hi[p])
  BY <1>2, <1>3 DEF HangsAt
<1>5. /\ row[p] \in Rows /\ lo[p] \in Int /\ hi[p] \in Int /\ Ordered(row[p], lo[p], hi[p])
      /\ Len(row[p]) \in Nat
  BY NodeTypes
<1>6. j < k \/ k < j
  BY <1>2, <1>3, <1>5
<1>7. CASE j < k
  <2>1. HiAt(row[p], j, hi[p]) <= LoAt(row[p], k, lo[p])
    BY <1>5, <1>7, TwoGaps
  <2> QED BY <1>4, <2>1
<1>8. CASE k < j
  <2>1. HiAt(row[p], k, hi[p]) <= LoAt(row[p], j, lo[p])
    BY <1>5, <1>8, TwoGaps
  <2> QED BY <1>4, <2>1
<1> QED BY <1>6, <1>7, <1>8

\* No node has keys or bounds in the interval of another that is not above it,
\* and nodes of one level share no number.
LEMMA NodesApart ==
    ASSUME NEW D, NEW row, NEW par, NEW root, NEW top, NEW T, NEW ch, NEW lv, NEW lo, NEW hi,
           Shape(D, row, par, root, top, T, ch, lv, lo, hi)
    PROVE  \A y, m \in T : y # m /\ lv[y] <= lv[m] => ApartFrom(row, lv, lo, hi, y, m)
<1> DEFINE S == {d \in Nat : \A y, m \in T : lv[y] + d = lv[root] /\ y # m /\ lv[y] <= lv[m]
                                              => ApartFrom(row, lv, lo, hi, y, m)}
<1>1. /\ T \in SUBSET D /\ root \in T
      /\ \A n \in T : /\ lv[n] \in Nat /\ lo[n] \in Int /\ hi[n] \in Int /\ row[n] \in Rows
                      /\ Len(row[n]) \in Nat /\ Ordered(row[n], lo[n], hi[n]) /\ lo[n] < hi[n]
                      /\ \A i \in 1 .. Len(row[n]) : row[n][i].key \in Nat
  BY NodeTypes
<1>2. \A n \in T : n # root => lv[n] < lv[root]
  BY NodeTypes
<1>3. 0 \in S
  <2> SUFFICES ASSUME NEW y \in T, NEW m \in T, lv[y] + 0 = lv[root], y # m, lv[y] <= lv[m]
               PROVE  FALSE
    OBVIOUS
  <2>1. lv[m] = lv[root] \/ lv[m] < lv[root]
    BY <1>2
  <2> QED BY <1>1, <1>2, <2>1
<1>4. ASSUME NEW d \in Nat, d \in S PROVE d + 1 \in S
  <2> SUFFICES ASSUME NEW y \in T, NEW m \in T, lv[y] + (d + 1) = lv[root], y # m, lv[y] <= lv[m]
               PROVE  ApartFrom(row, lv, lo, hi, y, m)
    OBVIOUS
  <2>1. y # root
    BY <1>1
  <2>2. PICK p \in T : /\ p = par[y] /\ lv[p] = lv[y] + 1 /\ lo[p] <= lo[y] /\ hi[y] <= hi[p]
                       /\ \A i \in 1 .. Len(row[p]) : Outside(row[p][i].key, lo[y], hi[y])
    BY <2>1, Inside
  <2>3. lv[p] + d = lv[root]
    <3>1. lv[y] \in Nat /\ lv[y] + (d + 1) = lv[root]
      BY <1>1
    <3> QED BY <2>2, <3>1
  <2>4. \A q \in T : q # p /\ lv[p] <= lv[q] => ApartFrom(row, lv, lo, hi, p, q)
    BY <1>4, <2>3
  <2> HIDE DEF S
  <2>5. CASE m = p
    <3>1. Outside(lo[m], lo[y], hi[y]) /\ Outside(hi[m], lo[y], hi[y])
      BY <2>2, <2>5 DEF Outside
    <3>2. lv[y] # lv[m]
      BY <1>1, <2>2, <2>5
    <3> QED BY <2>2, <2>5, <3>1, <3>2 DEF ApartFrom
  <2>6. CASE m # p /\ lv[p] <= lv[m]
    <3>1. ApartFrom(row, lv, lo, hi, p, m)
      BY <2>4, <2>6
    <3>2. \A z \in Int : Outside(z, lo[p], hi[p]) => Outside(z, lo[y], hi[y])
      BY <1>1, <2>2, OutsideInner
    <3>3. \A i \in 1 .. Len(row[m]) : Outside(row[m][i].key, lo[y], hi[y])
      <4> TAKE i \in 1 .. Len(row[m])
      <4>1. row[m][i].key \in Int /\ Outside(row[m][i].key, lo[p], hi[p])
        BY <1>1, <3>1 DEF ApartFrom
      <4> QED BY <3>2, <4>1
    <3>4. Outside(lo[m], lo[y], hi[y]) /\ Outside(hi[m], lo[y], hi[y])
      <4>1. Outside(lo[m], lo[p], hi[p]) /\ Outside(hi[m], lo[p], hi[p])
        BY <3>1 DEF ApartFrom
      <4> QED BY <1>1, <3>2, <4>1
    <3>5. lv[y] # lv[m]
      BY <1>1, <2>2, <2>6
    <3> QED BY <3>3, <3>4, <3>5 DEF ApartFrom
  <2>7. CASE ~(lv[p] <= lv[m])
    <3>1. lv[m] = lv[y] /\ m # root
      BY <1>1, <2>2, <2>3, <2>7
    <3>2. PICK q \in T : q = par[m] /\ lv[q] = lv[m] + 1 /\ lo[q] <= lo[m] /\ hi[m] <= hi[q]
      BY <3>1, Inside
    <3>3. hi[y] <= lo[m] \/ hi[m] <= lo[y]
      <4>1. CASE q = p
        <5>1. par[y] = par[m] /\ m # y
          BY <2>2, <3>2, <4>1
        <5> QED BY <2>1, <3>1, <5>1, Siblings
      <4>2. CASE q # p
        <5>1. lv[q] = lv[p] /\ lv[p] <= lv[q]
          BY <1>1, <2>2, <3>1, <3>2
        <5>2. ApartFrom(row, lv, lo, hi, p, q)
          BY <2>4, <4>2, <5>1
        <5>3. hi[p] <= lo[q] \/ hi[q] <= lo[p]
          BY <5>1, <5>2 DEF ApartFrom
        <5>4. /\ lo[p] \in Int /\ hi[p] \in Int /\ lo[q] \in Int /\ hi[q] \in Int
              /\ lo[y] \in Int /\ hi[y] \in Int /\ lo[m] \in Int /\ hi[m] \in Int
          BY <1>1
        <5> QED BY <2>2, <3>2, <5>3, <5>4
      <4> QED BY <4>1, <4>2
    <3>4. /\ lo[y] \in Int /\ hi[y] \in Int /\ lo[m] \in Int /\ hi[m] \in Int
          /\ lo[m] < hi[m] /\ lo[y] < hi[y]
      BY <1>1
    <3>5. \A i \in 1 .. Len(row[m]) : Outside(row[m][i].key, lo[y], hi[y])
      <4> TAKE i \in 1 .. Len(row[m])
      <4>1. row[m][i].key \in Nat /\ lo[m] < row[m][i].key /\ row[m][i].key < hi[m]
        BY <1>1 DEF Ordered
      <4> QED BY <3>3, <3>4, <4>1 DEF Outside
    <3>6. Outside(lo[m], lo[y], hi[y]) /\ Outside(hi[m], lo[y], hi[y])
      BY <3>3, <3>4 DEF Outside
    <3> QED BY <3>3, <3>5, <3>6 DEF ApartFrom
  <2> QED BY <2>5, <2>6, <2>7
<1> HIDE DEF S
<1>5. Nat \subseteq S
  BY <1>3, <1>4, SetInduction
<1>6. ASSUME NEW y \in T, NEW m \in T, y # m, lv[y] <= lv[m] PROVE ApartFrom(row, lv, lo, hi, y, m)
  <2>1. lv[root] - lv[y] \in Nat /\ lv[y] + (lv[root] - lv[y]) = lv[root]
    <3>1. lv[y] \in Nat /\ lv[root] \in Nat /\ lv[y] <= lv[root]
      BY NodeTypes
    <3> QED BY <3>1
  <2>2. lv[root] - lv[y] \in S
    BY <1>5, <2>1
  <2> QED BY <1>6, <2>1, <2>2 DEF S
<1> QED BY <1>6

\* All is inside the interval of the root.
LEMMA InRoot ==
    ASSUME NEW D, NEW row, NEW par, NEW root, NEW top, NEW T, NEW ch, NEW lv, NEW lo, NEW hi,
           Shape(D, row, par, root, top, T, ch, lv, lo, hi)
    PROVE  \A y \in T : -1 <= lo[y] /\ hi[y] <= top
<1> DEFINE S == {d \in Nat : \A y \in T : lv[y] + d = lv[root] => -1 <= lo[y] /\ hi[y] <= top}
<1>1. /\ root \in T /\ lo[root] = -1 /\ hi[root] = top
      /\ \A n \in T : lv[n] \in Nat /\ lo[n] \in Int /\ hi[n] \in Int /\ lv[n] <= lv[root]
      /\ \A n \in T : n # root => lv[n] < lv[root]
  BY NodeTypes DEF Shape
<1>2. 0 \in S
  <2> SUFFICES ASSUME NEW y \in T, lv[y] + 0 = lv[root] PROVE -1 <= lo[y] /\ hi[y] <= top
    OBVIOUS
  <2>1. y = root
    BY <1>1
  <2> QED BY <1>1, <2>1
<1>3. ASSUME NEW d \in Nat, d \in S PROVE d + 1 \in S
  <2> SUFFICES ASSUME NEW y \in T, lv[y] + (d + 1) = lv[root] PROVE -1 <= lo[y] /\ hi[y] <= top
    OBVIOUS
  <2>1. y # root
    BY <1>1
  <2>2. PICK p \in T : lv[p] = lv[y] + 1 /\ lo[p] <= lo[y] /\ hi[y] <= hi[p]
    BY <2>1, Inside
  <2>3. lv[p] + d = lv[root]
    BY <1>1, <2>2
  <2>4. -1 <= lo[p] /\ hi[p] <= top
    BY <1>3, <2>3
  <2>5. lo[p] \in Int /\ hi[p] \in Int /\ lo[y] \in Int /\ hi[y] \in Int /\ top \in Int
    BY <1>1
  <2> HIDE DEF S
  <2> QED BY <2>2, <2>4, <2>5
<1> HIDE DEF S
<1>4. Nat \subseteq S
  BY <1>2, <1>3, SetInduction
<1>5. ASSUME NEW y \in T PROVE -1 <= lo[y] /\ hi[y] <= top
  <2>1. lv[root] - lv[y] \in Nat /\ lv[y] + (lv[root] - lv[y]) = lv[root]
    BY <1>1
  <2>2. lv[root] - lv[y] \in S
    BY <1>4, <2>1
  <2> QED BY <2>1, <2>2 DEF S
<1> QED BY <1>5

\* Each level has a node, so there are more nodes than levels below the root.
LEMMA Height ==
    ASSUME NEW D, NEW row, NEW par, NEW root, NEW top, NEW T, NEW ch, NEW lv, NEW lo, NEW hi,
           Shape(D, row, par, root, top, T, ch, lv, lo, hi)
    PROVE  lv[root] < Cardinality(D) /\ Cardinality(D) \in Nat
<1>1. /\ D \in SUBSET (Nat \ {0}) /\ IsFiniteSet(D) /\ T \in SUBSET D /\ root \in T
      /\ \A n \in D : row[n] \in Rows /\ Len(row[n]) \in Nat
      /\ \A n \in T : lv[n] \in Nat
  BY ShapeTypes
<1> DEFINE h == lv[root]
           S == {d \in Nat : d <= h => \E y \in T : lv[y] + d = h}
<1>2. 0 \in S
  BY <1>1
<1>3. ASSUME NEW d \in Nat, d \in S PROVE d + 1 \in S
  <2> SUFFICES ASSUME d + 1 <= h PROVE \E y \in T : lv[y] + (d + 1) = h
    OBVIOUS
  <2>1. PICK y \in T : lv[y] + d = h
    BY <1>1, <1>3
  <2>2. lv[y] > 0
    BY <1>1, <2>1
  <2>3. 1 \in 1 .. Len(row[y]) + 1
    BY <1>1
  <2>4. HangsAt(row, par, root, T, lv, lo, hi, y, 1, ch[y][1])
    BY <2>2, <2>3, ChildHangs
  <2>5. ch[y][1] \in T /\ lv[ch[y][1]] + 1 = lv[y]
    BY <2>4 DEF HangsAt
  <2>6. lv[ch[y][1]] + (d + 1) = h
    <3>1. lv[ch[y][1]] \in Nat
      BY <1>1, <2>5
    <3> QED BY <2>1, <2>5, <3>1
  <2> QED BY <2>5, <2>6
<1> HIDE DEF S
<1>4. Nat \subseteq S
  BY <1>2, <1>3, SetInduction
<1> USE DEF S
<1>5. h \in Nat
  BY <1>1
<1>6. \A i \in 0 .. h : \E y \in T : lv[y] = i
  <2> TAKE i \in 0 .. h
  <2>1. h - i \in Nat /\ h - i <= h /\ h - i \in S
    BY <1>4, <1>5
  <2>2. PICK y \in T : lv[y] + (h - i) = h
    BY <2>1
  <2>3. lv[y] = i
    BY <1>1, <1>5, <2>2
  <2> QED BY <2>3
<1> HIDE DEF S
<1> DEFINE f == [i \in 0 .. h |-> CHOOSE y \in T : lv[y] = i]
<1>7. \A i \in 0 .. h : f[i] \in T /\ lv[f[i]] = i
  BY <1>6
<1> HIDE DEF f
<1>8. f \in Injection(0 .. h, D)
  <2>1. f \in [0 .. h -> D]
    BY <1>1, <1>7 DEF f
  <2>2. \A i, j \in 0 .. h : f[i] = f[j] => i = j
    BY <1>7
  <2> QED BY <2>1, <2>2 DEF Injection, IsInjective
<1>9. Cardinality(0 .. h) <= Cardinality(D)
  BY <1>1, <1>8, FS_Injection
<1>10. Cardinality(0 .. h) = h + 1
  <2>1. Cardinality(0 .. h) = IF 0 > h THEN 0 ELSE h - 0 + 1
    BY <1>5, FS_Interval
  <2> QED BY <1>5, <2>1
<1>11. Cardinality(D) \in Nat
  BY <1>1, FS_CardinalityType
<1> QED BY <1>5, <1>9, <1>10, <1>11

-----------------------------------------------------------------------------
(* Keys that come and go in a row                                          *)

\* A row with one more key in its gap is ordered; the gap becomes two.
LEMMA InsertOrder ==
    ASSUME NEW s \in Rows, NEW q \in Rows, NEW a \in Nat, NEW k \in Nat, KeyInserted(q, s, a, k),
           NEW lo \in Int, NEW hi \in Int, Ordered(s, lo, hi),
           LoAt(s, a, lo) < k, k < HiAt(s, a, hi)
    PROVE  /\ Ordered(q, lo, hi)
           /\ \A i \in 1 .. a : LoAt(q, i, lo) = LoAt(s, i, lo)
           /\ \A i \in 1 .. a - 1 : HiAt(q, i, hi) = HiAt(s, i, hi)
           /\ HiAt(q, a, hi) = k /\ LoAt(q, a + 1, lo) = k
           /\ \A i \in a .. Len(s) + 1 : HiAt(q, i + 1, hi) = HiAt(s, i, hi)
           /\ \A i \in a + 1 .. Len(s) + 1 : LoAt(q, i + 1, lo) = LoAt(s, i, lo)
<1> DEFINE L == Len(s)
<1>1. /\ L \in Nat /\ Len(q) = L + 1 /\ a \in 1 .. L + 1
      /\ \A i \in 1 .. L : s[i].key \in Nat
      /\ \A i \in 1 .. L + 1 : q[i].key \in Nat
  <2>1. L \in Nat /\ Len(q) = L + 1 /\ a \in 1 .. Len(q)
    BY RowFacts DEF KeyInserted
  <2> QED BY <2>1, RowFacts
<1>2. \A i \in 1 .. L + 1 : /\ i < a => q[i].key = s[i].key
                            /\ i = a => q[i].key = k
                            /\ i > a => q[i].key = s[i - 1].key
  <2> TAKE i \in 1 .. L + 1
  <2>1. CASE i < a
    <3>1. i \in 1 .. a - 1
      BY <1>1, <2>1
    <3> QED BY <1>1, <2>1, <3>1 DEF KeyInserted
  <2>2. CASE i = a
    BY <1>1, <2>2 DEF KeyInserted
  <2>3. CASE i > a
    <3>1. i - 1 \in a .. L /\ (i - 1) + 1 = i
      BY <1>1, <2>3
    <3>2. q[(i - 1) + 1].key = s[i - 1].key
      BY <3>1 DEF KeyInserted
    <3> QED BY <1>1, <2>3, <3>1, <3>2
  <2> QED BY <1>1, <2>1, <2>2, <2>3
<1>3. /\ LoAt(s, a, lo) \in Int /\ HiAt(s, a, hi) \in Int /\ lo <= LoAt(s, a, lo) /\ HiAt(s, a, hi) <= hi
      /\ \A i \in 1 .. L : i < a => s[i].key <= LoAt(s, a, lo)
      /\ \A i \in 1 .. L : i >= a => HiAt(s, a, hi) <= s[i].key
  BY <1>1, Gaps
<1>4. \A i \in 1 .. L : (i < a => s[i].key < k) /\ (i >= a => k < s[i].key)
  <2> TAKE i \in 1 .. L
  <2>1. s[i].key \in Nat
    BY <1>1
  <2> QED BY <1>3, <2>1
<1>5. lo < k /\ k < hi
  BY <1>3
<1>6. /\ lo < hi /\ \A i \in 1 .. L : lo < s[i].key /\ s[i].key < hi
      /\ \A i, j \in 1 .. L : i < j => s[i].key < s[j].key
  BY DEF Ordered
<1>7. \A i \in 1 .. L + 1 : (i < a => i \in 1 .. L) /\ (i > a => i - 1 \in 1 .. L /\ i - 1 >= a)
  BY <1>1
<1>8. ASSUME NEW i \in 1 .. L + 1 PROVE lo < q[i].key /\ q[i].key < hi
  <2>1. i < a \/ i = a \/ i > a
    BY <1>1
  <2> QED BY <1>2, <1>5, <1>6, <1>7, <2>1
<1>9. ASSUME NEW i \in 1 .. L + 1, NEW j \in 1 .. L + 1, i < j PROVE q[i].key < q[j].key
  <2>1. CASE j < a
    <3>1. i < a
      BY <1>1, <1>9, <2>1
    <3> QED BY <1>2, <1>6, <1>7, <1>9, <2>1, <3>1
  <2>2. CASE j = a
    <3>1. i < a
      BY <1>1, <1>9, <2>2
    <3> QED BY <1>2, <1>4, <1>7, <2>2, <3>1
  <2>3. CASE j > a
    <3>0. q[j].key = s[j - 1].key /\ j - 1 \in 1 .. L /\ j - 1 >= a
      BY <1>2, <1>7, <2>3
    <3>1. CASE i < a
      <4>1. i \in 1 .. L /\ i < j - 1 /\ q[i].key = s[i].key
        BY <1>1, <1>2, <1>7, <3>0, <3>1
      <4> QED BY <1>6, <3>0, <4>1
    <3>2. CASE i = a
      BY <1>2, <1>4, <3>0, <3>2
    <3>3. CASE i > a
      <4>1. i - 1 \in 1 .. L
        BY <1>7, <3>3
      <4>2. i \in Int /\ j \in Int
        OBVIOUS
      <4>3. i - 1 < j - 1
        BY <1>9, <4>2
      <4>4. q[i].key = s[i - 1].key
        BY <1>2, <3>3
      <4> QED BY <1>6, <3>0, <4>1, <4>3, <4>4
    <3> QED BY <1>1, <3>1, <3>2, <3>3
  <2> QED BY <1>1, <2>1, <2>2, <2>3
<1>10. Ordered(q, lo, hi)
  BY <1>1, <1>6, <1>8, <1>9 DEF Ordered
<1>11. ASSUME NEW i \in 1 .. a PROVE LoAt(q, i, lo) = LoAt(s, i, lo)
  <2>1. i = 1 \/ (i # 1 /\ i - 1 \in 1 .. L + 1 /\ i - 1 < a)
    BY <1>1
  <2> QED BY <1>2, <2>1 DEF LoAt
<1>12. ASSUME NEW i \in 1 .. a - 1 PROVE HiAt(q, i, hi) = HiAt(s, i, hi)
  <2>1. ~(i > L + 1) /\ ~(i > L) /\ i \in 1 .. L + 1 /\ i < a
    BY <1>1
  <2> QED BY <1>1, <1>2, <2>1 DEF HiAt
<1>13. HiAt(q, a, hi) = k /\ LoAt(q, a + 1, lo) = k
  <2>1. ~(a > L + 1) /\ a + 1 # 1 /\ (a + 1) - 1 = a /\ a \in 1 .. L + 1
    BY <1>1
  <2> QED BY <1>1, <1>2, <2>1 DEF HiAt, LoAt
<1>14. ASSUME NEW i \in a .. L + 1 PROVE HiAt(q, i + 1, hi) = HiAt(s, i, hi)
  <2>1. i + 1 > L + 1 <=> i > L
    BY <1>1
  <2>2. ~(i > L) => i + 1 \in 1 .. L + 1 /\ i + 1 > a /\ (i + 1) - 1 = i
    BY <1>1
  <2>3. ~(i > L) => q[i + 1].key = s[i].key
    BY <1>2, <2>2
  <2> QED BY <1>1, <2>1, <2>3 DEF HiAt
<1>15. ASSUME NEW i \in a + 1 .. L + 1 PROVE LoAt(q, i + 1, lo) = LoAt(s, i, lo)
  <2>1. i + 1 # 1 /\ i # 1 /\ (i + 1) - 1 = i /\ i \in 1 .. L + 1 /\ i > a
    BY <1>1
  <2> QED BY <1>2, <2>1 DEF LoAt
<1> QED BY <1>10, <1>11, <1>12, <1>13, <1>14, <1>15

\* A row with one key less is ordered; two gaps become one.
LEMMA RemoveOrder ==
    ASSUME NEW s \in Rows, NEW q \in Rows, NEW a \in Nat, KeyRemoved(q, s, a),
           NEW lo \in Int, NEW hi \in Int, Ordered(s, lo, hi)
    PROVE  /\ Ordered(q, lo, hi)
           /\ \A i \in 1 .. a : LoAt(q, i, lo) = LoAt(s, i, lo)
           /\ \A i \in 1 .. a - 1 : HiAt(q, i, hi) = HiAt(s, i, hi)
           /\ HiAt(q, a, hi) = HiAt(s, a + 1, hi)
           /\ \A i \in a + 1 .. Len(s) : /\ HiAt(q, i, hi) = HiAt(s, i + 1, hi)
                                         /\ LoAt(q, i, lo) = LoAt(s, i + 1, lo)
<1> DEFINE L == Len(s)
<1>1. /\ L \in Nat /\ Len(q) = L - 1 /\ a \in 1 .. L
      /\ \A i \in 1 .. L : s[i].key \in Nat
      /\ \A i \in 1 .. L - 1 : q[i].key \in Nat
  <2>1. L \in Nat /\ Len(q) = L - 1 /\ a \in 1 .. L
    BY RowFacts DEF KeyRemoved
  <2> QED BY <2>1, RowFacts
<1>2. \A i \in 1 .. L - 1 : (i < a => q[i].key = s[i].key) /\ (i >= a => q[i].key = s[i + 1].key)
  BY <1>1 DEF KeyRemoved
<1>6. /\ lo < hi /\ \A i \in 1 .. L : lo < s[i].key /\ s[i].key < hi
      /\ \A i, j \in 1 .. L : i < j => s[i].key < s[j].key
  BY DEF Ordered
<1>7. \A i \in 1 .. L - 1 : i \in 1 .. L /\ i + 1 \in 1 .. L
  BY <1>1
<1>8. ASSUME NEW i \in 1 .. L - 1 PROVE lo < q[i].key /\ q[i].key < hi
  <2>1. i < a \/ i >= a
    BY <1>1
  <2> QED BY <1>2, <1>6, <1>7, <2>1
<1>9. ASSUME NEW i \in 1 .. L - 1, NEW j \in 1 .. L - 1, i < j PROVE q[i].key < q[j].key
  <2>1. i < j + 1 /\ i + 1 < j + 1 /\ (i >= a => j >= a)
    BY <1>1, <1>9
  <2>2. s[i].key < s[j].key /\ s[i].key < s[j + 1].key /\ s[i + 1].key < s[j + 1].key
    BY <1>6, <1>7, <1>9, <2>1
  <2>3. CASE i < a
    BY <1>1, <1>2, <2>2, <2>3
  <2>4. CASE i >= a
    BY <1>1, <1>2, <2>1, <2>2, <2>4
  <2> QED BY <1>1, <2>3, <2>4
<1>10. Ordered(q, lo, hi)
  BY <1>1, <1>6, <1>8, <1>9 DEF Ordered
<1>11. ASSUME NEW i \in 1 .. a PROVE LoAt(q, i, lo) = LoAt(s, i, lo)
  <2>1. i = 1 \/ (i # 1 /\ i - 1 \in 1 .. L - 1 /\ i - 1 < a)
    BY <1>1
  <2> QED BY <1>2, <2>1 DEF LoAt
<1>12. ASSUME NEW i \in 1 .. a - 1 PROVE HiAt(q, i, hi) = HiAt(s, i, hi)
  <2>1. ~(i > L - 1) /\ ~(i > L) /\ i \in 1 .. L - 1 /\ i < a
    BY <1>1
  <2> QED BY <1>1, <1>2, <2>1 DEF HiAt
<1>13. ASSUME NEW i \in a .. L PROVE HiAt(q, i, hi) = HiAt(s, i + 1, hi)
  <2>1. i > L - 1 <=> i + 1 > L
    BY <1>1
  <2>2. ~(i > L - 1) => i \in 1 .. L - 1 /\ i >= a
    BY <1>1
  <2>3. ~(i > L - 1) => q[i].key = s[i + 1].key
    BY <1>2, <2>2
  <2> QED BY <1>1, <2>1, <2>3 DEF HiAt
<1>14. ASSUME NEW i \in a + 1 .. L PROVE LoAt(q, i, lo) = LoAt(s, i + 1, lo)
  <2>1. i + 1 # 1 /\ i # 1 /\ (i + 1) - 1 = i /\ i - 1 \in 1 .. L - 1 /\ i - 1 >= a /\ (i - 1) + 1 = i
    BY <1>1
  <2>2. q[i - 1].key = s[(i - 1) + 1].key
    BY <1>2, <2>1
  <2> QED BY <2>1, <2>2 DEF LoAt
<1>15. \A i \in a + 1 .. L : i \in a .. L
  BY <1>1
<1>16. a \in a .. L
  BY <1>1
<1> QED BY <1>10, <1>11, <1>12, <1>13, <1>14, <1>15, <1>16

\* The children behind element m.
ChTail(c, m) == [j \in Nat |-> c[j + m]]

\* Children of the parts of a row, and of what they make.
LEMMA CutLinks ==
    ASSUME NEW c \in Rows, NEW l \in Rows, NEW r \in Rows, NEW m \in Nat, IsCut(c, m, l, r),
           NEW d, Links(c, d)
    PROVE  Links(l, d) /\ Links(r, ChTail(d, m))
<1>1. Len(c) \in Nat /\ Len(l) \in Nat /\ Len(r) \in Nat /\ Len(l) = m - 1 /\ Len(r) = Len(c) - m
      /\ m \in 1 .. Len(c)
  BY RowFacts DEF IsCut
<1>2. ASSUME NEW i \in 1 .. Len(l) PROVE l[i].left = d[i] /\ l[i].right = d[i + 1]
  <2>1. i \in 1 .. m - 1 /\ i \in 1 .. Len(c)
    BY <1>1
  <2> QED BY <2>1 DEF IsCut, Links
<1>3. ASSUME NEW i \in 1 .. Len(r) PROVE r[i].left = d[i + m] /\ r[i].right = d[(i + 1) + m]
  <2>1. i \in 1 .. Len(c) - m /\ m + i \in 1 .. Len(c) /\ m + i = i + m /\ (m + i) + 1 = (i + 1) + m
    BY <1>1
  <2>2. r[i] = c[m + i] /\ c[m + i].left = d[m + i] /\ c[m + i].right = d[(m + i) + 1]
    BY <2>1 DEF IsCut, Links
  <2> QED BY <2>1, <2>2
<1>4. \A i \in 1 .. Len(r) : i \in Nat /\ i + 1 \in Nat
  BY <1>1
<1> QED BY <1>2, <1>3, <1>4 DEF Links, ChTail

\* The children c up to m, and d from there.
ChJoined(c, m, d) == [j \in Nat |-> IF j <= m THEN c[j] ELSE d[j - m]]

\* A row that is two rows and an element between them has the children of both.
LEMMA JoinLinks ==
    ASSUME NEW c \in Rows, NEW l \in Rows, NEW r \in Rows, NEW m \in Nat, IsCut(c, m, l, r),
           NEW d, NEW e, Links(l, d), Links(r, e), c[m].left = d[m], c[m].right = e[1]
    PROVE  Links(c, ChJoined(d, m, e))
<1>1. Len(c) \in Nat /\ Len(l) \in Nat /\ Len(r) \in Nat /\ Len(l) = m - 1 /\ Len(r) = Len(c) - m
      /\ m \in 1 .. Len(c)
  BY RowFacts DEF IsCut
<1> DEFINE f == ChJoined(d, m, e)
<1>2. \A j \in Nat : (j <= m => f[j] = d[j]) /\ (j > m => f[j] = e[j - m])
  BY DEF ChJoined
<1> HIDE DEF f
<1>3. ASSUME NEW i \in 1 .. Len(c) PROVE c[i].left = f[i] /\ c[i].right = f[i + 1]
  <2>0. i \in Nat /\ i + 1 \in Nat
    BY <1>1
  <2>1. CASE i < m
    <3>1. i \in 1 .. m - 1 /\ i \in 1 .. Len(l) /\ i <= m /\ i + 1 <= m
      BY <1>1, <2>1
    <3>2. l[i] = c[i] /\ l[i].left = d[i] /\ l[i].right = d[i + 1]
      BY <3>1 DEF IsCut, Links
    <3> QED BY <1>2, <2>0, <3>1, <3>2
  <2>2. CASE i = m
    <3>1. i <= m /\ i + 1 > m /\ (i + 1) - m = 1
      BY <1>1, <2>2
    <3>2. f[i] = d[i] /\ f[i + 1] = e[1]
      BY <1>2, <2>0, <3>1
    <3> QED BY <2>2, <3>2
  <2>3. CASE i > m
    <3> DEFINE k == i - m
    <3>1. k \in 1 .. Len(c) - m /\ k \in 1 .. Len(r) /\ m + k = i /\ (i + 1) - m = k + 1 /\ i + 1 > m
      BY <1>1, <2>3
    <3>2. f[i] = e[k] /\ f[i + 1] = e[k + 1]
      BY <1>2, <2>0, <2>3, <3>1
    <3> HIDE DEF k
    <3>3. r[k] = c[i] /\ r[k].left = e[k] /\ r[k].right = e[k + 1]
      BY <3>1 DEF IsCut, Links
    <3> QED BY <3>2, <3>3
  <2> QED BY <1>1, <2>1, <2>2, <2>3
<1> QED BY <1>3 DEF Links, f

-----------------------------------------------------------------------------
(* Steps of a tree                                                         *)

\* A node whose row and children stay fits as before.
LEMMA Undisturbed ==
    ASSUME NEW row, NEW par, NEW root, NEW T, NEW ch, NEW lv, NEW lo, NEW hi, NEW n,
           NodeFits(row, par, root, T, ch, lv, lo, hi, n),
           NEW row2, NEW par2, NEW root2, NEW T2, NEW ch2, NEW lv2, NEW lo2, NEW hi2,
           row2[n] = row[n], ch2[n] = ch[n], lv2[n] = lv[n], lo2[n] = lo[n], hi2[n] = hi[n],
           \A c \in T : par[c] = n /\ c # root /\ lv[c] + 1 = lv[n] =>
                /\ c \in T2 /\ c # root2 /\ par2[c] = n
                /\ lv2[c] = lv[c] /\ lo2[c] = lo[c] /\ hi2[c] = hi[c]
    PROVE  NodeFits(row2, par2, root2, T2, ch2, lv2, lo2, hi2, n)
<1>1. ASSUME lv[n] > 0, NEW j \in 1 .. Len(row[n]) + 1
      PROVE  HangsAt(row2, par2, root2, T2, lv2, lo2, hi2, n, j, ch2[n][j])
  <2>1. HangsAt(row, par, root, T, lv, lo, hi, n, j, ch[n][j])
    BY <1>1 DEF NodeFits
  <2>2. PICK c \in T : c = ch[n][j] /\ par[c] = n /\ c # root /\ lv[c] + 1 = lv[n]
    BY <2>1 DEF HangsAt
  <2>3. /\ c \in T2 /\ c # root2 /\ par2[c] = n
        /\ lv2[c] = lv[c] /\ lo2[c] = lo[c] /\ hi2[c] = hi[c]
    BY <2>2
  <2> QED BY <2>1, <2>2, <2>3 DEF HangsAt
<1>2. /\ Ordered(row2[n], lo2[n], hi2[n]) /\ Links(row2[n], ch2[n])
      /\ lv2[n] = 0 => \A j \in Nat : ch2[n][j] = 0
  BY DEF NodeFits
<1>3. lv2[n] > 0 => \A j \in 1 .. Len(row2[n]) + 1 :
                        HangsAt(row2, par2, root2, T2, lv2, lo2, hi2, n, j, ch2[n][j])
  BY <1>1
<1> QED BY <1>2, <1>3 DEF NodeFits

\* The root gets a parent without elements, the new root.
GrowStep(D, row, par, root, top, T, ch, lv, lo, hi, r, D2, U, row2, par2) ==
    /\ Shape(D, row, par, root, top, T, ch, lv, lo, hi)
    /\ r \in Nat \ {0} /\ r \notin D /\ D2 = D \cup {r} /\ U = T \cup {r}
    /\ row2 \in [D \cup {r} -> Rows] /\ par2 \in [D \cup {r} -> Nat]
    /\ row2[r] = <<>> /\ \A x \in D : row2[x] = row[x]
    /\ par2[r] = 0 /\ par2[root] = r /\ \A x \in D \ {root} : par2[x] = par[x]

\* A new root with no element and the old root as its only child: the same
\* shape, one level higher.
LEMMA GrowShape ==
    ASSUME NEW D, NEW row, NEW par, NEW root, NEW top, NEW T, NEW ch, NEW lv, NEW lo, NEW hi,
           NEW r, NEW D2, NEW U, NEW row2, NEW par2,
           GrowStep(D, row, par, root, top, T, ch, lv, lo, hi, r, D2, U, row2, par2)
    PROVE  \E ch2, lv2, lo2, hi2 :
              /\ Shape(D2, row2, par2, r, top, U, ch2, lv2, lo2, hi2)
              /\ lv2[r] = lv[root] + 1 /\ ch2[r][1] = root
              /\ Agree(T, ch2, ch) /\ Agree(T, lv2, lv) /\ Agree(T, lo2, lo) /\ Agree(T, hi2, hi)
<1> /\ Shape(D, row, par, root, top, T, ch, lv, lo, hi)
    /\ r \in Nat \ {0} /\ r \notin D
    /\ row2 \in [D \cup {r} -> Rows] /\ par2 \in [D \cup {r} -> Nat]
    /\ row2[r] = <<>> /\ \A x \in D : row2[x] = row[x]
    /\ par2[r] = 0 /\ par2[root] = r /\ \A x \in D \ {root} : par2[x] = par[x]
  BY DEF GrowStep
<1> DEFINE T2 == T \cup {r}
           ch2 == [x \in T2 |-> IF x = r THEN [j \in Nat |-> root] ELSE ch[x]]
           lv2 == [x \in T2 |-> IF x = r THEN lv[root] + 1 ELSE lv[x]]
           lo2 == [x \in T2 |-> IF x = r THEN -1 ELSE lo[x]]
           hi2 == [x \in T2 |-> IF x = r THEN top ELSE hi[x]]
<1>1. /\ D \in SUBSET (Nat \ {0}) /\ IsFiniteSet(D) /\ T \in SUBSET D /\ root \in T /\ 0 \notin D
      /\ \A n \in D : /\ n \in Nat /\ n # 0 /\ row[n] \in Rows /\ par[n] \in Nat
                      /\ Len(row[n]) \in Nat
      /\ \A n \in T : /\ n \in D /\ lv[n] \in Nat /\ lo[n] \in Int /\ hi[n] \in Int
                      /\ ch[n] \in [Nat -> Nat]
  <2> HIDE DEF T2, ch2, lv2, lo2, hi2
  <2>1. /\ D \in SUBSET (Nat \ {0}) /\ IsFiniteSet(D) /\ T \in SUBSET D /\ root \in T /\ 0 \notin D
    BY ShapeTypes
  <2>2. \A n \in D : n \in Nat /\ n # 0 /\ row[n] \in Rows /\ par[n] \in Nat /\ Len(row[n]) \in Nat
    BY ShapeTypes
  <2>3. \A n \in T : /\ n \in D /\ lv[n] \in Nat /\ lo[n] \in Int /\ hi[n] \in Int
                     /\ ch[n] \in [Nat -> Nat]
    <3>1. BTyped(D, row, par, root, T, ch, lv, lo, hi)
      BY DEF Shape
    <3> QED BY <3>1 DEF BTyped
  <2> QED BY <2>1, <2>2, <2>3
<1>2. r \notin T /\ root # r /\ T2 \in SUBSET (D \cup {r})
  BY <1>1
<1>3. \A x \in T : ch2[x] = ch[x] /\ lv2[x] = lv[x] /\ lo2[x] = lo[x] /\ hi2[x] = hi[x]
  BY <1>2
<1>4. /\ ch2[r] = [j \in Nat |-> root] /\ lv2[r] = lv[root] + 1 /\ lo2[r] = -1 /\ hi2[r] = top
  OBVIOUS
<1>5. /\ \A n \in D \ T : row[n] = <<>>
      /\ \A n \in T : NodeFits(row, par, root, T, ch, lv, lo, hi, n)
      /\ \A n \in T \ {root} : Hangs(row, par, root, T, ch, lv, n)
      /\ lo[root] = -1 /\ hi[root] = top
  BY DEF Shape
<1>6. BTyped(D \cup {r}, row2, par2, r, T2, ch2, lv2, lo2, hi2)
  <2>1. IsFiniteSet(D \cup {r})
    BY <1>1, FS_AddElement
  <2>2. ch2 \in [T2 -> [Nat -> Nat]] /\ lv2 \in [T2 -> Nat]
    <3>0. root \in Nat /\ lv[root] \in Nat
      BY <1>1
    <3>1. root \in Nat /\ [j \in Nat |-> root] \in [Nat -> Nat] /\ lv[root] + 1 \in Nat
      BY <3>0
    <3>2. \A x \in T2 : ch2[x] \in [Nat -> Nat] /\ lv2[x] \in Nat
      BY <1>1, <1>3, <1>4, <3>1
    <3> QED BY <3>2
  <2>3. lo2 \in [T2 -> Int] /\ hi2 \in [T2 -> Int]
    BY <1>1, <1>5
  <2> HIDE DEF T2, ch2, lv2, lo2, hi2
  <2>4. r \in T2
    BY DEF T2
  <2> QED BY <1>1, <1>2, <2>1, <2>2, <2>3, <2>4 DEF BTyped
<1> HIDE DEF T2, ch2, lv2, lo2, hi2
<1>7. \A n \in (D \cup {r}) \ T2 : row2[n] = <<>>
  BY <1>1, <1>5 DEF T2
<1>8. ASSUME NEW n \in T PROVE NodeFits(row2, par2, r, T2, ch2, lv2, lo2, hi2, n)
  <2>1. row2[n] = row[n]
    BY <1>1
  <2>2. \A c \in T : c # root => c \in T2 /\ c # r /\ par2[c] = par[c]
    BY <1>1, <1>2 DEF T2
  <2>3. NodeFits(row, par, root, T, ch, lv, lo, hi, n)
    BY <1>5
  <2> QED BY <1>3, <2>1, <2>2, <2>3, Undisturbed
<1>9. NodeFits(row2, par2, r, T2, ch2, lv2, lo2, hi2, r)
  <2>0. Len(row2[r]) = 0
    OBVIOUS
  <2>1. lv2[r] > 0 /\ lv2[r] # 0
    BY <1>1, <1>4
  <2>2. -1 < top
    <3>1. NodeFits(row, par, root, T, ch, lv, lo, hi, root)
      BY <1>1, <1>5
    <3> QED BY <1>5, <3>1 DEF NodeFits, Ordered
  <2>3. Ordered(row2[r], lo2[r], hi2[r]) /\ Links(row2[r], ch2[r])
    BY <1>4, <2>0, <2>2 DEF Ordered, Links
  <2>4. ASSUME NEW j \in 1 .. Len(row2[r]) + 1
        PROVE  HangsAt(row2, par2, r, T2, lv2, lo2, hi2, r, j, ch2[r][j])
    <3>1. j = 1 /\ ch2[r][j] = root
      BY <1>4, <2>0
    <3>2. LoAt(row2[r], j, lo2[r]) = -1 /\ HiAt(row2[r], j, hi2[r]) = top
      BY <1>4, <2>0, <3>1 DEF LoAt, HiAt
    <3>3. root \in T2
      BY <1>1 DEF T2
    <3> QED BY <1>1, <1>2, <1>3, <1>4, <1>5, <3>1, <3>2, <3>3 DEF HangsAt
  <2> QED BY <2>1, <2>3, <2>4 DEF NodeFits
<1>10. ASSUME NEW n \in T PROVE Hangs(row2, par2, r, T2, ch2, lv2, n)
  <2>1. CASE n = root
    <3>1. par2[n] = r /\ r \in T2 /\ lv2[n] < lv2[r] /\ lv2[r] > 0
      BY <1>1, <1>3, <1>4, <2>1 DEF T2
    <3>2. 1 \in 1 .. Len(row2[r]) + 1 /\ ch2[r][1] = n
      BY <1>4, <2>1
    <3> QED BY <3>1, <3>2 DEF Hangs
  <2>2. CASE n # root
    <3>1. Hangs(row, par, root, T, ch, lv, n)
      BY <1>5, <2>2
    <3>2. PICK p \in T : p = par[n] /\ lv[n] < lv[root] /\ lv[p] > 0
                         /\ \E j \in 1 .. Len(row[p]) + 1 : ch[p][j] = n
      BY <3>1 DEF Hangs
    <3>3. par2[n] = p /\ row2[p] = row[p] /\ p \in T2
      BY <1>1, <2>2, <3>2 DEF T2
    <3>4. lv2[n] < lv2[r] /\ lv2[p] > 0
      <4>1. lv[n] \in Nat /\ lv[root] \in Nat
        BY <1>1
      <4>2. lv2[n] = lv[n] /\ lv2[p] = lv[p]
        BY <1>3
      <4> QED BY <1>4, <3>2, <4>1, <4>2
    <3>5. ch2[p] = ch[p]
      BY <1>3
    <3> QED BY <3>2, <3>3, <3>4, <3>5 DEF Hangs
  <2> QED BY <2>1, <2>2
<1>11. Shape(D \cup {r}, row2, par2, r, top, T2, ch2, lv2, lo2, hi2)
  <2>1. \A n \in T2 : n \in T \/ n = r
    BY DEF T2
  <2> QED BY <1>4, <1>6, <1>7, <1>8, <1>9, <1>10, <2>1 DEF Shape
<1>12. lv2[r] = lv[root] + 1 /\ ch2[r][1] = root
  BY <1>4
<1>13. Shape(D2, row2, par2, r, top, U, ch2, lv2, lo2, hi2)
  BY <1>11 DEF T2, GrowStep
<1>14. Agree(T, ch2, ch) /\ Agree(T, lv2, lv) /\ Agree(T, lo2, lo) /\ Agree(T, hi2, hi)
  BY <1>3 DEF Agree
<1> QED BY <1>12, <1>13, <1>14

\* A root that is out of elements leaves the tree to its child.
LEMMA DropShape ==
    ASSUME NEW D, NEW row, NEW par, NEW root, NEW top, NEW T, NEW ch, NEW lv, NEW lo, NEW hi,
           Shape(D, row, par, root, top, T, ch, lv, lo, hi), row[root] = <<>>, lv[root] > 0,
           NEW b, b = ch[root][1], NEW U, U = T \ {root}
    PROVE  \E ch2, lv2, lo2, hi2 :
              Shape(D, row, par, b, top, U, ch2, lv2, lo2, hi2) /\ Agree(U, lv2, lv)
<1> DEFINE T2 == T \ {root}
           c == ch[root][1]
           ch2 == [x \in T2 |-> ch[x]]
           lv2 == [x \in T2 |-> lv[x]]
           lo2 == [x \in T2 |-> lo[x]]
           hi2 == [x \in T2 |-> hi[x]]
<1>1. /\ D \in SUBSET (Nat \ {0}) /\ IsFiniteSet(D) /\ T \in SUBSET D /\ root \in T /\ 0 \notin D
      /\ \A n \in D : /\ n \in Nat /\ n # 0 /\ row[n] \in Rows /\ par[n] \in Nat
                      /\ Len(row[n]) \in Nat
      /\ \A n \in T : /\ n \in D /\ lv[n] \in Nat /\ lo[n] \in Int /\ hi[n] \in Int
                      /\ ch[n] \in [Nat -> Nat]
  <2>1. BTyped(D, row, par, root, T, ch, lv, lo, hi)
    BY DEF Shape
  <2>2. \A s \in Rows : Len(s) \in Nat
    BY RowFacts
  <2> QED BY <2>1, <2>2 DEF BTyped
<1>2. /\ \A n \in D \ T : row[n] = <<>>
      /\ \A n \in T : NodeFits(row, par, root, T, ch, lv, lo, hi, n)
      /\ \A n \in T \ {root} : Hangs(row, par, root, T, ch, lv, n)
      /\ lo[root] = -1 /\ hi[root] = top
      /\ row \in [D -> Rows] /\ par \in [D -> Nat]
  BY DEF Shape, BTyped
<1>3. \A x \in T2 : ch2[x] = ch[x] /\ lv2[x] = lv[x] /\ lo2[x] = lo[x] /\ hi2[x] = hi[x]
  OBVIOUS
<1>4. Len(row[root]) = 0
  OBVIOUS
<1>5. /\ c \in T2 /\ par[c] = root /\ lv[c] + 1 = lv[root] /\ lo[c] = -1 /\ hi[c] = top
  <2>1. 1 \in 1 .. Len(row[root]) + 1
    BY <1>4
  <2>2. HangsAt(row, par, root, T, lv, lo, hi, root, 1, c)
    BY <1>1, <2>1, ChildHangs
  <2>3. LoAt(row[root], 1, lo[root]) = -1 /\ HiAt(row[root], 1, hi[root]) = top
    BY <1>2, <1>4 DEF LoAt, HiAt
  <2> QED BY <2>2, <2>3 DEF HangsAt
<1>6. BTyped(D, row, par, c, T2, ch2, lv2, lo2, hi2)
  <2>1. ch2 \in [T2 -> [Nat -> Nat]] /\ lv2 \in [T2 -> Nat]
    BY <1>1
  <2>2. lo2 \in [T2 -> Int] /\ hi2 \in [T2 -> Int]
    BY <1>1
  <2>3. T2 \in SUBSET D
    BY <1>1
  <2> HIDE DEF T2, ch2, lv2, lo2, hi2, c
  <2> QED BY <1>1, <1>2, <1>5, <2>1, <2>2, <2>3 DEF BTyped
<1> HIDE DEF ch2, lv2, lo2, hi2, c
<1>7. ASSUME NEW n \in T2 PROVE NodeFits(row, par, c, T2, ch2, lv2, lo2, hi2, n)
  <2>1. NodeFits(row, par, root, T, ch, lv, lo, hi, n)
    BY <1>2
  <2>2. \A x \in T : par[x] = n /\ x # root /\ lv[x] + 1 = lv[n] => x \in T2 /\ x # c /\ par[x] = n
    BY <1>5
  <2> QED BY <1>3, <2>1, <2>2, Undisturbed
<1>8. ASSUME NEW n \in T2 \ {c} PROVE Hangs(row, par, c, T2, ch2, lv2, n)
  <2>1. PICK p \in T : /\ p = par[n] /\ lv[p] = lv[n] + 1
                       /\ \E j \in 1 .. Len(row[p]) + 1 : ch[p][j] = n
    BY NodeHangs
  <2>2. p # root
    BY <1>4, <2>1 DEF c
  <2>3. lv[p] < lv[root]
    BY <1>2, <2>2 DEF Hangs
  <2>4. lv[n] < lv[c] /\ lv[p] > 0
    <3>1. lv[n] \in Nat /\ lv[c] \in Nat
      BY <1>1, <1>5
    <3> QED BY <1>5, <2>1, <2>3, <3>1
  <2>5. p \in T2 /\ ch2[p] = ch[p] /\ lv2[p] = lv[p] /\ lv2[n] = lv[n] /\ lv2[c] = lv[c]
    BY <1>3, <1>5, <2>2
  <2> QED BY <2>1, <2>4, <2>5 DEF Hangs
<1>9. \A n \in D \ T2 : row[n] = <<>>
  BY <1>2
<1>10. lo2[c] = -1 /\ hi2[c] = top /\ par[c] \in D \ T2
  BY <1>1, <1>3, <1>5
<1>11. Shape(D, row, par, c, top, T2, ch2, lv2, lo2, hi2)
  <2> HIDE DEF T2
  <2> QED BY <1>6, <1>7, <1>8, <1>9, <1>10 DEF Shape
<1>12. Agree(T2, lv2, lv)
  BY <1>3 DEF Agree
<1> QED BY <1>11, <1>12 DEF c, T2

\* A node is split in two, and its middle element goes to the parent.
CutStep(D, row, par, root, top, T, ch, lv, lo, hi, n, p, a, l, r, m, new, D2, U, row2, par2) ==
    /\ Shape(D, row, par, root, top, T, ch, lv, lo, hi)
    /\ n \in T /\ n # root /\ p = par[n] /\ a \in 1 .. Len(row[p]) + 1 /\ ch[p][a] = n
    /\ l \in Rows /\ r \in Rows /\ m \in Nat /\ IsCut(row[n], m, l, r)
    /\ new \in Nat \ {0} /\ new \notin D /\ D2 = D \cup {new} /\ U = T \cup {new}
    /\ row2 \in [D2 -> Rows] /\ par2 \in [D2 -> Nat]
    /\ row2[n] = l /\ row2[new] = r /\ \A x \in D \ {n, p} : row2[x] = row[x]
    /\ KeyInserted(row2[p], row[p], a, row[n][m].key)
    /\ Links(row2[p], ChInserted(ch[p], a, n, new))
    /\ par2[new] = p
    /\ \A x \in D : par2[x] = IF x \in {ch[n][i] : i \in m + 1 .. Len(row[n]) + 1} THEN new ELSE par[x]

\* A node that is cut into two brothers, with the element between them in the
\* parent: the same shape, with one node more.
LEMMA CutShape ==
    ASSUME NEW D, NEW row, NEW par, NEW root, NEW top, NEW T, NEW ch, NEW lv, NEW lo, NEW hi,
           NEW n, NEW p, NEW a, NEW l, NEW r, NEW m, NEW new, NEW D2, NEW U, NEW row2, NEW par2,
           CutStep(D, row, par, root, top, T, ch, lv, lo, hi, n, p, a, l, r, m, new, D2, U, row2, par2)
    PROVE  \E ch2, lv2, lo2, hi2 :
              /\ Shape(D2, row2, par2, root, top, U, ch2, lv2, lo2, hi2)
              /\ Agree(T, lv2, lv)
<1> PICK Kids : Kids = {ch[n][i] : i \in m + 1 .. Len(row[n]) + 1}
  OBVIOUS
<1> /\ Shape(D, row, par, root, top, T, ch, lv, lo, hi)
    /\ n \in T /\ n # root /\ p = par[n] /\ a \in 1 .. Len(row[p]) + 1 /\ ch[p][a] = n
    /\ l \in Rows /\ r \in Rows /\ m \in Nat /\ IsCut(row[n], m, l, r)
    /\ new \in Nat \ {0} /\ new \notin D /\ D2 = D \cup {new}
    /\ row2 \in [D2 -> Rows] /\ par2 \in [D2 -> Nat]
    /\ row2[n] = l /\ row2[new] = r /\ \A x \in D \ {n, p} : row2[x] = row[x]
    /\ KeyInserted(row2[p], row[p], a, row[n][m].key)
    /\ Links(row2[p], ChInserted(ch[p], a, n, new))
    /\ par2[new] = p /\ \A x \in D : par2[x] = IF x \in Kids THEN new ELSE par[x]
  BY DEF CutStep
<1> DEFINE k == row[n][m].key
           T2 == T \cup {new}
           ch2 == [x \in T2 |-> IF x = p THEN ChInserted(ch[p], a, n, new)
                                ELSE IF x = new THEN ChTail(ch[n], m) ELSE ch[x]]
           lv2 == [x \in T2 |-> IF x = new THEN lv[n] ELSE lv[x]]
           lo2 == [x \in T2 |-> IF x = new THEN k ELSE lo[x]]
           hi2 == [x \in T2 |-> IF x = n THEN k ELSE IF x = new THEN hi[n] ELSE hi[x]]
<1> HIDE DEF k, T2, ch2, lv2, lo2, hi2
<1>1. BTyped(D, row, par, root, T, ch, lv, lo, hi)
  BY DEF Shape
<1>2. /\ D \in SUBSET (Nat \ {0}) /\ IsFiniteSet(D) /\ T \in SUBSET D /\ root \in T /\ 0 \notin D
      /\ \A x \in D : row[x] \in Rows /\ par[x] \in Nat
      /\ \A x \in T : x \in D /\ lv[x] \in Nat /\ lo[x] \in Int /\ hi[x] \in Int /\ ch[x] \in [Nat -> Nat]
  BY <1>1 DEF BTyped
<1>3. \A x \in D : Len(row[x]) \in Nat
  BY <1>2, RowFacts
<1>4. /\ p \in T /\ lv[p] = lv[n] + 1 /\ lv[n] < lv[root] /\ n # p /\ new # n /\ new # p /\ new \notin T
      /\ lv[p] > 0
  <2>1. p \in T /\ lv[p] = lv[n] + 1 /\ lv[n] < lv[root]
    BY NodeHangs
  <2>2. lv[n] \in Nat /\ n \in D /\ p \in D /\ new \notin T
    BY <1>2, <2>1
  <2>3. n # p /\ lv[p] > 0
    BY <2>1, <2>2
  <2>4. new # n /\ new # p
    BY <2>2
  <2> QED BY <2>1, <2>2, <2>3, <2>4
<1>5. /\ \A x \in T : x # p => ch2[x] = ch[x]
      /\ ch2[p] = ChInserted(ch[p], a, n, new) /\ ch2[new] = ChTail(ch[n], m)
      /\ \A x \in T : lv2[x] = lv[x] /\ lo2[x] = lo[x]
      /\ \A x \in T : x # n => hi2[x] = hi[x]
      /\ lv2[new] = lv[n] /\ lo2[new] = k /\ hi2[new] = hi[n] /\ hi2[n] = k
  BY <1>4 DEF T2, ch2, lv2, lo2, hi2
<1>6. /\ row[n] \in Rows /\ row[p] \in Rows /\ row2[p] \in Rows /\ Len(row[n]) \in Nat /\ Len(row[p]) \in Nat
      /\ Len(l) = m - 1 /\ Len(r) = Len(row[n]) - m /\ m \in 1 .. Len(row[n]) /\ k \in Nat
      /\ Len(l) \in Nat /\ Len(r) \in Nat
      /\ lo[n] \in Int /\ hi[n] \in Int /\ lo[p] \in Int /\ hi[p] \in Int
  <2>1. row[n] \in Rows /\ row[p] \in Rows /\ Len(row[n]) \in Nat /\ Len(row[p]) \in Nat
    BY <1>2, <1>3, <1>4
  <2>2. Len(l) = m - 1 /\ Len(r) = Len(row[n]) - m /\ m \in 1 .. Len(row[n])
    BY DEF IsCut
  <2>3. k \in Nat /\ Len(l) \in Nat /\ Len(r) \in Nat
    BY <2>1, <2>2, RowFacts DEF k
  <2>4. row2[p] \in Rows
    BY <1>2, <1>4
  <2> QED BY <1>2, <1>4, <2>1, <2>2, <2>3, <2>4
<1>7. /\ NodeFits(row, par, root, T, ch, lv, lo, hi, n) /\ NodeFits(row, par, root, T, ch, lv, lo, hi, p)
      /\ Ordered(row[n], lo[n], hi[n]) /\ Links(row[n], ch[n])
      /\ Ordered(row[p], lo[p], hi[p]) /\ Links(row[p], ch[p])
      /\ lv[n] = 0 => \A j \in Nat : ch[n][j] = 0
  <2>1. NodeFits(row, par, root, T, ch, lv, lo, hi, n) /\ NodeFits(row, par, root, T, ch, lv, lo, hi, p)
    BY <1>4 DEF Shape
  <2> QED BY <2>1 DEF NodeFits
\* The children of n and of p.
<1>8. ASSUME lv[n] > 0, NEW i \in 1 .. Len(row[n]) + 1
      PROVE  /\ ch[n][i] \in T /\ ch[n][i] # root /\ par[ch[n][i]] = n /\ lv[ch[n][i]] + 1 = lv[n]
             /\ lo[ch[n][i]] = LoAt(row[n], i, lo[n]) /\ hi[ch[n][i]] = HiAt(row[n], i, hi[n])
             /\ ch[n][i] # n /\ ch[n][i] # new
             /\ i <= m => ch[n][i] \notin Kids
             /\ i > m => ch[n][i] \in Kids
  <2>1. HangsAt(row, par, root, T, lv, lo, hi, n, i, ch[n][i])
    BY <1>8, ChildHangs
  <2>2. ch[n][i] # n /\ ch[n][i] # new
    BY <1>2, <1>4, <2>1 DEF HangsAt
  <2>3. i <= m => ch[n][i] \notin Kids
    <3>1. \A j \in m + 1 .. Len(row[n]) + 1 : j \in 1 .. Len(row[n]) + 1 /\ j > m
      BY <1>6
    <3>2. \A j \in 1 .. Len(row[n]) + 1 : ch[n][i] = ch[n][j] => i = j
      BY <1>8, GapsDiffer
    <3>3. ASSUME i <= m, ch[n][i] \in Kids PROVE FALSE
      <4>1. PICK j \in m + 1 .. Len(row[n]) + 1 : ch[n][i] = ch[n][j]
        BY <3>3
      <4>2. i = j /\ j > m
        BY <3>1, <3>2, <4>1
      <4> QED BY <1>6, <3>3, <4>2
    <3> QED BY <3>3
  <2>4. i > m => ch[n][i] \in Kids
    <3>1. i > m => i \in m + 1 .. Len(row[n]) + 1
      BY <1>6
    <3> QED BY <3>1
  <2> QED BY <2>1, <2>2, <2>3, <2>4 DEF HangsAt
<1>9. \A x \in D : x \in Kids => x \in T /\ par[x] = n /\ lv[n] > 0 /\ x # root /\ x # n /\ x # p
  <2> SUFFICES ASSUME NEW x \in D, x \in Kids
               PROVE  x \in T /\ par[x] = n /\ lv[n] > 0 /\ x # root /\ x # n /\ x # p
    OBVIOUS
  <2>1. PICK i \in m + 1 .. Len(row[n]) + 1 : x = ch[n][i]
    OBVIOUS
  <2>2. i \in Nat /\ i \in 1 .. Len(row[n]) + 1
    BY <1>6
  <2>3. lv[n] > 0
    <3>1. x # 0 /\ lv[n] \in Nat
      BY <1>2
    <3>2. lv[n] # 0
      BY <1>7, <2>1, <2>2, <3>1
    <3> QED BY <3>1, <3>2
  <2>4. x \in T /\ par[x] = n /\ x # root /\ lv[x] + 1 = lv[n] /\ x # n
    BY <1>8, <2>1, <2>2, <2>3
  <2>5. x # p
    <3>1. lv[n] \in Nat /\ lv[x] \in Nat
      BY <1>2, <2>4
    <3> QED BY <1>4, <2>4, <3>1
  <2> QED BY <2>3, <2>4, <2>5
<1>10. ASSUME NEW i \in 1 .. Len(row[p]) + 1
       PROVE  /\ ch[p][i] \in T /\ ch[p][i] # root /\ par[ch[p][i]] = p /\ lv[ch[p][i]] + 1 = lv[p]
              /\ lo[ch[p][i]] = LoAt(row[p], i, lo[p]) /\ hi[ch[p][i]] = HiAt(row[p], i, hi[p])
              /\ ch[p][i] # new /\ par2[ch[p][i]] = p
              /\ i # a => ch[p][i] # n
  <2>1. HangsAt(row, par, root, T, lv, lo, hi, p, i, ch[p][i])
    BY <1>4, ChildHangs
  <2>2. i # a => ch[p][i] # n
    BY <1>4, GapsDiffer
  <2>3. ch[p][i] \notin Kids /\ ch[p][i] \in D
    BY <1>2, <1>4, <1>9, <2>1 DEF HangsAt
  <2> QED BY <1>2, <1>4, <2>1, <2>2, <2>3 DEF HangsAt
\* Keys and bounds.
<1>11. /\ Ordered(l, lo[n], k) /\ Ordered(r, k, hi[n])
       /\ \A j \in 1 .. m : LoAt(l, j, lo[n]) = LoAt(row[n], j, lo[n])
                            /\ HiAt(l, j, k) = HiAt(row[n], j, hi[n])
       /\ \A j \in 1 .. Len(r) + 1 : LoAt(r, j, k) = LoAt(row[n], j + m, lo[n])
                                     /\ HiAt(r, j, hi[n]) = HiAt(row[n], j + m, hi[n])
       /\ Links(l, ch[n]) /\ Links(r, ChTail(ch[n], m))
       /\ lo[n] < k /\ k < hi[n]
  <2>1. Ordered(l, lo[n], k) /\ Ordered(r, k, hi[n]) /\ lo[n] < k /\ k < hi[n]
    BY <1>6, <1>7, CutOrder DEF k
  <2>2. /\ \A j \in 1 .. m : LoAt(l, j, lo[n]) = LoAt(row[n], j, lo[n])
                             /\ HiAt(l, j, k) = HiAt(row[n], j, hi[n])
        /\ \A j \in 1 .. Len(r) + 1 : LoAt(r, j, k) = LoAt(row[n], j + m, lo[n])
                                      /\ HiAt(r, j, hi[n]) = HiAt(row[n], j + m, hi[n])
    <3>1. PICK c \in Rows, x \in Int, y \in Int : c = row[n] /\ x = lo[n] /\ y = hi[n]
      BY <1>6
    <3>2. IsCut(c, m, l, r)
      BY <3>1
    <3>3. /\ \A j \in 1 .. m : LoAt(l, j, x) = LoAt(c, j, x) /\ HiAt(l, j, c[m].key) = HiAt(c, j, y)
          /\ \A j \in 1 .. Len(r) + 1 : LoAt(r, j, c[m].key) = LoAt(c, j + m, x)
                                        /\ HiAt(r, j, y) = HiAt(c, j + m, y)
      BY <3>2, CutBounds
    <3> QED BY <3>1, <3>3 DEF k
  <2>3. Links(l, ch[n]) /\ Links(r, ChTail(ch[n], m))
    <3>1. PICK c, d : c \in Rows /\ c = row[n] /\ d = ch[n]
      BY <1>6
    <3> c \in Rows
      BY <3>1
    <3>2. IsCut(c, m, l, r) /\ Links(c, d)
      BY <1>7, <3>1
    <3>3. Links(l, d) /\ Links(r, ChTail(d, m))
      BY <3>2, CutLinks
    <3> QED BY <3>1, <3>3
  <2> QED BY <2>1, <2>2, <2>3
<1>12. /\ Ordered(row2[p], lo[p], hi[p])
       /\ \A i \in 1 .. a : LoAt(row2[p], i, lo[p]) = LoAt(row[p], i, lo[p])
       /\ \A i \in 1 .. a - 1 : HiAt(row2[p], i, hi[p]) = HiAt(row[p], i, hi[p])
       /\ HiAt(row2[p], a, hi[p]) = k /\ LoAt(row2[p], a + 1, lo[p]) = k
       /\ \A i \in a .. Len(row[p]) + 1 : HiAt(row2[p], i + 1, hi[p]) = HiAt(row[p], i, hi[p])
       /\ \A i \in a + 1 .. Len(row[p]) + 1 : LoAt(row2[p], i + 1, lo[p]) = LoAt(row[p], i, lo[p])
  <2>1. LoAt(row[p], a, lo[p]) < k /\ k < HiAt(row[p], a, hi[p])
    BY <1>10, <1>11
  <2>2. KeyInserted(row2[p], row[p], a, k)
    BY DEF k
  <2>3. a \in Nat
    BY <1>6
  <2>4. PICK s \in Rows, q \in Rows, x \in Int, y \in Int :
            s = row[p] /\ q = row2[p] /\ x = lo[p] /\ y = hi[p]
    BY <1>6
  <2>5. /\ KeyInserted(q, s, a, k) /\ Ordered(s, x, y) /\ LoAt(s, a, x) < k /\ k < HiAt(s, a, y)
        /\ k \in Nat
    BY <1>6, <1>7, <2>1, <2>2, <2>4
  <2>6. /\ Ordered(q, x, y)
        /\ \A i \in 1 .. a : LoAt(q, i, x) = LoAt(s, i, x)
        /\ \A i \in 1 .. a - 1 : HiAt(q, i, y) = HiAt(s, i, y)
        /\ HiAt(q, a, y) = k /\ LoAt(q, a + 1, x) = k
        /\ \A i \in a .. Len(s) + 1 : HiAt(q, i + 1, y) = HiAt(s, i, y)
        /\ \A i \in a + 1 .. Len(s) + 1 : LoAt(q, i + 1, x) = LoAt(s, i, x)
    BY <2>3, <2>5, InsertOrder, SMTT(30)
  <2> QED BY <2>4, <2>6
<1>13. Len(row2[p]) = Len(row[p]) + 1
  BY DEF KeyInserted
<1>14. \A j \in Nat : /\ j < a => ch2[p][j] = ch[p][j]
                      /\ j = a => ch2[p][j] = n
                      /\ j = a + 1 => ch2[p][j] = new
                      /\ j > a + 1 => ch2[p][j] = ch[p][j - 1]
  BY <1>5, <1>6 DEF ChInserted
\* The new shape.
<1>15. BTyped(D2, row2, par2, root, T2, ch2, lv2, lo2, hi2)
  <2>1. IsFiniteSet(D2)
    BY <1>2, FS_AddElement
  <2>2. D2 \in SUBSET (Nat \ {0}) /\ T2 \in SUBSET D2 /\ root \in T2
    BY <1>2 DEF T2
  <2>3. ch[n] \in [Nat -> Nat] /\ ch[p] \in [Nat -> Nat]
    BY <1>2, <1>4
  <2>4. ChInserted(ch[p], a, n, new) \in [Nat -> Nat]
    <3>1. n \in Nat /\ new \in Nat /\ a \in Nat /\ a > 0
      BY <1>2, <1>6
    <3>2. ASSUME NEW j \in Nat
          PROVE  (IF j < a THEN ch[p][j] ELSE IF j = a THEN n ELSE IF j = a + 1 THEN new ELSE ch[p][j - 1])
                    \in Nat
      <4>1. CASE j < a
        BY <2>3, <4>1
      <4>2. CASE j = a \/ j = a + 1
        BY <3>1, <4>2
      <4>3. CASE j > a + 1
        <5>1. j - 1 \in Nat
          BY <3>1, <4>3
        <5> QED BY <2>3, <3>1, <4>3, <5>1
      <4> QED BY <3>1, <4>1, <4>2, <4>3
    <3> QED BY <3>2 DEF ChInserted
  <2>5. ChTail(ch[n], m) \in [Nat -> Nat]
    <3>1. \A j \in Nat : j + m \in Nat
      OBVIOUS
    <3> QED BY <2>3, <3>1 DEF ChTail
  <2>6. ch2 \in [T2 -> [Nat -> Nat]]
    BY <1>2, <2>4, <2>5 DEF ch2, T2
  <2>7. lv2 \in [T2 -> Nat] /\ lo2 \in [T2 -> Int] /\ hi2 \in [T2 -> Int]
    BY <1>2, <1>6, SMTT(30) DEF lv2, lo2, hi2, T2
  <2> QED BY <2>1, <2>2, <2>6, <2>7 DEF BTyped
<1>16. \A x \in D2 \ T2 : row2[x] = <<>>
  BY <1>4 DEF Shape, T2
<1>17. ASSUME NEW x \in T, x # n, x # p
       PROVE  NodeFits(row2, par2, root, T2, ch2, lv2, lo2, hi2, x)
  <2>1. NodeFits(row, par, root, T, ch, lv, lo, hi, x)
    BY DEF Shape
  <2>2. row2[x] = row[x] /\ ch2[x] = ch[x] /\ lv2[x] = lv[x] /\ lo2[x] = lo[x] /\ hi2[x] = hi[x]
    BY <1>2, <1>5, <1>17
  <2>3. ASSUME NEW c \in T, par[c] = x, c # root, lv[c] + 1 = lv[x]
        PROVE  /\ c \in T2 /\ c # root /\ par2[c] = x
               /\ lv2[c] = lv[c] /\ lo2[c] = lo[c] /\ hi2[c] = hi[c]
    <3>1. c \in T2 /\ c # n
      BY <1>17, <2>3 DEF T2
    <3>2. c \in D /\ c \notin Kids
      BY <1>2, <1>9, <1>17, <2>3
    <3> QED BY <1>5, <2>3, <3>1, <3>2
  <2> QED BY <2>1, <2>2, <2>3, Undisturbed
<1>18. NodeFits(row2, par2, root, T2, ch2, lv2, lo2, hi2, n)
  <2>1. ch2[n] = ch[n] /\ lv2[n] = lv[n] /\ lo2[n] = lo[n] /\ hi2[n] = k
    BY <1>4, <1>5
  <2>2. ASSUME lv[n] > 0, NEW j \in 1 .. m
        PROVE  HangsAt(row2, par2, root, T2, lv2, lo2, hi2, n, j, ch2[n][j])
    <3> DEFINE c == ch[n][j]
    <3>1. j \in 1 .. Len(row[n]) + 1 /\ j <= m
      BY <1>6
    <3>2. /\ c \in T /\ c # root /\ par[c] = n /\ lv[c] + 1 = lv[n]
          /\ lo[c] = LoAt(row[n], j, lo[n]) /\ hi[c] = HiAt(row[n], j, hi[n])
          /\ c # n /\ c \notin Kids
      BY <1>8, <2>2, <3>1
    <3> HIDE DEF c
    <3>3. c \in T2 /\ par2[c] = n /\ lv2[c] = lv[c] /\ lo2[c] = lo[c] /\ hi2[c] = hi[c]
      BY <1>2, <1>5, <3>2 DEF T2
    <3>4. lo[c] = LoAt(l, j, lo[n]) /\ hi[c] = HiAt(l, j, k)
      BY <1>11, <3>2
    <3>5. ch2[n][j] = c
      BY <2>1 DEF c
    <3> QED BY <2>1, <3>2, <3>3, <3>4, <3>5 DEF HangsAt
  <2>3. 1 .. Len(row2[n]) + 1 = 1 .. m
    BY <1>6
  <2>4. Ordered(row2[n], lo2[n], hi2[n]) /\ Links(row2[n], ch2[n])
    BY <1>11, <2>1
  <2>5. lv2[n] = 0 => \A j \in Nat : ch2[n][j] = 0
    BY <1>7, <2>1
  <2>6. lv2[n] > 0 => \A j \in 1 .. Len(row2[n]) + 1 :
                          HangsAt(row2, par2, root, T2, lv2, lo2, hi2, n, j, ch2[n][j])
    BY <2>1, <2>2, <2>3
  <2> QED BY <2>4, <2>5, <2>6 DEF NodeFits
<1>19. NodeFits(row2, par2, root, T2, ch2, lv2, lo2, hi2, new)
  <2>1. lv2[new] = lv[n] /\ lo2[new] = k /\ hi2[new] = hi[n] /\ row2[new] = r
    BY <1>5
  <2>2. \A j \in Nat : ch2[new][j] = ch[n][j + m]
    BY <1>5 DEF ChTail
  <2>3. ASSUME lv[n] > 0, NEW j \in 1 .. Len(r) + 1
        PROVE  HangsAt(row2, par2, root, T2, lv2, lo2, hi2, new, j, ch2[new][j])
    <3> DEFINE c == ch[n][j + m]
    <3>1. j + m \in 1 .. Len(row[n]) + 1 /\ j + m > m /\ j \in Nat
      <4>1. Len(r) = Len(row[n]) - m /\ m \in 1 .. Len(row[n]) /\ Len(row[n]) \in Nat
        BY <1>6
      <4> QED BY <4>1
    <3>2. /\ c \in T /\ c # root /\ par[c] = n /\ lv[c] + 1 = lv[n]
          /\ lo[c] = LoAt(row[n], j + m, lo[n]) /\ hi[c] = HiAt(row[n], j + m, hi[n])
          /\ c # n /\ c \in Kids
      BY <1>8, <2>3, <3>1
    <3>5. ch2[new][j] = c
      BY <2>2, <3>1
    <3> HIDE DEF c
    <3>3. c \in T2 /\ par2[c] = new /\ lv2[c] = lv[c] /\ lo2[c] = lo[c] /\ hi2[c] = hi[c]
      BY <1>2, <1>5, <3>2 DEF T2
    <3>4. lo[c] = LoAt(r, j, k) /\ hi[c] = HiAt(r, j, hi[n])
      BY <1>11, <3>2
    <3> QED BY <2>1, <3>2, <3>3, <3>4, <3>5 DEF HangsAt
  <2>4. Ordered(row2[new], lo2[new], hi2[new]) /\ Links(row2[new], ch2[new])
    BY <1>5, <1>11
  <2>5. lv2[new] = 0 => \A j \in Nat : ch2[new][j] = 0
    <3>1. \A j \in Nat : j + m \in Nat
      OBVIOUS
    <3> QED BY <1>7, <2>1, <2>2, <3>1
  <2>6. lv2[new] > 0 => \A j \in 1 .. Len(row2[new]) + 1 :
                          HangsAt(row2, par2, root, T2, lv2, lo2, hi2, new, j, ch2[new][j])
    BY <2>1, <2>3
  <2> QED BY <2>4, <2>5, <2>6 DEF NodeFits
<1>20. NodeFits(row2, par2, root, T2, ch2, lv2, lo2, hi2, p)
  <2>1. lv2[p] = lv[p] /\ lo2[p] = lo[p] /\ hi2[p] = hi[p]
    BY <1>4, <1>5
  <2>2. \A i \in 1 .. Len(row[p]) + 1 : LET c == ch[p][i] IN
            /\ c \in T2 /\ c # root /\ par2[c] = p /\ lv2[c] + 1 = lv[p]
            /\ lo2[c] = LoAt(row[p], i, lo[p]) /\ (i # a => hi2[c] = HiAt(row[p], i, hi[p]))
    <3> TAKE i \in 1 .. Len(row[p]) + 1
    <3> DEFINE c == ch[p][i]
    <3>1. /\ c \in T /\ c # root /\ lv[c] + 1 = lv[p] /\ par2[c] = p
          /\ lo[c] = LoAt(row[p], i, lo[p]) /\ hi[c] = HiAt(row[p], i, hi[p])
          /\ (i # a => c # n)
      BY <1>10
    <3> HIDE DEF c
    <3>2. /\ c \in T2 /\ c # root /\ par2[c] = p /\ lv2[c] + 1 = lv[p]
          /\ lo2[c] = LoAt(row[p], i, lo[p]) /\ (i # a => hi2[c] = HiAt(row[p], i, hi[p]))
      BY <1>5, <3>1 DEF T2
    <3> QED BY <3>2 DEF c
  <2>3. ASSUME NEW j \in 1 .. Len(row2[p]) + 1
        PROVE  HangsAt(row2, par2, root, T2, lv2, lo2, hi2, p, j, ch2[p][j])
    <3>0. j \in Nat /\ j \in 1 .. Len(row[p]) + 2
      BY <1>6, <1>13
    <3>1. CASE j < a
      <4>0. a \in Nat /\ a <= Len(row[p]) + 1 /\ Len(row[p]) \in Nat /\ 1 <= j
        BY <1>6, <2>3
      <4>1. j \in 1 .. Len(row[p]) + 1 /\ j \in 1 .. a /\ j \in 1 .. a - 1 /\ j # a
        BY <3>0, <3>1, <4>0
      <4>2. ch2[p][j] = ch[p][j]
        BY <1>14, <3>0, <3>1
      <4>3. LoAt(row2[p], j, lo[p]) = LoAt(row[p], j, lo[p]) /\ HiAt(row2[p], j, hi[p]) = HiAt(row[p], j, hi[p])
        BY <1>12, <4>1
      <4> QED BY <2>1, <2>2, <4>1, <4>2, <4>3 DEF HangsAt
    <3>2. CASE j = a
      <4>1. ch2[p][j] = n /\ ch[p][j] = n /\ j \in 1 .. a /\ j \in 1 .. Len(row[p]) + 1
        BY <1>6, <1>14, <3>0, <3>2
      <4>2. LoAt(row2[p], j, lo[p]) = LoAt(row[p], j, lo[p]) /\ HiAt(row2[p], j, hi[p]) = k
        BY <1>12, <3>2, <4>1
      <4>3. hi2[n] = k
        BY <1>5
      <4> QED BY <2>1, <2>2, <4>1, <4>2, <4>3 DEF HangsAt
    <3>3. CASE j = a + 1
      <4>1. ch2[p][j] = new
        BY <1>14, <3>0, <3>3
      <4>2. hi[n] = HiAt(row[p], a, hi[p])
        BY <1>10
      <4>3. a \in a .. Len(row[p]) + 1
        BY <1>6
      <4>4. LoAt(row2[p], j, lo[p]) = k /\ HiAt(row2[p], j, hi[p]) = HiAt(row[p], a, hi[p])
        BY <1>12, <3>3, <4>3
      <4>5. new \in T2 /\ new # root /\ par2[new] = p /\ lv2[new] + 1 = lv[p]
        BY <1>2, <1>4, <1>5 DEF T2
      <4> QED BY <1>5, <2>1, <4>1, <4>2, <4>4, <4>5 DEF HangsAt
    <3>4. CASE j > a + 1
      <4> DEFINE i == j - 1
      <4>1. /\ i \in 1 .. Len(row[p]) + 1 /\ i \in a .. Len(row[p]) + 1 /\ i \in a + 1 .. Len(row[p]) + 1
            /\ i # a /\ j = i + 1
        BY <1>6, <3>0, <3>4
      <4>2. ch2[p][j] = ch[p][i]
        BY <1>14, <3>0, <3>4
      <4> HIDE DEF i
      <4>3. LoAt(row2[p], j, lo[p]) = LoAt(row[p], i, lo[p]) /\ HiAt(row2[p], j, hi[p]) = HiAt(row[p], i, hi[p])
        BY <1>12, <4>1
      <4> QED BY <2>1, <2>2, <4>1, <4>2, <4>3 DEF HangsAt
    <3> QED BY <1>6, <3>0, <3>1, <3>2, <3>3, <3>4
  <2>4. Ordered(row2[p], lo2[p], hi2[p]) /\ Links(row2[p], ch2[p])
    BY <1>5, <1>12, <2>1
  <2>5. lv2[p] # 0
    BY <1>4, <2>1
  <2> QED BY <2>3, <2>4, <2>5 DEF NodeFits
<1>21. ASSUME NEW x \in T, x # root PROVE Hangs(row2, par2, root, T2, ch2, lv2, x)
  <2>1. PICK y \in T : /\ y = par[x] /\ lv[x] < lv[root] /\ lv[y] > 0
                       /\ \E i \in 1 .. Len(row[y]) + 1 : ch[y][i] = x
    <3>1. Hangs(row, par, root, T, ch, lv, x)
      BY <1>21 DEF Shape
    <3> QED BY <3>1 DEF Hangs
  <2>2. PICK i \in 1 .. Len(row[y]) + 1 : ch[y][i] = x
    BY <2>1
  <2>3. lv2[x] < lv2[root] /\ lv2[y] > 0 /\ y \in T2 /\ x \in D
    BY <1>2, <1>5, <2>1 DEF T2
  <2>4. CASE y = n /\ i <= m
    <3>1. par2[x] = n
      BY <1>8, <2>1, <2>2, <2>3, <2>4, SMTT(30)
    <3>2. i \in 1 .. Len(row2[n]) + 1 /\ ch2[n][i] = x
      <4>1. Len(l) + 1 = m /\ i \in Nat /\ i >= 1 /\ m \in Nat
        BY <1>6, <2>4
      <4>2. ch2[n] = ch[n] /\ Len(row2[n]) = Len(l)
        BY <1>4, <1>5
      <4> QED BY <2>2, <2>4, <4>1, <4>2
    <3> QED BY <2>3, <2>4, <3>1, <3>2 DEF Hangs
  <2>5. CASE y = n /\ i > m
    <3>1. par2[x] = new
      BY <1>8, <2>1, <2>2, <2>3, <2>5
    <3> DEFINE j == i - m
    <3>2. j \in 1 .. Len(row2[new]) + 1 /\ j \in Nat /\ j + m = i
      BY <1>6, <2>2, <2>5
    <3> HIDE DEF j
    <3>3. ch2[new][j] = x
      BY <1>5, <2>2, <2>5, <3>2 DEF ChTail
    <3>4. new \in T2 /\ lv2[new] > 0
      BY <1>5, <2>1, <2>5 DEF T2
    <3> QED BY <2>3, <3>1, <3>2, <3>3, <3>4 DEF Hangs
  <2>6. CASE y # n
    <3>1. par2[x] = y
      BY <1>9, <2>1, <2>3, <2>6
    <3>2. CASE y # p
      <4>1. row2[y] = row[y] /\ ch2[y] = ch[y]
        BY <1>2, <1>5, <2>1, <2>6, <3>2
      <4> QED BY <2>2, <2>3, <3>1, <4>1 DEF Hangs
    <3>3. CASE y = p
      <4>0. i \in Nat /\ a \in Nat /\ i + 1 \in Nat
        <5>1. i \in 1 .. Len(row[p]) + 1 /\ a \in 1 .. Len(row[p]) + 1 /\ Len(row[p]) \in Nat
          BY <1>6, <2>2, <3>3
        <5> QED BY <5>1
      <4>1. CASE i < a
        <5>0. i \in 1 .. Len(row2[p]) + 1
          BY <1>6, <1>13, <3>3, <4>0
        <5>1. i \in 1 .. Len(row2[p]) + 1 /\ ch2[p][i] = x
          BY <1>14, <2>2, <3>3, <4>0, <4>1, <5>0
        <5> QED BY <2>3, <3>1, <3>3, <5>1 DEF Hangs
      <4>2. CASE i = a
        <5>1. i \in 1 .. Len(row2[p]) + 1 /\ ch2[p][i] = x
          BY <1>6, <1>13, <1>14, <2>2, <3>3, <4>0, <4>2, SMTT(30)
        <5> QED BY <2>3, <3>1, <3>3, <5>1 DEF Hangs
      <4>3. CASE i > a
        <5>1. i + 1 \in 1 .. Len(row2[p]) + 1 /\ i + 1 > a + 1 /\ (i + 1) - 1 = i
          BY <1>6, <1>13, <2>2, <3>3, <4>0, <4>3
        <5>2. ch2[p][i + 1] = x
          BY <1>14, <2>2, <3>3, <4>0, <5>1
        <5> QED BY <2>3, <3>1, <3>3, <5>1, <5>2 DEF Hangs
      <4> QED BY <4>0, <4>1, <4>2, <4>3
    <3> QED BY <3>2, <3>3
  <2>7. i <= m \/ i > m
    BY <1>3, <1>2, <2>1
  <2> QED BY <2>4, <2>5, <2>6, <2>7
<1>22. Hangs(row2, par2, root, T2, ch2, lv2, new)
  <2>1. p \in T2 /\ lv2[new] < lv2[root] /\ lv2[p] > 0
    BY <1>2, <1>4, <1>5 DEF T2
  <2>2. a + 1 \in 1 .. Len(row2[p]) + 1 /\ a + 1 \in Nat
    BY <1>6, <1>13
  <2>3. ch2[p][a + 1] = new
    BY <1>14, <2>2
  <2> QED BY <2>1, <2>2, <2>3 DEF Hangs
<1>23. lo2[root] = -1 /\ hi2[root] = top /\ (par2[root] = 0 \/ par2[root] \in D2 \ T2)
  <2>1. lo[root] = -1 /\ hi[root] = top /\ (par[root] = 0 \/ par[root] \in D \ T)
    BY DEF Shape
  <2>2. par2[root] = par[root]
    BY <1>2, <1>9
  <2> QED BY <1>2, <1>5, <2>1, <2>2 DEF T2
<1>24. Shape(D2, row2, par2, root, top, T2, ch2, lv2, lo2, hi2)
  <2>1. ASSUME NEW x \in T2 PROVE NodeFits(row2, par2, root, T2, ch2, lv2, lo2, hi2, x)
    <3>1. x \in T \/ x = new
      BY DEF T2
    <3> QED BY <1>17, <1>18, <1>19, <1>20, <3>1
  <2>2. ASSUME NEW x \in T2 \ {root} PROVE Hangs(row2, par2, root, T2, ch2, lv2, x)
    <3>1. x \in T \/ x = new
      BY DEF T2
    <3> QED BY <1>21, <1>22, <3>1
  <2> QED BY <1>15, <1>16, <1>23, <2>1, <2>2 DEF Shape
<1>25. Shape(D2, row2, par2, root, top, U, ch2, lv2, lo2, hi2)
  BY <1>24 DEF T2, CutStep
<1>26. Agree(T, lv2, lv)
  BY <1>5 DEF Agree
<1> QED BY <1>25, <1>26

\* Two siblings become one, with the element between them.
MergeStep(D, row, par, root, top, T, ch, lv, lo, hi, p, a, L, R, C, m, D2, U, row2, par2) ==
    /\ Shape(D, row, par, root, top, T, ch, lv, lo, hi)
    /\ p \in T /\ lv[p] > 0 /\ a \in 1 .. Len(row[p]) /\ L = ch[p][a] /\ R = ch[p][a + 1]
    /\ C \in Rows /\ m \in Nat /\ IsCut(C, m, row[L], row[R])
    /\ C[m].key = row[p][a].key /\ C[m].left = ch[L][m] /\ C[m].right = ch[R][1]
    /\ D2 = D \ {R} /\ U = T \ {R} /\ row2 \in [D2 -> Rows] /\ par2 \in [D2 -> Nat]
    /\ row2[L] = C /\ \A x \in D \ {L, R, p} : row2[x] = row[x]
    /\ KeyRemoved(row2[p], row[p], a) /\ Links(row2[p], ChRemoved(ch[p], a))
    /\ \A x \in D2 : par2[x] = IF x \in {ch[R][i] : i \in 1 .. Len(row[R]) + 1} THEN L ELSE par[x]

\* Two brothers that are joined around the element between them, which leaves the
\* parent: the same shape, with one node less.
LEMMA MergeShape ==
    ASSUME NEW D, NEW row, NEW par, NEW root, NEW top, NEW T, NEW ch, NEW lv, NEW lo, NEW hi,
           NEW p, NEW a, NEW L, NEW R, NEW C, NEW m, NEW D2, NEW U, NEW row2, NEW par2,
           MergeStep(D, row, par, root, top, T, ch, lv, lo, hi, p, a, L, R, C, m, D2, U, row2, par2)
    PROVE  \E ch2, lv2, lo2, hi2 :
              /\ Shape(D2, row2, par2, root, top, U, ch2, lv2, lo2, hi2)
              /\ Agree(U, lv2, lv)
              /\ ch2[p] = ChRemoved(ch[p], a) /\ ch2[L] = ChJoined(ch[L], m, ch[R])
              /\ L \in U /\ R \in T /\ p \in U /\ L # p
<1> PICK Kids : Kids = {ch[R][i] : i \in 1 .. Len(row[R]) + 1}
  OBVIOUS
<1> /\ Shape(D, row, par, root, top, T, ch, lv, lo, hi)
    /\ p \in T /\ lv[p] > 0 /\ a \in 1 .. Len(row[p]) /\ L = ch[p][a] /\ R = ch[p][a + 1]
    /\ C \in Rows /\ m \in Nat /\ IsCut(C, m, row[L], row[R])
    /\ C[m].key = row[p][a].key /\ C[m].left = ch[L][m] /\ C[m].right = ch[R][1]
    /\ D2 = D \ {R} /\ row2 \in [D2 -> Rows] /\ par2 \in [D2 -> Nat]
    /\ row2[L] = C /\ \A x \in D \ {L, R, p} : row2[x] = row[x]
    /\ KeyRemoved(row2[p], row[p], a) /\ Links(row2[p], ChRemoved(ch[p], a))
    /\ \A x \in D2 : par2[x] = IF x \in Kids THEN L ELSE par[x]
  BY DEF MergeStep
<1> DEFINE k == row[p][a].key
           T2 == T \ {R}
           ch2 == [x \in T2 |-> IF x = p THEN ChRemoved(ch[p], a)
                                ELSE IF x = L THEN ChJoined(ch[L], m, ch[R]) ELSE ch[x]]
           lv2 == [x \in T2 |-> lv[x]]
           lo2 == [x \in T2 |-> lo[x]]
           hi2 == [x \in T2 |-> IF x = L THEN hi[R] ELSE hi[x]]
<1> HIDE DEF k, T2, ch2, lv2, lo2, hi2
<1>1. BTyped(D, row, par, root, T, ch, lv, lo, hi)
  BY DEF Shape
<1>2. /\ D \in SUBSET (Nat \ {0}) /\ IsFiniteSet(D) /\ T \in SUBSET D /\ root \in T /\ 0 \notin D
      /\ \A x \in D : row[x] \in Rows /\ par[x] \in Nat
      /\ \A x \in T : x \in D /\ lv[x] \in Nat /\ lo[x] \in Int /\ hi[x] \in Int /\ ch[x] \in [Nat -> Nat]
  BY <1>1 DEF BTyped
<1>3. \A x \in D : Len(row[x]) \in Nat
  BY <1>2, RowFacts
<1>4. Len(row[p]) \in Nat /\ a \in 1 .. Len(row[p]) + 1 /\ a + 1 \in 1 .. Len(row[p]) + 1
      /\ a \in Nat /\ a \in 1 .. Len(row[p]) /\ a # a + 1
  <2>1. Len(row[p]) \in Nat
    BY <1>2, <1>3
  <2> QED BY <2>1
\* The children of p.
<1>5. ASSUME NEW i \in 1 .. Len(row[p]) + 1
      PROVE  /\ ch[p][i] \in T /\ ch[p][i] # root /\ par[ch[p][i]] = p /\ lv[ch[p][i]] + 1 = lv[p]
             /\ lo[ch[p][i]] = LoAt(row[p], i, lo[p]) /\ hi[ch[p][i]] = HiAt(row[p], i, hi[p])
             /\ i # a => ch[p][i] # L
             /\ i # a + 1 => ch[p][i] # R
  <2>1. HangsAt(row, par, root, T, lv, lo, hi, p, i, ch[p][i])
    BY ChildHangs
  <2>2. \A j \in 1 .. Len(row[p]) + 1 : ch[p][i] = ch[p][j] => i = j
    BY GapsDiffer
  <2>3. (i # a => ch[p][i] # L) /\ (i # a + 1 => ch[p][i] # R)
    BY <1>4, <2>2
  <2> QED BY <2>1, <2>3 DEF HangsAt
<1>6. /\ L \in T /\ L # root /\ par[L] = p /\ lv[L] + 1 = lv[p]
      /\ lo[L] = LoAt(row[p], a, lo[p]) /\ hi[L] = HiAt(row[p], a, hi[p])
      /\ R \in T /\ R # root /\ par[R] = p /\ lv[R] + 1 = lv[p]
      /\ lo[R] = LoAt(row[p], a + 1, lo[p]) /\ hi[R] = HiAt(row[p], a + 1, hi[p])
      /\ L # R
  BY <1>4, <1>5
<1>7. /\ L # p /\ R # p /\ lv[L] = lv[R] /\ L \in T2 /\ p \in T2 /\ root \in T2 /\ L \in D /\ R \in D
      /\ \A x \in T2 : x \in T /\ x \in D2 /\ x # R
      /\ \A x \in T : x # R => x \in T2
  <2>1. lv[L] \in Nat /\ lv[R] \in Nat /\ lv[p] \in Nat
    BY <1>2, <1>6
  <2>2. L # p /\ R # p /\ lv[L] = lv[R]
    BY <1>6, <2>1, SMTT(30)
  <2> QED BY <1>2, <1>6, <2>2 DEF T2
<1>8. /\ hi[L] = k /\ lo[R] = k /\ k \in Nat
  <2>1. hi[L] = k
    <3>1. ~(a > Len(row[p]))
      BY <1>4
    <3> QED BY <1>6, <3>1 DEF HiAt, k
  <2>2. lo[R] = k
    <3>1. a + 1 # 1 /\ (a + 1) - 1 = a
      BY <1>4
    <3> QED BY <1>6, <3>1 DEF LoAt, k
  <2>3. k \in Nat
    BY <1>2, <1>4, RowFacts DEF k
  <2> QED BY <2>1, <2>2, <2>3
<1>9. /\ \A x \in T2 : x # p /\ x # L => ch2[x] = ch[x]
      /\ ch2[p] = ChRemoved(ch[p], a) /\ ch2[L] = ChJoined(ch[L], m, ch[R])
      /\ \A x \in T2 : lv2[x] = lv[x] /\ lo2[x] = lo[x]
      /\ \A x \in T2 : x # L => hi2[x] = hi[x]
      /\ hi2[L] = hi[R]
  BY <1>7 DEF ch2, lv2, lo2, hi2
<1>10. /\ row[L] \in Rows /\ row[R] \in Rows /\ row[p] \in Rows /\ row2[p] \in Rows
       /\ Len(C) \in Nat /\ Len(row[L]) \in Nat /\ Len(row[R]) \in Nat
       /\ Len(row[L]) = m - 1 /\ Len(row[R]) = Len(C) - m /\ m \in 1 .. Len(C)
       /\ lo[L] \in Int /\ hi[R] \in Int /\ lo[p] \in Int /\ hi[p] \in Int
  <2>1. Len(row[L]) = m - 1 /\ Len(row[R]) = Len(C) - m /\ m \in 1 .. Len(C)
    BY DEF IsCut
  <2>2. Len(C) \in Nat
    BY RowFacts
  <2>3. row2[p] \in Rows
    BY <1>2, <1>7
  <2> QED BY <1>2, <1>3, <1>6, <1>7, <2>1, <2>2, <2>3
<1>11. \A x \in T : /\ Ordered(row[x], lo[x], hi[x]) /\ Links(row[x], ch[x])
                    /\ lv[x] = 0 => \A j \in Nat : ch[x][j] = 0
  BY DEF Shape, NodeFits
\* The children of L and R.
<1>12. ASSUME NEW y \in {L, R}, lv[y] > 0, NEW i \in 1 .. Len(row[y]) + 1
       PROVE  /\ ch[y][i] \in T2 /\ ch[y][i] # root /\ lv[ch[y][i]] + 1 = lv[y] /\ par[ch[y][i]] = y
              /\ lo[ch[y][i]] = LoAt(row[y], i, lo[y]) /\ hi[ch[y][i]] = HiAt(row[y], i, hi[y])
              /\ ch[y][i] # L
  <2>1. y \in T
    BY <1>6
  <2>2. HangsAt(row, par, root, T, lv, lo, hi, y, i, ch[y][i])
    BY <1>12, <2>1, ChildHangs
  <2>3. ch[y][i] # L /\ ch[y][i] # R
    <3>1. lv[ch[y][i]] + 1 = lv[y] /\ lv[y] \in Nat /\ lv[y] = lv[L] /\ lv[y] = lv[R]
      BY <1>2, <1>7, <2>1, <2>2 DEF HangsAt
    <3>2. ch[y][i] \in T
      BY <2>2 DEF HangsAt
    <3>3. lv[ch[y][i]] \in Nat
      BY <1>2, <3>2
    <3>4. lv[ch[y][i]] # lv[y]
      BY <3>1, <3>3
    <3> QED BY <3>1, <3>4
  <2> QED BY <1>7, <2>2, <2>3 DEF HangsAt
<1>13. \A x \in D : x \in Kids => x \in T2 /\ par[x] = R /\ lv[R] > 0 /\ x # root /\ x # L /\ x # p
  <2> SUFFICES ASSUME NEW x \in D, x \in Kids
               PROVE  x \in T2 /\ par[x] = R /\ lv[R] > 0 /\ x # root /\ x # L /\ x # p
    OBVIOUS
  <2>1. PICK i \in 1 .. Len(row[R]) + 1 : x = ch[R][i]
    OBVIOUS
  <2>2. lv[R] > 0
    <3>0. Len(row[R]) \in Nat
      BY <1>10
    <3>4. i \in Nat
      BY <2>1, <3>0
    <3>1. x # 0 /\ lv[R] \in Nat /\ i \in Nat
      BY <1>2, <1>6, <3>4
    <3>2. lv[R] # 0
      BY <1>6, <1>11, <2>1, <3>1
    <3> QED BY <3>1, <3>2
  <2>3. x \in T2 /\ par[x] = R /\ x # root /\ lv[x] + 1 = lv[R] /\ x # L
    BY <1>12, <2>1, <2>2
  <2>4. x # p
    <3>1. lv[R] \in Nat /\ lv[x] \in Nat
      BY <1>2, <1>6, <1>7, <2>3
    <3> QED BY <1>6, <2>3, <3>1
  <2> QED BY <2>2, <2>3, <2>4
\* Keys and bounds.
<1>14. Ordered(C, lo[L], hi[R]) /\ Links(C, ChJoined(ch[L], m, ch[R]))
  <2>1. PICK l, r, x, y, d, e :
            /\ l \in Rows /\ r \in Rows /\ x \in Int /\ y \in Int
            /\ l = row[L] /\ r = row[R] /\ x = lo[L] /\ y = hi[R] /\ d = ch[L] /\ e = ch[R]
    BY <1>10
  <2> l \in Rows /\ r \in Rows /\ x \in Int /\ y \in Int
    BY <2>1
  <2>2. /\ Ordered(l, x, C[m].key) /\ Ordered(r, C[m].key, y) /\ Links(l, d) /\ Links(r, e)
        /\ C[m].left = d[m] /\ C[m].right = e[1] /\ IsCut(C, m, l, r)
    BY <1>6, <1>8, <1>11, <2>1 DEF k
  <2>3. x < C[m].key /\ C[m].key < y
    BY <2>2 DEF Ordered
  <2>4. Ordered(C, x, y)
    BY <2>2, <2>3, CutOrder
  <2>5. Links(C, ChJoined(d, m, e))
    BY <2>2, JoinLinks
  <2> QED BY <2>1, <2>4, <2>5
<1>15. /\ \A j \in 1 .. m : LoAt(row[L], j, lo[L]) = LoAt(C, j, lo[L])
                            /\ HiAt(row[L], j, hi[L]) = HiAt(C, j, hi[R])
       /\ \A j \in 1 .. Len(row[R]) + 1 : LoAt(row[R], j, lo[R]) = LoAt(C, j + m, lo[L])
                                          /\ HiAt(row[R], j, hi[R]) = HiAt(C, j + m, hi[R])
  <2>1. PICK l \in Rows, r \in Rows, x \in Int, y \in Int :
            l = row[L] /\ r = row[R] /\ x = lo[L] /\ y = hi[R]
    BY <1>10
  <2>2. IsCut(C, m, l, r)
    BY <2>1
  <2>3. /\ \A j \in 1 .. m : LoAt(l, j, x) = LoAt(C, j, x) /\ HiAt(l, j, C[m].key) = HiAt(C, j, y)
        /\ \A j \in 1 .. Len(r) + 1 : LoAt(r, j, C[m].key) = LoAt(C, j + m, x)
                                      /\ HiAt(r, j, y) = HiAt(C, j + m, y)
    BY <2>2, CutBounds
  <2> QED BY <1>8, <2>1, <2>3 DEF k
<1>16. /\ Ordered(row2[p], lo[p], hi[p])
       /\ \A i \in 1 .. a : LoAt(row2[p], i, lo[p]) = LoAt(row[p], i, lo[p])
       /\ \A i \in 1 .. a - 1 : HiAt(row2[p], i, hi[p]) = HiAt(row[p], i, hi[p])
       /\ HiAt(row2[p], a, hi[p]) = HiAt(row[p], a + 1, hi[p])
       /\ \A i \in a + 1 .. Len(row[p]) : /\ HiAt(row2[p], i, hi[p]) = HiAt(row[p], i + 1, hi[p])
                                          /\ LoAt(row2[p], i, lo[p]) = LoAt(row[p], i + 1, lo[p])
  <2>1. PICK s \in Rows, q \in Rows, x \in Int, y \in Int :
            s = row[p] /\ q = row2[p] /\ x = lo[p] /\ y = hi[p]
    BY <1>10
  <2>2. KeyRemoved(q, s, a) /\ Ordered(s, x, y) /\ a \in Nat
    BY <1>4, <1>11, <2>1
  <2>3. /\ Ordered(q, x, y)
        /\ \A i \in 1 .. a : LoAt(q, i, x) = LoAt(s, i, x)
        /\ \A i \in 1 .. a - 1 : HiAt(q, i, y) = HiAt(s, i, y)
        /\ HiAt(q, a, y) = HiAt(s, a + 1, y)
        /\ \A i \in a + 1 .. Len(s) : /\ HiAt(q, i, y) = HiAt(s, i + 1, y)
                                      /\ LoAt(q, i, x) = LoAt(s, i + 1, x)
    BY <2>2, RemoveOrder
  <2> QED BY <2>1, <2>3
<1>17. Len(row2[p]) = Len(row[p]) - 1
  BY DEF KeyRemoved
<1>18. \A j \in Nat : (j <= a => ch2[p][j] = ch[p][j]) /\ (j > a => ch2[p][j] = ch[p][j + 1])
  BY <1>9 DEF ChRemoved
<1>19. \A j \in Nat : (j <= m => ch2[L][j] = ch[L][j]) /\ (j > m => ch2[L][j] = ch[R][j - m])
  BY <1>9 DEF ChJoined
\* The new shape.
<1>20. BTyped(D2, row2, par2, root, T2, ch2, lv2, lo2, hi2)
  <2>1. IsFiniteSet(D2)
    <3>1. D2 \subseteq D
      OBVIOUS
    <3> QED BY <1>2, <3>1, FS_Subset
  <2>2. D2 \in SUBSET (Nat \ {0}) /\ T2 \in SUBSET D2
    BY <1>2, <1>7
  <2>3. ch[L] \in [Nat -> Nat] /\ ch[R] \in [Nat -> Nat] /\ ch[p] \in [Nat -> Nat]
    BY <1>2, <1>6
  <2>4. ChRemoved(ch[p], a) \in [Nat -> Nat]
    <3>1. \A j \in Nat : j + 1 \in Nat
      OBVIOUS
    <3> QED BY <2>3, <3>1 DEF ChRemoved
  <2>5. ChJoined(ch[L], m, ch[R]) \in [Nat -> Nat]
    <3>1. \A j \in Nat : j > m => j - m \in Nat
      OBVIOUS
    <3>2. \A j \in Nat : (IF j <= m THEN ch[L][j] ELSE ch[R][j - m]) \in Nat
      <4> TAKE j \in Nat
      <4>1. CASE j <= m
        BY <2>3, <4>1
      <4>2. CASE ~(j <= m)
        <5>1. j - m \in Nat
          BY <3>1, <4>2
        <5> QED BY <2>3, <4>2, <5>1
      <4> QED BY <4>1, <4>2
    <3> QED BY <3>2 DEF ChJoined
  <2>6. ch2 \in [T2 -> [Nat -> Nat]]
    BY <1>2, <1>7, <2>4, <2>5 DEF ch2
  <2>7. lv2 \in [T2 -> Nat] /\ lo2 \in [T2 -> Int] /\ hi2 \in [T2 -> Int]
    BY <1>2, <1>7, <1>10 DEF lv2, lo2, hi2
  <2> QED BY <1>7, <2>1, <2>2, <2>6, <2>7 DEF BTyped
<1>21. \A x \in D2 \ T2 : row2[x] = <<>>
  <2>1. \A x \in D \ T : row[x] = <<>>
    BY DEF Shape
  <2> QED BY <1>6, <1>7, <2>1
<1>22. ASSUME NEW x \in T2, x # L, x # p
       PROVE  NodeFits(row2, par2, root, T2, ch2, lv2, lo2, hi2, x)
  <2>1. NodeFits(row, par, root, T, ch, lv, lo, hi, x)
    BY <1>7 DEF Shape
  <2>2. row2[x] = row[x] /\ ch2[x] = ch[x] /\ lv2[x] = lv[x] /\ lo2[x] = lo[x] /\ hi2[x] = hi[x]
    BY <1>2, <1>7, <1>9, <1>22
  <2>3. ASSUME NEW c \in T, par[c] = x, c # root, lv[c] + 1 = lv[x]
        PROVE  /\ c \in T2 /\ c # root /\ par2[c] = x
               /\ lv2[c] = lv[c] /\ lo2[c] = lo[c] /\ hi2[c] = hi[c]
    <3>1. c \in T2 /\ c # L
      BY <1>6, <1>7, <1>22, <2>3
    <3>2. c \in D /\ c \notin Kids
      BY <1>2, <1>7, <1>13, <1>22, <2>3
    <3>3. par2[c] = x
      BY <1>7, <2>3, <3>1, <3>2
    <3> QED BY <1>9, <2>3, <3>1, <3>3
  <2> QED BY <2>1, <2>2, <2>3, Undisturbed
<1>23. NodeFits(row2, par2, root, T2, ch2, lv2, lo2, hi2, L)
  <2>1. lv2[L] = lv[L] /\ lo2[L] = lo[L] /\ hi2[L] = hi[R] /\ row2[L] = C
    BY <1>7, <1>9
  <2>2. ASSUME lv[L] > 0, NEW j \in 1 .. Len(C) + 1
        PROVE  HangsAt(row2, par2, root, T2, lv2, lo2, hi2, L, j, ch2[L][j])
    <3>0. j \in Nat
      BY <1>10
    <3>1. CASE j <= m
      <4> DEFINE c == ch[L][j]
      <4>1. j \in 1 .. Len(row[L]) + 1 /\ j \in 1 .. m
        BY <1>10, <3>0, <3>1
      <4>2. /\ c \in T2 /\ c # root /\ par[c] = L /\ lv[c] + 1 = lv[L]
            /\ lo[c] = LoAt(row[L], j, lo[L]) /\ hi[c] = HiAt(row[L], j, hi[L]) /\ c # L
        BY <1>12, <2>2, <4>1
      <4>3. ch2[L][j] = c
        BY <1>19, <3>0, <3>1
      <4> HIDE DEF c
      <4>4. c \in D /\ c \in D2 /\ c \notin Kids
        BY <1>2, <1>6, <1>7, <1>13, <4>2
      <4>5. par2[c] = L /\ lv2[c] = lv[c] /\ lo2[c] = lo[c] /\ hi2[c] = hi[c]
        BY <1>9, <4>2, <4>4
      <4>6. lo[c] = LoAt(C, j, lo[L]) /\ hi[c] = HiAt(C, j, hi[R])
        BY <1>15, <4>1, <4>2
      <4> QED BY <2>1, <4>2, <4>3, <4>5, <4>6 DEF HangsAt
    <3>2. CASE j > m
      <4> DEFINE i == j - m
      <4>1. i \in 1 .. Len(row[R]) + 1 /\ j = i + m
        BY <1>10, <3>0, <3>2
      <4>3. ch2[L][j] = ch[R][i]
        BY <1>19, <3>0, <3>2
      <4> HIDE DEF i
      <4> DEFINE c == ch[R][i]
      <4>2. /\ c \in T2 /\ c # root /\ par[c] = R /\ lv[c] + 1 = lv[R]
            /\ lo[c] = LoAt(row[R], i, lo[R]) /\ hi[c] = HiAt(row[R], i, hi[R]) /\ c # L
            /\ c \in Kids
        BY <1>7, <1>12, <2>2, <4>1
      <4>4. ch2[L][j] = c
        BY <4>3
      <4> HIDE DEF c
      <4>5. par2[c] = L /\ lv2[c] = lv[c] /\ lo2[c] = lo[c] /\ hi2[c] = hi[c]
        BY <1>7, <1>9, <4>2
      <4>6. lo[c] = LoAt(C, j, lo[L]) /\ hi[c] = HiAt(C, j, hi[R])
        BY <1>15, <4>1, <4>2
      <4> QED BY <1>7, <2>1, <4>2, <4>4, <4>5, <4>6 DEF HangsAt
    <3> QED BY <3>0, <3>1, <3>2
  <2>3. Ordered(row2[L], lo2[L], hi2[L]) /\ Links(row2[L], ch2[L])
    BY <1>9, <1>14, <2>1
  <2>4. lv2[L] = 0 => \A j \in Nat : ch2[L][j] = 0
    <3> SUFFICES ASSUME lv[L] = 0, NEW j \in Nat PROVE ch2[L][j] = 0
      BY <2>1
    <3>1. CASE j <= m
      BY <1>6, <1>11, <1>19, <3>1, SMTT(30)
    <3>2. CASE j > m
      <4>1. j - m \in Nat /\ lv[R] = 0
        BY <1>7, <3>2
      <4> QED BY <1>6, <1>11, <1>19, <3>2, <4>1, ZenonT(60)
    <3> QED BY <3>1, <3>2
  <2>5. lv2[L] > 0 => \A j \in 1 .. Len(row2[L]) + 1 :
                          HangsAt(row2, par2, root, T2, lv2, lo2, hi2, L, j, ch2[L][j])
    BY <2>1, <2>2
  <2> QED BY <2>3, <2>4, <2>5 DEF NodeFits
<1>24. NodeFits(row2, par2, root, T2, ch2, lv2, lo2, hi2, p)
  <2>1. lv2[p] = lv[p] /\ lo2[p] = lo[p] /\ hi2[p] = hi[p]
    BY <1>7, <1>9
  <2>2. \A i \in 1 .. Len(row[p]) + 1 : i # a + 1 => LET c == ch[p][i] IN
            /\ c \in T2 /\ c # root /\ par2[c] = p /\ lv2[c] + 1 = lv[p]
            /\ lo2[c] = LoAt(row[p], i, lo[p]) /\ (i # a => hi2[c] = HiAt(row[p], i, hi[p]))
    <3> SUFFICES ASSUME NEW i \in 1 .. Len(row[p]) + 1, i # a + 1
                 PROVE  LET c == ch[p][i] IN
            /\ c \in T2 /\ c # root /\ par2[c] = p /\ lv2[c] + 1 = lv[p]
            /\ lo2[c] = LoAt(row[p], i, lo[p]) /\ (i # a => hi2[c] = HiAt(row[p], i, hi[p]))
      OBVIOUS
    <3> DEFINE c == ch[p][i]
    <3>1. /\ c \in T /\ c # root /\ lv[c] + 1 = lv[p] /\ par[c] = p /\ c # R
          /\ lo[c] = LoAt(row[p], i, lo[p]) /\ hi[c] = HiAt(row[p], i, hi[p])
          /\ (i # a => c # L)
      BY <1>5
    <3> HIDE DEF c
    <3>2. c \in T2 /\ c \in D /\ c \in D2 /\ c \notin Kids
      BY <1>2, <1>7, <1>13, <3>1
    <3>3. /\ c \in T2 /\ c # root /\ par2[c] = p /\ lv2[c] + 1 = lv[p]
          /\ lo2[c] = LoAt(row[p], i, lo[p]) /\ (i # a => hi2[c] = HiAt(row[p], i, hi[p]))
      BY <1>9, <3>1, <3>2
    <3> QED BY <3>3 DEF c
  <2>3. ASSUME NEW j \in 1 .. Len(row2[p]) + 1
        PROVE  HangsAt(row2, par2, root, T2, lv2, lo2, hi2, p, j, ch2[p][j])
    <3>0. j \in Nat /\ j \in 1 .. Len(row[p])
      BY <1>4, <1>17
    <3>1. CASE j < a
      <4>1. j \in 1 .. Len(row[p]) + 1 /\ j \in 1 .. a /\ j \in 1 .. a - 1 /\ j # a /\ j # a + 1 /\ j <= a
        BY <1>4, <3>0, <3>1
      <4>2. ch2[p][j] = ch[p][j]
        BY <1>18, <3>0, <4>1
      <4>3. LoAt(row2[p], j, lo[p]) = LoAt(row[p], j, lo[p]) /\ HiAt(row2[p], j, hi[p]) = HiAt(row[p], j, hi[p])
        BY <1>16, <4>1
      <4> QED BY <2>1, <2>2, <4>1, <4>2, <4>3 DEF HangsAt
    <3>2. CASE j = a
      <4>1. j \in 1 .. a /\ j <= a /\ j # a + 1 /\ j \in 1 .. Len(row[p]) + 1
        BY <1>4, <3>0, <3>2
      <4>2. ch2[p][j] = ch[p][j] /\ ch[p][j] = L
        BY <1>18, <3>0, <3>2, <4>1
      <4>3. LoAt(row2[p], j, lo[p]) = LoAt(row[p], j, lo[p]) /\ HiAt(row2[p], j, hi[p]) = hi[R]
        BY <1>6, <1>16, <3>2, <4>1
      <4>4. hi2[L] = hi[R]
        BY <1>9
      <4> QED BY <2>1, <2>2, <4>1, <4>2, <4>3, <4>4 DEF HangsAt
    <3>3. CASE j > a
      <4> DEFINE i == j + 1
      <4>1. /\ i \in 1 .. Len(row[p]) + 1 /\ j \in a + 1 .. Len(row[p]) /\ i # a /\ i # a + 1
        BY <1>4, <3>0, <3>3
      <4>2. ch2[p][j] = ch[p][i]
        BY <1>18, <3>0, <3>3
      <4>3. LoAt(row2[p], j, lo[p]) = LoAt(row[p], i, lo[p]) /\ HiAt(row2[p], j, hi[p]) = HiAt(row[p], i, hi[p])
        BY <1>16, <4>1
      <4> HIDE DEF i
      <4> QED BY <2>1, <2>2, <4>1, <4>2, <4>3 DEF HangsAt
    <3> QED BY <1>4, <3>0, <3>1, <3>2, <3>3
  <2>4. Ordered(row2[p], lo2[p], hi2[p]) /\ Links(row2[p], ch2[p])
    BY <1>9, <1>16, <2>1
  <2>5. lv2[p] # 0
    BY <2>1
  <2> QED BY <2>3, <2>4, <2>5 DEF NodeFits
<1>25. ASSUME NEW x \in T2, x # root PROVE Hangs(row2, par2, root, T2, ch2, lv2, x)
  <2>1. PICK y \in T : /\ y = par[x] /\ lv[x] < lv[root] /\ lv[y] > 0
                       /\ \E i \in 1 .. Len(row[y]) + 1 : ch[y][i] = x
    <3>1. Hangs(row, par, root, T, ch, lv, x)
      BY <1>7, <1>25 DEF Shape
    <3> QED BY <3>1 DEF Hangs
  <2>2. PICK i \in 1 .. Len(row[y]) + 1 : ch[y][i] = x
    BY <2>1
  <2>3. lv2[x] < lv2[root] /\ x \in D /\ x \in D2
    BY <1>2, <1>7, <1>9, <2>1
  <2>4. CASE y = R
    <3>1. x \in Kids /\ par2[x] = L
      BY <2>2, <2>3, <2>4
    <3>2. i + m \in Nat /\ i + m > m /\ (i + m) - m = i /\ i + m \in 1 .. Len(C) + 1
      BY <1>10, <2>2, <2>4
    <3>3. ch2[L][i + m] = x
      BY <1>19, <2>2, <2>4, <3>2
    <3>4. L \in T2 /\ lv2[L] > 0
      BY <1>7, <1>9, <2>1, <2>4
    <3> QED BY <2>3, <3>1, <3>2, <3>3, <3>4 DEF Hangs
  <2>5. CASE y # R
    <3>1. par2[x] = y /\ y \in T2 /\ lv2[y] > 0
      BY <1>7, <1>9, <1>13, <2>1, <2>3, <2>5
    <3>2. CASE y # p /\ y # L
      <4>1. row2[y] = row[y] /\ ch2[y] = ch[y]
        BY <1>2, <1>9, <2>1, <2>5, <3>1, <3>2
      <4> QED BY <2>2, <2>3, <3>1, <4>1 DEF Hangs
    <3>3. CASE y = L
      <4>1. i \in Nat /\ i <= m /\ i \in 1 .. Len(C) + 1
        BY <1>10, <2>2, <3>3
      <4>2. ch2[L][i] = x
        BY <1>19, <2>2, <3>3, <4>1
      <4> QED BY <2>3, <3>1, <3>3, <4>1, <4>2 DEF Hangs
    <3>4. CASE y = p
      <4>0. i \in Nat /\ i \in 1 .. Len(row[p]) + 1 /\ i # a + 1 /\ ch[p][i] = x
        BY <1>4, <1>7, <2>2, <3>4
      <4>1. CASE i <= a
        <5>1. i \in 1 .. Len(row2[p]) + 1
          BY <1>4, <1>17, <4>0, <4>1
        <5>2. ch2[p][i] = x
          BY <1>18, <4>0, <4>1
        <5> QED BY <2>3, <3>1, <3>4, <5>1, <5>2 DEF Hangs
      <4>2. CASE i > a
        <5>1. i - 1 \in 1 .. Len(row2[p]) + 1 /\ i - 1 > a /\ (i - 1) + 1 = i /\ i - 1 \in Nat
          BY <1>4, <1>17, <4>0, <4>2
        <5>2. ch2[p][i - 1] = x
          <6>1. ch2[p][i - 1] = ch[p][(i - 1) + 1]
            BY <1>18, <5>1
          <6> QED BY <4>0, <5>1, <6>1
        <5> QED BY <2>3, <3>1, <3>4, <5>1, <5>2 DEF Hangs
      <4> QED BY <1>4, <4>0, <4>1, <4>2
    <3> QED BY <3>2, <3>3, <3>4
  <2> QED BY <2>4, <2>5
<1>26. lo2[root] = -1 /\ hi2[root] = top /\ (par2[root] = 0 \/ par2[root] \in D2 \ T2)
  <2>1. lo[root] = -1 /\ hi[root] = top /\ (par[root] = 0 \/ par[root] \in D \ T)
    BY DEF Shape
  <2>2. par2[root] = par[root]
    BY <1>2, <1>7, <1>13
  <2> QED BY <1>6, <1>7, <1>9, <2>1, <2>2
<1>27. Shape(D2, row2, par2, root, top, T2, ch2, lv2, lo2, hi2)
  BY <1>20, <1>21, <1>22, <1>23, <1>24, <1>25, <1>26 DEF Shape
<1> HIDE DEF T2
<1>28. /\ \A x \in T2 : lv2[x] = lv[x]
       /\ L \in T2 /\ p \in T2
  BY <1>7, <1>9
<1>29. T2 = U
  BY DEF T2, MergeStep
<1>30. Agree(T2, lv2, lv)
  BY <1>28 DEF Agree
<1> QED BY <1>6, <1>7, <1>9, <1>27, <1>28, <1>29, <1>30

\* A leaf gets another row.
LEMMA LeafShape ==
    ASSUME NEW D, NEW row, NEW par, NEW root, NEW top, NEW T, NEW ch, NEW lv, NEW lo, NEW hi,
           Shape(D, row, par, root, top, T, ch, lv, lo, hi), NEW n \in T, lv[n] = 0,
           NEW row2 \in [D -> Rows], \A x \in D \ {n} : row2[x] = row[x],
           Ordered(row2[n], lo[n], hi[n]),
           \A i \in 1 .. Len(row2[n]) : row2[n][i].left = 0 /\ row2[n][i].right = 0
    PROVE  Shape(D, row2, par, root, top, T, ch, lv, lo, hi)
<1>1. BTyped(D, row, par, root, T, ch, lv, lo, hi)
  BY DEF Shape
<1>2. /\ T \in SUBSET D /\ \A x \in T : lv[x] \in Nat
      /\ \A x \in D : row2[x] \in Rows
  BY <1>1 DEF BTyped
<1>3. BTyped(D, row2, par, root, T, ch, lv, lo, hi)
  BY <1>1 DEF BTyped
<1>4. \A x \in D \ T : row2[x] = <<>>
  <2>1. \A x \in D \ T : row[x] = <<>>
    BY DEF Shape
  <2> QED BY <2>1
<1>5. \A x \in T : NodeFits(row, par, root, T, ch, lv, lo, hi, x)
  BY DEF Shape
<1>6. ASSUME NEW x \in T PROVE NodeFits(row2, par, root, T, ch, lv, lo, hi, x)
  <2>1. CASE x # n
    <3>1. row2[x] = row[x]
      BY <1>2, <2>1
    <3> QED BY <1>5, <3>1, Undisturbed
  <2>2. CASE x = n
    <3>1. \A j \in Nat : ch[n][j] = 0
      BY <1>5 DEF NodeFits
    <3>2. \A i \in 1 .. Len(row2[n]) : i \in Nat /\ i + 1 \in Nat
      <4>1. Len(row2[n]) \in Nat
        BY <1>2, RowFacts
      <4> QED BY <4>1
    <3>3. Links(row2[n], ch[n])
      BY <3>1, <3>2 DEF Links
    <3> QED BY <2>2, <3>1, <3>3 DEF NodeFits
  <2> QED BY <2>1, <2>2
<1>7. ASSUME NEW x \in T \ {root} PROVE Hangs(row2, par, root, T, ch, lv, x)
  <2>1. Hangs(row, par, root, T, ch, lv, x)
    BY DEF Shape
  <2>2. par[x] \in D /\ par[x] # n
    BY <1>2, <2>1 DEF Hangs
  <2>3. row2[par[x]] = row[par[x]]
    BY <2>2
  <2> QED BY <2>1, <2>3 DEF Hangs
<1>8. lo[root] = -1 /\ hi[root] = top /\ (par[root] = 0 \/ par[root] \in D \ T)
  BY DEF Shape
<1> QED BY <1>3, <1>4, <1>6, <1>7, <1>8 DEF Shape

\* Keys and bounds change, and rise as before.
RowsMap(row, row2, f, x) ==
    /\ Len(row2[x]) = Len(row[x])
    /\ \A i \in 1 .. Len(row[x]) : /\ row2[x][i].key = f[row[x][i].key]
                                   /\ row2[x][i].left = row[x][i].left
                                   /\ row2[x][i].right = row[x][i].right
MapStep(D, row, par, root, top, T, ch, lv, lo, hi, row2, f, V) ==
    /\ Shape(D, row, par, root, top, T, ch, lv, lo, hi)
    /\ row2 \in [D -> Rows] /\ f \in [Int -> Int] /\ V \in SUBSET Int
    /\ \A v, w \in V : v < w => f[v] < f[w]
    /\ \A x \in T : /\ lo[x] \in V /\ hi[x] \in V
                    /\ \A i \in 1 .. Len(row[x]) : row[x][i].key \in V
    /\ f[-1] = -1 /\ f[top] = top
    /\ \A x \in D : RowsMap(row, row2, f, x)

\* Keys that change without changing their order: the same shape, with other
\* bounds.
LEMMA RekeyShape ==
    ASSUME NEW D, NEW row, NEW par, NEW root, NEW top, NEW T, NEW ch, NEW lv, NEW lo, NEW hi,
           NEW row2, NEW f, NEW V,
           MapStep(D, row, par, root, top, T, ch, lv, lo, hi, row2, f, V)
    PROVE  Shape(D, row2, par, root, top, T, ch, lv, [x \in T |-> f[lo[x]]], [x \in T |-> f[hi[x]]])
<1>0. /\ Shape(D, row, par, root, top, T, ch, lv, lo, hi)
      /\ row2 \in [D -> Rows] /\ f \in [Int -> Int] /\ V \in SUBSET Int
      /\ \A v, w \in V : v < w => f[v] < f[w]
      /\ \A x \in T : /\ lo[x] \in V /\ hi[x] \in V
                      /\ \A i \in 1 .. Len(row[x]) : row[x][i].key \in V
      /\ f[-1] = -1 /\ f[top] = top
      /\ \A x \in D : /\ Len(row2[x]) = Len(row[x])
                      /\ \A i \in 1 .. Len(row[x]) : /\ row2[x][i].key = f[row[x][i].key]
                                                     /\ row2[x][i].left = row[x][i].left
                                                     /\ row2[x][i].right = row[x][i].right
  BY DEF MapStep, RowsMap
<1> USE <1>0
<1> DEFINE lo2 == [x \in T |-> f[lo[x]]]
           hi2 == [x \in T |-> f[hi[x]]]
<1>1. BTyped(D, row, par, root, T, ch, lv, lo, hi)
  BY DEF Shape
<1>2. /\ T \in SUBSET D /\ root \in T
      /\ \A x \in T : lv[x] \in Nat /\ lo[x] \in Int /\ hi[x] \in Int
      /\ \A x \in D : row[x] \in Rows /\ row2[x] \in Rows
  BY <1>1 DEF BTyped
<1>3. \A x \in T : lo2[x] = f[lo[x]] /\ hi2[x] = f[hi[x]]
  OBVIOUS
<1>4. lo2 \in [T -> Int] /\ hi2 \in [T -> Int]
  BY <1>2
<1> HIDE DEF lo2, hi2
<1>5. BTyped(D, row2, par, root, T, ch, lv, lo2, hi2)
  BY <1>1, <1>4 DEF BTyped
<1>6. \A x \in D \ T : row2[x] = <<>>
  <2> TAKE x \in D \ T
  <2>1. row[x] = <<>> /\ Len(row2[x]) = Len(row[x])
    BY DEF Shape
  <2> QED BY <1>2, <2>1, RowFacts
<1>7. ASSUME NEW x \in T PROVE NodeFits(row2, par, root, T, ch, lv, lo2, hi2, x)
  <2>1. NodeFits(row, par, root, T, ch, lv, lo, hi, x)
    BY DEF Shape
  <2>2. /\ Len(row2[x]) = Len(row[x]) /\ Len(row[x]) \in Nat
        /\ \A i \in 1 .. Len(row[x]) : /\ row2[x][i].key = f[row[x][i].key]
                                       /\ row2[x][i].left = row[x][i].left
                                       /\ row2[x][i].right = row[x][i].right
                                       /\ row[x][i].key \in V
    BY <1>2, RowFacts
  <2>3. Ordered(row2[x], lo2[x], hi2[x])
    <3>1. Ordered(row[x], lo[x], hi[x])
      BY <2>1 DEF NodeFits
    <3>2. lo[x] \in V /\ hi[x] \in V
      OBVIOUS
    <3>3. lo2[x] < hi2[x]
      BY <1>3, <3>1, <3>2 DEF Ordered
    <3>4. \A i \in 1 .. Len(row[x]) : lo2[x] < row2[x][i].key /\ row2[x][i].key < hi2[x]
      BY <1>3, <2>2, <3>1, <3>2 DEF Ordered
    <3>5. \A i, j \in 1 .. Len(row[x]) : i < j => row2[x][i].key < row2[x][j].key
      BY <2>2, <3>1 DEF Ordered
    <3> QED BY <2>2, <3>3, <3>4, <3>5 DEF Ordered
  <2>4. Links(row2[x], ch[x])
    BY <2>1, <2>2 DEF NodeFits, Links
  <2>5. ASSUME NEW j \in 1 .. Len(row[x]) + 1
        PROVE  /\ LoAt(row2[x], j, lo2[x]) = f[LoAt(row[x], j, lo[x])]
               /\ HiAt(row2[x], j, hi2[x]) = f[HiAt(row[x], j, hi[x])]
    <3>0. Len(row[x]) \in Nat
      BY <2>2
    <3>1. j = 1 \/ (j # 1 /\ j - 1 \in 1 .. Len(row[x]))
      <4>1. \A N \in Nat : \A i \in 1 .. N + 1 : i = 1 \/ (i # 1 /\ i - 1 \in 1 .. N)
        OBVIOUS
      <4> QED BY <3>0, <4>1
    <3>2. j > Len(row[x]) \/ (~(j > Len(row[x])) /\ j \in 1 .. Len(row[x]))
      BY <3>0
    <3> QED BY <1>3, <2>2, <3>1, <3>2 DEF LoAt, HiAt
  <2>6. ASSUME lv[x] > 0, NEW j \in 1 .. Len(row[x]) + 1
        PROVE  HangsAt(row2, par, root, T, lv, lo2, hi2, x, j, ch[x][j])
    <3>1. HangsAt(row, par, root, T, lv, lo, hi, x, j, ch[x][j])
      BY <2>1, <2>6 DEF NodeFits
    <3>2. PICK c \in T : c = ch[x][j]
      BY <3>1 DEF HangsAt
    <3>3. /\ c # root /\ par[c] = x /\ lv[c] + 1 = lv[x]
          /\ lo[c] = LoAt(row[x], j, lo[x]) /\ hi[c] = HiAt(row[x], j, hi[x])
      BY <3>1, <3>2 DEF HangsAt
    <3>4. lo2[c] = LoAt(row2[x], j, lo2[x]) /\ hi2[c] = HiAt(row2[x], j, hi2[x])
      BY <1>3, <2>5, <3>3, ZenonT(60)
    <3> QED BY <3>2, <3>3, <3>4 DEF HangsAt
  <2>7. lv[x] = 0 => \A j \in Nat : ch[x][j] = 0
    BY <2>1 DEF NodeFits
  <2> QED BY <2>2, <2>3, <2>4, <2>6, <2>7 DEF NodeFits
<1>8. ASSUME NEW x \in T \ {root} PROVE Hangs(row2, par, root, T, ch, lv, x)
  <2>1. Hangs(row, par, root, T, ch, lv, x)
    BY DEF Shape
  <2>2. par[x] \in D
    BY <1>2, <2>1 DEF Hangs
  <2>3. Len(row2[par[x]]) = Len(row[par[x]])
    BY <2>2
  <2> QED BY <2>1, <2>3 DEF Hangs
<1>9. lo2[root] = -1 /\ hi2[root] = top /\ (par[root] = 0 \/ par[root] \in D \ T)
  BY <1>2, <1>3 DEF Shape
<1>10. Shape(D, row2, par, root, top, T, ch, lv, lo2, hi2)
  BY <1>5, <1>6, <1>7, <1>8, <1>9 DEF Shape
<1> QED BY <1>10 DEF lo2, hi2

-----------------------------------------------------------------------------
(* Descents                                                                *)

\* A function that calls itself once.
Descent(S, stop, val, next, f) == [m \in S |-> IF stop[m] THEN val[m] ELSE f[next[m]]]

\* A function that calls itself once at most is defined, wherever it may lead.
LEMMA DescentExists ==
    ASSUME NEW S, NEW stop \in [S -> BOOLEAN], NEW val, NEW next,
           \A m \in S : ~stop[m] => next[m] \in S
    PROVE  \E f : f = Descent(S, stop, val, next, f)
<1> DEFINE Closed(Z) == \A x \in Z : ~stop[x] => next[x] \in Z
           E(m) == {x \in S : stop[x] /\ \A Z \in SUBSET S : m \in Z /\ Closed(Z) => x \in Z}
           f == [m \in S |-> val[CHOOSE x : x \in E(m)]]
<1>1. ASSUME NEW m \in S, stop[m] PROVE E(m) = {m}
  <2>1. {m} \in SUBSET S /\ Closed({m})
    BY <1>1
  <2>2. \A x \in E(m) : x = m
    BY <2>1
  <2>3. m \in E(m)
    BY <1>1
  <2> HIDE DEF E
  <2> QED BY <2>2, <2>3
<1>2. ASSUME NEW m \in S, ~stop[m] PROVE E(m) = E(next[m])
  <2>1. ASSUME NEW x \in E(m) PROVE x \in E(next[m])
    <3>1. x \in S /\ stop[x] /\ \A Z \in SUBSET S : m \in Z /\ Closed(Z) => x \in Z
      OBVIOUS
    <3>2. ASSUME NEW Z \in SUBSET S, next[m] \in Z, Closed(Z) PROVE x \in Z
      <4> DEFINE Y == Z \cup {m}
      <4>1. Y \in SUBSET S /\ m \in Y /\ Closed(Y)
        BY <3>2
      <4>2. x \in Y
        <5> HIDE DEF Y, Closed
        <5> QED BY <3>1, <4>1
      <4>3. x # m
        BY <1>2, <3>1
      <4> QED BY <4>2, <4>3
    <3> QED BY <3>1, <3>2
  <2>2. ASSUME NEW x \in E(next[m]) PROVE x \in E(m)
    <3>1. x \in S /\ stop[x] /\ \A Z \in SUBSET S : next[m] \in Z /\ Closed(Z) => x \in Z
      OBVIOUS
    <3>2. ASSUME NEW Z \in SUBSET S, m \in Z, Closed(Z) PROVE x \in Z
      <4>1. next[m] \in Z
        BY <1>2, <3>2
      <4> HIDE DEF Closed
      <4> QED BY <3>1, <3>2, <4>1
    <3> QED BY <3>1, <3>2
  <2> HIDE DEF E
  <2> QED BY <2>1, <2>2
<1> HIDE DEF E
<1>3. ASSUME NEW m \in S PROVE f[m] = IF stop[m] THEN val[m] ELSE f[next[m]]
  <2>1. CASE stop[m]
    <3>1. (CHOOSE x : x \in E(m)) = m
      BY <1>1, <2>1
    <3>2. f[m] = val[CHOOSE x : x \in E(m)]
      OBVIOUS
    <3>3. f[m] = val[m]
      BY <3>1, <3>2, Zenon
    <3> QED BY <2>1, <3>3
  <2>2. CASE ~stop[m]
    <3>1. E(m) = E(next[m]) /\ next[m] \in S
      BY <1>2, <2>2
    <3> QED BY <2>2, <3>1
  <2> QED BY <2>1, <2>2
<1>4. f = [m \in S |-> f[m]]
  OBVIOUS
<1> HIDE DEF f
<1>5. f = [m \in S |-> IF stop[m] THEN val[m] ELSE f[next[m]]]
  BY <1>3, <1>4
<1> QED BY <1>5 DEF Descent

\* Where it ends, if it gets nearer and keeps to a set.
LEMMA DescentEnds ==
    ASSUME NEW S, NEW stop, NEW val, NEW next, NEW f,
           f = Descent(S, stop, val, next, f),
           NEW P \in SUBSET S, NEW rank \in [P -> Nat],
           \A m \in P : ~stop[m] => next[m] \in P /\ rank[next[m]] < rank[m],
           NEW start \in P
    PROVE  \E x \in P : stop[x] /\ f[start] = val[x]
<1> DEFINE Bad == {m \in P : ~\E x \in P : stop[x] /\ f[m] = val[x]}
           B == {rank[m] : m \in Bad}
<1>1. \A m \in P : f[m] = IF stop[m] THEN val[m] ELSE f[next[m]]
  BY DEF Descent
<1>2. ASSUME Bad # {} PROVE FALSE
  <2>1. B \in SUBSET Nat /\ B # {}
    BY <1>2
  <2>2. PICK b \in B : \A c \in B : b <= c
    <3> HIDE DEF B
    <3> QED BY <2>1, LeastNat
  <2>3. PICK m \in Bad : b = rank[m]
    OBVIOUS
  <2>4. ~stop[m]
    BY <1>1
  <2>5. next[m] \in P /\ rank[next[m]] < rank[m] /\ f[m] = f[next[m]]
    BY <1>1, <2>4
  <2>6. next[m] \in Bad
    BY <2>5
  <2>7. rank[m] <= rank[next[m]]
    BY <2>2, <2>3, <2>6
  <2>8. rank[m] \in Nat /\ rank[next[m]] \in Nat
    BY <2>5
  <2> HIDE DEF Bad, B
  <2> QED BY <2>5, <2>7, <2>8
<1> QED BY <1>2

\* The rows and parents of a tree.
RowOf(t) == [n \in DOMAIN t.nodes |-> t.nodes[n].elems]
ParOf(t) == [n \in DOMAIN t.nodes |-> t.nodes[n].parent]
IsTree(t) ==
    /\ t = [nodes |-> t.nodes, root |-> t.root]
    /\ t.nodes \in [DOMAIN t.nodes -> [parent : Nat, elems : Rows]]
TreeShape(t, top, T, ch, lv, lo, hi) ==
    Shape(DOMAIN t.nodes, RowOf(t), ParOf(t), t.root, top, T, ch, lv, lo, hi)

\* A node is a leaf by its row if it is one by its level.
LEMMA LeafRow ==
    ASSUME NEW t, NEW top, NEW T, NEW ch, NEW lv, NEW lo, NEW hi,
           TreeShape(t, top, T, ch, lv, lo, hi), NEW n \in T, lv[n] > 0 => RowOf(t)[n] # <<>>
    PROVE  IsLeaf(t, n) <=> lv[n] = 0
<1> DEFINE s == RowOf(t)[n]
<1>1. /\ n \in DOMAIN t.nodes /\ s \in Rows /\ lv[n] \in Nat
      /\ \A c \in T : c # 0
      /\ \A j \in 1 .. Len(s) + 1 : lv[n] > 0 => ch[n][j] \in T
      /\ Links(s, ch[n]) /\ (lv[n] = 0 => \A j \in Nat : ch[n][j] = 0)
  <2>1. /\ n \in DOMAIN t.nodes /\ s \in Rows /\ lv[n] \in Nat /\ \A c \in T : c # 0
    BY ShapeTypes DEF TreeShape
  <2>2. NodeFits(RowOf(t), ParOf(t), t.root, T, ch, lv, lo, hi, n)
    BY DEF TreeShape, Shape
  <2> QED BY <2>1, <2>2 DEF NodeFits, HangsAt
<1>2. /\ Len(s) \in Nat /\ DOMAIN s = 1 .. Len(s) /\ (s = <<>> <=> Len(s) = 0)
  BY <1>1, RowFacts
<1>3. t.nodes[n].elems = s
  BY <1>1 DEF RowOf
<1> HIDE DEF s
<1>4. CASE lv[n] = 0
  <2>1. \A i \in DOMAIN s : s[i].left = 0 /\ s[i].right = 0
    BY <1>1, <1>2, <1>4 DEF Links
  <2>2. s # <<>> => Last(s).right = 0
    BY <1>2, <2>1 DEF Last
  <2> QED BY <1>3, <1>4, <2>1, <2>2 DEF IsLeaf, NoNode
<1>5. CASE lv[n] # 0
  <2>1. lv[n] > 0 /\ 1 \in DOMAIN s /\ 1 \in 1 .. Len(s) + 1
    <3>1. lv[n] > 0
      BY <1>1, <1>5
    <3>2. s # <<>>
      BY <3>1 DEF s
    <3> QED BY <1>2, <3>1, <3>2
  <2>2. s[1].left = ch[n][1] /\ ch[n][1] # 0
    BY <1>1, <1>2, <2>1 DEF Links
  <2> QED BY <1>3, <1>5, <2>1, <2>2 DEF IsLeaf, NoNode
<1> QED BY <1>4, <1>5

\* BTreeNode::Search
LEMMA SearchFacts ==
    ASSUME NEW s \in Rows, s # <<>>, NEW k \in Nat,
           \A i, j \in 1 .. Len(s) : i < j => s[i].key < s[j].key
    PROVE  LET r == Search(s, k) IN
           /\ r.at \in 1 .. Len(s)
           /\ \/ r.direction = 0 /\ s[r.at].key = k
              \/ /\ r.direction = 1 /\ k < s[r.at].key
                 /\ \A i \in 1 .. Len(s) : i < r.at => s[i].key < k
              \/ /\ r.direction = 2 /\ s[r.at].key < k
                 /\ \A i \in 1 .. Len(s) : i > r.at => k < s[i].key
<1> DEFINE S == (DOMAIN s) \X (DOMAIN s)
           Mid(r) == r[1] + (r[2] - r[1]) \div 2
           stop == [r \in S |-> r[1] = r[2] \/ k = s[Mid(r)].key]
           val == [r \in S |-> IF r[1] = r[2]
                               THEN [at |-> r[1], direction |->
                                        IF k = s[r[1]].key THEN 0 ELSE IF k < s[r[1]].key THEN 1 ELSE 2]
                               ELSE [at |-> Mid(r), direction |-> 0]]
           next == [r \in S |-> IF s[Mid(r)].key < k
                                THEN <<IF Mid(r) < r[2] THEN Mid(r) + 1 ELSE Mid(r), r[2]>>
                                ELSE <<r[1], IF r[1] < Mid(r) THEN Mid(r) - 1 ELSE Mid(r)>>]
           Body(f) == [r \in S |->
                         IF r[1] = r[2]
                         THEN [at |-> r[1], direction |->
                                  IF k = s[r[1]].key THEN 0 ELSE IF k < s[r[1]].key THEN 1 ELSE 2]
                         ELSE IF k = s[Mid(r)].key THEN [at |-> Mid(r), direction |-> 0]
                         ELSE IF s[Mid(r)].key < k
                         THEN f[<<IF Mid(r) < r[2] THEN Mid(r) + 1 ELSE Mid(r), r[2]>>]
                         ELSE f[<<r[1], IF r[1] < Mid(r) THEN Mid(r) - 1 ELSE Mid(r)>>]]
           found == CHOOSE f : f = Body(f)
<1>1. Len(s) \in Nat /\ DOMAIN s = 1 .. Len(s) /\ Len(s) > 0 /\ \A i \in 1 .. Len(s) : s[i].key \in Nat
  BY RowFacts
<1>2. Search(s, k) = found[<<1, Len(s)>>]
  BY DEF Search
<1>3. \A f : Body(f) = Descent(S, stop, val, next, f)
  BY DEF Descent
<1>4. \A r \in S : r[1] \in 1 .. Len(s) /\ r[2] \in 1 .. Len(s)
  BY <1>1
<1>5. \A r \in S : /\ Mid(r) \in 1 .. Len(s)
                   /\ r[1] < r[2] => r[1] <= Mid(r) /\ Mid(r) < r[2]
  <2> TAKE r \in S
  <2>1. PICK x \in 1 .. Len(s), y \in 1 .. Len(s) : x = r[1] /\ y = r[2]
    BY <1>4
  <2>2. /\ x + (y - x) \div 2 \in 1 .. Len(s)
        /\ x < y => x <= x + (y - x) \div 2 /\ x + (y - x) \div 2 < y
    BY <1>1
  <2> QED BY <2>1, <2>2
<1> HIDE DEF Mid
<1>6. \A r \in S : next[r] \in S
  <2> TAKE r \in S
  <2>1. PICK x \in 1 .. Len(s), y \in 1 .. Len(s), c \in 1 .. Len(s) : x = r[1] /\ y = r[2] /\ c = Mid(r)
    BY <1>4, <1>5
  <2>2. /\ (IF c < y THEN c + 1 ELSE c) \in 1 .. Len(s)
        /\ (IF x < c THEN c - 1 ELSE c) \in 1 .. Len(s)
    BY <1>1
  <2>3. next[r] = IF s[c].key < k THEN <<IF c < y THEN c + 1 ELSE c, y>>
                  ELSE <<x, IF x < c THEN c - 1 ELSE c>>
    BY <2>1
  <2> QED BY <1>1, <2>2, <2>3
<1>7. stop \in [S -> BOOLEAN]
  OBVIOUS
<1>8. \A r \in S : ~stop[r] => r[1] # r[2] /\ k # s[Mid(r)].key
  OBVIOUS
<1>9. found = Descent(S, stop, val, next, found)
  <2> HIDE DEF S, stop, val, next
  <2>1. \E f : f = Descent(S, stop, val, next, f)
    BY <1>6, <1>7, DescentExists
  <2> HIDE DEF Body
  <2>2. \E f : f = Body(f)
    BY <1>3, <2>1
  <2>3. found = Body(found)
    BY <2>2
  <2> HIDE DEF found
  <2> QED BY <1>3, <2>3
\* What has been left aside does not hold the key.
<1> DEFINE P == {r \in S : /\ r[1] <= r[2]
                           /\ \A i \in 1 .. Len(s) : i < r[1] => s[i].key < k
                           /\ \A i \in 1 .. Len(s) : i > r[2] => k < s[i].key}
           rank == [r \in P |-> r[2] - r[1]]
<1>10. rank \in [P -> Nat]
  <2>1. \A r \in P : r[2] - r[1] \in Nat
    BY <1>1, <1>4
  <2> QED BY <2>1
<1>11. ASSUME NEW r \in P, ~stop[r] PROVE next[r] \in P /\ rank[next[r]] < rank[r]
  <2>1. PICK x \in 1 .. Len(s), y \in 1 .. Len(s), c \in 1 .. Len(s) : x = r[1] /\ y = r[2] /\ c = Mid(r)
    BY <1>4, <1>5
  <2>2. /\ x < y /\ x <= c /\ c < y /\ k # s[c].key
        /\ \A i \in 1 .. Len(s) : i < x => s[i].key < k
        /\ \A i \in 1 .. Len(s) : i > y => k < s[i].key
    <3>1. x # y /\ x <= y /\ k # s[c].key
      BY <1>8, <1>11, <2>1
    <3>2. x < y
      BY <3>1, <1>1
    <3> QED BY <1>5, <2>1, <3>1, <3>2
  <2>3. next[r] = IF s[c].key < k THEN <<IF c < y THEN c + 1 ELSE c, y>>
                  ELSE <<x, IF x < c THEN c - 1 ELSE c>>
    BY <2>1
  <2>4. rank[r] = y - x
    BY <2>1
  <2>5. \A a, b \in 1 .. Len(s) : /\ a <= b
                                  /\ \A i \in 1 .. Len(s) : i < a => s[i].key < k
                                  /\ \A i \in 1 .. Len(s) : i > b => k < s[i].key
                                  => <<a, b>> \in P /\ rank[<<a, b>>] = b - a
    BY <1>1
  <2> HIDE DEF S, P, rank, stop, val, next
  <2>6. CASE s[c].key < k
    <3>1. next[r] = <<c + 1, y>> /\ c + 1 \in 1 .. Len(s) /\ c + 1 <= y
      BY <1>1, <2>2, <2>3, <2>6
    <3>2. \A i \in 1 .. Len(s) : i < c + 1 => s[i].key < k
      <4> SUFFICES ASSUME NEW i \in 1 .. Len(s), i < c + 1 PROVE s[i].key < k
        OBVIOUS
      <4>1. i = c \/ i < c
        BY <1>1
      <4>2. s[i].key \in Nat /\ s[c].key \in Nat
        BY <1>1
      <4> QED BY <2>6, <4>1, <4>2
    <3>3. <<c + 1, y>> \in P /\ rank[<<c + 1, y>>] = y - (c + 1)
      BY <2>2, <2>5, <3>1, <3>2
    <3>4. y - (c + 1) < y - x
      BY <1>1, <2>2
    <3> QED BY <2>4, <3>1, <3>3, <3>4
  <2>7. CASE ~(s[c].key < k)
    <3> DEFINE b == IF x < c THEN c - 1 ELSE c
    <3>1. next[r] = <<x, b>>
      BY <2>3, <2>7
    <3>2. b \in 1 .. Len(s) /\ x <= b /\ b <= c /\ (b = c - 1 \/ b = c)
      BY <1>1, <2>2
    <3>3. k < s[c].key
      BY <1>1, <2>2, <2>7
    <3> HIDE DEF b
    <3>4. \A i \in 1 .. Len(s) : i > b => k < s[i].key
      <4> SUFFICES ASSUME NEW i \in 1 .. Len(s), i > b PROVE k < s[i].key
        OBVIOUS
      <4>1. i = c \/ c < i
        BY <1>1, <3>2
      <4>2. s[i].key \in Nat /\ s[c].key \in Nat
        BY <1>1
      <4> QED BY <3>3, <4>1, <4>2
    <3>5. <<x, b>> \in P /\ rank[<<x, b>>] = b - x
      BY <2>2, <2>5, <3>2, <3>4
    <3>6. b - x < y - x
      BY <1>1, <2>2, <3>2
    <3> QED BY <2>4, <3>1, <3>5, <3>6
  <2> QED BY <2>6, <2>7
<1>12. <<1, Len(s)>> \in P
  BY <1>1
<1>13. PICK x \in P : stop[x] /\ found[<<1, Len(s)>>] = val[x]
  <2>1. P \in SUBSET S
    OBVIOUS
  <2> HIDE DEF P, rank, stop, val, next, S, found
  <2> QED BY <1>9, <1>10, <1>11, <1>12, <2>1, DescentEnds, SMTT(30)
<1>14. PICK a \in 1 .. Len(s), b \in 1 .. Len(s), c \in 1 .. Len(s) : a = x[1] /\ b = x[2] /\ c = Mid(x)
  BY <1>4, <1>5
<1>18. found[<<1, Len(s)>>] = IF a = b
           THEN [at |-> a, direction |-> IF k = s[a].key THEN 0 ELSE IF k < s[a].key THEN 1 ELSE 2]
           ELSE [at |-> c, direction |-> 0]
  <2>1. x \in S
    OBVIOUS
  <2>2. val[x] = IF x[1] = x[2]
                 THEN [at |-> x[1], direction |->
                          IF k = s[x[1]].key THEN 0 ELSE IF k < s[x[1]].key THEN 1 ELSE 2]
                 ELSE [at |-> Mid(x), direction |-> 0]
    BY <2>1
  <2> HIDE DEF val, S, P, rank, next, found
  <2> QED BY <1>13, <1>14, <2>2
<1>15. /\ a = b \/ k = s[c].key
       /\ \A i \in 1 .. Len(s) : i < a => s[i].key < k
       /\ \A i \in 1 .. Len(s) : i > b => k < s[i].key
       /\ Search(s, k) = IF a = b
                         THEN [at |-> a, direction |-> IF k = s[a].key THEN 0 ELSE IF k < s[a].key THEN 1 ELSE 2]
                         ELSE [at |-> c, direction |-> 0]
  <2>1. a = b \/ k = s[c].key
    BY <1>13, <1>14
  <2>2. x \in P
    OBVIOUS
  <2> HIDE DEF val, stop, rank, next, found
  <2> QED BY <1>2, <1>14, <1>18, <2>1, <2>2
<1> HIDE DEF S, P, rank, stop, val, next, found
<1>16. CASE a # b
  BY <1>15, <1>16
<1>17. CASE a = b
  <2>1. k = s[a].key \/ k < s[a].key \/ (k # s[a].key /\ ~(k < s[a].key) /\ s[a].key < k)
    BY <1>1
  <2> QED BY <1>15, <1>17, <2>1
<1> QED BY <1>16, <1>17

\* The keys of a tree.
RowKeys(s) == {s[i].key : i \in 1 .. Len(s)}
KeysOf(row, T) == UNION {RowKeys(row[n]) : n \in T}

\* A number between the bounds of a leaf that is not in its row is no key.
LEMMA LeafMiss ==
    ASSUME NEW D, NEW row, NEW par, NEW root, NEW top, NEW T, NEW ch, NEW lv, NEW lo, NEW hi,
           Shape(D, row, par, root, top, T, ch, lv, lo, hi), NEW y \in T, lv[y] = 0,
           NEW k \in Nat, lo[y] < k, k < hi[y], \A i \in 1 .. Len(row[y]) : row[y][i].key # k
    PROVE  k \notin KeysOf(row, T)
<1> SUFFICES ASSUME NEW n \in T, NEW i \in 1 .. Len(row[n]), row[n][i].key = k PROVE FALSE
  BY DEF KeysOf, RowKeys
<1>1. n # y
  OBVIOUS
<1>2. lv[y] <= lv[n] /\ lo[y] \in Int /\ hi[y] \in Int
  BY NodeTypes
<1>3. ApartFrom(row, lv, lo, hi, y, n)
  BY <1>1, <1>2, NodesApart
<1>4. Outside(k, lo[y], hi[y])
  BY <1>3 DEF ApartFrom
<1> QED BY <1>2, <1>4 DEF Outside

\* The rows of a tree, its nodes, and the children of a node.
LEMMA TreeTypes ==
    ASSUME NEW t, NEW top, NEW T, NEW ch, NEW lv, NEW lo, NEW hi,
           TreeShape(t, top, T, ch, lv, lo, hi)
    PROVE  /\ T \in SUBSET DOMAIN t.nodes /\ t.root \in T /\ 0 \notin DOMAIN t.nodes
           /\ \A n \in DOMAIN t.nodes : t.nodes[n].elems = RowOf(t)[n] /\ t.nodes[n].parent = ParOf(t)[n]
           /\ \A n \in T : /\ RowOf(t)[n] \in Rows /\ Len(RowOf(t)[n]) \in Nat
                           /\ lv[n] \in Nat /\ lo[n] \in Int /\ hi[n] \in Int
                           /\ Ordered(RowOf(t)[n], lo[n], hi[n]) /\ Links(RowOf(t)[n], ch[n])
                           /\ lv[n] = 0 => \A j \in Nat : ch[n][j] = 0
           /\ \A n \in (DOMAIN t.nodes) \ T : RowOf(t)[n] = <<>>
<1>1. /\ T \in SUBSET DOMAIN t.nodes /\ t.root \in T /\ 0 \notin DOMAIN t.nodes
      /\ \A n \in DOMAIN t.nodes : RowOf(t)[n] \in Rows /\ Len(RowOf(t)[n]) \in Nat
      /\ \A n \in T : n \in DOMAIN t.nodes /\ lv[n] \in Nat /\ lo[n] \in Int /\ hi[n] \in Int
  BY ShapeTypes DEF TreeShape
<1>2. \A n \in DOMAIN t.nodes : t.nodes[n].elems = RowOf(t)[n] /\ t.nodes[n].parent = ParOf(t)[n]
  BY DEF RowOf, ParOf
<1>3. \A n \in T : /\ Ordered(RowOf(t)[n], lo[n], hi[n]) /\ Links(RowOf(t)[n], ch[n])
                   /\ lv[n] = 0 => \A j \in Nat : ch[n][j] = 0
  BY DEF TreeShape, Shape, NodeFits
<1>4. \A n \in (DOMAIN t.nodes) \ T : RowOf(t)[n] = <<>>
  BY DEF TreeShape, Shape
<1> QED BY <1>1, <1>2, <1>3, <1>4

\* What a child of an inner node is.
LEMMA TreeChild ==
    ASSUME NEW t, NEW top, NEW T, NEW ch, NEW lv, NEW lo, NEW hi,
           TreeShape(t, top, T, ch, lv, lo, hi), NEW n \in T, lv[n] > 0,
           NEW j \in 1 .. Len(RowOf(t)[n]) + 1
    PROVE  /\ ch[n][j] \in T /\ ch[n][j] # t.root /\ ParOf(t)[ch[n][j]] = n
           /\ lv[ch[n][j]] \in Nat /\ lv[ch[n][j]] + 1 = lv[n]
           /\ lo[ch[n][j]] = LoAt(RowOf(t)[n], j, lo[n])
           /\ hi[ch[n][j]] = HiAt(RowOf(t)[n], j, hi[n])
<1>1. HangsAt(RowOf(t), ParOf(t), t.root, T, lv, lo, hi, n, j, ch[n][j])
  BY ChildHangs DEF TreeShape
<1> QED BY <1>1, TreeTypes DEF HangsAt

\* Find: the node that has the key, if any.
LEMMA FindFacts ==
    ASSUME NEW t, NEW top \in Nat, NEW T, NEW ch, NEW lv, NEW lo, NEW hi,
           TreeShape(t, top, T, ch, lv, lo, hi), \A n \in T : lv[n] > 0 => RowOf(t)[n] # <<>>,
           NEW k \in Nat, k < top
    PROVE  LET x == FindElement(t, t.root, k) IN
           \/ x.node = 0 /\ k \notin KeysOf(RowOf(t), T)
           \/ /\ x.node \in T /\ x.node # 0 /\ x.at \in 1 .. Len(RowOf(t)[x.node])
              /\ RowOf(t)[x.node][x.at].key = k /\ k \in KeysOf(RowOf(t), T)
              /\ x = [node |-> x.node, at |-> x.at]
<1> DEFINE D == DOMAIN t.nodes
           S == D \cup {0}
           R(m) == Search(t.nodes[m].elems, k)
           stop == [m \in S |-> m = 0 \/ t.nodes[m].elems = <<>> \/ R(m).direction = 0]
           val == [m \in S |-> IF m = 0 \/ t.nodes[m].elems = <<>> THEN NotFound
                               ELSE [node |-> m, at |-> R(m).at]]
           next == [m \in S |-> IF R(m).direction = 1 THEN t.nodes[m].elems[R(m).at].left
                                ELSE t.nodes[m].elems[R(m).at].right]
           Body(f) == [m \in D \cup {NoNode} |->
                         IF m = NoNode \/ t.nodes[m].elems = <<>> THEN NotFound
                         ELSE IF Search(t.nodes[m].elems, k).direction = 0
                         THEN [node |-> m, at |-> Search(t.nodes[m].elems, k).at]
                         ELSE IF Search(t.nodes[m].elems, k).direction = 1
                         THEN f[t.nodes[m].elems[Search(t.nodes[m].elems, k).at].left]
                         ELSE f[t.nodes[m].elems[Search(t.nodes[m].elems, k).at].right]]
           found == CHOOSE f : f = Body(f)
<1>1. FindElement(t, t.root, k) = found[t.root]
  BY DEF FindElement
<1>2. \A f : Body(f) = Descent(S, stop, val, next, f)
  BY DEF Descent, NoNode
<1>3. /\ T \in SUBSET D /\ t.root \in T /\ 0 \notin D
      /\ \A n \in D : t.nodes[n].elems = RowOf(t)[n]
      /\ \A n \in T : /\ RowOf(t)[n] \in Rows /\ Len(RowOf(t)[n]) \in Nat
                      /\ lv[n] \in Nat /\ lo[n] \in Int /\ hi[n] \in Int
                      /\ Ordered(RowOf(t)[n], lo[n], hi[n]) /\ Links(RowOf(t)[n], ch[n])
                      /\ lv[n] = 0 => \A j \in Nat : ch[n][j] = 0
      /\ \A n \in D \ T : RowOf(t)[n] = <<>>
  BY TreeTypes
\* What a search in a node tells.
<1>4. ASSUME NEW m \in T, RowOf(t)[m] # <<>>, lo[m] < k, k < hi[m]
      PROVE  /\ R(m).at \in 1 .. Len(RowOf(t)[m])
             /\ \/ R(m).direction = 0 /\ RowOf(t)[m][R(m).at].key = k
                \/ \E j \in 1 .. Len(RowOf(t)[m]) + 1 :
                      /\ R(m).direction # 0 /\ next[m] = ch[m][j]
                      /\ LoAt(RowOf(t)[m], j, lo[m]) < k /\ k < HiAt(RowOf(t)[m], j, hi[m])
                      /\ \A i \in 1 .. Len(RowOf(t)[m]) : RowOf(t)[m][i].key # k
  <2>1. PICK s, r, c : s \in Rows /\ s = RowOf(t)[m] /\ r = R(m) /\ c = ch[m]
    BY <1>3
  <2> s \in Rows
    BY <2>1
  <2>2. /\ s # <<>> /\ Ordered(s, lo[m], hi[m]) /\ Links(s, c) /\ r = Search(s, k) /\ Len(s) \in Nat
        /\ \A i \in 1 .. Len(s) : s[i].key \in Nat
    BY <1>3, <1>4, <2>1, RowFacts
  <2>3. \A i, j \in 1 .. Len(s) : i < j => s[i].key < s[j].key
    BY <2>2 DEF Ordered
  <2>4. /\ r.at \in 1 .. Len(s)
        /\ \/ r.direction = 0 /\ s[r.at].key = k
           \/ /\ r.direction = 1 /\ k < s[r.at].key
              /\ \A i \in 1 .. Len(s) : i < r.at => s[i].key < k
           \/ /\ r.direction = 2 /\ s[r.at].key < k
              /\ \A i \in 1 .. Len(s) : i > r.at => k < s[i].key
    BY <2>2, <2>3, SearchFacts
  <2>5. next[m] = IF r.direction = 1 THEN s[r.at].left ELSE s[r.at].right
    BY <1>3, <2>1
  <2>6. s[r.at].left = c[r.at] /\ s[r.at].right = c[r.at + 1]
    BY <2>2, <2>4 DEF Links
  <2> HIDE DEF next, R
  <2>7. CASE r.direction = 0
    BY <2>1, <2>4, <2>7
  <2>8. CASE r.direction = 1
    <3>1. /\ r.at \in 1 .. Len(s) + 1 /\ next[m] = c[r.at] /\ k < s[r.at].key
          /\ \A i \in 1 .. Len(s) : i < r.at => s[i].key < k
      BY <2>2, <2>4, <2>5, <2>6, <2>8
    <3>2. LoAt(s, r.at, lo[m]) < k
      <4>1. r.at = 1 \/ (r.at # 1 /\ r.at - 1 \in 1 .. Len(s) /\ r.at - 1 < r.at)
        BY <2>2, <2>4
      <4> QED BY <1>4, <3>1, <4>1 DEF LoAt
    <3>3. k < HiAt(s, r.at, hi[m])
      <4>1. ~(r.at > Len(s))
        BY <2>2, <2>4
      <4> QED BY <3>1, <4>1 DEF HiAt
    <3>4. \A i \in 1 .. Len(s) : s[i].key # k
      <4> TAKE i \in 1 .. Len(s)
      <4>1. i < r.at \/ i = r.at \/ r.at < i
        BY <2>2, <2>4
      <4>2. r.at < i => s[r.at].key < s[i].key
        BY <2>3, <2>4
      <4> QED BY <2>2, <2>4, <3>1, <4>1, <4>2
    <3> QED BY <2>1, <2>4, <2>8, <3>1, <3>2, <3>3, <3>4
  <2>9. CASE r.direction = 2
    <3>1. /\ r.at + 1 \in 1 .. Len(s) + 1 /\ next[m] = c[r.at + 1] /\ s[r.at].key < k
          /\ \A i \in 1 .. Len(s) : i > r.at => k < s[i].key
      BY <2>2, <2>4, <2>5, <2>6, <2>9
    <3>2. LoAt(s, r.at + 1, lo[m]) < k
      <4>1. r.at + 1 # 1 /\ (r.at + 1) - 1 = r.at
        BY <2>2, <2>4
      <4> QED BY <3>1, <4>1 DEF LoAt
    <3>3. k < HiAt(s, r.at + 1, hi[m])
      <4>1. r.at + 1 > Len(s) \/ (~(r.at + 1 > Len(s)) /\ r.at + 1 \in 1 .. Len(s) /\ r.at + 1 > r.at)
        BY <2>2, <2>4
      <4> QED BY <1>4, <3>1, <4>1 DEF HiAt
    <3>4. \A i \in 1 .. Len(s) : s[i].key # k
      <4> TAKE i \in 1 .. Len(s)
      <4>1. i < r.at \/ i = r.at \/ r.at < i
        BY <2>2, <2>4
      <4>2. i < r.at => s[i].key < s[r.at].key
        BY <2>3, <2>4
      <4> QED BY <2>2, <2>4, <3>1, <4>1, <4>2
    <3> QED BY <2>1, <2>4, <2>9, <3>1, <3>2, <3>3, <3>4
  <2>10. r.direction = 0 \/ r.direction = 1 \/ r.direction = 2
    BY <2>4
  <2> QED BY <2>1, <2>4, <2>7, <2>8, <2>9, <2>10
<1>5. ASSUME NEW m \in T, RowOf(t)[m] # <<>> PROVE next[m] \in S
  <2>1. PICK s, r, c : s \in Rows /\ s = RowOf(t)[m] /\ r = R(m) /\ c = ch[m]
    BY <1>3
  <2> s \in Rows
    BY <2>1
  <2>2. /\ s # <<>> /\ Ordered(s, lo[m], hi[m]) /\ Links(s, c) /\ r = Search(s, k) /\ Len(s) \in Nat
    BY <1>3, <1>5, <2>1
  <2>3. \A i, j \in 1 .. Len(s) : i < j => s[i].key < s[j].key
    BY <2>2 DEF Ordered
  <2>4. r.at \in 1 .. Len(s)
    BY <2>2, <2>3, SearchFacts
  <2>5. next[m] = IF r.direction = 1 THEN s[r.at].left ELSE s[r.at].right
    BY <1>3, <2>1
  <2>6. s[r.at].left = c[r.at] /\ s[r.at].right = c[r.at + 1]
    BY <2>2, <2>4 DEF Links
  <2> HIDE DEF next, R
  <2>7. PICK j \in 1 .. Len(s) + 1 : next[m] = c[j]
    <3>1. r.at \in 1 .. Len(s) + 1 /\ r.at + 1 \in 1 .. Len(s) + 1
      BY <2>2, <2>4
    <3> QED BY <2>5, <2>6, <3>1
  <2>8. CASE lv[m] = 0
    <3>1. j \in Nat
      BY <2>2
    <3> QED BY <1>3, <2>1, <2>7, <2>8, <3>1
  <2>9. CASE lv[m] # 0
    <3>1. lv[m] > 0 /\ j \in 1 .. Len(RowOf(t)[m]) + 1
      <4>1. lv[m] \in Nat
        BY <1>3
      <4> QED BY <2>1, <2>9, <4>1
    <3>2. ch[m][j] \in T
      BY <3>1, TreeChild
    <3> QED BY <1>3, <2>1, <2>7, <3>2
  <2> QED BY <2>8, <2>9
<1>6. found = Descent(S, stop, val, next, found)
  <2>1. \A m \in S : ~stop[m] => next[m] \in S
    <3> SUFFICES ASSUME NEW m \in S, ~stop[m] PROVE next[m] \in S
      OBVIOUS
    <3>1. m \in D /\ t.nodes[m].elems # <<>>
      OBVIOUS
    <3>2. m \in T /\ RowOf(t)[m] # <<>>
      BY <1>3, <3>1
    <3> HIDE DEF next, S
    <3> QED BY <1>5, <3>2
  <2>2. stop \in [S -> BOOLEAN]
    OBVIOUS
  <2> HIDE DEF S, stop, val, next
  <2>3. \E f : f = Descent(S, stop, val, next, f)
    BY <2>1, <2>2, DescentExists
  <2> HIDE DEF Body
  <2>4. \E f : f = Body(f)
    BY <1>2, <2>3
  <2>5. found = Body(found)
    BY <2>4
  <2> HIDE DEF found
  <2> QED BY <1>2, <2>5
<1> DEFINE P == {m \in T : lo[m] < k /\ k < hi[m]} \cup (IF k \in KeysOf(RowOf(t), T) THEN {} ELSE {0})
           rank == [m \in P |-> IF m = 0 THEN 0 ELSE lv[m] + 1]
<1>7. P \in SUBSET S /\ rank \in [P -> Nat]
  BY <1>3
<1>8. ASSUME NEW m \in P, ~stop[m] PROVE next[m] \in P /\ rank[next[m]] < rank[m]
  <2>1. m # 0 /\ m \in T /\ lo[m] < k /\ k < hi[m]
    <3>1. m \in S
      BY <1>7
    <3> QED BY <1>8, <3>1
  <2>2. RowOf(t)[m] # <<>> /\ R(m).direction # 0
    BY <1>3, <1>8, <2>1
  <2>3. PICK j \in 1 .. Len(RowOf(t)[m]) + 1 :
          /\ next[m] = ch[m][j]
          /\ LoAt(RowOf(t)[m], j, lo[m]) < k /\ k < HiAt(RowOf(t)[m], j, hi[m])
          /\ \A i \in 1 .. Len(RowOf(t)[m]) : RowOf(t)[m][i].key # k
    <3> HIDE DEF R, next
    <3> QED BY <1>4, <2>1, <2>2
  <2>4. lv[m] \in Nat /\ rank[m] = lv[m] + 1 /\ j \in Nat
    BY <1>3, <2>1
  <2>5. CASE lv[m] = 0
    <3>1. next[m] = 0
      <4> HIDE DEF next
      <4> QED BY <1>3, <2>1, <2>3, <2>4, <2>5
    <3>2. k \notin KeysOf(RowOf(t), T)
      BY <2>1, <2>3, <2>5, LeafMiss DEF TreeShape
    <3>3. 0 \in P /\ rank[0] = 0
      BY <3>2
    <3> HIDE DEF next, rank, P
    <3> QED BY <2>4, <3>1, <3>3
  <2>6. CASE lv[m] # 0
    <3>1. lv[m] > 0
      BY <2>4, <2>6
    <3>2. PICK c : c = ch[m][j]
      OBVIOUS
    <3>3. /\ c \in T /\ lv[c] \in Nat /\ lv[c] + 1 = lv[m]
          /\ lo[c] = LoAt(RowOf(t)[m], j, lo[m]) /\ hi[c] = HiAt(RowOf(t)[m], j, hi[m])
      BY <2>1, <3>1, <3>2, TreeChild
    <3>4. c \in P
      BY <2>3, <3>3
    <3>5. c # 0
      BY <1>3, <3>3
    <3>6. rank[c] = lv[c] + 1
      BY <3>4, <3>5
    <3>7. next[m] = c
      BY <2>3, <3>2
    <3> HIDE DEF next, rank, P
    <3> QED BY <2>4, <3>3, <3>4, <3>6, <3>7
  <2> QED BY <2>5, <2>6
<1>9. t.root \in P
  BY <1>3 DEF TreeShape, Shape
<1>10. PICK x \in P : stop[x] /\ found[t.root] = val[x]
  <2> HIDE DEF P, rank, S, stop, val, next, found
  <2> QED BY <1>6, <1>7, <1>8, <1>9, DescentEnds
<1>11. x \in S /\ (x # 0 => x \in T /\ lo[x] < k /\ k < hi[x])
  BY <1>7
<1>12. CASE x = 0
  <2>1. k \notin KeysOf(RowOf(t), T)
    BY <1>3, <1>12
  <2>2. val[x] = NotFound
    BY <1>11, <1>12
  <2> HIDE DEF P, rank, S, stop, val, next, found
  <2> QED BY <1>1, <1>10, <2>1, <2>2 DEF NotFound, NoNode
<1>13. CASE x # 0 /\ RowOf(t)[x] = <<>>
  <2>1. lv[x] = 0
    BY <1>3, <1>11, <1>13
  <2>2. k \notin KeysOf(RowOf(t), T)
    <3>1. \A i \in 1 .. Len(RowOf(t)[x]) : RowOf(t)[x][i].key # k
      BY <1>13
    <3> HIDE DEF P, rank, S, stop, val, next, found
    <3> QED BY <1>11, <1>13, <2>1, <3>1, LeafMiss DEF TreeShape
  <2>3. val[x] = NotFound
    BY <1>3, <1>11, <1>13
  <2> HIDE DEF P, rank, S, stop, val, next, found
  <2> QED BY <1>1, <1>10, <2>2, <2>3 DEF NotFound, NoNode
<1>14. CASE x # 0 /\ RowOf(t)[x] # <<>>
  <2>1. x \in T /\ x \in D /\ t.nodes[x].elems # <<>>
    BY <1>3, <1>11, <1>14
  <2>2. R(x).direction = 0 /\ val[x] = [node |-> x, at |-> R(x).at]
    BY <1>10, <1>11, <1>14, <2>1
  <2>3. R(x).at \in 1 .. Len(RowOf(t)[x]) /\ RowOf(t)[x][R(x).at].key = k
    <3> HIDE DEF P, rank, S, stop, val, next, found, R
    <3> QED BY <1>4, <1>11, <1>14, <2>1, <2>2
  <2>4. k \in KeysOf(RowOf(t), T)
    BY <2>1, <2>3 DEF KeysOf, RowKeys
  <2> HIDE DEF P, rank, S, stop, val, next, found, R
  <2> QED BY <1>1, <1>10, <1>14, <2>1, <2>2, <2>3, <2>4
<1> QED BY <1>12, <1>13, <1>14

\* The child at a gap.
LEMMA ChildAt ==
    ASSUME NEW s \in Rows, s # <<>>, NEW c, Links(s, c), NEW j \in 1 .. Len(s) + 1
    PROVE  BChild(s, j) = c[j]
<1>1. Len(s) \in Nat /\ Len(s) > 0
  BY RowFacts
<1>2. CASE j > Len(s)
  <2>1. j = Len(s) + 1 /\ Len(s) \in 1 .. Len(s)
    BY <1>1, <1>2
  <2> QED BY <1>2, <2>1 DEF BChild, Last, Links
<1>3. CASE ~(j > Len(s))
  <2>1. j \in 1 .. Len(s)
    BY <1>1, <1>3
  <2> QED BY <1>3, <2>1 DEF BChild, Links
<1> QED BY <1>2, <1>3

\* The leaf a new key goes to.
LEMMA LeafForFacts ==
    ASSUME NEW t, NEW top \in Nat, NEW T, NEW ch, NEW lv, NEW lo, NEW hi,
           TreeShape(t, top, T, ch, lv, lo, hi), \A n \in T : lv[n] > 0 => RowOf(t)[n] # <<>>,
           NEW k \in Nat, k < top, k \notin KeysOf(RowOf(t), T)
    PROVE  LET y == LeafFor(t, t.root, k) IN
           y \in T /\ lv[y] = 0 /\ lo[y] < k /\ k < hi[y]
<1> DEFINE D == DOMAIN t.nodes
           stop == [m \in D |-> IsLeaf(t, m)]
           val == [m \in D |-> m]
           next == [m \in D |-> GetInsertionNode(t, m, k)]
           Body(f) == [m \in D |-> IF IsLeaf(t, m) THEN m ELSE f[GetInsertionNode(t, m, k)]]
           found == CHOOSE f : f = Body(f)
<1>1. LeafFor(t, t.root, k) = found[t.root]
  BY DEF LeafFor
<1>2. \A f : Body(f) = Descent(D, stop, val, next, f)
  BY DEF Descent
<1>3. /\ T \in SUBSET D /\ t.root \in T /\ 0 \notin D
      /\ \A n \in D : t.nodes[n].elems = RowOf(t)[n]
      /\ \A n \in T : /\ RowOf(t)[n] \in Rows /\ Len(RowOf(t)[n]) \in Nat
                      /\ lv[n] \in Nat /\ lo[n] \in Int /\ hi[n] \in Int
                      /\ Ordered(RowOf(t)[n], lo[n], hi[n]) /\ Links(RowOf(t)[n], ch[n])
      /\ \A n \in D \ T : RowOf(t)[n] = <<>>
  BY TreeTypes
<1>4. \A m \in T : IsLeaf(t, m) <=> lv[m] = 0
  BY LeafRow
<1>5. \A m \in D \ T : IsLeaf(t, m)
  BY <1>3 DEF IsLeaf
<1>6. \A m \in D : IsLeaf(t, m) \in BOOLEAN
  BY DEF IsLeaf
<1>7. ASSUME NEW m \in T, lv[m] > 0
      PROVE  \E j \in 1 .. Len(RowOf(t)[m]) + 1 :
                /\ next[m] = ch[m][j]
                /\ j > 1 => ~(k < RowOf(t)[m][j - 1].key) /\ j - 1 \in 1 .. Len(RowOf(t)[m])
                /\ j <= Len(RowOf(t)[m]) => k < RowOf(t)[m][j].key
  <2>1. PICK s, c : s \in Rows /\ s = RowOf(t)[m] /\ c = ch[m]
    BY <1>3
  <2> s \in Rows
    BY <2>1
  <2>2. s # <<>> /\ Links(s, c) /\ Len(s) \in Nat
    BY <1>3, <1>7, <2>1
  <2>3. PICK j \in 1 .. Len(s) + 1 : j = Position(s, k)
    BY PositionFacts
  <2>4. /\ \A i \in 1 .. Len(s) : i < j => ~(k < s[i].key)
        /\ j <= Len(s) => k < s[j].key
    BY <2>3, PositionFacts
  <2>5. next[m] = BChild(s, j)
    BY <1>3, <2>1, <2>3 DEF GetInsertionNode
  <2>6. BChild(s, j) = c[j]
    BY <2>2, ChildAt
  <2>7. j > 1 => j - 1 \in 1 .. Len(s) /\ j - 1 < j
    BY <2>2
  <2> HIDE DEF next
  <2> QED BY <2>1, <2>4, <2>5, <2>6, <2>7
<1>8. ASSUME NEW m \in T, lv[m] > 0
      PROVE  /\ next[m] \in T /\ lv[next[m]] \in Nat /\ lv[next[m]] < lv[m]
             /\ lo[m] < k /\ k < hi[m] => lo[next[m]] < k /\ k < hi[next[m]]
  <2> HIDE DEF next
  <2>1. PICK s, c : s \in Rows /\ s = RowOf(t)[m] /\ c = next[m]
    BY <1>3
  <2> s \in Rows
    BY <2>1
  <2>2. PICK j \in 1 .. Len(s) + 1 :
                /\ c = ch[m][j]
                /\ j > 1 => ~(k < s[j - 1].key) /\ j - 1 \in 1 .. Len(s)
                /\ j <= Len(s) => k < s[j].key
    BY <1>7, <1>8, <2>1
  <2>3. PICK d : d = ch[m][j]
    OBVIOUS
  <2>4. /\ d \in T /\ lv[d] \in Nat /\ lv[d] + 1 = lv[m]
        /\ lo[d] = LoAt(s, j, lo[m]) /\ hi[d] = HiAt(s, j, hi[m])
    BY <1>8, <2>1, <2>3, TreeChild
  <2>5. lv[d] < lv[m]
    BY <1>3, <2>4
  <2>6. ASSUME lo[m] < k, k < hi[m] PROVE LoAt(s, j, lo[m]) < k /\ k < HiAt(s, j, hi[m])
    <3>1. \A i \in 1 .. Len(s) : s[i].key \in Nat /\ s[i].key # k
      <4>1. \A i \in 1 .. Len(s) : s[i].key \in Nat
        BY RowFacts
      <4> QED BY <2>1, <4>1 DEF KeysOf, RowKeys
    <3>2. LoAt(s, j, lo[m]) < k
      <4>1. CASE j = 1
        BY <2>6, <4>1 DEF LoAt
      <4>2. CASE j # 1
        <5>1. j > 1
          BY <1>3, <2>1, <4>2
        <5>2. s[j - 1].key \in Nat /\ s[j - 1].key # k /\ ~(k < s[j - 1].key)
          BY <2>2, <3>1, <5>1
        <5>3. s[j - 1].key < k
          BY <5>2
        <5> QED BY <4>2, <5>3 DEF LoAt
      <4> QED BY <4>1, <4>2
    <3>3. k < HiAt(s, j, hi[m])
      <4>1. CASE j > Len(s)
        BY <2>6, <4>1 DEF HiAt
      <4>2. CASE ~(j > Len(s))
        <5>1. j <= Len(s)
          BY <1>3, <2>1, <4>2
        <5> QED BY <2>2, <4>2, <5>1 DEF HiAt
      <4> QED BY <4>1, <4>2
    <3> QED BY <3>2, <3>3
  <2> QED BY <2>1, <2>2, <2>3, <2>4, <2>5, <2>6
<1>9. found = Descent(D, stop, val, next, found)
  <2>1. \A m \in D : ~stop[m] => next[m] \in D
    <3> SUFFICES ASSUME NEW m \in D, ~stop[m] PROVE next[m] \in D
      OBVIOUS
    <3>1. m \in T /\ lv[m] # 0
      BY <1>4, <1>5
    <3>2. lv[m] > 0
      BY <1>3, <3>1
    <3> HIDE DEF next, stop
    <3> QED BY <1>3, <1>8, <3>1, <3>2
  <2>2. stop \in [D -> BOOLEAN]
    BY <1>6
  <2> HIDE DEF D, stop, val, next
  <2>3. \E f : f = Descent(D, stop, val, next, f)
    BY <2>1, <2>2, DescentExists
  <2> HIDE DEF Body
  <2>4. \E f : f = Body(f)
    BY <1>2, <2>3
  <2>5. found = Body(found)
    BY <2>4
  <2> HIDE DEF found
  <2> QED BY <1>2, <2>5
<1> DEFINE P == {m \in T : lo[m] < k /\ k < hi[m]}
           rank == [m \in P |-> lv[m]]
<1>10. P \in SUBSET D /\ rank \in [P -> Nat]
  BY <1>3
<1>11. ASSUME NEW m \in P, ~stop[m] PROVE next[m] \in P /\ rank[next[m]] < rank[m]
  <2>1. m \in T /\ lo[m] < k /\ k < hi[m] /\ lv[m] # 0 /\ rank[m] = lv[m]
    BY <1>3, <1>4, <1>11
  <2>2. lv[m] > 0
    BY <1>3, <2>1
  <2> HIDE DEF next
  <2>3. next[m] \in T /\ lv[next[m]] < lv[m] /\ lo[next[m]] < k /\ k < hi[next[m]]
    BY <1>8, <2>1, <2>2
  <2>4. next[m] \in P
    BY <2>3
  <2>5. rank[next[m]] = lv[next[m]]
    BY <2>4
  <2> QED BY <2>1, <2>3, <2>4, <2>5
<1>12. t.root \in P
  BY <1>3 DEF TreeShape, Shape
<1>13. PICK x \in P : stop[x] /\ found[t.root] = val[x]
  <2> HIDE DEF P, rank, D, stop, val, next, found
  <2> QED BY <1>9, <1>10, <1>11, <1>12, DescentEnds
<1>14. x \in D /\ IsLeaf(t, x) /\ val[x] = x
  BY <1>10, <1>13
<1> HIDE DEF D, stop, val, next, found
<1> QED BY <1>1, <1>4, <1>13, <1>14

\* The highest element below a node.
LEMMA HighestFacts ==
    ASSUME NEW t, NEW top \in Nat, NEW T, NEW ch, NEW lv, NEW lo, NEW hi,
           TreeShape(t, top, T, ch, lv, lo, hi), \A n \in T \ {t.root} : RowOf(t)[n] # <<>>,
           NEW n \in T, n # t.root
    PROVE  \E y \in T : /\ Highest(t, n) = [node |-> y, at |-> Len(RowOf(t)[y])]
                        /\ y # t.root /\ lv[y] = 0 /\ hi[y] = hi[n]
<1> DEFINE D == DOMAIN t.nodes
           stop == [m \in D |-> t.nodes[m].elems = <<>> \/ Last(t.nodes[m].elems).right = NoNode]
           val == [m \in D |-> IF t.nodes[m].elems = <<>> THEN NotFound
                               ELSE [node |-> m, at |-> Len(t.nodes[m].elems)]]
           next == [m \in D |-> Last(t.nodes[m].elems).right]
           Body(f) == [m \in D |->
                         IF t.nodes[m].elems = <<>> THEN NotFound
                         ELSE IF Last(t.nodes[m].elems).right = NoNode
                         THEN [node |-> m, at |-> Len(t.nodes[m].elems)]
                         ELSE f[Last(t.nodes[m].elems).right]]
           end == CHOOSE f : f = Body(f)
<1>1. Highest(t, n) = end[n]
  BY DEF Highest
<1>2. \A f : Body(f) = Descent(D, stop, val, next, f)
  BY DEF Descent
<1>3. /\ T \in SUBSET D /\ t.root \in T /\ 0 \notin D
      /\ \A m \in D : t.nodes[m].elems = RowOf(t)[m]
      /\ \A m \in T : /\ RowOf(t)[m] \in Rows /\ Len(RowOf(t)[m]) \in Nat
                      /\ lv[m] \in Nat /\ lo[m] \in Int /\ hi[m] \in Int
                      /\ Ordered(RowOf(t)[m], lo[m], hi[m]) /\ Links(RowOf(t)[m], ch[m])
                      /\ lv[m] = 0 => \A j \in Nat : ch[m][j] = 0
      /\ \A m \in D \ T : RowOf(t)[m] = <<>>
  BY TreeTypes
<1>4. ASSUME NEW m \in T, RowOf(t)[m] # <<>>
      PROVE  /\ lv[m] = 0 <=> next[m] = 0
             /\ lv[m] # 0 => /\ next[m] \in T /\ next[m] # t.root /\ lv[next[m]] \in Nat
                             /\ lv[next[m]] < lv[m] /\ hi[next[m]] = hi[m]
  <2>1. PICK s, c : s \in Rows /\ s = RowOf(t)[m] /\ c = ch[m]
    BY <1>3
  <2> s \in Rows
    BY <2>1
  <2>2. s # <<>> /\ Links(s, c) /\ Len(s) \in Nat /\ Len(s) > 0
    BY <1>3, <1>4, <2>1, RowFacts
  <2>3. PICK j \in 1 .. Len(s) + 1 : j = Len(s) + 1
    BY <2>2
  <2>4. Last(s).right = c[j]
    BY <2>2, <2>3 DEF Links, Last
  <2>5. next[m] = c[j]
    BY <1>3, <2>1, <2>4
  <2> HIDE DEF next
  <2>6. CASE lv[m] = 0
    <3>1. j \in Nat
      BY <2>2
    <3> QED BY <1>3, <2>1, <2>5, <2>6, <3>1
  <2>7. CASE lv[m] # 0
    <3>1. lv[m] > 0 /\ lv[m] \in Nat
      BY <1>3, <2>7
    <3>2. PICK d : d = ch[m][j]
      OBVIOUS
    <3>3. /\ d \in T /\ d # t.root /\ lv[d] \in Nat /\ lv[d] + 1 = lv[m]
          /\ hi[d] = HiAt(s, j, hi[m])
      BY <2>1, <3>1, <3>2, TreeChild
    <3>4. d # 0 /\ lv[d] < lv[m]
      BY <1>3, <3>1, <3>3
    <3>5. hi[d] = hi[m]
      BY <2>2, <2>3, <3>3 DEF HiAt
    <3> QED BY <2>1, <2>5, <2>7, <3>2, <3>3, <3>4, <3>5
  <2> QED BY <2>6, <2>7
<1>5. \A m \in D : stop[m] <=> t.nodes[m].elems = <<>> \/ next[m] = 0
  BY DEF NoNode
<1>6. end = Descent(D, stop, val, next, end)
  <2>1. \A m \in D : ~stop[m] => next[m] \in D
    <3> SUFFICES ASSUME NEW m \in D, ~stop[m] PROVE next[m] \in D
      OBVIOUS
    <3> HIDE DEF next, stop
    <3>1. m \in T /\ RowOf(t)[m] # <<>> /\ next[m] # 0
      BY <1>3, <1>5
    <3> QED BY <1>3, <1>4, <3>1
  <2>2. stop \in [D -> BOOLEAN]
    OBVIOUS
  <2> HIDE DEF D, stop, val, next
  <2>3. \E f : f = Descent(D, stop, val, next, f)
    BY <2>1, <2>2, DescentExists
  <2> HIDE DEF Body
  <2>4. \E f : f = Body(f)
    BY <1>2, <2>3
  <2>5. end = Body(end)
    BY <2>4
  <2> HIDE DEF end
  <2> QED BY <1>2, <2>5
<1> DEFINE P == {m \in T \ {t.root} : hi[m] = hi[n]}
           rank == [m \in P |-> lv[m]]
<1>7. P \in SUBSET D /\ rank \in [P -> Nat] /\ n \in P
  BY <1>3
<1>8. ASSUME NEW m \in P, ~stop[m] PROVE next[m] \in P /\ rank[next[m]] < rank[m]
  <2>1. m \in T /\ RowOf(t)[m] # <<>> /\ hi[m] = hi[n] /\ rank[m] = lv[m]
    OBVIOUS
  <2> HIDE DEF next, stop
  <2>2. next[m] # 0
    BY <1>3, <1>5, <1>8, <2>1
  <2>3. next[m] \in T /\ next[m] # t.root /\ lv[next[m]] < lv[m] /\ hi[next[m]] = hi[m]
    BY <1>4, <2>1, <2>2
  <2>4. next[m] \in P
    BY <2>1, <2>3
  <2>5. rank[next[m]] = lv[next[m]]
    BY <2>4
  <2> QED BY <2>1, <2>3, <2>4, <2>5
<1>9. PICK x \in P : stop[x] /\ end[n] = val[x]
  <2> HIDE DEF P, rank, D, stop, val, next, end
  <2> QED BY <1>6, <1>7, <1>8, DescentEnds
<1>10. x \in T /\ x # t.root /\ hi[x] = hi[n] /\ RowOf(t)[x] # <<>>
  OBVIOUS
<1>11. val[x] = [node |-> x, at |-> Len(RowOf(t)[x])] /\ next[x] = 0
  <2>1. x \in D /\ t.nodes[x].elems = RowOf(t)[x]
    BY <1>3, <1>10
  <2>2. next[x] = 0
    <3> HIDE DEF next, stop, P, val
    <3> QED BY <1>5, <1>9, <1>10, <2>1
  <2> QED BY <1>10, <2>1, <2>2
<1> HIDE DEF P, rank, D, stop, val, next, end
<1> QED BY <1>1, <1>4, <1>9, <1>10, <1>11

\* The lowest element below a node.
LEMMA LowestFacts ==
    ASSUME NEW t, NEW top \in Nat, NEW T, NEW ch, NEW lv, NEW lo, NEW hi,
           TreeShape(t, top, T, ch, lv, lo, hi), \A n \in T \ {t.root} : RowOf(t)[n] # <<>>,
           NEW n \in T, n # t.root
    PROVE  \E y \in T : /\ Lowest(t, n) = [node |-> y, at |-> 1]
                        /\ y # t.root /\ lv[y] = 0 /\ lo[y] = lo[n]
<1> DEFINE D == DOMAIN t.nodes
           stop == [m \in D |-> t.nodes[m].elems = <<>> \/ t.nodes[m].elems[1].left = NoNode]
           val == [m \in D |-> IF t.nodes[m].elems = <<>> THEN NotFound
                               ELSE [node |-> m, at |-> 1]]
           next == [m \in D |-> t.nodes[m].elems[1].left]
           Body(f) == [m \in D |->
                         IF t.nodes[m].elems = <<>> THEN NotFound
                         ELSE IF t.nodes[m].elems[1].left = NoNode
                         THEN [node |-> m, at |-> 1]
                         ELSE f[t.nodes[m].elems[1].left]]
           end == CHOOSE f : f = Body(f)
<1>1. Lowest(t, n) = end[n]
  BY DEF Lowest
<1>2. \A f : Body(f) = Descent(D, stop, val, next, f)
  BY DEF Descent
<1>3. /\ T \in SUBSET D /\ t.root \in T /\ 0 \notin D
      /\ \A m \in D : t.nodes[m].elems = RowOf(t)[m]
      /\ \A m \in T : /\ RowOf(t)[m] \in Rows /\ Len(RowOf(t)[m]) \in Nat
                      /\ lv[m] \in Nat /\ lo[m] \in Int /\ hi[m] \in Int
                      /\ Ordered(RowOf(t)[m], lo[m], hi[m]) /\ Links(RowOf(t)[m], ch[m])
                      /\ lv[m] = 0 => \A j \in Nat : ch[m][j] = 0
      /\ \A m \in D \ T : RowOf(t)[m] = <<>>
  BY TreeTypes
<1>4. ASSUME NEW m \in T, RowOf(t)[m] # <<>>
      PROVE  /\ lv[m] = 0 <=> next[m] = 0
             /\ lv[m] # 0 => /\ next[m] \in T /\ next[m] # t.root /\ lv[next[m]] \in Nat
                             /\ lv[next[m]] < lv[m] /\ lo[next[m]] = lo[m]
  <2>1. PICK s, c : s \in Rows /\ s = RowOf(t)[m] /\ c = ch[m]
    BY <1>3
  <2> s \in Rows
    BY <2>1
  <2>2. s # <<>> /\ Links(s, c) /\ Len(s) \in Nat /\ Len(s) > 0
    BY <1>3, <1>4, <2>1, RowFacts
  <2>3. PICK j \in 1 .. Len(s) + 1 : j = 1
    BY <2>2
  <2>4. s[1].left = c[j]
    BY <2>2, <2>3 DEF Links
  <2>5. next[m] = c[j]
    BY <1>3, <2>1, <2>4
  <2> HIDE DEF next
  <2>6. CASE lv[m] = 0
    <3>1. j \in Nat
      BY <2>2
    <3> QED BY <1>3, <2>1, <2>5, <2>6, <3>1
  <2>7. CASE lv[m] # 0
    <3>1. lv[m] > 0 /\ lv[m] \in Nat
      BY <1>3, <2>7
    <3>2. PICK d : d = ch[m][j]
      OBVIOUS
    <3>3. /\ d \in T /\ d # t.root /\ lv[d] \in Nat /\ lv[d] + 1 = lv[m]
          /\ lo[d] = LoAt(s, j, lo[m])
      BY <2>1, <3>1, <3>2, TreeChild
    <3>4. d # 0 /\ lv[d] < lv[m]
      BY <1>3, <3>1, <3>3
    <3>5. lo[d] = lo[m]
      BY <2>2, <2>3, <3>3 DEF LoAt
    <3> QED BY <2>1, <2>5, <2>7, <3>2, <3>3, <3>4, <3>5
  <2> QED BY <2>6, <2>7
<1>5. \A m \in D : stop[m] <=> t.nodes[m].elems = <<>> \/ next[m] = 0
  BY DEF NoNode
<1>6. end = Descent(D, stop, val, next, end)
  <2>1. \A m \in D : ~stop[m] => next[m] \in D
    <3> SUFFICES ASSUME NEW m \in D, ~stop[m] PROVE next[m] \in D
      OBVIOUS
    <3> HIDE DEF next, stop
    <3>1. m \in T /\ RowOf(t)[m] # <<>> /\ next[m] # 0
      BY <1>3, <1>5
    <3> QED BY <1>3, <1>4, <3>1
  <2>2. stop \in [D -> BOOLEAN]
    OBVIOUS
  <2> HIDE DEF D, stop, val, next
  <2>3. \E f : f = Descent(D, stop, val, next, f)
    BY <2>1, <2>2, DescentExists
  <2> HIDE DEF Body
  <2>4. \E f : f = Body(f)
    BY <1>2, <2>3
  <2>5. end = Body(end)
    BY <2>4
  <2> HIDE DEF end
  <2> QED BY <1>2, <2>5
<1> DEFINE P == {m \in T \ {t.root} : lo[m] = lo[n]}
           rank == [m \in P |-> lv[m]]
<1>7. P \in SUBSET D /\ rank \in [P -> Nat] /\ n \in P
  BY <1>3
<1>8. ASSUME NEW m \in P, ~stop[m] PROVE next[m] \in P /\ rank[next[m]] < rank[m]
  <2>1. m \in T /\ RowOf(t)[m] # <<>> /\ lo[m] = lo[n] /\ rank[m] = lv[m]
    OBVIOUS
  <2> HIDE DEF next, stop
  <2>2. next[m] # 0
    BY <1>3, <1>5, <1>8, <2>1
  <2>3. next[m] \in T /\ next[m] # t.root /\ lv[next[m]] < lv[m] /\ lo[next[m]] = lo[m]
    BY <1>4, <2>1, <2>2
  <2>4. next[m] \in P
    BY <2>1, <2>3
  <2>5. rank[next[m]] = lv[next[m]]
    BY <2>4
  <2> QED BY <2>1, <2>3, <2>4, <2>5
<1>9. PICK x \in P : stop[x] /\ end[n] = val[x]
  <2> HIDE DEF P, rank, D, stop, val, next, end
  <2> QED BY <1>6, <1>7, <1>8, DescentEnds
<1>10. x \in T /\ x # t.root /\ lo[x] = lo[n] /\ RowOf(t)[x] # <<>>
  OBVIOUS
<1>11. val[x] = [node |-> x, at |-> 1] /\ next[x] = 0
  <2>1. x \in D /\ t.nodes[x].elems = RowOf(t)[x]
    BY <1>3, <1>10
  <2>2. next[x] = 0
    <3> HIDE DEF next, stop, P, val
    <3> QED BY <1>5, <1>9, <1>10, <2>1
  <2> QED BY <1>10, <2>1, <2>2
<1> HIDE DEF P, rank, D, stop, val, next, end
<1> QED BY <1>1, <1>4, <1>9, <1>10, <1>11

\* A set with one element more; two sets and one element.
Adds(new, old, k) == new = old \cup {k}
Joins(all, a, b, k) == all = a \cup b \cup {k}

\* The keys of rows that are made from others.
LEMMA InsertedKeys ==
    ASSUME NEW s \in Rows, NEW q, NEW a \in Nat, NEW k, KeyInserted(q, s, a, k)
    PROVE  Adds(RowKeys(q), RowKeys(s), k)
<1>1. /\ Len(s) \in Nat /\ Len(q) = Len(s) + 1 /\ a \in 1 .. Len(s) + 1 /\ q[a].key = k
      /\ \A i \in 1 .. a - 1 : q[i].key = s[i].key
      /\ \A i \in a .. Len(s) : q[i + 1].key = s[i].key
  BY RowFacts DEF KeyInserted
<1>2. ASSUME NEW i \in 1 .. Len(q) PROVE q[i].key \in RowKeys(s) \cup {k}
  <2>1. CASE i < a
    <3>1. i \in 1 .. a - 1 /\ i \in 1 .. Len(s)
      BY <1>1, <2>1
    <3> QED BY <1>1, <3>1 DEF RowKeys
  <2>2. CASE i = a
    BY <1>1, <2>2
  <2>3. CASE i > a
    <3>1. PICK j \in 1 .. Len(s) : j >= a /\ i = j + 1
      <4>1. i - 1 \in 1 .. Len(s) /\ i - 1 >= a /\ i = (i - 1) + 1
        BY <1>1, <2>3
      <4> QED BY <4>1
    <3>2. j \in a .. Len(s)
      BY <1>1, <3>1
    <3> QED BY <1>1, <3>1, <3>2 DEF RowKeys
  <2> QED BY <1>1, <2>1, <2>2, <2>3
<1>3. ASSUME NEW j \in 1 .. Len(s) PROVE s[j].key \in RowKeys(q)
  <2>1. CASE j < a
    <3>1. j \in 1 .. a - 1 /\ j \in 1 .. Len(q)
      BY <1>1, <2>1
    <3>2. q[j].key = s[j].key
      BY <1>1, <3>1
    <3> QED BY <3>1, <3>2 DEF RowKeys
  <2>2. CASE ~(j < a)
    <3>1. j \in a .. Len(s) /\ j + 1 \in 1 .. Len(q)
      BY <1>1, <2>2
    <3>2. q[j + 1].key = s[j].key
      BY <1>1, <3>1
    <3> QED BY <3>1, <3>2 DEF RowKeys
  <2> QED BY <2>1, <2>2
<1>4. k \in RowKeys(q)
  BY <1>1 DEF RowKeys
<1> QED BY <1>2, <1>3, <1>4 DEF RowKeys, Adds

\* A row that has lost an element has lost its key.
LEMMA RemovedKeys ==
    ASSUME NEW s \in Rows, NEW q, NEW a \in Nat, KeyRemoved(q, s, a)
    PROVE  Adds(RowKeys(s), RowKeys(q), s[a].key)
<1>1. /\ Len(s) \in Nat /\ Len(q) = Len(s) - 1 /\ a \in 1 .. Len(s)
      /\ \A j \in 1 .. a - 1 : q[j].key = s[j].key
      /\ \A j \in a .. Len(q) : q[j].key = s[j + 1].key
  BY RowFacts DEF KeyRemoved
<1>2. ASSUME NEW i \in 1 .. Len(s) PROVE s[i].key \in RowKeys(q) \cup {s[a].key}
  <2>1. CASE i < a
    <3>1. i \in 1 .. a - 1 /\ i \in 1 .. Len(q)
      BY <1>1, <2>1
    <3>2. q[i].key = s[i].key
      BY <1>1, <3>1
    <3> QED BY <3>1, <3>2 DEF RowKeys
  <2>2. CASE i > a
    <3>1. PICK j \in 1 .. Len(q) : j >= a /\ i = j + 1
      <4>1. i - 1 \in 1 .. Len(q) /\ i - 1 >= a /\ i = (i - 1) + 1
        BY <1>1, <2>2
      <4> QED BY <4>1
    <3>2. j \in a .. Len(q)
      BY <1>1, <3>1
    <3>3. q[j].key = s[i].key
      BY <1>1, <3>1, <3>2
    <3> QED BY <3>1, <3>3 DEF RowKeys
  <2> QED BY <1>1, <2>1, <2>2
<1>3. ASSUME NEW j \in 1 .. Len(q) PROVE q[j].key \in RowKeys(s)
  <2>1. CASE j < a
    <3>1. j \in 1 .. a - 1 /\ j \in 1 .. Len(s)
      BY <1>1, <2>1
    <3> QED BY <1>1, <3>1 DEF RowKeys
  <2>2. CASE ~(j < a)
    <3>1. j \in a .. Len(q) /\ j + 1 \in 1 .. Len(s)
      BY <1>1, <2>2
    <3> QED BY <1>1, <3>1 DEF RowKeys
  <2> QED BY <2>1, <2>2
<1>4. s[a].key \in RowKeys(s)
  BY <1>1 DEF RowKeys
<1> QED BY <1>2, <1>3, <1>4 DEF RowKeys, Adds

\* A row that is cut keeps its keys, in two rows and the element between them.
LEMMA CutKeys ==
    ASSUME NEW c \in Rows, NEW l \in Rows, NEW r \in Rows, NEW m \in Nat, IsCut(c, m, l, r)
    PROVE  Joins(RowKeys(c), RowKeys(l), RowKeys(r), c[m].key)
<1>1. /\ Len(c) \in Nat /\ m \in 1 .. Len(c) /\ Len(l) = m - 1 /\ Len(r) = Len(c) - m
      /\ \A i \in 1 .. m - 1 : l[i] = c[i]
      /\ \A i \in 1 .. Len(c) - m : r[i] = c[m + i]
  BY RowFacts DEF IsCut
<1>2. ASSUME NEW i \in 1 .. Len(c) PROVE c[i].key \in RowKeys(l) \cup RowKeys(r) \cup {c[m].key}
  <2>1. CASE i < m
    <3>1. i \in 1 .. m - 1 /\ i \in 1 .. Len(l)
      BY <1>1, <2>1
    <3>2. l[i].key = c[i].key
      BY <1>1, <3>1
    <3> QED BY <3>1, <3>2 DEF RowKeys
  <2>2. CASE i > m
    <3>1. PICK j \in 1 .. Len(r) : i = m + j
      <4>1. i - m \in 1 .. Len(r) /\ i = m + (i - m)
        BY <1>1, <2>2
      <4> QED BY <4>1
    <3>2. r[j].key = c[i].key
      BY <1>1, <3>1
    <3> QED BY <3>1, <3>2 DEF RowKeys
  <2> QED BY <1>1, <2>1, <2>2
<1>3. ASSUME NEW j \in 1 .. Len(l) PROVE l[j].key \in RowKeys(c)
  <2>1. j \in 1 .. m - 1 /\ j \in 1 .. Len(c)
    BY <1>1
  <2> QED BY <1>1, <2>1 DEF RowKeys
<1>4. ASSUME NEW j \in 1 .. Len(r) PROVE r[j].key \in RowKeys(c)
  <2>1. j \in 1 .. Len(c) - m /\ m + j \in 1 .. Len(c)
    BY <1>1
  <2> QED BY <1>1, <2>1 DEF RowKeys
<1>5. c[m].key \in RowKeys(c)
  BY <1>1 DEF RowKeys
<1> QED BY <1>2, <1>3, <1>4, <1>5 DEF RowKeys, Joins

\* A key of a leaf is in no other row.
LEMMA LeafKeyOnce ==
    ASSUME NEW D, NEW row, NEW par, NEW root, NEW top, NEW T, NEW ch, NEW lv, NEW lo, NEW hi,
           Shape(D, row, par, root, top, T, ch, lv, lo, hi), NEW y \in T, lv[y] = 0,
           NEW k \in Nat, lo[y] < k, k < hi[y], NEW n \in T, n # y
    PROVE  k \notin RowKeys(row[n])
<1>1. SUFFICES ASSUME NEW i \in 1 .. Len(row[n]), row[n][i].key = k PROVE FALSE
  BY DEF RowKeys
<1>2. lv[y] <= lv[n] /\ lo[y] \in Int /\ hi[y] \in Int
  BY NodeTypes
<1>3. ApartFrom(row, lv, lo, hi, y, n)
  BY <1>2, NodesApart
<1>4. Outside(k, lo[y], hi[y])
  BY <1>1, <1>3 DEF ApartFrom
<1> QED BY <1>2, <1>4 DEF Outside

\* A leaf without one of its keys: the tree has all others.
LEMMA LeafWithout ==
    ASSUME NEW D, NEW row, NEW par, NEW root, NEW top, NEW T, NEW ch, NEW lv, NEW lo, NEW hi,
           Shape(D, row, par, root, top, T, ch, lv, lo, hi), NEW n \in T, lv[n] = 0,
           NEW row2, \A x \in T \ {n} : row2[x] = row[x],
           NEW a \in Nat, KeyRemoved(row2[n], row[n], a)
    PROVE  KeysOf(row2, T) = KeysOf(row, T) \ {row[n][a].key}
<1> DEFINE k == row[n][a].key
<1>1. /\ row[n] \in Rows /\ Ordered(row[n], lo[n], hi[n]) /\ a \in 1 .. Len(row[n])
      /\ \A i \in 1 .. Len(row[n]) : row[n][i].key \in Nat
      /\ Len(row[n]) \in Nat
  BY NodeTypes DEF KeyRemoved
<1>2. k \in Nat /\ lo[n] < k /\ k < hi[n]
  BY <1>1 DEF Ordered
<1>3. \A x \in T \ {n} : k \notin RowKeys(row[x])
  BY <1>2, LeafKeyOnce
<1>4. RowKeys(row[n]) = RowKeys(row2[n]) \cup {k}
  BY <1>1, RemovedKeys DEF Adds
<1>5. k \notin RowKeys(row2[n])
  <2>1. SUFFICES ASSUME NEW i \in 1 .. Len(row2[n]), row2[n][i].key = k PROVE FALSE
    BY DEF RowKeys
  <2>2. /\ Len(row2[n]) = Len(row[n]) - 1
        /\ \A j \in 1 .. a - 1 : row2[n][j].key = row[n][j].key
        /\ \A j \in a .. Len(row2[n]) : row2[n][j].key = row[n][j + 1].key
    BY DEF KeyRemoved
  <2>3. CASE i < a
    <3>1. i \in 1 .. a - 1 /\ i \in 1 .. Len(row[n])
      BY <1>1, <2>2, <2>3
    <3>2. row[n][i].key < row[n][a].key
      BY <1>1, <2>3, <3>1 DEF Ordered
    <3> QED BY <1>1, <2>1, <2>2, <3>1, <3>2
  <2>4. CASE ~(i < a)
    <3>1. i \in a .. Len(row2[n]) /\ i + 1 \in 1 .. Len(row[n]) /\ a < i + 1
      BY <1>1, <2>2, <2>4
    <3>2. row[n][a].key < row[n][i + 1].key
      BY <1>1, <3>1 DEF Ordered
    <3> QED BY <1>1, <2>1, <2>2, <3>1, <3>2
  <2> QED BY <2>3, <2>4
<1> HIDE DEF k
<1>6. \A x \in T \ {n} : RowKeys(row2[x]) = RowKeys(row[x])
  OBVIOUS
<1>7. KeysOf(row2, T) = KeysOf(row, T) \ {k}
  BY <1>3, <1>4, <1>5, <1>6 DEF KeysOf
<1> QED BY <1>7 DEF k

\* The keys of the tree as rows are changed, cut, and merged.
LEMMA KeysWith ==
    ASSUME NEW T, NEW n \in T, NEW row, NEW row2, \A x \in T \ {n} : row2[x] = row[x],
           NEW k, Adds(RowKeys(row2[n]), RowKeys(row[n]), k)
    PROVE  Adds(KeysOf(row2, T), KeysOf(row, T), k)
<1>1. \A x \in T \ {n} : RowKeys(row2[x]) = RowKeys(row[x])
  OBVIOUS
<1> QED BY <1>1 DEF KeysOf, Adds

\* The rows of n and new are that of n, cut at an element that p gets.
RowsCut(T, n, p, new, U, row, row2, k) ==
    /\ n \in T /\ p \in T /\ n # p /\ new \notin T /\ U = T \cup {new}
    /\ \A x \in T \ {n, p} : row2[x] = row[x]
    /\ Joins(RowKeys(row[n]), RowKeys(row2[n]), RowKeys(row2[new]), k)
    /\ Adds(RowKeys(row2[p]), RowKeys(row[p]), k)

\* Cutting a node keeps the keys of the tree.
LEMMA KeysCut ==
    ASSUME NEW T, NEW n, NEW p, NEW new, NEW U, NEW row, NEW row2, NEW k,
           RowsCut(T, n, p, new, U, row, row2, k)
    PROVE  KeysOf(row2, U) = KeysOf(row, T)
<1> n \in T /\ p \in T /\ n # p /\ new \notin T /\ U = T \cup {new}
  BY DEF RowsCut
<1>1. \A x \in T \ {n, p} : RowKeys(row2[x]) = RowKeys(row[x])
  BY DEF RowsCut
<1>2. /\ RowKeys(row[n]) = RowKeys(row2[n]) \cup RowKeys(row2[new]) \cup {k}
      /\ RowKeys(row2[p]) = RowKeys(row[p]) \cup {k}
  BY DEF RowsCut, Adds, Joins
<1> QED BY <1>1, <1>2 DEF KeysOf

\* The row of L is those of L and R around an element that p loses.
RowsMerged(T, L, R, p, U, row, row2, k) ==
    /\ L \in T /\ R \in T /\ p \in T /\ L # p /\ R # p /\ L # R /\ U = T \ {R}
    /\ \A x \in T \ {L, R, p} : row2[x] = row[x]
    /\ Joins(RowKeys(row2[L]), RowKeys(row[L]), RowKeys(row[R]), k)
    /\ Adds(RowKeys(row[p]), RowKeys(row2[p]), k)

\* Merging two nodes keeps the keys of the tree.
LEMMA KeysMerged ==
    ASSUME NEW T, NEW L, NEW R, NEW p, NEW U, NEW row, NEW row2, NEW k,
           RowsMerged(T, L, R, p, U, row, row2, k)
    PROVE  KeysOf(row2, U) = KeysOf(row, T)
<1> L \in T /\ R \in T /\ p \in T /\ L # p /\ R # p /\ L # R /\ U = T \ {R}
  BY DEF RowsMerged
<1>1. \A x \in T \ {L, R, p} : RowKeys(row2[x]) = RowKeys(row[x])
  BY DEF RowsMerged
<1>2. /\ RowKeys(row2[L]) = RowKeys(row[L]) \cup RowKeys(row[R]) \cup {k}
      /\ RowKeys(row[p]) = RowKeys(row2[p]) \cup {k}
  BY DEF RowsMerged, Adds, Joins
<1> QED BY <1>1, <1>2 DEF KeysOf

\* An empty new root adds no key.
LEMMA KeysGrown ==
    ASSUME NEW T, NEW r, r \notin T, NEW U, U = T \cup {r}, NEW row, NEW row2, \A x \in T : row2[x] = row[x], row2[r] = <<>>
    PROVE  KeysOf(row2, U) = KeysOf(row, T)
<1>1. \A x \in T : RowKeys(row2[x]) = RowKeys(row[x])
  OBVIOUS
<1>2. RowKeys(<<>>) = {}
  BY DEF RowKeys
<1> QED BY <1>1, <1>2 DEF KeysOf

\* An empty root that is dropped takes no key along.
LEMMA KeysDropped ==
    ASSUME NEW T, NEW r \in T, NEW U, U = T \ {r}, NEW row, row[r] = <<>>
    PROVE  KeysOf(row, U) = KeysOf(row, T)
<1>1. RowKeys(<<>>) = {}
  BY DEF RowKeys
<1> QED BY <1>1 DEF KeysOf

\* The keys of every row change as f says.
KeysMap(T, row, row2, f) ==
    \A x \in T : /\ Len(row2[x]) = Len(row[x])
                /\ \A i \in 1 .. Len(row[x]) : row2[x][i].key = f[row[x][i].key]

\* Where keys change in their rows they change in the tree.
LEMMA KeysMapped ==
    ASSUME NEW T, NEW row, NEW row2, NEW f, KeysMap(T, row, row2, f)
    PROVE  KeysOf(row2, T) = {f[k] : k \in KeysOf(row, T)}
<1>1. \A x \in T : RowKeys(row2[x]) = {f[k] : k \in RowKeys(row[x])}
  BY DEF RowKeys, KeysMap
<1>2. ASSUME NEW x \in T, NEW k \in RowKeys(row2[x]) PROVE k \in {f[j] : j \in KeysOf(row, T)}
  <2>1. PICK j \in RowKeys(row[x]) : k = f[j]
    <3>1. RowKeys(row2[x]) = {f[j] : j \in RowKeys(row[x])}
      BY <1>1
    <3> QED BY <1>2, <3>1
  <2>2. j \in KeysOf(row, T)
    BY DEF KeysOf
  <2> QED BY <2>1, <2>2
<1>3. ASSUME NEW x \in T, NEW j \in RowKeys(row[x]) PROVE f[j] \in KeysOf(row2, T)
  <2>1. f[j] \in RowKeys(row2[x])
    BY <1>1
  <2> QED BY <2>1 DEF KeysOf
<1>4. ASSUME NEW k \in KeysOf(row2, T) PROVE k \in {f[j] : j \in KeysOf(row, T)}
  <2>1. PICK x \in T : k \in RowKeys(row2[x])
    BY DEF KeysOf
  <2> QED BY <1>2, <2>1
<1>5. ASSUME NEW j \in KeysOf(row, T) PROVE f[j] \in KeysOf(row2, T)
  <2>1. PICK x \in T : j \in RowKeys(row[x])
    BY DEF KeysOf
  <2> QED BY <1>3, <2>1
<1> QED BY <1>4, <1>5

-----------------------------------------------------------------------------
(* What the parts of the operations do to the rows and parents of a tree.  *)

\* The row of a new node.
LEMMA EmptyRow == <<>> \in Rows /\ Len(<<>>) = 0
BY EmptySeq DEF Rows

\* A node is its row and its parent.
LEMMA TreeFields ==
    ASSUME NEW t, IsTree(t)
    PROVE  /\ RowOf(t) \in [DOMAIN t.nodes -> Rows] /\ ParOf(t) \in [DOMAIN t.nodes -> Nat]
           /\ \A n \in DOMAIN t.nodes :
                /\ t.nodes[n] = [parent |-> ParOf(t)[n], elems |-> RowOf(t)[n]]
                /\ t.nodes[n].elems = RowOf(t)[n] /\ t.nodes[n].parent = ParOf(t)[n]
BY DEF IsTree, RowOf, ParOf

\* A tree is known by its rows, parents, and root.
LEMMA MakeTree ==
    ASSUME NEW D, NEW nodes, nodes \in [D -> [parent : Nat, elems : Rows]], NEW root,
           NEW u, u = [nodes |-> nodes, root |-> root]
    PROVE  /\ IsTree(u) /\ DOMAIN u.nodes = D /\ u.root = root
           /\ \A x \in D : RowOf(u)[x] = nodes[x].elems /\ ParOf(u)[x] = nodes[x].parent
BY DEF IsTree, RowOf, ParOf

\* AddNode adds a node and leaves the others alone.
LEMMA AddFacts ==
    ASSUME NEW t, IsTree(t), NEW n, n \notin DOMAIN t.nodes, NEW p \in Nat, NEW s \in Rows
    PROVE  LET u == AddNode(t, n, [parent |-> p, elems |-> s]) IN
           /\ IsTree(u) /\ DOMAIN u.nodes = DOMAIN t.nodes \cup {n} /\ u.root = t.root
           /\ RowOf(u)[n] = s /\ ParOf(u)[n] = p
           /\ \A x \in DOMAIN t.nodes : RowOf(u)[x] = RowOf(t)[x] /\ ParOf(u)[x] = ParOf(t)[x]
<1> DEFINE u == AddNode(t, n, [parent |-> p, elems |-> s])
           E == DOMAIN t.nodes \cup {n}
           nodes == [x \in E |-> IF x = n THEN [parent |-> p, elems |-> s] ELSE t.nodes[x]]
<1>1. nodes \in [E -> [parent : Nat, elems : Rows]]
  BY DEF IsTree
<1>3. u = [nodes |-> nodes, root |-> t.root]
  <2>1. t = [nodes |-> t.nodes, root |-> t.root]
    BY DEF IsTree
  <2>2. u = [t EXCEPT !.nodes = nodes]
    BY DEF AddNode
  <2> HIDE DEF nodes, u
  <2> QED BY <2>1, <2>2
<1>4. /\ IsTree(u) /\ DOMAIN u.nodes = E /\ u.root = t.root
      /\ \A x \in E : RowOf(u)[x] = nodes[x].elems /\ ParOf(u)[x] = nodes[x].parent
  <2> HIDE DEF nodes, u, E
  <2> QED BY <1>1, <1>3, MakeTree
<1>5. nodes[n] = [parent |-> p, elems |-> s] /\ \A x \in DOMAIN t.nodes : nodes[x] = t.nodes[x]
  OBVIOUS
<1>6. \A x \in DOMAIN t.nodes : t.nodes[x].elems = RowOf(t)[x] /\ t.nodes[x].parent = ParOf(t)[x]
  BY TreeFields
<1> HIDE DEF nodes, u
<1> QED BY <1>4, <1>5, <1>6 DEF u

\* A node gets another row, or another parent; the tree another root.
SetElems(t, n, s) == [t EXCEPT !.nodes[n].elems = s]
SetParent(t, n, p) == [t EXCEPT !.nodes[n].parent = p]
SetRoot(t, r) == [t EXCEPT !.root = r]

\* A node that gets another row leaves the others alone.
LEMMA ElemsFacts ==
    ASSUME NEW t, IsTree(t), NEW n \in DOMAIN t.nodes, NEW s \in Rows
    PROVE  LET u == SetElems(t, n, s) IN
           /\ IsTree(u) /\ DOMAIN u.nodes = DOMAIN t.nodes /\ u.root = t.root
           /\ RowOf(u)[n] = s
           /\ \A x \in DOMAIN t.nodes \ {n} : RowOf(u)[x] = RowOf(t)[x]
           /\ \A x \in DOMAIN t.nodes : ParOf(u)[x] = ParOf(t)[x]
<1> DEFINE u == SetElems(t, n, s)
           E == DOMAIN t.nodes
           nodes == [t.nodes EXCEPT ![n] = [parent |-> t.nodes[n].parent, elems |-> s]]
<1>1. t = [nodes |-> t.nodes, root |-> t.root] /\ t.nodes \in [E -> [parent : Nat, elems : Rows]]
  BY DEF IsTree
<1>2. nodes \in [E -> [parent : Nat, elems : Rows]]
  BY <1>1
<1>3. u = [nodes |-> nodes, root |-> t.root]
  <2>1. [t.nodes[n] EXCEPT !.elems = s] = [parent |-> t.nodes[n].parent, elems |-> s]
    BY <1>1
  <2>2. u = [t EXCEPT !.nodes = [t.nodes EXCEPT ![n] = [t.nodes[n] EXCEPT !.elems = s]]]
    BY DEF SetElems
  <2>3. u = [t EXCEPT !.nodes = nodes]
    BY <2>1, <2>2
  <2> HIDE DEF nodes, u
  <2> QED BY <1>1, <2>3
<1>4. /\ IsTree(u) /\ DOMAIN u.nodes = E /\ u.root = t.root
      /\ \A x \in E : RowOf(u)[x] = nodes[x].elems /\ ParOf(u)[x] = nodes[x].parent
  <2> HIDE DEF nodes, u, E
  <2> QED BY <1>2, <1>3, MakeTree
<1>5. nodes[n].elems = s /\ nodes[n].parent = t.nodes[n].parent /\ \A x \in E \ {n} : nodes[x] = t.nodes[x]
  BY <1>1
<1>6. \A x \in E : t.nodes[x].elems = RowOf(t)[x] /\ t.nodes[x].parent = ParOf(t)[x]
  BY TreeFields
<1> HIDE DEF nodes, u
<1> QED BY <1>4, <1>5, <1>6 DEF u

\* A node that gets another parent leaves the others alone.
LEMMA ParentFacts ==
    ASSUME NEW t, IsTree(t), NEW n \in DOMAIN t.nodes, NEW p \in Nat
    PROVE  LET u == SetParent(t, n, p) IN
           /\ IsTree(u) /\ DOMAIN u.nodes = DOMAIN t.nodes /\ u.root = t.root
           /\ ParOf(u)[n] = p
           /\ \A x \in DOMAIN t.nodes \ {n} : ParOf(u)[x] = ParOf(t)[x]
           /\ \A x \in DOMAIN t.nodes : RowOf(u)[x] = RowOf(t)[x]
<1> DEFINE u == SetParent(t, n, p)
           E == DOMAIN t.nodes
           nodes == [t.nodes EXCEPT ![n] = [parent |-> p, elems |-> t.nodes[n].elems]]
<1>1. t = [nodes |-> t.nodes, root |-> t.root] /\ t.nodes \in [E -> [parent : Nat, elems : Rows]]
  BY DEF IsTree
<1>2. nodes \in [E -> [parent : Nat, elems : Rows]]
  BY <1>1
<1>3. u = [nodes |-> nodes, root |-> t.root]
  <2>1. [t.nodes[n] EXCEPT !.parent = p] = [parent |-> p, elems |-> t.nodes[n].elems]
    BY <1>1
  <2>2. u = [t EXCEPT !.nodes = [t.nodes EXCEPT ![n] = [t.nodes[n] EXCEPT !.parent = p]]]
    BY DEF SetParent
  <2>3. u = [t EXCEPT !.nodes = nodes]
    BY <2>1, <2>2
  <2> HIDE DEF nodes, u
  <2> QED BY <1>1, <2>3
<1>4. /\ IsTree(u) /\ DOMAIN u.nodes = E /\ u.root = t.root
      /\ \A x \in E : RowOf(u)[x] = nodes[x].elems /\ ParOf(u)[x] = nodes[x].parent
  <2> HIDE DEF nodes, u, E
  <2> QED BY <1>2, <1>3, MakeTree
<1>5. nodes[n].parent = p /\ nodes[n].elems = t.nodes[n].elems /\ \A x \in E \ {n} : nodes[x] = t.nodes[x]
  BY <1>1
<1>6. \A x \in E : t.nodes[x].elems = RowOf(t)[x] /\ t.nodes[x].parent = ParOf(t)[x]
  BY TreeFields
<1> HIDE DEF nodes, u
<1> QED BY <1>4, <1>5, <1>6 DEF u

\* Another root leaves the nodes alone.
LEMMA RootFacts ==
    ASSUME NEW t, IsTree(t), NEW r
    PROVE  LET u == SetRoot(t, r) IN
           /\ IsTree(u) /\ DOMAIN u.nodes = DOMAIN t.nodes /\ u.root = r
           /\ RowOf(u) = RowOf(t) /\ ParOf(u) = ParOf(t)
<1>1. t = [nodes |-> t.nodes, root |-> t.root] /\ t.nodes \in [DOMAIN t.nodes -> [parent : Nat, elems : Rows]]
  BY DEF IsTree
<1>2. [t EXCEPT !.root = r] = [nodes |-> t.nodes, root |-> r]
  BY <1>1
<1> QED BY <1>1, <1>2 DEF IsTree, RowOf, ParOf, SetRoot

\* The children that some elements name.
KidsOf(s) == UNION {{s[i].left, s[i].right} : i \in DOMAIN s}

\* Adopted changes the parent of the children in a row, and nothing else.
LEMMA AdoptedFacts ==
    ASSUME NEW t, IsTree(t), NEW s, NEW n \in Nat
    PROVE  LET u == Adopted(t, s, n) IN
           /\ IsTree(u) /\ DOMAIN u.nodes = DOMAIN t.nodes /\ u.root = t.root
           /\ \A x \in DOMAIN t.nodes :
                /\ RowOf(u)[x] = RowOf(t)[x]
                /\ ParOf(u)[x] = IF x \in KidsOf(s) THEN n ELSE ParOf(t)[x]
<1> DEFINE u == Adopted(t, s, n)
           E == DOMAIN t.nodes
           nodes == [x \in E |-> IF x \in KidsOf(s) THEN [parent |-> n, elems |-> t.nodes[x].elems]
                                 ELSE t.nodes[x]]
<1>1. t = [nodes |-> t.nodes, root |-> t.root] /\ t.nodes \in [E -> [parent : Nat, elems : Rows]]
  BY DEF IsTree
<1>2. nodes \in [E -> [parent : Nat, elems : Rows]]
  BY <1>1
<1>3. u = [nodes |-> nodes, root |-> t.root]
  <2>1. \A x \in E : [t.nodes[x] EXCEPT !.parent = n] = [parent |-> n, elems |-> t.nodes[x].elems]
    BY <1>1
  <2>2. u = [t EXCEPT !.nodes = [x \in E |-> IF x \in KidsOf(s) THEN [t.nodes[x] EXCEPT !.parent = n]
                                             ELSE t.nodes[x]]]
    BY DEF Adopted, KidsOf
  <2>3. u = [t EXCEPT !.nodes = nodes]
    BY <2>1, <2>2
  <2> HIDE DEF nodes, u
  <2> QED BY <1>1, <2>3
<1>4. /\ IsTree(u) /\ DOMAIN u.nodes = E /\ u.root = t.root
      /\ \A x \in E : RowOf(u)[x] = nodes[x].elems /\ ParOf(u)[x] = nodes[x].parent
  <2> HIDE DEF nodes, u, E
  <2> QED BY <1>2, <1>3, MakeTree
<1>5. \A x \in E : /\ nodes[x].elems = t.nodes[x].elems
                   /\ nodes[x].parent = IF x \in KidsOf(s) THEN n ELSE t.nodes[x].parent
  BY <1>1
<1>6. \A x \in E : t.nodes[x].elems = RowOf(t)[x] /\ t.nodes[x].parent = ParOf(t)[x]
  BY TreeFields
<1> HIDE DEF nodes, u
<1> QED BY <1>4, <1>5, <1>6 DEF u

\* FreeNode takes a node out and leaves the others alone.
LEMMA FreeFacts ==
    ASSUME NEW t, IsTree(t), NEW n
    PROVE  LET u == FreeNode(t, n) IN
           /\ IsTree(u) /\ DOMAIN u.nodes = DOMAIN t.nodes \ {n} /\ u.root = t.root
           /\ \A x \in DOMAIN t.nodes \ {n} : RowOf(u)[x] = RowOf(t)[x] /\ ParOf(u)[x] = ParOf(t)[x]
<1> DEFINE u == FreeNode(t, n)
           E == DOMAIN t.nodes \ {n}
           nodes == [x \in E |-> t.nodes[x]]
<1>1. t = [nodes |-> t.nodes, root |-> t.root]
      /\ t.nodes \in [DOMAIN t.nodes -> [parent : Nat, elems : Rows]]
  BY DEF IsTree
<1>2. nodes \in [E -> [parent : Nat, elems : Rows]]
  BY <1>1
<1>3. u = [nodes |-> nodes, root |-> t.root]
  <2>1. u = [t EXCEPT !.nodes = nodes]
    BY DEF FreeNode, Restrict
  <2> HIDE DEF nodes, u
  <2> QED BY <1>1, <2>1
<1>4. /\ IsTree(u) /\ DOMAIN u.nodes = E /\ u.root = t.root
      /\ \A x \in E : RowOf(u)[x] = nodes[x].elems /\ ParOf(u)[x] = nodes[x].parent
  <2> HIDE DEF nodes, u, E
  <2> QED BY <1>2, <1>3, MakeTree
<1>5. \A x \in E : nodes[x] = t.nodes[x]
  OBVIOUS
<1>6. \A x \in DOMAIN t.nodes : t.nodes[x].elems = RowOf(t)[x] /\ t.nodes[x].parent = ParOf(t)[x]
  BY TreeFields
<1> HIDE DEF nodes, u
<1> QED BY <1>4, <1>5, <1>6 DEF u

\* The allocated node is new.
LEMMA FreshFacts ==
    ASSUME NEW t, DOMAIN t.nodes \in SUBSET (Nat \ {0}), IsFiniteSet(DOMAIN t.nodes)
    PROVE  FreshNode(t) \in Nat \ {0} /\ FreshNode(t) \notin DOMAIN t.nodes
<1> DEFINE D == DOMAIN t.nodes
           C == Cardinality(D)
<1>1. C \in Nat
  BY FS_CardinalityType
<1>2. Cardinality(1 .. C + 1) = C + 1
  <2>1. 1 \in Int /\ C + 1 \in Int /\ 1 <= C + 1
    BY <1>1
  <2> HIDE DEF C
  <2> QED BY <1>1, <2>1, FS_Interval
<1>3. ~(1 .. C + 1 \subseteq D)
  <2>0. SUFFICES ASSUME 1 .. C + 1 \subseteq D PROVE FALSE
    OBVIOUS
  <2>1. Cardinality(1 .. C + 1) <= C
    <3>1. IsFiniteSet(D) /\ 1 .. C + 1 \in SUBSET D
      BY <2>0
    <3> HIDE DEF D
    <3> QED BY <3>1, FS_Subset
  <2> QED BY <1>1, <1>2, <2>1
<1>4. \E n \in 1 .. C + 1 : n \notin D
  BY <1>3
<1>5. FreshNode(t) \in 1 .. C + 1 /\ FreshNode(t) \notin D
  BY <1>4 DEF FreshNode
<1> QED BY <1>1, <1>5

\* The gap that bounds a key is the one it is inserted at.
LEMMA PositionAt ==
    ASSUME NEW s \in Rows, NEW lo \in Int, NEW hi \in Int, Ordered(s, lo, hi), NEW k \in Nat,
           NEW j \in 1 .. Len(s) + 1, LoAt(s, j, lo) < k, k < HiAt(s, j, hi)
    PROVE  Position(s, k) = j
<1> DEFINE p == Position(s, k)
<1>1. /\ Len(s) \in Nat /\ \A i \in 1 .. Len(s) : s[i].key \in Nat
      /\ p \in 1 .. Len(s) + 1
      /\ \A i \in 1 .. Len(s) : i < p => ~(k < s[i].key)
      /\ p <= Len(s) => k < s[p].key
  BY RowFacts, PositionFacts
<1>2. /\ \A i \in 1 .. Len(s) : i < j => s[i].key <= LoAt(s, j, lo)
      /\ \A i \in 1 .. Len(s) : i >= j => HiAt(s, j, hi) <= s[i].key
      /\ LoAt(s, j, lo) \in Int /\ HiAt(s, j, hi) \in Int
  BY Gaps
<1> HIDE DEF p
<1>3. ~(p < j)
  <2>1. p < j => p \in 1 .. Len(s) /\ p <= Len(s)
    BY <1>1
  <2> QED BY <1>1, <1>2, <2>1
<1>4. ~(j < p)
  <2>1. j < p => j \in 1 .. Len(s) /\ j >= j
    BY <1>1
  <2> QED BY <1>1, <1>2, <2>1
<1> QED BY <1>1, <1>3, <1>4 DEF p

\* The children that a row names.
LEMMA KidsFacts ==
    ASSUME NEW s \in Rows, s # <<>>, NEW c, Links(s, c)
    PROVE  KidsOf(s) = {c[i] : i \in 1 .. Len(s) + 1}
<1>1. Len(s) \in Nat /\ Len(s) > 0 /\ DOMAIN s = 1 .. Len(s)
  BY RowFacts
<1>2. \A i \in 1 .. Len(s) : s[i].left = c[i] /\ s[i].right = c[i + 1]
  BY DEF Links
<1>3. ASSUME NEW x \in KidsOf(s) PROVE x \in {c[i] : i \in 1 .. Len(s) + 1}
  <2>1. PICK i \in 1 .. Len(s) : x = s[i].left \/ x = s[i].right
    BY <1>1 DEF KidsOf
  <2>2. i \in 1 .. Len(s) + 1 /\ i + 1 \in 1 .. Len(s) + 1
    BY <1>1
  <2> QED BY <1>2, <2>1, <2>2
<1>4. ASSUME NEW i \in 1 .. Len(s) + 1 PROVE c[i] \in KidsOf(s)
  <2>1. CASE i \in 1 .. Len(s)
    <3>1. c[i] \in {s[i].left, s[i].right}
      BY <1>2, <2>1
    <3> QED BY <1>1, <2>1, <3>1 DEF KidsOf
  <2>2. CASE i \notin 1 .. Len(s)
    <3>1. PICK j \in 1 .. Len(s) : i = j + 1
      BY <1>1, <2>2
    <3>2. c[i] \in {s[j].left, s[j].right}
      BY <1>2, <3>1
    <3> QED BY <1>1, <3>1, <3>2 DEF KidsOf
  <2> QED BY <2>1, <2>2
<1> QED BY <1>3, <1>4

\* The parts of a split row.
LEMMA SplitCut ==
    ASSUME NEW s \in Rows, NEW m \in 1 .. Len(s)
    PROVE  /\ SubSeq(s, 1, m - 1) \in Rows /\ SubSeq(s, m + 1, Len(s)) \in Rows
           /\ IsCut(s, m, SubSeq(s, 1, m - 1), SubSeq(s, m + 1, Len(s)))
<1>1. Len(s) \in Nat /\ \A i \in 1 .. Len(s) : s[i] \in Element
  BY RowFacts
<1>2. /\ SubSeq(s, 1, m - 1) \in Rows /\ Len(SubSeq(s, 1, m - 1)) = m - 1
      /\ \A i \in 1 .. m - 1 : SubSeq(s, 1, m - 1)[i] = s[i]
  BY <1>1 DEF Rows
<1>3. /\ SubSeq(s, m + 1, Len(s)) \in Rows /\ Len(SubSeq(s, m + 1, Len(s))) = Len(s) - m
      /\ \A i \in 1 .. Len(s) - m : SubSeq(s, m + 1, Len(s))[i] = s[m + i]
  BY <1>1 DEF Rows
<1> QED BY <1>1, <1>2, <1>3 DEF IsCut

\* An element with other children.
LEMMA Relinked ==
    ASSUME NEW x \in Element, NEW a, NEW b
    PROVE  [x EXCEPT !.left = a, !.right = b] = [key |-> x.key, left |-> a, right |-> b]
<1>1. PICK k, c, d : x = [key |-> k, left |-> c, right |-> d]
  BY DEF Element
<1>2. PICK y : y = [x EXCEPT !.left = a]
  OBVIOUS
<1>3. y = [key |-> k, left |-> a, right |-> d]
  BY <1>1, <1>2
<1>4. [y EXCEPT !.right = b] = [key |-> k, left |-> a, right |-> b]
  BY <1>3
<1>5. [x EXCEPT !.left = a, !.right = b] = [y EXCEPT !.right = b]
  BY <1>2
<1> QED BY <1>1, <1>4, <1>5

\* SplitNode
Splits(t, D, n, e, s, m) ==
    /\ IsTree(t) /\ D = DOMAIN t.nodes /\ D \in SUBSET (Nat \ {0}) /\ IsFiniteSet(D) /\ n \in D
    /\ s \in Rows /\ s = NodeInsert(RowOf(t)[n], e) /\ Len(s) > 1 /\ m = Len(s) \div 2 + 1

\* u, new and mid are what SplitNode makes of the tree t.
IsSplit(t, D, n, s, m, u, new, mid) ==
    /\ new \in Nat \ {0} /\ new \notin D /\ m \in 1 .. Len(s)
    /\ mid = [key |-> s[m].key, left |-> n, right |-> new]
    /\ IsTree(u) /\ DOMAIN u.nodes = D \cup {new} /\ u.root = t.root
    /\ RowOf(u)[n] \in Rows /\ RowOf(u)[new] \in Rows
    /\ IsCut(s, m, RowOf(u)[n], RowOf(u)[new])
    /\ \A x \in D \ {n} : RowOf(u)[x] = RowOf(t)[x]
    /\ ParOf(u)[new] = IF new \in KidsOf(RowOf(u)[new]) THEN new ELSE ParOf(t)[n]
    /\ \A x \in D : ParOf(u)[x] = IF x \in KidsOf(RowOf(u)[new]) THEN new ELSE ParOf(t)[x]

\* SplitNode cuts the row that has the element added, with a new node for its
\* upper half.
LEMMA SplitFacts ==
    ASSUME NEW t, NEW D, NEW n, NEW e, NEW s, NEW m, Splits(t, D, n, e, s, m)
    PROVE  IsSplit(t, D, n, s, m, Split(t, n, e).tree, Split(t, n, e).new, Split(t, n, e).middle)
<1> IsTree(t) /\ D = DOMAIN t.nodes /\ D \in SUBSET (Nat \ {0}) /\ IsFiniteSet(D) /\ n \in D
    /\ s \in Rows /\ s = NodeInsert(RowOf(t)[n], e) /\ Len(s) > 1 /\ m = Len(s) \div 2 + 1
  BY DEF Splits
<1> DEFINE l == SubSeq(s, 1, m - 1)
           r == SubSeq(s, m + 1, Len(s))
           new == FreshNode(t)
           v == SetElems(t, n, l)
           w == AddNode(v, new, [parent |-> ParOf(t)[n], elems |-> r])
           u == Adopted(w, r, new)
<1>1. Len(s) \in Nat /\ m \in 1 .. Len(s) /\ s[m] \in Element
  <2>1. Len(s) \in Nat
    BY RowFacts
  <2>2. m \in 1 .. Len(s)
    BY <2>1
  <2> QED BY <2>1, <2>2, RowFacts
<1>2. l \in Rows /\ r \in Rows /\ IsCut(s, m, l, r)
  BY <1>1, SplitCut
<1>3. new \in Nat \ {0} /\ new \notin D
  BY FreshFacts
<1>4. t.nodes[n].elems = RowOf(t)[n] /\ t.nodes[n].parent = ParOf(t)[n] /\ ParOf(t)[n] \in Nat
  BY TreeFields
<1>5. /\ Split(t, n, e).tree = u /\ Split(t, n, e).new = new
      /\ Split(t, n, e).middle = [s[m] EXCEPT !.left = n, !.right = new]
  BY <1>4 DEF Split, SetElems
<1> HIDE DEF l, r, new
<1>6. [s[m] EXCEPT !.left = n, !.right = new] = [key |-> s[m].key, left |-> n, right |-> new]
  <2>1. PICK x \in Element : x = s[m]
    BY <1>1
  <2>2. [x EXCEPT !.left = n, !.right = new] = [key |-> x.key, left |-> n, right |-> new]
    BY Relinked
  <2> QED BY <2>1, <2>2
<1>7. /\ IsTree(v) /\ DOMAIN v.nodes = D /\ v.root = t.root /\ RowOf(v)[n] = l
      /\ \A x \in D \ {n} : RowOf(v)[x] = RowOf(t)[x]
      /\ \A x \in D : ParOf(v)[x] = ParOf(t)[x]
  BY <1>2, ElemsFacts
<1> HIDE DEF v
<1>8. /\ IsTree(w) /\ DOMAIN w.nodes = D \cup {new} /\ w.root = v.root
      /\ RowOf(w)[new] = r /\ ParOf(w)[new] = ParOf(t)[n]
      /\ \A x \in D : RowOf(w)[x] = RowOf(v)[x] /\ ParOf(w)[x] = ParOf(v)[x]
  <2>1. new \notin DOMAIN v.nodes
    BY <1>3, <1>7
  <2>2. PICK p \in Nat : p = ParOf(t)[n]
    BY <1>4
  <2> QED BY <1>2, <1>7, <2>1, <2>2, AddFacts
<1> HIDE DEF w
<1>9. /\ IsTree(u) /\ DOMAIN u.nodes = DOMAIN w.nodes /\ u.root = w.root
      /\ \A x \in DOMAIN w.nodes :
           /\ RowOf(u)[x] = RowOf(w)[x]
           /\ ParOf(u)[x] = IF x \in KidsOf(r) THEN new ELSE ParOf(w)[x]
  BY <1>3, <1>8, AdoptedFacts
<1> HIDE DEF u
<1>10. RowOf(u)[n] = l /\ RowOf(u)[new] = r
  BY <1>7, <1>8, <1>9
<1>11. \A x \in D \ {n} : RowOf(u)[x] = RowOf(t)[x]
  BY <1>7, <1>8, <1>9
<1>12. \A x \in D : ParOf(u)[x] = IF x \in KidsOf(r) THEN new ELSE ParOf(t)[x]
  BY <1>7, <1>8, <1>9
<1>13. ParOf(u)[new] = IF new \in KidsOf(r) THEN new ELSE ParOf(t)[n]
  BY <1>8, <1>9
<1>14. RowOf(u)[n] \in Rows /\ RowOf(u)[new] \in Rows /\ IsCut(s, m, RowOf(u)[n], RowOf(u)[new])
  BY <1>2, <1>10
<1>15. IsSplit(t, D, n, s, m, u, new, [s[m] EXCEPT !.left = n, !.right = new])
  BY <1>1, <1>3, <1>6, <1>7, <1>8, <1>9, <1>10, <1>11, <1>12, <1>13, <1>14 DEF IsSplit
<1> QED BY <1>5, <1>15

\* A node without a parent gets one.
LEMMA GrownFacts ==
    ASSUME NEW t, IsTree(t), NEW D, D = DOMAIN t.nodes, D \in SUBSET (Nat \ {0}), IsFiniteSet(D),
           NEW n \in D, NEW new \in D, ParOf(t)[n] = 0
    PROVE  LET u == Grown(t, n, new)
           IN  \E r \in Nat \ {0} :
                 /\ r \notin D
                 /\ IsTree(u) /\ DOMAIN u.nodes = D \cup {r} /\ u.root = r
                 /\ RowOf(u)[r] = <<>> /\ ParOf(u)[r] = 0
                 /\ \A x \in D : RowOf(u)[x] = RowOf(t)[x]
                 /\ \A x \in D : ParOf(u)[x] = IF x \in {n, new} THEN r ELSE ParOf(t)[x]
<1> DEFINE r == FreshNode(t)
           v == AddNode(t, r, EmptyNode)
           w == SetRoot(v, r)
           y == SetParent(w, n, r)
           u == SetParent(y, new, r)
<1>1. r \in Nat \ {0} /\ r \notin D
  BY FreshFacts
<1>2. t.nodes[n].parent = 0
  BY TreeFields
<1>3. Grown(t, n, new) = u
  BY <1>2 DEF Grown, NoNode, SetRoot, SetParent
<1> HIDE DEF r
<1>4. /\ IsTree(v) /\ DOMAIN v.nodes = D \cup {r} /\ v.root = t.root
      /\ RowOf(v)[r] = <<>> /\ ParOf(v)[r] = 0
      /\ \A x \in D : RowOf(v)[x] = RowOf(t)[x] /\ ParOf(v)[x] = ParOf(t)[x]
  <2>1. PICK p \in Nat, s \in Rows : p = 0 /\ s = <<>>
    BY EmptyRow
  <2>2. EmptyNode = [parent |-> p, elems |-> s]
    BY <2>1 DEF EmptyNode, NoNode
  <2> QED BY <1>1, <2>1, <2>2, AddFacts
<1> HIDE DEF v
<1>5. /\ IsTree(w) /\ DOMAIN w.nodes = D \cup {r} /\ w.root = r
      /\ RowOf(w) = RowOf(v) /\ ParOf(w) = ParOf(v)
  BY <1>4, RootFacts
<1> HIDE DEF w
<1>6. /\ IsTree(y) /\ DOMAIN y.nodes = D \cup {r} /\ y.root = r /\ ParOf(y)[n] = r
      /\ \A x \in (D \cup {r}) \ {n} : ParOf(y)[x] = ParOf(w)[x]
      /\ \A x \in D \cup {r} : RowOf(y)[x] = RowOf(w)[x]
  <2>1. IsTree(w) /\ n \in DOMAIN w.nodes /\ r \in Nat
    BY <1>1, <1>5
  <2>2. /\ IsTree(y) /\ DOMAIN y.nodes = DOMAIN w.nodes /\ y.root = w.root /\ ParOf(y)[n] = r
        /\ \A x \in DOMAIN w.nodes \ {n} : ParOf(y)[x] = ParOf(w)[x]
        /\ \A x \in DOMAIN w.nodes : RowOf(y)[x] = RowOf(w)[x]
    BY <2>1, ParentFacts
  <2> HIDE DEF y
  <2> QED BY <1>5, <2>2
<1> HIDE DEF y
<1>7. /\ IsTree(u) /\ DOMAIN u.nodes = D \cup {r} /\ u.root = r /\ ParOf(u)[new] = r
      /\ \A x \in (D \cup {r}) \ {new} : ParOf(u)[x] = ParOf(y)[x]
      /\ \A x \in D \cup {r} : RowOf(u)[x] = RowOf(y)[x]
  <2>1. IsTree(y) /\ new \in DOMAIN y.nodes /\ r \in Nat
    BY <1>1, <1>6
  <2>2. /\ IsTree(u) /\ DOMAIN u.nodes = DOMAIN y.nodes /\ u.root = y.root /\ ParOf(u)[new] = r
        /\ \A x \in DOMAIN y.nodes \ {new} : ParOf(u)[x] = ParOf(y)[x]
        /\ \A x \in DOMAIN y.nodes : RowOf(u)[x] = RowOf(y)[x]
    BY <2>1, ParentFacts
  <2> HIDE DEF u
  <2> QED BY <1>6, <2>2
<1> HIDE DEF u
<1>8. RowOf(u)[r] = <<>> /\ \A x \in D : RowOf(u)[x] = RowOf(t)[x]
  BY <1>4, <1>5, <1>6, <1>7
<1>9. ParOf(u)[r] = 0
  BY <1>1, <1>4, <1>5, <1>6, <1>7
<1>10. \A x \in D : ParOf(u)[x] = IF x \in {n, new} THEN r ELSE ParOf(t)[x]
  <2> TAKE x \in D
  <2>1. CASE x = new
    BY <1>7, <2>1
  <2>2. CASE x # new /\ x = n
    BY <1>6, <1>7, <2>2
  <2>3. CASE x # new /\ x # n
    BY <1>4, <1>5, <1>6, <1>7, <2>3
  <2> QED BY <2>1, <2>2, <2>3
<1> QED BY <1>1, <1>3, <1>7, <1>8, <1>9, <1>10

\* The rows with an element more in that of n.
Virtual(row, n, e) == [x \in DOMAIN row |-> IF x = n THEN NodeInsert(row[n], e) ELSE row[x]]

\* How far the nodes are filled; n may be empty.
Filled(row, root, T, lv, n) ==
    \A x \in T : /\ Len(row[x]) <= MaxPerNode
                 /\ x # root => MinPerNode <= Len(row[x])
                 /\ lv[x] > 0 => 0 < Len(row[x]) \/ x = n

\* The children in a part of a row.
LEMMA KidsIn ==
    ASSUME NEW D, NEW row, NEW par, NEW root, NEW top, NEW T, NEW ch, NEW lv, NEW lo, NEW hi,
           Shape(D, row, par, root, top, T, ch, lv, lo, hi), NEW n \in T,
           NEW l \in Rows, NEW r \in Rows, NEW m \in Nat, IsCut(row[n], m, l, r), r # <<>>
    PROVE  /\ KidsOf(r) = {ch[n][i] : i \in m + 1 .. Len(row[n]) + 1}
           /\ \A x \in KidsOf(r) : x = 0 \/ (x \in T /\ x # root /\ x # n)
<1>1. /\ row[n] \in Rows /\ Links(row[n], ch[n]) /\ Len(row[n]) \in Nat /\ Len(r) = Len(row[n]) - m
      /\ m \in 1 .. Len(row[n]) /\ lv[n] \in Nat
      /\ lv[n] = 0 => \A j \in Nat : ch[n][j] = 0
  <2>1. row[n] \in Rows /\ Len(row[n]) \in Nat /\ lv[n] \in Nat
    BY ShapeTypes
  <2>2. Links(row[n], ch[n]) /\ (lv[n] = 0 => \A j \in Nat : ch[n][j] = 0)
    BY DEF Shape, NodeFits
  <2> QED BY <2>1, <2>2 DEF IsCut
<1>2. Links(r, ChTail(ch[n], m))
  <2>1. PICK s, d : s \in Rows /\ s = row[n] /\ d = ch[n]
    BY <1>1
  <2> s \in Rows
    BY <2>1
  <2> QED BY <1>1, <2>1, CutLinks
<1>3. KidsOf(r) = {ChTail(ch[n], m)[i] : i \in 1 .. Len(r) + 1}
  BY <1>2, KidsFacts
<1>4. \A i \in 1 .. Len(r) + 1 : i + m \in m + 1 .. Len(row[n]) + 1 /\ ChTail(ch[n], m)[i] = ch[n][i + m]
  <2> TAKE i \in 1 .. Len(r) + 1
  <2>1. i \in Nat /\ i + m \in m + 1 .. Len(row[n]) + 1
    BY <1>1
  <2> QED BY <2>1 DEF ChTail
<1>5. \A i \in m + 1 .. Len(row[n]) + 1 : i - m \in 1 .. Len(r) + 1 /\ ChTail(ch[n], m)[i - m] = ch[n][i]
  <2> TAKE i \in m + 1 .. Len(row[n]) + 1
  <2>1. i - m \in 1 .. Len(r) + 1 /\ (i - m) + m = i
    BY <1>1
  <2>2. PICK j \in 1 .. Len(r) + 1 : j = i - m /\ j + m = i
    BY <2>1
  <2>3. ChTail(ch[n], m)[j] = ch[n][i]
    BY <1>4, <2>2
  <2> QED BY <2>1, <2>2, <2>3
<1>6. KidsOf(r) = {ch[n][i] : i \in m + 1 .. Len(row[n]) + 1}
  <2>1. ASSUME NEW x \in KidsOf(r) PROVE x \in {ch[n][i] : i \in m + 1 .. Len(row[n]) + 1}
    <3>1. PICK i \in 1 .. Len(r) + 1 : x = ChTail(ch[n], m)[i]
      BY <1>3, <2>1
    <3> QED BY <1>4, <3>1
  <2>2. ASSUME NEW i \in m + 1 .. Len(row[n]) + 1 PROVE ch[n][i] \in KidsOf(r)
    BY <1>3, <1>5
  <2> QED BY <2>1, <2>2
<1>7. ASSUME NEW x \in KidsOf(r) PROVE x = 0 \/ (x \in T /\ x # root /\ x # n)
  <2>1. PICK i \in m + 1 .. Len(row[n]) + 1 : x = ch[n][i]
    BY <1>6, <1>7
  <2>2. i \in Nat /\ i \in 1 .. Len(row[n]) + 1
    BY <1>1
  <2>3. CASE lv[n] = 0
    BY <1>1, <2>1, <2>2, <2>3
  <2>4. CASE lv[n] > 0
    <3>1. HangsAt(row, par, root, T, lv, lo, hi, n, i, ch[n][i])
      BY <2>2, <2>4, ChildHangs
    <3>2. x \in T /\ x # root /\ lv[x] + 1 = lv[n]
      BY <2>1, <3>1 DEF HangsAt
    <3>3. x # n
      BY <1>1, <3>2
    <3> QED BY <3>2, <3>3
  <2> QED BY <1>1, <2>3, <2>4
<1> QED BY <1>6, <1>7

\* The sizes of the halves.
Within(s) == MinPerNode <= Len(s) /\ Len(s) <= MaxPerNode

\* Both halves of a row with one element too many are filled.
LEMMA Halves ==
    ASSUME NEW c \in Rows, NEW l \in Rows, NEW r \in Rows, Len(c) = MaxPerNode + 1,
           NEW m, m = Len(c) \div 2 + 1, IsCut(c, m, l, r)
    PROVE  Within(l) /\ Within(r)
<1>1. Len(l) = m - 1 /\ Len(r) = Len(c) - m
  BY DEF IsCut
<1>2. MaxPerNode \in Nat /\ MaxPerNode \div 2 > 1
  BY BTreeAssumption DEF MinPerNode
<1> QED BY <1>1, <1>2 DEF MinPerNode, Within

\* A row that is too long by one is split, and its middle goes up.
CutOff(D, row, par, root, top, T, ch, lv, lo, hi, n, m, l, r, new, D2, U, row3, par3, p, e) ==
    /\ Shape(D, row, par, root, top, T, ch, lv, lo, hi)
    /\ n \in T /\ n # root /\ m \in Nat /\ l \in Rows /\ r \in Rows /\ IsCut(row[n], m, l, r)
    /\ Within(l) /\ Within(r)
    /\ new \in Nat \ {0} /\ new \notin D /\ D2 = D \cup {new} /\ U = T \cup {new}
    /\ row3 \in [D2 -> Rows] /\ par3 \in [D2 -> Nat]
    /\ row3[n] = l /\ row3[new] = r /\ \A x \in D \ {n} : row3[x] = row[x]
    /\ p = par[n] /\ par3[new] = p
    /\ \A x \in D : par3[x] = IF x \in KidsOf(r) THEN new ELSE par[x]
    /\ \A x \in T : x # n => /\ Len(row[x]) <= MaxPerNode
                             /\ x # root => MinPerNode <= Len(row[x])
                             /\ lv[x] > 0 => 0 < Len(row[x]) \/ x = p
    /\ e = [key |-> row[n][m].key, left |-> n, right |-> new]

\* When a node below the root is cut and its middle goes to the parent: once the
\* element is there, the tree has its shape, its fill and its keys.
LEMMA PendingCut ==
    ASSUME NEW D, NEW row, NEW par, NEW root, NEW top, NEW T, NEW ch, NEW lv, NEW lo, NEW hi,
           NEW n, NEW m, NEW l, NEW r, NEW new, NEW D2, NEW U, NEW row3, NEW par3, NEW p, NEW e,
           CutOff(D, row, par, root, top, T, ch, lv, lo, hi, n, m, l, r, new, D2, U, row3, par3, p, e)
    PROVE  /\ p \in T /\ lv[p] = lv[n] + 1 /\ lv[n] < lv[root] /\ e \in Element
           /\ \E ch2, lv2, lo2, hi2 :
                /\ Shape(D2, Virtual(row3, p, e), par3, root, top, U, ch2, lv2, lo2, hi2)
                /\ Filled(row3, root, U, lv2, p)
                /\ Agree(T, lv2, lv)
                /\ KeysOf(Virtual(row3, p, e), U) = KeysOf(row, T)
<1> /\ Shape(D, row, par, root, top, T, ch, lv, lo, hi)
    /\ n \in T /\ n # root /\ m \in Nat /\ l \in Rows /\ r \in Rows /\ IsCut(row[n], m, l, r)
    /\ Within(l) /\ Within(r)
    /\ new \in Nat \ {0} /\ new \notin D /\ D2 = D \cup {new} /\ U = T \cup {new}
    /\ row3 \in [D2 -> Rows] /\ par3 \in [D2 -> Nat]
    /\ row3[n] = l /\ row3[new] = r /\ \A x \in D \ {n} : row3[x] = row[x]
    /\ p = par[n] /\ par3[new] = p
    /\ \A x \in D : par3[x] = IF x \in KidsOf(r) THEN new ELSE par[x]
    /\ \A x \in T : x # n => /\ Len(row[x]) <= MaxPerNode
                             /\ x # root => MinPerNode <= Len(row[x])
                             /\ lv[x] > 0 => 0 < Len(row[x]) \/ x = p
    /\ e = [key |-> row[n][m].key, left |-> n, right |-> new]
  BY DEF CutOff
<1>0. \A x \in T : x # n => /\ Len(row[x]) <= MaxPerNode
                            /\ x # root => MinPerNode <= Len(row[x])
                            /\ lv[x] > 0 => 0 < Len(row[x]) \/ x = p
  OBVIOUS
<1> DEFINE row2 == Virtual(row3, p, e)
           k == row[n][m].key
<1>1. /\ row[n] \in Rows /\ Len(row[n]) \in Nat /\ lv[n] \in Nat /\ lo[n] \in Int /\ hi[n] \in Int
      /\ Ordered(row[n], lo[n], hi[n]) /\ \A i \in 1 .. Len(row[n]) : row[n][i].key \in Nat
      /\ T \in SUBSET D /\ D \in SUBSET (Nat \ {0})
  BY NodeTypes, ShapeTypes
<1>2. m \in 1 .. Len(row[n]) /\ n \in Nat
  BY <1>1 DEF IsCut
<1>3. k \in Nat /\ lo[n] < k /\ k < hi[n]
  BY <1>1, <1>2 DEF Ordered
<1>4. /\ p \in T /\ lv[p] = lv[n] + 1 /\ lv[n] < lv[root]
      /\ \E j \in 1 .. Len(row[p]) + 1 :
           ch[p][j] = n /\ HangsAt(row, par, root, T, lv, lo, hi, p, j, n)
  BY NodeHangs
<1>5. PICK a \in 1 .. Len(row[p]) + 1 : ch[p][a] = n /\ HangsAt(row, par, root, T, lv, lo, hi, p, a, n)
  BY <1>4
<1>6. /\ row[p] \in Rows /\ Len(row[p]) \in Nat /\ lo[p] \in Int /\ hi[p] \in Int /\ lv[p] \in Nat
      /\ Ordered(row[p], lo[p], hi[p]) /\ Links(row[p], ch[p])
  <2>1. /\ row[p] \in Rows /\ Len(row[p]) \in Nat /\ lo[p] \in Int /\ hi[p] \in Int /\ lv[p] \in Nat
        /\ Ordered(row[p], lo[p], hi[p])
    BY <1>4, NodeTypes
  <2>2. Links(row[p], ch[p])
    BY <1>4 DEF Shape, NodeFits
  <2> QED BY <2>1, <2>2
<1>7. n # p
  BY <1>1, <1>4
<1>8. e \in Element /\ e.key = k /\ e.left = n /\ e.right = new
  BY <1>2, <1>3 DEF Element
<1>9. Position(row[p], k) = a
  <2>1. LoAt(row[p], a, lo[p]) < k /\ k < HiAt(row[p], a, hi[p])
    BY <1>3, <1>5 DEF HangsAt
  <2>2. PICK s \in Rows, b \in Int, c \in Int : s = row[p] /\ b = lo[p] /\ c = hi[p]
    BY <1>6
  <2> HIDE DEF k
  <2> QED BY <1>3, <1>6, <2>1, <2>2, PositionAt
<1>10. row3[p] = row[p] /\ p \in D /\ p \in D2 /\ n \in D /\ n \in D2 /\ new \in D2
  BY <1>1, <1>4, <1>7
<1>11. /\ KeyInserted(NodeInsert(row[p], e), row[p], a, k)
       /\ Links(NodeInsert(row[p], e), ChInserted(ch[p], a, n, new))
  <2>1. PICK s, c : s \in Rows /\ s = row[p] /\ c = ch[p]
    BY <1>6
  <2> s \in Rows
    BY <2>1
  <2>2. /\ KeyInserted(NodeInsert(s, e), s, Position(s, e.key), e.key)
        /\ Links(NodeInsert(s, e), ChInserted(c, Position(s, e.key), e.left, e.right))
    BY <1>6, <1>8, <2>1, NodeInsertFacts
  <2> HIDE DEF k
  <2> QED BY <1>8, <1>9, <2>1, <2>2
<1>12. DOMAIN row3 = D2
  OBVIOUS
<1>13. /\ row2[p] = NodeInsert(row[p], e)
       /\ \A x \in D2 \ {p} : row2[x] = row3[x]
  BY <1>10, <1>12 DEF Virtual
<1>14. row2 \in [D2 -> Rows]
  <2>1. NodeInsert(row[p], e) \in Rows
    BY <1>11 DEF KeyInserted
  <2>2. \A x \in D2 : row2[x] \in Rows
    <3> HIDE DEF row2
    <3> QED BY <1>13, <2>1
  <2>3. row2 = [x \in D2 |-> row2[x]]
    BY <1>12 DEF Virtual
  <2> HIDE DEF row2
  <2> QED BY <2>2, <2>3
<1>15. r # <<>>
  <2>1. MinPerNode > 0 /\ MinPerNode <= Len(r) /\ MinPerNode \in Int /\ Len(r) \in Int
    BY BTreeAssumption, RowFacts DEF Within, MinPerNode
  <2> QED BY <2>1, EmptyRow
<1>16. KidsOf(r) = {ch[n][i] : i \in m + 1 .. Len(row[n]) + 1}
  BY <1>2, <1>15, KidsIn
<1> HIDE DEF row2, k
<1>17. row2[n] = l /\ row2[new] = r /\ \A x \in D \ {n, p} : row2[x] = row[x]
  <2>1. new # p /\ new # n
    BY <1>10
  <2> QED BY <1>7, <1>10, <1>13, <2>1
<1>18. /\ KeyInserted(row2[p], row[p], a, row[n][m].key)
       /\ Links(row2[p], ChInserted(ch[p], a, n, new))
  BY <1>11, <1>13 DEF k
<1>19. PICK ch2, lv2, lo2, hi2 :
          /\ Shape(D2, row2, par3, root, top, U, ch2, lv2, lo2, hi2)
          /\ Agree(T, lv2, lv)
  <2>1. CutStep(D, row, par, root, top, T, ch, lv, lo, hi, n, p, a, l, r, m, new, D2, U, row2, par3)
    BY <1>5, <1>14, <1>16, <1>17, <1>18 DEF CutStep
  <2> QED BY <2>1, CutShape
<1>20. KeysOf(row2, U) = KeysOf(row, T)
  <2>1. PICK c \in Rows, s \in Rows : c = row[n] /\ s = row[p]
    BY <1>1, <1>6
  <2>2. Joins(RowKeys(c), RowKeys(l), RowKeys(r), c[m].key)
    BY <1>2, <2>1, CutKeys
  <2>3. Adds(RowKeys(row2[p]), RowKeys(s), k)
    <3>1. a \in Nat
      BY <1>6
    <3>2. KeyInserted(row2[p], s, a, k)
      BY <1>18, <2>1 DEF k
    <3> QED BY <3>1, <3>2, InsertedKeys
  <2>4. \A x \in T \ {n, p} : row2[x] = row[x]
    BY <1>1, <1>17
  <2>5. new \notin T
    BY <1>1
  <2>6. Joins(RowKeys(row[n]), RowKeys(row2[n]), RowKeys(row2[new]), k)
    BY <1>17, <2>1, <2>2 DEF k
  <2>7. Adds(RowKeys(row2[p]), RowKeys(row[p]), k)
    BY <2>1, <2>3
  <2>8. RowsCut(T, n, p, new, U, row, row2, k)
    BY <1>4, <1>7, <2>4, <2>5, <2>6, <2>7 DEF RowsCut
  <2> QED BY <2>8, KeysCut
<1>21. Filled(row3, root, U, lv2, p)
  <2>1. /\ MinPerNode > 0 /\ MinPerNode \in Int /\ MaxPerNode \in Nat
        /\ Len(l) \in Nat /\ Len(r) \in Nat
    BY BTreeAssumption, RowFacts DEF MinPerNode
  <2>2. /\ Len(l) <= MaxPerNode /\ MinPerNode <= Len(l) /\ 0 < Len(l)
        /\ Len(r) <= MaxPerNode /\ MinPerNode <= Len(r) /\ 0 < Len(r)
    BY <2>1 DEF Within
  <2>3. ASSUME NEW x \in U
        PROVE  /\ Len(row3[x]) <= MaxPerNode
               /\ x # root => MinPerNode <= Len(row3[x])
               /\ lv2[x] > 0 => 0 < Len(row3[x]) \/ x = p
    <3>1. CASE x = new \/ x = n
      BY <2>2, <3>1
    <3>2. CASE x # new /\ x # n
      <4>1. x \in T /\ x # n /\ row3[x] = row[x] /\ lv2[x] = lv[x]
        BY <1>1, <1>19, <2>3, <3>2 DEF Agree
      <4>2. Len(row[x]) <= MaxPerNode /\ (x # root => MinPerNode <= Len(row[x]))
        BY <1>0, <4>1
      <4>3. lv[x] > 0 => 0 < Len(row[x]) \/ x = p
        BY <1>0, <4>1
      <4> QED BY <4>1, <4>2, <4>3
    <3> QED BY <3>1, <3>2
  <2> QED BY <2>3 DEF Filled
<1> QED BY <1>4, <1>8, <1>19, <1>20, <1>21 DEF row2

-----------------------------------------------------------------------------
(* Insert                                                                  *)

\* A tree with its keys, all its nodes filled.
Sound(t, top, K) ==
    /\ IsTree(t)
    /\ \E T, ch, lv, lo, hi : /\ TreeShape(t, top, T, ch, lv, lo, hi)
                              /\ Filled(RowOf(t), t.root, T, lv, 0)
                              /\ KeysOf(RowOf(t), T) = K

\* A call of InsertElement: the tree will be sound when the element is in the
\* row of the node.
WithElem(c) == Virtual(RowOf(c.tree), c.node, c.elem)
Pending(c, top, T, ch, lv, lo, hi, K) ==
    /\ IsTree(c.tree) /\ c.node \in T /\ c.elem \in Element
    /\ Shape(DOMAIN c.tree.nodes, WithElem(c), ParOf(c.tree), c.tree.root, top, T, ch, lv, lo, hi)
    /\ Filled(RowOf(c.tree), c.tree.root, T, lv, c.node)
    /\ KeysOf(WithElem(c), T) = K

\* An element goes to the old root.
Lost(c) ==
    /\ IsTree(c.tree) /\ c.node \in DOMAIN c.tree.nodes /\ c.node # 0 /\ c.elem \in Element
    /\ RowOf(c.tree)[c.node] = <<>>
    /\ c.tree.root \in DOMAIN c.tree.nodes /\ ParOf(c.tree)[c.tree.root] = c.node

\* The types of a call of InsertElement.
LEMMA PendingTypes ==
    ASSUME NEW c, NEW top, NEW T, NEW ch, NEW lv, NEW lo, NEW hi, NEW K,
           Pending(c, top, T, ch, lv, lo, hi, K)
    PROVE  /\ DOMAIN c.tree.nodes \in SUBSET (Nat \ {0}) /\ IsFiniteSet(DOMAIN c.tree.nodes)
           /\ T \in SUBSET DOMAIN c.tree.nodes /\ c.tree.root \in T /\ c.node \in T
           /\ c.node \in Nat /\ c.node # 0 /\ c.node \in DOMAIN c.tree.nodes
           /\ c.tree.nodes[c.node].elems = RowOf(c.tree)[c.node]
           /\ RowOf(c.tree)[c.node] \in Rows /\ Len(RowOf(c.tree)[c.node]) \in Nat
           /\ WithElem(c) \in [DOMAIN c.tree.nodes -> Rows]
           /\ WithElem(c)[c.node] = NodeInsert(RowOf(c.tree)[c.node], c.elem)
           /\ Len(WithElem(c)[c.node]) = Len(RowOf(c.tree)[c.node]) + 1
           /\ \A x \in DOMAIN c.tree.nodes \ {c.node} : WithElem(c)[x] = RowOf(c.tree)[x]
           /\ \A x \in T : lv[x] \in Nat /\ lv[x] <= lv[c.tree.root]
           /\ ParOf(c.tree) \in [DOMAIN c.tree.nodes -> Nat]
<1> DEFINE D == DOMAIN c.tree.nodes
           row == RowOf(c.tree)
           V == WithElem(c)
           par == ParOf(c.tree)
<1>1. /\ IsTree(c.tree) /\ c.node \in T /\ c.elem \in Element
      /\ Shape(D, V, par, c.tree.root, top, T, ch, lv, lo, hi)
  BY DEF Pending
<1>2. /\ row \in [D -> Rows] /\ par \in [D -> Nat]
      /\ \A x \in D : c.tree.nodes[x].elems = row[x]
  BY <1>1, TreeFields
<1>3. /\ D \in SUBSET (Nat \ {0}) /\ IsFiniteSet(D) /\ T \in SUBSET D /\ c.tree.root \in T
      /\ \A x \in T : lv[x] \in Nat
      /\ V \in [D -> Rows]
  <2> HIDE DEF D, V, par
  <2>1. BTyped(D, V, par, c.tree.root, T, ch, lv, lo, hi)
    BY <1>1 DEF Shape
  <2> QED BY <2>1 DEF BTyped
<1>4. \A x \in T : lv[x] <= lv[c.tree.root]
  <2> HIDE DEF D, V, par
  <2> QED BY <1>1, NodeTypes
<1>5. c.node \in D /\ c.node \in Nat /\ c.node # 0 /\ row[c.node] \in Rows
  <2> HIDE DEF D, V, par, row
  <2> QED BY <1>1, <1>2, <1>3
<1>6. /\ V[c.node] = NodeInsert(row[c.node], c.elem)
      /\ \A x \in D \ {c.node} : V[x] = row[x]
  <2>1. V = Virtual(row, c.node, c.elem)
    BY DEF WithElem
  <2>2. DOMAIN row = D
    BY <1>2
  <2> HIDE DEF D, V, par, row
  <2> QED BY <1>5, <2>1, <2>2 DEF Virtual
<1>7. Len(V[c.node]) = Len(row[c.node]) + 1 /\ Len(row[c.node]) \in Nat
  <2> HIDE DEF D, V, par, row
  <2>1. PICK s \in Rows : s = row[c.node]
    BY <1>5
  <2>2. KeyInserted(NodeInsert(s, c.elem), s, Position(s, c.elem.key), c.elem.key)
    BY <1>1, NodeInsertRow
  <2>3. Len(s) \in Nat
    BY RowFacts
  <2> QED BY <1>6, <2>1, <2>2, <2>3 DEF KeyInserted
<1> HIDE DEF D, V, par, row
<1>8. c.tree.nodes[c.node].elems = row[c.node]
  BY <1>2, <1>5
<1> QED BY <1>1, <1>2, <1>3, <1>4, <1>5, <1>6, <1>7, <1>8 DEF D, V, par, row

\* There is room for the element.
LEMMA CallFits ==
    ASSUME NEW c, NEW top, NEW T, NEW ch, NEW lv, NEW lo, NEW hi, NEW K,
           Pending(c, top, T, ch, lv, lo, hi, K), Len(RowOf(c.tree)[c.node]) < MaxPerNode
    PROVE  InsertCall(c).node = 0 /\ Sound(InsertCall(c).tree, top, K)
<1> DEFINE t == c.tree
           n == c.node
           D == DOMAIN t.nodes
           row == RowOf(t)
           V == WithElem(c)
           u == SetElems(t, n, NodeInsert(row[n], c.elem))
<1>1. /\ D \in SUBSET (Nat \ {0}) /\ T \in SUBSET D /\ t.root \in T /\ n \in T /\ n # 0 /\ n \in D
      /\ t.nodes[n].elems = row[n] /\ row[n] \in Rows /\ Len(row[n]) \in Nat /\ V \in [D -> Rows]
      /\ V[n] = NodeInsert(row[n], c.elem) /\ Len(V[n]) = Len(row[n]) + 1
      /\ \A x \in D \ {n} : V[x] = row[x]
      /\ ParOf(t) \in [D -> Nat]
  BY PendingTypes
<1>2. /\ IsTree(t) /\ Shape(D, V, ParOf(t), t.root, top, T, ch, lv, lo, hi)
      /\ Filled(row, t.root, T, lv, n) /\ KeysOf(V, T) = K
  BY DEF Pending
<1>3. InsertCall(c).node = 0 /\ InsertCall(c).tree = u
  BY <1>1 DEF InsertCall, NoNode, SetElems
<1>4. V[n] \in Rows
  BY <1>1
<1>5. /\ IsTree(u) /\ DOMAIN u.nodes = D /\ u.root = t.root
      /\ RowOf(u)[n] = V[n] /\ \A x \in D \ {n} : RowOf(u)[x] = row[x]
      /\ \A x \in D : ParOf(u)[x] = ParOf(t)[x]
  <2>1. u = SetElems(t, n, V[n]) /\ n \in DOMAIN t.nodes /\ D = DOMAIN t.nodes /\ row = RowOf(t)
    BY <1>1
  <2> HIDE DEF t, n, D, row, V, u
  <2> QED BY <1>2, <1>4, <2>1, ElemsFacts
<1> HIDE DEF u
<1>6. RowOf(u) = V /\ ParOf(u) = ParOf(t)
  <2>1. RowOf(u) \in [D -> Rows] /\ ParOf(u) \in [D -> Nat]
    BY <1>5, TreeFields
  <2>2. \A x \in D : RowOf(u)[x] = V[x]
    BY <1>1, <1>5
  <2>3. V \in [D -> Rows] /\ ParOf(t) \in [D -> Nat] /\ \A x \in D : ParOf(u)[x] = ParOf(t)[x]
    BY <1>1, <1>5
  <2> HIDE DEF t, n, D, row, V
  <2>4. RowOf(u) = V
    BY <2>1, <2>2, <2>3
  <2>5. ParOf(u) = ParOf(t)
    BY <2>1, <2>3
  <2> QED BY <2>4, <2>5
<1>7. Filled(V, t.root, T, lv, 0)
  <2>1. MaxPerNode \in Nat /\ MinPerNode \in Nat
    BY BTreeAssumption DEF MinPerNode
  <2>2. ASSUME NEW x \in T
        PROVE  /\ Len(V[x]) <= MaxPerNode
               /\ x # t.root => MinPerNode <= Len(V[x])
               /\ lv[x] > 0 => 0 < Len(V[x]) \/ x = 0
    <3>0. Len(row[x]) <= MaxPerNode /\ (lv[x] > 0 => 0 < Len(row[x]) \/ x = n)
      BY <1>2 DEF Filled
    <3>3. x # t.root => MinPerNode <= Len(row[x])
      BY <1>2 DEF Filled
    <3> HIDE DEF t, n, D, row, V
    <3>1. CASE x = n
      BY <1>1, <2>1, <3>0, <3>1, <3>3 DEF row, n, t
    <3>2. CASE x # n
      <4>1. V[x] = row[x]
        BY <1>1, <2>2, <3>2
      <4> QED BY <3>0, <3>2, <3>3, <4>1
    <3> QED BY <3>1, <3>2
  <2> QED BY <2>2 DEF Filled
<1>8. TreeShape(u, top, T, ch, lv, lo, hi)
  BY <1>2, <1>5, <1>6 DEF TreeShape
<1>9. Sound(u, top, K)
  BY <1>2, <1>5, <1>6, <1>7, <1>8 DEF Sound
<1> QED BY <1>3, <1>9

\* A full node is split.
CallSplit(c, T, m, l, r, new, u, mid) ==
    /\ m \in Nat /\ l \in Rows /\ r \in Rows /\ IsCut(WithElem(c)[c.node], m, l, r)
    /\ Within(l) /\ Within(r)
    /\ new \in Nat \ {0} /\ new \notin DOMAIN c.tree.nodes
    /\ mid = [key |-> WithElem(c)[c.node][m].key, left |-> c.node, right |-> new] /\ mid \in Element
    /\ IsTree(u) /\ DOMAIN u.nodes = DOMAIN c.tree.nodes \cup {new} /\ u.root = c.tree.root
    /\ RowOf(u)[c.node] = l /\ RowOf(u)[new] = r
    /\ \A x \in DOMAIN c.tree.nodes \ {c.node} : RowOf(u)[x] = WithElem(c)[x]
    /\ ParOf(u)[new] = ParOf(c.tree)[c.node] /\ ParOf(u)[c.node] = ParOf(c.tree)[c.node]
    /\ \A x \in DOMAIN c.tree.nodes :
         ParOf(u)[x] = IF x \in KidsOf(r) THEN new ELSE ParOf(c.tree)[x]
    /\ \A x \in KidsOf(r) : x = 0 \/ (x \in T /\ x # c.tree.root /\ x # c.node)
    /\ InsertCall(c) = [tree |-> Grown(u, c.node, new),
                        node |-> Grown(u, c.node, new).nodes[c.node].parent, elem |-> mid]

\* InsertElement on a full node splits it.
LEMMA CallSplits ==
    ASSUME NEW c, NEW top, NEW T, NEW ch, NEW lv, NEW lo, NEW hi, NEW K,
           Pending(c, top, T, ch, lv, lo, hi, K), ~(Len(RowOf(c.tree)[c.node]) < MaxPerNode)
    PROVE  \E m, l, r, new, u, mid : CallSplit(c, T, m, l, r, new, u, mid)
<1> DEFINE t == c.tree
           n == c.node
           D == DOMAIN t.nodes
           row == RowOf(t)
           V == WithElem(c)
           s == V[n]
           m == Len(s) \div 2 + 1
           p == Split(t, n, c.elem)
           u == p.tree
           new == p.new
           l == RowOf(u)[n]
           r == RowOf(u)[new]
           mid == p.middle
<1>1. /\ D \in SUBSET (Nat \ {0}) /\ IsFiniteSet(D) /\ T \in SUBSET D /\ t.root \in T /\ n \in T
      /\ n # 0 /\ n \in D /\ n \in Nat
      /\ t.nodes[n].elems = row[n] /\ row[n] \in Rows /\ Len(row[n]) \in Nat /\ V \in [D -> Rows]
      /\ s = NodeInsert(row[n], c.elem) /\ Len(s) = Len(row[n]) + 1
      /\ \A x \in D \ {n} : V[x] = row[x]
      /\ ParOf(t) \in [D -> Nat]
  BY PendingTypes
<1>2. /\ IsTree(t) /\ Shape(D, V, ParOf(t), t.root, top, T, ch, lv, lo, hi)
      /\ Filled(row, t.root, T, lv, n)
  BY DEF Pending
<1>3. MaxPerNode \in Nat /\ 1 < MaxPerNode /\ MinPerNode \in Nat /\ 0 < MinPerNode
  BY BTreeAssumption DEF MinPerNode
<1>4. Len(row[n]) = MaxPerNode
  <2>1. Len(row[n]) <= MaxPerNode /\ ~(Len(row[n]) < MaxPerNode)
    BY <1>1, <1>2 DEF Filled
  <2> QED BY <1>1, <1>3, <2>1
<1>5. Len(s) = MaxPerNode + 1 /\ Len(s) > 1 /\ s \in Rows
  BY <1>1, <1>3, <1>4
<1>6. InsertCall(c) = [tree |-> Grown(u, n, new), node |-> Grown(u, n, new).nodes[n].parent, elem |-> mid]
  BY <1>1 DEF InsertCall, NoNode
<1>7. /\ new \in Nat \ {0} /\ new \notin D /\ m \in 1 .. Len(s)
      /\ mid = [key |-> s[m].key, left |-> n, right |-> new]
      /\ IsTree(u) /\ DOMAIN u.nodes = D \cup {new} /\ u.root = t.root
      /\ l \in Rows /\ r \in Rows
      /\ IsCut(s, m, l, r)
      /\ \A x \in D \ {n} : RowOf(u)[x] = row[x]
      /\ ParOf(u)[new] = IF new \in KidsOf(r) THEN new ELSE ParOf(t)[n]
      /\ \A x \in D : ParOf(u)[x] = IF x \in KidsOf(r) THEN new ELSE ParOf(t)[x]
  <2>1. Splits(t, D, n, c.elem, s, m)
    BY <1>1, <1>2, <1>5 DEF Splits
  <2>2. IsSplit(t, D, n, s, m, u, new, mid)
    <3> HIDE DEF m, s, t, n, D
    <3> QED BY <2>1, SplitFacts
  <2> HIDE DEF m, s, t, n, D, u, new, mid
  <2> QED BY <2>2 DEF IsSplit, l, r
<1>8. m \in Nat
  BY <1>5, <1>7
<1>9. Within(l) /\ Within(r)
  <2>1. m = Len(s) \div 2 + 1
    OBVIOUS
  <2> HIDE DEF m, s, l, r
  <2> QED BY <1>5, <1>7, <2>1, Halves
<1> HIDE DEF m, l, r, u, new, mid
<1>10. r # <<>>
  <2>1. MinPerNode <= Len(r) /\ Len(r) \in Int
    BY <1>7, <1>9, RowFacts DEF Within
  <2> QED BY <1>3, <2>1, EmptyRow
<1>11. \A x \in KidsOf(r) : x = 0 \/ (x \in T /\ x # t.root /\ x # n)
  <2>1. IsCut(V[n], m, l, r)
    BY <1>7
  <2> HIDE DEF D, V, t, n
  <2> QED BY <1>1, <1>2, <1>7, <1>8, <1>10, <2>1, KidsIn
<1>12. n \notin KidsOf(r) /\ new \notin KidsOf(r)
  BY <1>1, <1>7, <1>11
<1>13. ParOf(u)[new] = ParOf(t)[n] /\ ParOf(u)[n] = ParOf(t)[n]
  BY <1>1, <1>7, <1>12
<1>14. mid \in Element
  <2>1. s[m].key \in Nat
    <3> HIDE DEF s
    <3> QED BY <1>5, <1>7, RowFacts
  <2> QED BY <1>1, <1>7, <2>1 DEF Element
<1>15. \A x \in D \ {n} : RowOf(u)[x] = V[x]
  BY <1>1, <1>7
<1>16. RowOf(u)[n] = l /\ RowOf(u)[new] = r
  BY DEF l, r
<1>17. CallSplit(c, T, m, l, r, new, u, mid)
  BY <1>6, <1>7, <1>8, <1>9, <1>11, <1>13, <1>14, <1>15, <1>16 DEF CallSplit
<1> QED BY <1>17

\* The middle element of a node below the root goes to its parent.
LEMMA CallGoesUp ==
    ASSUME NEW c, NEW top, NEW T, NEW ch, NEW lv, NEW lo, NEW hi, NEW K,
           Pending(c, top, T, ch, lv, lo, hi, K), ~(Len(RowOf(c.tree)[c.node]) < MaxPerNode),
           c.node # c.tree.root
    PROVE  \E U, ch2, lv2, lo2, hi2 :
              /\ Pending(InsertCall(c), top, U, ch2, lv2, lo2, hi2, K)
              /\ lv2[InsertCall(c).node] = lv[c.node] + 1
              /\ lv2[InsertCall(c).tree.root] = lv[c.tree.root]
<1> DEFINE t == c.tree
           n == c.node
           D == DOMAIN t.nodes
           row == RowOf(t)
           V == WithElem(c)
           par == ParOf(t)
           p == par[n]
<1>1. /\ D \in SUBSET (Nat \ {0}) /\ T \in SUBSET D /\ t.root \in T /\ n \in T /\ n \in D
      /\ \A x \in D \ {n} : V[x] = row[x]
  BY PendingTypes
<1>2. /\ IsTree(t) /\ Shape(D, V, par, t.root, top, T, ch, lv, lo, hi)
      /\ Filled(row, t.root, T, lv, n) /\ KeysOf(V, T) = K
  BY DEF Pending
<1>3. PICK m, l, r, new, u, mid : CallSplit(c, T, m, l, r, new, u, mid)
  BY CallSplits
<1> DEFINE D2 == D \cup {new}
           U == T \cup {new}
           row3 == RowOf(u)
           par3 == ParOf(u)
<1>4. /\ m \in Nat /\ l \in Rows /\ r \in Rows /\ IsCut(V[n], m, l, r)
      /\ Within(l) /\ Within(r)
      /\ new \in Nat \ {0} /\ new \notin D
      /\ mid = [key |-> V[n][m].key, left |-> n, right |-> new] /\ mid \in Element
      /\ IsTree(u) /\ DOMAIN u.nodes = D2 /\ u.root = t.root
      /\ row3[n] = l /\ row3[new] = r
      /\ \A x \in D \ {n} : row3[x] = V[x]
      /\ par3[new] = p /\ par3[n] = p
      /\ \A x \in D : par3[x] = IF x \in KidsOf(r) THEN new ELSE par[x]
      /\ InsertCall(c) = [tree |-> Grown(u, n, new),
                          node |-> Grown(u, n, new).nodes[n].parent, elem |-> mid]
  BY <1>3 DEF CallSplit
<1> HIDE DEF D, V, par, t, n
<1>5. p \in T /\ lv[p] = lv[n] + 1
  <2>1. n # t.root
    BY DEF n, t
  <2> QED BY <1>1, <1>2, <2>1, NodeHangs
<1>6. p # 0
  BY <1>1, <1>5
<1>7. row3 \in [D2 -> Rows] /\ par3 \in [D2 -> Nat]
  BY <1>4, TreeFields
<1>8. InsertCall(c) = [tree |-> u, node |-> p, elem |-> mid]
  <2>1. u.nodes[n].parent = p
    <3>1. n \in DOMAIN u.nodes
      BY <1>1, <1>4
    <3>2. u.nodes[n].parent = ParOf(u)[n]
      BY <1>4, <3>1, TreeFields
    <3> QED BY <1>4, <3>2
  <2>2. Grown(u, n, new) = u
    BY <1>6, <2>1 DEF Grown, NoNode
  <2> QED BY <1>4, <2>1, <2>2
<1> HIDE DEF row3, par3, D2, U, p
<1>9. \A x \in T : x # n => /\ Len(V[x]) <= MaxPerNode
                            /\ x # t.root => MinPerNode <= Len(V[x])
                            /\ lv[x] > 0 => 0 < Len(V[x]) \/ x = p
  <2> TAKE x \in T
  <2> HAVE x # n
  <2>1. V[x] = row[x]
    BY <1>1
  <2>2. /\ Len(row[x]) <= MaxPerNode
        /\ x # t.root => MinPerNode <= Len(row[x])
        /\ lv[x] > 0 => 0 < Len(row[x]) \/ x = n
    BY <1>2 DEF Filled
  <2> QED BY <2>1, <2>2
<1>10. CutOff(D, V, par, t.root, top, T, ch, lv, lo, hi, n, m, l, r, new, D2, U, row3, par3, p, mid)
  <2>1. n # t.root
    BY DEF n, t
  <2>2. D2 = D \cup {new} /\ U = T \cup {new} /\ p = par[n]
    BY DEF D2, U, p
  <2> QED BY <1>1, <1>2, <1>4, <1>7, <1>9, <2>1, <2>2 DEF CutOff
<1>11. PICK ch2, lv2, lo2, hi2 :
          /\ Shape(D2, Virtual(row3, p, mid), par3, t.root, top, U, ch2, lv2, lo2, hi2)
          /\ Filled(row3, t.root, U, lv2, p)
          /\ Agree(T, lv2, lv)
          /\ KeysOf(Virtual(row3, p, mid), U) = KeysOf(V, T)
  BY <1>10, PendingCut
<1> DEFINE d == InsertCall(c)
<1>12. d.tree = u /\ d.node = p /\ d.elem = mid
  BY <1>8
<1> HIDE DEF d
<1>13. WithElem(d) = Virtual(row3, p, mid) /\ RowOf(d.tree) = row3 /\ ParOf(d.tree) = par3
       /\ DOMAIN d.tree.nodes = D2 /\ d.tree.root = t.root
  BY <1>4, <1>12 DEF WithElem, row3, par3
<1>14. p \in U
  BY <1>5 DEF U
<1>15. Pending(d, top, U, ch2, lv2, lo2, hi2, K)
  BY <1>2, <1>4, <1>11, <1>12, <1>13, <1>14 DEF Pending
<1>16. lv2[d.node] = lv[n] + 1 /\ lv2[d.tree.root] = lv[t.root]
  BY <1>1, <1>5, <1>11, <1>12, <1>13 DEF Agree
<1> QED BY <1>15, <1>16 DEF d, n, t

\* The middle element of the root goes to a new root.
LEMMA CallGrows ==
    ASSUME NEW c, NEW top, NEW T, NEW ch, NEW lv, NEW lo, NEW hi, NEW K,
           Pending(c, top, T, ch, lv, lo, hi, K), ~(Len(RowOf(c.tree)[c.node]) < MaxPerNode),
           c.node = c.tree.root, ParOf(c.tree)[c.node] = 0
    PROVE  \E U, ch2, lv2, lo2, hi2 :
              /\ Pending(InsertCall(c), top, U, ch2, lv2, lo2, hi2, K)
              /\ InsertCall(c).node = InsertCall(c).tree.root
              /\ Len(RowOf(InsertCall(c).tree)[InsertCall(c).node]) < MaxPerNode
<1> DEFINE t == c.tree
           n == c.node
           D == DOMAIN t.nodes
           row == RowOf(t)
           V == WithElem(c)
           par == ParOf(t)
<1>1. /\ D \in SUBSET (Nat \ {0}) /\ IsFiniteSet(D) /\ T \in SUBSET D /\ t.root \in T /\ n \in T /\ n \in D
      /\ \A x \in D \ {n} : V[x] = row[x]
      /\ V \in [D -> Rows] /\ par \in [D -> Nat] /\ n = t.root /\ par[n] = 0 /\ n # 0
  BY PendingTypes
<1>2. /\ IsTree(t) /\ Shape(D, V, par, t.root, top, T, ch, lv, lo, hi)
      /\ Filled(row, t.root, T, lv, n) /\ KeysOf(V, T) = K
  BY DEF Pending
<1>3. PICK m, l, r, new, u, mid : CallSplit(c, T, m, l, r, new, u, mid)
  BY CallSplits
<1> DEFINE D2 == D \cup {new}
           v == Grown(u, n, new)
<1>4. /\ m \in Nat /\ l \in Rows /\ r \in Rows /\ IsCut(V[n], m, l, r)
      /\ Within(l) /\ Within(r)
      /\ new \in Nat \ {0} /\ new \notin D
      /\ mid = [key |-> V[n][m].key, left |-> n, right |-> new] /\ mid \in Element
      /\ IsTree(u) /\ DOMAIN u.nodes = D2 /\ u.root = t.root
      /\ RowOf(u)[n] = l /\ RowOf(u)[new] = r
      /\ \A x \in D \ {n} : RowOf(u)[x] = V[x]
      /\ ParOf(u)[new] = 0 /\ ParOf(u)[n] = 0
      /\ \A x \in D : ParOf(u)[x] = IF x \in KidsOf(r) THEN new ELSE par[x]
      /\ \A x \in KidsOf(r) : x = 0 \/ (x \in T /\ x # t.root /\ x # n)
      /\ InsertCall(c) = [tree |-> v, node |-> v.nodes[n].parent, elem |-> mid]
  BY <1>1, <1>3 DEF CallSplit
<1> HIDE DEF D, V, par, t, n, row
<1>5. /\ D2 \in SUBSET (Nat \ {0}) /\ IsFiniteSet(D2) /\ n \in D2 /\ new \in D2 /\ D2 = DOMAIN u.nodes
  BY <1>1, <1>4, FS_AddElement
<1>6. PICK rt \in Nat \ {0} :
         /\ rt \notin D2
         /\ IsTree(v) /\ DOMAIN v.nodes = D2 \cup {rt} /\ v.root = rt
         /\ RowOf(v)[rt] = <<>> /\ ParOf(v)[rt] = 0
         /\ \A x \in D2 : RowOf(v)[x] = RowOf(u)[x]
         /\ \A x \in D2 : ParOf(v)[x] = IF x \in {n, new} THEN rt ELSE ParOf(u)[x]
  <2> HIDE DEF D2
  <2> QED BY <1>4, <1>5, GrownFacts
<1> HIDE DEF v
<1>7. v.nodes[n].parent = rt
  <2>1. n \in DOMAIN v.nodes
    BY <1>1, <1>6
  <2>2. v.nodes[n].parent = ParOf(v)[n]
    BY <1>6, <2>1, TreeFields
  <2> QED BY <1>5, <1>6, <2>2
<1>8. rt \notin D /\ rt # new /\ rt # n /\ rt \notin T
  BY <1>1, <1>6
<1>9. rt \notin KidsOf(r) /\ n \notin KidsOf(r)
  BY <1>1, <1>4, <1>8
<1> DEFINE D1 == D \cup {rt}
           U1 == T \cup {rt}
           row1 == [x \in D1 |-> IF x = rt THEN <<>> ELSE V[x]]
           par1 == [x \in D1 |-> IF x = rt THEN 0 ELSE IF x = n THEN rt ELSE par[x]]
           D3 == D1 \cup {new}
           U3 == U1 \cup {new}
<1>10. /\ row1 \in [D1 -> Rows] /\ par1 \in [D1 -> Nat]
       /\ row1[rt] = <<>> /\ \A x \in D : row1[x] = V[x]
       /\ par1[rt] = 0 /\ par1[n] = rt /\ \A x \in D \ {n} : par1[x] = par[x]
  <2>1. row1 \in [D1 -> Rows]
    BY <1>1, EmptyRow
  <2>2. par1 \in [D1 -> Nat]
    BY <1>1, <1>6
  <2> QED BY <1>1, <1>8, <2>1, <2>2
<1> HIDE DEF row1, par1
<1>11. PICK ch1, lv1, lo1, hi1 :
          /\ Shape(D1, row1, par1, rt, top, U1, ch1, lv1, lo1, hi1)
          /\ lv1[rt] = lv[n] + 1 /\ ch1[rt][1] = n
          /\ Agree(T, ch1, ch) /\ Agree(T, lv1, lv) /\ Agree(T, lo1, lo) /\ Agree(T, hi1, hi)
  <2>1. GrowStep(D, V, par, n, top, T, ch, lv, lo, hi, rt, D1, U1, row1, par1)
    BY <1>1, <1>2, <1>8, <1>10 DEF GrowStep
  <2> HIDE DEF D1, U1
  <2> QED BY <2>1, GrowShape
<1>12. /\ D3 = D2 \cup {rt}
       /\ RowOf(v) \in [D3 -> Rows] /\ ParOf(v) \in [D3 -> Nat]
  <2>1. D3 = D2 \cup {rt}
    OBVIOUS
  <2> HIDE DEF D3, D2
  <2> QED BY <1>6, <2>1, TreeFields
<1>13. /\ RowOf(v)[n] = l /\ RowOf(v)[new] = r
       /\ \A x \in D1 \ {n} : RowOf(v)[x] = row1[x]
  <2>1. ASSUME NEW x \in D1 \ {n} PROVE RowOf(v)[x] = row1[x]
    <3>1. CASE x = rt
      BY <1>6, <1>10, <3>1
    <3>2. CASE x # rt
      <4>1. x \in D \ {n} /\ x \in D2
        BY <2>1, <3>2
      <4>2. RowOf(v)[x] = RowOf(u)[x] /\ RowOf(u)[x] = V[x] /\ row1[x] = V[x]
        BY <1>4, <1>6, <1>10, <4>1
      <4> QED BY <4>2
    <3> QED BY <3>1, <3>2
  <2>2. RowOf(v)[n] = l /\ RowOf(v)[new] = r
    BY <1>4, <1>5, <1>6
  <2> QED BY <2>1, <2>2
<1>14. /\ ParOf(v)[new] = rt
       /\ \A x \in D1 : ParOf(v)[x] = IF x \in KidsOf(r) THEN new ELSE par1[x]
  <2>1. ParOf(v)[new] = rt /\ ParOf(v)[n] = rt
    BY <1>5, <1>6
  <2>2. ASSUME NEW x \in D1 PROVE ParOf(v)[x] = IF x \in KidsOf(r) THEN new ELSE par1[x]
    <3>1. CASE x = rt
      BY <1>6, <1>9, <1>10, <3>1
    <3>2. CASE x = n
      BY <1>9, <1>10, <2>1, <3>2
    <3>3. CASE x # rt /\ x # n
      <4>1. x \in D \ {n} /\ x \in D /\ x \in D2 /\ x \notin {n, new}
        BY <1>4, <2>2, <3>3
      <4>2. ParOf(v)[x] = ParOf(u)[x]
        BY <1>6, <4>1
      <4>3. ParOf(u)[x] = IF x \in KidsOf(r) THEN new ELSE par[x]
        BY <1>4, <4>1
      <4>4. par1[x] = par[x]
        BY <1>10, <4>1
      <4> QED BY <4>2, <4>3, <4>4
    <3> QED BY <3>1, <3>2, <3>3
  <2> QED BY <2>1, <2>2
<1>15. \A x \in U1 : x # n => /\ Len(row1[x]) <= MaxPerNode
                              /\ x # rt => MinPerNode <= Len(row1[x])
                              /\ lv1[x] > 0 => 0 < Len(row1[x]) \/ x = rt
  <2> TAKE x \in U1
  <2> HAVE x # n
  <2>1. CASE x = rt
    <3>1. Len(row1[x]) = 0 /\ MaxPerNode \in Nat
      BY <1>10, <2>1, EmptyRow, BTreeAssumption
    <3> QED BY <2>1, <3>1
  <2>2. CASE x # rt
    <3>1. x \in T /\ x \in D
      BY <1>1, <2>2
    <3>2. row1[x] = row[x] /\ lv1[x] = lv[x]
      BY <1>1, <1>10, <1>11, <3>1 DEF Agree
    <3>3. /\ Len(row[x]) <= MaxPerNode
          /\ x # t.root => MinPerNode <= Len(row[x])
          /\ lv[x] > 0 => 0 < Len(row[x]) \/ x = n
      BY <1>2, <3>1 DEF Filled
    <3> QED BY <1>1, <3>2, <3>3
  <2> QED BY <2>1, <2>2
<1>16. CutOff(D1, row1, par1, rt, top, U1, ch1, lv1, lo1, hi1, n, m, l, r, new, D3, U3, RowOf(v), ParOf(v), rt, mid)
  <2>1. /\ D3 = D1 \cup {new} /\ U3 = U1 \cup {new} /\ rt = par1[n] /\ n \in U1 /\ n # rt
        /\ new \notin D1 /\ row1[n] = V[n]
    BY <1>1, <1>4, <1>8, <1>10
  <2> HIDE DEF D1, U1, D3, U3
  <2> QED BY <1>4, <1>11, <1>12, <1>13, <1>14, <1>15, <2>1 DEF CutOff
<1>17. PICK ch2, lv2, lo2, hi2 :
          /\ Shape(D3, Virtual(RowOf(v), rt, mid), ParOf(v), rt, top, U3, ch2, lv2, lo2, hi2)
          /\ Filled(RowOf(v), rt, U3, lv2, rt)
          /\ KeysOf(Virtual(RowOf(v), rt, mid), U3) = KeysOf(row1, U1)
  <2> HIDE DEF D1, U1, D3, U3
  <2> QED BY <1>16, PendingCut
<1>18. KeysOf(row1, U1) = K
  <2>1. \A x \in T : row1[x] = V[x]
    BY <1>1, <1>10
  <2>2. U1 = T \cup {rt}
    OBVIOUS
  <2> HIDE DEF U1
  <2>3. KeysOf(row1, U1) = KeysOf(V, T)
    BY <1>8, <1>10, <2>1, <2>2, KeysGrown
  <2> QED BY <1>2, <2>3
<1> DEFINE d == InsertCall(c)
<1>19. d.tree = v /\ d.node = rt /\ d.elem = mid
  BY <1>4, <1>7
<1> HIDE DEF d
<1>20. /\ WithElem(d) = Virtual(RowOf(v), rt, mid)
       /\ DOMAIN d.tree.nodes = D3 /\ d.tree.root = rt
  BY <1>6, <1>12, <1>19 DEF WithElem
<1>21. rt \in U3
  OBVIOUS
<1> HIDE DEF D1, U1, D3, U3
<1>22. Pending(d, top, U3, ch2, lv2, lo2, hi2, K)
  BY <1>4, <1>6, <1>17, <1>18, <1>19, <1>20, <1>21 DEF Pending
<1>23. Len(RowOf(d.tree)[d.node]) < MaxPerNode
  <2>1. MaxPerNode \in Nat /\ 0 < MaxPerNode
    BY BTreeAssumption DEF MinPerNode
  <2> QED BY <1>6, <1>19, <2>1, EmptyRow
<1>24. d.node = d.tree.root
  BY <1>19, <1>20
<1> QED BY <1>22, <1>23, <1>24 DEF d

\* The middle element of a root with a parent goes to that old root,
LEMMA CallStale ==
    ASSUME NEW c, NEW top, NEW T, NEW ch, NEW lv, NEW lo, NEW hi, NEW K,
           Pending(c, top, T, ch, lv, lo, hi, K), ~(Len(RowOf(c.tree)[c.node]) < MaxPerNode),
           c.node = c.tree.root, ParOf(c.tree)[c.node] # 0
    PROVE  Lost(InsertCall(c))
<1> DEFINE t == c.tree
           n == c.node
           D == DOMAIN t.nodes
           row == RowOf(t)
           V == WithElem(c)
           par == ParOf(t)
           p == par[n]
<1>1. /\ D \in SUBSET (Nat \ {0}) /\ T \in SUBSET D /\ t.root \in T /\ n \in T /\ n \in D
      /\ \A x \in D \ {n} : V[x] = row[x]
      /\ n = t.root /\ p # 0
  BY PendingTypes
<1>2. Shape(D, V, par, t.root, top, T, ch, lv, lo, hi)
  BY DEF Pending
<1>3. PICK m, l, r, new, u, mid : CallSplit(c, T, m, l, r, new, u, mid)
  BY CallSplits
<1>4. /\ new \in Nat \ {0} /\ new \notin D /\ mid \in Element
      /\ IsTree(u) /\ DOMAIN u.nodes = D \cup {new} /\ u.root = t.root
      /\ \A x \in D \ {n} : RowOf(u)[x] = V[x]
      /\ ParOf(u)[n] = p
      /\ InsertCall(c) = [tree |-> Grown(u, n, new),
                          node |-> Grown(u, n, new).nodes[n].parent, elem |-> mid]
  BY <1>3 DEF CallSplit
<1> HIDE DEF D, V, par, t, n, row
<1>5. p \in D /\ p # n /\ V[p] = <<>>
  <2>1. p \in D \ T /\ \A x \in D \ T : V[x] = <<>>
    BY <1>1, <1>2 DEF Shape
  <2> QED BY <1>1, <2>1
<1>6. InsertCall(c) = [tree |-> u, node |-> p, elem |-> mid]
  <2>1. u.nodes[n].parent = p
    <3>1. n \in DOMAIN u.nodes
      BY <1>1, <1>4
    <3>2. u.nodes[n].parent = ParOf(u)[n]
      BY <1>4, <3>1, TreeFields
    <3> QED BY <1>4, <3>2
  <2>2. Grown(u, n, new) = u
    BY <1>1, <2>1 DEF Grown, NoNode
  <2> QED BY <1>4, <2>1, <2>2
<1>7. RowOf(u)[p] = <<>> /\ p \in DOMAIN u.nodes /\ u.root \in DOMAIN u.nodes /\ ParOf(u)[u.root] = p
  BY <1>1, <1>4, <1>5
<1> HIDE DEF p
<1> DEFINE d == InsertCall(c)
<1>8. d.tree = u /\ d.node = p /\ d.elem = mid
  BY <1>6
<1> HIDE DEF d
<1>9. Lost(d)
  BY <1>1, <1>4, <1>7, <1>8 DEF Lost
<1> QED BY <1>9 DEF d

\* and is lost there.
LEMMA LostCall ==
    ASSUME NEW c, Lost(c)
    PROVE  InsertCall(c).node = 0 /\ Uprooted(InsertCall(c).tree)
<1> DEFINE t == c.tree
           n == c.node
           D == DOMAIN t.nodes
           s == NodeInsert(RowOf(t)[n], c.elem)
           u == SetElems(t, n, s)
<1>1. /\ IsTree(t) /\ n \in D /\ n # 0 /\ c.elem \in Element /\ RowOf(t)[n] = <<>>
      /\ t.root \in D /\ ParOf(t)[t.root] = n
  BY DEF Lost
<1>2. t.nodes[n].elems = <<>>
  BY <1>1, TreeFields
<1>3. MaxPerNode \in Nat /\ 0 < MaxPerNode
  BY BTreeAssumption DEF MinPerNode
<1>4. InsertCall(c).node = 0 /\ InsertCall(c).tree = u
  <2>1. Len(t.nodes[n].elems) < MaxPerNode
    BY <1>2, <1>3, EmptyRow
  <2> QED BY <1>1, <1>2, <2>1 DEF InsertCall, NoNode, SetElems
<1>5. s \in Rows /\ s # <<>>
  <2>1. KeyInserted(NodeInsert(<<>>, c.elem), <<>>, Position(<<>>, c.elem.key), c.elem.key)
    BY <1>1, EmptyRow, NodeInsertRow
  <2>2. s \in Rows /\ Len(s) = 1
    BY <1>1, <2>1, EmptyRow DEF KeyInserted
  <2> HIDE DEF s
  <2> QED BY <2>2, EmptyRow
<1> HIDE DEF s, t, n, D
<1>6. /\ IsTree(u) /\ DOMAIN u.nodes = D /\ u.root = t.root
      /\ RowOf(u)[n] = s
      /\ \A x \in D : ParOf(u)[x] = ParOf(t)[x]
  <2>1. n \in DOMAIN t.nodes /\ D = DOMAIN t.nodes
    BY <1>1 DEF D
  <2> QED BY <1>1, <1>5, <2>1, ElemsFacts
<1> HIDE DEF u
<1>7. u.nodes[u.root].parent = n /\ u.nodes[n].elems = s
  <2>1. \A x \in DOMAIN u.nodes : u.nodes[x].elems = RowOf(u)[x] /\ u.nodes[x].parent = ParOf(u)[x]
    BY <1>6, TreeFields
  <2>2. u.root \in DOMAIN u.nodes /\ n \in DOMAIN u.nodes /\ u.root \in D
    BY <1>1, <1>6
  <2>3. ParOf(u)[u.root] = n /\ RowOf(u)[n] = s
    BY <1>1, <1>6
  <2> QED BY <2>1, <2>2, <2>3
<1>8. Uprooted(u)
  BY <1>1, <1>5, <1>7 DEF Uprooted, NoNode
<1> QED BY <1>4, <1>8

\* Calls that are to come: enough to place the element.
Placed(t, top, K) == Sound(t, top, K) \/ Uprooted(t)

\* The element is placed, or the call that is to be made and the d - 1 after it
\* place it: there are as many as levels left to the root, and one for a new root.
InsertOn(c, top, K, d) ==
    \/ c.node = 0 /\ Placed(c.tree, top, K)
    \/ Lost(c) /\ 0 < d
    \/ \E T, ch, lv, lo, hi :
         /\ Pending(c, top, T, ch, lv, lo, hi, K)
         /\ \/ lv[c.tree.root] + 2 <= lv[c.node] + d
            \/ c.node = c.tree.root /\ Len(RowOf(c.tree)[c.node]) < MaxPerNode /\ 0 < d

\* A call of InsertElement leaves the element placed, or a call of which the same
\* is true with one call less to come.
LEMMA InsertStep ==
    ASSUME NEW c, NEW top, NEW K, NEW d \in Nat, InsertOn(c, top, K, d + 1)
    PROVE  InsertOn(InsertCall(c), top, K, d)
<1>1. CASE c.node = 0 /\ Placed(c.tree, top, K)
  <2>1. InsertCall(c) = c
    BY <1>1 DEF InsertCall, NoNode
  <2> QED BY <1>1, <2>1 DEF InsertOn
<1>2. CASE Lost(c)
  BY <1>2, LostCall DEF InsertOn, Placed
<1>3. ASSUME NEW T, NEW ch, NEW lv, NEW lo, NEW hi, Pending(c, top, T, ch, lv, lo, hi, K),
             \/ lv[c.tree.root] + 2 <= lv[c.node] + (d + 1)
             \/ c.node = c.tree.root /\ Len(RowOf(c.tree)[c.node]) < MaxPerNode
      PROVE  InsertOn(InsertCall(c), top, K, d)
  <2>1. CASE Len(RowOf(c.tree)[c.node]) < MaxPerNode
    BY <1>3, <2>1, CallFits DEF InsertOn, Placed
  <2>2. CASE ~(Len(RowOf(c.tree)[c.node]) < MaxPerNode)
    <3>1. lv[c.tree.root] + 2 <= lv[c.node] + (d + 1)
      BY <1>3, <2>2
    <3>2. lv[c.node] \in Nat /\ lv[c.tree.root] \in Nat
      BY <1>3, PendingTypes
    <3>3. CASE c.node # c.tree.root
      <4>1. PICK U, ch2, lv2, lo2, hi2 :
              /\ Pending(InsertCall(c), top, U, ch2, lv2, lo2, hi2, K)
              /\ lv2[InsertCall(c).node] = lv[c.node] + 1
              /\ lv2[InsertCall(c).tree.root] = lv[c.tree.root]
        BY <1>3, <2>2, <3>3, CallGoesUp
      <4>2. lv2[InsertCall(c).tree.root] + 2 <= lv2[InsertCall(c).node] + d
        BY <3>1, <3>2, <4>1
      <4> QED BY <4>1, <4>2 DEF InsertOn
    <3>4. CASE c.node = c.tree.root
      <4>0. 0 < d
        BY <3>1, <3>2, <3>4
      <4>1. CASE ParOf(c.tree)[c.node] = 0
        <5>1. PICK U, ch2, lv2, lo2, hi2 :
                /\ Pending(InsertCall(c), top, U, ch2, lv2, lo2, hi2, K)
                /\ InsertCall(c).node = InsertCall(c).tree.root
                /\ Len(RowOf(InsertCall(c).tree)[InsertCall(c).node]) < MaxPerNode
          BY <1>3, <2>2, <3>4, <4>1, CallGrows
        <5> QED BY <4>0, <5>1 DEF InsertOn
      <4>2. CASE ParOf(c.tree)[c.node] # 0
        BY <1>3, <2>2, <3>4, <4>0, <4>2, CallStale DEF InsertOn
      <4> QED BY <4>1, <4>2
    <3> QED BY <3>3, <3>4
  <2> QED BY <2>1, <2>2
<1> QED BY <1>1, <1>2, <1>3 DEF InsertOn

\* No call is left.
LEMMA InsertEnds ==
    ASSUME NEW c, NEW top, NEW K, InsertOn(c, top, K, 0)
    PROVE  Placed(c.tree, top, K)
<1> SUFFICES ASSUME NEW T, NEW ch, NEW lv, NEW lo, NEW hi, Pending(c, top, T, ch, lv, lo, hi, K),
                    lv[c.tree.root] + 2 <= lv[c.node] + 0
             PROVE  FALSE
  BY DEF InsertOn
<1>1. lv[c.node] \in Nat /\ lv[c.tree.root] \in Nat /\ lv[c.node] <= lv[c.tree.root]
  BY PendingTypes
<1> QED BY <1>1

\* What calls itself a number of times is defined.
LEMMA InsertCalls ==
    ASSUME NEW start, NEW last \in Nat
    PROVE  \E f : f = [i \in 0 .. last |-> IF i = 0 THEN start ELSE InsertCall(f[i - 1])]
<1> DEFINE R(f, j) == f = [i \in 0 .. j |-> IF i = 0 THEN start ELSE InsertCall(f[i - 1])]
           J == {j \in Nat : \E f : R(f, j)}
<1>1. 0 \in J
  <2> DEFINE f == [i \in 0 .. 0 |-> start]
  <2>1. R(f, 0)
    OBVIOUS
  <2> HIDE DEF R, f
  <2> QED BY <2>1
<1>2. ASSUME NEW j \in Nat, j \in J PROVE j + 1 \in J
  <2>1. PICK f : R(f, j)
    BY <1>2
  <2> DEFINE g == [i \in 0 .. j + 1 |-> IF i <= j THEN f[i] ELSE InsertCall(f[j])]
  <2>2. \A i \in 0 .. j : f[i] = IF i = 0 THEN start ELSE InsertCall(f[i - 1])
    BY <2>1
  <2>3. \A i \in 0 .. j + 1 : g[i] = IF i = 0 THEN start ELSE InsertCall(g[i - 1])
    <3> SUFFICES ASSUME NEW i \in 0 .. j + 1
                 PROVE  g[i] = IF i = 0 THEN start ELSE InsertCall(g[i - 1])
      OBVIOUS
    <3>0. \A x \in 0 .. j : g[x] = f[x] /\ x \in 0 .. j + 1
      OBVIOUS
    <3>4. j + 1 \in 0 .. j + 1 /\ ~(j + 1 <= j) /\ j \in 0 .. j
      OBVIOUS
    <3>5. g[j + 1] = InsertCall(f[j])
      BY <3>4
    <3> HIDE DEF g
    <3>1. CASE i = 0
      <4>1. i \in 0 .. j
        BY <3>1
      <4> QED BY <2>2, <3>0, <3>1, <4>1
    <3>2. CASE i # 0 /\ i <= j
      <4>1. i \in 0 .. j /\ i - 1 \in 0 .. j
        BY <3>2
      <4>2. f[i] = InsertCall(f[i - 1])
        BY <2>2, <3>2, <4>1
      <4>3. g[i] = f[i] /\ g[i - 1] = f[i - 1]
        BY <3>0, <4>1
      <4> QED BY <3>2, <4>2, <4>3
    <3>3. CASE i = j + 1
      <4>1. i # 0 /\ i - 1 = j
        BY <3>3
      <4>2. g[j] = f[j]
        BY <3>0, <3>4
      <4> QED BY <3>3, <3>5, <4>1, <4>2
    <3> QED BY <3>1, <3>2, <3>3
  <2>4. g = [i \in 0 .. j + 1 |-> g[i]]
    OBVIOUS
  <2> HIDE DEF g
  <2>5. R(g, j + 1)
    BY <2>3, <2>4
  <2> HIDE DEF R
  <2> QED BY <2>5
<1>3. Nat \subseteq J
  <2> HIDE DEF J
  <2> QED BY <1>1, <1>2, SetInduction
<1> QED BY <1>3

\* InsertElement has placed the element before the calls run out.
LEMMA InsertRun ==
    ASSUME NEW t, NEW n, NEW e, NEW top, NEW K, Cardinality(DOMAIN t.nodes) \in Nat,
           InsertOn([tree |-> t, node |-> n, elem |-> e], top, K, Cardinality(DOMAIN t.nodes) + 1)
    PROVE  Placed(InsertElement(t, n, e), top, K)
<1> DEFINE last == Cardinality(DOMAIN t.nodes) + 1
           start == [tree |-> t, node |-> n, elem |-> e]
           Body(f) == [i \in 0 .. last |-> IF i = 0 THEN start ELSE InsertCall(f[i - 1])]
           call == CHOOSE f : f = Body(f)
<1>1. InsertElement(t, n, e) = call[last].tree
  BY DEF InsertElement
<1>2. last \in Nat /\ InsertOn(start, top, K, last)
  OBVIOUS
<1> HIDE DEF last, start
<1>3. call = Body(call)
  <2>1. \E f : f = Body(f)
    BY <1>2, InsertCalls
  <2> HIDE DEF Body
  <2> QED BY <2>1
<1> HIDE DEF call
<1>4. \A i \in 0 .. last : call[i] = IF i = 0 THEN start ELSE InsertCall(call[i - 1])
  BY <1>3
<1> DEFINE J == {i \in Nat : i <= last => InsertOn(call[i], top, K, last - i)}
<1>5. 0 \in J
  <2>1. call[0] = start /\ last - 0 = last
    BY <1>2, <1>4
  <2> QED BY <1>2, <2>1
<1>6. ASSUME NEW i \in Nat, i \in J PROVE i + 1 \in J
  <2> SUFFICES ASSUME i + 1 <= last PROVE InsertOn(call[i + 1], top, K, last - (i + 1))
    OBVIOUS
  <2>1. i + 1 \in 0 .. last /\ i + 1 # 0 /\ (i + 1) - 1 = i /\ i <= last /\ i \in 0 .. last
    BY <1>2
  <2>2. call[i + 1] = InsertCall(call[i])
    BY <1>4, <2>1
  <2> DEFINE d == last - (i + 1)
  <2>3. d \in Nat /\ last - i = d + 1
    BY <1>2, <2>1
  <2> HIDE DEF d
  <2>4. InsertOn(call[i], top, K, d + 1)
    BY <1>6, <2>1, <2>3
  <2>5. InsertOn(InsertCall(call[i]), top, K, d)
    BY <2>3, <2>4, InsertStep
  <2> QED BY <2>2, <2>5 DEF d
<1>7. last \in J
  <2> HIDE DEF J
  <2>1. Nat \subseteq J
    BY <1>5, <1>6, SetInduction
  <2> QED BY <1>2, <2>1
<1>8. InsertOn(call[last], top, K, 0)
  <2>1. last - last = 0 /\ last <= last
    BY <1>2
  <2> QED BY <1>7, <2>1
<1> QED BY <1>1, <1>8, InsertEnds

\* Insert of a new key.
LEMMA InsertedFacts ==
    ASSUME NEW t, NEW top \in Nat, NEW K, Sound(t, top, K), NEW k \in Nat, k < top, k \notin K,
           NEW K2, K2 = K \cup {k}
    PROVE  Placed(Inserted(t, k), top, K2)
<1>1. PICK T, ch, lv, lo, hi : /\ TreeShape(t, top, T, ch, lv, lo, hi)
                               /\ Filled(RowOf(t), t.root, T, lv, 0)
                               /\ KeysOf(RowOf(t), T) = K
  BY DEF Sound
<1> DEFINE D == DOMAIN t.nodes
           row == RowOf(t)
           y == LeafFor(t, t.root, k)
           e == [key |-> k, left |-> 0, right |-> 0]
           c == [tree |-> t, node |-> y, elem |-> e]
           V == WithElem(c)
<1>2. /\ IsTree(t) /\ Shape(D, row, ParOf(t), t.root, top, T, ch, lv, lo, hi)
      /\ row \in [D -> Rows]
  <2>1. IsTree(t)
    BY DEF Sound
  <2> QED BY <1>1, <2>1, TreeFields DEF TreeShape
<1>3. /\ T \in SUBSET D /\ t.root \in T /\ D \in SUBSET (Nat \ {0})
      /\ \A n \in T : /\ row[n] \in Rows /\ Len(row[n]) \in Nat
                      /\ lv[n] \in Nat /\ lo[n] \in Int /\ hi[n] \in Int
                      /\ Ordered(row[n], lo[n], hi[n]) /\ Links(row[n], ch[n])
                      /\ lv[n] = 0 => \A j \in Nat : ch[n][j] = 0
  <2>1. D \in SUBSET (Nat \ {0})
    <3> HIDE DEF D, row
    <3>1. BTyped(D, row, ParOf(t), t.root, T, ch, lv, lo, hi)
      BY <1>2 DEF Shape
    <3> QED BY <3>1 DEF BTyped
  <2> QED BY <1>1, <2>1, TreeTypes
<1>4. \A n \in T : lv[n] > 0 => row[n] # <<>>
  <2> TAKE n \in T
  <2> HAVE lv[n] > 0
  <2>1. 0 < Len(row[n]) \/ n = 0
    BY <1>1 DEF Filled
  <2>2. n # 0
    BY <1>3
  <2> QED BY <2>1, <2>2, EmptyRow
<1>5. y \in T /\ lv[y] = 0 /\ lo[y] < k /\ k < hi[y]
  BY <1>1, <1>4, LeafForFacts
<1> HIDE DEF y
<1>6. PICK s, d, l, h : /\ s \in Rows /\ l \in Int /\ h \in Int
                        /\ s = row[y] /\ d = ch[y] /\ l = lo[y] /\ h = hi[y]
  <2>1. row[y] \in Rows /\ lo[y] \in Int /\ hi[y] \in Int
    BY <1>3, <1>5
  <2> HIDE DEF row
  <2> QED BY <2>1
<1> s \in Rows /\ l \in Int /\ h \in Int
  BY <1>6
<1>7. /\ Len(s) \in Nat /\ Ordered(s, l, h) /\ Links(s, d) /\ l < k /\ k < h
      /\ \A j \in Nat : d[j] = 0
  BY <1>3, <1>5, <1>6
<1>8. e \in Element /\ e.key = k /\ e.left = 0 /\ e.right = 0
  BY DEF Element
<1> DEFINE q == NodeInsert(s, e)
<1>9. PICK a \in 1 .. Len(s) + 1 :
        /\ KeyInserted(q, s, a, k) /\ Links(q, ChInserted(d, a, 0, 0))
        /\ \A i \in 1 .. Len(s) : i < a => ~(k < s[i].key)
        /\ a <= Len(s) => k < s[a].key
  <2>1. /\ KeyInserted(NodeInsert(s, e), s, Position(s, e.key), e.key)
        /\ Links(NodeInsert(s, e), ChInserted(d, Position(s, e.key), e.left, e.right))
    <3> HIDE DEF e
    <3> QED BY <1>7, <1>8, NodeInsertFacts
  <2>2. /\ Position(s, k) \in 1 .. Len(s) + 1
        /\ \A i \in 1 .. Len(s) : i < Position(s, k) => ~(k < s[i].key)
        /\ Position(s, k) <= Len(s) => k < s[Position(s, k)].key
    BY PositionFacts
  <2> HIDE DEF e
  <2> QED BY <1>8, <2>1, <2>2
<1> HIDE DEF q
<1>10. a \in Nat /\ q \in Rows /\ Len(q) = Len(s) + 1
  BY <1>7, <1>9 DEF KeyInserted
<1>11. LoAt(s, a, l) < k /\ k < HiAt(s, a, h)
  <2>1. \A i \in 1 .. Len(s) : s[i].key \in Nat /\ s[i].key # k
    <3>1. \A i \in 1 .. Len(s) : s[i].key \in Nat
      BY RowFacts
    <3>2. \A i \in 1 .. Len(s) : s[i].key \in K
      <4>1. \A i \in 1 .. Len(s) : s[i].key \in RowKeys(row[y])
        BY <1>6 DEF RowKeys
      <4>2. RowKeys(row[y]) \subseteq K
        <5>1. KeysOf(row, T) = K
          BY <1>1
        <5> HIDE DEF row
        <5> QED BY <1>5, <5>1 DEF KeysOf
      <4> QED BY <4>1, <4>2
    <3> QED BY <3>1, <3>2
  <2> HIDE DEF row, e, c, V
  <2>2. LoAt(s, a, l) < k
    <3>1. CASE a = 1
      BY <1>7, <3>1 DEF LoAt
    <3>2. CASE a # 1
      <4>1. a - 1 \in 1 .. Len(s) /\ a - 1 < a
        BY <1>7, <3>2
      <4>2. ~(k < s[a - 1].key) /\ s[a - 1].key # k /\ s[a - 1].key \in Nat
        BY <1>9, <2>1, <4>1
      <4>3. s[a - 1].key < k
        <5>1. PICK x \in Nat : x = s[a - 1].key
          BY <4>2
        <5> QED BY <4>2, <5>1
      <4> QED BY <3>2, <4>3 DEF LoAt
    <3> QED BY <3>1, <3>2
  <2>3. k < HiAt(s, a, h)
    <3>1. CASE a > Len(s)
      BY <1>7, <3>1 DEF HiAt
    <3>2. CASE ~(a > Len(s))
      <4>1. a <= Len(s)
        BY <1>7, <3>2
      <4> QED BY <1>9, <3>2, <4>1 DEF HiAt
    <3> QED BY <3>1, <3>2
  <2> QED BY <2>2, <2>3
<1>12. Ordered(q, l, h)
  BY <1>7, <1>9, <1>10, <1>11, InsertOrder
<1>13. \A i \in 1 .. Len(q) : q[i].left = 0 /\ q[i].right = 0
  <2> DEFINE g == ChInserted(d, a, 0, 0)
  <2>1. \A j \in Nat \ {0} : g[j] = 0
    <3> TAKE j \in Nat \ {0}
    <3>1. j \in Nat /\ j - 1 \in Nat
      OBVIOUS
    <3>2. d[j] = 0 /\ d[j - 1] = 0
      BY <1>7, <3>1
    <3> QED BY <3>1, <3>2 DEF ChInserted
  <2> HIDE DEF g
  <2>2. \A i \in 1 .. Len(q) : i \in Nat \ {0} /\ i + 1 \in Nat \ {0}
    BY <1>7, <1>10
  <2>3. Links(q, g)
    BY <1>9 DEF g
  <2> QED BY <2>1, <2>2, <2>3 DEF Links
<1>14. /\ V \in [D -> Rows] /\ V[y] = q /\ \A x \in D \ {y} : V[x] = row[x]
  <2>1. V = [x \in D |-> IF x = y THEN q ELSE row[x]]
    <3>1. V = Virtual(row, y, e)
      BY DEF WithElem
    <3>2. DOMAIN row = D /\ q = NodeInsert(row[y], e)
      BY <1>2, <1>6 DEF q
    <3> HIDE DEF V, row, D, e
    <3> QED BY <3>1, <3>2 DEF Virtual
  <2>2. y \in D
    BY <1>3, <1>5
  <2> HIDE DEF V, row, D, e
  <2> QED BY <1>2, <1>10, <2>1, <2>2
<1> HIDE DEF V, row, D
<1>15. Shape(D, V, ParOf(t), t.root, top, T, ch, lv, lo, hi)
  <2>1. Ordered(V[y], lo[y], hi[y]) /\ \A i \in 1 .. Len(V[y]) : V[y][i].left = 0 /\ V[y][i].right = 0
    BY <1>6, <1>12, <1>13, <1>14
  <2> QED BY <1>2, <1>5, <1>14, <2>1, LeafShape
<1>16. KeysOf(V, T) = K2
  <2>1. Adds(RowKeys(q), RowKeys(s), k)
    BY <1>9, <1>10, InsertedKeys
  <2>2. Adds(RowKeys(V[y]), RowKeys(row[y]), k) /\ \A x \in T \ {y} : V[x] = row[x]
    BY <1>3, <1>6, <1>14, <2>1
  <2>3. Adds(KeysOf(V, T), KeysOf(row, T), k)
    BY <1>5, <2>2, KeysWith
  <2> QED BY <1>1, <2>3 DEF Adds, row
<1>17. Filled(row, t.root, T, lv, y)
  <2>1. 0 \notin T
    BY <1>3
  <2>2. Filled(row, t.root, T, lv, 0)
    BY <1>1 DEF row
  <2> QED BY <2>1, <2>2 DEF Filled
<1>18. c.tree = t /\ c.node = y /\ c.elem = e
  OBVIOUS
<1>19. lv[t.root] < Cardinality(D) /\ Cardinality(D) \in Nat /\ lv[t.root] \in Nat
  BY <1>2, <1>3, Height
<1>20. Pending(c, top, T, ch, lv, lo, hi, K2)
  <2> HIDE DEF c, e
  <2> QED BY <1>2, <1>5, <1>8, <1>15, <1>16, <1>17, <1>18 DEF Pending, V, row, D
<1>21. InsertOn(c, top, K2, Cardinality(D) + 1)
  <2>1. lv[c.tree.root] + 2 <= lv[c.node] + (Cardinality(D) + 1)
    <3>1. lv[t.root] + 2 <= lv[y] + (Cardinality(D) + 1)
      <4>1. PICK x \in Nat, z \in Nat : x = lv[t.root] /\ z = Cardinality(D)
        BY <1>19
      <4>2. lv[y] = 0 /\ x < z
        BY <1>5, <1>19, <4>1
      <4> QED BY <4>1, <4>2
    <3> QED BY <1>18, <3>1
  <2> HIDE DEF c, e
  <2> QED BY <1>20, <2>1 DEF InsertOn
<1>22. Placed(InsertElement(t, y, e), top, K2)
  <2> HIDE DEF e
  <2> QED BY <1>19, <1>21, InsertRun DEF D
<1> QED BY <1>22 DEF Inserted, y, NoNode
=============================================================================
