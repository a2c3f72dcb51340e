---------------------------- MODULE BTreeProofs ----------------------------
(***************************************************************************)
(* For any set of keys, any number of elements in a node and any sequence  *)
(* of inserts and deletes: as long as the tree has not lost its root, it   *)
(* holds the keys that were inserted and not deleted since.  Search finds  *)
(* these, a traversal visits them in order, and every link leads back.     *)
(*                                                                         *)
(* InsertElement and Rebalance go up the tree call by call.  What is true  *)
(* of a call before it (InsertOn, RebalanceOn) says what is left to do and *)
(* that the calls to come are enough to do it, so that running them all    *)
(* leaves a sound tree, or one without its root.                           *)
(***************************************************************************)
EXTENDS BTreeLemmas

-----------------------------------------------------------------------------
(* Delete                                                                  *)

\* q is s with the key k at i.
KeyChanged(q, s, i, k) ==
    /\ q \in Rows /\ Len(q) = Len(s) /\ i \in 1 .. Len(s)
    /\ \A j \in 1 .. Len(s) : /\ q[j].key = IF j = i THEN k ELSE s[j].key
                              /\ q[j].left = s[j].left /\ q[j].right = s[j].right

\* The elements of two siblings and the one between them are cut elsewhere.
ShiftStep(D, row, par, root, top, T, ch, lv, lo, hi, p, a, L, R, C, m, b, l, r, row2, par2) ==
    /\ Shape(D, row, par, root, top, T, ch, lv, lo, hi)
    /\ p \in T /\ lv[p] > 0 /\ a \in 1 .. Len(row[p]) /\ L = ch[p][a] /\ R = ch[p][a + 1]
    /\ C \in Rows /\ m \in Nat /\ IsCut(C, m, row[L], row[R])
    /\ C[m].key = row[p][a].key /\ C[m].left = ch[L][m] /\ C[m].right = ch[R][1]
    /\ b \in Nat /\ l \in Rows /\ r \in Rows /\ IsCut(C, b, l, r)
    /\ row2 \in [D -> Rows] /\ par2 \in [D -> Nat]
    /\ row2[L] = l /\ row2[R] = r /\ \A x \in D \ {L, R, p} : row2[x] = row[x]
    /\ KeyChanged(row2[p], row[p], a, C[b].key)
    /\ \A x \in D : par2[x] =
         IF x \in {ChJoined(ch[L], m, ch[R])[i] : i \in b + 1 .. Len(C) + 1} THEN R
         ELSE IF x \in {ch[R][i] : i \in 1 .. Len(row[R]) + 1} THEN L ELSE par[x]

\* Two neighbours below p.
LEMMA Neighbours ==
    ASSUME NEW D, NEW row, NEW par, NEW root, NEW top, NEW T, NEW ch, NEW lv, NEW lo, NEW hi,
           Shape(D, row, par, root, top, T, ch, lv, lo, hi), NEW p \in T, lv[p] > 0,
           NEW a \in 1 .. Len(row[p])
    PROVE  /\ ch[p][a] \in T /\ ch[p][a + 1] \in T /\ ch[p][a] # ch[p][a + 1]
           /\ ch[p][a] # p /\ ch[p][a + 1] # p /\ ch[p][a] # root /\ ch[p][a + 1] # root
           /\ par[ch[p][a]] = p /\ par[ch[p][a + 1]] = p
           /\ lv[ch[p][a]] + 1 = lv[p] /\ lv[ch[p][a + 1]] + 1 = lv[p]
           /\ lv[ch[p][a]] \in Nat /\ lv[ch[p][a + 1]] \in Nat /\ lv[p] \in Nat
<1>1. \A n \in T : lv[n] \in Nat /\ Len(row[n]) \in Nat
  BY NodeTypes
<1>2. Len(row[p]) \in Nat
  BY <1>1
<1>3. a \in 1 .. Len(row[p]) + 1 /\ a + 1 \in 1 .. Len(row[p]) + 1 /\ a # a + 1
  BY <1>2
<1>4. HangsAt(row, par, root, T, lv, lo, hi, p, a, ch[p][a])
  BY <1>3, ChildHangs
<1>5. HangsAt(row, par, root, T, lv, lo, hi, p, a + 1, ch[p][a + 1])
  <2>1. PICK j \in 1 .. Len(row[p]) + 1 : j = a + 1
    BY <1>3
  <2>2. HangsAt(row, par, root, T, lv, lo, hi, p, j, ch[p][j])
    BY ChildHangs
  <2> QED BY <2>1, <2>2
<1>6. ch[p][a] # ch[p][a + 1]
  <2>1. PICK j \in 1 .. Len(row[p]) + 1, k \in 1 .. Len(row[p]) + 1 : j = a /\ k = a + 1
    BY <1>3
  <2>2. ch[p][j] = ch[p][k] => j = k
    BY GapsDiffer
  <2> QED BY <1>3, <2>1, <2>2
<1>7. /\ ch[p][a] \in T /\ ch[p][a + 1] \in T /\ ch[p][a] # root /\ ch[p][a + 1] # root
      /\ par[ch[p][a]] = p /\ par[ch[p][a + 1]] = p
      /\ lv[ch[p][a]] + 1 = lv[p] /\ lv[ch[p][a + 1]] + 1 = lv[p]
  BY <1>4, <1>5 DEF HangsAt
<1>8. lv[ch[p][a]] \in Nat /\ lv[ch[p][a + 1]] \in Nat /\ lv[p] \in Nat
  BY <1>1, <1>7
<1>9. ch[p][a] # p /\ ch[p][a + 1] # p
  <2>1. PICK x \in Nat : x = lv[p]
    BY <1>8
  <2>2. ch[p][a] = p => x + 1 = x
    BY <1>7, <2>1
  <2>3. ch[p][a + 1] = p => x + 1 = x
    BY <1>7, <2>1
  <2> QED BY <2>2, <2>3
<1> QED BY <1>6, <1>7, <1>8, <1>9

\* What a node names as children: nothing, or nodes below it.
LEMMA KidsBelow ==
    ASSUME NEW D, NEW row, NEW par, NEW root, NEW top, NEW T, NEW ch, NEW lv, NEW lo, NEW hi,
           Shape(D, row, par, root, top, T, ch, lv, lo, hi), NEW n \in T,
           NEW j \in 1 .. Len(row[n]) + 1
    PROVE  \/ ch[n][j] = 0 /\ ch[n][j] \notin D /\ lv[n] = 0
           \/ /\ ch[n][j] \in T /\ ch[n][j] # root /\ par[ch[n][j]] = n
              /\ lv[ch[n][j]] \in Nat /\ lv[ch[n][j]] + 1 = lv[n]
<1>1. /\ lv[n] \in Nat /\ Len(row[n]) \in Nat /\ 0 \notin D /\ \A x \in T : lv[x] \in Nat
  <2>1. BTyped(D, row, par, root, T, ch, lv, lo, hi)
    BY DEF Shape
  <2>2. row[n] \in Rows
    BY <2>1 DEF BTyped
  <2> QED BY <2>1, <2>2, RowFacts DEF BTyped
<1>2. CASE lv[n] = 0
  <2>1. NodeFits(row, par, root, T, ch, lv, lo, hi, n)
    BY DEF Shape
  <2>2. j \in Nat
    BY <1>1
  <2>3. ch[n][j] = 0
    BY <1>2, <2>1, <2>2 DEF NodeFits
  <2> QED BY <1>1, <1>2, <2>3
<1>3. CASE lv[n] # 0
  <2>1. lv[n] > 0
    BY <1>1, <1>3
  <2>2. HangsAt(row, par, root, T, lv, lo, hi, n, j, ch[n][j])
    BY <2>1, ChildHangs
  <2> QED BY <1>1, <2>2 DEF HangsAt
<1> QED BY <1>2, <1>3

\* Elements that pass from one brother to the other through the parent: the same
\* shape and the same keys.
LEMMA ShiftShape ==
    ASSUME NEW D, NEW row, NEW par, NEW root, NEW top, NEW T, NEW ch, NEW lv, NEW lo, NEW hi,
           NEW p, NEW a, NEW L, NEW R, NEW C, NEW m, NEW b, NEW l, NEW r, NEW row2, NEW par2,
           ShiftStep(D, row, par, root, top, T, ch, lv, lo, hi, p, a, L, R, C, m, b, l, r, row2, par2)
    PROVE  /\ KeysOf(row2, T) = KeysOf(row, T)
           /\ \E ch2, lv2, lo2, hi2 :
                /\ Shape(D, row2, par2, root, top, T, ch2, lv2, lo2, hi2)
                /\ Agree(T \ {R}, lv2, lv)
<1> DEFINE KidsR == {ch[R][i] : i \in 1 .. Len(row[R]) + 1}
           KidsB == {ChJoined(ch[L], m, ch[R])[i] : i \in b + 1 .. Len(C) + 1}
<1>1. /\ Shape(D, row, par, root, top, T, ch, lv, lo, hi)
      /\ p \in T /\ lv[p] > 0 /\ a \in 1 .. Len(row[p]) /\ L = ch[p][a] /\ R = ch[p][a + 1]
      /\ C \in Rows /\ m \in Nat /\ IsCut(C, m, row[L], row[R])
      /\ C[m].key = row[p][a].key /\ C[m].left = ch[L][m] /\ C[m].right = ch[R][1]
      /\ b \in Nat /\ l \in Rows /\ r \in Rows /\ IsCut(C, b, l, r)
      /\ row2 \in [D -> Rows] /\ par2 \in [D -> Nat]
      /\ row2[L] = l /\ row2[R] = r /\ \A x \in D \ {L, R, p} : row2[x] = row[x]
      /\ KeyChanged(row2[p], row[p], a, C[b].key)
      /\ \A x \in D : par2[x] = IF x \in KidsB THEN R ELSE IF x \in KidsR THEN L ELSE par[x]
  BY DEF ShiftStep
<1> HIDE DEF KidsB
<1>2. /\ D \in SUBSET (Nat \ {0}) /\ IsFiniteSet(D) /\ T \in SUBSET D /\ root \in T /\ 0 \notin D
      /\ row \in [D -> Rows] /\ par \in [D -> Nat] /\ ch[p] \in [Nat -> Nat]
  <2>1. BTyped(D, row, par, root, T, ch, lv, lo, hi)
    BY <1>1 DEF Shape
  <2> QED BY <1>1, <2>1 DEF BTyped
<1>3. /\ L \in T /\ R \in T /\ L # R /\ L # p /\ R # p /\ L # root /\ R # root
      /\ par[L] = p /\ par[R] = p /\ lv[L] + 1 = lv[p] /\ lv[R] + 1 = lv[p]
      /\ lv[L] \in Nat /\ lv[R] \in Nat /\ lv[p] \in Nat
  BY <1>1, Neighbours, SMTT(30)
<1>4. /\ row[p] \in Rows /\ row[L] \in Rows /\ row[R] \in Rows
      /\ L \in D /\ R \in D /\ p \in D
      /\ Len(row[p]) \in Nat /\ Len(row[R]) \in Nat
  BY <1>1, <1>2, <1>3, RowFacts
<1>5. Links(row[p], ch[p])
  BY <1>1 DEF Shape, NodeFits
<1>6. PICK q \in Rows : KeyRemoved(q, row[p], a) /\ Links(q, ChRemoved(ch[p], a))
  <2>1. PICK s, c, i : s \in Rows /\ s = row[p] /\ c = ch[p] /\ i = a
    BY <1>4
  <2>2. s \in Rows /\ Links(s, c) /\ i \in 1 .. Len(s)
    BY <1>1, <1>5, <2>1
  <2> DEFINE rest == RemoveAt(s, i)
             q == IF i > Len(rest) THEN rest ELSE [rest EXCEPT ![i].left = s[i].left]
  <2>3. KeyRemoved(q, s, i) /\ Links(q, ChRemoved(c, i))
    BY <2>2, ParentRow
  <2> HIDE DEF q
  <2>4. q \in Rows
    BY <2>3 DEF KeyRemoved
  <2> QED BY <2>1, <2>3, <2>4
\* First the two are merged.
<1> DEFINE D1 == D \ {R}
           U == T \ {R}
           row1 == [x \in D1 |-> IF x = L THEN C ELSE IF x = p THEN q ELSE row[x]]
           par1 == [x \in D1 |-> IF x \in KidsR THEN L ELSE par[x]]
<1>7. /\ row1 \in [D1 -> Rows] /\ row1[L] = C /\ row1[p] = q
      /\ \A x \in D \ {L, R, p} : row1[x] = row[x]
  <2>1. row1 \in [D1 -> Rows]
    BY <1>1, <1>2
  <2> QED BY <1>3, <1>4, <2>1
<1>8. par1 \in [D1 -> Nat] /\ \A x \in D1 : par1[x] = IF x \in KidsR THEN L ELSE par[x]
  <2>1. L \in Nat
    BY <1>2, <1>4
  <2> HIDE DEF KidsR
  <2> QED BY <1>2, <2>1
<1> HIDE DEF row1, par1
<1>9. PICK ch1, lv1, lo1, hi1 :
         /\ Shape(D1, row1, par1, root, top, U, ch1, lv1, lo1, hi1)
         /\ Agree(U, lv1, lv)
         /\ ch1[p] = ChRemoved(ch[p], a) /\ ch1[L] = ChJoined(ch[L], m, ch[R])
         /\ L \in U /\ R \in T /\ p \in U /\ L # p
  <2>1. MergeStep(D, row, par, root, top, T, ch, lv, lo, hi, p, a, L, R, C, m, D1, U, row1, par1)
    BY <1>1, <1>6, <1>7, <1>8 DEF MergeStep
  <2> HIDE DEF D1, U
  <2> QED BY <2>1, MergeShape
\* Then they are cut.
<1>10. L \notin KidsR /\ R \notin KidsR /\ p \notin KidsR
  <2>1. ASSUME NEW j \in 1 .. Len(row[R]) + 1 PROVE ch[R][j] # L /\ ch[R][j] # R /\ ch[R][j] # p
    <3>1. \/ ch[R][j] = 0 /\ ch[R][j] \notin D /\ lv[R] = 0
          \/ /\ ch[R][j] \in T /\ ch[R][j] # root /\ par[ch[R][j]] = R
             /\ lv[ch[R][j]] \in Nat /\ lv[ch[R][j]] + 1 = lv[R]
      <4>1. Shape(D, row, par, root, top, T, ch, lv, lo, hi) /\ R \in T
        BY <1>1, <1>3
      <4> HIDE DEF KidsR
      <4> QED BY <4>1, KidsBelow
    <3>2. CASE ch[R][j] \notin D
      BY <1>4, <3>2
    <3>3. CASE lv[ch[R][j]] \in Nat /\ lv[ch[R][j]] + 1 = lv[R]
      <4>1. PICK x \in Nat, y \in Nat, z \in Nat : x = lv[ch[R][j]] /\ y = lv[R] /\ z = lv[p]
        BY <1>3, <3>3
      <4>2. x + 1 = y /\ y + 1 = z /\ lv[L] + 1 = z
        BY <1>3, <3>3, <4>1
      <4>3. ch[R][j] = L => x + 1 = z
        BY <4>1, <4>2
      <4>4. ch[R][j] = R => x = y
        BY <4>1
      <4>5. ch[R][j] = p => x = z
        BY <4>1
      <4> QED BY <4>2, <4>3, <4>4, <4>5
    <3> QED BY <3>1, <3>2, <3>3
  <2> QED BY <2>1
<1>11. R \notin KidsB
  <2>1. ASSUME NEW i \in b + 1 .. Len(C) + 1 PROVE ChJoined(ch[L], m, ch[R])[i] # R
    <3>1. /\ Len(C) \in Nat /\ Len(row[L]) = m - 1 /\ Len(row[R]) = Len(C) - m /\ i \in Nat
          /\ 1 <= i /\ i <= Len(C) + 1
      BY <1>1, RowFacts DEF IsCut
    <3>2. CASE i <= m
      <4>1. i \in 1 .. Len(row[L]) + 1
        BY <1>1, <3>1, <3>2
      <4>2. \/ ch[L][i] = 0 /\ ch[L][i] \notin D /\ lv[L] = 0
            \/ /\ ch[L][i] \in T /\ ch[L][i] # root /\ par[ch[L][i]] = L
               /\ lv[ch[L][i]] \in Nat /\ lv[ch[L][i]] + 1 = lv[L]
        <5>1. Shape(D, row, par, root, top, T, ch, lv, lo, hi) /\ L \in T
          BY <1>1, <1>3
        <5> QED BY <4>1, <5>1, KidsBelow
      <4>3. ch[L][i] # R
        BY <1>3, <1>4, <4>2
      <4> QED BY <3>1, <3>2, <4>3 DEF ChJoined
    <3>3. CASE ~(i <= m)
      <4>1. i - m \in 1 .. Len(row[R]) + 1
        BY <1>1, <3>1, <3>3
      <4>2. ch[R][i - m] \in KidsR
        BY <4>1
      <4>3. ChJoined(ch[L], m, ch[R])[i] = ch[R][i - m]
        BY <3>1, <3>3 DEF ChJoined
      <4> HIDE DEF KidsR
      <4> QED BY <1>10, <4>2, <4>3
    <3> QED BY <3>2, <3>3
  <2> QED BY <2>1 DEF KidsB
<1>12. /\ D = D1 \cup {R} /\ T = U \cup {R} /\ R \notin D1 /\ R \in Nat \ {0}
       /\ \A x \in D1 \ {L, p} : row2[x] = row1[x]
  <2>1. \A x \in D1 \ {L, p} : row2[x] = row1[x]
    BY <1>1, <1>7
  <2> QED BY <1>2, <1>3, <1>4, <2>1
<1>13. par1[L] = p /\ ch1[p][a] = L
  <2>1. par1[L] = p
    BY <1>3, <1>4, <1>8, <1>10
  <2>2. a \in Nat
    BY <1>1, <1>4
  <2> QED BY <1>1, <1>9, <2>1, <2>2 DEF ChRemoved
<1>14. par2[R] = p /\ \A x \in D1 : par2[x] = IF x \in KidsB THEN R ELSE par1[x]
  <2>1. par2[R] = p
    <3> HIDE DEF KidsR
    <3> QED BY <1>1, <1>3, <1>4, <1>10, <1>11
  <2>2. \A x \in D1 : par2[x] = IF x \in KidsB THEN R ELSE par1[x]
    <3> HIDE DEF KidsR
    <3> QED BY <1>1, <1>8
  <2> QED BY <2>1, <2>2
<1>15. /\ Len(q) \in Nat /\ Len(row[p]) = Len(q) + 1 /\ a \in 1 .. Len(q) + 1
       /\ KeyInserted(row2[p], q, a, C[b].key)
  <2>1. /\ Len(q) \in Nat /\ Len(q) = Len(row[p]) - 1
        /\ \A j \in 1 .. a - 1 : q[j].key = row[p][j].key
        /\ \A j \in a .. Len(q) : q[j].key = row[p][j + 1].key
    BY <1>6, RowFacts DEF KeyRemoved
  <2>2. Len(row[p]) = Len(q) + 1 /\ a \in 1 .. Len(q) + 1 /\ a \in Nat
    BY <1>1, <1>4, <2>1
  <2>3. /\ row2[p] \in Rows /\ Len(row2[p]) = Len(row[p])
        /\ \A j \in 1 .. Len(row[p]) : row2[p][j].key = IF j = a THEN C[b].key ELSE row[p][j].key
    BY <1>1 DEF KeyChanged
  <2>4. ASSUME NEW j \in 1 .. a - 1 PROVE row2[p][j].key = q[j].key
    <3>1. j \in 1 .. Len(row[p]) /\ j # a
      BY <1>4, <2>2
    <3> QED BY <2>1, <2>3, <3>1
  <2>5. ASSUME NEW j \in a .. Len(q) PROVE row2[p][j + 1].key = q[j].key
    <3>1. j + 1 \in 1 .. Len(row[p]) /\ j + 1 # a
      BY <1>4, <2>1, <2>2
    <3>2. row2[p][j + 1].key = row[p][j + 1].key
      BY <2>3, <3>1
    <3> QED BY <2>1, <3>2
  <2>6. row2[p][a].key = C[b].key
    BY <1>1, <2>3
  <2>7. Len(row2[p]) = Len(q) + 1 /\ a \in 1 .. Len(row2[p])
    BY <2>2, <2>3
  <2> QED BY <2>1, <2>2, <2>3, <2>4, <2>5, <2>6, <2>7 DEF KeyInserted
<1>16. Links(row2[p], ChInserted(ch1[p], a, L, R))
  <2> DEFINE d == ChInserted(ch1[p], a, L, R)
  <2>0. a \in Nat /\ a # 0
    BY <1>1, <1>4
  <2>1. ASSUME NEW j \in Nat \ {0} PROVE d[j] = ch[p][j]
    <3>1. CASE j < a
      BY <1>9, <2>0, <3>1 DEF ChInserted, ChRemoved
    <3>2. CASE j = a
      BY <1>1, <2>0, <3>2 DEF ChInserted
    <3>3. CASE j = a + 1
      BY <1>1, <2>0, <3>3 DEF ChInserted
    <3>4. CASE j > a + 1
      <4>1. ~(j < a) /\ j # a /\ j # a + 1 /\ j - 1 \in Nat /\ ~(j - 1 <= a) /\ (j - 1) + 1 = j
        BY <2>0, <3>4
      <4>2. d[j] = ch1[p][j - 1]
        BY <4>1 DEF ChInserted
      <4>3. ChRemoved(ch[p], a)[j - 1] = ch[p][(j - 1) + 1]
        BY <4>1 DEF ChRemoved
      <4> QED BY <1>9, <4>1, <4>2, <4>3
    <3> QED BY <2>0, <3>1, <3>2, <3>3, <3>4
  <2> HIDE DEF d
  <2>2. ASSUME NEW j \in 1 .. Len(row2[p]) PROVE row2[p][j].left = d[j] /\ row2[p][j].right = d[j + 1]
    <3>1. j \in 1 .. Len(row[p])
      BY <1>1 DEF KeyChanged
    <3>2. j \in Nat \ {0} /\ j + 1 \in Nat \ {0}
      BY <1>4, <3>1
    <3>3. row2[p][j].left = row[p][j].left /\ row2[p][j].right = row[p][j].right
      BY <1>1, <3>1 DEF KeyChanged
    <3>4. row[p][j].left = ch[p][j] /\ row[p][j].right = ch[p][j + 1]
      BY <1>5, <3>1 DEF Links
    <3> QED BY <2>1, <3>2, <3>3, <3>4
  <2> QED BY <2>2 DEF Links, d
<1>17. PICK ch2, lv2, lo2, hi2 :
         /\ Shape(D, row2, par2, root, top, T, ch2, lv2, lo2, hi2)
         /\ Agree(U, lv2, lv1)
  <2>1. KidsB = {ch1[L][i] : i \in b + 1 .. Len(row1[L]) + 1}
    BY <1>7, <1>9 DEF KidsB
  <2>2. a \in 1 .. Len(row1[p]) + 1 /\ IsCut(row1[L], b, l, r) /\ p = par1[L]
        /\ row2[p] \in Rows /\ KeyInserted(row2[p], row1[p], a, row1[L][b].key)
    BY <1>1, <1>7, <1>13, <1>15 DEF KeyChanged
  <2>3. CutStep(D1, row1, par1, root, top, U, ch1, lv1, lo1, hi1, L, p, a, l, r, b, R, D, T, row2, par2)
    <3> HIDE DEF D1, U, KidsR
    <3> QED BY <1>1, <1>3, <1>9, <1>12, <1>13, <1>14, <1>16, <2>1, <2>2 DEF CutStep
  <2> HIDE DEF D1, U
  <2> QED BY <2>3, CutShape
<1>18. KeysOf(row2, T) = KeysOf(row, T)
  <2>1. KeysOf(row1, U) = KeysOf(row, T)
    <3>1. Joins(RowKeys(C), RowKeys(row[L]), RowKeys(row[R]), C[m].key)
      BY <1>1, <1>4, CutKeys
    <3>2. Adds(RowKeys(row[p]), RowKeys(q), row[p][a].key)
      <4>1. PICK s \in Rows : s = row[p]
        BY <1>4
      <4>2. a \in Nat
        BY <1>1, <1>4
      <4>3. KeyRemoved(q, s, a)
        BY <1>6, <4>1
      <4> QED BY <4>1, <4>2, <4>3, RemovedKeys
    <3>3. RowsMerged(T, L, R, p, U, row, row1, C[m].key)
      <4>1. Joins(RowKeys(row1[L]), RowKeys(row[L]), RowKeys(row[R]), C[m].key)
        BY <1>7, <3>1
      <4>2. Adds(RowKeys(row[p]), RowKeys(row1[p]), C[m].key)
        BY <1>1, <1>7, <3>2
      <4>3. \A x \in T \ {L, R, p} : row1[x] = row[x]
        BY <1>2, <1>7
      <4> QED BY <1>1, <1>3, <4>1, <4>2, <4>3 DEF RowsMerged
    <3> HIDE DEF U
    <3> QED BY <3>3, KeysMerged
  <2>2. KeysOf(row2, T) = KeysOf(row1, U)
    <3>1. Joins(RowKeys(C), RowKeys(l), RowKeys(r), C[b].key)
      BY <1>1, CutKeys
    <3>2. Adds(RowKeys(row2[p]), RowKeys(q), C[b].key)
      <4>1. a \in Nat
        BY <1>1, <1>4
      <4> QED BY <1>15, <4>1, InsertedKeys
    <3>3. RowsCut(U, L, p, R, T, row1, row2, C[b].key)
      <4>1. Joins(RowKeys(row1[L]), RowKeys(row2[L]), RowKeys(row2[R]), C[b].key)
        BY <1>1, <1>7, <3>1
      <4>2. Adds(RowKeys(row2[p]), RowKeys(row1[p]), C[b].key)
        BY <1>7, <3>2
      <4>3. \A x \in U \ {L, p} : row2[x] = row1[x]
        BY <1>2, <1>12
      <4>4. L \in U /\ p \in U /\ L # p /\ R \notin U /\ T = U \cup {R}
        BY <1>3, <1>9, <1>12
      <4> HIDE DEF U
      <4> QED BY <4>1, <4>2, <4>3, <4>4 DEF RowsCut
    <3> HIDE DEF U
    <3> QED BY <3>3, KeysCut
  <2> QED BY <2>1, <2>2
<1>19. Agree(T \ {R}, lv2, lv)
  BY <1>9, <1>17 DEF Agree
<1> QED BY <1>17, <1>18, <1>19

\* Two rows with an element between them.
Joint(C, l, x, r) == C = l \o <<x>> \o r

\* Two rows with an element between them, and where else it can be cut.
LEMMA JointRow ==
    ASSUME NEW l \in Rows, NEW r \in Rows, NEW x \in Element, NEW C, Joint(C, l, x, r)
    PROVE  /\ C \in Rows /\ Len(C) = Len(l) + 1 + Len(r) /\ C[Len(l) + 1] = x
           /\ \A j \in 1 .. Len(l) : C[j] = l[j]
           /\ \A j \in 1 .. Len(r) : C[Len(l) + 1 + j] = r[j]
           /\ IsCut(C, Len(l) + 1, l, r)
<1>1. Len(l) \in Nat /\ Len(r) \in Nat
  BY RowFacts
<1> DEFINE h == Append(l, x)
<1>2. /\ h \in Rows /\ Len(h) = Len(l) + 1 /\ h[Len(l) + 1] = x
      /\ \A j \in 1 .. Len(l) : h[j] = l[j]
  BY <1>1 DEF Rows
<1>3. l \o <<x>> = h
  BY <1>1 DEF Rows
<1> HIDE DEF h
<1>4. C = h \o r
  BY <1>3 DEF Joint
<1>5. /\ C \in Rows /\ Len(C) = Len(h) + Len(r)
      /\ \A j \in 1 .. Len(h) + Len(r) : C[j] = IF j <= Len(h) THEN h[j] ELSE r[j - Len(h)]
  <2>1. h \in Seq(Element) /\ r \in Seq(Element)
    BY <1>2 DEF Rows
  <2> QED BY <1>4, <2>1, ConcatProperties DEF Rows
<1>6. C[Len(l) + 1] = x
  <2>1. Len(l) + 1 \in 1 .. Len(h) + Len(r) /\ Len(l) + 1 <= Len(h)
    BY <1>1, <1>2
  <2> QED BY <1>2, <1>5, <2>1
<1>7. ASSUME NEW j \in 1 .. Len(l) PROVE C[j] = l[j]
  <2>1. j \in 1 .. Len(h) + Len(r) /\ j <= Len(h)
    BY <1>1, <1>2
  <2> QED BY <1>2, <1>5, <2>1
<1>8. ASSUME NEW j \in 1 .. Len(r) PROVE C[Len(l) + 1 + j] = r[j]
  <2> DEFINE k == Len(l) + 1 + j
  <2>1. k \in 1 .. Len(h) + Len(r) /\ ~(k <= Len(h)) /\ k - Len(h) = j
    BY <1>1, <1>2
  <2> HIDE DEF k
  <2>2. C[k] = r[j]
    BY <1>5, <2>1
  <2> QED BY <2>2 DEF k
<1>9. Len(C) = Len(l) + 1 + Len(r)
  BY <1>1, <1>2, <1>5
<1>10. IsCut(C, Len(l) + 1, l, r)
  <2> DEFINE m == Len(l) + 1
  <2>1. m \in 1 .. Len(C) /\ Len(l) = m - 1 /\ Len(r) = Len(C) - m
    BY <1>1, <1>9
  <2>2. \A i \in 1 .. m - 1 : l[i] = C[i]
    BY <1>7, <2>1
  <2>3. \A i \in 1 .. Len(C) - m : r[i] = C[m + i]
    BY <1>8, <2>1
  <2> HIDE DEF m
  <2>4. IsCut(C, m, l, r)
    BY <2>1, <2>2, <2>3 DEF IsCut
  <2> QED BY <2>4 DEF m
<1> QED BY <1>5, <1>6, <1>7, <1>8, <1>9, <1>10

\* The element between two rows goes to the left one; the first of the right one
\* is between them then.
LEMMA JointRight ==
    ASSUME NEW l \in Rows, NEW r \in Rows, NEW x \in Element, NEW C, Joint(C, l, x, r), r # <<>>
    PROVE  /\ Append(l, x) \in Rows /\ Tail(r) \in Rows
           /\ Len(Append(l, x)) = Len(l) + 1 /\ Len(Tail(r)) = Len(r) - 1
           /\ IsCut(C, Len(l) + 2, Append(l, x), Tail(r)) /\ C[Len(l) + 2] = r[1]
<1>1. /\ C \in Rows /\ Len(C) = Len(l) + 1 + Len(r) /\ C[Len(l) + 1] = x
      /\ \A j \in 1 .. Len(l) : C[j] = l[j]
      /\ \A j \in 1 .. Len(r) : C[Len(l) + 1 + j] = r[j]
  BY JointRow
<1>2. Len(l) \in Nat /\ Len(r) \in Nat /\ Len(r) > 0
  BY RowFacts
<1> DEFINE h == Append(l, x)
           g == Tail(r)
<1>3. /\ h \in Rows /\ Len(h) = Len(l) + 1 /\ h[Len(l) + 1] = x
      /\ \A j \in 1 .. Len(l) : h[j] = l[j]
  BY <1>2 DEF Rows
<1>4. /\ g \in Rows /\ Len(g) = Len(r) - 1 /\ \A j \in 1 .. Len(r) - 1 : g[j] = r[j + 1]
  <2>1. g \in Rows /\ Len(g) = Len(r) - 1
    BY <1>2, EmptyRow DEF Rows
  <2>2. \A j \in 1 .. Len(r) - 1 : g[j] = r[j + 1]
    BY <1>2, EmptyRow DEF Rows
  <2> QED BY <2>1, <2>2
<1> HIDE DEF h, g
<1> DEFINE m == Len(l) + 2
<1>5. m \in 1 .. Len(C) /\ Len(h) = m - 1 /\ Len(g) = Len(C) - m /\ m \in Nat /\ Len(l) = m - 2
  BY <1>1, <1>2, <1>3, <1>4
<1>6. \A i \in 1 .. m - 1 : h[i] = C[i]
  <2> TAKE i \in 1 .. m - 1
  <2>1. i \in 1 .. Len(l) \/ i = Len(l) + 1
    BY <1>2
  <2> QED BY <1>1, <1>3, <2>1
<1>7. \A i \in 1 .. Len(C) - m : g[i] = C[m + i]
  <2> TAKE i \in 1 .. Len(C) - m
  <2>1. i \in 1 .. Len(r) - 1 /\ i + 1 \in 1 .. Len(r) /\ m + i = Len(l) + 1 + (i + 1)
    BY <1>1, <1>2
  <2>2. C[Len(l) + 1 + (i + 1)] = r[i + 1]
    BY <1>1, <2>1
  <2> QED BY <1>4, <2>1, <2>2
<1>8. C[m] = r[1]
  <2>1. 1 \in 1 .. Len(r) /\ m = Len(l) + 1 + 1
    BY <1>2
  <2> QED BY <1>1, <2>1
<1>9. IsCut(C, m, h, g)
  <2> HIDE DEF m
  <2> QED BY <1>5, <1>6, <1>7 DEF IsCut
<1> QED BY <1>3, <1>4, <1>8, <1>9 DEF h, g

\* The element between two rows goes to the right one; the last of the left one
\* is between them then.
LEMMA JointLeft ==
    ASSUME NEW l \in Rows, NEW r \in Rows, NEW x \in Element, NEW C, Joint(C, l, x, r), l # <<>>
    PROVE  /\ Front(l) \in Rows /\ <<x>> \o r \in Rows
           /\ Len(Front(l)) = Len(l) - 1 /\ Len(<<x>> \o r) = Len(r) + 1
           /\ IsCut(C, Len(l), Front(l), <<x>> \o r) /\ C[Len(l)] = l[Len(l)]
<1>1. /\ C \in Rows /\ Len(C) = Len(l) + 1 + Len(r) /\ C[Len(l) + 1] = x
      /\ \A j \in 1 .. Len(l) : C[j] = l[j]
      /\ \A j \in 1 .. Len(r) : C[Len(l) + 1 + j] = r[j]
  BY JointRow
<1>2. Len(l) \in Nat /\ Len(r) \in Nat /\ Len(l) > 0
  BY RowFacts
<1> DEFINE h == Front(l)
           g == <<x>> \o r
<1>3. /\ h \in Rows /\ Len(h) = Len(l) - 1 /\ \A j \in 1 .. Len(l) - 1 : h[j] = l[j]
  <2>1. h = SubSeq(l, 1, Len(l) - 1)
    BY DEF Front
  <2> DEFINE n == Len(l) - 1
  <2>2. n \in Nat /\ n <= Len(l)
    BY <1>2
  <2>3. /\ SubSeq(l, 1, n) \in Rows /\ Len(SubSeq(l, 1, n)) = n
        /\ \A j \in 1 .. n : SubSeq(l, 1, n)[j] = l[j]
    <3> HIDE DEF n
    <3> QED BY <1>2, <2>2 DEF Rows
  <2> QED BY <2>1, <2>3
<1>4. /\ g \in Rows /\ Len(g) = Len(r) + 1 /\ g[1] = x /\ \A j \in 1 .. Len(r) : g[j + 1] = r[j]
  <2>1. /\ g \in Seq(Element) /\ Len(g) = Len(<<x>>) + Len(r)
        /\ \A j \in 1 .. Len(<<x>>) + Len(r) :
             g[j] = IF j <= Len(<<x>>) THEN <<x>>[j] ELSE r[j - Len(<<x>>)]
    <3>1. <<x>> \in Seq(Element) /\ r \in Seq(Element)
      BY DEF Rows
    <3> QED BY <3>1, ConcatProperties
  <2>2. Len(<<x>>) = 1 /\ <<x>>[1] = x
    OBVIOUS
  <2> HIDE DEF g
  <2>3. \A j \in 1 .. 1 + Len(r) : g[j] = IF j <= 1 THEN <<x>>[j] ELSE r[j - 1]
    BY <2>1, <2>2
  <2>4. g[1] = x
    BY <1>2, <2>2, <2>3
  <2>5. ASSUME NEW j \in 1 .. Len(r) PROVE g[j + 1] = r[j]
    <3>1. j + 1 \in 1 .. 1 + Len(r) /\ ~(j + 1 <= 1) /\ (j + 1) - 1 = j
      BY <1>2
    <3> QED BY <2>3, <3>1
  <2>6. Len(g) = Len(r) + 1
    BY <1>2, <2>1, <2>2
  <2> QED BY <2>1, <2>4, <2>5, <2>6 DEF Rows
<1> HIDE DEF h, g
<1> DEFINE m == Len(l)
<1>5. m \in 1 .. Len(C) /\ Len(h) = m - 1 /\ Len(g) = Len(C) - m /\ m \in Nat
  BY <1>1, <1>2, <1>3, <1>4
<1>6. \A i \in 1 .. m - 1 : h[i] = C[i]
  <2> TAKE i \in 1 .. m - 1
  <2>1. i \in 1 .. Len(l) /\ i \in 1 .. Len(l) - 1
    BY <1>2
  <2> QED BY <1>1, <1>3, <2>1
<1>7. \A i \in 1 .. Len(C) - m : g[i] = C[m + i]
  <2> TAKE i \in 1 .. Len(C) - m
  <2>1. CASE i = 1
    <3>1. m + i = Len(l) + 1
      BY <2>1
    <3> QED BY <1>1, <1>4, <2>1, <3>1
  <2>2. CASE i # 1
    <3>1. i - 1 \in 1 .. Len(r) /\ (i - 1) + 1 = i /\ m + i = Len(l) + 1 + (i - 1)
      BY <1>1, <1>2, <2>2
    <3>2. C[Len(l) + 1 + (i - 1)] = r[i - 1] /\ g[(i - 1) + 1] = r[i - 1]
      BY <1>1, <1>4, <3>1
    <3> QED BY <3>1, <3>2
  <2> QED BY <2>1, <2>2
<1>8. C[m] = l[m]
  BY <1>1, <1>2
<1>9. IsCut(C, m, h, g)
  <2> HIDE DEF m
  <2> QED BY <1>5, <1>6, <1>7 DEF IsCut
<1> QED BY <1>3, <1>4, <1>8, <1>9 DEF h, g

\* A row with another key at an element.
KeySet(s, i, k) == [s EXCEPT ![i].key = k]

\* Setting a key changes nothing else in the row.
LEMMA KeySetFacts ==
    ASSUME NEW s \in Rows, NEW i \in 1 .. Len(s), NEW k \in Nat
    PROVE  /\ KeyChanged(KeySet(s, i, k), s, i, k)
           /\ KeySet(s, i, k)[i] = [key |-> k, left |-> s[i].left, right |-> s[i].right]
           /\ \A j \in 1 .. Len(s) : j # i => KeySet(s, i, k)[j] = s[j]
<1>1. Len(s) \in Nat /\ s \in [1 .. Len(s) -> Element]
  BY RowFacts DEF Rows
<1> DEFINE q == KeySet(s, i, k)
<1>2. q = [s EXCEPT ![i] = [s[i] EXCEPT !.key = k]]
  BY DEF KeySet
<1>3. [s[i] EXCEPT !.key = k] = [key |-> k, left |-> s[i].left, right |-> s[i].right]
  BY <1>1 DEF Element
<1>4. s[i].left \in Nat /\ s[i].right \in Nat
  BY <1>1 DEF Element
<1>5. PICK e \in Element : e = [key |-> k, left |-> s[i].left, right |-> s[i].right]
  BY <1>4 DEF Element
<1>6. q = [s EXCEPT ![i] = e]
  BY <1>2, <1>3, <1>5
<1> HIDE DEF q
<1>7. q \in [1 .. Len(s) -> Element]
  BY <1>1, <1>6
<1>8. q \in Rows /\ Len(q) = Len(s)
  BY <1>1, <1>7 DEF Rows
<1>9. q[i] = e /\ \A j \in 1 .. Len(s) : j # i => q[j] = s[j]
  BY <1>1, <1>6
<1>10. e.key = k /\ e.left = s[i].left /\ e.right = s[i].right
  BY <1>5
<1>11. \A j \in 1 .. Len(s) : /\ q[j].key = IF j = i THEN k ELSE s[j].key
                              /\ q[j].left = s[j].left /\ q[j].right = s[j].right
  BY <1>9, <1>10
<1> QED BY <1>5, <1>8, <1>9, <1>11 DEF KeyChanged, q

\* SwapElement
Swapped(u, t, p, i, n, j) ==
    /\ IsTree(u) /\ DOMAIN u.nodes = DOMAIN t.nodes /\ u.root = t.root
    /\ RowOf(u)[p] = KeySet(RowOf(t)[p], i, RowOf(t)[n][j].key)
    /\ RowOf(u)[n] = KeySet(RowOf(t)[n], j, RowOf(t)[p][i].key)
    /\ \A x \in DOMAIN t.nodes \ {p, n} : RowOf(u)[x] = RowOf(t)[x]
    /\ \A x \in DOMAIN t.nodes : ParOf(u)[x] = ParOf(t)[x]

\* SwapElement swaps the keys of two elements of different nodes.
LEMMA SwapFacts ==
    ASSUME NEW t, IsTree(t), NEW p \in DOMAIN t.nodes, NEW n \in DOMAIN t.nodes, p # n,
           NEW i \in 1 .. Len(RowOf(t)[p]), NEW j \in 1 .. Len(RowOf(t)[n]),
           NEW x, x.node = p, x.at = i, NEW y, y.node = n, y.at = j
    PROVE  Swapped(SwapElement(t, x, y), t, p, i, n, j)
<1> DEFINE D == DOMAIN t.nodes
           row == RowOf(t)
           s == KeySet(row[p], i, row[n][j].key)
           r == KeySet(row[n], j, row[p][i].key)
           v == SetElems(t, p, s)
           w == SetElems(v, n, r)
<1>1. /\ row[p] \in Rows /\ row[n] \in Rows
      /\ t.nodes[p].elems = row[p] /\ t.nodes[n].elems = row[n]
  BY TreeFields
<1>2. row[p][i].key \in Nat /\ row[n][j].key \in Nat
  BY <1>1, RowFacts
<1>3. s \in Rows /\ r \in Rows
  <2>1. PICK a \in Rows, b \in Rows, k \in Nat, l \in Nat :
           a = row[p] /\ b = row[n] /\ k = row[p][i].key /\ l = row[n][j].key
    BY <1>1, <1>2
  <2>2. KeyChanged(KeySet(a, i, l), a, i, l)
    BY <2>1, KeySetFacts
  <2>3. KeyChanged(KeySet(b, j, k), b, j, k)
    BY <2>1, KeySetFacts
  <2> QED BY <2>1, <2>2, <2>3 DEF KeyChanged
<1>4. SwapElement(t, x, y) = w
  <2>1. SwapElement(t, x, y) =
          [[t EXCEPT !.nodes[p].elems[i].key = row[n][j].key]
             EXCEPT !.nodes[n].elems[j].key = row[p][i].key]
    BY <1>1 DEF SwapElement
  <2>2. [t EXCEPT !.nodes[p].elems[i].key = row[n][j].key] = v
    BY <1>1 DEF SetElems, KeySet
  <2>3. v.nodes[n].elems = row[n]
    <3>1. v.nodes[n] = t.nodes[n]
      BY DEF SetElems, IsTree
    <3> QED BY <1>1, <3>1
  <2>4. [v EXCEPT !.nodes[n].elems[j].key = row[p][i].key] = w
    <3> HIDE DEF v
    <3> QED BY <2>3 DEF SetElems, KeySet
  <2> QED BY <2>1, <2>2, <2>4
<1> HIDE DEF s, r, row
<1>5. /\ IsTree(v) /\ DOMAIN v.nodes = D /\ v.root = t.root
      /\ RowOf(v)[p] = s
      /\ \A z \in D \ {p} : RowOf(v)[z] = row[z]
      /\ \A z \in D : ParOf(v)[z] = ParOf(t)[z]
  BY <1>3, ElemsFacts DEF row
<1> HIDE DEF v
<1>6. /\ IsTree(w) /\ DOMAIN w.nodes = D /\ w.root = v.root
      /\ RowOf(w)[n] = r
      /\ \A z \in D \ {n} : RowOf(w)[z] = RowOf(v)[z]
      /\ \A z \in D : ParOf(w)[z] = ParOf(v)[z]
  <2>1. n \in DOMAIN v.nodes /\ D = DOMAIN v.nodes
    BY <1>5
  <2> HIDE DEF D
  <2> QED BY <1>3, <1>5, <2>1, ElemsFacts
<1> HIDE DEF w
<1>7. RowOf(w)[p] = s /\ \A z \in D \ {p, n} : RowOf(w)[z] = row[z]
  BY <1>5, <1>6
<1>8. Swapped(w, t, p, i, n, j)
  BY <1>5, <1>6, <1>7 DEF Swapped, s, r, row
<1> QED BY <1>4, <1>8

\* Two siblings and the element between them, and what would move.
Brothers(t, p, i, L, R, mv) ==
    /\ IsTree(t) /\ p \in DOMAIN t.nodes /\ L \in DOMAIN t.nodes /\ R \in DOMAIN t.nodes
    /\ p # L /\ p # R /\ L # R /\ p \in Nat /\ L \in Nat /\ R \in Nat
    /\ i \in 1 .. Len(RowOf(t)[p]) /\ RowOf(t)[p][i].left = L /\ RowOf(t)[p][i].right = R
    /\ RowOf(t)[L] # <<>> /\ RowOf(t)[R] # <<>>
    /\ mv = [key |-> RowOf(t)[p][i].key, left |-> RowOf(t)[L][Len(RowOf(t)[L])].right,
             right |-> RowOf(t)[R][1].left]

\* What borrowing makes of the tree.
Borrowed(u, t, p, L, R, s, l, r, c, n) ==
    /\ IsTree(u) /\ DOMAIN u.nodes = DOMAIN t.nodes /\ u.root = t.root
    /\ RowOf(u)[p] = s /\ RowOf(u)[L] = l /\ RowOf(u)[R] = r
    /\ \A x \in DOMAIN t.nodes \ {p, L, R} : RowOf(u)[x] = RowOf(t)[x]
    /\ \A x \in DOMAIN t.nodes : ParOf(u)[x] = IF x = c THEN n ELSE ParOf(t)[x]

\* Handed gives one child, if there is one, another parent.
LEMMA HandedFacts ==
    ASSUME NEW t, IsTree(t), 0 \notin DOMAIN t.nodes, NEW c, c = 0 \/ c \in DOMAIN t.nodes, NEW n \in Nat
    PROVE  LET u == Handed(t, c, n) IN
           /\ IsTree(u) /\ DOMAIN u.nodes = DOMAIN t.nodes /\ u.root = t.root
           /\ \A x \in DOMAIN t.nodes : RowOf(u)[x] = RowOf(t)[x]
           /\ \A x \in DOMAIN t.nodes : ParOf(u)[x] = IF x = c THEN n ELSE ParOf(t)[x]
<1> DEFINE u == Handed(t, c, n)
<1>1. CASE c = 0
  BY <1>1 DEF Handed, NoNode
<1>2. CASE c # 0
  <2>1. c \in DOMAIN t.nodes
    BY <1>2
  <2>2. u = SetParent(t, c, n)
    BY <1>2 DEF Handed, NoNode, SetParent
  <2>3. /\ IsTree(u) /\ DOMAIN u.nodes = DOMAIN t.nodes /\ u.root = t.root /\ ParOf(u)[c] = n
        /\ \A x \in DOMAIN t.nodes \ {c} : ParOf(u)[x] = ParOf(t)[x]
        /\ \A x \in DOMAIN t.nodes : RowOf(u)[x] = RowOf(t)[x]
    <3> HIDE DEF u
    <3> QED BY <2>1, <2>2, ParentFacts
  <2> QED BY <2>3
<1> QED BY <1>1, <1>2

\* The rest of a row does not tell that the key of its end has changed.
LEMMA KeySetTail ==
    ASSUME NEW s \in Rows, s # <<>>, NEW k \in Nat
    PROVE  Tail(KeySet(s, 1, k)) = Tail(s) /\ Front(KeySet(s, Len(s), k)) = Front(s)
<1>1. Len(s) \in Nat /\ Len(s) > 0 /\ 1 \in 1 .. Len(s) /\ Len(s) \in 1 .. Len(s)
  BY RowFacts
<1> DEFINE a == KeySet(s, 1, k)
           b == KeySet(s, Len(s), k)
<1>2. /\ a \in Rows /\ Len(a) = Len(s) /\ \A j \in 1 .. Len(s) : j # 1 => a[j] = s[j]
      /\ b \in Rows /\ Len(b) = Len(s) /\ \A j \in 1 .. Len(s) : j # Len(s) => b[j] = s[j]
  <2>1. KeyChanged(a, s, 1, k) /\ \A j \in 1 .. Len(s) : j # 1 => a[j] = s[j]
    BY <1>1, KeySetFacts
  <2>2. KeyChanged(b, s, Len(s), k) /\ \A j \in 1 .. Len(s) : j # Len(s) => b[j] = s[j]
    BY <1>1, KeySetFacts
  <2> HIDE DEF a, b
  <2> QED BY <2>1, <2>2 DEF KeyChanged
<1> HIDE DEF a, b
<1>3. Tail(a) = Tail(s)
  <2>1. a # <<>> /\ a \in Seq(Element) /\ s \in Seq(Element)
    BY <1>1, <1>2 DEF Rows
  <2>2. /\ Tail(a) \in Seq(Element) /\ Tail(s) \in Seq(Element)
        /\ Len(Tail(a)) = Len(s) - 1 /\ Len(Tail(s)) = Len(s) - 1
    BY <1>2, <2>1, HeadTailProperties
  <2>3. \A j \in 1 .. Len(s) - 1 : Tail(a)[j] = Tail(s)[j]
    <3> TAKE j \in 1 .. Len(s) - 1
    <3>1. j + 1 \in 1 .. Len(s) /\ j + 1 # 1
      BY <1>1
    <3>2. Tail(a)[j] = a[j + 1] /\ Tail(s)[j] = s[j + 1]
      BY <1>2, <2>1, HeadTailProperties
    <3> QED BY <1>2, <3>1, <3>2
  <2> QED BY <2>2, <2>3, SeqEqual
<1>4. Front(b) = Front(s)
  BY <1>1, <1>2 DEF Front
<1> QED BY <1>3, <1>4 DEF a, b

\* BorrowRight, row by row.
LEMMA BorrowRightRun ==
    ASSUME NEW t, NEW p, NEW i, NEW L, NEW R, NEW mv, Brothers(t, p, i, L, R, mv),
           0 \notin DOMAIN t.nodes, mv.right = 0 \/ mv.right \in DOMAIN t.nodes, mv \in Element
    PROVE  Borrowed(BorrowRight(t, p, i), t, p, L, R,
                    KeySet(RowOf(t)[p], i, RowOf(t)[R][1].key), Append(RowOf(t)[L], mv), Tail(RowOf(t)[R]),
                    mv.right, L)
<1> DEFINE D == DOMAIN t.nodes
           row == RowOf(t)
           e == t.nodes[p].elems[i]
           x == [node |-> p, at |-> i]
           y == [node |-> R, at |-> 1]
           u == SwapElement(t, x, y)
           first == Head(u.nodes[R].elems)
           w == SetElems(u, R, Tail(row[R]))
           v == SetElems(w, L, Append(row[L], mv))
<1>1. /\ IsTree(t) /\ p \in D /\ L \in D /\ R \in D /\ p # L /\ p # R /\ L # R /\ L \in Nat
      /\ i \in 1 .. Len(row[p]) /\ row[p][i].left = L /\ row[p][i].right = R
      /\ row[L] # <<>> /\ row[R] # <<>>
      /\ mv = [key |-> row[p][i].key, left |-> row[L][Len(row[L])].right, right |-> row[R][1].left]
  BY DEF Brothers
<1>2. /\ row[p] \in Rows /\ row[L] \in Rows /\ row[R] \in Rows
      /\ t.nodes[p].elems = row[p] /\ t.nodes[L].elems = row[L] /\ t.nodes[R].elems = row[R]
  BY <1>1, TreeFields
<1>3. /\ Len(row[R]) \in Nat /\ 1 \in 1 .. Len(row[R]) /\ row[R][1] \in Element
      /\ row[p][i].key \in Nat /\ e = row[p][i]
  <2>1. PICK s, r : s \in Rows /\ r \in Rows /\ s = row[p] /\ r = row[R] /\ r # <<>> /\ i \in 1 .. Len(s)
    BY <1>1, <1>2
  <2> HIDE DEF row
  <2>2. Len(r) \in Nat /\ 1 \in 1 .. Len(r) /\ r[1] \in Element /\ s[i].key \in Nat
    BY <2>1, RowFacts
  <2> QED BY <1>2, <2>1, <2>2
<1>4. Swapped(u, t, p, i, R, 1)
  <2>1. x.node = p /\ x.at = i /\ y.node = R /\ y.at = 1
    OBVIOUS
  <2> HIDE DEF x, y
  <2> QED BY <1>1, <1>3, <2>1, SwapFacts
<1> HIDE DEF u, row
<1>5. /\ IsTree(u) /\ DOMAIN u.nodes = D /\ u.root = t.root
      /\ RowOf(u)[p] = KeySet(row[p], i, row[R][1].key)
      /\ RowOf(u)[R] = KeySet(row[R], 1, row[p][i].key)
      /\ \A z \in D \ {p, R} : RowOf(u)[z] = row[z]
      /\ \A z \in D : ParOf(u)[z] = ParOf(t)[z]
  BY <1>4 DEF Swapped, row
<1>6. u.nodes[R].elems = KeySet(row[R], 1, row[p][i].key) /\ u.nodes[L].elems = row[L]
  <2>1. R \in DOMAIN u.nodes /\ L \in DOMAIN u.nodes /\ L \in D \ {p, R}
    BY <1>1, <1>5
  <2>2. u.nodes[R].elems = RowOf(u)[R] /\ u.nodes[L].elems = RowOf(u)[L]
    BY <1>5, <2>1, TreeFields
  <2> QED BY <1>5, <2>1, <2>2
<1>7. /\ first = [key |-> row[p][i].key, left |-> row[R][1].left, right |-> row[R][1].right]
      /\ Tail(u.nodes[R].elems) = Tail(row[R])
  <2>1. KeySet(row[R], 1, row[p][i].key)[1] =
          [key |-> row[p][i].key, left |-> row[R][1].left, right |-> row[R][1].right]
    BY <1>2, <1>3, KeySetFacts
  <2>2. Tail(KeySet(row[R], 1, row[p][i].key)) = Tail(row[R])
    BY <1>1, <1>2, <1>3, KeySetTail
  <2> QED BY <1>6, <2>1, <2>2
<1>8. [first EXCEPT !.left = Last(t.nodes[L].elems).right, !.right = first.left] = mv
  <2>1. Last(t.nodes[L].elems).right = row[L][Len(row[L])].right
    BY <1>2 DEF Last
  <2> HIDE DEF first
  <2>2. first \in Element /\ first.key = row[p][i].key /\ first.left = row[R][1].left
    BY <1>3, <1>7 DEF Element
  <2>3. [first EXCEPT !.left = Last(t.nodes[L].elems).right, !.right = first.left] =
          [key |-> first.key, left |-> Last(t.nodes[L].elems).right, right |-> first.left]
    BY <2>2, Relinked
  <2> QED BY <1>1, <2>1, <2>2, <2>3
<1>9. Append(row[L], mv) \in Rows /\ Tail(row[R]) \in Rows
  <2>1. PICK l, r : l \in Rows /\ r \in Rows /\ l = row[L] /\ r = row[R] /\ r # <<>>
    BY <1>1, <1>2
  <2>2. Joint(l \o <<mv>> \o r, l, mv, r)
    BY DEF Joint
  <2>3. Append(l, mv) \in Rows /\ Tail(r) \in Rows
    BY <2>1, <2>2, JointRight
  <2> QED BY <2>1, <2>3
<1>10. [u EXCEPT !.nodes[R].elems = Tail(@), !.nodes[L].elems = Append(@, mv)] = v
  <2>1. [u EXCEPT !.nodes[R].elems = Tail(@)] = w
    BY <1>7 DEF SetElems
  <2>2. [u EXCEPT !.nodes[R].elems = Tail(@), !.nodes[L].elems = Append(@, mv)] =
          [w EXCEPT !.nodes[L].elems = Append(u.nodes[L].elems, mv)]
    BY <2>1
  <2>3. [w EXCEPT !.nodes[L].elems = Append(u.nodes[L].elems, mv)] = v
    <3> HIDE DEF w
    <3> QED BY <1>6 DEF SetElems
  <2> QED BY <2>2, <2>3
<1>11. BorrowRight(t, p, i) = Handed(v, mv.right, L)
  <2>1. e.left = L /\ e.right = R
    BY <1>1, <1>3
  <2> HIDE DEF v, e, w
  <2> QED BY <1>8, <1>10, <2>1 DEF BorrowRight, first, u, x, y, e
<1> HIDE DEF w, first
<1>12. /\ IsTree(w) /\ DOMAIN w.nodes = D /\ w.root = t.root
       /\ RowOf(w)[p] = KeySet(row[p], i, row[R][1].key)
       /\ RowOf(w)[R] = Tail(row[R])
       /\ \A z \in D \ {p, R} : RowOf(w)[z] = row[z]
       /\ \A z \in D : ParOf(w)[z] = ParOf(t)[z]
  <2>1. /\ IsTree(w) /\ DOMAIN w.nodes = DOMAIN u.nodes /\ w.root = u.root
        /\ RowOf(w)[R] = Tail(row[R])
        /\ \A z \in DOMAIN u.nodes \ {R} : RowOf(w)[z] = RowOf(u)[z]
        /\ \A z \in DOMAIN u.nodes : ParOf(w)[z] = ParOf(u)[z]
    <3>1. R \in DOMAIN u.nodes
      BY <1>1, <1>5
    <3> QED BY <1>5, <1>9, <3>1, ElemsFacts DEF w
  <2> HIDE DEF D
  <2> QED BY <1>1, <1>5, <2>1
<1>13. /\ IsTree(v) /\ DOMAIN v.nodes = D /\ v.root = t.root
       /\ RowOf(v)[p] = KeySet(row[p], i, row[R][1].key)
       /\ RowOf(v)[R] = Tail(row[R]) /\ RowOf(v)[L] = Append(row[L], mv)
       /\ \A z \in D \ {p, L, R} : RowOf(v)[z] = row[z]
       /\ \A z \in D : ParOf(v)[z] = ParOf(t)[z]
  <2>1. /\ IsTree(v) /\ DOMAIN v.nodes = DOMAIN w.nodes /\ v.root = w.root
        /\ RowOf(v)[L] = Append(row[L], mv)
        /\ \A z \in DOMAIN w.nodes \ {L} : RowOf(v)[z] = RowOf(w)[z]
        /\ \A z \in DOMAIN w.nodes : ParOf(v)[z] = ParOf(w)[z]
    <3>1. L \in DOMAIN w.nodes
      BY <1>1, <1>12
    <3>2. PICK a, s : a = w /\ s = Append(row[L], mv)
      OBVIOUS
    <3>3. IsTree(a) /\ L \in DOMAIN a.nodes /\ s \in Rows /\ v = SetElems(a, L, s)
      BY <1>9, <1>12, <3>1, <3>2
    <3>4. /\ IsTree(SetElems(a, L, s)) /\ DOMAIN SetElems(a, L, s).nodes = DOMAIN a.nodes
          /\ SetElems(a, L, s).root = a.root /\ RowOf(SetElems(a, L, s))[L] = s
          /\ \A z \in DOMAIN a.nodes \ {L} : RowOf(SetElems(a, L, s))[z] = RowOf(a)[z]
          /\ \A z \in DOMAIN a.nodes : ParOf(SetElems(a, L, s))[z] = ParOf(a)[z]
      <4> HIDE DEF v, D
      <4> QED BY <3>3, ElemsFacts
    <3> HIDE DEF v, D
    <3> QED BY <3>2, <3>3, <3>4
  <2> HIDE DEF D, v
  <2> QED BY <1>1, <1>12, <2>1
<1> HIDE DEF v
<1>14. /\ IsTree(Handed(v, mv.right, L)) /\ DOMAIN Handed(v, mv.right, L).nodes = D
       /\ Handed(v, mv.right, L).root = t.root
       /\ \A z \in D : RowOf(Handed(v, mv.right, L))[z] = RowOf(v)[z]
       /\ \A z \in D : ParOf(Handed(v, mv.right, L))[z] = IF z = mv.right THEN L ELSE ParOf(v)[z]
  <2>1. 0 \notin DOMAIN v.nodes /\ (mv.right = 0 \/ mv.right \in DOMAIN v.nodes)
    BY <1>13
  <2>2. /\ IsTree(Handed(v, mv.right, L)) /\ DOMAIN Handed(v, mv.right, L).nodes = DOMAIN v.nodes
        /\ Handed(v, mv.right, L).root = v.root
        /\ \A z \in DOMAIN v.nodes : RowOf(Handed(v, mv.right, L))[z] = RowOf(v)[z]
        /\ \A z \in DOMAIN v.nodes :
             ParOf(Handed(v, mv.right, L))[z] = IF z = mv.right THEN L ELSE ParOf(v)[z]
    <3>1. IsTree(v) /\ L \in Nat
      BY <1>1, <1>13
    <3>2. PICK c : c = mv.right
      OBVIOUS
    <3> QED BY <2>1, <3>1, <3>2, HandedFacts
  <2> QED BY <1>13, <2>2
<1> QED BY <1>1, <1>11, <1>13, <1>14 DEF Borrowed, row

\* BorrowLeft, row by row.
LEMMA BorrowLeftRun ==
    ASSUME NEW t, NEW p, NEW i, NEW L, NEW R, NEW mv, Brothers(t, p, i, L, R, mv),
           0 \notin DOMAIN t.nodes, mv.left = 0 \/ mv.left \in DOMAIN t.nodes, mv \in Element
    PROVE  Borrowed(BorrowLeft(t, p, i), t, p, L, R,
                    KeySet(RowOf(t)[p], i, RowOf(t)[L][Len(RowOf(t)[L])].key), Front(RowOf(t)[L]),
                    <<mv>> \o RowOf(t)[R], mv.left, R)
<1> DEFINE D == DOMAIN t.nodes
           row == RowOf(t)
           e == t.nodes[p].elems[i]
           n == Len(row[L])
           x == [node |-> p, at |-> i]
           y == [node |-> L, at |-> n]
           u == SwapElement(t, x, y)
           last == Last(u.nodes[L].elems)
           w == SetElems(u, L, Front(row[L]))
           v == SetElems(w, R, <<mv>> \o row[R])
<1>1. /\ IsTree(t) /\ p \in D /\ L \in D /\ R \in D /\ p # L /\ p # R /\ L # R /\ R \in Nat
      /\ i \in 1 .. Len(row[p]) /\ row[p][i].left = L /\ row[p][i].right = R
      /\ row[L] # <<>> /\ row[R] # <<>>
      /\ mv = [key |-> row[p][i].key, left |-> row[L][n].right, right |-> row[R][1].left]
  BY DEF Brothers
<1>2. /\ row[p] \in Rows /\ row[L] \in Rows /\ row[R] \in Rows
      /\ t.nodes[p].elems = row[p] /\ t.nodes[L].elems = row[L] /\ t.nodes[R].elems = row[R]
  BY <1>1, TreeFields
<1>3. /\ n \in Nat /\ n \in 1 .. Len(row[L]) /\ row[L][n] \in Element
      /\ row[p][i].key \in Nat /\ e = row[p][i]
  <2>1. PICK s, r : s \in Rows /\ r \in Rows /\ s = row[p] /\ r = row[L] /\ r # <<>> /\ i \in 1 .. Len(s)
    BY <1>1, <1>2
  <2> HIDE DEF row
  <2>2. Len(r) \in Nat /\ Len(r) \in 1 .. Len(r) /\ r[Len(r)] \in Element /\ s[i].key \in Nat
    BY <2>1, RowFacts
  <2> QED BY <1>2, <2>1, <2>2
<1>4. Swapped(u, t, p, i, L, n)
  <2>1. x.node = p /\ x.at = i /\ y.node = L /\ y.at = n
    OBVIOUS
  <2> HIDE DEF x, y, n
  <2> QED BY <1>1, <1>3, <2>1, SwapFacts
<1> HIDE DEF u, row
<1>5. /\ IsTree(u) /\ DOMAIN u.nodes = D /\ u.root = t.root
      /\ RowOf(u)[p] = KeySet(row[p], i, row[L][n].key)
      /\ RowOf(u)[L] = KeySet(row[L], n, row[p][i].key)
      /\ \A z \in D \ {p, L} : RowOf(u)[z] = row[z]
      /\ \A z \in D : ParOf(u)[z] = ParOf(t)[z]
  BY <1>4 DEF Swapped, row
<1>6. u.nodes[L].elems = KeySet(row[L], n, row[p][i].key) /\ u.nodes[R].elems = row[R]
  <2>1. R \in DOMAIN u.nodes /\ L \in DOMAIN u.nodes /\ R \in D \ {p, L}
    BY <1>1, <1>5
  <2>2. u.nodes[R].elems = RowOf(u)[R] /\ u.nodes[L].elems = RowOf(u)[L]
    BY <1>5, <2>1, TreeFields
  <2> QED BY <1>5, <2>1, <2>2
<1>7. /\ last = [key |-> row[p][i].key, left |-> row[L][n].left, right |-> row[L][n].right]
      /\ Front(u.nodes[L].elems) = Front(row[L])
  <2>1. /\ KeySet(row[L], n, row[p][i].key)[n] =
             [key |-> row[p][i].key, left |-> row[L][n].left, right |-> row[L][n].right]
        /\ Len(KeySet(row[L], n, row[p][i].key)) = n
    BY <1>2, <1>3, KeySetFacts DEF KeyChanged
  <2>2. Front(KeySet(row[L], n, row[p][i].key)) = Front(row[L])
    BY <1>1, <1>2, <1>3, KeySetTail
  <2> HIDE DEF n
  <2> QED BY <1>6, <2>1, <2>2 DEF Last
<1>8. [last EXCEPT !.left = last.right, !.right = t.nodes[R].elems[1].left] = mv
  <2> HIDE DEF last
  <2>1. last \in Element /\ last.key = row[p][i].key /\ last.right = row[L][n].right
    BY <1>3, <1>7 DEF Element
  <2>2. [last EXCEPT !.left = last.right, !.right = t.nodes[R].elems[1].left] =
          [key |-> last.key, left |-> last.right, right |-> t.nodes[R].elems[1].left]
    <3>1. PICK g, a, b : g = last /\ a = last.right /\ b = t.nodes[R].elems[1].left
      OBVIOUS
    <3>2. g \in Element
      BY <2>1, <3>1
    <3>3. [g EXCEPT !.left = a, !.right = b] = [key |-> g.key, left |-> a, right |-> b]
      BY <3>2, Relinked
    <3> QED BY <3>1, <3>3
  <2> QED BY <1>1, <1>2, <2>1, <2>2
<1>9. Front(row[L]) \in Rows /\ <<mv>> \o row[R] \in Rows
  <2>1. PICK l, r : l \in Rows /\ r \in Rows /\ l = row[L] /\ r = row[R] /\ l # <<>>
    BY <1>1, <1>2
  <2>2. Joint(l \o <<mv>> \o r, l, mv, r)
    BY DEF Joint
  <2>3. Front(l) \in Rows /\ <<mv>> \o r \in Rows
    BY <2>1, <2>2, JointLeft
  <2> QED BY <2>1, <2>3
<1>10. [u EXCEPT !.nodes[L].elems = Front(@), !.nodes[R].elems = <<mv>> \o @] = v
  <2>1. [u EXCEPT !.nodes[L].elems = Front(@)] = w
    BY <1>7 DEF SetElems
  <2>2. [u EXCEPT !.nodes[L].elems = Front(@), !.nodes[R].elems = <<mv>> \o @] =
          [w EXCEPT !.nodes[R].elems = <<mv>> \o u.nodes[R].elems]
    BY <2>1
  <2>3. [w EXCEPT !.nodes[R].elems = <<mv>> \o u.nodes[R].elems] = v
    <3> HIDE DEF w
    <3> QED BY <1>6 DEF SetElems
  <2> QED BY <2>2, <2>3
<1>11. BorrowLeft(t, p, i) = Handed(v, mv.left, R)
  <2>1. e.left = L /\ e.right = R /\ Len(t.nodes[L].elems) = n
    BY <1>1, <1>2, <1>3
  <2> HIDE DEF v, e, w, n
  <2> QED BY <1>8, <1>10, <2>1 DEF BorrowLeft, last, u, x, y, e
<1> HIDE DEF w, last
<1>12. /\ IsTree(w) /\ DOMAIN w.nodes = D /\ w.root = t.root
       /\ RowOf(w)[p] = KeySet(row[p], i, row[L][n].key)
       /\ RowOf(w)[L] = Front(row[L])
       /\ \A z \in D \ {p, L} : RowOf(w)[z] = row[z]
       /\ \A z \in D : ParOf(w)[z] = ParOf(t)[z]
  <2>1. /\ IsTree(w) /\ DOMAIN w.nodes = DOMAIN u.nodes /\ w.root = u.root
        /\ RowOf(w)[L] = Front(row[L])
        /\ \A z \in DOMAIN u.nodes \ {L} : RowOf(w)[z] = RowOf(u)[z]
        /\ \A z \in DOMAIN u.nodes : ParOf(w)[z] = ParOf(u)[z]
    <3>1. L \in DOMAIN u.nodes
      BY <1>1, <1>5
    <3> QED BY <1>5, <1>9, <3>1, ElemsFacts DEF w
  <2> HIDE DEF D
  <2> QED BY <1>1, <1>5, <2>1
<1>13. /\ IsTree(v) /\ DOMAIN v.nodes = D /\ v.root = t.root
       /\ RowOf(v)[p] = KeySet(row[p], i, row[L][n].key)
       /\ RowOf(v)[L] = Front(row[L]) /\ RowOf(v)[R] = <<mv>> \o row[R]
       /\ \A z \in D \ {p, L, R} : RowOf(v)[z] = row[z]
       /\ \A z \in D : ParOf(v)[z] = ParOf(t)[z]
  <2>1. /\ IsTree(v) /\ DOMAIN v.nodes = DOMAIN w.nodes /\ v.root = w.root
        /\ RowOf(v)[R] = <<mv>> \o row[R]
        /\ \A z \in DOMAIN w.nodes \ {R} : RowOf(v)[z] = RowOf(w)[z]
        /\ \A z \in DOMAIN w.nodes : ParOf(v)[z] = ParOf(w)[z]
    <3>1. R \in DOMAIN w.nodes
      BY <1>1, <1>12
    <3>2. PICK a, s : a = w /\ s = <<mv>> \o row[R]
      OBVIOUS
    <3>3. IsTree(a) /\ R \in DOMAIN a.nodes /\ s \in Rows /\ v = SetElems(a, R, s)
      BY <1>9, <1>12, <3>1, <3>2
    <3>4. /\ IsTree(SetElems(a, R, s)) /\ DOMAIN SetElems(a, R, s).nodes = DOMAIN a.nodes
          /\ SetElems(a, R, s).root = a.root /\ RowOf(SetElems(a, R, s))[R] = s
          /\ \A z \in DOMAIN a.nodes \ {R} : RowOf(SetElems(a, R, s))[z] = RowOf(a)[z]
          /\ \A z \in DOMAIN a.nodes : ParOf(SetElems(a, R, s))[z] = ParOf(a)[z]
      <4> HIDE DEF v, D
      <4> QED BY <3>3, ElemsFacts
    <3> HIDE DEF v, D
    <3> QED BY <3>2, <3>3, <3>4
  <2> HIDE DEF D, v
  <2> QED BY <1>1, <1>12, <2>1
<1> HIDE DEF v
<1>14. /\ IsTree(Handed(v, mv.left, R)) /\ DOMAIN Handed(v, mv.left, R).nodes = D
       /\ Handed(v, mv.left, R).root = t.root
       /\ \A z \in D : RowOf(Handed(v, mv.left, R))[z] = RowOf(v)[z]
       /\ \A z \in D : ParOf(Handed(v, mv.left, R))[z] = IF z = mv.left THEN R ELSE ParOf(v)[z]
  <2>1. 0 \notin DOMAIN v.nodes /\ (mv.left = 0 \/ mv.left \in DOMAIN v.nodes)
    BY <1>13
  <2>2. /\ IsTree(Handed(v, mv.left, R)) /\ DOMAIN Handed(v, mv.left, R).nodes = DOMAIN v.nodes
        /\ Handed(v, mv.left, R).root = v.root
        /\ \A z \in DOMAIN v.nodes : RowOf(Handed(v, mv.left, R))[z] = RowOf(v)[z]
        /\ \A z \in DOMAIN v.nodes :
             ParOf(Handed(v, mv.left, R))[z] = IF z = mv.left THEN R ELSE ParOf(v)[z]
    <3>1. IsTree(v) /\ R \in Nat
      BY <1>1, <1>13
    <3>2. PICK c : c = mv.left
      OBVIOUS
    <3> QED BY <2>1, <3>1, <3>2, HandedFacts
  <2> QED BY <1>13, <2>2
<1> DEFINE z == Handed(v, mv.left, R)
<1>15. IsTree(z) /\ DOMAIN z.nodes = DOMAIN t.nodes /\ z.root = t.root
  BY <1>14
<1>16. /\ RowOf(z)[p] = KeySet(row[p], i, row[L][n].key)
       /\ RowOf(z)[L] = Front(row[L]) /\ RowOf(z)[R] = <<mv>> \o row[R]
  BY <1>1, <1>13, <1>14
<1>17. \A m \in DOMAIN t.nodes \ {p, L, R} : RowOf(z)[m] = row[m]
  BY <1>13, <1>14
<1>18. \A m \in DOMAIN t.nodes : ParOf(z)[m] = IF m = mv.left THEN R ELSE ParOf(t)[m]
  BY <1>13, <1>14
<1> HIDE DEF z
<1>19. BorrowLeft(t, p, i) = z
  BY <1>11 DEF z
<1> QED BY <1>15, <1>16, <1>17, <1>18, <1>19 DEF Borrowed, row

\* What a merge makes of the tree.
Merged(u, t, p, L, R, q, C) ==
    /\ IsTree(u) /\ DOMAIN u.nodes = DOMAIN t.nodes \ {R} /\ u.root = t.root
    /\ RowOf(u)[p] = q /\ RowOf(u)[L] = C
    /\ \A x \in DOMAIN t.nodes \ {p, L, R} : RowOf(u)[x] = RowOf(t)[x]
    /\ \A x \in DOMAIN t.nodes \ {R} :
         ParOf(u)[x] = IF x \in KidsOf(RowOf(t)[R]) THEN L ELSE ParOf(t)[x]

\* The parent of the brothers, without the element between them.
MergedRow(s, i, L) ==
    LET rest == RemoveAt(s, i) IN IF i > Len(rest) THEN rest ELSE [rest EXCEPT ![i].left = L]

\* Merge, row by row.
LEMMA MergeRun ==
    ASSUME NEW t, NEW p, NEW i, NEW L, NEW R, NEW mv, Brothers(t, p, i, L, R, mv),
           MergedRow(RowOf(t)[p], i, L) \in Rows, RowOf(t)[L] \o <<mv>> \o RowOf(t)[R] \in Rows
    PROVE  Merged(Merge(t, p, i), t, p, L, R, MergedRow(RowOf(t)[p], i, L),
                  RowOf(t)[L] \o <<mv>> \o RowOf(t)[R])
<1> DEFINE D == DOMAIN t.nodes
           row == RowOf(t)
           e == t.nodes[p].elems[i]
           q == MergedRow(row[p], i, L)
           C == row[L] \o <<mv>> \o row[R]
           u == Adopted(t, row[R], L)
           w == SetElems(u, L, C)
           v == SetElems(w, p, q)
<1>1. /\ IsTree(t) /\ p \in D /\ L \in D /\ R \in D /\ p # L /\ p # R /\ L # R /\ L \in Nat
      /\ i \in 1 .. Len(row[p]) /\ row[p][i].left = L /\ row[p][i].right = R
      /\ row[L] # <<>> /\ row[R] # <<>>
      /\ mv = [key |-> row[p][i].key, left |-> row[L][Len(row[L])].right, right |-> row[R][1].left]
  BY DEF Brothers
<1>2. /\ row[p] \in Rows /\ row[L] \in Rows /\ row[R] \in Rows /\ C \in Rows /\ q \in Rows
      /\ t.nodes[p].elems = row[p] /\ t.nodes[L].elems = row[L] /\ t.nodes[R].elems = row[R]
  BY <1>1, TreeFields
<1>3. e \in Element /\ e = row[p][i]
  <2>1. PICK s : s \in Rows /\ s = row[p] /\ i \in 1 .. Len(s)
    BY <1>1, <1>2
  <2> HIDE DEF row
  <2>2. s[i] \in Element
    BY <2>1, RowFacts
  <2> QED BY <1>2, <2>1, <2>2
<1> HIDE DEF row, C, q
<1>4. [e EXCEPT !.left = Last(t.nodes[L].elems).right, !.right = t.nodes[R].elems[1].left] = mv
  <2>1. PICK g, a, b : g = e /\ a = Last(t.nodes[L].elems).right /\ b = t.nodes[R].elems[1].left
    OBVIOUS
  <2>2. g \in Element
    BY <1>3, <2>1
  <2>3. [g EXCEPT !.left = a, !.right = b] = [key |-> g.key, left |-> a, right |-> b]
    BY <2>2, Relinked
  <2>4. a = row[L][Len(row[L])].right /\ b = row[R][1].left /\ g.key = row[p][i].key
    BY <1>2, <1>3, <2>1 DEF Last
  <2> HIDE DEF e
  <2> QED BY <1>1, <2>1, <2>3, <2>4
<1>5. /\ IsTree(u) /\ DOMAIN u.nodes = D /\ u.root = t.root
      /\ \A z \in D : /\ RowOf(u)[z] = row[z]
                      /\ ParOf(u)[z] = IF z \in KidsOf(row[R]) THEN L ELSE ParOf(t)[z]
  BY <1>1, AdoptedFacts DEF row
<1>6. Merge(t, p, i) = FreeNode(v, R)
  <2>1. e.left = L /\ e.right = R
    BY <1>1, <1>3
  <2>2. Adopted(t, t.nodes[R].elems, L) = u
    BY <1>2
  <2>3. MergedRow(t.nodes[p].elems, i, L) = q
    BY <1>2 DEF q
  <2>4. t.nodes[L].elems \o <<mv>> \o t.nodes[R].elems = C
    BY <1>2 DEF C
  <2>5. [u EXCEPT !.nodes[L].elems = C, !.nodes[p].elems = q] = v
    BY DEF SetElems
  <2> DEFINE mid == [e EXCEPT !.left = Last(t.nodes[L].elems).right, !.right = t.nodes[R].elems[1].left]
  <2>6. Merge(t, p, i) =
          FreeNode([u EXCEPT !.nodes[L].elems = t.nodes[L].elems \o <<mid>> \o t.nodes[R].elems,
                             !.nodes[p].elems = MergedRow(t.nodes[p].elems, i, L)], R)
    <3> HIDE DEF v, w, u
    <3> QED BY <2>1, <2>2 DEF Merge, MergedRow
  <2> HIDE DEF v, w, u, mid, e
  <2> QED BY <1>4, <2>3, <2>4, <2>5, <2>6 DEF mid
<1> HIDE DEF u, e
<1>7. /\ IsTree(w) /\ DOMAIN w.nodes = D /\ w.root = t.root
      /\ RowOf(w)[L] = C
      /\ \A z \in D \ {L} : RowOf(w)[z] = row[z]
      /\ \A z \in D : ParOf(w)[z] = ParOf(u)[z]
  <2>1. /\ IsTree(w) /\ DOMAIN w.nodes = DOMAIN u.nodes /\ w.root = u.root
        /\ RowOf(w)[L] = C
        /\ \A z \in DOMAIN u.nodes \ {L} : RowOf(w)[z] = RowOf(u)[z]
        /\ \A z \in DOMAIN u.nodes : ParOf(w)[z] = ParOf(u)[z]
    <3>1. L \in DOMAIN u.nodes
      BY <1>1, <1>5
    <3> QED BY <1>2, <1>5, <3>1, ElemsFacts DEF w
  <2> HIDE DEF D, w
  <2> QED BY <1>1, <1>5, <2>1
<1> HIDE DEF w
<1>8. /\ IsTree(v) /\ DOMAIN v.nodes = D /\ v.root = t.root
      /\ RowOf(v)[p] = q /\ RowOf(v)[L] = C
      /\ \A z \in D \ {p, L} : RowOf(v)[z] = row[z]
      /\ \A z \in D : ParOf(v)[z] = ParOf(u)[z]
  <2>1. /\ IsTree(v) /\ DOMAIN v.nodes = DOMAIN w.nodes /\ v.root = w.root
        /\ RowOf(v)[p] = q
        /\ \A z \in DOMAIN w.nodes \ {p} : RowOf(v)[z] = RowOf(w)[z]
        /\ \A z \in DOMAIN w.nodes : ParOf(v)[z] = ParOf(w)[z]
    <3>1. p \in DOMAIN w.nodes
      BY <1>1, <1>7
    <3> QED BY <1>2, <1>7, <3>1, ElemsFacts DEF v
  <2> HIDE DEF D, v
  <2> QED BY <1>1, <1>7, <2>1
<1> HIDE DEF v
<1> DEFINE f == FreeNode(v, R)
<1>9. /\ IsTree(f) /\ DOMAIN f.nodes = D \ {R} /\ f.root = t.root
      /\ \A z \in D \ {R} : RowOf(f)[z] = RowOf(v)[z] /\ ParOf(f)[z] = ParOf(v)[z]
  <2>1. /\ IsTree(f) /\ DOMAIN f.nodes = DOMAIN v.nodes \ {R} /\ f.root = v.root
        /\ \A z \in DOMAIN v.nodes \ {R} : RowOf(f)[z] = RowOf(v)[z] /\ ParOf(f)[z] = ParOf(v)[z]
    BY <1>8, FreeFacts
  <2> HIDE DEF D, f
  <2> QED BY <1>8, <2>1
<1> HIDE DEF f
<1>10. Merged(f, t, p, L, R, q, C)
  <2>1. RowOf(f)[p] = q /\ RowOf(f)[L] = C
    BY <1>1, <1>8, <1>9
  <2>2. \A x \in D \ {p, L, R} : RowOf(f)[x] = row[x]
    BY <1>8, <1>9
  <2>3. \A x \in D \ {R} : ParOf(f)[x] = IF x \in KidsOf(row[R]) THEN L ELSE ParOf(t)[x]
    BY <1>5, <1>8, <1>9
  <2> QED BY <1>9, <2>1, <2>2, <2>3 DEF Merged, row
<1> QED BY <1>6, <1>10 DEF f, q, C, row

\* Two neighbours below p that are not empty, and what is between them.
SideBySide(t, top, T, ch, lv, lo, hi, p, a, L, R) ==
    /\ IsTree(t) /\ TreeShape(t, top, T, ch, lv, lo, hi)
    /\ p \in T /\ lv[p] > 0 /\ a \in 1 .. Len(RowOf(t)[p]) /\ L = ch[p][a] /\ R = ch[p][a + 1]
    /\ RowOf(t)[L] # <<>> /\ RowOf(t)[R] # <<>>

\* What is known of two brothers, the element mv that moves and the row C they
\* would make.
Between(t, D, row, par, T, ch, p, a, L, R, mv, C, m) ==
    /\ Brothers(t, p, a, L, R, mv) /\ mv \in Element
    /\ D = DOMAIN t.nodes /\ row = RowOf(t) /\ par = ParOf(t) /\ D \in SUBSET (Nat \ {0})
    /\ row \in [D -> Rows] /\ par \in [D -> Nat]
    /\ row[p] \in Rows /\ row[L] \in Rows /\ row[R] \in Rows /\ Links(row[p], ch[p])
    /\ T \in SUBSET D /\ L \in T /\ R \in T
    /\ mv.key = row[p][a].key /\ mv.left = ch[L][m] /\ mv.right = ch[R][1]
    /\ mv.left = 0 \/ mv.left \in D
    /\ mv.right = 0 \/ mv.right \in D
    /\ Joint(C, row[L], mv, row[R]) /\ C = row[L] \o <<mv>> \o row[R] /\ C \in Rows
    /\ m = Len(row[L]) + 1 /\ m \in Nat /\ IsCut(C, m, row[L], row[R]) /\ C[m] = mv
    /\ Len(C) = Len(row[L]) + 1 + Len(row[R]) /\ Len(row[R]) \in Nat

\* What is between two brothers that are not empty.
LEMMA BetweenFacts ==
    ASSUME NEW t, NEW top, NEW T, NEW ch, NEW lv, NEW lo, NEW hi, NEW p, NEW a, NEW L, NEW R,
           SideBySide(t, top, T, ch, lv, lo, hi, p, a, L, R),
           NEW mv, mv = [key |-> RowOf(t)[p][a].key,
                         left |-> RowOf(t)[L][Len(RowOf(t)[L])].right,
                         right |-> RowOf(t)[R][1].left]
    PROVE  Between(t, DOMAIN t.nodes, RowOf(t), ParOf(t), T, ch, p, a, L, R, mv,
                   RowOf(t)[L] \o <<mv>> \o RowOf(t)[R], Len(RowOf(t)[L]) + 1)
<1> DEFINE D == DOMAIN t.nodes
           row == RowOf(t)
           par == ParOf(t)
           C == row[L] \o <<mv>> \o row[R]
           m == Len(row[L]) + 1
<1>1. /\ IsTree(t) /\ Shape(D, row, par, t.root, top, T, ch, lv, lo, hi)
      /\ p \in T /\ lv[p] > 0 /\ a \in 1 .. Len(row[p]) /\ L = ch[p][a] /\ R = ch[p][a + 1]
      /\ row[L] # <<>> /\ row[R] # <<>>
  BY DEF SideBySide, TreeShape
<1>2. row \in [D -> Rows] /\ par \in [D -> Nat]
  BY <1>1, TreeFields
<1> HIDE DEF D, row, par
<1>3. D \in SUBSET (Nat \ {0}) /\ T \in SUBSET D
  <2>1. BTyped(D, row, par, t.root, T, ch, lv, lo, hi)
    BY <1>1 DEF Shape
  <2> QED BY <2>1 DEF BTyped
<1>4. L \in T /\ R \in T /\ L # R /\ L # p /\ R # p
  BY <1>1, Neighbours
<1>5. Links(row[p], ch[p]) /\ Links(row[L], ch[L]) /\ Links(row[R], ch[R])
  BY <1>1, <1>4 DEF Shape, NodeFits
<1>6. row[p] \in Rows /\ row[L] \in Rows /\ row[R] \in Rows
  BY <1>1, <1>2, <1>3, <1>4
<1>7. /\ Len(row[L]) \in 1 .. Len(row[L]) /\ 1 \in 1 .. Len(row[R])
      /\ Len(row[L]) \in Nat /\ Len(row[R]) \in Nat
  <2>1. PICK l, r : l \in Rows /\ r \in Rows /\ l # <<>> /\ r # <<>> /\ l = row[L] /\ r = row[R]
    BY <1>1, <1>6
  <2>2. Len(l) \in 1 .. Len(l) /\ 1 \in 1 .. Len(r) /\ Len(l) \in Nat /\ Len(r) \in Nat
    BY <2>1, RowFacts
  <2> QED BY <2>1, <2>2
<1>8. /\ row[p][a].key \in Nat /\ row[p][a].left = L /\ row[p][a].right = R
      /\ row[L][Len(row[L])].right \in Nat /\ row[R][1].left \in Nat
  <2>1. PICK l, r, s : /\ l \in Rows /\ r \in Rows /\ s \in Rows /\ l = row[L] /\ r = row[R] /\ s = row[p]
                       /\ Len(l) \in 1 .. Len(l) /\ 1 \in 1 .. Len(r) /\ a \in 1 .. Len(s)
    BY <1>1, <1>6, <1>7
  <2>2. s[a].key \in Nat /\ l[Len(l)].right \in Nat /\ r[1].left \in Nat
    BY <2>1, RowFacts
  <2> QED BY <1>1, <1>5, <2>1, <2>2 DEF Links
<1>9. /\ mv \in Element /\ mv.key = row[p][a].key
      /\ mv.left = row[L][Len(row[L])].right /\ mv.right = row[R][1].left
  BY <1>8 DEF Element, row
<1>10. mv.left = ch[L][m] /\ mv.right = ch[R][1]
  BY <1>5, <1>7, <1>9 DEF Links
<1>11. (mv.left = 0 \/ mv.left \in D) /\ (mv.right = 0 \/ mv.right \in D)
  <2>1. m \in 1 .. Len(row[L]) + 1 /\ 1 \in 1 .. Len(row[R]) + 1
    BY <1>7
  <2>2. ch[L][m] = 0 \/ ch[L][m] \in T
    <3> HIDE DEF m
    <3> QED BY <1>1, <1>4, <2>1, KidsBelow
  <2>3. ch[R][1] = 0 \/ ch[R][1] \in T
    BY <1>1, <1>4, <2>1, KidsBelow
  <2> QED BY <1>3, <1>10, <2>2, <2>3
<1>12. Brothers(t, p, a, L, R, mv)
  <2>1. p \in D /\ L \in D /\ R \in D /\ p \in Nat /\ L \in Nat /\ R \in Nat
    BY <1>1, <1>3, <1>4
  <2> QED BY <1>1, <1>4, <1>8, <2>1 DEF Brothers, row, D
<1>13. Joint(C, row[L], mv, row[R])
  BY DEF Joint
<1>14. /\ C \in Rows /\ Len(C) = Len(row[L]) + 1 + Len(row[R]) /\ C[m] = mv
       /\ IsCut(C, m, row[L], row[R])
  <2>1. PICK l, r : l = row[L] /\ r = row[R] /\ l \in Rows /\ r \in Rows
    BY <1>6
  <2>2. Joint(C, l, mv, r)
    BY <1>13, <2>1
  <2> HIDE DEF C
  <2>3. C \in Rows /\ Len(C) = Len(l) + 1 + Len(r) /\ C[Len(l) + 1] = mv /\ IsCut(C, Len(l) + 1, l, r)
    <3>1. l \in Rows /\ r \in Rows /\ mv \in Element
      BY <1>9, <2>1
    <3>2. /\ C \in Rows /\ Len(C) = Len(l) + 1 + Len(r) /\ C[Len(l) + 1] = mv
          /\ IsCut(C, Len(l) + 1, l, r)
      BY <2>2, <3>1, JointRow
    <3> QED BY <3>2
  <2> QED BY <2>1, <2>3
<1>15. C = row[L] \o <<mv>> \o row[R] /\ m = Len(row[L]) + 1 /\ m \in Nat
  BY <1>7
<1> HIDE DEF C, m
<1>16. Between(t, D, row, par, T, ch, p, a, L, R, mv, C, m)
  BY <1>2, <1>3, <1>4, <1>5, <1>6, <1>7, <1>9, <1>10, <1>11, <1>12, <1>13, <1>14, <1>15
     DEF Between, D, row, par
<1> QED BY <1>16 DEF D, row, par, C, m

\* A child of two siblings that are joined.
LEMMA JoinedAt ==
    ASSUME NEW c, NEW d, NEW m \in Nat, NEW j \in Nat
    PROVE  ChJoined(c, m, d)[j] = IF j <= m THEN c[j] ELSE d[j - m]
BY DEF ChJoined

\* Borrowing is to cut two siblings elsewhere.
LEMMA BorrowRightStep ==
    ASSUME NEW t, NEW top, NEW T, NEW ch, NEW lv, NEW lo, NEW hi, NEW p, NEW a, NEW L, NEW R,
           SideBySide(t, top, T, ch, lv, lo, hi, p, a, L, R)
    PROVE  LET u == BorrowRight(t, p, a)
               row == RowOf(t)
           IN  /\ IsTree(u) /\ DOMAIN u.nodes = DOMAIN t.nodes /\ u.root = t.root
               /\ Len(RowOf(u)[p]) = Len(row[p]) /\ Len(RowOf(u)[L]) = Len(row[L]) + 1
               /\ Len(RowOf(u)[R]) = Len(row[R]) - 1
               /\ \A x \in T : x # p /\ x # L /\ x # R => RowOf(u)[x] = row[x]
               /\ \E C, m, b, l, r :
                    ShiftStep(DOMAIN t.nodes, row, ParOf(t), t.root, top, T, ch, lv, lo, hi,
                              p, a, L, R, C, m, b, l, r, RowOf(u), ParOf(u))
<1> DEFINE D == DOMAIN t.nodes
           row == RowOf(t)
           par == ParOf(t)
           u == BorrowRight(t, p, a)
           mv == [key |-> row[p][a].key, left |-> row[L][Len(row[L])].right, right |-> row[R][1].left]
           C == row[L] \o <<mv>> \o row[R]
           m == Len(row[L]) + 1
           b == m + 1
           s == KeySet(row[p], a, row[R][1].key)
           l == Append(row[L], mv)
           r == Tail(row[R])
<1>1. /\ Shape(D, row, par, t.root, top, T, ch, lv, lo, hi)
      /\ p \in T /\ lv[p] > 0 /\ a \in 1 .. Len(row[p]) /\ L = ch[p][a] /\ R = ch[p][a + 1]
      /\ row[L] # <<>> /\ row[R] # <<>>
  BY DEF SideBySide, TreeShape
<1>2. Between(t, D, row, par, T, ch, p, a, L, R, mv, C, m)
  <2>1. PICK x : x = mv
    OBVIOUS
  <2> HIDE DEF mv
  <2>2. Between(t, DOMAIN t.nodes, RowOf(t), ParOf(t), T, ch, p, a, L, R, x,
                RowOf(t)[L] \o <<x>> \o RowOf(t)[R], Len(RowOf(t)[L]) + 1)
    BY <2>1, BetweenFacts DEF mv
  <2> QED BY <2>1, <2>2
<1> HIDE DEF mv, C, m
<1>3. /\ Brothers(t, p, a, L, R, mv) /\ mv \in Element /\ mv.right = ch[R][1]
      /\ (mv.right = 0 \/ mv.right \in D) /\ 0 \notin D
  BY <1>2 DEF Between
<1>4. Borrowed(u, t, p, L, R, s, l, r, mv.right, L)
  <2> HIDE DEF u
  <2>1. mv.right = 0 \/ mv.right \in DOMAIN t.nodes
    BY <1>3
  <2>2. 0 \notin DOMAIN t.nodes
    BY <1>3
  <2>3. PICK x : x = mv
    OBVIOUS
  <2>4. Borrowed(BorrowRight(t, p, a), t, p, L, R,
                 KeySet(RowOf(t)[p], a, RowOf(t)[R][1].key), Append(RowOf(t)[L], x), Tail(RowOf(t)[R]),
                 x.right, L)
    <3>1. x \in Element /\ Brothers(t, p, a, L, R, x) /\ (x.right = 0 \/ x.right \in DOMAIN t.nodes)
      BY <1>3, <2>1, <2>3
    <3> QED BY <2>2, <3>1, BorrowRightRun
  <2> QED BY <2>3, <2>4 DEF u
<1>5. /\ C \in Rows /\ m \in Nat /\ IsCut(C, m, row[L], row[R]) /\ C[m] = mv
      /\ Len(C) = Len(row[L]) + 1 + Len(row[R]) /\ Joint(C, row[L], mv, row[R])
      /\ row[p] \in Rows /\ row[L] \in Rows /\ row[R] \in Rows
      /\ row \in [D -> Rows] /\ par \in [D -> Nat]
      /\ m = Len(row[L]) + 1 /\ Len(row[R]) \in Nat
      /\ D \in SUBSET (Nat \ {0}) /\ T \in SUBSET D /\ L \in T /\ R \in T
      /\ mv.key = row[p][a].key /\ mv.left = ch[L][m]
  BY <1>2 DEF Between
<1>6. /\ l \in Rows /\ r \in Rows /\ Len(l) = Len(row[L]) + 1 /\ Len(r) = Len(row[R]) - 1
      /\ IsCut(C, b, l, r) /\ C[b] = row[R][1]
  <2>1. PICK f, g : f = row[L] /\ g = row[R]
    OBVIOUS
  <2>2. f \in Rows /\ g \in Rows /\ g # <<>> /\ Joint(C, f, mv, g) /\ Len(f) \in Nat
    BY <1>1, <1>5, <2>1, RowFacts
  <2>3. /\ Append(f, mv) \in Rows /\ Tail(g) \in Rows
        /\ Len(Append(f, mv)) = Len(f) + 1 /\ Len(Tail(g)) = Len(g) - 1
        /\ IsCut(C, Len(f) + 2, Append(f, mv), Tail(g)) /\ C[Len(f) + 2] = g[1]
    BY <1>3, <2>2, JointRight
  <2>4. b = Len(f) + 2
    BY <1>5, <2>1, <2>2
  <2> HIDE DEF b
  <2> QED BY <2>1, <2>3, <2>4
<1>7. KeyChanged(s, row[p], a, C[b].key) /\ Len(s) = Len(row[p])
  <2>1. PICK f, k : f = row[p] /\ k = row[R][1].key
    OBVIOUS
  <2>2. f \in Rows /\ a \in 1 .. Len(f) /\ k \in Nat
    <3>1. PICK g : g = row[R] /\ g \in Rows /\ g # <<>>
      BY <1>1, <1>5
    <3>2. 1 \in 1 .. Len(g) /\ g[1].key \in Nat
      BY <3>1, RowFacts
    <3> QED BY <1>1, <1>5, <2>1, <3>1, <3>2
  <2>3. KeyChanged(KeySet(f, a, k), f, a, k)
    BY <2>2, KeySetFacts
  <2>4. Len(KeySet(f, a, k)) = Len(f)
    BY <2>3 DEF KeyChanged
  <2> HIDE DEF b
  <2> QED BY <1>6, <2>1, <2>3, <2>4
<1> HIDE DEF u, l, r, s, row, par, D
<1>8. /\ IsTree(u) /\ DOMAIN u.nodes = D /\ u.root = t.root
      /\ RowOf(u)[p] = s /\ RowOf(u)[L] = l /\ RowOf(u)[R] = r
      /\ \A x \in D \ {p, L, R} : RowOf(u)[x] = row[x]
      /\ \A x \in D : ParOf(u)[x] = IF x = mv.right THEN L ELSE par[x]
  BY <1>4 DEF Borrowed, row, par, D
<1>9. RowOf(u) \in [D -> Rows] /\ ParOf(u) \in [D -> Nat]
  BY <1>8, TreeFields
<1>10. PICK k : k \in Nat /\ k = Len(row[R]) /\ Len(C) = m + k /\ m \in Nat
  <2>1. Len(row[R]) \in Nat /\ Len(C) = m + Len(row[R]) /\ m \in Nat
    BY <1>5
  <2> QED BY <2>1
<1>k. k \in Nat /\ Len(C) = m + k /\ m \in Nat
  BY <1>10
<1>r. Shape(D, row, par, t.root, top, T, ch, lv, lo, hi) /\ R \in T
  BY <1>1, <1>5
<1> DEFINE S1 == {ChJoined(ch[L], m, ch[R])[j] : j \in b + 1 .. Len(C) + 1}
           S2 == {ch[R][j] : j \in 1 .. k + 1}
<1>11. ASSUME NEW x PROVE x \in S1 <=> \E j \in 2 .. k + 1 : x = ch[R][j]
  <2>1. ASSUME NEW j \in b + 1 .. Len(C) + 1
        PROVE  j - m \in 2 .. k + 1 /\ ChJoined(ch[L], m, ch[R])[j] = ch[R][j - m]
    <3>1. j \in Nat /\ j - m \in 2 .. k + 1 /\ ~(j <= m)
      BY <1>k
    <3> QED BY <1>5, <3>1, JoinedAt
  <2>2. ASSUME NEW j \in 2 .. k + 1
        PROVE  j + m \in b + 1 .. Len(C) + 1 /\ ChJoined(ch[L], m, ch[R])[j + m] = ch[R][j]
    <3>1. j + m \in b + 1 .. Len(C) + 1 /\ j + m \in Nat /\ ~(j + m <= m) /\ (j + m) - m = j
      BY <1>k
    <3> HIDE DEF b
    <3>2. ChJoined(ch[L], m, ch[R])[j + m] = ch[R][(j + m) - m]
      BY <1>5, <3>1, JoinedAt
    <3> QED BY <3>1, <3>2
  <2> HIDE DEF b
  <2> QED BY <2>1, <2>2
<1> HIDE DEF S1
<1>12. ASSUME NEW x \in D, NEW j \in 1 .. k + 1, x = ch[R][j]
       PROVE  par[x] = R /\ lv[R] > 0
  <2>1. \/ ch[R][j] = 0 /\ ch[R][j] \notin D /\ lv[R] = 0
        \/ /\ ch[R][j] \in T /\ ch[R][j] # t.root /\ par[ch[R][j]] = R
           /\ lv[ch[R][j]] \in Nat /\ lv[ch[R][j]] + 1 = lv[R]
    <3>1. j \in 1 .. Len(row[R]) + 1
      BY <1>10
    <3> QED BY <1>r, <3>1, KidsBelow
  <2>2. par[x] = R /\ lv[x] \in Nat /\ lv[x] + 1 = lv[R]
    BY <1>12, <2>1
  <2>3. PICK y \in Nat : y = lv[x]
    BY <2>2
  <2> QED BY <2>2, <2>3
<1>13. \A x \in D : ParOf(u)[x] = IF x \in S1 THEN R ELSE IF x \in S2 THEN L ELSE par[x]
  <2> TAKE x \in D
  <2>0. ParOf(u)[x] = IF x = ch[R][1] THEN L ELSE par[x]
    BY <1>3, <1>8
  <2>1. CASE x \in S1
    <3>1. PICK j \in 2 .. k + 1 : x = ch[R][j]
      BY <1>11, <2>1
    <3>2. j \in 1 .. k + 1 /\ j # 1 /\ 1 \in 1 .. k + 1
      BY <1>10
    <3>3. par[x] = R /\ lv[R] > 0
      BY <1>12, <3>1, <3>2
    <3>4. x # ch[R][1]
      <4> SUFFICES ASSUME ch[R][j] = ch[R][1] PROVE FALSE
        BY <3>1
      <4>1. j = 1
        <5>1. j \in 1 .. Len(row[R]) + 1 /\ 1 \in 1 .. Len(row[R]) + 1
          BY <1>10, <3>2
        <5> QED BY <1>r, <3>3, <5>1, GapsDiffer
      <4> QED BY <3>2, <4>1
    <3> QED BY <2>0, <2>1, <3>3, <3>4
  <2>2. CASE x \notin S1 /\ x \in S2
    <3>1. PICK j \in 1 .. k + 1 : x = ch[R][j]
      BY <2>2
    <3>2. j = 1 \/ j \in 2 .. k + 1
      BY <1>10
    <3>3. x = ch[R][1]
      BY <1>11, <2>2, <3>1, <3>2
    <3> QED BY <2>0, <2>2, <3>3
  <2>3. CASE x \notin S1 /\ x \notin S2
    <3>1. 1 \in 1 .. k + 1
      BY <1>10
    <3>2. x # ch[R][1]
      BY <2>3, <3>1
    <3> QED BY <2>0, <2>3, <3>2
  <2> QED BY <2>1, <2>2, <2>3
<1>14. ShiftStep(D, row, par, t.root, top, T, ch, lv, lo, hi, p, a, L, R, C, m, b, l, r, RowOf(u), ParOf(u))
  <2>1. b \in Nat
    BY <1>5
  <2>2. \A x \in D \ {L, R, p} : RowOf(u)[x] = row[x]
    BY <1>8
  <2>3. KeyChanged(RowOf(u)[p], row[p], a, C[b].key)
    BY <1>7, <1>8
  <2>4. C[m].key = row[p][a].key /\ C[m].left = ch[L][m] /\ C[m].right = ch[R][1]
    BY <1>3, <1>5
  <2>5. /\ S2 = {ch[R][i] : i \in 1 .. Len(row[R]) + 1}
        /\ S1 = {ChJoined(ch[L], m, ch[R])[i] : i \in b + 1 .. Len(C) + 1}
    BY <1>10 DEF S1
  <2> HIDE DEF S2, b
  <2>6. \A x \in D : ParOf(u)[x] =
          IF x \in {ChJoined(ch[L], m, ch[R])[i] : i \in b + 1 .. Len(C) + 1} THEN R
          ELSE IF x \in {ch[R][i] : i \in 1 .. Len(row[R]) + 1} THEN L ELSE par[x]
    BY ONLY <1>13, <2>5
  <2> QED BY <1>1, <1>5, <1>6, <1>8, <1>9, <2>1, <2>2, <2>3, <2>4, <2>6 DEF ShiftStep
<1>15. \A x \in T : x # p /\ x # L /\ x # R => RowOf(u)[x] = row[x]
  BY <1>5, <1>8
<1>16. Len(RowOf(u)[p]) = Len(row[p]) /\ Len(RowOf(u)[L]) = Len(row[L]) + 1 /\ Len(RowOf(u)[R]) = Len(row[R]) - 1
  BY <1>6, <1>7, <1>8
<1> HIDE DEF b
<1> QED BY <1>8, <1>14, <1>15, <1>16 DEF u, row, par, D

\* BorrowLeft passes elements from the left brother to the right one.
LEMMA BorrowLeftStep ==
    ASSUME NEW t, NEW top, NEW T, NEW ch, NEW lv, NEW lo, NEW hi, NEW p, NEW a, NEW L, NEW R,
           SideBySide(t, top, T, ch, lv, lo, hi, p, a, L, R)
    PROVE  LET u == BorrowLeft(t, p, a)
               row == RowOf(t)
           IN  /\ IsTree(u) /\ DOMAIN u.nodes = DOMAIN t.nodes /\ u.root = t.root
               /\ Len(RowOf(u)[p]) = Len(row[p]) /\ Len(RowOf(u)[L]) = Len(row[L]) - 1
               /\ Len(RowOf(u)[R]) = Len(row[R]) + 1
               /\ \A x \in T : x # p /\ x # L /\ x # R => RowOf(u)[x] = row[x]
               /\ \E C, m, b, l, r :
                    ShiftStep(DOMAIN t.nodes, row, ParOf(t), t.root, top, T, ch, lv, lo, hi,
                              p, a, L, R, C, m, b, l, r, RowOf(u), ParOf(u))
<1> DEFINE D == DOMAIN t.nodes
           row == RowOf(t)
           par == ParOf(t)
           u == BorrowLeft(t, p, a)
           mv == [key |-> row[p][a].key, left |-> row[L][Len(row[L])].right, right |-> row[R][1].left]
           C == row[L] \o <<mv>> \o row[R]
           m == Len(row[L]) + 1
           b == Len(row[L])
           s == KeySet(row[p], a, row[L][Len(row[L])].key)
           l == Front(row[L])
           r == <<mv>> \o row[R]
<1>1. /\ Shape(D, row, par, t.root, top, T, ch, lv, lo, hi)
      /\ p \in T /\ lv[p] > 0 /\ a \in 1 .. Len(row[p]) /\ L = ch[p][a] /\ R = ch[p][a + 1]
      /\ row[L] # <<>> /\ row[R] # <<>>
  BY DEF SideBySide, TreeShape
<1>2. Between(t, D, row, par, T, ch, p, a, L, R, mv, C, m)
  <2>1. PICK x : x = mv
    OBVIOUS
  <2> HIDE DEF mv
  <2>2. Between(t, DOMAIN t.nodes, RowOf(t), ParOf(t), T, ch, p, a, L, R, x,
                RowOf(t)[L] \o <<x>> \o RowOf(t)[R], Len(RowOf(t)[L]) + 1)
    BY <2>1, BetweenFacts DEF mv
  <2> QED BY <2>1, <2>2
<1> HIDE DEF mv, C, m
<1>3. /\ Brothers(t, p, a, L, R, mv) /\ mv \in Element /\ mv.right = ch[R][1] /\ mv.left = ch[L][m]
      /\ (mv.left = 0 \/ mv.left \in D) /\ 0 \notin D
  BY <1>2 DEF Between
<1>4. Borrowed(u, t, p, L, R, s, l, r, mv.left, R)
  <2> HIDE DEF u
  <2>1. mv.left = 0 \/ mv.left \in DOMAIN t.nodes
    BY <1>3
  <2>2. 0 \notin DOMAIN t.nodes
    BY <1>3
  <2>3. PICK x : x = mv
    OBVIOUS
  <2>4. Borrowed(BorrowLeft(t, p, a), t, p, L, R,
                 KeySet(RowOf(t)[p], a, RowOf(t)[L][Len(RowOf(t)[L])].key), Front(RowOf(t)[L]),
                 <<x>> \o RowOf(t)[R], x.left, R)
    <3>1. x \in Element /\ Brothers(t, p, a, L, R, x) /\ (x.left = 0 \/ x.left \in DOMAIN t.nodes)
      BY <1>3, <2>1, <2>3
    <3> QED BY <2>2, <3>1, BorrowLeftRun
  <2> QED BY <2>3, <2>4 DEF u
<1>5. /\ C \in Rows /\ m \in Nat /\ IsCut(C, m, row[L], row[R]) /\ C[m] = mv
      /\ Len(C) = Len(row[L]) + 1 + Len(row[R]) /\ Joint(C, row[L], mv, row[R])
      /\ row[p] \in Rows /\ row[L] \in Rows /\ row[R] \in Rows
      /\ row \in [D -> Rows] /\ par \in [D -> Nat]
      /\ m = Len(row[L]) + 1 /\ Len(row[R]) \in Nat
      /\ D \in SUBSET (Nat \ {0}) /\ T \in SUBSET D /\ L \in T /\ R \in T
      /\ mv.key = row[p][a].key /\ mv.left = ch[L][m]
  BY <1>2 DEF Between
<1>6. /\ l \in Rows /\ r \in Rows /\ Len(l) = Len(row[L]) - 1 /\ Len(r) = Len(row[R]) + 1
      /\ IsCut(C, b, l, r) /\ C[b] = row[L][b] /\ b \in Nat /\ m = b + 1
  <2>1. PICK f, g : f = row[L] /\ g = row[R]
    OBVIOUS
  <2>2. f \in Rows /\ g \in Rows /\ f # <<>> /\ Joint(C, f, mv, g) /\ Len(f) \in Nat
    BY <1>1, <1>5, <2>1, RowFacts
  <2>3. /\ Front(f) \in Rows /\ <<mv>> \o g \in Rows
        /\ Len(Front(f)) = Len(f) - 1 /\ Len(<<mv>> \o g) = Len(g) + 1
        /\ IsCut(C, Len(f), Front(f), <<mv>> \o g) /\ C[Len(f)] = f[Len(f)]
    BY <1>3, <2>2, JointLeft
  <2>4. b = Len(f) /\ m = b + 1
    BY <1>5, <2>1, <2>2
  <2> HIDE DEF b
  <2> QED BY <2>1, <2>2, <2>3, <2>4
<1>7. KeyChanged(s, row[p], a, C[b].key) /\ Len(s) = Len(row[p])
  <2>1. PICK f, k : f = row[p] /\ k = row[L][b].key
    OBVIOUS
  <2>2. f \in Rows /\ a \in 1 .. Len(f) /\ k \in Nat
    <3>1. PICK g : g = row[L] /\ g \in Rows /\ g # <<>>
      BY <1>1, <1>5
    <3>2. Len(g) \in 1 .. Len(g) /\ g[Len(g)].key \in Nat
      <4>1. Len(g) \in 1 .. Len(g)
        BY <3>1, RowFacts
      <4> QED BY <3>1, <4>1, RowFacts
    <3> QED BY <1>1, <1>5, <2>1, <3>1, <3>2
  <2>3. KeyChanged(KeySet(f, a, k), f, a, k)
    BY <2>2, KeySetFacts
  <2>4. Len(KeySet(f, a, k)) = Len(f)
    BY <2>3 DEF KeyChanged
  <2>5. s = KeySet(f, a, k)
    BY <2>1
  <2> HIDE DEF b, s
  <2> QED BY <1>6, <2>1, <2>3, <2>4, <2>5
<1> HIDE DEF u, l, r, s, row, par, D, b
<1>8. /\ IsTree(u) /\ DOMAIN u.nodes = D /\ u.root = t.root
      /\ RowOf(u)[p] = s /\ RowOf(u)[L] = l /\ RowOf(u)[R] = r
      /\ \A x \in D \ {p, L, R} : RowOf(u)[x] = row[x]
      /\ \A x \in D : ParOf(u)[x] = IF x = mv.left THEN R ELSE par[x]
  BY <1>4 DEF Borrowed, row, par, D
<1>9. RowOf(u) \in [D -> Rows] /\ ParOf(u) \in [D -> Nat]
  BY <1>8, TreeFields
<1>10. PICK k : k \in Nat /\ k = Len(row[R]) /\ Len(C) = m + k /\ m \in Nat
  <2>1. Len(row[R]) \in Nat /\ Len(C) = m + Len(row[R]) /\ m \in Nat
    BY <1>5
  <2> QED BY <2>1
<1>k. k \in Nat /\ Len(C) = m + k /\ m \in Nat /\ b \in Nat /\ m = b + 1
  BY <1>6, <1>10
<1>r. Shape(D, row, par, t.root, top, T, ch, lv, lo, hi) /\ R \in T
  BY <1>1, <1>5
<1> DEFINE S1 == {ChJoined(ch[L], m, ch[R])[j] : j \in b + 1 .. Len(C) + 1}
           S2 == {ch[R][j] : j \in 1 .. k + 1}
<1>11. ASSUME NEW x PROVE x \in S1 <=> x = ch[L][m] \/ \E j \in 1 .. k + 1 : x = ch[R][j]
  <2>1. ASSUME NEW j \in b + 1 .. Len(C) + 1
        PROVE  \/ ChJoined(ch[L], m, ch[R])[j] = ch[L][m]
               \/ j - m \in 1 .. k + 1 /\ ChJoined(ch[L], m, ch[R])[j] = ch[R][j - m]
    <3>1. j \in Nat /\ m <= j
      BY <1>k
    <3>2. CASE j = m
      <4>1. j <= m
        BY <1>k, <3>2
      <4> QED BY <1>k, <3>1, <3>2, <4>1, JoinedAt
    <3>3. CASE j # m
      <4>1. j - m \in 1 .. k + 1 /\ ~(j <= m)
        BY <1>k, <3>1, <3>3
      <4> QED BY <1>k, <3>1, <4>1, JoinedAt
    <3> QED BY <3>2, <3>3
  <2>2. ASSUME NEW j \in 1 .. k + 1
        PROVE  j + m \in b + 1 .. Len(C) + 1 /\ ChJoined(ch[L], m, ch[R])[j + m] = ch[R][j]
    <3>1. j + m \in b + 1 .. Len(C) + 1 /\ j + m \in Nat /\ ~(j + m <= m) /\ (j + m) - m = j
      BY <1>k
    <3>2. ChJoined(ch[L], m, ch[R])[j + m] = ch[R][(j + m) - m]
      BY <1>5, <3>1, JoinedAt
    <3> QED BY <3>1, <3>2
  <2>3. m \in b + 1 .. Len(C) + 1 /\ ChJoined(ch[L], m, ch[R])[m] = ch[L][m]
    <3>1. m \in b + 1 .. Len(C) + 1 /\ m <= m /\ m \in Nat
      BY <1>k
    <3> QED BY <3>1, JoinedAt
  <2> QED BY <2>1, <2>2, <2>3
<1> HIDE DEF S1
<1>12. ASSUME NEW x \in D, NEW j \in 1 .. k + 1, x = ch[R][j]
       PROVE  par[x] = R /\ lv[R] > 0
  <2>1. \/ ch[R][j] = 0 /\ ch[R][j] \notin D /\ lv[R] = 0
        \/ /\ ch[R][j] \in T /\ ch[R][j] # t.root /\ par[ch[R][j]] = R
           /\ lv[ch[R][j]] \in Nat /\ lv[ch[R][j]] + 1 = lv[R]
    <3>1. j \in 1 .. Len(row[R]) + 1
      BY <1>10
    <3> QED BY <1>r, <3>1, KidsBelow
  <2>2. par[x] = R /\ lv[x] \in Nat /\ lv[x] + 1 = lv[R]
    BY <1>12, <2>1
  <2>3. PICK y \in Nat : y = lv[x]
    BY <2>2
  <2> QED BY <2>2, <2>3
<1>13. \A x \in D : ParOf(u)[x] = IF x \in S1 THEN R ELSE IF x \in S2 THEN L ELSE par[x]
  <2> TAKE x \in D
  <2>0. ParOf(u)[x] = IF x = ch[L][m] THEN R ELSE par[x]
    BY <1>3, <1>8
  <2>1. CASE x = ch[L][m]
    <3>1. x \in S1
      BY <1>11, <2>1
    <3> QED BY <2>0, <2>1, <3>1
  <2>2. CASE x # ch[L][m] /\ \E j \in 1 .. k + 1 : x = ch[R][j]
    <3>1. x \in S1 /\ par[x] = R
      BY <1>11, <1>12, <2>2
    <3> QED BY <2>0, <2>2, <3>1
  <2>3. CASE x # ch[L][m] /\ ~\E j \in 1 .. k + 1 : x = ch[R][j]
    <3>1. x \notin S1 /\ x \notin S2
      BY <1>11, <2>3
    <3> QED BY <2>0, <2>3, <3>1
  <2> QED BY <2>1, <2>2, <2>3
<1>14. ShiftStep(D, row, par, t.root, top, T, ch, lv, lo, hi, p, a, L, R, C, m, b, l, r, RowOf(u), ParOf(u))
  <2>1. b \in Nat
    BY <1>6
  <2>2. \A x \in D \ {L, R, p} : RowOf(u)[x] = row[x]
    BY <1>8
  <2>3. KeyChanged(RowOf(u)[p], row[p], a, C[b].key)
    BY <1>7, <1>8
  <2>4. C[m].key = row[p][a].key /\ C[m].left = ch[L][m] /\ C[m].right = ch[R][1]
    BY <1>3, <1>5
  <2>5. /\ S2 = {ch[R][i] : i \in 1 .. Len(row[R]) + 1}
        /\ S1 = {ChJoined(ch[L], m, ch[R])[i] : i \in b + 1 .. Len(C) + 1}
    BY <1>10 DEF S1
  <2> HIDE DEF S2
  <2>6. \A x \in D : ParOf(u)[x] =
          IF x \in {ChJoined(ch[L], m, ch[R])[i] : i \in b + 1 .. Len(C) + 1} THEN R
          ELSE IF x \in {ch[R][i] : i \in 1 .. Len(row[R]) + 1} THEN L ELSE par[x]
    BY ONLY <1>13, <2>5
  <2> QED BY <1>1, <1>5, <1>6, <1>8, <1>9, <2>1, <2>2, <2>3, <2>4, <2>6 DEF ShiftStep
<1>15. \A x \in T : x # p /\ x # L /\ x # R => RowOf(u)[x] = row[x]
  BY <1>5, <1>8
<1>16. Len(RowOf(u)[p]) = Len(row[p]) /\ Len(RowOf(u)[L]) = Len(row[L]) - 1 /\ Len(RowOf(u)[R]) = Len(row[R]) + 1
  BY <1>6, <1>7, <1>8
<1> QED BY <1>8, <1>14, <1>15, <1>16 DEF u, row, par, D

\* To merge, as a step of the shape.
LEMMA MergeOnce ==
    ASSUME NEW t, NEW top, NEW T, NEW ch, NEW lv, NEW lo, NEW hi, NEW p, NEW a, NEW L, NEW R,
           SideBySide(t, top, T, ch, lv, lo, hi, p, a, L, R)
    PROVE  LET u == Merge(t, p, a)
               row == RowOf(t)
           IN  /\ IsTree(u) /\ DOMAIN u.nodes = DOMAIN t.nodes \ {R} /\ u.root = t.root
               /\ Len(RowOf(u)[p]) = Len(row[p]) - 1
               /\ Len(RowOf(u)[L]) = Len(row[L]) + 1 + Len(row[R])
               /\ \A x \in T : x # p /\ x # L /\ x # R => RowOf(u)[x] = row[x]
               /\ \E C, m :
                    MergeStep(DOMAIN t.nodes, row, ParOf(t), t.root, top, T, ch, lv, lo, hi,
                              p, a, L, R, C, m, DOMAIN t.nodes \ {R}, T \ {R}, RowOf(u), ParOf(u))
<1> DEFINE D == DOMAIN t.nodes
           row == RowOf(t)
           par == ParOf(t)
           u == Merge(t, p, a)
           mv == [key |-> row[p][a].key, left |-> row[L][Len(row[L])].right, right |-> row[R][1].left]
           C == row[L] \o <<mv>> \o row[R]
           m == Len(row[L]) + 1
           q == MergedRow(row[p], a, L)
<1>1. /\ Shape(D, row, par, t.root, top, T, ch, lv, lo, hi)
      /\ p \in T /\ lv[p] > 0 /\ a \in 1 .. Len(row[p]) /\ L = ch[p][a] /\ R = ch[p][a + 1]
      /\ row[L] # <<>> /\ row[R] # <<>>
  BY DEF SideBySide, TreeShape
<1>2. Between(t, D, row, par, T, ch, p, a, L, R, mv, C, m)
  <2>1. PICK x : x = mv
    OBVIOUS
  <2> HIDE DEF mv
  <2>2. Between(t, DOMAIN t.nodes, RowOf(t), ParOf(t), T, ch, p, a, L, R, x,
                RowOf(t)[L] \o <<x>> \o RowOf(t)[R], Len(RowOf(t)[L]) + 1)
    BY <2>1, BetweenFacts DEF mv
  <2> QED BY <2>1, <2>2
<1> HIDE DEF mv, m
<1>3. /\ Brothers(t, p, a, L, R, mv) /\ mv \in Element /\ mv.right = ch[R][1]
      /\ row[p] \in Rows /\ Links(row[p], ch[p]) /\ C \in Rows
  <2> HIDE DEF C
  <2> QED BY <1>2 DEF Between
<1>4. KeyRemoved(q, row[p], a) /\ Links(q, ChRemoved(ch[p], a)) /\ q \in Rows /\ Len(q) = Len(row[p]) - 1
  <2>1. PICK s, c : s = row[p] /\ c = ch[p]
    OBVIOUS
  <2>2. s \in Rows /\ Links(s, c) /\ a \in 1 .. Len(s) /\ s[a].left = L
    BY <1>1, <1>3, <2>1 DEF Links
  <2>3. LET rest == RemoveAt(s, a)
            f == IF a > Len(rest) THEN rest ELSE [rest EXCEPT ![a].left = s[a].left]
        IN  KeyRemoved(f, s, a) /\ Links(f, ChRemoved(c, a))
    BY <2>2, ParentRow
  <2>4. KeyRemoved(MergedRow(s, a, L), s, a) /\ Links(MergedRow(s, a, L), ChRemoved(c, a))
    BY <2>2, <2>3 DEF MergedRow
  <2>5. MergedRow(s, a, L) \in Rows /\ Len(MergedRow(s, a, L)) = Len(s) - 1
    BY <2>4 DEF KeyRemoved
  <2> QED BY <2>1, <2>4, <2>5
<1> HIDE DEF q, u
<1>5. Merged(u, t, p, L, R, q, C)
  <2>1. PICK x : x = mv
    OBVIOUS
  <2>2. /\ Brothers(t, p, a, L, R, x) /\ MergedRow(RowOf(t)[p], a, L) \in Rows
        /\ RowOf(t)[L] \o <<x>> \o RowOf(t)[R] \in Rows
    BY <1>3, <1>4, <2>1 DEF q
  <2>3. Merged(Merge(t, p, a), t, p, L, R, MergedRow(RowOf(t)[p], a, L),
               RowOf(t)[L] \o <<x>> \o RowOf(t)[R])
    BY <2>2, MergeRun
  <2> QED BY <2>1, <2>3 DEF u, q
<1> HIDE DEF C
<1>6. /\ C \in Rows /\ m \in Nat /\ IsCut(C, m, row[L], row[R]) /\ C[m] = mv
      /\ Len(C) = Len(row[L]) + 1 + Len(row[R])
      /\ row[L] \in Rows /\ row[R] \in Rows
      /\ row \in [D -> Rows] /\ par \in [D -> Nat]
      /\ D \in SUBSET (Nat \ {0}) /\ T \in SUBSET D /\ L \in T /\ R \in T
      /\ mv.key = row[p][a].key /\ mv.left = ch[L][m]
  BY <1>2 DEF Between
<1> HIDE DEF row, par, D
<1>7. /\ IsTree(u) /\ DOMAIN u.nodes = D \ {R} /\ u.root = t.root
      /\ RowOf(u)[p] = q /\ RowOf(u)[L] = C
      /\ \A x \in D \ {p, L, R} : RowOf(u)[x] = row[x]
      /\ \A x \in D \ {R} : ParOf(u)[x] = IF x \in KidsOf(row[R]) THEN L ELSE par[x]
  BY <1>5 DEF Merged, row, par, D
<1>8. RowOf(u) \in [D \ {R} -> Rows] /\ ParOf(u) \in [D \ {R} -> Nat]
  BY <1>7, TreeFields
<1>9. KidsOf(row[R]) = {ch[R][i] : i \in 1 .. Len(row[R]) + 1}
  <2>1. Links(row[R], ch[R])
    <3>1. Shape(D, row, par, t.root, top, T, ch, lv, lo, hi) /\ R \in T
      BY <1>1, <1>6
    <3> QED BY <3>1 DEF Shape, NodeFits
  <2>2. PICK s, c : s = row[R] /\ c = ch[R]
    OBVIOUS
  <2>3. s \in Rows /\ s # <<>> /\ Links(s, c)
    BY <1>1, <1>6, <2>1, <2>2
  <2>4. KidsOf(s) = {c[i] : i \in 1 .. Len(s) + 1}
    BY <2>3, KidsFacts
  <2> QED BY <2>2, <2>4
<1>10. MergeStep(D, row, par, t.root, top, T, ch, lv, lo, hi, p, a, L, R, C, m,
                 D \ {R}, T \ {R}, RowOf(u), ParOf(u))
  <2>1. \A x \in D \ {L, R, p} : RowOf(u)[x] = row[x]
    BY <1>7
  <2>2. KeyRemoved(RowOf(u)[p], row[p], a) /\ Links(RowOf(u)[p], ChRemoved(ch[p], a))
    BY <1>4, <1>7
  <2>3. C[m].key = row[p][a].key /\ C[m].left = ch[L][m] /\ C[m].right = ch[R][1]
    BY <1>3, <1>6
  <2>4. \A x \in D \ {R} :
          ParOf(u)[x] = IF x \in {ch[R][i] : i \in 1 .. Len(row[R]) + 1} THEN L ELSE par[x]
    BY ONLY <1>7, <1>9
  <2> QED BY <1>1, <1>6, <1>7, <1>8, <2>1, <2>2, <2>3, <2>4 DEF MergeStep
<1>11. \A x \in T : x # p /\ x # L /\ x # R => RowOf(u)[x] = row[x]
  BY <1>6, <1>7
<1>12. Len(RowOf(u)[p]) = Len(row[p]) - 1 /\ Len(RowOf(u)[L]) = Len(row[L]) + 1 + Len(row[R])
  BY <1>4, <1>6, <1>7
<1> QED BY <1>7, <1>10, <1>11, <1>12 DEF u, row, par, D

\* A merge keeps the keys.
LEMMA MergeKeys ==
    ASSUME NEW D, NEW row, NEW par, NEW root, NEW top, NEW T, NEW ch, NEW lv, NEW lo, NEW hi,
           NEW p, NEW a, NEW L, NEW R, NEW C, NEW m, NEW D2, NEW U, NEW row2, NEW par2,
           MergeStep(D, row, par, root, top, T, ch, lv, lo, hi, p, a, L, R, C, m, D2, U, row2, par2)
    PROVE  KeysOf(row2, U) = KeysOf(row, T)
<1>1. /\ Shape(D, row, par, root, top, T, ch, lv, lo, hi)
      /\ p \in T /\ lv[p] > 0 /\ a \in 1 .. Len(row[p]) /\ L = ch[p][a] /\ R = ch[p][a + 1]
      /\ C \in Rows /\ m \in Nat /\ IsCut(C, m, row[L], row[R])
      /\ C[m].key = row[p][a].key /\ U = T \ {R}
      /\ row2[L] = C /\ \A x \in D \ {L, R, p} : row2[x] = row[x]
      /\ KeyRemoved(row2[p], row[p], a)
  BY DEF MergeStep
<1>2. L \in T /\ R \in T /\ L # R /\ L # p /\ R # p
  BY <1>1, Neighbours
<1>3. row \in [D -> Rows] /\ T \in SUBSET D
  <2>1. BTyped(D, row, par, root, T, ch, lv, lo, hi)
    BY <1>1 DEF Shape
  <2> QED BY <2>1 DEF BTyped
<1>4. row[p] \in Rows /\ row[L] \in Rows /\ row[R] \in Rows
  BY <1>1, <1>2, <1>3
<1>5. Joins(RowKeys(row2[L]), RowKeys(row[L]), RowKeys(row[R]), C[m].key)
  <2>1. PICK l, r : l = row[L] /\ r = row[R] /\ l \in Rows /\ r \in Rows
    BY <1>4
  <2>2. IsCut(C, m, l, r)
    BY <1>1, <2>1
  <2>3. Joins(RowKeys(C), RowKeys(l), RowKeys(r), C[m].key)
    BY <1>1, <2>1, <2>2, CutKeys
  <2> QED BY <1>1, <2>1, <2>3
<1>6. Adds(RowKeys(row[p]), RowKeys(row2[p]), row[p][a].key)
  <2>1. PICK s, q : s = row[p] /\ q = row2[p]
    OBVIOUS
  <2>2. s \in Rows /\ KeyRemoved(q, s, a) /\ a \in Nat
    BY <1>1, <1>4, <2>1
  <2>3. Adds(RowKeys(s), RowKeys(q), s[a].key)
    BY <2>2, RemovedKeys
  <2> QED BY <2>1, <2>3
<1>7. RowsMerged(T, L, R, p, U, row, row2, C[m].key)
  <2>1. \A x \in T \ {L, R, p} : row2[x] = row[x]
    BY <1>1, <1>3
  <2> QED BY <1>1, <1>2, <1>5, <1>6, <2>1 DEF RowsMerged
<1> QED BY <1>7, KeysMerged

\* The tree after a merge.
AfterMerge(u, t, top, T, ch, lv, p, a, L, R) ==
    /\ IsTree(u) /\ DOMAIN u.nodes = DOMAIN t.nodes \ {R} /\ u.root = t.root
    /\ Len(RowOf(u)[p]) = Len(RowOf(t)[p]) - 1
    /\ Len(RowOf(u)[L]) = Len(RowOf(t)[L]) + 1 + Len(RowOf(t)[R])
    /\ \A x \in T : x # p /\ x # L /\ x # R => RowOf(u)[x] = RowOf(t)[x]
    /\ KeysOf(RowOf(u), T \ {R}) = KeysOf(RowOf(t), T)
    /\ L \in T /\ R \in T /\ p \in T /\ L # p /\ L # R /\ R # p
    /\ \E ch2, lv2, lo2, hi2 : /\ TreeShape(u, top, T \ {R}, ch2, lv2, lo2, hi2)
                               /\ Agree(T \ {R}, lv2, lv) /\ ch2[p] = ChRemoved(ch[p], a)

\* Merge leaves a tree with the same keys, without the right brother.
LEMMA MergeFacts ==
    ASSUME NEW t, NEW top, NEW T, NEW ch, NEW lv, NEW lo, NEW hi, NEW p, NEW a, NEW L, NEW R,
           SideBySide(t, top, T, ch, lv, lo, hi, p, a, L, R)
    PROVE  AfterMerge(Merge(t, p, a), t, top, T, ch, lv, p, a, L, R)
<1> DEFINE u == Merge(t, p, a)
           D == DOMAIN t.nodes
           row == RowOf(t)
<1>1. /\ IsTree(u) /\ DOMAIN u.nodes = D \ {R} /\ u.root = t.root
      /\ Len(RowOf(u)[p]) = Len(row[p]) - 1
      /\ Len(RowOf(u)[L]) = Len(row[L]) + 1 + Len(row[R])
      /\ \A x \in T : x # p /\ x # L /\ x # R => RowOf(u)[x] = row[x]
      /\ \E C, m :
           MergeStep(D, row, ParOf(t), t.root, top, T, ch, lv, lo, hi,
                     p, a, L, R, C, m, D \ {R}, T \ {R}, RowOf(u), ParOf(u))
  BY MergeOnce
<1> HIDE DEF u
<1>2. PICK C, m :
        MergeStep(D, row, ParOf(t), t.root, top, T, ch, lv, lo, hi,
                  p, a, L, R, C, m, D \ {R}, T \ {R}, RowOf(u), ParOf(u))
  BY <1>1
<1> HIDE DEF D, row
<1>3. KeysOf(RowOf(u), T \ {R}) = KeysOf(row, T)
  BY <1>2, MergeKeys
<1>4. \E ch2, lv2, lo2, hi2 :
        /\ Shape(D \ {R}, RowOf(u), ParOf(u), t.root, top, T \ {R}, ch2, lv2, lo2, hi2)
        /\ Agree(T \ {R}, lv2, lv)
        /\ ch2[p] = ChRemoved(ch[p], a) /\ ch2[L] = ChJoined(ch[L], m, ch[R])
        /\ L \in T \ {R} /\ R \in T /\ p \in T \ {R} /\ L # p
  BY <1>2, MergeShape
<1>5. L \in T /\ R \in T /\ p \in T /\ L # p /\ L # R /\ R # p
  BY <1>4
<1>6. \E ch2, lv2, lo2, hi2 : /\ TreeShape(u, top, T \ {R}, ch2, lv2, lo2, hi2)
                              /\ Agree(T \ {R}, lv2, lv) /\ ch2[p] = ChRemoved(ch[p], a)
  BY <1>1, <1>4 DEF TreeShape
<1>7. AfterMerge(u, t, top, T, ch, lv, p, a, L, R)
  BY <1>1, <1>3, <1>5, <1>6 DEF AfterMerge, D, row
<1> QED BY <1>7 DEF u

\* The tree after an element has been borrowed.
AfterBorrow(u, t, top, T, lv, p, L, R, from, to) ==
    /\ IsTree(u) /\ DOMAIN u.nodes = DOMAIN t.nodes /\ u.root = t.root
    /\ Len(RowOf(u)[p]) = Len(RowOf(t)[p])
    /\ Len(RowOf(u)[from]) = Len(RowOf(t)[from]) - 1 /\ Len(RowOf(u)[to]) = Len(RowOf(t)[to]) + 1
    /\ \A x \in T : x # p /\ x # L /\ x # R => RowOf(u)[x] = RowOf(t)[x]
    /\ KeysOf(RowOf(u), T) = KeysOf(RowOf(t), T)
    /\ \E ch2, lv2, lo2, hi2 : TreeShape(u, top, T, ch2, lv2, lo2, hi2) /\ Agree(T \ {R}, lv2, lv)

\* BorrowRight leaves a tree with the same keys, one more of them in the left
\* brother.
LEMMA BorrowRightFacts ==
    ASSUME NEW t, NEW top, NEW T, NEW ch, NEW lv, NEW lo, NEW hi, NEW p, NEW a, NEW L, NEW R,
           SideBySide(t, top, T, ch, lv, lo, hi, p, a, L, R)
    PROVE  AfterBorrow(BorrowRight(t, p, a), t, top, T, lv, p, L, R, R, L)
<1> DEFINE u == BorrowRight(t, p, a)
           D == DOMAIN t.nodes
           row == RowOf(t)
<1>1. /\ IsTree(u) /\ DOMAIN u.nodes = D /\ u.root = t.root
      /\ Len(RowOf(u)[p]) = Len(row[p]) /\ Len(RowOf(u)[L]) = Len(row[L]) + 1
      /\ Len(RowOf(u)[R]) = Len(row[R]) - 1
      /\ \A x \in T : x # p /\ x # L /\ x # R => RowOf(u)[x] = row[x]
      /\ \E C, m, b, l, r :
           ShiftStep(D, row, ParOf(t), t.root, top, T, ch, lv, lo, hi,
                     p, a, L, R, C, m, b, l, r, RowOf(u), ParOf(u))
  BY BorrowRightStep
<1> HIDE DEF u
<1>2. PICK C, m, b, l, r :
        ShiftStep(D, row, ParOf(t), t.root, top, T, ch, lv, lo, hi,
                  p, a, L, R, C, m, b, l, r, RowOf(u), ParOf(u))
  BY <1>1
<1> HIDE DEF D, row
<1>3. /\ KeysOf(RowOf(u), T) = KeysOf(row, T)
      /\ \E ch2, lv2, lo2, hi2 :
           /\ Shape(D, RowOf(u), ParOf(u), t.root, top, T, ch2, lv2, lo2, hi2)
           /\ Agree(T \ {R}, lv2, lv)
  BY <1>2, ShiftShape
<1>4. \E ch2, lv2, lo2, hi2 : TreeShape(u, top, T, ch2, lv2, lo2, hi2) /\ Agree(T \ {R}, lv2, lv)
  BY <1>1, <1>3 DEF TreeShape
<1>5. AfterBorrow(u, t, top, T, lv, p, L, R, R, L)
  BY <1>1, <1>3, <1>4 DEF AfterBorrow, D, row
<1> QED BY <1>5 DEF u

\* BorrowLeft leaves a tree with the same keys, one more of them in the right
\* brother.
LEMMA BorrowLeftFacts ==
    ASSUME NEW t, NEW top, NEW T, NEW ch, NEW lv, NEW lo, NEW hi, NEW p, NEW a, NEW L, NEW R,
           SideBySide(t, top, T, ch, lv, lo, hi, p, a, L, R)
    PROVE  AfterBorrow(BorrowLeft(t, p, a), t, top, T, lv, p, L, R, L, R)
<1> DEFINE u == BorrowLeft(t, p, a)
           D == DOMAIN t.nodes
           row == RowOf(t)
<1>1. /\ IsTree(u) /\ DOMAIN u.nodes = D /\ u.root = t.root
      /\ Len(RowOf(u)[p]) = Len(row[p]) /\ Len(RowOf(u)[L]) = Len(row[L]) - 1
      /\ Len(RowOf(u)[R]) = Len(row[R]) + 1
      /\ \A x \in T : x # p /\ x # L /\ x # R => RowOf(u)[x] = row[x]
      /\ \E C, m, b, l, r :
           ShiftStep(D, row, ParOf(t), t.root, top, T, ch, lv, lo, hi,
                     p, a, L, R, C, m, b, l, r, RowOf(u), ParOf(u))
  BY BorrowLeftStep
<1> HIDE DEF u
<1>2. PICK C, m, b, l, r :
        ShiftStep(D, row, ParOf(t), t.root, top, T, ch, lv, lo, hi,
                  p, a, L, R, C, m, b, l, r, RowOf(u), ParOf(u))
  BY <1>1
<1> HIDE DEF D, row
<1>3. /\ KeysOf(RowOf(u), T) = KeysOf(row, T)
      /\ \E ch2, lv2, lo2, hi2 :
           /\ Shape(D, RowOf(u), ParOf(u), t.root, top, T, ch2, lv2, lo2, hi2)
           /\ Agree(T \ {R}, lv2, lv)
  BY <1>2, ShiftShape
<1>4. \E ch2, lv2, lo2, hi2 : TreeShape(u, top, T, ch2, lv2, lo2, hi2) /\ Agree(T \ {R}, lv2, lv)
  BY <1>1, <1>3 DEF TreeShape
<1>5. AfterBorrow(u, t, top, T, lv, p, L, R, L, R)
  BY <1>1, <1>3, <1>4 DEF AfterBorrow, D, row
<1> QED BY <1>5 DEF u

\* Two nodes at the minimum fit in one.
LEMMA MinFacts ==
    /\ MinPerNode \in Nat /\ MaxPerNode \in Nat /\ MinPerNode > 1 /\ MinPerNode + MinPerNode <= MaxPerNode
BY BTreeAssumption DEF MinPerNode

\* A call of Rebalance: the tree is sound, but for the number of elements of
\* the node.
Short(c, top, T, ch, lv, lo, hi, K) ==
    /\ IsTree(c.tree) /\ c.node \in T /\ TreeShape(c.tree, top, T, ch, lv, lo, hi)
    /\ KeysOf(RowOf(c.tree), T) = K
    /\ \A x \in T : /\ Len(RowOf(c.tree)[x]) <= MaxPerNode
                    /\ x # c.tree.root /\ x # c.node => MinPerNode <= Len(RowOf(c.tree)[x])
                    /\ lv[x] > 0 => 0 < Len(RowOf(c.tree)[x])
    /\ c.node # c.tree.root => MinPerNode <= Len(RowOf(c.tree)[c.node]) + 1

\* The types of a call of Rebalance.
LEMMA ShortTypes ==
    ASSUME NEW c, NEW top, NEW T, NEW ch, NEW lv, NEW lo, NEW hi, NEW K,
           Short(c, top, T, ch, lv, lo, hi, K)
    PROVE  /\ DOMAIN c.tree.nodes \in SUBSET (Nat \ {0}) /\ T \in SUBSET DOMAIN c.tree.nodes
           /\ c.tree.root \in T /\ c.node \in T /\ c.node # 0 /\ c.node \in Nat
           /\ \A x \in T : /\ RowOf(c.tree)[x] \in Rows /\ Len(RowOf(c.tree)[x]) \in Nat
                           /\ c.tree.nodes[x].elems = RowOf(c.tree)[x]
                           /\ c.tree.nodes[x].parent = ParOf(c.tree)[x]
                           /\ lv[x] \in Nat /\ lv[x] <= lv[c.tree.root]
           /\ Shape(DOMAIN c.tree.nodes, RowOf(c.tree), ParOf(c.tree), c.tree.root, top, T, ch, lv, lo, hi)
<1> DEFINE D == DOMAIN c.tree.nodes
           row == RowOf(c.tree)
           par == ParOf(c.tree)
<1>1. IsTree(c.tree) /\ c.node \in T /\ Shape(D, row, par, c.tree.root, top, T, ch, lv, lo, hi)
  BY DEF Short, TreeShape
<1>2. \A x \in D : c.tree.nodes[x].elems = row[x] /\ c.tree.nodes[x].parent = par[x]
  BY <1>1, TreeFields
<1> HIDE DEF D, row, par
<1>3. BTyped(D, row, par, c.tree.root, T, ch, lv, lo, hi)
  BY <1>1 DEF Shape
<1>4. D \in SUBSET (Nat \ {0}) /\ T \in SUBSET D /\ row \in [D -> Rows] /\ c.tree.root \in T
  BY <1>3 DEF BTyped
<1>5. \A x \in T : lv[x] \in Nat /\ lv[x] <= lv[c.tree.root] /\ Len(row[x]) \in Nat
  BY <1>1, NodeTypes
<1>6. \A x \in T : x \in D /\ row[x] \in Rows
  BY <1>4
<1>7. c.node # 0 /\ c.node \in Nat
  BY <1>1, <1>4
<1> QED BY <1>1, <1>2, <1>4, <1>5, <1>6, <1>7 DEF D, row, par

\* Nothing is left to do.
LEMMA CallDone ==
    ASSUME NEW c, NEW top, NEW T, NEW ch, NEW lv, NEW lo, NEW hi, NEW K,
           Short(c, top, T, ch, lv, lo, hi, K),
           c.node = c.tree.root \/ MinPerNode <= Len(RowOf(c.tree)[c.node])
    PROVE  RebalanceCall(c).node = 0 /\ Sound(RebalanceCall(c).tree, top, K)
<1>1. /\ c.tree.root \in T /\ c.node \in T /\ c.tree.nodes[c.node].elems = RowOf(c.tree)[c.node]
      /\ \A x \in T : Len(RowOf(c.tree)[x]) \in Nat
  BY ShortTypes
<1>2. RebalanceCall(c) = [tree |-> c.tree, node |-> 0]
  <2>1. c.node = c.tree.root \/ Len(c.tree.nodes[c.node].elems) >= MinPerNode
    <3>1. PICK x \in Nat, y \in Nat : x = Len(RowOf(c.tree)[c.node]) /\ y = MinPerNode
      BY <1>1, MinFacts
    <3>2. c.node = c.tree.root \/ x >= y
      BY <3>1
    <3> QED BY <1>1, <3>1, <3>2
  <2> QED BY <2>1 DEF RebalanceCall, NoNode
<1>3. Filled(RowOf(c.tree), c.tree.root, T, lv, 0)
  <2> SUFFICES ASSUME NEW x \in T
               PROVE  /\ Len(RowOf(c.tree)[x]) <= MaxPerNode
                      /\ x # c.tree.root => MinPerNode <= Len(RowOf(c.tree)[x])
                      /\ lv[x] > 0 => 0 < Len(RowOf(c.tree)[x]) \/ x = 0
    BY DEF Filled
  <2>1. /\ Len(RowOf(c.tree)[x]) <= MaxPerNode
        /\ x # c.tree.root /\ x # c.node => MinPerNode <= Len(RowOf(c.tree)[x])
        /\ lv[x] > 0 => 0 < Len(RowOf(c.tree)[x])
    BY DEF Short
  <2> QED BY <2>1
<1>4. Sound(c.tree, top, K)
  BY <1>3 DEF Sound, Short
<1> QED BY <1>2, <1>4

\* The node, its parent, and its sibling.
Pair(c, T, lv, p, a, L, R, sib) ==
    /\ p = ParOf(c.tree)[c.node] /\ p \in T /\ lv[p] = lv[c.node] + 1 /\ lv[c.node] \in Nat
    /\ \/ c.node = L /\ sib = R
       \/ c.node = R /\ sib = L
    /\ RebalanceCall(c) =
         IF Len(RowOf(c.tree)[sib]) > MinPerNode
         THEN [tree |-> IF c.node = L THEN BorrowRight(c.tree, p, a) ELSE BorrowLeft(c.tree, p, a),
               node |-> 0]
         ELSE IF Merge(c.tree, p, a).nodes[p].elems = <<>>
         THEN [tree |-> SetRoot(Merge(c.tree, p, a), c.node), node |-> 0]
         ELSE [tree |-> Merge(c.tree, p, a), node |-> p]

\* Rebalance on a short node below the root borrows from a brother or merges with
\* it: from the right one where the node is the first child, else from the left.
LEMMA CallPair ==
    ASSUME NEW c, NEW top, NEW T, NEW ch, NEW lv, NEW lo, NEW hi, NEW K,
           Short(c, top, T, ch, lv, lo, hi, K),
           c.node # c.tree.root, ~(MinPerNode <= Len(RowOf(c.tree)[c.node]))
    PROVE  \E p, a, L, R, sib : /\ SideBySide(c.tree, top, T, ch, lv, lo, hi, p, a, L, R)
                                /\ Pair(c, T, lv, p, a, L, R, sib)
<1> DEFINE t == c.tree
           n == c.node
           D == DOMAIN t.nodes
           row == RowOf(t)
           par == ParOf(t)
           p == par[n]
           s == row[p]
           lefts == {j \in DOMAIN s : s[j].left = n}
<1>1. /\ D \in SUBSET (Nat \ {0}) /\ T \in SUBSET D /\ t.root \in T /\ n \in T /\ n # 0
      /\ \A x \in T : /\ row[x] \in Rows /\ Len(row[x]) \in Nat
                      /\ t.nodes[x].elems = row[x] /\ t.nodes[x].parent = par[x]
                      /\ lv[x] \in Nat
      /\ Shape(D, row, par, t.root, top, T, ch, lv, lo, hi)
  BY ShortTypes
<1>2. /\ IsTree(t) /\ TreeShape(t, top, T, ch, lv, lo, hi)
      /\ \A x \in T : /\ x # t.root /\ x # n => MinPerNode <= Len(row[x])
                      /\ lv[x] > 0 => 0 < Len(row[x])
      /\ MinPerNode <= Len(row[n]) + 1 /\ n # t.root
  BY DEF Short
<1>3. RebalanceCall(c) =
        LET i == IF lefts # {} THEN Min(lefts) ELSE Len(s)
            sibling == IF lefts # {} THEN s[i].right ELSE s[i].left
            merged == Merge(t, p, i)
        IN  IF Len(t.nodes[sibling].elems) > MinPerNode
            THEN [tree |-> IF lefts # {} THEN BorrowRight(t, p, i) ELSE BorrowLeft(t, p, i), node |-> 0]
            ELSE IF merged.nodes[p].elems = <<>> THEN [tree |-> SetRoot(merged, n), node |-> 0]
            ELSE [tree |-> merged, node |-> p]
  <2>1. n # 0 /\ n # t.root /\ ~(Len(t.nodes[n].elems) >= MinPerNode)
    <3>1. PICK x \in Nat, y \in Nat : x = Len(row[n]) /\ y = MinPerNode
      BY <1>1, MinFacts
    <3>2. ~(x >= y)
      BY <3>1
    <3> QED BY <1>1, <1>2, <3>1, <3>2
  <2>2. t.nodes[n].parent = p
    BY <1>1
  <2>3. p \in T
    <3> HIDE DEF t, D, row, n
    <3> QED BY <1>1, <1>2, NodeHangs
  <2>4. t.nodes[p].elems = s
    BY <1>1, <2>3
  <2> HIDE DEF row, par
  <2> QED BY <2>1, <2>2, <2>4 DEF RebalanceCall, NoNode, SetRoot
<1> HIDE DEF t, n, D, row, par
<1>4. p \in T /\ lv[p] = lv[n] + 1 /\ \E j \in 1 .. Len(row[p]) + 1 : ch[p][j] = n
  BY <1>1, <1>2, NodeHangs
<1>5. PICK j \in 1 .. Len(s) + 1 : ch[p][j] = n
  BY <1>4
<1>6. /\ s \in Rows /\ Len(s) \in Nat /\ 0 < Len(s) /\ lv[p] > 0 /\ DOMAIN s = 1 .. Len(s)
      /\ lv[n] \in Nat
  <2>1. lv[n] \in Nat /\ lv[p] > 0
    <3>1. PICK x \in Nat : x = lv[n]
      BY <1>1
    <3> QED BY <1>4, <3>1
  <2>2. s \in Rows /\ Len(s) \in Nat /\ 0 < Len(s)
    BY <1>1, <1>2, <1>4, <2>1
  <2> HIDE DEF s
  <2> QED BY <2>1, <2>2, RowFacts
<1>7. \A k \in 1 .. Len(s) : s[k].left = ch[p][k] /\ s[k].right = ch[p][k + 1]
  <2>1. NodeFits(row, par, t.root, T, ch, lv, lo, hi, p)
    BY <1>1, <1>4 DEF Shape
  <2> QED BY <2>1 DEF NodeFits, Links
<1>8. \A k \in 1 .. Len(s) : s[k].left = n <=> k = j
  <2> TAKE k \in 1 .. Len(s)
  <2>1. ch[p][k] = n => k = j
    <3> HAVE ch[p][k] = n
    <3>1. k \in 1 .. Len(row[p]) + 1 /\ j \in 1 .. Len(row[p]) + 1 /\ ch[p][k] = ch[p][j]
      BY <1>5, <1>6
    <3>2. Shape(D, row, par, t.root, top, T, ch, lv, lo, hi) /\ p \in T /\ lv[p] > 0
      BY <1>1, <1>4, <1>6
    <3> HIDE DEF p
    <3> QED BY <3>1, <3>2, GapsDiffer
  <2> QED BY <1>5, <1>7, <2>1
<1> HIDE DEF p
<1>9. ASSUME NEW a \in 1 .. Len(s), NEW sib,
             (n = ch[p][a] /\ sib = ch[p][a + 1]) \/ (n = ch[p][a + 1] /\ sib = ch[p][a])
      PROVE  /\ SideBySide(t, top, T, ch, lv, lo, hi, p, a, ch[p][a], ch[p][a + 1])
             /\ ch[p][a] # ch[p][a + 1] /\ sib \in T
  <2>1. /\ ch[p][a] \in T /\ ch[p][a + 1] \in T /\ ch[p][a] # ch[p][a + 1]
        /\ ch[p][a] # t.root /\ ch[p][a + 1] # t.root
    <3>1. Shape(D, row, par, t.root, top, T, ch, lv, lo, hi) /\ p \in T /\ lv[p] > 0
      BY <1>1, <1>4, <1>6
    <3> QED BY <3>1, Neighbours
  <2>2. \A x \in T : x # t.root => row[x] # <<>>
    <3> TAKE x \in T
    <3> HAVE x # t.root
    <3>1. MinPerNode <= Len(row[x]) + 1
      <4>1. CASE x = n
        BY <1>2, <4>1
      <4>2. CASE x # n
        <5>1. MinPerNode <= Len(row[x]) /\ Len(row[x]) \in Nat
          BY <1>1, <1>2, <4>2
        <5>2. PICK z \in Nat, y \in Nat : z = Len(row[x]) /\ y = MinPerNode
          BY <5>1, MinFacts
        <5> QED BY <5>1, <5>2
      <4> QED BY <4>1, <4>2
    <3>2. Len(row[x]) # 0
      <4>1. PICK z \in Nat, y \in Nat : z = Len(row[x]) /\ y = MinPerNode
        BY <1>1, MinFacts
      <4>2. y <= z + 1 /\ y > 1
        BY <3>1, <4>1, MinFacts
      <4> QED BY <4>1, <4>2
    <3> QED BY <3>2, EmptyRow
  <2> QED BY <1>2, <1>4, <1>6, <1>9, <2>1, <2>2 DEF SideBySide, row
<1>10. CASE j <= Len(s)
  <2> DEFINE sib == ch[p][j + 1]
  <2>1. j \in 1 .. Len(s)
    BY <1>6, <1>10
  <2>2. lefts = {j}
    BY <1>6, <1>8, <2>1
  <2>3. Min(lefts) = j /\ lefts # {}
    <3>1. j \in {j} /\ \A y \in {j} : j <= y
      BY <2>1
    <3>2. \A x \in {j} : (\A y \in {j} : x <= y) => x = j
      OBVIOUS
    <3>3. Min({j}) = j
      BY <3>1, <3>2 DEF Min
    <3> QED BY <2>2, <3>3
  <2>4. s[j].right = sib
    BY <1>7, <2>1
  <2>5. /\ SideBySide(t, top, T, ch, lv, lo, hi, p, j, n, sib)
        /\ n # sib /\ sib \in T
    <3>1. n = ch[p][j]
      BY <1>5
    <3>a. sib = ch[p][j + 1]
      OBVIOUS
    <3> HIDE DEF sib
    <3>2. /\ SideBySide(t, top, T, ch, lv, lo, hi, p, j, ch[p][j], ch[p][j + 1])
          /\ ch[p][j] # ch[p][j + 1] /\ sib \in T
      BY <1>9, <2>1, <3>1, <3>a
    <3> QED BY <3>1, <3>2, <3>a
  <2>6. t.nodes[sib].elems = row[sib]
    BY <1>1, <2>5
  <2> HIDE DEF sib, lefts
  <2>7. RebalanceCall(c) =
         IF Len(row[sib]) > MinPerNode
         THEN [tree |-> BorrowRight(t, p, j), node |-> 0]
         ELSE IF Merge(t, p, j).nodes[p].elems = <<>>
         THEN [tree |-> SetRoot(Merge(t, p, j), n), node |-> 0]
         ELSE [tree |-> Merge(t, p, j), node |-> p]
    BY <1>3, <2>3, <2>4, <2>6
  <2>8. Pair(c, T, lv, p, j, n, sib, sib)
    BY <1>4, <1>6, <2>7 DEF Pair, t, n, row, par, p
  <2> QED BY <2>5, <2>8 DEF t
<1>11. CASE ~(j <= Len(s))
  <2> DEFINE a == Len(s)
             sib == ch[p][a]
  <2>1. j = a + 1 /\ a \in 1 .. Len(s)
    BY <1>6, <1>11
  <2>2. lefts = {}
    <3>1. \A k \in 1 .. Len(s) : k # j
      BY <1>6, <1>11
    <3> QED BY <1>6, <1>8, <3>1
  <2>3. s[a].left = sib
    BY <1>7, <2>1
  <2>4. /\ SideBySide(t, top, T, ch, lv, lo, hi, p, a, sib, n)
        /\ n # sib /\ sib \in T
    <3>1. n = ch[p][a + 1]
      BY <1>5, <2>1
    <3> HIDE DEF a
    <3> QED BY <1>9, <2>1, <3>1
  <2>5. t.nodes[sib].elems = row[sib]
    BY <1>1, <2>4
  <2> HIDE DEF sib, lefts
  <2>6. RebalanceCall(c) =
         IF Len(row[sib]) > MinPerNode
         THEN [tree |-> BorrowLeft(t, p, a), node |-> 0]
         ELSE IF Merge(t, p, a).nodes[p].elems = <<>>
         THEN [tree |-> SetRoot(Merge(t, p, a), n), node |-> 0]
         ELSE [tree |-> Merge(t, p, a), node |-> p]
    BY <1>3, <2>2, <2>3, <2>5
  <2> HIDE DEF a
  <2>7. Pair(c, T, lv, p, a, sib, n, sib)
    BY <1>4, <1>6, <2>4, <2>6 DEF Pair, t, n, row, par, p
  <2> QED BY <2>4, <2>7 DEF t
<1> QED BY <1>10, <1>11

\* An element has been borrowed from the sibling.
BorrowedFrom(c, u, top, T, ch, lv, lo, hi, K, p, a, L, R, sib) ==
    /\ Short(c, top, T, ch, lv, lo, hi, K)
    /\ SideBySide(c.tree, top, T, ch, lv, lo, hi, p, a, L, R)
    /\ (c.node = L /\ sib = R) \/ (c.node = R /\ sib = L)
    /\ Len(RowOf(c.tree)[sib]) > MinPerNode /\ ~(MinPerNode <= Len(RowOf(c.tree)[c.node]))
    /\ AfterBorrow(u, c.tree, top, T, lv, p, L, R, sib, c.node)

\* After borrowing the tree is sound.
LEMMA BorrowSound ==
    ASSUME NEW c, NEW u, NEW top, NEW T, NEW ch, NEW lv, NEW lo, NEW hi, NEW K,
           NEW p, NEW a, NEW L, NEW R, NEW sib,
           BorrowedFrom(c, u, top, T, ch, lv, lo, hi, K, p, a, L, R, sib)
    PROVE  Sound(u, top, K)
<1> DEFINE t == c.tree
           n == c.node
           row == RowOf(t)
           new == RowOf(u)
<1>1. /\ Short(c, top, T, ch, lv, lo, hi, K)
      /\ SideBySide(t, top, T, ch, lv, lo, hi, p, a, L, R)
      /\ (n = L /\ sib = R) \/ (n = R /\ sib = L)
      /\ Len(row[sib]) > MinPerNode /\ ~(MinPerNode <= Len(row[n]))
      /\ AfterBorrow(u, t, top, T, lv, p, L, R, sib, n)
  BY DEF BorrowedFrom
<1>2. /\ Shape(DOMAIN t.nodes, row, ParOf(t), t.root, top, T, ch, lv, lo, hi)
      /\ p \in T /\ lv[p] > 0 /\ a \in 1 .. Len(row[p]) /\ L = ch[p][a] /\ R = ch[p][a + 1]
  BY <1>1 DEF SideBySide, TreeShape
<1>3. /\ L \in T /\ R \in T /\ L # R /\ L # p /\ R # p /\ L # t.root /\ R # t.root
  <2> HIDE DEF t, row
  <2> QED BY <1>2, Neighbours
<1>4. /\ \A x \in T : /\ Len(row[x]) <= MaxPerNode
                      /\ x # t.root /\ x # n => MinPerNode <= Len(row[x])
                      /\ lv[x] > 0 => 0 < Len(row[x])
                      /\ Len(row[x]) \in Nat
      /\ KeysOf(row, T) = K /\ IsTree(t)
      /\ n # t.root => MinPerNode <= Len(row[n]) + 1
  <2>1. \A x \in T : Len(row[x]) \in Nat
    BY <1>1, ShortTypes
  <2> QED BY <1>1, <2>1 DEF Short
<1>5. /\ IsTree(u) /\ u.root = t.root
      /\ Len(new[p]) = Len(row[p])
      /\ Len(new[sib]) = Len(row[sib]) - 1 /\ Len(new[n]) = Len(row[n]) + 1
      /\ \A x \in T : x # p /\ x # L /\ x # R => new[x] = row[x]
      /\ KeysOf(new, T) = KeysOf(row, T)
  BY <1>1 DEF AfterBorrow
<1>6. PICK ch2, lv2, lo2, hi2 : TreeShape(u, top, T, ch2, lv2, lo2, hi2) /\ Agree(T \ {R}, lv2, lv)
  BY <1>1 DEF AfterBorrow
<1> HIDE DEF t, n, row, new
<1>7. PICK x \in Nat, y \in Nat, min \in Nat, max \in Nat :
        x = Len(row[n]) /\ y = Len(row[sib]) /\ min = MinPerNode /\ max = MaxPerNode
  <2>1. Len(row[n]) \in Nat /\ Len(row[sib]) \in Nat
    BY <1>1, <1>3, <1>4
  <2> QED BY <2>1, MinFacts
<1>8. x < min /\ min <= x + 1 /\ y > min /\ y <= max /\ min > 1
  <2>1. ~(min <= x) /\ y > min
    BY <1>1, <1>7
  <2>2. min <= x + 1 /\ y <= max /\ min > 1
    BY <1>1, <1>3, <1>4, <1>7, MinFacts
  <2>3. x < min
    BY <2>1
  <2> QED BY <2>1, <2>2, <2>3
<1>9. ASSUME NEW z \in T
      PROVE  /\ Len(new[z]) <= MaxPerNode
             /\ z # t.root => MinPerNode <= Len(new[z])
             /\ lv2[z] > 0 => 0 < Len(new[z])
  <2>1. CASE z = n
    <3>1. x + 1 <= max /\ min <= x + 1 /\ 0 < x + 1
      BY <1>8
    <3> QED BY <1>5, <1>7, <2>1, <3>1
  <2>2. CASE z = sib
    <3>1. y - 1 <= max /\ min <= y - 1 /\ 0 < y - 1
      BY <1>8
    <3> QED BY <1>5, <1>7, <2>2, <3>1
  <2>3. CASE z # n /\ z # sib
    <3>1. z # L /\ z # R
      BY <1>1, <2>3
    <3>2. Len(new[z]) = Len(row[z])
      BY <1>5, <3>1
    <3>3. lv2[z] = lv[z]
      BY <1>6, <3>1 DEF Agree
    <3> QED BY <1>4, <2>3, <3>2, <3>3
  <2> QED BY <2>1, <2>2, <2>3
<1>10. Filled(new, u.root, T, lv2, 0)
  BY <1>5, <1>9 DEF Filled
<1> QED BY <1>4, <1>5, <1>6, <1>10 DEF Sound, new

\* A call of Rebalance that borrows is the last one, and leaves a sound tree.
LEMMA CallBorrows ==
    ASSUME NEW c, NEW top, NEW T, NEW ch, NEW lv, NEW lo, NEW hi, NEW K,
           NEW p, NEW a, NEW L, NEW R, NEW sib,
           Short(c, top, T, ch, lv, lo, hi, K), ~(MinPerNode <= Len(RowOf(c.tree)[c.node])),
           SideBySide(c.tree, top, T, ch, lv, lo, hi, p, a, L, R), Pair(c, T, lv, p, a, L, R, sib),
           Len(RowOf(c.tree)[sib]) > MinPerNode
    PROVE  RebalanceCall(c).node = 0 /\ Sound(RebalanceCall(c).tree, top, K)
<1>1. L # R
  <2>1. /\ Shape(DOMAIN c.tree.nodes, RowOf(c.tree), ParOf(c.tree), c.tree.root, top, T, ch, lv, lo, hi)
        /\ p \in T /\ lv[p] > 0 /\ a \in 1 .. Len(RowOf(c.tree)[p]) /\ L = ch[p][a] /\ R = ch[p][a + 1]
    BY DEF SideBySide, TreeShape
  <2> QED BY <2>1, Neighbours
<1>2. CASE c.node = L /\ sib = R
  <2>1. RebalanceCall(c) = [tree |-> BorrowRight(c.tree, p, a), node |-> 0]
    BY <1>2 DEF Pair
  <2>2. AfterBorrow(BorrowRight(c.tree, p, a), c.tree, top, T, lv, p, L, R, R, L)
    BY BorrowRightFacts
  <2>3. BorrowedFrom(c, BorrowRight(c.tree, p, a), top, T, ch, lv, lo, hi, K, p, a, L, R, sib)
    BY <1>2, <2>2 DEF BorrowedFrom
  <2>4. Sound(BorrowRight(c.tree, p, a), top, K)
    BY <2>3, BorrowSound
  <2> QED BY <2>1, <2>4
<1>3. CASE c.node = R /\ sib = L
  <2>1. RebalanceCall(c) = [tree |-> BorrowLeft(c.tree, p, a), node |-> 0]
    BY <1>1, <1>3 DEF Pair
  <2>2. AfterBorrow(BorrowLeft(c.tree, p, a), c.tree, top, T, lv, p, L, R, L, R)
    BY BorrowLeftFacts
  <2>3. BorrowedFrom(c, BorrowLeft(c.tree, p, a), top, T, ch, lv, lo, hi, K, p, a, L, R, sib)
    BY <1>3, <2>2 DEF BorrowedFrom
  <2>4. Sound(BorrowLeft(c.tree, p, a), top, K)
    BY <2>3, BorrowSound
  <2> QED BY <2>1, <2>4
<1> QED BY <1>2, <1>3 DEF Pair

\* Two siblings have been merged.
MergedWith(c, u, top, T, ch, lv, lo, hi, K, p, a, L, R, sib) ==
    /\ Short(c, top, T, ch, lv, lo, hi, K)
    /\ SideBySide(c.tree, top, T, ch, lv, lo, hi, p, a, L, R)
    /\ (c.node = L /\ sib = R) \/ (c.node = R /\ sib = L)
    /\ ~(Len(RowOf(c.tree)[sib]) > MinPerNode) /\ ~(MinPerNode <= Len(RowOf(c.tree)[c.node]))
    /\ AfterMerge(u, c.tree, top, T, ch, lv, p, a, L, R)

\* How far the nodes are filled then.
MergeFills(t, u, U, lv, p, L) ==
    /\ \A z \in U : /\ Len(RowOf(u)[z]) \in Nat /\ Len(RowOf(u)[z]) <= MaxPerNode
                    /\ z # t.root /\ z # p => MinPerNode <= Len(RowOf(u)[z])
                    /\ lv[z] > 0 /\ z # p => 0 < Len(RowOf(u)[z])
    /\ p # t.root => MinPerNode <= Len(RowOf(u)[p]) + 1 /\ 0 < Len(RowOf(u)[p])
    /\ RowOf(u)[p] = <<>> => Len(RowOf(t)[p]) = 1

\* After a merge only the parent may be short.
LEMMA MergeFilled ==
    ASSUME NEW c, NEW u, NEW top, NEW T, NEW ch, NEW lv, NEW lo, NEW hi, NEW K,
           NEW p, NEW a, NEW L, NEW R, NEW sib,
           MergedWith(c, u, top, T, ch, lv, lo, hi, K, p, a, L, R, sib)
    PROVE  MergeFills(c.tree, u, T \ {R}, lv, p, L)
<1> DEFINE t == c.tree
           n == c.node
           row == RowOf(t)
           new == RowOf(u)
           U == T \ {R}
<1>1. /\ Short(c, top, T, ch, lv, lo, hi, K)
      /\ SideBySide(t, top, T, ch, lv, lo, hi, p, a, L, R)
      /\ (n = L /\ sib = R) \/ (n = R /\ sib = L)
      /\ ~(Len(row[sib]) > MinPerNode) /\ ~(MinPerNode <= Len(row[n]))
      /\ AfterMerge(u, t, top, T, ch, lv, p, a, L, R)
  BY DEF MergedWith
<1>2. /\ Shape(DOMAIN t.nodes, row, ParOf(t), t.root, top, T, ch, lv, lo, hi)
      /\ p \in T /\ lv[p] > 0 /\ a \in 1 .. Len(row[p]) /\ L = ch[p][a] /\ R = ch[p][a + 1]
  BY <1>1 DEF SideBySide, TreeShape
<1>3. /\ L \in T /\ R \in T /\ L # R /\ L # p /\ R # p /\ L # t.root /\ R # t.root
  <2> HIDE DEF t, row
  <2> QED BY <1>2, Neighbours
<1>4. /\ \A x \in T : /\ Len(row[x]) <= MaxPerNode
                      /\ x # t.root /\ x # n => MinPerNode <= Len(row[x])
                      /\ lv[x] > 0 => 0 < Len(row[x])
                      /\ Len(row[x]) \in Nat
      /\ n # t.root => MinPerNode <= Len(row[n]) + 1
  <2>1. \A x \in T : Len(row[x]) \in Nat
    BY <1>1, ShortTypes
  <2> QED BY <1>1, <2>1 DEF Short
<1>5. /\ Len(new[p]) = Len(row[p]) - 1
      /\ Len(new[L]) = Len(row[L]) + 1 + Len(row[R])
      /\ \A x \in T : x # p /\ x # L /\ x # R => new[x] = row[x]
  BY <1>1 DEF AfterMerge
<1> HIDE DEF t, n, row, new
<1>6. PICK x \in Nat, y \in Nat, z \in Nat, min \in Nat, max \in Nat :
        /\ x = Len(row[n]) /\ y = Len(row[sib]) /\ z = Len(row[p])
        /\ min = MinPerNode /\ max = MaxPerNode
  <2>1. Len(row[n]) \in Nat /\ Len(row[sib]) \in Nat /\ Len(row[p]) \in Nat
    BY <1>1, <1>2, <1>3, <1>4
  <2> QED BY <2>1, MinFacts
<1>7. /\ x < min /\ min <= x + 1 /\ y <= min /\ 0 < z /\ z <= max /\ min > 1 /\ min + min <= max
      /\ p # t.root => min <= z
  <2>1. ~(min <= x) /\ ~(y > min)
    BY <1>1, <1>6
  <2>2. min <= x + 1 /\ 0 < z /\ z <= max /\ min > 1 /\ min + min <= max
    BY <1>1, <1>2, <1>3, <1>4, <1>6, MinFacts
  <2>3. p # t.root => min <= z
    BY <1>1, <1>2, <1>3, <1>4, <1>6
  <2>4. x < min /\ y <= min
    BY <2>1
  <2> QED BY <2>2, <2>3, <2>4
<1>8. Len(new[L]) = x + 1 + y /\ x + 1 + y \in Nat /\ x + 1 + y <= max /\ min <= x + 1 + y /\ 0 < x + 1 + y
  <2>1. Len(new[L]) = x + 1 + y
    <3>1. CASE n = L /\ sib = R
      BY <1>5, <1>6, <3>1
    <3>2. CASE n = R /\ sib = L
      <4>1. Len(new[L]) = y + 1 + x
        BY <1>5, <1>6, <3>2
      <4> QED BY <4>1
    <3> QED BY <1>1, <3>1, <3>2
  <2>2. x + 1 + y <= max /\ min <= x + 1 + y /\ 0 < x + 1 + y
    BY <1>7
  <2> QED BY <2>1, <2>2
<1>9. Len(new[p]) = z - 1 /\ z - 1 \in Nat /\ z - 1 <= max
  BY <1>5, <1>6, <1>7
<1>10. ASSUME NEW v \in U
       PROVE  /\ Len(new[v]) \in Nat /\ Len(new[v]) <= MaxPerNode
              /\ v # t.root /\ v # p => MinPerNode <= Len(new[v])
              /\ lv[v] > 0 /\ v # p => 0 < Len(new[v])
  <2>1. CASE v = p
    BY <1>6, <1>9, <2>1
  <2>2. CASE v = L
    BY <1>6, <1>8, <2>2
  <2>3. CASE v # p /\ v # L
    <3>1. v # R /\ v \in T /\ v # n
      BY <1>1, <2>3
    <3>2. new[v] = row[v]
      BY <1>5, <2>3, <3>1
    <3> QED BY <1>4, <2>3, <3>1, <3>2
  <2> QED BY <2>1, <2>2, <2>3
<1>11. ASSUME p # t.root PROVE MinPerNode <= Len(new[p]) + 1 /\ 0 < Len(new[p])
  <2>1. min <= (z - 1) + 1 /\ 0 < z - 1
    BY <1>7, <1>11
  <2> QED BY <1>6, <1>9, <2>1
<1>12. ASSUME new[p] = <<>> PROVE Len(row[p]) = 1
  <2>1. z - 1 = 0
    BY <1>9, <1>12, EmptyRow
  <2>2. z = 1
    BY <2>1
  <2> QED BY <1>6, <2>2
<1> QED BY <1>10, <1>11, <1>12 DEF MergeFills, t, row, new

\* The parent has an element less, and the next call is for it.
LEMMA MergeShort ==
    ASSUME NEW c, NEW u, NEW top, NEW T, NEW ch, NEW lv, NEW lo, NEW hi, NEW K,
           NEW p, NEW a, NEW L, NEW R, NEW sib,
           MergedWith(c, u, top, T, ch, lv, lo, hi, K, p, a, L, R, sib), RowOf(u)[p] # <<>>,
           NEW d, d = [tree |-> u, node |-> p]
    PROVE  \E ch2, lv2, lo2, hi2 :
              Short(d, top, T \ {R}, ch2, lv2, lo2, hi2, K) /\ Agree(T \ {R}, lv2, lv)
<1> DEFINE t == c.tree
           new == RowOf(u)
           U == T \ {R}
<1>1. /\ IsTree(u) /\ u.root = t.root /\ p \in U
      /\ KeysOf(new, U) = KeysOf(RowOf(t), T)
      /\ \E ch2, lv2, lo2, hi2 : TreeShape(u, top, U, ch2, lv2, lo2, hi2) /\ Agree(U, lv2, lv)
  <2>1. AfterMerge(u, t, top, T, ch, lv, p, a, L, R)
    BY DEF MergedWith
  <2>2. /\ IsTree(u) /\ u.root = t.root /\ p \in T /\ R # p
        /\ KeysOf(new, U) = KeysOf(RowOf(t), T)
    BY <2>1 DEF AfterMerge
  <2>3. \E ch2, lv2, lo2, hi2 : TreeShape(u, top, U, ch2, lv2, lo2, hi2) /\ Agree(U, lv2, lv)
    <3> HIDE DEF U, t
    <3>1. \E ch2, lv2, lo2, hi2 : /\ TreeShape(u, top, U, ch2, lv2, lo2, hi2)
                                  /\ Agree(U, lv2, lv) /\ ch2[p] = ChRemoved(ch[p], a)
      BY <2>1 DEF AfterMerge, U
    <3> QED BY <3>1
  <2> QED BY <2>2, <2>3
<1>2. KeysOf(RowOf(t), T) = K
  BY DEF MergedWith, Short
<1>3. MergeFills(t, u, U, lv, p, L)
  BY MergeFilled
<1> HIDE DEF t, U
<1>4. PICK ch2, lv2, lo2, hi2 : TreeShape(u, top, U, ch2, lv2, lo2, hi2) /\ Agree(U, lv2, lv)
  BY <1>1
<1>5. d.tree = u /\ d.node = p
  OBVIOUS
<1>6. ASSUME NEW z \in U
      PROVE  /\ Len(new[z]) <= MaxPerNode
             /\ z # u.root /\ z # p => MinPerNode <= Len(new[z])
             /\ lv2[z] > 0 => 0 < Len(new[z])
  <2>1. /\ Len(new[z]) \in Nat /\ Len(new[z]) <= MaxPerNode
        /\ z # t.root /\ z # p => MinPerNode <= Len(new[z])
        /\ lv[z] > 0 /\ z # p => 0 < Len(new[z])
    BY <1>3 DEF MergeFills
  <2>2. lv2[z] = lv[z]
    BY <1>4 DEF Agree
  <2>3. z = p => 0 < Len(new[z])
    <3> HAVE z = p
    <3>1. new[z] # <<>> /\ new[z] \in Rows
      <4>1. new[z] # <<>> /\ z \in U
        OBVIOUS
      <4> QED BY <1>4, <4>1, TreeTypes
    <3> HIDE DEF new
    <3> QED BY <3>1, RowFacts
  <2> QED BY <1>1, <2>1, <2>2, <2>3
<1>7. p # u.root => MinPerNode <= Len(new[p]) + 1
  BY <1>1, <1>3 DEF MergeFills
<1>8. Short(d, top, U, ch2, lv2, lo2, hi2, K)
  BY <1>1, <1>2, <1>4, <1>5, <1>6, <1>7 DEF Short
<1> QED BY <1>4, <1>8 DEF U

\* The parent was the root and is out of elements: the left one becomes the
\* root, or the right one, which has been freed.
LEMMA MergeDrops ==
    ASSUME NEW c, NEW u, NEW top, NEW T, NEW ch, NEW lv, NEW lo, NEW hi, NEW K,
           NEW p, NEW a, NEW L, NEW R, NEW sib,
           MergedWith(c, u, top, T, ch, lv, lo, hi, K, p, a, L, R, sib), RowOf(u)[p] = <<>>
    PROVE  Placed(SetRoot(u, c.node), top, K)
<1> DEFINE t == c.tree
           D == DOMAIN u.nodes
           new == RowOf(u)
           par == ParOf(u)
           U == T \ {R}
           U2 == U \ {p}
           w == SetRoot(u, c.node)
<1>1. /\ AfterMerge(u, t, top, T, ch, lv, p, a, L, R)
      /\ (c.node = L /\ sib = R) \/ (c.node = R /\ sib = L)
      /\ KeysOf(RowOf(t), T) = K
      /\ lv[p] > 0 /\ a \in 1 .. Len(RowOf(t)[p]) /\ L = ch[p][a]
  BY DEF MergedWith, Short, SideBySide
<1>2. /\ IsTree(u) /\ DOMAIN u.nodes = DOMAIN t.nodes \ {R} /\ u.root = t.root
      /\ KeysOf(new, U) = KeysOf(RowOf(t), T)
      /\ p \in T /\ L \in T /\ L # p /\ L # R /\ R # p
  BY <1>1 DEF AfterMerge
<1>3. PICK ch2, lv2, lo2, hi2 : /\ TreeShape(u, top, U, ch2, lv2, lo2, hi2)
                                /\ Agree(U, lv2, lv) /\ ch2[p] = ChRemoved(ch[p], a)
  <2> HIDE DEF t
  <2> QED BY <1>1 DEF AfterMerge
<1>4. MergeFills(t, u, U, lv, p, L)
  BY MergeFilled
<1>5. IsTree(w) /\ DOMAIN w.nodes = D /\ w.root = c.node /\ RowOf(w) = new /\ ParOf(w) = par
  BY <1>2, RootFacts
<1> HIDE DEF w
<1>6. CASE c.node = R
  <2>1. RootFreed(w)
    BY <1>2, <1>5, <1>6 DEF RootFreed
  <2> QED BY <2>1 DEF Placed, Uprooted, w
<1>7. CASE c.node = L
  <2>1. Len(RowOf(t)[p]) = 1
    BY <1>4 DEF MergeFills
  <2>2. a = 1
    BY <1>1, <2>1
  <2>3. ch2[p][1] = L
    BY <1>1, <1>3, <2>2 DEF ChRemoved
  <2>4. p = u.root
    <3>1. Len(new[p]) = 0
      BY EmptyRow
    <3> QED BY <1>2, <1>4, <3>1 DEF MergeFills
  <2>5. lv2[p] > 0 /\ p \in U /\ L \in U2
    BY <1>1, <1>2, <1>3 DEF Agree
  <2> HIDE DEF D, new, par, U, U2, t
  <2>6. Shape(D, new, par, p, top, U, ch2, lv2, lo2, hi2)
    BY <1>3, <2>4 DEF TreeShape, D, new, par
  <2>7. \E ch3, lv3, lo3, hi3 : Shape(D, new, par, L, top, U2, ch3, lv3, lo3, hi3) /\ Agree(U2, lv3, lv2)
    BY <2>3, <2>5, <2>6, DropShape DEF U2, new
  <2>8. PICK ch3, lv3, lo3, hi3 : Shape(D, new, par, L, top, U2, ch3, lv3, lo3, hi3) /\ Agree(U2, lv3, lv2)
    BY <2>7
  <2>9. TreeShape(w, top, U2, ch3, lv3, lo3, hi3)
    BY <1>5, <1>7, <2>8 DEF TreeShape
  <2>10. KeysOf(new, U2) = K
    <3>1. KeysOf(new, U2) = KeysOf(new, U)
      <4>1. new[p] = <<>>
        BY DEF new
      <4> QED BY <2>5, <4>1, KeysDropped DEF U2
    <3> QED BY <1>1, <1>2, <3>1
  <2>11. Filled(new, L, U2, lv3, 0)
    <3> SUFFICES ASSUME NEW z \in U2
                 PROVE  /\ Len(new[z]) <= MaxPerNode
                        /\ z # L => MinPerNode <= Len(new[z])
                        /\ lv3[z] > 0 => 0 < Len(new[z]) \/ z = 0
      BY DEF Filled
    <3>1. z \in U /\ z # p
      BY DEF U2
    <3>2. /\ Len(new[z]) \in Nat /\ Len(new[z]) <= MaxPerNode
          /\ z # t.root /\ z # p => MinPerNode <= Len(new[z])
          /\ lv[z] > 0 /\ z # p => 0 < Len(new[z])
      BY <1>4, <3>1 DEF MergeFills, new
    <3>3. lv3[z] = lv[z]
      BY <1>3, <2>8, <3>1 DEF Agree
    <3>4. z # t.root
      BY <1>2, <2>4, <3>1
    <3> QED BY <3>1, <3>2, <3>3, <3>4
  <2>12. Sound(w, top, K)
    BY <1>5, <1>7, <2>9, <2>10, <2>11 DEF Sound
  <2> QED BY <2>12 DEF Placed, w
<1> QED BY <1>1, <1>6, <1>7

\* Without an element to borrow, two siblings are merged.
LEMMA CallMerges ==
    ASSUME NEW c, NEW top, NEW T, NEW ch, NEW lv, NEW lo, NEW hi, NEW K,
           NEW p, NEW a, NEW L, NEW R, NEW sib,
           Short(c, top, T, ch, lv, lo, hi, K), ~(MinPerNode <= Len(RowOf(c.tree)[c.node])),
           SideBySide(c.tree, top, T, ch, lv, lo, hi, p, a, L, R), Pair(c, T, lv, p, a, L, R, sib),
           ~(Len(RowOf(c.tree)[sib]) > MinPerNode)
    PROVE  \/ RebalanceCall(c).node = 0 /\ Placed(RebalanceCall(c).tree, top, K)
           \/ \E U, ch2, lv2, lo2, hi2 :
                /\ Short(RebalanceCall(c), top, U, ch2, lv2, lo2, hi2, K)
                /\ lv2[RebalanceCall(c).tree.root] = lv[c.tree.root]
                /\ lv2[RebalanceCall(c).node] = lv[c.node] + 1
<1> DEFINE u == Merge(c.tree, p, a)
           d == [tree |-> u, node |-> p]
<1>1. /\ p \in T /\ lv[p] = lv[c.node] + 1
      /\ (c.node = L /\ sib = R) \/ (c.node = R /\ sib = L)
      /\ RebalanceCall(c) = IF u.nodes[p].elems = <<>> THEN [tree |-> SetRoot(u, c.node), node |-> 0]
                            ELSE [tree |-> u, node |-> p]
  BY DEF Pair
<1>2. AfterMerge(u, c.tree, top, T, ch, lv, p, a, L, R)
  BY MergeFacts
<1> HIDE DEF u
<1>3. MergedWith(c, u, top, T, ch, lv, lo, hi, K, p, a, L, R, sib)
  BY <1>1, <1>2 DEF MergedWith
<1>4. /\ IsTree(u) /\ DOMAIN u.nodes = DOMAIN c.tree.nodes \ {R} /\ u.root = c.tree.root
      /\ p \in T /\ R # p
  BY <1>2 DEF AfterMerge
<1>5. u.nodes[p].elems = RowOf(u)[p] /\ T \in SUBSET DOMAIN c.tree.nodes /\ c.tree.root \in T
  <2>1. T \in SUBSET DOMAIN c.tree.nodes /\ c.tree.root \in T
    BY ShortTypes
  <2>2. p \in DOMAIN u.nodes
    BY <1>4, <2>1
  <2> QED BY <1>4, <2>1, <2>2, TreeFields
<1>6. CASE RowOf(u)[p] = <<>>
  <2>1. RebalanceCall(c) = [tree |-> SetRoot(u, c.node), node |-> 0]
    BY <1>1, <1>5, <1>6
  <2>2. Placed(SetRoot(u, c.node), top, K)
    BY <1>3, <1>6, MergeDrops
  <2> QED BY <2>1, <2>2
<1>7. CASE RowOf(u)[p] # <<>>
  <2>1. RebalanceCall(c) = d
    BY <1>1, <1>5, <1>7
  <2>2. d = [tree |-> u, node |-> p] /\ d.tree = u /\ d.node = p
    OBVIOUS
  <2> HIDE DEF d
  <2>3. \E ch2, lv2, lo2, hi2 :
           Short(d, top, T \ {R}, ch2, lv2, lo2, hi2, K) /\ Agree(T \ {R}, lv2, lv)
    BY <1>3, <1>7, <2>2, MergeShort
  <2>4. PICK ch2, lv2, lo2, hi2 :
           Short(d, top, T \ {R}, ch2, lv2, lo2, hi2, K) /\ Agree(T \ {R}, lv2, lv)
    BY <2>3
  <2>5. d.tree.root \in T \ {R}
    BY <2>4, ShortTypes
  <2>6. lv2[d.tree.root] = lv[c.tree.root] /\ lv2[d.node] = lv[c.node] + 1
    BY <1>1, <1>4, <2>2, <2>4, <2>5 DEF Agree
  <2> QED BY <2>1, <2>4, <2>6
<1> QED BY <1>6, <1>7

\* Calls that are to come: enough to reach the root.
RebalanceOn(c, top, K, d) ==
    \/ c.node = 0 /\ Placed(c.tree, top, K)
    \/ \E T, ch, lv, lo, hi : /\ Short(c, top, T, ch, lv, lo, hi, K)
                              /\ lv[c.tree.root] + 1 <= lv[c.node] + d

\* A call of Rebalance leaves a sound tree, a tree without its root, or a call of
\* which the same is true with one call less to come.
LEMMA RebalanceStep ==
    ASSUME NEW c, NEW top, NEW K, NEW d \in Nat, RebalanceOn(c, top, K, d + 1)
    PROVE  RebalanceOn(RebalanceCall(c), top, K, d)
<1>1. CASE c.node = 0 /\ Placed(c.tree, top, K)
  <2>1. RebalanceCall(c) = [tree |-> c.tree, node |-> 0]
    BY <1>1 DEF RebalanceCall, NoNode
  <2> QED BY <1>1, <2>1 DEF RebalanceOn
<1>2. CASE \E T, ch, lv, lo, hi : /\ Short(c, top, T, ch, lv, lo, hi, K)
                                  /\ lv[c.tree.root] + 1 <= lv[c.node] + (d + 1)
  <2>1. PICK T, ch, lv, lo, hi : /\ Short(c, top, T, ch, lv, lo, hi, K)
                                 /\ lv[c.tree.root] + 1 <= lv[c.node] + (d + 1)
    BY <1>2
  <2>2. CASE c.node = c.tree.root \/ MinPerNode <= Len(RowOf(c.tree)[c.node])
    <3>1. RebalanceCall(c).node = 0 /\ Sound(RebalanceCall(c).tree, top, K)
      BY <2>1, <2>2, CallDone
    <3> QED BY <3>1 DEF RebalanceOn, Placed
  <2>3. CASE c.node # c.tree.root /\ ~(MinPerNode <= Len(RowOf(c.tree)[c.node]))
    <3>1. PICK p, a, L, R, sib : /\ SideBySide(c.tree, top, T, ch, lv, lo, hi, p, a, L, R)
                                 /\ Pair(c, T, lv, p, a, L, R, sib)
      BY <2>1, <2>3, CallPair
    <3>2. CASE Len(RowOf(c.tree)[sib]) > MinPerNode
      <4>1. RebalanceCall(c).node = 0 /\ Sound(RebalanceCall(c).tree, top, K)
        BY <2>1, <2>3, <3>1, <3>2, CallBorrows
      <4> QED BY <4>1 DEF RebalanceOn, Placed
    <3>3. CASE ~(Len(RowOf(c.tree)[sib]) > MinPerNode)
      <4> DEFINE e == RebalanceCall(c)
      <4>1. \/ e.node = 0 /\ Placed(e.tree, top, K)
            \/ \E U, ch2, lv2, lo2, hi2 :
                 /\ Short(e, top, U, ch2, lv2, lo2, hi2, K)
                 /\ lv2[e.tree.root] = lv[c.tree.root]
                 /\ lv2[e.node] = lv[c.node] + 1
        BY <2>1, <2>3, <3>1, <3>3, CallMerges
      <4> HIDE DEF e
      <4>2. CASE e.node = 0 /\ Placed(e.tree, top, K)
        BY <4>2 DEF RebalanceOn, e
      <4>3. CASE \E U, ch2, lv2, lo2, hi2 :
                 /\ Short(e, top, U, ch2, lv2, lo2, hi2, K)
                 /\ lv2[e.tree.root] = lv[c.tree.root]
                 /\ lv2[e.node] = lv[c.node] + 1
        <5>1. PICK U, ch2, lv2, lo2, hi2 :
                 /\ Short(e, top, U, ch2, lv2, lo2, hi2, K)
                 /\ lv2[e.tree.root] = lv[c.tree.root]
                 /\ lv2[e.node] = lv[c.node] + 1
          BY <4>3
        <5>2. lv[c.tree.root] \in Nat /\ lv[c.node] \in Nat
          BY <2>1, ShortTypes
        <5>3. lv2[e.tree.root] + 1 <= lv2[e.node] + d
          <6>1. PICK x \in Nat, y \in Nat : x = lv[c.tree.root] /\ y = lv[c.node]
            BY <5>2
          <6>2. x + 1 <= y + (d + 1)
            BY <2>1, <6>1
          <6>3. x + 1 <= (y + 1) + d
            BY <6>2
          <6> QED BY <5>1, <6>1, <6>3
        <5> QED BY <5>1, <5>3 DEF RebalanceOn, e
      <4> QED BY <4>1, <4>2, <4>3
    <3> QED BY <3>2, <3>3
  <2> QED BY <2>2, <2>3
<1> QED BY <1>1, <1>2 DEF RebalanceOn

\* No call is left.
LEMMA RebalanceEnds ==
    ASSUME NEW c, NEW top, NEW K, RebalanceOn(c, top, K, 0)
    PROVE  Placed(c.tree, top, K)
<1>1. CASE c.node = 0 /\ Placed(c.tree, top, K)
  BY <1>1
<1>2. CASE \E T, ch, lv, lo, hi : /\ Short(c, top, T, ch, lv, lo, hi, K)
                                  /\ lv[c.tree.root] + 1 <= lv[c.node] + 0
  <2>1. PICK T, ch, lv, lo, hi : /\ Short(c, top, T, ch, lv, lo, hi, K)
                                 /\ lv[c.tree.root] + 1 <= lv[c.node] + 0
    BY <1>2
  <2>2. c.tree.root \in T /\ c.node \in T /\ \A x \in T : lv[x] \in Nat /\ lv[x] <= lv[c.tree.root]
    BY <2>1, ShortTypes
  <2>3. PICK x \in Nat, y \in Nat : x = lv[c.tree.root] /\ y = lv[c.node]
    BY <2>2
  <2>4. x + 1 <= y + 0 /\ y <= x
    BY <2>1, <2>2, <2>3
  <2> QED BY <2>4
<1> QED BY <1>1, <1>2 DEF RebalanceOn

\* What calls itself a number of times is defined.
LEMMA RebalanceCalls ==
    ASSUME NEW start, NEW last \in Nat
    PROVE  \E f : f = [i \in 0 .. last |-> IF i = 0 THEN start ELSE RebalanceCall(f[i - 1])]
<1> DEFINE R(f, j) == f = [i \in 0 .. j |-> IF i = 0 THEN start ELSE RebalanceCall(f[i - 1])]
           J == {j \in Nat : \E f : R(f, j)}
<1>1. 0 \in J
  <2> DEFINE f == [i \in 0 .. 0 |-> start]
  <2>1. R(f, 0)
    OBVIOUS
  <2> HIDE DEF R, f
  <2> QED BY <2>1
<1>2. ASSUME NEW j \in Nat, j \in J PROVE j + 1 \in J
  <2>1. PICK f : R(f, j)
    BY <1>2
  <2> DEFINE g == [i \in 0 .. j + 1 |-> IF i <= j THEN f[i] ELSE RebalanceCall(f[j])]
  <2>2. \A i \in 0 .. j : f[i] = IF i = 0 THEN start ELSE RebalanceCall(f[i - 1])
    BY <2>1
  <2>3. \A i \in 0 .. j + 1 : g[i] = IF i = 0 THEN start ELSE RebalanceCall(g[i - 1])
    <3> SUFFICES ASSUME NEW i \in 0 .. j + 1
                 PROVE  g[i] = IF i = 0 THEN start ELSE RebalanceCall(g[i - 1])
      OBVIOUS
    <3>0. \A x \in 0 .. j : g[x] = f[x] /\ x \in 0 .. j + 1
      OBVIOUS
    <3>4. j + 1 \in 0 .. j + 1 /\ ~(j + 1 <= j) /\ j \in 0 .. j
      OBVIOUS
    <3>5. g[j + 1] = RebalanceCall(f[j])
      BY <3>4
    <3> HIDE DEF g
    <3>1. CASE i = 0
      <4>1. i \in 0 .. j
        BY <3>1
      <4> QED BY <2>2, <3>0, <3>1, <4>1
    <3>2. CASE i # 0 /\ i <= j
      <4>1. i \in 0 .. j /\ i - 1 \in 0 .. j
        BY <3>2
      <4>2. f[i] = RebalanceCall(f[i - 1])
        BY <2>2, <3>2, <4>1
      <4>3. g[i] = f[i] /\ g[i - 1] = f[i - 1]
        BY <3>0, <4>1
      <4> QED BY <3>2, <4>2, <4>3
    <3>3. CASE i = j + 1
      <4>1. i # 0 /\ i - 1 = j
        BY <3>3
      <4>2. g[j] = f[j]
        BY <3>0, <3>4
      <4> QED BY <3>3, <3>5, <4>1, <4>2
    <3> QED BY <3>1, <3>2, <3>3
  <2>4. g = [i \in 0 .. j + 1 |-> g[i]]
    OBVIOUS
  <2> HIDE DEF g
  <2>5. R(g, j + 1)
    BY <2>3, <2>4
  <2> HIDE DEF R
  <2> QED BY <2>5
<1>3. Nat \subseteq J
  <2> HIDE DEF J
  <2> QED BY <1>1, <1>2, SetInduction
<1> QED BY <1>3

\* Rebalance is done before the calls run out.
LEMMA RebalanceRun ==
    ASSUME NEW t, NEW n, NEW top, NEW K, Cardinality(DOMAIN t.nodes) \in Nat,
           RebalanceOn([tree |-> t, node |-> n], top, K, Cardinality(DOMAIN t.nodes))
    PROVE  Placed(BRebalance(t, n), top, K)
<1> DEFINE last == Cardinality(DOMAIN t.nodes)
           start == [tree |-> t, node |-> n]
           Body(f) == [i \in 0 .. last |-> IF i = 0 THEN start ELSE RebalanceCall(f[i - 1])]
           call == CHOOSE f : f = Body(f)
<1>1. BRebalance(t, n) = call[last].tree
  BY DEF BRebalance
<1>2. last \in Nat /\ RebalanceOn(start, top, K, last)
  OBVIOUS
<1> HIDE DEF last, start
<1>3. call = Body(call)
  <2>1. \E f : f = Body(f)
    BY <1>2, RebalanceCalls
  <2> HIDE DEF Body
  <2> QED BY <2>1
<1> HIDE DEF call
<1>4. \A i \in 0 .. last : call[i] = IF i = 0 THEN start ELSE RebalanceCall(call[i - 1])
  BY <1>3
<1> DEFINE J == {i \in Nat : i <= last => RebalanceOn(call[i], top, K, last - i)}
<1>5. 0 \in J
  <2>1. call[0] = start /\ last - 0 = last
    BY <1>2, <1>4
  <2> QED BY <1>2, <2>1
<1>6. ASSUME NEW i \in Nat, i \in J PROVE i + 1 \in J
  <2> SUFFICES ASSUME i + 1 <= last PROVE RebalanceOn(call[i + 1], top, K, last - (i + 1))
    OBVIOUS
  <2>1. i + 1 \in 0 .. last /\ i + 1 # 0 /\ (i + 1) - 1 = i /\ i <= last /\ i \in 0 .. last
    BY <1>2
  <2>2. call[i + 1] = RebalanceCall(call[i])
    BY <1>4, <2>1
  <2> DEFINE d == last - (i + 1)
  <2>3. d \in Nat /\ last - i = d + 1
    BY <1>2, <2>1
  <2> HIDE DEF d
  <2>4. RebalanceOn(call[i], top, K, d + 1)
    BY <1>6, <2>1, <2>3
  <2>5. RebalanceOn(RebalanceCall(call[i]), top, K, d)
    BY <2>3, <2>4, RebalanceStep
  <2> QED BY <2>2, <2>5 DEF d
<1>7. last \in J
  <2> HIDE DEF J
  <2>1. Nat \subseteq J
    BY <1>5, <1>6, SetInduction
  <2> QED BY <1>2, <2>1
<1>8. RebalanceOn(call[last], top, K, 0)
  <2>1. last - last = 0 /\ last <= last
    BY <1>2
  <2> QED BY <1>7, <2>1
<1> QED BY <1>1, <1>8, RebalanceEnds

\* A key is in one place.
LEMMA KeyOnce ==
    ASSUME NEW D, NEW row, NEW par, NEW root, NEW top, NEW T, NEW ch, NEW lv, NEW lo, NEW hi,
           Shape(D, row, par, root, top, T, ch, lv, lo, hi), NEW x \in T, NEW z \in T,
           NEW i \in 1 .. Len(row[x]), NEW j \in 1 .. Len(row[z]), row[x][i].key = row[z][j].key
    PROVE  x = z /\ i = j
<1>1. \A n \in T : /\ lv[n] \in Nat /\ lo[n] \in Int /\ hi[n] \in Int /\ row[n] \in Rows
                   /\ Len(row[n]) \in Nat /\ Ordered(row[n], lo[n], hi[n])
                   /\ \A l \in 1 .. Len(row[n]) : row[n][l].key \in Nat
  BY NodeTypes
<1>2. ASSUME NEW a \in T, NEW b \in T, a # b, lv[a] <= lv[b],
             NEW l \in 1 .. Len(row[a]), NEW m \in 1 .. Len(row[b])
      PROVE  row[a][l].key # row[b][m].key
  <2>1. ApartFrom(row, lv, lo, hi, a, b)
    BY <1>2, NodesApart
  <2>2. row[b][m].key <= lo[a] \/ hi[a] <= row[b][m].key
    BY <2>1 DEF ApartFrom, Outside
  <2>3. lo[a] < row[a][l].key /\ row[a][l].key < hi[a]
    BY <1>1 DEF Ordered
  <2>4. PICK u \in Int, v \in Int, p \in Int, q \in Int :
           u = lo[a] /\ v = hi[a] /\ p = row[a][l].key /\ q = row[b][m].key
    <3>1. lo[a] \in Int /\ hi[a] \in Int /\ row[a][l].key \in Nat /\ row[b][m].key \in Nat
      BY <1>1
    <3>2. row[a][l].key \in Int /\ row[b][m].key \in Int
      BY <3>1
    <3> QED BY <3>1, <3>2
  <2>5. (q <= u \/ v <= q) /\ u < p /\ p < v
    BY <2>2, <2>3, <2>4
  <2>6. p # q
    BY <2>5
  <2> QED BY <2>4, <2>6
<1>3. x = z
  <2>1. PICK u \in Nat, v \in Nat : u = lv[x] /\ v = lv[z]
    BY <1>1
  <2>2. lv[x] <= lv[z] \/ lv[z] <= lv[x]
    <3>1. u <= v \/ v <= u
      OBVIOUS
    <3> QED BY <2>1, <3>1
  <2> QED BY <1>2, <2>2
<1>4. i = j
  <2>1. \A l, m \in 1 .. Len(row[x]) : l < m => row[x][l].key < row[x][m].key
    BY <1>1 DEF Ordered
  <2>2. i \in 1 .. Len(row[x]) /\ j \in 1 .. Len(row[x]) /\ row[x][i].key = row[x][j].key
    BY <1>3
  <2>3. PICK u \in Nat : u = row[x][i].key /\ u = row[x][j].key
    BY <1>1, <2>2
  <2>4. ~(i < j) /\ ~(j < i)
    <3>1. ~(u < u)
      OBVIOUS
    <3> QED BY <2>1, <2>2, <2>3, <3>1
  <2>5. i \in Nat /\ j \in Nat
    BY <1>1, <2>2
  <2> QED BY <2>4, <2>5
<1> QED BY <1>3, <1>4

\* BTreeNode::Remove
LEMMA RemovedFacts ==
    ASSUME NEW s \in Rows, NEW i \in 1 .. Len(s), NEW k, s[i].key = k,
           \A j \in 1 .. Len(s) : s[j].key = k => j = i
    PROVE  Removed(s, k) = RemoveAt(s, i)
<1>1. DOMAIN s = 1 .. Len(s)
  BY RowFacts
<1>2. (CHOOSE j \in DOMAIN s : s[j].key = k) = i
  <2>1. \E j \in DOMAIN s : s[j].key = k
    BY <1>1
  <2>2. (CHOOSE j \in DOMAIN s : s[j].key = k) \in DOMAIN s /\ s[CHOOSE j \in DOMAIN s : s[j].key = k].key = k
    BY <2>1
  <2> QED BY <1>1, <2>2
<1> QED BY <1>2 DEF Removed

\* A row without an element, as the rows of the leaves are.
LEMMA RowWithout ==
    ASSUME NEW s \in Rows, NEW i \in 1 .. Len(s)
    PROVE  /\ KeyRemoved(RemoveAt(s, i), s, i)
           /\ (\A j \in 1 .. Len(s) : s[j].left = 0 /\ s[j].right = 0) =>
                \A j \in 1 .. Len(s) - 1 : RemoveAt(s, i)[j].left = 0 /\ RemoveAt(s, i)[j].right = 0
<1> DEFINE q == RemoveAt(s, i)
<1>1. /\ q \in Rows /\ Len(q) = Len(s) - 1
      /\ \A j \in 1 .. Len(s) - 1 : q[j] = IF j < i THEN s[j] ELSE s[j + 1]
  BY RemoveAtFacts
<1>2. Len(s) \in Nat
  BY RowFacts
<1> HIDE DEF q
<1>3. \A j \in 1 .. i - 1 : q[j] = s[j]
  <2> TAKE j \in 1 .. i - 1
  <2>1. j \in 1 .. Len(s) - 1 /\ j < i
    BY <1>2
  <2> QED BY <1>1, <2>1
<1>4. \A j \in i .. Len(q) : q[j] = s[j + 1]
  <2> TAKE j \in i .. Len(q)
  <2>1. j \in 1 .. Len(s) - 1 /\ ~(j < i)
    BY <1>1, <1>2
  <2> QED BY <1>1, <2>1
<1>5. KeyRemoved(q, s, i)
  BY <1>1, <1>3, <1>4 DEF KeyRemoved
<1>6. ASSUME \A j \in 1 .. Len(s) : s[j].left = 0 /\ s[j].right = 0, NEW j \in 1 .. Len(s) - 1
      PROVE  q[j].left = 0 /\ q[j].right = 0
  <2>1. j \in 1 .. Len(s) /\ j + 1 \in 1 .. Len(s)
    BY <1>2
  <2> QED BY <1>1, <1>6, <2>1
<1> QED BY <1>5, <1>6 DEF q

\* An element set is removed as the one that was there.
LEMMA SetRemoved ==
    ASSUME NEW s \in Rows, NEW i \in 1 .. Len(s), NEW k \in Nat
    PROVE  RemoveAt(KeySet(s, i, k), i) = RemoveAt(s, i)
<1> DEFINE z == KeySet(s, i, k)
<1>1. /\ z \in Rows /\ Len(z) = Len(s) /\ \A j \in 1 .. Len(s) : j # i => z[j] = s[j]
  <2>1. KeyChanged(z, s, i, k) /\ \A j \in 1 .. Len(s) : j # i => z[j] = s[j]
    BY KeySetFacts
  <2> HIDE DEF z
  <2> QED BY <2>1 DEF KeyChanged
<1>2. Len(s) \in Nat
  BY RowFacts
<1> HIDE DEF z
<1> DEFINE a == RemoveAt(z, i)
           b == RemoveAt(s, i)
<1>3. /\ a \in Rows /\ Len(a) = Len(s) - 1
      /\ \A j \in 1 .. Len(s) - 1 : a[j] = IF j < i THEN z[j] ELSE z[j + 1]
  BY <1>1, RemoveAtFacts
<1>4. /\ b \in Rows /\ Len(b) = Len(s) - 1
      /\ \A j \in 1 .. Len(s) - 1 : b[j] = IF j < i THEN s[j] ELSE s[j + 1]
  BY RemoveAtFacts
<1> HIDE DEF a, b
<1>5. \A j \in 1 .. Len(s) - 1 : a[j] = b[j]
  <2> TAKE j \in 1 .. Len(s) - 1
  <2>1. CASE j < i
    <3>1. j \in 1 .. Len(s) /\ j # i
      BY <1>2, <2>1
    <3> QED BY <1>1, <1>3, <1>4, <2>1, <3>1
  <2>2. CASE ~(j < i)
    <3>1. j + 1 \in 1 .. Len(s) /\ j + 1 # i
      BY <1>2, <2>2
    <3> QED BY <1>1, <1>3, <1>4, <2>2, <3>1
  <2> QED BY <2>1, <2>2
<1>6. a = b
  BY <1>3, <1>4, <1>5, SeqEqual DEF Rows
<1> QED BY <1>6 DEF a, b, z

\* A key of an inner node goes away with the element of a leaf next to it.
RekeyStep(D, row, par, root, top, T, ch, lv, lo, hi, y, at, n, i, row1, row2) ==
    /\ Shape(D, row, par, root, top, T, ch, lv, lo, hi) /\ top \in Nat
    /\ y \in T /\ lv[y] = 0 /\ at \in 1 .. Len(row[y])
    /\ n \in T /\ n # y /\ i \in 1 .. Len(row[n])
    /\ (hi[y] = row[n][i].key /\ at = Len(row[y])) \/ (lo[y] = row[n][i].key /\ at = 1)
    /\ row1 \in [D -> Rows] /\ KeyRemoved(row1[y], row[y], at)
    /\ \A j \in 1 .. Len(row1[y]) : row1[y][j].left = 0 /\ row1[y][j].right = 0
    /\ \A x \in D : x # y => row1[x] = row[x]
    /\ row2 \in [D -> Rows] /\ KeyChanged(row2[n], row1[n], i, row[y][at].key)
    /\ \A x \in D : x # n => row2[x] = row1[x]

\* Without the element of the leaf.
LEMMA RekeyFirst ==
    ASSUME NEW D, NEW row, NEW par, NEW root, NEW top, NEW T, NEW ch, NEW lv, NEW lo, NEW hi,
           NEW y, NEW at, NEW n, NEW i, NEW row1, NEW row2,
           RekeyStep(D, row, par, root, top, T, ch, lv, lo, hi, y, at, n, i, row1, row2)
    PROVE  /\ Shape(D, row1, par, root, top, T, ch, lv, lo, hi)
           /\ KeysOf(row1, T) = KeysOf(row, T) \ {row[y][at].key}
<1>1. /\ Shape(D, row, par, root, top, T, ch, lv, lo, hi)
      /\ y \in T /\ lv[y] = 0 /\ at \in 1 .. Len(row[y])
      /\ row1 \in [D -> Rows] /\ KeyRemoved(row1[y], row[y], at)
      /\ \A j \in 1 .. Len(row1[y]) : row1[y][j].left = 0 /\ row1[y][j].right = 0
      /\ \A x \in D : x # y => row1[x] = row[x]
  BY DEF RekeyStep
<1>2. /\ lo[y] \in Int /\ hi[y] \in Int /\ row[y] \in Rows /\ Len(row[y]) \in Nat
      /\ Ordered(row[y], lo[y], hi[y]) /\ T \in SUBSET D
  BY <1>1, NodeTypes
<1>3. at \in Nat /\ row1[y] \in Rows
  BY <1>1, <1>2
<1>4. Ordered(row1[y], lo[y], hi[y])
  <2>1. PICK s, q, l, h : s = row[y] /\ q = row1[y] /\ l = lo[y] /\ h = hi[y]
    OBVIOUS
  <2>2. s \in Rows /\ q \in Rows /\ KeyRemoved(q, s, at) /\ l \in Int /\ h \in Int /\ Ordered(s, l, h)
    BY <1>1, <1>2, <1>3, <2>1
  <2>3. Ordered(q, l, h)
    BY <1>3, <2>2, RemoveOrder
  <2> QED BY <2>1, <2>3
<1>5. \A x \in D \ {y} : row1[x] = row[x]
  BY <1>1
<1>6. Shape(D, row1, par, root, top, T, ch, lv, lo, hi)
  BY <1>1, <1>4, <1>5, LeafShape
<1>7. KeysOf(row1, T) = KeysOf(row, T) \ {row[y][at].key}
  <2>1. \A x \in T \ {y} : row1[x] = row[x]
    BY <1>2, <1>5
  <2> QED BY <1>1, <1>3, <2>1, LeafWithout
<1> QED BY <1>6, <1>7

\* Numbers of a tree without the element of the leaf: those of other nodes.
Numbers(row, T, lo, hi) ==
    {lo[x] : x \in T} \cup {hi[x] : x \in T} \cup KeysOf(row, T)

\* Apart from the leaf and from the keys between its element and the other.
Apart(v, k, pk) == (v < pk /\ v < k) \/ (v > pk /\ v > k) \/ v = k

\* No key or bound of the tree without the element is between the element that is
\* swapped and the one it is swapped with.
LEMMA RekeyApart ==
    ASSUME NEW D, NEW row, NEW par, NEW root, NEW top, NEW T, NEW ch, NEW lv, NEW lo, NEW hi,
           NEW y, NEW at, NEW n, NEW i, NEW row1, NEW row2,
           RekeyStep(D, row, par, root, top, T, ch, lv, lo, hi, y, at, n, i, row1, row2)
    PROVE  /\ row[y][at].key \in Nat /\ row[n][i].key \in Nat /\ row[n][i].key < top
           /\ row[y][at].key # row[n][i].key
           /\ \A v \in Numbers(row1, T, lo, hi) : v \in Int /\ Apart(v, row[n][i].key, row[y][at].key)
<1> DEFINE k == row[n][i].key
           pk == row[y][at].key
<1>1. /\ Shape(D, row, par, root, top, T, ch, lv, lo, hi)
      /\ y \in T /\ lv[y] = 0 /\ at \in 1 .. Len(row[y]) /\ top \in Nat
      /\ n \in T /\ n # y /\ i \in 1 .. Len(row[n])
      /\ (hi[y] = k /\ at = Len(row[y])) \/ (lo[y] = k /\ at = 1)
      /\ KeyRemoved(row1[y], row[y], at)
      /\ \A x \in D : x # y => row1[x] = row[x]
  BY DEF RekeyStep
<1>2. /\ T \in SUBSET D
      /\ \A x \in T : /\ lv[x] \in Nat /\ lo[x] \in Int /\ hi[x] \in Int /\ row[x] \in Rows
                      /\ Len(row[x]) \in Nat /\ Ordered(row[x], lo[x], hi[x])
                      /\ \A j \in 1 .. Len(row[x]) : row[x][j].key \in Nat
  BY <1>1, NodeTypes
<1>3. k \in Nat /\ pk \in Nat /\ lo[y] < pk /\ pk < hi[y] /\ lo[n] < k /\ k < hi[n]
  BY <1>1, <1>2 DEF Ordered
<1>4. k < top
  <2>1. hi[n] <= top
    BY <1>1, InRoot
  <2>2. PICK a \in Int, b \in Int : a = hi[n] /\ b = k
    BY <1>1, <1>2, <1>3
  <2> HIDE DEF k
  <2>3. b < a /\ a <= top
    BY <1>3, <2>1, <2>2
  <2> QED BY <1>1, <2>2, <2>3
<1> HIDE DEF k, pk
<1>5. PICK l \in Int, h \in Int : l = lo[y] /\ h = hi[y]
  BY <1>1, <1>2
<1>6. l < pk /\ pk < h /\ (h = k \/ l = k)
  BY <1>1, <1>3, <1>5
<1>7. pk # k
  BY <1>3, <1>6
<1>8. ASSUME NEW v \in Int, Outside(v, l, h) PROVE Apart(v, k, pk)
  BY <1>3, <1>6, <1>8 DEF Outside, Apart
<1>9. ASSUME NEW x \in T, x # y
      PROVE  /\ Apart(lo[x], k, pk) /\ Apart(hi[x], k, pk)
             /\ \A j \in 1 .. Len(row[x]) : Apart(row[x][j].key, k, pk)
  <2>1. lv[y] <= lv[x]
    <3>1. PICK z \in Nat : z = lv[x]
      BY <1>2
    <3>2. 0 <= z
      OBVIOUS
    <3> QED BY <1>1, <3>1, <3>2
  <2>2. ApartFrom(row, lv, lo, hi, y, x)
    BY <1>1, <1>9, <2>1, NodesApart
  <2>3. /\ Outside(lo[x], l, h) /\ Outside(hi[x], l, h)
        /\ \A j \in 1 .. Len(row[x]) : Outside(row[x][j].key, l, h)
    BY <1>5, <2>2 DEF ApartFrom
  <2>4. \A j \in 1 .. Len(row[x]) : row[x][j].key \in Int
    BY <1>2
  <2> QED BY <1>2, <1>8, <2>3, <2>4
<1>10. Apart(lo[y], k, pk) /\ Apart(hi[y], k, pk)
  <2>1. Outside(l, l, h) /\ Outside(h, l, h)
    BY DEF Outside
  <2> QED BY <1>5, <1>8, <2>1
<1>11. ASSUME NEW j \in 1 .. Len(row[y]), j # at PROVE Apart(row[y][j].key, k, pk)
  <2>1. PICK s, w : s = row[y] /\ w = Len(s)
    OBVIOUS
  <2>2. /\ w \in Nat /\ j \in 1 .. w /\ at \in 1 .. w
        /\ \A a, b \in 1 .. w : a < b => s[a].key < s[b].key
        /\ \A a \in 1 .. w : l < s[a].key /\ s[a].key < h
        /\ (h = k /\ at = w) \/ (l = k /\ at = 1)
        /\ s[j].key \in Nat /\ s[at].key = pk
    BY <1>1, <1>2, <1>5, <2>1 DEF Ordered, pk
  <2>3. PICK v \in Nat : v = s[j].key
    BY <2>2
  <2>4. CASE h = k /\ at = w
    <3>1. j < at
      BY <1>11, <2>2, <2>4
    <3>2. v < pk
      BY <2>2, <2>3, <3>1
    <3>3. v < k
      BY <1>3, <1>6, <2>4, <3>2
    <3> QED BY <2>1, <2>3, <3>2, <3>3 DEF Apart
  <2>5. CASE l = k /\ at = 1
    <3>1. at < j
      BY <1>11, <2>2, <2>5
    <3>2. v > pk
      <4>1. pk < v
        BY <2>2, <2>3, <3>1
      <4> QED BY <1>3, <4>1
    <3>3. v > k
      BY <1>3, <1>6, <2>5, <3>2
    <3> QED BY <2>1, <2>3, <3>2, <3>3 DEF Apart
  <2> QED BY <2>2, <2>4, <2>5
<1>12. ASSUME NEW x \in T, NEW j \in 1 .. Len(row1[x])
       PROVE  row1[x][j].key \in Int /\ Apart(row1[x][j].key, k, pk)
  <2>1. CASE x # y
    <3>1. row1[x] = row[x]
      BY <1>1, <1>2, <2>1
    <3>2. row[x][j].key \in Nat /\ Apart(row[x][j].key, k, pk)
      BY <1>2, <1>9, <2>1, <3>1
    <3> QED BY <3>1, <3>2
  <2>2. CASE x = y
    <3>1. PICK q, s : q = row1[y] /\ s = row[y]
      OBVIOUS
    <3>2. KeyRemoved(q, s, at) /\ Len(s) \in Nat /\ j \in 1 .. Len(q)
      BY <1>1, <1>2, <2>2, <3>1
    <3>3. \E m \in 1 .. Len(s) : m # at /\ q[j].key = s[m].key
      <4>1. /\ Len(q) = Len(s) - 1 /\ at \in 1 .. Len(s)
            /\ \A m \in 1 .. at - 1 : q[m].key = s[m].key
            /\ \A m \in at .. Len(q) : q[m].key = s[m + 1].key
        BY <3>2 DEF KeyRemoved
      <4>2. CASE j < at
        <5>1. j \in 1 .. at - 1 /\ j \in 1 .. Len(s) /\ j # at
          BY <3>2, <4>1, <4>2
        <5> QED BY <4>1, <5>1
      <4>3. CASE ~(j < at)
        <5>1. j \in at .. Len(q) /\ j + 1 \in 1 .. Len(s) /\ j + 1 # at
          BY <3>2, <4>1, <4>3
        <5> QED BY <4>1, <5>1
      <4> QED BY <4>2, <4>3
    <3>4. PICK m \in 1 .. Len(s) : m # at /\ q[j].key = s[m].key
      BY <3>3
    <3>5. Apart(row[y][m].key, k, pk) /\ row[y][m].key \in Nat
      BY <1>1, <1>2, <1>11, <3>1, <3>4
    <3> QED BY <2>2, <3>1, <3>4, <3>5
  <2> QED BY <2>1, <2>2
<1>13. ASSUME NEW v \in Numbers(row1, T, lo, hi) PROVE v \in Int /\ Apart(v, k, pk)
  <2>1. CASE v \in KeysOf(row1, T)
    <3>1. PICK x \in T : v \in RowKeys(row1[x])
      BY <2>1 DEF KeysOf
    <3>2. PICK j \in 1 .. Len(row1[x]) : v = row1[x][j].key
      BY <3>1 DEF RowKeys
    <3> QED BY <1>12, <3>2
  <2>2. CASE \E x \in T : v = lo[x] \/ v = hi[x]
    BY <1>2, <1>9, <1>10, <2>2
  <2> QED BY <2>1, <2>2 DEF Numbers
<1> QED BY <1>3, <1>4, <1>7, <1>13 DEF k, pk

\* With the other key: rows, keys, and bounds are mapped.
LEMMA RekeyLeaf ==
    ASSUME NEW D, NEW row, NEW par, NEW root, NEW top, NEW T, NEW ch, NEW lv, NEW lo, NEW hi,
           NEW y, NEW at, NEW n, NEW i, NEW row1, NEW row2,
           RekeyStep(D, row, par, root, top, T, ch, lv, lo, hi, y, at, n, i, row1, row2)
    PROVE  /\ KeysOf(row2, T) = KeysOf(row, T) \ {row[n][i].key}
           /\ \E lo2, hi2 : Shape(D, row2, par, root, top, T, ch, lv, lo2, hi2)
<1>1. PICK k, pk : k = row[n][i].key /\ pk = row[y][at].key
  OBVIOUS
<1>2. /\ Shape(D, row1, par, root, top, T, ch, lv, lo, hi)
      /\ KeysOf(row1, T) = KeysOf(row, T) \ {pk}
  BY <1>1, RekeyFirst
<1>3. /\ k \in Nat /\ pk \in Nat /\ k < top /\ pk # k
      /\ \A v \in Numbers(row1, T, lo, hi) : v \in Int /\ Apart(v, k, pk)
  BY <1>1, RekeyApart
<1>4. /\ n \in T /\ n # y /\ top \in Nat /\ T \in SUBSET D /\ n \in D
      /\ row1[n] = row[n] /\ i \in 1 .. Len(row1[n]) /\ row1[n][i].key = k
      /\ row2 \in [D -> Rows] /\ KeyChanged(row2[n], row1[n], i, pk)
      /\ \A x \in D : x # n => row2[x] = row1[x]
      /\ row1 \in [D -> Rows]
  <2>1. T \in SUBSET D
    BY <1>2, NodeTypes
  <2>2. /\ n \in T /\ n # y /\ top \in Nat /\ i \in 1 .. Len(row[n])
        /\ row2 \in [D -> Rows] /\ KeyChanged(row2[n], row1[n], i, pk)
        /\ \A x \in D : x # n => row2[x] = row1[x]
        /\ \A x \in D : x # y => row1[x] = row[x]
        /\ row1 \in [D -> Rows]
    BY <1>1 DEF RekeyStep
  <2>3. n \in D
    BY <2>1, <2>2
  <2>4. row1[n] = row[n]
    BY <2>2, <2>3
  <2> QED BY <1>1, <2>1, <2>2, <2>3, <2>4
<1>5. PICK f : f = [v \in Int |-> IF v = k THEN pk ELSE v]
  OBVIOUS
<1>6. f \in [Int -> Int] /\ f[k] = pk /\ \A v \in Int : v # k => f[v] = v
  BY <1>3, <1>5
<1>7. PICK V : V = Numbers(row1, T, lo, hi)
  OBVIOUS
<1>8. V \in SUBSET Int /\ \A v \in V : v \in Int /\ Apart(v, k, pk)
  BY <1>3, <1>7
<1>9. \A v, w \in V : v < w => f[v] < f[w]
  <2> SUFFICES ASSUME NEW v \in V, NEW w \in V, v < w PROVE f[v] < f[w]
    OBVIOUS
  <2>1. v \in Int /\ w \in Int /\ Apart(v, k, pk) /\ Apart(w, k, pk)
    BY <1>8
  <2>2. CASE v = k
    <3>1. w # k
      BY <2>1, <2>2
    <3>2. w > pk
      BY <1>3, <2>1, <2>2, <3>1 DEF Apart
    <3>3. pk < w
      BY <1>3, <2>1, <3>2
    <3> QED BY <1>6, <2>1, <2>2, <3>1, <3>3
  <2>3. CASE v # k /\ w = k
    <3>1. v < pk
      BY <1>3, <2>1, <2>3 DEF Apart
    <3> QED BY <1>6, <2>1, <2>3, <3>1
  <2>4. CASE v # k /\ w # k
    BY <1>6, <2>1, <2>4
  <2> QED BY <2>2, <2>3, <2>4
<1>10. \A x \in T : /\ lo[x] \in V /\ hi[x] \in V
                    /\ \A j \in 1 .. Len(row1[x]) : row1[x][j].key \in V
  BY <1>7 DEF Numbers, KeysOf, RowKeys
<1>11. f[-1] = -1 /\ f[top] = top
  <2>1. -1 \in Int /\ -1 # k /\ top \in Int /\ top # k
    BY <1>3, <1>4
  <2> QED BY <1>6, <2>1
<1>12. \A x \in D : x \notin T => row1[x] = <<>>
  BY <1>2 DEF Shape
<1>13. ASSUME NEW x \in T, NEW j \in 1 .. Len(row1[x]), row1[x][j].key = k
       PROVE  x = n /\ j = i
  BY <1>2, <1>4, <1>13, KeyOnce
<1>14. ASSUME NEW x \in D
       PROVE  /\ Len(row2[x]) = Len(row1[x])
              /\ \A j \in 1 .. Len(row1[x]) : /\ row2[x][j].key = f[row1[x][j].key]
                                              /\ row2[x][j].left = row1[x][j].left
                                              /\ row2[x][j].right = row1[x][j].right
  <2>1. CASE x = n
    <3>1. /\ Len(row2[x]) = Len(row1[x])
          /\ \A j \in 1 .. Len(row1[x]) : /\ row2[x][j].key = IF j = i THEN pk ELSE row1[x][j].key
                                          /\ row2[x][j].left = row1[x][j].left
                                          /\ row2[x][j].right = row1[x][j].right
      BY <1>4, <2>1 DEF KeyChanged
    <3>2. ASSUME NEW j \in 1 .. Len(row1[x]) PROVE row2[x][j].key = f[row1[x][j].key]
      <4>1. CASE j = i
        BY <1>4, <1>6, <2>1, <3>1, <4>1
      <4>2. CASE j # i
        <5>1. row1[x][j].key # k
          BY <1>4, <1>13, <2>1, <4>2
        <5>2. row1[x][j].key \in Int
          BY <1>4, <1>8, <1>10, <2>1
        <5> QED BY <1>6, <3>1, <4>2, <5>1, <5>2
      <4> QED BY <4>1, <4>2
    <3> QED BY <3>1, <3>2
  <2>2. CASE x # n
    <3>1. row2[x] = row1[x]
      BY <1>4, <2>2
    <3>2. ASSUME NEW j \in 1 .. Len(row1[x]) PROVE row2[x][j].key = f[row1[x][j].key]
      <4>1. CASE x \in T
        <5>1. row1[x][j].key # k
          BY <1>13, <2>2, <4>1
        <5>2. row1[x][j].key \in Int
          BY <1>8, <1>10, <4>1
        <5> QED BY <1>6, <3>1, <5>1, <5>2
      <4>2. CASE x \notin T
        <5>1. Len(row1[x]) = 0
          BY <1>12, <4>2, EmptyRow
        <5>2. j \in 1 .. 0
          BY <5>1
        <5> QED BY <5>2
      <4> QED BY <4>1, <4>2
    <3> QED BY <3>1, <3>2
  <2> QED BY <2>1, <2>2
<1>15. \E lo2, hi2 : Shape(D, row2, par, root, top, T, ch, lv, lo2, hi2)
  <2>1. Shape(D, row2, par, root, top, T, ch, lv, [x \in T |-> f[lo[x]]], [x \in T |-> f[hi[x]]])
    <3>1. \A x \in D : RowsMap(row1, row2, f, x)
      BY <1>14 DEF RowsMap
    <3>2. MapStep(D, row1, par, root, top, T, ch, lv, lo, hi, row2, f, V)
      BY <1>2, <1>4, <1>6, <1>8, <1>9, <1>10, <1>11, <3>1 DEF MapStep
    <3> QED BY <3>2, RekeyShape
  <2> QED BY <2>1
<1>16. KeysOf(row2, T) = KeysOf(row, T) \ {k}
  <2>1. KeysOf(row2, T) = {f[v] : v \in KeysOf(row1, T)}
    <3>1. KeysMap(T, row1, row2, f)
      BY <1>4, <1>14 DEF KeysMap
    <3> QED BY <3>1, KeysMapped
  <2>2. k \in KeysOf(row1, T)
    BY <1>4 DEF KeysOf, RowKeys
  <2>3. pk \in KeysOf(row, T)
    <3>1. y \in T /\ at \in 1 .. Len(row[y])
      BY DEF RekeyStep
    <3> QED BY <1>1, <3>1 DEF KeysOf, RowKeys
  <2>4. \A v \in KeysOf(row1, T) : v \in Int
    BY <1>7, <1>8 DEF Numbers
  <2>5. PICK A, B, C : A = KeysOf(row1, T) /\ B = KeysOf(row, T) /\ C = KeysOf(row2, T)
    OBVIOUS
  <2>6. /\ A = B \ {pk} /\ C = {f[v] : v \in A} /\ k \in A /\ pk \in B
        /\ \A v \in A : v \in Int
    BY <1>2, <2>1, <2>2, <2>3, <2>4, <2>5
  <2>7. \A v \in A : v # k => f[v] = v
    BY <1>6, <2>6
  <2>8. C = B \ {k}
    <3>1. ASSUME NEW z \in C PROVE z \in B \ {k}
      <4>1. PICK v \in A : z = f[v]
        BY <2>6
      <4>2. CASE v = k
        BY <1>3, <1>6, <2>6, <4>1, <4>2
      <4>3. CASE v # k
        BY <2>6, <2>7, <4>1, <4>3
      <4> QED BY <4>2, <4>3
    <3>2. ASSUME NEW z \in B \ {k} PROVE z \in C
      <4>1. CASE z = pk
        BY <1>6, <2>6, <4>1
      <4>2. CASE z # pk
        <5>1. z \in A /\ z # k
          BY <2>6, <4>2
        <5>2. f[z] = z
          BY <2>7, <5>1
        <5> QED BY <2>6, <5>1, <5>2
      <4> QED BY <4>1, <4>2
    <3> QED BY <3>1, <3>2
  <2> QED BY <2>5, <2>8
<1> QED BY <1>1, <1>15, <1>16

\* A sound tree with its nodes, their children, levels, and bounds.
Full(t, top, T, ch, lv, lo, hi, K) ==
    /\ IsTree(t) /\ TreeShape(t, top, T, ch, lv, lo, hi)
    /\ Filled(RowOf(t), t.root, T, lv, 0) /\ KeysOf(RowOf(t), T) = K

\* A leaf has lost an element.
DropStep(t, u, top, T, ch, lv, lo, hi, K, lo2, hi2, K2, y) ==
    /\ Full(t, top, T, ch, lv, lo, hi, K) /\ y \in T /\ lv[y] = 0
    /\ IsTree(u) /\ u.root = t.root /\ TreeShape(u, top, T, ch, lv, lo2, hi2)
    /\ KeysOf(RowOf(u), T) = K2
    /\ \A x \in T : x # y => Len(RowOf(u)[x]) = Len(RowOf(t)[x])
    /\ Len(RowOf(u)[y]) = Len(RowOf(t)[y]) - 1

\* The types of a sound tree, and what each node is.
LEMMA FullTypes ==
    ASSUME NEW t, NEW top, NEW T, NEW ch, NEW lv, NEW lo, NEW hi, NEW K,
           Full(t, top, T, ch, lv, lo, hi, K)
    PROVE  /\ IsTree(t) /\ TreeShape(t, top, T, ch, lv, lo, hi) /\ KeysOf(RowOf(t), T) = K
           /\ Shape(DOMAIN t.nodes, RowOf(t), ParOf(t), t.root, top, T, ch, lv, lo, hi)
           /\ DOMAIN t.nodes \in SUBSET (Nat \ {0}) /\ T \in SUBSET DOMAIN t.nodes /\ t.root \in T
           /\ RowOf(t) \in [DOMAIN t.nodes -> Rows] /\ ParOf(t) \in [DOMAIN t.nodes -> Nat]
           /\ \A n \in DOMAIN t.nodes : t.nodes[n].elems = RowOf(t)[n] /\ t.nodes[n].parent = ParOf(t)[n]
           /\ \A n \in T : /\ n # 0 /\ RowOf(t)[n] \in Rows /\ Len(RowOf(t)[n]) \in Nat
                           /\ lv[n] \in Nat /\ lo[n] \in Int /\ hi[n] \in Int
                           /\ Ordered(RowOf(t)[n], lo[n], hi[n]) /\ Links(RowOf(t)[n], ch[n])
                           /\ lv[n] = 0 => \A j \in Nat : ch[n][j] = 0
           /\ \A n \in T : /\ Len(RowOf(t)[n]) <= MaxPerNode
                           /\ n # t.root => MinPerNode <= Len(RowOf(t)[n])
                           /\ lv[n] > 0 => RowOf(t)[n] # <<>>
           /\ \A n \in T : n # t.root => RowOf(t)[n] # <<>>
<1>1. /\ IsTree(t) /\ TreeShape(t, top, T, ch, lv, lo, hi) /\ KeysOf(RowOf(t), T) = K
      /\ Shape(DOMAIN t.nodes, RowOf(t), ParOf(t), t.root, top, T, ch, lv, lo, hi)
      /\ Filled(RowOf(t), t.root, T, lv, 0)
  BY DEF Full, TreeShape
<1>2. /\ RowOf(t) \in [DOMAIN t.nodes -> Rows] /\ ParOf(t) \in [DOMAIN t.nodes -> Nat]
      /\ \A n \in DOMAIN t.nodes : t.nodes[n].elems = RowOf(t)[n] /\ t.nodes[n].parent = ParOf(t)[n]
  BY <1>1, TreeFields
<1>3. DOMAIN t.nodes \in SUBSET (Nat \ {0}) /\ T \in SUBSET DOMAIN t.nodes /\ t.root \in T
  <2>1. PICK D, row, par, root : /\ D = DOMAIN t.nodes /\ row = RowOf(t) /\ par = ParOf(t)
                                 /\ root = t.root
    OBVIOUS
  <2>2. BTyped(D, row, par, root, T, ch, lv, lo, hi)
    BY <1>1, <2>1 DEF Shape
  <2> QED BY <2>1, <2>2 DEF BTyped
<1>4. \A n \in T : /\ n # 0 /\ RowOf(t)[n] \in Rows /\ Len(RowOf(t)[n]) \in Nat
                   /\ lv[n] \in Nat /\ lo[n] \in Int /\ hi[n] \in Int
                   /\ Ordered(RowOf(t)[n], lo[n], hi[n]) /\ Links(RowOf(t)[n], ch[n])
                   /\ lv[n] = 0 => \A j \in Nat : ch[n][j] = 0
  BY <1>1, <1>3, TreeTypes
<1>5. ASSUME NEW n \in T
      PROVE  /\ Len(RowOf(t)[n]) <= MaxPerNode
             /\ n # t.root => MinPerNode <= Len(RowOf(t)[n])
             /\ lv[n] > 0 => RowOf(t)[n] # <<>>
             /\ n # t.root => RowOf(t)[n] # <<>>
  <2>1. PICK s : s = RowOf(t)[n]
    OBVIOUS
  <2>3. /\ Len(s) <= MaxPerNode
        /\ n # t.root => MinPerNode <= Len(s)
        /\ lv[n] > 0 => 0 < Len(s) \/ n = 0
    BY <1>1, <2>1 DEF Filled
  <2>4. 0 < Len(s) => s # <<>>
    BY EmptyRow
  <2>5. MinPerNode <= Len(s) => 0 < Len(s)
    <3>1. Len(s) \in Nat
      BY <1>4, <2>1
    <3> QED BY <3>1, MinFacts
  <2>6. n # 0
    BY <1>4
  <2> QED BY <2>1, <2>3, <2>4, <2>5, <2>6
<1> QED BY <1>1, <1>2, <1>3, <1>4, <1>5

\* Rebalance on a leaf that has lost an element leaves the keys as they are, in a
\* sound tree or in one that has lost its root.
LEMMA DropFacts ==
    ASSUME NEW t, NEW u, NEW top, NEW T, NEW ch, NEW lv, NEW lo, NEW hi, NEW K,
           NEW lo2, NEW hi2, NEW K2, NEW y,
           DropStep(t, u, top, T, ch, lv, lo, hi, K, lo2, hi2, K2, y)
    PROVE  Placed(BRebalance(u, y), top, K2)
<1>1. /\ Full(t, top, T, ch, lv, lo, hi, K) /\ y \in T /\ lv[y] = 0
      /\ IsTree(u) /\ u.root = t.root /\ TreeShape(u, top, T, ch, lv, lo2, hi2)
      /\ KeysOf(RowOf(u), T) = K2
      /\ \A x \in T : x # y => Len(RowOf(u)[x]) = Len(RowOf(t)[x])
      /\ Len(RowOf(u)[y]) = Len(RowOf(t)[y]) - 1
  BY DEF DropStep
<1>2. /\ \A n \in T : Len(RowOf(t)[n]) \in Nat /\ lv[n] \in Nat
      /\ \A n \in T : /\ Len(RowOf(t)[n]) <= MaxPerNode
                      /\ n # t.root => MinPerNode <= Len(RowOf(t)[n])
                      /\ lv[n] > 0 => RowOf(t)[n] # <<>>
  BY <1>1, FullTypes
<1>3. ASSUME NEW x \in T
      PROVE  /\ Len(RowOf(u)[x]) <= MaxPerNode
             /\ x # t.root /\ x # y => MinPerNode <= Len(RowOf(u)[x])
             /\ lv[x] > 0 => 0 < Len(RowOf(u)[x])
  <2>1. PICK a, b : a = Len(RowOf(t)[x]) /\ b = Len(RowOf(u)[x])
    OBVIOUS
  <2>2. /\ a \in Nat /\ a <= MaxPerNode
        /\ x # t.root => MinPerNode <= a
    BY <1>2, <2>1
  <2>3. CASE x = y
    <3>1. b = a - 1 /\ lv[x] = 0
      BY <1>1, <2>1, <2>3
    <3>2. b <= MaxPerNode
      BY <2>2, <3>1, MinFacts
    <3>3. ~(lv[x] > 0)
      BY <3>1
    <3> QED BY <2>1, <2>3, <3>2, <3>3
  <2>4. CASE x # y
    <3>1. b = a
      BY <1>1, <2>1, <2>4
    <3>2. lv[x] > 0 => 0 < a
      <4>1. RowOf(t)[x] \in Rows
        BY <1>1, FullTypes
      <4>2. lv[x] > 0 => RowOf(t)[x] # <<>>
        BY <1>2
      <4>3. lv[x] > 0 => Len(RowOf(t)[x]) # 0
        BY <4>1, <4>2, RowFacts
      <4> QED BY <2>1, <2>2, <4>3
    <3> QED BY <2>1, <2>2, <3>1, <3>2
  <2> QED BY <2>3, <2>4
<1>4. y # t.root => MinPerNode <= Len(RowOf(u)[y]) + 1
  <2>1. PICK a, b : a = Len(RowOf(t)[y]) /\ b = Len(RowOf(u)[y])
    OBVIOUS
  <2>2. /\ a \in Nat /\ b = a - 1
        /\ y # t.root => MinPerNode <= a
    BY <1>1, <1>2, <2>1
  <2>3. b + 1 = a
    BY <2>2
  <2> QED BY <2>1, <2>2, <2>3
<1>5. PICK c : c = [tree |-> u, node |-> y]
  OBVIOUS
<1>6. c.tree = u /\ c.node = y
  BY <1>5
<1>7. Short(c, top, T, ch, lv, lo2, hi2, K2)
  BY <1>1, <1>3, <1>4, <1>6 DEF Short
<1>8. /\ lv[u.root] < Cardinality(DOMAIN u.nodes) /\ Cardinality(DOMAIN u.nodes) \in Nat
      /\ lv[u.root] \in Nat
  <2>1. Shape(DOMAIN u.nodes, RowOf(u), ParOf(u), u.root, top, T, ch, lv, lo2, hi2)
    BY <1>1 DEF TreeShape
  <2>2. u.root \in T
    BY <1>1, FullTypes
  <2> QED BY <1>2, <2>1, <2>2, Height
<1>9. lv[c.tree.root] + 1 <= lv[c.node] + Cardinality(DOMAIN u.nodes)
  <2>1. PICK a \in Nat, b \in Nat : a = lv[u.root] /\ b = Cardinality(DOMAIN u.nodes)
    BY <1>8
  <2>2. a < b
    BY <1>8, <2>1
  <2>3. a + 1 <= 0 + b
    BY <2>2
  <2> QED BY <1>1, <1>6, <2>1, <2>3
<1>10. RebalanceOn(c, top, K2, Cardinality(DOMAIN u.nodes))
  BY <1>7, <1>9 DEF RebalanceOn
<1> QED BY <1>5, <1>8, <1>10, RebalanceRun

\* An element of a leaf is deleted.
LEMMA LeafDeleted ==
    ASSUME NEW t, NEW top, NEW T, NEW ch, NEW lv, NEW lo, NEW hi, NEW K,
           Full(t, top, T, ch, lv, lo, hi, K), NEW n \in T, lv[n] = 0,
           NEW i \in 1 .. Len(RowOf(t)[n]), NEW k, k = RowOf(t)[n][i].key
    PROVE  Placed(DeletedFromLeaf(t, n, k), top, K \ {k})
<1>1. PICK D, row, par : D = DOMAIN t.nodes /\ row = RowOf(t) /\ par = ParOf(t)
  OBVIOUS
<1>2. /\ IsTree(t) /\ KeysOf(row, T) = K /\ Shape(D, row, par, t.root, top, T, ch, lv, lo, hi)
      /\ T \in SUBSET D /\ row \in [D -> Rows] /\ par \in [D -> Nat]
      /\ t.nodes[n].elems = row[n] /\ row[n] \in Rows /\ Len(row[n]) \in Nat
      /\ lo[n] \in Int /\ hi[n] \in Int /\ Ordered(row[n], lo[n], hi[n]) /\ Links(row[n], ch[n])
      /\ \A j \in Nat : ch[n][j] = 0
  BY <1>1, FullTypes
<1>3. PICK s, q, l, h : s = row[n] /\ q = RemoveAt(s, i) /\ l = lo[n] /\ h = hi[n]
  OBVIOUS
<1>4. s \in Rows /\ Len(s) \in Nat /\ i \in 1 .. Len(s) /\ s[i].key = k /\ i \in Nat
  <2>1. i \in 1 .. Len(s) /\ Len(s) \in Nat
    BY <1>1, <1>2, <1>3
  <2>2. i \in Nat
    BY <2>1
  <2> QED BY <1>1, <1>2, <1>3, <2>1, <2>2
<1>5. Removed(s, k) = q
  <2>1. \A j \in 1 .. Len(s) : s[j].key = k => j = i
    BY <1>2, <1>3, <1>4, KeyOnce
  <2> QED BY <1>3, <1>4, <2>1, RemovedFacts
<1>6. /\ KeyRemoved(q, s, i) /\ q \in Rows /\ Len(q) = Len(s) - 1
      /\ \A j \in 1 .. Len(q) : q[j].left = 0 /\ q[j].right = 0
  <2>1. \A j \in 1 .. Len(s) : s[j].left = 0 /\ s[j].right = 0
    <3> TAKE j \in 1 .. Len(s)
    <3>1. j \in Nat /\ j + 1 \in Nat
      BY <1>4
    <3> QED BY <1>2, <1>3, <3>1 DEF Links
  <2>2. KeyRemoved(q, s, i) /\ \A j \in 1 .. Len(s) - 1 : q[j].left = 0 /\ q[j].right = 0
    BY <1>3, <1>4, <2>1, RowWithout
  <2> QED BY <2>2 DEF KeyRemoved
<1>7. Ordered(q, l, h)
  BY <1>2, <1>3, <1>4, <1>6, RemoveOrder
<1>8. PICK u : u = SetElems(t, n, q)
  OBVIOUS
<1>9. DeletedFromLeaf(t, n, k) = BRebalance(u, n)
  <2>1. DeletedFromLeaf(t, n, k) = BRebalance(SetElems(t, n, Removed(t.nodes[n].elems, k)), n)
    BY DEF DeletedFromLeaf, SetElems
  <2> QED BY <1>2, <1>3, <1>5, <1>8, <2>1
<1>10. /\ IsTree(u) /\ DOMAIN u.nodes = D /\ u.root = t.root
       /\ RowOf(u)[n] = q /\ \A x \in D \ {n} : RowOf(u)[x] = row[x]
       /\ \A x \in D : ParOf(u)[x] = par[x]
  <2>1. n \in DOMAIN t.nodes
    BY <1>1, <1>2
  <2> QED BY <1>1, <1>2, <1>6, <1>8, <2>1, ElemsFacts
<1>11. PICK row2 : row2 = RowOf(u)
  OBVIOUS
<1>12. row2 \in [D -> Rows] /\ ParOf(u) = par
  <2>1. RowOf(u) \in [D -> Rows] /\ ParOf(u) \in [D -> Nat]
    BY <1>10, TreeFields
  <2> QED BY <1>2, <1>10, <1>11, <2>1
<1>13. Shape(D, row2, par, t.root, top, T, ch, lv, lo, hi)
  <2>1. \A x \in D \ {n} : row2[x] = row[x]
    BY <1>10, <1>11
  <2>2. row2[n] = q
    BY <1>10, <1>11
  <2>3. Ordered(row2[n], lo[n], hi[n]) /\ \A j \in 1 .. Len(row2[n]) : row2[n][j].left = 0 /\ row2[n][j].right = 0
    BY <1>3, <1>6, <1>7, <2>2
  <2> QED BY <1>2, <1>12, <2>1, <2>3, LeafShape
<1>14. KeysOf(row2, T) = K \ {k}
  <2>1. \A x \in T \ {n} : row2[x] = row[x]
    BY <1>2, <1>10, <1>11
  <2>2. KeyRemoved(row2[n], row[n], i)
    BY <1>3, <1>6, <1>10, <1>11
  <2>3. KeysOf(row2, T) = KeysOf(row, T) \ {row[n][i].key}
    BY <1>2, <1>4, <2>1, <2>2, LeafWithout
  <2> QED BY <1>2, <1>3, <1>4, <2>3
<1>15. DropStep(t, u, top, T, ch, lv, lo, hi, K, lo, hi, K \ {k}, n)
  <2>1. TreeShape(u, top, T, ch, lv, lo, hi)
    BY <1>10, <1>11, <1>12, <1>13 DEF TreeShape
  <2>2. \A x \in T : x # n => Len(RowOf(u)[x]) = Len(RowOf(t)[x])
    BY <1>1, <1>2, <1>10
  <2>3. Len(RowOf(u)[n]) = Len(RowOf(t)[n]) - 1
    BY <1>1, <1>3, <1>6, <1>10
  <2> QED BY <1>10, <1>11, <1>14, <2>1, <2>2, <2>3 DEF DropStep
<1> QED BY <1>9, <1>15, DropFacts

\* The element of an inner node, and its neighbour in a leaf.
InnerStep(t, top, T, ch, lv, lo, hi, K, n, i, k, y, at, x, z) ==
    /\ Full(t, top, T, ch, lv, lo, hi, K) /\ top \in Nat
    /\ n \in T /\ lv[n] > 0 /\ i \in 1 .. Len(RowOf(t)[n]) /\ k = RowOf(t)[n][i].key
    /\ y \in T /\ lv[y] = 0 /\ at \in 1 .. Len(RowOf(t)[y])
    /\ (hi[y] = k /\ at = Len(RowOf(t)[y])) \/ (lo[y] = k /\ at = 1)
    /\ x.node = n /\ x.at = i /\ z.node = y /\ z.at = at

\* What is done before Rebalance is called.
LEMMA InnerRows ==
    ASSUME NEW t, NEW top, NEW T, NEW ch, NEW lv, NEW lo, NEW hi, NEW K,
           NEW n, NEW i, NEW k, NEW y, NEW at, NEW x, NEW z,
           InnerStep(t, top, T, ch, lv, lo, hi, K, n, i, k, y, at, x, z)
    PROVE  \E u : /\ DeletedFromLeaf(SwapElement(t, x, z), y, k) = BRebalance(u, y)
                  /\ IsTree(u) /\ DOMAIN u.nodes = DOMAIN t.nodes /\ u.root = t.root
                  /\ RowOf(u)[y] = RemoveAt(RowOf(t)[y], at)
                  /\ RowOf(u)[n] = KeySet(RowOf(t)[n], i, RowOf(t)[y][at].key)
                  /\ \A w \in DOMAIN t.nodes : w # n /\ w # y => RowOf(u)[w] = RowOf(t)[w]
                  /\ \A w \in DOMAIN t.nodes : ParOf(u)[w] = ParOf(t)[w]
<1>1. /\ Full(t, top, T, ch, lv, lo, hi, K)
      /\ n \in T /\ lv[n] > 0 /\ i \in 1 .. Len(RowOf(t)[n]) /\ k = RowOf(t)[n][i].key
      /\ y \in T /\ lv[y] = 0 /\ at \in 1 .. Len(RowOf(t)[y])
      /\ x.node = n /\ x.at = i /\ z.node = y /\ z.at = at
  BY DEF InnerStep
<1>2. PICK D, row, par : D = DOMAIN t.nodes /\ row = RowOf(t) /\ par = ParOf(t)
  OBVIOUS
<1>3. /\ IsTree(t) /\ Shape(D, row, par, t.root, top, T, ch, lv, lo, hi)
      /\ T \in SUBSET D /\ row[n] \in Rows /\ row[y] \in Rows
  BY <1>1, <1>2, FullTypes
<1>4. n # y /\ n \in D /\ y \in D
  <2>1. lv[n] # 0
    BY <1>1
  <2> QED BY <1>1, <1>3, <2>1
<1>5. PICK v : v = SwapElement(t, x, z)
  OBVIOUS
<1>6. Swapped(v, t, n, i, y, at)
  BY <1>1, <1>2, <1>3, <1>4, <1>5, SwapFacts
<1>7. PICK s, pk : s = row[y] /\ pk = s[at].key
  OBVIOUS
<1>8. /\ IsTree(v) /\ DOMAIN v.nodes = D /\ v.root = t.root
      /\ RowOf(v)[n] = KeySet(row[n], i, pk) /\ RowOf(v)[y] = KeySet(s, at, k)
      /\ \A w \in D \ {n, y} : RowOf(v)[w] = row[w]
      /\ \A w \in D : ParOf(v)[w] = par[w]
  BY <1>1, <1>2, <1>6, <1>7 DEF Swapped
<1>9. PICK r : r = KeySet(s, at, k)
  OBVIOUS
<1>10. s \in Rows /\ at \in 1 .. Len(s) /\ k \in Nat /\ i \in 1 .. Len(row[n]) /\ row[n][i].key = k
  <2>1. s \in Rows /\ at \in 1 .. Len(s) /\ i \in 1 .. Len(row[n]) /\ row[n][i].key = k
    BY <1>1, <1>2, <1>3, <1>7
  <2>2. row[n][i].key \in Nat
    BY <1>3, <2>1, RowFacts
  <2> QED BY <2>1, <2>2
<1>11. /\ KeyChanged(r, s, at, k) /\ r[at] = [key |-> k, left |-> s[at].left, right |-> s[at].right]
       /\ \A j \in 1 .. Len(s) : j # at => r[j] = s[j]
  BY <1>9, <1>10, KeySetFacts
<1>12. r \in Rows /\ Len(r) = Len(s) /\ at \in 1 .. Len(r) /\ r[at].key = k
  BY <1>10, <1>11 DEF KeyChanged
<1>13. \A j \in 1 .. Len(r) : r[j].key = k => j = at
  <2> SUFFICES ASSUME NEW j \in 1 .. Len(r), r[j].key = k, j # at PROVE FALSE
    OBVIOUS
  <2>1. j \in 1 .. Len(row[y]) /\ row[y][j].key = row[n][i].key
    BY <1>7, <1>10, <1>11, <1>12
  <2> QED BY <1>1, <1>3, <1>4, <1>10, <2>1, KeyOnce
<1>14. Removed(r, k) = RemoveAt(s, at)
  <2>1. Removed(r, k) = RemoveAt(r, at)
    BY <1>12, <1>13, RemovedFacts
  <2>2. RemoveAt(r, at) = RemoveAt(s, at)
    BY <1>9, <1>10, SetRemoved
  <2> QED BY <2>1, <2>2
<1>15. PICK q : q = RemoveAt(s, at)
  OBVIOUS
<1>16. q \in Rows
  BY <1>10, <1>15, RemoveAtFacts
<1>17. PICK u : u = SetElems(v, y, q)
  OBVIOUS
<1>18. DeletedFromLeaf(v, y, k) = BRebalance(u, y)
  <2>1. DeletedFromLeaf(v, y, k) = BRebalance(SetElems(v, y, Removed(v.nodes[y].elems, k)), y)
    BY DEF DeletedFromLeaf, SetElems
  <2>2. v.nodes[y].elems = r
    <3>1. v.nodes[y].elems = RowOf(v)[y]
      BY <1>4, <1>8 DEF RowOf
    <3> QED BY <1>8, <1>9, <3>1
  <2> QED BY <1>14, <1>15, <1>17, <2>1, <2>2
<1>19. /\ IsTree(u) /\ DOMAIN u.nodes = D /\ u.root = t.root
       /\ RowOf(u)[y] = q /\ \A w \in D \ {y} : RowOf(u)[w] = RowOf(v)[w]
       /\ \A w \in D : ParOf(u)[w] = ParOf(v)[w]
  <2>1. IsTree(v) /\ y \in DOMAIN v.nodes
    BY <1>4, <1>8
  <2>2. LET a == SetElems(v, y, q) IN
        /\ IsTree(a) /\ DOMAIN a.nodes = DOMAIN v.nodes /\ a.root = v.root
        /\ RowOf(a)[y] = q /\ \A w \in DOMAIN v.nodes \ {y} : RowOf(a)[w] = RowOf(v)[w]
        /\ \A w \in DOMAIN v.nodes : ParOf(a)[w] = ParOf(v)[w]
    BY <1>16, <2>1, ElemsFacts
  <2> QED BY <1>8, <1>17, <2>2
<1>20. /\ RowOf(u)[n] = KeySet(row[n], i, pk)
       /\ \A w \in D : w # n /\ w # y => RowOf(u)[w] = row[w]
       /\ \A w \in D : ParOf(u)[w] = par[w]
  BY <1>4, <1>8, <1>19
<1> QED BY <1>2, <1>5, <1>7, <1>15, <1>18, <1>19, <1>20

\* An element of an inner node is deleted.
LEMMA InnerDeleted ==
    ASSUME NEW t, NEW top, NEW T, NEW ch, NEW lv, NEW lo, NEW hi, NEW K,
           NEW n, NEW i, NEW k, NEW y, NEW at, NEW x, NEW z,
           InnerStep(t, top, T, ch, lv, lo, hi, K, n, i, k, y, at, x, z)
    PROVE  Placed(DeletedFromLeaf(SwapElement(t, x, z), y, k), top, K \ {k})
<1>1. /\ Full(t, top, T, ch, lv, lo, hi, K) /\ top \in Nat
      /\ n \in T /\ lv[n] > 0 /\ i \in 1 .. Len(RowOf(t)[n]) /\ k = RowOf(t)[n][i].key
      /\ y \in T /\ lv[y] = 0 /\ at \in 1 .. Len(RowOf(t)[y])
      /\ (hi[y] = k /\ at = Len(RowOf(t)[y])) \/ (lo[y] = k /\ at = 1)
  BY DEF InnerStep
<1>2. PICK D, row, par, root : /\ D = DOMAIN t.nodes /\ row = RowOf(t) /\ par = ParOf(t)
                               /\ root = t.root
  OBVIOUS
<1>3. /\ Shape(D, row, par, root, top, T, ch, lv, lo, hi) /\ KeysOf(row, T) = K
      /\ T \in SUBSET D /\ row[n] \in Rows /\ row[y] \in Rows
      /\ row \in [D -> Rows] /\ par \in [D -> Nat] /\ Links(row[y], ch[y])
      /\ \A j \in Nat : ch[y][j] = 0
  <2>1. /\ Shape(D, row, par, root, top, T, ch, lv, lo, hi) /\ KeysOf(row, T) = K
        /\ T \in SUBSET D /\ row \in [D -> Rows] /\ par \in [D -> Nat]
    BY <1>1, <1>2, FullTypes
  <2>2. row[n] \in Rows /\ row[y] \in Rows /\ Links(row[y], ch[y])
    BY <1>1, <1>2, FullTypes
  <2>3. \A j \in Nat : ch[y][j] = 0
    BY <1>1, FullTypes
  <2> QED BY <2>1, <2>2, <2>3
<1>4. n # y /\ n \in D /\ y \in D
  <2>1. lv[n] # 0
    BY <1>1
  <2> QED BY <1>1, <1>3, <2>1
<1>5. PICK u : /\ DeletedFromLeaf(SwapElement(t, x, z), y, k) = BRebalance(u, y)
               /\ IsTree(u) /\ DOMAIN u.nodes = D /\ u.root = root
               /\ RowOf(u)[y] = RemoveAt(row[y], at)
               /\ RowOf(u)[n] = KeySet(row[n], i, row[y][at].key)
               /\ \A w \in D : w # n /\ w # y => RowOf(u)[w] = row[w]
               /\ \A w \in D : ParOf(u)[w] = par[w]
  BY <1>2, InnerRows
<1>6. PICK s, q, pk : s = row[y] /\ q = RemoveAt(s, at) /\ pk = row[y][at].key
  OBVIOUS
<1>7. /\ s \in Rows /\ Len(s) \in Nat /\ at \in 1 .. Len(s) /\ pk \in Nat
      /\ i \in 1 .. Len(row[n])
  <2>1. s \in Rows /\ at \in 1 .. Len(s) /\ i \in 1 .. Len(row[n]) /\ pk = s[at].key
    BY <1>1, <1>2, <1>3, <1>6
  <2> QED BY <2>1, RowFacts
<1>8. /\ KeyRemoved(q, s, at) /\ q \in Rows /\ Len(q) = Len(s) - 1
      /\ \A j \in 1 .. Len(q) : q[j].left = 0 /\ q[j].right = 0
  <2>1. \A j \in 1 .. Len(s) : s[j].left = 0 /\ s[j].right = 0
    <3> TAKE j \in 1 .. Len(s)
    <3>1. j \in Nat /\ j + 1 \in Nat
      BY <1>7
    <3> QED BY <1>3, <1>6, <3>1 DEF Links
  <2>2. KeyRemoved(q, s, at) /\ \A j \in 1 .. Len(s) - 1 : q[j].left = 0 /\ q[j].right = 0
    BY <1>6, <1>7, <2>1, RowWithout
  <2> QED BY <2>2 DEF KeyRemoved
<1>9. PICK row1 : row1 = [w \in D |-> IF w = y THEN q ELSE row[w]]
  OBVIOUS
<1>10. row1 \in [D -> Rows] /\ row1[y] = q /\ \A w \in D : w # y => row1[w] = row[w]
  BY <1>3, <1>4, <1>8, <1>9
<1>11. PICK row2 : row2 = RowOf(u)
  OBVIOUS
<1>12. row2 \in [D -> Rows] /\ ParOf(u) = par
  <2>1. RowOf(u) \in [D -> Rows] /\ ParOf(u) \in [D -> Nat]
    BY <1>5, TreeFields
  <2> QED BY <1>3, <1>5, <1>11, <2>1
<1>13. KeyChanged(row2[n], row1[n], i, pk)
  <2>1. row2[n] = KeySet(row[n], i, pk) /\ row1[n] = row[n]
    BY <1>4, <1>5, <1>6, <1>10, <1>11
  <2> QED BY <1>3, <1>7, <2>1, KeySetFacts, ZenonT(60)
<1>14. \A w \in D : w # n => row2[w] = row1[w]
  BY <1>5, <1>6, <1>10, <1>11
<1>15. RekeyStep(D, row, par, root, top, T, ch, lv, lo, hi, y, at, n, i, row1, row2)
  <2>1. KeyRemoved(row1[y], row[y], at) /\ \A j \in 1 .. Len(row1[y]) : row1[y][j].left = 0 /\ row1[y][j].right = 0
    BY <1>6, <1>8, <1>10
  <2>2. (hi[y] = row[n][i].key /\ at = Len(row[y])) \/ (lo[y] = row[n][i].key /\ at = 1)
    BY <1>1, <1>2
  <2>3. KeyChanged(row2[n], row1[n], i, row[y][at].key)
    BY <1>6, <1>13
  <2>4. at \in 1 .. Len(row[y])
    BY <1>6, <1>7
  <2> QED BY <1>1, <1>3, <1>4, <1>7, <1>10, <1>12, <1>14, <2>1, <2>2, <2>3, <2>4 DEF RekeyStep
<1>16. /\ KeysOf(row2, T) = K \ {k}
       /\ \E lo2, hi2 : Shape(D, row2, par, root, top, T, ch, lv, lo2, hi2)
  <2>1. /\ KeysOf(row2, T) = KeysOf(row, T) \ {row[n][i].key}
        /\ \E lo2, hi2 : Shape(D, row2, par, root, top, T, ch, lv, lo2, hi2)
    BY <1>15, RekeyLeaf
  <2> QED BY <1>1, <1>2, <1>3, <2>1
<1>17. PICK lo2, hi2 : Shape(D, row2, par, root, top, T, ch, lv, lo2, hi2)
  BY <1>16
<1>18. DropStep(t, u, top, T, ch, lv, lo, hi, K, lo2, hi2, K \ {k}, y)
  <2>1. TreeShape(u, top, T, ch, lv, lo2, hi2)
    BY <1>5, <1>11, <1>12, <1>17 DEF TreeShape
  <2>2. ASSUME NEW w \in T, w # y PROVE Len(RowOf(u)[w]) = Len(RowOf(t)[w])
    <3>1. CASE w = n
      <4>1. Len(row2[n]) = Len(row1[n]) /\ row1[n] = row[n]
        BY <1>4, <1>10, <1>13 DEF KeyChanged
      <4> QED BY <1>2, <1>11, <3>1, <4>1
    <3>2. CASE w # n
      BY <1>2, <1>3, <1>5, <2>2, <3>2
    <3> QED BY <3>1, <3>2
  <2>3. Len(RowOf(u)[y]) = Len(RowOf(t)[y]) - 1
    BY <1>2, <1>5, <1>6, <1>8
  <2>4. KeysOf(RowOf(u), T) = K \ {k} /\ u.root = t.root
    BY <1>2, <1>5, <1>11, <1>16
  <2> QED BY <1>1, <1>5, <2>1, <2>2, <2>3, <2>4 DEF DropStep
<1> QED BY <1>5, <1>18, DropFacts

\* Delete of a key that is there.
LEMMA DeletedFacts ==
    ASSUME NEW t, NEW top \in Nat, NEW K, Sound(t, top, K), NEW k \in Nat, k < top, k \in K,
           NEW K2, K2 = K \ {k}
    PROVE  Placed(BDeleted(t, k), top, K2)
<1>1. PICK T, ch, lv, lo, hi : Full(t, top, T, ch, lv, lo, hi, K)
  BY DEF Sound, Full
<1>2. /\ TreeShape(t, top, T, ch, lv, lo, hi) /\ KeysOf(RowOf(t), T) = K /\ T \in SUBSET DOMAIN t.nodes
      /\ \A n \in T : t.nodes[n].elems = RowOf(t)[n] /\ lv[n] \in Nat
      /\ \A n \in T : lv[n] > 0 => RowOf(t)[n] # <<>>
      /\ \A n \in T \ {t.root} : RowOf(t)[n] # <<>>
      /\ \A n \in T : /\ RowOf(t)[n] \in Rows /\ Len(RowOf(t)[n]) \in Nat
                      /\ Links(RowOf(t)[n], ch[n])
  BY <1>1, FullTypes
<1>10. TreeShape(t, top, T, ch, lv, lo, hi)
  BY <1>2
<1>11. \A n \in T \ {t.root} : RowOf(t)[n] # <<>>
  BY <1>2
<1>3. PICK x : x = FindElement(t, t.root, k)
  OBVIOUS
<1>4. PICK n, i : /\ n \in T /\ i \in 1 .. Len(RowOf(t)[n]) /\ RowOf(t)[n][i].key = k
                   /\ x = [node |-> n, at |-> i]
  <2>1. \/ x.node = 0 /\ k \notin KeysOf(RowOf(t), T)
        \/ /\ x.node \in T /\ x.node # 0 /\ x.at \in 1 .. Len(RowOf(t)[x.node])
           /\ RowOf(t)[x.node][x.at].key = k /\ k \in KeysOf(RowOf(t), T)
           /\ x = [node |-> x.node, at |-> x.at]
    BY <1>2, <1>3, FindFacts
  <2> QED BY <1>2, <2>1
<1>5. x.node = n /\ x.at = i /\ n \in T
  BY <1>4
<1>6. IsLeaf(t, n) <=> lv[n] = 0
  BY <1>2, <1>5, LeafRow
<1>7. BDeleted(t, k) =
        IF IsLeaf(t, n) THEN DeletedFromLeaf(t, n, k)
        ELSE LET leaf == IF leftDeletion THEN Highest(t, t.nodes[n].elems[i].left)
                         ELSE Lowest(t, t.nodes[n].elems[i].right)
             IN  DeletedFromLeaf(SwapElement(t, x, leaf), leaf.node, k)
  BY <1>3, <1>5 DEF BDeleted
<1>8. CASE lv[n] = 0
  <2>1. Placed(DeletedFromLeaf(t, n, k), top, K \ {k})
    BY <1>1, <1>4, <1>8, LeafDeleted
  <2> QED BY <1>6, <1>7, <1>8, <2>1
<1>9. CASE lv[n] # 0
  <2>1. lv[n] > 0
    <3>1. PICK l \in Nat : l = lv[n]
      BY <1>2, <1>5
    <3>2. l > 0
      BY <1>9, <3>1
    <3> QED BY <3>1, <3>2
  <2>2. PICK s, N : s = RowOf(t)[n] /\ N = Len(s)
    OBVIOUS
  <2>3. s \in Rows /\ N \in Nat /\ i \in 1 .. N /\ i \in 1 .. N + 1 /\ i + 1 \in 1 .. N + 1 /\ s[i].key = k
    <3>1. s \in Rows /\ N \in Nat /\ i \in 1 .. N /\ s[i].key = k
      BY <1>2, <1>4, <2>2
    <3> QED BY <3>1
  <2>4. t.nodes[n].elems[i].left = ch[n][i] /\ t.nodes[n].elems[i].right = ch[n][i + 1]
    <3>1. t.nodes[n].elems = s /\ Links(s, ch[n])
      BY <1>2, <1>5, <2>2
    <3> QED BY <2>2, <2>3, <3>1 DEF Links
  <2>5. /\ ch[n][i] \in T /\ ch[n][i] # t.root /\ hi[ch[n][i]] = k
        /\ ch[n][i + 1] \in T /\ ch[n][i + 1] # t.root /\ lo[ch[n][i + 1]] = k
    <3>1. ch[n][i] \in T /\ ch[n][i] # t.root /\ hi[ch[n][i]] = HiAt(s, i, hi[n])
      BY <1>2, <1>5, <2>1, <2>2, <2>3, TreeChild
    <3>2. ch[n][i + 1] \in T /\ ch[n][i + 1] # t.root /\ lo[ch[n][i + 1]] = LoAt(s, i + 1, lo[n])
      BY <1>2, <1>5, <2>1, <2>2, <2>3, TreeChild
    <3>3. ~(i > Len(s)) /\ i + 1 # 1 /\ (i + 1) - 1 = i
      BY <2>2, <2>3
    <3> QED BY <2>3, <3>1, <3>2, <3>3 DEF HiAt, LoAt
  <2>6. \A y \in T : y # t.root => Len(RowOf(t)[y]) \in 1 .. Len(RowOf(t)[y]) /\ 1 \in 1 .. Len(RowOf(t)[y])
    <3> TAKE y \in T
    <3> HAVE y # t.root
    <3>1. RowOf(t)[y] # <<>> /\ RowOf(t)[y] \in Rows /\ Len(RowOf(t)[y]) \in Nat
      BY <1>2
    <3>2. Len(RowOf(t)[y]) # 0
      BY <3>1, RowFacts
    <3> QED BY <3>1, <3>2
  <2>7. \E y, at : \E z : /\ BDeleted(t, k) = DeletedFromLeaf(SwapElement(t, x, z), y, k)
                          /\ z = [node |-> y, at |-> at]
                          /\ InnerStep(t, top, T, ch, lv, lo, hi, K, n, i, k, y, at, x, z)
    <3>1. CASE leftDeletion
      <4>1. PICK y \in T : /\ Highest(t, ch[n][i]) = [node |-> y, at |-> Len(RowOf(t)[y])]
                           /\ y # t.root /\ lv[y] = 0 /\ hi[y] = hi[ch[n][i]]
        <5>1. PICK w \in T : w = ch[n][i] /\ w # t.root
          BY <2>5
        <5>2. \E y \in T : /\ Highest(t, w) = [node |-> y, at |-> Len(RowOf(t)[y])]
                           /\ y # t.root /\ lv[y] = 0 /\ hi[y] = hi[w]
          BY <1>10, <1>11, <5>1, HighestFacts
        <5> QED BY <5>1, <5>2
      <4>2. PICK at, z : at = Len(RowOf(t)[y]) /\ z = [node |-> y, at |-> at]
        OBVIOUS
      <4>3. z.node = y /\ z.at = at /\ at \in 1 .. Len(RowOf(t)[y])
        BY <2>6, <4>1, <4>2
      <4>4. BDeleted(t, k) = DeletedFromLeaf(SwapElement(t, x, z), y, k)
        BY <1>6, <1>7, <1>9, <2>4, <3>1, <4>1, <4>2, <4>3
      <4>5. hi[y] = k
        BY <2>5, <4>1
      <4>6. InnerStep(t, top, T, ch, lv, lo, hi, K, n, i, k, y, at, x, z)
        BY <1>1, <1>4, <1>5, <2>1, <4>1, <4>2, <4>3, <4>5 DEF InnerStep
      <4> QED BY <4>2, <4>4, <4>6
    <3>2. CASE ~leftDeletion
      <4>1. PICK y \in T : /\ Lowest(t, ch[n][i + 1]) = [node |-> y, at |-> 1]
                           /\ y # t.root /\ lv[y] = 0 /\ lo[y] = lo[ch[n][i + 1]]
        BY <1>10, <1>11, <2>5, LowestFacts
      <4>2. PICK at, z : at = 1 /\ z = [node |-> y, at |-> at]
        OBVIOUS
      <4>3. z.node = y /\ z.at = at /\ at \in 1 .. Len(RowOf(t)[y])
        BY <2>6, <4>1, <4>2
      <4>4. BDeleted(t, k) = DeletedFromLeaf(SwapElement(t, x, z), y, k)
        BY <1>6, <1>7, <1>9, <2>4, <3>2, <4>1, <4>2, <4>3
      <4>5. lo[y] = k
        BY <2>5, <4>1
      <4>6. InnerStep(t, top, T, ch, lv, lo, hi, K, n, i, k, y, at, x, z)
        BY <1>1, <1>4, <1>5, <2>1, <4>1, <4>2, <4>3, <4>5 DEF InnerStep
      <4> QED BY <4>2, <4>4, <4>6
    <3> QED BY <3>1, <3>2
  <2> QED BY <2>7, InnerDeleted
<1> QED BY <1>8, <1>9

-----------------------------------------------------------------------------
(* Traversal                                                               *)

\* A function that calls itself twice at most: for what comes before an
\* element, and for what is below.
WalkAt(first, prev, key, leaf, down, f, x) ==
    (IF first[x] THEN <<>> ELSE Append(f[prev[x]], key[x]))
    \o (IF leaf[x] THEN <<>> ELSE f[down[x]])
Walk(S, first, prev, key, leaf, down, f) ==
    [x \in S |-> WalkAt(first, prev, key, leaf, down, f, x)]

\* Its calls get nearer to an end.
Ranked(S, first, prev, leaf, down, rank, bound) ==
    /\ bound \in Nat
    /\ \A x \in S : /\ rank[x] \in Nat /\ rank[x] < bound
                    /\ ~first[x] => prev[x] \in S /\ rank[prev[x]] < rank[x]
                    /\ ~leaf[x] => down[x] \in S /\ rank[down[x]] < rank[x]

\* Then it is defined.
LEMMA WalkExists ==
    ASSUME NEW S, NEW first, NEW prev, NEW key, NEW leaf, NEW down, NEW rank, NEW bound,
           Ranked(S, first, prev, leaf, down, rank, bound)
    PROVE  \E f : f = Walk(S, first, prev, key, leaf, down, f)
<1> DEFINE At(f, x) == WalkAt(first, prev, key, leaf, down, f, x)
           J == {N \in Nat : \E f : \A x \in S : rank[x] < N => f[x] = At(f, x)}
<1>1. /\ bound \in Nat
      /\ \A x \in S : /\ rank[x] \in Nat /\ rank[x] < bound
                      /\ ~first[x] => prev[x] \in S /\ rank[prev[x]] < rank[x]
                      /\ ~leaf[x] => down[x] \in S /\ rank[down[x]] < rank[x]
  BY DEF Ranked
<1>2. 0 \in J
  <2>1. \A x \in S : ~(rank[x] < 0)
    BY <1>1
  <2> HIDE DEF At
  <2> QED BY <2>1
<1>3. ASSUME NEW N \in Nat, N \in J PROVE N + 1 \in J
  <2>1. PICK f : \A x \in S : rank[x] < N => f[x] = At(f, x)
    BY <1>3
  <2>2. PICK g : g = [x \in S |-> At(f, x)]
    OBVIOUS
  <2>3. \A x \in S : g[x] = At(f, x)
    <3> HIDE DEF At
    <3> QED BY <2>2
  <2>4. \A x \in S : rank[x] < N => g[x] = f[x]
    <3> HIDE DEF At
    <3> QED BY <2>1, <2>3
  <2>5. ASSUME NEW x \in S, rank[x] < N + 1 PROVE At(g, x) = At(f, x)
    <3>1. ~first[x] => g[prev[x]] = f[prev[x]]
      <4> SUFFICES ASSUME ~first[x] PROVE g[prev[x]] = f[prev[x]]
        OBVIOUS
      <4>1. prev[x] \in S /\ rank[prev[x]] < rank[x] /\ rank[prev[x]] \in Nat /\ rank[x] \in Nat
        BY <1>1
      <4>2. rank[prev[x]] < N
        <5>1. PICK a \in Nat, b \in Nat : a = rank[prev[x]] /\ b = rank[x]
          BY <4>1
        <5>2. a < b /\ b < N + 1
          BY <2>5, <4>1, <5>1
        <5> QED BY <5>1, <5>2
      <4> QED BY <2>4, <4>1, <4>2
    <3>2. ~leaf[x] => g[down[x]] = f[down[x]]
      <4> SUFFICES ASSUME ~leaf[x] PROVE g[down[x]] = f[down[x]]
        OBVIOUS
      <4>1. down[x] \in S /\ rank[down[x]] < rank[x] /\ rank[down[x]] \in Nat /\ rank[x] \in Nat
        BY <1>1
      <4>2. rank[down[x]] < N
        <5>1. PICK a \in Nat, b \in Nat : a = rank[down[x]] /\ b = rank[x]
          BY <4>1
        <5>2. a < b /\ b < N + 1
          BY <2>5, <4>1, <5>1
        <5> QED BY <5>1, <5>2
      <4> QED BY <2>4, <4>1, <4>2
    <3> QED BY <3>1, <3>2, Zenon DEF WalkAt
  <2>6. \A x \in S : rank[x] < N + 1 => g[x] = At(g, x)
    <3> HIDE DEF At
    <3> QED BY <2>3, <2>5
  <2>7. N + 1 \in Nat
    OBVIOUS
  <2> HIDE DEF At
  <2> QED BY <2>6, <2>7
<1>4. Nat \subseteq J
  <2> HIDE DEF J
  <2> QED BY <1>2, <1>3, SetInduction
<1>5. PICK f : \A x \in S : rank[x] < bound => f[x] = At(f, x)
  BY <1>1, <1>4
<1>6. \A x \in S : f[x] = At(f, x)
  <2> HIDE DEF At
  <2> QED BY <1>1, <1>5
<1>7. PICK g : g = [x \in S |-> f[x]]
  OBVIOUS
<1>8. \A x \in S : g[x] = f[x]
  BY <1>7
<1>9. ASSUME NEW x \in S PROVE At(g, x) = f[x]
  <2>1. (~first[x] => g[prev[x]] = f[prev[x]]) /\ (~leaf[x] => g[down[x]] = f[down[x]])
    BY <1>1, <1>8
  <2>2. At(g, x) = At(f, x)
    BY <2>1, Zenon DEF WalkAt
  <2> HIDE DEF At
  <2> QED BY <1>6, <2>2
<1>10. g = [x \in S |-> At(g, x)]
  <2> HIDE DEF At
  <2> QED BY <1>7, <1>9
<1> QED BY <1>10 DEF Walk

\* q has the keys of K between two bounds, in order.
Traversed(q, K, lo, hi) ==
    /\ q \in Seq(Nat)
    /\ \A i \in 1 .. Len(q) : q[i] \in K /\ lo < q[i] /\ q[i] < hi
    /\ \A i, j \in 1 .. Len(q) : i < j => q[i] < q[j]
    /\ \A k \in K : lo < k /\ k < hi => \E i \in 1 .. Len(q) : q[i] = k

\* Between the bounds there is no key.
LEMMA TraversedNone ==
    ASSUME NEW K, NEW lo, NEW hi, \A k \in K : ~(lo < k /\ k < hi)
    PROVE  Traversed(<<>>, K, lo, hi)
<1>1. <<>> \in Seq(Nat) /\ Len(<<>>) = 0
  OBVIOUS
<1>2. \A i \in 1 .. 0 : FALSE
  OBVIOUS
<1> QED BY <1>1, <1>2 DEF Traversed

\* What comes before a key, the key, and what comes behind it.
LEMMA TraversedJoin ==
    ASSUME NEW K \in SUBSET Nat, NEW lo \in Int, NEW m \in K, NEW hi \in Int, lo < m, m < hi,
           NEW a, Traversed(a, K, lo, m), NEW b, Traversed(b, K, m, hi)
    PROVE  Traversed(Append(a, m) \o b, K, lo, hi)
<1>1. m \in Nat /\ a \in Seq(Nat) /\ b \in Seq(Nat) /\ Len(a) \in Nat /\ Len(b) \in Nat
  BY DEF Traversed
<1>2. PICK q, x, y, N : /\ q = Append(a, m) \o b /\ x = Len(a) /\ y = Len(b)
                        /\ N = Len(Append(a, m) \o b)
  OBVIOUS
<1>3. /\ q \in Seq(Nat) /\ x \in Nat /\ y \in Nat /\ Len(q) = x + 1 + y
      /\ \A i \in 1 .. x : q[i] = a[i]
      /\ q[x + 1] = m
      /\ \A i \in 1 .. y : q[x + 1 + i] = b[i]
  <2>1. PICK p : p = Append(a, m)
    OBVIOUS
  <2>2. p \in Seq(Nat) /\ Len(p) = x + 1 /\ p[x + 1] = m /\ \A i \in 1 .. x : p[i] = a[i]
    BY <1>1, <1>2, <2>1
  <2>3. q = p \o b
    BY <1>2, <2>1
  <2>10. /\ q \in Seq(Nat) /\ Len(q) = Len(p) + Len(b)
         /\ \A i \in 1 .. Len(p) + Len(b) : q[i] = IF i <= Len(p) THEN p[i] ELSE b[i - Len(p)]
    <3>1. p \in Seq(Nat) /\ b \in Seq(Nat)
      BY <1>1, <2>2
    <3>2. /\ p \o b \in Seq(Nat) /\ Len(p \o b) = Len(p) + Len(b)
          /\ \A i \in 1 .. Len(p) + Len(b) : (p \o b)[i] = IF i <= Len(p) THEN p[i] ELSE b[i - Len(p)]
      BY <3>1, ConcatProperties
    <3> QED BY <2>3, <3>2
  <2>4. q \in Seq(Nat) /\ Len(q) = Len(p) + Len(b)
    BY <2>10
  <2>5. \A i \in 1 .. Len(p) : q[i] = p[i]
    <3> TAKE i \in 1 .. Len(p)
    <3>1. i \in 1 .. Len(p) + Len(b) /\ i <= Len(p)
      BY <1>1, <2>2
    <3> QED BY <2>10, <3>1
  <2>6. \A i \in 1 .. Len(b) : q[Len(p) + i] = b[i]
    <3> TAKE i \in 1 .. Len(b)
    <3>1. /\ Len(p) + i \in 1 .. Len(p) + Len(b) /\ ~(Len(p) + i <= Len(p))
          /\ (Len(p) + i) - Len(p) = i
      BY <1>1, <1>2, <2>2
    <3> QED BY <2>10, <3>1
  <2>7. x \in Nat /\ y \in Nat
    BY <1>1, <1>2
  <2>8. \A i \in 1 .. x : i \in 1 .. Len(p)
    BY <2>2, <2>7
  <2>9. x + 1 \in 1 .. Len(p)
    BY <2>2, <2>7
  <2> QED BY <1>2, <2>2, <2>4, <2>5, <2>6, <2>7, <2>8, <2>9
<1>4. /\ \A i \in 1 .. x : q[i] \in K /\ lo < q[i] /\ q[i] < m
      /\ \A i, j \in 1 .. x : i < j => q[i] < q[j]
      /\ \A k \in K : lo < k /\ k < m => \E i \in 1 .. x : q[i] = k
  BY <1>2, <1>3 DEF Traversed
<1>5. /\ \A i \in 1 .. y : q[x + 1 + i] \in K /\ m < q[x + 1 + i] /\ q[x + 1 + i] < hi
      /\ \A i, j \in 1 .. y : i < j => q[x + 1 + i] < q[x + 1 + j]
      /\ \A k \in K : m < k /\ k < hi => \E i \in 1 .. y : q[x + 1 + i] = k
  <2>1. /\ \A i \in 1 .. y : b[i] \in K /\ m < b[i] /\ b[i] < hi
        /\ \A i, j \in 1 .. y : i < j => b[i] < b[j]
        /\ \A k \in K : m < k /\ k < hi => \E i \in 1 .. y : b[i] = k
    BY <1>2 DEF Traversed
  <2>2. \A i \in 1 .. y : q[x + 1 + i] = b[i]
    BY <1>3
  <2>3. \A i \in 1 .. y : q[x + 1 + i] \in K /\ m < q[x + 1 + i] /\ q[x + 1 + i] < hi
    BY <2>1, <2>2
  <2>4. \A i, j \in 1 .. y : i < j => q[x + 1 + i] < q[x + 1 + j]
    BY <2>1, <2>2
  <2>5. ASSUME NEW k \in K, m < k, k < hi PROVE \E i \in 1 .. y : q[x + 1 + i] = k
    <3>1. PICK i \in 1 .. y : b[i] = k
      BY <2>1, <2>5
    <3> QED BY <2>2, <3>1
  <2> QED BY <2>3, <2>4, <2>5
<1>6. \A i \in 1 .. Len(q) : q[i] \in Nat
  <2>1. q \in Seq(Nat)
    BY <1>3
  <2> QED BY <2>1
<1>7. ASSUME NEW i \in 1 .. Len(q)
      PROVE  i \in 1 .. x \/ i = x + 1 \/ \E j \in 1 .. y : i = x + 1 + j
  <2>1. CASE i > x + 1
    <3>1. i - x - 1 \in 1 .. y /\ i = x + 1 + (i - x - 1)
      BY <1>3, <2>1
    <3> QED BY <3>1
  <2> QED BY <1>3, <2>1
<1>8. ASSUME NEW i \in 1 .. Len(q) PROVE q[i] \in K /\ lo < q[i] /\ q[i] < hi
  <2>1. PICK v \in Nat : v = q[i]
    BY <1>6
  <2>2. CASE i \in 1 .. x
    <3>1. q[i] \in K /\ lo < v /\ v < m
      BY <1>4, <2>1, <2>2
    <3>2. v < hi
      BY <1>1, <3>1
    <3> QED BY <2>1, <3>1, <3>2
  <2>3. CASE i = x + 1
    BY <1>3, <2>3
  <2>4. CASE \E j \in 1 .. y : i = x + 1 + j
    <3>1. q[i] \in K /\ m < v /\ v < hi
      BY <1>5, <2>1, <2>4
    <3>2. lo < v
      BY <1>1, <3>1
    <3> QED BY <2>1, <3>1, <3>2
  <2> QED BY <1>7, <2>2, <2>3, <2>4
<1>9. ASSUME NEW i \in 1 .. Len(q), NEW j \in 1 .. Len(q), i < j PROVE q[i] < q[j]
  <2>1. PICK v \in Nat, w \in Nat : v = q[i] /\ w = q[j]
    BY <1>6
  <2>2. CASE i \in 1 .. x /\ j \in 1 .. x
    BY <1>4, <1>9, <2>2
  <2>3. CASE i \in 1 .. x /\ ~(j \in 1 .. x)
    <3>1. v < m
      BY <1>4, <2>1, <2>3
    <3>2. m <= w
      <4>1. CASE j = x + 1
        BY <1>1, <1>3, <2>1, <4>1
      <4>2. CASE j # x + 1
        <5>1. PICK l \in 1 .. y : j = x + 1 + l
          BY <1>7, <2>3, <4>2
        <5>2. m < w
          BY <1>5, <2>1, <5>1
        <5> QED BY <1>1, <5>2
      <4> QED BY <4>1, <4>2
    <3> QED BY <1>1, <2>1, <3>1, <3>2
  <2>4. CASE i = x + 1
    <3>1. ~(j \in 1 .. x) /\ j # x + 1
      BY <1>3, <1>9, <2>4
    <3>2. PICK l \in 1 .. y : j = x + 1 + l
      BY <1>7, <3>1
    <3>3. m < q[j]
      BY <1>5, <3>2
    <3> QED BY <1>3, <2>4, <3>3
  <2>5. CASE ~(i \in 1 .. x) /\ i # x + 1
    <3>1. PICK c \in 1 .. y : i = x + 1 + c
      BY <1>7, <2>5
    <3>2. ~(j \in 1 .. x) /\ j # x + 1
      BY <1>3, <1>9, <3>1
    <3>3. PICK l \in 1 .. y : j = x + 1 + l
      BY <1>7, <3>2
    <3>4. c < l
      BY <1>3, <1>9, <3>1, <3>3
    <3> QED BY <1>5, <3>1, <3>3, <3>4
  <2> QED BY <2>2, <2>3, <2>4, <2>5
<1>10. ASSUME NEW k \in K, lo < k, k < hi PROVE \E i \in 1 .. Len(q) : q[i] = k
  <2>0. k \in Nat
    OBVIOUS
  <2>1. CASE k < m
    <3>1. PICK i \in 1 .. x : q[i] = k
      BY <1>4, <1>10, <2>1
    <3>2. i \in 1 .. Len(q)
      BY <1>3
    <3> QED BY <3>1, <3>2
  <2>2. CASE k = m
    <3>1. x + 1 \in 1 .. Len(q)
      BY <1>3
    <3> QED BY <1>3, <2>2, <3>1
  <2>3. CASE m < k
    <3>1. PICK i \in 1 .. y : q[x + 1 + i] = k
      BY <1>5, <1>10, <2>3
    <3>2. x + 1 + i \in 1 .. Len(q)
      BY <1>3
    <3> QED BY <3>1, <3>2
  <2>4. k < m \/ k = m \/ m < k
    BY <1>1, <2>0
  <2> QED BY <2>1, <2>2, <2>3, <2>4
<1>11. Traversed(q, K, lo, hi)
  BY <1>3, <1>8, <1>9, <1>10 DEF Traversed
<1> QED BY <1>2, <1>11

\* Where a traversal can be, and what it calls.
Places(t) == (DOMAIN t.nodes) \X (1 .. MaxPerNode + 1)
ChildOf(t, x) == BChild(t.nodes[x[1]].elems, x[2])
FirstOf(t) == [x \in Places(t) |-> x[2] = 1]
PrevOf(t) == [x \in Places(t) |-> <<x[1], x[2] - 1>>]
KeyOf(t) == [x \in Places(t) |-> t.nodes[x[1]].elems[x[2] - 1].key]
LeafOf(t) == [x \in Places(t) |-> t.nodes[x[1]].elems = <<>> \/ ChildOf(t, x) = NoNode]
DownOf(t) == [x \in Places(t) |-> <<ChildOf(t, x), Len(t.nodes[ChildOf(t, x)].elems) + 1>>]

\* They are functions of a place.
LEMMA PlaceFacts ==
    ASSUME NEW t, NEW n \in DOMAIN t.nodes, NEW i \in 1 .. MaxPerNode + 1
    PROVE  /\ <<n, i>> \in Places(t) /\ (FirstOf(t)[<<n, i>>] <=> i = 1)
           /\ PrevOf(t)[<<n, i>>] = <<n, i - 1>>
           /\ KeyOf(t)[<<n, i>>] = t.nodes[n].elems[i - 1].key
           /\ LeafOf(t)[<<n, i>>] <=> t.nodes[n].elems = <<>> \/ BChild(t.nodes[n].elems, i) = 0
           /\ DownOf(t)[<<n, i>>] = <<BChild(t.nodes[n].elems, i),
                                      Len(t.nodes[BChild(t.nodes[n].elems, i)].elems) + 1>>
<1>1. PICK x : x = <<n, i>>
  OBVIOUS
<1>2. x \in Places(t) /\ x[1] = n /\ x[2] = i
  BY <1>1 DEF Places
<1>3. ChildOf(t, x) = BChild(t.nodes[n].elems, i)
  BY <1>2 DEF ChildOf
<1>4. /\ FirstOf(t)[x] <=> i = 1
      /\ LeafOf(t)[x] <=> t.nodes[n].elems = <<>> \/ BChild(t.nodes[n].elems, i) = 0
  BY <1>2, <1>3 DEF FirstOf, LeafOf, NoNode
<1>5. /\ PrevOf(t)[x] = <<n, i - 1>> /\ KeyOf(t)[x] = t.nodes[n].elems[i - 1].key
      /\ DownOf(t)[x] = <<BChild(t.nodes[n].elems, i),
                          Len(t.nodes[BChild(t.nodes[n].elems, i)].elems) + 1>>
  BY <1>2, <1>3 DEF PrevOf, KeyOf, DownOf
<1> QED BY <1>1, <1>2, <1>4, <1>5

\* The child a traversal goes to, behind the last element too.
LEMMA PlaceChild ==
    ASSUME NEW t, NEW top, NEW T, NEW ch, NEW lv, NEW lo, NEW hi, NEW K,
           Full(t, top, T, ch, lv, lo, hi, K), NEW n \in T, RowOf(t)[n] # <<>>,
           NEW i \in 1 .. MaxPerNode + 1
    PROVE  LET c == BChild(t.nodes[n].elems, i) IN
           /\ lv[n] = 0 => c = 0
           /\ lv[n] # 0 => /\ c \in T /\ c # 0 /\ lv[c] + 1 = lv[n]
                           /\ Len(t.nodes[c].elems) + 1 \in 1 .. MaxPerNode + 1
           /\ i \in 1 .. Len(RowOf(t)[n]) + 1 => c = ch[n][i]
<1>1. PICK s, d, N : s = RowOf(t)[n] /\ d = ch[n] /\ N = Len(s)
  OBVIOUS
<1>2. /\ TreeShape(t, top, T, ch, lv, lo, hi) /\ T \in SUBSET DOMAIN t.nodes
      /\ \A m \in T : t.nodes[m].elems = RowOf(t)[m]
      /\ \A m \in T : /\ m # 0 /\ RowOf(t)[m] \in Rows /\ Len(RowOf(t)[m]) \in Nat
                      /\ lv[m] \in Nat /\ Len(RowOf(t)[m]) <= MaxPerNode
  BY FullTypes
<1>3. /\ t.nodes[n].elems = s /\ s \in Rows /\ N \in Nat /\ s # <<>> /\ Links(s, d)
      /\ lv[n] \in Nat
      /\ lv[n] = 0 => \A j \in Nat : d[j] = 0
  BY <1>1, <1>2, FullTypes
<1>4. i \in Nat /\ i >= 1 /\ N # 0
  <2>1. MaxPerNode \in Nat
    BY MinFacts
  <2> QED BY <1>1, <1>3, <2>1, RowFacts
<1>5. PICK j \in 1 .. N + 1 : /\ BChild(s, i) = d[j] /\ j \in Nat
                              /\ i \in 1 .. N + 1 => j = i
  <2>1. CASE i \in 1 .. N + 1
    <3>1. BChild(s, i) = d[i]
      BY <1>1, <1>3, <2>1, ChildAt
    <3> QED BY <1>4, <2>1, <3>1
  <2>2. CASE ~(i \in 1 .. N + 1)
    <3>1. i > N /\ N + 1 > N /\ N + 1 \in 1 .. N + 1 /\ N + 1 \in Nat
      BY <1>3, <1>4, <2>2
    <3>2. BChild(s, i) = Last(s).right /\ BChild(s, N + 1) = Last(s).right
      BY <1>1, <3>1 DEF BChild
    <3>3. BChild(s, N + 1) = d[N + 1]
      BY <1>1, <1>3, <3>1, ChildAt
    <3> QED BY <2>2, <3>1, <3>2, <3>3
  <2> QED BY <2>1, <2>2
<1>6. PICK c : c = BChild(t.nodes[n].elems, i)
  OBVIOUS
<1>7. c = d[j]
  BY <1>3, <1>5, <1>6
<1>8. lv[n] = 0 => c = 0
  BY <1>3, <1>5, <1>7
<1>9. ASSUME lv[n] # 0
      PROVE  /\ c \in T /\ c # 0 /\ lv[c] + 1 = lv[n]
             /\ Len(t.nodes[c].elems) + 1 \in 1 .. MaxPerNode + 1
  <2>1. lv[n] > 0
    <3>1. PICK l \in Nat : l = lv[n]
      BY <1>3
    <3>2. l > 0
      BY <1>9, <3>1
    <3> QED BY <3>1, <3>2
  <2>2. c \in T /\ lv[c] + 1 = lv[n]
    BY <1>1, <1>2, <1>5, <1>7, <2>1, TreeChild
  <2>3. Len(t.nodes[c].elems) \in Nat /\ Len(t.nodes[c].elems) <= MaxPerNode /\ c # 0
    BY <1>2, <2>2
  <2> QED BY <2>2, <2>3, MinFacts
<1>10. i \in 1 .. Len(RowOf(t)[n]) + 1 => c = ch[n][i]
  BY <1>1, <1>5, <1>7
<1> QED BY <1>6, <1>8, <1>9, <1>10

\* Each call is nearer to an end.
LEMMA PlacesRanked ==
    ASSUME NEW t, NEW top, NEW T, NEW ch, NEW lv, NEW lo, NEW hi, NEW K,
           Full(t, top, T, ch, lv, lo, hi, K)
    PROVE  \E rank, bound : Ranked(Places(t), FirstOf(t), PrevOf(t), LeafOf(t), DownOf(t), rank, bound)
<1>1. /\ Shape(DOMAIN t.nodes, RowOf(t), ParOf(t), t.root, top, T, ch, lv, lo, hi)
      /\ TreeShape(t, top, T, ch, lv, lo, hi) /\ T \in SUBSET DOMAIN t.nodes /\ t.root \in T
      /\ \A m \in DOMAIN t.nodes : t.nodes[m].elems = RowOf(t)[m]
  BY FullTypes
<1>2. \A m \in T : lv[m] \in Nat /\ lv[m] <= lv[t.root]
  BY <1>1, NodeTypes
<1>3. \A m \in DOMAIN t.nodes : m \notin T => t.nodes[m].elems = <<>>
  BY <1>1, TreeTypes
<1>4. PICK M, h : M = MaxPerNode + 2 /\ h = lv[t.root]
  OBVIOUS
<1>5. M \in Nat /\ h \in Nat /\ MaxPerNode \in Nat /\ MaxPerNode + 1 < M
  BY <1>1, <1>2, <1>4, MinFacts
<1>6. \A l \in Nat : l * M \in Nat /\ (l + 1) * M = l * M + M
  BY <1>5
<1>7. \A l \in Nat : l <= h => l * M <= h * M
  <2> SUFFICES ASSUME NEW l \in Nat, l <= h PROVE l * M <= h * M
    OBVIOUS
  <2>1. PICK d \in Nat : h = l + d
    <3>1. h - l \in Nat /\ h = l + (h - l)
      BY <1>5
    <3> QED BY <3>1
  <2>2. h * M = l * M + d * M
    BY <1>5, <2>1
  <2>3. d * M \in Nat /\ l * M \in Nat
    BY <1>6
  <2> QED BY <2>2, <2>3
<1>8. PICK rank : rank = [x \in Places(t) |-> IF x[1] \in T THEN lv[x[1]] * M + x[2] ELSE x[2]]
  OBVIOUS
<1>9. \A n \in DOMAIN t.nodes : \A i \in 1 .. MaxPerNode + 1 :
        rank[<<n, i>>] = IF n \in T THEN lv[n] * M + i ELSE i
  BY <1>8 DEF Places
<1>10. PICK bound : bound = h * M + M
  OBVIOUS
<1>11. bound \in Nat
  BY <1>5, <1>6, <1>10
<1>12. ASSUME NEW n \in DOMAIN t.nodes, NEW i \in 1 .. MaxPerNode + 1, NEW x, x = <<n, i>>
       PROVE  /\ rank[x] \in Nat /\ rank[x] < bound
              /\ ~FirstOf(t)[x] => PrevOf(t)[x] \in Places(t) /\ rank[PrevOf(t)[x]] < rank[x]
              /\ ~LeafOf(t)[x] => DownOf(t)[x] \in Places(t) /\ rank[DownOf(t)[x]] < rank[x]
  <2>1. PICK s, c : s = t.nodes[n].elems /\ c = BChild(t.nodes[n].elems, i)
    OBVIOUS
  <2>2. /\ FirstOf(t)[x] <=> i = 1
        /\ LeafOf(t)[x] <=> s = <<>> \/ c = 0
        /\ PrevOf(t)[x] = <<n, i - 1>> /\ DownOf(t)[x] = <<c, Len(t.nodes[c].elems) + 1>>
    BY <1>12, <2>1, PlaceFacts
  <2>3. i \in Nat /\ i <= MaxPerNode + 1
    BY <1>5
  <2>4. PICK r : r = IF n \in T THEN lv[n] * M ELSE 0
    OBVIOUS
  <2>5. r \in Nat /\ r <= h * M
    <3>1. CASE n \in T
      BY <1>2, <1>4, <1>6, <1>7, <2>4, <3>1
    <3>2. CASE n \notin T
      <4>1. h * M \in Nat
        BY <1>5, <1>6
      <4> QED BY <2>4, <3>2, <4>1
    <3> QED BY <3>1, <3>2
  <2>6. \A j \in 1 .. MaxPerNode + 1 : rank[<<n, j>>] = r + j
    <3> TAKE j \in 1 .. MaxPerNode + 1
    <3>1. rank[<<n, j>>] = IF n \in T THEN lv[n] * M + j ELSE j
      BY <1>9
    <3>2. j = 0 + j
      BY <1>5
    <3> QED BY <2>4, <3>1, <3>2
  <2>7. rank[x] = r + i
    BY <1>12, <2>6
  <2>8. rank[x] \in Nat /\ rank[x] < bound
    <3>1. PICK w \in Nat : w = h * M
      BY <1>5, <1>6
    <3> QED BY <1>5, <1>10, <2>3, <2>5, <2>7, <3>1
  <2>9. ASSUME ~FirstOf(t)[x]
        PROVE  PrevOf(t)[x] \in Places(t) /\ rank[PrevOf(t)[x]] < rank[x]
    <3>1. i - 1 \in 1 .. MaxPerNode + 1
      BY <1>5, <2>2, <2>3, <2>9
    <3>2. <<n, i - 1>> \in Places(t)
      BY <3>1, PlaceFacts
    <3>3. rank[<<n, i - 1>>] = r + (i - 1)
      BY <2>6, <3>1
    <3>4. r + (i - 1) < r + i
      BY <2>3, <2>5
    <3> QED BY <2>2, <2>7, <3>2, <3>3, <3>4
  <2>10. ASSUME ~LeafOf(t)[x]
         PROVE  DownOf(t)[x] \in Places(t) /\ rank[DownOf(t)[x]] < rank[x]
    <3>1. s # <<>> /\ c # 0
      BY <2>2, <2>10
    <3>2. n \in T
      BY <1>3, <2>1, <3>1
    <3>3. RowOf(t)[n] # <<>>
      BY <1>1, <2>1, <3>1
    <3>4. /\ lv[n] = 0 => c = 0
          /\ lv[n] # 0 => /\ c \in T /\ c # 0 /\ lv[c] + 1 = lv[n]
                          /\ Len(t.nodes[c].elems) + 1 \in 1 .. MaxPerNode + 1
      BY <2>1, <3>2, <3>3, PlaceChild
    <3>5. PICK j : j = Len(t.nodes[c].elems) + 1
      OBVIOUS
    <3>6. c \in T /\ c \in DOMAIN t.nodes /\ lv[c] + 1 = lv[n] /\ j \in 1 .. MaxPerNode + 1
      BY <1>1, <3>1, <3>4, <3>5
    <3>7. <<c, j>> \in Places(t) /\ rank[<<c, j>>] = lv[c] * M + j
      BY <1>9, <3>6, PlaceFacts
    <3>8. PICK l \in Nat, w \in Nat : l = lv[c] /\ w = l * M
      BY <1>2, <1>6, <3>6
    <3>9. r = w + M
      <4>1. (l + 1) * M = l * M + M
        BY <1>6
      <4> QED BY <2>4, <3>2, <3>6, <3>8, <4>1
    <3>10. w + j < r + i
      BY <1>5, <2>3, <3>6, <3>8, <3>9
    <3> QED BY <2>2, <2>7, <3>5, <3>7, <3>8, <3>10
  <2> QED BY <2>8, <2>9, <2>10
<1>13. ASSUME NEW x \in Places(t)
       PROVE  /\ rank[x] \in Nat /\ rank[x] < bound
              /\ ~FirstOf(t)[x] => PrevOf(t)[x] \in Places(t) /\ rank[PrevOf(t)[x]] < rank[x]
              /\ ~LeafOf(t)[x] => DownOf(t)[x] \in Places(t) /\ rank[DownOf(t)[x]] < rank[x]
  <2>1. \E n \in DOMAIN t.nodes : \E i \in 1 .. MaxPerNode + 1 : x = <<n, i>>
    BY DEF Places
  <2> QED BY <1>12, <2>1
<1>14. Ranked(Places(t), FirstOf(t), PrevOf(t), LeafOf(t), DownOf(t), rank, bound)
  BY <1>11, <1>13 DEF Ranked
<1> QED BY <1>14

\* The keys that are visited up to a place, as the rows and children tell.
Visits(t, T, ch, lv, f) ==
    \A n \in T : \A i \in 1 .. Len(RowOf(t)[n]) + 1 :
        f[<<n, i>>] =
            (IF i = 1 THEN <<>> ELSE Append(f[<<n, i - 1>>], RowOf(t)[n][i - 1].key))
            \o (IF lv[n] = 0 THEN <<>> ELSE f[<<ch[n][i], Len(RowOf(t)[ch[n][i]]) + 1>>])

\* The walk over the places is the walk over the rows and children.
LEMMA WalkVisits ==
    ASSUME NEW t, NEW top, NEW T, NEW ch, NEW lv, NEW lo, NEW hi, NEW K,
           Full(t, top, T, ch, lv, lo, hi, K), NEW f,
           f = Walk(Places(t), FirstOf(t), PrevOf(t), KeyOf(t), LeafOf(t), DownOf(t), f)
    PROVE  Visits(t, T, ch, lv, f)
<1>1. /\ T \in SUBSET DOMAIN t.nodes
      /\ \A m \in DOMAIN t.nodes : t.nodes[m].elems = RowOf(t)[m]
      /\ \A m \in T : /\ Len(RowOf(t)[m]) \in Nat /\ Len(RowOf(t)[m]) <= MaxPerNode
                      /\ lv[m] \in Nat
                      /\ lv[m] > 0 => RowOf(t)[m] # <<>>
  BY FullTypes
<1>2. \A x \in Places(t) :
        f[x] = WalkAt(FirstOf(t), PrevOf(t), KeyOf(t), LeafOf(t), DownOf(t), f, x)
  <2>1. PICK S, F : /\ S = Places(t)
                    /\ F = [x \in S |-> WalkAt(FirstOf(t), PrevOf(t), KeyOf(t), LeafOf(t), DownOf(t), f, x)]
    OBVIOUS
  <2>2. f = F
    BY <2>1 DEF Walk
  <2> QED BY <2>1, <2>2
<1> SUFFICES ASSUME NEW n \in T, NEW i \in 1 .. Len(RowOf(t)[n]) + 1
             PROVE  f[<<n, i>>] =
                      (IF i = 1 THEN <<>> ELSE Append(f[<<n, i - 1>>], RowOf(t)[n][i - 1].key))
                      \o (IF lv[n] = 0 THEN <<>> ELSE f[<<ch[n][i], Len(RowOf(t)[ch[n][i]]) + 1>>])
  BY DEF Visits
<1>3. PICK x, s : x = <<n, i>> /\ s = RowOf(t)[n]
  OBVIOUS
<1>4. i \in 1 .. MaxPerNode + 1 /\ n \in DOMAIN t.nodes /\ t.nodes[n].elems = s
  <2>1. Len(RowOf(t)[n]) \in Nat /\ Len(RowOf(t)[n]) <= MaxPerNode
    BY <1>1
  <2>2. i \in 1 .. MaxPerNode + 1
    BY <2>1, MinFacts
  <2> QED BY <1>1, <1>3, <2>2
<1>5. PICK c : c = BChild(s, i)
  OBVIOUS
<1>6. /\ x \in Places(t) /\ (FirstOf(t)[x] <=> i = 1)
      /\ PrevOf(t)[x] = <<n, i - 1>>
      /\ KeyOf(t)[x] = s[i - 1].key
      /\ LeafOf(t)[x] <=> s = <<>> \/ c = 0
      /\ DownOf(t)[x] = <<c, Len(t.nodes[c].elems) + 1>>
  <2>1. PICK w : w = t.nodes[n].elems /\ c = BChild(t.nodes[n].elems, i)
    BY <1>4, <1>5
  <2>2. /\ x \in Places(t) /\ (FirstOf(t)[x] <=> i = 1)
        /\ PrevOf(t)[x] = <<n, i - 1>>
        /\ KeyOf(t)[x] = w[i - 1].key
        /\ LeafOf(t)[x] <=> w = <<>> \/ c = 0
        /\ DownOf(t)[x] = <<c, Len(t.nodes[c].elems) + 1>>
    <3>1. PICK m, j, y : m = n /\ j = i /\ y = <<m, j>>
      OBVIOUS
    <3>2. m \in DOMAIN t.nodes /\ j \in 1 .. MaxPerNode + 1 /\ x = y
      BY <1>3, <1>4, <3>1
    <3>3. y \in Places(t) /\ (FirstOf(t)[y] <=> j = 1)
      BY <3>1, <3>2, PlaceFacts
    <3>4. PrevOf(t)[y] = <<m, j - 1>> /\ KeyOf(t)[y] = t.nodes[m].elems[j - 1].key
      BY <3>1, <3>2, PlaceFacts
    <3>5. LeafOf(t)[y] <=> t.nodes[m].elems = <<>> \/ BChild(t.nodes[m].elems, j) = 0
      BY <3>1, <3>2, PlaceFacts
    <3>6. DownOf(t)[y] = <<BChild(t.nodes[m].elems, j),
                           Len(t.nodes[BChild(t.nodes[m].elems, j)].elems) + 1>>
      BY <3>1, <3>2, PlaceFacts
    <3> QED BY <2>1, <3>1, <3>2, <3>3, <3>4, <3>5, <3>6
  <2> QED BY <1>4, <2>1, <2>2
<1>7. PICK a, b : /\ a = IF i = 1 THEN <<>> ELSE Append(f[<<n, i - 1>>], s[i - 1].key)
                  /\ b = IF lv[n] = 0 THEN <<>> ELSE f[<<ch[n][i], Len(RowOf(t)[ch[n][i]]) + 1>>]
  OBVIOUS
<1>8. (IF FirstOf(t)[x] THEN <<>> ELSE Append(f[PrevOf(t)[x]], KeyOf(t)[x])) = a
  BY <1>6, <1>7
<1>9. (IF LeafOf(t)[x] THEN <<>> ELSE f[DownOf(t)[x]]) = b
  <2>1. CASE s = <<>>
    <3>1. lv[n] = 0
      <4>1. ~(lv[n] > 0) /\ lv[n] \in Nat
        BY <1>1, <1>3, <2>1
      <4> QED BY <4>1
    <3>2. LeafOf(t)[x]
      BY <1>6, <2>1
    <3> QED BY <1>7, <3>1, <3>2
  <2>2. CASE s # <<>>
    <3>1. /\ lv[n] = 0 => c = 0
          /\ lv[n] # 0 => c \in T /\ c # 0
          /\ c = ch[n][i]
      BY <1>3, <1>4, <1>5, <2>2, PlaceChild
    <3>2. CASE lv[n] = 0
      <4>1. LeafOf(t)[x]
        BY <1>6, <3>1, <3>2
      <4> QED BY <1>7, <3>2, <4>1
    <3>3. CASE lv[n] # 0
      <4>1. ~LeafOf(t)[x] /\ t.nodes[c].elems = RowOf(t)[c]
        BY <1>1, <1>6, <2>2, <3>1, <3>3
      <4> QED BY <1>6, <1>7, <3>1, <3>3, <4>1
    <3> QED BY <3>2, <3>3
  <2> QED BY <2>1, <2>2
<1>10. f[x] = WalkAt(FirstOf(t), PrevOf(t), KeyOf(t), LeafOf(t), DownOf(t), f, x)
  BY <1>2, <1>6
<1>11. f[x] = a \o b
  BY <1>8, <1>9, <1>10 DEF WalkAt
<1> QED BY <1>3, <1>7, <1>11

\* Numbers between two neighbours in a leaf are no keys.
LEMMA LeafGap ==
    ASSUME NEW D, NEW row, NEW par, NEW root, NEW top, NEW T, NEW ch, NEW lv, NEW lo, NEW hi,
           Shape(D, row, par, root, top, T, ch, lv, lo, hi), NEW n \in T, lv[n] = 0,
           NEW i \in 1 .. Len(row[n]) + 1, NEW k \in Nat,
           LoAt(row[n], i, lo[n]) < k, k < HiAt(row[n], i, hi[n])
    PROVE  k \notin KeysOf(row, T)
<1>1. PICK s, l, h : s = row[n] /\ l = lo[n] /\ h = hi[n]
  OBVIOUS
<1>2. s \in Rows /\ l \in Int /\ h \in Int /\ Ordered(s, l, h) /\ Len(s) \in Nat
  BY <1>1, NodeTypes
<1>3. i \in 1 .. Len(s) + 1
  BY <1>1
<1>4. /\ LoAt(s, i, l) \in Int /\ HiAt(s, i, h) \in Int
      /\ l <= LoAt(s, i, l) /\ HiAt(s, i, h) <= h
      /\ \A j \in 1 .. Len(s) : j < i => s[j].key <= LoAt(s, i, l)
      /\ \A j \in 1 .. Len(s) : j >= i => HiAt(s, i, h) <= s[j].key
  BY <1>2, <1>3, Gaps
<1>5. PICK a \in Int, b \in Int : a = LoAt(s, i, l) /\ b = HiAt(s, i, h)
  BY <1>4
<1>6. a < k /\ k < b
  BY <1>1, <1>5
<1>7. l < k /\ k < h
  BY <1>2, <1>4, <1>5, <1>6
<1>8. \A j \in 1 .. Len(s) : s[j].key # k
  <2> TAKE j \in 1 .. Len(s)
  <2>1. s[j].key \in Nat /\ (j < i \/ j >= i)
    <3>1. s[j].key \in Nat
      BY <1>2, RowFacts
    <3>2. j < i \/ j >= i
      BY <1>2, <1>3
    <3> QED BY <3>1, <3>2
  <2>2. s[j].key <= a \/ b <= s[j].key
    BY <1>4, <1>5, <2>1
  <2> QED BY <1>6, <2>1, <2>2
<1> QED BY <1>1, <1>7, <1>8, LeafMiss

\* The keys of a tree are natural numbers below top.
LEMMA KeysNat ==
    ASSUME NEW D, NEW row, NEW par, NEW root, NEW top \in Nat, NEW T, NEW ch, NEW lv, NEW lo, NEW hi,
           Shape(D, row, par, root, top, T, ch, lv, lo, hi)
    PROVE  KeysOf(row, T) \in SUBSET Nat /\ \A k \in KeysOf(row, T) : k < top
<1> SUFFICES ASSUME NEW n \in T, NEW i \in 1 .. Len(row[n])
             PROVE  row[n][i].key \in Nat /\ row[n][i].key < top
  BY DEF KeysOf, RowKeys
<1>1. /\ row[n][i].key \in Nat /\ hi[n] \in Int /\ Ordered(row[n], lo[n], hi[n])
  BY NodeTypes
<1>2. row[n][i].key < hi[n]
  BY <1>1 DEF Ordered
<1>3. hi[n] <= top
  BY InRoot
<1>4. PICK a \in Int, b \in Int : a = row[n][i].key /\ b = hi[n]
  BY <1>1
<1>5. a < b /\ b <= top
  BY <1>2, <1>3, <1>4
<1>6. a < top
  BY <1>5
<1> QED BY <1>1, <1>4, <1>6

\* What is below a gap has been visited in order: then so is what ends there.
VisitStep(t, top, T, ch, lv, lo, hi, K, f, n, i) ==
    /\ Full(t, top, T, ch, lv, lo, hi, K) /\ top \in Nat /\ Visits(t, T, ch, lv, f)
    /\ n \in T /\ i \in 1 .. Len(RowOf(t)[n]) + 1
    /\ i # 1 => Traversed(f[<<n, i - 1>>], K, lo[n], HiAt(RowOf(t)[n], i - 1, hi[n]))
    /\ \A m \in T : lv[m] + 1 = lv[n] => Traversed(f[<<m, Len(RowOf(t)[m]) + 1>>], K, lo[m], hi[m])

\* What is visited up to a place is what is up to there, in order.
LEMMA VisitOrder ==
    ASSUME NEW t, NEW top, NEW T, NEW ch, NEW lv, NEW lo, NEW hi, NEW K, NEW f, NEW n, NEW i,
           VisitStep(t, top, T, ch, lv, lo, hi, K, f, n, i)
    PROVE  Traversed(f[<<n, i>>], K, lo[n], HiAt(RowOf(t)[n], i, hi[n]))
<1>1. /\ Full(t, top, T, ch, lv, lo, hi, K) /\ top \in Nat /\ Visits(t, T, ch, lv, f)
      /\ n \in T /\ i \in 1 .. Len(RowOf(t)[n]) + 1
  BY DEF VisitStep
<1>2. PICK s, l, h : s = RowOf(t)[n] /\ l = lo[n] /\ h = hi[n]
  OBVIOUS
<1>3. /\ Shape(DOMAIN t.nodes, RowOf(t), ParOf(t), t.root, top, T, ch, lv, lo, hi)
      /\ TreeShape(t, top, T, ch, lv, lo, hi) /\ KeysOf(RowOf(t), T) = K
      /\ s \in Rows /\ l \in Int /\ h \in Int /\ Ordered(s, l, h) /\ Len(s) \in Nat
      /\ lv[n] \in Nat
  BY <1>1, <1>2, FullTypes
<1>4. K \in SUBSET Nat
  BY <1>1, <1>3, KeysNat
<1>5. i \in 1 .. Len(s) + 1 /\ i \in Nat
  <2>1. i \in 1 .. Len(s) + 1
    BY <1>1, <1>2
  <2> QED BY <1>3, <2>1
<1>6. PICK a, b, c : /\ c = ch[n][i]
                     /\ a = IF i = 1 THEN <<>> ELSE Append(f[<<n, i - 1>>], s[i - 1].key)
                     /\ b = IF lv[n] = 0 THEN <<>> ELSE f[<<c, Len(RowOf(t)[c]) + 1>>]
  OBVIOUS
<1>7. f[<<n, i>>] = a \o b
  BY <1>1, <1>2, <1>6 DEF Visits
<1>8. PICK x \in Int, y \in Int : x = LoAt(s, i, l) /\ y = HiAt(s, i, h)
  BY <1>3, <1>5, Gaps
<1>9. x < y /\ l <= x
  BY <1>3, <1>5, <1>8, Gaps
<1>10. Traversed(b, K, x, y)
  <2>1. CASE lv[n] = 0
    <3>1. ASSUME NEW k \in K PROVE ~(x < k /\ k < y)
      <4>1. k \in Nat
        BY <1>4
      <4> QED BY <1>1, <1>2, <1>3, <1>8, <2>1, <4>1, LeafGap
    <3>2. b = <<>>
      BY <1>6, <2>1
    <3> QED BY <3>1, <3>2, TraversedNone
  <2>2. CASE lv[n] # 0
    <3>1. lv[n] > 0
      <4>1. PICK w \in Nat : w = lv[n]
        BY <1>3
      <4>2. w > 0
        BY <2>2, <4>1
      <4> QED BY <4>1, <4>2
    <3>2. c \in T /\ lv[c] + 1 = lv[n] /\ lo[c] = x /\ hi[c] = y
      BY <1>1, <1>2, <1>3, <1>6, <1>8, <3>1, TreeChild, SMTT(30)
    <3>3. Traversed(f[<<c, Len(RowOf(t)[c]) + 1>>], K, lo[c], hi[c])
      BY <3>2 DEF VisitStep
    <3> QED BY <1>6, <2>2, <3>2, <3>3
  <2> QED BY <2>1, <2>2
<1>11. b \in Seq(Nat)
  BY <1>10 DEF Traversed
<1>12. CASE i = 1
  <2>1. a \o b = b
    <3>1. <<>> \o b = b
      BY <1>11
    <3> QED BY <1>6, <1>12, <3>1
  <2>2. x = l
    BY <1>8, <1>12 DEF LoAt
  <2> QED BY <1>2, <1>7, <1>8, <1>10, <2>1, <2>2
<1>13. CASE i # 1
  <2>1. PICK j : j = i - 1
    OBVIOUS
  <2>2. j \in 1 .. Len(s) /\ j \in 1 .. Len(s) + 1 /\ ~(j > Len(s))
    BY <1>3, <1>5, <1>13, <2>1
  <2>3. PICK m \in Nat : m = s[j].key /\ x = m
    <3>1. s[j].key \in Nat
      BY <1>3, <2>2, RowFacts
    <3>2. x = s[j].key
      BY <1>8, <1>13, <2>1 DEF LoAt
    <3> QED BY <3>1, <3>2
  <2>4. m \in K
    BY <1>1, <1>2, <1>3, <2>2, <2>3 DEF KeysOf, RowKeys
  <2>5. l < m
    BY <1>3, <2>2, <2>3 DEF Ordered
  <2>6. PICK p : p = f[<<n, j>>]
    OBVIOUS
  <2>7. Traversed(p, K, l, m)
    <3>1. Traversed(f[<<n, i - 1>>], K, lo[n], HiAt(RowOf(t)[n], i - 1, hi[n]))
      BY <1>13 DEF VisitStep
    <3>2. HiAt(s, j, h) = m
      BY <2>2, <2>3 DEF HiAt
    <3> QED BY <1>2, <2>1, <2>6, <3>1, <3>2
  <2>8. Traversed(Append(p, m) \o b, K, l, y)
    <3>1. m < y
      BY <1>9, <2>3
    <3>2. Traversed(b, K, m, y)
      BY <1>10, <2>3
    <3> QED BY <1>3, <1>4, <1>8, <2>4, <2>5, <2>7, <3>1, <3>2, TraversedJoin
  <2>9. a = Append(p, m)
    BY <1>6, <1>13, <2>1, <2>3, <2>6
  <2> QED BY <1>2, <1>7, <1>8, <2>8, <2>9
<1> QED BY <1>12, <1>13

\* Level by level, gap by gap.
LEMMA VisitsOrdered ==
    ASSUME NEW t, NEW top \in Nat, NEW T, NEW ch, NEW lv, NEW lo, NEW hi, NEW K,
           Full(t, top, T, ch, lv, lo, hi, K), NEW f, Visits(t, T, ch, lv, f)
    PROVE  \A n \in T : Traversed(f[<<n, Len(RowOf(t)[n]) + 1>>], K, lo[n], hi[n])
<1>1. \A n \in T : lv[n] \in Nat /\ Len(RowOf(t)[n]) \in Nat
  BY FullTypes
<1> DEFINE Done(n, i) == Traversed(f[<<n, i>>], K, lo[n], HiAt(RowOf(t)[n], i, hi[n]))
           J == {L \in Nat : \A n \in T : lv[n] < L =>
                    Traversed(f[<<n, Len(RowOf(t)[n]) + 1>>], K, lo[n], hi[n])}
<1>2. 0 \in J
  <2>1. \A n \in T : ~(lv[n] < 0)
    BY <1>1
  <2> QED BY <2>1
<1>3. ASSUME NEW L \in Nat, L \in J PROVE L + 1 \in J
  <2>1. \A n \in T : lv[n] < L => Traversed(f[<<n, Len(RowOf(t)[n]) + 1>>], K, lo[n], hi[n])
    BY <1>3
  <2>2. ASSUME NEW n \in T, lv[n] < L + 1
        PROVE  Traversed(f[<<n, Len(RowOf(t)[n]) + 1>>], K, lo[n], hi[n])
    <3>1. PICK N \in Nat : N = Len(RowOf(t)[n])
      BY <1>1
    <3>2. \A m \in T : lv[m] + 1 = lv[n] => Traversed(f[<<m, Len(RowOf(t)[m]) + 1>>], K, lo[m], hi[m])
      <4> TAKE m \in T
      <4> HAVE lv[m] + 1 = lv[n]
      <4>1. PICK a \in Nat, b \in Nat : a = lv[m] /\ b = lv[n]
        BY <1>1
      <4>2. a < L
        BY <2>2, <4>1
      <4> QED BY <2>1, <4>1, <4>2
    <3> DEFINE I == {i \in Nat : i \in 1 .. N + 1 => Done(n, i)}
    <3>3. 0 \in I
      BY <3>1
    <3>4. ASSUME NEW i \in Nat, i \in I PROVE i + 1 \in I
      <4>1. i \in 1 .. N + 1 => Done(n, i)
        BY <3>4
      <4> HIDE DEF Done
      <4> SUFFICES ASSUME i + 1 \in 1 .. N + 1 PROVE Done(n, i + 1)
        OBVIOUS
      <4>2. PICK j : j = i + 1
        OBVIOUS
      <4>3. j - 1 = i /\ j \in 1 .. N + 1 /\ (j # 1 => i \in 1 .. N + 1)
        BY <3>1, <4>2
      <4>4. j # 1 => Done(n, j - 1)
        BY <4>1, <4>3
      <4>5. VisitStep(t, top, T, ch, lv, lo, hi, K, f, n, j)
        BY <3>1, <3>2, <4>3, <4>4 DEF VisitStep, Done
      <4>6. Done(n, j)
        BY <4>5, VisitOrder DEF Done
      <4> QED BY <4>2, <4>6
    <3>5. Nat \subseteq I
      <4> HIDE DEF I
      <4> QED BY <3>3, <3>4, SetInduction
    <3>6. N + 1 \in Nat /\ N + 1 \in 1 .. N + 1 /\ N + 1 > N
      BY <3>1
    <3>7. Done(n, N + 1)
      <4> HIDE DEF Done
      <4> QED BY <3>5, <3>6
    <3> QED BY <3>1, <3>6, <3>7 DEF HiAt
  <2>3. L + 1 \in Nat
    OBVIOUS
  <2> QED BY <2>2, <2>3
<1>4. Nat \subseteq J
  <2> HIDE DEF J
  <2> QED BY <1>2, <1>3, SetInduction
<1>5. ASSUME NEW n \in T
      PROVE  Traversed(f[<<n, Len(RowOf(t)[n]) + 1>>], K, lo[n], hi[n])
  <2>1. PICK a \in Nat : a = lv[n]
    BY <1>1
  <2>2. a + 1 \in J /\ a < a + 1
    BY <1>4
  <2> QED BY <2>1, <2>2
<1> QED BY <1>5

\* InOrderTraverse visits the keys in order.
LEMMA InOrderFacts ==
    ASSUME NEW top \in Nat, NEW T, NEW ch, NEW lv, NEW lo, NEW hi, NEW K,
           Full(btree, top, T, ch, lv, lo, hi, K)
    PROVE  LET keys == BInOrder(btree.root) IN
           /\ Range(keys) = K
           /\ \A i \in 2 .. Len(keys) : keys[i - 1] < keys[i]
<1> DEFINE S == (DOMAIN btree.nodes) \X (1 .. MaxPerNode + 1)
           Body(f) == [x \in S |->
               (IF x[2] = 1 THEN <<>>
                ELSE Append(f[<<x[1], x[2] - 1>>], btree.nodes[x[1]].elems[x[2] - 1].key))
               \o (IF btree.nodes[x[1]].elems = <<>>
                      \/ BChild(btree.nodes[x[1]].elems, x[2]) = NoNode THEN <<>>
                   ELSE f[<<BChild(btree.nodes[x[1]].elems, x[2]),
                            Len(btree.nodes[BChild(btree.nodes[x[1]].elems, x[2])].elems) + 1>>])]
           before == CHOOSE f : f = Body(f)
           W(f) == Walk(Places(btree), FirstOf(btree), PrevOf(btree), KeyOf(btree),
                        LeafOf(btree), DownOf(btree), f)
<1>1. BInOrder(btree.root) = before[<<btree.root, Len(btree.nodes[btree.root].elems) + 1>>]
  BY DEF BInOrder
<1>2. ASSUME NEW f PROVE Body(f) = W(f)
  <2>1. ASSUME NEW x \in S
        PROVE  WalkAt(FirstOf(btree), PrevOf(btree), KeyOf(btree), LeafOf(btree), DownOf(btree), f, x)
                 = (IF x[2] = 1 THEN <<>>
                    ELSE Append(f[<<x[1], x[2] - 1>>], btree.nodes[x[1]].elems[x[2] - 1].key))
                   \o (IF btree.nodes[x[1]].elems = <<>>
                          \/ BChild(btree.nodes[x[1]].elems, x[2]) = NoNode THEN <<>>
                       ELSE f[<<BChild(btree.nodes[x[1]].elems, x[2]),
                                Len(btree.nodes[BChild(btree.nodes[x[1]].elems, x[2])].elems) + 1>>])
    <3>1. x \in Places(btree)
      BY DEF Places
    <3>2. /\ FirstOf(btree)[x] <=> x[2] = 1
          /\ LeafOf(btree)[x] <=> \/ btree.nodes[x[1]].elems = <<>>
                                  \/ BChild(btree.nodes[x[1]].elems, x[2]) = NoNode
      BY <3>1 DEF FirstOf, LeafOf, ChildOf
    <3>3. /\ PrevOf(btree)[x] = <<x[1], x[2] - 1>>
          /\ KeyOf(btree)[x] = btree.nodes[x[1]].elems[x[2] - 1].key
          /\ DownOf(btree)[x] = <<BChild(btree.nodes[x[1]].elems, x[2]),
                                  Len(btree.nodes[BChild(btree.nodes[x[1]].elems, x[2])].elems) + 1>>
      BY <3>1 DEF PrevOf, KeyOf, DownOf, ChildOf
    <3> QED BY <3>2, <3>3, Zenon DEF WalkAt
  <2>2. Places(btree) = S
    BY DEF Places
  <2>3. W(f) = [x \in S |-> WalkAt(FirstOf(btree), PrevOf(btree), KeyOf(btree), LeafOf(btree),
                                   DownOf(btree), f, x)]
    BY <2>2 DEF Walk
  <2> HIDE DEF S, W
  <2> QED BY <2>1, <2>3, Zenon
<1>3. \E f : f = W(f)
  <2>1. PICK rank, bound : Ranked(Places(btree), FirstOf(btree), PrevOf(btree), LeafOf(btree),
                                  DownOf(btree), rank, bound)
    BY PlacesRanked
  <2> QED BY <2>1, WalkExists
<1>4. before = Body(before)
  <2> HIDE DEF Body, W
  <2>1. \E f : f = Body(f)
    BY <1>2, <1>3
  <2> QED BY <2>1
<1> HIDE DEF before
<1>5. before = W(before)
  <2> HIDE DEF Body, W
  <2> QED BY <1>2, <1>4
<1>6. Visits(btree, T, ch, lv, before)
  BY <1>5, WalkVisits
<1>7. /\ btree.root \in T /\ T \in SUBSET DOMAIN btree.nodes
      /\ Shape(DOMAIN btree.nodes, RowOf(btree), ParOf(btree), btree.root, top, T, ch, lv, lo, hi)
      /\ KeysOf(RowOf(btree), T) = K
      /\ \A n \in DOMAIN btree.nodes : btree.nodes[n].elems = RowOf(btree)[n]
  BY FullTypes
<1>8. PICK q : q = BInOrder(btree.root)
  OBVIOUS
<1>9. Traversed(q, K, -1, top)
  <2>1. Traversed(before[<<btree.root, Len(RowOf(btree)[btree.root]) + 1>>], K, lo[btree.root], hi[btree.root])
    BY <1>6, <1>7, VisitsOrdered
  <2>2. lo[btree.root] = -1 /\ hi[btree.root] = top
    BY <1>7 DEF Shape
  <2>3. btree.nodes[btree.root].elems = RowOf(btree)[btree.root]
    BY <1>7
  <2> QED BY <1>1, <1>8, <2>1, <2>2, <2>3
<1>10. /\ q \in Seq(Nat) /\ Len(q) \in Nat /\ DOMAIN q = 1 .. Len(q)
       /\ \A i \in 1 .. Len(q) : q[i] \in K
       /\ \A i, j \in 1 .. Len(q) : i < j => q[i] < q[j]
       /\ \A k \in K : -1 < k /\ k < top => \E i \in 1 .. Len(q) : q[i] = k
  BY <1>9 DEF Traversed
<1>11. \A k \in K : -1 < k /\ k < top
  <2>1. K \in SUBSET Nat /\ \A k \in K : k < top
    BY <1>7, KeysNat
  <2> QED BY <2>1
<1>12. Range(q) = K
  <2>1. Range(q) = {q[i] : i \in 1 .. Len(q)}
    BY <1>10 DEF Range
  <2>2. \A k \in K : \E i \in 1 .. Len(q) : q[i] = k
    BY <1>10, <1>11
  <2> QED BY <1>10, <2>1, <2>2
<1>13. \A i \in 2 .. Len(q) : q[i - 1] < q[i]
  <2> TAKE i \in 2 .. Len(q)
  <2>1. i - 1 \in 1 .. Len(q) /\ i \in 1 .. Len(q) /\ i - 1 < i
    BY <1>10
  <2> QED BY <1>10, <2>1
<1> QED BY <1>8, <1>12, <1>13

-----------------------------------------------------------------------------
(* The B-tree is exact                                                     *)

\* A tree with its keys and their number: for every key, the tree is sound
\* below a number above it.
Holds(t, K, N) ==
    /\ K \subseteq BKeys /\ IsFiniteSet(K) /\ N = Cardinality(K)
    /\ \A B \in Nat : \E top \in Nat : B <= top /\ Sound(t, top, K)

\* The inductive invariant: as long as the tree has never lost its root.
BTreeInv == ~uprooted => Holds(btree, held, total)

\* The first tree.
LEMMA SoundInit ==
    ASSUME NEW t, t = [nodes |-> [n \in {1} |-> EmptyNode], root |-> 1], NEW top \in Nat
    PROVE  Sound(t, top, {})
<1>1. PICK D, row, par : D = {1} /\ row = [n \in {1} |-> <<>>] /\ par = [n \in {1} |-> 0]
  OBVIOUS
<1>2. t.nodes = [n \in {1} |-> EmptyNode] /\ t.root = 1 /\ DOMAIN t.nodes = D
  BY <1>1
<1>3. t.nodes[1] = [parent |-> 0, elems |-> <<>>]
  BY <1>2 DEF EmptyNode, NoNode
<1>4. RowOf(t) = row /\ ParOf(t) = par
  <2>1. t.nodes[1].elems = <<>> /\ t.nodes[1].parent = 0
    BY <1>3
  <2> QED BY <1>1, <1>2, <2>1 DEF RowOf, ParOf
<1>5. IsTree(t)
  <2>1. t = [nodes |-> t.nodes, root |-> t.root]
    BY <1>2
  <2>2. t.nodes \in [DOMAIN t.nodes -> [parent : Nat, elems : Rows]]
    <3>1. [parent |-> 0, elems |-> <<>>] \in [parent : Nat, elems : Rows]
      BY EmptyRow
    <3> QED BY <1>2, <3>1 DEF EmptyNode, NoNode
  <2> QED BY <2>1, <2>2 DEF IsTree
<1>6. PICK ch, lv, lo, hi : /\ ch = [n \in {1} |-> [j \in Nat |-> 0]] /\ lv = [n \in {1} |-> 0]
                            /\ lo = [n \in {1} |-> -1] /\ hi = [n \in {1} |-> top]
  OBVIOUS
<1>7. /\ row[1] = <<>> /\ Len(row[1]) = 0 /\ par[1] = 0 /\ lv[1] = 0 /\ lo[1] = -1 /\ hi[1] = top
      /\ \A j \in Nat : ch[1][j] = 0
  BY <1>1, <1>6
<1>8. BTyped(D, row, par, 1, D, ch, lv, lo, hi)
  <2>1. D \in SUBSET (Nat \ {0}) /\ IsFiniteSet(D)
    <3>1. IsFiniteSet({1})
      BY FS_Singleton
    <3> QED BY <1>1, <3>1
  <2>2. row \in [D -> Rows] /\ par \in [D -> Nat]
    BY <1>1, EmptyRow
  <2>3. ch \in [D -> [Nat -> Nat]] /\ lv \in [D -> Nat] /\ lo \in [D -> Int] /\ hi \in [D -> Int]
    BY <1>1, <1>6
  <2>4. D \in SUBSET D /\ 1 \in D
    BY <1>1
  <2> QED BY <2>1, <2>2, <2>3, <2>4 DEF BTyped
<1>9. NodeFits(row, par, 1, D, ch, lv, lo, hi, 1)
  <2>1. Ordered(row[1], lo[1], hi[1])
    BY <1>7 DEF Ordered
  <2>2. Links(row[1], ch[1])
    BY <1>7 DEF Links
  <2> QED BY <1>7, <2>1, <2>2 DEF NodeFits
<1>10. Shape(D, row, par, 1, top, D, ch, lv, lo, hi)
  <2>1. \A n \in D \ D : row[n] = <<>>
    OBVIOUS
  <2>2. \A n \in D : NodeFits(row, par, 1, D, ch, lv, lo, hi, n)
    BY <1>1, <1>9
  <2>3. \A n \in D \ {1} : Hangs(row, par, 1, D, ch, lv, n)
    BY <1>1
  <2> QED BY <1>7, <1>8, <2>1, <2>2, <2>3 DEF Shape
<1>11. TreeShape(t, top, D, ch, lv, lo, hi)
  BY <1>2, <1>4, <1>10 DEF TreeShape
<1>12. Filled(row, 1, D, lv, 0)
  BY <1>1, <1>7, MinFacts DEF Filled
<1>13. KeysOf(row, D) = {}
  BY <1>1, <1>7 DEF KeysOf, RowKeys
<1>14. Filled(RowOf(t), t.root, D, lv, 0) /\ KeysOf(RowOf(t), D) = {}
  BY <1>2, <1>4, <1>12, <1>13
<1> QED BY <1>5, <1>11, <1>14 DEF Sound

\* A new key.
LEMMA HoldsInserted ==
    ASSUME NEW t, NEW K, NEW N, Holds(t, K, N), NEW k \in BKeys, k \notin K,
           NEW u, u = Inserted(t, k), ~Uprooted(u), NEW K2, K2 = K \cup {k}
    PROVE  Holds(u, K2, N + 1)
<1>1. /\ K \subseteq BKeys /\ IsFiniteSet(K) /\ N = Cardinality(K)
      /\ \A B \in Nat : \E top \in Nat : B <= top /\ Sound(t, top, K)
  BY DEF Holds
<1>2. k \in Nat
  BY BTreeAssumption
<1>3. K2 \subseteq BKeys /\ IsFiniteSet(K2) /\ N + 1 = Cardinality(K2)
  BY <1>1, FS_AddElement
<1>4. ASSUME NEW B \in Nat PROVE \E top \in Nat : B <= top /\ Sound(u, top, K2)
  <2>1. B + k + 1 \in Nat
    BY <1>2
  <2>2. PICK top \in Nat : B + k + 1 <= top /\ Sound(t, top, K)
    BY <1>1, <2>1
  <2>3. k < top /\ B <= top
    BY <1>2, <2>2
  <2>4. Placed(u, top, K2)
    BY <1>2, <2>2, <2>3, InsertedFacts
  <2> QED BY <2>3, <2>4 DEF Placed
<1> QED BY <1>3, <1>4 DEF Holds

\* A search tells which keys are there.
LEMMA HoldsFound ==
    ASSUME NEW t, NEW K, NEW N, Holds(t, K, N), NEW k \in BKeys
    PROVE  FindElement(t, t.root, k).node # NoNode <=> k \in K
<1>1. k \in Nat
  BY BTreeAssumption
<1>2. PICK top \in Nat : k + 1 <= top /\ Sound(t, top, K)
  <2>1. k + 1 \in Nat
    BY <1>1
  <2> QED BY <2>1 DEF Holds
<1>3. PICK T, ch, lv, lo, hi : Full(t, top, T, ch, lv, lo, hi, K)
  BY <1>2 DEF Sound, Full
<1>4. /\ TreeShape(t, top, T, ch, lv, lo, hi) /\ KeysOf(RowOf(t), T) = K
      /\ \A n \in T : lv[n] > 0 => RowOf(t)[n] # <<>>
  BY <1>3, FullTypes
<1>5. k < top
  BY <1>1, <1>2
<1>6. PICK x : x = FindElement(t, t.root, k)
  OBVIOUS
<1>7. \/ x.node = 0 /\ k \notin KeysOf(RowOf(t), T)
      \/ x.node # 0 /\ k \in KeysOf(RowOf(t), T)
  <2>1. \/ x.node = 0 /\ k \notin KeysOf(RowOf(t), T)
        \/ /\ x.node \in T /\ x.node # 0 /\ x.at \in 1 .. Len(RowOf(t)[x.node])
           /\ RowOf(t)[x.node][x.at].key = k /\ k \in KeysOf(RowOf(t), T)
           /\ x = [node |-> x.node, at |-> x.at]
    BY <1>1, <1>4, <1>5, <1>6, FindFacts
  <2> QED BY <2>1
<1> QED BY <1>4, <1>6, <1>7 DEF NoNode

\* A key less.
LEMMA HoldsDeleted ==
    ASSUME NEW t, NEW K, NEW N, Holds(t, K, N), NEW k \in BKeys,
           FindElement(t, t.root, k).node # NoNode,
           NEW u, u = BDeleted(t, k), ~Uprooted(u), NEW K2, K2 = K \ {k}
    PROVE  Holds(u, K2, N - 1)
<1>1. /\ K \subseteq BKeys /\ IsFiniteSet(K) /\ N = Cardinality(K)
      /\ \A B \in Nat : \E top \in Nat : B <= top /\ Sound(t, top, K)
  BY DEF Holds
<1>2. k \in Nat /\ k \in K
  BY BTreeAssumption, HoldsFound
<1>3. K2 \subseteq BKeys /\ IsFiniteSet(K2) /\ N - 1 = Cardinality(K2)
  BY <1>1, <1>2, FS_RemoveElement
<1>4. ASSUME NEW B \in Nat PROVE \E top \in Nat : B <= top /\ Sound(u, top, K2)
  <2>1. B + k + 1 \in Nat
    BY <1>2
  <2>2. PICK top \in Nat : B + k + 1 <= top /\ Sound(t, top, K)
    BY <1>1, <2>1
  <2>3. k < top /\ B <= top
    BY <1>2, <2>2
  <2>4. Placed(u, top, K2)
    BY <1>2, <2>2, <2>3, DeletedFacts
  <2> QED BY <2>3, <2>4 DEF Placed
<1> QED BY <1>3, <1>4 DEF Holds

\* The nodes of a sound tree are linked and filled.
LEMMA FullLinked ==
    ASSUME NEW top, NEW T, NEW ch, NEW lv, NEW lo, NEW hi, NEW K,
           Full(btree, top, T, ch, lv, lo, hi, K)
    PROVE  BLinked
<1>1. PICK D, row, par, root : /\ D = DOMAIN btree.nodes /\ row = RowOf(btree)
                               /\ par = ParOf(btree) /\ root = btree.root
  OBVIOUS
<1>2. /\ Shape(D, row, par, root, top, T, ch, lv, lo, hi) /\ T \in SUBSET D
      /\ \A n \in D : btree.nodes[n].elems = row[n] /\ btree.nodes[n].parent = par[n]
      /\ row \in [D -> Rows]
  BY <1>1, FullTypes
<1>3. \A n \in T : /\ n # 0 /\ Len(row[n]) \in Nat /\ Len(row[n]) <= MaxPerNode
                   /\ n # root => MinPerNode <= Len(row[n])
  BY <1>1, FullTypes
<1>4. \A n \in T : Links(row[n], ch[n]) /\ row[n] \in Rows
  BY <1>1, FullTypes
<1>5. \A n \in D : n \notin T => row[n] = <<>>
  BY <1>2 DEF Shape
<1>6. ASSUME NEW n \in D, NEW s, s = btree.nodes[n].elems
      PROVE  /\ Len(s) <= MaxPerNode
             /\ \A i \in 2 .. Len(s) : s[i - 1].right = s[i].left
             /\ \A i \in DOMAIN s : \A c \in {s[i].left, s[i].right} \ {NoNode} :
                  btree.nodes[c].parent = n /\ Len(btree.nodes[c].elems) >= MinPerNode
  <2>1. s = row[n]
    BY <1>2, <1>6
  <2>2. CASE n \notin T
    <3>1. s = <<>> /\ Len(s) = 0
      BY <1>5, <2>1, <2>2, EmptyRow
    <3>2. DOMAIN s = {} /\ 2 .. Len(s) = {}
      BY <3>1
    <3> QED BY <3>1, <3>2, MinFacts
  <2>3. CASE n \in T
    <3>1. Links(s, ch[n]) /\ s \in Rows /\ Len(s) \in Nat /\ Len(s) <= MaxPerNode
      BY <1>3, <1>4, <2>1, <2>3
    <3>2. \A i \in 1 .. Len(s) : s[i].left = ch[n][i] /\ s[i].right = ch[n][i + 1]
      BY <3>1 DEF Links
    <3>3. \A i \in 2 .. Len(s) : s[i - 1].right = s[i].left
      <4> TAKE i \in 2 .. Len(s)
      <4>1. i - 1 \in 1 .. Len(s) /\ i \in 1 .. Len(s) /\ (i - 1) + 1 = i
        BY <3>1
      <4> QED BY <3>2, <4>1
    <3>4. ASSUME NEW j \in 1 .. Len(s) + 1, ch[n][j] # 0
          PROVE  /\ btree.nodes[ch[n][j]].parent = n
                 /\ Len(btree.nodes[ch[n][j]].elems) >= MinPerNode
      <4>1. PICK c : c = ch[n][j]
        OBVIOUS
      <4>2. c \in T /\ c # root /\ par[c] = n
        BY <1>2, <2>1, <2>3, <3>4, <4>1, KidsBelow
      <4>3. Len(row[c]) \in Nat /\ MinPerNode <= Len(row[c]) /\ c \in D
        BY <1>2, <1>3, <4>2
      <4>4. Len(row[c]) >= MinPerNode
        BY <4>3, MinFacts
      <4> QED BY <1>2, <4>1, <4>2, <4>3, <4>4
    <3>5. DOMAIN s = 1 .. Len(s)
      BY <3>1, RowFacts
    <3>6. ASSUME NEW i \in DOMAIN s, NEW c \in {s[i].left, s[i].right} \ {NoNode}
          PROVE  btree.nodes[c].parent = n /\ Len(btree.nodes[c].elems) >= MinPerNode
      <4>1. i \in 1 .. Len(s) /\ i \in 1 .. Len(s) + 1 /\ i + 1 \in 1 .. Len(s) + 1
        BY <3>1, <3>5
      <4>2. c # 0 /\ (c = ch[n][i] \/ c = ch[n][i + 1])
        BY <3>2, <4>1 DEF NoNode
      <4> QED BY <3>4, <4>1, <4>2
    <3> QED BY <3>1, <3>3, <3>6
  <2> QED BY <2>2, <2>3
<1> QED BY <1>1, <1>6, ZenonT(60) DEF BLinked

\* What the tree promises, as long as it holds.
LEMMA HoldsExact ==
    ASSUME Holds(btree, held, total)
    PROVE  LET keys == BInOrder(btree.root) IN
           /\ Range(keys) = held /\ \A i \in 2 .. Len(keys) : keys[i - 1] < keys[i]
           /\ \A k \in BKeys : FindElement(btree, btree.root, k).node # NoNode <=> k \in held
           /\ total = Cardinality(held)
           /\ BLinked
<1>1. PICK top \in Nat : Sound(btree, top, held)
  <2>1. 0 \in Nat
    OBVIOUS
  <2> QED BY <2>1 DEF Holds
<1>2. PICK T, ch, lv, lo, hi : Full(btree, top, T, ch, lv, lo, hi, held)
  BY <1>1 DEF Sound, Full
<1>3. /\ Range(BInOrder(btree.root)) = held
      /\ \A i \in 2 .. Len(BInOrder(btree.root)) :
           BInOrder(btree.root)[i - 1] < BInOrder(btree.root)[i]
  BY <1>2, InOrderFacts
<1>4. \A k \in BKeys : FindElement(btree, btree.root, k).node # NoNode <=> k \in held
  BY HoldsFound
<1>5. total = Cardinality(held)
  BY DEF Holds
<1>6. BLinked
  BY <1>2, FullLinked
<1> QED BY <1>3, <1>4, <1>5, <1>6

\* The invariant holds.
LEMMA BTreeInvariant == BTreeSpec => []BTreeInv
<1>1. ASSUME BTreeInit PROVE BTreeInv
  <2>1. /\ btree = [nodes |-> [n \in {1} |-> EmptyNode], root |-> 1]
        /\ total = 0 /\ held = {}
    BY <1>1 DEF BTreeInit
  <2>2. \A B \in Nat : B <= B /\ Sound(btree, B, held)
    BY <2>1, SoundInit
  <2>3. held \subseteq BKeys /\ IsFiniteSet(held) /\ total = Cardinality(held)
    BY <2>1, FS_EmptySet
  <2> QED BY <2>2, <2>3 DEF BTreeInv, Holds
<1>2. ASSUME BTreeInv, [BTreeNext]_btreeVars PROVE BTreeInv'
  <2> SUFFICES ASSUME ~uprooted' PROVE Holds(btree', held', total')
    BY DEF BTreeInv
  <2>1. CASE UNCHANGED btreeVars
    BY <1>2, <2>1 DEF BTreeInv, btreeVars
  <2>2. ASSUME NEW k \in BKeys, BInsert(k) PROVE Holds(btree', held', total')
    <3>1. /\ k \notin held /\ btree' = Inserted(btree, k)
          /\ total' = total + 1 /\ held' = held \cup {k}
          /\ uprooted' = (uprooted \/ Uprooted(btree'))
      BY <2>2 DEF BInsert
    <3>2. ~uprooted /\ ~Uprooted(btree')
      BY <3>1
    <3>3. Holds(btree, held, total)
      BY <1>2, <3>2 DEF BTreeInv
    <3>4. PICK u, K2 : u = btree' /\ K2 = held'
      OBVIOUS
    <3>5. Holds(u, K2, total + 1)
      BY <3>1, <3>2, <3>3, <3>4, HoldsInserted
    <3> QED BY <3>1, <3>4, <3>5
  <2>3. ASSUME NEW k \in BKeys, BDelete(k) PROVE Holds(btree', held', total')
    <3>1. /\ FindElement(btree, btree.root, k).node # NoNode /\ btree' = BDeleted(btree, k)
          /\ total' = total - 1 /\ held' = held \ {k}
          /\ uprooted' = (uprooted \/ Uprooted(btree'))
      BY <2>3 DEF BDelete
    <3>2. ~uprooted /\ ~Uprooted(btree')
      BY <3>1
    <3>3. Holds(btree, held, total)
      BY <1>2, <3>2 DEF BTreeInv
    <3>4. PICK u, K2 : u = btree' /\ K2 = held'
      OBVIOUS
    <3>5. Holds(u, K2, total - 1)
      BY <3>1, <3>2, <3>3, <3>4, HoldsDeleted
    <3> QED BY <3>1, <3>4, <3>5
  <2> QED BY <1>2, <2>1, <2>2, <2>3 DEF BTreeNext
<1> QED BY <1>1, <1>2, PTL DEF BTreeSpec

\* The tree is exact.
THEOREM BTreeIsExact == BTreeSpec => []BTreeExact
<1>1. BTreeInv => BTreeExact
  <2> SUFFICES ASSUME BTreeInv, ~uprooted
               PROVE  LET keys == BInOrder(btree.root) IN
                      /\ Range(keys) = held /\ \A i \in 2 .. Len(keys) : keys[i - 1] < keys[i]
                      /\ \A k \in BKeys : FindElement(btree, btree.root, k).node # NoNode <=> k \in held
                      /\ total = Cardinality(held)
                      /\ BLinked
    BY DEF BTreeExact
  <2>1. Holds(btree, held, total)
    BY DEF BTreeInv
  <2> QED BY <2>1, HoldsExact
<1> QED BY <1>1, BTreeInvariant, PTL
=============================================================================
