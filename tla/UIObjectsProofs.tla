--------------------------- MODULE UIObjectsProofs ---------------------------
(***************************************************************************)
(* For any set of objects, any shape of the tree and any bound on the      *)
(* queue: the objects that are drawn, dispatched to and destroyed exist,   *)
(* what the destructor leaves behind hangs on the root, and a change of    *)
(* what is shown is asked for or excused.                                  *)
(***************************************************************************)
EXTENDS UIObjects, Integers, FiniteSetTheorems, NaturalsInduction,
        WellFoundedInduction, TLAPS

-----------------------------------------------------------------------------
(* Induction over the naturals, over a set and not over a predicate: the   *)
(* form in which it can be cited.                                          *)

\* A set of naturals that is not empty has a least element.  It follows from
\* the library's theorem that < is well founded on Nat.
LEMMA LeastNat ==
    ASSUME NEW T \in SUBSET Nat, T # {}
    PROVE  \E m \in T : \A n \in T : m <= n
<1> DEFINE R == {ss \in Nat \X Nat : ss[1] < ss[2]}
<1>1. IsWellFoundedOn(R, Nat)
  BY NatLessThanWellFounded DEF OpToRel
<1>2. \A y, x \in Nat : y < x => <<y, x>> \in R
  OBVIOUS
<1> HIDE DEF R
<1>3. PICK x \in T : \A y \in T : ~(<<y, x>> \in R)
  BY <1>1, WFMin
<1>4. \A y \in T : ~(y < x)
  BY <1>2, <1>3
<1> QED BY <1>4

\* A set with 0 and with the successor of each of its numbers has them all.
LEMMA SetInduction ==
    ASSUME NEW T, 0 \in T, \A n \in Nat : n \in T => n + 1 \in T
    PROVE  Nat \subseteq T
<1> SUFFICES ASSUME Nat \ T # {} PROVE FALSE
  OBVIOUS
<1>1. PICK m \in Nat \ T : \A n \in Nat \ T : m <= n
  BY LeastNat
<1>2. m - 1 \in Nat /\ m - 1 \notin Nat \ T
  BY <1>1
<1> QED BY <1>1, <1>2

\* f starts with a and goes on by step: the function that an equation
\* f[n \in 0 .. last] == IF n = 0 THEN a ELSE step[f[n - 1]]  defines.
IteratesFrom(f, D, a, step, last) ==
    /\ f \in [0 .. last -> D] /\ f[0] = a
    /\ \A n \in 1 .. last : f[n] = step[f[n - 1]]

\* There is such a function.
LEMMA IterationExists ==
    ASSUME NEW D, NEW a \in D, NEW step \in [D -> D], NEW last \in Nat
    PROVE  \E f : IteratesFrom(f, D, a, step, last)
<1> DEFINE T == {m \in Nat : \E f : IteratesFrom(f, D, a, step, m)}
<1>1. 0 \in T
  <2>1. IteratesFrom([i \in 0 .. 0 |-> a], D, a, step, 0)
    BY DEF IteratesFrom
  <2> QED BY <2>1
<1>2. ASSUME NEW m \in Nat, m \in T PROVE m + 1 \in T
  <2>1. PICK f : IteratesFrom(f, D, a, step, m)
    BY <1>2
  <2>2. f \in [0 .. m -> D]
    BY <2>1 DEF IteratesFrom
  <2> DEFINE g == [i \in 0 .. m + 1 |-> IF i <= m THEN f[i] ELSE step[f[m]]]
  <2>3. g \in [0 .. m + 1 -> D]
    BY <2>2
  <2>4. g[0] = a /\ \A n \in 1 .. m : g[n] = step[g[n - 1]]
    BY <2>1 DEF IteratesFrom
  <2>5. g[m + 1] = step[g[(m + 1) - 1]]
    OBVIOUS
  <2> HIDE DEF g
  <2>6. \A n \in 1 .. m + 1 : n \in 1 .. m \/ n = m + 1
    OBVIOUS
  <2>7. IteratesFrom(g, D, a, step, m + 1)
    BY <2>3, <2>4, <2>5, <2>6 DEF IteratesFrom
  <2> QED BY <2>7
<1> HIDE DEF T
<1>3. last \in T
  BY <1>1, <1>2, SetInduction
<1> QED BY <1>3 DEF T

-----------------------------------------------------------------------------
(* What Above computes: the least set with the object that parent() does   *)
(* not leave.                                                              *)

ParentTyped == DOMAIN parent \subseteq Objects /\ \A x \in DOMAIN parent : parent[x] \in Objects

\* parent() does not lead out of the set.
ClosedUp(S) == \A x \in S \cap DOMAIN parent : parent[x] \in S

\* As many steps as there are objects are enough: Above has its fixed point.
AboveIsLeast ==
    ParentTyped => \A o \in Objects :
        /\ o \in Above(o) /\ Above(o) \subseteq Objects /\ ClosedUp(Above(o))
        /\ \A S \in SUBSET Objects : o \in S /\ ClosedUp(S) => Above(o) \subseteq S

\* Above(o) has o, what parent() leads to from it, and nothing else.
LEMMA AboveLeast == AboveIsLeast
<1> SUFFICES ASSUME ParentTyped, NEW o \in Objects
             PROVE  /\ o \in Above(o) /\ Above(o) \subseteq Objects /\ ClosedUp(Above(o))
                    /\ \A S \in SUBSET Objects : o \in S /\ ClosedUp(S) => Above(o) \subseteq S
  BY DEF AboveIsLeast
<1> DEFINE last == Cardinality(Objects)
           Up(s) == s \cup {parent[x] : x \in s \cap DOMAIN parent}
           step == [s \in SUBSET Objects |-> Up(s)]
           Defines(f) == f = [n \in 0 .. last |-> IF n = 0 THEN {o} ELSE Up(f[n - 1])]
           up == CHOOSE f : Defines(f)
<1>1. last \in Nat
  BY FS_CardinalityType, ObjectAssumption
<1>2. step \in [SUBSET Objects -> SUBSET Objects]
  BY DEF ParentTyped
<1>3. \E f : Defines(f)
  <2> HIDE DEF step, last
  <2>1. {o} \in SUBSET Objects
    OBVIOUS
  <2>2. PICK f : IteratesFrom(f, SUBSET Objects, {o}, step, last)
    <3> HIDE DEF Up
    <3> QED BY <1>1, <1>2, <2>1, IterationExists
  <2>3. \A n \in 0 .. last : f[n] = IF n = 0 THEN {o} ELSE Up(f[n - 1])
    <3> SUFFICES ASSUME NEW n \in 0 .. last, n # 0 PROVE f[n] = Up(f[n - 1])
      BY <2>2 DEF IteratesFrom
    <3>1. n \in 1 .. last /\ n - 1 \in 0 .. last
      BY <1>1
    <3>2. f[n - 1] \in SUBSET Objects
      BY <3>1, <2>2 DEF IteratesFrom
    <3> HIDE DEF Up
    <3> QED BY <3>1, <3>2, <2>2 DEF step, IteratesFrom
  <2> HIDE DEF Up
  <2>4. Defines(f)
    BY <2>2, <2>3 DEF IteratesFrom
  <2> QED BY <2>4
<1>4. Above(o) = up[last]
  BY DEF Above
<1>5. up = [n \in 0 .. last |-> IF n = 0 THEN {o} ELSE Up(up[n - 1])]
  BY <1>3
<1> HIDE DEF up, Up, step
<1>6. up[0] = {o} /\ \A n \in 1 .. last : up[n] = Up(up[n - 1])
  <2> HIDE DEF last
  <2>1. 0 \in 0 .. last /\ \A n \in 1 .. last : n \in 0 .. last /\ n # 0
    BY <1>1
  <2>2. ASSUME NEW n \in 0 .. last PROVE up[n] = IF n = 0 THEN {o} ELSE Up(up[n - 1])
    BY <1>5, Zenon
  <2> QED BY <2>1, <2>2
<1>7. \A n \in 0 .. last : up[n] \subseteq Objects /\ o \in up[n]
  <2> DEFINE T == {m \in Nat : m \in 0 .. last => up[m] \subseteq Objects /\ o \in up[m]}
  <2>1. 0 \in T
    BY <1>6
  <2>2. ASSUME NEW m \in Nat, m \in T PROVE m + 1 \in T
    <3> SUFFICES ASSUME m + 1 \in 0 .. last
                 PROVE  up[m + 1] \subseteq Objects /\ o \in up[m + 1]
      BY <2>2
    <3>1. up[m + 1] = Up(up[m]) /\ up[m] \subseteq Objects /\ o \in up[m]
      BY <1>1, <1>6, <2>2
    <3> QED BY <3>1 DEF Up, ParentTyped
  <2> HIDE DEF T
  <2>3. Nat \subseteq T
    BY <2>1, <2>2, SetInduction
  <2> QED BY <1>1, <2>3 DEF T
<1>8. ASSUME NEW S \in SUBSET Objects, o \in S, ClosedUp(S) PROVE up[last] \subseteq S
  <2> DEFINE T == {m \in Nat : m \in 0 .. last => up[m] \subseteq S}
  <2>1. 0 \in T
    BY <1>6, <1>8
  <2>2. ASSUME NEW m \in Nat, m \in T PROVE m + 1 \in T
    <3> SUFFICES ASSUME m + 1 \in 0 .. last PROVE up[m + 1] \subseteq S
      BY <2>2
    <3>1. up[m + 1] = Up(up[m]) /\ up[m] \subseteq S
      BY <1>1, <1>6, <2>2
    <3> QED BY <1>8, <3>1 DEF Up, ClosedUp
  <2> HIDE DEF T
  <2>3. Nat \subseteq T
    BY <2>1, <2>2, SetInduction
  <2> QED BY <1>1, <2>3 DEF T
<1>9. ClosedUp(up[last])
  <2> DEFINE T == {m \in Nat : m \in 0 .. last => ClosedUp(up[m]) \/ Cardinality(up[m]) > m}
  <2>1. 0 \in T
    <3>1. Cardinality(up[0]) = 1
      BY <1>6, FS_Singleton
    <3> QED BY <3>1
  <2>2. ASSUME NEW m \in Nat, m \in T PROVE m + 1 \in T
    <3> SUFFICES ASSUME m + 1 \in 0 .. last
                 PROVE  ClosedUp(up[m + 1]) \/ Cardinality(up[m + 1]) > m + 1
      BY <2>2
    <3>2. m \in 0 .. last /\ up[m + 1] = Up(up[m])
      BY <1>1, <1>6
    <3>3. CASE ClosedUp(up[m])
      <4>1. up[m + 1] = up[m]
        BY <3>2, <3>3 DEF Up, ClosedUp
      <4> QED BY <3>3, <4>1
    <3>4. CASE ~ClosedUp(up[m])
      <4>1. up[m] # up[m + 1] /\ up[m] \subseteq up[m + 1]
        BY <3>2, <3>4 DEF Up, ClosedUp
      <4>2. IsFiniteSet(up[m]) /\ IsFiniteSet(up[m + 1])
        BY <1>7, <3>2, FS_Subset, ObjectAssumption
      <4>3. Cardinality(up[m]) < Cardinality(up[m + 1])
        <5>1. /\ Cardinality(up[m]) <= Cardinality(up[m + 1])
              /\ Cardinality(up[m + 1]) = Cardinality(up[m]) => up[m + 1] = up[m]
          BY <4>1, <4>2, FS_Subset
        <5>2. Cardinality(up[m]) \in Nat /\ Cardinality(up[m + 1]) \in Nat
          BY <4>2, FS_CardinalityType
        <5> QED BY <4>1, <5>1, <5>2
      <4>4. Cardinality(up[m]) \in Nat /\ Cardinality(up[m + 1]) \in Nat
        BY <4>2, FS_CardinalityType
      <4>5. Cardinality(up[m]) > m
        BY <2>2, <3>2, <3>4
      <4> QED BY <4>3, <4>4, <4>5
    <3> QED BY <3>3, <3>4
  <2> HIDE DEF T
  <2>3. last \in T
    BY <1>1, <2>1, <2>2, SetInduction
  <2>4. Cardinality(up[last]) <= last
    <3>1. up[last] \in SUBSET Objects
      BY <1>1, <1>7
    <3> QED BY <3>1, FS_Subset, ObjectAssumption
  <2>5. Cardinality(up[last]) \in Nat
    <3>1. up[last] \in SUBSET Objects
      BY <1>1, <1>7
    <3>2. IsFiniteSet(up[last])
      BY <3>1, FS_Subset, ObjectAssumption
    <3> QED BY <3>2, FS_CardinalityType
  <2> QED BY <1>1, <2>3, <2>4, <2>5 DEF T
<1>10. last \in 0 .. last
  BY <1>1
<1> QED BY <1>4, <1>7, <1>8, <1>9, <1>10

\* What follows for the tree: the way up is a chain, and one that gets to the
\* root has no other end.
ChainFacts ==
    ParentTyped /\ Root \notin DOMAIN parent => \A o \in Objects :
        /\ o \in DOMAIN parent => Above(o) = {o} \cup Above(parent[o])
        /\ o \notin DOMAIN parent => Above(o) = {o}
        /\ \A x \in Above(o) : Above(x) \subseteq Above(o)
        /\ \A x \in Above(o) \ {o} : \E c \in Above(o) \cap DOMAIN parent : parent[c] = x
        /\ HasChain(o) => Above(o) \ {Root} \subseteq DOMAIN parent

\* What a chain of parents gives: see ChainFacts.
LEMMA Chains == ChainFacts
<1> SUFFICES ASSUME ParentTyped, Root \notin DOMAIN parent, NEW o \in Objects
             PROVE  /\ o \in DOMAIN parent => Above(o) = {o} \cup Above(parent[o])
                    /\ o \notin DOMAIN parent => Above(o) = {o}
                    /\ \A x \in Above(o) : Above(x) \subseteq Above(o)
                    /\ \A x \in Above(o) \ {o} :
                         \E c \in Above(o) \cap DOMAIN parent : parent[c] = x
                    /\ HasChain(o) => Above(o) \ {Root} \subseteq DOMAIN parent
  BY DEF ChainFacts
<1>0. \A x \in Objects :
        /\ x \in Above(x) /\ Above(x) \subseteq Objects /\ ClosedUp(Above(x))
        /\ \A S \in SUBSET Objects : x \in S /\ ClosedUp(S) => Above(x) \subseteq S
  BY AboveLeast DEF AboveIsLeast
<1>1. ASSUME NEW x \in Objects, x \notin DOMAIN parent PROVE Above(x) = {x}
  BY <1>0, <1>1 DEF ClosedUp
<1>2. ASSUME NEW x \in Objects, NEW y \in Above(x) PROVE Above(y) \subseteq Above(x)
  BY <1>0
<1>3. ASSUME NEW x \in Objects, x \in DOMAIN parent PROVE Above(x) = {x} \cup Above(parent[x])
  <2>1. parent[x] \in Objects /\ parent[x] \in Above(x)
    BY <1>0, <1>3 DEF ParentTyped, ClosedUp
  <2>2. ClosedUp({x} \cup Above(parent[x]))
    BY <1>0, <2>1 DEF ClosedUp
  <2>3. Above(x) \subseteq {x} \cup Above(parent[x])
    BY <1>0, <2>1, <2>2
  <2> QED BY <1>0, <1>2, <2>1, <2>3
<1>4. ASSUME NEW x \in Above(o), x # o,
             ~ \E c \in Above(o) \cap DOMAIN parent : parent[c] = x
      PROVE  FALSE
  <2>1. ClosedUp(Above(o) \ {x})
    BY <1>0, <1>4 DEF ClosedUp
  <2>2. Above(o) \subseteq Above(o) \ {x}
    BY <1>0, <1>4, <2>1
  <2> QED BY <1>4, <2>2
<1>5. ASSUME HasChain(o), NEW x \in Above(o), x \notin DOMAIN parent PROVE x = Root
  <2> DEFINE S == {y \in Above(o) : x \in Above(y)}
  <2>1. ClosedUp(S)
    <3> SUFFICES ASSUME NEW y \in Above(o), x \in Above(y), y \in DOMAIN parent
                 PROVE  parent[y] \in Above(o) /\ x \in Above(parent[y])
      BY DEF ClosedUp
    <3>1. parent[y] \in Above(o)
      BY <1>0 DEF ClosedUp
    <3>2. Above(y) = {y} \cup Above(parent[y]) /\ x # y
      BY <1>0, <1>3, <1>5
    <3> QED BY <3>1, <3>2
  <2>2. o \in S /\ S \in SUBSET Objects
    BY <1>0
  <2>3. Root \in S
    BY <1>0, <1>5, <2>1, <2>2 DEF HasChain
  <2>4. Above(Root) = {Root}
    BY <1>1, ObjectAssumption
  <2> QED BY <2>3, <2>4
<1> QED BY <1>1, <1>2, <1>3, <1>4, <1>5

\* Canvas::draw goes up to an object of the chain.
TargetAbove ==
    ParentTyped /\ Root \notin DOMAIN parent =>
        \A q \in Objects : HasChain(q) => Target(q) \in Above(q)

\* What an entry stands for is above what was asked for: see TargetAbove.
LEMMA TargetIsAbove == TargetAbove
<1> SUFFICES ASSUME ParentTyped, Root \notin DOMAIN parent, NEW q \in Objects, HasChain(q)
             PROVE  Target(q) \in Above(q)
  BY DEF TargetAbove
<1> DEFINE last == Cardinality(Objects)
           Up(x) == IF x \in Through THEN parent[x] ELSE x
           step == [x \in Above(q) |-> Up(x)]
           Defines(f) == f = [n \in 0 .. last |-> IF n = 0 THEN q ELSE Up(f[n - 1])]
           up == CHOOSE f : Defines(f)
<1>1. last \in Nat
  BY FS_CardinalityType, ObjectAssumption
<1>2. q \in Above(q) /\ ClosedUp(Above(q)) /\ Above(q) \ {Root} \subseteq DOMAIN parent
  BY AboveLeast, Chains DEF AboveIsLeast, ChainFacts
<1>3. \A x \in Above(q) : Up(x) \in Above(q)
  BY <1>2, ObjectAssumption DEF ClosedUp
<1>4. PICK f : IteratesFrom(f, Above(q), q, step, last)
  <2> HIDE DEF Up, last
  <2>1. step \in [Above(q) -> Above(q)]
    BY <1>3
  <2> HIDE DEF step
  <2> QED BY <1>1, <1>2, <2>1, IterationExists
<1>5. Defines(f)
  <2> HIDE DEF last
  <2>1. \A n \in 0 .. last : f[n] = IF n = 0 THEN q ELSE Up(f[n - 1])
    <3> SUFFICES ASSUME NEW n \in 0 .. last, n # 0 PROVE f[n] = Up(f[n - 1])
      BY <1>4 DEF IteratesFrom
    <3>1. n \in 1 .. last /\ n - 1 \in 0 .. last
      BY <1>1
    <3>2. f[n - 1] \in Above(q)
      BY <3>1, <1>4 DEF IteratesFrom
    <3> HIDE DEF Up
    <3> QED BY <3>1, <3>2, <1>4 DEF step, IteratesFrom
  <2> HIDE DEF Up
  <2> QED BY <1>4, <2>1 DEF IteratesFrom
<1>6. up = [n \in 0 .. last |-> IF n = 0 THEN q ELSE Up(up[n - 1])]
  BY <1>5
<1>7. Target(q) = up[last]
  BY DEF Target
<1> HIDE DEF up, Up, step
<1>8. up[0] = q /\ \A n \in 1 .. last : up[n] = Up(up[n - 1])
  <2> HIDE DEF last
  <2>1. 0 \in 0 .. last /\ \A n \in 1 .. last : n \in 0 .. last /\ n # 0
    BY <1>1
  <2>2. ASSUME NEW n \in 0 .. last PROVE up[n] = IF n = 0 THEN q ELSE Up(up[n - 1])
    BY <1>6, Zenon
  <2> QED BY <2>1, <2>2
<1>9. last \in {m \in Nat : m \in 0 .. last => up[m] \in Above(q)}
  <2> DEFINE T == {m \in Nat : m \in 0 .. last => up[m] \in Above(q)}
  <2>1. 0 \in T
    BY <1>2, <1>8
  <2>2. ASSUME NEW m \in Nat, m \in T PROVE m + 1 \in T
    <3> SUFFICES ASSUME m + 1 \in 0 .. last PROVE up[m + 1] \in Above(q)
      BY <2>2
    <3> QED BY <1>1, <1>3, <1>8, <2>2
  <2> HIDE DEF T
  <2>3. Nat \subseteq T
    BY <2>1, <2>2, SetInduction
  <2> QED BY <1>1, <2>3 DEF T
<1> QED BY <1>1, <1>7, <1>9

-----------------------------------------------------------------------------
(* The redraw queue                                                        *)

Queues == {q \in Seq(Objects) : Len(q) <= MaxQueue}

\* queueForRedraw keeps the bound, and what was in the queue and what is put
\* in are both there afterwards, or the root is, which stands for everything.
LEMMA EnqueuedFacts ==
    ASSUME NEW q \in Queues, NEW o \in Objects
    PROVE  /\ Enqueued(q, o) \in Queues
           /\ Range(Enqueued(q, o)) \subseteq Range(q) \cup {o, Root}
           /\ Range(q) \cup {o} \subseteq Range(Enqueued(q, o)) \/ Root \in Range(Enqueued(q, o))
<1>1. CASE Len(q) = MaxQueue \/ o = Root
  <2>1. Enqueued(q, o) = <<Root>>
    BY <1>1 DEF Enqueued
  <2> QED BY <2>1, ObjectAssumption DEF Queues, Range
<1>2. CASE ~(Len(q) = MaxQueue \/ o = Root) /\ (q = <<>> \/ Last(q) # o)
  <2>1. Enqueued(q, o) = Append(q, o)
    BY <1>2 DEF Enqueued
  <2>2. Range(Append(q, o)) = Range(q) \cup {o}
    <3>1. /\ DOMAIN Append(q, o) = 1 .. Len(q) + 1 /\ DOMAIN q = 1 .. Len(q) /\ Len(q) \in Nat
          /\ \A i \in 1 .. Len(q) : Append(q, o)[i] = q[i]
          /\ Append(q, o)[Len(q) + 1] = o
      BY DEF Queues
    <3> QED BY <3>1 DEF Range
  <2>3. Append(q, o) \in Queues
    BY <1>2, ObjectAssumption DEF Queues
  <2> QED BY <2>1, <2>2, <2>3
<1>3. CASE ~(Len(q) = MaxQueue \/ o = Root) /\ ~(q = <<>> \/ Last(q) # o)
  <2>1. Enqueued(q, o) = q
    BY <1>3 DEF Enqueued
  <2>2. o \in Range(q)
    BY <1>3 DEF Range, Last, Queues
  <2> QED BY <2>1, <2>2
<1> QED BY <1>1, <1>2, <1>3

\* So does notifyChange of what an option holds.
LEMMA EnqueuedIfAnyFacts ==
    ASSUME NEW q \in Queues, NEW o \in Objects \cup {None}
    PROVE  /\ EnqueuedIfAny(q, o) \in Queues
           /\ Range(EnqueuedIfAny(q, o)) \subseteq Range(q) \cup ({o, Root} \ {None})
           /\ \/ Range(q) \cup ({o} \ {None}) \subseteq Range(EnqueuedIfAny(q, o))
              \/ Root \in Range(EnqueuedIfAny(q, o))
<1>1. CASE o = None
  BY <1>1 DEF EnqueuedIfAny
<1>2. CASE o # None
  <2>1. o \in Objects /\ EnqueuedIfAny(q, o) = Enqueued(q, o)
    BY <1>2 DEF EnqueuedIfAny
  <2> QED BY <1>2, <2>1, EnqueuedFacts, ObjectAssumption
<1> QED BY <1>1, <1>2

\* destroy() takes an entry out of the queue.
LEMMA RemoveFirstFacts ==
    ASSUME NEW q \in Queues, NEW o
    PROVE  RemoveFirst(q, o) \in Queues
<1>1. CASE ~ \E i \in 1 .. Len(q) : q[i] = o
  BY <1>1 DEF RemoveFirst
<1>2. CASE \E i \in 1 .. Len(q) : q[i] = o
  <2> DEFINE I == {i \in 1 .. Len(q) : q[i] = o}
  <2>1. I \in SUBSET Nat /\ I # {}
    BY <1>2 DEF Queues
  <2>2. Min(I) \in I
    <3> HIDE DEF I
    <3>1. PICK m \in I : \A n \in I : m <= n
      BY <2>1, LeastNat
    <3> QED BY <3>1 DEF Min
  <2>3. SelectInSeq(q, LAMBDA v : v = o) = Min(I)
    BY <2>1 DEF SelectInSeq
  <2>4. RemoveFirst(q, o) = RemoveAt(q, Min(I))
    BY <1>2, <2>3 DEF RemoveFirst
  <2> DEFINE i == Min(I)
  <2>5. i \in 1 .. Len(q)
    BY <2>2
  <2> HIDE DEF i
  <2>6. /\ SubSeq(q, 1, i - 1) \in Seq(Objects) /\ Len(SubSeq(q, 1, i - 1)) = i - 1
        /\ SubSeq(q, i + 1, Len(q)) \in Seq(Objects)
        /\ Len(SubSeq(q, i + 1, Len(q))) = Len(q) - i
    BY <2>5 DEF Queues
  <2>7. RemoveAt(q, i) \in Seq(Objects) /\ Len(RemoveAt(q, i)) = Len(q) - 1
    <3> DEFINE a == SubSeq(q, 1, i - 1)
               b == SubSeq(q, i + 1, Len(q))
    <3>1. RemoveAt(q, i) = a \o b
      BY DEF RemoveAt
    <3>2. a \in Seq(Objects) /\ b \in Seq(Objects) /\ Len(a) = i - 1 /\ Len(b) = Len(q) - i
      BY <2>6
    <3> HIDE DEF a, b
    <3>3. a \o b \in Seq(Objects) /\ Len(a \o b) = Len(a) + Len(b)
      BY <3>2
    <3>4. Len(q) \in Nat
      BY DEF Queues
    <3> QED BY <2>5, <3>1, <3>2, <3>3, <3>4
  <2>8. Len(q) \in Nat /\ Len(q) <= MaxQueue /\ MaxQueue \in Nat
    BY ObjectAssumption DEF Queues
  <2>9. RemoveFirst(q, o) = RemoveAt(q, i)
    BY <2>4 DEF i
  <2>10. RemoveAt(q, i) \in Seq(Objects) /\ Len(RemoveAt(q, i)) <= MaxQueue
    BY <2>7, <2>8
  <2> QED BY <2>9, <2>10 DEF Queues
<1> QED BY <1>1, <1>2

-----------------------------------------------------------------------------
(* The invariants                                                          *)

\* A child is in the list of one parent, the one its entry names.
Linked == \A p \in Objects : \A c \in children[p] : c \in DOMAIN parent /\ parent[c] = p

\* destroy() works down one path from the root, of objects without an entry.
\* The one it deletes has no children left and no focus.
DestroyOrder ==
    /\ phase = "destroy" <=> doomed # <<>>
    /\ doomed # <<>> => doomed[1] = Root
    /\ \A i, j \in DOMAIN doomed : doomed[i] = doomed[j] => i = j
    /\ Range(doomed) \cap DOMAIN parent = {}
    /\ queueOwner # None =>
         /\ doomed # <<>> /\ queueOwner = Last(doomed)
         /\ children[queueOwner] = {} /\ queueOwner \notin {keyboard, mouse}

\* The tree is drawn only while nothing is destroyed.
DrawOrder ==
    /\ drawing => phase \in {"up", "stop"}
    /\ ~drawing => snapshot = {} /\ frames = <<>>

\* Until the tree is destroyed it consists of objects that exist; and what is
\* being destroyed exists.
TreeAlive ==
    /\ phase \in {"up", "stop"} => Root \in live /\ \A c \in DOMAIN parent : parent[c] \in live
    /\ \A i \in DOMAIN doomed : doomed[i] \in live

\* So does what has a focus, is being notified or changed, or is queued.
UseAlive ==
    /\ keyboard \in live \cup {None} /\ mouse \in live \cup {None}
    /\ \A n \in Notifiers : notify[n] # "idle" => n \in live
    /\ outdated \subseteq live
    /\ phase = "up" => Range(queue) \subseteq live

\* So does what is drawn.
DrawAlive ==
    /\ snapshot \subseteq live
    /\ \A i \in DOMAIN frames : frames[i].node \in live /\ frames[i].todo \subseteq live

\* A move under way holds the tree mutex: nothing is drawn or destroyed, and
\* the flag it has loaded stays.  No call goes on beside the destructor.
CallOrder ==
    /\ moving # None =>
         /\ phase = "up" /\ ~drawing /\ moving \in DOMAIN parent
         /\ loaded => moving \in flagged
    /\ phase # "up" => \A n \in Notifiers \ Blinking : notify[n] = "idle"

Frames == [node : Objects, todo : SUBSET Objects]

UInv == /\ TypeOK /\ Linked /\ DestroyOrder /\ DrawOrder /\ CallOrder
        /\ TreeAlive /\ UseAlive /\ DrawAlive

\* The types that the proofs about the tree start from.
LEMMA TypedParents ==
    ASSUME TypeOK
    PROVE  /\ ParentTyped /\ Root \notin DOMAIN parent
           /\ queue \in Queues
           /\ \A q \in Objects : HasChain(q) => Target(q) \in Above(q) /\ Target(q) \in Objects
<1>1. ParentTyped /\ Root \notin DOMAIN parent
  BY DEF TypeOK, ParentTyped, Range
<1>2. queue \in Queues
  BY DEF TypeOK, Queues
<1>3. \A q \in Objects : HasChain(q) => Target(q) \in Above(q)
  BY <1>1, TargetIsAbove DEF TargetAbove
<1>4. \A q \in Objects : Above(q) \subseteq Objects
  BY <1>1, AboveLeast DEF AboveIsLeast
<1> QED BY <1>1, <1>2, <1>3, <1>4

\* A last entry is an entry, and what is before it is not the last.
LEMMA SeqFacts ==
    ASSUME NEW S, NEW s \in Seq(S), s # <<>>
    PROVE  /\ Len(s) \in Nat \ {0} /\ Len(s) \in DOMAIN s /\ 1 \in DOMAIN s
           /\ Last(s) \in S /\ Last(s) = s[Len(s)]
           /\ Front(s) \in Seq(S) /\ Len(Front(s)) = Len(s) - 1
           /\ \A i \in DOMAIN Front(s) : i \in DOMAIN s /\ i # Len(s) /\ Front(s)[i] = s[i]
<1>1. Len(s) \in Nat \ {0} /\ DOMAIN s = 1 .. Len(s)
  OBVIOUS
<1>2. Len(s) \in DOMAIN s /\ 1 \in DOMAIN s /\ Last(s) \in S /\ Last(s) = s[Len(s)]
  BY <1>1 DEF Last
<1>3. /\ Front(s) \in Seq(S) /\ Len(Front(s)) = Len(s) - 1
      /\ \A i \in 1 .. Len(s) - 1 : Front(s)[i] = s[i]
  BY <1>1 DEF Front
<1>4. DOMAIN Front(s) = 1 .. Len(s) - 1
  BY <1>1, <1>3
<1> QED BY <1>1, <1>2, <1>3, <1>4

\* The invariant holds when the manager is made.
LEMMA InitUInv == Init => UInv
<1> SUFFICES ASSUME Init PROVE UInv
  OBVIOUS
<1> USE ObjectAssumption DEF Init
<1>1. TypeOK
  <2>1. drawing \in BOOLEAN
    BY Zenon
  <2>2. queue \in Seq(Objects) /\ Len(queue) <= MaxQueue
    OBVIOUS
  <2>3. frames \in Seq(Frames) /\ doomed \in Seq(Objects)
    BY DEF Frames
  <2>4. DOMAIN parent = {} /\ Range(parent) = {}
    BY DEF Range
  <2> QED BY <2>1, <2>2, <2>3, <2>4 DEF TypeOK, Frames
<1>2. Linked /\ DestroyOrder
  BY DEF Linked, DestroyOrder, Range
<1>3. DrawOrder /\ CallOrder
  BY DEF DrawOrder, CallOrder
<1>4. TreeAlive /\ UseAlive /\ DrawAlive
  BY DEF TreeAlive, UseAlive, DrawAlive, Range
<1> QED BY <1>1, <1>2, <1>3, <1>4 DEF UInv

\* The canvas begun last goes on to its next child.
LEMMA TodoTaken ==
    ASSUME NEW s \in Seq(Frames), s # <<>>, NEW c
    PROVE  LET t == [s EXCEPT ![Len(s)].todo = @ \ {c}]
           IN  /\ t \in Seq(Frames) /\ DOMAIN t = DOMAIN s
               /\ \A i \in DOMAIN s :
                    /\ t[i].node = s[i].node
                    /\ t[i].todo \subseteq s[i].todo /\ s[i].todo \ {c} \subseteq t[i].todo
<1> DEFINE t == [s EXCEPT ![Len(s)].todo = @ \ {c}]
           k == Len(s)
<1>1. k \in DOMAIN s /\ k \in Nat \ {0} /\ DOMAIN s = 1 .. k /\ s[k] \in Frames
  BY SeqFacts
<1>2. DOMAIN t = DOMAIN s /\ \A i \in DOMAIN s : i # k => t[i] = s[i]
  BY <1>1
<1>3. t[k] = [s[k] EXCEPT !.todo = @ \ {c}]
  BY <1>1
<1>4. t[k].node = s[k].node /\ t[k].todo = s[k].todo \ {c} /\ t[k] \in Frames
  BY <1>1, <1>3 DEF Frames
<1>5. \A i \in 1 .. k : s[i] \in Frames
  OBVIOUS
<1>6. \A i \in 1 .. k : t[i] \in Frames
  BY <1>2, <1>4, <1>5, <1>1
<1>7. t \in [1 .. k -> Frames]
  BY <1>1, <1>6
<1>8. t \in Seq(Frames)
  BY <1>1, <1>7
<1> QED BY <1>1, <1>2, <1>4, <1>8

\* drawTopDown adds a canvas to those begun.
LEMMA TopDownTyped ==
    ASSUME TypeOK, NEW n \in Objects,
           NEW above \in Seq(Frames), DrawTopDown(n, above)
    PROVE  /\ frames' \in Seq(Frames)
           /\ outdated' \subseteq Objects /\ missed' \subseteq Objects
<1>1. children[n] \subseteq Objects
  BY DEF TypeOK
<1>2. \A todo \in SUBSET Objects : Append(above, [node |-> n, todo |-> todo]) \in Seq(Frames)
  BY DEF Frames
<1> QED BY <1>1, <1>2 DEF DrawTopDown, TypeOK

\* What a move loads is whether there was a flag.
LEMMA LoadedTyped ==
    ASSUME NEW o, MoveLoad(o)
    PROVE  loaded' \in BOOLEAN
<1>1. loaded' = (o \in flagged)
  BY DEF MoveLoad
<1> QED BY <1>1

\* Every step keeps the types; destroy, draw and the queue need the orders below for it.
LEMMA StepTyped == UInv /\ [Next]_vars => TypeOK'
<1> SUFFICES ASSUME UInv, [Next]_vars PROVE TypeOK'
  OBVIOUS
<1>1. TypeOK /\ DestroyOrder
  BY DEF UInv
<1>2. ParentTyped /\ Root \notin DOMAIN parent /\ queue \in Queues
  BY <1>1, TypedParents
<1> USE <1>1 DEF TypeOK, Frames, treeVars, focusVars, callVars, drawVars, endVars
<1>3. ASSUME NEW o \in Objects, Create(o) PROVE TypeOK'
  BY <1>2, <1>3, EnqueuedFacts DEF Create, Queues
<1>4. ASSUME NEW p \in Objects, NEW c \in Objects \ {Root}, Add(p, c) PROVE TypeOK'
  <2>1. DOMAIN parent' = DOMAIN parent \cup {c} /\ DOMAIN parent' \subseteq live' \ {Root}
    BY <1>4 DEF Add
  <2>2. \A x \in DOMAIN parent' : parent'[x] \in Objects
    BY <1>2, <1>4 DEF Add, ParentTyped
  <2>3. children' \in [Objects -> SUBSET Objects]
    BY <1>4 DEF Add
  <2>4. /\ queue' \in Queues /\ flagged' \subseteq Objects
        /\ outdated' \subseteq Objects /\ missed' \subseteq Objects
    BY <1>2, <1>4, EnqueuedFacts DEF Add, Adds
  <2>5. Range(parent)' \subseteq Objects
    BY <2>2 DEF Range
  <2>6. UNCHANGED <<live, focusVars, callVars, drawVars, notify, endVars>>
    BY <1>4 DEF Add
  <2> QED BY <2>1, <2>3, <2>4, <2>5, <2>6 DEF Queues
<1>5. ASSUME NEW c \in Objects, RemoveObject(c) PROVE TypeOK'
  <2>1. parent[c] \in Objects
    BY <1>2, <1>5 DEF RemoveObject, ParentTyped
  <2>2. queue' \in Queues
    BY <1>2, <1>5, EnqueuedFacts DEF RemoveObject
  <2>3. children' \in [Objects -> SUBSET Objects]
    BY <1>5 DEF RemoveObject
  <2>4. flagged' \subseteq Objects /\ outdated' \subseteq Objects /\ missed' \subseteq Objects
    BY <1>5, <2>1 DEF RemoveObject
  <2>5. UNCHANGED <<live, parent, focusVars, callVars, drawVars, notify, endVars>>
    BY <1>5 DEF RemoveObject
  <2> QED BY <2>2, <2>3, <2>4, <2>5 DEF Queues
<1>6. ASSUME NEW o \in Objects, Change(o) PROVE TypeOK'
  BY <1>2, <1>6, EnqueuedFacts DEF Change, Queues
<1>7. ASSUME NEW o \in Objects, MoveLoad(o) PROVE TypeOK'
  <2>1. loaded' \in BOOLEAN
    BY <1>7, LoadedTyped
  <2> QED BY <1>7, <2>1 DEF MoveLoad
<1>25. ASSUME MoveStore PROVE TypeOK'
  <2>1. moving \in Objects /\ parent[moving] \in Objects
    BY <1>2, <1>25 DEF MoveStore, ParentTyped, UInv, CallOrder
  <2>2. queue' \in Queues
    BY <1>2, <1>25, <2>1, EnqueuedFacts DEF MoveStore
  <2>3. /\ flagged' \subseteq Objects /\ outdated' \subseteq Objects /\ missed' \subseteq Objects
        /\ moving' = None /\ loaded' = FALSE
    BY <1>25, <2>1 DEF MoveStore, PositionStored
  <2>4. UNCHANGED <<treeVars, focusVars, drawVars, notify, endVars>>
    BY <1>25 DEF MoveStore
  <2> QED BY <2>2, <2>3, <2>4 DEF Queues
<1>8. ASSUME NEW o \in Objects, SetFocus(o) PROVE TypeOK'
  BY <1>8 DEF SetFocus
<1>9. ASSUME NEW o \in Objects \cup {None}, NEW pressed \in BOOLEAN, MouseEvent(o, pressed)
      PROVE  TypeOK'
  <2>1. queue' \in Queues
    BY <1>2, <1>9, EnqueuedIfAnyFacts DEF MouseEvent
  <2>2. /\ flagged' \subseteq Objects /\ outdated' \subseteq Objects /\ missed' \subseteq Objects
        /\ {keyboard, mouse}' \subseteq Objects \cup {None}
    BY <1>9 DEF MouseEvent
  <2>3. UNCHANGED <<treeVars, callVars, drawVars, notify, endVars>>
    BY <1>9 DEF MouseEvent
  <2> QED BY <2>1, <2>2, <2>3 DEF Queues
<1>10. ASSUME Stop PROVE TypeOK'
  BY <1>10 DEF Stop
<1>11. ASSUME NEW o \in Notifiers, NotifyChange(o) PROVE TypeOK'
  BY <1>11, ObjectAssumption DEF NotifyChange
<1>12. ASSUME NEW o \in Notifiers, NotifyFlag(o) PROVE TypeOK'
  BY <1>12, ObjectAssumption DEF NotifyFlag
<1>13. ASSUME NEW o \in Notifiers, NotifyQueue(o) PROVE TypeOK'
  BY <1>2, <1>13, EnqueuedFacts, ObjectAssumption DEF NotifyQueue, Queues
<1>14. ASSUME DrawBegin PROVE TypeOK'
  BY <1>14, ObjectAssumption DEF DrawBegin, Range
<1>15. ASSUME NEW q \in Objects, DrawObject(q) PROVE TypeOK'
  <2>1. Target(q) \in Objects
    BY <1>15, TypedParents DEF DrawObject
  <2>2. /\ frames = <<>> /\ snapshot' = snapshot \ {q} /\ DrawTopDown(Target(q), frames)
        /\ UNCHANGED <<treeVars, flagged, queue, focusVars, callVars, drawing, notify, endVars>>
    BY <1>15 DEF DrawObject
  <2> DEFINE n == Target(q)
  <2> HIDE DEF n
  <2>3. /\ frames' \in Seq(Frames)
        /\ outdated' \subseteq Objects /\ missed' \subseteq Objects
    BY <2>1, <2>2, TopDownTyped
  <2> QED BY <2>2, <2>3
<1>16. ASSUME NEW q \in Objects, DrawThrows(q) PROVE TypeOK'
  BY <1>16 DEF DrawThrows
<1>17. ASSUME NEW c \in Objects, DrawChild(c) PROVE TypeOK'
  <2> DEFINE above == [frames EXCEPT ![Len(frames)].todo = @ \ {c}]
  <2>1. /\ frames # <<>> /\ DrawTopDown(c, above)
        /\ UNCHANGED <<treeVars, flagged, queue, focusVars, callVars, drawing, snapshot, notify,
                        endVars>>
    BY <1>17 DEF DrawChild
  <2>2. above \in Seq(Frames)
    BY <2>1, TodoTaken
  <2> HIDE DEF above
  <2>3. /\ frames' \in Seq(Frames)
        /\ outdated' \subseteq Objects /\ missed' \subseteq Objects
    BY <2>1, <2>2, TopDownTyped
  <2> QED BY <2>1, <2>3
<1>18. ASSUME DrawLeave PROVE TypeOK'
  BY <1>18, SeqFacts DEF DrawLeave, Cleaned
<1>19. ASSUME DrawEnd PROVE TypeOK'
  BY <1>19 DEF DrawEnd
<1>20. ASSUME DestroyRoot PROVE TypeOK'
  BY <1>20, ObjectAssumption DEF DestroyRoot
<1>21. ASSUME NEW c \in Objects, DestroyChild(c) PROVE TypeOK'
  <2>1. DOMAIN parent' = DOMAIN parent \ {c} /\ \A x \in DOMAIN parent' : parent'[x] \in Objects
    BY <1>2, <1>21 DEF DestroyChild, ParentTyped
  <2>2. Range(parent)' \subseteq Objects
    BY <2>1 DEF Range
  <2>3. children' \in [Objects -> SUBSET Objects]
    <3>1. children' = [children EXCEPT ![parent[c]] = @ \ {c}]
      BY <1>21 DEF DestroyChild
    <3> QED BY <3>1
  <2>5. doomed' \in Seq(Objects)
    BY <1>21 DEF DestroyChild
  <2>4. UNCHANGED <<live, flagged, queue, focusVars, callVars, drawVars, notify, phase,
                    queueOwner, outdated, missed>>
    BY <1>21 DEF DestroyChild
  <2> QED BY <2>1, <2>2, <2>3, <2>4, <2>5
<1>22. ASSUME Unlist PROVE TypeOK'
  BY <1>2, <1>22, RemoveFirstFacts, SeqFacts DEF Unlist, Unfocused, Queues, DestroyOrder
<1>23. ASSUME Delete PROVE TypeOK'
  BY <1>23, SeqFacts DEF Delete, DestroyOrder, Range
<1>24. ASSUME UNCHANGED vars PROVE TypeOK'
  BY <1>24 DEF vars
<1> QED
  BY <1>3, <1>4, <1>5, <1>6, <1>7, <1>8, <1>9, <1>10, <1>11, <1>12, <1>13, <1>14, <1>15, <1>16,
     <1>17, <1>18, <1>19, <1>20, <1>21, <1>22, <1>23, <1>24, <1>25, ObjectAssumption
     DEF Next, Application, Refresh, Destructor, Notifier

\* Which steps change the tree.
LEMMA TreeSteps ==
    ASSUME [Next]_vars
    PROVE  \/ UNCHANGED <<parent, children>>
           \/ \E p \in Objects, c \in Objects \ {Root} : Add(p, c)
           \/ \E c \in Objects : RemoveObject(c)
           \/ \E c \in Objects : DestroyChild(c)
<1>1. CASE Application
  BY <1>1, ObjectAssumption
     DEF Application, Create, Change, MoveLoad, MoveStore, SetFocus, MouseEvent, Stop, treeVars
<1>2. CASE Refresh
  BY <1>2 DEF Refresh, DrawBegin, DrawLeave, DrawEnd, DrawObject, DrawThrows, DrawChild, treeVars
<1>3. CASE Destructor
  BY <1>3 DEF Destructor, DestroyRoot, Unlist, Delete, treeVars
<1>4. CASE \E o \in Notifiers : NotifyChange(o) \/ Notifier(o)
  BY <1>4 DEF NotifyChange, Notifier, NotifyFlag, NotifyQueue, treeVars
<1>5. CASE UNCHANGED vars
  BY <1>5 DEF vars, treeVars
<1> QED BY <1>1, <1>2, <1>3, <1>4, <1>5 DEF Next

\* Which steps move the destructor on.
LEMMA DestructorSteps ==
    ASSUME [Next]_vars
    PROVE  \/ UNCHANGED <<phase, doomed, queueOwner, attached>>
           \/ Stop \/ DestroyRoot \/ Unlist \/ Delete
           \/ \E c \in Objects : DestroyChild(c)
<1>1. CASE Application
  BY <1>1, ObjectAssumption
     DEF Application, Create, Add, RemoveObject, Change, MoveLoad, MoveStore, SetFocus,
         MouseEvent, endVars
<1>2. CASE Refresh
  BY <1>2 DEF Refresh, DrawBegin, DrawLeave, DrawEnd, DrawObject, DrawThrows, DrawChild, endVars
<1>3. CASE \E o \in Notifiers : NotifyChange(o) \/ Notifier(o)
  BY <1>3 DEF NotifyChange, Notifier, NotifyFlag, NotifyQueue, endVars
<1>4. CASE UNCHANGED vars
  BY <1>4 DEF vars, endVars
<1> QED BY <1>1, <1>2, <1>3, <1>4 DEF Next, Destructor

\* The focuses move while the manager is up, and are given up at the end.
LEMMA FocusSteps ==
    ASSUME [Next]_vars
    PROVE  UNCHANGED <<keyboard, mouse>> \/ TreeFree \/ Unlist
<1>1. CASE Application
  BY <1>1, ObjectAssumption
     DEF Application, Create, Add, RemoveObject, Change, MoveLoad, MoveStore, SetFocus,
         MouseEvent, Stop, focusVars
<1>2. CASE Refresh
  BY <1>2 DEF Refresh, DrawBegin, DrawLeave, DrawEnd, DrawObject, DrawThrows, DrawChild, focusVars
<1>3. CASE Destructor
  BY <1>3 DEF Destructor, DestroyRoot, DestroyChild, Delete, focusVars
<1>4. CASE \E o \in Notifiers : NotifyChange(o) \/ Notifier(o)
  BY <1>4 DEF NotifyChange, Notifier, NotifyFlag, NotifyQueue, focusVars
<1>5. CASE UNCHANGED vars
  BY <1>5 DEF vars, focusVars
<1> QED BY <1>1, <1>2, <1>3, <1>4, <1>5 DEF Next

\* Every step keeps parent() and the lists of children the inverse of each other.
LEMMA StepLinked == UInv /\ [Next]_vars => Linked'
<1> SUFFICES ASSUME UInv, [Next]_vars PROVE Linked'
  OBVIOUS
<1>1. Linked /\ children \in [Objects -> SUBSET Objects]
  BY DEF UInv, TypeOK
<1>2. CASE UNCHANGED <<parent, children>>
  BY <1>1, <1>2 DEF Linked
<1>3. ASSUME NEW p \in Objects, NEW c \in Objects \ {Root}, Add(p, c) PROVE Linked'
  BY <1>1, <1>3 DEF Linked, Add
<1>4. ASSUME NEW c \in Objects, RemoveObject(c) PROVE Linked'
  BY <1>1, <1>4 DEF Linked, RemoveObject
<1>5. ASSUME NEW c \in Objects, DestroyChild(c) PROVE Linked'
  BY <1>1, <1>5 DEF Linked, DestroyChild
<1> QED BY <1>2, <1>3, <1>4, <1>5, TreeSteps

\* Every step keeps the order in which destroy works: a subtree on a stack.
LEMMA StepDestroyOrder == UInv /\ [Next]_vars => DestroyOrder'
<1> SUFFICES ASSUME UInv, [Next]_vars PROVE DestroyOrder'
  OBVIOUS
<1>1. TypeOK /\ Linked /\ DestroyOrder
  BY DEF UInv
<1>2. CASE UNCHANGED <<phase, doomed, queueOwner, attached>> /\ phase = "up"
  BY <1>1, <1>2 DEF DestroyOrder, Range
<1>3. CASE UNCHANGED <<phase, doomed, queueOwner, attached>> /\ phase # "up"
  <2>1. UNCHANGED <<parent, children>> \/ \E c \in Objects : DestroyChild(c)
    BY <1>3, TreeSteps DEF Add, RemoveObject, TreeFree
  <2>2. ~ \E c \in Objects : DestroyChild(c)
    <3> SUFFICES ASSUME NEW c \in Objects, DestroyChild(c) PROVE FALSE
      OBVIOUS
    <3>1. doomed' = Append(doomed, c) /\ doomed \in Seq(Objects) /\ doomed' = doomed
      BY <1>1, <1>3 DEF DestroyChild, TypeOK
    <3>2. \A s \in Seq(Objects) : Append(s, c) # s
      <4> SUFFICES ASSUME NEW s \in Seq(Objects) PROVE Len(Append(s, c)) # Len(s)
        OBVIOUS
      <4> QED OBVIOUS
    <3> QED BY <3>1, <3>2
  <2>3. UNCHANGED <<keyboard, mouse>> \/ Unlist
    BY <1>3, FocusSteps DEF TreeFree
  <2>4. UNCHANGED <<keyboard, mouse>> \/ queueOwner = None
    BY <2>3 DEF Unlist
  <2> QED BY <1>1, <1>3, <2>1, <2>2, <2>4 DEF DestroyOrder, Range
<1>4. CASE Stop
  BY <1>1, <1>4 DEF DestroyOrder, Stop, Range
<1>5. CASE DestroyRoot
  <2>1. queueOwner' = None /\ Root \notin DOMAIN parent' /\ doomed' = <<Root>> /\ phase' = "destroy"
    BY <1>1, <1>5 DEF DestroyOrder, DestroyRoot, TypeOK, treeVars
  <2> QED BY <2>1 DEF DestroyOrder, Range
<1>6. CASE Unlist
  <2>1. /\ phase' = phase /\ doomed' = doomed /\ parent' = parent /\ children' = children
        /\ doomed # <<>> /\ queueOwner' = Last(doomed) /\ children[Last(doomed)] = {}
    BY <1>1, <1>6 DEF DestroyOrder, Unlist, ForeachEnds, treeVars
  <2>2. Last(doomed) # None
    BY <1>1, <2>1, SeqFacts, ObjectAssumption DEF TypeOK
  <2>3. queueOwner' \notin {keyboard', mouse'}
    BY <1>6, <2>1, <2>2 DEF Unlist, Unfocused
  <2> QED BY <1>1, <2>1, <2>3 DEF DestroyOrder, Range
<1>7. CASE Delete
  <2>1. doomed # <<>> /\ doomed \in Seq(Objects) /\ queueOwner = Last(doomed) /\ phase = "destroy"
    BY <1>1, <1>7 DEF DestroyOrder, Delete, TypeOK
  <2>2. /\ doomed' = Front(doomed) /\ queueOwner' = None /\ parent' = parent
        /\ phase' = IF queueOwner = Root THEN "down" ELSE "destroy"
    BY <1>7 DEF Delete
  <2>3. /\ \A i \in DOMAIN doomed' : i \in DOMAIN doomed /\ i # Len(doomed) /\ doomed'[i] = doomed[i]
        /\ Len(doomed') = Len(doomed) - 1 /\ doomed' \in Seq(Objects)
        /\ Len(doomed) \in Nat \ {0} /\ Len(doomed) \in DOMAIN doomed /\ 1 \in DOMAIN doomed
        /\ queueOwner = doomed[Len(doomed)]
    BY <2>1, <2>2, SeqFacts
  <2>4. queueOwner = Root <=> Len(doomed) = 1
    BY <1>1, <2>1, <2>3 DEF DestroyOrder
  <2>5. doomed' = <<>> <=> Len(doomed') = 0
    BY <2>3
  <2>6. phase' = "destroy" <=> doomed' # <<>>
    BY <2>2, <2>3, <2>4, <2>5
  <2>7. doomed' # <<>> => doomed'[1] = Root
    <3>1. doomed' # <<>> => 1 \in DOMAIN doomed'
      BY <2>3, SeqFacts
    <3> QED BY <1>1, <2>1, <2>3, <3>1 DEF DestroyOrder
  <2>8. \A i, j \in DOMAIN doomed' : doomed'[i] = doomed'[j] => i = j
    BY <1>1, <2>3 DEF DestroyOrder
  <2>9. Range(doomed') \cap DOMAIN parent' = {}
    BY <1>1, <2>2, <2>3 DEF DestroyOrder, Range
  <2> QED BY <2>2, <2>6, <2>7, <2>8, <2>9 DEF DestroyOrder
<1>8. ASSUME NEW c \in Objects, DestroyChild(c) PROVE DestroyOrder'
  <2>1. doomed # <<>> /\ doomed \in Seq(Objects) /\ queueOwner = None /\ phase = "destroy"
    BY <1>1, <1>8 DEF DestroyOrder, DestroyChild, TypeOK
  <2>2. /\ doomed' = Append(doomed, c) /\ queueOwner' = queueOwner /\ phase' = phase
        /\ DOMAIN parent' = DOMAIN parent \ {c}
    BY <1>8 DEF DestroyChild
  <2>3. c \in DOMAIN parent
    <3>1. Last(doomed) \in Objects /\ c \in children[Last(doomed)]
      BY <1>8, <2>1, SeqFacts DEF DestroyChild
    <3> QED BY <1>1, <3>1 DEF Linked
  <2>4. /\ DOMAIN doomed' = DOMAIN doomed \cup {Len(doomed) + 1} /\ Len(doomed) + 1 \notin DOMAIN doomed
        /\ doomed' # <<>> /\ 1 \in DOMAIN doomed
        /\ \A i \in DOMAIN doomed : doomed'[i] = doomed[i] /\ doomed'[Len(doomed) + 1] = c
    BY <2>1, <2>2
  <2>5. \A i \in DOMAIN doomed : doomed[i] # c
    BY <1>1, <2>3 DEF DestroyOrder, Range
  <2>6. \A i, j \in DOMAIN doomed' : doomed'[i] = doomed'[j] => i = j
    BY <1>1, <2>4, <2>5 DEF DestroyOrder
  <2>7. Range(doomed') \cap DOMAIN parent' = {}
    BY <1>1, <2>2, <2>4 DEF DestroyOrder, Range
  <2> QED BY <1>1, <2>1, <2>2, <2>4, <2>6, <2>7 DEF DestroyOrder
<1> QED BY <1>2, <1>3, <1>4, <1>5, <1>6, <1>7, <1>8, DestructorSteps

\* Which steps draw.
LEMMA DrawSteps ==
    ASSUME [Next]_vars
    PROVE  \/ UNCHANGED <<drawing, snapshot, frames>>
           \/ DrawBegin \/ DrawLeave \/ DrawEnd
           \/ \E o \in Objects : DrawObject(o) \/ DrawThrows(o) \/ DrawChild(o)
<1>1. CASE Application
  BY <1>1, ObjectAssumption
     DEF Application, Create, Add, RemoveObject, Change, MoveLoad, MoveStore, SetFocus,
         MouseEvent, Stop, drawVars
<1>2. CASE Destructor
  BY <1>2 DEF Destructor, DestroyRoot, DestroyChild, Unlist, Delete, drawVars
<1>3. CASE \E o \in Notifiers : NotifyChange(o) \/ Notifier(o)
  BY <1>3 DEF NotifyChange, Notifier, NotifyFlag, NotifyQueue, drawVars
<1>4. CASE UNCHANGED vars
  BY <1>4 DEF vars, drawVars
<1> QED BY <1>1, <1>2, <1>3, <1>4 DEF Next, Refresh

\* Objects come, and only the destructor takes them away.
LEMMA LiveChanges ==
    ASSUME [Next]_vars
    PROVE  live' = live \/ Delete \/ \E o \in Objects : Create(o)
<1>1. CASE Application
  BY <1>1, ObjectAssumption
     DEF Application, Create, Add, RemoveObject, Change, MoveLoad, MoveStore, SetFocus,
         MouseEvent, Stop, treeVars
<1>2. CASE Refresh
  BY <1>2 DEF Refresh, DrawBegin, DrawLeave, DrawEnd, DrawObject, DrawThrows, DrawChild, treeVars
<1>3. CASE Destructor
  BY <1>3 DEF Destructor, DestroyRoot, DestroyChild, Unlist, treeVars
<1>4. CASE \E o \in Notifiers : NotifyChange(o) \/ Notifier(o)
  BY <1>4 DEF NotifyChange, Notifier, NotifyFlag, NotifyQueue, treeVars
<1>5. CASE UNCHANGED vars
  BY <1>5 DEF vars, treeVars
<1> QED BY <1>1, <1>2, <1>3, <1>4, <1>5 DEF Next

\* In every step what exists stays, but for what the destructor takes away.
LEMMA LiveSteps ==
    ASSUME [Next]_vars
    PROVE  live \subseteq live' \/ Delete
  BY LiveChanges DEF Create

\* Every step keeps the canvases begun and still to draw in their order.
LEMMA StepDrawOrder == UInv /\ [Next]_vars => DrawOrder'
<1> SUFFICES ASSUME UInv, [Next]_vars PROVE DrawOrder'
  OBVIOUS
<1>1. DestroyOrder /\ DrawOrder
  BY DEF UInv
<1>2. CASE UNCHANGED <<drawing, snapshot, frames>>
  <2>1. drawing => phase' \in {"up", "stop"}
    BY <1>1, DestructorSteps
       DEF DestroyOrder, DrawOrder, Stop, DestroyRoot, Unlist, Delete, DestroyChild
  <2> QED BY <1>1, <1>2, <2>1 DEF DrawOrder
<1>3. CASE DrawBegin
  BY <1>1, <1>3 DEF DrawOrder, DrawBegin, TreeFree, endVars
<1>4. CASE DrawLeave
  BY <1>1, <1>4 DEF DrawOrder, DrawLeave, endVars
<1>5. CASE DrawEnd
  BY <1>1, <1>5 DEF DrawOrder, DrawEnd, endVars
<1>6. ASSUME NEW o \in Objects, DrawObject(o) \/ DrawThrows(o) \/ DrawChild(o) PROVE DrawOrder'
  BY <1>1, <1>6 DEF DrawOrder, DrawObject, DrawThrows, DrawChild, endVars
<1> QED BY <1>2, <1>3, <1>4, <1>5, <1>6, DrawSteps

\* Every step lets a move finish under the tree mutex, and the application's
\* calls before the destructor.
LEMMA StepCallOrder == UInv /\ [Next]_vars => CallOrder'
<1> SUFFICES ASSUME UInv, [Next]_vars PROVE CallOrder'
  OBVIOUS
<1>1. TypeOK /\ DestroyOrder /\ DrawOrder /\ CallOrder
  BY DEF UInv
<1> USE <1>1 DEF CallOrder, treeVars, focusVars, callVars, drawVars, endVars
<1>2. ASSUME NEW o \in Objects, Create(o) PROVE CallOrder'
  BY <1>2 DEF Create
<1>3. ASSUME NEW o \in Objects, Change(o) \/ RemoveObject(o) \/ SetFocus(o) PROVE CallOrder'
  BY <1>3 DEF Change, RemoveObject, SetFocus, TreeFree
<1>4. ASSUME NEW p, NEW c, Add(p, c) PROVE CallOrder'
  BY <1>4 DEF Add, TreeFree
<1>5. ASSUME NEW o, NEW pressed, MouseEvent(o, pressed) PROVE CallOrder'
  BY <1>5 DEF MouseEvent, TreeFree
<1>6. ASSUME NEW o \in Objects, MoveLoad(o) PROVE CallOrder'
  BY <1>6 DEF MoveLoad, TreeFree
<1>7. CASE MoveStore
  BY <1>7 DEF MoveStore
<1>8. CASE Stop
  BY <1>8 DEF Stop
<1>9. CASE Refresh
  <2>1. CASE drawing
    BY <1>9, <2>1
       DEF Refresh, DrawBegin, DrawLeave, DrawEnd, DrawObject, DrawThrows, DrawChild, TreeFree
  <2>2. CASE ~drawing
    <3>1. frames = <<>>
      BY <2>2 DEF DrawOrder
    <3>2. DrawBegin
      BY <1>9, <2>2, <3>1
         DEF Refresh, DrawLeave, DrawEnd, DrawObject, DrawThrows, DrawChild
    <3> QED BY <3>2 DEF DrawBegin, TreeFree
  <2> QED BY <2>1, <2>2
<1>10. CASE Destructor
  BY <1>10 DEF Destructor, DestroyRoot, DestroyChild, Unlist, Delete, DestroyOrder
<1>11. ASSUME NEW o \in Notifiers, NotifyChange(o) \/ NotifyFlag(o) \/ NotifyQueue(o)
       PROVE  CallOrder'
  <2>1. /\ UNCHANGED <<moving, loaded, phase, drawing, parent>> /\ flagged \subseteq flagged'
        /\ \A n \in Notifiers : n # o => notify'[n] = notify[n]
    BY <1>11 DEF NotifyChange, NotifyFlag, NotifyQueue, TypeOK
  <2>2. phase # "up" => o \in Blinking
    BY <1>11 DEF NotifyChange, NotifyFlag, NotifyQueue
  <2> QED BY <2>1, <2>2
<1>12. CASE UNCHANGED vars
  BY <1>12 DEF vars
<1> QED
  BY <1>2, <1>3, <1>4, <1>5, <1>6, <1>7, <1>8, <1>9, <1>10, <1>11, <1>12
     DEF Next, Application, Notifier

\* Every step keeps what is in the tree, or being destroyed, alive.
LEMMA StepTreeAlive == UInv /\ [Next]_vars => TreeAlive'
<1> SUFFICES ASSUME UInv, [Next]_vars PROVE TreeAlive'
  OBVIOUS
<1>1. TypeOK /\ Linked /\ DestroyOrder /\ TreeAlive
  BY DEF UInv
<1>2. ASSUME phase' \in {"up", "stop"}
      PROVE  Root \in live' /\ \A c \in DOMAIN parent' : parent'[c] \in live'
  <2>1. phase \in {"up", "stop"} /\ live \subseteq live'
    BY <1>1, <1>2, DestructorSteps, LiveSteps
       DEF DestroyOrder, Stop, DestroyRoot, Unlist, Delete, DestroyChild
  <2>2. \/ UNCHANGED <<parent, children>>
        \/ \E p \in Objects, c \in Objects \ {Root} : Add(p, c)
        \/ \E c \in Objects : RemoveObject(c)
    <3>1. ASSUME NEW c \in Objects, DestroyChild(c) PROVE FALSE
      BY <2>1, <3>1 DEF DestroyChild
    <3> QED BY <3>1, TreeSteps
  <2> QED BY <1>1, <2>1, <2>2 DEF TreeAlive, Add, RemoveObject
<1>3. \A i \in DOMAIN doomed' : doomed'[i] \in live'
  <2>1. CASE Delete
    <3>1. doomed # <<>> /\ doomed \in Seq(Objects) /\ queueOwner = Last(doomed)
      BY <1>1, <2>1 DEF DestroyOrder, Delete, TypeOK
    <3>2. \A i \in DOMAIN doomed' : /\ i \in DOMAIN doomed /\ Len(doomed) \in DOMAIN doomed
                                    /\ i # Len(doomed) /\ doomed'[i] = doomed[i]
      BY <2>1, <3>1, SeqFacts DEF Delete
    <3>3. \A i \in DOMAIN doomed' : doomed'[i] # queueOwner
      BY <1>1, <3>1, <3>2, SeqFacts DEF DestroyOrder
    <3> QED BY <1>1, <2>1, <3>2, <3>3 DEF TreeAlive, Delete
  <2>2. CASE DestroyRoot
    BY <1>1, <2>2 DEF TreeAlive, DestroyRoot, treeVars
  <2>3. ASSUME NEW c \in Objects, DestroyChild(c) PROVE \A i \in DOMAIN doomed' : doomed'[i] \in live'
    <3>1. doomed # <<>> /\ doomed \in Seq(Objects)
      BY <1>1, <2>3 DEF DestroyOrder, DestroyChild, TypeOK
    <3>2. c \in live
      <4>1. Last(doomed) \in Objects /\ c \in children[Last(doomed)]
        BY <2>3, <3>1, SeqFacts DEF DestroyChild
      <4> QED BY <1>1, <4>1 DEF Linked, TypeOK
    <3>3. \A i \in DOMAIN doomed' : (i \in DOMAIN doomed /\ doomed'[i] = doomed[i]) \/ doomed'[i] = c
      BY <2>3, <3>1 DEF DestroyChild
    <3> QED BY <1>1, <2>3, <3>2, <3>3 DEF TreeAlive, DestroyChild
  <2>4. CASE ~Delete /\ doomed' = doomed
    BY <1>1, <2>4, LiveSteps DEF TreeAlive
  <2> QED BY <2>1, <2>2, <2>3, <2>4, DestructorSteps DEF Stop, Unlist
<1> QED BY <1>2, <1>3 DEF TreeAlive

\* Every step keeps what the drawing thread is going to draw alive.
LEMMA StepDrawAlive == UInv /\ [Next]_vars => DrawAlive'
<1> SUFFICES ASSUME UInv, [Next]_vars PROVE DrawAlive'
  OBVIOUS
<1>1. TypeOK /\ Linked /\ DestroyOrder /\ DrawOrder /\ TreeAlive /\ UseAlive /\ DrawAlive
  BY DEF UInv
<1>2. CASE Delete
  <2>1. ~drawing
    BY <1>1, <1>2 DEF DestroyOrder, DrawOrder, Delete
  <2>2. snapshot' = {} /\ frames' = <<>>
    BY <1>1, <1>2, <2>1 DEF DrawOrder, Delete, drawVars
  <2> QED BY <2>2 DEF DrawAlive
<1>3. CASE UNCHANGED <<drawing, snapshot, frames>> /\ live \subseteq live'
  BY <1>1, <1>3 DEF DrawAlive
<1>4. CASE DrawBegin
  BY <1>1, <1>4 DEF DrawAlive, UseAlive, DrawBegin, TreeFree, treeVars
<1>5. CASE DrawLeave
  <2>1. frames # <<>> /\ frames \in Seq(Frames) /\ frames' = Front(frames) /\ UNCHANGED <<live, snapshot>>
    BY <1>1, <1>5 DEF DrawLeave, TypeOK, Frames, treeVars
  <2>2. \A i \in DOMAIN frames' : i \in DOMAIN frames /\ frames'[i] = frames[i]
    BY <2>1, SeqFacts
  <2> QED BY <1>1, <2>1, <2>2 DEF DrawAlive
<1>6. CASE DrawEnd
  BY <1>1, <1>6 DEF DrawAlive, DrawEnd, treeVars
<1>7. ASSUME NEW n \in live, NEW above \in Seq(Frames), DrawTopDown(n, above), live' = live,
             \A i \in DOMAIN above : above[i].node \in live /\ above[i].todo \subseteq live
      PROVE  \A i \in DOMAIN frames' : frames'[i].node \in live' /\ frames'[i].todo \subseteq live'
  <2>1. PICK todo \in {{}, children[n]} : frames' = Append(above, [node |-> n, todo |-> todo])
    BY <1>7 DEF DrawTopDown
  <2>2. todo \subseteq live
    BY <1>1, <2>1 DEF Linked, TypeOK
  <2>3. \A i \in DOMAIN frames' :
          \/ i \in DOMAIN above /\ frames'[i] = above[i]
          \/ frames'[i] = [node |-> n, todo |-> todo]
    BY <2>1
  <2> QED BY <1>7, <2>2, <2>3
<1>8. ASSUME NEW q \in Objects, DrawObject(q) PROVE DrawAlive'
  <2>1. /\ HasChain(q) /\ q \in live /\ frames = <<>> /\ drawing
        /\ DrawTopDown(Target(q), frames) /\ live' = live /\ snapshot' = snapshot \ {q}
    BY <1>1, <1>8 DEF DrawObject, DrawAlive, treeVars
  <2>2. Target(q) \in Above(q)
    BY <1>1, <2>1, TypedParents
  <2>3. Above(q) \subseteq live
    <3>1. ParentTyped /\ q \in live /\ live \subseteq Objects /\ ClosedUp(live)
      BY <1>1, <2>1, TypedParents DEF TypeOK, ClosedUp, TreeAlive, DrawOrder
    <3> QED BY <3>1, AboveLeast DEF AboveIsLeast
  <2>4. Target(q) \in live
    BY <2>2, <2>3
  <2>5. <<>> \in Seq(Frames) /\ DOMAIN <<>> = {}
    OBVIOUS
  <2>6. \A i \in DOMAIN frames' : frames'[i].node \in live' /\ frames'[i].todo \subseteq live'
    BY <1>7, <2>1, <2>4, <2>5
  <2> QED BY <1>1, <2>1, <2>6 DEF DrawAlive
<1>9. ASSUME NEW q \in Objects, DrawThrows(q) PROVE DrawAlive'
  BY <1>1, <1>9 DEF DrawThrows, DrawAlive, treeVars
<1>10. ASSUME NEW c \in Objects, DrawChild(c) PROVE DrawAlive'
  <2> DEFINE above == [frames EXCEPT ![Len(frames)].todo = @ \ {c}]
  <2>1. /\ frames # <<>> /\ frames \in Seq(Frames) /\ c \in Last(frames).todo
        /\ DrawTopDown(c, above) /\ live' = live /\ snapshot' = snapshot
    BY <1>1, <1>10 DEF DrawChild, TypeOK, Frames, treeVars
  <2>2. /\ above \in Seq(Frames) /\ DOMAIN above = DOMAIN frames
        /\ \A i \in DOMAIN frames :
             above[i].node = frames[i].node /\ above[i].todo \subseteq frames[i].todo
    <3>1. frames # <<>> /\ frames \in Seq(Frames)
      BY <2>1
    <3> QED BY <3>1, TodoTaken
  <2> HIDE DEF above
  <2>3. c \in live
    <3>1. Len(frames) \in DOMAIN frames /\ Last(frames) = frames[Len(frames)]
      BY <2>1, SeqFacts
    <3>2. frames[Len(frames)].todo \subseteq live
      BY <1>1, <3>1 DEF DrawAlive
    <3> QED BY <2>1, <3>1, <3>2
  <2>4. \A i \in DOMAIN above : above[i].node \in live /\ above[i].todo \subseteq live
    BY <1>1, <2>2 DEF DrawAlive
  <2>5. \A i \in DOMAIN frames' : frames'[i].node \in live' /\ frames'[i].todo \subseteq live'
    BY <1>7, <2>1, <2>2, <2>3, <2>4
  <2> QED BY <1>1, <2>1, <2>5 DEF DrawAlive
<1> QED BY <1>2, <1>3, <1>4, <1>5, <1>6, <1>8, <1>9, <1>10, DrawSteps, LiveSteps

\* Every step keeps what the dispatcher and the focuses stand on alive.
LEMMA StepUseAlive == UInv /\ [Next]_vars => UseAlive'
<1> SUFFICES ASSUME UInv, [Next]_vars PROVE UseAlive'
  OBVIOUS
<1>1. TypeOK /\ DestroyOrder /\ CallOrder /\ TreeAlive /\ UseAlive
  BY DEF UInv
<1>2. queue \in Queues /\ DOMAIN parent \subseteq live /\ live \subseteq Objects
  BY <1>1, TypedParents DEF TypeOK
<1>3. ASSUME NEW o \in live, phase = "up"
      PROVE  Range(Enqueued(queue, o)) \subseteq live
  BY <1>1, <1>2, <1>3, EnqueuedFacts DEF UseAlive, TreeAlive
<1> USE <1>1 DEF UseAlive, treeVars, focusVars, drawVars, endVars
<1>4. ASSUME NEW o \in Objects, Create(o) PROVE UseAlive'
  <2>1. Range(queue') \subseteq live \cup {o}
    BY <1>2, <1>4, EnqueuedFacts DEF Create, TreeAlive
  <2> QED BY <1>4, <2>1 DEF Create
<1>5. ASSUME NEW p \in Objects, NEW c \in Objects, Add(p, c) PROVE UseAlive'
  <2>1. Range(queue') \subseteq live
    BY <1>3, <1>5 DEF Add, Adds, TreeFree
  <2> QED BY <1>5, <2>1 DEF Add
<1>6. ASSUME NEW o \in Objects, RemoveObject(o) PROVE UseAlive'
  <2>1. Range(queue') \subseteq live /\ parent[o] \in live
    BY <1>2, <1>3, <1>6 DEF RemoveObject, TreeFree, TreeAlive
  <2> QED BY <1>6, <2>1 DEF RemoveObject
<1>7. ASSUME NEW o \in Objects, Change(o) PROVE UseAlive'
  <2>1. Range(queue') \subseteq live
    BY <1>3, <1>7 DEF Change, TreeFree
  <2> QED BY <1>7, <2>1 DEF Change
<1>8. ASSUME MoveStore PROVE UseAlive'
  <2>1. parent[moving] \in live /\ phase = "up"
    BY <1>8 DEF MoveStore, TreeAlive, CallOrder
  <2>2. Range(queue') \subseteq live
    BY <1>3, <1>8, <2>1 DEF MoveStore
  <2> QED BY <1>8, <2>1, <2>2 DEF MoveStore
<1>20. ASSUME NEW o \in Objects, MoveLoad(o) PROVE UseAlive'
  BY <1>20 DEF MoveLoad
<1>9. ASSUME NEW o \in Objects, SetFocus(o) PROVE UseAlive'
  BY <1>9 DEF SetFocus
<1>10. ASSUME NEW o \in Objects \cup {None}, NEW pressed \in BOOLEAN, MouseEvent(o, pressed)
       PROVE  UseAlive'
  <2>1. phase = "up" /\ o \in live \cup {None} /\ Root \in live
    BY <1>10 DEF MouseEvent, TreeFree, TreeAlive
  <2>2. EnqueuedIfAny(queue, mouse) \in Queues /\ Range(EnqueuedIfAny(queue, mouse)) \subseteq live
    BY <1>2, <2>1, EnqueuedIfAnyFacts, ObjectAssumption
  <2>3. Range(queue') \subseteq live
    BY <1>2, <1>10, <2>1, <2>2, EnqueuedIfAnyFacts, ObjectAssumption DEF MouseEvent
  <2> QED BY <1>10, <2>1, <2>3 DEF MouseEvent
<1>11. ASSUME Stop PROVE UseAlive'
  BY <1>11 DEF Stop
<1>12. ASSUME NEW o \in Notifiers, NotifyChange(o) PROVE UseAlive'
  BY <1>2, <1>12 DEF NotifyChange, TypeOK
<1>13. ASSUME NEW o \in Notifiers, NotifyFlag(o) PROVE UseAlive'
  BY <1>13 DEF NotifyFlag, TypeOK
<1>14. ASSUME NEW o \in Notifiers, NotifyQueue(o) PROVE UseAlive'
  <2>1. phase = "up" => Range(queue') \subseteq live
    BY <1>3, <1>14 DEF NotifyQueue
  <2> QED BY <1>14, <2>1 DEF NotifyQueue, TypeOK
<1>15. CASE Refresh
  <2>1. /\ UNCHANGED <<live, keyboard, mouse, notify, phase>>
        /\ outdated' \subseteq outdated /\ queue' \in {queue, <<>>}
    BY <1>15 DEF Refresh, DrawBegin, DrawLeave, DrawEnd, DrawObject, DrawThrows, DrawChild,
                 DrawTopDown
  <2>2. Range(<<>>) = {}
    BY DEF Range
  <2>3. phase = "up" => Range(queue') \subseteq live
    BY <2>1, <2>2
  <2> QED BY <2>1, <2>3
<1>16. CASE DestroyRoot \/ \E c \in Objects : DestroyChild(c)
  BY <1>16 DEF DestroyRoot, DestroyChild
<1>17. CASE Unlist
  BY <1>17 DEF Unlist, Unfocused
<1>18. CASE Delete
  <2>1. phase' # "up" /\ queueOwner \notin {keyboard, mouse}
    BY <1>18 DEF Delete, DestroyOrder
  <2>2. \A n \in Notifiers : notify[n] # "idle" => n # queueOwner
    BY <1>18 DEF Delete, NotifierEnds, CallOrder, DestroyOrder
  <2> QED BY <1>18, <2>1, <2>2, ObjectAssumption DEF Delete, TypeOK
<1>19. CASE UNCHANGED vars
  BY <1>19 DEF vars
<1> QED
  BY <1>4, <1>5, <1>6, <1>7, <1>8, <1>9, <1>10, <1>11, <1>12, <1>13, <1>14, <1>15, <1>16, <1>17,
     <1>18, <1>19, <1>20, ObjectAssumption DEF Next, Application, Destructor, Notifier

\* The invariant holds in every reachable state.
LEMMA AlwaysUInv == Spec => []UInv
<1>1. UInv /\ [Next]_vars => UInv'
  BY StepTyped, StepLinked, StepDestroyOrder, StepDrawOrder, StepCallOrder, StepTreeAlive,
     StepUseAlive, StepDrawAlive DEF UInv
<1> QED BY <1>1, InitUInv, PTL DEF Spec

\* Every queue, draw and destruction keeps to its types; the queue of objects
\* to draw again stays within MAX_OBJECTS_UPDATE_QUEUE.
THEOREM TypeCorrect == Spec => []TypeOK
<1>1. UInv => TypeOK
  BY DEF UInv
<1> QED BY <1>1, AlwaysUInv, PTL

\* The draw under way, the notifiers, the focuses and destroy() keep only
\* objects that exist, for any tree and any number of notifiers.
THEOREM OnlyLiveUsed == Spec => []UsedIsLive
<1>1. UInv => UsedIsLive
  <2> SUFFICES ASSUME UInv PROVE UsedIsLive
    OBVIOUS
  <2>1. Range(doomed) \subseteq live /\ {f.node : f \in Range(frames)} \subseteq live
    BY DEF UInv, TreeAlive, DrawAlive, Range
  <2>2. snapshot \subseteq live /\ {keyboard, mouse} \ {None} \subseteq live
    BY DEF UInv, UseAlive, DrawAlive
  <2>3. {n \in Notifiers : notify[n] # "idle"} \subseteq live
    BY DEF UInv, UseAlive
  <2> QED BY <2>1, <2>2, <2>3 DEF UsedIsLive
<1> QED BY <1>1, AlwaysUInv, PTL

-----------------------------------------------------------------------------
(* The destructor frees the tree                                           *)

\* In the tree as it was when the destructor began no object is below itself.
Grounded ==
    \A S \in SUBSET (attached \cap DOMAIN parent) : (\A o \in S : parent[o] \in S) => S = {}

\* What exists of that tree is being destroyed, is its root before destroy()
\* has begun, or is in the list of a parent that exists, where foreach finds it.
LeftHangs ==
    /\ phase = "up" => attached = {}
    /\ \A o \in attached \cap live :
        \/ o \in Range(doomed)
        \/ o = Root /\ phase = "stop"
        \/ o \in DOMAIN parent /\ o \in children[parent[o]] /\ parent[o] \in attached \cap live

FreeInv == Grounded /\ LeftHangs

\* Nothing hangs anywhere when the manager is made.
LEMMA InitFreeInv == Init => FreeInv
  BY DEF Init, FreeInv, Grounded, LeftHangs

\* Stop takes the tree as it is.
LEMMA StopFreeInv == UInv /\ Stop => FreeInv'
<1> SUFFICES ASSUME UInv, Stop PROVE FreeInv'
  OBVIOUS
<1>1. /\ attached' = {o \in live : InTree(o)} /\ phase' = "stop"
      /\ UNCHANGED <<live, parent, children, doomed>>
  BY DEF Stop, treeVars
<1>2. ParentTyped /\ Root \notin DOMAIN parent /\ live \subseteq Objects
  BY TypedParents DEF UInv, TypeOK
<1>3. \A c \in DOMAIN parent : parent[c] \in live
  BY DEF UInv, TreeAlive, Stop
<1>4. ASSUME NEW S \in SUBSET (attached' \cap DOMAIN parent), \A o \in S : parent[o] \in S,
             NEW o \in S
      PROVE  FALSE
  <2>1. ClosedUp(S) /\ S \in SUBSET Objects /\ o \in Objects /\ InTree(o)
    BY <1>1, <1>2, <1>4 DEF ClosedUp
  <2>2. Above(o) \subseteq S
    BY <1>2, <2>1, AboveLeast DEF AboveIsLeast
  <2>3. Root \in S
    BY <2>1, <2>2 DEF InTree, HasChain
  <2> QED BY <1>2, <2>3
<1>5. ASSUME NEW o \in live, InTree(o), o # Root
      PROVE  o \in DOMAIN parent /\ o \in children[parent[o]] /\ parent[o] \in live /\ InTree(parent[o])
  <2>1. o \in Objects /\ o \in Above(o)
    BY <1>2, AboveLeast DEF AboveIsLeast
  <2>2. o \in DOMAIN parent /\ o \in children[parent[o]]
    BY <1>2, <1>5, <2>1, Chains DEF InTree, ChainFacts
  <2>3. Above(o) = {o} \cup Above(parent[o])
    BY <1>2, <2>1, <2>2, Chains DEF ChainFacts
  <2>4. InTree(parent[o])
    BY <1>5, <2>3 DEF InTree, HasChain
  <2> QED BY <1>3, <2>2, <2>4
<1>6. Grounded'
  BY <1>1, <1>4 DEF Grounded
<1>7. LeftHangs'
  BY <1>1, <1>5 DEF LeftHangs
<1> QED BY <1>6, <1>7 DEF FreeInv

\* Every step keeps the tree grounded, and what is left of it hanging.
LEMMA StepFreeInv == UInv /\ FreeInv /\ [Next]_vars => FreeInv'
<1> SUFFICES ASSUME UInv, FreeInv, [Next]_vars PROVE FreeInv'
  OBVIOUS
<1>1. TypeOK /\ Linked /\ DestroyOrder /\ Grounded /\ LeftHangs
  BY DEF UInv, FreeInv
<1>2. CASE Stop
  BY <1>2, StopFreeInv
<1>3. CASE UNCHANGED <<phase, doomed, queueOwner, attached>> /\ phase = "up"
  BY <1>1, <1>3 DEF FreeInv, Grounded, LeftHangs
<1>4. CASE UNCHANGED <<phase, doomed, queueOwner, attached>> /\ phase # "up"
  <2>1. ASSUME NEW c \in Objects, DestroyChild(c) PROVE FALSE
    <3>1. \A s \in Seq(Objects) : Append(s, c) # s
      <4> SUFFICES ASSUME NEW s \in Seq(Objects) PROVE Len(Append(s, c)) # Len(s)
        OBVIOUS
      <4> QED OBVIOUS
    <3>2. doomed' = Append(doomed, c) /\ doomed \in Seq(Objects) /\ doomed' = doomed
      BY <1>1, <1>4, <2>1 DEF DestroyChild, TypeOK
    <3> QED BY <3>1, <3>2
  <2>2. UNCHANGED <<parent, children>>
    BY <1>4, <2>1, TreeSteps DEF Add, RemoveObject, TreeFree
  <2>3. attached' = attached /\ attached \cap live' = attached \cap live
    <3>1. ~Delete
      BY <1>1, <1>4 DEF Delete, DestroyOrder
    <3>2. live' = live
      BY <1>4, <3>1, LiveChanges DEF Create
    <3> QED BY <1>4, <3>2
  <2> QED BY <1>1, <1>4, <2>2, <2>3 DEF FreeInv, Grounded, LeftHangs
<1>5. CASE DestroyRoot
  <2>1. /\ UNCHANGED <<live, parent, children, attached>> /\ phase' = "destroy"
        /\ Root \in Range(doomed') /\ phase = "stop" /\ doomed = <<>>
    BY <1>1, <1>5 DEF DestroyRoot, treeVars, DestroyOrder, Range
  <2>2. Range(<<>>) = {}
    BY DEF Range
  <2> QED BY <1>1, <2>1, <2>2 DEF FreeInv, Grounded, LeftHangs
<1>6. CASE Unlist
  BY <1>1, <1>6 DEF Unlist, treeVars, FreeInv, Grounded, LeftHangs
<1>7. CASE Delete
  <2>1. /\ UNCHANGED <<parent, children, attached>> /\ live' = live \ {queueOwner}
        /\ phase # "stop" /\ phase' # "up" /\ queueOwner # None
    BY <1>1, <1>7 DEF Delete, DestroyOrder
  <2>2. doomed # <<>> /\ doomed \in Seq(Objects) /\ doomed' = Front(doomed)
        /\ queueOwner = Last(doomed) /\ children[queueOwner] = {}
    BY <1>1, <1>7 DEF Delete, DestroyOrder, TypeOK
  <2>3. Range(doomed) \subseteq Range(doomed') \cup {queueOwner}
    <3>1. /\ DOMAIN doomed = 1 .. Len(doomed) /\ Len(doomed) \in Nat \ {0}
          /\ DOMAIN Front(doomed) = 1 .. Len(doomed) - 1
          /\ \A i \in 1 .. Len(doomed) - 1 : Front(doomed)[i] = doomed[i]
          /\ queueOwner = doomed[Len(doomed)]
      BY <2>2, SeqFacts
    <3>2. \A i \in DOMAIN doomed :
            (i \in DOMAIN doomed' /\ doomed'[i] = doomed[i]) \/ doomed[i] = queueOwner
      BY <2>2, <3>1
    <3> QED BY <3>2 DEF Range
  <2>4. \A o \in attached \cap live' :
          \/ o \in Range(doomed')
          \/ o \in DOMAIN parent /\ o \in children[parent[o]] /\ parent[o] \in attached \cap live'
    BY <1>1, <2>1, <2>2, <2>3 DEF LeftHangs
  <2> QED BY <1>1, <2>1, <2>4 DEF FreeInv, Grounded, LeftHangs
<1>8. ASSUME NEW c \in Objects, DestroyChild(c) PROVE FreeInv'
  <2>1. /\ children' = [children EXCEPT ![parent[c]] = @ \ {c}]
        /\ parent' = [x \in DOMAIN parent \ {c} |-> parent[x]] /\ doomed' = Append(doomed, c)
        /\ UNCHANGED <<live, attached, phase>> /\ phase = "destroy"
        /\ doomed \in Seq(Objects)
    BY <1>1, <1>8 DEF DestroyChild, TypeOK
  <2>2. Range(doomed') = Range(doomed) \cup {c}
    <3>1. /\ DOMAIN doomed' = DOMAIN doomed \cup {Len(doomed) + 1}
          /\ \A i \in DOMAIN doomed : doomed'[i] = doomed[i]
          /\ doomed'[Len(doomed) + 1] = c
      BY <2>1
    <3> QED BY <3>1 DEF Range
  <2>3. Grounded'
    BY <1>1, <2>1 DEF Grounded
  <2>4. LeftHangs'
    <3> SUFFICES ASSUME NEW o \in attached \cap live, o \notin Range(doomed')
                 PROVE  /\ o \in DOMAIN parent' /\ o \in children'[parent'[o]]
                        /\ parent'[o] \in attached \cap live
      BY <2>1 DEF LeftHangs
    <3>1. /\ o \in DOMAIN parent /\ o \in children[parent[o]] /\ o # c
          /\ parent[o] \in attached \cap live
      BY <1>1, <2>1, <2>2 DEF LeftHangs
    <3>2. parent[o] \in Objects
      BY <1>1, <3>1, TypedParents DEF ParentTyped
    <3>3. o \in children'[parent[o]]
      BY <1>1, <2>1, <3>1, <3>2 DEF TypeOK
    <3> QED BY <2>1, <3>1, <3>3
  <2> QED BY <2>3, <2>4 DEF FreeInv
<1> QED BY <1>2, <1>3, <1>4, <1>5, <1>6, <1>7, <1>8, DestructorSteps

\* destroy(_rootCanvas) deletes every object of the tree, for any tree: what
\* has a parent in its list cannot go round in a circle without the root.
THEOREM TreeFreed == Spec => []TreeIsFreed
<1>1. Spec => []FreeInv
  BY InitFreeInv, StepFreeInv, AlwaysUInv, PTL DEF Spec
<1>2. UInv /\ FreeInv => TreeIsFreed
  <2> SUFFICES ASSUME UInv, FreeInv, phase = "down" PROVE live \cap attached = {} /\ doomed = <<>>
    BY DEF TreeIsFreed
  <2> DEFINE L == attached \cap live
  <2>1. doomed = <<>> /\ Range(<<>>) = {}
    BY DEF UInv, DestroyOrder, Range
  <2>2. \A o \in L : o \in DOMAIN parent /\ parent[o] \in L
    BY <2>1 DEF FreeInv, LeftHangs
  <2>3. L \in SUBSET (attached \cap DOMAIN parent)
    BY <2>2
  <2>4. L = {}
    BY <2>2, <2>3 DEF FreeInv, Grounded
  <2> QED BY <2>1, <2>4
<1> QED BY <1>1, <1>2, AlwaysUInv, PTL

-----------------------------------------------------------------------------
(* No change is forgotten                                                  *)

\* What a notification or a drawing will reach next.
Asked == Range(queue) \cup snapshot \cup {n \in Notifiers : notify[n] # "idle"}
         \cup UNION {f.todo : f \in Range(frames)}

RequestedIsAsked == \A o \in Objects : Requested(o) <=> Above(o) \cap Asked # {}

\* A request is what Asked counts, now ...
LEMMA RequestedAsked == RequestedIsAsked
  BY DEF RequestedIsAsked, Requested, Asked

\* ... and in the next state.
LEMMA RequestedAskedNext == RequestedIsAsked'
  BY RequestedAsked, PTL

\* What Above is, in the next state.
LEMMA AboveLeastNext == AboveIsLeast'
  BY AboveLeast, PTL

\* The tree that is left alone is the same in the next state.
LEMMA SameAbove ==
    ASSUME parent' = parent
    PROVE  \A o \in Objects : Above(o)' = Above(o) /\ HasChain(o)' = HasChain(o)
<1>1. \A o \in Objects : Above(o)' = Above(o)
  BY DEF Above
<1> QED BY <1>1 DEF HasChain

\* Nor does what is in the tree change with it.
LEMMA SameInTree ==
    ASSUME parent' = parent, children' = children
    PROVE  \A o \in Objects : InTree(o)' = InTree(o)
  BY SameAbove DEF InTree

\* A canvas with its own buffer whose change is in no buffer is flagged, or
\* about to be flagged by its notifier, or missed: it is not skipped unseen.
ChangeFlagged ==
    \A o \in outdated \cap Local :
        o \in flagged \/ o \in missed \/ (o \in Notifiers /\ notify[o] = "flag")

\* Nothing has changed when the manager is made.
LEMMA InitChanges == Init => ChangeFlagged /\ NoChangeForgotten
<1> SUFFICES ASSUME Init PROVE ChangeFlagged /\ NoChangeForgotten
  OBVIOUS
<1>1. ParentTyped
  BY DEF Init, ParentTyped
<1>2. Root \in Above(Root) /\ Root \in Asked
  BY <1>1, AboveLeast, ObjectAssumption DEF AboveIsLeast, Init, Asked, Range
<1> QED BY <1>2, RequestedAsked, ObjectAssumption
     DEF Init, ChangeFlagged, NoChangeForgotten, RequestedIsAsked

\* Every step keeps a flag of change on what has changed.
LEMMA StepChangeFlagged == UInv /\ ChangeFlagged /\ [Next]_vars => ChangeFlagged'
<1> SUFFICES ASSUME UInv, ChangeFlagged, [Next]_vars PROVE ChangeFlagged'
  OBVIOUS
<1>1. notify \in [Notifiers -> {"idle", "flag", "queue"}]
  BY DEF UInv, TypeOK
<1> USE DEF ChangeFlagged, treeVars, focusVars, callVars, drawVars, endVars
<1>2. CASE Application
  <2>1. ASSUME NEW o \in Objects, Create(o) \/ Change(o) \/ MoveLoad(o) \/ RemoveObject(o) \/ SetFocus(o)
        PROVE  ChangeFlagged'
    BY <2>1 DEF Create, Change, MoveLoad, RemoveObject, SetFocus
  <2>2. ASSUME NEW p, NEW c, Add(p, c) PROVE ChangeFlagged'
    BY <2>2 DEF Add, Adds
  <2>3. ASSUME NEW o \in Objects \cup {None}, NEW pressed \in BOOLEAN, MouseEvent(o, pressed)
        PROVE  ChangeFlagged'
    BY <2>3 DEF MouseEvent
  <2>4. ASSUME MoveStore PROVE ChangeFlagged'
    BY <2>4 DEF MoveStore, PositionStored
  <2>5. ASSUME Stop PROVE ChangeFlagged'
    BY <2>5 DEF Stop
  <2> QED BY <1>2, <2>1, <2>2, <2>3, <2>4, <2>5 DEF Application
<1>3. CASE DrawBegin \/ DrawEnd
  BY <1>3 DEF DrawBegin, DrawEnd
<1>4. CASE DrawLeave
  BY <1>4 DEF DrawLeave, Cleaned
<1>5. ASSUME NEW n, NEW above, DrawTopDown(n, above), UNCHANGED <<flagged, notify>>
      PROVE  ChangeFlagged'
  BY <1>5 DEF DrawTopDown
<1>6. ASSUME NEW o \in Objects, DrawObject(o) \/ DrawThrows(o) \/ DrawChild(o)
      PROVE  ChangeFlagged'
  <2>1. CASE DrawObject(o)
    BY <1>5, <2>1 DEF DrawObject
  <2>2. CASE DrawThrows(o)
    BY <2>2 DEF DrawThrows
  <2>3. CASE DrawChild(o)
    BY <1>5, <2>3 DEF DrawChild
  <2> QED BY <1>6, <2>1, <2>2, <2>3
<1>7. CASE Destructor
  BY <1>7 DEF Destructor, DestroyRoot, DestroyChild, Unlist, Delete
<1>8. ASSUME NEW o \in Notifiers, NotifyChange(o) \/ NotifyFlag(o) \/ NotifyQueue(o)
      PROVE  ChangeFlagged'
  BY <1>1, <1>8 DEF NotifyChange, NotifyFlag, NotifyQueue
<1>9. CASE UNCHANGED vars
  BY <1>9 DEF vars
<1> QED BY <1>2, <1>3, <1>4, <1>6, <1>7, <1>8, <1>9 DEF Next, Refresh, Notifier

\* An unchanged tree keeps an excuse that no flag takes away.
LEMMA ExcusedStays ==
    ASSUME NEW o \in Objects, parent' = parent, Excused(o),
           flagged' \cap Above(o) \subseteq flagged, o \in missed => o \in missed'
    PROVE  Excused(o)'
<1>1. Above(o)' = Above(o)
  BY SameAbove
<1> QED BY <1>1 DEF Excused, SkipRedraw

\* NoChangeForgotten in the next state, from what a step does to what is
\* asked for, while it leaves the tree alone.
LEMMA Carried ==
    ASSUME UInv, TypeOK', NoChangeForgotten, phase = "up", UNCHANGED <<parent, children>>,
           \/ Root \in Asked'
           \/ /\ Asked \subseteq Asked' /\ missed \subseteq missed' \cup Asked'
              /\ flagged' \subseteq flagged \cup Asked' /\ outdated' \subseteq outdated \cup Asked'
    PROVE  NoChangeForgotten'
<1>1. ParentTyped
  BY TypedParents DEF UInv
<1> SUFFICES ASSUME NEW o \in Objects, o \in outdated', InTree(o)'
             PROVE  Requested(o)' \/ Excused(o)'
  BY DEF NoChangeForgotten, TypeOK
<1>2. InTree(o) /\ Above(o)' = Above(o) /\ o \in Above(o) /\ Root \in Above(o)
  BY <1>1, SameInTree, SameAbove, AboveLeast DEF AboveIsLeast, InTree, HasChain
<1>3. Requested(o)' <=> Above(o) \cap Asked' # {}
  BY <1>2, RequestedAskedNext DEF RequestedIsAsked
<1>4. Requested(o) <=> Above(o) \cap Asked # {}
  BY RequestedAsked DEF RequestedIsAsked
<1>5. CASE Above(o) \cap Asked' # {}
  BY <1>3, <1>5
<1>6. CASE Above(o) \cap Asked' = {}
  <2>1. /\ Asked \subseteq Asked' /\ missed \subseteq missed' \cup Asked'
        /\ flagged' \subseteq flagged \cup Asked' /\ outdated' \subseteq outdated \cup Asked'
    BY <1>2, <1>6
  <2>2. /\ o \in outdated /\ ~Requested(o) /\ flagged' \cap Above(o) \subseteq flagged
        /\ o \in missed => o \in missed'
    BY <1>2, <1>4, <1>6, <2>1
  <2>3. Excused(o)
    BY <1>2, <2>2 DEF NoChangeForgotten
  <2> QED BY <2>2, <2>3, ExcusedStays
<1> QED BY <1>5, <1>6

\* The same for a step of drawTopDown, which begins the canvas n.  It takes
\* out of what is asked for only n and what n stands for.
LEMMA Drawn ==
    ASSUME UInv, TypeOK', NoChangeForgotten, ChangeFlagged, phase = "up",
           UNCHANGED <<parent, children, flagged, notify>>,
           NEW n \in Objects, NEW above \in Seq(Frames), DrawTopDown(n, above),
           \A x \in Asked : x \in Asked' \/ (x \in Objects /\ n \in Above(x))
    PROVE  NoChangeForgotten'
<1>1. ParentTyped /\ Root \notin DOMAIN parent
  BY TypedParents DEF UInv
<1> SUFFICES ASSUME NEW o \in Objects, o \in outdated', InTree(o)'
             PROVE  Requested(o)' \/ Excused(o)'
  BY DEF NoChangeForgotten, TypeOK
<1>2. InTree(o) /\ Above(o)' = Above(o) /\ o \in Above(o) /\ Above(o) \subseteq Objects
  BY <1>1, SameInTree, SameAbove, AboveLeast DEF AboveIsLeast
<1>3. Requested(o)' <=> Above(o) \cap Asked' # {}
  BY <1>2, RequestedAskedNext DEF RequestedIsAsked
<1>4. Requested(o) <=> Above(o) \cap Asked # {}
  BY RequestedAsked DEF RequestedIsAsked
<1>5. o \in outdated /\ (Requested(o) \/ Excused(o))
  BY <1>2 DEF NoChangeForgotten, DrawTopDown
<1>6. \A x \in Above(o) : Above(x) \subseteq Above(o)
  BY <1>1, Chains DEF ChainFacts
<1>7. CASE n \notin Above(o)
  <2>1. CASE Requested(o)
    BY <1>3, <1>4, <1>6, <1>7, <2>1
  <2>2. CASE Excused(o)
    BY <1>7, <2>2, ExcusedStays DEF DrawTopDown
  <2> QED BY <1>5, <2>1, <2>2
<1>8. CASE n \in Above(o) /\ SkipRedraw(n) /\ n # o
  BY <1>2, <1>8 DEF Excused, SkipRedraw
<1>9. CASE n = o /\ SkipRedraw(n)
  <2>1. missed' = missed /\ o \in Local \ flagged
    BY <1>9 DEF DrawTopDown, SkipRedraw
  <2>2. o \in missed \/ (o \in Notifiers /\ notify'[o] # "idle")
    BY <1>5, <2>1 DEF ChangeFlagged
  <2>3. o \in missed' \/ o \in Asked'
    BY <2>1, <2>2 DEF Asked
  <2> QED BY <1>2, <1>3, <2>3 DEF Excused
<1>10. CASE n \in Above(o) /\ ~SkipRedraw(n)
  <2>1. n # o /\ frames' = Append(above, [node |-> n, todo |-> children[n]])
    BY <1>10 DEF DrawTopDown
  <2>2. PICK c \in Above(o) \cap DOMAIN parent : parent[c] = n
    BY <1>1, <1>10, <2>1, Chains DEF ChainFacts
  <2>3. c \in children[n]
    BY <1>1, <1>2, <2>2 DEF InTree
  <2>4. /\ Len(above) + 1 \in DOMAIN frames'
        /\ frames'[Len(above) + 1] = [node |-> n, todo |-> children[n]]
    BY <2>1
  <2>5. c \in Asked'
    BY <2>3, <2>4 DEF Asked, Range
  <2> QED BY <1>3, <2>2, <2>5
<1> QED BY <1>7, <1>8, <1>9, <1>10

\* A request: what is in the queue afterwards.
LEMMA Queued ==
    ASSUME UInv, NEW o \in Objects, queue' = Enqueued(queue, o),
           UNCHANGED <<snapshot, frames>>,
           \A n \in Notifiers : notify[n] # "idle" => notify'[n] # "idle" \/ n = o
    PROVE  Root \in Asked' \/ Asked \cup {o} \subseteq Asked'
<1>1. queue \in Queues
  BY TypedParents DEF UInv
<1>2. Root \in Range(queue') \/ Range(queue) \cup {o} \subseteq Range(queue')
  BY <1>1, EnqueuedFacts
<1>3. Range(queue)' = Range(queue')
  OBVIOUS
<1> QED BY <1>2, <1>3 DEF Asked

\* What is created does not hang in the tree yet, and forgets no change.
LEMMA CreateKeeps ==
    ASSUME UInv, UInv', NoChangeForgotten, NEW c \in Objects, Create(c)
    PROVE  NoChangeForgotten'
<1>1. ParentTyped /\ Root \notin DOMAIN parent /\ live \subseteq Objects /\ phase = "up"
      /\ DOMAIN parent \subseteq live /\ outdated \subseteq live
  BY TypedParents DEF UInv, TypeOK, UseAlive, Create
<1>2. /\ UNCHANGED <<parent, children, snapshot, frames, notify, missed, phase>>
      /\ c \notin live /\ outdated' = outdated \cup {c} /\ flagged' = flagged \cup {c}
  BY DEF Create, drawVars, endVars
<1>3. Root \in Asked' \/ Asked \subseteq Asked'
  <2>1. CASE queue' = queue
    BY <1>2, <2>1 DEF Asked
  <2>2. CASE queue' = Enqueued(queue, c)
    BY <1>2, <2>2, Queued
  <2> QED BY <2>1, <2>2 DEF Create
<1>4. ASSUME NEW o \in live PROVE Above(o) \subseteq live
  <2>1. ClosedUp(live)
    BY <1>1 DEF ClosedUp, UInv, TreeAlive
  <2> QED BY <1>1, <2>1, AboveLeast DEF AboveIsLeast
<1>5. ~InTree(c)
  <2>1. Above(c) = {c} /\ c # Root
    BY <1>1, <1>2, Chains DEF ChainFacts, UInv, TreeAlive
  <2> QED BY <2>1 DEF InTree, HasChain
<1> SUFFICES ASSUME NEW o \in Objects, o \in outdated', InTree(o)'
             PROVE  Requested(o)' \/ Excused(o)'
  BY DEF NoChangeForgotten, UInv, TypeOK
<1>6. InTree(o) /\ Above(o)' = Above(o)
  BY <1>2, SameInTree, SameAbove
<1>7. o \in outdated /\ c \notin Above(o) /\ Root \in Above(o)
  BY <1>1, <1>2, <1>4, <1>5, <1>6 DEF InTree, HasChain
<1>8. Requested(o)' <=> Above(o) \cap Asked' # {}
  BY <1>6, RequestedAskedNext DEF RequestedIsAsked
<1>9. Requested(o) <=> Above(o) \cap Asked # {}
  BY RequestedAsked DEF RequestedIsAsked
<1>10. Requested(o) \/ Excused(o)
  BY <1>1, <1>6, <1>7 DEF NoChangeForgotten
<1>11. CASE Requested(o)
  BY <1>3, <1>7, <1>8, <1>9, <1>11
<1>12. CASE Excused(o)
  BY <1>2, <1>7, <1>12, ExcusedStays
<1> QED BY <1>10, <1>11, <1>12

\* What hangs below the object that goes is in the tree no longer.
LEMMA RemoveKeeps ==
    ASSUME UInv, UInv', NoChangeForgotten, NEW c \in Objects, RemoveObject(c)
    PROVE  NoChangeForgotten'
<1>1. /\ ParentTyped /\ Root \notin DOMAIN parent /\ phase = "up"
      /\ children \in [Objects -> SUBSET Objects]
  BY TypedParents DEF UInv, TypeOK, RemoveObject, TreeFree
<1>2. /\ UNCHANGED <<parent, snapshot, frames, notify>>
      /\ outdated' = outdated \cup {parent[c]} /\ missed' = missed \cup {parent[c]}
      /\ c \in DOMAIN parent /\ flagged' = flagged \cup {c} /\ queue' = Enqueued(queue, c)
      /\ children' = [children EXCEPT ![parent[c]] = @ \ {c}]
  BY DEF RemoveObject, drawVars
<1>3. Root \in Asked' \/ Asked \subseteq Asked'
  BY <1>2, Queued
<1> SUFFICES ASSUME NEW o \in Objects, o \in outdated', InTree(o)'
             PROVE  Requested(o)' \/ Excused(o)'
  BY DEF NoChangeForgotten, UInv, TypeOK
<1>4. Above(o)' = Above(o) /\ HasChain(o) /\ \A a \in Above(o) \ {Root} : a \in children'[parent[a]]
  BY <1>2, SameAbove DEF InTree
<1>5. Above(o) \ {Root} \subseteq DOMAIN parent /\ Above(o) \subseteq Objects
  BY <1>1, <1>4, Chains, AboveLeast DEF ChainFacts, AboveIsLeast
<1>6. c \notin Above(o) /\ Root \in Above(o)
  BY <1>1, <1>2, <1>4, <1>5 DEF ParentTyped, HasChain
<1>7. InTree(o)
  <2> SUFFICES ASSUME NEW a \in Above(o) \ {Root} PROVE a \in children[parent[a]]
    BY <1>4 DEF InTree
  <2>1. parent[a] \in Objects /\ a \in children'[parent[a]]
    BY <1>1, <1>4, <1>5 DEF ParentTyped
  <2> QED BY <1>1, <1>2, <2>1
<1>8. Requested(o)' <=> Above(o) \cap Asked' # {}
  BY <1>4, RequestedAskedNext DEF RequestedIsAsked
<1>9. Requested(o) <=> Above(o) \cap Asked # {}
  BY RequestedAsked DEF RequestedIsAsked
<1>10. o = parent[c] \/ Requested(o) \/ Excused(o)
  BY <1>1, <1>2, <1>7 DEF NoChangeForgotten
<1>11. CASE Requested(o)
  BY <1>3, <1>6, <1>8, <1>9, <1>11
<1>12. CASE Excused(o)
  BY <1>2, <1>6, <1>12, ExcusedStays
<1>13. CASE o = parent[c]
  BY <1>2, <1>13 DEF Excused
<1> QED BY <1>10, <1>11, <1>12, <1>13

\* What comes into the tree is below the parent, which is queued.
LEMMA AddKeeps ==
    ASSUME UInv, UInv', NoChangeForgotten, NEW p \in Objects, NEW c \in Objects \ {Root}, Add(p, c)
    PROVE  NoChangeForgotten'
<1>1. /\ ParentTyped /\ ParentTyped' /\ Root \notin DOMAIN parent /\ phase = "up"
      /\ children \in [Objects -> SUBSET Objects]
  <2>1. ParentTyped /\ Root \notin DOMAIN parent
    BY TypedParents DEF UInv
  <2>2. ParentTyped'
    BY <2>1 DEF Add, ParentTyped
  <2> QED BY <2>1, <2>2 DEF UInv, TypeOK, Add, TreeFree
<1>2. /\ UNCHANGED <<snapshot, frames, notify>> /\ missed' = missed \ {p}
      /\ c \notin DOMAIN parent /\ flagged' = flagged \cup {p, c} /\ outdated' = outdated \cup {p}
      /\ queue' = Enqueued(queue, p)
      /\ children' = [children EXCEPT ![p] = @ \cup {c}]
      /\ parent' = [x \in DOMAIN parent \cup {c} |-> IF x = c THEN p ELSE parent[x]]
  BY DEF Add, Adds, drawVars
<1>3. Root \in Asked' \/ Asked \cup {p} \subseteq Asked'
  BY <1>2, Queued
<1>4. DOMAIN parent' = DOMAIN parent \cup {c} /\ parent'[c] = p
      /\ \A x \in DOMAIN parent : parent'[x] = parent[x] /\ x # c
  BY <1>2
<1> SUFFICES ASSUME NEW o \in Objects, o \in outdated', InTree(o)'
             PROVE  Requested(o)' \/ Excused(o)'
  BY DEF NoChangeForgotten, UInv, TypeOK
<1> DEFINE A == Above(o)'
<1>5. /\ o \in A /\ A \subseteq Objects /\ (\A x \in A \cap DOMAIN parent' : parent'[x] \in A)
      /\ \A S \in SUBSET Objects :
           o \in S /\ (\A x \in S \cap DOMAIN parent' : parent'[x] \in S) => A \subseteq S
  BY <1>1, AboveLeastNext DEF AboveIsLeast, ClosedUp
<1>6. /\ o \in Above(o) /\ Above(o) \subseteq Objects /\ ClosedUp(Above(o))
      /\ \A S \in SUBSET Objects : o \in S /\ ClosedUp(S) => Above(o) \subseteq S
  BY <1>1, AboveLeast DEF AboveIsLeast
<1>7. Root \in A /\ \A a \in A \ {Root} : a \in children'[parent'[a]]
  BY DEF InTree, HasChain
<1> HIDE DEF A
<1>8. Requested(o)' <=> A \cap Asked' # {}
  BY RequestedAskedNext DEF RequestedIsAsked, A
<1>9. Above(o) \subseteq A
  <2>1. ClosedUp(A)
    BY <1>4, <1>5 DEF ClosedUp
  <2> QED BY <1>5, <1>6, <2>1
<1>10. CASE c \in Above(o)
  <2>1. p \in A
    BY <1>4, <1>5, <1>9, <1>10
  <2> QED BY <1>3, <1>7, <1>8, <2>1
<1>11. CASE c \notin Above(o) /\ A \cap Asked' = {}
  <2>1. \A x \in Above(o) \cap DOMAIN parent' : parent'[x] \in Above(o)
    BY <1>4, <1>6, <1>11 DEF ClosedUp
  <2>2. A = Above(o)
    BY <1>5, <1>6, <1>9, <2>1
  <2>3. p \notin Above(o) /\ Asked \subseteq Asked'
    BY <1>3, <1>7, <1>11, <2>2
  <2>4. Root \in Above(o) /\ HasChain(o)
    BY <1>7, <2>2 DEF HasChain
  <2>5. Above(o) \ {Root} \subseteq DOMAIN parent
    BY <1>1, <2>4, Chains DEF ChainFacts
  <2>6. InTree(o)
    <3> SUFFICES ASSUME NEW a \in Above(o) \ {Root} PROVE a \in children[parent[a]]
      BY <2>4 DEF InTree
    <3>1. a \in children'[parent[a]] /\ parent[a] \in Objects /\ a # c
      BY <1>1, <1>4, <1>7, <2>2, <2>5 DEF ParentTyped
    <3> QED BY <1>1, <1>2, <3>1
  <2>7. o \in outdated
    BY <1>2, <1>6, <2>3
  <2>8. ~Requested(o)
    BY <1>11, <2>2, <2>3, RequestedAsked DEF RequestedIsAsked
  <2>9. Excused(o)
    BY <1>1, <2>6, <2>7, <2>8 DEF NoChangeForgotten
  <2>10. Above(o)' = Above(o)
    BY <2>2 DEF A
  <2> QED BY <1>2, <1>6, <1>11, <2>3, <2>9, <2>10 DEF Excused, SkipRedraw
<1>12. CASE A \cap Asked' # {}
  BY <1>8, <1>12
<1> QED BY <1>10, <1>11, <1>12

\* Every step keeps the changes asked for or excused.
LEMMA StepNoChangeForgotten ==
    UInv /\ UInv' /\ ChangeFlagged /\ NoChangeForgotten /\ [Next]_vars => NoChangeForgotten'
<1> SUFFICES ASSUME UInv, UInv', ChangeFlagged, NoChangeForgotten, [Next]_vars, phase' = "up"
             PROVE  NoChangeForgotten'
  BY DEF NoChangeForgotten
<1>1. TypeOK /\ TypeOK' /\ queue \in Queues /\ ParentTyped /\ Root \notin DOMAIN parent
  BY TypedParents DEF UInv
<1>2. phase = "up"
  BY DestructorSteps DEF UInv, DestroyOrder, Stop, DestroyRoot, Unlist, Delete, DestroyChild
<1> USE <1>1, <1>2 DEF treeVars, focusVars, callVars, drawVars, endVars
<1>3. ASSUME NEW o \in Objects, Change(o) PROVE NoChangeForgotten'
  <2>1. Root \in Asked' \/ Asked \cup {o} \subseteq Asked'
    BY <1>3, Queued DEF Change
  <2> QED BY <1>3, <2>1, Carried DEF Change
<1>4. ASSUME MoveStore PROVE NoChangeForgotten'
  <2>1. parent[moving] \in Objects /\ PositionStored(moving) \subseteq flagged
    BY <1>4 DEF MoveStore, ParentTyped, PositionStored, UInv, CallOrder
  <2>2. Root \in Asked' \/ Asked \cup {parent[moving]} \subseteq Asked'
    BY <1>4, <2>1, Queued DEF MoveStore
  <2> QED BY <1>4, <2>1, <2>2, Carried DEF MoveStore
<1>21. ASSUME NEW o \in Objects, MoveLoad(o) PROVE NoChangeForgotten'
  <2>1. Asked' = Asked
    BY <1>21 DEF MoveLoad, Asked
  <2> QED BY <1>21, <2>1, Carried DEF MoveLoad
<1>5. ASSUME NEW o \in Objects, SetFocus(o) PROVE NoChangeForgotten'
  <2>1. Asked' = Asked
    BY <1>5 DEF SetFocus, Asked
  <2> QED BY <1>5, <2>1, Carried DEF SetFocus
<1>6. ASSUME NEW o \in Objects \cup {None}, NEW pressed \in BOOLEAN, MouseEvent(o, pressed)
      PROVE  NoChangeForgotten'
  <2>1. /\ UNCHANGED <<parent, children, snapshot, frames, notify>>
        /\ flagged' \subseteq flagged \cup ({mouse, o} \ {None})
        /\ outdated' \subseteq outdated \cup ({mouse, o} \ {None})
        /\ missed \subseteq missed' \cup ({mouse, o} \ {None})
        /\ \/ UNCHANGED <<queue, flagged, outdated, missed>>
           \/ queue' = EnqueuedIfAny(EnqueuedIfAny(queue, mouse), o)
    BY <1>6 DEF MouseEvent
  <2>2. CASE UNCHANGED <<queue, flagged, outdated, missed>>
    <3>1. Asked' = Asked
      BY <2>1, <2>2 DEF Asked
    <3> QED BY <2>1, <2>2, <3>1, Carried
  <2>3. CASE queue' = EnqueuedIfAny(EnqueuedIfAny(queue, mouse), o)
    <3> DEFINE between == EnqueuedIfAny(queue, mouse)
    <3>1. mouse \in Objects \cup {None}
      BY DEF TypeOK
    <3>2. between \in Queues /\ (\/ Range(queue) \cup ({mouse} \ {None}) \subseteq Range(between)
                                 \/ Root \in Range(between))
      BY <3>1, EnqueuedIfAnyFacts
    <3> HIDE DEF between
    <3>3. \/ Range(between) \cup ({o} \ {None}) \subseteq Range(queue')
          \/ Root \in Range(queue')
      BY <1>6, <2>3, <3>2, EnqueuedIfAnyFacts DEF between
    <3>4. \/ Range(queue) \cup ({mouse, o} \ {None}) \subseteq Range(queue')
          \/ Root \in Range(queue')
      BY <3>2, <3>3
    <3>5. Range(queue)' = Range(queue')
      OBVIOUS
    <3>6. Root \in Asked' \/ Asked \cup ({mouse, o} \ {None}) \subseteq Asked'
      BY <2>1, <3>4, <3>5 DEF Asked
    <3> QED BY <2>1, <3>6, Carried
  <2> QED BY <2>1, <2>2, <2>3
<1>7. ASSUME NEW o \in Notifiers, NotifyChange(o) PROVE NoChangeForgotten'
  <2>1. Asked \cup {o} \subseteq Asked'
    BY <1>7 DEF NotifyChange, Asked, TypeOK
  <2> QED BY <1>7, <2>1, Carried DEF NotifyChange
<1>8. ASSUME NEW o \in Notifiers, NotifyFlag(o) PROVE NoChangeForgotten'
  <2>1. Asked \cup {o} \subseteq Asked'
    BY <1>8 DEF NotifyFlag, Asked, TypeOK
  <2> QED BY <1>8, <2>1, Carried DEF NotifyFlag
<1>9. ASSUME NEW o \in Notifiers, NotifyQueue(o) PROVE NoChangeForgotten'
  <2>1. o \in Objects /\ \A n \in Notifiers : notify[n] # "idle" => notify'[n] # "idle" \/ n = o
    BY <1>9, ObjectAssumption DEF NotifyQueue, TypeOK
  <2>2. Root \in Asked' \/ Asked \cup {o} \subseteq Asked'
    BY <1>9, <2>1, Queued DEF NotifyQueue
  <2> QED BY <1>9, <2>2, Carried DEF NotifyQueue
<1>10. CASE DrawBegin
  <2>1. snapshot' = Range(queue) /\ snapshot = {} /\ UNCHANGED <<frames, notify>>
    BY <1>10 DEF DrawBegin, TreeFree, UInv, DrawOrder
  <2>2. Asked \subseteq Asked'
    BY <2>1 DEF Asked
  <2> QED BY <1>10, <2>2, Carried DEF DrawBegin
<1>11. CASE DrawEnd
  <2>1. Asked' = Asked
    BY <1>11 DEF DrawEnd, Asked
  <2> QED BY <1>11, <2>1, Carried DEF DrawEnd
<1>12. CASE DrawLeave
  <2>1. /\ frames # <<>> /\ frames \in Seq(Frames) /\ Last(frames).todo = {} /\ frames' = Front(frames)
        /\ UNCHANGED <<queue, snapshot, notify>>
    BY <1>12 DEF DrawLeave, TypeOK, Frames
  <2>2. \A i \in DOMAIN frames :
          frames[i].todo = {} \/ (i \in DOMAIN frames' /\ frames'[i] = frames[i])
    <3>1. DOMAIN frames = 1 .. Len(frames) /\ Last(frames) = frames[Len(frames)]
          /\ Len(frames) \in Nat \ {0}
      BY <2>1, SeqFacts
    <3>2. DOMAIN Front(frames) = 1 .. Len(frames) - 1
      BY <2>1, SeqFacts
    <3>3. \A i \in 1 .. Len(frames) - 1 : Front(frames)[i] = frames[i]
      BY <2>1, <3>2, SeqFacts
    <3> QED BY <2>1, <3>1, <3>2, <3>3
  <2>3. Asked \subseteq Asked'
    BY <2>1, <2>2 DEF Asked, Range
  <2> QED BY <1>12, <2>3, Carried DEF DrawLeave, Cleaned
<1>13. ASSUME NEW q \in Objects, DrawObject(q) PROVE NoChangeForgotten'
  <2>1. /\ HasChain(q) /\ frames = <<>> /\ DrawTopDown(Target(q), frames) /\ snapshot' = snapshot \ {q}
        /\ UNCHANGED <<parent, children, flagged, notify, queue>>
    BY <1>13 DEF DrawObject
  <2>2. Target(q) \in Above(q) /\ Target(q) \in Objects
    BY <2>1, TypedParents
  <2>3. Asked \subseteq Asked' \cup {q}
    BY <2>1 DEF Asked, Range
  <2>4. frames \in Seq(Frames)
    BY DEF TypeOK, Frames
  <2> QED BY <2>1, <2>2, <2>3, <2>4, Drawn
<1>14. ASSUME NEW q \in Objects, DrawThrows(q) PROVE NoChangeForgotten'
  <2>1. /\ missed' = missed \cup {o \in outdated : Above(o) \cap snapshot # {}}
        /\ UNCHANGED <<parent, children, flagged, notify, queue, frames, outdated>>
    BY <1>14 DEF DrawThrows
  <2>2. Asked \subseteq Asked' \cup snapshot
    BY <2>1 DEF Asked
  <2> SUFFICES ASSUME NEW o \in Objects, o \in outdated, InTree(o)'
               PROVE  Requested(o)' \/ Excused(o)'
    BY <2>1 DEF NoChangeForgotten, TypeOK
  <2>3. InTree(o) /\ Above(o)' = Above(o)
    BY <2>1, SameInTree, SameAbove
  <2>4. CASE Excused(o)
    BY <2>1, <2>4, ExcusedStays
  <2>5. CASE Requested(o)
    <3>1. Above(o) \cap (Asked' \cup snapshot) # {}
      BY <2>2, <2>5, RequestedAsked DEF RequestedIsAsked
    <3>2. CASE Above(o) \cap Asked' # {}
      BY <2>3, <3>2, RequestedAskedNext DEF RequestedIsAsked
    <3>3. CASE Above(o) \cap snapshot # {}
      BY <2>1, <3>3 DEF Excused
    <3> QED BY <3>1, <3>2, <3>3
  <2> QED BY <2>3, <2>4, <2>5 DEF NoChangeForgotten
<1>15. ASSUME NEW c \in Objects, DrawChild(c) PROVE NoChangeForgotten'
  <2> DEFINE above == [frames EXCEPT ![Len(frames)].todo = @ \ {c}]
  <2>1. /\ frames # <<>> /\ DrawTopDown(c, above)
        /\ UNCHANGED <<parent, children, flagged, notify, queue, snapshot>>
    BY <1>15 DEF DrawChild
  <2>2. frames \in Seq(Frames)
    BY DEF TypeOK, Frames
  <2>3. /\ above \in Seq(Frames) /\ DOMAIN above = DOMAIN frames
        /\ \A i \in DOMAIN frames : frames[i].todo \ {c} \subseteq above[i].todo
    <3>1. frames # <<>>
      BY <2>1
    <3> QED BY <2>2, <3>1, TodoTaken
  <2> HIDE DEF above
  <2>4. \A i \in DOMAIN above : i \in DOMAIN frames' /\ frames'[i] = above[i]
    <3>1. \E f : frames' = Append(above, f)
      BY <2>1 DEF DrawTopDown
    <3> QED BY <2>3, <3>1
  <2>5. Asked \subseteq Asked' \cup {c}
    BY <2>1, <2>3, <2>4 DEF Asked, Range
  <2>6. c \in Above(c)
    BY AboveLeast DEF AboveIsLeast
  <2> QED BY <2>1, <2>3, <2>5, <2>6, Drawn
<1>16. CASE UNCHANGED vars
  <2>1. Asked' = Asked
    BY <1>16 DEF vars, Asked
  <2> QED BY <1>16, <2>1, Carried DEF vars
<1>17. ASSUME Stop PROVE FALSE
  BY <1>17 DEF Stop
<1>18. ASSUME Destructor PROVE FALSE
  BY <1>18 DEF Destructor, DestroyRoot, DestroyChild, Unlist, Delete, UInv, DestroyOrder
<1>19. CASE Application
  <2>1. ASSUME NEW p \in Objects, NEW c \in Objects \ {Root}, Add(p, c) PROVE NoChangeForgotten'
    BY <2>1, AddKeeps
  <2> QED BY <1>3, <1>4, <1>5, <1>6, <1>17, <1>19, <1>21, <2>1, CreateKeeps, RemoveKeeps, ObjectAssumption
       DEF Application
<1>20. CASE Refresh
  BY <1>10, <1>11, <1>12, <1>13, <1>14, <1>15, <1>20 DEF Refresh
<1> QED BY <1>7, <1>8, <1>9, <1>16, <1>18, <1>19, <1>20 DEF Next, Notifier

\* Whatever the threads interleave, a change that is in no buffer is asked
\* for or excused, for any tree and any bound on the queue.
THEOREM ChangesAreAskedFor == Spec => []NoChangeForgotten
<1>1. UInv /\ ChangeFlagged /\ NoChangeForgotten /\ UInv' /\ [Next]_vars
      => (ChangeFlagged /\ NoChangeForgotten)'
  BY StepChangeFlagged, StepNoChangeForgotten
<1> QED BY <1>1, InitChanges, AlwaysUInv, PTL DEF Spec
=============================================================================
