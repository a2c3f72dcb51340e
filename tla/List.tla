-------------------------------- MODULE List --------------------------------
(***************************************************************************)
(* upan::list (libustd/ds/list.h): a ring of nodes linked both ways, with  *)
(* _first and _size.  A list is a record of its allocated nodes and these  *)
(* two; the member functions are operators from list to list.  An iterator *)
(* is the node it stands on, None for end() and rend().                    *)
(***************************************************************************)
EXTENDS Naturals, Sequences, FiniteSets, FiniteSetsExt, SequencesExt

CONSTANTS
    Values,     \* what is stored: integers, for operator <
    MaxLength   \* bound: the longest list

None == 0
Nodes == 1 .. MaxLength

ASSUME ListAssumption == Values \subseteq Nat /\ MaxLength \in Nat

VARIABLES
    list,       \* the list
    cursor,     \* the iterator inside foreach, None at its end
    inForeach,  \* foreach is running
    call,       \* auxiliary: the last call and its arguments
    todo        \* auxiliary: the nodes foreach has still to visit

listVars == <<list, cursor, inForeach, call, todo>>

Cell == [value : Values, next : Nodes, prev : Nodes]

\* The state space; ListWellFormed, below, has it as a conjunct.
ListTypeOK ==
    /\ DOMAIN list.cells \subseteq Nodes
    /\ \A n \in DOMAIN list.cells : list.cells[n] \in Cell
    /\ list.first \in Nodes \cup {None} /\ list.size \in 0 .. MaxLength
    /\ cursor \in Nodes \cup {None} /\ inForeach \in BOOLEAN

EmptyList == [cells |-> <<>>, first |-> None, size |-> 0]

ListInit ==
    /\ list = EmptyList
    /\ cursor = None /\ inForeach = FALSE /\ todo = <<>>
    /\ call = [op |-> "clear", at |-> 0, value |-> 0]

\* The nodes from first on, and the values begin() to end() yields.
NodesOf(l) ==
    LET node[i \in 1 .. l.size] == IF i = 1 THEN l.first ELSE l.cells[node[i - 1]].next
    IN  node
Items(l) == [i \in 1 .. l.size |-> l.cells[NodesOf(l)[i]].value]

\* new node: any free cell, here the lowest.
Fresh(l) == Min(Nodes \ DOMAIN l.cells)

-----------------------------------------------------------------------------

\* n with value v, its neighbours p and q, and their links to it.
LinkedBetween(l, n, v, p, q) ==
    LET c == [m \in DOMAIN l.cells \cup {n} |->
                IF m = n THEN [value |-> v, next |-> q, prev |-> p] ELSE l.cells[m]]
    IN  [c EXCEPT ![p].next = n, ![q].prev = n]

PushedBack(l, v) ==
    LET n == Fresh(l) IN
    IF l.size = 0
    THEN [cells |-> [m \in {n} |-> [value |-> v, next |-> n, prev |-> n]], first |-> n, size |-> 1]
    ELSE [cells |-> LinkedBetween(l, n, v, l.cells[l.first].prev, l.first),
          first |-> l.first, size |-> l.size + 1]

PushedFront(l, v) ==
    LET m == PushedBack(l, v) IN [m EXCEPT !.first = m.cells[m.first].prev]

\* Mutant of Unlinked: the way back is not mended.
UnlinkedForward(l, n) ==
    [m \in DOMAIN l.cells \ {n} |->
        [l.cells EXCEPT ![l.cells[n].prev].next = l.cells[n].next][m]]

\* prev->next = next, next->prev = prev, delete.
Unlinked(l, n) ==
    LET c == l.cells[n]
        mended == [[l.cells EXCEPT ![c.prev].next = c.next] EXCEPT ![c.next].prev = c.prev]
    IN  [m \in DOMAIN l.cells \ {n} |-> mended[m]]

\* delete_node, and pop, which does the same to the first or the last node.
Deleted(l, n) ==
    IF l.size = 1 THEN IF l.first = n THEN EmptyList ELSE l
    ELSE [cells |-> Unlinked(l, n), size |-> l.size - 1,
          first |-> IF n = l.first THEN l.cells[n].next ELSE l.first]

\* find(begin(), end(), v)
Find(l, v) ==
    LET at == {i \in 1 .. l.size : Items(l)[i] = v}
    IN  IF at = {} THEN None ELSE NodesOf(l)[Min(at)]

\* insert(iterator): before pos.
InsertedBefore(l, pos, v) ==
    IF pos = None THEN PushedBack(l, v)
    ELSE IF pos = l.first THEN PushedFront(l, v)
    ELSE [cells |-> LinkedBetween(l, Fresh(l), v, l.cells[pos].prev, pos),
          first |-> l.first, size |-> l.size + 1]

\* Mutant of InsertedAfter: the general case without the two special ones.
InsertedAfterPlain(l, pos, v) ==
    IF pos = None THEN PushedBack(l, v)
    ELSE [cells |-> LinkedBetween(l, Fresh(l), v, pos, l.cells[pos].next),
          first |-> l.first, size |-> l.size + 1]

\* insert(reverse_iterator): behind pos.
InsertedAfter(l, pos, v) ==
    IF pos = None THEN PushedFront(l, v)
    ELSE IF pos = l.cells[l.first].prev THEN PushedBack(l, v)
    ELSE [cells |-> LinkedBetween(l, Fresh(l), v, pos, l.cells[pos].next),
          first |-> l.first, size |-> l.size + 1]

\* The loops of the sorted inserts: the first node, forwards or backwards,
\* at which Stop holds, None if there is none.
FirstAt(l, Stop(_)) ==
    LET at == {i \in 1 .. l.size : Stop(Items(l)[i])}
    IN  IF at = {} THEN None ELSE NodesOf(l)[Min(at)]
LastAt(l, Stop(_)) ==
    LET at == {i \in 1 .. l.size : Stop(Items(l)[i])}
    IN  IF at = {} THEN None ELSE NodesOf(l)[Max(at)]

-----------------------------------------------------------------------------

Do(op, at, v, l) ==
    /\ ~inForeach
    /\ list' = l
    /\ call' = [op |-> op, at |-> at, value |-> v]
    /\ UNCHANGED <<cursor, inForeach, todo>>

Room == list.size < MaxLength
Positions == DOMAIN list.cells \cup {None}

PushBack(v) == Room /\ Do("push_back", 0, v, PushedBack(list, v))
PushFront(v) == Room /\ Do("push_front", 0, v, PushedFront(list, v))
PopFront == list.size > 0 /\ Do("pop_front", 0, 0, Deleted(list, list.first))
PopBack == list.size > 0 /\ Do("pop_back", 0, 0, Deleted(list, list.cells[list.first].prev))

\* erase(iterator) and erase(value); at end() they return false.
Erase(n) == Do("erase", n, 0, IF n = None THEN list ELSE Deleted(list, n))
EraseValue(v) ==
    Do("erase_value", 0, v, IF Find(list, v) = None THEN list ELSE Deleted(list, Find(list, v)))

Insert(pos, v) == Room /\ Do("insert", pos, v, InsertedBefore(list, pos, v))
InsertReverse(pos, v) == Room /\ Do("insert_reverse", pos, v, InsertedAfter(list, pos, v))

SortedInsertAsc(v) ==
    Room /\ Do("asc", 0, v, InsertedBefore(list, FirstAt(list, LAMBDA x : v < x \/ ~(x < v)), v))
SortedInsertDesc(v) ==
    Room /\ Do("desc", 0, v, InsertedBefore(list, FirstAt(list, LAMBDA x : x < v \/ ~(v < x)), v))
\* With the comparison the callers use, "less than".
SortedInsertComp(v) ==
    Room /\ Do("comp", 0, v, InsertedBefore(list, FirstAt(list, LAMBDA x : v < x), v))
SortedReverseInsertAsc(v) ==
    Room /\ Do("asc", 0, v, InsertedAfter(list, LastAt(list, LAMBDA x : v > x \/ ~(x > v)), v))
SortedReverseInsertDesc(v) ==
    Room /\ Do("desc", 0, v, InsertedAfter(list, LastAt(list, LAMBDA x : x > v \/ ~(v > x)), v))

ListClear == Do("clear", 0, 0, EmptyList)

\* foreach: begin(), then for each element *i++ first and the call after.
ForeachBegin ==
    /\ ~inForeach
    /\ inForeach' = TRUE
    /\ cursor' = list.first
    /\ todo' = NodesOf(list)
    /\ UNCHANGED <<list, call>>

\* pre_inc: the end is where the next node is the first again.
Advanced(l, n) == IF l.cells[n].next = l.first THEN None ELSE l.cells[n].next

\* Mutant of ForeachStep: the iterator moves after the call.
ForeachStepLate ==
    /\ inForeach /\ cursor # None
    /\ list' \in {list, Deleted(list, cursor)}
    /\ cursor' = IF cursor \in DOMAIN list'.cells THEN Advanced(list', cursor) ELSE list'.first
    /\ todo' = Tail(todo)
    /\ UNCHANGED <<inForeach, call>>

\* The function foreach calls leaves the list alone, or erases the element
\* it is given, by iterator or by value.
ForeachStep ==
    /\ inForeach /\ cursor # None
    /\ cursor' = Advanced(list, cursor)
    /\ list' \in {list, Deleted(list, cursor),
                  Deleted(list, Find(list, list.cells[cursor].value))}
    /\ todo' = Tail(todo)
    /\ UNCHANGED <<inForeach, call>>

ForeachEnd ==
    /\ inForeach /\ cursor = None
    /\ inForeach' = FALSE
    /\ UNCHANGED <<list, cursor, call, todo>>

ListNext ==
    \/ PopFront \/ PopBack \/ ListClear \/ ForeachBegin \/ ForeachStep \/ ForeachEnd
    \/ \E n \in Positions : Erase(n)
    \/ \E v \in Values :
         \/ PushBack(v) \/ PushFront(v) \/ EraseValue(v)
         \/ SortedInsertAsc(v) \/ SortedInsertDesc(v) \/ SortedInsertComp(v)
         \/ SortedReverseInsertAsc(v) \/ SortedReverseInsertDesc(v)
         \/ \E pos \in Positions : Insert(pos, v) \/ InsertReverse(pos, v)

ListSpec == ListInit /\ [][ListNext]_listVars

-----------------------------------------------------------------------------

\* The ring is closed both ways and holds exactly the allocated nodes, so
\* no chain of calls leaks a node or leaves a link to a freed one.
ListLinked ==
    LET c == list.cells IN
    /\ Cardinality(DOMAIN c) = list.size
    /\ list.first = None <=> list.size = 0
    /\ \A n \in DOMAIN c : c[c[n].next].prev = n /\ c[c[n].prev].next = n
    /\ Range(NodesOf(list)) = DOMAIN c

\* Both, after any chain of calls.
ListWellFormed == ListTypeOK /\ ListLinked

SortedBy(s, Ordered(_, _)) == \A i, j \in DOMAIN s : i < j => Ordered(s[i], s[j])
WithOneMore(s, t, v) == \E i \in DOMAIN t : t[i] = v /\ RemoveAt(t, i) = s

\* Where a node is in the ring, counted from first.
IndexOf(l, n) == CHOOSE i \in 1 .. l.size : NodesOf(l)[i] = n

\* What a call does to the sequence of values: the reference for the links.
CallEffect(c, l, s, t) ==
    CASE c.op = "push_back" -> t = Append(s, c.value)
      [] c.op = "push_front" -> t = <<c.value>> \o s
      [] c.op = "pop_front" -> t = Tail(s)
      [] c.op = "pop_back" -> t = Front(s)
      [] c.op = "clear" -> t = <<>>
      [] c.op = "erase" -> t = IF c.at = None THEN s ELSE RemoveAt(s, IndexOf(l, c.at))
      [] c.op = "erase_value" -> t = RemoveFirst(s, c.value)
      [] c.op = "insert" ->
           t = InsertAt(s, IF c.at = None THEN Len(s) + 1 ELSE IndexOf(l, c.at), c.value)
      [] c.op = "insert_reverse" ->
           t = InsertAt(s, IF c.at = None THEN 1 ELSE IndexOf(l, c.at) + 1, c.value)
      [] c.op \in {"asc", "comp"} ->
           /\ WithOneMore(s, t, c.value)
           /\ SortedBy(s, LAMBDA x, y : x <= y) => SortedBy(t, LAMBDA x, y : x <= y)
      [] c.op = "desc" ->
           /\ WithOneMore(s, t, c.value)
           /\ SortedBy(s, LAMBDA x, y : x >= y) => SortedBy(t, LAMBDA x, y : x >= y)

\* Every call changes the values as its reference says; a sorted insert puts
\* the value in and keeps a sorted list sorted.
ListCallsExact ==
    [][~inForeach /\ ~inForeach' => CallEffect(call', list, Items(list), Items(list'))]_listVars

\* foreach visits what was in the list, in order, although the function it
\* calls erases elements: its iterator never stands on a freed node.
ForeachComplete ==
    inForeach =>
        /\ cursor \in DOMAIN list.cells \cup {None}
        /\ todo = IF cursor = None THEN <<>>
                  ELSE SubSeq(NodesOf(list), IndexOf(list, cursor), list.size)
=============================================================================
