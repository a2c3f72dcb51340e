-------------------------------- MODULE BTree --------------------------------
(***************************************************************************)
(* The B-tree of libustd/ds/BTree.cpp, pointer by pointer.  A node keeps   *)
(* its elements by value: an element belongs to one node, and its value    *)
(* goes where its key goes.  The member functions are operators from a     *)
(* tree, [nodes, root], to a tree.  The limit on the number of elements    *)
(* and its pool are left out.  What calls itself is a recursive function:  *)
(* of the node, or of how many calls have been made.                       *)
(***************************************************************************)
EXTENDS Integers, Sequences, FiniteSets, FiniteSetsExt, SequencesExt, Functions

CONSTANTS
    BKeys,      \* the keys, integers
    MaxPerNode  \* MAX_ELEMENTS_PER_NODE

MinPerNode == MaxPerNode \div 2
NoNode == 0     \* NULL

\* A node with one element less than the minimum must not be empty: Rebalance
\* looks at its last element.
ASSUME BTreeAssumption == BKeys \subseteq Nat /\ MaxPerNode \in Nat /\ MinPerNode > 1

VARIABLES
    btree,          \* [nodes, root]: the allocated nodes and m_pRootNode
    total,          \* m_iTotalElements
    leftDeletion,   \* m_bLeftDeletion
    held,           \* auxiliary: the keys inserted and not deleted since
    uprooted        \* auxiliary: the tree has lost its root some time

btreeVars == <<btree, total, leftDeletion, held, uprooted>>

EmptyNode == [parent |-> NoNode, elems |-> <<>>]

BTreeInit ==
    /\ btree = [nodes |-> [n \in {1} |-> EmptyNode], root |-> 1]
    /\ total = 0 /\ leftDeletion = TRUE /\ held = {} /\ uprooted = FALSE

-----------------------------------------------------------------------------
(* Nodes                                                                   *)

IsLeaf(t, n) ==
    LET s == t.nodes[n].elems
    IN  (\A i \in DOMAIN s : s[i].left = NoNode) /\ (s # <<>> => Last(s).right = NoNode)

FreshNode(t) == CHOOSE n \in 1 .. Cardinality(DOMAIN t.nodes) + 1 : n \notin DOMAIN t.nodes
AddNode(t, n, node) ==
    [t EXCEPT !.nodes = [m \in DOMAIN @ \cup {n} |-> IF m = n THEN node ELSE @[m]]]
FreeNode(t, n) == [t EXCEPT !.nodes = Restrict(@, DOMAIN @ \ {n})]

\* SetParentNode of the children of some elements.
Adopted(t, s, n) ==
    LET kids == UNION {{s[i].left, s[i].right} : i \in DOMAIN s}
    IN  [t EXCEPT !.nodes = [m \in DOMAIN @ |->
            IF m \in kids THEN [@[m] EXCEPT !.parent = n] ELSE @[m]]]

\* BTreeNode::Insert: before the first greater key, its neighbours linked
\* to its children.
Position(s, k) == Min({i \in DOMAIN s : k < s[i].key} \cup {Len(s) + 1})
NodeInsert(s, e) ==
    LET at == Position(s, e.key)
        more == InsertAt(s, at, e)
    IN  [i \in DOMAIN more |->
            IF i = at - 1 THEN [more[i] EXCEPT !.right = e.left]
            ELSE IF i = at + 1 THEN [more[i] EXCEPT !.left = e.right]
            ELSE more[i]]

\* The child before element i, or behind the last one.
BChild(s, i) == IF i > Len(s) THEN Last(s).right ELSE s[i].left

GetInsertionNode(t, n, k) == BChild(t.nodes[n].elems, Position(t.nodes[n].elems, k))

LeafFor(t, n, k) ==
    LET leaf[m \in DOMAIN t.nodes] ==
            IF IsLeaf(t, m) THEN m ELSE leaf[GetInsertionNode(t, m, k)]
    IN  leaf[n]

\* BTreeNode::Search between two indices: where the search ends, and 0 if
\* the key is there, 1 if it goes on at the left child, 2 at the right one.
Search(s, k) ==
    LET found[r \in (DOMAIN s) \X (DOMAIN s)] ==
            LET start == r[1]
                end == r[2]
                mid == start + (end - start) \div 2
            IN  IF start = end
                THEN [at |-> start, direction |->
                        IF k = s[start].key THEN 0 ELSE IF k < s[start].key THEN 1 ELSE 2]
                ELSE IF k = s[mid].key THEN [at |-> mid, direction |-> 0]
                ELSE IF s[mid].key < k THEN found[<<IF mid < end THEN mid + 1 ELSE mid, end>>]
                ELSE found[<<start, IF start < mid THEN mid - 1 ELSE mid>>]
    IN  found[<<1, Len(s)>>]

NotFound == [node |-> NoNode, at |-> 0]

\* The node that holds the key, and where.
FindElement(t, n, k) ==
    LET found[m \in DOMAIN t.nodes \cup {NoNode}] ==
            LET s == t.nodes[m].elems
                r == Search(s, k)
            IN  IF m = NoNode \/ s = <<>> THEN NotFound
                ELSE IF r.direction = 0 THEN [node |-> m, at |-> r.at]
                ELSE IF r.direction = 1 THEN found[s[r.at].left]
                ELSE found[s[r.at].right]
    IN  found[n]

-----------------------------------------------------------------------------
(* Insert                                                                  *)

\* SplitNode: the middle element goes up, what follows it to a new node.
Split(t, n, e) ==
    LET s == NodeInsert(t.nodes[n].elems, e)
        mid == Len(s) \div 2 + 1
        new == FreshNode(t)
        above == SubSeq(s, mid + 1, Len(s))
        halved == AddNode([t EXCEPT !.nodes[n].elems = SubSeq(s, 1, mid - 1)], new,
                          [parent |-> t.nodes[n].parent, elems |-> above])
    IN  [tree |-> Adopted(halved, above, new), new |-> new,
         middle |-> [s[mid] EXCEPT !.left = n, !.right = new]]

\* A node without a parent gets one, the new root.
Grown(t, n, new) ==
    LET r == FreshNode(t)
        u == AddNode(t, r, EmptyNode)
    IN  IF t.nodes[n].parent # NoNode THEN t
        ELSE [u EXCEPT !.root = r, !.nodes[n].parent = r, !.nodes[new].parent = r]

\* A call of InsertElement, as it is made: [tree, node, elem].  What it does
\* ends with the call that it makes in turn; there is none at NoNode.
InsertCall(c) ==
    LET s == c.tree.nodes[c.node].elems
        p == Split(c.tree, c.node, c.elem)
        u == Grown(p.tree, c.node, p.new)
    IN  IF c.node = NoNode THEN c
        ELSE IF Len(s) < MaxPerNode
        THEN [tree |-> [c.tree EXCEPT !.nodes[c.node].elems = NodeInsert(s, c.elem)],
              node |-> NoNode, elem |-> c.elem]
        ELSE [tree |-> u, node |-> u.nodes[c.node].parent, elem |-> p.middle]

\* One call for a level, one for the new root; there are no more levels than
\* nodes.
InsertElement(t, n, e) ==
    LET last == Cardinality(DOMAIN t.nodes) + 1
        call[i \in 0 .. last] == IF i = 0 THEN [tree |-> t, node |-> n, elem |-> e]
                                 ELSE InsertCall(call[i - 1])
    IN  call[last].tree

Inserted(t, k) ==
    InsertElement(t, LeafFor(t, t.root, k), [key |-> k, left |-> NoNode, right |-> NoNode])

-----------------------------------------------------------------------------
(* Delete                                                                  *)

Highest(t, n) ==
    LET end[m \in DOMAIN t.nodes] ==
            LET s == t.nodes[m].elems
            IN  IF s = <<>> THEN NotFound
                ELSE IF Last(s).right = NoNode THEN [node |-> m, at |-> Len(s)]
                ELSE end[Last(s).right]
    IN  end[n]

Lowest(t, n) ==
    LET end[m \in DOMAIN t.nodes] ==
            LET s == t.nodes[m].elems
            IN  IF s = <<>> THEN NotFound
                ELSE IF s[1].left = NoNode THEN [node |-> m, at |-> 1]
                ELSE end[s[1].left]
    IN  end[n]

SwapElement(t, x, y) ==
    [t EXCEPT !.nodes[x.node].elems[x.at].key = t.nodes[y.node].elems[y.at].key,
              !.nodes[y.node].elems[y.at].key = t.nodes[x.node].elems[x.at].key]

\* Mutant of Handed: the child keeps its old parent.
NotHanded(t, c, n) == t

\* The child that goes along with a borrowed element.
Handed(t, c, n) == IF c = NoNode THEN t ELSE [t EXCEPT !.nodes[c].parent = n]

\* The children of element i of parent p: an element moves from right to
\* left through p,
BorrowRight(t, p, i) ==
    LET e == t.nodes[p].elems[i]
        u == SwapElement(t, [node |-> p, at |-> i], [node |-> e.right, at |-> 1])
        first == Head(u.nodes[e.right].elems)
        moved == [first EXCEPT !.left = Last(t.nodes[e.left].elems).right, !.right = first.left]
        v == [u EXCEPT !.nodes[e.right].elems = Tail(@),
                       !.nodes[e.left].elems = Append(@, moved)]
    IN  Handed(v, moved.right, e.left)

\* from left to right,
BorrowLeft(t, p, i) ==
    LET e == t.nodes[p].elems[i]
        u == SwapElement(t, [node |-> p, at |-> i],
                         [node |-> e.left, at |-> Len(t.nodes[e.left].elems)])
        last == Last(u.nodes[e.left].elems)
        moved == [last EXCEPT !.left = last.right, !.right = t.nodes[e.right].elems[1].left]
        v == [u EXCEPT !.nodes[e.left].elems = Front(@),
                       !.nodes[e.right].elems = <<moved>> \o @]
    IN  Handed(v, moved.left, e.right)

\* or all that is right goes to the left, with the element between them.
Merge(t, p, i) ==
    LET e == t.nodes[p].elems[i]
        l == t.nodes[e.left].elems
        r == t.nodes[e.right].elems
        rest == RemoveAt(t.nodes[p].elems, i)
        u == Adopted(t, r, e.left)
        v == [u EXCEPT
                !.nodes[e.left].elems =
                    l \o <<[e EXCEPT !.left = Last(l).right, !.right = r[1].left]>> \o r,
                !.nodes[p].elems =
                    IF i > Len(rest) THEN rest ELSE [rest EXCEPT ![i].left = e.left]]
    IN  FreeNode(v, e.right)

\* A call of Rebalance, [tree, node], as InsertCall: n hangs below its parent
\* as the left child of element i, or as the right child of the last.
RebalanceCall(c) ==
    LET t == c.tree
        n == c.node
        p == t.nodes[n].parent
        s == t.nodes[p].elems
        lefts == {j \in DOMAIN s : s[j].left = n}
        i == IF lefts # {} THEN Min(lefts) ELSE Len(s)
        sibling == IF lefts # {} THEN s[i].right ELSE s[i].left
        merged == Merge(t, p, i)
    IN  IF n = NoNode \/ n = t.root \/ Len(t.nodes[n].elems) >= MinPerNode
        THEN [tree |-> t, node |-> NoNode]
        ELSE IF Len(t.nodes[sibling].elems) > MinPerNode
        THEN [tree |-> IF lefts # {} THEN BorrowRight(t, p, i) ELSE BorrowLeft(t, p, i),
              node |-> NoNode]
        \* The parent is out of elements: n becomes the root, though it may be
        \* the node that has just been freed, and it keeps its parent.
        ELSE IF merged.nodes[p].elems = <<>>
        THEN [tree |-> [merged EXCEPT !.root = n], node |-> NoNode]
        ELSE [tree |-> merged, node |-> p]

BRebalance(t, n) ==
    LET last == Cardinality(DOMAIN t.nodes)
        call[i \in 0 .. last] == IF i = 0 THEN [tree |-> t, node |-> n]
                                 ELSE RebalanceCall(call[i - 1])
    IN  call[last].tree

\* BTreeNode::Remove
Removed(s, k) == RemoveAt(s, CHOOSE i \in DOMAIN s : s[i].key = k)

DeletedFromLeaf(t, n, k) ==
    BRebalance([t EXCEPT !.nodes[n].elems = Removed(@, k)], n)

\* An inner element first changes places with its neighbour in a leaf.
BDeleted(t, k) ==
    LET x == FindElement(t, t.root, k)
        e == t.nodes[x.node].elems[x.at]
        leaf == IF leftDeletion THEN Highest(t, e.left) ELSE Lowest(t, e.right)
    IN  IF IsLeaf(t, x.node) THEN DeletedFromLeaf(t, x.node, k)
        ELSE DeletedFromLeaf(SwapElement(t, x, leaf), leaf.node, k)

-----------------------------------------------------------------------------

\* After that nothing the program does is defined.
RootFreed(t) == t.root \notin DOMAIN t.nodes

\* A merge took the last element of the root.  Its left child became the
\* root and still has the old one for a parent; when it splits, the middle
\* element goes to that old root, which nobody reads.  Or the freed right
\* child became the root.
Uprooted(t) ==
    \/ RootFreed(t)
    \/ LET p == t.nodes[t.root].parent
       IN  p # NoNode /\ t.nodes[p].elems # <<>>

\* Insert takes any key; a program inserts those that are not there.
BInsert(k) ==
    /\ ~RootFreed(btree) /\ k \notin held
    /\ btree' = Inserted(btree, k)
    /\ total' = total + 1 /\ held' = held \cup {k}
    /\ uprooted' = (uprooted \/ Uprooted(btree'))
    /\ UNCHANGED leftDeletion

BDelete(k) ==
    LET x == FindElement(btree, btree.root, k) IN
    /\ ~RootFreed(btree) /\ x.node # NoNode
    /\ btree' = BDeleted(btree, k)
    /\ leftDeletion' = IF IsLeaf(btree, x.node) THEN leftDeletion ELSE ~leftDeletion
    /\ total' = total - 1 /\ held' = held \ {k}
    /\ uprooted' = (uprooted \/ Uprooted(btree'))

BTreeNext == \E k \in BKeys : BInsert(k) \/ BDelete(k)
BTreeSpec == BTreeInit /\ [][BTreeNext]_btreeVars

-----------------------------------------------------------------------------

\* What InOrderTraverse visits: left of each element, and right of the last.
\* Before element i of a node come the elements before it and its left child.
BInOrder(n) ==
    LET before[x \in (DOMAIN btree.nodes) \X (1 .. MaxPerNode + 1)] ==
            LET s == btree.nodes[x[1]].elems
                i == x[2]
                c == BChild(s, i)
            IN  (IF i = 1 THEN <<>> ELSE Append(before[<<x[1], i - 1>>], s[i - 1].key))
                \o (IF s = <<>> \/ c = NoNode THEN <<>>
                    ELSE before[<<c, Len(btree.nodes[c].elems) + 1>>])
    IN  before[<<n, Len(btree.nodes[n].elems) + 1>>]

\* Neighbours share the child between them; children know their parent and
\* are filled to the minimum.
BLinked ==
    \A n \in DOMAIN btree.nodes :
        LET s == btree.nodes[n].elems IN
        /\ Len(s) <= MaxPerNode
        /\ \A i \in 2 .. Len(s) : s[i - 1].right = s[i].left
        /\ \A i \in DOMAIN s : \A c \in {s[i].left, s[i].right} \ {NoNode} :
             btree.nodes[c].parent = n /\ Len(btree.nodes[c].elems) >= MinPerNode

\* Through splits, borrowing and merging at every level, traversal, search
\* and the count see exactly the keys inserted and not deleted, and the nodes
\* stay linked and filled, unless the tree has ever lost its root.
BTreeExact ==
    LET keys == BInOrder(btree.root) IN
    ~uprooted =>
        /\ Range(keys) = held /\ \A i \in 2 .. Len(keys) : keys[i - 1] < keys[i]
        /\ \A k \in BKeys : FindElement(btree, btree.root, k).node # NoNode <=> k \in held
        /\ total = Cardinality(held)
        /\ BLinked
=============================================================================
