-------------------------------- MODULE Tree --------------------------------
(***************************************************************************)
(* upan::_tree (libustd/ds/_tree.h), the AVL tree under upan::map and      *)
(* upan::set, with its nodes, parent pointers and stored heights.          *)
(*                                                                         *)
(* A node keeps its element for life and a key is in the tree once, so a   *)
(* node is named by its key.  The heap is a function from the allocated    *)
(* nodes to their fields; the member functions of the code are operators   *)
(* from heap to heap, in the order of the code's assignments.              *)
(***************************************************************************)
EXTENDS Integers, Sequences, FiniteSets, FiniteSetsExt, Functions

CONSTANT Keys   \* the keys, positive integers

Nil == 0        \* nullptr

ASSUME KeysAssumption == Keys \subseteq Nat \ {Nil} /\ IsFiniteSet(Keys)

VARIABLES
    heap,       \* the allocated nodes
    root,       \* _root
    size,       \* _size
    changed     \* what the last insert (.second) or erase returned

treeVars == <<heap, root, size, changed>>

Links == Keys \cup {Nil}
Node == [left : Links, right : Links, parent : Links, height : Nat]

\* The state space; TreeWellFormed, below, has it as a conjunct.
TreeTypeOK ==
    /\ DOMAIN heap \subseteq Keys
    /\ \A n \in DOMAIN heap : heap[n] \in Node
    /\ root \in Links /\ size \in Nat /\ changed \in BOOLEAN

TreeInit == heap = <<>> /\ root = Nil /\ size = 0 /\ changed = FALSE

-----------------------------------------------------------------------------
(* class node                                                              *)

Height(h, n) == IF n = Nil THEN 0 ELSE h[n].height

SetParent(h, n, p) == IF n = Nil THEN h ELSE [h EXCEPT ![n].parent = p]
SetLeft(h, n, l) == SetParent([h EXCEPT ![n].left = l], l, n)
SetRight(h, n, r) == SetParent([h EXCEPT ![n].right = r], r, n)

BalanceFactor(h, n) == Height(h, h[n].left) - Height(h, h[n].right)

UpdateHeight(h, n) ==
    [h EXCEPT ![n].height = Max({Height(h, h[n].left), Height(h, h[n].right)}) + 1]

\* The two loops of successor() and predecessor(): down one side to the end,
\* up as long as the node is the child on that side.
Child(h, n, side) == IF side = "left" THEN h[n].left ELSE h[n].right

Descend(h, n, side) ==
    LET end[m \in DOMAIN h] ==
          IF Child(h, m, side) = Nil THEN m ELSE end[Child(h, m, side)]
    IN  end[n]

Climb(h, n, side) ==
    LET up[m \in DOMAIN h] ==
          LET p == h[m].parent
          IN  IF p = Nil \/ Child(h, p, side) # m THEN p ELSE up[p]
    IN  up[n]

\* Mutant of Successor: the climb looks at the wrong side.
SuccessorLeft(h, n) ==
    IF h[n].right # Nil THEN Descend(h, h[n].right, "left") ELSE Climb(h, n, "left")

Successor(h, n) ==
    IF h[n].right # Nil THEN Descend(h, h[n].right, "left") ELSE Climb(h, n, "right")

Predecessor(h, n) ==
    IF h[n].left # Nil THEN Descend(h, h[n].left, "right") ELSE Climb(h, n, "left")

-----------------------------------------------------------------------------
(* Rotation.  A function that returns a node yields the heap and the node. *)

RotateLeft(h, n) ==
    LET r == h[n].right
        g == SetLeft(SetRight(h, n, h[r].left), r, n)
    IN  [heap |-> UpdateHeight(UpdateHeight(g, n), r), node |-> r]

RotateRight(h, n) ==
    LET l == h[n].left
        g == SetRight(SetLeft(h, n, h[l].right), l, n)
    IN  [heap |-> UpdateHeight(UpdateHeight(g, n), l), node |-> l]

\* Mutant of Rebalance: the inner child's lean is not looked at.
RebalanceSingle(h, n) ==
    LET g == UpdateHeight(h, n)
        bf == BalanceFactor(g, n)
    IN  CASE bf > 1 -> RotateRight(g, n)
          [] bf < -1 -> RotateLeft(g, n)
          [] OTHER -> [heap |-> g, node |-> n]

Rebalance(h, n) ==
    LET g == UpdateHeight(h, n)
        bf == BalanceFactor(g, n)
        l == g[n].left
        r == g[n].right
        inner == IF bf > 1 THEN RotateLeft(g, l) ELSE RotateRight(g, r)
    IN  CASE bf > 1 /\ BalanceFactor(g, l) >= 0 -> RotateRight(g, n)
          [] bf < -1 /\ BalanceFactor(g, r) <= 0 -> RotateLeft(g, n)
          [] bf > 1 /\ BalanceFactor(g, l) < 0 ->
               RotateRight(SetLeft(inner.heap, n, inner.node), n)
          [] bf < -1 /\ BalanceFactor(g, r) > 0 ->
               RotateLeft(SetRight(inner.heap, n, inner.node), n)
          [] OTHER -> [heap |-> g, node |-> n]

-----------------------------------------------------------------------------
(* insert and erase                                                        *)

NewNode == [left |-> Nil, right |-> Nil, parent |-> Nil, height |-> 1]

\* The subtree sub that comes back from the recursive call is hung where the
\* call went, and the node is rebalanced if the tree has changed.
Rehang(n, side, sub) ==
    LET g == IF side = "left" THEN SetLeft(sub.heap, n, sub.node)
                              ELSE SetRight(sub.heap, n, sub.node)
        b == Rebalance(g, n)
    IN  IF sub.changed
        THEN [heap |-> b.heap, node |-> b.node, changed |-> TRUE]
        ELSE [heap |-> g, node |-> n, changed |-> FALSE]

\* The recursion of insert and erase: what the call for n returns, if the
\* innermost one returns atNil at nullptr and atKey at the node of k.
Returned(h, n, k, atNil, atKey) ==
    LET call[m \in DOMAIN h \cup {Nil}] ==
          IF m = Nil THEN atNil
          ELSE IF m = k THEN atKey
          ELSE IF k < m THEN Rehang(m, "left", call[h[m].left])
          ELSE Rehang(m, "right", call[h[m].right])
    IN  call[n]

Created(h, k) ==
    [heap |-> [m \in DOMAIN h \cup {k} |-> IF m = k THEN NewNode ELSE h[m]],
     node |-> k, changed |-> TRUE]
Unchanged(h, n) == [heap |-> h, node |-> n, changed |-> FALSE]

InsertBelow(h, n, k) == Returned(h, n, k, Created(h, k), Unchanged(h, k))

\* Mutant of Delete: the node is left behind.
Leak(h, n) == h

Delete(h, n) == Restrict(h, DOMAIN h \ {n})

\* n, which has a child at most, goes, and the child takes its place.
Spliced(h, n) ==
    [heap |-> Delete(h, n), node |-> IF h[n].left # Nil THEN h[n].left ELSE h[n].right,
     changed |-> TRUE]

\* The successor s of n takes the place of n, and n that of s.
SwapWithSuccessor(h, n, s) ==
    LET g1 == SetRight(SetLeft(h, s, h[n].left), s, h[n].right)
        g2 == SetLeft(g1, g1[s].parent, n)
    IN  SetRight(SetLeft(g2, n, h[s].left), n, h[s].right)

\* n holds the key to erase.  Once exchanged it has no left child, so the call
\* that finds it again splices it.
EraseFound(h, n) ==
    LET s == Successor(h, n)
        b == Rebalance(Delete(SetLeft(h, s, h[n].left), n), s)
        g == SwapWithSuccessor(h, n, s)
    IN  IF h[n].left = Nil \/ h[n].right = Nil THEN Spliced(h, n)
        ELSE IF s = h[n].right THEN [heap |-> b.heap, node |-> b.node, changed |-> TRUE]
        ELSE Rehang(s, "right", Returned(g, g[s].right, n, Unchanged(g, Nil), Spliced(g, n)))

EraseBelow(h, n, k) == Returned(h, n, k, Unchanged(h, Nil), EraseFound(h, k))

\* The end of both public functions.
Adopt(r, newSize) ==
    /\ heap' = SetParent(r.heap, r.node, Nil)
    /\ root' = r.node
    /\ changed' = r.changed
    /\ size' = IF r.changed THEN newSize ELSE size

TreeInsert(k) == Adopt(InsertBelow(heap, root, k), size + 1)
TreeErase(k) == Adopt(EraseBelow(heap, root, k), size - 1)

TreeClear == heap' = <<>> /\ root' = Nil /\ size' = 0 /\ UNCHANGED changed

TreeNext == TreeClear \/ \E k \in Keys : TreeInsert(k) \/ TreeErase(k)
TreeSpec == TreeInit /\ [][TreeNext]_treeVars

-----------------------------------------------------------------------------
(* Looking things up                                                       *)

FirstNode == IF root = Nil THEN Nil ELSE Descend(heap, root, "left")

FindFrom(n, k) ==
    LET find[m \in DOMAIN heap \cup {Nil}] ==
          IF m = Nil \/ m = k THEN m
          ELSE find[IF k < m THEN heap[m].left ELSE heap[m].right]
    IN  find[n]

\* The loop of both bounds, on cur and result: the last node at which it went
\* left, which it does at the nodes of goesLeft.
BoundFrom(n, goesLeft) ==
    LET bound[at \in (DOMAIN heap \cup {Nil}) \X Links] ==
          IF at[1] = Nil THEN at[2]
          ELSE IF at[1] \in goesLeft THEN bound[<<heap[at[1]].left, at[1]>>]
          ELSE bound[<<heap[at[1]].right, at[2]>>]
    IN  bound[<<n, Nil>>]

LowerBoundFrom(n, k) == BoundFrom(n, {m \in DOMAIN heap : ~(m < k)})
UpperBoundFrom(n, k) == BoundFrom(n, {m \in DOMAIN heap : k < m})

-----------------------------------------------------------------------------

\* The keys below n from left to right.
InOrder(n) ==
    LET keys[m \in DOMAIN heap \cup {Nil}] ==
          IF m = Nil THEN <<>>
          ELSE keys[heap[m].left] \o <<m>> \o keys[heap[m].right]
    IN  keys[n]

\* Every allocated node hangs in the tree, the keys are in order, and each
\* child knows its parent: what the iterators rely on when they climb.
TreeLinked ==
    LET keys == InOrder(root) IN
    /\ Range(keys) = DOMAIN heap
    /\ \A i \in 2 .. Len(keys) : keys[i - 1] < keys[i]
    /\ root # Nil => heap[root].parent = Nil
    /\ \A n \in DOMAIN heap : \A c \in {heap[n].left, heap[n].right} \ {Nil} :
         heap[c].parent = n

\* What insert, erase and clear do to the tree is what they promise to do to
\* a set, with size() and the results right: no rotation and no exchange of
\* nodes loses, doubles or leaks a key.  The nodes are the contents, because
\* by TreeLinked the allocated ones are those that hang in the tree.
Contents == INSTANCE SortedSet WITH
    elements <- DOMAIN heap, count <- size, changed <- changed
TreeImplementsSet == Contents!Spec

\* The stored heights are the heights, and no node leans by more than one.
TreeBalanced ==
    \A n \in DOMAIN heap :
        /\ heap[n].height = Max({Height(heap, heap[n].left), Height(heap, heap[n].right)}) + 1
        /\ BalanceFactor(heap, n) \in -1 .. 1

\* Any sequence of inserts and erases, whatever rotations and exchanges of
\* nodes it takes, leaves an AVL tree: linked, in order and balanced.
TreeWellFormed == TreeTypeOK /\ TreeLinked /\ TreeBalanced

\* The least of a set of nodes, and the greatest, Nil for none.
Least(S) == IF S = {} THEN Nil ELSE Min(S)
Greatest(S) == IF S = {} THEN Nil ELSE Max(S)

\* begin() is the least key, and from every node ++ and -- reach the next and
\* the previous key, in whatever order the tree was built.
TreeIterates ==
    /\ FirstNode = Least(DOMAIN heap)
    /\ \A n \in DOMAIN heap :
         /\ Successor(heap, n) = Least({m \in DOMAIN heap : m > n})
         /\ Predecessor(heap, n) = Greatest({m \in DOMAIN heap : m < n})

\* find, lower_bound and upper_bound agree with their definitions on the set
\* for every key, present or not.
TreeLooksUp ==
    \A k \in Keys :
        /\ FindFrom(root, k) = (IF k \in DOMAIN heap THEN k ELSE Nil)
        /\ LowerBoundFrom(root, k) = Least({m \in DOMAIN heap : m >= k})
        /\ UpperBoundFrom(root, k) = Least({m \in DOMAIN heap : m > k})

\* What a caller reads off the tree is what the set of its keys determines.
TreeNavigates == TreeIterates /\ TreeLooksUp
=============================================================================
