---------------------------- MODULE MCContainers ----------------------------
(***************************************************************************)
(* A tree, a B-tree or a list, and any sequence of calls on it.  They      *)
(* share nothing, so a behaviour exercises one of them.                    *)
(*   - tree: the smallest one in which an erase rotates at two levels has  *)
(*     twelve nodes;                                                       *)
(*   - btree: any calls on up to nine keys, with four elements in a node;  *)
(*   - tall_btree: what is left of 27 keys inserted upwards or downwards,  *)
(*     three levels with three inner nodes, when any three are deleted:    *)
(*     inner nodes borrow from both sides and merge.                       *)
(***************************************************************************)
EXTENDS Tree, List, BTree

VARIABLE kind

MCKeys == 1 .. 12
MCValues == {1, 2}
MCBKeys == 1 .. 27
MCFewKeys == 1 .. 9
MCDeletions == 3

MCOrders == {[i \in MCBKeys |-> i], [i \in MCBKeys |-> 28 - i]}
MCEmptyBTree == [nodes |-> 1 :> EmptyNode, root |-> 1]

MCTallBTreeInit ==
    /\ btree \in {FoldLeft(Inserted, MCEmptyBTree, order) : order \in MCOrders}
    /\ total = 27 /\ held = MCBKeys /\ leftDeletion = TRUE /\ uprooted = FALSE

MCInit ==
    /\ TreeInit /\ ListInit
    /\ \/ kind \in {"tree", "list", "btree"} /\ BTreeInit
       \/ kind = "tall_btree" /\ MCTallBTreeInit

MCBTreeNext ==
    \/ kind = "btree" /\ \E k \in MCFewKeys : BInsert(k) \/ BDelete(k)
    \/ kind = "tall_btree" /\ total > 27 - MCDeletions /\ \E k \in BKeys : BDelete(k)

MCNext ==
    /\ UNCHANGED kind
    /\ \/ kind = "tree" /\ TreeNext /\ UNCHANGED <<listVars, btreeVars>>
       \/ kind = "list" /\ ListNext /\ UNCHANGED <<treeVars, btreeVars>>
       \/ MCBTreeNext /\ UNCHANGED <<treeVars, listVars>>

MCSpec == MCInit /\ [][MCNext]_<<kind, treeVars, listVars, btreeVars>>
=============================================================================
