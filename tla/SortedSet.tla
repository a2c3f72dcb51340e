------------------------------ MODULE SortedSet ------------------------------
(* What _tree promises upan::set and upan::map: a finite set of keys, each   *)
(* present once, and a size and results that tell the truth about it.        *)
EXTENDS Naturals, FiniteSets

CONSTANT Keys

VARIABLES elements, count, changed

Init == elements = {} /\ count = 0 /\ changed = FALSE

Insert(k) ==
    /\ elements' = elements \cup {k}
    /\ changed' = (k \notin elements)
    /\ count' = Cardinality(elements')

Erase(k) ==
    /\ elements' = elements \ {k}
    /\ changed' = (k \in elements)
    /\ count' = Cardinality(elements')

Clear == elements' = {} /\ count' = 0 /\ changed' = changed

Next == Clear \/ \E k \in Keys : Insert(k) \/ Erase(k)

Spec == Init /\ [][Next]_<<elements, count, changed>>
=============================================================================
