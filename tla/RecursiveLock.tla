--------------------------- MODULE RecursiveLock ---------------------------
(***************************************************************************)
(* What the mutexes of libupthread promise their callers: a recursive lock *)
(* that one owner at a time holds, as often as it asked for it, and that   *)
(* only a release by (or on behalf of) that owner gives back.              *)
(***************************************************************************)
EXTENDS Naturals

CONSTANTS Owners

VARIABLE depth  \* depth[o]: how many times o holds the lock

\* No owner other than o holds the lock.
OthersOut(o) == \A p \in Owners \ {o} : depth[p] = 0

Init == depth = [o \in Owners |-> 0]

Acquire(o) ==
    /\ OthersOut(o)
    /\ depth' = [depth EXCEPT ![o] = @ + 1]

Release(o) ==
    /\ depth[o] > 0
    /\ depth' = [depth EXCEPT ![o] = @ - 1]

Next == \E o \in Owners : Acquire(o) \/ Release(o)

Spec == Init /\ [][Next]_depth
=============================================================================
