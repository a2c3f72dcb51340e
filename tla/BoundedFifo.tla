---------------------------- MODULE BoundedFifo ----------------------------
(***************************************************************************)
(* What upan::queue promises a producer and a consumer: a first-in         *)
(* first-out sequence of at most Size elements, filled and emptied in      *)
(* batches.                                                                *)
(***************************************************************************)
EXTENDS Naturals, Sequences

CONSTANTS Size, Values

VARIABLES
    items,  \* the elements in the queue, oldest first
    out     \* what the consumer was last given

vars == <<items, out>>

Init == items = <<>> /\ out = <<>>

\* The producer appends a batch that fits.
Put ==
    /\ Len(items') \in (Len(items) + 1)..Size
    /\ SubSeq(items', 1, Len(items)) = items
    /\ items' \in Seq(Values)
    /\ UNCHANGED out

\* The consumer looks at the oldest element,
Peek == items # <<>> /\ out' = <<items[1]>> /\ UNCHANGED items

\* takes the n oldest ones,
Take(n) ==
    /\ out' = SubSeq(items, 1, n)
    /\ items' = SubSeq(items, n + 1, Len(items))

\* or drops the oldest one.
Drop == items # <<>> /\ items' = Tail(items) /\ UNCHANGED out

Clear == items' = <<>> /\ UNCHANGED out

Next == Put \/ Peek \/ (\E n \in 1..Len(items) : Take(n)) \/ Drop \/ Clear

Spec == Init /\ [][Next]_vars
=============================================================================
