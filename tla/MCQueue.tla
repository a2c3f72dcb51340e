------------------------------ MODULE MCQueue ------------------------------
(* A ring of three slots and batches of two: neither divides the other, so  *)
(* batches wrap around at every slot.  Two values tell a stale slot apart.  *)
EXTENDS Queue
=============================================================================
