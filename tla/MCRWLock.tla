------------------------------ MODULE MCRWLock ------------------------------
(* Three threads, enough for a reader, a writer and a request behind both. *)
EXTENDS RWLock

CONSTANTS p1, p2, p3

MCProcs == {p1, p2, p3}
=============================================================================
