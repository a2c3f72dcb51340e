------------------------------ MODULE MCMutex ------------------------------
(* Two threads that sleep in the kernel and one CPU that spins. *)
EXTENDS Mutex

CONSTANTS t1, t2, c1

MCBlockers == {t1, t2}
MCSpinners == {c1}
=============================================================================
