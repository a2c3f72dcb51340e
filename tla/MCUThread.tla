----------------------------- MODULE MCUThread -----------------------------
(* One thread object: with one controller, the way libupanui uses it, and   *)
(* with two, which _t_mutex is there for.                                   *)
EXTENDS UThread

CONSTANTS c1, c2

OneController == {c1}
TwoControllers == {c1, c2}
=============================================================================
