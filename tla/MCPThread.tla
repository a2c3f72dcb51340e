----------------------------- MODULE MCPThread -----------------------------
(***************************************************************************)
(* Three pids.  The parts of the library share no state but the threads,   *)
(* so each program below exercises one of them, or keys together with the  *)
(* threads that come and go, instead of all at once.                       *)
(***************************************************************************)
EXTENDS PThread

CONSTANTS p0, p1, p2, cv1, cv2, v1

MCThreads == {p0, p1, p2}
MCConds == {cv1, cv2}
MCValues == {v1}
MCPrograms == {{"thread", "join"}, {"thread", "key"}, {"cond"}, {"once"}}
=============================================================================
