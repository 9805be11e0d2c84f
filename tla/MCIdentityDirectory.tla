-------------------------- MODULE MCIdentityDirectory -------------------------
(* IdentityDirectory for TLC: p1 and p2 share a serviceId, p3 has its own.   *)
EXTENDS IdentityDirectory

CONSTANTS p1, p2, p3, sA, sB

TwoServices == [p \in Procs |-> IF p = p3 THEN sB ELSE sA]
===============================================================================
