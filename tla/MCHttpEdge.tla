------------------------------ MODULE MCHttpEdge ------------------------------
(* HttpEdge for TLC: a request, its retry under the same Idempotency-Key, and *)
(* one that is refused.                                                       *)
EXTENDS HttpEdge

CONSTANTS p1, svc, c1, m1, first, retry, wrong

OneService == [p \in Procs |-> svc]
MCKeyOf == [r \in Requests |-> m1]
===============================================================================
