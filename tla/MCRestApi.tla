------------------------------- MODULE MCRestApi ------------------------------
(* RestApi for TLC: r1 and r2 carry one Idempotency-Key, a client's request  *)
(* and its retry.  When the duplicate window passes they are two orders.      *)
EXTENDS RestApi

CONSTANTS r1, r2, k1

SharedKey == [r \in Requests |-> k1]
===============================================================================
