------------------------------ MODULE MCEventBus ------------------------------
(* EventBus for TLC: a publishing process, a second process of its serviceId, *)
(* its rival for the identity, and one consumer.                              *)
EXTENDS EventBus

CONSTANTS p1, p2, svc, c1

OneService == [p \in Procs |-> svc]
===============================================================================
