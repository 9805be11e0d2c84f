---------------------------- MODULE MCClientTasks -----------------------------
(* ClientTasks for TLC: two tasks publish to two subjects.                   *)
EXTENDS ClientTasks

CONSTANTS k1, k2, sA, sB, d1
===============================================================================
