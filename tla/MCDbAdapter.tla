------------------------------ MODULE MCDbAdapter -----------------------------
(* DbAdapter for TLC: events about the one order o1, or malformed.           *)
EXTENDS DbAdapter

CONSTANTS o1
===============================================================================
