-------------------------- MODULE MCServiceDirectory --------------------------
(* ServiceDirectory for TLC: one subscriber s1 and one publisher p1.         *)
EXTENDS ServiceDirectory

CONSTANTS s1, p1
===============================================================================
