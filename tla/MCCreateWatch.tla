----------------------------- MODULE MCCreateWatch ----------------------------
(* CreateWatch for TLC: a write command and files from outside.               *)
EXTENDS CreateWatch

CONSTANTS f1

MCWorkloads == {<<[kind |-> "write", path |-> f1]>>}
===============================================================================
