---------------------------- MODULE MCFileCommands ----------------------------
(* FileCommands for TLC: one file, and pairs of commands that meet on it, or  *)
(* that get the answers for directories and malformed paths.                  *)
EXTENDS FileCommands

CONSTANTS f1

Command(k, p) == [kind |-> k, path |-> p]

MCWorkloads ==
    {<<Command("write", f1), Command("write", f1)>>,
     <<Command("write", f1), Command("delete", f1)>>,
     <<Command("write", f1), Command("read", f1)>>,
     <<Command("list", Root), Command("write", Root)>>,
     <<Command("list", Escaping), Command("read", Malformed)>>,
     <<Command("list", f1), Command("write", f1)>>}
===============================================================================
