------------------------------ MODULE MCTreeWalk -----------------------------
(* An instance of TreeWalk.                                                 *)
EXTENDS TreeWalk

BothWalkers == {"all_paths", "walk"}
WalkOperations == {"mkdir", "file", "unlink", "rename", "move", "clear"}
TwoNames == [a |-> 1, b |-> 2]
=============================================================================
