----------------------------- MODULE MCVirtualFS -----------------------------
(* An instance of VirtualFS.                                                 *)
EXTENDS VirtualFS

\* A removed path is replaced and everything is moved and renamed.
TreeOperations ==
    {"mkdir", "file", "symlink", "insert", "unlink", "prune", "rename",
     "move", "freeze"}
=============================================================================
