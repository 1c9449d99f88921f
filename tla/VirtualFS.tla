------------------------------ MODULE VirtualFS ------------------------------
(***************************************************************************)
(* The virtual file system of one package: the operations that plugins,     *)
(* install rules, transformations and debputy itself perform on its nodes   *)
(* (class FSPath), until the tree is made read-only.                        *)
(*                                                                         *)
(* Callers may hold nodes that were removed.  They are assumed to keep off  *)
(* them, but for removing, renaming and asking for the path, as "most       *)
(* operations are unsafe on them" (is_detached, plugin/api/spec.py).  An    *)
(* operation that raises before it changes anything is not a step.          *)
(***************************************************************************)
EXTENDS FSTree

CONSTANT Operations     \* those the callers use

VARIABLES
    tree,       \* the nodes
    rw          \* _fs_read_write of the root

vars == <<tree, rw>>

Uses(operation) == operation \in Operations
MoreNodes == Unborn(tree) # {}
Writable(n) == rw \/ Detached(tree, n)
\* The parent, if there is one, can take n's name off its list of children.
Listed(n) ==
    n \in Attached(tree) => tree.child[tree.parent[n]][tree.name[n]] # NoNode

Init ==
    /\ tree = EmptyTree
    /\ rw = TRUE

-----------------------------------------------------------------------------
(* New nodes in a directory d that is attached.                             *)

\* Mutant: _rw_check is forgotten.
MayAddToMutant(d) == d \in Attached(tree) /\ IsDir(tree, d) /\ MoreNodes

MayAddTo(d) == d \in Attached(tree) /\ IsDir(tree, d) /\ MoreNodes /\ rw

\* mkdir refuses a name that is in use.
MkDir(d, k) ==
    /\ Uses("mkdir")
    /\ MayAddTo(d)
    /\ tree.child[d][k] = NoNode
    /\ tree' = Create(tree, d, k, "dir")
    /\ UNCHANGED rw

\* add_file and add_symlink remove what has the name, if that is not a
\* directory with something in it.
AddOver(d, k, kind) ==
    LET existing == tree.child[d][k]
    IN  IF existing = NoNode
        THEN tree' = Create(tree, d, k, kind)
        ELSE /\ Empty(tree, existing)
             /\ tree' = Create(Unlinked(tree, existing), d, k, kind)

AddFile(d, k) ==
    /\ Uses("file")
    /\ MayAddTo(d)
    /\ AddOver(d, k, "file")
    /\ UNCHANGED rw

AddSymlink(d, k) ==
    /\ Uses("symlink")
    /\ MayAddTo(d)
    /\ AddOver(d, k, "symlink")
    /\ UNCHANGED rw

\* insert_file_from_fs_path leaves it to _add_child to replace what is there.
InsertFile(d, k) ==
    /\ Uses("insert")
    /\ MayAddTo(d)
    /\ tree' = Create(tree, d, k, "file")
    /\ UNCHANGED rw

-----------------------------------------------------------------------------
(* Removals.                                                                *)

\* Nothing happens to a node that is detached.
Unlink(n, recursive) ==
    /\ Uses("unlink")
    /\ n \in Attached(tree) \ {Root}
    /\ recursive \/ Empty(tree, n)
    /\ rw /\ Listed(n)
    /\ tree' = Detach(tree, n)
    /\ UNCHANGED rw

PruneIfEmptyDir(n) ==
    /\ Uses("prune")
    /\ n \in Attached(tree) \ {Root}
    /\ IsDir(tree, n) /\ Empty(tree, n)
    /\ rw /\ Listed(n)
    /\ tree' = Pruned(tree, n)
    /\ UNCHANGED rw

\* The node keeps its parent, so that a lasting tree is wrong about it:
\* TreeWalk has this action, Next has not.
DelItem(d, k) ==
    /\ d \in Attached(tree)
    /\ tree.child[d][k] # NoNode
    /\ rw
    /\ tree' = WithoutItem(tree, d, k)
    /\ UNCHANGED rw

-----------------------------------------------------------------------------
(* Relocations.                                                             *)

\* name = k
SetName(n, k) ==
    /\ Uses("rename")
    /\ n \in Born(tree) \ {Root}
    /\ Writable(n)
    /\ Listed(n)
    /\ tree' = Rename(tree, n, k)
    /\ UNCHANGED rw

\* parent_dir = d.  Under a directory of its own it would never stop asking
\* its parents whether they are detached.
MoveTo(n, d) ==
    /\ Uses("move")
    /\ n \in Attached(tree) \ {Root}
    /\ d \in Attached(tree)
    /\ IsDir(tree, d)
    /\ ~ Below(tree, d, n)
    /\ rw /\ Listed(n)
    /\ tree' = SetParent(tree, n, d)
    /\ UNCHANGED rw

-----------------------------------------------------------------------------

\* Somebody asks for the path of n, which is kept (an action of TreeWalk, too).
AskPath(n) ==
    /\ n \in Born(tree)
    /\ PathOf(tree)[n] # NoPath
    /\ tree' = ReadPath(tree, n)
    /\ UNCHANGED rw

\* finalize_data_tar_contents
Freeze ==
    /\ Uses("freeze")
    /\ rw' = FALSE
    /\ UNCHANGED tree

Next ==
    \/ \E d \in Node, k \in Name :
        \/ MkDir(d, k)
        \/ AddFile(d, k)
        \/ AddSymlink(d, k)
        \/ InsertFile(d, k)
        \/ SetName(d, k)
    \/ \E n \in Node :
        \/ \E recursive \in BOOLEAN : Unlink(n, recursive)
        \/ PruneIfEmptyDir(n)
        \/ \E d \in Node : MoveTo(n, d)
    \/ Freeze

Spec == Init /\ [][Next]_vars

-----------------------------------------------------------------------------
(* Properties.                                                              *)

TypeOK ==
    /\ tree \in Trees
    /\ rw \in BOOLEAN

\* A path in the package is the one its node reports, whatever was moved or
\* renamed above it since the node last worked its path out: the parents, the
\* lists of children and the caches of path and parent_dir_path agree.
PathIsAccurate ==
    LET at == At(tree)
    IN  \A p \in PathNames : at[p] # NoNode => PathOf(tree)[at[p]] = p

\* A node that says it is not detached is in the package, at the place its
\* parents lead to: is_detached tells removed nodes from present ones, on which
\* lazy walks and every operation on a held node rely.
AttachedIsPresent ==
    \A n \in Attached(tree) : At(tree)[Trail(tree)[n]] = n

\* A node that is taken off its parent reports the path it had, be it unlinked,
\* pruned or replaced by another node.
RemovedPathIsRemembered ==
    [][\A n \in Attached(tree) \ {Root} :
            tree'.parent[n] = NoNode => PathOf(tree')[n] = Trail(tree)[n]]_vars

\* Every operation does to the paths of the package what it says, to no other
\* path, and nothing once the list of members was made.
Package == INSTANCE PackageTree
              WITH contents <- Contents(tree), frozen <- ~ rw
ImplementsPackageTree == Package!TreeSpec
=============================================================================
