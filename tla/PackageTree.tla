----------------------------- MODULE PackageTree -----------------------------
(***************************************************************************)
(* What the virtual file system of a package promises: a map from paths to  *)
(* what is there, in which everything but the root has a directory above    *)
(* it.  A path is put, dropped with all that is below it, or relocated with *)
(* all that is below it, until the tree is frozen.                          *)
(***************************************************************************)
EXTENDS Naturals, Sequences, SequencesExt

CONSTANT Name

VARIABLES
    contents,   \* kind of each path of the package
    frozen      \* the list of members of data.tar was made

treeVars == <<contents, frozen>>

Over(c, p) == {q \in DOMAIN c : IsPrefix(p, q)}
Dirs(c) == {p \in DOMAIN c : c[p] = "dir"}
Rebased(p, q, r) == r \o SubSeq(p, Len(q) + 1, Len(p))

\* What was at path goes with all that was below it.
Put(c, path, kind) ==
    [p \in (DOMAIN c \ Over(c, path)) \cup {path} |->
        IF p = path THEN kind ELSE c[p]]

Drop(c, path) == [p \in DOMAIN c \ Over(c, path) |-> c[p]]

Relocate(c, path, to) ==
    LET new == {Rebased(p, path, to) : p \in Over(c, path)}
    IN  [p \in (DOMAIN c \ (Over(c, path) \cup Over(c, to))) \cup new |->
            IF p \in new THEN c[Rebased(p, to, path)] ELSE c[p]]

\* From c to n in one operation.
IsPut(c, n) ==
    \E d \in Dirs(c), k \in Name :
        /\ Append(d, k) \in DOMAIN n
        /\ n = Put(c, Append(d, k), n[Append(d, k)])

IsDrop(c, n) == \E p \in DOMAIN c \ (DOMAIN n \cup {<<>>}) : n = Drop(c, p)

\* A directory never becomes a part of itself.
IsRelocation(c, n) ==
    \E p \in DOMAIN c \ {<<>>} :
        \E d \in Dirs(c) \ Over(c, p), k \in Name : n = Relocate(c, p, Append(d, k))

InitTree ==
    /\ contents = [p \in {<<>>} |-> "dir"]
    /\ frozen = FALSE

Change ==
    /\ ~ frozen
    /\ \/ IsPut(contents, contents')
       \/ IsDrop(contents, contents')
       \/ IsRelocation(contents, contents')
    /\ UNCHANGED frozen

Freeze == frozen' = TRUE /\ UNCHANGED contents

TreeSpec == InitTree /\ [][Change \/ Freeze]_treeVars
=============================================================================
