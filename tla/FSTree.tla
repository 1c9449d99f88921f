------------------------------- MODULE FSTree -------------------------------
(***************************************************************************)
(* The nodes of a package's file system (class FSPath) and what the private *)
(* operations on them do.  Each node knows its name and its parent, each    *)
(* directory its children by name; the two records are kept by hand.        *)
(*                                                                         *)
(* A node is never reused: one that was removed stays around for as long as *)
(* somebody holds it, and may still be operated on.  The parent is a weak   *)
(* reference in the code; it can only be dead for a node that is detached.  *)
(***************************************************************************)
EXTENDS Naturals, FiniteSets, SequencesExt

CONSTANTS
    Node,           \* the objects that can exist
    Root,           \* the FSRootDir
    Name            \* basenames

NoNode == "-"
NoPath == <<"?">>

ASSUME NodeAssumption ==
    /\ Root \in Node
    /\ NoNode \notin Node
    /\ "?" \notin Name
    /\ IsFiniteSet(Node) /\ IsFiniteSet(Name)
    /\ Name # {}

Kinds == {"unborn", "dir", "file", "symlink"}
NoCache == [under |-> NoPath, path |-> NoPath]

\* A tree of the nodes so far: _basename, _parent_dir, _children, the
\* _last_known_parent_path and the pair of _parent_path_cache and _path_cache.
Trees ==
    [kind : [Node -> Kinds],
     name : [Node -> Name],
     parent : [Node -> Node \cup {NoNode}],
     child : [Node -> [Name -> Node \cup {NoNode}]],
     last : [Node -> Seq(Name \cup {"?"})],
     cache : [Node -> [under : Seq(Name \cup {"?"}), path : Seq(Name \cup {"?"})]]]

EmptyTree ==
    [kind |-> [n \in Node |-> IF n = Root THEN "dir" ELSE "unborn"],
     name |-> [n \in Node |-> CHOOSE k \in Name : TRUE],
     parent |-> [n \in Node |-> NoNode],
     child |-> [n \in Node |-> [k \in Name |-> NoNode]],
     last |-> [n \in Node |-> NoPath],
     cache |-> [n \in Node |-> NoCache]]

Born(t) == {n \in Node : t.kind[n] # "unborn"}
Unborn(t) == Node \ Born(t)
IsDir(t, n) == t.kind[n] = "dir"
Empty(t, d) == \A k \in Name : t.child[d][k] = NoNode

\* The parents of n lead nowhere, or in a circle, without passing top.
Avoids(t, n, top) ==
    \E S \in SUBSET (Born(t) \ {top}) :
        n \in S /\ \A m \in S : t.parent[m] \in S \cup {NoNode}

\* is_detached
Detached(t, n) == Avoids(t, n, Root)
Below(t, n, top) == ~ Avoids(t, n, top)
Attached(t) == {n \in Born(t) : ~ Detached(t, n)}

-----------------------------------------------------------------------------
(* Paths.                                                                   *)

\* The names that lead to each node; the parents must not go in a circle.
Trail(t) ==
    LET trail[n \in Born(t)] ==
            IF n = Root \/ t.parent[n] = NoNode THEN <<>>
            ELSE Append(trail[t.parent[n]], t.name[n])
    IN  trail

\* Mutant: a path that was worked out once is never looked at again.
PathOfMutant(t) ==
    LET path[n \in Born(t)] ==
            LET under == IF Detached(t, n) THEN t.last[n] ELSE path[t.parent[n]]
            IN  IF n = Root THEN <<>>
                ELSE IF t.cache[n].path # NoPath THEN t.cache[n].path
                ELSE IF under = NoPath THEN NoPath
                ELSE Append(under, t.name[n])
    IN  path

\* What the property path returns; NoPath stands for a ReferenceError.
PathOf(t) ==
    LET path[n \in Born(t)] ==
            LET under == IF Detached(t, n) THEN t.last[n] ELSE path[t.parent[n]]
            IN  IF n = Root THEN <<>>
                ELSE IF under # NoPath /\ t.cache[n].under = under THEN t.cache[n].path
                ELSE IF under = NoPath THEN NoPath
                ELSE Append(under, t.name[n])
    IN  path

\* parent_dir_path
Under(t, n) == IF Detached(t, n) THEN t.last[n] ELSE PathOf(t)[t.parent[n]]

\* Reading the path of n caches it, and those of the parents it asked for.
ReadPath(t, n) ==
    LET asked == {m \in Born(t) \ {Root} :
                     m = n \/ (m \in Attached(t) /\ n \in Attached(t) /\ Below(t, n, m))}
    IN  [t EXCEPT !.cache = [m \in Node |->
            IF m \in asked /\ PathOf(t)[m] # NoPath
            THEN [under |-> Under(t, m), path |-> PathOf(t)[m]]
            ELSE t.cache[m]]]

-----------------------------------------------------------------------------
(* parent_dir.setter, _add_child and name.setter.                           *)

\* del old_parent_children[self.name]: whatever has the name there.
Unlist(t, n) == [t EXCEPT !.child[t.parent[n]][t.name[n]] = NoNode]

DetachForgets(t, n) == [Unlist(t, n) EXCEPT !.parent[n] = NoNode, !.cache[n] = NoCache]

\* self.parent_dir = None, for a node that is attached.
Detach(t, n) ==
    LET seen == ReadPath(Unlist(t, n), t.parent[n])
    IN  [seen EXCEPT !.parent[n] = NoNode,
                     !.last[n] = PathOf(t)[t.parent[n]],
                     !.cache[n] = NoCache]

\* unlink(recursive=True); the root never comes here.
Unlinked(t, n) == IF Detached(t, n) THEN t ELSE Detach(t, n)

\* Mutant: what had the name is forgotten, but not unlinked.
AttachMutant(t, n, d) ==
    [t EXCEPT !.parent[n] = d, !.last[n] = NoPath,
              !.child[d][t.name[n]] = n, !.cache[n] = NoCache]

\* The new parent lists n under its name, in place of what had the name.
Attach(t, n, d) ==
    LET conflict == t.child[d][t.name[n]]
        moved == [t EXCEPT !.parent[n] = d, !.last[n] = NoPath]
        freed == IF conflict = NoNode THEN moved ELSE Unlinked(moved, conflict)
    IN  [freed EXCEPT !.child[d][t.name[n]] = n, !.cache[n] = NoCache]

SetParent(t, n, d) == Attach(IF Detached(t, n) THEN t ELSE Unlist(t, n), n, d)

\* A rename is a removal followed by an insertion, so that the parent notices.
Rename(t, n, k) ==
    IF k = t.name[n] THEN t
    ELSE IF Detached(t, n) THEN [t EXCEPT !.name[n] = k]
    ELSE Attach([Detach(t, n) EXCEPT !.name[n] = k], n, t.parent[n])

\* The constructors: the node sets its parent before it is complete.
Fresh(t) == CHOOSE n \in Unborn(t) : TRUE
Create(t, d, k, kind) ==
    LET n == Fresh(t)
    IN  Attach([t EXCEPT !.kind[n] = kind, !.name[n] = k], n, d)

\* prune_if_empty_dir: n goes if it is an empty directory, then its parent.
Pruned(t, n) ==
    LET prune[i \in 0..Cardinality(Node)] ==
            IF i = 0 THEN <<t, n>>
            ELSE LET at == prune[i - 1][2]
                     before == prune[i - 1][1]
                 IN  IF at = Root \/ ~ Empty(before, at) THEN prune[i - 1]
                     ELSE <<Detach(before, at), before.parent[at]>>
    IN  prune[Cardinality(Node)][1]

\* del d[k]
WithoutItem(t, d, k) == [t EXCEPT !.child[d][k] = NoNode]

-----------------------------------------------------------------------------
(* What is in the package: found by name from the root, as lookups and the  *)
(* walks that make the list of members of data.tar do.                      *)

PathNames == BoundedSeq(Name, Cardinality(Node) - 1)

At(t) ==
    LET at[p \in PathNames] ==
            IF p = <<>> THEN Root
            ELSE LET d == at[Front(p)]
                 IN  IF d = NoNode THEN NoNode ELSE t.child[d][Last(p)]
    IN  at

Contents(t) ==
    LET at == At(t)
    IN  [p \in {q \in PathNames : at[q] # NoNode} |-> t.kind[at[p]]]

-----------------------------------------------------------------------------
(* When a tree is in order.  Half way through an operation this holds of    *)
(* more nodes X than those attached, such as the one that is on its way.    *)

\* Every set of nodes has one whose parent is not in it.
Acyclic(t) == \A S \in SUBSET Born(t) : S # {} => \E m \in S : t.parent[m] \notin S

\* The parents of nodes are nodes, and lead to where there are none.
Rooted(t) ==
    /\ t \in Trees
    /\ Acyclic(t)
    /\ Root \in Born(t) /\ t.parent[Root] = NoNode
    /\ \A m \in Born(t) : t.parent[m] \in Born(t) \cup {NoNode}

CacheFits(t, m) ==
    t.cache[m].under # NoPath => t.cache[m].path = Append(t.cache[m].under, t.name[m])

\* What lists of children and caches say of the nodes X is right.
Sound(t, X) ==
    /\ Rooted(t)
    /\ Root \in X /\ X \subseteq Born(t) /\ IsDir(t, Root)
    /\ \A m \in Unborn(t) : t.parent[m] = NoNode /\ Empty(t, m) /\ t.cache[m] = NoCache
    /\ \A m \in Born(t) \ X : t.parent[m] \notin X
    /\ \A d \in X, k \in Name : t.child[d][k] # NoNode =>
           /\ t.child[d][k] \in X
           /\ t.parent[t.child[d][k]] = d /\ t.name[t.child[d][k]] = k
    /\ \A m \in X : t.parent[m] # NoNode => IsDir(t, t.parent[m])
    /\ \A m \in X : CacheFits(t, m)

\* The nodes X are listed by their parents.
Complete(t, X) ==
    \A m \in X : t.parent[m] # NoNode => t.child[t.parent[m]][t.name[m]] = m

TreeInv(t) == Sound(t, Attached(t)) /\ Complete(t, Attached(t))
=============================================================================
