------------------------------ MODULE TreeWalk -------------------------------
(***************************************************************************)
(* A loop over all_paths() or walk() of the root of a package's file        *)
(* system, whose body changes the tree before it asks for the next path     *)
(* (apply_compression, transformations, plugins).  The walks are lazy: a    *)
(* directory is opened when the loop asks for what comes after it.          *)
(***************************************************************************)
EXTENDS VirtualFS

CONSTANTS
    Walkers,        \* which of "all_paths" and "walk"
    NameOrder,      \* the place of each name in their order
    MaxChanges      \* bound: changes the body of the loop makes

ASSUME WalkAssumption ==
    /\ NameOrder \in [Name -> Nat]
    /\ \A k, l \in Name : NameOrder[k] = NameOrder[l] => k = l
    /\ Walkers \subseteq {"all_paths", "walk"}
    /\ MaxChanges \in Nat

VARIABLES
    walker,     \* the iterator in use
    yielded,    \* the path the body of the loop has, which is the current one
    children,   \* the list walk() computed for it, and the body may clear
    stack,      \* what comes next; the top is its head
    changes,    \* counts up to MaxChanges
    \* History.
    seen,       \* how often each node was yielded
    stayed,     \* nodes there from the start that nobody took off their parent
    lost,       \* removed with the current path, or not wanted below it, and not
                \* put elsewhere since
    local       \* the body only took off what is at or below the current path,
                \* and no directory by its name

loop == <<walker, yielded, children, stack>>
allVars == <<vars, loop, changes, seen, stayed, lost, local>>

Walking == yielded # NoNode
WalkOver == ~ Walking /\ seen[Root] > 0
\* Those of nodes whose parents lead to the root among nodes.
Connected(t, nodes) ==
    UNION {S \in SUBSET nodes : \A n \in S : n = Root \/ t.parent[n] \in S}
\* The nodes that the lists of children lead to: not what was taken off by name.
Present(t) ==
    Connected(t, {n \in Attached(t) : n = Root \/ t.child[t.parent[n]][t.name[n]] = n})
Beneath(t, nodes, n) == {m \in nodes : Below(t, m, n)}
\* Where everything above stayed, too.
InPlace == Connected(tree, stayed)

InitWalk ==
    /\ Init
    /\ walker \in Walkers
    /\ yielded = NoNode
    /\ children = <<>>
    /\ stack = <<>>
    /\ changes = 0
    /\ seen = [n \in Node |-> 0]
    /\ stayed = {}
    /\ lost = {}
    /\ local = TRUE

\* sorted(iterdir, key=by_basename)
SortedChildren(t, d) ==
    LET listed == {k \in Name : t.child[d][k] # NoNode}
        place(k) == Cardinality({l \in listed : NameOrder[l] <= NameOrder[k]})
    IN  [i \in 1..Cardinality(listed) |-> t.child[d][CHOOSE k \in listed : place(k) = i]]

\* The next value of the iterator, with what it has left.
Yield(n, left) ==
    /\ yielded' = n
    /\ children' = IF walker = "walk" THEN SortedChildren(tree, n) ELSE <<>>
    /\ stack' = left
    /\ seen' = [seen EXCEPT ![n] = @ + 1]

\* The tree is made before the walk.
Build ==
    /\ seen[Root] = 0
    /\ \E d \in Node, k \in Name : MkDir(d, k) \/ AddFile(d, k)
    /\ UNCHANGED <<loop, changes, seen, stayed, lost, local>>

StartWalk ==
    /\ seen[Root] = 0
    /\ Yield(Root, <<>>)
    /\ stayed' = Present(tree)
    /\ UNCHANGED <<vars, walker, changes, lost, local>>

\* Mutant: a removed directory is opened, too.
OpenedMutant == IF walker = "walk" THEN children ELSE SortedChildren(tree, yielded)

\* What is below the current path; walk() takes the list it has computed.
Opened ==
    IF Detached(tree, yielded) THEN <<>>
    ELSE IF walker = "walk" THEN children
    ELSE SortedChildren(tree, yielded)

\* Mutants: the stack is looked at, but not popped; the loop has no condition.
NextPathPeeks ==
    /\ Walking
    /\ LET rest == Opened \o stack
       IN  IF rest # <<>>
           THEN Yield(Head(rest), rest)
           ELSE yielded' = NoNode /\ children' = <<>> /\ UNCHANGED <<stack, seen>>
    /\ UNCHANGED <<vars, walker, changes, stayed, lost, local>>
NextPathForever ==
    /\ Walking
    /\ LET rest == Opened \o stack
       IN  rest # <<>> /\ Yield(Head(rest), Tail(rest))
    /\ UNCHANGED <<vars, walker, changes, stayed, lost, local>>

NextPath ==
    /\ Walking
    /\ LET rest == Opened \o stack
       IN  IF rest # <<>>
           THEN Yield(Head(rest), Tail(rest))
           ELSE yielded' = NoNode /\ children' = <<>> /\ UNCHANGED <<stack, seen>>
    /\ UNCHANGED <<vars, walker, changes, stayed, lost, local>>

\* children.clear(): the loop does not want what is below the current path.
ClearChildren ==
    /\ Uses("clear")
    /\ Walking /\ children # <<>>
    /\ children' = <<>>
    /\ lost' = lost \cup (Beneath(tree, InPlace \cap Present(tree), yielded) \ {yielded})
    /\ UNCHANGED <<vars, walker, yielded, stack, changes, seen, stayed, local>>

Change ==
    /\ Walking
    /\ changes < MaxChanges
    /\ \/ Next
       \/ \E d \in Node, k \in Name : DelItem(d, k)
       \/ \E n \in Node : AskPath(n)
    /\ changes' = changes + 1
    /\ LET before == Present(tree)
           after == Present(tree')
           off == {n \in before : n \notin after \/ tree'.parent[n] # tree.parent[n]}
           put == {n \in Born(tree) : tree'.parent[n] \notin {tree.parent[n], NoNode}}
           moved == UNION {Beneath(tree, Born(tree), n) : n \in put}
           byName == {n \in off \ after : ~ Detached(tree', n)}
           gone == IF Detached(tree', yielded) /\ ~ Detached(tree, yielded)
                   THEN Beneath(tree, InPlace, yielded) ELSE {}
       IN  /\ stayed' = stayed \ off
           /\ lost' = (lost \cup gone) \ moved
           /\ local' = (/\ local
                         /\ off \subseteq Beneath(tree, before, yielded)
                         /\ \A n \in byName : ~ IsDir(tree, n))
    /\ UNCHANGED <<loop, seen>>

NextWalk == Build \/ StartWalk \/ NextPath \/ ClearChildren \/ Change

\* The loop asks for the next path when its body is done.
WalkSpec == InitWalk /\ [][NextWalk]_allVars /\ WF_allVars(NextPath)

-----------------------------------------------------------------------------
(* Properties.                                                              *)

WalkTypeOK ==
    /\ walker \in {"all_paths", "walk"}
    /\ yielded \in Born(tree) \cup {NoNode}
    /\ \A s \in {children, stack} : \A i \in 1..Len(s) : s[i] \in Born(tree) \ {Root}
    /\ changes \in 0..MaxChanges
    /\ seen \in [Node -> Nat]
    /\ stayed \cup lost \subseteq Born(tree)
    /\ local \in BOOLEAN

\* A path that was there when the loop began, and that stays where it is, is
\* yielded once and only once, whatever the loop does to others; it may be
\* renamed, and what is next to it may be replaced.
StayersSeenOnce ==
    \A n \in InPlace : seen[n] <= 1 /\ (WalkOver => seen[n] = 1 \/ n \in lost)

\* "if the current path is removed, then none of its children will be returned"
\* (all_paths, plugin/api/spec.py), nor what is below them, nor what is below a
\* path whose children the loop over walk() cleared.
LostIsNotYielded ==
    [][\A n \in lost : seen'[n] = seen[n]]_allVars

\* A loop over all_paths() that leaves alone what is not at or below its
\* current path is only given paths that are in the package: its body may ask
\* each of them for the parent, as apply_compression does.
YieldedIsAttached ==
    [][local /\ walker = "all_paths" /\ seen' # seen => ~ Detached(tree, yielded')]_allVars

\* A loop that stops changing the tree comes to its end, even if it moved paths
\* it had been given ahead of itself.
WalkEnds == Walking ~> WalkOver
=============================================================================
