--------------------------- MODULE PathResolution ----------------------------
(***************************************************************************)
(* What a path means, link by link: the target of a symlink is resolved     *)
(* before anything that follows it in the path is looked at.  PathLookup,    *)
(* which has one list of parts for all links, has to find the same.         *)
(***************************************************************************)
EXTENDS PathLookup

PathParts == Seq(Name \cup Dots)

\* Where the part k leads to from d, if a link leads where leads says; the last
\* part of a path may be a link itself.
Toward(t, leads, d, k, isLast) ==
    CASE k = "." -> d
      [] k = ".." -> IF d = Root THEN NoNode ELSE t.parent[d]
      [] OTHER -> LET n == IF IsDir(t, d) THEN t.child[d][k] ELSE NoNode
                  IN  IF n # NoNode /\ t.kind[n] = "symlink" /\ ~ isLast
                      THEN leads[n] ELSE n

\* Where parts lead to from a node.
Reach(t, leads) ==
    LET reach[x \in Node \X PathParts] ==
            LET next == Toward(t, leads, x[1], Head(x[2]), Len(x[2]) = 1)
            IN  IF x[2] = <<>> THEN x[1]
                ELSE IF next = NoNode THEN NoNode
                ELSE reach[<<next, Tail(x[2])>>]
    IN  reach

Links(t) == {n \in Born(t) : t.kind[n] = "symlink" /\ t.parent[n] # NoNode}

\* Where links lead to, if the targets of links lead where leads says.
Followed(t, to, leads) ==
    [n \in Node |->
        IF n \in Links(t)
        THEN Reach(t, leads)[<<Start(t.parent[n], to[n]), Append(SplitPath(to[n]), ".")>>]
        ELSE NoNode]

\* Where they lead to through less than depth others.
Leads(t, to) ==
    LET leads[depth \in Nat] ==
            IF depth = 0 THEN [n \in Node |-> NoNode] ELSE Followed(t, to, leads[depth - 1])
    IN  leads

\* A chain of links that runs in no circle has each of them once at most.
Meaning(ps) ==
    Reach(tree, Leads(tree, link_target)[Cardinality(Links(tree))])
        [<<Start(request.from, request.path), ps>>]

\* A lookup returns what the path means, and nothing for a path that means
\* nothing, that runs in circles, or that leaves the package.
LookupIsRight ==
    /\ phase = "found" => current = Meaning(SplitPath(request.path))
    /\ phase \in {"missing", "escapes"} => Meaning(SplitPath(request.path)) = NoNode

\* mkdirs returns the directory that the path means from now on.
MkdirsIsRight ==
    phase = "made" =>
        /\ IsDir(tree, current)
        /\ current = Meaning(SplitPath(request.path))
=============================================================================
