---------------------------- MODULE MCPathLookup -----------------------------
(* Small packages with up to two symlinks.                                  *)
EXTENDS PathResolution

CONSTANTS n1, n2, n3

Put(t, n, k, d, kind) ==
    [t EXCEPT !.kind[n] = kind, !.name[n] = k, !.parent[n] = d, !.child[d][k] = n]

Free(t) == {<<d, k>> \in Attached(t) \X Name : IsDir(t, d) /\ t.child[d][k] = NoNode}
Added(S, n, kinds) ==
    UNION {{Put(t, n, e[2], e[1], kind) : e \in Free(t), kind \in kinds} : t \in S}

Packages ==
    Added(Added(Added({EmptyTree}, n1, {"dir"}), n2, {"symlink"}), n3, {"file", "symlink"})

NoTarget == [absolute |-> FALSE, dir |-> FALSE, parts |-> <<>>]
Targets ==
    {[absolute |-> a, dir |-> FALSE, parts |-> ps] :
        a \in BOOLEAN, ps \in {<<"a">>, <<"b">>, <<"a", "b">>, <<"..", "a">>}}
    \cup {[absolute |-> FALSE, dir |-> TRUE, parts |-> ps] :
              ps \in {<<"b">>, <<"b", "..", "a">>}}
Targeted(t) ==
    {[n \in Node |-> IF n = n2 THEN x ELSE IF n = n3 THEN y ELSE NoTarget] :
        x \in Targets, y \in IF t.kind[n3] = "symlink" THEN Targets ELSE {NoTarget}}

SmallFileSystems ==
    UNION {{[tree |-> t, link_target |-> g] : g \in Targeted(t)} : t \in Packages}

SmallRequests ==
    {[from |-> f, op |-> o, path |-> [absolute |-> FALSE, dir |-> o = "mkdirs" \/ s, parts |-> ps]] :
        f \in {Root, n1}, o \in {"lookup", "mkdirs"} , s \in BOOLEAN,
        ps \in {<<"a">>, <<"a", "b">>, <<"b", "a">>, <<"a", "a">>, <<"a", "b", "a">>,
                <<"b", "..", "a">>}}
    \cup {[from |-> n1, op |-> o, path |-> [absolute |-> TRUE, dir |-> TRUE, parts |-> <<"b", "a">>]] :
        o \in {"lookup", "mkdirs"}}

\* b is a symlink to "a/", which is not there; mkdirs("b/a") is called.
DanglingLink ==
    {[tree |-> Put(EmptyTree, n2, "b", Root, "symlink"),
      link_target |-> [n \in Node |->
                    IF n = n2 THEN [absolute |-> FALSE, dir |-> TRUE, parts |-> <<"a">>]
                    ELSE NoTarget]]}
BelowTheLink ==
    {[from |-> Root, op |-> "mkdirs",
      path |-> [absolute |-> FALSE, dir |-> TRUE, parts |-> <<"b", "a">>]]}
=============================================================================
