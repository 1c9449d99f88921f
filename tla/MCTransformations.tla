-------------------------- MODULE MCTransformations --------------------------
(* Instances of Transformations: packages with files and directories of the  *)
(* same name on several levels, and the rules that can get in their way.     *)
EXTENDS Transformations

\* The package that has the paths, with those above them listed first.
Made(paths) ==
    FoldLeft(LAMBDA t, new : Create(t, At(t)[Front(new.path)], Last(new.path), new.kind),
             EmptyTree, paths)
D(path) == [path |-> path, kind |-> "dir"]
F(path) == [path |-> path, kind |-> "file"]

A == <<"a">>
B == <<"b">>
AA == <<"a", "a">>
AB == <<"a", "b">>
BA == <<"b", "a">>
BB == <<"b", "b">>
AAA == <<"a", "a", "a">>
AAB == <<"a", "a", "b">>
BAB == <<"b", "a", "b">>

Packages ==
    {Made(<<D(A), F(AB)>>),
     Made(<<D(A), D(AA), F(AAB)>>),
     Made(<<D(A), D(AA), F(AAA), F(AAB)>>),
     Made(<<D(A), F(AA), D(B), F(BA)>>),
     Made(<<D(A), F(AB), D(B), D(BA), F(BAB)>>),
     Made(<<D(A), D(AA), F(AAB), D(B), F(BB)>>),
     Made(<<F(A), D(B), D(BA), F(BAB)>>)}

Exact(p) == [kind |-> "exact", path |-> p]
In(p, names_) == [kind |-> "in", path |-> p, names |-> names_]
Anywhere(names_) == [kind |-> "anywhere", names |-> names_]
Everything == [kind |-> "everything"]
Both == {"a", "b"}

Matches == {Exact(A), Exact(AB), Exact(BA), In(A, Both), In(AA, Both), In(B, {"b"}), Anywhere({"a"}),
            Anywhere({"b"}), Anywhere(Both), Everything}
Removes ==
    {[kind |-> "remove", applies |-> TRUE, keep |-> k, matches |-> m] :
        k \in BOOLEAN,
        m \in {<<x>> : x \in Matches} \cup {<<Exact(AB), Anywhere({"a"})>>, <<In(B, {"a"}), Exact(B)>>}}
Moves ==
    {[kind |-> "move", applies |-> TRUE, match |-> m, target |-> t, slash |-> s] :
        m \in Matches, t \in {A, B, AB, BB, BAB}, s \in {"none", "substituted"}}
Symlinks ==
    {[kind |-> "symlink", applies |-> TRUE, path |-> p, replace |-> r] :
        p \in {A, AB, BA, BAB}, r \in ReplacementRules}
MkDirs ==
    {[kind |-> "mkdirs", applies |-> TRUE, paths |-> p] : p \in {<<BA>>, <<AA, AB>>}}
Skipped == {[kind |-> "move", applies |-> FALSE, match |-> Exact(A), target |-> B, slash |-> "none"]}
AllRules == Removes \cup Moves \cup Symlinks \cup MkDirs \cup Skipped

WrittenTargets ==
    {[kind |-> "move", applies |-> TRUE, match |-> m, target |-> B, slash |-> "literal"] :
        m \in {Exact(A), In(A, Both)}}
=============================================================================
