------------------------------ MODULE MCInstall ------------------------------
(***************************************************************************)
(* InstallRules on debian/tmp/usr/{a, lib/{b, c}} with one search          *)
(* directory: every manifest of up to three rules that keep the paths.     *)
(***************************************************************************)
EXTENDS InstallRules

Tmp == <<"debian", "tmp">>
Usr == Tmp \o <<"usr">>
Lib == Usr \o <<"lib">>
A == Usr \o <<"a">>
B == Lib \o <<"b">>
C == Lib \o <<"c">>

MCDirs == {<<>>, <<"debian">>, Tmp, Usr, Lib}
MCFsPath == MCDirs \cup {A, B, C}
MCKindOf == [p \in MCFsPath |-> IF p \in MCDirs THEN "dir" ELSE "file"]

MCPackage == {"p", "q"}
OneSearchDir == <<[root |-> Tmp, appliesTo |-> MCPackage]>>
NoStaging == [pkg \in {} |-> <<>>]
MCCheckDirs == {Tmp}

\* A plugin discards usr/lib/c (think of a .la file).
PluginDiscardsC == {<<Tmp, C>>}
NoAutoDiscard == {}

Pattern_(type, p) ==
    [type |-> type, at |-> Relative(Tmp, p), names |-> {}, dirOnly |-> FALSE, filesOnly |-> FALSE]
ExactPat(p) == Pattern_("exact", p)
ChildrenPat(p) == Pattern_("children", p)

MCPatterns == {ExactPat(p) : p \in {Usr, Lib, B, C}}
              \cup {ChildrenPat(p) : p \in {Usr, Lib}} \cup {Anything}

MCRules ==
    {InstallKeep(<<pat>>, into, TRUE) : pat \in MCPatterns, into \in {{"p"}, {"p", "q"}}}
    \cup {DiscardPaths(<<pat>>, <<>>, TRUE) : pat \in MCPatterns}

\* The rules of the disagreements between MANIFEST-FORMAT.md and the code.
StaleDiscardRules ==
    {InstallKeep(<<ExactPat(B)>>, {"p"}, TRUE), DiscardPaths(<<ExactPat(Usr)>>, <<>>, TRUE)}
SingleRules == {InstallAs(ChildrenPat(Lib), <<"x">>, {"p"}, TRUE)}
EmptyDiscardRules == {DiscardPaths(<<ExactPat(Usr \o <<"nope">>)>>, <<>>, TRUE)}
LimitedDiscardRules == {DiscardPaths(<<ExactPat(A)>>, <<Tmp>>, TRUE)}
=============================================================================
