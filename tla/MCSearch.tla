------------------------------ MODULE MCSearch ------------------------------
(***************************************************************************)
(* InstallRules with several search directories: the package p asked for   *)
(* debian/one, the others use debian/tmp, and the source root comes last    *)
(* for all of them, so debian/one and debian/tmp can also be reached        *)
(* through it.  r has a staging directory and s is not built.               *)
(***************************************************************************)
EXTENDS InstallRules

One == <<"debian", "one">>
Tmp == <<"debian", "tmp">>
Staging == <<"debian", "r">>

MCDirs == {<<>>, <<"debian">>, One, Tmp, Staging,
           One \o <<"d">>, Tmp \o <<"d">>, Tmp \o <<"d", "e">>}
MCFiles == {One \o <<"d", "x">>, Tmp \o <<"d", "e", "y">>, Staging \o <<"x">>}
MCLinks == {Tmp \o <<"d", "x">>}
MCSpecials == {Tmp \o <<"d", "e", "z">>}
MCFsPath == MCDirs \cup MCFiles \cup MCLinks \cup MCSpecials
MCKindOf ==
    [p \in MCFsPath |->
        CASE p \in MCDirs     -> "dir"
          [] p \in MCFiles    -> "file"
          [] p \in MCLinks    -> "symlink"
          [] p \in MCSpecials -> "special"]

MCPackage == {"p", "q", "r", "s"}
MCActed == {"p", "q", "r"}
MCSearchDirs ==
    <<[root |-> One,  appliesTo |-> {"p"}],
      [root |-> Tmp,  appliesTo |-> {"q", "r", "s"}],
      [root |-> <<>>, appliesTo |-> MCPackage]>>
MCStagingRoot == [pkg \in {"r"} |-> Staging]
MCCheckDirs == {One, Tmp}

\* A rule that looks at the path from its root sees d/x in a search directory
\* and debian/one/d/x from the source root.
MCAutoDiscard == {<<One, One \o <<"d", "x">>>>}

Pat(type, at, names) ==
    [type |-> type, at |-> at, names |-> names, dirOnly |-> FALSE, filesOnly |-> FALSE]
D == Pat("exact", <<"d">>, {})
DX == Pat("exact", <<"d", "x">>, {})
TmpDX == Pat("exact", <<"debian", "tmp", "d", "x">>, {})
X == Pat("anywhere", <<>>, {"x"})
Hidden == Pat("anywhere", <<>>, {".", "z"})
DGlob == Pat("basename", <<"d">>, {"x", "e"})
DirsOnly == [Anything EXCEPT !.dirOnly = TRUE]
FilesOnly == [Pat("anywhere", <<>>, {"x", "d"}) EXCEPT !.filesOnly = TRUE]

MCPatterns == {D, DX, TmpDX, X, DGlob, DirsOnly, FilesOnly}
MCInto == {{"p"}, {"p", "q"}, {"s"}}
MCRules ==
    {InstallKeep(<<pat>>, into, TRUE) : pat \in MCPatterns, into \in MCInto}
    \cup {InstallKeep(<<DX, D>>, {"p", "q"}, FALSE),
          InstallKeep(<<Hidden>>, {"q"}, TRUE),
          InstallDest(<<Pat("exact", <<"d", "e">>, {})>>, <<"d", "x">>, {"q"}, TRUE),
          InstallMultiDest(<<DX>>, <<<<"o">>, <<"d", "x">>>>, {"p", "q"}, TRUE),
          InstallAs(X, <<"d">>, {"p", "q"}, TRUE),
          InstallMultiAs(DX, <<<<"o">>, <<"d", "x">>>>, {"q"}, TRUE),
          InstallDoc(<<D>>, <<"d", "x", "y">>, {"p"}, TRUE),
          InstallDocDest(<<DX, D>>, <<"d">>, {"q"}, TRUE)}
    \cup {DiscardPaths(<<pat>>, <<>>, TRUE) : pat \in {D, DX, Anything}}
    \cup {DiscardPaths(<<DGlob>>, <<Tmp>>, FALSE), DiscardPaths(<<X>>, <<<<"gone">>>>, TRUE),
          DiscardPaths(<<TmpDX>>, <<<<>>>>, TRUE)}
=============================================================================
