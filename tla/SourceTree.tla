----------------------------- MODULE SourceTree -----------------------------
(***************************************************************************)
(* The directory tree the build system left behind (debian/tmp, the source *)
(* root, debian/<package>) and the match rules that pick paths out of it.   *)
(*                                                                         *)
(* debputy reads the tree through one FSROOverlay root per search           *)
(* directory.  The same file can be reached through two roots (the source   *)
(* root "." also contains debian/tmp); the two objects share their fs_path  *)
(* and differ in where their parent chain stops.  A path is therefore a     *)
(* sequence of names from the source root, its identity everywhere in the   *)
(* install code (fs_path), and a "view" is the root it was reached through. *)
(***************************************************************************)
EXTENDS Naturals, Sequences, FiniteSets, SequencesExt

CONSTANTS
    FsPath,     \* the paths that exist, the source root <<>> included
    KindOf      \* what each of them is: KindOf[p] \in Kinds

Kinds == {"dir", "file", "symlink", "special"}

Parent(p) == Front(p)

\* Everything strictly below directory d.
Beneath(d) == {p \in FsPath : IsStrictPrefix(d, p)}

\* The tree is finite and closed under parents, and only directories have
\* anything below them.
ASSUME TreeAssumption ==
    /\ IsFiniteSet(FsPath)
    /\ FsPath \subseteq Seq(STRING)
    /\ <<>> \in FsPath
    /\ KindOf \in [FsPath -> Kinds]
    /\ \A p \in FsPath \ {<<>>} : Parent(p) \in FsPath /\ KindOf[Parent(p)] = "dir"

IsDir(p) == KindOf[p] = "dir"

\* iterdir: empty for anything that is not a directory.
Children(d) == {p \in FsPath \ {<<>>} : Parent(p) = d}

\* The path of p relative to the view's root.
Relative(root, p) == SubSeq(p, Len(root) + 1, Len(p))

\* p and its parents, up to and including the root of the view.
Chain(root, p) == {q \in FsPath : IsPrefix(root, q) /\ IsPrefix(q, p)}

\* The one of them the walk from p towards the root meets first.
IsLongest(q, S) == q \in S /\ \A o \in S : Len(o) <= Len(q)

-----------------------------------------------------------------------------
(***************************************************************************)
(* A pattern is a record                                                   *)
(*   type      "exact"     ExactFileSystemPath                             *)
(*             "children"  DirectoryBasedMatch, direct children: dir/\*     *)
(*             "basename"  BasenameGlobMatch in one directory: dir/<glob>   *)
(*             "anywhere"  BasenameGlobMatch, recursive: **/<glob>          *)
(*             "anything"  MATCH_ANYTHING: \* or **/\*                       *)
(*   at        the path (exact) or directory the pattern names, relative    *)
(*   names     the basenames a glob accepts                                 *)
(*   dirOnly   the pattern was written with a trailing slash                *)
(*   filesOnly the rule filters what is not a file (install-man)            *)
(***************************************************************************)

Patterns ==
    [type : {"exact", "children", "basename", "anywhere", "anything"},
     at : Seq(STRING), names : SUBSET STRING, dirOnly : BOOLEAN, filesOnly : BOOLEAN]

\* A symlink on the way is never resolved by the overlay's lookup: the path
\* then does not exist in the tree.
Lookup(root, at) == {p \in FsPath : p = root \o at}

\* The root of a view is called "." (and a glob such as .* accepts that).
NameIn(root, p) == IF p = root THEN "." ELSE Last(p)

Unfiltered(pat, root) ==
    CASE pat.type = "exact"    -> Lookup(root, pat.at)
      [] pat.type = "children" -> Children(root \o pat.at)
      [] pat.type = "basename" -> {p \in Children(root \o pat.at) : Last(p) \in pat.names}
      [] pat.type = "anywhere" -> {p \in Lookup(root, <<>>) \cup Beneath(root) :
                                      NameIn(root, p) \in pat.names}
      [] pat.type = "anything" -> Lookup(root, <<>>) \cup Beneath(root)

\* finditer.  MATCH_ANYTHING yields the filtered paths and then all of them
\* again, unfiltered; a repeated yield is only ever counted and skipped, so
\* what matters of it is that the filter does not restrict anything.
Finditer(pat, root) ==
    IF pat.filesOnly /\ pat.type # "anything"
    THEN {p \in Unfiltered(pat, root) : KindOf[p] = "file"}
    ELSE Unfiltered(pat, root)

\* What _resolve_path gets to see of a search directory: a trailing slash
\* keeps directories, MATCH_ANYTHING silently leaves out the root.  A root that
\* does not exist yields nothing here (the code's yields itself to a recursive
\* glob that accepts ".", and so ends in the same error as a root that exists).
Yields(pat, root) ==
    {p \in Finditer(pat, root) :
        /\ pat.dirOnly => IsDir(p)
        /\ ~ (pat.type = "anything" /\ p = root)}

=============================================================================
