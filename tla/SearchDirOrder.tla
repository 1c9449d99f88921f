--------------------------- MODULE SearchDirOrder ---------------------------
(***************************************************************************)
(* _determine_search_dir_order: the search directories each package asked   *)
(* for (or the default ones) are merged into a single order for all of the  *)
(* packages.  A table records for each directory who uses it and what has   *)
(* to come before it; then directories are released, first in the order of  *)
(* the table and then in passes over the remaining ones, until a pass       *)
(* releases nothing.                                                        *)
(*                                                                         *)
(* The packages and the remaining directories are Python sets: the order in *)
(* which they are visited is arbitrary.  A directory is its fs_path.         *)
(***************************************************************************)
EXTENDS Naturals, Sequences, FiniteSets, SequencesExt

CONSTANTS
    Package,        \* all_pkgs
    Dir,            \* the directories that may be asked for
    DefaultDirs,    \* default_search_dirs
    SourceRoot,     \* source_root
    RequestSpace    \* the values of "requested": [some packages -> lists]

NoPackage == "-"

ASSUME DirAssumption ==
    /\ NoPackage \notin Package
    /\ IsFiniteSet(Dir)
    /\ SourceRoot \in Dir
    /\ DefaultDirs \in Seq(Dir)
    /\ \A r \in RequestSpace : DOMAIN r \subseteq Package /\ r \in [DOMAIN r -> Seq(Dir)]

VARIABLES
    requested,      \* the packages with installation-search-dirs, and those
    pc,
    toList,         \* packages not yet entered into the table
    pkg, idx,       \* the package being entered, the position in its list
    table,          \* search_dir_table: its keys, in order of insertion
    appliesTo,      \* [key -> applies_to]
    after,          \* [key -> after]
    scan,           \* the position in the table during the first pass
    order,          \* search_dirs_in_order
    released, remaining,
    pass,           \* what the current pass has not visited
    mark            \* current_released

tableVars == <<toList, pkg, idx, table, appliesTo, after>>
passVars == <<scan, order, released, remaining, pass, mark>>
vars == <<requested, pc, tableVars, passVars>>

Phases == {"packages", "list", "first", "next", "pass", "done", "circular"}

\* requested.get(pkg, default_search_dirs)
Paths(p) == IF p \in DOMAIN requested THEN requested[p] ELSE DefaultDirs

Init ==
    /\ requested \in RequestSpace
    /\ pc = "packages"
    /\ toList = Package /\ pkg = NoPackage /\ idx = 1
    /\ table = <<>>
    /\ appliesTo = [d \in {} |-> {}] /\ after = [d \in {} |-> {}]
    /\ scan = 1 /\ order = <<>>
    /\ released = {} /\ remaining = {} /\ pass = {} /\ mark = 0

-----------------------------------------------------------------------------
(* The table.                                                               *)

NextPackage(p) ==
    /\ pc = "packages"
    /\ p \in toList
    /\ toList' = toList \ {p}
    /\ pkg' = p /\ idx' = 1
    /\ pc' = "list"
    /\ UNCHANGED <<requested, table, appliesTo, after, passVars>>

\* f[d] or, for a key the table does not have yet, the empty set.
Entry(f, d) == IF d \in DOMAIN f THEN f[d] ELSE {}
WithEntry(f, d, S) == [x \in DOMAIN f \cup {d} |-> IF x = d THEN S ELSE f[x]]

\* What a directory of the list has to come after: the one before it.
Previous(p, i) == IF i = 1 THEN {} ELSE {Paths(p)[i - 1]}

ListPathUnordered ==
    /\ pc = "list"
    /\ idx <= Len(Paths(pkg))
    /\ LET d == Paths(pkg)[idx]
       IN  /\ table' = IF d \in DOMAIN appliesTo THEN table ELSE Append(table, d)
           /\ appliesTo' = WithEntry(appliesTo, d, Entry(appliesTo, d) \cup {pkg})
           /\ after' = WithEntry(after, d, Entry(after, d))
    /\ idx' = idx + 1
    /\ UNCHANGED <<requested, pc, toList, pkg, passVars>>

ListPath ==
    /\ pc = "list"
    /\ idx <= Len(Paths(pkg))
    /\ LET d == Paths(pkg)[idx]
       IN  /\ table' = IF d \in DOMAIN appliesTo THEN table ELSE Append(table, d)
           /\ appliesTo' = WithEntry(appliesTo, d, Entry(appliesTo, d) \cup {pkg})
           /\ after' = WithEntry(after, d, Entry(after, d) \cup Previous(pkg, idx))
    /\ idx' = idx + 1
    /\ UNCHANGED <<requested, pc, toList, pkg, passVars>>

ListDone ==
    /\ pc = "list"
    /\ idx > Len(Paths(pkg))
    /\ pc' = "packages"
    /\ pkg' = NoPackage
    /\ UNCHANGED <<requested, toList, idx, table, appliesTo, after, passVars>>

TableDone ==
    /\ pc = "packages"
    /\ toList = {}
    /\ pc' = "first"
    /\ UNCHANGED <<requested, tableVars, passVars>>

-----------------------------------------------------------------------------
(* Releasing the directories.                                               *)

\* Mutant: something that precedes the directory suffices.
MayReleaseMutant(d) == after[d] = {} \/ after[d] \cap released # {}

MayRelease(d) == after[d] \subseteq released

\* A directory that has to wait is (or stays) in the set of the remaining.
Visit(d) ==
    IF MayRelease(d)
    THEN /\ order' = Append(order, d)
         /\ released' = released \cup {d}
         /\ UNCHANGED remaining
    ELSE /\ remaining' = remaining \cup {d}
         /\ UNCHANGED <<order, released>>

FirstPass ==
    /\ pc = "first"
    /\ scan <= Len(table)
    /\ Visit(table[scan])
    /\ scan' = scan + 1
    /\ UNCHANGED <<requested, pc, tableVars, pass, mark>>

FirstPassDone ==
    /\ pc = "first"
    /\ scan > Len(table)
    /\ pc' = "next"
    /\ UNCHANGED <<requested, tableVars, passVars>>

StartPass ==
    /\ pc = "next"
    /\ remaining # {}
    /\ mark' = Cardinality(released)
    /\ pass' = remaining
    /\ pc' = "pass"
    /\ UNCHANGED <<requested, tableVars, scan, order, released, remaining>>

VisitRemaining(d) ==
    /\ pc = "pass"
    /\ d \in pass
    /\ Visit(d)
    /\ pass' = pass \ {d}
    /\ UNCHANGED <<requested, pc, tableVars, scan, mark>>

\* Mutants: every pass counts as progress; one pass has to be enough.
EndPassUnchecked ==
    /\ pc = "pass"
    /\ pass = {}
    /\ pc' = "next"
    /\ remaining' = remaining \ released
    /\ UNCHANGED <<requested, tableVars, scan, order, released, pass, mark>>
EndPassOnce ==
    /\ pc = "pass"
    /\ pass = {}
    /\ IF remaining \subseteq released
       THEN pc' = "next" /\ remaining' = remaining \ released
       ELSE pc' = "circular" /\ UNCHANGED remaining
    /\ UNCHANGED <<requested, tableVars, scan, order, released, pass, mark>>

\* A pass that released nothing means the directories wait for each other.
EndPass ==
    /\ pc = "pass"
    /\ pass = {}
    /\ IF mark = Cardinality(released)
       THEN pc' = "circular" /\ UNCHANGED remaining
       ELSE pc' = "next" /\ remaining' = remaining \ released
    /\ UNCHANGED <<requested, tableVars, scan, order, released, pass, mark>>

\* The source root comes last, for all packages.
AppendRoot ==
    /\ pc = "next"
    /\ remaining = {}
    /\ order' = Append(order, SourceRoot)
    /\ pc' = "done"
    /\ UNCHANGED <<requested, tableVars, scan, released, remaining, pass, mark>>

Ended == pc \in {"done", "circular"} /\ UNCHANGED vars

Next ==
    \/ \E p \in Package : NextPackage(p)
    \/ ListPath
    \/ ListDone
    \/ TableDone
    \/ FirstPass
    \/ FirstPassDone
    \/ StartPass
    \/ \E d \in Dir : VisitRemaining(d)
    \/ EndPass
    \/ AppendRoot
    \/ Ended

\* The function is sequential: it takes its next step.
Spec == Init /\ [][Next]_vars /\ WF_vars(Next)

-----------------------------------------------------------------------------
(* Properties.                                                              *)

\* The last directory is the source root; the others have their table entry.
AppliesTo(i) == IF i = Len(order) THEN Package ELSE appliesTo[order[i]]

\* Every variable has its type, and the table has one entry per directory.
TypeOK ==
    /\ requested \in RequestSpace
    /\ pc \in Phases
    /\ toList \subseteq Package
    /\ pkg \in Package \cup {NoPackage}
    /\ (pc = "list") => pkg \in Package
    /\ idx \in Nat \ {0} /\ scan \in Nat \ {0} /\ mark \in Nat
    /\ table \in Seq(Dir)
    /\ \A i, j \in DOMAIN table : table[i] = table[j] => i = j
    /\ appliesTo \in [ToSet(table) -> SUBSET Package]
    /\ after \in [ToSet(table) -> SUBSET ToSet(table)]
    /\ order \in Seq(Dir)
    /\ released \subseteq ToSet(table)
    /\ remaining \subseteq ToSet(table)
    /\ pass \subseteq remaining

\* binary_package_rules.py on installation-search-dirs: the list holds "all search
\* directories that should be applicable for this package (except the source
\* root itself, which is always appended after the provided list)".  Whatever
\* the other packages asked for, and in whatever order Python visits the sets,
\* each package searches exactly its list and then the source root.
PackageSeesItsList ==
    pc = "done" =>
        \A p \in Package :
            LET mine == {i \in DOMAIN order : p \in AppliesTo(i)}
                seen == [n \in 1 .. Cardinality(mine) |->
                            CHOOSE i \in mine : Cardinality({j \in mine : j <= i}) = n]
            IN  [n \in DOMAIN seen |-> order[seen[n]]] = Append(Paths(p), SourceRoot)

\* A set of directories that can never be released: all of them wait for one
\* of their own.
Knot(S) == S # {} /\ \A d \in S : after[d] \cap S # {}

\* The error is raised exactly for lists that contradict each other.
CircularMeansKnot == pc = "circular" => Knot(remaining)
DoneMeansNoKnot == pc = "done" => ~ \E S \in SUBSET ToSet(table) : Knot(S)

\* Every call returns or raises the error.
Termination == <>(pc \in {"done", "circular"})

\* The abstract promise: each directory once, after all that precede it.
Requested == UNION {ToSet(Paths(p)) : p \in Package}
Predecessors(d) ==
    UNION {{Paths(p)[i - 1] : i \in {j \in DOMAIN Paths(p) : j > 1 /\ Paths(p)[j] = d}} :
           p \in Package}
precedence == [d \in Requested |-> Predecessors(d)]

Topological == INSTANCE TopologicalOrder WITH Root <- SourceRoot, precedes <- precedence,
                                               closed <- pc = "done"
TopologicalSpec == Topological!Spec

=============================================================================
