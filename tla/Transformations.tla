--------------------------- MODULE Transformations ---------------------------
(***************************************************************************)
(* The transformations the manifest asks for in a package: remove, move,    *)
(* create-symlink and create-directories, one action per path they handle.  *)
(* A rule looks all its matches up before it touches the first of them, and *)
(* keeps going with these nodes whatever has become of them meanwhile.      *)
(*                                                                         *)
(* Symbolic links of the model lead out of the package, and no rule goes    *)
(* through one.  A rule that raises ends the build.                         *)
(***************************************************************************)
EXTENDS VirtualFS

CONSTANTS
    InitialTrees,   \* what was installed into the package
    Rules,          \* the transformations a manifest may have
    MaxRules        \* bound: how many of them it has

Kind == {"remove", "move", "symlink", "mkdirs"}
SlashKinds == {"none", "literal", "substituted"}
ReplacementRules ==
    {"error-if-exists", "error-if-directory", "abort-on-non-empty-directory",
     "discard-existing"}

MatchRules ==
    [kind : {"exact"}, path : Seq(Name)]
    \cup [kind : {"in"}, path : Seq(Name), names : SUBSET Name]
    \cup [kind : {"anywhere"}, names : SUBSET Name]
    \cup [kind : {"everything"}]

\* The tree is in order, and what is in it does not claim to have been removed.
InOrder(t) == TreeInv(t) /\ \A n \in Attached(t) : t.last[n] = NoPath

ASSUME TransformationAssumption ==
    /\ \A t \in InitialTrees : InOrder(t)
    /\ \A r \in Rules :
        /\ r.kind \in Kind /\ r.applies \in BOOLEAN
        /\ r.kind = "remove" => r.keep \in BOOLEAN /\ r.matches \in Seq(MatchRules)
        /\ r.kind = "move" =>
              r.match \in MatchRules /\ r.target \in Seq(Name) \ {<<>>} /\ r.slash \in SlashKinds
        /\ r.kind = "symlink" =>
              r.path \in Seq(Name) \ {<<>>} /\ r.replace \in ReplacementRules
        /\ r.kind = "mkdirs" => r.paths \in Seq(Seq(Name))
    /\ MaxRules \in Nat

VARIABLES
    rule,       \* the rule that runs or ran last
    pc,         \* where it is
    pattern,    \* remove: which of its match rules
    left,       \* the matches not handled yet
    anyMatch,   \* remove: matched_any
    target,     \* move: target_dir
    names,      \* move: basenames
    rulesLeft,
    before,     \* history: the package when the rule began
    handled     \* history: the matches it had, by their paths then

locals == <<pattern, left, anyMatch, target, names>>
ruleVars == <<vars, rule, pc, locals, rulesLeft, before, handled>>

NoRule == [kind |-> "none"]

InitRules ==
    /\ tree \in InitialTrees
    /\ rw = TRUE
    /\ rule = NoRule
    /\ pc = "done"
    /\ pattern = 0
    /\ left = {}
    /\ anyMatch = FALSE
    /\ target = NoNode
    /\ names = {}
    /\ rulesLeft = MaxRules
    /\ before = tree
    /\ handled = {}

-----------------------------------------------------------------------------
(* Match rules: the finditer of path_matcher.py.                            *)

NodeAt(t, p) == IF p \in PathNames THEN At(t)[p] ELSE NoNode
PathsOf(t) == {p \in PathNames : At(t)[p] # NoNode}

FindIter(t, match) ==
    CASE match.kind = "exact" -> {NodeAt(t, match.path)} \ {NoNode}
      [] match.kind = "in" ->       \* dir/* and dir/glob
            LET d == NodeAt(t, match.path)
            IN  IF d = NoNode \/ ~ IsDir(t, d) THEN {}
                ELSE {t.child[d][k] : k \in match.names} \ {NoNode}
      [] match.kind = "anywhere" -> \* **/glob and glob
            {At(t)[p] : p \in {p \in PathsOf(t) \ {<<>>} : Last(p) \in match.names}}
      [] match.kind = "everything" -> {At(t)[p] : p \in PathsOf(t)}

\* The walks are in preorder.  A directory lists its children in any order.
NextOf(nodes) == {m \in nodes : \A other \in nodes \ {m} : ~ Below(before, m, other)}

-----------------------------------------------------------------------------

Run(r) ==
    /\ pc = "done" /\ rulesLeft > 0
    /\ rule' = r
    /\ rulesLeft' = rulesLeft - 1
    /\ before' = tree
    /\ handled' = {}
    /\ pattern' = 0
    /\ anyMatch' = FALSE
    /\ names' = {}
    /\ UNCHANGED rw

Goto(label) == pc' = label /\ UNCHANGED <<rw, rule, rulesLeft, before>>
Handle(nodes) == handled' = handled \cup {Trail(before)[n] : n \in nodes}
Raise == Goto("failed") /\ UNCHANGED <<tree, locals, handled>>

\* The directory p, with what it takes to have it; NoNode if a part is something
\* else.
EnsureIsDirectory(t, p) ==
    LET walk[i \in 0..Len(p)] ==
            IF i = 0 THEN [tree |-> t, dir |-> Root]
            ELSE LET at == walk[i - 1]
                     next == IF at.dir = NoNode THEN NoNode ELSE at.tree.child[at.dir][p[i]]
                 IN  IF at.dir = NoNode THEN at
                     ELSE IF next = NoNode
                     THEN [tree |-> Create(at.tree, at.dir, p[i], "dir"),
                           dir |-> Fresh(at.tree)]
                     ELSE [tree |-> t, dir |-> IF IsDir(t, next) THEN next ELSE NoNode]
    IN  walk[Len(p)]

\* Bound: the model has nodes for all that the rule may create.
MayMake(p) ==
    LET there == {i \in 1..Len(p) : NodeAt(tree, SubSeq(p, 1, i)) # NoNode}
    IN  Cardinality(Unborn(tree)) >= Len(p) - Cardinality(there)

-----------------------------------------------------------------------------
(* remove                                                                   *)

\* The condition of the rule does not get this far.
StartRemove(r) ==
    /\ r.kind = "remove"
    /\ Run(r)
    /\ left' = {}
    /\ pc' = "remove"
    /\ UNCHANGED <<tree, target>>

NextMatchRule ==
    /\ pc = "remove" /\ left = {}
    /\ pattern < Len(rule.matches)
    /\ pattern = 0 \/ anyMatch
    /\ left' = FindIter(tree, rule.matches[pattern + 1])
    /\ pattern' = pattern + 1
    /\ Handle(left')
    /\ Goto("remove")
    /\ UNCHANGED <<tree, anyMatch, target, names>>

NothingToRemove ==
    /\ pc = "remove" /\ left = {}
    /\ pattern > 0 /\ ~ anyMatch
    /\ Raise

RemoveEnds ==
    /\ pc = "remove" /\ left = {}
    /\ pattern = Len(rule.matches) /\ anyMatch
    /\ Goto("done")
    /\ UNCHANGED <<tree, locals, handled>>

\* Mutant: the parents are not looked at.
RemovedMutant(t, m) == Unlinked(t, m)

\* The match, and the directories that have become empty; a match below one that
\* was removed is no longer in the package, but its parent is.
Removed(t, m) ==
    LET gone == Unlinked(t, m)
    IN  IF rule.keep THEN gone ELSE Pruned(gone, t.parent[m])

RemoveMatch(m) ==
    /\ pc = "remove" /\ m \in NextOf(left) \ {Root}
    /\ tree' = Removed(tree, m)
    /\ left' = left \ {m}
    /\ anyMatch' = TRUE
    /\ Goto("remove")
    /\ UNCHANGED <<pattern, target, names, handled>>

RemoveRoot == pc = "remove" /\ Root \in NextOf(left) /\ Raise

-----------------------------------------------------------------------------
(* move                                                                     *)

\* dest_is_dir: the parser cleaned the slashes off the path as it was written.
DestIsDir(r) == r.slash = "substituted"

SkipRule(r) ==
    /\ r.kind # "remove" /\ ~ r.applies
    /\ Run(r)
    /\ pc' = "done"
    /\ UNCHANGED <<tree, left, target>>

StartMove(r) ==
    /\ r.kind = "move" /\ r.applies
    /\ MayMake(r.target)
    /\ Run(r)
    /\ left' = FindIter(tree, r.match)
    /\ target' = NoNode
    /\ pc' = IF left' = {} THEN "failed" ELSE "target"
    /\ UNCHANGED tree

\* The directory to move into, or to rename in.
FindTarget ==
    /\ pc = "target"
    /\ LET into == EnsureIsDirectory(tree, rule.target)
           parent == EnsureIsDirectory(tree, Front(rule.target))
           existing == parent.tree.child[parent.dir][Last(rule.target)]
       IN  IF DestIsDir(rule)
           THEN IF into.dir = NoNode THEN Raise
                ELSE /\ tree' = into.tree
                     /\ target' = into.dir
                     /\ Handle(left)
                     /\ Goto("move")
                     /\ UNCHANGED <<pattern, left, anyMatch, names>>
           ELSE IF parent.dir = NoNode THEN Raise
           ELSE /\ tree' = parent.tree
                /\ Handle(left)
                /\ IF existing # NoNode /\ IsDir(parent.tree, existing)
                   THEN target' = existing /\ Goto("move")
                   ELSE target' = parent.dir /\ Goto("rename")
                /\ UNCHANGED <<pattern, left, anyMatch, names>>

\* A directory that is moved below itself loses its way to the root.
InItself(m) == m = Root \/ Below(tree, target, m)

\* Mutant: the name comes first.
RenamedMutant(t, p, d, k) == SetParent(Rename(t, p, k), p, d)

Renamed(t, p, d, k) == Rename(SetParent(t, p, d), p, k)

RenameMatch ==
    /\ pc = "rename"
    /\ IF Cardinality(left) > 1 THEN Raise
       ELSE LET p == CHOOSE p \in left : TRUE
            IN  IF PathOf(tree)[p] = rule.target \/ InItself(p) THEN Raise
                ELSE /\ tree' = Renamed(tree, p, target, Last(rule.target))
                     /\ left' = {}
                     /\ Goto("done")
                     /\ UNCHANGED <<pattern, anyMatch, target, names, handled>>

\* Mutant: nobody asks a match for its path.
MayMoveMutant(m) == m # target /\ tree.name[m] \notin names

\* A match in something that was replaced has no path any more.  What has its
\* name in the match itself, and not in the target, must not be a directory.
MayMove(m) ==
    /\ PathOf(tree)[m] # NoPath
    /\ PathOf(tree)[m] # PathOf(tree)[target]
    /\ tree.name[m] \notin names
    /\ LET existing == tree.child[m][tree.name[m]]
       IN  existing # NoNode => ~ IsDir(tree, existing)

MoveMatch(m) ==
    /\ pc = "move" /\ m \in NextOf(left)
    /\ IF m = Root \/ ~ MayMove(m) \/ InItself(m) THEN Raise
       ELSE /\ tree' = SetParent(tree, m, target)
            /\ names' = names \cup {tree.name[m]}
            /\ left' = left \ {m}
            /\ Goto(IF left' = {} THEN "done" ELSE "move")
            /\ UNCHANGED <<pattern, anyMatch, target, handled>>

-----------------------------------------------------------------------------
(* create-symlink and create-directories                                    *)

\* _handle_existing_path
MayReplace(t, n, replacement) ==
    CASE replacement = "abort-on-non-empty-directory" -> ~ IsDir(t, n) \/ Empty(t, n)
      [] replacement = "discard-existing" -> TRUE
      [] replacement = "error-if-directory" -> ~ IsDir(t, n)
      [] replacement = "error-if-exists" -> FALSE

CreateSymlink(r) ==
    /\ r.kind = "symlink" /\ r.applies
    /\ MayMake(Append(Front(r.path), "?"))
    /\ Run(r)
    /\ LET parent == EnsureIsDirectory(tree, Front(r.path))
           existing == parent.tree.child[parent.dir][Last(r.path)]
           cleared == IF existing = NoNode THEN parent.tree ELSE Unlinked(parent.tree, existing)
       IN  IF parent.dir = NoNode \/ (existing # NoNode /\ ~ MayReplace(parent.tree, existing, r.replace))
           THEN pc' = "failed" /\ UNCHANGED tree
           ELSE pc' = "done" /\ tree' = Create(cleared, parent.dir, Last(r.path), "symlink")
    /\ UNCHANGED <<left, target>>

StartDirectories(r) ==
    /\ r.kind = "mkdirs" /\ r.applies
    /\ Run(r)
    /\ pc' = "mkdirs"
    /\ UNCHANGED <<tree, left, target>>

CreateDirectory ==
    /\ pc = "mkdirs" /\ pattern < Len(rule.paths)
    /\ MayMake(rule.paths[pattern + 1])
    /\ LET made == EnsureIsDirectory(tree, rule.paths[pattern + 1])
       IN  IF made.dir = NoNode THEN Raise
           ELSE /\ tree' = made.tree
                /\ pattern' = pattern + 1
                /\ Goto(IF pattern' = Len(rule.paths) THEN "done" ELSE "mkdirs")
                /\ UNCHANGED <<left, anyMatch, target, names, handled>>

NextRule ==
    \/ \E r \in Rules :
        StartRemove(r) \/ SkipRule(r) \/ StartMove(r) \/ CreateSymlink(r) \/ StartDirectories(r)
    \/ NextMatchRule \/ NothingToRemove \/ RemoveEnds \/ RemoveRoot
    \/ FindTarget \/ RenameMatch
    \/ \E m \in Node : RemoveMatch(m) \/ MoveMatch(m)
    \/ CreateDirectory

RulesSpec == InitRules /\ [][NextRule]_ruleVars

-----------------------------------------------------------------------------
(* Properties.                                                              *)

Finished(kinds) == pc = "done" /\ rule.kind \in kinds
UnderOneOf(p, S) == \E q \in S : IsPrefix(q, p)
AboveOneOf(p, S) == \E q \in S : IsStrictPrefix(p, q)

\* "rm -fr ${p}; rmdir --ignore-fail-on-non-empty --parents $(dirname ${p})"
\* (MANIFEST-FORMAT.md), as one statement about all matches, nested ones and
\* those of later patterns included: what is at or below a match is gone, so are
\* the directories that had nothing else, and all the rest is still the same.
Emptied(p) ==
    /\ ~ rule.keep
    /\ p # <<>> /\ AboveOneOf(p, handled)
    /\ \A q \in PathsOf(before) : IsStrictPrefix(p, q) =>
            UnderOneOf(q, handled) \/ AboveOneOf(q, handled)
RemoveIsExact ==
    Finished({"remove"}) =>
        \A p \in PathNames :
            At(tree)[p] = IF UnderOneOf(p, handled) \/ Emptied(p) THEN NoNode
                          ELSE At(before)[p]

\* A rule that creates or moves something leaves all other paths alone: only
\* overlapping names at the destination are lost, what is moved arrives with all
\* that is below it (but for matches that were moved out of it), whichever match
\* came first, and nothing appears but the directories above the destination.
\* A rename costs the entry with the old name in the new directory, too.
Places(m) ==
    IF rule.kind # "move" THEN {}
    ELSE IF names # {} THEN Append(rule.target, Last(m))
    ELSE rule.target
Destinations ==
    CASE rule.kind = "move" -> {rule.target}
      [] rule.kind = "symlink" -> {rule.path}
      [] rule.kind = "mkdirs" -> Range(rule.paths)
Overlaps ==
    CASE rule.kind = "symlink" -> {rule.path}
      [] rule.kind = "mkdirs" -> {}
      [] rule.kind = "move" ->
            {Places(m) : m \in handled} \cup
            IF names # {} THEN {}
            ELSE {Append(Front(rule.target), Last(m)) : m \in handled}
Innermost(q) ==
    CHOOSE m \in handled : IsPrefix(m, q) /\ \A o \in handled :
        IsPrefix(o, q) => Len(o) <= Len(m)
NewPath(q) ==
    IF UnderOneOf(q, handled)
    THEN Places(Innermost(q)) \o SubSeq(q, Len(Innermost(q)) + 1, Len(q))
    ELSE q
Kept == {q \in PathsOf(before) : UnderOneOf(q, handled) \/ ~ UnderOneOf(q, Overlaps)}
OnlyTheNamedIsTouched ==
    Finished({"move", "symlink", "mkdirs"}) /\ rule.applies =>
        /\ \A q \in Kept : At(tree)[NewPath(q)] = At(before)[q]
        /\ PathsOf(tree) \subseteq
              {NewPath(q) : q \in Kept} \cup {p \in PathNames : AboveOneOf(p, Destinations)}
                                        \cup Destinations

\* What a rule removed or replaced does not come back: a later match in it must
\* not be moved as if it still were in the package.
LostStaysLost == [][\A n \in Born(tree) \ Attached(tree) : n \notin Attached(tree)']_ruleVars

\* "If the target ends with a literal `/` (prior to substitution), the target will
\* *always* be a directory." (MANIFEST-FORMAT.md)
SlashMeansDirectory ==
    Finished({"move"}) /\ rule.applies /\ rule.slash = "literal" =>
        NodeAt(tree, rule.target) # NoNode /\ IsDir(tree, NodeAt(tree, rule.target))
=============================================================================
