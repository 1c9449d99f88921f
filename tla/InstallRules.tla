---------------------------- MODULE InstallRules ----------------------------
(***************************************************************************)
(* The installation phase of a build: HighLevelManifest.perform_installations *)
(* runs, in order, one built-in rule per staging directory debian/<package> *)
(* and the rules of the manifest, all of them against one SourcePathMatcher *)
(* that remembers which source path was reserved by or discarded for whom,  *)
(* and finally looks for paths nobody reserved.                             *)
(*                                                                         *)
(* The manifest is not fixed: each run picks up to MaxRules rules out of    *)
(* RuleSpace, so a behaviour is a manifest together with its processing.    *)
(* The steps are the program's own: one search directory, one match, one    *)
(* destination, one entry of a recursively installed directory at a time.   *)
(***************************************************************************)
EXTENDS SourceTree

CONSTANTS
    Package,        \* the binary packages of debian/control
    Acted,          \* those with should_be_acted_on
    SearchDirs,     \* the ordered search directories: <<[root, appliesTo], ...>>
    CheckDirs,      \* the roots searched for paths that were not installed
    StagingRoot,    \* [packages with a debian/<package> directory -> its root]
    AutoDiscard,    \* the <<root, path>> a plugin provided discard rule matches
    RuleSpace,      \* the rules a manifest may contain
    MaxRules        \* bound: the number of rules in a manifest

(***************************************************************************)
(* A rule is a record                                                       *)
(*   type     "install" (GenericInstallationRule) or "discard" (DiscardRule) *)
(*   sources  its patterns, in order                                        *)
(*   into     the packages it installs into ({} for a discard rule)         *)
(*   holds    what its condition evaluates to (TRUE without one)            *)
(*   dests    the destinations: keep the relative path, a directory to put  *)
(*            the match in, or the full path to install it "as"             *)
(*   single   require_single_match (rules with "as")                        *)
(*   limit    the search directories a discard rule names, normalized       *)
(*   builtin  the rule for a staging directory: an error of its matching is *)
(*            ignored                                                       *)
(***************************************************************************)
Keep == [type |-> "keep", at |-> <<>>]
InDir(at) == [type |-> "dir", at |-> at]
As(at) == [type |-> "as", at |-> at]

Anything == [type |-> "anything", at |-> <<>>, names |-> {},
             dirOnly |-> FALSE, filesOnly |-> FALSE]

\* GenericInstallationRule
Generic(sources, dests, into, holds, single) ==
    [type |-> "install", sources |-> sources, into |-> into, holds |-> holds,
     dests |-> dests, single |-> single, limit |-> <<>>, builtin |-> FALSE]

\* install without and with dest-dir, with dest-dirs, and with "as".
InstallKeep(sources, into, holds) == Generic(sources, <<Keep>>, into, holds, FALSE)
InstallDest(sources, destDir, into, holds) ==
    Generic(sources, <<InDir(destDir)>>, into, holds, FALSE)
InstallMultiDest(sources, destDirs, into, holds) ==
    Generic(sources, [i \in DOMAIN destDirs |-> InDir(destDirs[i])], into, holds, FALSE)
InstallAs(source, destPath, into, holds) ==
    Generic(<<source>>, <<As(destPath)>>, into, holds, TRUE)

InstallMultiAs(source, destPaths, into, holds) ==
    Generic(<<source>>, [i \in DOMAIN destPaths |-> As(destPaths[i])], into, holds, TRUE)

\* install-docs.  With a dest-dir, the directory is taken for the full path
\* of each match: it is not joined with the basename.
InstallDoc(sources, docDir, into, holds) ==
    Generic(sources, <<InDir(docDir)>>, into, holds, FALSE)
InstallDocDest(sources, destDir, into, holds) ==
    Generic(sources, <<As(destDir)>>, into, holds, FALSE)

\* _normalize_path gives a path of the manifest a leading "./", which the
\* fs_path of a search directory never has; the source root is "." in both.
Normalized(p) == IF p = <<>> THEN p ELSE <<".">> \o p

\* DiscardRule: "required-when" only excuses an empty match.
DiscardPaths(sources, limitTo, holds) ==
    [type |-> "discard", sources |-> sources, into |-> {}, holds |-> holds,
     dests |-> <<>>, single |-> FALSE, limit |-> [i \in DOMAIN limitTo |-> Normalized(limitTo[i])],
     builtin |-> FALSE]

\* _install_everything_from_source_dir_if_present: "*" into the one package.
StagingRule(pkg) == [InstallKeep(<<Anything>>, {pkg}, TRUE) EXCEPT !.builtin = TRUE]

NoRule ==
    [type |-> "none", sources |-> <<>>, into |-> {}, holds |-> TRUE,
     dests |-> <<>>, single |-> FALSE, limit |-> <<>>, builtin |-> TRUE]

ASSUME PackageAssumption == Acted \subseteq Package

ASSUME RuleAssumption ==
    \A r \in RuleSpace :
        /\ r.type \in {"install", "discard"}
        /\ r.into \in SUBSET Package
        /\ (r.type = "install") <=> (r.into # {})
        /\ ~ r.builtin
        /\ r.sources \in Seq(Patterns) \ {<<>>}
        /\ r.single => Len(r.sources) = 1

Dirs == Seq([root : Seq(STRING), appliesTo : SUBSET Package])

ASSUME SearchDirAssumption ==
    /\ SearchDirs \in Dirs
    /\ CheckDirs \subseteq Seq(STRING)
    /\ DOMAIN StagingRoot \subseteq Package
    /\ StagingRoot \in [DOMAIN StagingRoot -> Seq(STRING)]
    /\ MaxRules \in Nat

ASSUME AutoDiscardAssumption == AutoDiscard \subseteq (Seq(STRING) \X FsPath)

VARIABLES
    pc,             \* what runs: see Phases
    toStage,        \* packages whose staging directory was not processed yet
    rulesLeft,      \* how many more rules the manifest may have
    rule,           \* the rule being performed
    dirs,           \* the search directories it looks in
    src,            \* the index of its pattern
    sd,             \* the index of the search directory
    missing,        \* missing_matches: packages without a match for the pattern
    todo,           \* paths the search directory still yields
    matches,        \* the PathMatches of the pattern, in order
    cur,            \* the PathMatch being installed
    dest,           \* the index of its destination
    work,           \* the stack of _install_dir_recursively
    toDetect,       \* roots not yet searched for missing paths
    alreadyMatched, \* _already_matched; {} for a path that is not a key
    exactRequest,   \* _exact_match_request
    discarded,      \* _discarded
    fs,             \* [package -> [path in the package -> what is there]]
    error           \* the error that ended the run, or "none"

searchVars == <<rule, dirs, src, sd, missing, todo, matches>>
placeVars == <<cur, dest, work>>
manifestVars == <<toStage, rulesLeft, toDetect>>
matcherVars == <<alreadyMatched, exactRequest, discarded>>
vars == <<pc, searchVars, placeVars, manifestVars, matcherVars, fs, error>>

Phases == {"rules", "search", "match", "install", "place", "recurse",
           "detect", "done", "failed"}
DiscardStates == {"unchecked", "not", "plugin", "manifest"}
Errors == {"none", "root-matched", "already-reserved", "excluded", "exact-twice",
           "no-match", "many-matches", "unknown-search-dir", "mkdirs",
           "dir-in-the-way", "mkdir-exists", "unlink-nonempty", "unsupported",
           "not-installed"}

NoMatch == [path |-> <<>>, root |-> <<>>, into |-> {}]
NoSource == <<>>

Init ==
    /\ pc = "rules"
    /\ toStage = DOMAIN StagingRoot \cap Acted
    /\ rulesLeft = MaxRules
    /\ rule = NoRule /\ dirs = <<>> /\ src = 1 /\ sd = 1
    /\ missing = {} /\ todo = {} /\ matches = <<>>
    /\ cur = NoMatch /\ dest = 1 /\ work = {}
    /\ toDetect = CheckDirs
    /\ alreadyMatched = [p \in FsPath |-> {}]
    /\ exactRequest = {}
    /\ discarded = [p \in FsPath |-> "unchecked"]
    /\ fs = [pkg \in Package |-> [d \in {<<>>} |-> [kind |-> "dir", src |-> NoSource]]]
    /\ error = "none"

\* Mutant: the error is lost on the way out.
FailMutant(e) ==
    /\ pc' = "failed"
    /\ UNCHANGED <<searchVars, placeVars, manifestVars, matcherVars, fs, error>>

Fail(e) ==
    /\ pc' = "failed"
    /\ error' = e
    /\ UNCHANGED <<searchVars, placeVars, manifestVars, matcherVars, fs>>

-----------------------------------------------------------------------------
(* SourcePathMatcher: the queries, and what they leave in the cache.        *)

Claimed(p) == alreadyMatched[p] # {}

\* The paths of the chain at which the walk towards the root stops.
Decisive(root, p) ==
    {q \in Chain(root, p) : discarded[q] # "unchecked" \/ <<root, q>> \in AutoDiscard}

\* _check_plugin_provided_exclude_state_for
ExcludeState(root, p) ==
    LET D == Decisive(root, p)
        stop == CHOOSE q \in D : IsLongest(q, D)
    IN  IF D = {} THEN "not"
        ELSE IF discarded[stop] # "unchecked" THEN discarded[stop]
        ELSE "plugin"

\* The paths the walk passed without an answer, and the one it stopped at
\* when a plugin's rule stopped it: all of them inherit the verdict.
CacheMisses(root, p) ==
    {q \in Chain(root, p) :
        discarded[q] = "unchecked" /\ \A o \in Decisive(root, p) : Len(o) <= Len(q)}

\* _discarded after the states of all of S were asked for.  The order does
\* not matter: what one walk caches is what the next would have found.
CachedFor(root, S) ==
    [q \in FsPath |->
        IF \E p \in S : q \in CacheMisses(root, p) THEN ExcludeState(root, q)
        ELSE discarded[q]]

IsReserved(root, p) == Claimed(p) \/ ExcludeState(root, p) # "not"

\* is_reserved only looks at the discard state of what is not claimed.
CachedByIsReserved(root, S) == CachedFor(root, {p \in S : ~ Claimed(p)})

-----------------------------------------------------------------------------
(* perform_installations: the order of the rules.                           *)

StartRule(r, where) ==
    /\ rule' = r
    /\ dirs' = where
    /\ src' = 1 /\ sd' = 1
    /\ missing' = r.into
    /\ matches' = <<>>
    /\ pc' = "search"
    /\ UNCHANGED <<todo, placeVars, matcherVars, fs, error>>

PerformStaging(pkg) ==
    /\ pc = "rules"
    /\ pkg \in toStage
    /\ toStage' = toStage \ {pkg}
    /\ StartRule(StagingRule(pkg), <<[root |-> StagingRoot[pkg], appliesTo |-> {pkg}]>>)
    /\ UNCHANGED <<rulesLeft, toDetect>>

\* The search directories whose fs_path is in a rule's limit_to.
Limited(r) == {s \in ToSet(SearchDirs) : s.root \in ToSet(r.limit)}

\* limit_to only counts when it is given; each entry must be a search directory.
LimitIsKnown(r) == r.limit = <<>> \/ Len(r.limit) = Cardinality(Limited(r))

PerformRule(r) ==
    /\ pc = "rules"
    /\ toStage = {}
    /\ rulesLeft > 0
    /\ LimitIsKnown(r)
    /\ rulesLeft' = rulesLeft - 1
    /\ StartRule(r, SearchDirs)
    /\ UNCHANGED <<toStage, toDetect>>

RejectRule(r) ==
    /\ pc = "rules"
    /\ toStage = {}
    /\ rulesLeft > 0
    /\ ~ LimitIsKnown(r)
    /\ Fail("unknown-search-dir")

EndOfRules ==
    /\ pc = "rules"
    /\ toStage = {}
    /\ pc' = "detect"
    /\ UNCHANGED <<searchVars, placeVars, manifestVars, matcherVars, fs, error>>

-----------------------------------------------------------------------------
(* _resolve_path and find_and_reserve_all_matches: one pattern in all the   *)
(* search directories.                                                      *)

Pattern == rule.sources[src]
IsExact == Pattern.type = "exact"
Root == dirs[sd].root
Applicable == dirs[sd].appliesTo \cap missing
InLimit(s) == rule.limit = <<>> \/ s.root \in ToSet(rule.limit)

\* Directories where every applicable package has its match are passed over,
\* and those a discard rule does not name.
Skipped == \/ ~ InLimit(dirs[sd])
           \/ rule.into # {} /\ Applicable = {}

SkipSearchDir ==
    /\ pc = "search"
    /\ sd <= Len(dirs)
    /\ Skipped
    /\ sd' = sd + 1
    /\ UNCHANGED <<pc, rule, dirs, src, missing, todo, matches,
                   placeVars, manifestVars, matcherVars, fs, error>>

EnterSearchDir ==
    /\ pc = "search"
    /\ sd <= Len(dirs)
    /\ ~ Skipped
    /\ todo' = Yields(Pattern, Root)
    /\ pc' = "match"
    /\ UNCHANGED <<rule, dirs, src, sd, missing, matches,
                   placeVars, manifestVars, matcherVars, fs, error>>

\* Directories are yielded before what is in them; which of several siblings
\* comes first depends on their names, which the model leaves open.
Yielded(p) ==
    /\ pc = "match"
    /\ p \in todo
    /\ \A q \in todo : ~ IsStrictPrefix(q, p)

MatchRootDir(p) ==
    /\ Yielded(p)
    /\ p = Root
    /\ Fail("root-matched")

\* A glob passes over what somebody already has, an exact path may not.
MatchReserved(p) ==
    /\ Yielded(p)
    /\ p # Root
    /\ Claimed(p)
    /\ IF IsExact
       THEN Fail("already-reserved")
       ELSE /\ todo' = todo \ {p}
            /\ UNCHANGED <<pc, rule, dirs, src, sd, missing, matches,
                           placeVars, manifestVars, matcherVars, fs, error>>

\* Mutant: an exact path overrules every discard.
MayMatchMutant(p) == ExcludeState(Root, p) = "not" \/ IsExact

\* may_match's verdict on a path nobody reserved: an exact path overrules a
\* plugin's discard rule, never the manifest's.
MayMatch(p) ==
    \/ ExcludeState(Root, p) = "not"
    \/ IsExact /\ ExcludeState(Root, p) = "plugin"

MatchExcluded(p) ==
    /\ Yielded(p)
    /\ p # Root
    /\ ~ Claimed(p) /\ ~ MayMatch(p)
    /\ discarded' = CachedFor(Root, {p})
    /\ IF IsExact
       THEN /\ pc' = "failed" /\ error' = "excluded"
            /\ UNCHANGED todo
       ELSE /\ todo' = todo \ {p}
            /\ UNCHANGED <<pc, error>>
    /\ UNCHANGED <<rule, dirs, src, sd, missing, matches, placeVars, manifestVars,
                   alreadyMatched, exactRequest, fs>>

RequestedBefore(p) == IsExact /\ \E pkg \in Applicable : <<pkg, p>> \in exactRequest

\* Mutant: an exact match is requested but not reserved.
MatchAndReserveMutant(p) ==
    /\ Yielded(p)
    /\ p # Root
    /\ ~ Claimed(p) /\ MayMatch(p)
    /\ rule.into # {}
    /\ IF RequestedBefore(p)
       THEN Fail("exact-twice")
       ELSE /\ discarded' = CachedFor(Root, {p})
            /\ exactRequest' = exactRequest \cup (IF IsExact THEN Applicable \X {p} ELSE {})
            /\ alreadyMatched' =
                   IF IsExact THEN alreadyMatched ELSE [alreadyMatched EXCEPT ![p] = Applicable]
            /\ matches' = Append(matches, [path |-> p, root |-> Root, into |-> Applicable])
            /\ todo' = todo \ {p}
            /\ UNCHANGED <<pc, rule, dirs, src, sd, missing, placeVars, manifestVars, fs, error>>

MatchAndReserve(p) ==
    /\ Yielded(p)
    /\ p # Root
    /\ ~ Claimed(p) /\ MayMatch(p)
    /\ rule.into # {}
    /\ IF RequestedBefore(p)
       THEN Fail("exact-twice")
       ELSE /\ discarded' = CachedFor(Root, {p})
            /\ exactRequest' = exactRequest \cup (IF IsExact THEN Applicable \X {p} ELSE {})
            /\ alreadyMatched' = [alreadyMatched EXCEPT ![p] = Applicable]
            /\ matches' = Append(matches, [path |-> p, root |-> Root, into |-> Applicable])
            /\ todo' = todo \ {p}
            /\ UNCHANGED <<pc, rule, dirs, src, sd, missing, placeVars, manifestVars, fs, error>>

MatchAndExclude(p) ==
    /\ Yielded(p)
    /\ p # Root
    /\ ~ Claimed(p) /\ MayMatch(p)
    /\ rule.into = {}
    /\ discarded' = [CachedFor(Root, {p}) EXCEPT ![p] = "manifest"]
    /\ matches' = Append(matches, [path |-> p, root |-> Root, into |-> {}])
    /\ todo' = todo \ {p}
    /\ UNCHANGED <<pc, rule, dirs, src, sd, missing, placeVars, manifestVars,
                   alreadyMatched, exactRequest, fs, error>>

\* Mutants: the search stays in its directory; a match does not serve anybody.
LeaveSearchDirStuck ==
    /\ pc = "match"
    /\ todo = {}
    /\ pc' = "search"
    /\ UNCHANGED <<rule, dirs, src, sd, missing, todo, matches,
                   placeVars, manifestVars, matcherVars, fs, error>>
LeaveSearchDirUnserved ==
    /\ pc = "match"
    /\ todo = {}
    /\ sd' = sd + 1
    /\ pc' = "search"
    /\ UNCHANGED <<rule, dirs, src, missing, todo, matches,
                   placeVars, manifestVars, matcherVars, fs, error>>

\* Anything the directory yielded counts as a match, what others had
\* reserved included.  An install rule stops once every package has one, a
\* discard rule visits all the directories.
LeaveSearchDir ==
    /\ pc = "match"
    /\ todo = {}
    /\ missing' = IF Yields(Pattern, Root) # {} THEN missing \ Applicable ELSE missing
    /\ sd' = IF Yields(Pattern, Root) # {} /\ rule.into # {} /\ missing' = {}
             THEN Len(dirs) + 1
             ELSE sd + 1
    /\ pc' = "search"
    /\ UNCHANGED <<rule, dirs, src, todo, matches,
                   placeVars, manifestVars, matcherVars, fs, error>>

-----------------------------------------------------------------------------
(* _match_pattern's verdict and the way to the next pattern.                *)

ActedOn == rule.into \cap Acted # {}

AllowEmptyMatch ==
    \/ ~ rule.holds
    \/ rule.into # {} /\ ~ ActedOn
    \/ rule.into = {} /\ \E i \in DOMAIN dirs :
                            InLimit(dirs[i]) /\ dirs[i].root \in FsPath /\ IsDir(dirs[i].root)

\* A rule whose condition is false, or whose packages are not built, has
\* reserved its matches; it installs nothing.
Disabled == ~ rule.holds \/ ~ ActedOn

\* _check_single_match: seen_pkgs is updated with problem_pkgs, which is a
\* part of seen_pkgs.
SeenPackages ==
    FoldLeft(LAMBDA seen, m : seen \cup (seen \cap m.into), {}, matches)

SingleMatchViolated ==
    /\ rule.single /\ Len(matches) > 1
    /\ \E i \in DOMAIN matches : SeenPackages \cap matches[i].into # {}

Searched == pc = "search" /\ sd = Len(dirs) + 1

NextPattern ==
    /\ IF src < Len(rule.sources)
       THEN /\ pc' = "search" /\ src' = src + 1 /\ sd' = 1 /\ missing' = rule.into
       ELSE /\ pc' = "rules" /\ UNCHANGED <<src, sd, missing>>
    /\ matches' = <<>>

\* The error of a built-in rule is ignored: the rule is over.
NothingMatched ==
    /\ Searched
    /\ matches = <<>> /\ ~ AllowEmptyMatch
    /\ IF rule.builtin
       THEN /\ pc' = "rules"
            /\ UNCHANGED <<searchVars, placeVars, manifestVars, matcherVars, fs, error>>
       ELSE Fail("no-match")

PatternMatched ==
    /\ Searched
    /\ matches # <<>> \/ AllowEmptyMatch
    /\ IF SingleMatchViolated THEN Fail("many-matches")
       ELSE /\ IF rule.type = "discard" \/ Disabled
               THEN NextPattern
               ELSE pc' = "install" /\ UNCHANGED <<src, sd, missing, matches>>
            /\ UNCHANGED <<rule, dirs, todo, placeVars, manifestVars, matcherVars, fs, error>>

-----------------------------------------------------------------------------
(* _install_matches: the destinations of one match, one at a time.          *)

DestPath(d, m) ==
    CASE d.type = "keep" -> Relative(m.root, m.path)
      [] d.type = "dir"  -> d.at \o <<Last(m.path)>>
      [] d.type = "as"   -> d.at

Present(t, d) == d \in DOMAIN t
IsDirIn(t, d) == Present(t, d) /\ t[d].kind = "dir"
BelowIn(t, d) == {x \in DOMAIN t : IsStrictPrefix(d, x)}

\* mkdirs: a component that exists has to be a directory.  (A component that
\* is a symlink would be followed; no rule of the model installs below one.)
CanMkdirs(t, d) == \A x \in Prefixes(d) : Present(t, x) => IsDirIn(t, x)
Mkdirs(t, d) ==
    [x \in DOMAIN t \cup Prefixes(d) |->
        IF Present(t, x) THEN t[x] ELSE [kind |-> "dir", src |-> NoSource]]

\* Put p at d, replacing what is there together with everything below it.
Put(t, d, p) ==
    [x \in (DOMAIN t \ BelowIn(t, d)) \cup {d} |->
        IF x = d THEN [kind |-> KindOf[p], src |-> p] ELSE t[x]]

\* Mutant: the directory is always created anew.
PlaceInMutant(t, d, p) == Put(Mkdirs(t, Parent(d)), d, p)

\* A directory that exists is reused, an entry that is not a directory is
\* replaced.
PlaceIn(t, d, p) ==
    IF IsDir(p) /\ IsDirIn(t, d) THEN Mkdirs(t, Parent(d))
    ELSE Put(Mkdirs(t, Parent(d)), d, p)

NextMatch ==
    /\ pc = "install"
    /\ matches # <<>>
    /\ cur' = Head(matches)
    /\ matches' = Tail(matches)
    /\ dest' = 1
    /\ pc' = "place"
    /\ UNCHANGED <<rule, dirs, src, sd, missing, todo, work,
                   manifestVars, matcherVars, fs, error>>

Destination == DestPath(rule.dests[dest], cur)

PlaceFails(e) ==
    CASE e = "mkdirs" -> \E pkg \in cur.into : ~ CanMkdirs(fs[pkg], Parent(Destination))
      [] e = "dir-in-the-way" -> ~ IsDir(cur.path) /\ \E pkg \in cur.into : IsDirIn(fs[pkg], Destination)

PlaceError ==
    /\ pc = "place"
    /\ dest <= Len(rule.dests)
    /\ \E e \in {"mkdirs", "dir-in-the-way"} : PlaceFails(e) /\ Fail(e)

Place ==
    /\ pc = "place"
    /\ dest <= Len(rule.dests)
    /\ ~ PlaceFails("mkdirs") /\ ~ PlaceFails("dir-in-the-way")
    /\ fs' = [pkg \in Package |->
                IF pkg \in cur.into THEN PlaceIn(fs[pkg], Destination, cur.path) ELSE fs[pkg]]
    /\ dest' = dest + 1
    /\ UNCHANGED <<pc, searchVars, cur, work, manifestVars, matcherVars, error>>

-----------------------------------------------------------------------------
(* _install_dir_recursively: everything in the directory nobody has.        *)

\* Mutant: the entries are not filtered.
UnreservedMutant(d) == Children(d)

\* The entries of directory d that go on the stack.
Unreserved(d) == {e \in Children(d) : ~ IsReserved(cur.root, e)}

Placed ==
    /\ pc = "place"
    /\ dest > Len(rule.dests)
    /\ IF IsDir(cur.path)
       THEN /\ work' = Unreserved(cur.path)
            /\ discarded' = CachedByIsReserved(cur.root, Children(cur.path))
            /\ pc' = "recurse"
       ELSE /\ pc' = "install"
            /\ UNCHANGED <<work, discarded>>
    /\ UNCHANGED <<searchVars, cur, dest, manifestVars, alreadyMatched, exactRequest, fs, error>>

\* Where entry e goes: below each destination of the match.
EntryDests(e) ==
    {DestPath(rule.dests[i], cur) \o Relative(cur.path, e) : i \in DOMAIN rule.dests}

EntryFails(e, why) ==
    \E pkg \in cur.into, d \in EntryDests(e) :
        CASE why = "mkdir-exists"    -> IsDir(e) /\ Present(fs[pkg], d)
          [] why = "unlink-nonempty" -> KindOf[e] = "symlink" /\ BelowIn(fs[pkg], d) # {}
          [] why = "unsupported"     -> KindOf[e] = "special"

EntryErrors == {"mkdir-exists", "unlink-nonempty", "unsupported"}

EntryError(e) ==
    /\ pc = "recurse"
    /\ e \in work
    /\ \E why \in EntryErrors : EntryFails(e, why) /\ Fail(why)

\* A destination directory that was itself replaced in the meantime is
\* detached from the package: what goes into it is lost.
PutEntry(t, e) ==
    LET ds == {d \in EntryDests(e) : IsDirIn(t, Parent(d))}
        gone == UNION {BelowIn(t, d) : d \in ds}
    IN  [x \in (DOMAIN t \ gone) \cup ds |->
            IF x \in ds THEN [kind |-> KindOf[e], src |-> e] ELSE t[x]]

\* Mutants: the entry is not reserved; a subdirectory is not descended into.
InstallEntryUnreserved(e) ==
    /\ pc = "recurse"
    /\ e \in work
    /\ \A why \in EntryErrors : ~ EntryFails(e, why)
    /\ fs' = [pkg \in Package |->
                IF pkg \in cur.into THEN PutEntry(fs[pkg], e) ELSE fs[pkg]]
    /\ work' = (work \ {e}) \cup Unreserved(e)
    /\ discarded' = CachedByIsReserved(cur.root, Children(e))
    /\ UNCHANGED <<pc, searchVars, cur, dest, manifestVars, alreadyMatched, exactRequest, error>>
InstallEntryShallow(e) ==
    /\ pc = "recurse"
    /\ e \in work
    /\ \A why \in EntryErrors : ~ EntryFails(e, why)
    /\ alreadyMatched' = [alreadyMatched EXCEPT ![e] = rule.into]
    /\ fs' = [pkg \in Package |->
                IF pkg \in cur.into THEN PutEntry(fs[pkg], e) ELSE fs[pkg]]
    /\ work' = work \ {e}
    /\ UNCHANGED <<pc, searchVars, cur, dest, manifestVars, exactRequest, discarded, error>>

\* reserve() takes the rule's packages, not the match's.
InstallEntry(e) ==
    /\ pc = "recurse"
    /\ e \in work
    /\ \A why \in EntryErrors : ~ EntryFails(e, why)
    /\ alreadyMatched' = [alreadyMatched EXCEPT ![e] = rule.into]
    /\ fs' = [pkg \in Package |->
                IF pkg \in cur.into THEN PutEntry(fs[pkg], e) ELSE fs[pkg]]
    /\ work' = (work \ {e}) \cup Unreserved(e)
    /\ discarded' = CachedByIsReserved(cur.root, Children(e))
    /\ UNCHANGED <<pc, searchVars, cur, dest, manifestVars, exactRequest, error>>

FinishMatch ==
    /\ pc = "recurse"
    /\ work = {}
    /\ pc' = "install"
    /\ UNCHANGED <<searchVars, placeVars, manifestVars, matcherVars, fs, error>>

FinishPattern ==
    /\ pc = "install"
    /\ matches = <<>>
    /\ NextPattern
    /\ UNCHANGED <<rule, dirs, todo, placeVars, manifestVars, matcherVars, fs, error>>

-----------------------------------------------------------------------------
(* detect_missing: files, and directories with nothing in them.  The roots   *)
(* are searched in the order of their configuration, which is left open.     *)

MustBeHandled(root) == {p \in Beneath(root) : IsDir(p) => Children(p) = {}}
NotInstalled(root) == {p \in MustBeHandled(root) : ~ IsReserved(root, p)}

Detect(root) ==
    /\ pc = "detect"
    /\ root \in toDetect
    /\ toDetect' = toDetect \ {root}
    /\ discarded' = CachedByIsReserved(root, MustBeHandled(root))
    /\ IF NotInstalled(root) # {}
       THEN pc' = "failed" /\ error' = "not-installed"
       ELSE UNCHANGED <<pc, error>>
    /\ UNCHANGED <<searchVars, placeVars, toStage, rulesLeft,
                   alreadyMatched, exactRequest, fs>>

AllDetected ==
    /\ pc = "detect"
    /\ toDetect = {}
    /\ pc' = "done"
    /\ UNCHANGED <<searchVars, placeVars, manifestVars, matcherVars, fs, error>>

\* An error ends the build, a table of packages is returned otherwise.
Ended == pc \in {"done", "failed"} /\ UNCHANGED vars

-----------------------------------------------------------------------------
Match(p) ==
    \/ MatchRootDir(p)
    \/ MatchReserved(p)
    \/ MatchExcluded(p)
    \/ MatchAndReserve(p)
    \/ MatchAndExclude(p)

Next ==
    \/ \E pkg \in Package : PerformStaging(pkg)
    \/ \E r \in RuleSpace : PerformRule(r) \/ RejectRule(r)
    \/ EndOfRules
    \/ SkipSearchDir
    \/ EnterSearchDir
    \/ \E p \in FsPath : Match(p)
    \/ LeaveSearchDir
    \/ NothingMatched
    \/ PatternMatched
    \/ NextMatch
    \/ PlaceError
    \/ Place
    \/ Placed
    \/ \E e \in FsPath : InstallEntry(e) \/ EntryError(e)
    \/ FinishMatch
    \/ FinishPattern
    \/ \E root \in CheckDirs : Detect(root)
    \/ AllDetected
    \/ Ended

\* The program is sequential: it takes its next step.
Spec == Init /\ [][Next]_vars /\ WF_vars(Next)

-----------------------------------------------------------------------------
(* Properties.                                                              *)

Matched == [path : FsPath, root : Seq(STRING), into : SUBSET Package]

\* Every variable has its type: the bookkeeping of SourcePathMatcher is total
\* on the existing paths and an error is recorded exactly when the run failed.
TypeOK ==
    /\ pc \in Phases
    /\ toStage \subseteq DOMAIN StagingRoot
    /\ rulesLeft \in Nat
    /\ rule \in RuleSpace \cup {StagingRule(pkg) : pkg \in Package} \cup {NoRule}
    /\ dirs \in Dirs
    /\ src \in Nat \ {0} /\ sd \in Nat \ {0} /\ dest \in Nat \ {0}
    /\ missing \subseteq Package
    /\ todo \subseteq FsPath
    /\ matches \in Seq(Matched)
    /\ cur \in Matched
    /\ work \subseteq FsPath
    /\ toDetect \subseteq CheckDirs
    /\ alreadyMatched \in [FsPath -> SUBSET Package]
    /\ exactRequest \subseteq Package \X FsPath
    /\ discarded \in [FsPath -> DiscardStates]
    /\ DOMAIN fs = Package
    /\ error \in Errors
    /\ (pc = "failed") <=> (error # "none")

\* MANIFEST-FORMAT.md: "Once a path has been matched, it can no longer be
\* matched by future rules".  reserve() overwrites an entry without looking;
\* no step ever changes who has a path.
FirstMatchWins ==
    [][\A p \in FsPath : Claimed(p) => alreadyMatched'[p] = alreadyMatched[p]]_vars

\* What the manifest discarded is claimed by nobody, and a claimed path that
\* a plugin's rule discards was asked for by its exact name.
DiscardRespected ==
    \A p \in FsPath : Claimed(p) =>
        \/ discarded[p] = "not"
        \/ discarded[p] = "plugin" /\ \E pkg \in Package : <<pkg, p>> \in exactRequest

\* A discard is never taken back: not by a later rule, not by the cache.
DiscardIsFinal ==
    [][\A p \in FsPath : discarded[p] # "unchecked" =>
          \/ discarded'[p] = discarded[p]
          \/ discarded'[p] = "manifest" /\ ~ Claimed(p)]_vars

\* An exact path is installed into a package at most once: the second request
\* always fails earlier, as "already reserved".
ExactTwiceNeverReached == error # "exact-twice"

\* Nothing gets into a package that is not reserved for it.
NothingUnclaimedInstalled ==
    \A pkg \in Package : \A d \in DOMAIN fs[pkg] :
        fs[pkg][d].src # NoSource => pkg \in alreadyMatched[fs[pkg][d].src]

\* The stack of _install_dir_recursively holds free paths only, and no path
\* twice: the children of an entry are not on it.
StackIsFresh ==
    \A e \in work : ~ Claimed(e) /\ discarded[e] = "not" /\ Children(e) \cap work = {}

Idle == pc \in {"rules", "detect", "done"}

InstalledIn(pkg, p) == \E d \in DOMAIN fs[pkg] : fs[pkg][d].src = p

\* Between two rules, a directory somebody has is complete: everything in it is
\* reserved or discarded, so no later rule can take a part of it.
ClaimedDirIsComplete ==
    pc = "rules" =>
        \A d \in FsPath : \A i \in DOMAIN dirs :
            (Claimed(d) /\ IsPrefix(dirs[i].root, d)) =>
                \A c \in Children(d) : IsReserved(dirs[i].root, c)

\* A pattern of an install rule takes the paths of a package from one search
\* directory: once a directory had a match, later ones are not used for it.
OneSearchDirPerPackage ==
    \A i, j \in DOMAIN matches :
        matches[i].into \cap matches[j].into # {} => matches[i].root = matches[j].root

\* What is reserved for a package is in it: with destinations that keep the
\* path, one search directory and enabled rules, nothing gets lost or
\* overwritten between two rules.
ReservedIsInstalled ==
    Idle => \A p \in FsPath : ~ IsDir(p) =>
                \A pkg \in alreadyMatched[p] : InstalledIn(pkg, p)

\* MANIFEST-FORMAT.md on discard: a directory is discarded along with all its
\* contents, and "a path that is discarded, is considered handled when debputy
\* checks for paths you might have forgotten to install".
DiscardedIsHandled ==
    error = "not-installed" =>
        \E root \in CheckDirs : \E p \in MustBeHandled(root) :
            ~ Claimed(p) /\ \A d \in Chain(root, p) : discarded[d] # "manifest"

\* MANIFEST-FORMAT.md on "as": the source matches exactly one path that is not
\* matched yet (for each package: two packages may have different directories).
SingleMatchEnforced ==
    (pc = "install" /\ rule.single) =>
        \A i, j \in DOMAIN matches :
            i # j => matches[i].into \cap matches[j].into = {}

\* MANIFEST-FORMAT.md on discard: a rule may name any directory that is a search
\* directory, "listing other paths will make debputy report an error".
KnownSearchDirsAccepted ==
    error = "unknown-search-dir" =>
        \E r \in RuleSpace : \E i \in DOMAIN r.limit :
            \A s \in ToSet(SearchDirs) : r.limit[i] # Normalized(s.root)

\* The comment in _match_pattern: "discard rules must match provided at least one
\* search dir exist".  A pattern that nothing in any of them matches ends the
\* build, unless required-when excuses it.
EmptyDiscardIsReported ==
    [][(/\ Searched /\ rule.type = "discard" /\ rule.holds
        /\ \E i \in DOMAIN dirs : dirs[i].root \in FsPath /\ IsDir(dirs[i].root)
        /\ \A i \in DOMAIN dirs : Yields(Pattern, dirs[i].root) = {})
       => error' = "no-match"]_vars

\* Every run comes to an end, with an error or with packages.
Termination == <>(pc \in {"done", "failed"})

\* The abstract promise: a path is free until it is claimed or discarded, for
\* good.
claim ==
    [p \in FsPath |->
        [status |-> IF Claimed(p) THEN "claimed"
                    ELSE IF discarded[p] = "manifest" THEN "discarded" ELSE "free",
         by |-> alreadyMatched[p]]]

Claims == INSTANCE PathClaims WITH Path <- FsPath
ClaimsSpec == Claims!Spec

=============================================================================
