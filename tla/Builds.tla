------------------------------- MODULE Builds -------------------------------
(***************************************************************************)
(* The build systems of a source package: what the tasks clean, build and   *)
(* binary of Dpkg::BuildDriver do with the rules under "builds" of the       *)
(* manifest, or with the build system that was detected.  Each task is a     *)
(* process of its own, which knows of the others by what they left in the    *)
(* source tree; any command may fail and end its process there and then.     *)
(* The order of the tasks is the caller's.                                   *)
(***************************************************************************)
EXTENDS Naturals, Sequences, FiniteSets

CONSTANTS
    ArchAll, ArchAny,   \* the packages a build of everything acts on
    OtherPackage,       \* those of other architectures and build profiles
    Udeb,               \* the packages of type udeb
    Manifests,          \* see below
    UsesDebhelper,      \* dh_assistant answers for this package
    DefaultEnv,         \* default-build-environment, or nothing but the flags
    BaseEnv,            \* what the caller has in the environment
    NoName,             \* the name of a rule without one
    Numbered,           \* "bno_0", "bno_1", ... in a sequence
    MaxTasks            \* bound: tasks run in the source tree

Package == ArchAll \cup ArchAny \cup OtherPackage
Deb == Package \ Udeb
Tasks == {"clean", "build", "build-arch", "build-indep",
          "binary", "binary-arch", "binary-indep"}
Binary == {"binary", "binary-arch", "binary-indep"}

\* should_be_acted_on
Active(t) ==
    CASE t \in {"build-indep", "binary-indep"} -> ArchAll
      [] t \in {"build-arch", "binary-arch"}   -> ArchAny
      [] OTHER                                 -> ArchAll \cup ArchAny

(***************************************************************************)
(* A source package is a record                                             *)
(*   given      its manifest has "builds"                                   *)
(*   rules      those rules, in their order                                 *)
(*   upstream   the files in its root that detectors look for               *)
(* and a build rule is a record                                             *)
(*   system     the build system                                            *)
(*   name       its name, or NoName                                         *)
(*   for        the packages it is for                                      *)
(*   holds      what its condition evaluates to (TRUE without one)          *)
(*   buildDir   build-directory, or "" without one                          *)
(*   inSource   perform-in-source-build                                     *)
(*   directory  of a Makefile: "." is the source root                       *)
(*   direct     install-directly-to-package                                 *)
(*   env        its environment: [set, override, unset]                     *)
(***************************************************************************)
Required == {"cmake", "meson"}
ByDefault == {"autoconf", "qmake", "qmake6"}
NotSupported == {"make", "perl-build", "perl-makemaker"}
Systems == Required \cup ByDefault \cup NotSupported \cup {"debhelper"}

ASSUME PackageAssumption ==
    /\ ArchAll \cap ArchAny = {}
    /\ OtherPackage \cap (ArchAll \cup ArchAny) = {}
    /\ MaxTasks \in Nat

ASSUME RuleAssumption ==
    \A m \in Manifests : \A i \in 1..Len(m.rules) :
        LET r == m.rules[i]
        IN  /\ r.system \in Systems
            /\ r.for \in (SUBSET Package) \ {{}}
            /\ r.direct => \E p \in Package : r.for = {p}

\* What the names of the rules, of the packages and debputy's own must not
\* have in common for the builds to be apart.
ASSUME NamesAssumption ==
    /\ {"deb", "udeb"} \cap Package = {}
    /\ \A i, j \in DOMAIN Numbered : Numbered[i] = Numbered[j] => i = j
    /\ \A i \in DOMAIN Numbered : Numbered[i] \notin Package \cup {"deb", "udeb"}
    /\ \A m \in Manifests :
        /\ DOMAIN m.rules = 1..Len(m.rules) /\ DOMAIN m.rules \subseteq DOMAIN Numbered
        /\ \A i \in DOMAIN m.rules :
            /\ \A j \in DOMAIN Numbered : m.rules[i].name # Numbered[j]
            /\ \A j \in DOMAIN m.rules :
                m.rules[i].name = m.rules[j].name => i = j \/ m.rules[i].name = NoName

VARIABLES
    manifest,   \* of the source package
    disk,       \* what is in the source tree and not upstream's: see Left
    task,       \* the process that runs, or "none"
    rules,      \* its build rules
    idx,        \* the one at work
    stage,      \* of it, or of the process
    environ,    \* os.environ
    backups,    \* the environments to go back to
    scheduled,  \* for removal: CleanHelperImpl.dirs_to_remove
    last,       \* how the last process ended
    tasks       \* counts up to MaxTasks

vars == <<manifest, disk, task, rules, idx, stage, environ, backups, scheduled, last, tasks>>

process == <<task, rules, idx, stage, environ, backups, scheduled>>

-----------------------------------------------------------------------------
(* Places.                                                                  *)

SourceDir(directory) == <<"source", directory>>
BuildDir(tag) == <<"_build", tag>>
GivenDir(dir) == <<"given", dir>>
DestDir(stem) == <<"debian/tmp", stem>>
PackageDir(p) == <<"debian", p>>
Scratch == <<"debian/.debputy", "">>
\* What dh_autoreconf has changed, and what other commands of debhelper left.
Reconf == <<"debian/autoreconf.before", "">>
Debhelper == <<"debian/.debhelper", "">>

\* The directory at a place, or what was added to upstream's files there, is
\* the work of the rule number "by", of a build system (or of its configure
\* script, which failed); 0 is debputy itself.
Left(place, by, system) == [place |-> place, by |-> by, system |-> system]
At(place) == {e \in disk : e.place = place}

-----------------------------------------------------------------------------
(* assign_stems                                                             *)

\* Mutant: every rule for all the debs is taken for the only one.
StemsMutant(rs) ==
    [i \in DOMAIN rs |->
        IF Len(rs) = 1 THEN ""
        ELSE IF rs[i].name # NoName THEN rs[i].name
        ELSE IF rs[i].for = Deb THEN "deb"
        ELSE Numbered[i]]

Stems(rs) ==
    LET reserved == {rs[i].name : i \in DOMAIN rs}
        unnamed == {i \in DOMAIN rs : rs[i].name = NoName}
        debOnly == {i \in unnamed : rs[i].for = Deb}
        udebOnly == {i \in unnamed : rs[i].for = Udeb} \ debOnly
        only(p) == {i \in unnamed : rs[i].for = {p}}
        lone(i) == {p \in Package : only(p) = {i} /\ p \notin reserved}
    IN  [i \in DOMAIN rs |->
            IF Len(rs) = 1 THEN ""
            ELSE IF i \notin unnamed THEN rs[i].name
            ELSE IF debOnly = {i} /\ "deb" \notin reserved THEN "deb"
            ELSE IF udebOnly = {i} /\ "udeb" \notin reserved THEN "udeb"
            ELSE IF lone(i) # {} THEN CHOOSE p \in lone(i) : TRUE
            ELSE Numbered[i]]

\* _check_characteristics, but for the choice of the directory.
Invalid(r) ==
    \/ r.inSource /\ (r.buildDir # "" \/ r.system \in Required)
    \/ r.system \in NotSupported /\ r.buildDir # ""

\* _pick_build_dir and build_directory
BuildPlace(rs, i) ==
    LET r == rs[i]
    IN  IF r.buildDir # "" THEN GivenDir(r.buildDir)
        ELSE IF r.system \in Required \cup ByDefault /\ ~ r.inSource
        THEN BuildDir(IF r.name # NoName THEN r.name ELSE Stems(rs)[i])
        ELSE SourceDir(r.directory)

OutOfSource(rs, i) == BuildPlace(rs, i) # SourceDir(rs[i].directory)

\* resolve_dest_dir
DestPlace(rs, i) ==
    IF rs[i].direct THEN PackageDir(CHOOSE p \in rs[i].for : TRUE)
    ELSE DestDir(Stems(rs)[i])

-----------------------------------------------------------------------------
(* auto_detect_buildsystem                                                  *)

\* auto_detect_build_system of each; dh_assistant knows all of the files.
Detects(s, files) ==
    \/ s = "make" /\ "Makefile" \in files
    \/ s = "perl-build" /\ "Build.PL" \in files
    \/ s = "perl-makemaker" /\ "Makefile.PL" \in files
    \/ s = "autoconf" /\ "configure.ac" \in files
    \/ s = "cmake" /\ "CMakeLists.txt" \in files
    \/ s = "meson" /\ "meson.build" \in files
    \/ s \in {"qmake", "qmake6"} /\ "main.pro" \in files
    \/ s = "debhelper" /\ UsesDebhelper /\ files # {}

\* Mutant: MakeMaker does not shadow make.
ShadowsMutant(s) ==
    CASE s = "debhelper"      -> {}
      [] s = "make"           -> {"debhelper"}
      [] s = "perl-makemaker" -> {"debhelper"}
      [] OTHER                -> {"debhelper", "make"}

\* auto_detection_shadows_build_systems
Shadows(s) ==
    CASE s = "debhelper"  -> {}
      [] s = "make"       -> {"debhelper"}
      [] s = "perl-build" -> {"debhelper", "make", "perl-makemaker"}
      [] OTHER            -> {"debhelper", "make"}

\* The Makefile of upstream is overwritten; others get one when they are
\* configured in the source root.
Generates(s) == IF s \in {"perl-makemaker", "autoconf", "qmake", "qmake6"} THEN {"Makefile"} ELSE {}
RootFiles == manifest.upstream \cup UNION {Generates(e.system) : e \in At(SourceDir("."))}

Options == {s \in Systems : Detects(s, RootFiles)}
Remaining == Options \ UNION {Shadows(s) : s \in Options}

Automatic(s) ==
    [system |-> s, name |-> NoName, for |-> Package, holds |-> TRUE, buildDir |-> "",
     inSource |-> FALSE, directory |-> ".", direct |-> Cardinality(Package) = 1,
     env |-> DefaultEnv]

-----------------------------------------------------------------------------
(* Environments: functions of the variables that are set.                   *)

Overlay(f, g) ==
    [v \in DOMAIN f \cup DOMAIN g |-> IF v \in DOMAIN g THEN g[v] ELSE f[v]]
Without(f, vs) == [v \in DOMAIN f \ vs |-> f[v]]

\* remove_unnecessary_env
Necessary(env) == Without(env, {"XDG_CACHE_HOME"})

\* dpkg-buildflags looks at the environment it is given.
BuildFlags(env) ==
    [v \in {"CFLAGS"} |->
        <<"-g">> \o (IF "DEB_CFLAGS_APPEND" \in DOMAIN env
                     THEN env["DEB_CFLAGS_APPEND"] ELSE <<>>)]

\* update_env
Updated(def, env) ==
    LET given == Overlay(env, def.set)
        computed == Overlay(given, BuildFlags(given))
    IN  Without(Overlay(computed, def.override), def.unset)

-----------------------------------------------------------------------------
(* Processes.                                                               *)

Plain == [set |-> [v \in {} |-> <<>>], override |-> [v \in {} |-> <<>>], unset |-> {}]

Init ==
    /\ manifest \in Manifests
    /\ disk = {}
    /\ task = "none"
    /\ rules = <<>>
    /\ idx = 0
    /\ stage = "none"
    /\ environ = BaseEnv
    /\ backups = <<>>
    /\ scheduled = {}
    /\ last = [task |-> "none", outcome |-> "none"]
    /\ tasks = 0

Ends(outcome) ==
    /\ task' = "none"
    /\ rules' = <<>>
    /\ idx' = 0
    /\ stage' = "none"
    /\ environ' = BaseEnv
    /\ backups' = <<>>
    /\ scheduled' = {}
    /\ last' = [task |-> task, outcome |-> outcome]
    /\ UNCHANGED <<manifest, tasks>>

Goes(next) ==
    /\ stage' = next
    /\ UNCHANGED <<manifest, task, rules, last, tasks>>

Starts(t) ==
    /\ task = "none" /\ tasks < MaxTasks
    /\ tasks' = tasks + 1
    /\ UNCHANGED <<manifest, disk, environ, backups, scheduled>>

Begin(t, rs) ==
    /\ task' = t
    /\ rules' = rs
    /\ idx' = 1
    /\ stage' = "rule"
    /\ UNCHANGED last

StartGiven(t) == manifest.given /\ Starts(t) /\ Begin(t, manifest.rules)

StartDetected(t) ==
    /\ ~ manifest.given
    /\ \/ Remaining = {} /\ Options = {} /\ Begin(t, <<>>)
       \/ \E s \in Remaining : Remaining = {s} /\ Begin(t, <<Automatic(s)>>)
    /\ Starts(t)

\* "Multiple build systems match", or they all shadow each other.
StartAmbiguous(t) ==
    /\ ~ manifest.given
    /\ Options # {} /\ Cardinality(Remaining) # 1
    /\ Starts(t)
    /\ last' = [task |-> t, outcome |-> "ambiguous"]
    /\ UNCHANGED <<task, rules, idx, stage>>

Rule == rules[idx]
MoreRules == stage = "rule" /\ idx <= Len(rules)
\* A build system that was detected is for whatever is built.
Skipped == manifest.given /\ (Rule.for \cap Active(task) = {} \/ ~ Rule.holds)

SkipRule ==
    /\ MoreRules /\ Skipped
    /\ idx' = idx + 1
    /\ Goes("rule")
    /\ UNCHANGED <<disk, environ, backups, scheduled>>

\* perform_builds enters the environment of a detected build system twice.
Nesting == IF ~ manifest.given /\ task # "clean" THEN 2 ELSE 1

\* in_build_env
EnterEnv ==
    /\ MoreRules /\ ~ Skipped
    /\ environ' = Updated(Rule.env, Necessary(environ))
    /\ backups' = Append(backups, Necessary(environ))
    /\ Goes(IF Len(backups) + 1 < Nesting THEN "rule"
            ELSE IF task = "clean" THEN "clean" ELSE "configure")
    /\ UNCHANGED <<disk, idx, scheduled>>

\* Mutant: what the environment of a rule has set stays for the next.
LeaveEnvMutant ==
    /\ stage = "leave"
    /\ environ' = environ
    /\ backups' = SubSeq(backups, 1, Len(backups) - 1)
    /\ idx' = IF Len(backups) = 1 THEN idx + 1 ELSE idx
    /\ Goes(IF Len(backups) = 1 THEN "rule" ELSE "leave")
    /\ UNCHANGED <<disk, scheduled>>

LeaveEnv ==
    /\ stage = "leave"
    /\ environ' = backups[Len(backups)]
    /\ backups' = SubSeq(backups, 1, Len(backups) - 1)
    /\ idx' = IF Len(backups) = 1 THEN idx + 1 ELSE idx
    /\ Goes(IF Len(backups) = 1 THEN "rule" ELSE "leave")
    /\ UNCHANGED <<disk, scheduled>>

InvalidRule ==
    /\ stage \in {"configure", "clean"}
    /\ Invalid(Rule)
    /\ Ends("invalid")
    /\ UNCHANGED disk

-----------------------------------------------------------------------------
(* perform_build of a rule.                                                 *)

Work(place) == {Left(place, idx, Rule.system)}

\* dh_autoreconf is run once for all rules.
Autoreconf ==
    IF "configure.ac" \in manifest.upstream /\ At(Reconf) = {} THEN Work(Reconf) ELSE {}

\* What a step adds to the tree, at the latest when it is through.  With make
\* there is nothing to configure.
Configured ==
    CASE Rule.system = "make"      -> {}
      [] Rule.system = "debhelper" ->
            Work(BuildPlace(rules, idx)) \cup Work(Debhelper) \cup Autoreconf
      [] Rule.system = "autoconf"  -> Work(BuildPlace(rules, idx)) \cup Autoreconf
      [] OTHER                     -> Work(BuildPlace(rules, idx))

\* A configure script that fails has written a log, but not the Makefile.
Failed ==
    IF stage = "configure" /\ Rule.system \in {"autoconf", "debhelper"}
    THEN {Left(BuildPlace(rules, idx), idx, "failed")} ELSE {}

Product ==
    CASE stage = "configure" -> Configured
      [] stage = "build"     -> Work(BuildPlace(rules, idx))
      [] stage = "install"   -> Work(DestPlace(rules, idx))
      [] stage = "assemble"  -> {Left(Scratch, 0, "none")}
      [] OTHER               -> {}

\* relative_from_builddir_to_source() without a path returns None for builds
\* in the source directory, and joins None to it for the others.
WantsSourceDir ==
    IF OutOfSource(rules, idx) THEN Rule.system \in Required
    ELSE Rule.system \in {"qmake", "qmake6"}

ConfigureCrashes ==
    /\ stage = "configure" /\ ~ Invalid(Rule) /\ WantsSourceDir
    /\ disk' = IF OutOfSource(rules, idx) THEN disk \cup Product ELSE disk
    /\ Ends("crash")

Follows(s) ==
    CASE s = "configure" -> "build"
      [] s = "build"     -> "test"
      [] s = "test"      -> "install"
      [] s = "install"   -> "leave"

\* configure_impl, build_impl, test_impl (or none) and install_impl.
BuildStep ==
    /\ stage \in {"configure", "build", "test", "install"}
    /\ stage = "configure" => ~ Invalid(Rule) /\ ~ WantsSourceDir
    /\ disk' = disk \cup Product
    /\ Goes(Follows(stage))
    /\ UNCHANGED <<idx, environ, backups, scheduled>>

\* assemble() keeps what it makes in the scratch directory.
Assemble ==
    /\ stage = "assemble"
    /\ disk' = disk \cup Product
    /\ Ends("ok")

-----------------------------------------------------------------------------
(* perform_clean.                                                           *)

\* clean_impl: the targets of upstream's Makefile, "Build realclean" or
\* dh_auto_clean, always from the source root and only for what is built
\* there; dh_auto_clean also knows the build directory.
UndoneBy(rs, i) ==
    IF rs[i].system = "debhelper" THEN {BuildPlace(rs, i)}
    ELSE IF OutOfSource(rs, i) THEN {} ELSE {SourceDir(".")}

\* There has to be a Makefile (or a Build) to clean with.
Undone ==
    LET own == {e \in disk : e.by = idx /\ e.place \in UndoneBy(rules, idx)}
    IN  IF stage = "clean" /\ \E e \in own : e.system # "failed" THEN own ELSE {}

\* A command fails, or cannot be run: with or without what it was to do.
StepFails ==
    /\ stage \in {"configure", "build", "test", "install", "clean", "assemble"}
    /\ stage \in {"configure", "clean"} => ~ Invalid(Rule)
    /\ stage = "configure" => ~ WantsSourceDir
    /\ disk' \in {disk, disk \cup Failed, (disk \ Undone) \cup Product}
    /\ Ends("command")

CleanStep ==
    /\ stage = "clean" /\ ~ Invalid(Rule)
    /\ disk' = disk \ Undone
    /\ scheduled' = scheduled
           \cup {p \in {BuildPlace(rules, idx)} :
                    OutOfSource(rules, idx) /\ \E e \in disk' : e.place = p}
           \cup {p \in {DestPlace(rules, idx)} : ~ Rule.direct}
    /\ Goes("leave")
    /\ UNCHANGED <<idx, environ, backups>>

\* "Defined but empty disables the auto-detected build system", and clean.
RulesDone ==
    /\ stage = "rule" /\ idx > Len(rules)
    /\ UNCHANGED disk
    /\ \/ /\ task \notin Binary
          /\ task = "clean" => manifest.given /\ rules = <<>>
          /\ Ends("ok")
       \/ /\ task \in Binary
          /\ Goes("assemble")
          /\ UNCHANGED <<idx, environ, backups, scheduled>>
       \/ /\ task = "clean" /\ ~ (manifest.given /\ rules = <<>>)
          /\ Goes("remove")
          /\ UNCHANGED <<idx, environ, backups, scheduled>>

\* The places a removal is about.
Removes ==
    CASE stage = "remove"    -> scheduled \cup {PackageDir(p) : p \in Package}
      [] stage = "dh"        -> {Reconf, Debhelper}
      [] stage = "buildtree" -> {DestDir("")}
      [] stage = "scratch"   -> {Scratch}

Removal == {"remove", "dh", "buildtree", "scratch"}
Doomed == {e \in disk : e.place \in Removes}

NextRemoval ==
    CASE stage = "remove"    -> "dh"
      [] stage = "dh"        -> "buildtree"
      [] stage = "buildtree" -> "scratch"

\* rm -fr; dh_autoreconf_clean and dh_clean, where there are traces of them;
\* dpkg-buildtree clean; and, last of all, rm -fr debian/.debputy.
Remove ==
    /\ stage \in Removal
    /\ disk' = disk \ Doomed
    /\ IF stage = "scratch" THEN Ends("ok")
       ELSE /\ Goes(NextRemoval)
            /\ UNCHANGED <<idx, environ, backups, scheduled>>

\* rm goes on after an error, and fails in the end.
RemovalFails ==
    /\ stage \in Removal
    /\ \E gone \in SUBSET Doomed : disk' = disk \ gone
    /\ Ends("command")

Next ==
    \/ \E t \in Tasks : StartGiven(t) \/ StartDetected(t) \/ StartAmbiguous(t)
    \/ SkipRule \/ EnterEnv \/ LeaveEnv \/ InvalidRule
    \/ BuildStep \/ ConfigureCrashes \/ Assemble \/ StepFails
    \/ CleanStep \/ RulesDone \/ Remove \/ RemovalFails

Spec == Init /\ [][Next]_vars

-----------------------------------------------------------------------------
(* Properties.                                                              *)

Stages == {"none", "rule", "clean", "configure", "build", "test", "install", "leave",
           "assemble"} \cup Removal
Outcomes == {"none", "ok", "command", "invalid", "crash", "ambiguous"}

TypeOK ==
    /\ manifest \in Manifests
    /\ task \in Tasks \cup {"none"}
    /\ stage \in Stages
    /\ (task = "none") <=> (stage = "none")
    /\ idx \in 0..(Len(rules) + 1)
    /\ Len(backups) <= 2
    /\ last.outcome \in Outcomes
    /\ tasks \in 0..MaxTasks

\* Every step of a build rule runs in the environment the manifest's
\* documentation derives for it from that of the caller, whichever rules and
\* environments came before: in the order set, computed, override, unset.
EnvironmentIsDocumented ==
    stage \in {"configure", "build", "test", "install", "clean"} =>
        environ = Updated(Rule.env, Necessary(BaseEnv))

\* Two rules never share a directory that debputy derives for them, not even
\* over several tasks that act on different packages: no rule finds, installs
\* or overwrites what is another's.
Derived(place) == place[1] \in {"_build", "debian/tmp"}
BuildsAreApart ==
    \A e, f \in disk : e.place = f.place /\ Derived(e.place) => e.by = f.by

\* A clean that no command fails in, and no error in the manifest, leaves
\* nothing, whatever was built for which packages and wherever that failed; but
\* for what a configure script that failed left in the source directory.
CleanUndoesBuilds ==
    last.task = "clean" /\ last.outcome \in {"ok", "ambiguous"} /\ task = "none" =>
        \A e \in disk : e.system = "failed" /\ e.place = SourceDir(".")
=============================================================================
