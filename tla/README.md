# A TLA+ verification project for debputy

debputy builds Debian binary packages out of the files an upstream build system
installed. Its manifest says which paths go into which package; the program
matches the paths, reserves them, puts them into one in-memory file system per
package, transforms those, runs the plugins, and writes the `.deb` files.

The project models the part of the program whose answers depend on *everything
that happened before*: who gets which path, what the file system of a package looks
like after a series of operations on it, what the transformations make of it, which
services a rule reaches, what is in the `.deb` files in the end, what the builds leave
in the source tree and a clean takes away, and what the language server shows while
documents change under it. It consists of TLA+ modules,
TLC configurations, and theorems checked by TLAPS.

Source references are to files below `src/src/debputy/` unless they name another
directory.

## 1. Inventory

| Component | State | Operations | Hard part | What makes it correct |
|---|---|---|---|---|
| Installation rules, `installations.py` | `_already_matched`, `_discarded`, `_exact_match_request` of the `SourcePathMatcher` shared by all rules | match and reserve, discard, install recursively, detect what is missing | order of rules; verdicts cached for parents; directories installed entry by entry; failure half way | a path is claimed once, a discard is final, everything claimed is installed, everything else is reported |
| Installation phase, `highlevel_manifest.py` 1191-1440 | the rules left, the packages' file systems | staging rules, manifest rules, detection | errors of staging rules are swallowed | the claims of the rules before hold whatever fails |
| Order of search directories, `highlevel_manifest.py` 1528-1628 | a table of directories, each with what must precede it | merge the packages' lists | passes over a shrinking set in hash order; cycles | every package's order is respected, or an error |
| Source tree, `filesystem_scan.py` 1568-1774 | a read-only tree seen through several roots | lookup, iteration | one path, several views | identity by `fs_path` |
| Path matching, `path_matcher.py` | none | patterns to matchers, `finditer` | many special cases | yields what the pattern says |
| Package file system, `filesystem_scan.py` 363-1566 | a mutable tree with weak parent references, path and mode caches, a read-only flag at the root | mkdir, add_file, add_symlink, insert, rename, reparent, unlink, metadata | detached nodes, renames, half-built nodes | the tree stays a tree; a name is in it iff its node is attached |
| Transformations, `transformation_rules.py` | the package file system | remove, move, symlink, directory, metadata | rules that plan, then act on a tree they change | a rule changes what it is for, and nothing else |
| Build pipeline, `deb_packaging_support.py`, `package_build/`, `commands/` | phases; read-only flag; generated files; triggers and snippets | package processors, stripping, shared libraries, detectors, assemble | packages share files and directories; files are moved away while others still refer to them | the build tree is untouched; what is frozen is what is shipped |
| Services, `deb_packaging_support.py` 923-1080, `binary_package_rules.py`, `service_management.py` | definitions by key, keys by alias | detect, apply the rules, integrate | aliases over several managers, worked off in hash order | a rule reaches exactly the services its name leads to |
| Plugin API, `plugin/api/`, `plugin/plugin_state.py` | the stack of plugin contexts, registrations | run in the context of a plugin, metadata | context restored on errors | metadata belongs to the plugin that wrote it |
| Built-in plugin, `plugin/debputy/` | none of its own | discard rules, detectors, services | independent rules | |
| Manifest parser, substitution, conditions | variables used/unused | parse | reflection | |
| Build systems, clean, `build_support/`, `build_system_rules.py` | the process environment; what earlier tasks left in the source tree | detect, build, clean, task by task | commands that fail half way; detection in a tree that builds have changed; environments within environments | rules keep apart and get the environment documented for them; a clean undoes the builds |
| Language server, `lsp/` | document versions, diagnostics in flight, caches, apt cache | open/change/close, diagnose, publish, load, shut down | asynchronous interleavings | what is shown belongs to its version, never goes back, and settles |
| Migration, linting, packaging helpers, control files | files | one-shot | | |

`PROJECT.json` lists every component with its status and, under `hazards`, each
place in the code that is hard to test, with the property that covers it.

How the parts interact: the manifest parser turns YAML into rule objects;
`perform_installations` feeds them, in order, to the one `SourcePathMatcher`,
which reads the source tree overlays; the rules write into the packages' file
systems; transformations and plugins then rewrite those, each plugin under its own
context; detectors read them; at last the root is set read-only and an
intermediate manifest is written. The language server is a separate process that
uses the parsers and linters only.

## 2. The modules

| Module | Models | Extends |
|---|---|---|
| `SourceTree` | the tree the build left behind, its views, what a pattern yields | |
| `InstallRules` | the installation phase, one action per step of the program | `SourceTree` |
| `PathClaims` | the abstract promise: a path is free, then claimed or discarded for good | |
| `SearchDirOrder` | `_determine_search_dir_order`, pass by pass | |
| `TopologicalOrder` | the abstract promise: each directory once, after all that precede it | |
| `FSTree` | the nodes of a package's file system, the private operations on them, when a tree is in order | |
| `VirtualFS` | the public operations, one action each, until the tree is frozen | `FSTree` |
| `PackageTree` | the abstract promise: a map from paths to kinds; put, drop, relocate | |
| `TreeWalk` | a lazy walk whose loop changes the tree | `VirtualFS` |
| `PathLookup` | `attempt_lookup` and `mkdirs`, part by part | `VirtualFS` |
| `PathResolution` | what a path means, link by link; the reference for `PathLookup` | `PathLookup` |
| `Transformations` | the rules that rewrite a package, one action per match | `VirtualFS` |
| `ServiceRules` | the detected services and the manifest's rules for them | |
| `Assembly` | from the package processors to the last `.deb` | |
| `LanguageServer` | messages, tasks of the event loop, diagnostics, the apt cache | |
| `Builds` | the tasks of `Dpkg::BuildDriver`: detection, environments, build rules, clean | |
| `MCInstall`, `MCSearch`, `MCSearchDirOrder`, `MCVirtualFS`, `MCTreeWalk`, `MCPathLookup`, `MCTransformations`, `MCServices`, `MCAssembly`, `MCLanguageServer`, `MCBuilds` | instances for TLC | |
| `InstallProofs`, `SearchDirOrderProofs`, `VirtualFSProofs`, `TransformationsProofs`, `ServiceRulesProofs`, `AssemblyProofs`, `LanguageServerProofs`, `BuildsProofs` | theorems | `TLAPS` |

### SourceTree

A path is a sequence of names from the source root; that is the role `fs_path`
has in the code, where it is the key of all bookkeeping. A *view* is the root a
path was reached through: `debian/tmp/x` can be an entry of the search directory
`debian/tmp` or of the source root, and the two overlay objects have different
parent chains (`Chain`) and different relative paths. A pattern is a record with
the kind of matcher, the directory or path, and the set of names its glob
accepts. `Yields` is what `_resolve_path` sees of a search directory.

### InstallRules

The manifest is not a constant: in each state in which the program would fetch its
next rule, any rule of `RuleSpace` may come, up to `MaxRules`. A behaviour is
therefore a manifest and its processing, and one run covers all manifests over a
rule space.

| Variables | In the code |
|---|---|
| `alreadyMatched`, `exactRequest`, `discarded` | `SourcePathMatcher._already_matched`, `_exact_match_request`, `_discarded` (a missing key is `{}` or `"unchecked"`) |
| `fs` | the `fs_root` of each package, as a map from paths to kind and source |
| `rule`, `dirs`, `src`, `sd`, `missing`, `todo`, `matches` | the locals of `perform_install`, `_match_pattern`, `_resolve_path` and `find_and_reserve_all_matches` |
| `cur`, `dest`, `work` | the locals of `_install_matches` and `_install_dir_recursively` |
| `toStage`, `rulesLeft`, `toDetect` | the loops of `perform_installations` |
| `pc`, `error` | where the program is, and the exception that ended it |

| Actions | In the code |
|---|---|
| `PerformStaging`, `PerformRule`, `RejectRule`, `EndOfRules` | `perform_installations`, `DiscardRule.perform_install` |
| `SkipSearchDir`, `EnterSearchDir`, `LeaveSearchDir` | the loop of `_resolve_path` |
| `MatchRootDir`, `MatchReserved`, `MatchExcluded`, `MatchAndReserve`, `MatchAndExclude` | one iteration of `find_and_reserve_all_matches` with `may_match`, and what `may_match` leaves in the cache |
| `NothingMatched`, `PatternMatched` | the end of `_match_pattern`, `_check_single_match` |
| `NextMatch`, `Place`, `PlaceError`, `Placed` | `_install_matches`, one destination at a time |
| `InstallEntry`, `EntryError`, `FinishMatch` | one iteration of `_install_dir_recursively` |
| `FinishPattern` | the next source of the rule |
| `Detect`, `AllDetected` | `_detect_missing_installations` |

Decisions worth knowing:

- `_check_plugin_provided_exclude_state_for` walks towards the root of the view
  and caches its verdict for every path it passed. `Decisive` is where the walk can
  stop, `ExcludeState` its verdict, `CacheMisses` what it caches. The batch form
  `CachedFor(root, S)` is what the cache looks like after the walks of all of `S`;
  that the order does not matter is a theorem (`MissesShareTheVerdict`).
- The order in which siblings come out of a directory, and the order in which the
  directories are searched for missing paths, is left open: a superset of what the
  code does, so what holds here holds there.
- The lines 372-380 of `reserve()` are not part of the model: no caller passes
  `is_exact_match=True`.
- Errors end the behaviour in `pc = "failed"`, except that the two errors of
  matching are swallowed for a staging rule.

What it abstracts: names in globs are sets, conditions are a boolean, contents,
modes and owners of files are left out, and so is everything that is only counted
for a message. Not modelled: `GenericGlobImplementation`, `PPFInstallRule`, the
destination computed by `install-man` (its filter is modelled), destinations below
a symlink (`mkdirs` would follow it; no rule of the runs installs below one).

### SearchDirOrder

One action per iteration of the loops of `_determine_search_dir_order`.

| Variables | In the code |
|---|---|
| `requested` | the argument, without the packages that asked for nothing |
| `table`, `appliesTo`, `after` | `search_dir_table`: its keys in order of insertion, and the two sets of each entry |
| `toList`, `pkg`, `idx` | the loops over the packages and over a package's list |
| `scan` | the first loop over the table |
| `order`, `released`, `remaining` | `search_dirs_in_order`, `released`, `remaining` |
| `pass`, `mark` | what the running pass has not visited; `current_released` |

| Actions | In the code |
|---|---|
| `NextPackage`, `ListPath`, `ListDone`, `TableDone` | lines 1571-1585 |
| `FirstPass`, `FirstPassDone` | lines 1588-1593, in the order of the table |
| `StartPass`, `VisitRemaining`, `EndPass` | lines 1595-1612 |
| `AppendRoot` | lines 1614-1628 |

Packages and remaining directories are Python sets, so the model visits them in any
order. A directory stays in `remaining` after it was released, until the pass is
over, as in the code. A package may list the source root itself; it then comes
twice, once for that package and at the end for all.

`MayRelease(d)` is the whole of the algorithm's knowledge. What is not obvious is
that the result is the same for every order of iteration as far as a single package
can see it (`PackageSeesItsList`), that no order comes out of contradictory lists
(`DoneMeansNoKnot`), and that no consistent lists are rejected
(`CircularMeansKnot`).

### FSTree and VirtualFS

The file system of a package is a tree of nodes that callers hold references to. A
node has a name and a (weak) reference to its parent, a directory has a dictionary
of children; the two are kept consistent by hand, in the setters of `parent_dir` and
`name`. A third record is the path, which each node keeps together with the path its
parent had at the time.

| Field of `tree` | In the code |
|---|---|
| `kind`, `name`, `parent`, `child` | the class, `_basename`, `_parent_dir`, `_children`; `unborn` is a node not made yet |
| `last` | `_last_known_parent_path` |
| `cache` | `_parent_path_cache` and `_path_cache` |

`FSTree` has the operations as functions from trees to trees, named after what they
do: `Unlist` (`del old_parent_children[...]`), `Detach` and `SetParent` (the
`parent_dir` setter without and with a new parent), `Attach` (its second half with
`_add_child`, which unlinks what has the name), `Rename`, `Create`, `Pruned`,
`WithoutItem`. `Detached` asks the parents, as `is_detached` does. The garbage
collector can only make the parent of a detached node disappear, which `is_detached`
does not tell from a node without parent. `VirtualFS` has one action per public
operation, with the guards of the code: an operation that raises before it changes
anything is no step. Two of the actions are steps of `TreeWalk` only: `DelItem`, after
which `AttachedIsPresent` is false (section 6), and `AskPath`, as the caches it fills
multiply the trees beyond what one run can visit.

Its callers are assumed to keep off detached nodes, except for removing, renaming
and asking for the path. The documentation asks that of them, and the code depends on
it: a detached directory still lists its children, so a child that is moved out of it
would be listed twice once the directory is moved back. Moving a directory below
itself is not modelled either: it ends in a `RecursionError`.

`PackageTree` is what a caller sees who only knows paths. `Contents` finds the
paths by name from the root, as the list of members of `data.tar` is made, and never
looks at `parent`; that all else is consistent with it is what the properties say.

### TreeWalk

`all_paths()` and `walk()` are generators: `NextPath` is what happens between two
values, `Change` any operation of `VirtualFS`, `DelItem` and `AskPath` included, by
the body of the loop. `all_paths()`
opens a directory when the loop asks for what comes after it; `walk()` lists it before
and lets the body clear the list. `yielded` is the path the body of the loop has,
`children` the list of `walk()`, `stack` what comes next. The variables `seen`, `stayed`,
`lost` and `local` are history.

### PathLookup

One action per way an iteration of `attempt_lookup` can go (`phase` is `lookup`), and then
those of `mkdirs`, whose single directories are `MkDir` of `VirtualFS`; `link_target` has
the targets of the symlinks, which nothing changes. Symlinks are expanded in
place: the parts of the target go in front of what is left. `PathResolution` defines
the meaning of a path the other way: `Leads` says where each link leads through less than
a number of others, and `Reach` where a path leads if links lead there. The depth that counts is
the number of links in the package, as a chain that runs in no circle has each of them
once at most. An absolute path has a leading `.` in the code, which is left out.

### Transformations

A rule is a record out of `Rules`; a behaviour is a package out of `InitialTrees` and
up to `MaxRules` rules, each of which may be any. The package is a tree of `FSTree`.

| Variables | In the code |
|---|---|
| `tree` | `fs_root` of the package |
| `rule`, `pc`, `rulesLeft` | the loop of `apply_fs_transformations` and the rule in it |
| `pattern`, `left`, `anyMatch` | the loops over match rules and over `list(match_rule.finditer(fs_root))`; `matched_any` |
| `target`, `names` | `target_dir` and `basenames` of a move |
| `before`, `handled` | history: the package when the rule began, and what it matched |

| Actions | In the code |
|---|---|
| `StartRemove`, `NextMatchRule`, `RemoveMatch`, `RemoveRoot`, `NothingToRemove`, `RemoveEnds` | `RemoveTransformationRule` |
| `StartMove`, `FindTarget`, `RenameMatch`, `MoveMatch` | `MoveTransformationRule`; `Renamed` keeps the order of the two assignments |
| `CreateSymlink` | `CreateSymlinkPathTransformationRule` with `_handle_existing_path` |
| `StartDirectories`, `CreateDirectory` | `CreateDirectoryTransformationRule` |
| `SkipRule` | a condition that is false; `RemoveTransformationRule` has no such test |

All matches are looked up before the first one is touched, and are nodes from then on,
wherever they have gone: that is the whole difficulty. `NextOf` leaves the order of
siblings open and keeps that of a preorder walk. An error ends the behaviour
(`failed`). Symlinks in the package lead nowhere inside it, so that no rule follows one.
`MayMake` is the bound on the number of nodes.

### ServiceRules

| Variables | In the code |
|---|---|
| `rules`, `at` | `requested_service_rules` and the loop over it |
| `table`, `aliases` | `by_service_manager_key`, `aliases_by_name` |
| `queue`, `seen` | `pending_queue`, `seen_keys` of `_relevant_service_definitions` |
| `status`, `detections` | how far the package is; the bound on detected services |

`CheckManagers` rejects unknown managers, `Register` is `register_service` followed by
the entry into the two tables, `BeginRule` and `ApplyRule` are the start and one
iteration of `_relevant_service_definitions` together with
`apply_to_service_definition`, `EndRule` the test for the managers the rule
insists on. `pending_queue` is a set, so that `ApplyRule` takes any of its elements.
`Reach` defines what the rule is for without the algorithm: the smallest set that is
closed under shared names.

### Assembly

A content is a sequence: the file it came from, then what was done to it (`"edited"`,
`"dwz"`, `"stripped"`, ...). A file is one the build left behind, one in a directory of
generated files, or a debug file. `disk` maps files to contents; a path of a package is
a node that refers to a file and says whether it is its own (`inline`, in the code
whether the node is a path backed by a generated file). Hence two packages, or two
paths, can have one file.

| Variables | In the code |
|---|---|
| `tree`, `debug` | `fs_root` and `dbgsym_fs_root` of each package |
| `writable` | `is_read_write` of the roots |
| `combined`, `links`, `failures`, `details` | the shared libraries found, the links in the directories for `dpkg-shlibdeps`, and what each package is told |
| `triggers`, `requested`, `snippets` | triggers and snippets of each package, and the copy of the former that is written |
| `manifest`, `packed`, `deb` | what `assemble_debs` takes from the tree, and what comes out |
| `open`, `done`, `step` | `_all_elf_files`, the loops over the ELF files and over the detectors |
| `frozen`, `seen` | history |

| Actions | In the code |
|---|---|
| `Edit`, `Compress` | package processors, and detectors that write what they may |
| `StartStrip`, `ReplaceElf`, `Dwz`, `MakeDebugFile`, `Strip`, `AttachDebug`, `FinishStrip` | `relocate_dwarves_into_dbgsym_packages` |
| `ComputeShlibs`, `Freeze` | `cross_package_control_files` |
| `Finalize`, `Detect`, `WriteControl` | `finalize_data_tar_contents`, `setup_control_files` |
| `PackDbgsym`, `Pack` | `_assemble_deb`, which moves what is generated and copies the rest |
| `ToolFails` | any external tool |

The directory for debug files is shared by all packages (`generated_content_dir` without
a package), and `MakeDebugFile` follows the code there. Static libraries, changelogs,
substvars, and the mode in which debhelper has written the control files are left out.

### LanguageServer

The event loop is `ready`, a queue of tasks. A task runs up to its next
`await asyncio.sleep(0)`, which puts it at the end of the queue. Messages change the
workspace of pygls at once and append a task; they may come between any two tasks. A
text is a record with the number of new diagnostics in each part of it, because that is
all the publication depends on.

| Variables | In the code |
|---|---|
| `doc` | the workspace of pygls |
| `table` | `_DOCUMENT_VERSION_TABLE` |
| `ready` | the event loop; a task has the locals of `_open_or_changed_document` or of `AptCache.load` |
| `shown` | what `publish_diagnostics` sent last |
| `aptState`, `packages`, `lookups` | `AptCache` |
| `down` | `shutdown` was called |
| `contents` | history: the texts each version had |

`DidOpen`, `DidChange`, `DidClose` and `Shutdown` are the messages; `StartScan`,
`PublishScan` and `CancelScan` the steps of `_open_or_changed_document`;
`Initialize`, `LoadApt` and `CancelLoading` those of the apt cache. `Hover` is
answered between any two steps. Versions are those of the client; `VersionsRestart`
says whether it counts from 1 again when a document is opened again.

### Builds

A task is a process of its own: it only knows of earlier ones by what they left in
the source tree, `disk`. Each entry of it says where something lies, which rule put it
there, and of which build system (that decides which files in the source root the
detectors see later). The caller runs tasks in any order.

| Variables | In the code |
|---|---|
| `disk` | the source tree, without upstream's files |
| `task`, `rules`, `idx`, `stage` | the process: its build rules, the one at work, the step of it |
| `environ`, `backups` | `os.environ`, and `env_backup` of each `_setup_build_env` on the stack |
| `scheduled` | `CleanHelperImpl.dirs_to_remove` |
| `last` | how the last process ended |

`StartGiven`, `StartDetected` and `StartAmbiguous` start a task, the latter two with
`auto_detect_buildsystem`. `EnterEnv` and `LeaveEnv` are the two halves of
`in_build_env`; `BuildStep` is configure, build, test or install of a rule, and
`StepFails` the same with a command that fails, before or after it had its effect.
`CleanStep` is `perform_clean` of a rule; `Remove` one of the four removals at the end
of a clean, and `RemovalFails` one that only did a part. The build systems differ in
what they put where, in what they detect and shadow, and in what their clean undoes;
their command lines are left out.

## 3. The runs

| Run | Instance | States | Shows |
|---|---|---|---|
| `claims` | `MCInstall`, every manifest of up to 3 rules out of 21 over the 8 paths of `debian/tmp/usr/{a, lib/{b, c}}`, two packages, a plugin that discards one file | 43587 | each path is claimed or discarded once and for good; the phase implements `PathClaims`; what is claimed is installed, and only that; it always ends |
| `search_dirs` | `MCSearch`, up to 2 rules over 3 search directories that apply to different packages, one of them reached through two views; a staging directory, a symlink, a special file, an unbuilt package, several destinations, documents, false conditions | 24052 | claims and discards are respected across views; a package gets its matches from one directory only; errors leave the claims intact; it always ends |
| `search_dir_order` | `MCSearchDirOrder`, three packages with lists over three directories and the root, alone or against the default | 48819 | the properties above; `TopologicalOrder` is implemented |
| `package_tree` | `MCVirtualFS`, root and three nodes, two names, all creations, replacements, removals, renames, moves, and the freeze | 65302 | parents, children and paths agree; `is_detached` is right; removed nodes know their path; `PackageTree` is implemented |
| `lazy_walk` | `MCTreeWalk`, both walks over all trees of that size, two changes anywhere, with questions for paths and `del directory[name]` | 354704 | what stays is yielded once; a loop that only changes what is below its current path is only given attached paths; the walk ends; no stale path is ever reported |
| `path_lookup` | `MCPathLookup`, packages with a directory, a symlink, and a file or another symlink; 26 requests | 196916 | lookup and `mkdirs` find what the path means, through relative, absolute, dangling and circular links; they end |
| `transformations` | `MCTransformations`, any two of 143 rules over seven packages with the names `a`, `b` on up to three levels | 59955 | a removal takes exactly the matches and what became empty; the other rules leave all but the named paths alone; nothing that a rule dropped comes back |
| `services` | `MCServices`, up to five services of two managers that share names in a chain, up to two rules | 110299 | a rule reaches exactly the services its name leads to; a package fails if and only if there is a reason |
| `assembly` | `MCAssembly`, a package with a library, one with programs, and a udeb; shared files, a program twice in a package; two edits anywhere, a failing tool anywhere | 108175 | the build tree is untouched; the `.deb` has what was frozen; no debug information is lost; removal mirrors installation; all libraries are known to all packages |
| `language_server` | `MCLanguageServer`, three documents of different sorts, three messages, an index with two versions of a package, every failure of loading, a shutdown | 400529 | diagnostics belong to their version and never go back; the last text gets all of its own; a hover tells the newest version |
| `builds` | `MCBuilds`, sixteen source packages: lists of up to three rules of eight build systems, or files to detect; four packages; three tasks of seven sorts, a failure anywhere | 154300 | each step runs in the environment documented for its rule; rules keep apart; a clean undoes what any tasks before it have left |
| `dangling_libraries` | `MCAssemblyLibraries`, as `assembly` without edits | | *violated*, see below |

Why the bounds are enough for the file system: the interesting operations involve a
node, its directory, a node in the place it goes to, and one below any of these;
three nodes under the root can play each pair of these roles, and replaced or removed
nodes stay around. Two changes during a walk are what it takes to move something
ahead of the walk and then remove it.

Why the bounds are enough for the rules: the interactions of rules are pairwise (who was first) or
of the form "look up, discard, look up again", which takes three rules; the tree has
a directory with a directory and a sibling file, so that a rule can hit a parent, a
child, and a sibling of what another rule hit. Circular lists need two directories
and two packages, an indirect circle three of each. The theorems of section 5
cover all sizes.

For the transformations, the hazards are within one rule (matches that contain each
other, that end up in each other's place, or in the target), for which three levels and
two names suffice; the second rule runs on what the first one left. For the services,
the chain `foo` - `bar` - `baz` with both ends known to the other manager is the
shortest that has to be followed through a service the rule does not name. In the
assembly, each kind of sharing occurs: a file in two packages, a file twice in one, and
a library before and after the package that uses it. Three tasks are two builds that
leave different things, for different packages, and the clean after them; three rules
are what it takes for two of them to compete for a name that the third has. Three
messages are what it takes
for one scan to be overtaken by a second one while a third is waiting; the longest text
yields three times.

`dangling_libraries` checks one statement of the changelog (`debian/changelog`:1053,
"Let dpkg-shlibdeps see SONAMEs from other packages") in the model of the code, and TLC
finds it violated: the links that `dpkg-shlibdeps` is given lead to generated files,
and those of the packages already built have been moved into their `.deb` directories.

Type invariants (`TypeOK`, `WalkTypeOK`) and some plain properties (`FirstMatchWins`,
`DiscardIsFinal`, `LostIsNotYielded`, and others) are stated in the modules and not
listed in a configuration, if a theorem (as for `LostIsNotYielded`) or a deeper property
covers them. Each listed
property has a mutant of the code that breaks it (`PROJECT.json`); its definition stands
next to what it mutates.

The run `claims` does not repeat `DiscardRespected` and `TypeOK`: they are proved, and
`search_dirs` checks the former where one file is seen through two views.

Deadlock is checked in the runs of the installation phase and of the order of search
directories: the ends of a behaviour have a step of their own (`Ended`). It is not in
the others: nobody has to call anything in the file system or to send a message to the
server or to start a task, and a walk, a lookup, a series of rules or a build is over when it is over.

## 4. Fairness

debputy's build is one sequential process: nothing preempts it and there is nothing
to wait for. `Spec` of `InstallRules` and `SearchDirOrder` and `LookupSpec` of `PathLookup` therefore have
`WF_vars(Next)`: the program takes its next step. This justifies their `Termination`.
In `TreeWalk` only `NextPath` is weakly fair: the body of the loop may do nothing, but
it returns. The bound on changes, `MaxChanges`, matters there: a loop that moves paths
ahead of the walk forever would never end. `VirtualFS` has no fairness, as nobody has
to call it; nor have `Transformations`, `ServiceRules`, `Assembly` and `Builds`, whose properties are
about what is so whenever the program stops. `LanguageServer` has `WF_vars(RunTask)`:
asyncio runs what is ready. Clients need not send anything, so that `Settles` says
`<>[]`, and the bound on messages means that they stop at some time. No stronger fairness is used; in particular the choice of the next rule, directory or sibling is
never assumed to be fair.

## 5. The proofs

Assumptions, all on constants and evaluated by TLC in each run:
`TreeAssumption` (a finite tree, closed under parents), `RuleAssumption` (what the
manifest parser guarantees of a rule), `SearchDirAssumption`,
`AutoDiscardAssumption`, `PackageAssumption`, `DirAssumption`, `NodeAssumption`
(finitely many nodes and names, a name at least), `WalkAssumption` (the names have an
order), `LookupAssumption` (a lookup is in a tree that is in order, and `mkdirs` has a path
that ends in a slash), `TransformationAssumption` (the packages are in order, and what the
manifest parser guarantees of a transformation rule), `RulesAssumption` (what
it guarantees of a service rule), `AssemblyAssumption`,
`DetectorAssumption` (detectors have ids of their own), `ServerAssumption` (a text yields
some list of diagnostics), `NamesAssumption`. They say nothing about the number of paths,
packages, rules, nodes, services, documents or directories. `NamesAssumption` is one the
code does not enforce: the names of build rules differ from each other and are not of the
form `bno_0`, and no package is called `deb`, `udeb` or so.

Some arguments are inductions, over the parents of a node, the names in a path or the
positions of a sequence. The library's induction theorems are not available to the
provers here, so the proofs take a least or a last element instead: a non-empty set
of naturals has a least one, a set of nodes without a cycle has one whose parent is not
in it.

### Installation

*InstallProofs* begins with facts about paths: which prefixes are parents, that
siblings do not contain each other, that a pattern only yields what is below the
search directory, and that a non-empty set of prefixes has exactly one longest
member (from well-foundedness of the naturals), which is what the walk towards the
root computes. Then it proves `TypeInv` (`TypeOK` and the ranges of the indices in each
phase) inductive. Its most interesting lemma is `MissesShareTheVerdict`: all the
paths the walk passed would have got the same verdict from their own walk, so caching
one verdict for all of them is sound at that moment.

Then it has the safety argument. `DiscardRespected` is not inductive:
`reserve()` overwrites whatever it finds, and `_install_dir_recursively` reserves what
it pops without looking again. The strengthening `ClaimInv` adds

- `SearchInv`: candidates and matches lie in their search directory, so the
  walk from them reaches every parent that could be discarded;
- `RequestInv`: exact requests are claimed, which makes the second error of
  `reserve` dead code (`ExactTwiceIsUnreachable`);
- `StackInv`: what is on the stack of the recursive installation is free, was looked
  up as not discarded, and no entry contains another.

From `ClaimInv` follow `FirstMatchAlwaysWins`, `DiscardsAreFinal`,
`DiscardsAreRespected`, `StackIsAlwaysFresh`, and `ClaimsAreImplemented`: every
step is a step of `PathClaims` or leaves the claims alone. Four invariants stand on top:

- `PlacementInv` for `OnlyClaimedIsInstalled`: the packages of a match have
  it reserved, and every file in a package is owned by it.
- `ServedInv` for `OneSearchDirServes`: between two search directories no match is for a
  package that is still missing, and within one such a match comes from this directory,
  which yielded something and is therefore the last for the package.
- `CompleteInv` for `ReservedDirsAreComplete`: every entry of a reserved directory is
  claimed, discarded or on the stack (`Settled`), or the recursion into the directory is
  still to come (`Awaited`). Of rules that are disabled by a condition this is false:
  they reserve a directory and do not descend into it (section 6). The theorem therefore
  has the hypothesis `AllEnabled`, which the run's configuration meets.
- `MatchedInv`, `MirrorInv`, `ArrivedInv` for `ReservedGetsInstalled`: every match is for all
  packages of its rule and they have it reserved; a package mirrors the search directory,
  directories before what is in them, so that nothing that is put into it replaces
  anything; a reserved file is in its place or still due. The hypothesis `KeepsPaths`
  (destinations that keep the path, one search directory for all packages, no staging
  directories, no disabled rules) is what the configuration of the run `claims` looks like.
  With destinations of their own two rules may install to one path; the last one wins.

*SearchDirOrderProofs*: `OrderInv` is `TypeOK` with `TableInv` (the table says what
the lists entered so far say), `ReleaseInv` (each directory is released or
remaining) and `PassInv` (in a pass that has released nothing, what was visited
cannot be released). It gives `CircularOnlyForKnots`: when a whole pass was stuck,
each remaining directory waits for a remaining one. `ContradictionsAreReported` is
the converse: nothing of a knot is ever released (`KnotInv`), because it would need
another member of the knot to be released before. `OrderIsTopological` is the
refinement. `PackagesSeeTheirLists` says what it is for: the directories of the merged
order that apply to a package are exactly those of its list, in the list's order. It
needs who has entered what (`UsersInv`), that each directory has one position after
those of all that precede it (`PositionInv`), and that two sequences with the same
elements in the same order are equal.

### The package file system

*VirtualFSProofs* is the longest module. The code keeps the same fact in three places, the
parent of a node, the list of its parent and the name under which it is listed there, and
every operation breaks the agreement half way: `parent` is set before the node is in the
list, `prune` takes off one directory after the other. `Sound(t, X)` and `Complete(t, X)`
say what holds of the nodes `X` at such a point, where `X` may have the node that
is under way. `TreeInv` is both for the nodes that are attached. The lemmas
`DetachKeeps`, `MovedKeeps`, `ListKeeps`, `AttachKeeps` are about the private steps and
compose to one lemma for each public operation.

Two things in the model are defined by recursion, the path of a node (through its
cache) and what a path leads to. `RecursionDefines` proves for every set of nodes whose
parents do not go in a circle that such a function exists and what its values are;
that there is no circle (`Acyclic`) is a part of the invariant. A cached path is right if it
*fits*: it is the cached path of the parent with the node's name. It need not be up to
date, as the code compares the parent's path before it uses the cache; that this is enough
is `PathIsTrail`.

The theorems: `TreeIsSound` (the invariant), `FileSystemTypes`, `NodesArePresent`,
`PathsAreAccurate`, `RemovedAreRemembered`, and the refinement `TreeImplementsPackage`.
For the last one, what is in the package is the set of trails of the attached nodes
(`ContentsAre`). A creation, a move and a rename all put a node at a place (`Placed`): the
nodes attached afterwards are those that stay and those that come with it, the
trails of the first are the same and those of the second have another beginning
(`ComingRebases`). A removal keeps what is beside the node (`Shrunk`), and pruning a
chain of parents is one removal, that of the topmost (`PruneIsSafe`).

The attempt showed that `PackageTree` had promised too much. Its relocation required that
the old path is gone. When a directory is moved in place of one that it is in, such
as `a/b/a` over `a`, and has a `b/a` inside, its old path exists again afterwards, as a
different node. This needs six nodes, and the run has four. The path that
is relocated may now be any but the root's.

### Walks

A loop may take a directory off its parent by name (`DelItem`), which leaves a node that
still says it is attached and is listed nowhere. Thus the invariant of a walk is weaker
than `TreeInv`: the tree is `Sound`, but need not be `Complete`. What any operation does to
such a tree is `Evolved`: what is detached stays detached, kinds do not
change, and a new node is listed where it is attached.

- `StayersAreSeenOnce` rests on `WalkState` (the tree is `Sound`, and in order until the
  walk begins; what stays is present) and on `PlaceInv`: a node in its place is yielded or
  waits on the stack once the walk is through with listing its parent and not before, unless
  it is lost, and it is on the stack, in the list of children and in what was yielded at most
  once. The difficult case is `ChangeKeeps`: whatever the body does to other nodes, one that
  is in its place is still listed by the same parent.
- `YieldedAreAttached`, by `AheadInv`: as long as the loop is local, what is on the stack
  is present, not below the current path, and not below anything earlier on the stack.
  So nothing on the stack is below what the body may take off, now or later.
- `LostAreNotYielded`, by `LostInv`: a lost node does not wait for its turn. One that is still
  attached was lost because `walk()` had its list cleared, and then nothing above it waits
  either.

### Lookups

`LookupIsRight` compares a loop that has one list of parts for all links with a
definition that resolves each link by itself. The lemmas on `Reach`:

- `ReachThrough`: the way along `ps` and then `qs` is the way along `qs` from where `ps`
  leads, where a link at the end of `ps` is followed (hence the `.` after `ps`);
- `MeansMore`: what a path means through few links in a row it means through more.

`Forward` says where the lookup is: if what is left leads somewhere from `current`
through `k` links in a row, then the path leads there from where the call began, through
`k` links and those it has expanded so far. So each link that `FollowLink` expands
costs one. Since `expanded` has no link twice, there are enough. `Backward` is the converse, for the
results `missing` and `escapes`. For `mkdirs`, which changes the tree after it has looked
up the path, `Forward` speaks of every later package that has what is in this one
(`Extends`): a link that dangled before may be the way to what `mkdirs` made. With this,
`MkdirsAreRight` only needs that a new directory under a free name extends the package
(`CreateExtends`).

The attempt found that a `CASE` of the module had two alternatives that were both true when
`mkdirs` is asked for what is there. TLC takes the first one; TLA+ does not say which.

### Transformations

*TransformationsProofs* uses the theorems about single operations: a rule looks up
nodes, and then does several operations with what it found.

- `RulesKeepOrder` is about `RulesInv`: between any two steps the package is `InOrder`, and what
  is known of the nodes that a rule has in hand still holds (`MoveState`, `DirectoriesState`,
  `RemovingState`).
- `LostIsLost`: what is attached after a step and existed before it was attached before it
  (`NoReturn`). So nothing that a rule dropped or replaced comes back.
- `RemovesExactly`: what is left is a `Part` of the package in which each node has the path it
  had. `RemovedSoFar` says of a remove rule half way that what it did is the removal of the
  matches it is through with, and that pruning after each of them leaves the same as
  pruning once at the end.
- `NamedIsTouched` has the invariant `ArrangeInv`. After some of its matches, a move has put
  these into the directory under their names, and what else had one of the names there
  is gone (`Relocated`). From this follows `Touched`: each match is at its place with what was
  below it; of the rest, only what is at or below a path that was overwritten is elsewhere;
  and nothing is new but what leads to the target. The order of the matches, which is that of
  a list made before, does not matter.

### Services, assembly, language server, builds

*ServiceRulesProofs*: `RuleReachesItsServices` says that a rule ends with the smallest
closed set of services around its name, whatever order the loop over the pending set
takes. `SpreadInv` is what holds in between: what was reached and what is pending
together are closed but for the pending names, and lie in every closed set. Then
`ReachIsUnique` (all closed sets have one intersection) and an empty pending set give
the theorem. `FailsForAReason` needs that a rule that is over stays unobjectionable
(`FinishedStays`), as later rules neither add services nor names.

*AssemblyProofs*: `ShippedIsWhatWasFrozen` relates the `.deb` to a time long before it.
In the first half (`EarlyInv`), a file that a node has for itself belongs to no other
node (`OwnOK`), so that rewriting it changes one path of one package; shared files
are the build's and are never open for a tool (`OpenOK`). In the second half
(`AssemblyInv`), what has yet to be put together (`Coming`) still has all its files
(`ThereOK`): what is moved into a finished package is, by `OwnOK`, nobody else's. The
contents are those of the freeze as nothing is writable any more. `SourceUntouched` is a
part of the invariant. On it stand

- `AllLibrariesAreKnown`, by `LibraryInv`: in the phase that collects, what is combined is
  what the packages before the current one have, so that it is everything when the phase
  ends; the contents of a library do not change afterwards.
- `ScriptsAreMirrored`, by `ScriptInv`: each snippet has a rank (`Rank`), the manifest's
  first and those of services last. The two lists of a script that is being
  collected ascend and have every snippet so far; concatenated they ascend, and reversed
  they descend.
- `DebugIsSaved`, by `DebugInv`: what is stripped has its debug information saved under
  its build id before, from a file that was not stripped; other steps only append to
  contents (`Gentle`), and a debug file is no file that anything else writes to.

*LanguageServerProofs*: `PublishedMatchesVersion` is about tasks that are interleaved with
messages. A task that has read a text of another version than its own must not
publish; it finds out because the version in the table has been replaced by then. `TextInv`
says that precisely: either the text is of the version, or the version is superseded by
what will be in the table when the task has its turn, which depends on the tasks before it
in the loop. `LatestInv` ties the last task of a document to the last
message. `HoverTellsTheNewest` has `IndexInv`: what is loaded so far is the newest of each
name among what was read so far, the first of those that are equal. `PublishingAdvances` needs `OrderInv` and the hypothesis that
`VersionsRestart` is `FALSE`: an editor that numbers a reopened document anew can
have diagnostics of its former life shown (`MCLanguageServerReopen.cfg`).

*BuildsProofs*: `StemsDiffer` shows that no two rules of a manifest get the same stem, by
the five ways to get one; with it `DirectoriesDiffer`, and with the invariant that
everything in a derived directory was put there by a rule it belongs to (`DiskIsOwned`)
`RulesStayApart`. `EnvironmentsAreDocumented` has as its invariant what the stack of
environments looks like: a rule is entered once or, when its build system was detected,
twice, and the way back leads to the environment of the caller (without `XDG_*`). It has
the hypothesis that entering the default environment twice makes no difference; section 6
says when it does.

`CleansUndoBuilds` relates a clean to the tasks before it. `WorkInv` says that whatever is in
the source tree is the work of a rule the next task would have again: the detection of a
build system comes to the same result after any build (`DetectionStays`). `CleanInv` says
what a clean has removed at each point. The hypothesis `Cleanable` excludes two
things the code does not clean after (section 6): a rule with a directory of its own, in
which the clean does not run, and an empty list of rules.

### What is not proved

- Liveness: `Termination`, `WalkEnds`, `Settles` are checked by TLC under the fairness of
  section 4. They are beyond this proof system.
- `LibrariesAreFound` of `Assembly` and `MissingIsNoDots` of `PathLookup` are false
  (sections 3 and 6).
- That the depth `Meaning` uses is enough, i.e. that more links in a row would not lead
  anywhere else, is not stated: `MeansMore` only says that they never lead to another place.
  A lookup that ends with `loop` may have met a link twice without a circle
  (`a/../a/x` for a link `a`), as a comment in the code admits; nothing is claimed of it.

All other invariants and action properties of the runs are theorems.

## 6. What is not modelled, and where code and documentation differ

The models have the behaviour of the code. Where a statement of the documentation, a
comment or a message differs from it, the list below says so. Some have a configuration
that is no part of the runs of section 3 and reproduces the case: TLC reports a
violation for each of them.

Installation:

- *Discarded directories* (MANIFEST-FORMAT.md:944-946, 969; `MCInstallStaleDiscard.cfg`):
  contents of a discarded directory are reported as missing if the verdict for their
  parent was cached before (`installations.py` 291, 330-332).
- *`as` needs exactly one match* (MANIFEST-FORMAT.md:733; `MCInstallSingleMatch.cfg`):
  two are accepted and the last one wins (603).
- *A discard limited to existing search directories* (MANIFEST-FORMAT.md:951-955;
  `MCInstallLimitedDiscard.cfg`): all but the source root are rejected (1147).
- *A discard that matches nothing* (957 and the comment at 634; `MCInstallEmptyDiscard.cfg`):
  the test whether a search directory exists is the other way round (636).
- *Disabled rules* (MANIFEST-FORMAT.md:272): a rule whose condition is false reserves
  its matches, but not the contents of matched directories (706).
- *Nested directories* (MANIFEST-FORMAT.md:719): `install usr/lib/b` then `install usr`
  fails, as the directory exists in the package (786).
- *`dest-dir` of `install-docs`* (MANIFEST-FORMAT.md:728): it is used as the full path of
  every document (926).
- *"Reserved by and installed into"* (426): the contents of a directory are also reserved
  for packages of the rule that got their match elsewhere (778).

File system (`filesystem_scan.py`):

- *No part that `mkdirs` has to make is a dot* (an assertion at 360, plugin/api/spec.py:1256;
  `MCPathLookupDots.cfg`): below a dangling symlink whose target ends in a slash there
  is one.
- *The path of a detached node* (plugin/api/spec.py:922): kept by the node that was
  unlinked, while below it `path` raises (587).
- *Attached nodes* (plugin/api/spec.py:844): after `del directory[name]` the node still
  says it is attached (542).
- *Failed writes* (plugin/api/spec.py:1335-1337): when the file behind `add_file` was
  replaced the message says that the entry has been disconnected; it stays in its
  directory (253-255).
- `change_plugin_context` (273) is not used outside its definition: the plugin that owns
  metadata never changes.

Transformations:

- *A target that ends with a slash* (MANIFEST-FORMAT.md:1119; `MCTransformationsSlash.cfg`):
  the parser removes slashes as they were written before the test for one
  (`private_api.py` 2681); only a slash out of a substitution makes it a directory.
- *`when` of `remove`* (MANIFEST-FORMAT.md:1076) is parsed and not passed on
  (`private_api.py` 2687-2700).
- *Overlapping paths of `move`* (MANIFEST-FORMAT.md:1130-1132): the test looks for the
  name in the match in place of the target (`transformation_rules.py` 279), so that a
  directory in the target is replaced with all its contents.
- *Renaming* (MANIFEST-FORMAT.md:1124-1125) changes the parent first: an entry of the
  target directory with the old name is lost (253-254).
- Several match rules of `remove` share one `matched_any`: a later one may match
  nothing (165-184).

Services:

- *`enable-on-install` does not affect whether the service is started*
  (MANIFEST-FORMAT.md:1401-1402; `MCServicesEnable.cfg`): it is written to
  `auto_start_on_install` (`binary_package_rules.py` 469-470).
- *Type and scope of a rule* (MANIFEST-FORMAT.md:1385, plugin/api/spec.py:1496-1501):
  no rule looks at them.
- *A service name is used once* (plugin/api/impl.py 2075-2087): `_seen_services`, which
  the error depends on, is never filled.
- The commands for the scripts (`service_management.py`) are not modelled. Seen while
  reading: the two templates for enabling a unit are in each other's place (76-107); a
  unit that is stopped for the upgrade is not started again if no unit of the package is
  to be started or restarted (135-151); `stop_before_upgrade` is never filled, so that
  nothing is stopped on removal and `purge` has no arguments (63, 193-215); an init
  script with `stop-then-start` is also started on the first installation.

Assembly:

- *Triggers of detectors and integrators* (plugin/api/impl.py 1383-1386, debian/changelog:
  1055-1056; `MCAssemblyTriggers.cfg`): the list is copied before they have run
  (`deb_packaging_support.py` 1103).
- *A file in several packages* (MANIFEST-FORMAT.md:626; `MCAssemblyShared.cfg`): if it is an
  unstripped ELF file, the second package meets the debug file of the first and the
  program ends in a `FileExistsError` (`filesystem_scan.py` 757).
- A udeb that is not for all architectures ends in an assertion (`makeshlibs.py` 254): the
  caller only skips packages for all architectures.

Build systems and clean:

- `relative_from_builddir_to_source()` without a path (`to_be_api_types.py` 419-428) joins
  `None`: builds with CMake and Meson, which call it so and are never in the source
  directory, end in a `TypeError` (`ConfigureCrashes`); qmake in the source directory
  passes the `None` on to its command line.
- *The order set, computed, override, unset* (`build_system_rules.py` 117-130): the
  environment of a build system that was detected is entered twice (`build_logic.py`
  141-142), so that `override` of, say, `DEB_CFLAGS_APPEND` changes what is computed the
  second time. With a default environment of that sort `EnvironmentIsDocumented` fails;
  the run has none.
- *`builds: []`* makes a clean return at once, too (`clean_logic.py` 115-117): what
  `binary` left in `debian/.debputy` stays. `CleanUndoesBuilds` fails with such a manifest;
  the run has none.
- The clean of a Makefile in another `directory` runs in the source root
  (`build_system_rules.py` 602-612). Likewise the run has none.
- A configure script that fails in the source directory before it has written the
  Makefile leaves its log there: without a Makefile there is no target to clean with
  (1198-1211). `CleanUndoesBuilds` has this exception.
- qmake and qmake6 detect the same files (1724-1730) and do not shadow each other: for
  these the detection is always ambiguous.
- `debian/tmp-<stem>`, where rules install into when there are several, is not searched
  by the installation phase yet (`highlevel_manifest.py` 1212).

Language server:

- *Reopened documents* (`MCLanguageServerReopen.cfg`): nothing removes a document from the table
  when it is closed. A client that counts from 1 again makes an old task look current.
- *"Please try again in a moment"* (`MCLanguageServerLoading.cfg`): an exception other than the
  expected ones leaves the apt cache in the state `loading` (`apt_cache.py` 59-125).
- `_folding_ranges` asks `HOVER_HANDLERS` (`lsp_dispatch.py` 220-231), and the state
  `empty-cache` is never set.

Left out of the modelled parts: symlinks in the destination paths of the installation phase
(`mkdirs` follows them, as `PathLookup` shows; `InstallRules` has none),
the destination that `install-man` computes (its filter is modelled),
`GenericGlobImplementation`, `PPFInstallRule`, the listing of automatically used
paths, message texts and counts, and the mode `dh-debputy-rrr`. A search
directory that does not exist yields nothing in the model and is skipped in the code.
The order of siblings, of `check_for_uninstalled_dirs`, and of iteration over Python
sets is left open: the model has more behaviours than any one run of Python. Of the
transformations, `path-metadata` and the normalisation of modes and interpreters change
fields of single nodes and are left out. Of `apply_compression`, each path is replaced
in one step, and the links that are changed after it are left out.

Not modelled at all, with the reason in `PROJECT.json`: the manifest parser
(declarative, by reflection; no state beyond the document), control files and packages
(stateless parsing), packager provided files
(parsing of names), migration (independent one-shot conversions), linters and the
features of the language server per format (functions of a document; more than half of
the repository's lines are these, their reference data, and the vendored parser).

## 7. Plan

What comes next, the most important first.

1. *Lookups that end with a loop*: that `attempt_lookup` raises a `SymlinkLoopError` for no
   other path than one that goes through the same link twice.
2. *Service scripts*: what the integrators write, and what it makes of a service over
   install, upgrade, removal and the choices of the administrator.
3. *Compression* (`apply_compression`): files are replaced while a walk is under way,
   then symlinks are followed up until nothing changes. Properties: no link that worked
   dangles, the loop ends.
4. *PathMatcher*: patterns to matchers and what `finditer` yields, against a reference
   definition of the globs, over bounded patterns and trees.
5. *Packager provided files*: which of the candidates in `debian/` a package gets.
