------------------------------- MODULE Assembly -------------------------------
(***************************************************************************)
(* From installed packages to .deb files (assemble): package by package the *)
(* plugins rewrite files and the debug information is moved out of ELF      *)
(* files; then shared libraries are looked up across packages and all trees *)
(* become read-only; then, package by package again, the control files are  *)
(* written and the package is put together, out of files it may move away.  *)
(*                                                                         *)
(* All packages share the files the build left behind and the directories   *)
(* with generated ones.  A content is the file it came from, followed by    *)
(* what was done to it.  Static libraries, changelogs, substvars and the    *)
(* integration with debhelper are left out.                                 *)
(***************************************************************************)
EXTENDS Integers, SequencesExt

CONSTANTS
    Package,        \* the packages to build, in order
    Udeb, ArchAll,  \* those that are udebs, and those for all architectures
    NoDbgsym,       \* those whose dbgsym package is not wanted
    SourceFile,     \* what the build left behind: pairs "source", name
    Elf,            \* the ELF files among them: [stripped, id, library]
    Installation,   \* what may be installed: source files by package and path
    Detector,       \* integrators, then detectors: [id, service, packages,
                    \* triggers, scripts]
    MaxEdits        \* bound: files rewritten by plugins

Packages == Range(Package)
Scripts == {"preinst", "prerm", "postinst", "postrm"}
Built == {"done", "tool failed", "file exists", "not for udebs", "missing"}

ASSUME AssemblyAssumption ==
    /\ Package \in Seq(Packages) \ {<<>>}
    /\ \A i, j \in DOMAIN Package : Package[i] = Package[j] => i = j
    /\ Udeb \cup ArchAll \cup NoDbgsym \subseteq Packages
    /\ \A s \in SourceFile : s[1] = "source"
    /\ DOMAIN Elf \subseteq SourceFile
    /\ \A installed \in Installation :
        /\ DOMAIN installed = Packages
        /\ \A p \in Packages : \A x \in DOMAIN installed[p] : installed[p][x] \in SourceFile
    /\ MaxEdits \in Nat

\* A detector is named by its id; what the manifest asks for is not one's, nor is
\* the file that dwz makes a build's.
ASSUME DetectorAssumption ==
    /\ Detector \in Seq(Range(Detector))
    /\ \A i, j \in 1..Len(Detector) : Detector[i].id = Detector[j].id => i = j
    /\ \A i \in 1..Len(Detector) : Detector[i].id # "manifest" /\ Detector[i].service \in BOOLEAN
    /\ \A f \in DOMAIN Elf : Elf[f].id # "dwz"

VARIABLES
    disk,       \* contents by file
    tree,       \* fs_root of each package: nodes [file, inline] by path
    debug,      \* dbgsym_fs_root of each package: nodes by build-id
    made,       \* counts generated files
    writable,   \* packages with is_read_write
    combined, links, failures,      \* locals of cross_package_control_files
    details,    \* shlibs_details of each package
    triggers, snippets,             \* of each package
    manifest, requested, packed,    \* locals of assemble_debs
    pc, at, open, done, step,       \* where the program is
    edits,      \* counts up to MaxEdits
    frozen, seen,                   \* history: contents when the trees became
                                    \* read-only; what dpkg-shlibdeps found
    deb         \* what was built

files == <<disk, tree, debug, made>>
shlibs == <<combined, links, failures, details>>
control == <<triggers, snippets, requested, manifest, packed>>
place == <<pc, at, open, done, step>>
history == <<frozen, seen>>
vars == <<files, writable, shlibs, control, place, edits, history, deb>>

Put(f, k, v) == [x \in DOMAIN f \cup {k} |-> IF x = k THEN v ELSE f[x]]
Without(f, S) == [x \in DOMAIN f \ S |-> f[x]]

Cur == Package[at]
Content(p, x) == disk[tree[p][x].file]
ElfPaths(p) == {x \in DOMAIN tree[p] : Head(Content(p, x)) \in DOMAIN Elf}
ElfOf(p, x) == Elf[Head(Content(p, x))]
Unstripped(p) == {x \in ElfPaths(p) : ~ ElfOf(p, x).stripped}
Libraries(p) == {x \in ElfPaths(p) : ElfOf(p, x).library}

\* insert_file_from_fs_path
Installed(file) == [file |-> file, inline |-> FALSE]

Init ==
    /\ disk = [s \in SourceFile |-> <<s>>]
    /\ \E installation \in Installation :
        tree = [p \in Packages |->
                   [x \in DOMAIN installation[p] |-> Installed(installation[p][x])]]
    /\ debug = [p \in Packages |-> <<>>]
    /\ made = 0
    /\ writable = Packages
    /\ combined = {} /\ links = {} /\ failures = FALSE
    /\ details = [p \in Packages |-> {}]
    /\ triggers = [p \in Packages |-> {}]
    /\ snippets = [p \in Packages |-> [s \in Scripts |->
                      [generic |-> <<"manifest">>, service |-> <<>>]]]
    /\ manifest = <<>> /\ requested = {} /\ packed = <<>>
    /\ pc = "before" /\ at = 1 /\ open = {} /\ done = {} /\ step = 0
    /\ edits = 0
    /\ frozen = <<>> /\ seen = <<>>
    /\ deb = <<>>

-----------------------------------------------------------------------------
(* Changes of files.                                                        *)

Generated(n) == <<"generated", n>>
DebugFile(id) == <<"debug", id>>

\* Mutant: the file is written where it is.
WritableFileMutant(p, x) == tree[p][x].file

\* The file behind path x that may be written: a copy, unless it is one.
WritableFile(p, x) == IF tree[p][x].inline THEN tree[p][x].file ELSE Generated(made)

\* replace_fs_path_content
ReplaceContent(p, x, content) ==
    /\ disk' = Put(disk, WritableFile(p, x), content)
    /\ tree' = [tree EXCEPT ![p][x] = [file |-> WritableFile(p, x), inline |-> TRUE]]
    /\ made' = made + 1
    /\ UNCHANGED debug

\* A tool rewrites the files behind the paths X of the package in work.
Rewrite(X, what) ==
    disk' = [f \in DOMAIN disk |->
                IF f \in {tree[Cur][x].file : x \in X} THEN Append(disk[f], what) ELSE disk[f]]

-----------------------------------------------------------------------------
(* Plugins.                                                                 *)

\* Processors and detectors may write whatever is writable of what they can
\* reach; detectors can also reach the other packages.
Reached == IF pc = "detect" THEN Packages ELSE {Cur}

Edit(p, x) ==
    /\ pc \in {"before", "after", "detect"}
    /\ p \in Reached \cap writable
    /\ edits < MaxEdits /\ edits' = edits + 1
    /\ ReplaceContent(p, x, Append(Content(p, x), "edited"))
    /\ UNCHANGED <<writable, shlibs, control, place, history, deb>>

\* apply_compression, for one path.
Compress(x) ==
    /\ pc = "after"
    /\ Cur \in writable
    /\ Head(Content(Cur, x)) \notin DOMAIN Elf
    /\ edits < MaxEdits /\ edits' = edits + 1
    /\ disk' = Put(disk, Generated(made), Append(Content(Cur, x), "gz"))
    /\ tree' = [tree EXCEPT ![Cur] =
                  Put(Without(@, {x}), x \o ".gz", [file |-> Generated(made), inline |-> TRUE])]
    /\ made' = made + 1
    /\ UNCHANGED <<debug, writable, shlibs, control, place, history, deb>>

-----------------------------------------------------------------------------
(* Debug information (relocate_dwarves_into_dbgsym_packages).               *)

StripLeavesAlone == UNCHANGED <<writable, shlibs, control, step, edits, history, deb>>

StartStrip ==
    /\ pc = "before"
    /\ pc' = IF ElfPaths(Cur) = {} THEN "after" ELSE "replace"
    /\ UNCHANGED <<files, at, open, done>>
    /\ StripLeavesAlone

\* All files are replaced before the first of them is worked on.
ReplaceElf(x) ==
    /\ pc = "replace"
    /\ x \in ElfPaths(Cur) \ open
    /\ open' = open \cup {x}
    /\ ReplaceContent(Cur, x, Content(Cur, x))
    /\ UNCHANGED <<pc, at, done>>
    /\ StripLeavesAlone

\* _run_dwz; what several files share may end up in a file of its own.
Dwz ==
    /\ pc = "replace"
    /\ open = ElfPaths(Cur)
    /\ pc' = "debug"
    /\ IF Unstripped(Cur) = {} \/ Cur \in Udeb THEN UNCHANGED files
       ELSE \/ /\ Rewrite(Unstripped(Cur), "dwz")
               /\ UNCHANGED <<tree, debug, made>>
            \/ /\ \E x, y \in Unstripped(Cur) : x # y
               /\ disk' = Put([f \in DOMAIN disk |->
                                 IF f \in {tree[Cur][x].file : x \in Unstripped(Cur)}
                                 THEN Append(disk[f], "dwz") ELSE disk[f]],
                              Generated(made), <<Generated(made)>>)
               /\ debug' = [debug EXCEPT ![Cur] =
                              Put(@, "dwz", [file |-> Generated(made), inline |-> TRUE])]
               /\ made' = made + 1
               /\ UNCHANGED tree
    /\ UNCHANGED <<at, open, done>>
    /\ StripLeavesAlone

\* Mutant: a file that is in the directory is not made again.
MakeDebugFileMutant(x) ==
    LET id == ElfOf(Cur, x).id
    IN  /\ pc = "debug"
        /\ x \in Unstripped(Cur) \ done
        /\ done' = done \cup {x}
        /\ IF DebugFile(id) \in DOMAIN disk THEN UNCHANGED files
           ELSE /\ disk' = Put(disk, DebugFile(id), Append(Content(Cur, x), "debug"))
                /\ debug' = [debug EXCEPT ![Cur] =
                               Put(@, id, [file |-> DebugFile(id), inline |-> TRUE])]
                /\ UNCHANGED <<tree, made>>
        /\ UNCHANGED <<pc, at, open>>
        /\ StripLeavesAlone

\* _make_debug_file; the directory is one for all packages, so add_file may meet
\* the file of another one there.
MakeDebugFile(x) ==
    LET id == ElfOf(Cur, x).id
    IN  /\ pc = "debug"
        /\ x \in Unstripped(Cur) \ done
        /\ IF id \in DOMAIN debug[Cur]
           THEN /\ done' = done \cup {x}
                /\ UNCHANGED <<files, pc>>
           ELSE IF DebugFile(id) \in DOMAIN disk
           THEN /\ pc' = "file exists"
                /\ UNCHANGED <<files, done>>
           ELSE /\ done' = done \cup {x}
                /\ disk' = Put(disk, DebugFile(id), Append(Content(Cur, x), "debug"))
                /\ debug' = [debug EXCEPT ![Cur] =
                               Put(@, id, [file |-> DebugFile(id), inline |-> TRUE])]
                /\ UNCHANGED <<tree, made, pc>>
        /\ UNCHANGED <<at, open>>
        /\ StripLeavesAlone

\* _strip_binary, for what is stripped already, too.
Strip ==
    /\ pc = "debug"
    /\ done = Unstripped(Cur)
    /\ Rewrite(open, "stripped")
    /\ pc' = "attach" /\ done' = {}
    /\ UNCHANGED <<tree, debug, made, at, open>>
    /\ StripLeavesAlone

\* _attach_debug
AttachDebug(x) ==
    /\ pc = "attach"
    /\ x \in Unstripped(Cur) \ done
    /\ done' = done \cup {x}
    /\ Rewrite({x}, "linked")
    /\ UNCHANGED <<tree, debug, made, pc, at, open>>
    /\ StripLeavesAlone

FinishStrip ==
    /\ pc = "attach"
    /\ done = Unstripped(Cur)
    /\ pc' = "after" /\ open' = {} /\ done' = {}
    /\ UNCHANGED <<files, at>>
    /\ StripLeavesAlone

NextPackage ==
    /\ pc = "after"
    /\ IF at = Len(Package) THEN pc' = "shlibs" /\ at' = 1
       ELSE pc' = "before" /\ at' = at + 1
    /\ UNCHANGED <<files, writable, shlibs, control, open, done, step, edits, history, deb>>

-----------------------------------------------------------------------------
(* Shared libraries (cross_package_control_files).                          *)

\* compute_shlibs is not made for udebs; if the symbols do not match, the other
\* packages get their turn all the same.
ComputeShlibs ==
    /\ pc = "shlibs"
    /\ at <= Len(Package)
    /\ IF Cur \in ArchAll
       THEN at' = at + 1 /\ UNCHANGED <<pc, combined, links, failures, triggers>>
       ELSE IF Cur \in Udeb
       THEN pc' = "not for udebs" /\ UNCHANGED <<at, combined, links, failures, triggers>>
       ELSE /\ combined' = combined \cup {Head(Content(Cur, x)) : x \in Libraries(Cur)}
            /\ \/ /\ links' = links \cup {tree[Cur][x].file : x \in Libraries(Cur)}
                  /\ triggers' = [triggers EXCEPT ![Cur] =
                                    IF Libraries(Cur) = {} THEN @ ELSE @ \cup {"ldconfig"}]
                  /\ UNCHANGED failures
               \/ /\ Libraries(Cur) # {}
                  /\ failures' = TRUE
                  /\ UNCHANGED <<links, triggers>>
            /\ at' = at + 1
            /\ UNCHANGED pc
    /\ UNCHANGED <<files, writable, details, snippets, requested, manifest, packed,
                   open, done, step, edits, history, deb>>

\* Mutant: a package gets to know what was found up to its turn.
DetailsMutant == [p \in Packages |-> combined \cap {tree[p][x].file : x \in DOMAIN tree[p]}]

Details == [p \in Packages |-> IF p \in ArchAll THEN {} ELSE combined]

\* Mutant: a package becomes read-only when its turn comes.
StillWritableMutant == Packages

StillWritable == {}

\* Every package gets to know the libraries of all, and nothing may be written
\* any more.
Freeze ==
    /\ pc = "shlibs"
    /\ at > Len(Package)
    /\ IF failures
       THEN pc' = "tool failed" /\ UNCHANGED <<details, writable, frozen, at>>
       ELSE /\ details' = Details
            /\ writable' = StillWritable
            /\ frozen' = [p \in Packages |-> [x \in DOMAIN tree[p] |-> Content(p, x)]]
            /\ pc' = "finalize" /\ at' = 1
    /\ UNCHANGED <<files, combined, links, failures, control, open, done, step, edits, seen, deb>>

-----------------------------------------------------------------------------
(* One package after the other (assemble_debs).                             *)

\* finalize_data_tar_contents, up to the services; a dbgsym package that is not
\* wanted is emptied.
Finalize ==
    /\ pc = "finalize"
    /\ at <= Len(Package)
    /\ writable' = writable \ {Cur}
    /\ debug' = IF Cur \in NoDbgsym THEN [debug EXCEPT ![Cur] = <<>>] ELSE debug
    /\ manifest' = tree[Cur]
    /\ requested' = triggers[Cur]
    /\ pc' = "detect" /\ step' = 1
    /\ UNCHANGED <<disk, tree, made, shlibs, triggers, snippets, packed, at, open, done,
                   edits, history, deb>>

\* dpkg-shlibdeps reads the merged shlibs and follows the links to libraries.
DpkgShlibdeps ==
    IF ElfPaths(Cur) = {} THEN UNCHANGED seen
    ELSE seen' = Put(seen, Cur, [known |-> details[Cur], dangling |-> links \ DOMAIN disk])

\* What a script has of a package after detector d, which added to its scripts.
Extended(snippet, s, d) ==
    IF s \notin d.scripts THEN snippet
    ELSE IF d.service THEN [snippet EXCEPT !.service = Append(@, d.id)]
    ELSE [snippet EXCEPT !.generic = Append(@, d.id)]

\* An integrator or a detector, in its turn.
Detect ==
    /\ pc = "detect"
    /\ step <= Len(Detector)
    /\ step' = step + 1
    /\ LET d == Detector[step]
       IN  IF Cur \notin d.packages THEN UNCHANGED <<triggers, snippets, seen>>
           ELSE /\ triggers' = [triggers EXCEPT ![Cur] = @ \cup d.triggers]
                /\ snippets' = [snippets EXCEPT ![Cur] = [s \in Scripts |-> Extended(@[s], s, d)]]
                /\ IF d.id = "dpkg-shlibdeps" THEN DpkgShlibdeps ELSE UNCHANGED seen
    /\ UNCHANGED <<files, writable, shlibs, manifest, requested, packed, pc, at, open, done,
                   edits, frozen, deb>>

\* Mutant: what is for services stays behind the rest in all scripts.
ScriptMutant(p, s) ==
    IF s \in {"prerm", "postrm"}
    THEN Reverse(snippets[p][s].generic) \o Reverse(snippets[p][s].service)
    ELSE snippets[p][s].generic \o snippets[p][s].service

\* _generate_snippet
Script(p, s) ==
    LET all == snippets[p][s].generic \o snippets[p][s].service
    IN  IF s \in {"prerm", "postrm"} THEN Reverse(all) ELSE all

Exists(nodes) == \A x \in DOMAIN nodes : nodes[x].file \in DOMAIN disk

\* The rest of setup_control_files. A udeb gets one script and no triggers.
WriteControl ==
    /\ pc = "detect"
    /\ step > Len(Detector)
    /\ IF Exists(tree[Cur])
       THEN /\ packed' = [scripts |-> [s \in IF Cur \in Udeb THEN {"postinst"} ELSE Scripts |->
                                          Script(Cur, s)],
                          triggers |-> IF Cur \in Udeb THEN {} ELSE requested,
                          md5sums |-> [x \in DOMAIN tree[Cur] |-> Content(Cur, x)],
                          debug |-> <<>>]
            /\ pc' = "dbgsym"
       ELSE pc' = "missing" /\ UNCHANGED packed
    /\ UNCHANGED <<files, writable, shlibs, triggers, snippets, manifest, requested,
                   at, open, done, step, edits, history, deb>>

\* What is moved, after the rest was copied.
Stolen(nodes) == {nodes[x].file : x \in {x \in DOMAIN nodes : nodes[x].inline}}

PackLeavesAlone ==
    UNCHANGED <<tree, debug, made, writable, shlibs, triggers, snippets, manifest, requested,
                open, done, step, edits, history>>

\* The dbgsym package is put together first.
PackDbgsym ==
    /\ pc = "dbgsym"
    /\ IF Cur \in Udeb \/ DOMAIN debug[Cur] = {}
       THEN pc' = "pack" /\ UNCHANGED <<disk, packed>>
       ELSE IF ~ Exists(debug[Cur])
       THEN pc' = "missing" /\ UNCHANGED <<disk, packed>>
       ELSE /\ packed' = [packed EXCEPT !.debug =
                             [id \in DOMAIN debug[Cur] |-> disk[debug[Cur][id].file]]]
            /\ disk' = Without(disk, Stolen(debug[Cur]))
            /\ pc' = "pack"
    /\ UNCHANGED <<at, deb>>
    /\ PackLeavesAlone

Pack ==
    /\ pc = "pack"
    /\ IF ~ Exists(manifest)
       THEN pc' = "missing" /\ UNCHANGED <<disk, deb, at>>
       ELSE /\ deb' = Put(deb, Cur, [control |-> packed,
                                     files |-> [x \in DOMAIN manifest |-> disk[manifest[x].file]]])
            /\ disk' = Without(disk, Stolen(manifest))
            /\ at' = at + 1
            /\ pc' = IF at = Len(Package) THEN "done" ELSE "finalize"
    /\ UNCHANGED packed
    /\ PackLeavesAlone

\* A tool fails and ends the program.
ToolFails ==
    /\ pc \in {"replace", "debug", "attach", "after", "detect", "dbgsym", "pack"}
    /\ pc' = "tool failed"
    /\ UNCHANGED <<files, writable, shlibs, control, at, open, done, step, edits, history, deb>>

-----------------------------------------------------------------------------

Next ==
    \/ /\ pc \notin Built
       /\ at <= Len(Package)
       /\ \/ \E p \in Packages : \E x \in DOMAIN tree[p] : Edit(p, x)
          \/ \E x \in DOMAIN tree[Cur] :
                \/ Compress(x) \/ ReplaceElf(x) \/ MakeDebugFile(x) \/ AttachDebug(x)
    \/ StartStrip \/ Dwz \/ Strip \/ FinishStrip \/ NextPackage
    \/ ComputeShlibs \/ Freeze
    \/ Finalize \/ Detect \/ WriteControl \/ PackDbgsym \/ Pack
    \/ ToolFails

Spec == Init /\ [][Next]_vars

-----------------------------------------------------------------------------
(* Properties.                                                              *)

\* What the build left behind is never written and never moved, however the
\* build ends: it can be run again, and the packages share these files.
SourceUntouched ==
    \A s \in SourceFile : s \in DOMAIN disk /\ disk[s] = <<s>>

\* Every file of a package is in the .deb as it was when the trees became
\* read-only, "before we enable cross package checks", and as md5sums says; no
\* package needs a file that an earlier one has moved away.
ShippedIsWhatWasFrozen ==
    /\ pc # "missing"
    /\ \A p \in DOMAIN deb : deb[p].files = frozen[p] /\ deb[p].control.md5sums = frozen[p]

\* The debug information of a stripped file is in the dbgsym package of its
\* package, and was taken from a file that still had it.
Has(content, what) == \E i \in 2..Len(content) : content[i] = what
DebugIsComplete ==
    \A p \in DOMAIN deb \ (Udeb \cup NoDbgsym) : \A x \in DOMAIN deb[p].files :
        LET content == deb[p].files[x]
            source == Head(content)
            saved == deb[p].control.debug
        IN  source \in DOMAIN Elf /\ ~ Elf[source].stripped /\ Has(content, "stripped") =>
                /\ Elf[source].id \in DOMAIN saved
                /\ LET kept == saved[Elf[source].id]
                   IN  /\ Head(kept) \in DOMAIN Elf /\ Elf[Head(kept)].id = Elf[source].id
                       /\ ~ Has(kept, "stripped")

\* Every snippet gets into its script, and what a script of the installation
\* does later, the scripts of the removal undo earlier.
Expected(p, s) ==
    {"manifest"} \cup {Detector[i].id : i \in {i \in 1..Len(Detector) :
        p \in Detector[i].packages /\ s \in Detector[i].scripts}}
Before(script, a, b) == \E i, j \in 1..Len(script) : i < j /\ script[i] = a /\ script[j] = b
ScriptsMirror ==
    \A p \in DOMAIN deb \ Udeb :
        LET script == deb[p].control.scripts
        IN  /\ \A s \in Scripts : Range(script[s]) = Expected(p, s)
            /\ \A up \in {"preinst", "postinst"}, down \in {"prerm", "postrm"} :
                \A a, b \in Expected(p, up) \cap Expected(p, down) :
                    Before(script[up], a, b) => Before(script[down], b, a)

\* dpkg-shlibdeps knows the shared libraries of all packages, also of those that
\* come later.
KnownLibraries ==
    \A p \in DOMAIN seen \ ArchAll : seen[p].known =
        UNION {{Head(frozen[q][x]) : x \in {x \in DOMAIN frozen[q] :
                    Head(frozen[q][x]) \in DOMAIN Elf /\ Elf[Head(frozen[q][x])].library}} :
               q \in Packages \ ArchAll}

\* Violated: "Let dpkg-shlibdeps see SONAMEs from other packages"
\* (debian/changelog).
LibrariesAreFound == \A p \in DOMAIN seen : seen[p].dangling = {}

\* Violated: "The provided trigger will be added to the package's metadata"
\* (dpkg_trigger).
TriggersReachThePackage ==
    \A p \in DOMAIN deb \ Udeb : \A i \in 1..Len(Detector) :
        p \in Detector[i].packages => Detector[i].triggers \subseteq deb[p].control.triggers

\* Violated: a file may be installed "into" several packages
\* (MANIFEST-FORMAT.md).
SharedFileIsBuilt == pc # "file exists"
=============================================================================
