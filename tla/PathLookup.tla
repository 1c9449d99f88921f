----------------------------- MODULE PathLookup ------------------------------
(***************************************************************************)
(* attempt_lookup and mkdirs on the file system of a package: a path is     *)
(* taken apart, its parts are followed one by one, and the target of a      *)
(* symlink that is not the last part is spliced in before what is left.     *)
(***************************************************************************)
EXTENDS VirtualFS

CONSTANTS
    FileSystems,    \* trees, with the target of each symlink
    Requests        \* what lookup or mkdirs is asked for

Dots == {".", ".."}
\* A path; dir means that it ends in a slash, for which _split_path adds a ".".
PathStrings == [absolute : BOOLEAN, dir : BOOLEAN, parts : Seq(Name \cup Dots)]
SplitPath(path) == IF path.dir THEN Append(path.parts, ".") ELSE path.parts

ASSUME LookupAssumption ==
    /\ Name \cap Dots = {}
    /\ \A f \in FileSystems : TreeInv(f.tree) /\ f.link_target \in [Node -> PathStrings]
    /\ \A r \in Requests :
          /\ r.from \in Node /\ r.path \in PathStrings /\ r.op \in {"lookup", "mkdirs"}
          /\ r.op = "mkdirs" => r.path.dir

VARIABLES
    link_target,    \* of the symlinks
    request,        \* from, path and op of the call
    current, parts, \* of attempt_lookup; current is also that of mkdirs
    expanded,       \* link_expansions
    phase,          \* "lookup", "mkdirs", or how the call ended
    made            \* directories mkdirs made

lookupVars == <<vars, link_target, request, current, parts, expanded, phase, made>>
call == <<link_target, request>>

Start(from, path) == IF path.absolute THEN Root ELSE from

InitLookup ==
    /\ \E f \in FileSystems : tree = f.tree /\ link_target = f.link_target
    /\ rw = TRUE
    /\ request \in {r \in Requests : r.from \in Attached(tree) /\ IsDir(tree, r.from)}
    /\ current = Start(request.from, request.path)
    /\ parts = SplitPath(request.path)
    /\ expanded = {}
    /\ phase = "lookup"
    /\ made = {}

-----------------------------------------------------------------------------
(* One iteration of the loop of attempt_lookup.                             *)

NextPart(k) == phase = "lookup" /\ parts # <<>> /\ Head(parts) = k
Rest == Tail(parts)
Child(k) == IF IsDir(tree, current) THEN tree.child[current][k] ELSE NoNode

StayHere ==
    /\ NextPart(".")
    /\ parts' = Rest
    /\ UNCHANGED <<vars, call, current, expanded, phase, made>>

GoUp ==
    /\ NextPart("..")
    /\ IF current = Root
       THEN phase' = "escapes" /\ UNCHANGED <<current, parts>>
       ELSE /\ current' = tree.parent[current]
            /\ parts' = Rest
            /\ UNCHANGED phase
    /\ UNCHANGED <<vars, call, expanded, made>>

IsTraversedLink(n) == tree.kind[n] = "symlink" /\ Rest # <<>>

GoDown(k) ==
    /\ NextPart(k)
    /\ Child(k) # NoNode /\ ~ IsTraversedLink(Child(k))
    /\ current' = Child(k)
    /\ parts' = Rest
    /\ UNCHANGED <<vars, call, expanded, phase, made>>

\* Mutants: the link is not remembered; its target is looked up from where the
\* call began.
FollowLinkForgets(k) ==
    /\ NextPart(k)
    /\ Child(k) # NoNode /\ IsTraversedLink(Child(k)) /\ Child(k) \notin expanded
    /\ current' = Start(tree.parent[Child(k)], link_target[Child(k)])
    /\ parts' = SplitPath(link_target[Child(k)]) \o Rest
    /\ UNCHANGED <<vars, call, expanded, phase, made>>
FollowLinkFromStart(k) ==
    /\ NextPart(k)
    /\ Child(k) # NoNode /\ IsTraversedLink(Child(k)) /\ Child(k) \notin expanded
    /\ current' = Start(request.from, link_target[Child(k)])
    /\ parts' = SplitPath(link_target[Child(k)]) \o Rest
    /\ expanded' = expanded \cup {Child(k)}
    /\ UNCHANGED <<vars, call, phase, made>>

FollowLink(k) ==
    /\ NextPart(k)
    /\ Child(k) # NoNode /\ IsTraversedLink(Child(k)) /\ Child(k) \notin expanded
    /\ current' = Start(tree.parent[Child(k)], link_target[Child(k)])
    /\ parts' = SplitPath(link_target[Child(k)]) \o Rest
    /\ expanded' = expanded \cup {Child(k)}
    /\ UNCHANGED <<vars, call, phase, made>>

\* SymlinkLoopError
MeetLinkAgain(k) ==
    /\ NextPart(k)
    /\ Child(k) # NoNode /\ IsTraversedLink(Child(k)) /\ Child(k) \in expanded
    /\ phase' = "loop"
    /\ UNCHANGED <<vars, call, current, parts, expanded, made>>

\* attempt_lookup returns, with no parts missing or with those from here on;
\* the "." at the end of a path that must be a directory is not missing.
Returned(missing) ==
    /\ phase' = IF request.op = "mkdirs" THEN "mkdirs"
                ELSE IF missing = <<>> THEN "found" ELSE "missing"
    /\ parts' = missing
    /\ UNCHANGED <<vars, call, current, expanded, made>>

Missing(k) ==
    /\ NextPart(k)
    /\ Child(k) = NoNode
    /\ Returned(IF request.path.dir THEN Front(parts) ELSE parts)

Found ==
    /\ phase = "lookup" /\ parts = <<>>
    /\ Returned(<<>>)

-----------------------------------------------------------------------------
(* The rest of mkdirs.                                                      *)

NotADirectory ==
    /\ phase = "mkdirs" /\ made = {}
    /\ ~ IsDir(tree, current)
    /\ phase' = "not a directory"
    /\ UNCHANGED <<vars, call, current, parts, expanded, made>>

\* The assertion on the missing part fails.
MissingDots ==
    /\ phase = "mkdirs" /\ parts # <<>> /\ IsDir(tree, current)
    /\ Head(parts) \in Dots
    /\ phase' = "assertion"
    /\ UNCHANGED <<vars, call, current, parts, expanded, made>>

\* Mutant: all parts end up in the same directory.
MakeMissingMutant(k) ==
    /\ phase = "mkdirs" /\ parts # <<>>
    /\ Head(parts) = k /\ k \notin Dots
    /\ MkDir(current, k)
    /\ made' = made \cup {Fresh(tree)}
    /\ parts' = Rest
    /\ UNCHANGED <<call, current, expanded, phase>>

\* Node bounds how many can be made.
MakeMissing(k) ==
    /\ phase = "mkdirs" /\ parts # <<>>
    /\ Head(parts) = k /\ k \notin Dots
    /\ MkDir(current, k)
    /\ current' = Fresh(tree)
    /\ made' = made \cup {Fresh(tree)}
    /\ parts' = Rest
    /\ UNCHANGED <<call, expanded, phase>>

AllMade ==
    /\ phase = "mkdirs" /\ parts = <<>> /\ IsDir(tree, current)
    /\ phase' = "made"
    /\ UNCHANGED <<vars, call, current, parts, expanded, made>>

-----------------------------------------------------------------------------

Returns == {"found", "missing", "made"}
Raises == {"escapes", "loop", "not a directory", "assertion"}
Over == phase \in Returns \cup Raises

NextLookup ==
    \/ StayHere \/ GoUp \/ Found
    \/ \E k \in Name :
          GoDown(k) \/ FollowLink(k) \/ MeetLinkAgain(k) \/ Missing(k) \/ MakeMissing(k)
    \/ NotADirectory \/ MissingDots \/ AllMade

LookupSpec == InitLookup /\ [][NextLookup]_lookupVars /\ WF_lookupVars(NextLookup)

-----------------------------------------------------------------------------
(* Properties.                                                              *)

LookupTypeOK ==
    /\ tree \in Trees
    /\ current \in Attached(tree)
    /\ parts \in Seq(Name \cup Dots)
    /\ expanded \subseteq {n \in Born(tree) : tree.kind[n] = "symlink"}
    /\ phase \in {"lookup", "mkdirs"} \cup Returns \cup Raises

\* Every lookup ends, whatever the symlinks of the package refer to, and mkdirs
\* never meets a path that it is about to make.
Termination == <>Over

\* "assert missing_part not in (".", "..")" (mkdirs)
MissingIsNoDots == phase # "assertion"
=============================================================================
