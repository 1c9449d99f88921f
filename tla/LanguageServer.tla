---------------------------- MODULE LanguageServer ----------------------------
(***************************************************************************)
(* The language server: one event loop that runs tasks, each up to its next *)
(* "await asyncio.sleep(0)", first come first served.  Messages about       *)
(* documents change the workspace at once and leave a task behind that      *)
(* works the diagnostics out; another task indexes the apt cache.           *)
(*                                                                         *)
(* A message may be handled between any two tasks, and several in a row (a  *)
(* socket hands over all it received).  A text stands for what a scanner    *)
(* makes of it: the number of new diagnostics in each of the parts after    *)
(* which it yields, and in the rest.                                        *)
(***************************************************************************)
EXTENDS Integers, FiniteSetsExt, SequencesExt

CONSTANTS
    Uri,                \* documents
    Text,               \* what can be in them: [id, parts]
    DiskText,           \* what is in them on disk
    Unhandled,          \* the documents without diagnostics,
    Linted,             \* and those with a linter, which yields once
    VersionsRestart,    \* the client counts from 1 again when it opens a document
    Index,              \* apt's packages in order: [name, version, provides]
    LoadFaults,         \* how loading them may fail
    MaxMessages         \* bound: messages about documents

FinalStateOf == [tooling |-> "tooling-not-available", failed |-> "failed",
                 unexpected |-> "loading"]

ASSUME ServerAssumption ==
    /\ DiskText \in [Uri -> Text]
    /\ \A t \in Text : t.parts \in Seq(Nat) /\ t.parts # <<>>
    /\ Unhandled \cup Linted \subseteq Uri
    /\ VersionsRestart \in BOOLEAN
    /\ Index \in Seq(Range(Index)) /\ \A p \in Range(Index) : p.version \in Int
    /\ LoadFaults \subseteq DOMAIN FinalStateOf
    /\ MaxMessages \in Nat

VARIABLES
    doc,        \* the workspace: [open, version, text] of each document
    table,      \* _DOCUMENT_VERSION_TABLE; 0 where there is no entry
    ready,      \* the tasks that can run
    shown,      \* what the client was sent last: [version, text, count]
    aptState, packages, lookups,    \* AptCache, and the packages found so far
    down,       \* the server was shut down
    messages,   \* counts up to MaxMessages
    contents    \* history: what each version of a document could be read as

workspace == <<doc, messages, contents>>
apt == <<aptState, packages, lookups>>
vars == <<workspace, table, ready, shown, apt, down>>

NoText == [id |-> "none", parts |-> <<0>>]
Nothing == [version |-> 0, text |-> NoText, count |-> 0]

Init ==
    /\ doc = [u \in Uri |-> [open |-> FALSE, version |-> 0, text |-> DiskText[u]]]
    /\ table = [u \in Uri |-> 0]
    /\ ready = <<[kind |-> "initialize"]>>
    /\ shown = [u \in Uri |-> Nothing]
    /\ aptState = "not-loaded"
    /\ packages = {}
    /\ lookups = {}
    /\ down = FALSE
    /\ messages = 0
    /\ contents = [u \in Uri |-> [v \in 1..MaxMessages |-> {}]]

-----------------------------------------------------------------------------
(* Messages; the workspace is that of pygls.                                *)

\* Mutant: the first list counts as published if it is empty.
ReceivedMutant(u, version, text) ==
    /\ doc' = [doc EXCEPT ![u] = [open |-> TRUE, version |-> version, text |-> text]]
    /\ contents' = [contents EXCEPT ![u][version] = @ \cup {text}]
    /\ ready' = Append(ready, [kind |-> "diagnose", uri |-> u, version |-> version,
                               text |-> NoText, at |-> 0, last |-> 0])

\* The document has the text, and a task of its own is to run.
Received(u, version, text) ==
    /\ doc' = [doc EXCEPT ![u] = [open |-> TRUE, version |-> version, text |-> text]]
    /\ contents' = [contents EXCEPT ![u][version] = @ \cup {text}]
    /\ ready' = Append(ready, [kind |-> "diagnose", uri |-> u, version |-> version,
                               text |-> NoText, at |-> 0, last |-> -1])

Message ==
    /\ ~ down
    /\ messages < MaxMessages
    /\ messages' = messages + 1
    /\ UNCHANGED <<table, shown, apt, down>>

DidOpen(u, text) ==
    /\ Message
    /\ ~ doc[u].open
    /\ Received(u, IF VersionsRestart THEN 1 ELSE doc[u].version + 1, text)

DidChange(u, text) ==
    /\ Message
    /\ doc[u].open
    /\ Received(u, doc[u].version + 1, text)

\* Nothing listens to this one; the workspace reads the file from now on.
DidClose(u) ==
    /\ Message
    /\ doc[u].open
    /\ doc' = [doc EXCEPT ![u].open = FALSE]
    /\ contents' = [contents EXCEPT ![u][doc[u].version] = @ \cup {DiskText[u]}]
    /\ UNCHANGED ready

-----------------------------------------------------------------------------
(* Tasks.                                                                   *)

Task == Head(ready)
Running(kind) == ready # <<>> /\ Task.kind = kind
EndTask == ready' = Tail(ready)
Sleep(task) == ready' = Append(Tail(ready), task)

-----------------------------------------------------------------------------
(* Diagnostics.                                                             *)

\* The diagnostics there are after the first i parts.
Totals(parts) ==
    LET sum[i \in 0..Len(parts)] == IF i = 0 THEN 0 ELSE sum[i - 1] + parts[i]
    IN  sum
Total(parts) == Totals(parts)[Len(parts)]

\* The lengths the list of diagnostics has each time the handler yields it.
\* After the last part the scanner yields it if it has anything new or nothing
\* at all.
Yields(u, text) ==
    LET soFar == [i \in 1..Len(text.parts) |-> Totals(text.parts)[i]]
    IN  IF u \in Linted THEN <<Last(soFar)>>
        ELSE IF Last(text.parts) # 0 \/ Last(soFar) = 0 THEN soFar
        ELSE Front(soFar)

ScanLeavesAlone == UNCHANGED <<workspace, apt, down>>

\* The task begins with the text that is there by now, up to the first list.
StartScan ==
    /\ Running("diagnose") /\ Task.at = 0
    /\ table' = [table EXCEPT ![Task.uri] = Task.version]
    /\ LET u == Task.uri
           text == IF doc[u].open THEN doc[u].text ELSE DiskText[u]
       IN  IF u \in Unhandled \/ Yields(u, text) = <<>> THEN EndTask
           ELSE Sleep([Task EXCEPT !.text = text, !.at = 1])
    /\ UNCHANGED shown
    /\ ScanLeavesAlone

\* Mutant: nobody looks.
IsDocAtVersionMutant(u, version) == TRUE

IsDocAtVersion(u, version) == table[u] = version

CancelScan ==
    /\ Running("diagnose") /\ Task.at > 0
    /\ ~ IsDocAtVersion(Task.uri, Task.version)
    /\ EndTask
    /\ UNCHANGED <<table, shown>>
    /\ ScanLeavesAlone

\* The list is published, unless it is as long as the one before, and the
\* handler goes on to the next.
PublishScan ==
    /\ Running("diagnose") /\ Task.at > 0
    /\ IsDocAtVersion(Task.uri, Task.version)
    /\ LET yields == Yields(Task.uri, Task.text)
           count == yields[Task.at]
       IN  /\ shown' = IF count = Task.last THEN shown
                       ELSE [shown EXCEPT ![Task.uri] =
                               [version |-> Task.version, text |-> Task.text, count |-> count]]
           /\ IF Task.at = Len(yields) THEN EndTask
              ELSE Sleep([Task EXCEPT !.at = @ + 1, !.last = count])
    /\ UNCHANGED table
    /\ ScanLeavesAlone

-----------------------------------------------------------------------------
(* The apt cache.                                                           *)

LoadLeavesAlone == UNCHANGED <<workspace, table, shown, down>>

\* on_initialize starts it in the background.
Initialize ==
    /\ Running("initialize")
    /\ Sleep([kind |-> "apt", at |-> 0, cancelled |-> FALSE])
    /\ UNCHANGED apt
    /\ LoadLeavesAlone

\* Mutant: the last one that is listed wins.
WithPackageMutant(found, p) == {q \in found : q.name # p.name} \cup {p}

\* A package replaces one of its name that is not newer.
WithPackage(found, p) ==
    IF \E q \in found : q.name = p.name /\ p.version < q.version THEN found
    ELSE {q \in found : q.name # p.name} \cup {p}

Lookups(found) ==
    {[name |-> n,
      package |-> {p \in found : p.name = n},
      providedBy |-> {p \in found : n \in p.provides}] :
        n \in {p.name : p \in found} \cup UNION {p.provides : p \in found}}

\* Up to the sleep before package n is looked at, or to the end.
LoadUpTo(n, found) ==
    \/ /\ n <= Len(Index)
       /\ aptState' = "loading"
       /\ packages' = found
       /\ UNCHANGED lookups
       /\ Sleep([Task EXCEPT !.at = n])
    \/ /\ n > Len(Index)
       /\ aptState' = "loaded"
       /\ packages' = {}
       /\ lookups' = Lookups(found)
       /\ EndTask
    \/ \E fault \in LoadFaults :
       /\ aptState' = FinalStateOf[fault]
       /\ packages' = {}
       /\ UNCHANGED lookups
       /\ EndTask

LoadApt ==
    /\ Running("apt") /\ ~ Task.cancelled
    /\ LoadUpTo(Task.at + 1,
                IF Task.at = 0 THEN packages ELSE WithPackage(packages, Index[Task.at]))
    /\ LoadLeavesAlone

CancelLoading ==
    /\ Running("apt") /\ Task.cancelled
    /\ EndTask
    /\ UNCHANGED apt
    /\ LoadLeavesAlone

\* What is said about a package in a field with relations, at any time.
Hover(n) ==
    LET found == {l \in lookups : l.name = n}
        says == CASE aptState = "loaded" -> "packages"
                  [] aptState = "loading" -> "indexing"
                  [] OTHER -> "not available"
    IN  [says |-> says,
         package |-> UNION {l.package : l \in found},
         providedBy |-> UNION {l.providedBy : l \in found}]

\* The tasks in the background are cancelled.
Shutdown ==
    /\ ~ down
    /\ down' = TRUE
    /\ ready' = [i \in 1..Len(ready) |->
                    IF ready[i].kind = "apt" THEN [ready[i] EXCEPT !.cancelled = TRUE]
                    ELSE ready[i]]
    /\ UNCHANGED <<workspace, table, shown, apt>>

-----------------------------------------------------------------------------

RunTask ==
    \/ StartScan \/ CancelScan \/ PublishScan
    \/ Initialize \/ LoadApt \/ CancelLoading

Next ==
    \/ RunTask
    \/ \E u \in Uri :
        \/ \E text \in Text : DidOpen(u, text) \/ DidChange(u, text)
        \/ DidClose(u)
    \/ Shutdown

\* The loop runs what is ready; nobody has to send messages.
Spec == Init /\ [][Next]_vars /\ WF_vars(RunTask)

-----------------------------------------------------------------------------
(* Properties.                                                              *)

TypeOK ==
    /\ doc \in [Uri -> [open : BOOLEAN, version : 0..MaxMessages, text : Text]]
    /\ table \in [Uri -> 0..MaxMessages]
    /\ \A i \in 1..Len(ready) : ready[i].kind \in {"initialize", "apt", "diagnose"}
    /\ \A u \in Uri : shown[u].text \in Text \cup {NoText}
    /\ aptState \in {"not-loaded", "loading", "loaded", "failed", "tooling-not-available"}
    /\ packages \subseteq Range(Index)
    /\ down \in BOOLEAN

\* What the client shows never goes back to an earlier version, nor to fewer of
\* the diagnostics of a version: the tasks of several versions run in turns, and
\* the table tells an obsolete one only after its successor began.
PublicationsAdvance ==
    [][\A u \in Uri : shown'[u] # shown[u] =>
            \/ shown'[u].version > shown[u].version
            \/ /\ shown'[u].version = shown[u].version
               /\ shown'[u].text = shown[u].text
               /\ shown'[u].count > shown[u].count]_vars

\* Diagnostics published for a version are those of its text: a task begins by
\* reading the text that is there by then, which may be that of later messages,
\* but then it is cancelled before it publishes.
PublishedMatchesVersion ==
    \A u \in Uri : shown[u] # Nothing => shown[u].text \in contents[u][shown[u].version]

\* When the client stops editing, each open document ends up with all
\* diagnostics of its text, also when there are none any more.
Current(u) == shown[u].text = doc[u].text /\ shown[u].count = Total(doc[u].text.parts)
Settles == \A u \in Uri \ Unhandled : <>[](doc[u].open => Current(u))

\* A hover about a package tells the newest version in the index, the last one
\* of several, and who provides it in their newest versions: hovers are answered
\* while the index is read, but not from half of it.
Newest ==
    {Index[i] : i \in {i \in 1..Len(Index) :
        \A j \in 1..Len(Index) : Index[j].name = Index[i].name =>
            \/ Index[j].version < Index[i].version
            \/ Index[j].version = Index[i].version /\ j <= i}}
HoverIsRight ==
    \A n \in UNION {p.provides \cup {p.name} : p \in Range(Index)} :
        Hover(n).says = "packages" =>
            /\ Hover(n).package = {p \in Newest : p.name = n}
            /\ Hover(n).providedBy = {p \in Newest : n \in p.provides}

\* "APT cache data is still being indexed. Please try again in a moment.": the
\* server does not say so for the rest of the session.
IndexingEnds == aptState = "loading" ~> (aptState # "loading" \/ down)
=============================================================================
