---------------------------- MODULE AssemblyProofs ----------------------------
(***************************************************************************)
(* Theorems about Assembly for any packages, files and detectors, and any   *)
(* number of edits.                                                         *)
(***************************************************************************)
EXTENDS Assembly, TLAPS

Early == {"before", "replace", "debug", "attach", "after", "shlibs"}
Late == {"finalize", "detect", "dbgsym", "pack"}

\* What contents are made of.
Item ==
    SourceFile \cup {Generated(n) : n \in Nat}
        \cup {"edited", "gz", "dwz", "debug", "stripped", "linked"}

Contents == Seq(Item) \ {<<>>}

\* The nodes of a package and of its dbgsym package.
Parts == {"tree", "debug"}
Of(k, p) == IF k = "tree" THEN tree[p] ELSE debug[p]

\* A node that has its file for itself does not have one of the build.
NodesOK(nodes) ==
    \A x \in DOMAIN nodes :
        nodes[x].inline \in BOOLEAN /\ (nodes[x].inline => nodes[x].file \notin SourceFile)

TreesOK ==
    /\ tree = [p \in Packages |-> tree[p]] /\ debug = [p \in Packages |-> debug[p]]
    /\ \A k \in Parts, p \in Packages : NodesOK(Of(k, p))

\* Files have contents, and new ones get new names.
DiskOK ==
    /\ disk = [f \in DOMAIN disk |-> disk[f]]
    /\ \A f \in DOMAIN disk : disk[f] \in Contents
    /\ made \in Nat
    /\ \A n \in Nat : Generated(n) \in DOMAIN disk => n < made

\* A file that a node has for itself, no other node has.
OwnOK ==
    \A k, l \in Parts, p, q \in Packages : \A x \in DOMAIN Of(k, p), y \in DOMAIN Of(l, q) :
        Of(k, p)[x].inline /\ Of(k, p)[x].file = Of(l, q)[y].file => k = l /\ p = q /\ x = y

FilesOK == SourceUntouched /\ TreesOK /\ DiskOK /\ OwnOK

IsThere(k, p) == \A x \in DOMAIN Of(k, p) : Of(k, p)[x].file \in DOMAIN disk
AllThere == \A k \in Parts, p \in Packages : IsThere(k, p)

\* Where the program is, and that nothing is writable any more.
PlaceOK ==
    /\ at \in Nat \ {0}
    /\ pc \in (Early \cup Late) \ {"shlibs"} => at <= Len(Package)
    /\ pc \in Late => writable = {}

\* Files are replaced before the tools get them.
OpenOK ==
    IF pc \in {"replace", "debug", "attach"}
    THEN /\ \A x \in open : x \in DOMAIN tree[Cur] /\ tree[Cur][x].inline
         /\ pc # "replace" => ElfPaths(Cur) \subseteq open
    ELSE pc \in Early => open = {}

EarlyInv == FilesOK /\ AllThere /\ PlaceOK /\ OpenOK

\* What has yet to be put together: the packages after the one in work, and of
\* that one what was not, the dbgsym package being the first.
Coming(k, p) ==
    /\ pc \in Late
    /\ \E i \in DOMAIN Package :
          /\ Package[i] = p
          /\ i > at \/ (i = at /\ (k = "tree" \/ pc # "pack"))

ThereOK == \A k \in Parts, p \in Packages : Coming(k, p) => IsThere(k, p)

FrozenOK ==
    \A p \in Packages : Coming("tree", p) =>
        frozen[p] = [x \in DOMAIN tree[p] |-> Content(p, x)]

ManifestOK ==
    /\ pc \in {"detect", "dbgsym", "pack"} => manifest = tree[Cur]
    /\ pc \in {"dbgsym", "pack"} => "md5sums" \in DOMAIN packed /\ packed.md5sums = frozen[Cur]

AssemblyInv ==
    /\ FilesOK /\ PlaceOK /\ OpenOK
    /\ pc \in Early => AllThere /\ deb = <<>>
    /\ ThereOK /\ FrozenOK /\ ManifestOK
    /\ ShippedIsWhatWasFrozen

-----------------------------------------------------------------------------

\* The names of generated files are not those of the build.
LEMMA OtherNames ==
    /\ \A n : Generated(n) \notin SourceFile
    /\ \A id : DebugFile(id) \notin SourceFile
    /\ \A n, id : Generated(n) # DebugFile(id)
    /\ \A n, m : Generated(n) = Generated(m) => n = m
  <1>1. \A n, id : Generated(n)[1] = "generated" /\ DebugFile(id)[1] = "debug"
                   /\ Generated(n)[2] = n
    BY DEF Generated, DebugFile
  <1> QED
    BY <1>1, AssemblyAssumption

\* Cur is a package.
LEMMA CurIsPackage ==
    ASSUME PlaceOK, pc \in (Early \cup Late) \ {"shlibs"} \/ at <= Len(Package)
    PROVE  Cur \in Packages
  <1>1. at \in 1..Len(Package) /\ Package \in Seq(Packages)
    BY AssemblyAssumption DEF PlaceOK
  <1> QED
    BY <1>1 DEF Cur

\* More is done to a content: it still comes from the same file.
LEMMA AppendedContent ==
    ASSUME NEW c \in Contents, NEW e \in Item
    PROVE  Append(c, e) \in Contents /\ Head(Append(c, e)) = Head(c)
  <1>1. c \in Seq(Item) /\ c # <<>>
    BY DEF Contents
  <1>2. /\ Len(c) \in Nat \ {0} /\ Append(c, e) \in Seq(Item) /\ Append(c, e)[1] = c[1]
        /\ Append(c, e) # <<>>
    BY <1>1
  <1>3. Head(Append(c, e)) = Append(c, e)[1] /\ Head(c) = c[1]
    BY <1>1, <1>2
  <1>4. Append(c, e) \in Contents
    BY <1>2 DEF Contents
  <1> QED
    BY <1>2, <1>3, <1>4

\* What a node is given for its own: the file it had for its own, or a new one.
LEMMA OwnFile ==
    ASSUME FilesOK, AllThere, NEW p \in Packages, NEW x \in DOMAIN tree[p]
    PROVE  /\ WritableFile(p, x) \notin SourceFile
           /\ \A k \in Parts, q \in Packages : \A y \in DOMAIN Of(k, q) :
                 Of(k, q)[y].file = WritableFile(p, x) => k = "tree" /\ q = p /\ y = x
           /\ WritableFile(p, x) = Generated(made) \/ WritableFile(p, x) \in DOMAIN disk
  <1>1. Of("tree", p) = tree[p] /\ "tree" \in Parts
    BY DEF Of, Parts
  <1>2. CASE tree[p][x].inline
    <2>1. WritableFile(p, x) = tree[p][x].file
      BY <1>2 DEF WritableFile
    <2> QED
      BY <1>1, <1>2, <2>1 DEF FilesOK, TreesOK, NodesOK, OwnOK, AllThere, IsThere
  <1>3. CASE ~ tree[p][x].inline
    <2>1. WritableFile(p, x) = Generated(made)
      BY <1>3 DEF WritableFile
    <2>2. Generated(made) \notin DOMAIN disk
      BY DEF FilesOK, DiskOK
    <2> QED
      BY <2>1, <2>2, OtherNames DEF AllThere, IsThere
  <1> QED
    BY <1>2, <1>3

\* A node is given a file that no other node has.
LEMMA NewNode ==
    ASSUME FilesOK, AllThere,
           NEW k \in Parts, NEW p \in Packages, NEW x, NEW file,
           file \notin SourceFile,
           \A l \in Parts, q \in Packages : \A y \in DOMAIN Of(l, q) :
               Of(l, q)[y].file = file => l = k /\ q = p /\ y = x,
           tree' = [q \in Packages |-> tree'[q]], debug' = [q \in Packages |-> debug'[q]],
           x \in DOMAIN Of(k, p)', Of(k, p)'[x] = [file |-> file, inline |-> TRUE],
           \A l \in Parts, q \in Packages : \A y \in DOMAIN Of(l, q)' :
               ~ (l = k /\ q = p /\ y = x) =>
                   y \in DOMAIN Of(l, q) /\ Of(l, q)'[y] = Of(l, q)[y],
           disk' = [f \in DOMAIN disk' |-> disk'[f]],
           DOMAIN disk' = DOMAIN disk \cup {file},
           \A f \in DOMAIN disk' : disk'[f] \in Contents,
           \A s \in SourceFile : disk'[s] = disk[s],
           made' \in Nat, made <= made', \A n \in Nat : file = Generated(n) => n < made'
    PROVE  FilesOK' /\ AllThere'
  <1>1. SourceUntouched'
    BY DEF FilesOK, SourceUntouched
  <1>2. TreesOK'
    <2>1. \A l \in Parts, q \in Packages : NodesOK(Of(l, q))'
      <3> SUFFICES ASSUME NEW l \in Parts, NEW q \in Packages, NEW y \in DOMAIN Of(l, q)'
                   PROVE  /\ Of(l, q)'[y].inline \in BOOLEAN
                          /\ Of(l, q)'[y].inline => Of(l, q)'[y].file \notin SourceFile
        BY DEF NodesOK
      <3>1. CASE l = k /\ q = p /\ y = x
        <4>1. Of(l, q)'[y] = [file |-> file, inline |-> TRUE]
          BY <3>1
        <4>2. Of(l, q)'[y].inline = TRUE /\ Of(l, q)'[y].file = file
          BY <4>1
        <4> QED
          BY <4>2
      <3>2. CASE ~ (l = k /\ q = p /\ y = x)
        BY <3>2 DEF FilesOK, TreesOK, NodesOK
      <3> QED
        BY <3>1, <3>2
    <2> QED
      BY <2>1 DEF TreesOK
  <1>3. DiskOK'
    <2>1. \A n \in Nat : Generated(n) \in DOMAIN disk' => n < made'
      <3> SUFFICES ASSUME NEW n \in Nat, Generated(n) \in DOMAIN disk, made \in Nat
                   PROVE  n < made'
        BY DEF FilesOK, DiskOK
      <3>1. n < made
        BY DEF FilesOK, DiskOK
      <3> QED
        BY <3>1
    <2> QED
      BY <2>1, OtherNames DEF DiskOK
  <1>4. OwnOK'
    <2> SUFFICES ASSUME NEW l \in Parts, NEW m \in Parts, NEW q \in Packages, NEW r \in Packages,
                        NEW y \in DOMAIN Of(l, q)', NEW z \in DOMAIN Of(m, r)',
                        Of(l, q)'[y].inline, Of(l, q)'[y].file = Of(m, r)'[z].file
                 PROVE  l = m /\ q = r /\ y = z
      BY DEF OwnOK
    <2>1. CASE l = k /\ q = p /\ y = x
      BY <2>1
    <2>2. CASE m = k /\ r = p /\ z = x
      BY <2>2
    <2>3. CASE ~ (l = k /\ q = p /\ y = x) /\ ~ (m = k /\ r = p /\ z = x)
      <3>1. y \in DOMAIN Of(l, q) /\ Of(l, q)'[y] = Of(l, q)[y]
        BY <2>3
      <3>2. z \in DOMAIN Of(m, r) /\ Of(m, r)'[z] = Of(m, r)[z]
        BY <2>3
      <3> QED
        BY <3>1, <3>2 DEF FilesOK, OwnOK
    <2> QED
      BY <2>1, <2>2, <2>3
  <1>5. AllThere'
    <2> SUFFICES ASSUME NEW l \in Parts, NEW q \in Packages, NEW y \in DOMAIN Of(l, q)'
                 PROVE  Of(l, q)'[y].file \in DOMAIN disk'
      BY DEF AllThere, IsThere
    <2>1. CASE l = k /\ q = p /\ y = x
      BY <2>1
    <2>2. CASE ~ (l = k /\ q = p /\ y = x)
      BY <2>2 DEF AllThere, IsThere
    <2> QED
      BY <2>1, <2>2
  <1> QED
    BY <1>1, <1>2, <1>3, <1>4, <1>5 DEF FilesOK

\* A tool does more to files that nodes have for themselves.
LEMMA MoreIsDone ==
    ASSUME FilesOK, AllThere, Cur \in Packages, NEW what \in Item,
           NEW X, \A x \in X : x \in DOMAIN tree[Cur] /\ tree[Cur][x].inline
    PROVE  LET new == [f \in DOMAIN disk |->
                          IF f \in {tree[Cur][x].file : x \in X}
                          THEN Append(disk[f], what) ELSE disk[f]]
           IN  /\ \A f \in DOMAIN disk : new[f] \in Contents /\ Head(new[f]) = Head(disk[f])
               /\ \A s \in SourceFile : s \in DOMAIN disk /\ new[s] = disk[s]
  <1>1. \A f \in DOMAIN disk :
            /\ Append(disk[f], what) \in Contents /\ Head(Append(disk[f], what)) = Head(disk[f])
            /\ disk[f] \in Contents
    BY AppendedContent DEF FilesOK, DiskOK
  <1>2. \A x \in X : tree[Cur][x].file \notin SourceFile
    <2>1. Of("tree", Cur) = tree[Cur] /\ "tree" \in Parts
      BY DEF Of, Parts
    <2> QED
      BY <2>1 DEF FilesOK, TreesOK, NodesOK
  <1> QED
    BY <1>1, <1>2 DEF FilesOK, SourceUntouched

\* The contents of files may change where they are.
LEMMA SameNodes ==
    ASSUME FilesOK, AllThere, UNCHANGED <<tree, debug, made>>,
           disk' = [f \in DOMAIN disk |-> disk'[f]],
           \A f \in DOMAIN disk : disk'[f] \in Contents,
           \A s \in SourceFile : disk'[s] = disk[s]
    PROVE  FilesOK' /\ AllThere'
  <1>1. \A k, p : Of(k, p)' = Of(k, p)
    BY DEF Of
  <1>2. DOMAIN disk' = DOMAIN disk
    OBVIOUS
  <1>3. SourceUntouched'
    BY <1>2 DEF FilesOK, SourceUntouched
  <1>4. TreesOK'
    BY <1>1 DEF FilesOK, TreesOK
  <1>5. DiskOK'
    BY <1>2 DEF FilesOK, DiskOK
  <1>6. OwnOK'
    BY <1>1 DEF FilesOK, OwnOK
  <1>7. AllThere'
    BY <1>1, <1>2 DEF AllThere, IsThere
  <1> QED
    BY <1>3, <1>4, <1>5, <1>6, <1>7 DEF FilesOK

\* The ELF files of a package stay its ELF files.
LEMMA SameElf ==
    ASSUME AllThere, Cur \in Packages, UNCHANGED <<tree, at>>,
           \A f \in DOMAIN disk : Head(disk'[f]) = Head(disk[f])
    PROVE  ElfPaths(Cur)' = ElfPaths(Cur) /\ Cur' = Cur
  <1>1. Cur' = Cur
    BY DEF Cur
  <1>2. \A x \in DOMAIN tree[Cur] : tree[Cur][x].file \in DOMAIN disk
    <2>1. Of("tree", Cur) = tree[Cur] /\ "tree" \in Parts
      BY DEF Of, Parts
    <2> QED
      BY <2>1 DEF AllThere, IsThere
  <1> QED
    BY <1>1, <1>2 DEF ElfPaths, Content

\* replace_fs_path_content
LEMMA Replaced ==
    ASSUME FilesOK, AllThere, NEW p \in Packages, NEW x \in DOMAIN tree[p], NEW c \in Contents,
           ReplaceContent(p, x, c)
    PROVE  /\ FilesOK' /\ AllThere'
           /\ x \in DOMAIN tree'[p] /\ tree'[p][x].inline
           /\ \A y \in DOMAIN tree[p] \ {x} : y \in DOMAIN tree'[p] /\ tree'[p][y] = tree[p][y]
  <1> DEFINE file == WritableFile(p, x)
             node == [file |-> file, inline |-> TRUE]
  <1>1. /\ disk' = Put(disk, file, c) /\ made' = made + 1 /\ debug' = debug
        /\ tree' = [tree EXCEPT ![p][x] = node]
    BY DEF ReplaceContent
  <1>2. tree = [q \in Packages |-> tree[q]] /\ debug = [q \in Packages |-> debug[q]]
    BY DEF FilesOK, TreesOK
  <1>3. /\ tree' = [q \in Packages |-> tree'[q]]
        /\ tree'[p] = [tree[p] EXCEPT ![x] = node]
        /\ \A q \in Packages \ {p} : tree'[q] = tree[q]
    BY <1>1, <1>2
  <1>4. /\ DOMAIN tree'[p] = DOMAIN tree[p]
        /\ tree'[p][x] = node
        /\ \A y \in DOMAIN tree[p] \ {x} : tree'[p][y] = tree[p][y]
    BY <1>3
  <1>5. /\ file \notin SourceFile
        /\ \A k \in Parts, q \in Packages : \A y \in DOMAIN Of(k, q) :
              Of(k, q)[y].file = file => k = "tree" /\ q = p /\ y = x
        /\ file = Generated(made) \/ file \in DOMAIN disk
    BY OwnFile
  <1>6. /\ disk' = [f \in DOMAIN disk' |-> disk'[f]]
        /\ DOMAIN disk' = DOMAIN disk \cup {file}
        /\ disk'[file] = c
        /\ \A f \in DOMAIN disk \ {file} : disk'[f] = disk[f]
    BY <1>1 DEF Put
  <1>7. \A f \in DOMAIN disk' : disk'[f] \in Contents
    BY <1>6 DEF FilesOK, DiskOK
  <1>8. \A s \in SourceFile : disk'[s] = disk[s]
    BY <1>5, <1>6 DEF FilesOK, SourceUntouched
  <1>9. made' \in Nat /\ made <= made' /\ \A n \in Nat : file = Generated(n) => n < made'
    <2>1. made \in Nat /\ \A n \in Nat : Generated(n) \in DOMAIN disk => n < made
      BY DEF FilesOK, DiskOK
    <2>2. \A n \in Nat : file = Generated(n) => n <= made
      BY <1>5, <2>1, OtherNames
    <2> QED
      BY <1>1, <2>1, <2>2
  <1>10. /\ "tree" \in Parts
         /\ \A q : Of("tree", q) = tree[q] /\ Of("tree", q)' = tree'[q]
         /\ \A q : Of("debug", q)' = Of("debug", q)
         /\ \A k \in Parts : k # "tree" => k = "debug"
    BY <1>1 DEF Of, Parts
  <1>11. x \in DOMAIN Of("tree", p)' /\ Of("tree", p)'[x] = node
    BY <1>4, <1>10
  <1>12. \A l \in Parts, q \in Packages : \A y \in DOMAIN Of(l, q)' :
            ~ (l = "tree" /\ q = p /\ y = x) =>
                y \in DOMAIN Of(l, q) /\ Of(l, q)'[y] = Of(l, q)[y]
    <2> SUFFICES ASSUME NEW l \in Parts, NEW q \in Packages, NEW y \in DOMAIN Of(l, q)',
                        ~ (l = "tree" /\ q = p /\ y = x)
                 PROVE  y \in DOMAIN Of(l, q) /\ Of(l, q)'[y] = Of(l, q)[y]
      OBVIOUS
    <2>1. CASE l = "debug"
      BY <2>1, <1>10
    <2>2. CASE l = "tree" /\ q # p
      BY <2>2, <1>3, <1>10
    <2>3. CASE l = "tree" /\ q = p
      BY <2>3, <1>4, <1>10
    <2> QED
      BY <2>1, <2>2, <2>3, <1>10
  <1>13. FilesOK' /\ AllThere'
    <2> HIDE DEF file
    <2> QED
      BY <1>1, <1>2, <1>3, <1>5, <1>6, <1>7, <1>8, <1>9, <1>10, <1>11, <1>12, NewNode
  <1> QED
    BY <1>4, <1>13

LEMMA EditEarly ==
    ASSUME EarlyInv, pc \in Early, NEW p \in Packages, NEW x \in DOMAIN tree[p], Edit(p, x)
    PROVE  EarlyInv' /\ pc' = pc
  <1>1. /\ FilesOK /\ AllThere /\ PlaceOK /\ OpenOK
        /\ pc \notin {"replace", "debug", "attach"}
        /\ UNCHANGED <<writable, pc, at, open>>
        /\ ReplaceContent(p, x, Append(Content(p, x), "edited"))
    BY DEF EarlyInv, Edit, place, Early
  <1>2. Append(Content(p, x), "edited") \in Contents
    <2>1. Of("tree", p) = tree[p] /\ "tree" \in Parts /\ "edited" \in Item
      BY DEF Of, Parts, Item
    <2>2. Content(p, x) \in Contents
      BY <1>1, <2>1 DEF Content, AllThere, IsThere, FilesOK, DiskOK
    <2> QED
      BY <2>1, <2>2, AppendedContent
  <1>3. FilesOK' /\ AllThere'
    BY <1>1, <1>2, Replaced
  <1>4. PlaceOK' /\ OpenOK'
    BY <1>1 DEF PlaceOK, OpenOK
  <1> QED
    BY <1>1, <1>3, <1>4 DEF EarlyInv

LEMMA ReplaceElfEarly ==
    ASSUME EarlyInv, NEW x \in DOMAIN tree[Cur], ReplaceElf(x)
    PROVE  EarlyInv' /\ pc' = pc /\ pc \in Early
  <1>1. /\ FilesOK /\ AllThere /\ PlaceOK /\ OpenOK
        /\ pc = "replace" /\ pc \in Early
        /\ open' = open \cup {x}
        /\ UNCHANGED <<writable, pc, at>>
        /\ ReplaceContent(Cur, x, Content(Cur, x))
    BY DEF EarlyInv, ReplaceElf, StripLeavesAlone, Early
  <1>2. Cur \in Packages /\ Cur' = Cur
    <2>1. Cur \in Packages
      BY <1>1, CurIsPackage DEF Early
    <2> QED
      BY <1>1, <2>1 DEF Cur
  <1>3. Content(Cur, x) \in Contents
    <2>1. Of("tree", Cur) = tree[Cur] /\ "tree" \in Parts
      BY DEF Of, Parts
    <2> QED
      BY <1>1, <1>2, <2>1 DEF Content, AllThere, IsThere, FilesOK, DiskOK
  <1>4. /\ FilesOK' /\ AllThere'
        /\ x \in DOMAIN tree'[Cur] /\ tree'[Cur][x].inline
        /\ \A y \in DOMAIN tree[Cur] \ {x} :
              y \in DOMAIN tree'[Cur] /\ tree'[Cur][y] = tree[Cur][y]
    BY <1>1, <1>2, <1>3, Replaced
  <1>5. PlaceOK'
    BY <1>1 DEF PlaceOK
  <1>6. OpenOK'
    <2>1. \A y \in open : y \in DOMAIN tree[Cur] /\ tree[Cur][y].inline
      BY <1>1 DEF OpenOK
    <2>2. \A y \in open' : y \in DOMAIN tree'[Cur] /\ tree'[Cur][y].inline
      BY <1>1, <1>4, <2>1
    <2> QED
      BY <1>1, <1>2, <2>2 DEF OpenOK
  <1> QED
    BY <1>1, <1>4, <1>5, <1>6 DEF EarlyInv

LEMMA CompressEarly ==
    ASSUME EarlyInv, NEW x \in DOMAIN tree[Cur], Compress(x)
    PROVE  EarlyInv' /\ pc' = pc /\ pc \in Early
  <1> DEFINE file == Generated(made)
             gz == x \o ".gz"
             node == [file |-> file, inline |-> TRUE]
             content == Append(Content(Cur, x), "gz")
  <1>1. /\ FilesOK /\ AllThere /\ PlaceOK /\ OpenOK
        /\ pc = "after" /\ pc \in Early
        /\ disk' = Put(disk, file, content)
        /\ tree' = [tree EXCEPT ![Cur] = Put(Without(@, {x}), gz, node)]
        /\ made' = made + 1
        /\ UNCHANGED <<debug, writable, pc, at, open>>
    BY DEF EarlyInv, Compress, place, Early
  <1>2. Cur \in Packages
    BY <1>1, CurIsPackage DEF Early
  <1>3. content \in Contents
    <2>1. Of("tree", Cur) = tree[Cur] /\ "tree" \in Parts /\ "gz" \in Item
      BY DEF Of, Parts, Item
    <2>2. Content(Cur, x) \in Contents
      BY <1>1, <1>2, <2>1 DEF Content, AllThere, IsThere, FilesOK, DiskOK
    <2> QED
      BY <2>1, <2>2, AppendedContent
  <1>4. tree = [q \in Packages |-> tree[q]] /\ debug = [q \in Packages |-> debug[q]]
    BY <1>1 DEF FilesOK, TreesOK
  <1>5. /\ tree' = [q \in Packages |-> tree'[q]]
        /\ debug' = [q \in Packages |-> debug'[q]]
        /\ tree'[Cur] = Put(Without(tree[Cur], {x}), gz, node)
        /\ \A q \in Packages : q # Cur => tree'[q] = tree[q]
    BY <1>1, <1>2, <1>4
  <1>6. /\ gz \in DOMAIN tree'[Cur] /\ tree'[Cur][gz] = node
        /\ \A y \in DOMAIN tree'[Cur] : y # gz =>
              y \in DOMAIN tree[Cur] /\ tree'[Cur][y] = tree[Cur][y]
    <2> HIDE DEF gz, node
    <2> QED
      BY <1>5 DEF Put, Without
  <1>7. made \in Nat /\ file \notin DOMAIN disk /\ file \notin SourceFile
    BY <1>1, OtherNames DEF FilesOK, DiskOK
  <1>8. /\ disk' = [f \in DOMAIN disk' |-> disk'[f]]
        /\ DOMAIN disk' = DOMAIN disk \cup {file}
        /\ disk'[file] = content
        /\ \A f \in DOMAIN disk : disk'[f] = disk[f]
    <2> HIDE DEF file, content
    <2> QED
      BY <1>1, <1>7 DEF Put
  <1>9. \A f \in DOMAIN disk' : disk'[f] \in Contents
    <2> HIDE DEF file, content
    <2> QED
      BY <1>1, <1>3, <1>8 DEF FilesOK, DiskOK
  <1>10. \A s \in SourceFile : disk'[s] = disk[s]
    BY <1>1, <1>8 DEF FilesOK, SourceUntouched
  <1>11. made' \in Nat /\ made <= made' /\ \A n \in Nat : file = Generated(n) => n < made'
    BY <1>1, <1>7, OtherNames
  <1>12. /\ "tree" \in Parts
         /\ \A q : Of("tree", q) = tree[q] /\ Of("tree", q)' = tree'[q]
         /\ \A q : Of("debug", q)' = Of("debug", q)
         /\ \A k \in Parts : k # "tree" => k = "debug"
    BY <1>1 DEF Of, Parts
  <1>13. \A l \in Parts, q \in Packages : \A y \in DOMAIN Of(l, q)' :
            ~ (l = "tree" /\ q = Cur /\ y = gz) =>
                y \in DOMAIN Of(l, q) /\ Of(l, q)'[y] = Of(l, q)[y]
    <2> HIDE DEF gz, node
    <2> SUFFICES ASSUME NEW l \in Parts, NEW q \in Packages, NEW y \in DOMAIN Of(l, q)',
                        ~ (l = "tree" /\ q = Cur /\ y = gz)
                 PROVE  y \in DOMAIN Of(l, q) /\ Of(l, q)'[y] = Of(l, q)[y]
      OBVIOUS
    <2>1. CASE l = "debug"
      BY <2>1, <1>12
    <2>2. CASE l = "tree" /\ q # Cur
      BY <2>2, <1>5, <1>12
    <2>3. CASE l = "tree" /\ q = Cur
      BY <2>3, <1>6, <1>12
    <2> QED
      BY <2>1, <2>2, <2>3, <1>12
  <1>14. \A l \in Parts, q \in Packages : \A y \in DOMAIN Of(l, q) : Of(l, q)[y].file # file
    BY <1>1, <1>7 DEF AllThere, IsThere
  <1>15. FilesOK' /\ AllThere'
    <2> HIDE DEF file, gz, content
    <2>1. PICK p \in Packages : p = Cur
      BY <1>2
    <2>2. gz \in DOMAIN Of("tree", p)' /\ Of("tree", p)'[gz] = [file |-> file, inline |-> TRUE]
      BY <2>1, <1>6, <1>12
    <2>3. \A l \in Parts, q \in Packages : \A y \in DOMAIN Of(l, q)' :
            ~ (l = "tree" /\ q = p /\ y = gz) =>
                y \in DOMAIN Of(l, q) /\ Of(l, q)'[y] = Of(l, q)[y]
      BY <2>1, <1>13
    <2>4. FilesOK /\ AllThere /\ "tree" \in Parts /\ file \notin SourceFile
      BY <1>1, <1>7, <1>12
    <2>5. \A l \in Parts, q \in Packages : \A y \in DOMAIN Of(l, q) :
              Of(l, q)[y].file = file => l = "tree" /\ q = p /\ y = gz
      BY <1>14
    <2> HIDE DEF node
    <2> QED
      BY <1>5, <1>8, <1>9, <1>10, <1>11, <2>2, <2>3, <2>4, <2>5, NewNode
  <1>16. PlaceOK' /\ OpenOK'
    BY <1>1 DEF PlaceOK, OpenOK
  <1> QED
    BY <1>1, <1>15, <1>16 DEF EarlyInv

\* A tool rewrites files of open paths.
LEMMA Rewritten ==
    ASSUME EarlyInv, pc \in {"replace", "debug", "attach"}, NEW what \in Item,
           NEW X, X \subseteq open, Rewrite(X, what), UNCHANGED <<tree, debug, made, at>>
    PROVE  /\ FilesOK' /\ AllThere'
           /\ ElfPaths(Cur)' = ElfPaths(Cur) /\ Cur' = Cur
  <1> DEFINE new == [f \in DOMAIN disk |->
                        IF f \in {tree[Cur][x].file : x \in X}
                        THEN Append(disk[f], what) ELSE disk[f]]
  <1>1. FilesOK /\ AllThere /\ PlaceOK /\ OpenOK
    BY DEF EarlyInv
  <1>2. Cur \in Packages
    BY <1>1, CurIsPackage DEF Early
  <1>3. \A x \in X : x \in DOMAIN tree[Cur] /\ tree[Cur][x].inline
    BY <1>1 DEF OpenOK
  <1>4. disk' = new
    BY DEF Rewrite
  <1>5. /\ \A f \in DOMAIN disk : new[f] \in Contents /\ Head(new[f]) = Head(disk[f])
        /\ \A s \in SourceFile : s \in DOMAIN disk /\ new[s] = disk[s]
    BY <1>1, <1>2, <1>3, MoreIsDone
  <1>6. FilesOK' /\ AllThere'
    <2>1. disk' = [f \in DOMAIN disk |-> disk'[f]]
      BY <1>4
    <2> HIDE DEF new
    <2> QED
      BY <1>1, <1>4, <1>5, <2>1, SameNodes
  <1>7. ElfPaths(Cur)' = ElfPaths(Cur) /\ Cur' = Cur
    <2> HIDE DEF new
    <2> QED
      BY <1>1, <1>2, <1>4, <1>5, SameElf
  <1> QED
    BY <1>6, <1>7

LEMMA StripEarly ==
    ASSUME EarlyInv, Strip
    PROVE  EarlyInv' /\ pc \in Early /\ pc' \in Early
  <1>1. /\ FilesOK /\ AllThere /\ PlaceOK /\ OpenOK
        /\ pc = "debug" /\ pc' = "attach" /\ pc \in Early /\ pc' \in Early
        /\ Rewrite(open, "stripped")
        /\ UNCHANGED <<tree, debug, made, writable, at, open>>
    BY DEF EarlyInv, Strip, StripLeavesAlone, Early
  <1>2. "stripped" \in Item
    BY DEF Item
  <1>3. FilesOK' /\ AllThere' /\ ElfPaths(Cur)' = ElfPaths(Cur) /\ Cur' = Cur
    BY <1>1, <1>2, Rewritten
  <1>4. PlaceOK'
    BY <1>1 DEF PlaceOK, Early, Late
  <1>5. OpenOK'
    BY <1>1, <1>3 DEF OpenOK
  <1> QED
    BY <1>1, <1>3, <1>4, <1>5 DEF EarlyInv

LEMMA AttachDebugEarly ==
    ASSUME EarlyInv, NEW x, AttachDebug(x)
    PROVE  EarlyInv' /\ pc \in Early /\ pc' = pc
  <1>1. /\ FilesOK /\ AllThere /\ PlaceOK /\ OpenOK
        /\ pc = "attach" /\ pc' = "attach" /\ pc \in Early
        /\ x \in Unstripped(Cur)
        /\ Rewrite({x}, "linked")
        /\ UNCHANGED <<tree, debug, made, writable, at, open>>
    BY DEF EarlyInv, AttachDebug, StripLeavesAlone, Early
  <1>2. "linked" \in Item
    BY DEF Item
  <1>3. {x} \subseteq open
    BY <1>1 DEF Unstripped, OpenOK
  <1>4. FilesOK' /\ AllThere' /\ ElfPaths(Cur)' = ElfPaths(Cur) /\ Cur' = Cur
    BY <1>1, <1>2, <1>3, Rewritten
  <1>5. PlaceOK'
    BY <1>1 DEF PlaceOK
  <1>6. OpenOK'
    BY <1>1, <1>4 DEF OpenOK
  <1> QED
    BY <1>1, <1>4, <1>5, <1>6 DEF EarlyInv

\* A node of the dbgsym package is given a new file.
LEMMA NewDebugNode ==
    ASSUME EarlyInv, NEW p \in Packages, NEW id, NEW file,
           file \notin SourceFile, file \notin DOMAIN disk,
           UNCHANGED tree,
           debug' = [debug EXCEPT ![p] = Put(@, id, [file |-> file, inline |-> TRUE])],
           disk' = [f \in DOMAIN disk' |-> disk'[f]],
           DOMAIN disk' = DOMAIN disk \cup {file},
           \A f \in DOMAIN disk' : disk'[f] \in Contents,
           \A s \in SourceFile : disk'[s] = disk[s],
           made' \in Nat, made <= made', \A n \in Nat : file = Generated(n) => n < made'
    PROVE  FilesOK' /\ AllThere'
  <1> DEFINE node == [file |-> file, inline |-> TRUE]
  <1>1. FilesOK /\ AllThere
    BY DEF EarlyInv
  <1>2. tree = [q \in Packages |-> tree[q]] /\ debug = [q \in Packages |-> debug[q]]
    BY <1>1 DEF FilesOK, TreesOK
  <1>3. /\ tree' = [q \in Packages |-> tree'[q]]
        /\ debug' = [q \in Packages |-> debug'[q]]
        /\ debug'[p] = Put(debug[p], id, node)
        /\ \A q \in Packages : q # p => debug'[q] = debug[q]
    BY <1>2
  <1>4. /\ id \in DOMAIN debug'[p] /\ debug'[p][id] = node
        /\ \A y \in DOMAIN debug'[p] : y # id =>
              y \in DOMAIN debug[p] /\ debug'[p][y] = debug[p][y]
    <2> HIDE DEF node
    <2> QED
      BY <1>3 DEF Put
  <1>5. /\ "debug" \in Parts
        /\ \A q : Of("debug", q) = debug[q] /\ Of("debug", q)' = debug'[q]
        /\ \A q : Of("tree", q)' = Of("tree", q)
        /\ \A k \in Parts : k # "debug" => k = "tree"
    BY DEF Of, Parts
  <1>6. id \in DOMAIN Of("debug", p)' /\ Of("debug", p)'[id] = node
    BY <1>4, <1>5
  <1>7. \A l \in Parts, q \in Packages : \A y \in DOMAIN Of(l, q)' :
            ~ (l = "debug" /\ q = p /\ y = id) =>
                y \in DOMAIN Of(l, q) /\ Of(l, q)'[y] = Of(l, q)[y]
    <2> HIDE DEF node
    <2> SUFFICES ASSUME NEW l \in Parts, NEW q \in Packages, NEW y \in DOMAIN Of(l, q)',
                        ~ (l = "debug" /\ q = p /\ y = id)
                 PROVE  y \in DOMAIN Of(l, q) /\ Of(l, q)'[y] = Of(l, q)[y]
      OBVIOUS
    <2>1. CASE l = "tree"
      BY <2>1, <1>5
    <2>2. CASE l = "debug" /\ q # p
      BY <2>2, <1>3, <1>5
    <2>3. CASE l = "debug" /\ q = p
      BY <2>3, <1>4, <1>5
    <2> QED
      BY <2>1, <2>2, <2>3, <1>5
  <1>8. \A l \in Parts, q \in Packages : \A y \in DOMAIN Of(l, q) :
            Of(l, q)[y].file = file => l = "debug" /\ q = p /\ y = id
    BY <1>1 DEF AllThere, IsThere
  <1>9. /\ id \in DOMAIN Of("debug", p)'
        /\ Of("debug", p)'[id] = [file |-> file, inline |-> TRUE]
    BY <1>6
  <1> HIDE DEF node
  <1>10. "debug" \in Parts
    BY <1>5
  <1>11. /\ FilesOK /\ AllThere /\ p \in Packages /\ file \notin SourceFile
         /\ tree' = [q \in Packages |-> tree'[q]]
         /\ debug' = [q \in Packages |-> debug'[q]]
         /\ disk' = [f \in DOMAIN disk' |-> disk'[f]]
         /\ DOMAIN disk' = DOMAIN disk \cup {file}
         /\ \A f \in DOMAIN disk' : disk'[f] \in Contents
         /\ \A s \in SourceFile : disk'[s] = disk[s]
         /\ made' \in Nat /\ made <= made' /\ \A n \in Nat : file = Generated(n) => n < made'
    BY <1>1, <1>3
  <1> QED
    BY ONLY <1>7, <1>8, <1>9, <1>10, <1>11, NewNode

LEMMA MakeDebugFileEarly ==
    ASSUME EarlyInv, NEW x \in DOMAIN tree[Cur], MakeDebugFile(x)
    PROVE  EarlyInv' /\ pc \in Early /\ pc' \in {"debug", "file exists"}
  <1> DEFINE id == ElfOf(Cur, x).id
             file == DebugFile(id)
             content == Append(Content(Cur, x), "debug")
  <1>1. /\ FilesOK /\ AllThere /\ PlaceOK /\ OpenOK
        /\ pc = "debug" /\ pc \in Early
        /\ UNCHANGED <<tree, made, writable, at, open>>
        /\ pc' \in {"debug", "file exists"}
    BY DEF EarlyInv, MakeDebugFile, StripLeavesAlone, Early, files
  <1>2. Cur \in Packages
    BY <1>1, CurIsPackage DEF Early
  <1>3. PlaceOK'
    BY <1>1 DEF PlaceOK, Late, Early
  <1>4. CASE UNCHANGED files
    <2>1. FilesOK' /\ AllThere' /\ ElfPaths(Cur)' = ElfPaths(Cur) /\ Cur' = Cur
      <3>1. UNCHANGED <<disk, tree, debug, made, at>>
        BY <1>1, <1>4 DEF files
      <3>2. disk = [f \in DOMAIN disk |-> disk[f]] /\ \A f \in DOMAIN disk : disk[f] \in Contents
        BY <1>1 DEF FilesOK, DiskOK
      <3>3. FilesOK' /\ AllThere'
        BY <1>1, <3>1, <3>2, SameNodes
      <3>4. ElfPaths(Cur)' = ElfPaths(Cur) /\ Cur' = Cur
        BY <1>1, <1>2, <3>1, SameElf
      <3> QED
        BY <3>3, <3>4
    <2>2. OpenOK'
      BY <1>1, <2>1 DEF OpenOK, Early
    <2> QED
      BY <1>1, <1>3, <2>1, <2>2 DEF EarlyInv
  <1>5. CASE ~ UNCHANGED files
    <2>1. /\ file \notin DOMAIN disk
          /\ disk' = Put(disk, file, content)
          /\ debug' = [debug EXCEPT ![Cur] = Put(@, id, [file |-> file, inline |-> TRUE])]
      BY <1>5 DEF MakeDebugFile
    <2>2. content \in Contents
      <3>1. Of("tree", Cur) = tree[Cur] /\ "tree" \in Parts /\ "debug" \in Item
        BY DEF Of, Parts, Item
      <3>2. Content(Cur, x) \in Contents
        BY <1>1, <1>2, <3>1 DEF Content, AllThere, IsThere, FilesOK, DiskOK
      <3> QED
        BY <3>1, <3>2, AppendedContent
    <2>3. /\ file \notin SourceFile
          /\ \A n \in Nat : file # Generated(n)
      BY OtherNames
    <2> HIDE DEF file, id, content
    <2>4. /\ disk' = [f \in DOMAIN disk' |-> disk'[f]]
          /\ DOMAIN disk' = DOMAIN disk \cup {file}
          /\ disk'[file] = content
          /\ \A f \in DOMAIN disk : disk'[f] = disk[f]
      BY <2>1 DEF Put
    <2>5. /\ \A f \in DOMAIN disk' : disk'[f] \in Contents
          /\ \A s \in SourceFile : disk'[s] = disk[s]
          /\ made' \in Nat /\ made <= made'
      <3>1. \A f \in DOMAIN disk' : disk'[f] \in Contents
        BY <1>1, <2>2, <2>4 DEF FilesOK, DiskOK
      <3>2. \A s \in SourceFile : disk'[s] = disk[s]
        BY <1>1, <2>4 DEF FilesOK, SourceUntouched
      <3>3. made' = made /\ made \in Nat
        BY <1>1 DEF FilesOK, DiskOK
      <3> QED
        BY <3>1, <3>2, <3>3
    <2>6. FilesOK' /\ AllThere'
      BY <1>1, <1>2, <2>1, <2>3, <2>4, <2>5, NewDebugNode
    <2>7. ElfPaths(Cur)' = ElfPaths(Cur) /\ Cur' = Cur
      BY <1>1, <1>2, <2>4, SameElf
    <2>8. OpenOK'
      BY <1>1, <2>7 DEF OpenOK, Early
    <2> QED
      BY <1>1, <1>3, <2>6, <2>8 DEF EarlyInv
  <1> QED
    BY <1>4, <1>5

LEMMA DwzEarly ==
    ASSUME EarlyInv, Dwz
    PROVE  EarlyInv' /\ pc \in Early /\ pc' \in Early
  <1> DEFINE file == Generated(made)
             new == [f \in DOMAIN disk |->
                        IF f \in {tree[Cur][x].file : x \in Unstripped(Cur)}
                        THEN Append(disk[f], "dwz") ELSE disk[f]]
  <1>1. /\ FilesOK /\ AllThere /\ PlaceOK /\ OpenOK
        /\ pc = "replace" /\ pc' = "debug" /\ pc \in Early /\ pc' \in Early
        /\ open = ElfPaths(Cur)
        /\ UNCHANGED <<writable, at, open>>
    BY DEF EarlyInv, Dwz, StripLeavesAlone, Early
  <1>2. Cur \in Packages
    BY <1>1, CurIsPackage DEF Early
  <1>3. PlaceOK'
    BY <1>1 DEF PlaceOK, Late, Early
  <1>4. "dwz" \in Item /\ Unstripped(Cur) \subseteq open
    BY <1>1 DEF Item, Unstripped
  <1>5. FilesOK' /\ AllThere' /\ ElfPaths(Cur)' = ElfPaths(Cur) /\ Cur' = Cur
    <2>1. CASE UNCHANGED files
      <3>1. UNCHANGED <<disk, tree, debug, made, at>>
        BY <1>1, <2>1 DEF files
      <3>2. disk = [f \in DOMAIN disk |-> disk[f]] /\ \A f \in DOMAIN disk : disk[f] \in Contents
        BY <1>1 DEF FilesOK, DiskOK
      <3>3. FilesOK' /\ AllThere'
        BY <1>1, <3>1, <3>2, SameNodes
      <3> QED
        BY <1>1, <1>2, <3>1, <3>3, SameElf
    <2>2. CASE Rewrite(Unstripped(Cur), "dwz") /\ UNCHANGED <<tree, debug, made>>
      BY <1>1, <1>4, <2>2, Rewritten
    <2>3. CASE /\ disk' = Put(new, file, <<file>>)
               /\ debug' = [debug EXCEPT ![Cur] =
                              Put(@, "dwz", [file |-> file, inline |-> TRUE])]
               /\ made' = made + 1
               /\ UNCHANGED tree
      <3>1. \A x \in Unstripped(Cur) : x \in DOMAIN tree[Cur] /\ tree[Cur][x].inline
        BY <1>1, <1>4 DEF OpenOK
      <3>2. /\ \A f \in DOMAIN disk : new[f] \in Contents /\ Head(new[f]) = Head(disk[f])
            /\ \A s \in SourceFile : s \in DOMAIN disk /\ new[s] = disk[s]
        BY <1>1, <1>2, <1>4, <3>1, MoreIsDone
      <3>3. made \in Nat /\ file \notin DOMAIN disk /\ file \notin SourceFile
        BY <1>1, OtherNames DEF FilesOK, DiskOK
      <3>4. <<file>> \in Contents
        <4>1. file \in Item
          BY <3>3 DEF Item
        <4> HIDE DEF file
        <4>2. <<file>> \in Seq(Item) /\ <<file>> # <<>>
          BY <4>1
        <4> QED
          BY <4>2 DEF Contents
      <3>5. made' \in Nat /\ made <= made' /\ \A n \in Nat : file = Generated(n) => n < made'
        BY <2>3, <3>3, OtherNames
      <3>6. DOMAIN new = DOMAIN disk
        OBVIOUS
      <3> HIDE DEF file, new
      <3>7. /\ disk' = [f \in DOMAIN disk' |-> disk'[f]]
            /\ DOMAIN disk' = DOMAIN disk \cup {file}
            /\ disk'[file] = <<file>>
            /\ \A f \in DOMAIN disk : disk'[f] = new[f]
        BY <2>3, <3>3, <3>6 DEF Put
      <3>8. /\ \A f \in DOMAIN disk' : disk'[f] \in Contents
            /\ \A s \in SourceFile : disk'[s] = disk[s]
            /\ \A f \in DOMAIN disk : Head(disk'[f]) = Head(disk[f])
        BY <3>2, <3>4, <3>7
      <3>9. FilesOK' /\ AllThere'
        BY <1>2, <2>3, <3>3, <3>5, <3>7, <3>8, NewDebugNode
      <3> QED
        BY <1>1, <1>2, <2>3, <3>8, <3>9, SameElf
    <2> QED
      BY <2>1, <2>2, <2>3 DEF Dwz
  <1>6. UNCHANGED tree
    BY DEF Dwz, files
  <1>7. OpenOK'
    BY <1>1, <1>5, <1>6 DEF OpenOK
  <1> QED
    BY <1>1, <1>3, <1>5, <1>7 DEF EarlyInv

\* The steps between, and those that find out about libraries, leave the files.
LEMMA QuietEarly ==
    ASSUME EarlyInv, pc \in Early, UNCHANGED files, PlaceOK', OpenOK'
    PROVE  EarlyInv'
  <1>1. UNCHANGED <<disk, tree, debug, made>>
    BY DEF files
  <1>2. disk = [f \in DOMAIN disk |-> disk[f]] /\ \A f \in DOMAIN disk : disk[f] \in Contents
    BY DEF EarlyInv, FilesOK, DiskOK
  <1>3. FilesOK' /\ AllThere'
    BY <1>1, <1>2, SameNodes DEF EarlyInv
  <1> QED
    BY <1>3 DEF EarlyInv

LEMMA BetweenEarly ==
    ASSUME EarlyInv,
           StartStrip \/ FinishStrip \/ NextPackage \/ ComputeShlibs \/ Freeze
               \/ (pc \in Early /\ ToolFails)
    PROVE  EarlyInv' /\ pc \in Early
  <1>1. FilesOK /\ AllThere /\ PlaceOK /\ OpenOK
    BY DEF EarlyInv
  <1>2. Len(Package) \in Nat \ {0}
    BY AssemblyAssumption
  <1>3. ASSUME StartStrip PROVE EarlyInv' /\ pc \in Early
    <2>1. /\ pc = "before" /\ pc \in Early
          /\ pc' = IF ElfPaths(Cur) = {} THEN "after" ELSE "replace"
          /\ UNCHANGED <<files, writable, at, open>>
      BY <1>3 DEF StartStrip, StripLeavesAlone, Early
    <2>2. open = {} /\ pc' \in {"after", "replace"}
      BY <1>1, <2>1 DEF OpenOK
    <2>3. PlaceOK' /\ OpenOK'
      BY <1>1, <2>1, <2>2 DEF PlaceOK, OpenOK, Early, Late
    <2> QED
      BY <2>1, <2>3, QuietEarly
  <1>4. ASSUME FinishStrip PROVE EarlyInv' /\ pc \in Early
    <2>1. /\ pc = "attach" /\ pc \in Early /\ pc' = "after" /\ open' = {}
          /\ UNCHANGED <<files, writable, at>>
      BY <1>4 DEF FinishStrip, StripLeavesAlone, Early
    <2>2. PlaceOK' /\ OpenOK'
      BY <1>1, <2>1 DEF PlaceOK, OpenOK, Early, Late
    <2> QED
      BY <2>1, <2>2, QuietEarly
  <1>5. ASSUME NextPackage PROVE EarlyInv' /\ pc \in Early
    <2>1. /\ pc = "after" /\ pc \in Early
          /\ IF at = Len(Package) THEN pc' = "shlibs" /\ at' = 1
             ELSE pc' = "before" /\ at' = at + 1
          /\ UNCHANGED <<files, writable, open>>
      BY <1>5 DEF NextPackage, Early
    <2>2. open = {} /\ at \in Nat \ {0} /\ at <= Len(Package)
      BY <1>1, <2>1 DEF OpenOK, PlaceOK
    <2>3. PlaceOK' /\ OpenOK'
      BY <1>1, <1>2, <2>1, <2>2 DEF PlaceOK, OpenOK, Early, Late
    <2> QED
      BY <2>1, <2>3, QuietEarly
  <1>6. ASSUME ComputeShlibs PROVE EarlyInv' /\ pc \in Early
    <2>1. /\ pc = "shlibs" /\ pc \in Early
          /\ pc' \in {"shlibs", "not for udebs"} /\ (at' = at \/ at' = at + 1)
          /\ UNCHANGED <<files, writable, open>>
      BY <1>6 DEF ComputeShlibs, Early
    <2>2. open = {} /\ at' \in Nat \ {0}
      <3>1. open = {}
        BY <1>1, <2>1 DEF OpenOK
      <3>2. at \in Nat \ {0} /\ at + 1 \in Nat \ {0}
        BY <1>1 DEF PlaceOK
      <3>3. at' = at \/ at' = at + 1
        BY <2>1
      <3>4. at' \in Nat \ {0}
        BY ONLY <3>2, <3>3
      <3> QED
        BY <3>1, <3>4
    <2>3. pc' \notin Late /\ pc' \notin {"before", "replace", "debug", "attach", "after"}
      BY <2>1 DEF Late
    <2>4. PlaceOK'
      BY <2>1, <2>2, <2>3 DEF PlaceOK, Early
    <2>5. OpenOK'
      BY <2>1, <2>2, <2>3 DEF OpenOK
    <2> QED
      BY <2>1, <2>4, <2>5, QuietEarly
  <1>7. ASSUME Freeze PROVE EarlyInv' /\ pc \in Early
    <2>1. /\ pc = "shlibs" /\ pc \in Early
          /\ \/ pc' = "tool failed" /\ at' = at
             \/ pc' = "finalize" /\ at' = 1 /\ writable' = {}
          /\ UNCHANGED <<files, open>>
      BY <1>7 DEF Freeze, Early, StillWritable
    <2>2. open = {} /\ at \in Nat \ {0}
      BY <1>1, <2>1 DEF OpenOK, PlaceOK
    <2>3. pc' \notin {"replace", "debug", "attach"}
      BY <2>1
    <2>4. PlaceOK'
      <3>1. CASE pc' = "tool failed" /\ at' = at
        BY <2>2, <3>1 DEF PlaceOK, Early, Late
      <3>2. CASE pc' = "finalize" /\ at' = 1 /\ writable' = {}
        BY <1>2, <3>2 DEF PlaceOK
      <3> QED
        BY <2>1, <3>1, <3>2
    <2>5. OpenOK'
      BY <2>1, <2>2, <2>3 DEF OpenOK
    <2> QED
      BY <2>1, <2>4, <2>5, QuietEarly
  <1>8. ASSUME pc \in Early, ToolFails PROVE EarlyInv' /\ pc \in Early
    <2>1. pc' = "tool failed" /\ UNCHANGED <<files, writable, at, open>>
      BY <1>8 DEF ToolFails
    <2>2. PlaceOK' /\ OpenOK'
      BY <1>1, <2>1 DEF PlaceOK, OpenOK, Early, Late
    <2> QED
      BY <1>8, <2>1, <2>2, QuietEarly
  <1> QED
    BY <1>3, <1>4, <1>5, <1>6, <1>7, <1>8

-----------------------------------------------------------------------------

\* A step of the first half leads to the invariant.
LEMMA EarlyStep ==
    ASSUME AssemblyInv, pc \in Early, EarlyInv', UNCHANGED deb,
           pc' \notin Late, pc' # "missing"
    PROVE  AssemblyInv'
  <1>1. deb = <<>> /\ deb' = <<>> /\ DOMAIN <<>> = {}
    BY DEF AssemblyInv
  <1>2. ShippedIsWhatWasFrozen'
    BY <1>1 DEF ShippedIsWhatWasFrozen
  <1>3. ThereOK' /\ FrozenOK'
    BY DEF ThereOK, FrozenOK, Coming
  <1>4. ManifestOK'
    BY DEF ManifestOK, Late
  <1> QED
    BY <1>1, <1>2, <1>3, <1>4 DEF AssemblyInv, EarlyInv

\* When the trees become read-only, all contents are noted.
LEMMA FreezeStep ==
    ASSUME AssemblyInv, Freeze
    PROVE  AssemblyInv'
  <1>1. pc \in Early /\ EarlyInv' /\ UNCHANGED <<disk, tree, debug, deb>>
    <2>1. pc \in Early /\ UNCHANGED <<files, deb>>
      BY DEF Freeze, Early
    <2>2. EarlyInv
      BY <2>1 DEF AssemblyInv, EarlyInv
    <2> QED
      BY <2>1, <2>2, BetweenEarly DEF files
  <1>2. CASE pc' = "tool failed"
    <2>1. pc' \notin Late /\ pc' # "missing"
      BY <1>2 DEF Late
    <2> QED
      BY <1>1, <2>1, EarlyStep
  <1>3. CASE pc' # "tool failed"
    <2>1. /\ pc' = "finalize"
          /\ frozen' = [p \in Packages |-> [x \in DOMAIN tree[p] |-> Content(p, x)]]
      BY <1>3 DEF Freeze
    <2>2. ThereOK'
      BY <1>1 DEF EarlyInv, AllThere, ThereOK
    <2>3. FrozenOK'
      <3>1. \A p \in Packages : \A x \in DOMAIN tree[p] : Content(p, x)' = Content(p, x)
        BY <1>1 DEF Content
      <3>2. tree' = tree
        BY <1>1
      <3> QED
        BY <2>1, <3>1, <3>2 DEF FrozenOK
    <2>4. ManifestOK'
      BY <2>1 DEF ManifestOK
    <2>5. ShippedIsWhatWasFrozen'
      <3>1. deb' = <<>> /\ DOMAIN <<>> = {}
        BY <1>1 DEF AssemblyInv
      <3> QED
        BY <2>1, <3>1 DEF ShippedIsWhatWasFrozen
    <2>6. pc' \notin Early
      BY <2>1 DEF Early
    <2> QED
      BY <1>1, <2>2, <2>3, <2>4, <2>5, <2>6 DEF AssemblyInv, EarlyInv
  <1> QED
    BY <1>2, <1>3

\* Files are moved away.
LEMMA Removed ==
    ASSUME FilesOK, NEW S, \A s \in S : s \notin SourceFile, disk' = Without(disk, S),
           UNCHANGED <<tree, debug, made>>
    PROVE  FilesOK'
  <1>1. /\ disk' = [f \in DOMAIN disk' |-> disk'[f]]
        /\ DOMAIN disk' = DOMAIN disk \ S
        /\ \A f \in DOMAIN disk' : disk'[f] = disk[f]
    BY DEF Without
  <1>2. \A k, p : Of(k, p)' = Of(k, p)
    BY DEF Of
  <1>3. SourceUntouched'
    BY <1>1 DEF FilesOK, SourceUntouched
  <1>4. TreesOK'
    BY <1>2 DEF FilesOK, TreesOK
  <1>5. DiskOK'
    BY <1>1 DEF FilesOK, DiskOK
  <1>6. OwnOK'
    BY <1>2 DEF FilesOK, OwnOK
  <1> QED
    BY <1>3, <1>4, <1>5, <1>6 DEF FilesOK

\* What was not put together does not miss what was moved.
LEMMA Kept ==
    ASSUME FilesOK, NEW k \in Parts, NEW p \in Packages, NEW l \in Parts, NEW q \in Packages,
           ~ (k = l /\ p = q), IsThere(l, q),
           disk' = Without(disk, Stolen(Of(k, p))), UNCHANGED <<tree, debug, made>>
    PROVE  /\ IsThere(l, q)'
           /\ \A x \in DOMAIN Of(l, q) : disk'[Of(l, q)[x].file] = disk[Of(l, q)[x].file]
  <1>1. Of(l, q)' = Of(l, q)
    BY DEF Of
  <1>2. \A x \in DOMAIN Of(l, q) : Of(l, q)[x].file \notin Stolen(Of(k, p))
    BY DEF FilesOK, OwnOK, Stolen
  <1>3. \A x \in DOMAIN Of(l, q) : Of(l, q)[x].file \in DOMAIN disk
    BY DEF IsThere
  <1> HIDE DEF Stolen
  <1> QED
    BY <1>1, <1>2, <1>3 DEF IsThere, Without

\* None of what is moved was there before the build.
LEMMA StolenIsOurs ==
    ASSUME FilesOK, NEW k \in Parts, NEW p \in Packages
    PROVE  \A s \in Stolen(Of(k, p)) : s \notin SourceFile
  BY DEF FilesOK, TreesOK, NodesOK, Stolen

\* A step of the second half that leaves the trees and the files, and does not
\* go back.
LEMMA QuietLate ==
    ASSUME AssemblyInv, pc \in Late, pc' \in Late, FilesOK', ManifestOK',
           UNCHANGED <<disk, tree, at, frozen, deb, writable>>,
           \A p \in Packages : DOMAIN debug'[p] = {} \/ debug'[p] = debug[p],
           pc' = "pack" \/ pc # "pack"
    PROVE  AssemblyInv'
  <1>1. /\ FilesOK /\ PlaceOK /\ ThereOK /\ FrozenOK
        /\ ShippedIsWhatWasFrozen
    BY DEF AssemblyInv
  <1>2. pc' \notin Early /\ pc' # "missing"
    BY DEF Early, Late
  <1>3. PlaceOK'
    BY <1>1, <1>2 DEF PlaceOK, Late
  <1>4. OpenOK'
    BY <1>2 DEF OpenOK, Early
  <1>5. \A k \in Parts, p \in Packages : Coming(k, p)' => Coming(k, p)
    BY DEF Coming
  <1>6. ThereOK'
    <2>1. \A p \in Packages : IsThere("tree", p)' = IsThere("tree", p)
      BY DEF IsThere, Of
    <2>2. \A p \in Packages : IsThere("debug", p) => IsThere("debug", p)'
      BY DEF IsThere, Of
    <2> QED
      BY <1>1, <1>5, <2>1, <2>2 DEF ThereOK, Parts
  <1>7. FrozenOK'
    <2>1. "tree" \in Parts
      BY DEF Parts
    <2>2. \A p \in Packages : \A x \in DOMAIN tree[p] : Content(p, x)' = Content(p, x)
      BY DEF Content
    <2> QED
      BY <1>1, <1>5, <2>1, <2>2 DEF FrozenOK
  <1>8. ShippedIsWhatWasFrozen'
    BY <1>1, <1>2 DEF ShippedIsWhatWasFrozen
  <1> QED
    BY <1>2, <1>3, <1>4, <1>6, <1>7, <1>8 DEF AssemblyInv

LEMMA FinalizeStep ==
    ASSUME AssemblyInv, Finalize
    PROVE  AssemblyInv'
  <1>1. /\ FilesOK /\ PlaceOK
        /\ pc = "finalize" /\ pc' = "detect" /\ pc \in Late /\ pc' \in Late
        /\ manifest' = tree[Cur]
        /\ writable' = writable \ {Cur}
        /\ debug' = IF Cur \in NoDbgsym THEN [debug EXCEPT ![Cur] = <<>>] ELSE debug
        /\ UNCHANGED <<disk, tree, made, at, frozen, deb>>
    BY DEF AssemblyInv, Finalize, Late, history
  <1>2. writable = {} /\ writable' = writable
    BY <1>1 DEF PlaceOK
  <1>3. debug = [q \in Packages |-> debug[q]]
    BY <1>1 DEF FilesOK, TreesOK
  <1>4. /\ debug' = [q \in Packages |-> debug'[q]]
        /\ \A q \in Packages : DOMAIN debug'[q] = {} \/ debug'[q] = debug[q]
    <2>1. DOMAIN <<>> = {}
      OBVIOUS
    <2> QED
      BY <1>1, <1>3, <2>1
  <1>5. FilesOK'
    <2>1. /\ \A q : Of("tree", q)' = Of("tree", q)
          /\ \A q : Of("debug", q) = debug[q] /\ Of("debug", q)' = debug'[q]
      BY <1>1 DEF Of
    <2>2. \A k \in Parts, q \in Packages : \A x \in DOMAIN Of(k, q)' :
              x \in DOMAIN Of(k, q) /\ Of(k, q)'[x] = Of(k, q)[x]
      BY <1>4, <2>1 DEF Parts
    <2>3. SourceUntouched'
      BY <1>1 DEF FilesOK, SourceUntouched
    <2>4. \A k \in Parts, q \in Packages : NodesOK(Of(k, q))'
      BY <1>1, <2>2 DEF FilesOK, TreesOK, NodesOK
    <2>5. TreesOK'
      BY <1>1, <1>4, <2>4 DEF FilesOK, TreesOK
    <2>6. DiskOK'
      BY <1>1 DEF FilesOK, DiskOK
    <2>7. OwnOK'
      <3> SUFFICES ASSUME NEW k \in Parts, NEW l \in Parts, NEW p \in Packages, NEW q \in Packages,
                          NEW x \in DOMAIN Of(k, p)', NEW y \in DOMAIN Of(l, q)',
                          Of(k, p)'[x].inline, Of(k, p)'[x].file = Of(l, q)'[y].file
                   PROVE  k = l /\ p = q /\ x = y
        BY DEF OwnOK
      <3>1. /\ x \in DOMAIN Of(k, p) /\ Of(k, p)'[x] = Of(k, p)[x]
            /\ y \in DOMAIN Of(l, q) /\ Of(l, q)'[y] = Of(l, q)[y]
        BY <2>2
      <3> QED
        BY <1>1, <3>1 DEF FilesOK, OwnOK
    <2> QED
      BY <2>3, <2>5, <2>6, <2>7 DEF FilesOK
  <1>6. ManifestOK'
    BY <1>1 DEF ManifestOK, Cur
  <1> QED
    BY <1>1, <1>2, <1>4, <1>5, <1>6, QuietLate

LEMMA DetectStep ==
    ASSUME AssemblyInv, Detect
    PROVE  AssemblyInv'
  <1>1. /\ FilesOK /\ ManifestOK
        /\ pc = "detect" /\ pc' = "detect" /\ pc \in Late
        /\ UNCHANGED <<disk, tree, debug, made, manifest, writable, at, frozen, deb>>
    BY DEF AssemblyInv, Detect, Late, files
  <1>2. FilesOK'
    BY <1>1 DEF FilesOK, SourceUntouched, TreesOK, DiskOK, OwnOK, NodesOK, Of
  <1>3. ManifestOK'
    BY <1>1 DEF ManifestOK, Cur
  <1> QED
    BY <1>1, <1>2, <1>3, QuietLate

\* The package in work is coming.
LEMMA CurIsComing ==
    ASSUME PlaceOK, pc \in Late
    PROVE  /\ Cur \in Packages /\ at \in DOMAIN Package /\ Package[at] = Cur
           /\ Coming("tree", Cur)
           /\ pc # "pack" => Coming("debug", Cur)
  <1>1. Cur \in Packages
    BY CurIsPackage DEF Late
  <1>2. at \in DOMAIN Package /\ Package[at] = Cur
    BY AssemblyAssumption DEF PlaceOK, Late, Cur
  <1> QED
    BY <1>1, <1>2 DEF Coming

LEMMA WriteControlStep ==
    ASSUME AssemblyInv, WriteControl
    PROVE  AssemblyInv'
  <1>1. /\ FilesOK /\ PlaceOK /\ ManifestOK /\ ThereOK /\ FrozenOK
        /\ pc = "detect" /\ pc \in Late
        /\ UNCHANGED <<disk, tree, debug, made, manifest, writable, at, frozen, deb>>
    BY DEF AssemblyInv, WriteControl, Late, files, history
  <1>2. Cur \in Packages /\ Coming("tree", Cur)
    BY <1>1, CurIsComing
  <1>3. Exists(tree[Cur])
    BY <1>1, <1>2 DEF ThereOK, IsThere, Of, Parts, Exists
  <1>4. /\ pc' = "dbgsym" /\ pc' \in Late
        /\ "md5sums" \in DOMAIN packed'
        /\ packed'.md5sums = [x \in DOMAIN tree[Cur] |-> Content(Cur, x)]
    BY <1>3 DEF WriteControl, Late
  <1>5. FilesOK'
    BY <1>1 DEF FilesOK, SourceUntouched, TreesOK, DiskOK, OwnOK, NodesOK, Of
  <1>6. ManifestOK'
    <2>1. frozen[Cur] = [x \in DOMAIN tree[Cur] |-> Content(Cur, x)]
      BY <1>1, <1>2 DEF FrozenOK
    <2>2. Cur' = Cur
      BY <1>1 DEF Cur
    <2> QED
      BY <1>1, <1>4, <2>1, <2>2 DEF ManifestOK
  <1> QED
    BY <1>1, <1>4, <1>5, <1>6, QuietLate

LEMMA PackDbgsymStep ==
    ASSUME AssemblyInv, PackDbgsym
    PROVE  AssemblyInv'
  <1>1. /\ FilesOK /\ PlaceOK /\ ManifestOK /\ ThereOK /\ FrozenOK /\ ShippedIsWhatWasFrozen
        /\ pc = "dbgsym" /\ pc \in Late
        /\ UNCHANGED <<tree, debug, made, manifest, writable, at, frozen, deb>>
    BY DEF AssemblyInv, PackDbgsym, PackLeavesAlone, Late, history
  <1>2. Cur \in Packages /\ Coming("debug", Cur)
    BY <1>1, CurIsComing
  <1>3. Of("debug", Cur) = debug[Cur] /\ "debug" \in Parts /\ "tree" \in Parts
    BY DEF Of, Parts
  <1>4. IsThere("debug", Cur) /\ Exists(debug[Cur])
    BY <1>1, <1>2, <1>3 DEF ThereOK, IsThere, Exists
  <1>5. /\ pc' = "pack" /\ pc' \in Late
        /\ (disk' = disk \/ disk' = Without(disk, Stolen(Of("debug", Cur))))
        /\ (packed' = packed \/ \E kept : packed' = [packed EXCEPT !.debug = kept])
    BY <1>3, <1>4 DEF PackDbgsym, Late
  <1>6. FilesOK'
    <2>1. CASE disk' = disk
      BY <1>1, <2>1 DEF FilesOK, SourceUntouched, TreesOK, DiskOK, OwnOK, NodesOK, Of
    <2>2. CASE disk' = Without(disk, Stolen(Of("debug", Cur)))
      <3>1. \A s \in Stolen(Of("debug", Cur)) : s \notin SourceFile
        BY <1>1, <1>2, <1>3, StolenIsOurs
      <3> QED
        BY <1>1, <2>2, <3>1, Removed
    <2> QED
      BY <1>5, <2>1, <2>2
  <1>7. ManifestOK'
    <2>1. "md5sums" \in DOMAIN packed /\ packed.md5sums = frozen[Cur] /\ manifest = tree[Cur]
      BY <1>1 DEF ManifestOK
    <2>2. "md5sums" \in DOMAIN packed' /\ packed'.md5sums = packed.md5sums
      BY <1>5, <2>1
    <2>3. Cur' = Cur
      BY <1>1 DEF Cur
    <2> QED
      BY <1>1, <2>1, <2>2, <2>3 DEF ManifestOK
  <1>8. pc' \notin Early /\ PlaceOK' /\ OpenOK'
    BY <1>1, <1>5 DEF PlaceOK, OpenOK, Early, Late
  <1>9. \A k \in Parts, p \in Packages : Coming(k, p)' =>
            Coming(k, p) /\ ~ (k = "debug" /\ p = Cur)
    <2> SUFFICES ASSUME NEW k \in Parts, NEW p \in Packages, Coming(k, p)'
                 PROVE  Coming(k, p) /\ ~ (k = "debug" /\ p = Cur)
      OBVIOUS
    <2>1. PICK i \in DOMAIN Package : Package[i] = p /\ (i > at \/ (i = at /\ k = "tree"))
      BY <1>1, <1>5 DEF Coming
    <2>2. at \in DOMAIN Package /\ Package[at] = Cur
      BY <1>1, CurIsComing
    <2>3. p = Cur => i = at
      BY <2>1, <2>2, AssemblyAssumption
    <2>4. at \in Nat
      BY <1>1 DEF PlaceOK
    <2> QED
      BY <1>1, <2>1, <2>3, <2>4 DEF Coming
  <1>10. \A k \in Parts, p \in Packages : Coming(k, p)' =>
            /\ IsThere(k, p)'
            /\ \A x \in DOMAIN Of(k, p) : disk'[Of(k, p)[x].file] = disk[Of(k, p)[x].file]
    <2> SUFFICES ASSUME NEW k \in Parts, NEW p \in Packages, Coming(k, p)'
                 PROVE  /\ IsThere(k, p)'
                        /\ \A x \in DOMAIN Of(k, p) :
                              disk'[Of(k, p)[x].file] = disk[Of(k, p)[x].file]
      OBVIOUS
    <2>1. IsThere(k, p) /\ ~ (k = "debug" /\ p = Cur)
      BY <1>1, <1>9 DEF ThereOK
    <2>2. CASE disk' = disk
      BY <1>1, <2>1, <2>2 DEF IsThere, Of
    <2>3. CASE disk' = Without(disk, Stolen(Of("debug", Cur)))
      BY <1>1, <1>2, <1>3, <2>1, <2>3, Kept
    <2> QED
      BY <1>5, <2>2, <2>3
  <1>11. ThereOK'
    BY <1>10 DEF ThereOK
  <1>12. FrozenOK'
    <2> SUFFICES ASSUME NEW p \in Packages, Coming("tree", p)'
                 PROVE  frozen'[p] = [x \in DOMAIN tree'[p] |-> Content(p, x)']
      BY DEF FrozenOK
    <2>1. \A x \in DOMAIN tree[p] : disk'[tree[p][x].file] = disk[tree[p][x].file]
      BY <1>3, <1>10 DEF Of
    <2>2. frozen[p] = [x \in DOMAIN tree[p] |-> Content(p, x)]
      BY <1>1, <1>3, <1>9 DEF FrozenOK
    <2> QED
      BY <1>1, <2>1, <2>2 DEF Content
  <1>13. ShippedIsWhatWasFrozen'
    BY <1>1, <1>5 DEF ShippedIsWhatWasFrozen
  <1> QED
    BY <1>6, <1>7, <1>8, <1>11, <1>12, <1>13 DEF AssemblyInv

LEMMA PackStep ==
    ASSUME AssemblyInv, Pack
    PROVE  AssemblyInv'
  <1>1. /\ FilesOK /\ PlaceOK /\ ManifestOK /\ ThereOK /\ FrozenOK /\ ShippedIsWhatWasFrozen
        /\ pc = "pack" /\ pc \in Late
        /\ UNCHANGED <<tree, debug, made, writable, frozen>>
        /\ manifest = tree[Cur] /\ packed.md5sums = frozen[Cur]
    BY DEF AssemblyInv, Pack, PackLeavesAlone, Late, history, ManifestOK
  <1>2. /\ Cur \in Packages /\ Coming("tree", Cur)
        /\ at \in DOMAIN Package /\ Package[at] = Cur
    BY <1>1, CurIsComing
  <1>3. Of("tree", Cur) = tree[Cur] /\ "tree" \in Parts
    BY DEF Of, Parts
  <1>4. IsThere("tree", Cur) /\ Exists(manifest)
    BY <1>1, <1>2, <1>3 DEF ThereOK, IsThere, Exists
  <1>5. /\ deb' = Put(deb, Cur, [control |-> packed,
                                 files |-> [x \in DOMAIN manifest |-> disk[manifest[x].file]]])
        /\ disk' = Without(disk, Stolen(Of("tree", Cur)))
        /\ at' = at + 1
        /\ pc' = IF at = Len(Package) THEN "done" ELSE "finalize"
    BY <1>1, <1>3, <1>4 DEF Pack
  <1>6. FilesOK'
    <2>1. \A s \in Stolen(Of("tree", Cur)) : s \notin SourceFile
      BY <1>1, <1>2, <1>3, StolenIsOurs
    <2> QED
      BY <1>1, <1>5, <2>1, Removed
  <1>7. pc' \notin Early /\ ManifestOK' /\ pc' # "missing"
    BY <1>5 DEF ManifestOK, Early
  <1>8. PlaceOK' /\ OpenOK'
    <2>1. at \in Nat \ {0} /\ at <= Len(Package) /\ writable = {} /\ Len(Package) \in Nat
      BY <1>1, AssemblyAssumption DEF PlaceOK, Late
    <2>2. PlaceOK'
      BY <1>1, <1>5, <2>1 DEF PlaceOK, Early, Late
    <2> QED
      BY <1>5, <2>2 DEF OpenOK, Early
  <1>9. \A k \in Parts, p \in Packages : Coming(k, p)' => Coming(k, p) /\ p # Cur
    <2> SUFFICES ASSUME NEW k \in Parts, NEW p \in Packages, Coming(k, p)'
                 PROVE  Coming(k, p) /\ p # Cur
      OBVIOUS
    <2>1. PICK i \in DOMAIN Package : Package[i] = p /\ (i > at' \/ i = at')
      BY DEF Coming
    <2>2. at \in Nat /\ i \in Nat
      BY <1>1, AssemblyAssumption DEF PlaceOK
    <2>3. i > at
      BY <1>5, <2>1, <2>2
    <2>4. p # Cur
      BY <1>2, <2>1, <2>2, <2>3, AssemblyAssumption
    <2> QED
      BY <1>1, <2>1, <2>3, <2>4 DEF Coming
  <1>10. \A k \in Parts, p \in Packages : Coming(k, p)' =>
            /\ IsThere(k, p)'
            /\ \A x \in DOMAIN Of(k, p) : disk'[Of(k, p)[x].file] = disk[Of(k, p)[x].file]
    <2> SUFFICES ASSUME NEW k \in Parts, NEW p \in Packages, Coming(k, p)'
                 PROVE  /\ IsThere(k, p)'
                        /\ \A x \in DOMAIN Of(k, p) :
                              disk'[Of(k, p)[x].file] = disk[Of(k, p)[x].file]
      OBVIOUS
    <2>1. IsThere(k, p) /\ p # Cur
      BY <1>1, <1>9 DEF ThereOK
    <2> QED
      BY <1>1, <1>2, <1>3, <1>5, <2>1, Kept
  <1>11. ThereOK'
    BY <1>10 DEF ThereOK
  <1>12. FrozenOK'
    <2> SUFFICES ASSUME NEW p \in Packages, Coming("tree", p)'
                 PROVE  frozen'[p] = [x \in DOMAIN tree'[p] |-> Content(p, x)']
      BY DEF FrozenOK
    <2>1. \A x \in DOMAIN tree[p] : disk'[tree[p][x].file] = disk[tree[p][x].file]
      BY <1>3, <1>10 DEF Of
    <2>2. frozen[p] = [x \in DOMAIN tree[p] |-> Content(p, x)]
      BY <1>1, <1>3, <1>9 DEF FrozenOK
    <2> QED
      BY <1>1, <2>1, <2>2 DEF Content
  <1>13. ShippedIsWhatWasFrozen'
    <2>1. frozen[Cur] = [x \in DOMAIN tree[Cur] |-> disk[tree[Cur][x].file]]
      BY <1>1, <1>2 DEF FrozenOK, Content
    <2>2. deb'[Cur].files = frozen[Cur] /\ deb'[Cur].control.md5sums = frozen[Cur]
      BY <1>1, <1>5, <2>1 DEF Put
    <2>3. \A p \in DOMAIN deb' : p # Cur => p \in DOMAIN deb /\ deb'[p] = deb[p]
      BY <1>5 DEF Put
    <2> QED
      BY <1>1, <1>7, <2>2, <2>3 DEF ShippedIsWhatWasFrozen
  <1> QED
    BY <1>6, <1>7, <1>8, <1>11, <1>12, <1>13 DEF AssemblyInv

LEMMA InitAssemblyInv == Init => AssemblyInv
  <1> SUFFICES ASSUME Init PROVE AssemblyInv
    OBVIOUS
  <1>1. /\ disk = [s \in SourceFile |-> <<s>>] /\ made = 0
        /\ debug = [p \in Packages |-> <<>>]
        /\ pc = "before" /\ at = 1 /\ open = {} /\ deb = <<>>
    BY DEF Init
  <1>2. PICK installation \in Installation :
            tree = [p \in Packages |->
                      [x \in DOMAIN installation[p] |-> Installed(installation[p][x])]]
    BY DEF Init
  <1>3. \A p \in Packages : \A x \in DOMAIN tree[p] :
            tree[p][x].inline = FALSE /\ tree[p][x].file \in SourceFile
    BY <1>2, AssemblyAssumption DEF Installed
  <1>4. /\ \A p \in Packages : Of("tree", p) = tree[p] /\ DOMAIN Of("debug", p) = {}
        /\ \A k \in Parts : k = "tree" \/ k = "debug"
    <2>1. DOMAIN <<>> = {}
      OBVIOUS
    <2> QED
      BY <1>1, <2>1 DEF Of, Parts
  <1>5. \A k \in Parts, p \in Packages : \A x \in DOMAIN Of(k, p) :
            Of(k, p)[x].inline = FALSE /\ Of(k, p)[x].file \in SourceFile
    BY <1>3, <1>4
  <1>6. SourceUntouched
    BY <1>1 DEF SourceUntouched
  <1>7. TreesOK
    <2>1. tree = [p \in Packages |-> tree[p]] /\ debug = [p \in Packages |-> debug[p]]
      BY <1>1, <1>2
    <2>2. \A k \in Parts, p \in Packages : NodesOK(Of(k, p))
      BY <1>5 DEF NodesOK
    <2> QED
      BY <2>1, <2>2 DEF TreesOK
  <1>8. DiskOK
    <2>1. \A s \in SourceFile : <<s>> \in Contents
      <3>1. \A s \in SourceFile : s \in Item
        BY DEF Item
      <3>2. \A s \in Item : <<s>> \in Seq(Item) /\ <<s>> # <<>>
        OBVIOUS
      <3> QED
        BY <3>1, <3>2 DEF Contents
    <2> QED
      BY <1>1, <2>1, OtherNames DEF DiskOK
  <1>9. OwnOK /\ AllThere
    BY <1>1, <1>5 DEF OwnOK, AllThere, IsThere
  <1>10. PlaceOK /\ OpenOK
    <2>1. Len(Package) \in Nat \ {0}
      BY AssemblyAssumption
    <2> QED
      BY <1>1, <2>1 DEF PlaceOK, OpenOK, Early, Late
  <1>11. ThereOK /\ FrozenOK /\ ManifestOK
    BY <1>1 DEF ThereOK, FrozenOK, Coming, ManifestOK, Late
  <1>12. ShippedIsWhatWasFrozen
    <2>1. DOMAIN <<>> = {}
      OBVIOUS
    <2> QED
      BY <1>1, <2>1 DEF ShippedIsWhatWasFrozen
  <1> QED
    BY <1>1, <1>6, <1>7, <1>8, <1>9, <1>10, <1>11, <1>12 DEF AssemblyInv, FilesOK

LEMMA NextAssemblyInv == AssemblyInv /\ [Next]_vars => AssemblyInv'
  <1> SUFFICES ASSUME AssemblyInv, [Next]_vars PROVE AssemblyInv'
    OBVIOUS
  <1>1. pc \in Early => EarlyInv
    BY DEF AssemblyInv, EarlyInv
  <1>2. Early \cap Late = {} /\ Early \cap Built = {} /\ Late \cap Built = {}
    BY DEF Early, Late, Built
  <1>3. \A e \in Early \cup {"file exists", "not for udebs", "tool failed"} :
            e \notin Late /\ e # "missing"
    BY DEF Early, Late
  <1>4. ASSUME NEW p \in Packages, NEW x \in DOMAIN tree[p], Edit(p, x) PROVE AssemblyInv'
    <2>1. UNCHANGED deb /\ pc \in Early
      <3>1. pc \in {"before", "after", "detect"} /\ p \in writable /\ UNCHANGED deb
        BY <1>4 DEF Edit
      <3>2. pc \notin Late
        BY <3>1 DEF AssemblyInv, PlaceOK
      <3> QED
        BY <3>1, <3>2 DEF Early, Late
    <2>2. EarlyInv' /\ pc' = pc
      BY <1>1, <1>4, <2>1, EditEarly
    <2> QED
      BY <1>3, <2>1, <2>2, EarlyStep
  <1>5. ASSUME NEW x \in DOMAIN tree[Cur], Compress(x) PROVE AssemblyInv'
    <2>1. pc \in Early /\ UNCHANGED deb
      BY <1>5 DEF Compress, Early
    <2>2. EarlyInv' /\ pc' = pc
      BY <1>1, <1>5, <2>1, CompressEarly
    <2> QED
      BY <1>3, <2>1, <2>2, EarlyStep
  <1>6. ASSUME NEW x \in DOMAIN tree[Cur], ReplaceElf(x) PROVE AssemblyInv'
    <2>1. pc \in Early /\ UNCHANGED deb
      BY <1>6 DEF ReplaceElf, StripLeavesAlone, Early
    <2>2. EarlyInv' /\ pc' = pc
      BY <1>1, <1>6, <2>1, ReplaceElfEarly
    <2> QED
      BY <1>3, <2>1, <2>2, EarlyStep
  <1>7. ASSUME NEW x \in DOMAIN tree[Cur], MakeDebugFile(x) PROVE AssemblyInv'
    <2>1. pc \in Early /\ UNCHANGED deb
      BY <1>7 DEF MakeDebugFile, StripLeavesAlone, Early
    <2>2. EarlyInv' /\ pc' \in {"debug", "file exists"}
      BY <1>1, <1>7, <2>1, MakeDebugFileEarly
    <2>3. pc' \in Early \cup {"file exists", "not for udebs", "tool failed"}
      BY <2>2 DEF Early
    <2> QED
      BY <1>3, <2>1, <2>2, <2>3, EarlyStep
  <1>8. ASSUME NEW x \in DOMAIN tree[Cur], AttachDebug(x) PROVE AssemblyInv'
    <2>1. pc \in Early /\ UNCHANGED deb
      BY <1>8 DEF AttachDebug, StripLeavesAlone, Early
    <2>2. EarlyInv' /\ pc' = pc
      BY <1>1, <1>8, <2>1, AttachDebugEarly
    <2> QED
      BY <1>3, <2>1, <2>2, EarlyStep
  <1>9. ASSUME Dwz \/ Strip PROVE AssemblyInv'
    <2>1. pc \in Early /\ UNCHANGED deb
      BY <1>9 DEF Dwz, Strip, StripLeavesAlone, Early
    <2>2. EarlyInv' /\ pc' \in Early
      BY <1>1, <1>9, <2>1, DwzEarly, StripEarly
    <2> QED
      BY <1>3, <2>1, <2>2, EarlyStep
  <1>10. ASSUME StartStrip \/ FinishStrip \/ NextPackage \/ ComputeShlibs
                    \/ (pc \in Early /\ ToolFails)
         PROVE AssemblyInv'
    <2>1. pc \in Early /\ UNCHANGED deb
      BY <1>10 DEF StartStrip, FinishStrip, NextPackage, ComputeShlibs, ToolFails,
                   StripLeavesAlone, Early
    <2>2. EarlyInv'
      BY <1>1, <1>10, <2>1, BetweenEarly
    <2>3. pc' \in Early \cup {"file exists", "not for udebs", "tool failed"}
      BY <1>10 DEF StartStrip, FinishStrip, NextPackage, ComputeShlibs, ToolFails, Early
    <2> QED
      BY <1>3, <2>1, <2>2, <2>3, EarlyStep
  <1>11. ASSUME pc \notin Early, ToolFails PROVE AssemblyInv'
    <2>1. /\ UNCHANGED <<disk, tree, debug, made, writable, at, open, deb, frozen>>
          /\ pc' = "tool failed"
      BY <1>11 DEF ToolFails, files, history
    <2>2. FilesOK'
      <3>1. \A k, p : Of(k, p)' = Of(k, p)
        BY <2>1 DEF Of
      <3>2. FilesOK
        BY DEF AssemblyInv
      <3>3. SourceUntouched' /\ DiskOK'
        BY <2>1, <3>2 DEF FilesOK, SourceUntouched, DiskOK
      <3>4. TreesOK'
        BY <2>1, <3>1, <3>2 DEF FilesOK, TreesOK
      <3>5. OwnOK'
        BY <3>1, <3>2 DEF FilesOK, OwnOK
      <3> QED
        BY <3>3, <3>4, <3>5 DEF FilesOK
    <2>3. pc' \notin Early /\ pc' \notin Late /\ pc' # "missing"
      BY <2>1 DEF Early, Late
    <2>4. PlaceOK' /\ OpenOK'
      BY <2>1, <2>3 DEF AssemblyInv, PlaceOK, OpenOK, Early
    <2>5. ThereOK' /\ FrozenOK' /\ ManifestOK'
      BY <2>3 DEF ThereOK, FrozenOK, Coming, ManifestOK, Late
    <2>6. ShippedIsWhatWasFrozen'
      BY <2>1 DEF AssemblyInv, ShippedIsWhatWasFrozen
    <2> QED
      BY <2>2, <2>3, <2>4, <2>5, <2>6 DEF AssemblyInv
  <1>12. ASSUME UNCHANGED vars PROVE AssemblyInv'
    <2>1. UNCHANGED <<disk, tree, debug, made, writable, pc, at, open, deb, frozen, manifest, packed>>
      BY <1>12 DEF vars, files, place, history, control
    <2>2. \A k, p : Of(k, p)' = Of(k, p) /\ Coming(k, p)' = Coming(k, p)
      BY <2>1 DEF Of, Coming
    <2>3. Cur' = Cur /\ ElfPaths(Cur)' = ElfPaths(Cur)
      BY <2>1 DEF Cur, ElfPaths, Content
    <2>4. FilesOK'
      BY <2>1, <2>2 DEF AssemblyInv, FilesOK, SourceUntouched, TreesOK, DiskOK, OwnOK, NodesOK
    <2>5. PlaceOK' /\ OpenOK'
      BY <2>1, <2>3 DEF AssemblyInv, PlaceOK, OpenOK
    <2>6. (pc \in Early => AllThere /\ deb = <<>>)' /\ ThereOK'
      BY <2>1, <2>2 DEF AssemblyInv, ThereOK, AllThere, IsThere
    <2>7. FrozenOK' /\ ManifestOK'
      BY <2>1, <2>2, <2>3 DEF AssemblyInv, FrozenOK, ManifestOK, Content
    <2>8. ShippedIsWhatWasFrozen'
      BY <2>1 DEF AssemblyInv, ShippedIsWhatWasFrozen
    <2> QED
      BY <2>4, <2>5, <2>6, <2>7, <2>8 DEF AssemblyInv
  <1> QED
    BY <1>4, <1>5, <1>6, <1>7, <1>8, <1>9, <1>10, <1>11, <1>12, FreezeStep, FinalizeStep,
       DetectStep, WriteControlStep, PackDbgsymStep, PackStep DEF Next

LEMMA AlwaysAssemblyInv == Spec => []AssemblyInv
  BY InitAssemblyInv, NextAssemblyInv, PTL DEF Spec

\* What the build left behind is never written and never moved.
THEOREM SourceIsUntouched == Spec => []SourceUntouched
  <1>1. AssemblyInv => SourceUntouched
    BY DEF AssemblyInv, FilesOK
  <1> QED
    BY <1>1, AlwaysAssemblyInv, PTL

\* Every .deb has the contents of the time when the trees became read-only, and
\* md5sums lists these; no package misses a file.
THEOREM FrozenIsShipped == Spec => []ShippedIsWhatWasFrozen
  <1>1. AssemblyInv => ShippedIsWhatWasFrozen
    BY DEF AssemblyInv
  <1> QED
    BY <1>1, AlwaysAssemblyInv, PTL


-----------------------------------------------------------------------------
(* What dpkg-shlibdeps is told.                                             *)

\* The libraries among the contents of a package.
LibrariesIn(contents) ==
    {Head(contents[x]) : x \in {x \in DOMAIN contents :
        Head(contents[x]) \in DOMAIN Elf /\ Elf[Head(contents[x])].library}}

\* The libraries of the packages that had their turn with compute_shlibs.
LibrariesSoFar ==
    UNION {{Head(Content(q, x)) : x \in Libraries(q)} :
           q \in {Package[i] : i \in {i \in 1..Len(Package) : i < at}} \ ArchAll}

\* The libraries of all packages when the trees became read-only.
AllLibraries == UNION {LibrariesIn(frozen[q]) : q \in Packages \ ArchAll}

\* Libraries are only collected once all files are what they will be, and handed
\* out once all are collected.
LibraryInv ==
    /\ pc \in Early \ {"shlibs"} => combined = {}
    /\ pc = "shlibs" => combined = LibrariesSoFar
    /\ pc \in Early => seen = <<>>
    /\ pc \in Late => \A p \in Packages \ ArchAll : details[p] = AllLibraries
    /\ \A p \in DOMAIN seen \ ArchAll : seen[p].known = AllLibraries

\* A package's libraries are collected in its turn, those of a package for all
\* architectures never.
LEMMA OneMore ==
    ASSUME PlaceOK, pc = "shlibs", at <= Len(Package), UNCHANGED <<tree, disk>>, at' = at + 1
    PROVE  LibrariesSoFar' = IF Cur \in ArchAll THEN LibrariesSoFar
                             ELSE LibrariesSoFar \cup {Head(Content(Cur, x)) : x \in Libraries(Cur)}
  <1> DEFINE Turn(n) == {Package[i] : i \in {i \in 1..Len(Package) : i < n}}
             Of_(q) == {Head(Content(q, x)) : x \in Libraries(q)}
  <1>1. at \in 1..Len(Package) /\ Len(Package) \in Nat /\ at \in Nat
    BY AssemblyAssumption DEF PlaceOK
  <1>2. {i \in 1..Len(Package) : i < at + 1} = {i \in 1..Len(Package) : i < at} \cup {at}
    BY <1>1
  <1>3. Turn(at + 1) = Turn(at) \cup {Cur}
    BY <1>2 DEF Cur
  <1>4. LibrariesSoFar = UNION {Of_(q) : q \in Turn(at) \ ArchAll}
    BY DEF LibrariesSoFar
  <1>5. LibrariesSoFar' = UNION {Of_(q) : q \in Turn(at + 1) \ ArchAll}
    BY DEF LibrariesSoFar, Content, Libraries, ElfPaths, ElfOf
  <1> HIDE DEF Turn, Of_
  <1>6. LibrariesSoFar' = IF Cur \in ArchAll THEN LibrariesSoFar ELSE LibrariesSoFar \cup Of_(Cur)
    BY <1>3, <1>4, <1>5
  <1> QED
    BY <1>6 DEF Of_

LEMMA LibraryStep == PlaceOK /\ LibraryInv /\ [Next]_vars => LibraryInv'
  <1> SUFFICES ASSUME PlaceOK, LibraryInv, [Next]_vars PROVE LibraryInv'
    OBVIOUS
  <1>1. Early \cap Late = {} /\ Early \cap Built = {} /\ Late \cap Built = {}
    BY DEF Early, Late, Built
  <1>2. frozen' = frozen => AllLibraries' = AllLibraries
    BY DEF AllLibraries
  <1>3. ASSUME UNCHANGED <<combined, details, frozen, seen>>, pc # "shlibs",
               pc' \in Early => pc \in Early /\ pc' # "shlibs", pc' \in Late => pc \in Late
        PROVE  LibraryInv'
    <2>1. pc' # "shlibs"
      BY <1>3 DEF Early
    <2>2. AllLibraries' = AllLibraries
      BY <1>2, <1>3
    <2>3. \A p \in DOMAIN seen' \ ArchAll : seen'[p].known = AllLibraries'
      BY <1>3, <2>2 DEF LibraryInv
    <2>4. pc' \in Late => \A p \in Packages \ ArchAll : details'[p] = AllLibraries'
      BY <1>3, <2>2 DEF LibraryInv
    <2>5. pc' \in Early => combined' = {} /\ seen' = <<>>
      BY <1>3 DEF LibraryInv
    <2> QED
      BY <2>1, <2>3, <2>4, <2>5 DEF LibraryInv
  <1>4. ASSUME UNCHANGED <<combined, details, frozen, seen>>, pc' \in Built  PROVE LibraryInv'
    <2>1. pc' \notin Early /\ pc' \notin Late /\ pc' # "shlibs"
      BY <1>1, <1>4 DEF Early
    <2>2. AllLibraries' = AllLibraries
      BY <1>2, <1>4
    <2>3. \A p \in DOMAIN seen' \ ArchAll : seen'[p].known = AllLibraries'
      BY <1>4, <2>2 DEF LibraryInv
    <2> QED
      BY <2>1, <2>3 DEF LibraryInv
  <1>5. ASSUME NEW p \in Packages, NEW x \in DOMAIN tree[p], Edit(p, x)  PROVE LibraryInv'
    BY <1>3, <1>5 DEF Edit, Early, Late, place, shlibs, history
  <1>6. ASSUME NEW x \in DOMAIN tree[Cur], Compress(x) \/ ReplaceElf(x) \/ AttachDebug(x)
        PROVE LibraryInv'
    BY <1>3, <1>6 DEF Compress, ReplaceElf, AttachDebug, StripLeavesAlone, Early, Late, place, shlibs, history
  <1>7. ASSUME NEW x \in DOMAIN tree[Cur], MakeDebugFile(x)  PROVE LibraryInv'
    <2>1. pc = "debug" /\ UNCHANGED <<combined, details, frozen, seen>> /\ (pc' = pc \/ pc' = "file exists")
      BY <1>7 DEF MakeDebugFile, StripLeavesAlone, shlibs, history
    <2> QED
      BY <1>3, <2>1 DEF Early, Late
  <1>8. CASE StartStrip \/ Dwz \/ Strip \/ FinishStrip
    BY <1>3, <1>8 DEF StartStrip, Dwz, Strip, FinishStrip, StripLeavesAlone, Early, Late, shlibs, history
  <1>9. CASE NextPackage
    <2>1. CASE at = Len(Package)
      <3>1. pc = "after" /\ pc' = "shlibs" /\ at' = 1
             /\ UNCHANGED <<combined, details, frozen, seen>>
        BY <1>9, <2>1 DEF NextPackage, shlibs, history
      <3>2. LibrariesSoFar' = {}
        <4>1. {i \in 1..Len(Package') : i < at'} = {}
          BY <3>1
        <4>2. {Package'[i] : i \in {i \in 1..Len(Package') : i < at'}} = {}
          BY <4>1
        <4> QED
          BY <4>2 DEF LibrariesSoFar
      <3> QED
        BY <1>2, <3>1, <3>2 DEF LibraryInv, Early, Late
    <2>2. CASE at # Len(Package)
      BY <1>3, <1>9, <2>2 DEF NextPackage, Early, Late, shlibs, history
    <2> QED
      BY <2>1, <2>2
  <1>10. CASE ComputeShlibs
    <2>1. /\ pc = "shlibs" /\ at <= Len(Package)
          /\ UNCHANGED <<tree, disk, details, frozen, seen>>
      BY <1>10 DEF ComputeShlibs, files, history
    <2>2. CASE Cur \in ArchAll
      <3>1. at' = at + 1 /\ pc' = pc /\ combined' = combined
        BY <1>10, <2>2 DEF ComputeShlibs
      <3> QED
        BY <1>2, <2>1, <2>2, <3>1, OneMore DEF LibraryInv, Late
    <2>3. CASE Cur \notin ArchAll /\ Cur \in Udeb
      <3>1. pc' = "not for udebs" /\ combined' = combined
        BY <1>10, <2>3 DEF ComputeShlibs
      <3> QED
        BY <1>4, <2>1, <3>1 DEF Built
    <2>4. CASE Cur \notin ArchAll /\ Cur \notin Udeb
      <3>1. /\ at' = at + 1 /\ pc' = pc
            /\ combined' = combined \cup {Head(Content(Cur, x)) : x \in Libraries(Cur)}
        BY <1>10, <2>4 DEF ComputeShlibs
      <3> QED
        BY <1>2, <2>1, <2>4, <3>1, OneMore DEF LibraryInv, Late
    <2> QED
      BY <2>2, <2>3, <2>4
  <1>11. CASE Freeze
    <2>1. CASE failures
      BY <1>4, <1>11, <2>1 DEF Freeze, Built
    <2>2. CASE ~ failures
      <3>1. /\ pc = "shlibs" /\ at > Len(Package) /\ details' = Details /\ pc' = "finalize" /\ seen' = seen
            /\ frozen' = [p \in Packages |-> [x \in DOMAIN tree[p] |-> Content(p, x)]]
        BY <1>11, <2>2 DEF Freeze
      <3>2. combined = LibrariesSoFar /\ seen = <<>>
        BY <3>1 DEF LibraryInv, Early
      <3>3. {Package[i] : i \in {i \in 1..Len(Package) : i < at}} = Packages
        <4>1. \A i \in 1..Len(Package) : i < at
          BY <3>1, AssemblyAssumption DEF PlaceOK
        <4>2. DOMAIN Package = 1..Len(Package)
          BY AssemblyAssumption
        <4>3. {i \in 1..Len(Package) : i < at} = 1..Len(Package)
          BY <4>1
        <4> QED
          BY <4>2, <4>3 DEF Packages, Range
      <3>4. \A q \in Packages : LibrariesIn(frozen'[q]) = {Head(Content(q, x)) : x \in Libraries(q)}
        BY <3>1 DEF LibrariesIn, Libraries, ElfPaths, ElfOf
      <3>5. combined = AllLibraries'
        <4>1. AllLibraries' = UNION {LibrariesIn(frozen'[q]) : q \in Packages \ ArchAll}
          BY DEF AllLibraries, LibrariesIn
        <4>2. combined = UNION {{Head(Content(q, x)) : x \in Libraries(q)} : q \in Packages \ ArchAll}
          BY <3>2, <3>3 DEF LibrariesSoFar
        <4>3. {LibrariesIn(frozen'[q]) : q \in Packages \ ArchAll}
                = {{Head(Content(q, x)) : x \in Libraries(q)} : q \in Packages \ ArchAll}
          <5> DEFINE then(q) == LibrariesIn(frozen'[q])
                     now(q) == {Head(Content(q, x)) : x \in Libraries(q)}
                     S == Packages \ ArchAll
          <5>1. \A q \in S : then(q) = now(q)
            BY <3>4
          <5> HIDE DEF then, now, S
          <5>2. {then(q) : q \in S} = {now(q) : q \in S}
            BY <5>1
          <5> QED
            BY <5>2 DEF then, now, S
        <4> QED
          BY <4>1, <4>2, <4>3
      <3>6. \A p \in Packages \ ArchAll : details'[p] = AllLibraries'
        BY <3>1, <3>5 DEF Details
      <3>7. DOMAIN seen' = {}
        BY <3>1, <3>2
      <3> QED
        BY <3>1, <3>6, <3>7 DEF LibraryInv, Early
    <2> QED
      BY <2>1, <2>2
  <1>12. CASE Finalize \/ WriteControl
    BY <1>3, <1>12 DEF Finalize, WriteControl, Early, Late, shlibs, history
  <1>13. CASE PackDbgsym \/ Pack
    BY <1>3, <1>13 DEF PackDbgsym, Pack, PackLeavesAlone, Early, Late, shlibs, history
  <1>14. CASE Detect
    <2>1. pc = "detect" /\ pc' = pc /\ UNCHANGED <<combined, details, frozen>> /\ Cur \in Packages
      BY <1>14, CurIsPackage DEF Detect, Late, shlibs
    <2>2. seen' = seen \/ seen' = Put(seen, Cur, [known |-> details[Cur], dangling |-> links \ DOMAIN disk])
      <3>1. \/ UNCHANGED <<triggers, snippets, seen>>
            \/ DpkgShlibdeps \/ UNCHANGED seen
        BY <1>14 DEF Detect
      <3> QED
        BY <3>1 DEF DpkgShlibdeps
    <2>3. \A p \in DOMAIN seen' \ ArchAll : seen'[p].known = AllLibraries
      <3>1. CASE seen' = seen
        BY <3>1 DEF LibraryInv
      <3>2. CASE seen' = Put(seen, Cur, [known |-> details[Cur], dangling |-> links \ DOMAIN disk])
        <4>1. \A p \in DOMAIN seen' : \/ p = Cur /\ seen'[p].known = details[Cur]
                                      \/ p \in DOMAIN seen /\ seen'[p] = seen[p]
          BY <3>2 DEF Put
        <4> QED
          BY <2>1, <4>1 DEF LibraryInv, Late
      <3> QED
        BY <2>2, <3>1, <3>2
    <2> QED
      BY <1>2, <2>1, <2>3 DEF LibraryInv, Early, Late
  <1>15. CASE ToolFails
    BY <1>4, <1>15 DEF ToolFails, Built, shlibs, history
  <1>16. CASE UNCHANGED vars
    <2>1. LibrariesSoFar' = LibrariesSoFar
      BY <1>16 DEF vars, files, place, LibrariesSoFar, Libraries, Content, ElfPaths, ElfOf
    <2> QED
      BY <1>2, <1>16, <2>1 DEF vars, place, shlibs, history, LibraryInv
  <1> QED
    BY <1>5, <1>6, <1>7, <1>8, <1>9, <1>10, <1>11, <1>12, <1>13, <1>14, <1>15, <1>16 DEF Next

\* dpkg-shlibdeps knows the shared libraries of all packages, whatever the order of
\* the packages is: none is asked before all had their turn with compute_shlibs.
THEOREM AllLibrariesAreKnown == Spec => []KnownLibraries
  <1>1. Init => LibraryInv
    <2> SUFFICES ASSUME Init PROVE LibraryInv
      OBVIOUS
    <2>1. pc = "before" /\ combined = {} /\ seen = <<>> /\ DOMAIN seen = {}
      BY DEF Init
    <2> QED
      BY <2>1 DEF LibraryInv, Early, Late
  <1>2. AssemblyInv => PlaceOK
    BY DEF AssemblyInv
  <1>3. LibraryInv => KnownLibraries
    BY DEF LibraryInv, KnownLibraries, AllLibraries, LibrariesIn
  <1> QED
    BY <1>1, <1>2, <1>3, LibraryStep, AlwaysAssemblyInv, PTL DEF Spec


-----------------------------------------------------------------------------
(* The order of the snippets in the scripts.                                *)

Wants(i, p, s) == p \in Detector[i].packages /\ s \in Detector[i].scripts

\* What the first n - 1 detectors, and the manifest, have in script s of p.
Ids(p, s, n) ==
    {"manifest"} \cup {Detector[i].id : i \in {i \in 1..Len(Detector) : i < n /\ Wants(i, p, s)}}

\* The order in which a script of the installation runs its snippets: that of the
\* manifest, then those of the detectors in their order, services last.
TurnOf(id) == CHOOSE i \in 1..Len(Detector) : Detector[i].id = id
Rank(id) ==
    IF id = "manifest" THEN 0
    ELSE IF Detector[TurnOf(id)].service THEN Len(Detector) + TurnOf(id) ELSE TurnOf(id)

Ascending(q) == \A i, j \in 1..Len(q) : i < j => Rank(q[i]) < Rank(q[j])
Descending(q) == \A i, j \in 1..Len(q) : i < j => Rank(q[j]) < Rank(q[i])
HasAll(q, S) == q \in Seq(S) /\ \A id \in S : \E i \in 1..Len(q) : q[i] = id

\* The snippets of one script after n - 1 detectors.
PartsOK(generic, service, p, s, n) ==
    /\ generic \in Seq(Ids(p, s, n)) /\ service \in Seq(Ids(p, s, n))
    /\ Ascending(generic) /\ Ascending(service)
    /\ \A i \in 1..Len(generic) : Rank(generic[i]) < n
    /\ \A i \in 1..Len(service) : Rank(service[i]) > Len(Detector) /\ Rank(service[i]) < Len(Detector) + n
    /\ \A id \in Ids(p, s, n) : \/ \E i \in 1..Len(generic) : generic[i] = id
                                \/ \E i \in 1..Len(service) : service[i] = id

SnippetOK(sn, p, s, n) ==
    /\ sn = [generic |-> sn.generic, service |-> sn.service]
    /\ PartsOK(sn.generic, sn.service, p, s, n)

\* A finished script: every snippet is in it, in the order of its kind of script.
Removal == {"prerm", "postrm"}
ScriptOK(q, p, s) ==
    /\ HasAll(q, Ids(p, s, Len(Detector) + 1))
    /\ IF s \in Removal THEN Descending(q) ELSE Ascending(q)

Fresh(p) == snippets[p] = [s \in Scripts |-> [generic |-> <<"manifest">>, service |-> <<>>]]

ScriptInv ==
    /\ snippets = [p \in Packages |-> snippets[p]]
    /\ pc \in Early => \A p \in Packages : Fresh(p)
    /\ pc \in Late => \A i \in 1..Len(Package) : i > at => Fresh(Package[i])
    /\ pc = "finalize" => Fresh(Cur)
    /\ pc = "detect" =>
          /\ step \in 1..(Len(Detector) + 1)
          /\ \A s \in Scripts : SnippetOK(snippets[Cur][s], Cur, s, step)
          /\ DOMAIN snippets[Cur] = Scripts
    /\ pc \in {"dbgsym", "pack"} =>
          /\ "scripts" \in DOMAIN packed
          /\ Cur \notin Udeb => \A s \in Scripts : ScriptOK(packed.scripts[s], Cur, s)
    /\ \A p \in DOMAIN deb \ Udeb : \A s \in Scripts : ScriptOK(deb[p].control.scripts[s], p, s)

\* A detector's snippets come after those of the detectors before it, those for
\* services after all others.
LEMMA RankOfDetector ==
    ASSUME NEW i \in 1..Len(Detector)
    PROVE  Rank(Detector[i].id) = IF Detector[i].service THEN Len(Detector) + i ELSE i
  <1>1. TurnOf(Detector[i].id) = i
    BY DetectorAssumption DEF TurnOf
  <1>2. Detector[i].id # "manifest"
    BY DetectorAssumption
  <1> QED
    BY <1>1, <1>2 DEF Rank

LEMMA IdsGrow ==
    ASSUME NEW p, NEW s, NEW n \in 1..Len(Detector)
    PROVE  Ids(p, s, n + 1) = Ids(p, s, n) \cup (IF Wants(n, p, s) THEN {Detector[n].id} ELSE {})
  <1> DEFINE T(m) == {i \in 1..Len(Detector) : i < m /\ Wants(i, p, s)}
  <1>1. T(n + 1) = T(n) \cup (IF Wants(n, p, s) THEN {n} ELSE {})
    <2>1. Len(Detector) \in Nat
      BY DetectorAssumption
    <2>2. \A i \in 1..Len(Detector) : i < n + 1 <=> i < n \/ i = n
      BY <2>1
    <2> HIDE DEF Wants
    <2> QED
      BY <2>2
  <1>2. \A m : Ids(p, s, m) = {"manifest"} \cup {Detector[i].id : i \in T(m)}
    BY DEF Ids
  <1> HIDE DEF T
  <1> QED
    BY <1>1, <1>2

\* A sequence is continued by an element of a higher rank.
LEMMA Continued ==
    ASSUME NEW S, NEW T, S \subseteq T, NEW q \in Seq(S), Ascending(q), NEW id \in T,
           \A i \in 1..Len(q) : Rank(q[i]) < Rank(id)
    PROVE  LET r == Append(q, id)
           IN  /\ r \in Seq(T) /\ Ascending(r) /\ Len(r) = Len(q) + 1 /\ Len(q) \in Nat
               /\ r[Len(q) + 1] = id /\ \A i \in 1..Len(q) : r[i] = q[i]
  <1> DEFINE r == Append(q, id)
  <1>1. q \in Seq(T) /\ Len(q) \in Nat
    OBVIOUS
  <1>2. /\ r \in Seq(T) /\ Len(r) = Len(q) + 1 /\ r[Len(q) + 1] = id
        /\ \A i \in 1..Len(q) : r[i] = q[i]
    BY <1>1
  <1>3. ASSUME NEW i \in 1..Len(r), NEW j \in 1..Len(r), i < j PROVE Rank(r[i]) < Rank(r[j])
    <2>1. i \in 1..Len(q) /\ (j \in 1..Len(q) \/ j = Len(q) + 1)
      BY <1>1, <1>2, <1>3
    <2>2. CASE j \in 1..Len(q)
      BY <1>2, <1>3, <2>1, <2>2 DEF Ascending
    <2>3. CASE j = Len(q) + 1
      BY <1>2, <2>1, <2>3
    <2> QED
      BY <2>1, <2>2, <2>3
  <1>4. Ascending(r)
    BY <1>3 DEF Ascending
  <1> QED
    BY <1>1, <1>2, <1>4

\* A detector had its turn.
LEMMA SnippetAdded ==
    ASSUME NEW p, NEW s, NEW n \in 1..Len(Detector), NEW sn, SnippetOK(sn, p, s, n), NEW tn,
           tn = IF ~ Wants(n, p, s) THEN sn
                ELSE IF Detector[n].service
                THEN [generic |-> sn.generic, service |-> Append(sn.service, Detector[n].id)]
                ELSE [generic |-> Append(sn.generic, Detector[n].id), service |-> sn.service]
    PROVE  SnippetOK(tn, p, s, n + 1)
  <1> DEFINE id == Detector[n].id
             S == Ids(p, s, n)
             T == Ids(p, s, n + 1)
  <1>0. Len(Detector) \in Nat /\ n \in Nat /\ n <= Len(Detector)
    BY DetectorAssumption
  <1>1. T = S \cup (IF Wants(n, p, s) THEN {id} ELSE {})
    BY IdsGrow
  <1>2. Rank(id) = IF Detector[n].service THEN Len(Detector) + n ELSE n
    BY RankOfDetector
  <1>3. /\ sn = [generic |-> sn.generic, service |-> sn.service]
        /\ sn.generic \in Seq(S) /\ sn.service \in Seq(S)
        /\ Ascending(sn.generic) /\ Ascending(sn.service)
        /\ \A i \in 1..Len(sn.generic) : Rank(sn.generic[i]) < n
        /\ \A i \in 1..Len(sn.service) :
              Rank(sn.service[i]) > Len(Detector) /\ Rank(sn.service[i]) < Len(Detector) + n
        /\ \A x \in S : \/ \E i \in 1..Len(sn.generic) : sn.generic[i] = x
                        \/ \E i \in 1..Len(sn.service) : sn.service[i] = x
    BY DEF SnippetOK, PartsOK
  <1>r. \A x \in S : Rank(x) \in Int
    <2> SUFFICES ASSUME NEW x \in S PROVE Rank(x) \in Int
      OBVIOUS
    <2>1. x = "manifest" \/ \E i \in 1..Len(Detector) : x = Detector[i].id
      BY DEF Ids
    <2> QED
      BY <1>0, <2>1, RankOfDetector DEF Rank
  <1>4. sn.generic \in Seq(T) /\ sn.service \in Seq(T) /\ S \subseteq T
    BY <1>1, <1>3
  <1>5. /\ \A i \in 1..Len(sn.generic) : sn.generic[i] \in S
        /\ \A i \in 1..Len(sn.service) : sn.service[i] \in S
    BY <1>3
  <1> HIDE DEF id, S, T
  <1>6. /\ \A i \in 1..Len(sn.generic) : Rank(sn.generic[i]) < n + 1
        /\ \A i \in 1..Len(sn.service) :
              Rank(sn.service[i]) > Len(Detector) /\ Rank(sn.service[i]) < Len(Detector) + n + 1
    BY <1>0, <1>3, <1>5, <1>r
  <1>7. CASE ~ Wants(n, p, s)
    <2>1. tn = sn /\ T = S
      BY <1>1, <1>7
    <2>2. \A i \in 1..Len(sn.service) : Rank(sn.service[i]) < Len(Detector) + (n + 1)
      BY <1>0, <1>5, <1>6, <1>r
    <2> QED
      BY <1>3, <1>6, <2>1, <2>2 DEF SnippetOK, PartsOK, T
  <1>8. CASE Wants(n, p, s) /\ Detector[n].service
    <2> DEFINE r == Append(sn.service, Detector[n].id)
    <2>0. T = S \cup {id} /\ Rank(id) = Len(Detector) + n
      BY <1>1, <1>2, <1>8
    <2>1. /\ r \in Seq(T) /\ Ascending(r) /\ Len(r) = Len(sn.service) + 1 /\ Len(sn.service) \in Nat
          /\ r[Len(sn.service) + 1] = id /\ \A i \in 1..Len(sn.service) : r[i] = sn.service[i]
      BY <1>3, <1>4, <2>0, Continued DEF id
    <2> HIDE DEF r
    <2>2. tn.generic = sn.generic /\ tn.service = r /\ tn = [generic |-> tn.generic, service |-> tn.service]
      BY <1>8 DEF r
    <2>3. \A i \in 1..Len(r) : i \in 1..Len(sn.service) \/ i = Len(sn.service) + 1
      BY <2>1
    <2>4. ASSUME NEW i \in 1..Len(r)
          PROVE  Rank(r[i]) > Len(Detector) /\ Rank(r[i]) < Len(Detector) + (n + 1)
      <3>1. CASE i \in 1..Len(sn.service)
        BY <1>0, <1>5, <1>6, <1>r, <2>1, <3>1
      <3>2. CASE i = Len(sn.service) + 1
        BY <1>0, <2>0, <2>1, <3>2
      <3> QED
        BY <2>3, <3>1, <3>2
    <2>5. ASSUME NEW x \in T
          PROVE  \/ \E i \in 1..Len(sn.generic) : sn.generic[i] = x
                 \/ \E i \in 1..Len(r) : r[i] = x
      <3>1. Len(sn.service) + 1 \in 1..Len(r) /\ \A i \in 1..Len(sn.service) : i \in 1..Len(r)
        BY <2>1
      <3> QED
        BY <1>3, <2>0, <2>1, <3>1
    <2>6. PartsOK(sn.generic, r, p, s, n + 1)
      BY <1>3, <1>4, <1>6, <2>1, <2>4, <2>5 DEF PartsOK, T
    <2> QED
      BY <2>2, <2>6 DEF SnippetOK
  <1>9. CASE Wants(n, p, s) /\ ~ Detector[n].service
    <2> DEFINE r == Append(sn.generic, Detector[n].id)
    <2>0. T = S \cup {id} /\ Rank(id) = n
      BY <1>1, <1>2, <1>9
    <2>1. /\ r \in Seq(T) /\ Ascending(r) /\ Len(r) = Len(sn.generic) + 1 /\ Len(sn.generic) \in Nat
          /\ r[Len(sn.generic) + 1] = id /\ \A i \in 1..Len(sn.generic) : r[i] = sn.generic[i]
      BY <1>3, <1>4, <2>0, Continued DEF id
    <2> HIDE DEF r
    <2>2. tn.service = sn.service /\ tn.generic = r /\ tn = [generic |-> tn.generic, service |-> tn.service]
      BY <1>9 DEF r
    <2>3. \A i \in 1..Len(r) : i \in 1..Len(sn.generic) \/ i = Len(sn.generic) + 1
      BY <2>1
    <2>4. ASSUME NEW i \in 1..Len(r)  PROVE Rank(r[i]) < n + 1
      <3>1. CASE i \in 1..Len(sn.generic)
        BY <1>0, <1>5, <1>6, <1>r, <2>1, <3>1
      <3>2. CASE i = Len(sn.generic) + 1
        BY <1>0, <2>0, <2>1, <3>2
      <3> QED
        BY <2>3, <3>1, <3>2
    <2>5. ASSUME NEW x \in T
          PROVE  \/ \E i \in 1..Len(r) : r[i] = x
                 \/ \E i \in 1..Len(sn.service) : sn.service[i] = x
      <3>1. Len(sn.generic) + 1 \in 1..Len(r) /\ \A i \in 1..Len(sn.generic) : i \in 1..Len(r)
        BY <2>1
      <3> QED
        BY <1>3, <2>0, <2>1, <3>1
    <2>6. \A i \in 1..Len(sn.service) : Rank(sn.service[i]) < Len(Detector) + (n + 1)
      BY <1>0, <1>5, <1>6, <1>r
    <2>7. PartsOK(r, sn.service, p, s, n + 1)
      BY <1>3, <1>4, <1>6, <2>1, <2>4, <2>5, <2>6 DEF PartsOK, T
    <2> QED
      BY <2>2, <2>7 DEF SnippetOK
  <1> QED
    BY <1>7, <1>8, <1>9

\* The snippets of all detectors make a finished script.
LEMMA ScriptMade ==
    ASSUME NEW p, NEW s, NEW sn, SnippetOK(sn, p, s, Len(Detector) + 1)
    PROVE  LET all == sn.generic \o sn.service
           IN  ScriptOK(IF s \in Removal THEN Reverse(all) ELSE all, p, s)
  <1> DEFINE S == Ids(p, s, Len(Detector) + 1)
             all == sn.generic \o sn.service
             back == Reverse(all)
  <1>1. Len(Detector) \in Nat
    BY DetectorAssumption
  <1>2. PICK G \in Seq(S), V \in Seq(S) : G = sn.generic /\ V = sn.service
    BY DEF SnippetOK, PartsOK
  <1>3. /\ Ascending(G) /\ Ascending(V)
        /\ \A i \in 1..Len(G) : Rank(G[i]) < Len(Detector) + 1
        /\ \A i \in 1..Len(V) : Rank(V[i]) > Len(Detector)
        /\ \A id \in S : \/ \E i \in 1..Len(G) : G[i] = id
                         \/ \E i \in 1..Len(V) : V[i] = id
    BY <1>2 DEF SnippetOK, PartsOK
  <1>4. \A x \in S : Rank(x) \in Int
    <2> SUFFICES ASSUME NEW x \in S PROVE Rank(x) \in Int
      OBVIOUS
    <2>1. x = "manifest" \/ \E i \in 1..Len(Detector) : x = Detector[i].id
      BY DEF Ids
    <2> QED
      BY <1>1, <2>1, RankOfDetector DEF Rank
  <1> HIDE DEF S
  <1>5. PICK g \in Nat, v \in Nat : g = Len(G) /\ v = Len(V)
    OBVIOUS
  <1>6. /\ all \in Seq(S) /\ Len(all) = g + v
        /\ \A i \in 1..g : all[i] = G[i]
        /\ \A i \in (g + 1)..(g + v) : all[i] = V[i - g]
    <2>1. all = G \o V
      BY <1>2
    <2>2. Len(G \o V) = g + v /\ G \o V \in Seq(S)
      BY <1>5
    <2>3. \A i \in 1..g : (G \o V)[i] = G[i]
      BY <1>5
    <2>4. ASSUME NEW i \in (g + 1)..(g + v)  PROVE (G \o V)[i] = V[i - g]
      <3>1. i \in 1..(g + v) /\ ~ i <= g
        OBVIOUS
      <3> QED
        BY <1>5, <3>1
    <2> HIDE DEF all
    <2> QED
      BY <2>1, <2>2, <2>3, <2>4
  <1> HIDE DEF all
  <1>7. ASSUME NEW i \in 1..(g + v), NEW j \in 1..(g + v), i < j PROVE Rank(all[i]) < Rank(all[j])
    <2>1. CASE j \in 1..g
      <3>1. i \in 1..g
        BY <1>7, <2>1
      <3> QED
        BY <1>3, <1>5, <1>6, <1>7, <2>1, <3>1 DEF Ascending
    <2>2. CASE i \in (g + 1)..(g + v)
      <3>1. j \in (g + 1)..(g + v) /\ i - g \in 1..v /\ j - g \in 1..v /\ i - g < j - g
        BY <1>7, <2>2
      <3> QED
        BY <1>3, <1>5, <1>6, <2>2, <3>1 DEF Ascending
    <2>3. CASE i \in 1..g /\ j \in (g + 1)..(g + v)
      <3>1. j - g \in 1..v
        BY <2>3
      <3>2. Rank(all[i]) < Len(Detector) + 1 /\ Rank(all[j]) > Len(Detector)
        BY <1>3, <1>5, <1>6, <2>3, <3>1
      <3>3. Rank(all[i]) \in Int /\ Rank(all[j]) \in Int
        BY <1>4, <1>6
      <3> QED
        BY <1>1, <3>2, <3>3
    <2> QED
      BY <1>7, <2>1, <2>2, <2>3
  <1>8. ASSUME NEW id \in S PROVE \E i \in 1..(g + v) : all[i] = id
    <2>1. CASE \E i \in 1..g : G[i] = id
      BY <1>6, <2>1
    <2>2. CASE \E i \in 1..v : V[i] = id
      <3>1. PICK i \in 1..v : V[i] = id
        BY <2>2
      <3>2. i + g \in (g + 1)..(g + v) /\ (i + g) - g = i
        OBVIOUS
      <3>3. all[i + g] = id /\ i + g \in 1..(g + v)
        BY <1>6, <3>1, <3>2
      <3> QED
        BY <3>3
    <2> QED
      BY <1>3, <1>5, <2>1, <2>2
  <1>9. /\ back \in Seq(S) /\ Len(back) = g + v
        /\ \A i \in 1..(g + v) : back[i] = all[(g + v) - i + 1]
    <2>1. back = [i \in 1..(g + v) |-> all[(g + v) - i + 1]]
      BY <1>6 DEF Reverse
    <2>2. \A i \in 1..(g + v) : (g + v) - i + 1 \in 1..(g + v)
      OBVIOUS
    <2>3. back \in [1..(g + v) -> S]
      BY <1>6, <2>1, <2>2
    <2> QED
      BY <2>1, <2>3
  <1>10. ASSUME NEW i \in 1..(g + v), NEW j \in 1..(g + v), i < j PROVE Rank(back[j]) < Rank(back[i])
    <2>1. /\ (g + v) - i + 1 \in 1..(g + v) /\ (g + v) - j + 1 \in 1..(g + v)
          /\ (g + v) - j + 1 < (g + v) - i + 1
      BY <1>10
    <2> QED
      BY <1>7, <1>9, <2>1
  <1>11. ASSUME NEW id \in S PROVE \E i \in 1..(g + v) : back[i] = id
    <2>1. PICK i \in 1..(g + v) : all[i] = id
      BY <1>8
    <2>2. (g + v) - i + 1 \in 1..(g + v) /\ (g + v) - ((g + v) - i + 1) + 1 = i
      OBVIOUS
    <2> QED
      BY <1>9, <2>1, <2>2
  <1> HIDE DEF back
  <1>12. CASE s \in Removal
    <2>1. Descending(back) /\ HasAll(back, S)
      BY <1>9, <1>10, <1>11 DEF Descending, HasAll
    <2> QED
      BY <1>12, <2>1 DEF ScriptOK, S, all, back
  <1>13. CASE s \notin Removal
    <2>1. Ascending(all) /\ HasAll(all, S)
      BY <1>6, <1>7, <1>8 DEF Ascending, HasAll
    <2> QED
      BY <1>13, <2>1 DEF ScriptOK, S, all
  <1> QED
    BY <1>12, <1>13

\* A script of the manifest alone.
LEMMA FreshSnippet ==
    ASSUME NEW p, NEW s
    PROVE  SnippetOK([generic |-> <<"manifest">>, service |-> <<>>], p, s, 1)
  <1>1. Ids(p, s, 1) = {"manifest"}
    <2>1. {i \in 1..Len(Detector) : i < 1 /\ Wants(i, p, s)} = {}
      BY DetectorAssumption
    <2> QED
      BY <2>1 DEF Ids
  <1>2. Rank("manifest") = 0 /\ Len(Detector) \in Nat
    BY DetectorAssumption DEF Rank
  <1>3. /\ <<"manifest">> \in Seq({"manifest"}) /\ Len(<<"manifest">>) = 1 /\ <<"manifest">>[1] = "manifest"
        /\ <<>> \in Seq({"manifest"}) /\ Len(<<>>) = 0
    OBVIOUS
  <1>4. PartsOK(<<"manifest">>, <<>>, p, s, 1)
    BY <1>1, <1>2, <1>3 DEF PartsOK, Ascending
  <1> QED
    BY <1>4 DEF SnippetOK

\* Of the two fields of a snippet, a detector extends one.
LEMMA OneExtended ==
    ASSUME NEW i, NEW p, NEW s, NEW sn, p \in Detector[i].packages,
           sn = [generic |-> sn.generic, service |-> sn.service]
    PROVE  Extended(sn, s, Detector[i]) =
             IF ~ Wants(i, p, s) THEN sn
             ELSE IF Detector[i].service
             THEN [generic |-> sn.generic, service |-> Append(sn.service, Detector[i].id)]
             ELSE [generic |-> Append(sn.generic, Detector[i].id), service |-> sn.service]
  <1> DEFINE y == Append(sn.service, Detector[i].id)
             z == Append(sn.generic, Detector[i].id)
  <1>1. /\ Extended(sn, s, Detector[i]) =
             IF s \notin Detector[i].scripts THEN sn
             ELSE IF Detector[i].service THEN [sn EXCEPT !.service = y] ELSE [sn EXCEPT !.generic = z]
        /\ Wants(i, p, s) <=> s \in Detector[i].scripts
    BY Zenon DEF Extended, Wants
  <1> HIDE DEF y, z
  <1>2. /\ [sn EXCEPT !.service = y] = [generic |-> sn.generic, service |-> y]
        /\ [sn EXCEPT !.generic = z] = [generic |-> z, service |-> sn.service]
    OBVIOUS
  <1>3. Extended(sn, s, Detector[i]) =
             IF ~ Wants(i, p, s) THEN sn
             ELSE IF Detector[i].service
             THEN [generic |-> sn.generic, service |-> y]
             ELSE [generic |-> z, service |-> sn.service]
    BY <1>1, <1>2, Zenon
  <1> QED
    BY <1>3 DEF y, z

\* Packages differ, so what is done for one does not change another.
LEMMA ScriptStep == PlaceOK /\ ScriptInv /\ [Next]_vars => ScriptInv'
  <1> SUFFICES ASSUME PlaceOK, ScriptInv, [Next]_vars PROVE ScriptInv'
    OBVIOUS
  <1>1. Early \cap Late = {} /\ Early \cap Built = {} /\ Late \cap Built = {}
    BY DEF Early, Late, Built
  <1>2. ASSUME UNCHANGED <<snippets, deb>>, pc \in Early, pc' \in Early \cup {"file exists", "not for udebs", "tool failed"}
        PROVE  ScriptInv'
    <2>1. pc' \notin Late /\ pc' \notin {"finalize", "detect", "dbgsym", "pack"}
      BY <1>2 DEF Early, Late
    <2>2. pc' \in Early => \A p \in Packages : Fresh(p)'
      BY <1>2 DEF ScriptInv, Fresh
    <2> QED
      BY <1>2, <2>1, <2>2 DEF ScriptInv, Fresh
  <1>3. ASSUME UNCHANGED <<snippets, deb>>, pc' \in Built  PROVE ScriptInv'
    <2>1. pc' \notin Late /\ pc' \notin Early /\ pc' \notin {"finalize", "detect", "dbgsym", "pack"}
      BY <1>3 DEF Early, Late, Built
    <2> QED
      BY <1>3, <2>1 DEF ScriptInv
  <1>4. ASSUME NEW p \in Packages, NEW x \in DOMAIN tree[p], Edit(p, x)  PROVE ScriptInv'
    <2>1. /\ pc' = pc /\ UNCHANGED <<snippets, deb>> /\ pc \in Early
      <3>1. pc \in {"before", "after", "detect"} /\ p \in writable
        BY <1>4 DEF Edit
      <3>2. pc \notin Late
        BY <3>1 DEF PlaceOK
      <3> QED
        BY <1>4, <3>1, <3>2 DEF Edit, place, control, Early, Late
    <2> QED
      BY <1>2, <2>1
  <1>5. ASSUME NEW x \in DOMAIN tree[Cur], Compress(x) \/ ReplaceElf(x) \/ AttachDebug(x)  PROVE ScriptInv'
    BY <1>2, <1>5 DEF Compress, ReplaceElf, AttachDebug, StripLeavesAlone, Early, place, control
  <1>6. ASSUME NEW x \in DOMAIN tree[Cur], MakeDebugFile(x)  PROVE ScriptInv'
    <2>1. pc = "debug" /\ UNCHANGED <<snippets, deb>> /\ (pc' = pc \/ pc' = "file exists")
      BY <1>6 DEF MakeDebugFile, StripLeavesAlone, control
    <2> QED
      BY <1>2, <2>1 DEF Early
  <1>7. CASE StartStrip \/ Dwz \/ Strip \/ FinishStrip \/ NextPackage
    BY <1>2, <1>7 DEF StartStrip, Dwz, Strip, FinishStrip, NextPackage, StripLeavesAlone, Early, control
  <1>8. CASE ComputeShlibs
    <2>1. pc = "shlibs" /\ UNCHANGED <<snippets, deb>> /\ (pc' = pc \/ pc' = "not for udebs")
      BY <1>8 DEF ComputeShlibs
    <2> QED
      BY <1>2, <2>1 DEF Early
  <1>9. CASE Freeze
    <2>1. CASE failures
      BY <1>3, <1>9, <2>1 DEF Freeze, control, Built
    <2>2. CASE ~ failures
      <3>1. pc = "shlibs" /\ pc' = "finalize" /\ at' = 1 /\ UNCHANGED <<snippets, deb>>
        BY <1>9, <2>2 DEF Freeze, control
      <3>2. \A p \in Packages : Fresh(p)'
        BY <3>1 DEF ScriptInv, Fresh, Early
      <3>3. \A i \in 1..Len(Package) : Package[i] \in Packages
        BY AssemblyAssumption
      <3>4. Cur' \in Packages
        <4>1. 1 \in 1..Len(Package)
          BY AssemblyAssumption
        <4> QED
          BY <3>1, <3>3, <4>1 DEF Cur
      <3>5. \A q : q = Cur' => Fresh(q)'
        BY <3>2, <3>4
      <3>6. pc' = "finalize" => Fresh(Cur)'
        BY <3>2, <3>4 DEF Fresh
      <3> QED
        BY <3>1, <3>2, <3>3, <3>6 DEF ScriptInv, Fresh, Early
    <2> QED
      BY <2>1, <2>2
  <1>10. ASSUME pc \in Late PROVE Cur \in Packages /\ Cur \in {Package[i] : i \in 1..Len(Package)}
                                  /\ \A i \in 1..Len(Package) : i > at => Package[i] # Cur
    <2>1. at \in 1..Len(Package) /\ DOMAIN Package = 1..Len(Package)
      BY <1>10, AssemblyAssumption DEF PlaceOK, Late
    <2> QED
      BY <1>10, <2>1, CurIsPackage, AssemblyAssumption DEF Cur, Late
  <1>11. CASE Finalize
    <2>1. pc = "finalize" /\ pc' = "detect" /\ step' = 1 /\ UNCHANGED <<snippets, deb, at>>
      BY <1>11 DEF Finalize
    <2>2. Cur' = Cur /\ Fresh(Cur)
      BY <2>1 DEF Cur, ScriptInv
    <2>3. /\ \A s \in Scripts : SnippetOK(snippets[Cur][s], Cur, s, 1)
          /\ DOMAIN snippets[Cur] = Scripts
      BY <2>2, FreshSnippet DEF Fresh
    <2>4. 1 \in 1..(Len(Detector) + 1)
      BY DetectorAssumption
    <2> QED
      BY <2>1, <2>2, <2>3, <2>4 DEF ScriptInv, Fresh, Early, Late
  <1>12. CASE Detect
    <2>1. /\ pc = "detect" /\ pc' = pc /\ step <= Len(Detector) /\ step' = step + 1
          /\ UNCHANGED <<deb, at>> /\ Cur' = Cur /\ Cur \in Packages
      BY <1>10, <1>12 DEF Detect, Cur, Late
    <2>2. PICK n \in 1..Len(Detector) : n = step
      BY <2>1, DetectorAssumption DEF ScriptInv
    <2>3. PICK c \in Packages : c = Cur
      BY <2>1
    <2>4. /\ snippets = [p \in Packages |-> snippets[p]] /\ DOMAIN snippets[c] = Scripts
          /\ \A s \in Scripts : SnippetOK(snippets[c][s], c, s, n)
      BY <2>1, <2>2, <2>3 DEF ScriptInv
    <2> DEFINE f == [s \in Scripts |-> Extended(snippets[c][s], s, Detector[n])]
    <2>f. snippets' = IF c \notin Detector[n].packages THEN snippets ELSE [snippets EXCEPT ![c] = f]
      BY <1>12, <2>2, <2>3 DEF Detect
    <2>g. DOMAIN f = Scripts /\ \A s \in Scripts : f[s] = Extended(snippets[c][s], s, Detector[n])
      OBVIOUS
    <2> HIDE DEF f
    <2>i. /\ snippets'[c] = IF c \notin Detector[n].packages THEN snippets[c] ELSE f
          /\ snippets' = [p \in Packages |-> snippets'[p]]
          /\ \A p \in Packages \ {c} : snippets'[p] = snippets[p]
      BY <2>4, <2>f
    <2>5. ASSUME NEW s \in Scripts
          PROVE  snippets'[c][s] =
                   IF ~ Wants(n, c, s) THEN snippets[c][s]
                   ELSE IF Detector[n].service
                   THEN [generic |-> snippets[c][s].generic,
                         service |-> Append(snippets[c][s].service, Detector[n].id)]
                   ELSE [generic |-> Append(snippets[c][s].generic, Detector[n].id),
                         service |-> snippets[c][s].service]
      <3>1. snippets[c][s] = [generic |-> snippets[c][s].generic, service |-> snippets[c][s].service]
        BY <2>4 DEF SnippetOK
      <3>2. CASE c \notin Detector[n].packages
        BY <2>i, <3>2 DEF Wants
      <3>3. CASE c \in Detector[n].packages
        <4>1. snippets'[c][s] = Extended(snippets[c][s], s, Detector[n])
          BY <2>g, <2>i, <3>3
        <4>2. PICK sn : sn = snippets[c][s]
          OBVIOUS
        <4>3. Extended(sn, s, Detector[n]) =
                IF ~ Wants(n, c, s) THEN sn
                ELSE IF Detector[n].service
                THEN [generic |-> sn.generic, service |-> Append(sn.service, Detector[n].id)]
                ELSE [generic |-> Append(sn.generic, Detector[n].id), service |-> sn.service]
          <5>1. sn = [generic |-> sn.generic, service |-> sn.service]
            BY <3>1, <4>2
          <5> QED
            BY <3>3, <5>1, OneExtended
        <4> QED
          BY <4>1, <4>2, <4>3, Zenon
      <3> QED
        BY <3>2, <3>3
    <2>6. \A s \in Scripts : SnippetOK(snippets'[c][s], c, s, n + 1)
      BY <2>4, <2>5, SnippetAdded
    <2>7. /\ snippets' = [p \in Packages |-> snippets'[p]] /\ DOMAIN snippets'[c] = Scripts
          /\ \A p \in Packages \ {c} : snippets'[p] = snippets[p]
      BY <2>4, <2>g, <2>i
    <2>8. \A i \in 1..Len(Package) : i > at => Package[i] \in Packages /\ Package[i] # c
      BY <1>10, <2>1, <2>3, AssemblyAssumption DEF Late
    <2>9. \A i \in 1..Len(Package) : i > at => Fresh(Package[i])'
      BY <2>1, <2>7, <2>8 DEF ScriptInv, Fresh, Late
    <2>10. step' \in 1..(Len(Detector) + 1) /\ step' = n + 1
      BY <2>1, <2>2, DetectorAssumption
    <2> QED
      BY <2>1, <2>3, <2>6, <2>7, <2>9, <2>10 DEF ScriptInv, Early
  <1>13. CASE WriteControl
    <2>1. CASE Exists(tree[Cur])
      <3>1. /\ pc = "detect" /\ pc' = "dbgsym" /\ step > Len(Detector)
            /\ UNCHANGED <<snippets, deb, at>> /\ Cur' = Cur
            /\ "scripts" \in DOMAIN packed'
            /\ packed'.scripts = [s \in IF Cur \in Udeb THEN {"postinst"} ELSE Scripts |-> Script(Cur, s)]
        BY <1>13, <2>1 DEF WriteControl, Cur
      <3>2. /\ step = Len(Detector) + 1
            /\ \A s \in Scripts : SnippetOK(snippets[Cur][s], Cur, s, Len(Detector) + 1)
        <4>1. step \in 1..(Len(Detector) + 1) /\ \A s \in Scripts : SnippetOK(snippets[Cur][s], Cur, s, step)
          BY <3>1 DEF ScriptInv
        <4>2. step = Len(Detector) + 1
          BY <3>1, <4>1, DetectorAssumption
        <4> QED
          BY <4>1, <4>2
      <3>3. \A s \in Scripts : ScriptOK(Script(Cur, s), Cur, s)
        BY <3>2, ScriptMade DEF Script, Removal
      <3>4. Cur \notin Udeb => \A s \in Scripts : ScriptOK(packed'.scripts[s], Cur, s)
        BY <3>1, <3>3
      <3>5. \A i \in 1..Len(Package) : i > at => Fresh(Package[i])'
        BY <3>1 DEF ScriptInv, Fresh, Late
      <3> QED
        BY <3>1, <3>4, <3>5 DEF ScriptInv, Early
    <2>2. CASE ~ Exists(tree[Cur])
      BY <1>3, <1>13, <2>2 DEF WriteControl, Built
    <2> QED
      BY <2>1, <2>2
  <1>14. CASE PackDbgsym
    <2>1. pc = "dbgsym" /\ UNCHANGED <<snippets, deb, at>> /\ Cur' = Cur
      BY <1>14 DEF PackDbgsym, PackLeavesAlone, Cur
    <2>2. CASE pc' = "missing"
      BY <1>3, <2>1, <2>2 DEF Built
    <2>3. CASE pc' # "missing"
      <3>1. pc' = "pack" /\ (packed' = packed
                             \/ packed' = [packed EXCEPT !.debug = [id \in DOMAIN debug[Cur] |-> disk[debug[Cur][id].file]]])
        BY <1>14, <2>3 DEF PackDbgsym
      <3>2. "scripts" \in DOMAIN packed
        BY <2>1 DEF ScriptInv
      <3>3. "scripts" \in DOMAIN packed' /\ packed'.scripts = packed.scripts
        BY <3>1, <3>2
      <3>4. \A i \in 1..Len(Package) : i > at => Fresh(Package[i])'
        BY <2>1 DEF ScriptInv, Fresh, Late
      <3>5. Cur \notin Udeb => \A s \in Scripts : ScriptOK(packed.scripts[s], Cur, s)
        BY <2>1 DEF ScriptInv
      <3> QED
        BY <2>1, <3>1, <3>3, <3>4, <3>5 DEF ScriptInv, Early
    <2> QED
      BY <2>2, <2>3
  <1>15. CASE Pack
    <2>1. pc = "pack" /\ snippets' = snippets
      BY <1>15 DEF Pack, PackLeavesAlone
    <2>2. CASE ~ Exists(manifest)
      BY <1>3, <1>15, <2>1, <2>2 DEF Pack, Built
    <2>3. CASE Exists(manifest)
      <3>1. /\ deb' = Put(deb, Cur, [control |-> packed,
                                     files |-> [x \in DOMAIN manifest |-> disk[manifest[x].file]]])
            /\ at' = at + 1 /\ pc' = IF at = Len(Package) THEN "done" ELSE "finalize"
        BY <1>15, <2>3 DEF Pack
      <3>2. \A p \in DOMAIN deb' : \/ p = Cur /\ deb'[p].control = packed
                                   \/ p \in DOMAIN deb /\ deb'[p] = deb[p]
        BY <3>1 DEF Put
      <3>3. ASSUME NEW p \in DOMAIN deb' \ Udeb, NEW s \in Scripts
            PROVE  ScriptOK(deb'[p].control.scripts[s], p, s)
        <4>1. CASE p = Cur /\ deb'[p].control = packed
          BY <2>1, <4>1 DEF ScriptInv
        <4>2. CASE p \in DOMAIN deb /\ deb'[p] = deb[p]
          BY <4>2 DEF ScriptInv
        <4> QED
          BY <3>2, <4>1, <4>2
      <3>4. at \in Nat /\ Len(Package) \in Nat /\ at <= Len(Package)
        BY <2>1, AssemblyAssumption DEF PlaceOK, Late
      <3>5. \A i \in 1..Len(Package) : i > at => Fresh(Package[i])'
        BY <2>1 DEF ScriptInv, Fresh, Late
      <3>6. \A i \in 1..Len(Package) : i > at' => Fresh(Package[i])'
        BY <3>1, <3>4, <3>5
      <3>7. pc' = "finalize" => snippets'[Cur'] = [s \in Scripts |-> [generic |-> <<"manifest">>, service |-> <<>>]]
        <4>1. pc' = "finalize" => at + 1 \in 1..Len(Package) /\ at + 1 > at
          BY <3>1, <3>4
        <4>2. Cur' = Package[at + 1]
          BY <3>1 DEF Cur
        <4> QED
          BY <2>1, <4>1, <4>2 DEF ScriptInv, Fresh, Late
      <3>8. pc' \notin Early /\ pc' \notin {"detect", "dbgsym", "pack"}
        BY <3>1 DEF Early
      <3> QED
        BY <2>1, <3>3, <3>6, <3>7, <3>8 DEF ScriptInv, Fresh
    <2> QED
      BY <2>2, <2>3
  <1>16. CASE ToolFails
    BY <1>3, <1>16 DEF ToolFails, Built, control
  <1>17. CASE UNCHANGED vars
    <2>1. UNCHANGED <<snippets, deb, pc, at, step, packed>> /\ Cur' = Cur
      BY <1>17 DEF vars, control, place, Cur
    <2>2. \A p : Fresh(p)' <=> Fresh(p)
      BY <2>1 DEF Fresh
    <2> QED
      BY <2>1, <2>2 DEF ScriptInv
  <1> QED
    BY <1>4, <1>5, <1>6, <1>7, <1>8, <1>9, <1>11, <1>12, <1>13, <1>14, <1>15, <1>16, <1>17 DEF Next

\* Every snippet is in its script, and the scripts of the removal run the snippets of
\* the services before, and in the opposite order of, the scripts of the installation.
THEOREM ScriptsAreMirrored == Spec => []ScriptsMirror
  <1>1. Init => ScriptInv
    <2> SUFFICES ASSUME Init PROVE ScriptInv
      OBVIOUS
    <2>1. /\ pc = "before" /\ deb = <<>> /\ DOMAIN <<>> = {}
          /\ snippets = [p \in Packages |-> [s \in Scripts |-> [generic |-> <<"manifest">>, service |-> <<>>]]]
      BY DEF Init
    <2> QED
      BY <2>1 DEF ScriptInv, Fresh, Early, Late
  <1>2. AssemblyInv => PlaceOK
    BY DEF AssemblyInv
  <1>3. ScriptInv => ScriptsMirror
    <2> SUFFICES ASSUME ScriptInv, NEW p \in DOMAIN deb \ Udeb PROVE
            LET script == deb[p].control.scripts
            IN  /\ \A s \in Scripts : Range(script[s]) = Expected(p, s)
                /\ \A up \in {"preinst", "postinst"}, down \in {"prerm", "postrm"} :
                    \A a, b \in Expected(p, up) \cap Expected(p, down) :
                        Before(script[up], a, b) => Before(script[down], b, a)
      BY DEF ScriptsMirror
    <2> DEFINE script == deb[p].control.scripts
    <2>1. \A s \in Scripts : ScriptOK(script[s], p, s)
      BY DEF ScriptInv
    <2>2. \A s : Ids(p, s, Len(Detector) + 1) = Expected(p, s)
      <3> SUFFICES ASSUME NEW s PROVE Ids(p, s, Len(Detector) + 1) = Expected(p, s)
        OBVIOUS
      <3>1. \A i \in 1..Len(Detector) : i < Len(Detector) + 1
        BY DetectorAssumption
      <3>2. {i \in 1..Len(Detector) : i < Len(Detector) + 1 /\ Wants(i, p, s)}
              = {i \in 1..Len(Detector) : p \in Detector[i].packages /\ s \in Detector[i].scripts}
        BY <3>1 DEF Wants
      <3> QED
        BY <3>2 DEF Ids, Expected
    <2> HIDE DEF script
    <2>3. ASSUME NEW s \in Scripts PROVE Range(script[s]) = Expected(p, s)
      <3>1. HasAll(script[s], Expected(p, s))
        BY <2>1, <2>2 DEF ScriptOK
      <3>2. script[s] \in Seq(Expected(p, s)) /\ DOMAIN script[s] = 1..Len(script[s])
        BY <3>1 DEF HasAll
      <3>3. \A i \in 1..Len(script[s]) : script[s][i] \in Expected(p, s)
        BY <3>2
      <3>4. \A id \in Expected(p, s) : \E i \in 1..Len(script[s]) : script[s][i] = id
        BY <3>1 DEF HasAll
      <3> QED
        BY <3>2, <3>3, <3>4 DEF Range
    <2>4. ASSUME NEW up \in {"preinst", "postinst"}, NEW down \in {"prerm", "postrm"},
                 NEW a \in Expected(p, up) \cap Expected(p, down),
                 NEW b \in Expected(p, up) \cap Expected(p, down), Before(script[up], a, b)
          PROVE  Before(script[down], b, a)
      <3>1. up \in Scripts /\ up \notin Removal /\ down \in Scripts /\ down \in Removal
        BY DEF Scripts, Removal
      <3>2. Ascending(script[up]) /\ Descending(script[down]) /\ HasAll(script[down], Expected(p, down))
        BY <2>1, <2>2, <3>1 DEF ScriptOK
      <3>3. Rank(a) < Rank(b)
        BY <2>4, <3>2 DEF Before, Ascending
      <3>4. PICK k, l \in 1..Len(script[down]) : script[down][k] = a /\ script[down][l] = b
        BY <3>2 DEF HasAll
      <3>5. Rank(a) \in Int /\ Rank(b) \in Int
        <4>1. \A x \in Expected(p, up) : x = "manifest" \/ \E i \in 1..Len(Detector) : x = Detector[i].id
          BY DEF Expected
        <4>2. Len(Detector) \in Nat
          BY DetectorAssumption
        <4>3. \A x \in Expected(p, up) : Rank(x) \in Int
          BY <4>1, <4>2, RankOfDetector DEF Rank
        <4> QED
          BY <4>3
      <3>6. l < k
        <4>1. k # l
          BY <3>3, <3>4, <3>5
        <4>2. ~ k < l
          BY <3>2, <3>3, <3>4, <3>5 DEF Descending
        <4> QED
          BY <4>1, <4>2
      <3> QED
        BY <3>4, <3>6 DEF Before
    <2> QED
      BY <2>3, <2>4 DEF script
  <1> QED
    BY <1>1, <1>2, <1>3, ScriptStep, AlwaysAssemblyInv, PTL DEF Spec

-----------------------------------------------------------------------------
(* The debug information of stripped files.                                 *)

\* A content of which debug information was taken, and one that has it.
WasStripped(c) == Head(c) \in DOMAIN Elf /\ ~ Elf[Head(c)].stripped /\ Has(c, "stripped")
Keeps(c, id) == Head(c) \in DOMAIN Elf /\ Elf[Head(c)].id = id /\ ~ Has(c, "stripped")

\* Every debug file of p is what it should be; of stripped files there is one.
DebugIsGood(p) == \A id \in DOMAIN debug[p] \ {"dwz"} : Keeps(disk[debug[p][id].file], id)
DebugIsThere(p) ==
    \A x \in DOMAIN tree[p] : WasStripped(Content(p, x)) => ElfOf(p, x).id \in DOMAIN debug[p]
Untouched(p) == \A x \in DOMAIN tree[p] : ~ Has(Content(p, x), "stripped")

\* The package had not its turn with strip.
ToStrip(i) == \/ i > at /\ pc # "shlibs"
              \/ i = at /\ pc \in {"before", "replace", "debug"}

\* What of the debug files is for the contents of a finished package.
Covers(saved, contents) ==
    \A x \in DOMAIN contents : WasStripped(contents[x]) =>
        /\ Elf[Head(contents[x])].id \in DOMAIN saved
        /\ Keeps(saved[Elf[Head(contents[x])].id], Elf[Head(contents[x])].id)

DebugInv ==
    /\ pc \in Early =>
          /\ \A p \in Packages : DebugIsGood(p) /\ DebugIsThere(p)
          /\ \A i \in 1..Len(Package) : ToStrip(i) => Untouched(Package[i])
          /\ pc \in {"before", "replace", "after"} => done = {}
          /\ pc = "debug" => \A x \in done :
                x \in DOMAIN tree[Cur] /\ ElfOf(Cur, x).id \in DOMAIN debug[Cur]
    /\ pc \in Late =>
          \A p \in Packages \ (Udeb \cup NoDbgsym) : Coming("debug", p) =>
              /\ DebugIsGood(p)
              /\ \A x \in DOMAIN frozen[p] : WasStripped(frozen[p][x]) =>
                    Elf[Head(frozen[p][x])].id \in DOMAIN debug[p]
    /\ pc = "dbgsym" => "debug" \in DOMAIN packed
    /\ pc = "pack" /\ Cur \notin Udeb \cup NoDbgsym => Covers(packed.debug, frozen[Cur])
    /\ DebugIsComplete

\* What the property says of one package.
DebugCovered ==
    \A p \in DOMAIN deb \ (Udeb \cup NoDbgsym) : Covers(deb[p].control.debug, deb[p].files)

LEMMA CompleteMeansCovered == DebugIsComplete <=> DebugCovered
  <1>1. ASSUME DebugIsComplete, NEW p \in DOMAIN deb \ (Udeb \cup NoDbgsym),
               NEW x \in DOMAIN deb[p].files, WasStripped(deb[p].files[x])
        PROVE  LET id == Elf[Head(deb[p].files[x])].id
               IN  /\ id \in DOMAIN deb[p].control.debug
                   /\ Keeps(deb[p].control.debug[id], id)
    BY <1>1, Zenon DEF DebugIsComplete, Keeps, WasStripped
  <1>2. ASSUME DebugCovered, NEW p \in DOMAIN deb \ (Udeb \cup NoDbgsym),
               NEW x \in DOMAIN deb[p].files, WasStripped(deb[p].files[x])
        PROVE  LET id == Elf[Head(deb[p].files[x])].id
               IN  /\ id \in DOMAIN deb[p].control.debug
                   /\ Keeps(deb[p].control.debug[id], id)
    BY <1>2, Zenon DEF DebugCovered, Covers
  <1>3. DebugCovered => DebugIsComplete
    BY <1>2, Zenon DEF DebugIsComplete, Keeps, WasStripped
  <1> QED
    BY <1>1, <1>3, Zenon DEF DebugCovered, Covers

\* While no package is finished, nothing happens to the finished ones.
LEMMA DebugStays ==
    ASSUME DebugIsComplete, UNCHANGED deb
    PROVE  DebugIsComplete'
  <1>1. DebugCovered
    BY CompleteMeansCovered
  <1>2. DebugCovered'
    BY <1>1 DEF DebugCovered
  <1>3. (DebugIsComplete <=> DebugCovered)'
    BY CompleteMeansCovered, PTL
  <1> QED
    BY <1>2, <1>3

\* What a step may do to contents without harm to debug information: append to
\* them, move them in their package, and make the file that dwz makes.
Alike(c, d) == Head(c) = Head(d) /\ (Has(c, "stripped") <=> Has(d, "stripped"))
Gentle ==
    \A p \in Packages :
        /\ \A x \in DOMAIN tree'[p] : \E y \in DOMAIN tree[p] : Alike(Content(p, x)', Content(p, y))
        /\ DOMAIN debug[p] \subseteq DOMAIN debug'[p]
        /\ \A id \in DOMAIN debug'[p] \ {"dwz"} :
              id \in DOMAIN debug[p] /\ disk'[debug'[p][id].file] = disk[debug[p][id].file]

\* Only strip strips.
LEMMA HasAppended ==
    ASSUME NEW c \in Contents, NEW e \in Item
    PROVE  /\ Head(Append(c, e)) = Head(c)
           /\ Has(Append(c, e), "stripped") <=> Has(c, "stripped") \/ e = "stripped"
  <1>1. c \in Seq(Item) /\ c # <<>>
    BY DEF Contents
  <1>2. Len(c) \in Nat /\ Len(c) >= 1 /\ Len(Append(c, e)) = Len(c) + 1
    BY <1>1
  <1>3. (\A i \in 1..Len(c) : Append(c, e)[i] = c[i]) /\ Append(c, e)[Len(c) + 1] = e
    BY <1>1
  <1>4. \A i : i \in 2..(Len(c) + 1) <=> i \in 2..Len(c) \/ i = Len(c) + 1
    BY <1>2
  <1>5. \A i \in 2..Len(c) : i \in 1..Len(c)
    OBVIOUS
  <1>6. Has(Append(c, e), "stripped") <=> Has(c, "stripped") \/ e = "stripped"
    BY <1>2, <1>3, <1>4, <1>5 DEF Has
  <1> QED
    BY <1>6, AppendedContent

\* What nodes have.
LEMMA NodeContents ==
    ASSUME FilesOK, AllThere
    PROVE  /\ \A p \in Packages : \A x \in DOMAIN tree[p] :
                 tree[p][x].file \in DOMAIN disk /\ Content(p, x) \in Contents
           /\ \A p \in Packages : \A id \in DOMAIN debug[p] :
                 debug[p][id].file \in DOMAIN disk /\ disk[debug[p][id].file] \in Contents
  <1>1. "tree" \in Parts /\ "debug" \in Parts
        /\ \A p : Of("tree", p) = tree[p] /\ Of("debug", p) = debug[p]
    BY DEF Of, Parts
  <1> QED
    BY <1>1 DEF FilesOK, DiskOK, AllThere, IsThere, Content

LEMMA GentleStep ==
    ASSUME Gentle, NEW p \in Packages
    PROVE  /\ DebugIsGood(p) => DebugIsGood(p)'
           /\ DebugIsThere(p) => DebugIsThere(p)'
           /\ Untouched(p) => Untouched(p)'
  <1>1. /\ \A x \in DOMAIN tree'[p] : \E y \in DOMAIN tree[p] : Alike(Content(p, x)', Content(p, y))
        /\ DOMAIN debug[p] \subseteq DOMAIN debug'[p]
        /\ \A id \in DOMAIN debug'[p] \ {"dwz"} :
              id \in DOMAIN debug[p] /\ disk'[debug'[p][id].file] = disk[debug[p][id].file]
    BY DEF Gentle
  <1>2. DebugIsGood(p) => DebugIsGood(p)'
    BY <1>1, Zenon DEF DebugIsGood, Keeps
  <1>3. ASSUME DebugIsThere(p), NEW x \in DOMAIN tree'[p], WasStripped(Content(p, x)')
        PROVE  ElfOf(p, x)'.id \in DOMAIN debug'[p]
    <2>1. PICK y \in DOMAIN tree[p] : Alike(Content(p, x)', Content(p, y))
      BY <1>1
    <2>2. WasStripped(Content(p, y)) /\ Elf[Head(Content(p, x)')] = Elf[Head(Content(p, y))]
      BY <1>3, <2>1 DEF WasStripped, Alike
    <2>3. ElfOf(p, y).id \in DOMAIN debug[p]
      BY <1>3, <2>2 DEF DebugIsThere
    <2> QED
      BY <1>1, <2>2, <2>3 DEF ElfOf
  <1>4. ASSUME Untouched(p), NEW x \in DOMAIN tree'[p]  PROVE ~ Has(Content(p, x)', "stripped")
    BY <1>1, <1>4 DEF Untouched, Alike
  <1>5. DebugIsThere(p) => DebugIsThere(p)'
    BY <1>3 DEF DebugIsThere
  <1> QED
    BY <1>2, <1>4, <1>5 DEF Untouched

\* replace_fs_path_content
LEMMA GentleReplacement ==
    ASSUME FilesOK, AllThere, NEW p \in Packages, NEW x \in DOMAIN tree[p], NEW c,
           ReplaceContent(p, x, c), Alike(c, Content(p, x))
    PROVE  Gentle
  <1> DEFINE file == WritableFile(p, x)
             node == [file |-> file, inline |-> TRUE]
  <1>1. /\ disk' = Put(disk, file, c) /\ debug' = debug
        /\ tree' = [tree EXCEPT ![p][x] = node]
    BY DEF ReplaceContent
  <1>2. tree = [q \in Packages |-> tree[q]]
    BY DEF FilesOK, TreesOK
  <1>3. /\ tree'[p] = [tree[p] EXCEPT ![x] = node]
        /\ \A q \in Packages \ {p} : tree'[q] = tree[q]
    BY <1>1, <1>2
  <1>4. /\ DOMAIN tree'[p] = DOMAIN tree[p]
        /\ tree'[p][x] = node /\ node.file = file
        /\ \A y \in DOMAIN tree[p] \ {x} : tree'[p][y] = tree[p][y]
    BY <1>3
  <1>5. /\ \A q \in Packages : \A y \in DOMAIN tree[q] : tree[q][y].file = file => q = p /\ y = x
        /\ \A q \in Packages : \A id \in DOMAIN debug[q] : debug[q][id].file # file
    <2>1. "tree" \in Parts /\ "debug" \in Parts
          /\ \A q : Of("tree", q) = tree[q] /\ Of("debug", q) = debug[q]
      BY DEF Of, Parts
    <2> QED
      BY <2>1, OwnFile
  <1>6. disk'[file] = c /\ \A f \in DOMAIN disk \ {file} : disk'[f] = disk[f]
    BY <1>1 DEF Put
  <1> HIDE DEF file, node
  <1>7. ASSUME NEW q \in Packages, NEW y \in DOMAIN tree'[q]
        PROVE  \E z \in DOMAIN tree[q] : Alike(Content(q, y)', Content(q, z))
    <2>1. CASE q = p /\ y = x
      <3>1. Content(q, y)' = c
        BY <1>4, <1>6, <2>1 DEF Content
      <3> QED
        BY <2>1, <3>1
    <2>2. CASE ~ (q = p /\ y = x)
      <3>1. y \in DOMAIN tree[q] /\ tree'[q][y] = tree[q][y] /\ tree[q][y].file # file
        BY <1>3, <1>4, <1>5, <2>2
      <3>2. Content(q, y)' = Content(q, y)
        BY <1>6, <3>1, NodeContents DEF Content
      <3> QED
        BY <3>1, <3>2 DEF Alike
    <2> QED
      BY <2>1, <2>2
  <1>8. \A q \in Packages : \A id \in DOMAIN debug[q] : disk'[debug[q][id].file] = disk[debug[q][id].file]
    BY <1>5, <1>6, NodeContents
  <1> QED
    BY <1>1, <1>7, <1>8 DEF Gentle

\* The contents when a tool has written what to X, and what then is in the files.
Marked(X, what) == [f \in DOMAIN disk |-> IF f \in {tree[Cur][x].file : x \in X}
                                          THEN Append(disk[f], what) ELSE disk[f]]
OnlyMarked(X, what) ==
    /\ \A q \in Packages : \A y \in DOMAIN tree[q] :
          Marked(X, what)[tree[q][y].file] =
              IF q = Cur /\ y \in X THEN Append(Content(q, y), what) ELSE Content(q, y)
    /\ \A q \in Packages : \A id \in DOMAIN debug[q] :
          Marked(X, what)[debug[q][id].file] = disk[debug[q][id].file]

\* A tool did more to files that nodes of the package in work have for themselves.
LEMMA ContentsRewritten ==
    ASSUME FilesOK, AllThere, Cur \in Packages, NEW what,
           NEW X, \A x \in X : x \in DOMAIN tree[Cur] /\ tree[Cur][x].inline
    PROVE  OnlyMarked(X, what)
  <1> DEFINE F == {tree[Cur][x].file : x \in X}
             new == Marked(X, what)
  <1>1. "tree" \in Parts /\ "debug" \in Parts /\ "tree" # "debug"
        /\ \A q : Of("tree", q) = tree[q] /\ Of("debug", q) = debug[q]
    BY DEF Of, Parts
  <1>2. ASSUME NEW q \in Packages, NEW y \in DOMAIN tree[q], tree[q][y].file \in F
        PROVE  q = Cur /\ y \in X
    <2>1. PICK x \in X : tree[q][y].file = tree[Cur][x].file
      BY <1>2
    <2> QED
      BY <1>1, <2>1 DEF FilesOK, OwnOK
  <1>3. ASSUME NEW q \in Packages, NEW id \in DOMAIN debug[q] PROVE debug[q][id].file \notin F
    <2> SUFFICES ASSUME NEW x \in X, debug[q][id].file = tree[Cur][x].file PROVE FALSE
      OBVIOUS
    <2> QED
      BY <1>1 DEF FilesOK, OwnOK
  <1>4. \A y \in X : tree[Cur][y].file \in F
    OBVIOUS
  <1>5. \A f \in DOMAIN disk : new[f] = IF f \in F THEN Append(disk[f], what) ELSE disk[f]
    BY DEF Marked
  <1>6. /\ \A q \in Packages : \A y \in DOMAIN tree[q] :
              new[tree[q][y].file] = IF q = Cur /\ y \in X THEN Append(Content(q, y), what)
                                     ELSE Content(q, y)
        /\ \A q \in Packages : \A id \in DOMAIN debug[q] :
              new[debug[q][id].file] = disk[debug[q][id].file]
    <2> HIDE DEF F, new
    <2> QED
      BY <1>2, <1>3, <1>4, <1>5, NodeContents DEF Content
  <1> QED
    BY <1>6 DEF OnlyMarked

LEMMA EachIsPackage == \A i \in 1..Len(Package) : Package[i] \in Packages
  BY AssemblyAssumption

\* A step before the packages are put together, that spares debug information.
LEMMA GentleEarly ==
    ASSUME DebugInv, pc \in Early, Gentle, UNCHANGED deb,
           pc' \in Early \cup {"file exists", "not for udebs", "tool failed"},
           \A i \in 1..Len(Package) : ToStrip(i)' => ToStrip(i),
           pc' \in {"before", "replace", "after"} => done' = {},
           pc' = "debug" => done' = {}
    PROVE  DebugInv'
  <1>1. pc' \notin Late /\ pc' \notin {"dbgsym", "pack"}
    BY DEF Early, Late
  <1>2. \A p \in Packages : (DebugIsGood(p) /\ DebugIsThere(p))'
    BY GentleStep DEF DebugInv
  <1>3. \A i \in 1..Len(Package) : Package[i] \in Packages
    BY EachIsPackage
  <1>4. ASSUME NEW i \in 1..Len(Package), ToStrip(i)', pc' \in Early PROVE Untouched(Package[i])'
    <2>1. ToStrip(i)
      BY <1>4
    <2>2. Untouched(Package[i]) /\ Package[i] \in Packages
      BY <1>3, <2>1 DEF DebugInv
    <2>3. PICK p \in Packages : p = Package[i]
      BY <2>2
    <2>4. Untouched(p)'
      BY <2>2, <2>3, GentleStep
    <2> QED
      BY <2>3, <2>4 DEF Untouched, Content
  <1>5. DebugIsComplete'
    BY DebugStays DEF DebugInv
  <1> QED
    BY <1>1, <1>2, <1>4, <1>5 DEF DebugInv

\* Nothing of the files is changed.
LEMMA NothingWritten ==
    ASSUME UNCHANGED <<disk, tree, debug>>
    PROVE  Gentle
  <1>1. \A p, x : Content(p, x)' = Content(p, x)
    BY DEF Content
  <1> QED
    BY <1>1 DEF Gentle, Alike

LEMMA EditIsGentle ==
    ASSUME FilesOK, AllThere, NEW p \in Packages, NEW x \in DOMAIN tree[p], Edit(p, x)
    PROVE  Gentle
  <1>1. ReplaceContent(p, x, Append(Content(p, x), "edited"))
    BY DEF Edit
  <1>2. Content(p, x) \in Contents /\ "edited" \in Item
    BY NodeContents DEF Item
  <1>3. Alike(Append(Content(p, x), "edited"), Content(p, x))
    BY <1>2, HasAppended DEF Alike
  <1> QED
    BY <1>1, <1>3, GentleReplacement

LEMMA ReplaceElfIsGentle ==
    ASSUME FilesOK, AllThere, Cur \in Packages, NEW x \in DOMAIN tree[Cur], ReplaceElf(x)
    PROVE  Gentle
  <1>1. ReplaceContent(Cur, x, Content(Cur, x))
    BY DEF ReplaceElf
  <1>2. Alike(Content(Cur, x), Content(Cur, x))
    BY DEF Alike
  <1> QED
    BY <1>1, <1>2, GentleReplacement

LEMMA CompressIsGentle ==
    ASSUME FilesOK, AllThere, Cur \in Packages, NEW x \in DOMAIN tree[Cur], Compress(x)
    PROVE  Gentle
  <1> DEFINE file == Generated(made)
             gz == x \o ".gz"
             node == [file |-> file, inline |-> TRUE]
             content == Append(Content(Cur, x), "gz")
  <1>1. /\ disk' = Put(disk, file, content)
        /\ tree' = [tree EXCEPT ![Cur] = Put(Without(@, {x}), gz, node)]
        /\ debug' = debug
    BY DEF Compress
  <1>2. tree = [q \in Packages |-> tree[q]] /\ file \notin DOMAIN disk
    BY DEF FilesOK, TreesOK, DiskOK
  <1>3. /\ tree'[Cur] = Put(Without(tree[Cur], {x}), gz, node)
        /\ \A q \in Packages \ {Cur} : tree'[q] = tree[q]
    BY <1>1, <1>2
  <1>4. /\ tree'[Cur][gz] = node
        /\ \A y \in DOMAIN tree'[Cur] : y # gz =>
              y \in DOMAIN tree[Cur] /\ tree'[Cur][y] = tree[Cur][y]
    <2> HIDE DEF gz, node
    <2> QED
      BY <1>3 DEF Put, Without
  <1>5. disk'[file] = content /\ \A f \in DOMAIN disk : disk'[f] = disk[f]
    <2> HIDE DEF file, content
    <2> QED
      BY <1>1, <1>2 DEF Put
  <1>6. Alike(content, Content(Cur, x))
    <2>1. Content(Cur, x) \in Contents /\ "gz" \in Item
      BY NodeContents DEF Item
    <2> QED
      BY <2>1, HasAppended DEF Alike
  <1>7. ASSUME NEW q \in Packages, NEW y \in DOMAIN tree'[q]
        PROVE  \E z \in DOMAIN tree[q] : Alike(Content(q, y)', Content(q, z))
    <2>1. CASE q = Cur /\ y = gz
      <3>1. tree'[q][y] = node /\ node.file = file
        BY <1>4, <2>1
      <3>2. Content(q, y)' = content
        <4> HIDE DEF file, content, node
        <4> QED
          BY <1>5, <3>1 DEF Content
      <3> HIDE DEF content
      <3> QED
        BY <1>6, <2>1, <3>2
    <2>2. CASE ~ (q = Cur /\ y = gz)
      <3>1. y \in DOMAIN tree[q] /\ tree'[q][y] = tree[q][y]
        <4> HIDE DEF gz, node
        <4> QED
          BY <1>3, <1>4, <2>2
      <3>2. Content(q, y)' = Content(q, y)
        BY <1>5, <3>1, NodeContents DEF Content
      <3> QED
        BY <3>1, <3>2 DEF Alike
    <2> QED
      BY <2>1, <2>2
  <1>8. \A q \in Packages : \A id \in DOMAIN debug[q] : disk'[debug[q][id].file] = disk[debug[q][id].file]
    BY <1>5, NodeContents
  <1> QED
    BY <1>1, <1>7, <1>8 DEF Gentle

\* Open paths are written to, but for strip.
LEMMA RewriteIsGentle ==
    ASSUME FilesOK, AllThere, Cur \in Packages, NEW what \in Item \ {"stripped"},
           NEW X, \A x \in X : x \in DOMAIN tree[Cur] /\ tree[Cur][x].inline,
           UNCHANGED tree,
           \A f \in DOMAIN disk : disk'[f] = IF f \in {tree[Cur][x].file : x \in X}
                                             THEN Append(disk[f], what) ELSE disk[f],
           \A p \in Packages : \A id \in DOMAIN debug'[p] \ {"dwz"} :
               id \in DOMAIN debug[p] /\ debug'[p][id] = debug[p][id],
           \A p \in Packages : DOMAIN debug[p] \subseteq DOMAIN debug'[p]
    PROVE  Gentle
  <1> DEFINE new == Marked(X, what)
  <1>1. /\ \A q \in Packages : \A y \in DOMAIN tree[q] :
              new[tree[q][y].file] = IF q = Cur /\ y \in X THEN Append(Content(q, y), what)
                                     ELSE Content(q, y)
        /\ \A q \in Packages : \A id \in DOMAIN debug[q] :
              new[debug[q][id].file] = disk[debug[q][id].file]
    <2>1. FilesOK /\ AllThere /\ Cur \in Packages
          /\ \A x \in X : x \in DOMAIN tree[Cur] /\ tree[Cur][x].inline
      OBVIOUS
    <2>2. OnlyMarked(X, what)
      BY ONLY <2>1, ContentsRewritten
    <2> HIDE DEF new
    <2>3. new = Marked(X, what)
      BY DEF new
    <2> QED
      BY ONLY <2>2, <2>3 DEF OnlyMarked
  <1>2. \A f \in DOMAIN disk : disk'[f] = new[f]
    BY DEF Marked
  <1> HIDE DEF new
  <1>3. ASSUME NEW q \in Packages, NEW y \in DOMAIN tree'[q]
        PROVE  \E z \in DOMAIN tree[q] : Alike(Content(q, y)', Content(q, z))
    <2>1. y \in DOMAIN tree[q] /\ Content(q, y) \in Contents /\ tree[q][y].file \in DOMAIN disk
      BY NodeContents
    <2>2. Content(q, y)' = Append(Content(q, y), what) \/ Content(q, y)' = Content(q, y)
      BY <1>1, <1>2, <2>1 DEF Content
    <2>3. Alike(Append(Content(q, y), what), Content(q, y)) /\ Alike(Content(q, y), Content(q, y))
      BY <2>1, HasAppended DEF Alike
    <2> QED
      BY <2>1, <2>2, <2>3
  <1>4. \A q \in Packages : \A id \in DOMAIN debug[q] : disk'[debug[q][id].file] = disk[debug[q][id].file]
    BY <1>1, <1>2, NodeContents
  <1> QED
    BY <1>3, <1>4 DEF Gentle

LEMMA DwzIsGentle ==
    ASSUME FilesOK, AllThere, OpenOK, Cur \in Packages, Dwz
    PROVE  Gentle
  <1> DEFINE F == {tree[Cur][x].file : x \in Unstripped(Cur)}
             new == [f \in DOMAIN disk |-> IF f \in F THEN Append(disk[f], "dwz") ELSE disk[f]]
             node == [file |-> Generated(made), inline |-> TRUE]
  <1>1. \A x \in Unstripped(Cur) : x \in DOMAIN tree[Cur] /\ tree[Cur][x].inline
    BY DEF Dwz, OpenOK, Unstripped
  <1>2. "dwz" \in Item \ {"stripped"}
    BY DEF Item
  <1>3. CASE UNCHANGED files
    BY <1>3, NothingWritten DEF files
  <1>4. CASE disk' = new /\ UNCHANGED <<tree, debug>>
    <2>1. \A f \in DOMAIN disk : disk'[f] = IF f \in F THEN Append(disk[f], "dwz") ELSE disk[f]
      BY <1>4
    <2> QED
      BY <1>1, <1>2, <1>4, <2>1, RewriteIsGentle
  <1>5. CASE /\ disk' = Put(new, Generated(made), <<Generated(made)>>)
             /\ debug' = [debug EXCEPT ![Cur] = Put(@, "dwz", node)]
             /\ UNCHANGED tree
    <2>1. Generated(made) \notin DOMAIN disk /\ debug = [q \in Packages |-> debug[q]]
      BY DEF FilesOK, DiskOK, TreesOK
    <2>2. /\ debug'[Cur] = Put(debug[Cur], "dwz", node)
          /\ \A q \in Packages \ {Cur} : debug'[q] = debug[q]
      BY <1>5, <2>1
    <2>3. \A p \in Packages : \A id \in DOMAIN debug'[p] \ {"dwz"} :
              id \in DOMAIN debug[p] /\ debug'[p][id] = debug[p][id]
      <3> HIDE DEF node
      <3> QED
        BY <2>2 DEF Put
    <2>4. \A p \in Packages : DOMAIN debug[p] \subseteq DOMAIN debug'[p]
      <3> HIDE DEF node
      <3> QED
        BY <2>2 DEF Put
    <2>5. \A f \in DOMAIN disk : disk'[f] = new[f]
      <3>1. DOMAIN new = DOMAIN disk
        OBVIOUS
      <3> HIDE DEF new
      <3> QED
        BY <1>5, <2>1, <3>1 DEF Put
    <2>6. \A f \in DOMAIN disk : disk'[f] = IF f \in F THEN Append(disk[f], "dwz") ELSE disk[f]
      BY <2>5
    <2> QED
      BY <1>1, <1>2, <1>5, <2>3, <2>4, <2>6, RewriteIsGentle
  <1>6. \/ UNCHANGED files
        \/ disk' = new /\ UNCHANGED <<tree, debug, made>>
        \/ /\ disk' = Put(new, Generated(made), <<Generated(made)>>)
           /\ debug' = [debug EXCEPT ![Cur] = Put(@, "dwz", node)]
           /\ UNCHANGED tree
    BY Zenon DEF Dwz, Rewrite
  <1> HIDE DEF new, node
  <1> QED
    BY <1>3, <1>4, <1>5, <1>6

LEMMA OthersThanCur ==
    ASSUME at \in 1..Len(Package), NEW i \in 1..Len(Package), i # at
    PROVE  Package[i] # Cur
  BY AssemblyAssumption DEF Cur

\* The debug file is made before the contents are stripped.
LEMMA DebugFileMade ==
    ASSUME FilesOK, AllThere, PlaceOK, DebugInv, NEW x \in DOMAIN tree[Cur], MakeDebugFile(x)
    PROVE  DebugInv'
  <1> DEFINE id == ElfOf(Cur, x).id
             file == DebugFile(id)
             content == Append(Content(Cur, x), "debug")
             node == [file |-> file, inline |-> TRUE]
  <1>1. /\ pc = "debug" /\ x \in Unstripped(Cur) /\ UNCHANGED <<at, deb, tree>>
    BY DEF MakeDebugFile, StripLeavesAlone, files
  <1>2. Cur \in Packages /\ at \in 1..Len(Package) /\ Cur' = Cur
    BY <1>1, CurIsPackage, AssemblyAssumption DEF PlaceOK, Early, Cur
  <1>3. /\ pc \in Early /\ pc \notin Late
        /\ \A p \in Packages : DebugIsGood(p) /\ DebugIsThere(p)
        /\ \A i \in 1..Len(Package) : ToStrip(i) => Untouched(Package[i])
        /\ \A y \in done : y \in DOMAIN tree[Cur] /\ ElfOf(Cur, y).id \in DOMAIN debug[Cur]
    BY <1>1 DEF DebugInv, Early, Late
  <1>4. DebugIsComplete'
    BY <1>1, DebugStays DEF DebugInv
  <1>5. CASE pc' = "file exists"
    BY <1>4, <1>5 DEF DebugInv, Early, Late
  <1>6. CASE id \in DOMAIN debug[Cur] /\ done' = done \cup {x} /\ UNCHANGED files /\ pc' = pc
    <2>1. \A p, y : Content(p, y)' = Content(p, y) /\ ElfOf(p, y)' = ElfOf(p, y)
      BY <1>6 DEF Content, files, ElfOf
    <2>2. \A p : DebugIsGood(p)' = DebugIsGood(p) /\ DebugIsThere(p)' = DebugIsThere(p)
                 /\ Untouched(p)' = Untouched(p)
      BY <1>6, <2>1 DEF DebugIsGood, DebugIsThere, Untouched, files
    <2>3. \A i \in 1..Len(Package) : ToStrip(i)' => Untouched(Package[i])'
      BY <1>1, <1>3, <1>6, <2>2 DEF ToStrip
    <2>4. \A y \in done' : (y \in DOMAIN tree[Cur] /\ ElfOf(Cur, y).id \in DOMAIN debug[Cur])'
      BY <1>1, <1>2, <1>3, <1>6 DEF files, ElfOf, Content
    <2>5. pc' \notin Late /\ pc' = "debug"
      BY <1>1, <1>3, <1>6
    <2> QED
      BY <1>2, <1>3, <1>4, <2>1, <2>2, <2>3, <2>4, <2>5 DEF DebugInv
  <1>7. CASE /\ file \notin DOMAIN disk /\ done' = done \cup {x} /\ pc' = pc
             /\ disk' = Put(disk, file, content)
             /\ debug' = [debug EXCEPT ![Cur] = Put(@, id, node)]
    <2>1. debug = [q \in Packages |-> debug[q]]
      BY DEF FilesOK, TreesOK
    <2>2. debug'[Cur] = Put(debug[Cur], id, node) /\ \A q \in Packages \ {Cur} : debug'[q] = debug[q]
      BY <1>2, <1>7, <2>1
    <2>3. disk'[file] = content /\ \A f \in DOMAIN disk : disk'[f] = disk[f]
      <3> HIDE DEF file, content
      <3> QED
        BY <1>7 DEF Put
    <2>4. \A p \in Packages : \A y \in DOMAIN tree[p] :
              Content(p, y)' = Content(p, y) /\ ElfOf(p, y)' = ElfOf(p, y)
      BY <1>1, <2>3, NodeContents DEF Content, ElfOf
    <2>5. /\ DOMAIN debug'[Cur] = DOMAIN debug[Cur] \cup {id}
          /\ debug'[Cur][id].file = file
          /\ \A j \in DOMAIN debug[Cur] : j # id => debug'[Cur][j] = debug[Cur][j]
      <3>1. node.file = file
        OBVIOUS
      <3> HIDE DEF id, node, file
      <3> QED
        BY <2>2, <3>1 DEF Put
    <2>6. Keeps(content, id)
      <3>1. Untouched(Cur)
        BY <1>1, <1>2, <1>3 DEF ToStrip, Cur
      <3>2. ~ Has(Content(Cur, x), "stripped") /\ Content(Cur, x) \in Contents /\ "debug" \in Item
        BY <1>2, <3>1, NodeContents DEF Untouched, Item
      <3>3. Head(content) = Head(Content(Cur, x)) /\ ~ Has(content, "stripped")
        BY <3>2, HasAppended
      <3>4. Head(Content(Cur, x)) \in DOMAIN Elf
        BY <1>1 DEF Unstripped, ElfPaths
      <3> HIDE DEF content
      <3> QED
        BY <3>3, <3>4 DEF Keeps, ElfOf
    <2> HIDE DEF id, file, content, node
    <2>7. ASSUME NEW p \in Packages  PROVE DebugIsGood(p)'
      <3>1. \A j \in DOMAIN debug[p] \ {"dwz"} : Keeps(disk[debug[p][j].file], j)
        BY <1>3 DEF DebugIsGood
      <3>2. \A j \in DOMAIN debug[p] : debug[p][j].file \in DOMAIN disk
        BY NodeContents
      <3>3. CASE p = Cur
        BY <2>3, <2>5, <2>6, <3>1, <3>2, <3>3 DEF DebugIsGood, Keeps
      <3>4. CASE p # Cur
        BY <2>2, <2>3, <3>1, <3>2, <3>4 DEF DebugIsGood, Keeps
      <3> QED
        BY <3>3, <3>4
    <2>8. \A p \in Packages : DOMAIN debug[p] \subseteq DOMAIN debug'[p]
      BY <2>2, <2>5
    <2>9. ASSUME NEW p \in Packages PROVE DebugIsThere(p)' /\ (Untouched(p) => Untouched(p)')
      BY <1>1, <1>3, <2>4, <2>8 DEF DebugIsThere, Untouched
    <2>10. ASSUME NEW i \in 1..Len(Package), ToStrip(i)' PROVE Untouched(Package[i])'
      <3>1. Untouched(Package[i]) /\ Package[i] \in Packages
        BY <1>1, <1>3, <1>7, <2>10, EachIsPackage DEF ToStrip
      <3>2. PICK p \in Packages : p = Package[i]
        BY <3>1
      <3>3. Untouched(p)'
        BY <2>9, <3>1, <3>2
      <3> QED
        BY <3>2, <3>3 DEF Untouched, Content
    <2>11. \A y \in DOMAIN tree[Cur] : ElfOf(Cur, y)' = ElfOf(Cur, y)
      BY <1>2, <2>4 DEF ElfOf
    <2>12. \A y \in done' : (y \in DOMAIN tree[Cur] /\ ElfOf(Cur, y).id \in DOMAIN debug[Cur])'
      BY <1>1, <1>2, <1>3, <1>7, <2>5, <2>11 DEF id
    <2>13. pc' \notin Late /\ pc' = "debug"
      BY <1>1, <1>3, <1>7
    <2> QED
      BY <1>3, <1>4, <2>7, <2>9, <2>10, <2>12, <2>13 DEF DebugInv
  <1> QED
    BY <1>5, <1>6, <1>7 DEF MakeDebugFile

\* Everything of which the debug information is saved is stripped.
LEMMA Stripped ==
    ASSUME FilesOK, AllThere, PlaceOK, OpenOK, DebugInv, Strip
    PROVE  DebugInv'
  <1> DEFINE new == Marked(open, "stripped")
  <1>1. /\ pc = "debug" /\ pc' = "attach" /\ done = Unstripped(Cur)
        /\ UNCHANGED <<at, deb, tree, debug>> /\ disk' = new
    BY DEF Strip, StripLeavesAlone, Rewrite, Marked
  <1>2. Cur \in Packages /\ at \in 1..Len(Package) /\ Cur' = Cur
    BY <1>1, CurIsPackage, AssemblyAssumption DEF PlaceOK, Early, Cur
  <1>3. /\ pc' \in Early /\ pc' \notin Late
        /\ \A p \in Packages : DebugIsGood(p) /\ DebugIsThere(p)
        /\ \A i \in 1..Len(Package) : ToStrip(i) => Untouched(Package[i])
        /\ \A y \in done : y \in DOMAIN tree[Cur] /\ ElfOf(Cur, y).id \in DOMAIN debug[Cur]
    BY <1>1 DEF DebugInv, Early, Late
  <1>4. DebugIsComplete'
    BY <1>1, DebugStays DEF DebugInv
  <1>5. \A x \in open : x \in DOMAIN tree[Cur] /\ tree[Cur][x].inline
    BY <1>1 DEF OpenOK
  <1>6. /\ \A q \in Packages : \A y \in DOMAIN tree[q] :
              new[tree[q][y].file] = IF q = Cur /\ y \in open THEN Append(Content(q, y), "stripped")
                                     ELSE Content(q, y)
        /\ \A q \in Packages : \A id \in DOMAIN debug[q] :
              new[debug[q][id].file] = disk[debug[q][id].file]
    <2>1. FilesOK /\ AllThere
      OBVIOUS
    <2>2. OnlyMarked(open, "stripped")
      BY ONLY <1>2, <1>5, <2>1, ContentsRewritten
    <2> HIDE DEF new
    <2>3. new = Marked(open, "stripped")
      BY DEF new
    <2> QED
      BY ONLY <2>2, <2>3 DEF OnlyMarked
  <1> HIDE DEF new
  <1>7. \A q \in Packages : \A y \in DOMAIN tree[q] :
            /\ Head(Content(q, y)') = Head(Content(q, y))
            /\ q # Cur => Content(q, y)' = Content(q, y)
    <2> SUFFICES ASSUME NEW q \in Packages, NEW y \in DOMAIN tree[q]
                 PROVE  /\ Head(Content(q, y)') = Head(Content(q, y))
                        /\ q # Cur => Content(q, y)' = Content(q, y)
      OBVIOUS
    <2>1. Content(q, y) \in Contents /\ "stripped" \in Item
      BY NodeContents DEF Item
    <2>2. Head(Append(Content(q, y), "stripped")) = Head(Content(q, y))
      BY <2>1, HasAppended
    <2> QED
      BY <1>1, <1>6, <2>2 DEF Content
  <1>8. \A p \in Packages : DebugIsGood(p)'
    BY <1>1, <1>3, <1>6 DEF DebugIsGood
  <1>9. ASSUME NEW p \in Packages PROVE DebugIsThere(p)'
    <2>1. CASE p = Cur
      <3> SUFFICES ASSUME NEW x \in DOMAIN tree[Cur], WasStripped(Content(Cur, x)')
                   PROVE  ElfOf(Cur, x)'.id \in DOMAIN debug[Cur]
        BY <1>1, <1>2, <2>1 DEF DebugIsThere, ElfOf, Content
      <3>1. x \in Unstripped(Cur) /\ ElfOf(Cur, x)' = ElfOf(Cur, x)
        BY <1>2, <1>7 DEF WasStripped, Unstripped, ElfPaths, ElfOf
      <3> QED
        BY <1>1, <1>3, <3>1
    <2>2. CASE p # Cur
      <3>1. \A x \in DOMAIN tree[p] : Content(p, x)' = Content(p, x) /\ ElfOf(p, x)' = ElfOf(p, x)
        BY <1>7, <2>2 DEF ElfOf
      <3> QED
        BY <1>1, <1>3, <3>1 DEF DebugIsThere
    <2> QED
      BY <2>1, <2>2
  <1>10. ASSUME NEW i \in 1..Len(Package), ToStrip(i)' PROVE Untouched(Package[i])'
    <2>1. i > at
      BY <1>1, <1>10 DEF ToStrip
    <2>2. Untouched(Package[i]) /\ Package[i] \in Packages /\ Package[i] # Cur
      <3>1. ToStrip(i) /\ i # at
        BY <1>1, <1>2, <2>1 DEF ToStrip
      <3> QED
        BY <1>2, <1>3, <3>1, EachIsPackage, OthersThanCur
    <2>3. \A x \in DOMAIN tree[Package[i]] : Content(Package[i], x)' = Content(Package[i], x)
      BY <1>7, <2>2
    <2> QED
      BY <1>1, <2>2, <2>3 DEF Untouched
  <1> QED
    BY <1>1, <1>3, <1>4, <1>8, <1>9, <1>10 DEF DebugInv

\* The program ended.
LEMMA DebugEnds ==
    ASSUME DebugInv, pc' \notin Early, pc' \notin Late, UNCHANGED deb
    PROVE  DebugInv'
  <1>1. pc' \notin {"dbgsym", "pack"}
    BY DEF Late
  <1>2. DebugIsComplete'
    BY DebugStays DEF DebugInv
  <1> QED
    BY <1>1, <1>2 DEF DebugInv

\* Nothing of the files is changed while packages are put together.
LEMMA DebugKeeps ==
    ASSUME DebugInv, pc \in Late, pc' \in Late \ {"pack"}, pc # "pack",
           \A p \in Packages \ NoDbgsym : debug'[p] = debug[p],
           UNCHANGED <<disk, frozen, deb, at>>, pc' = "dbgsym" => "debug" \in DOMAIN packed'
    PROVE  DebugInv'
  <1>1. pc' \notin Early /\ pc' # "pack"
    BY DEF Early, Late
  <1>2. \A p : Coming("debug", p)' => Coming("debug", p)
    BY DEF Coming
  <1>3. ASSUME NEW p \in Packages \ (Udeb \cup NoDbgsym), Coming("debug", p)'
        PROVE  (/\ DebugIsGood(p)
                /\ \A x \in DOMAIN frozen[p] : WasStripped(frozen[p][x]) =>
                      Elf[Head(frozen[p][x])].id \in DOMAIN debug[p])'
    <2>1. /\ DebugIsGood(p)
          /\ \A x \in DOMAIN frozen[p] : WasStripped(frozen[p][x]) =>
                Elf[Head(frozen[p][x])].id \in DOMAIN debug[p]
      BY <1>2, <1>3 DEF DebugInv
    <2>2. debug'[p] = debug[p] /\ disk' = disk /\ frozen' = frozen
      OBVIOUS
    <2>3. DebugIsGood(p)'
      BY <2>1, <2>2 DEF DebugIsGood
    <2> QED
      BY <2>1, <2>2, <2>3
  <1>4. DebugIsComplete'
    BY DebugStays DEF DebugInv
  <1> QED
    BY <1>1, <1>2, <1>3, <1>4 DEF DebugInv

\* Files are moved to a finished package that no other needs.
LEMMA DebugMoved ==
    ASSUME FilesOK, ThereOK', DebugInv, pc \in Late, NEW S, disk' = Without(disk, S),
           UNCHANGED <<tree, debug, frozen>>, \A p : Coming("debug", p)' => Coming("debug", p)
    PROVE  \A p \in Packages \ (Udeb \cup NoDbgsym) : Coming("debug", p)' =>
              (/\ DebugIsGood(p)
               /\ \A x \in DOMAIN frozen[p] : WasStripped(frozen[p][x]) =>
                     Elf[Head(frozen[p][x])].id \in DOMAIN debug[p])'
  <1> SUFFICES ASSUME NEW p \in Packages \ (Udeb \cup NoDbgsym), Coming("debug", p)'
               PROVE  (/\ DebugIsGood(p)
                       /\ \A x \in DOMAIN frozen[p] : WasStripped(frozen[p][x]) =>
                             Elf[Head(frozen[p][x])].id \in DOMAIN debug[p])'
    OBVIOUS
  <1>1. /\ DebugIsGood(p)
        /\ \A x \in DOMAIN frozen[p] : WasStripped(frozen[p][x]) =>
              Elf[Head(frozen[p][x])].id \in DOMAIN debug[p]
    BY DEF DebugInv
  <1>2. \A id \in DOMAIN debug[p] : debug[p][id].file \in DOMAIN disk'
    <2>1. "debug" \in Parts /\ Of("debug", p)' = debug[p]
      BY DEF Of, Parts
    <2> QED
      BY <2>1 DEF ThereOK, IsThere
  <1>3. \A f \in DOMAIN disk' : disk'[f] = disk[f]
    BY DEF Without
  <1>4. DebugIsGood(p)'
    BY <1>1, <1>2, <1>3 DEF DebugIsGood
  <1> QED
    BY <1>1, <1>4

\* The trees become read-only.
LEMMA FreezeDebug ==
    ASSUME AssemblyInv, DebugInv, Freeze
    PROVE  DebugInv'
  <1>1. pc = "shlibs" /\ UNCHANGED <<disk, tree, debug, deb>>
    BY DEF Freeze, files
  <1>2. CASE failures
    <2>1. pc' \notin Early /\ pc' \notin Late
      BY <1>2 DEF Freeze, Early, Late
    <2> QED
      BY <1>1, <2>1, DebugEnds
  <1>3. CASE ~ failures
    <2>1. pc' = "finalize" /\ frozen' = [p \in Packages |-> [x \in DOMAIN tree[p] |-> Content(p, x)]]
      BY <1>3 DEF Freeze
    <2>2. pc' \notin Early /\ pc' \notin {"dbgsym", "pack"}
      BY <2>1 DEF Early
    <2>3. DebugIsComplete'
      BY <1>1, DebugStays DEF DebugInv
    <2>4. ASSUME NEW p \in Packages
          PROVE  (/\ DebugIsGood(p)
                  /\ \A x \in DOMAIN frozen[p] : WasStripped(frozen[p][x]) =>
                        Elf[Head(frozen[p][x])].id \in DOMAIN debug[p])'
      <3>1. DebugIsGood(p) /\ DebugIsThere(p)
        BY <1>1 DEF DebugInv, Early
      <3>2. DebugIsGood(p)'
        BY <1>1, <3>1 DEF DebugIsGood
      <3>3. frozen'[p] = [x \in DOMAIN tree[p] |-> Content(p, x)]
        BY <2>1
      <3>4. DOMAIN frozen'[p] = DOMAIN tree[p] /\ \A x \in DOMAIN tree[p] : frozen'[p][x] = Content(p, x)
        BY <3>3
      <3> QED
        BY <1>1, <3>1, <3>2, <3>4 DEF DebugIsThere, ElfOf
    <2> QED
      BY <2>2, <2>3, <2>4 DEF DebugInv
  <1> QED
    BY <1>2, <1>3

\* The dbgsym package gets its files.
LEMMA PackDbgsymDebug ==
    ASSUME AssemblyInv, AssemblyInv', DebugInv, PackDbgsym
    PROVE  DebugInv'
  <1>1. /\ pc = "dbgsym" /\ pc \in Late /\ UNCHANGED <<tree, debug, frozen, deb, at>> /\ Cur' = Cur
    BY DEF PackDbgsym, PackLeavesAlone, Late, history, Cur
  <1>2. Cur \in Packages /\ Coming("debug", Cur)
    BY <1>1, CurIsComing DEF AssemblyInv
  <1>3. CASE pc' = "missing"
    BY <1>1, <1>3, DebugEnds DEF Early, Late
  <1>4. ASSUME pc' = "pack", NEW S, disk' = Without(disk, S),
               Cur \notin Udeb \cup NoDbgsym => Covers(packed'.debug, frozen[Cur])
        PROVE  DebugInv'
    <2>1. pc' \notin Early /\ pc' # "dbgsym" /\ DebugIsComplete'
      BY <1>1, <1>4, DebugStays DEF DebugInv, Early
    <2>2. \A p : Coming("debug", p)' => Coming("debug", p)
      BY <1>1, <1>4 DEF Coming
    <2>3. \A p \in Packages \ (Udeb \cup NoDbgsym) : Coming("debug", p)' =>
              (/\ DebugIsGood(p)
               /\ \A x \in DOMAIN frozen[p] : WasStripped(frozen[p][x]) =>
                     Elf[Head(frozen[p][x])].id \in DOMAIN debug[p])'
      BY <1>1, <1>4, <2>2, DebugMoved DEF AssemblyInv
    <2> QED
      BY <1>1, <1>4, <2>1, <2>3 DEF DebugInv
  <1>5. CASE Cur \notin Udeb \cup NoDbgsym
    <2>1. /\ DebugIsGood(Cur)
          /\ \A x \in DOMAIN frozen[Cur] : WasStripped(frozen[Cur][x]) =>
                Elf[Head(frozen[Cur][x])].id \in DOMAIN debug[Cur]
          /\ "debug" \in DOMAIN packed
      BY <1>1, <1>2, <1>5 DEF DebugInv
    <2>2. CASE DOMAIN debug[Cur] = {} /\ pc' = "pack" /\ UNCHANGED <<disk, packed>>
      <3>1. Covers(packed'.debug, frozen[Cur])
        BY <2>1, <2>2 DEF Covers
      <3>2. disk' = Without(disk, {})
        BY <2>2 DEF AssemblyInv, FilesOK, DiskOK, Without
      <3> QED
        BY <1>4, <2>2, <3>1, <3>2
    <2>3. CASE /\ pc' = "pack" /\ disk' = Without(disk, Stolen(debug[Cur]))
               /\ packed' = [packed EXCEPT !.debug =
                                [id \in DOMAIN debug[Cur] |-> disk[debug[Cur][id].file]]]
      <3>1. packed'.debug = [id \in DOMAIN debug[Cur] |-> disk[debug[Cur][id].file]]
        BY <2>1, <2>3
      <3>2. ASSUME NEW x \in DOMAIN frozen[Cur], WasStripped(frozen[Cur][x])
            PROVE  LET id == Elf[Head(frozen[Cur][x])].id
                   IN  id \in DOMAIN packed'.debug /\ Keeps(packed'.debug[id], id)
        <4> DEFINE id == Elf[Head(frozen[Cur][x])].id
        <4>1. id \in DOMAIN debug[Cur] \ {"dwz"}
          BY <2>1, <3>2, DetectorAssumption DEF WasStripped
        <4>2. Keeps(disk[debug[Cur][id].file], id)
          BY <2>1, <4>1 DEF DebugIsGood
        <4> HIDE DEF id
        <4>3. id \in DOMAIN packed'.debug /\ Keeps(packed'.debug[id], id)
          BY <3>1, <4>1, <4>2
        <4> QED
          BY <4>3 DEF id
      <3>3. Covers(packed'.debug, frozen[Cur])
        BY <3>2 DEF Covers
      <3> QED
        BY <1>4, <2>3, <3>3
    <2> QED
      BY <1>3, <1>5, <2>2, <2>3 DEF PackDbgsym
  <1>6. CASE Cur \in Udeb \cup NoDbgsym
    <2>1. disk = Without(disk, {})
      BY DEF AssemblyInv, FilesOK, DiskOK, Without
    <2>2. pc' = "missing" \/ (pc' = "pack" /\ \E S : disk' = Without(disk, S))
      BY <2>1 DEF PackDbgsym
    <2> QED
      BY <1>3, <1>4, <1>6, <2>2
  <1> QED
    BY <1>5, <1>6

\* A package is finished.
LEMMA PackDebug ==
    ASSUME AssemblyInv, AssemblyInv', DebugInv, Pack
    PROVE  DebugInv'
  <1>1. pc = "pack" /\ pc \in Late /\ UNCHANGED <<tree, debug, frozen, packed>>
    BY DEF Pack, PackLeavesAlone, Late, history
  <1>2. CASE ~ Exists(manifest)
    <2>1. UNCHANGED deb /\ pc' \notin Early /\ pc' \notin Late
      BY <1>2 DEF Pack, Early, Late
    <2> QED
      BY <2>1, DebugEnds
  <1>3. CASE Exists(manifest)
    <2> DEFINE built == [control |-> packed, files |-> [x \in DOMAIN manifest |-> disk[manifest[x].file]]]
    <2>1. /\ deb' = Put(deb, Cur, built)
          /\ disk' = Without(disk, Stolen(manifest))
          /\ at' = at + 1 /\ pc' \in {"done", "finalize"}
      BY <1>3 DEF Pack
    <2>2. built.control = packed
      OBVIOUS
    <2> HIDE DEF built
    <2>3. deb'[Cur].control = packed /\ DOMAIN deb' = DOMAIN deb \cup {Cur}
          /\ \A p \in DOMAIN deb : p # Cur => deb'[p] = deb[p]
      BY <2>1, <2>2 DEF Put
    <2>4. deb'[Cur].files = frozen[Cur]
      <3>1. Cur \in DOMAIN deb' /\ ShippedIsWhatWasFrozen'
        BY <2>3 DEF AssemblyInv
      <3>2. PICK c : c = Cur
        OBVIOUS
      <3>3. deb'[c].files = frozen'[c]
        BY <3>1, <3>2 DEF ShippedIsWhatWasFrozen
      <3> QED
        BY <1>1, <3>2, <3>3
    <2>5. DebugIsComplete'
      <3>1. ASSUME NEW p \in DOMAIN deb' \ (Udeb \cup NoDbgsym)
            PROVE  Covers(deb'[p].control.debug, deb'[p].files)
        <4>1. CASE p = Cur
          <5>1. Covers(packed.debug, frozen[Cur])
            BY <1>1, <4>1 DEF DebugInv
          <5>2. deb'[p].control.debug = packed.debug /\ deb'[p].files = frozen[Cur]
            BY <2>3, <2>4, <4>1
          <5> QED
            BY <5>1, <5>2
        <4>2. CASE p # Cur
          <5>1. DebugCovered
            BY CompleteMeansCovered DEF DebugInv
          <5>2. p \in DOMAIN deb /\ deb'[p] = deb[p]
            BY <2>3, <4>2
          <5> QED
            BY <5>1, <5>2 DEF DebugCovered
        <4> QED
          BY <4>1, <4>2
      <3>2. DebugCovered'
        BY <3>1 DEF DebugCovered
      <3>3. (DebugIsComplete <=> DebugCovered)'
        BY CompleteMeansCovered, PTL
      <3> QED
        BY <3>2, <3>3
    <2>6. \A p : Coming("debug", p)' => Coming("debug", p)
      <3>1. at \in Nat
        BY DEF AssemblyInv, PlaceOK
      <3>2. \A i \in DOMAIN Package : (i > at' \/ i = at') => i > at
        BY <2>1, <3>1, AssemblyAssumption
      <3> QED
        BY <1>1, <3>2 DEF Coming
    <2>7. \A p \in Packages \ (Udeb \cup NoDbgsym) : Coming("debug", p)' =>
              (/\ DebugIsGood(p)
               /\ \A x \in DOMAIN frozen[p] : WasStripped(frozen[p][x]) =>
                     Elf[Head(frozen[p][x])].id \in DOMAIN debug[p])'
      BY <1>1, <2>1, <2>6, DebugMoved DEF AssemblyInv
    <2>8. pc' \notin Early /\ pc' \notin {"dbgsym", "pack"}
      BY <2>1 DEF Early
    <2> QED
      BY <2>5, <2>7, <2>8 DEF DebugInv
  <1> QED
    BY <1>2, <1>3

LEMMA DebugStep == AssemblyInv /\ AssemblyInv' /\ DebugInv /\ [Next]_vars => DebugInv'
  <1> SUFFICES ASSUME AssemblyInv, AssemblyInv', DebugInv, [Next]_vars PROVE DebugInv'
    OBVIOUS
  <1>1. FilesOK /\ PlaceOK /\ OpenOK /\ (pc \in Early => AllThere)
    BY DEF AssemblyInv
  <1>2. pc \in Early /\ pc # "shlibs" => Cur \in Packages /\ at \in 1..Len(Package)
    BY <1>1, CurIsPackage, AssemblyAssumption DEF PlaceOK, Early
  <1>3. ASSUME pc \in Early, Gentle, UNCHANGED <<at, deb, done>>, pc' = pc, pc # "debug"
        PROVE  DebugInv'
    <2>1. \A i \in 1..Len(Package) : ToStrip(i)' => ToStrip(i)
      BY <1>3 DEF ToStrip
    <2>2. pc' \in {"before", "replace", "after"} => done' = {}
      BY <1>3 DEF DebugInv
    <2> QED
      BY <1>3, <2>1, <2>2, GentleEarly
  <1>4. ASSUME NEW p \in Packages, NEW x \in DOMAIN tree[p], Edit(p, x)  PROVE DebugInv'
    <2>1. pc \in {"before", "after", "detect"} /\ p \in writable /\ UNCHANGED <<pc, at, done, deb>>
      BY <1>4 DEF Edit, place
    <2>2. pc \in Early /\ pc # "debug"
      BY <1>1, <2>1 DEF PlaceOK, Late, Early
    <2>3. Gentle
      BY <1>1, <1>4, <2>2, EditIsGentle
    <2> QED
      BY <1>3, <2>1, <2>2, <2>3
  <1>5. ASSUME NEW x \in DOMAIN tree[Cur], Compress(x)  PROVE DebugInv'
    <2>1. pc = "after" /\ pc \in Early /\ UNCHANGED <<pc, at, done, deb>>
      BY <1>5 DEF Compress, place, Early
    <2>2. Gentle
      BY <1>1, <1>2, <1>5, <2>1, CompressIsGentle
    <2> QED
      BY <1>3, <2>1, <2>2
  <1>6. ASSUME NEW x \in DOMAIN tree[Cur], ReplaceElf(x)  PROVE DebugInv'
    <2>1. pc = "replace" /\ pc \in Early /\ UNCHANGED <<pc, at, done, deb>>
      BY <1>6 DEF ReplaceElf, StripLeavesAlone, Early
    <2>2. Gentle
      BY <1>1, <1>2, <1>6, <2>1, ReplaceElfIsGentle
    <2> QED
      BY <1>3, <2>1, <2>2
  <1>7. ASSUME NEW x \in DOMAIN tree[Cur], MakeDebugFile(x)  PROVE DebugInv'
    <2>1. pc \in Early
      BY <1>7 DEF MakeDebugFile, Early
    <2> QED
      BY <1>1, <1>7, <2>1, DebugFileMade
  <1>8. ASSUME NEW x \in DOMAIN tree[Cur], AttachDebug(x)  PROVE DebugInv'
    <2>1. /\ pc = "attach" /\ pc' = "attach" /\ pc \in Early /\ x \in Unstripped(Cur)
          /\ Rewrite({x}, "linked") /\ UNCHANGED <<tree, debug, at, deb>>
      BY <1>8 DEF AttachDebug, StripLeavesAlone, Early
    <2>2. Gentle
      <3>1. \A y \in {x} : y \in DOMAIN tree[Cur] /\ tree[Cur][y].inline
        BY <1>1, <2>1 DEF OpenOK, Unstripped
      <3>2. \A f \in DOMAIN disk : disk'[f] = IF f \in {tree[Cur][y].file : y \in {x}}
                                              THEN Append(disk[f], "linked") ELSE disk[f]
        BY <2>1 DEF Rewrite
      <3>3. "linked" \in Item \ {"stripped"}
        BY DEF Item
      <3> QED
        BY <1>1, <1>2, <2>1, <3>1, <3>2, <3>3, RewriteIsGentle
    <2>3. \A i \in 1..Len(Package) : ToStrip(i)' => ToStrip(i)
      BY <2>1 DEF ToStrip
    <2> QED
      BY <2>1, <2>2, <2>3, GentleEarly
  <1>9. CASE StartStrip
    <2>1. /\ pc = "before" /\ pc' \in {"after", "replace"} /\ pc \in Early /\ pc' \in Early
          /\ UNCHANGED <<disk, tree, debug, at, done, deb>>
      BY <1>9 DEF StartStrip, StripLeavesAlone, files, Early
    <2>2. \A i \in 1..Len(Package) : ToStrip(i)' => ToStrip(i)
      BY <2>1 DEF ToStrip
    <2>3. done' = {}
      BY <2>1 DEF DebugInv
    <2> QED
      BY <2>1, <2>2, <2>3, NothingWritten, GentleEarly
  <1>10. CASE Dwz
    <2>1. /\ pc = "replace" /\ pc' = "debug" /\ pc \in Early /\ pc' \in Early
          /\ UNCHANGED <<at, done, deb>>
      BY <1>10 DEF Dwz, StripLeavesAlone, Early
    <2>2. Gentle
      BY <1>1, <1>2, <1>10, <2>1, DwzIsGentle
    <2>3. \A i \in 1..Len(Package) : ToStrip(i)' => ToStrip(i)
      BY <2>1 DEF ToStrip
    <2>4. done' = {}
      BY <2>1 DEF DebugInv
    <2> QED
      BY <2>1, <2>2, <2>3, <2>4, GentleEarly
  <1>11. CASE Strip
    <2>1. pc \in Early
      BY <1>11 DEF Strip, Early
    <2> QED
      BY <1>1, <1>11, <2>1, Stripped
  <1>12. CASE FinishStrip
    <2>1. /\ pc = "attach" /\ pc' = "after" /\ pc \in Early /\ pc' \in Early /\ done' = {}
          /\ UNCHANGED <<disk, tree, debug, at, deb>>
      BY <1>12 DEF FinishStrip, StripLeavesAlone, files, Early
    <2>2. \A i \in 1..Len(Package) : ToStrip(i)' => ToStrip(i)
      BY <2>1 DEF ToStrip
    <2> QED
      BY <2>1, <2>2, NothingWritten, GentleEarly
  <1>13. CASE NextPackage
    <2>1. /\ pc = "after" /\ pc \in Early /\ UNCHANGED <<disk, tree, debug, done, deb>>
          /\ (pc' = "shlibs" /\ at' = 1) \/ (pc' = "before" /\ at' = at + 1)
      BY <1>13 DEF NextPackage, files, Early
    <2>2. done' = {} /\ pc' \in Early /\ pc' # "debug"
      BY <2>1 DEF DebugInv, Early
    <2>3. \A i \in 1..Len(Package) : ToStrip(i)' => ToStrip(i)
      <3>1. at \in Nat
        BY <1>1 DEF PlaceOK
      <3>2. ASSUME NEW i \in 1..Len(Package), i > at + 1 \/ i = at + 1 PROVE i > at
        BY <3>1, <3>2
      <3>3. CASE pc' = "shlibs"
        BY <3>3 DEF ToStrip
      <3>4. CASE pc' = "before" /\ at' = at + 1
        <4> SUFFICES ASSUME NEW i \in 1..Len(Package), ToStrip(i)' PROVE ToStrip(i)
          OBVIOUS
        <4>1. i > at' \/ i = at'
          BY DEF ToStrip
        <4>2. i > at
          BY <3>2, <3>4, <4>1
        <4> QED
          BY <2>1, <4>2 DEF ToStrip
      <3> QED
        BY <2>1, <3>3, <3>4
    <2> QED
      BY <2>1, <2>2, <2>3, NothingWritten, GentleEarly
  <1>14. CASE ComputeShlibs
    <2>1. /\ pc = "shlibs" /\ pc \in Early /\ pc' \in {"shlibs", "not for udebs"}
          /\ UNCHANGED <<disk, tree, debug, done, deb>>
      BY <1>14 DEF ComputeShlibs, files, Early
    <2>2. CASE pc' = "shlibs"
      <3>1. \A i \in 1..Len(Package) : ToStrip(i)' => ToStrip(i)
        BY <2>2 DEF ToStrip
      <3>2. pc' \in Early /\ pc' \notin {"before", "replace", "after", "debug"}
        BY <2>2 DEF Early
      <3> QED
        BY <2>1, <3>1, <3>2, NothingWritten, GentleEarly
    <2>3. CASE pc' = "not for udebs"
      <3>1. pc' \notin Early /\ pc' \notin Late
        BY <2>3 DEF Early, Late
      <3> QED
        BY <2>1, <3>1, DebugEnds
    <2> QED
      BY <2>1, <2>2, <2>3
  <1>15. CASE Freeze
    BY <1>15, FreezeDebug
  <1>16. CASE Finalize
    <2>1. /\ pc = "finalize" /\ pc' = "detect" /\ UNCHANGED <<disk, frozen, deb, at>>
          /\ debug' = IF Cur \in NoDbgsym THEN [debug EXCEPT ![Cur] = <<>>] ELSE debug
      BY <1>16 DEF Finalize, history
    <2>2. \A p \in Packages \ NoDbgsym : debug'[p] = debug[p]
      <3>1. debug = [q \in Packages |-> debug[q]]
        BY <1>1 DEF FilesOK, TreesOK
      <3> QED
        BY <2>1, <3>1
    <2>3. pc \in Late /\ pc' \in Late \ {"pack"} /\ pc # "pack" /\ pc' # "dbgsym"
      BY <2>1 DEF Late
    <2> QED
      BY <2>1, <2>2, <2>3, DebugKeeps
  <1>17. CASE Detect
    <2>1. pc = "detect" /\ pc' = pc /\ UNCHANGED <<disk, debug, frozen, deb, at>>
      BY <1>17 DEF Detect, files, DpkgShlibdeps
    <2>2. pc \in Late /\ pc' \in Late \ {"pack"} /\ pc # "pack" /\ pc' # "dbgsym"
      BY <2>1 DEF Late
    <2> QED
      BY <2>1, <2>2, DebugKeeps
  <1>18. CASE WriteControl
    <2>1. pc = "detect" /\ UNCHANGED <<disk, debug, frozen, deb, at>>
      BY <1>18 DEF WriteControl, files, history
    <2>2. CASE Exists(tree[Cur])
      <3>1. pc' = "dbgsym" /\ "debug" \in DOMAIN packed'
        BY <1>18, <2>2 DEF WriteControl
      <3>2. pc \in Late /\ pc' \in Late \ {"pack"} /\ pc # "pack"
        BY <2>1, <3>1 DEF Late
      <3> QED
        BY <2>1, <3>1, <3>2, DebugKeeps
    <2>3. CASE ~ Exists(tree[Cur])
      <3>1. pc' \notin Early /\ pc' \notin Late
        BY <1>18, <2>3 DEF WriteControl, Early, Late
      <3> QED
        BY <2>1, <3>1, DebugEnds
    <2> QED
      BY <2>2, <2>3
  <1>19. CASE PackDbgsym
    BY <1>19, PackDbgsymDebug
  <1>20. CASE Pack
    BY <1>20, PackDebug
  <1>21. CASE ToolFails
    <2>1. UNCHANGED deb /\ pc' \notin Early /\ pc' \notin Late
      BY <1>21 DEF ToolFails, Early, Late
    <2> QED
      BY <2>1, DebugEnds
  <1>22. CASE UNCHANGED vars
    <2>1. UNCHANGED <<disk, tree, debug, pc, at, done, frozen, packed, deb>>
      BY <1>22 DEF vars, files, place, history, control
    <2>2. \A p, x : Content(p, x)' = Content(p, x)
      BY <2>1 DEF Content
    <2>3. Cur' = Cur
      BY <2>1 DEF Cur
    <2>4. \A p : /\ DebugIsGood(p)' = DebugIsGood(p) /\ DebugIsThere(p)' = DebugIsThere(p)
                 /\ Untouched(p)' = Untouched(p) /\ Coming("debug", p)' = Coming("debug", p)
      BY <2>1, <2>2 DEF DebugIsGood, DebugIsThere, Untouched, Coming, ElfOf
    <2>5. DebugIsComplete'
      BY <2>1, DebugStays DEF DebugInv
    <2>6. pc \in Early =>
             /\ \A p \in Packages : (DebugIsGood(p) /\ DebugIsThere(p))'
             /\ \A i \in 1..Len(Package) : ToStrip(i)' => Untouched(Package[i])'
             /\ pc \in {"before", "replace", "after"} => done' = {}
             /\ pc = "debug" => \A x \in done' :
                   (x \in DOMAIN tree[Cur] /\ ElfOf(Cur, x).id \in DOMAIN debug[Cur])'
      BY <2>1, <2>2, <2>3, <2>4 DEF DebugInv, ToStrip, ElfOf, Content
    <2>7. pc \in Late =>
            \A p \in Packages \ (Udeb \cup NoDbgsym) : Coming("debug", p)' =>
              (/\ DebugIsGood(p)
               /\ \A x \in DOMAIN frozen[p] : WasStripped(frozen[p][x]) =>
                     Elf[Head(frozen[p][x])].id \in DOMAIN debug[p])'
      BY <2>1, <2>4 DEF DebugInv
    <2>8. /\ pc = "dbgsym" => "debug" \in DOMAIN packed'
          /\ pc = "pack" /\ Cur \notin Udeb \cup NoDbgsym => Covers(packed'.debug, frozen'[Cur'])
      BY <2>1, <2>3 DEF DebugInv
    <2> QED
      BY <2>1, <2>3, <2>5, <2>6, <2>7, <2>8 DEF DebugInv
  <1> QED
    BY <1>4, <1>5, <1>6, <1>7, <1>8, <1>9, <1>10, <1>11, <1>12, <1>13, <1>14, <1>15, <1>16,
       <1>17, <1>18, <1>19, <1>20, <1>21, <1>22 DEF Next

\* Whatever is stripped in a .deb has its debug information in the dbgsym package,
\* taken from a file that had it.
THEOREM DebugIsSaved == Spec => []DebugIsComplete
  <1>1. Init => DebugInv
    <2> SUFFICES ASSUME Init PROVE DebugInv
      OBVIOUS
    <2>1. /\ pc = "before" /\ done = {} /\ deb = <<>> /\ debug = [p \in Packages |-> <<>>]
          /\ disk = [s \in SourceFile |-> <<s>>]
      BY DEF Init
    <2>2. DebugIsComplete
      BY <2>1, CompleteMeansCovered DEF DebugCovered
    <2>3. ASSUME NEW p \in Packages  PROVE DebugIsGood(p) /\ DebugIsThere(p) /\ Untouched(p)
      <3>1. Untouched(p)
        <4> SUFFICES ASSUME NEW x \in DOMAIN tree[p] PROVE ~ Has(Content(p, x), "stripped")
          BY DEF Untouched
        <4>1. PICK installation \in Installation :
                tree = [q \in Packages |-> [y \in DOMAIN installation[q] |-> Installed(installation[q][y])]]
          BY DEF Init
        <4>2. tree[p] = [y \in DOMAIN installation[p] |-> Installed(installation[p][y])]
          BY <4>1
        <4>3. tree[p][x].file = installation[p][x] /\ x \in DOMAIN installation[p]
          BY <4>2 DEF Installed
        <4>4. tree[p][x].file \in SourceFile
          BY <4>3, AssemblyAssumption
        <4>5. Content(p, x) = <<tree[p][x].file>>
          BY <2>1, <4>4 DEF Content
        <4>6. \A c : ~ Has(<<c>>, "stripped")
          BY DEF Has
        <4> QED
          BY <4>5, <4>6
      <3> QED
        BY <2>1, <3>1 DEF DebugIsGood, DebugIsThere, Untouched, WasStripped
    <2>4. \A i \in 1..Len(Package) : Untouched(Package[i])
      BY <2>3, EachIsPackage
    <2> QED
      BY <2>1, <2>2, <2>3, <2>4 DEF DebugInv, Late
  <1>2. DebugInv => DebugIsComplete
    BY DEF DebugInv
  <1> QED
    BY <1>1, <1>2, DebugStep, AlwaysAssemblyInv, PTL DEF Spec
=============================================================================
