------------------------ MODULE SearchDirOrderProofs ------------------------
(***************************************************************************)
(* Theorems about SearchDirOrder for any packages, lists and order of       *)
(* iteration: type correctness, the refinement of TopologicalOrder, and     *)
(* that the error is raised exactly for lists that contradict each other.   *)
(***************************************************************************)
EXTENDS SearchDirOrder, SequenceTheorems, FiniteSetTheorems, WellFoundedInduction, TLAPS

Keys == ToSet(table)

\* The positions of p's list that are already in the table.
Listed(p) ==
    IF p \in toList THEN {}
    ELSE IF p = pkg THEN {i \in DOMAIN Paths(p) : i < idx}
    ELSE DOMAIN Paths(p)

ListedDirs(p) == {Paths(p)[i] : i \in Listed(p)}
ListedPrevious(p, d) == {Paths(p)[i - 1] : i \in {j \in Listed(p) : j > 1 /\ Paths(p)[j] = d}}

\* The table holds what the lists entered so far say.
TableInv ==
    /\ pc = "list" => pkg \notin toList /\ idx <= Len(Paths(pkg)) + 1
    /\ pc # "list" => pkg = NoPackage
    /\ Keys = UNION {ListedDirs(p) : p \in Package}
    /\ \A d \in Keys : after[d] = UNION {ListedPrevious(p, d) : p \in Package}

\* Nothing is released before the table is complete; afterwards each directory
\* is released or remaining.
ReleaseInv ==
    /\ pc \notin {"packages", "list"} => toList = {}
    /\ pc \in {"packages", "list"} => order = <<>> /\ released = {} /\ remaining = {} /\ scan = 1
    /\ pc # "done" => released = ToSet(order)
    /\ pc = "first" => /\ released \cup remaining = {table[k] : k \in 1 .. scan - 1}
                       /\ scan <= Len(table) + 1
    /\ pc \in {"next", "pass", "circular"} => released \cup remaining = Keys
    /\ pc \in {"first", "next"} => released \cap remaining = {}
    /\ pc = "pass" => pass \cap released = {}

\* Without progress, what a pass has visited cannot be released.
Stuck == \A d \in remaining \ pass : ~ MayRelease(d)

PassInv ==
    /\ pc = "pass" => remaining # {} /\ mark <= Cardinality(released)
    /\ pc = "pass" /\ mark = Cardinality(released) => released \cap remaining = {} /\ Stuck
    /\ pc = "circular" => remaining # {} /\ pass = {} /\ released \cap remaining = {} /\ Stuck

OrderInv == TypeOK /\ TableInv /\ ReleaseInv /\ PassInv

-----------------------------------------------------------------------------
(* Type correctness.                                                        *)

\* What Append does to the elements of a sequence.
LEMMA AppendedSet ==
    ASSUME NEW S, NEW s \in Seq(S), NEW e \in S
    PROVE  /\ Append(s, e) \in Seq(S)
           /\ ToSet(Append(s, e)) = ToSet(s) \cup {e}
  <1>1. Append(s, e) \in Seq(S)
    OBVIOUS
  <1>2. ToSet(Append(s, e)) \subseteq ToSet(s) \cup {e}
    BY DEF ToSet
  <1>3. ToSet(s) \subseteq ToSet(Append(s, e))
    <2> SUFFICES ASSUME NEW i \in DOMAIN s PROVE s[i] \in ToSet(Append(s, e))
      BY DEF ToSet
    <2>1. i \in DOMAIN Append(s, e) /\ Append(s, e)[i] = s[i]
      OBVIOUS
    <2> QED
      BY <2>1 DEF ToSet
  <1>4. e \in ToSet(Append(s, e))
    <2>1. Len(s) + 1 \in DOMAIN Append(s, e) /\ Append(s, e)[Len(s) + 1] = e
      OBVIOUS
    <2> QED
      BY <2>1 DEF ToSet
  <1> QED
    BY <1>1, <1>2, <1>3, <1>4

LEMMA PathsType ==
    ASSUME requested \in RequestSpace, NEW p \in Package
    PROVE  Paths(p) \in Seq(Dir)
  BY DirAssumption DEF Paths

LEMMA InitOrderInv == Init => OrderInv
  <1> SUFFICES ASSUME Init PROVE OrderInv
    OBVIOUS
  <1> USE DEF Init
  <1>1. ToSet(table) = {} /\ ToSet(order) = {}
    BY DEF ToSet
  <1>2. TypeOK
    BY <1>1 DEF TypeOK, Phases
  <1>3. TableInv
    <2>1. \A p \in Package : Listed(p) = {}
      BY DEF Listed
    <2> QED
      BY <1>1, <2>1 DEF TableInv, Keys, ListedDirs
  <1>4. ReleaseInv /\ PassInv
    BY <1>1 DEF ReleaseInv, PassInv
  <1> QED
    BY <1>2, <1>3, <1>4 DEF OrderInv

\* The first entry of a directory and the later ones.
LEMMA EnteredTypes ==
    ASSUME TypeOK, TableInv, ListPath
    PROVE  LET d == Paths(pkg)[idx]
           IN  /\ d \in Dir
               /\ table' \in Seq(Dir) /\ ToSet(table') = Keys \cup {d}
               /\ \A i, j \in DOMAIN table' : table'[i] = table'[j] => i = j
               /\ Previous(pkg, idx) \subseteq Keys
  <1> DEFINE d == Paths(pkg)[idx]
  <1>1. pkg \in Package /\ idx \in 1 .. Len(Paths(pkg)) /\ Paths(pkg) \in Seq(Dir)
    BY PathsType DEF TypeOK, ListPath
  <1>2. d \in Dir
    BY <1>1
  <1>3. DOMAIN appliesTo = Keys
    BY DEF TypeOK, Keys
  <1>4. Previous(pkg, idx) \subseteq Keys
    <2>1. CASE idx = 1
      BY <2>1 DEF Previous
    <2>2. CASE idx # 1
      <3>1. idx - 1 \in Listed(pkg)
        BY <1>1, <2>2 DEF Listed, TableInv, ListPath
      <3>2. Paths(pkg)[idx - 1] \in ListedDirs(pkg)
        BY <3>1 DEF ListedDirs
      <3> QED
        BY <3>2, <2>2, <1>1 DEF Previous, TableInv
    <2> QED
      BY <2>1, <2>2
  <1>5. CASE d \in Keys
    <2>1. table' = table
      BY <1>3, <1>5 DEF ListPath
    <2> QED
      BY <2>1, <1>2, <1>4, <1>5 DEF TypeOK, Keys
  <1>6. CASE d \notin Keys
    <2>1. table' = Append(table, d)
      BY <1>3, <1>6 DEF ListPath
    <2>2. table' \in Seq(Dir) /\ ToSet(table') = Keys \cup {d}
      BY <2>1, <1>2, AppendedSet DEF TypeOK, Keys
    <2>3. \A i \in DOMAIN table : table[i] # d
      BY <1>6 DEF Keys, ToSet
    <2>4. ASSUME NEW i \in DOMAIN table', NEW j \in DOMAIN table', table'[i] = table'[j]
          PROVE  i = j
      <3>1. table \in Seq(Dir) /\ \A k, l \in DOMAIN table : table[k] = table[l] => k = l
        BY DEF TypeOK
      <3>2. DOMAIN table' = DOMAIN table \cup {Len(table) + 1}
        BY <2>1, <3>1
      <3>3. \A k \in DOMAIN table : table'[k] = table[k]
        BY <2>1, <3>1
      <3>4. table'[Len(table) + 1] = d
        BY <2>1, <3>1
      <3> QED
        BY <2>3, <2>4, <3>1, <3>2, <3>3, <3>4
    <2> QED
      BY <2>2, <2>4, <1>2, <1>4
  <1> QED
    BY <1>5, <1>6

\* Visiting a directory releases it or makes it wait.
LEMMA VisitedTypes ==
    ASSUME TypeOK, NEW d \in Keys, Visit(d)
    PROVE  /\ order' \in Seq(Dir)
           /\ released' \subseteq Keys /\ remaining' \subseteq Keys
           /\ remaining \subseteq remaining'
  <1>1. d \in Dir
    BY DEF TypeOK, Keys, ToSet
  <1>2. order \in Seq(Dir) /\ released \subseteq Keys /\ remaining \subseteq Keys
    BY DEF TypeOK, Keys
  <1>3. CASE MayRelease(d)
    BY <1>1, <1>2, <1>3, AppendedSet DEF Visit
  <1>4. CASE ~ MayRelease(d)
    BY <1>2, <1>4 DEF Visit
  <1> QED
    BY <1>3, <1>4

LEMMA TypeStep == TypeOK /\ TableInv /\ ReleaseInv /\ [Next]_vars => TypeOK'
  <1> SUFFICES ASSUME TypeOK, TableInv, ReleaseInv, [Next]_vars PROVE TypeOK'
    OBVIOUS
  <1> USE DEF vars, tableVars, passVars
  <1>1. ASSUME NEW p \in Package, NextPackage(p) PROVE TypeOK'
    BY <1>1 DEF NextPackage, TypeOK, Phases
  <1>2. CASE ListPath
    <2> DEFINE d == Paths(pkg)[idx]
    <2>1. /\ table' \in Seq(Dir) /\ ToSet(table') = Keys \cup {d}
          /\ \A i, j \in DOMAIN table' : table'[i] = table'[j] => i = j
          /\ Previous(pkg, idx) \subseteq Keys
      BY <1>2, EnteredTypes
    <2>2. appliesTo \in [Keys -> SUBSET Package] /\ after \in [Keys -> SUBSET Keys]
      BY DEF TypeOK, Keys
    <2>3. pkg \in Package
      BY <1>2 DEF TypeOK, ListPath
    <2>4. Entry(appliesTo, d) \subseteq Package /\ Entry(after, d) \subseteq Keys
      BY <2>2 DEF Entry
    <2>5. appliesTo' \in [Keys \cup {d} -> SUBSET Package]
      BY <1>2, <2>2, <2>3, <2>4 DEF ListPath, WithEntry
    <2>6. after' \in [Keys \cup {d} -> SUBSET (Keys \cup {d})]
      BY <1>2, <2>1, <2>2, <2>4 DEF ListPath, WithEntry
    <2>7. released' \subseteq Keys \cup {d} /\ remaining' \subseteq Keys \cup {d}
      BY <1>2 DEF ListPath, TypeOK, Keys
    <2>8. /\ appliesTo' \in [ToSet(table') -> SUBSET Package]
          /\ after' \in [ToSet(table') -> SUBSET ToSet(table')]
          /\ released' \subseteq ToSet(table') /\ remaining' \subseteq ToSet(table')
      BY <2>1, <2>5, <2>6, <2>7
    <2>9. idx' \in Nat \ {0}
      BY <1>2 DEF ListPath, TypeOK
    <2> HIDE DEF d
    <2> QED
      BY <1>2, <2>1, <2>8, <2>9 DEF ListPath, TypeOK, Phases
  <1>3. CASE ListDone
    BY <1>3 DEF ListDone, TypeOK, Phases
  <1>4. CASE TableDone
    BY <1>4 DEF TableDone, TypeOK, Phases
  <1>5. CASE FirstPass
    <2>1. table[scan] \in Keys
      BY <1>5 DEF FirstPass, TypeOK, Keys, ToSet
    <2>2. /\ order' \in Seq(Dir)
          /\ released' \subseteq Keys /\ remaining' \subseteq Keys
          /\ remaining \subseteq remaining'
      BY <1>5, <2>1, VisitedTypes DEF FirstPass
    <2> QED
      BY <1>5, <2>2 DEF FirstPass, TypeOK, Phases, Keys
  <1>6. CASE FirstPassDone
    BY <1>6 DEF FirstPassDone, TypeOK, Phases
  <1>7. CASE StartPass
    <2>1. IsFiniteSet(released)
      BY DirAssumption, FS_Subset DEF TypeOK, ToSet
    <2>2. Cardinality(released) \in Nat
      BY <2>1, FS_CardinalityType
    <2> QED
      BY <1>7, <2>2 DEF StartPass, TypeOK, Phases
  <1>8. ASSUME NEW d \in Dir, VisitRemaining(d) PROVE TypeOK'
    <2>1. d \in Keys
      BY <1>8 DEF VisitRemaining, TypeOK, Keys
    <2>2. /\ order' \in Seq(Dir)
          /\ released' \subseteq Keys /\ remaining' \subseteq Keys
          /\ remaining \subseteq remaining'
      BY <1>8, <2>1, VisitedTypes DEF VisitRemaining
    <2> QED
      BY <1>8, <2>2 DEF VisitRemaining, TypeOK, Phases, Keys
  <1>9. CASE EndPass
    BY <1>9 DEF EndPass, TypeOK, Phases
  <1>10. CASE AppendRoot
    <2>1. order' \in Seq(Dir)
      BY <1>10, DirAssumption DEF AppendRoot, TypeOK
    <2> QED
      BY <1>10, <2>1 DEF AppendRoot, TypeOK, Phases
  <1>11. CASE UNCHANGED vars
    BY <1>11 DEF TypeOK
  <1> QED
    BY <1>1, <1>2, <1>3, <1>4, <1>5, <1>6, <1>7, <1>8, <1>9, <1>10, <1>11 DEF Next, Ended

-----------------------------------------------------------------------------
(* The table.                                                               *)

\* One more position of the list is in the table.
LEMMA ListedGrows ==
    ASSUME TypeOK, TableInv, ListPath, NEW p \in Package
    PROVE  Listed(p)' = IF p = pkg THEN Listed(p) \cup {idx} ELSE Listed(p)
  <1>1. /\ pkg' = pkg /\ idx' = idx + 1 /\ toList' = toList /\ requested' = requested
        /\ idx \in 1 .. Len(Paths(pkg)) /\ pkg \in Package /\ pkg \notin toList
    BY DEF ListPath, passVars, TypeOK, TableInv
  <1>2. Paths(p)' = Paths(p)
    BY <1>1 DEF Paths
  <1>3. Paths(p) \in Seq(Dir)
    BY PathsType DEF TypeOK
  <1>4. CASE p # pkg
    BY <1>1, <1>2, <1>4 DEF Listed
  <1>5. CASE p = pkg
    BY <1>1, <1>2, <1>3, <1>5 DEF Listed
  <1> QED
    BY <1>4, <1>5

LEMMA ListPathTable == TypeOK /\ TableInv /\ ListPath => TableInv'
  <1> SUFFICES ASSUME TypeOK, TableInv, ListPath PROVE TableInv'
    OBVIOUS
  <1> DEFINE d == Paths(pkg)[idx]
  <1>1. /\ pc = "list" /\ pc' = pc /\ pkg' = pkg /\ idx' = idx + 1
        /\ toList' = toList /\ requested' = requested
        /\ idx \in 1 .. Len(Paths(pkg)) /\ pkg \in Package /\ pkg \notin toList
    BY DEF ListPath, passVars, TypeOK, TableInv
  <1>0. PICK P \in Package : P = pkg
    BY <1>1
  <1>2. \A p \in Package : Paths(p)' = Paths(p)
    BY <1>1 DEF Paths
  <1>3. Keys' = Keys \cup {d} /\ Previous(pkg, idx) \subseteq Keys
    BY EnteredTypes DEF Keys
  <1>4. \A p \in Package : Listed(p)' = IF p = pkg THEN Listed(p) \cup {idx} ELSE Listed(p)
    BY ListedGrows
  <1>5. \A p \in Package :
            ListedDirs(p)' = IF p = pkg THEN ListedDirs(p) \cup {d} ELSE ListedDirs(p)
    BY <1>2, <1>4 DEF ListedDirs
  <1>6. Keys' = UNION {ListedDirs(p)' : p \in Package}
    BY <1>1, <1>3, <1>5 DEF TableInv
  <1>7. ASSUME NEW e \in Keys' PROVE after'[e] = UNION {ListedPrevious(p, e)' : p \in Package}
    <2>1. \A p \in Package : p # P => ListedPrevious(p, e)' = ListedPrevious(p, e)
      BY <1>0, <1>2, <1>4 DEF ListedPrevious
    <2>2. ListedPrevious(P, e)' =
              ListedPrevious(P, e) \cup (IF e = d THEN Previous(pkg, idx) ELSE {})
      <3> DEFINE At(L) == {Paths(P)[i - 1] : i \in {j \in L : j > 1 /\ Paths(P)[j] = e}}
      <3>1. ListedPrevious(P, e) = At(Listed(P))
        BY DEF ListedPrevious
      <3>2. ListedPrevious(P, e)' = At(Listed(P) \cup {idx})
        BY <1>0, <1>1, <1>2, <1>4 DEF ListedPrevious
      <3>3. At(Listed(P) \cup {idx}) = At(Listed(P)) \cup At({idx})
        OBVIOUS
      <3>4. At({idx}) = IF e = d THEN Previous(pkg, idx) ELSE {}
        BY <1>0, <1>1 DEF Previous
      <3> QED
        BY <3>1, <3>2, <3>3, <3>4
    <2>3. UNION {ListedPrevious(p, e)' : p \in Package} =
              (UNION {ListedPrevious(p, e) : p \in Package})
                  \cup (IF e = d THEN Previous(pkg, idx) ELSE {})
      <3> DEFINE New == IF e = d THEN Previous(pkg, idx) ELSE {}
      <3>1. \A p \in Package : ListedPrevious(p, e)' =
                IF p = P THEN ListedPrevious(p, e) \cup New ELSE ListedPrevious(p, e)
        BY <2>1, <2>2
      <3> HIDE DEF New
      <3>2. ASSUME NEW x
            PROVE  (\E p \in Package : x \in ListedPrevious(p, e)')
                       <=> (\E p \in Package : x \in ListedPrevious(p, e)) \/ x \in New
        BY <3>1, <1>1
      <3>3. UNION {ListedPrevious(p, e)' : p \in Package} =
                (UNION {ListedPrevious(p, e) : p \in Package}) \cup New
        BY <3>2
      <3> QED
        BY <3>3 DEF New
    <2>4. Entry(after, e) = UNION {ListedPrevious(p, e) : p \in Package}
      <3>1. DOMAIN after = Keys
        BY DEF TypeOK, Keys
      <3>2. CASE e \in Keys
        BY <3>1, <3>2 DEF Entry, TableInv
      <3>3. CASE e \notin Keys
        <4>1. \A p \in Package : \A i \in Listed(p) : Paths(p)[i] # e
          BY <3>3 DEF TableInv, ListedDirs
        <4>2. \A p \in Package : ListedPrevious(p, e) = {}
          BY <4>1 DEF ListedPrevious
        <4> QED
          BY <3>1, <3>3, <4>2 DEF Entry
      <3> QED
        BY <3>2, <3>3
    <2>5. after' = WithEntry(after, d, Entry(after, d) \cup Previous(pkg, idx))
      BY DEF ListPath
    <2>6. DOMAIN after = Keys
      BY DEF TypeOK, Keys
    <2>7. CASE e = d
      <3>1. after'[d] = Entry(after, d) \cup Previous(pkg, idx)
        BY <2>5 DEF WithEntry
      <3>2. after'[e] = Entry(after, e) \cup Previous(pkg, idx)
        BY <2>7, <3>1
      <3> HIDE DEF d
      <3> QED
        BY <2>3, <2>4, <2>7, <3>2
    <2>8. CASE e # d
      <3>1. e \in Keys
        BY <1>3, <2>8
      <3> QED
        BY <2>3, <2>4, <2>5, <2>6, <2>8, <3>1 DEF WithEntry, Entry
    <2> QED
      BY <2>7, <2>8
  <1>8. idx' <= Len(Paths(pkg)') + 1
    <2>1. Paths(pkg)' = Paths(pkg) /\ Paths(pkg) \in Seq(Dir)
      BY <1>1, <1>2, PathsType DEF TypeOK
    <2> QED
      BY <1>1, <2>1
  <1> QED
    BY <1>1, <1>6, <1>7, <1>8 DEF TableInv

\* Only ListPath enters another position of a list.
LEMMA ListedStays ==
    ASSUME TypeOK, TableInv, [Next]_vars, ~ ListPath, NEW q \in Package
    PROVE  Listed(q)' = Listed(q)
  <1> USE DEF vars, tableVars, passVars
  <1>1. ASSUME NEW p \in Package, NextPackage(p) PROVE Listed(q)' = Listed(q)
    <2>0. pkg = NoPackage
      BY <1>1 DEF NextPackage, TableInv
    <2>1. Paths(q)' = Paths(q) /\ Paths(q) \in Seq(Dir)
      BY <1>1, PathsType DEF NextPackage, Paths, TypeOK
    <2>2. q # NoPackage
      BY DirAssumption
    <2>3. CASE q = p
      <3>1. {i \in DOMAIN Paths(q) : i < 1} = {}
        BY <2>1
      <3> QED
        BY <1>1, <2>1, <2>3, <3>1 DEF NextPackage, Listed
    <2>4. CASE q # p
      BY <1>1, <2>0, <2>1, <2>2, <2>4 DEF NextPackage, Listed
    <2> QED
      BY <2>3, <2>4
  <1>2. CASE ListDone
    <2>0. pkg \in Package /\ Paths(pkg) \in Seq(Dir) /\ idx \in Nat
      BY <1>2, PathsType DEF ListDone, TypeOK
    <2>1. Paths(q)' = Paths(q)
      BY <1>2 DEF ListDone, Paths
    <2>2. q # NoPackage
      BY DirAssumption
    <2>3. CASE q = pkg
      <3>1. Paths(q) \in Seq(Dir) /\ idx > Len(Paths(q)) /\ idx \in Nat
        BY <1>2, <2>0, <2>3 DEF ListDone
      <3>2. {i \in DOMAIN Paths(q) : i < idx} = DOMAIN Paths(q)
        <4> DEFINE s == Paths(q)
        <4> HIDE DEF s
        <4>1. s \in Seq(Dir) /\ idx > Len(s) /\ idx \in Nat
          BY <3>1 DEF s
        <4>2. \A i \in DOMAIN s : i < idx
          BY <4>1
        <4> QED
          BY <4>2 DEF s
      <3> QED
        BY <1>2, <2>1, <2>2, <2>3, <3>2 DEF ListDone, Listed
    <2>4. CASE q # pkg
      BY <1>2, <2>1, <2>2, <2>4 DEF ListDone, Listed
    <2> QED
      BY <2>3, <2>4
  <1>3. CASE \/ TableDone \/ FirstPass \/ FirstPassDone \/ StartPass \/ EndPass \/ AppendRoot
             \/ \E d \in Dir : VisitRemaining(d)
             \/ UNCHANGED vars
    <2>1. requested' = requested /\ pkg' = pkg /\ toList' = toList /\ idx' = idx
      BY <1>3 DEF TableDone, FirstPass, FirstPassDone, StartPass, EndPass, AppendRoot, VisitRemaining
    <2> QED
      BY <2>1 DEF Listed, Paths
  <1> QED
    BY <1>1, <1>2, <1>3 DEF Next, Ended

LEMMA TableStep == TypeOK /\ TableInv /\ [Next]_vars => TableInv'
  <1> SUFFICES ASSUME TypeOK, TableInv, [Next]_vars PROVE TableInv'
    OBVIOUS
  <1> USE DEF vars, tableVars, passVars
  \* A step that leaves the listed positions, the table and the lists alone.
  <1>1. ASSUME requested' = requested, table' = table, after' = after,
               \A p \in Package : Listed(p)' = Listed(p),
               pc' = "list" => pkg' \notin toList' /\ idx' <= Len(Paths(pkg)') + 1,
               pc' # "list" => pkg' = NoPackage
        PROVE  TableInv'
    <2>1. Keys' = Keys /\ \A p \in Package : Paths(p)' = Paths(p)
      BY <1>1 DEF Keys, Paths
    <2>2. \A p \in Package : ListedDirs(p)' = ListedDirs(p)
      BY <1>1, <2>1 DEF ListedDirs
    <2>3. \A p \in Package : \A d \in Keys : ListedPrevious(p, d)' = ListedPrevious(p, d)
      BY <1>1, <2>1 DEF ListedPrevious
    <2>4. \A d \in Keys : UNION {ListedPrevious(p, d)' : p \in Package} =
                              UNION {ListedPrevious(p, d) : p \in Package}
      BY <2>3
    <2>5. Keys' = UNION {ListedDirs(p)' : p \in Package}
      BY <2>1, <2>2 DEF TableInv
    <2>6. \A d \in Keys' : after'[d] = UNION {ListedPrevious(p, d)' : p \in Package}
      BY <1>1, <2>1, <2>4 DEF TableInv
    <2> QED
      BY <1>1, <2>5, <2>6 DEF TableInv
  <1>2. ASSUME NEW p \in Package, NextPackage(p) PROVE TableInv'
    <2>1. ~ ListPath
      BY <1>2 DEF NextPackage, ListPath
    <2>2. \A q \in Package : Listed(q)' = Listed(q)
      BY <2>1, ListedStays
    <2>3. Paths(p)' \in Seq(Dir)
      <3>1. Paths(p)' = Paths(p)
        BY <1>2 DEF NextPackage, Paths
      <3> QED
        BY <3>1, PathsType DEF TypeOK
    <2> QED
      BY <1>1, <1>2, <2>2, <2>3 DEF NextPackage
  <1>3. CASE ListPath
    BY <1>3, ListPathTable
  <1>4. CASE ListDone
    <2>1. ~ ListPath
      <3>1. Len(Paths(pkg)) \in Nat /\ idx \in Nat
        BY <1>4, PathsType DEF ListDone, TypeOK
      <3> QED
        BY <1>4, <3>1 DEF ListDone, ListPath
    <2>2. \A q \in Package : Listed(q)' = Listed(q)
      BY <2>1, ListedStays
    <2> QED
      BY <1>1, <1>4, <2>2 DEF ListDone
  <1>5. CASE \/ TableDone \/ FirstPass \/ FirstPassDone \/ StartPass \/ EndPass \/ AppendRoot
             \/ \E d \in Dir : VisitRemaining(d)
             \/ UNCHANGED vars
    <2>1. /\ requested' = requested /\ table' = table /\ after' = after
          /\ pkg' = pkg /\ toList' = toList /\ idx' = idx
      BY <1>5 DEF TableDone, FirstPass, FirstPassDone, StartPass, EndPass, AppendRoot, VisitRemaining
    <2>2. (pc' = "list") <=> (pc = "list")
      BY <1>5 DEF TableDone, FirstPass, FirstPassDone, StartPass, EndPass, AppendRoot, VisitRemaining
    <2>3. \A p \in Package : Listed(p)' = Listed(p)
      BY <2>1 DEF Listed, Paths
    <2>4. Paths(pkg)' = Paths(pkg)
      BY <2>1 DEF Paths
    <2> QED
      BY <1>1, <2>1, <2>2, <2>3, <2>4 DEF TableInv
  <1> QED
    BY <1>2, <1>3, <1>4, <1>5 DEF Next, Ended

-----------------------------------------------------------------------------
(* Releasing the directories.                                               *)

\* Visiting a directory keeps the record of what was released, and puts the
\* directory into exactly one of the two sets.
LEMMA VisitEffect ==
    ASSUME TypeOK, NEW d \in Keys, Visit(d), released = ToSet(order)
    PROVE  /\ released' = ToSet(order')
           /\ released' \cup remaining' = released \cup remaining \cup {d}
           /\ released' = IF MayRelease(d) THEN released \cup {d} ELSE released
           /\ remaining' = IF MayRelease(d) THEN remaining ELSE remaining \cup {d}
  <1>1. d \in Dir /\ order \in Seq(Dir)
    BY DEF TypeOK, Keys, ToSet
  <1>2. CASE MayRelease(d)
    <2>1. order' = Append(order, d) /\ released' = released \cup {d} /\ remaining' = remaining
      BY <1>2 DEF Visit
    <2>2. ToSet(Append(order, d)) = ToSet(order) \cup {d}
      BY <1>1, AppendedSet
    <2> QED
      BY <1>2, <2>1, <2>2
  <1>3. CASE ~ MayRelease(d)
    BY <1>3 DEF Visit
  <1> QED
    BY <1>2, <1>3

LEMMA ReleaseStep == TypeOK /\ TableInv /\ ReleaseInv /\ [Next]_vars => ReleaseInv'
  <1> SUFFICES ASSUME TypeOK, TableInv, ReleaseInv, [Next]_vars PROVE ReleaseInv'
    OBVIOUS
  <1> USE DEF vars, tableVars, passVars
  <1>1. ASSUME NEW p \in Package, NextPackage(p) PROVE ReleaseInv'
    BY <1>1 DEF NextPackage, ReleaseInv
  <1>2. CASE ListPath
    BY <1>2 DEF ListPath, ReleaseInv
  <1>3. CASE ListDone
    BY <1>3 DEF ListDone, ReleaseInv
  <1>4. CASE TableDone
    <2>1. {table[k] : k \in 1 .. 1 - 1} = {}
      OBVIOUS
    <2>2. Len(table) \in Nat
      BY DEF TypeOK
    <2>3. released = ToSet(order) /\ released = {} /\ remaining = {} /\ scan = 1
      BY <1>4 DEF TableDone, ReleaseInv
    <2> QED
      BY <1>4, <2>1, <2>2, <2>3 DEF TableDone, ReleaseInv
  <1>5. CASE FirstPass
    <2> DEFINE d == table[scan]
    <2>1. table \in Seq(Dir) /\ scan \in DOMAIN table /\ d \in Keys
      BY <1>5 DEF FirstPass, TypeOK, Keys, ToSet
    <2>2. d \notin released \cup remaining
      <3>1. \A k \in 1 .. scan - 1 : table[k] # d
        BY <2>1 DEF TypeOK
      <3> QED
        BY <1>5, <3>1 DEF FirstPass, ReleaseInv
    <2>3. /\ released' = ToSet(order')
          /\ released' \cup remaining' = released \cup remaining \cup {d}
          /\ released' = IF MayRelease(d) THEN released \cup {d} ELSE released
          /\ remaining' = IF MayRelease(d) THEN remaining ELSE remaining \cup {d}
      BY <1>5, <2>1, VisitEffect DEF FirstPass, ReleaseInv
    <2>4. released' \cap remaining' = {}
      BY <1>5, <2>2, <2>3 DEF FirstPass, ReleaseInv
    <2>5. {table[k] : k \in 1 .. scan} = {table[k] : k \in 1 .. scan - 1} \cup {d}
      <3>1. 1 .. scan = (1 .. scan - 1) \cup {scan}
        BY <2>1
      <3> QED
        BY <3>1
    <2>6. /\ released' \cup remaining' = {table'[k] : k \in 1 .. scan' - 1}
          /\ scan' <= Len(table') + 1
      BY <1>5, <2>1, <2>3, <2>5 DEF FirstPass, ReleaseInv
    <2> HIDE DEF d
    <2> QED
      BY <1>5, <2>3, <2>4, <2>6 DEF FirstPass, ReleaseInv
  <1>6. CASE FirstPassDone
    <2>1. table \in Seq(Dir) /\ scan = Len(table) + 1
      BY <1>6 DEF FirstPassDone, TypeOK, ReleaseInv
    <2>2. {table[k] : k \in 1 .. scan - 1} = Keys
      BY <2>1 DEF Keys, ToSet
    <2> QED
      BY <1>6, <2>2 DEF FirstPassDone, ReleaseInv, Keys
  <1>7. CASE StartPass
    BY <1>7 DEF StartPass, ReleaseInv, Keys
  <1>8. ASSUME NEW d \in Dir, VisitRemaining(d) PROVE ReleaseInv'
    <2>1. d \in Keys /\ d \in remaining
      BY <1>8 DEF VisitRemaining, TypeOK, Keys
    <2>2. /\ released' = ToSet(order')
          /\ released' \cup remaining' = released \cup remaining \cup {d}
          /\ released' \subseteq released \cup {d}
      BY <1>8, <2>1, VisitEffect DEF VisitRemaining, ReleaseInv
    <2>3. pass' \cap released' = {}
      BY <1>8, <2>2 DEF VisitRemaining, ReleaseInv
    <2>4. released' \cup remaining' = Keys'
      BY <1>8, <2>1, <2>2 DEF VisitRemaining, ReleaseInv, Keys
    <2> QED
      BY <1>8, <2>2, <2>3, <2>4 DEF VisitRemaining, ReleaseInv
  <1>9. CASE EndPass
    <2>1. released \cup remaining = Keys
      BY <1>9 DEF EndPass, ReleaseInv
    <2>2. released \cup (remaining \ released) = Keys /\ released \cap (remaining \ released) = {}
      BY <2>1
    <2> QED
      BY <1>9, <2>1, <2>2 DEF EndPass, ReleaseInv, Keys
  <1>10. CASE AppendRoot
    BY <1>10 DEF AppendRoot, ReleaseInv
  <1>11. CASE UNCHANGED vars
    BY <1>11 DEF ReleaseInv, Keys
  <1> QED
    BY <1>1, <1>2, <1>3, <1>4, <1>5, <1>6, <1>7, <1>8, <1>9, <1>10, <1>11 DEF Next, Ended

\* The directories are finitely many, so progress can be counted.
LEMMA ReleasedIsFinite ==
    ASSUME TypeOK, NEW d \in Dir
    PROVE  /\ IsFiniteSet(released) /\ Cardinality(released) \in Nat
           /\ d \notin released => Cardinality(released \cup {d}) = Cardinality(released) + 1
  <1>1. IsFiniteSet(released)
    BY DirAssumption, FS_Subset DEF TypeOK, ToSet
  <1> QED
    BY <1>1, FS_CardinalityType, FS_AddElement

LEMMA PassStep == TypeOK /\ TableInv /\ ReleaseInv /\ PassInv /\ [Next]_vars => PassInv'
  <1> SUFFICES ASSUME TypeOK, TableInv, ReleaseInv, PassInv, [Next]_vars PROVE PassInv'
    OBVIOUS
  <1> USE DEF vars, tableVars, passVars
  <1>1. CASE StartPass
    <2>1. Cardinality(released) \in Nat
      BY ReleasedIsFinite, DirAssumption
    <2>2. remaining \ remaining = {}
      OBVIOUS
    <2>3. released \cap remaining = {}
      BY <1>1 DEF StartPass, ReleaseInv
    <2> QED
      BY <1>1, <2>1, <2>2, <2>3 DEF StartPass, PassInv, Stuck
  <1>2. ASSUME NEW d \in Dir, VisitRemaining(d) PROVE PassInv'
    <2>1. d \in Keys /\ d \in remaining /\ d \in pass /\ d \notin released
      BY <1>2 DEF VisitRemaining, TypeOK, Keys, ReleaseInv
    <2>2. /\ released' = IF MayRelease(d) THEN released \cup {d} ELSE released
          /\ remaining' = IF MayRelease(d) THEN remaining ELSE remaining \cup {d}
      BY <1>2, <2>1, VisitEffect DEF VisitRemaining, ReleaseInv
    <2>3. remaining' = remaining
      BY <2>1, <2>2
    <2>4. mark' = mark /\ pc = "pass" /\ pc' = "pass" /\ pass' = pass \ {d} /\ after' = after
      BY <1>2 DEF VisitRemaining
    <2>5. mark \in Nat /\ Cardinality(released) \in Nat /\ mark <= Cardinality(released)
      BY <2>4, ReleasedIsFinite DEF PassInv, TypeOK
    <2>6. CASE MayRelease(d)
      <3>1. Cardinality(released') = Cardinality(released) + 1
        BY <2>1, <2>2, <2>6, ReleasedIsFinite
      <3> QED
        BY <2>1, <2>3, <2>4, <2>5, <3>1 DEF PassInv
    <2>7. CASE ~ MayRelease(d)
      <3>1. released' = released
        BY <2>2, <2>7
      <3>2. remaining' \ pass' = (remaining \ pass) \cup {d}
        BY <2>1, <2>3, <2>4
      <3>3. Stuck => Stuck'
        BY <2>4, <2>7, <3>1, <3>2 DEF Stuck, MayRelease
      <3> QED
        BY <2>1, <2>3, <2>4, <2>5, <3>1, <3>3 DEF PassInv
    <2> QED
      BY <2>6, <2>7
  <1>3. CASE EndPass
    BY <1>3 DEF EndPass, PassInv, Stuck, MayRelease
  <1>4. CASE UNCHANGED vars
    BY <1>4 DEF PassInv, Stuck, MayRelease
  <1>5. CASE pc' \notin {"pass", "circular"}
    BY <1>5 DEF PassInv
  <1>6. CASE \/ ListPath \/ ListDone \/ TableDone \/ FirstPass \/ FirstPassDone \/ AppendRoot
             \/ \E p \in Package : NextPackage(p)
    BY <1>5, <1>6 DEF ListPath, ListDone, TableDone, FirstPass, FirstPassDone, AppendRoot,
                      NextPackage
  <1> QED
    BY <1>1, <1>2, <1>3, <1>4, <1>6 DEF Next, Ended

-----------------------------------------------------------------------------
(* The theorems.                                                            *)

\* The inductive invariant: what the table says about the lists, where each
\* directory is, and what a pass without progress has shown.
THEOREM OrderAlwaysHolds == Spec => []OrderInv
  <1>1. OrderInv /\ [Next]_vars => OrderInv'
    BY TypeStep, TableStep, ReleaseStep, PassStep DEF OrderInv
  <1> QED
    BY InitOrderInv, <1>1, PTL DEF Spec

\* Type correctness for any packages, directories and lists; in particular the
\* table never has two entries for one directory.
THEOREM TableTypesAreCorrect == Spec => []TypeOK
  <1>1. OrderInv => TypeOK
    BY DEF OrderInv
  <1> QED
    BY OrderAlwaysHolds, <1>1, PTL

\* The error is only raised when directories wait for each other: every one of
\* the remaining directories has to come after another of them.
THEOREM CircularOnlyForKnots == Spec => []CircularMeansKnot
  <1>1. OrderInv => CircularMeansKnot
    <2> SUFFICES ASSUME OrderInv, pc = "circular" PROVE Knot(remaining)
      BY DEF CircularMeansKnot
    <2>1. remaining # {} /\ \A d \in remaining \ pass : ~ MayRelease(d)
      BY DEF OrderInv, PassInv, Stuck
    <2>2. pass = {}
      BY DEF OrderInv, PassInv
    <2>3. ASSUME NEW d \in remaining PROVE after[d] \cap remaining # {}
      <3>1. d \in Keys /\ after[d] \subseteq Keys /\ released \cup remaining = Keys
        BY DEF OrderInv, TypeOK, ReleaseInv, Keys
      <3> QED
        BY <2>1, <2>2, <3>1 DEF MayRelease
    <2> QED
      BY <2>1, <2>3 DEF Knot
  <1> QED
    BY OrderAlwaysHolds, <1>1, PTL

\* Once the table is complete it says of each directory what the lists say.
LEMMA AfterIsPrecedence ==
    ASSUME OrderInv, pc \notin {"packages", "list"}
    PROVE  /\ DOMAIN precedence = Keys
           /\ \A d \in Keys : precedence[d] = after[d]
  <1>1. toList = {} /\ pkg = NoPackage
    BY DEF OrderInv, ReleaseInv, TableInv
  <1>2. \A p \in Package : Listed(p) = DOMAIN Paths(p)
    BY <1>1, DirAssumption DEF Listed
  <1>3. \A p \in Package : ListedDirs(p) = ToSet(Paths(p))
    BY <1>2 DEF ListedDirs, ToSet
  <1>4. Requested = Keys
    BY <1>3 DEF Requested, OrderInv, TableInv
  <1>5. \A d \in Keys : Predecessors(d) = after[d]
    BY <1>2 DEF Predecessors, ListedPrevious, OrderInv, TableInv
  <1> QED
    BY <1>4, <1>5 DEF precedence

\* A visit either changes nothing the abstract order shows, or releases a
\* directory after everything that precedes it.
LEMMA VisitReleases ==
    ASSUME OrderInv, pc \in {"first", "pass"}, pc' = pc, requested' = requested,
           NEW d \in Keys, d \notin released, Visit(d)
    PROVE  Topological!Next \/ UNCHANGED <<precedence, order, pc = "done">>
  <1>1. precedence' = precedence
    BY DEF precedence, Requested, Predecessors, Paths
  <1>2. CASE MayRelease(d)
    <2>1. released = ToSet(order) /\ ToSet(order) = Topological!Placed
      BY DEF OrderInv, ReleaseInv, Topological!Placed, ToSet
    <2>2. order' = Append(order, d)
      BY <1>2 DEF Visit
    <2>3. d \in DOMAIN precedence /\ precedence[d] \subseteq released
      BY <1>2, AfterIsPrecedence DEF MayRelease
    <2>4. Topological!Release(d)
      BY <2>1, <2>2, <2>3 DEF Topological!Release
    <2> QED
      BY <1>1, <2>3, <2>4 DEF Topological!Next
  <1>3. CASE ~ MayRelease(d)
    BY <1>1, <1>3 DEF Visit
  <1> QED
    BY <1>2, <1>3

\* Merging the lists implements TopologicalOrder: each directory is released
\* once, after everything that precedes it in the list of any package, and the
\* source root is appended when all are.
THEOREM OrderIsTopological == Spec => TopologicalSpec
  <1>1. Init => Topological!Init
    BY DEF Init, Topological!Init
  <1>2. OrderInv /\ OrderInv' /\ [Next]_vars
            => [Topological!Next]_<<precedence, order, pc = "done">>
    <2> SUFFICES ASSUME OrderInv, OrderInv', [Next]_vars
                 PROVE  Topological!Next \/ UNCHANGED <<precedence, order, pc = "done">>
      OBVIOUS
    <2> USE DEF vars, tableVars, passVars
    <2>0. requested' = requested
      BY DEF Next, NextPackage, ListPath, ListDone, TableDone, FirstPass, FirstPassDone,
             StartPass, VisitRemaining, EndPass, AppendRoot, Ended
    <2>1. precedence' = precedence
      BY <2>0 DEF precedence, Requested, Predecessors, Paths
    <2>2. CASE FirstPass
      <3>1. table[scan] \in Keys /\ table[scan] \notin released
        <4>1. table \in Seq(Dir) /\ scan \in DOMAIN table
          BY <2>2 DEF FirstPass, OrderInv, TypeOK
        <4>2. \A k \in 1 .. scan - 1 : table[k] # table[scan]
          BY <4>1 DEF OrderInv, TypeOK
        <4> QED
          BY <2>2, <4>1, <4>2 DEF FirstPass, OrderInv, ReleaseInv, Keys, ToSet
      <3> QED
        BY <2>0, <2>2, <3>1, VisitReleases DEF FirstPass
    <2>3. ASSUME NEW d \in Dir, VisitRemaining(d)
          PROVE  Topological!Next \/ UNCHANGED <<precedence, order, pc = "done">>
      <3>1. d \in Keys /\ d \notin released
        BY <2>3 DEF VisitRemaining, OrderInv, TypeOK, ReleaseInv, Keys
      <3> QED
        BY <2>0, <2>3, <3>1, VisitReleases DEF VisitRemaining
    <2>4. CASE AppendRoot
      <3>1. DOMAIN precedence = Keys
        BY <2>4, AfterIsPrecedence DEF AppendRoot
      <3>2. Keys = released /\ released = Topological!Placed
        BY <2>4 DEF AppendRoot, OrderInv, ReleaseInv, Topological!Placed, ToSet
      <3>3. Topological!Close
        BY <2>4, <3>1, <3>2 DEF AppendRoot, Topological!Close
      <3> QED
        BY <2>1, <2>4, <3>3 DEF AppendRoot, Topological!Next
    <2>5. CASE \/ \E p \in Package : NextPackage(p)
               \/ ListPath \/ ListDone \/ TableDone \/ FirstPassDone \/ StartPass \/ EndPass
               \/ Ended \/ UNCHANGED vars
      <3>1. order' = order /\ (pc' = "done") = (pc = "done")
        BY <2>5 DEF NextPackage, ListPath, ListDone, TableDone, FirstPassDone, StartPass,
                    EndPass, Ended
      <3> QED
        BY <2>1, <3>1
    <2> QED
      BY <2>2, <2>3, <2>4, <2>5 DEF Next
  <1> QED
    BY <1>1, <1>2, OrderAlwaysHolds, PTL DEF Spec, TopologicalSpec, Topological!Spec

-----------------------------------------------------------------------------
(* Contradictory lists are always reported.                                 *)

\* Nothing of a knot is ever released; at the end everything is.
KnotInv ==
    /\ \A S \in SUBSET Keys : Knot(S) => S \cap released = {}
    /\ pc = "done" => released = Keys

\* Releasing a directory leaves the knots alone: one that held the directory
\* would hold something that precedes it, which was released before.
LEMMA VisitKeepsKnots ==
    ASSUME OrderInv, KnotInv, pc \in {"first", "pass"}, pc' = pc,
           table' = table, after' = after, NEW d \in Keys, Visit(d)
    PROVE  KnotInv'
  <1>1. CASE MayRelease(d)
    <2>1. released' = released \cup {d} /\ after[d] \subseteq released
      BY <1>1 DEF Visit, MayRelease
    <2>2. ASSUME NEW S \in SUBSET Keys, Knot(S) PROVE S \cap released' = {}
      <3>1. S \cap released = {}
        BY <2>2 DEF KnotInv
      <3>2. d \notin S
        BY <2>1, <2>2, <3>1 DEF Knot
      <3> QED
        BY <2>1, <3>1, <3>2
    <2> QED
      BY <2>2 DEF KnotInv, Knot, Keys
  <1>2. CASE ~ MayRelease(d)
    BY <1>2 DEF Visit, KnotInv, Knot, Keys
  <1> QED
    BY <1>1, <1>2

LEMMA KnotStep == OrderInv /\ KnotInv /\ [Next]_vars => KnotInv'
  <1> SUFFICES ASSUME OrderInv, KnotInv, [Next]_vars PROVE KnotInv'
    OBVIOUS
  <1> USE DEF vars, tableVars, passVars
  <1>1. CASE pc \in {"packages", "list"} /\ (ListPath \/ ListDone \/ TableDone
                                             \/ \E p \in Package : NextPackage(p))
    <2>1. released' = {} /\ pc' # "done"
      BY <1>1 DEF OrderInv, ReleaseInv, ListPath, ListDone, TableDone, NextPackage
    <2> QED
      BY <2>1 DEF KnotInv
  <1>2. CASE FirstPass
    <2>1. table[scan] \in Keys
      BY <1>2 DEF FirstPass, OrderInv, TypeOK, Keys, ToSet
    <2> QED
      BY <1>2, <2>1, VisitKeepsKnots DEF FirstPass
  <1>3. ASSUME NEW d \in Dir, VisitRemaining(d) PROVE KnotInv'
    <2>1. d \in Keys
      BY <1>3 DEF VisitRemaining, OrderInv, TypeOK, Keys
    <2> QED
      BY <1>3, <2>1, VisitKeepsKnots DEF VisitRemaining
  <1>4. CASE FirstPassDone \/ StartPass \/ EndPass
    BY <1>4 DEF FirstPassDone, StartPass, EndPass, KnotInv, Knot, Keys
  <1>5. CASE AppendRoot
    <2>1. released = Keys
      BY <1>5 DEF AppendRoot, OrderInv, ReleaseInv
    <2> QED
      BY <1>5, <2>1 DEF AppendRoot, KnotInv, Knot, Keys
  <1>6. CASE UNCHANGED vars
    BY <1>6 DEF KnotInv, Knot, Keys
  <1>7. ListPath \/ ListDone \/ TableDone \/ (\E p \in Package : NextPackage(p))
            => pc \in {"packages", "list"}
    BY DEF ListPath, ListDone, TableDone, NextPackage
  <1> QED
    BY <1>1, <1>2, <1>3, <1>4, <1>5, <1>6, <1>7 DEF Next, Ended

\* Lists that contradict each other, directly or in a circle through the lists
\* of several packages, never get an order: the error is raised.
THEOREM ContradictionsAreReported == Spec => []DoneMeansNoKnot
  <1>1. Init => KnotInv
    BY DEF Init, KnotInv
  <1>2. KnotInv => DoneMeansNoKnot
    <2> SUFFICES ASSUME KnotInv, pc = "done", NEW S \in SUBSET Keys, Knot(S) PROVE FALSE
      BY DEF DoneMeansNoKnot, Keys
    <2> QED
      BY DEF KnotInv, Knot
  <1> QED
    BY OrderAlwaysHolds, KnotStep, <1>1, <1>2, PTL DEF Spec


-----------------------------------------------------------------------------
(* Positions that ascend.                                                   *)

LEMMA LeastExists ==
    ASSUME NEW S \in SUBSET Nat, S # {}
    PROVE  \E n \in S : \A m \in S : n <= m
  <1> DEFINE R == OpToRel(<, Nat)
  <1>1. IsWellFoundedOn(R, Nat)
    BY NatLessThanWellFounded
  <1>2. PICK n \in S : \A m \in S : ~ (<<m, n>> \in R)
    <2> HIDE DEF R
    <2> QED
      BY <1>1, WFMin
  <1>3. \A m \in S : ~ (m < n)
    BY <1>2 DEF OpToRel
  <1> QED
    BY <1>3

\* Neighbours that ascend make the whole function ascend.
LEMMA Ascending ==
    ASSUME NEW m \in Nat, NEW g \in [1 .. m -> Nat],
           \A i \in 1 .. m - 1 : g[i] < g[i + 1]
    PROVE  \A i, j \in 1 .. m : i < j => g[i] < g[j]
  <1> SUFFICES ASSUME NEW i \in 1 .. m PROVE \A j \in 1 .. m : i < j => g[i] < g[j]
    OBVIOUS
  <1> DEFINE Bad == {j \in 1 .. m : i < j /\ ~ (g[i] < g[j])}
  <1>1. Bad = {}
    <2> SUFFICES ASSUME Bad # {} PROVE FALSE
      OBVIOUS
    <2>1. PICK j \in Bad : \A k \in Bad : j <= k
      <3> Bad \in SUBSET Nat
        OBVIOUS
      <3> HIDE DEF Bad
      <3> QED
        BY LeastExists
    <2>2. j - 1 \in 1 .. m - 1 /\ j - 1 \in 1 .. m /\ j - 1 \notin Bad /\ (j - 1) + 1 = j
      BY <2>1
    <2>3. g[j - 1] < g[j]
      BY <2>2
    <2>4. g[i] \in Nat /\ g[j] \in Nat /\ g[j - 1] \in Nat
      BY <2>2
    <2>5. i = j - 1 \/ g[i] < g[j - 1]
      BY <2>2
    <2> QED
      BY <2>1, <2>3, <2>4, <2>5
  <1> QED
    BY <1>1

\* The n-th smallest element of a set of numbers.
Nth(S, n) == CHOOSE i \in S : Cardinality({j \in S : j <= i}) = n

\* The n-th smallest of ascending values is the n-th value.
LEMMA Ranked ==
    ASSUME NEW m \in Nat, NEW g \in [1 .. m -> Nat],
           \A i, j \in 1 .. m : i < j => g[i] < g[j],
           NEW S, S = {g[k] : k \in 1 .. m}
    PROVE  /\ Cardinality(S) = m
           /\ \A n \in 1 .. m : Nth(S, n) = g[n]
  <1>1. ASSUME NEW n \in 0 .. m PROVE Cardinality({g[k] : k \in 1 .. n}) = n
    <2> DEFINE h == [k \in 1 .. n |-> g[k]]
               T == {g[k] : k \in 1 .. n}
    <2>1. h \in [1 .. n -> T]
      OBVIOUS
    <2>2. ASSUME NEW i \in 1 .. n, NEW j \in 1 .. n, h[i] = h[j] PROVE i = j
      <3>1. i \in 1 .. m /\ j \in 1 .. m /\ g[i] = g[j] /\ g[i] \in Nat
        BY <2>2
      <3>2. ~ (i < j) /\ ~ (j < i)
        BY <3>1
      <3> QED
        BY <3>2
    <2>3. \A t \in T : \E k \in 1 .. n : h[k] = t
      OBVIOUS
    <2>4. h \in Bijection(1 .. n, T)
      <3> HIDE DEF h, T
      <3> QED
        BY <2>1, <2>2, <2>3 DEF Bijection, Injection, IsInjective, Surjection
    <2> QED
      BY <2>4, FS_CountingElements DEF ExistsBijection
  <1>2. ASSUME NEW n \in 1 .. m PROVE Cardinality({j \in S : j <= g[n]}) = n
    <2>1. \A k \in 1 .. m : g[k] <= g[n] <=> k <= n
      <3> SUFFICES ASSUME NEW k \in 1 .. m PROVE g[k] <= g[n] <=> k <= n
        OBVIOUS
      <3>1. g[k] \in Nat /\ g[n] \in Nat
        OBVIOUS
      <3>2. k < n => g[k] < g[n]
        OBVIOUS
      <3>3. n < k => g[n] < g[k]
        OBVIOUS
      <3> QED
        BY <3>1, <3>2, <3>3
    <2>2. {j \in S : j <= g[n]} = {g[k] : k \in 1 .. n}
      BY <2>1
    <2>3. Cardinality({g[k] : k \in 1 .. n}) = n
      <3> n \in 0 .. m
        OBVIOUS
      <3> QED
        BY <1>1
    <2> QED
      BY <2>2, <2>3, Zenon
  <1>3. ASSUME NEW n \in 1 .. m
        PROVE  Nth(S, n) = g[n]
    <2> DEFINE Fits(i) == Cardinality({j \in S : j <= i}) = n
    <2>1. g[n] \in S /\ Fits(g[n])
      BY <1>2
    <2>2. ASSUME NEW i \in S, Fits(i) PROVE i = g[n]
      <3>1. PICK k \in 1 .. m : i = g[k]
        OBVIOUS
      <3>2. Cardinality({j \in S : j <= g[k]}) = k
        BY <1>2
      <3>3. k = n
        BY <2>2, <3>1, <3>2
      <3> QED
        BY <3>1, <3>3
    <2> HIDE DEF Fits
    <2>3. (CHOOSE i \in S : Fits(i)) = g[n]
      BY <2>1, <2>2
    <2> QED
      BY <2>3 DEF Fits, Nth
  <1>4. Cardinality(S) = m
    <2> m \in 0 .. m
      OBVIOUS
    <2> QED
      BY <1>1
  <1> QED
    BY <1>3, <1>4, Zenon

-----------------------------------------------------------------------------
(* What each package searches.                                              *)

\* The entry of a directory holds the packages whose list has named it so far.
UsersInv == \A d \in Keys : appliesTo[d] = {p \in Package : d \in ListedDirs(p)}

\* The positions of the directories that were released; the source root that
\* ends the order is not one of them.
Positions == 1 .. (IF pc = "done" THEN Len(order) - 1 ELSE Len(order))

\* Each released directory has one position, after those of all that precede it.
PositionInv ==
    /\ \A i, j \in Positions : order[i] = order[j] => i = j
    /\ \A i \in Positions : after[order[i]] \subseteq {order[k] : k \in 1 .. i - 1}
    /\ released = {order[i] : i \in Positions}
    /\ pc = "done" => /\ Len(order) > 0 /\ order[Len(order)] = SourceRoot
                      /\ released = Keys

SeenInv == OrderInv /\ UsersInv /\ PositionInv

LEMMA UsersStep == OrderInv /\ UsersInv /\ [Next]_vars => UsersInv'
  <1> SUFFICES ASSUME OrderInv, UsersInv, [Next]_vars PROVE UsersInv'
    OBVIOUS
  <1> USE DEF vars, tableVars, passVars
  <1>0. TypeOK /\ TableInv
    BY DEF OrderInv
  <1>1. CASE ListPath
    <2> DEFINE d == Paths(pkg)[idx]
    <2>1. pkg \in Package /\ idx \in DOMAIN Paths(pkg) /\ requested' = requested
      BY <1>0, <1>1, PathsType DEF ListPath, TypeOK
    <2>2. Keys' = Keys \cup {d}
      BY <1>0, <1>1, EnteredTypes DEF Keys
    <2>3. ASSUME NEW p \in Package
          PROVE  ListedDirs(p)' = IF p = pkg THEN ListedDirs(p) \cup {d} ELSE ListedDirs(p)
      <3>1. Listed(p)' = IF p = pkg THEN Listed(p) \cup {idx} ELSE Listed(p)
        BY <1>0, <1>1, ListedGrows
      <3>2. Paths(p)' = Paths(p)
        BY <2>1 DEF Paths
      <3> QED
        BY <2>1, <3>1, <3>2 DEF ListedDirs
    <2>4. appliesTo' = WithEntry(appliesTo, d, Entry(appliesTo, d) \cup {pkg})
      BY <1>1 DEF ListPath
    <2>5. DOMAIN appliesTo = Keys
      BY <1>0 DEF TypeOK, Keys
    <2>6. Entry(appliesTo, d) = {p \in Package : d \in ListedDirs(p)}
      <3>1. CASE d \in Keys
        BY <2>5, <3>1 DEF Entry, UsersInv
      <3>2. CASE d \notin Keys
        <4>1. \A p \in Package : d \notin ListedDirs(p)
          BY <1>0, <3>2 DEF TableInv
        <4> QED
          BY <2>5, <3>2, <4>1 DEF Entry
      <3> QED
        BY <3>1, <3>2
    <2> HIDE DEF d
    <2>7. ASSUME NEW e \in Keys' PROVE appliesTo'[e] = {p \in Package : e \in ListedDirs(p)'}
      <3>1. CASE e = d
        <4>1. appliesTo'[e] = {p \in Package : d \in ListedDirs(p)} \cup {pkg}
          BY <2>4, <2>6, <3>1 DEF WithEntry
        <4>2. \A p \in Package : d \in ListedDirs(p)' <=> d \in ListedDirs(p) \/ p = pkg
          BY <2>3
        <4> QED
          BY <2>1, <3>1, <4>1, <4>2
      <3>2. CASE e # d
        <4>1. e \in Keys /\ appliesTo'[e] = appliesTo[e]
          BY <2>2, <2>4, <2>5, <3>2 DEF WithEntry
        <4>2. \A p \in Package : e \in ListedDirs(p)' <=> e \in ListedDirs(p)
          BY <2>3, <3>2
        <4> QED
          BY <4>1, <4>2 DEF UsersInv
      <3> QED
        BY <3>1, <3>2
    <2> QED
      BY <2>7 DEF UsersInv
  <1>2. CASE ~ ListPath
    <2>1. requested' = requested /\ table' = table /\ appliesTo' = appliesTo
      BY <1>2 DEF Next, NextPackage, ListDone, TableDone, FirstPass, FirstPassDone,
                  StartPass, VisitRemaining, EndPass, AppendRoot, Ended
    <2>2. \A p \in Package : Listed(p)' = Listed(p)
      BY <1>0, <1>2, ListedStays
    <2>3. \A p \in Package : ListedDirs(p)' = ListedDirs(p)
      BY <2>1, <2>2 DEF ListedDirs, Paths
    <2> QED
      BY <2>1, <2>3 DEF UsersInv, Keys
  <1> QED
    BY <1>1, <1>2

\* A directory that is released takes a position of its own, after the
\* positions of all that precede it.
LEMMA VisitPositions ==
    ASSUME TypeOK, ReleaseInv, PositionInv, pc \in {"first", "pass"}, pc' = pc,
           after' = after, NEW d \in Keys, d \notin released, Visit(d)
    PROVE  PositionInv'
  <1>1. order \in Seq(Dir) /\ d \in Dir
    BY DEF TypeOK, Keys, ToSet
  <1>2. Positions = 1 .. Len(order)
    BY DEF Positions
  <1>3. CASE MayRelease(d)
    <2>1. order' = Append(order, d) /\ released' = released \cup {d} /\ after[d] \subseteq released
      BY <1>3 DEF Visit, MayRelease
    <2>2. Positions' = Positions \cup {Len(order) + 1}
      BY <1>1, <1>2, <2>1 DEF Positions
    <2>3. \A i \in Positions : order'[i] = order[i]
      BY <1>1, <1>2, <2>1
    <2>4. order'[Len(order) + 1] = d
      BY <1>1, <2>1
    <2>5. \A i \in Positions : order[i] # d
      BY DEF PositionInv
    <2>6. \A i, j \in Positions' : order'[i] = order'[j] => i = j
      BY <2>2, <2>3, <2>4, <2>5 DEF PositionInv
    <2>7. released' = {order'[i] : i \in Positions'}
      <3>1. released = {order[i] : i \in Positions}
        BY DEF PositionInv
      <3>2. {order'[i] : i \in Positions \cup {Len(order) + 1}} = {order[i] : i \in Positions} \cup {d}
        BY <2>3, <2>4
      <3> QED
        BY <2>1, <2>2, <3>1, <3>2
    <2>8. ASSUME NEW i \in Positions'
          PROVE  after'[order'[i]] \subseteq {order'[k] : k \in 1 .. i - 1}
      <3>1. \A k \in 1 .. i - 1 : k \in Positions
        BY <1>1, <1>2, <2>2
      <3>2. {order'[k] : k \in 1 .. i - 1} = {order[k] : k \in 1 .. i - 1}
        BY <2>3, <3>1
      <3>3. CASE i \in Positions
        BY <2>3, <3>2, <3>3 DEF PositionInv
      <3>4. CASE i = Len(order) + 1
        <4>1. 1 .. i - 1 = Positions
          BY <1>1, <1>2, <3>4
        <4> QED
          BY <2>1, <2>4, <3>2, <3>4, <4>1 DEF PositionInv
      <3> QED
        BY <2>2, <3>3, <3>4
    <2> QED
      BY <2>6, <2>7, <2>8 DEF PositionInv
  <1>4. CASE ~ MayRelease(d)
    BY <1>4 DEF Visit, PositionInv, Positions
  <1> QED
    BY <1>3, <1>4

LEMMA PositionStep == OrderInv /\ PositionInv /\ [Next]_vars => PositionInv'
  <1> SUFFICES ASSUME OrderInv, PositionInv, [Next]_vars PROVE PositionInv'
    OBVIOUS
  <1> USE DEF vars, tableVars, passVars
  <1>0. TypeOK /\ TableInv /\ ReleaseInv /\ order \in Seq(Dir)
    BY DEF OrderInv, TypeOK
  <1>1. CASE pc \in {"packages", "list"} /\ (ListPath \/ ListDone \/ TableDone
                                             \/ \E p \in Package : NextPackage(p))
    <2>1. order' = <<>> /\ released' = {} /\ pc' # "done"
      BY <1>0, <1>1 DEF ReleaseInv, ListPath, ListDone, TableDone, NextPackage
    <2>2. Positions' = {}
      BY <2>1 DEF Positions
    <2> QED
      BY <2>1, <2>2 DEF PositionInv
  <1>2. CASE FirstPass
    <2>1. table[scan] \in Keys /\ table[scan] \notin released
      <3>1. table \in Seq(Dir) /\ scan \in DOMAIN table
        BY <1>0, <1>2 DEF FirstPass, TypeOK
      <3>2. \A k \in 1 .. scan - 1 : table[k] # table[scan]
        BY <1>0, <3>1 DEF TypeOK
      <3> QED
        BY <1>0, <1>2, <3>1, <3>2 DEF FirstPass, ReleaseInv, Keys, ToSet
    <2> QED
      BY <1>0, <1>2, <2>1, VisitPositions DEF FirstPass
  <1>3. ASSUME NEW d \in Dir, VisitRemaining(d) PROVE PositionInv'
    <2>1. d \in Keys /\ d \notin released
      BY <1>0, <1>3 DEF VisitRemaining, TypeOK, ReleaseInv, Keys
    <2> QED
      BY <1>0, <1>3, <2>1, VisitPositions DEF VisitRemaining
  <1>4. CASE FirstPassDone \/ StartPass \/ EndPass
    <2>1. /\ order' = order /\ released' = released /\ after' = after
          /\ pc # "done" /\ pc' # "done"
      BY <1>4 DEF FirstPassDone, StartPass, EndPass
    <2>2. Positions' = Positions
      BY <2>1 DEF Positions
    <2> QED
      BY <2>1, <2>2 DEF PositionInv
  <1>5. CASE AppendRoot
    <2>1. /\ order' = Append(order, SourceRoot) /\ released' = released /\ after' = after
          /\ pc' = "done" /\ pc # "done" /\ released = Keys /\ Keys' = Keys
      BY <1>0, <1>5 DEF AppendRoot, ReleaseInv, Keys
    <2>2. Positions = 1 .. Len(order) /\ Positions' = 1 .. Len(order)
      BY <1>0, <2>1, DirAssumption DEF Positions
    <2>3. \A i \in Positions : order'[i] = order[i]
      BY <1>0, <2>1, <2>2
    <2>4. Len(order') > 0 /\ order'[Len(order')] = SourceRoot
      BY <1>0, <2>1, DirAssumption
    <2>5. \A i \in Positions' : after'[order'[i]] \subseteq {order'[k] : k \in 1 .. i - 1}
      <3> SUFFICES ASSUME NEW i \in Positions
                   PROVE  after[order[i]] \subseteq {order'[k] : k \in 1 .. i - 1}
        BY <2>1, <2>2, <2>3
      <3>1. \A k \in 1 .. i - 1 : k \in Positions
        BY <1>0, <2>2
      <3>2. {order'[k] : k \in 1 .. i - 1} = {order[k] : k \in 1 .. i - 1}
        BY <2>3, <3>1
      <3> QED
        BY <3>2 DEF PositionInv
    <2>6. \A i, j \in Positions' : order'[i] = order'[j] => i = j
      BY <2>2, <2>3 DEF PositionInv
    <2>7. released' = {order'[i] : i \in Positions'}
      BY <2>1, <2>2, <2>3 DEF PositionInv
    <2> QED
      BY <2>1, <2>4, <2>5, <2>6, <2>7 DEF PositionInv
  <1>6. CASE UNCHANGED vars
    <2>1. Positions' = Positions /\ Keys' = Keys
      BY <1>6 DEF Positions, Keys
    <2> QED
      BY <1>6, <2>1 DEF PositionInv
  <1>7. ListPath \/ ListDone \/ TableDone \/ (\E p \in Package : NextPackage(p))
            => pc \in {"packages", "list"}
    BY DEF ListPath, ListDone, TableDone, NextPackage
  <1> QED
    BY <1>1, <1>2, <1>3, <1>4, <1>5, <1>6, <1>7 DEF Next, Ended

LEMMA SeenIsTheList ==
    ASSUME SeenInv, pc = "done", NEW p \in Package,
           NEW mine, mine = {i \in DOMAIN order : p \in AppliesTo(i)}
    PROVE  [n \in 1 .. Cardinality(mine) |-> order[Nth(mine, n)]]
           = Append(Paths(p), SourceRoot)
  <1> DEFINE list == Paths(p)
             m == Len(list)
             last == Len(order)
  <1>1. /\ order \in Seq(Dir) /\ last \in Nat /\ last > 0 /\ order[last] = SourceRoot
        /\ list \in Seq(Dir) /\ m \in Nat /\ SourceRoot \in Dir
    BY PathsType, DirAssumption DEF SeenInv, OrderInv, TypeOK, PositionInv
  <1>2. Positions = 1 .. last - 1
    BY DEF Positions
  <1>3. /\ Listed(p) = DOMAIN list
        /\ Keys = UNION {ListedDirs(q) : q \in Package}
    <2>1. toList = {} /\ pkg = NoPackage
      BY DEF SeenInv, OrderInv, ReleaseInv, TableInv
    <2> QED
      BY <2>1, DirAssumption DEF Listed, SeenInv, OrderInv, TableInv
  <1>4. ListedDirs(p) = {list[k] : k \in 1 .. m}
    BY <1>1, <1>3 DEF ListedDirs
  <1>5. \A k \in 1 .. m : \E i \in Positions : order[i] = list[k]
    <2>1. ASSUME NEW k \in 1 .. m PROVE \E i \in Positions : order[i] = list[k]
      <3>1. list[k] \in Keys
        BY <1>3, <1>4
      <3>2. list[k] \in {order[i] : i \in Positions}
        BY <3>1 DEF SeenInv, PositionInv
      <3> QED
        BY <3>2
    <2> QED
      BY <2>1
  \* Where the directories of the list are in the order.
  <1> DEFINE At(k) == CHOOSE i \in Positions : order[i] = list[k]
             g == [k \in 1 .. m + 1 |-> IF k = m + 1 THEN last ELSE At(k)]
  <1>6. \A k \in 1 .. m : At(k) \in Positions /\ order[At(k)] = list[k]
    BY <1>5
  <1>7. /\ g \in [1 .. m + 1 -> Nat] /\ g[m + 1] = last
        /\ \A k \in 1 .. m : g[k] = At(k) /\ g[k] \in 1 .. last - 1 /\ order[g[k]] = list[k]
    <2> HIDE DEF At, m, last
    <2> QED
      BY <1>1, <1>2, <1>6
  <1> HIDE DEF g, At
  <1>8. \A k \in 1 .. m : g[k] < g[k + 1]
    <2> SUFFICES ASSUME NEW k \in 1 .. m PROVE g[k] < g[k + 1]
      OBVIOUS
    <2>1. CASE k = m
      BY <1>1, <1>7, <2>1
    <2>2. CASE k < m
      <3>1. k + 1 \in 1 .. m /\ k + 1 > 1 /\ (k + 1) - 1 = k
        BY <1>1, <2>2
      <3>2. list[k] \in ListedPrevious(p, list[k + 1])
        BY <1>1, <1>3, <3>1 DEF ListedPrevious
      <3>3. list[k + 1] \in Keys
        BY <1>3, <1>4, <3>1
      <3>4. list[k] \in after[list[k + 1]]
        BY <3>2, <3>3 DEF SeenInv, OrderInv, TableInv
      <3>5. list[k] \in {order[j] : j \in 1 .. g[k + 1] - 1}
        BY <1>2, <1>7, <3>1, <3>4 DEF SeenInv, PositionInv
      <3>6. PICK j \in 1 .. g[k + 1] - 1 : order[j] = list[k]
        BY <3>5
      <3>7. j \in Positions /\ g[k] \in Positions /\ order[g[k]] = order[j]
        BY <1>1, <1>2, <1>7, <3>1, <3>6
      <3>8. g[k] = j
        BY <3>7 DEF SeenInv, PositionInv
      <3> QED
        BY <1>1, <1>7, <3>1, <3>6, <3>8
    <2> QED
      BY <1>1, <2>1, <2>2
  <1>9. \A i, j \in 1 .. m + 1 : i < j => g[i] < g[j]
    <2> DEFINE M == m + 1
    <2>1. M \in Nat /\ g \in [1 .. M -> Nat] /\ \A i \in 1 .. M - 1 : g[i] < g[i + 1]
      BY <1>1, <1>7, <1>8
    <2> HIDE DEF M
    <2>2. \A i, j \in 1 .. M : i < j => g[i] < g[j]
      BY ONLY <2>1, Ascending
    <2> QED
      BY <2>2 DEF M
  \* The directories that apply to the package are those of its list.
  <1>10. mine = {g[k] : k \in 1 .. m + 1}
    <2>1. ASSUME NEW i \in Positions
          PROVE  p \in AppliesTo(i) <=> \E k \in 1 .. m : i = g[k]
      <3>1. AppliesTo(i) = appliesTo[order[i]] /\ order[i] \in Keys
        BY <1>1, <1>2 DEF AppliesTo, SeenInv, PositionInv
      <3>2. p \in AppliesTo(i) <=> order[i] \in ListedDirs(p)
        BY <3>1 DEF SeenInv, UsersInv
      <3>3. order[i] \in ListedDirs(p) <=> \E k \in 1 .. m : order[i] = list[k]
        BY <1>4
      <3>4. ASSUME NEW k \in 1 .. m PROVE order[i] = list[k] <=> i = g[k]
        <4>1. g[k] \in Positions /\ order[g[k]] = list[k]
          BY <1>2, <1>7
        <4> QED
          BY <4>1 DEF SeenInv, PositionInv
      <3> QED
        BY <3>2, <3>3, <3>4
    <2>2. p \in AppliesTo(last)
      BY DEF AppliesTo
    <2>3. DOMAIN order = Positions \cup {last} /\ last \notin Positions
      <3>1. DOMAIN order = 1 .. last
        BY <1>1
      <3> HIDE DEF last
      <3> QED
        BY <1>1, <1>2, <3>1
    <2>4. mine = {i \in Positions : \E k \in 1 .. m : i = g[k]} \cup {last}
      BY <2>1, <2>2, <2>3
    <2>5. \A k \in 1 .. m : g[k] \in Positions
      BY <1>2, <1>7
    <2>6. 1 .. m + 1 = (1 .. m) \cup {m + 1}
      BY <1>1
    <2> HIDE DEF m, last
    <2> QED
      BY <1>7, <2>4, <2>5, <2>6
  <1>11. /\ Cardinality(mine) = m + 1
         /\ \A n \in 1 .. m + 1 : Nth(mine, n) = g[n]
    <2> DEFINE M == m + 1
    <2>1. /\ M \in Nat /\ g \in [1 .. M -> Nat] /\ mine = {g[k] : k \in 1 .. M}
          /\ \A i, j \in 1 .. M : i < j => g[i] < g[j]
      BY <1>1, <1>7, <1>9, <1>10
    <2> HIDE DEF M
    <2>2. /\ Cardinality(mine) = M
          /\ \A n \in 1 .. M : Nth(mine, n) = g[n]
      BY ONLY <2>1, Ranked
    <2> QED
      BY <2>2 DEF M
  <1>12. Append(list, SourceRoot) = [n \in 1 .. m + 1 |-> order[g[n]]]
    <2>1. \A n \in 1 .. m + 1 : Append(list, SourceRoot)[n] = order[g[n]]
      <3> SUFFICES ASSUME NEW n \in 1 .. m + 1 PROVE Append(list, SourceRoot)[n] = order[g[n]]
        OBVIOUS
      <3>1. CASE n = m + 1
        BY <1>1, <1>7, <3>1
      <3>2. CASE n # m + 1
        <4>1. n \in 1 .. m
          BY <1>1, <3>2
        <4> QED
          BY <1>1, <1>7, <4>1
      <3> QED
        BY <3>1, <3>2
    <2>2. Append(list, SourceRoot) \in Seq(Dir) /\ Len(Append(list, SourceRoot)) = m + 1
      <3> HIDE DEF list
      <3> QED
        BY <1>1 DEF m
    <2>3. DOMAIN Append(list, SourceRoot) = 1 .. m + 1
      BY <2>2
    <2>4. Append(list, SourceRoot) = [n \in 1 .. m + 1 |-> Append(list, SourceRoot)[n]]
      <3> DEFINE whole == Append(list, SourceRoot)
      <3>1. whole \in Seq(Dir) /\ DOMAIN whole = 1 .. m + 1
        BY <2>2, <2>3
      <3> HIDE DEF whole
      <3>2. whole = [n \in 1 .. m + 1 |-> whole[n]]
        BY <3>1
      <3> QED
        BY <3>2 DEF whole
    <2> HIDE DEF list, m
    <2> QED
      BY <2>1, <2>4
  <1>13. [n \in 1 .. Cardinality(mine) |-> order[Nth(mine, n)]] = [n \in 1 .. m + 1 |-> order[g[n]]]
    BY <1>11
  <1> QED
    BY <1>12, <1>13

\* The order that merges the lists of all packages shows to each package
\* exactly its own list, followed by the source root.
THEOREM PackagesSeeTheirLists == Spec => []PackageSeesItsList
  <1>1. Init => UsersInv /\ PositionInv
    <2> SUFFICES ASSUME Init PROVE UsersInv /\ PositionInv
      OBVIOUS
    <2>1. Keys = {} /\ Positions = {}
      BY DEF Init, Keys, ToSet, Positions
    <2> QED
      BY <2>1 DEF Init, UsersInv, PositionInv
  <1>2. SeenInv => PackageSeesItsList
    <2> SUFFICES ASSUME SeenInv, pc = "done", NEW p \in Package
                 PROVE  LET mine == {i \in DOMAIN order : p \in AppliesTo(i)}
                            seen == [n \in 1 .. Cardinality(mine) |->
                                        CHOOSE i \in mine : Cardinality({j \in mine : j <= i}) = n]
                        IN  [n \in DOMAIN seen |-> order[seen[n]]] = Append(Paths(p), SourceRoot)
      BY DEF PackageSeesItsList
    <2> DEFINE mine == {i \in DOMAIN order : p \in AppliesTo(i)}
               seen == [n \in 1 .. Cardinality(mine) |-> Nth(mine, n)]
    <2>1. [n \in 1 .. Cardinality(mine) |-> order[Nth(mine, n)]] = Append(Paths(p), SourceRoot)
      BY SeenIsTheList
    <2>2. [n \in DOMAIN seen |-> order[seen[n]]] = [n \in 1 .. Cardinality(mine) |-> order[Nth(mine, n)]]
      <3> HIDE DEF mine
      <3> QED
        OBVIOUS
    <2>3. [n \in DOMAIN seen |-> order[seen[n]]] = Append(Paths(p), SourceRoot)
      BY <2>1, <2>2, Zenon
    <2> QED
      BY <2>3, Zenon DEF Nth
  <1>3. SeenInv /\ [Next]_vars => SeenInv'
    BY UsersStep, PositionStep, TypeStep, TableStep, ReleaseStep, PassStep DEF SeenInv, OrderInv
  <1> QED
    BY InitOrderInv, <1>1, <1>2, <1>3, PTL DEF Spec, SeenInv
=============================================================================
