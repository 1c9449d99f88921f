------------------------ MODULE TransformationsProofs ------------------------
(***************************************************************************)
(* Theorems about Transformations for any package, paths and rules: what a  *)
(* rule removed or replaced does not come back, a remove rule takes away    *)
(* exactly its matches and the directories they leave empty, and a rule     *)
(* that moves or makes something touches only the paths it names.           *)
(***************************************************************************)
EXTENDS Transformations, VirtualFSProofs

-----------------------------------------------------------------------------
(* A part of a package: the rest was taken off.                             *)

Part(t, u) ==
    /\ TreeInv(u) /\ Born(u) = Born(t) /\ Attached(u) \subseteq Attached(t)
    /\ \A m \in Attached(u) :
           /\ Trail(u)[m] = Trail(t)[m]
           /\ u.kind[m] = t.kind[m] /\ u.parent[m] = t.parent[m] /\ u.name[m] = t.name[m]

LEMMA PartTrans ==
    ASSUME NEW t, NEW u, NEW v, Part(t, u), Part(u, v)
    PROVE  Part(t, v)
  BY DEF Part

LEMMA ShrunkIsPart ==
    ASSUME NEW t, NEW u, NEW n, Shrunk(t, u, n)
    PROVE  Part(t, u)
  BY DEF Part, Shrunk, Beside, Born

\* Of nodes that are still attached, the same ones are above as before.
LEMMA PartBelow ==
    ASSUME NEW t, TreeInv(t), NEW u, Part(t, u), NEW a \in Attached(u), NEW b
    PROVE  /\ Below(u, a, b) <=> Below(t, a, b)
           /\ Below(t, a, b) => b \in Attached(u)
  <1>1. Rooted(u) /\ Rooted(t) /\ Attached(u) \subseteq Born(u) /\ Attached(t) \subseteq Born(t)
        /\ a \in Attached(t)
    BY AttachedUp DEF Part, TreeInv, Sound
  <1>2. b \notin Attached(u) => ~ Below(t, a, b)
    <2> DEFINE S == Attached(u)
    <2> SUFFICES ASSUME b \notin S PROVE Avoids(t, a, b)
      BY DEF Below
    <2>1. \A m \in S : t.parent[m] \in S \cup {NoNode}
      BY <1>1, AttachedUp DEF Part, Rooted
    <2>2. S \in SUBSET (Born(t) \ {b}) /\ a \in S
      BY <1>1 DEF Part
    <2> HIDE DEF S
    <2> QED
      BY <2>1, <2>2 DEF Avoids
  <1>3. b \notin Attached(u) => ~ Below(u, a, b)
    BY <1>1, AboveAttached
  <1>4. CASE b \in Attached(u)
    <2>1. Below(u, a, b) <=> Begins(Trail(u)[b], Trail(u)[a])
      BY <1>4, BelowIsPrefix DEF Part, Below
    <2>2. Below(t, a, b) <=> Begins(Trail(t)[b], Trail(t)[a])
      BY <1>1, <1>4, BelowIsPrefix DEF Part, Below
    <2> QED
      BY <1>4, <2>1, <2>2 DEF Part
  <1> QED
    BY <1>2, <1>3, <1>4

-----------------------------------------------------------------------------
(* What the removal of one match takes off.                                 *)

\* The nodes G were taken off their parents; the others are listed as before.
Gone(t, u, G) ==
    /\ u.kind = t.kind /\ u.name = t.name
    /\ \A m \in Node \ G :
           /\ u.parent[m] = t.parent[m] /\ u.last[m] = t.last[m]
           /\ \A e \in Node : t.child[e][t.name[m]] = m => u.child[e][t.name[m]] = m

LEMMA DetachIsGone ==
    ASSUME NEW t, TreeInv(t), NEW n \in Attached(t) \ {Root}
    PROVE  Gone(t, Detach(t, n), {n})
  <1> DEFINE u == Detach(t, n)
  <1>1. Detaches(t, u, n) /\ t \in Trees /\ n \in Node
    BY DetachIsSafe, AttachedUp DEF TreeInv, Sound, Rooted, Born
  <1>2. t.child[t.parent[n]][t.name[n]] = n
    BY AttachedUp, NodeAssumption DEF TreeInv, Sound, Complete, Born
  <1> HIDE DEF u
  <1>3. ASSUME NEW m \in Node \ {n}
        PROVE  /\ u.parent[m] = t.parent[m] /\ u.last[m] = t.last[m]
               /\ \A e \in Node : t.child[e][t.name[m]] = m => u.child[e][t.name[m]] = m
    <2>1. u.parent[m] = t.parent[m] /\ u.last[m] = t.last[m]
      BY <1>1 DEF Detaches, Trees
    <2>2. ASSUME NEW e \in Node, t.child[e][t.name[m]] = m PROVE u.child[e][t.name[m]] = m
      <3>1. t.name[m] \in Name
        BY <1>1 DEF Trees
      <3> QED
        BY <1>1, <1>2, <2>2, <3>1 DEF Detaches
    <2> QED
      BY <2>1, <2>2
  <1> QED
    BY <1>1, <1>3 DEF Gone, Detaches, u

\* m was taken off, and emptied directories above it up to top.
Stripped(t, u, m, top) ==
    /\ top \in Attached(t) \ {Root}
    /\ Shrunk(t, u, top)
    /\ Below(t, m, top)
    /\ \A x \in Attached(t) : Below(t, x, top) => Below(t, x, m) \/ Below(t, m, x)
    /\ \E G \in SUBSET Attached(t) : Gone(t, u, G) /\ \A x \in G : Below(t, m, x)

LEMMA StripFirst ==
    ASSUME NEW t, TreeInv(t), NEW m \in Attached(t) \ {Root}
    PROVE  Stripped(t, Detach(t, m), m, m)
  <1>1. Gone(t, Detach(t, m), {m}) /\ Shrunk(t, Detach(t, m), m)
    BY DetachIsGone, DetachShrinks
  <1>2. {m} \in SUBSET Attached(t) /\ \A x \in {m} : Below(t, m, x)
    BY BelowItself
  <1> QED
    BY <1>1, <1>2, BelowItself DEF Stripped

LEMMA StripMore ==
    ASSUME NEW t, TreeInv(t), NEW m, NEW top, NEW v, Stripped(t, v, m, top),
           t.parent[top] # Root, Empty(v, t.parent[top])
    PROVE  Stripped(t, Detach(v, t.parent[top]), m, t.parent[top])
  <1> DEFINE at == t.parent[top]
             u == Detach(v, at)
  <1>1. top \in Attached(t) \ {Root} /\ Shrunk(t, v, top) /\ TreeInv(v) /\ Rooted(t)
    BY DEF Stripped, Shrunk, TreeInv, Sound
  <1>2. at \in Attached(v) \ {Root} /\ at \in Attached(t) /\ at # NoNode
    BY <1>1, ParentIsBeside, AttachedUp, NodeAssumption DEF Shrunk, Born
  <1>3. Shrunk(t, u, at) /\ Shrunk(v, u, at)
    BY <1>1, <1>2, ShrunkUp, DetachShrinks
  <1>4. Below(t, m, at)
    <2>1. Below(t, top, at)
      BY <1>1, <1>2, AttachedUp, BelowItself, BelowUp
    <2> QED
      BY <2>1, BelowTrans DEF Stripped
  <1>5. ASSUME NEW x \in Attached(t), Below(t, x, at)
        PROVE  Below(t, x, m) \/ Below(t, m, x)
    <2>1. CASE Below(t, x, top)
      BY <2>1 DEF Stripped
    <2>2. CASE ~ Below(t, x, top)
      <3>1. x \in Attached(v)
        BY <1>1, <2>2 DEF Shrunk, Beside, Below
      <3>2. x = at
        <4> SUFFICES ASSUME x # at PROVE FALSE
          OBVIOUS
        <4>1. x \in Beside(v, at)
          BY <1>1, <1>2, <3>1, NothingInEmpty
        <4>2. x \in Beside(t, at)
          BY <1>3, <4>1 DEF Shrunk
        <4> QED
          BY <1>5, <4>2 DEF Beside, Below
      <3> QED
        BY <1>4, <3>2
    <2> QED
      BY <2>1, <2>2
  <1>6. \E G \in SUBSET Attached(t) : Gone(t, u, G) /\ \A x \in G : Below(t, m, x)
    <2>1. PICK G \in SUBSET Attached(t) : Gone(t, v, G) /\ \A x \in G : Below(t, m, x)
      BY DEF Stripped
    <2>2. Gone(v, u, {at})
      BY <1>1, <1>2, DetachIsGone
    <2> HIDE DEF u, at
    <2>3. Gone(t, u, G \cup {at})
      BY <2>1, <2>2 DEF Gone
    <2>4. G \cup {at} \in SUBSET Attached(t) /\ \A x \in G \cup {at} : Below(t, m, x)
      BY <1>2, <1>4, <2>1
    <2> QED
      BY <2>3, <2>4
  <1> QED
    BY <1>2, <1>3, <1>4, <1>5, <1>6 DEF Stripped

\* Where the removal of m ends: at a directory that is not empty, or at the root.
EndsAt(t, u, m, top) ==
    /\ Stripped(t, u, m, top)
    /\ t.parent[top] = Root \/ ~ Empty(u, t.parent[top])

LEMMA PrunedIsStripped ==
    ASSUME NEW t, TreeInv(t), NEW m \in Attached(t) \ {Root}
    PROVE  \E top : EndsAt(t, Pruned(Detach(t, m), t.parent[m]), m, top)
  <1> DEFINE Strip(e) == \E top : Stripped(t, e[1], m, top) /\ e[2] = t.parent[top]
             V == {e \in Trees \X Node : Strip(e)}
             u == Detach(t, m)
             d == t.parent[m]
  <1>1. Rooted(t) /\ t \in Trees /\ Attached(t) \subseteq Node
    BY AttachedUp DEF TreeInv, Sound, Rooted, Born
  <1>2. ASSUME NEW e, NEW top, Stripped(t, e[1], m, top), e[2] = t.parent[top]
        PROVE  TreeInv(e[1]) /\ e[2] \in Attached(e[1]) /\ e[1] \in Trees /\ e[2] \in Node
    <2>1. top \in Attached(t) \ {Root} /\ Shrunk(t, e[1], top)
      BY <1>2 DEF Stripped
    <2>2. e[2] \in Attached(e[1]) /\ e[2] \in Attached(t) /\ TreeInv(e[1])
      BY <1>1, <1>2, <2>1, ParentIsBeside DEF Shrunk
    <2> QED
      BY <1>1, <2>2 DEF TreeInv, Sound, Rooted
  <1>3. <<u, d>> \in V
    <2>1. Stripped(t, u, m, m)
      BY StripFirst
    <2> HIDE DEF u, d
    <2>2. Strip(<<u, d>>)
      BY <2>1 DEF d
    <2>3. u \in Trees /\ d \in Node
      <3> DEFINE e == <<u, d>>
      <3>1. Stripped(t, e[1], m, m) /\ e[2] = t.parent[m]
        BY <2>1 DEF d
      <3>2. e[1] \in Trees /\ e[2] \in Node
        BY <1>2, <3>1
      <3> QED
        BY <3>2
    <2> QED
      BY <2>2, <2>3
  <1>4. ASSUME NEW e \in V
        PROVE  /\ TreeInv(e[1]) /\ e[2] \in Attached(e[1])
               /\ PruneStep(e) \in V
               /\ PruneStep(e) = e => e[2] = Root \/ ~ Empty(e[1], e[2])
    <2>1. PICK top : Stripped(t, e[1], m, top) /\ e[2] = t.parent[top]
      OBVIOUS
    <2>2. TreeInv(e[1]) /\ e[2] \in Attached(e[1])
      BY <1>2, <2>1
    <2>3. CASE e[2] = Root \/ ~ Empty(e[1], e[2])
      BY <2>2, <2>3 DEF PruneStep
    <2>4. CASE e[2] # Root /\ Empty(e[1], e[2])
      <3> DEFINE w == Detach(e[1], e[2])
                 p == e[1].parent[e[2]]
      <3>1. PruneStep(e) = <<w, p>>
        BY <2>4 DEF PruneStep
      <3>2. Stripped(t, w, m, e[2])
        BY <2>1, <2>4, StripMore
      <3>3. p = t.parent[e[2]]
        BY <2>1, <2>2 DEF Stripped, Shrunk
      <3>4. w # e[1]
        <4>1. Shrunk(e[1], w, e[2])
          BY <2>2, <2>4, DetachShrinks
        <4> HIDE DEF w
        <4> QED
          BY <2>2, <4>1, BelowItself DEF Shrunk, Beside, Below
      <3> HIDE DEF w, p
      <3>5. w \in Trees /\ p \in Node
        <4> DEFINE f == <<w, p>>
        <4>1. Stripped(t, f[1], m, e[2]) /\ f[2] = t.parent[e[2]]
          BY <3>2, <3>3
        <4>2. f[1] \in Trees /\ f[2] \in Node
          BY <1>2, <4>1
        <4> QED
          BY <4>2
      <3>6. Strip(<<w, p>>)
        BY <3>2, <3>3
      <3>7. <<w, p>> \in V /\ <<w, p>> # e
        <4>1. <<w, p>>[1] = w
          OBVIOUS
        <4> QED
          BY <3>4, <3>5, <3>6, <4>1
      <3> QED
        BY <2>2, <3>1, <3>7
    <2> QED
      BY <2>3, <2>4
  <1> HIDE DEF V, u, d
  <1>5. PICK e \in V : Pruned(u, d) = e[1] /\ PruneStep(e) = e
    BY <1>3, <1>4, PruneEnds
  <1>6. PICK top : Stripped(t, e[1], m, top) /\ e[2] = t.parent[top]
    BY DEF V
  <1>7. EndsAt(t, e[1], m, top)
    BY <1>4, <1>5, <1>6 DEF EndsAt
  <1> QED
    BY <1>5, <1>7 DEF u, d

\* Nothing is pruned from a directory that has something.
LEMMA PruneNothing ==
    ASSUME NEW t, NEW d, ~ Empty(t, d)
    PROVE  Pruned(t, d) = t
  <1> DEFINE V == {<<t, d>>}
  <1>1. PruneStep(<<t, d>>) = <<t, d>>
    BY DEF PruneStep
  <1>2. <<t, d>> \in V /\ \A e \in V : PruneStep(e) \in V
    BY <1>1
  <1> HIDE DEF V
  <1>3. \E g \in [0 .. Cardinality(Node) -> V] : PruneRun(t, d, g)
    BY <1>2, PruneRuns
  <1>4. PICK g \in [0 .. Cardinality(Node) -> V] : Pruned(t, d) = g[Cardinality(Node)][1]
    BY <1>3 DEF PruneRun
  <1>5. g[Cardinality(Node)] = <<t, d>>
    <2>1. Cardinality(Node) \in 0 .. Cardinality(Node)
      BY FS_CardinalityType, NodeAssumption
    <2> QED
      BY <2>1 DEF V
  <1> QED
    BY <1>4, <1>5

-----------------------------------------------------------------------------
(* What a remove rule has done when it has handled the matches P, and has   *)
(* the matches l left, of a package that was b and is now t.                *)

\* t has nothing of the handled matches.  What else is missing was emptied, and
\* nothing above a match is left that is empty.
Removing(b, t, P, keep) ==
    /\ \A n \in Attached(t) : \A q \in P : ~ Below(b, n, q)
    /\ \A n \in Attached(b) \ Attached(t) :
           \E q \in P : Below(b, n, q) \/ (~ keep /\ n # Root /\ Below(b, q, n))
    /\ ~ keep => \A n \in Attached(t) \ {Root} :
           (\E q \in P : Below(b, q, n)) => ~ Empty(t, n)

\* A match that is left was not taken off, though it may be below what was.
StillListed(b, t, m) ==
    /\ t.parent[m] = b.parent[m] /\ t.name[m] = b.name[m] /\ t.last[m] = b.last[m]
    /\ t.child[b.parent[m]][b.name[m]] = m

RemoveState(b, t, l, P, keep) ==
    /\ TreeInv(b) /\ Part(b, t)
    /\ l \subseteq Attached(b) /\ P \subseteq Attached(b)
    /\ \A m \in l \ {Root} : StillListed(b, t, m)
    /\ Removing(b, t, P, keep)

\* The next match: nothing that is left is above it.
Topmost(b, l, m) == m \in l /\ \A o \in l \ {m} : ~ Below(b, m, o)

RemovedOf(t, m, keep) ==
    IF keep THEN Unlinked(t, m) ELSE Pruned(Unlinked(t, m), t.parent[m])

\* The removal of a match that is in the package.
LEMMA RemovalTakes ==
    ASSUME NEW t, TreeInv(t), NEW m \in Attached(t) \ {Root}, NEW keep \in BOOLEAN
    PROVE  \E top : /\ Stripped(t, RemovedOf(t, m, keep), m, top)
                    /\ IF keep THEN top = m ELSE EndsAt(t, RemovedOf(t, m, keep), m, top)
  <1>1. Unlinked(t, m) = Detach(t, m)
    BY DEF Unlinked, Attached
  <1>2. CASE keep
    BY <1>1, <1>2, StripFirst DEF RemovedOf
  <1>3. CASE ~ keep
    BY <1>1, <1>3, PrunedIsStripped DEF RemovedOf, EndsAt
  <1> QED
    BY <1>2, <1>3

\* A match in what was removed is no longer there: nothing happens.
LEMMA RemovalLeaves ==
    ASSUME NEW b, NEW t, NEW l, NEW P, NEW keep \in BOOLEAN, RemoveState(b, t, l, P, keep),
           NEW m \in l \ {Root}, m \notin Attached(t)
    PROVE  RemovedOf(t, m, keep) = t
  <1>1. m \in Attached(b) /\ Attached(b) \subseteq Born(b) /\ Born(b) = Born(t) /\ Born(t) \subseteq Node
        /\ b \in Trees
    BY AttachedUp DEF RemoveState, Part, TreeInv, Sound, Rooted, Born
  <1>2. Unlinked(t, m) = t
    BY <1>1 DEF Unlinked, Attached
  <1>3. t.parent[m] = b.parent[m] /\ t.child[b.parent[m]][b.name[m]] = m /\ b.name[m] \in Name
    BY <1>1 DEF RemoveState, StillListed, Trees
  <1>4. ~ Empty(t, t.parent[m])
    BY <1>1, <1>3, NodeAssumption DEF Empty
  <1> QED
    BY <1>2, <1>4, PruneNothing DEF RemovedOf

LEMMA MissedKeeps ==
    ASSUME NEW b, NEW t, NEW l, NEW P, NEW keep \in BOOLEAN, RemoveState(b, t, l, P, keep),
           NEW m \in l \ {Root}, m \notin Attached(t)
    PROVE  RemoveState(b, t, l \ {m}, P \cup {m}, keep)
  <1>1. /\ TreeInv(b) /\ Part(b, t) /\ Rooted(b) /\ m \in Attached(b) /\ Attached(b) \subseteq Born(b)
        /\ Attached(t) \subseteq Attached(b)
        /\ Removing(b, t, P, keep)
    BY AttachedUp DEF RemoveState, TreeInv, Sound, Part
  <1>2. \A n \in Attached(t) : ~ Below(b, n, m)
    BY <1>1, PartBelow
  <1>3. ASSUME ~ keep, NEW n \in Attached(t) \ {Root}, Below(b, m, n)
        PROVE  ~ Empty(t, n)
    <2>1. PICK q \in P : Below(b, m, q) \/ Below(b, q, m)
      BY <1>1 DEF Removing
    <2>2. Below(b, q, n)
      <3>1. CASE Below(b, q, m)
        BY <1>3, <3>1, BelowTrans
      <3>2. CASE Below(b, m, q)
        <4>1. Below(b, n, q) \/ Below(b, q, n)
          BY <1>1, <1>3, <3>2, Comparable
        <4> QED
          BY <1>1, <4>1 DEF Removing
      <3> QED
        BY <2>1, <3>1, <3>2
    <2> QED
      BY <1>1, <1>3, <2>2 DEF Removing
  <1>4. Removing(b, t, P \cup {m}, keep)
    BY <1>1, <1>2, <1>3 DEF Removing
  <1> QED
    BY <1>1, <1>4 DEF RemoveState

LEMMA RemovalKeeps ==
    ASSUME NEW b, NEW t, NEW l, NEW P, NEW keep \in BOOLEAN, RemoveState(b, t, l, P, keep),
           NEW m, m # Root, Topmost(b, l, m), m \in Attached(t)
    PROVE  /\ RemoveState(b, RemovedOf(t, m, keep), l \ {m}, P \cup {m}, keep)
           /\ Part(t, RemovedOf(t, m, keep))
  <1> DEFINE w == RemovedOf(t, m, keep)
  <1>1. /\ TreeInv(b) /\ Part(b, t) /\ TreeInv(t) /\ Rooted(b) /\ Rooted(t) /\ m \in Attached(b)
        /\ Attached(b) \subseteq Born(b) /\ Born(b) = Born(t) /\ Born(b) \subseteq Node
        /\ Attached(t) \subseteq Attached(b) /\ b \in Trees /\ m \in l
        /\ Removing(b, t, P, keep)
    BY AttachedUp DEF RemoveState, TreeInv, Sound, Part, Topmost, Rooted, Born
  <1>2. \A x \in Attached(t) : \A y : Below(t, x, y) <=> Below(b, x, y)
    BY <1>1, PartBelow
  <1>3. PICK top : /\ Stripped(t, w, m, top)
                   /\ IF keep THEN top = m ELSE EndsAt(t, w, m, top)
    BY <1>1, RemovalTakes
  <1> HIDE DEF w
  <1>4. /\ top \in Attached(t) \ {Root} /\ Shrunk(t, w, top) /\ Below(t, m, top)
        /\ \A x \in Attached(t) : Below(t, x, top) => Below(t, x, m) \/ Below(t, m, x)
        /\ TreeInv(w)
    BY <1>3 DEF Stripped, Shrunk
  <1>5. Part(t, w) /\ Part(b, w)
    BY <1>1, <1>4, ShrunkIsPart, PartTrans
  <1>6. Attached(w) = {x \in Attached(t) : ~ Below(t, x, top)}
    BY <1>4 DEF Shrunk, Beside, Below
  <1>7. ASSUME NEW x \in l \ {m}, x # Root PROVE StillListed(b, w, x)
    <2>1. PICK G \in SUBSET Attached(t) : Gone(t, w, G) /\ \A y \in G : Below(t, m, y)
      BY <1>3 DEF Stripped
    <2>2. x \notin G
      BY <1>1, <1>2, <2>1 DEF Topmost
    <2>3. x \in Node /\ b.parent[x] \in Node /\ StillListed(b, t, x) /\ x \in Attached(b)
      <3>1. x \in Attached(b) /\ StillListed(b, t, x)
        BY <1>7 DEF RemoveState
      <3> QED
        BY <1>1, <1>7, <3>1, AttachedUp
    <2> QED
      BY <2>1, <2>2, <2>3 DEF Gone, StillListed
  <1>8. ASSUME NEW n \in Attached(w) PROVE ~ Below(b, n, m)
    <2> SUFFICES ASSUME Below(t, n, m) PROVE FALSE
      BY <1>2, <1>6
    <2> QED
      BY <1>4, <1>6, BelowTrans
  <1>9. ASSUME NEW n \in Attached(b) \ Attached(w)
        PROVE  \E q \in P \cup {m} : Below(b, n, q) \/ (~ keep /\ n # Root /\ Below(b, q, n))
    <2>1. CASE n \notin Attached(t)
      BY <1>1, <2>1 DEF Removing
    <2>2. CASE n \in Attached(t)
      <3>1. Below(t, n, top)
        BY <1>6, <2>2
      <3>2. n # Root
        BY <1>1, <1>4, <3>1, RootBelow
      <3>3. CASE keep
        BY <1>2, <1>3, <2>2, <3>1, <3>3
      <3>4. CASE ~ keep
        BY <1>1, <1>2, <1>4, <2>2, <3>1, <3>2, <3>4
      <3> QED
        BY <3>3, <3>4
    <2> QED
      BY <2>1, <2>2
  <1>10. ASSUME ~ keep, NEW n \in Attached(w) \ {Root}, NEW q \in P \cup {m}, Below(b, q, n)
         PROVE  ~ Empty(w, n)
    <2>1. n \in Attached(t) /\ ~ Below(t, n, top)
      BY <1>6
    <2>2. t.parent[top] = Root \/ ~ Empty(w, t.parent[top])
      BY <1>3, <1>10 DEF EndsAt
    <2>3. t.parent[top] \in Attached(w)
      BY <1>1, <1>4, ParentIsBeside DEF Shrunk
    <2>4. CASE q = m
      <3>1. Below(t, top, n)
        <4>1. Below(t, m, n)
          BY <1>1, <1>2, <1>10, <2>4
        <4> QED
          BY <1>1, <1>4, <2>1, <4>1, Comparable
      <3>2. Below(t, t.parent[top], n)
        BY <1>1, <1>4, <2>1, <3>1, BelowUp, BelowItself
      <3>3. CASE t.parent[top] = n
        BY <2>2, <3>3
      <3>4. CASE t.parent[top] # n
        <4> SUFFICES ASSUME Empty(w, n) PROVE FALSE
          OBVIOUS
        <4>1. t.parent[top] \in Beside(w, n)
          BY <1>4, <2>3, <3>4, NothingInEmpty
        <4>2. Below(w, t.parent[top], n)
          BY <1>1, <1>5, <2>3, <3>2, PartBelow
        <4> QED
          BY <4>1, <4>2 DEF Beside, Below
      <3> QED
        BY <3>3, <3>4
    <2>5. CASE q \in P
      <3>1. ~ Empty(t, n)
        BY <1>1, <1>10, <2>1, <2>5 DEF Removing
      <3>2. PICK k \in Name : t.child[n][k] # NoNode
        BY <3>1 DEF Empty
      <3> DEFINE y == t.child[n][k]
      <3>3. y \in Attached(t) /\ t.parent[y] = n /\ t.name[y] = k
        BY <1>1, <2>1, <3>2 DEF TreeInv, Sound
      <3> HIDE DEF y
      <3>4. CASE y \in Attached(w)
        <4>1. w.parent[y] = n /\ w.name[y] = k /\ n # NoNode
          BY <1>1, <1>5, <2>1, <3>3, <3>4, NodeAssumption DEF Part
        <4>2. w.child[n][k] = y /\ y # NoNode
          BY <1>1, <1>4, <3>3, <3>4, <4>1, NodeAssumption DEF TreeInv, Complete
        <4> QED
          BY <4>2 DEF Empty
      <3>5. CASE y \notin Attached(w)
        <4>1. Below(t, y, top)
          BY <1>6, <3>3, <3>5
        <4>2. y = top
          BY <1>1, <2>1, <3>3, <4>1, BelowUp
        <4> QED
          BY <2>2, <3>3, <4>2
      <3> QED
        BY <3>4, <3>5
    <2> QED
      BY <2>4, <2>5
  <1>11. Removing(b, w, P \cup {m}, keep)
    <2>1. \A n \in Attached(w) : \A q \in P \cup {m} : ~ Below(b, n, q)
      BY <1>1, <1>6, <1>8 DEF Removing
    <2> QED
      BY <1>9, <1>10, <2>1 DEF Removing
  <1>12. RemoveState(b, w, l \ {m}, P \cup {m}, keep)
    <2>1. l \subseteq Attached(b) /\ P \subseteq Attached(b)
      BY DEF RemoveState
    <2> QED
      BY <1>1, <1>5, <1>7, <1>11, <2>1 DEF RemoveState
  <1> QED
    BY <1>5, <1>12 DEF w

-----------------------------------------------------------------------------
(* The operations keep a package in order and bring nothing back.           *)

NoReturn(t, u) ==
    /\ InOrder(u)
    /\ Born(t) \subseteq Born(u)
    /\ \A n \in Attached(u) : n \in Born(t) => n \in Attached(t)

LEMMA NoReturnTrans ==
    ASSUME NEW t, NEW u, NEW v, NoReturn(t, u), NoReturn(u, v)
    PROVE  NoReturn(t, v)
  BY DEF NoReturn

\* What is attached forgets where it was.
LEMMA AttachIsInOrder ==
    ASSUME NEW t, NEW X, NEW n, NEW d, MayAttach(t, X, n, d), Complete(t, X \ {n}),
           \A m \in X \ {n} : t.last[m] = NoPath
    PROVE  InOrder(Attach(t, n, d)) /\ Attached(Attach(t, n, d)) \subseteq X
  <1> DEFINE u == Attach(t, n, d)
             c == t.child[d][t.name[n]]
  <1>1. /\ Attaches(t, u, n, d) /\ Sound(u, X)
        /\ Complete(t, X \ {n}) => Complete(u, X)
    BY AttachKeeps
  <1> HIDE DEF u
  <1>2. TreeInv(u) /\ Attached(u) \subseteq X
    BY <1>1, Narrow
  <1>3. Rooted(u) /\ Attached(u) \subseteq Born(u) /\ Attached(u) \subseteq Node
    BY <1>2, AttachedUp DEF TreeInv, Sound, Born
  <1>4. /\ u.last[n] = NoPath
        /\ \A m \in Node \ {n, c} : u.last[m] = t.last[m]
        /\ c # NoNode => c # n /\ c # Root
        /\ \A m \in Node : u.parent[m] = IF m = n THEN d ELSE IF m = c THEN NoNode ELSE t.parent[m]
    BY <1>1 DEF Attaches
  <1>5. ASSUME NEW m \in Attached(u) PROVE u.last[m] = NoPath
    <2>1. m \in Node /\ m \in Born(u) /\ m \in X /\ m # NoNode
      BY <1>2, <1>3, NodeAssumption
    <2> HIDE DEF c
    <2>2. CASE m = c
      <3>1. u.parent[m] = NoNode /\ m # Root
        BY <1>4, <2>1, <2>2
      <3>2. u.parent[m] \in Attached(u)
        BY <1>3, <1>5, <2>1, <3>1, AttachedUp
      <3> QED
        BY <1>3, <3>1, <3>2, NodeAssumption
    <2>3. CASE m # c
      BY <1>4, <2>1, <2>3
    <2> QED
      BY <2>2, <2>3
  <1> QED
    BY <1>2, <1>5 DEF InOrder, u

LEMMA CreateIsInOrder ==
    ASSUME NEW t, InOrder(t), Unborn(t) # {}, NEW d \in Attached(t), IsDir(t, d),
           NEW k \in Name, NEW kind \in {"dir", "file", "symlink"}
    PROVE  NoReturn(t, Create(t, d, k, kind))
  <1> DEFINE n == Fresh(t)
             v == Made(t, n, k, kind)
             u == Create(t, d, k, kind)
             X == Attached(t) \cup {n}
  <1>1. u = Attach(v, n, d)
    BY DEF Create, Made
  <1>2. n \in Unborn(t) /\ TreeInv(t)
    BY DEF Fresh, InOrder
  <1> HIDE DEF n
  <1>3. Ready(t, v, X, n, d, k, kind)
    BY <1>2, MadeMayAttach DEF TreeInv
  <1> HIDE DEF v, u
  <1>4. MayAttach(v, X, n, d) /\ Complete(v, X \ {n}) /\ v.last = t.last
    BY <1>3 DEF Ready, InOrder, TreeInv
  <1>5. \A m \in X \ {n} : v.last[m] = NoPath
    BY <1>4 DEF InOrder
  <1>6. InOrder(u) /\ Attached(u) \subseteq X
    BY <1>1, <1>4, <1>5, AttachIsInOrder
  <1>7. Born(u) = Born(t) \cup {n}
    <2>1. Attaches(v, u, n, d)
      BY <1>1, <1>4, AttachKeeps
    <2>2. u.kind = v.kind
      BY <2>1 DEF Attaches
    <2> QED
      BY <1>3, <2>2 DEF Ready, Born
  <1>8. n \notin Born(t)
    BY <1>2 DEF Unborn
  <1> QED
    BY <1>6, <1>7, <1>8 DEF NoReturn, u

LEMMA MoveIsInOrder ==
    ASSUME NEW t, InOrder(t), NEW n \in Attached(t) \ {Root},
           NEW d \in Beside(t, n), IsDir(t, d)
    PROVE  /\ NoReturn(t, SetParent(t, n, d))
           /\ SetParent(t, n, d).kind = t.kind /\ SetParent(t, n, d).name = t.name
           /\ d \in Attached(SetParent(t, n, d))
           /\ \A m \in Node : t.name[m] # t.name[n] => SetParent(t, n, d).last[m] = t.last[m]
  <1> DEFINE v == Moving(t, n)
             u == SetParent(t, n, d)
  <1>1. u = Attach(v, n, d)
    BY DEF SetParent, Moving, Unlist, WithoutItem, Attached
  <1>2. MoveReady(t, v, n, d)
    BY MovingMayAttach DEF InOrder, TreeInv
  <1> HIDE DEF v, u
  <1>3. MayAttach(v, Attached(t), n, d) /\ Complete(v, Attached(t) \ {n}) /\ v.last = t.last
        /\ v.kind = t.kind /\ v.name = t.name
    BY <1>2 DEF MoveReady, InOrder, TreeInv
  <1>4. InOrder(u) /\ Attached(u) \subseteq Attached(t)
    BY <1>1, <1>3, AttachIsInOrder DEF InOrder
  <1>5. Attaches(v, u, n, d)
    BY <1>1, <1>3, AttachKeeps
  <1>6. u.kind = t.kind /\ u.name = t.name
    BY <1>3, <1>5 DEF Attaches
  <1>7. d \in Attached(u)
    <2>1. Placed(t, u, n, d, t.name[n])
      BY MovePlaces DEF InOrder, u
    <2> QED
      BY <2>1, PlacedAttached
  <1>8. ASSUME NEW m \in Node, t.name[m] # t.name[n] PROVE u.last[m] = t.last[m]
    <2> DEFINE c == v.child[d][v.name[n]]
    <2>1. m \notin {n, c}
      <3> SUFFICES ASSUME m = c PROVE FALSE
        BY <1>8
      <3>1. Sound(v, Attached(t)) /\ d \in Attached(t) /\ t.name[n] \in Name /\ m # NoNode
        <4>1. Sound(v, Attached(t))
          BY <1>3 DEF MayAttach
        <4>2. TreeInv(t)
          BY DEF InOrder
        <4>3. t \in Trees /\ Attached(t) \subseteq Node
          BY <4>2 DEF TreeInv, Sound, Rooted, Attached, Born
        <4>4. d \in Attached(t) /\ n \in Attached(t)
          BY DEF Beside
        <4> QED
          BY <4>1, <4>3, <4>4, NodeAssumption DEF Trees
      <3>2. \A e \in Attached(t), k \in Name : v.child[e][k] # NoNode => v.name[v.child[e][k]] = k
        BY <3>1 DEF Sound
      <3>3. v.name[c] = v.name[n]
        BY <1>3, <3>1, <3>2
      <3> QED
        BY <1>3, <1>8, <3>3
    <2> QED
      BY <1>3, <1>5, <2>1 DEF Attaches
  <1> QED
    BY <1>4, <1>6, <1>7, <1>8 DEF NoReturn, Born, u

LEMMA RenameIsInOrder ==
    ASSUME NEW t, InOrder(t), NEW n \in Born(t) \ {Root}, NEW k \in Name
    PROVE  NoReturn(t, Rename(t, n, k))
  <1> DEFINE u == Rename(t, n, k)
  <1>1. TreeInv(u) /\ t \in Trees /\ Born(t) \subseteq Node
    BY RenameIsSafe DEF InOrder, TreeInv, Sound, Rooted, Born
  <1>2. CASE k = t.name[n]
    BY <1>2 DEF Rename, NoReturn
  <1>3. CASE k # t.name[n] /\ Detached(t, n)
    <2>1. u = [t EXCEPT !.name[n] = k]
      BY <1>3 DEF Rename
    <2>2. u.kind = t.kind /\ u.parent = t.parent /\ u.last = t.last
      BY <1>1, <2>1 DEF Trees
    <2> HIDE DEF u
    <2>3. Born(u) = Born(t) /\ Attached(u) = Attached(t)
      BY <2>2, AvoidsByParents
    <2> QED
      BY <1>1, <2>2, <2>3 DEF InOrder, NoReturn, u
  <1>4. CASE k # t.name[n] /\ ~ Detached(t, n)
    <2> DEFINE v == Renaming(t, n, k)
    <2>1. u = Attach(v, n, t.parent[n])
      BY <1>4 DEF Rename, Renaming, Named
    <2>2. n \in Attached(t) /\ n # Root
      BY <1>4 DEF Attached
    <2>3. RenameReady(t, v, n, k)
      BY <2>2, RenamingMayAttach DEF InOrder, TreeInv
    <2> HIDE DEF v, u
    <2>4. /\ MayAttach(v, Attached(t), n, t.parent[n]) /\ Complete(v, Attached(t) \ {n})
          /\ v.kind = t.kind /\ \A m \in Node \ {n} : v.last[m] = t.last[m]
      BY <2>3 DEF RenameReady, InOrder, TreeInv
    <2>5. \A m \in Attached(t) \ {n} : v.last[m] = NoPath
      BY <1>1, <2>4 DEF InOrder, Attached
    <2>6. InOrder(u) /\ Attached(u) \subseteq Attached(t)
      BY <2>1, <2>4, <2>5, AttachIsInOrder
    <2>7. u.kind = t.kind
      <3>1. Attaches(v, u, n, t.parent[n])
        BY <2>1, <2>4, AttachKeeps
      <3> QED
        BY <2>4, <3>1 DEF Attaches
    <2> QED
      BY <2>6, <2>7 DEF NoReturn, Born, u
  <1> QED
    BY <1>2, <1>3, <1>4

LEMMA DetachIsInOrder ==
    ASSUME NEW t, InOrder(t), NEW n \in Attached(t) \ {Root}
    PROVE  NoReturn(t, Detach(t, n))
  <1> DEFINE u == Detach(t, n)
  <1>1. TreeInv(t)
    BY DEF InOrder
  <1>2. Shrunk(t, u, n) /\ Gone(t, u, {n})
    BY <1>1, DetachShrinks, DetachIsGone
  <1> HIDE DEF u
  <1>3. TreeInv(u) /\ u.kind = t.kind /\ Attached(u) = Beside(t, n)
    BY <1>2 DEF Shrunk
  <1>4. ASSUME NEW m \in Attached(u) PROVE m \in Attached(t) /\ u.last[m] = NoPath
    <2>1. m \in Attached(t) /\ m # n /\ m \in Node
      BY <1>3, <1>4 DEF Beside, Avoids, Attached, Born
    <2> QED
      BY <1>2, <2>1 DEF Gone, InOrder
  <1> QED
    BY <1>3, <1>4 DEF InOrder, NoReturn, Born, u

\* A package that only got new nodes.
Grown(t, u) ==
    /\ NoReturn(t, u) /\ Attached(t) \subseteq Attached(u)
    /\ \A m \in Born(t) :
           /\ u.kind[m] = t.kind[m] /\ u.name[m] = t.name[m]
           /\ u.parent[m] = t.parent[m] /\ u.last[m] = t.last[m]
    /\ \A m \in Attached(t) : Trail(u)[m] = Trail(t)[m]

LEMMA GrownTrans ==
    ASSUME NEW t, NEW u, NEW v, Grown(t, u), Grown(u, v)
    PROVE  Grown(t, v)
  BY NoReturnTrans DEF Grown, NoReturn

\* n is new in d under the name k, and has nothing in it.
Added(t, u, n, d, k) ==
    /\ n \in Unborn(t) /\ Unborn(u) = Unborn(t) \ {n}
    /\ Attached(u) = Attached(t) \cup {n}
    /\ Trail(u)[n] = Append(Trail(t)[d], k)
    /\ Empty(u, n)

LEMMA CreateGrows ==
    ASSUME NEW t, InOrder(t), Unborn(t) # {}, NEW d \in Attached(t), IsDir(t, d),
           NEW k \in Name, NEW kind \in {"dir", "file", "symlink"}, t.child[d][k] = NoNode
    PROVE  /\ Grown(t, Create(t, d, k, kind))
           /\ Added(t, Create(t, d, k, kind), Fresh(t), d, k)
           /\ Create(t, d, k, kind).kind[Fresh(t)] = kind
  <1> DEFINE u == Create(t, d, k, kind)
             n == Fresh(t)
  <1>1. TreeInv(t) /\ NoReturn(t, u)
    BY CreateIsInOrder DEF InOrder
  <1>2. n \in Unborn(t) /\ Placed(t, u, n, d, k) /\ u.kind[n] = kind
    BY <1>1, CreatePlaces
  <1>3. \A m \in Born(t) :
            /\ m \in Born(u) /\ u.name[m] = t.name[m] /\ u.parent[m] = t.parent[m]
            /\ u.last[m] = t.last[m] /\ u.kind[m] = t.kind[m]
    BY <1>1, CreateLeaves
  <1> HIDE DEF u, n
  <1>4. /\ Rooted(t) /\ Attached(t) \subseteq Born(t) /\ Born(t) \subseteq Node /\ n \notin Born(t)
        /\ n \in Node /\ Born(u) = Born(t) \cup {n} /\ Rooted(u) /\ TreeInv(u) /\ u.parent[n] = d
    BY <1>1, <1>2, AttachedUp DEF TreeInv, Sound, Born, Unborn, Placed
  <1>5. \A m \in Born(t) : Avoids(t, m, n)
    <2>1. Born(t) \in SUBSET (Born(t) \ {n}) /\ \A e \in Born(t) : t.parent[e] \in Born(t) \cup {NoNode}
      BY <1>4 DEF Rooted
    <2> QED
      BY <2>1 DEF Avoids
  <1>6. Replaced(t, n, d, k) = NoNode
    BY DEF Replaced
  <1>7. Staying(t, n, NoNode) = Attached(t)
    BY <1>4, <1>5 DEF Staying, Beside
  <1>8. Coming(t, u, n) = {n}
    <2>1. ~ Avoids(t, n, n)
      BY DEF Avoids
    <2> QED
      BY <1>4, <1>5, <2>1 DEF Coming
  <1>9. /\ Attached(u) = Attached(t) \cup {n}
        /\ \A m \in Attached(t) : Trail(u)[m] = Trail(t)[m]
        /\ Trail(u)[n] = Append(Trail(t)[d], k)
    BY <1>2, <1>6, <1>7, <1>8, PlacedAttached
  <1>10. Unborn(u) = Unborn(t) \ {n}
    BY <1>4 DEF Unborn
  <1>11. Empty(u, n)
    <2> SUFFICES ASSUME NEW l \in Name, u.child[n][l] # NoNode PROVE FALSE
      BY DEF Empty
    <2> DEFINE c == u.child[n][l]
    <2>1. c \in Attached(u) /\ u.parent[c] = n
      BY <1>4, <1>9 DEF TreeInv, Sound
    <2> HIDE DEF c
    <2>2. CASE c = n
      BY <1>4, <2>1, <2>2
    <2>3. CASE c \in Born(t)
      BY <1>3, <1>4, <2>1, <2>3, NodeAssumption DEF Rooted
    <2> QED
      BY <1>4, <1>9, <2>1, <2>2, <2>3
  <1>12. Grown(t, u)
    BY <1>1, <1>3, <1>9 DEF Grown
  <1> QED
    BY <1>2, <1>9, <1>10, <1>11, <1>12 DEF Added, u, n

-----------------------------------------------------------------------------
(* The directories above a destination.                                     *)

Beginning(p, i) == SubSeq(p, 1, i)

\* There are nodes for what is missing of the path q.
RoomFor(t, q) ==
    \A i \in 1 .. Len(q) : NodeAt(t, Beginning(q, i)) = NoNode =>
        Cardinality(Unborn(t)) >= Len(q) + 1 - i

LEMMA BeginningIs ==
    ASSUME NEW S, NEW q \in Seq(S), NEW i \in 0 .. Len(q)
    PROVE  /\ Beginning(q, i) \in Seq(S) /\ Len(Beginning(q, i)) = i
           /\ \A j \in 1 .. i : Beginning(q, i)[j] = q[j]
           /\ i # 0 => /\ Beginning(q, i) # <<>>
                       /\ Front(Beginning(q, i)) = Beginning(q, i - 1)
                       /\ Last(Beginning(q, i)) = q[i]
                       /\ Beginning(q, i) = Append(Beginning(q, i - 1), q[i])
  <1> DEFINE b == Beginning(q, i)
  <1>1. b = [j \in 1 .. i |-> q[j]] /\ Len(q) \in Nat
    BY DEF Beginning
  <1>2. \A j \in 1 .. i : q[j] \in S
    BY <1>1
  <1>3. b \in Seq(S) /\ Len(b) = i
    BY <1>1, <1>2
  <1>4. ASSUME i # 0
        PROVE  b # <<>> /\ Front(b) = Beginning(q, i - 1) /\ Last(b) = q[i]
               /\ b = Append(Beginning(q, i - 1), q[i])
    <2> DEFINE c == Beginning(q, i - 1)
    <2>1. c = [j \in 1 .. (i - 1) |-> q[j]] /\ i - 1 \in Nat
      BY <1>1, <1>4 DEF Beginning
    <2>2. c \in Seq(S) /\ Len(c) = i - 1
      BY <1>1, <1>2, <2>1
    <2>3. b # <<>> /\ Last(b) = q[i]
      BY <1>1, <1>3, <1>4 DEF Last
    <2>4. Front(b) = c
      BY <1>1, <1>3, <1>4, <2>1 DEF Front
    <2>5. b = Append(c, q[i])
      BY <1>1, <1>2, <1>3, <2>1, <2>2
    <2> QED
      BY <2>3, <2>4, <2>5
  <1> QED
    BY <1>1, <1>3, <1>4

\* Nothing is below a path that leads nowhere.
LEMMA MissingStays ==
    ASSUME NEW t \in Trees, NEW S, NEW q \in Seq(S), NEW i \in 1 .. Len(q), NEW j \in i .. Len(q),
           NodeAt(t, Beginning(q, i)) = NoNode
    PROVE  NodeAt(t, Beginning(q, j)) = NoNode
  <1> DEFINE There == {l \in i .. Len(q) : NodeAt(t, Beginning(q, l)) # NoNode}
  <1> SUFFICES ASSUME There # {} PROVE FALSE
    OBVIOUS
  <1>1. There \in SUBSET Nat
    OBVIOUS
  <1>2. PICK l \in There : \A o \in There : l <= o
    <2> HIDE DEF There
    <2> QED
      BY <1>1, LeastOf
  <1>3. l \in i .. Len(q) /\ NodeAt(t, Beginning(q, l)) # NoNode /\ l # i /\ Len(q) \in Nat
    OBVIOUS
  <1>4. l - 1 \in i .. Len(q) /\ l \in 0 .. Len(q) /\ l # 0
    BY <1>3
  <1> DEFINE b == Beginning(q, l)
  <1>5. b \in PathNames /\ At(t)[b] # NoNode /\ b # <<>> /\ Front(b) = Beginning(q, l - 1)
    <2>1. b # <<>> /\ Front(b) = Beginning(q, l - 1)
      BY <1>4, BeginningIs
    <2> QED
      BY <1>3, <2>1 DEF NodeAt
  <1> HIDE DEF b
  <1>6. Front(b) \in PathNames /\ At(t)[Front(b)] # NoNode
    <2>1. Front(b) \in PathNames
      BY <1>5, PathNamesAre
    <2>2. b \in PathNames \ {<<>>}
      BY <1>5
    <2>3. At(t)[b] = IF At(t)[Front(b)] = NoNode THEN NoNode ELSE t.child[At(t)[Front(b)]][Last(b)]
      BY <2>2, AtDefined
    <2> QED
      BY <1>5, <2>1, <2>3
  <1>7. NodeAt(t, Beginning(q, l - 1)) # NoNode
    BY <1>5, <1>6 DEF NodeAt
  <1>8. l - 1 \in There
    BY <1>4, <1>7
  <1> HIDE DEF There
  <1> QED
    BY <1>2, <1>3, <1>8

LEMMA UnbornIsFinite ==
    ASSUME NEW t
    PROVE  IsFiniteSet(Unborn(t)) /\ Cardinality(Unborn(t)) \in Nat
  <1>1. IsFiniteSet(Unborn(t))
    BY NodeAssumption, FS_Subset DEF Unborn
  <1> QED
    BY <1>1, FS_CardinalityType

\* As many nodes as are missing of the path are enough wherever it begins to be
\* missing.
LEMMA RoomIsEnough ==
    ASSUME NEW t \in Trees, NEW S, NEW q \in Seq(S),
           LET there == {i \in 1 .. Len(q) : NodeAt(t, SubSeq(q, 1, i)) # NoNode}
           IN  Cardinality(Unborn(t)) >= Len(q) - Cardinality(there)
    PROVE  RoomFor(t, q)
  <1> DEFINE There == {i \in 1 .. Len(q) : NodeAt(t, Beginning(q, i)) # NoNode}
  <1>1. Cardinality(Unborn(t)) >= Len(q) - Cardinality(There)
    BY DEF Beginning
  <1> SUFFICES ASSUME NEW i \in 1 .. Len(q), NodeAt(t, Beginning(q, i)) = NoNode
               PROVE  Cardinality(Unborn(t)) >= Len(q) + 1 - i
    BY DEF RoomFor
  <1>2. There \subseteq 1 .. (i - 1)
    <2> SUFFICES ASSUME NEW j \in There, j >= i PROVE FALSE
      OBVIOUS
    <2>1. j \in i .. Len(q)
      OBVIOUS
    <2>2. NodeAt(t, Beginning(q, j)) = NoNode
      BY <2>1, MissingStays
    <2> QED
      BY <2>2
  <1> HIDE DEF There
  <1>3. IsFiniteSet(1 .. (i - 1)) /\ Cardinality(1 .. (i - 1)) = i - 1
    <2>1. i - 1 \in Nat
      OBVIOUS
    <2>2. IsFiniteSet(1 .. (i - 1)) /\ Cardinality(1 .. (i - 1)) =
              IF 1 > i - 1 THEN 0 ELSE i - 1 - 1 + 1
      BY <2>1, FS_Interval
    <2> QED
      BY <2>1, <2>2
  <1>4. Cardinality(There) <= i - 1 /\ IsFiniteSet(There)
    BY <1>2, <1>3, FS_Subset
  <1>5. Cardinality(There) \in Nat /\ Cardinality(Unborn(t)) \in Nat /\ Len(q) \in Nat /\ i \in Nat
    BY <1>4, FS_CardinalityType, UnbornIsFinite
  <1> QED
    BY <1>1, <1>4, <1>5

\* One step into the path p of t, by the name k.
EnsureStep(t, e, k) ==
    LET next == IF e.dir = NoNode THEN NoNode ELSE e.tree.child[e.dir][k]
    IN  IF e.dir = NoNode THEN e
        ELSE IF next = NoNode
        THEN [tree |-> Create(e.tree, e.dir, k, "dir"), dir |-> Fresh(e.tree)]
        ELSE [tree |-> t, dir |-> IF IsDir(t, next) THEN next ELSE NoNode]

Walks == [tree : Trees, dir : Node \cup {NoNode}]

\* The directory at u is d, found or made by the first i names of p.
Ensured(t, p, i, u, d) ==
    /\ Grown(t, u)
    /\ d \in Attached(u) /\ IsDir(u, d) /\ Trail(u)[d] = Beginning(p, i)
    /\ \A m \in Attached(u) \ Attached(t) : \E j \in 1 .. i : Trail(u)[m] = Beginning(p, j)

Ensuring(t, q, p, i, e) ==
    /\ e \in Walks
    /\ e.dir # NoNode =>
           /\ Ensured(t, p, i, e.tree, e.dir)
           /\ \/ e.tree = t
              \/ Empty(e.tree, e.dir) /\ Cardinality(Unborn(e.tree)) >= Len(q) - i

\* q is p, or more, and there is room for it.
RoomToGo(t, q, p) ==
    /\ InOrder(t) /\ p \in Seq(Name) /\ Len(q) \in Nat /\ RoomFor(t, q)
    /\ Len(p) <= Len(q) /\ \A i \in 1 .. Len(p) : Beginning(p, i) = Beginning(q, i)

LEMMA EnsureStepKeeps ==
    ASSUME NEW t, NEW q, NEW p, RoomToGo(t, q, p), NEW i \in 1 .. Len(p), NEW e,
           Ensuring(t, q, p, i - 1, e)
    PROVE  Ensuring(t, q, p, i, EnsureStep(t, e, p[i]))
  <1> DEFINE w == EnsureStep(t, e, p[i])
             k == p[i]
  <1>1. /\ p \in Seq(Name) /\ Len(p) \in Nat /\ Len(q) \in Nat /\ Len(p) <= Len(q) /\ k \in Name
        /\ i \in 0 .. Len(p) /\ i - 1 \in 0 .. Len(p) /\ i # 0 /\ InOrder(t) /\ TreeInv(t) /\ i \in Nat
    BY DEF RoomToGo, InOrder
  <1>2. /\ Beginning(p, i) \in Seq(Name) /\ Beginning(p, i) # <<>>
        /\ Front(Beginning(p, i)) = Beginning(p, i - 1) /\ Last(Beginning(p, i)) = k
        /\ Beginning(p, i) = Append(Beginning(p, i - 1), k)
    BY <1>1, BeginningIs
  <1>3. CASE e.dir = NoNode
    <2>1. w = e
      BY <1>3 DEF EnsureStep
    <2> QED
      BY <1>3, <2>1 DEF Ensuring
  <1>4. CASE e.dir # NoNode
    <2> DEFINE v == e.tree
               d == e.dir
               next == v.child[d][k]
    <2>1. /\ Ensured(t, p, i - 1, v, d) /\ e \in Walks
          /\ v = t \/ (Empty(v, d) /\ Cardinality(Unborn(v)) >= Len(q) - (i - 1))
      BY <1>4 DEF Ensuring
    <2>2. /\ Grown(t, v) /\ InOrder(v) /\ TreeInv(v)
          /\ d \in Attached(v) /\ IsDir(v, d) /\ Trail(v)[d] = Beginning(p, i - 1)
          /\ \A m \in Attached(v) \ Attached(t) : \E j \in 1 .. (i - 1) : Trail(v)[m] = Beginning(p, j)
      BY <2>1 DEF Ensured, Grown, NoReturn, InOrder
    <2>3. w = IF next = NoNode
              THEN [tree |-> Create(v, d, k, "dir"), dir |-> Fresh(v)]
              ELSE [tree |-> t, dir |-> IF IsDir(t, next) THEN next ELSE NoNode]
      BY <1>4 DEF EnsureStep
    <2> HIDE DEF w, k
    <2>4. CASE next = NoNode
      <3>1. Cardinality(Unborn(v)) >= Len(q) + 1 - i
        <4>1. CASE v = t
          <5> DEFINE b == Beginning(p, i)
          <5>1. NodeAt(t, b) = NoNode
            <6> SUFFICES ASSUME b \in PathNames PROVE At(t)[b] = NoNode
              BY DEF NodeAt
            <6>1. b \in PathNames \ {<<>>} /\ t \in Trees
              BY <1>1, <1>2 DEF TreeInv, Sound, Rooted
            <6>2. At(t)[b] = IF At(t)[Front(b)] = NoNode THEN NoNode
                             ELSE t.child[At(t)[Front(b)]][Last(b)]
              BY <6>1, AtDefined
            <6>3. At(t)[Beginning(p, i - 1)] = d
              BY <2>2, <4>1, TrailFinds
            <6> HIDE DEF b
            <6> QED
              BY <1>2, <2>4, <4>1, <6>2, <6>3 DEF b
          <5>2. b = Beginning(q, i) /\ i \in 1 .. Len(q)
            BY <1>1 DEF RoomToGo
          <5> HIDE DEF b
          <5> QED
            BY <4>1, <5>1, <5>2 DEF RoomToGo, RoomFor
        <4>2. CASE v # t
          BY <1>1, <2>1, <4>2
        <4> QED
          BY <4>1, <4>2
      <3>2. Unborn(v) # {} /\ Cardinality(Unborn(v)) \in Nat /\ IsFiniteSet(Unborn(v))
        BY <1>1, <3>1, UnbornIsFinite, FS_EmptySet
      <3> DEFINE u == Create(v, d, k, "dir")
                 n == Fresh(v)
      <3>3. Grown(v, u) /\ Added(v, u, n, d, k) /\ u.kind[n] = "dir"
        BY <1>1, <2>2, <2>4, <3>2, CreateGrows DEF k
      <3>4. w = [tree |-> u, dir |-> n]
        BY <2>3, <2>4
      <3> HIDE DEF u, n, v, d
      <3>5. Cardinality(Unborn(u)) >= Len(q) - i
        <4>1. Cardinality(Unborn(u)) = Cardinality(Unborn(v)) - 1
          BY <3>2, <3>3, FS_RemoveElement DEF Added
        <4> QED
          BY <1>1, <3>1, <3>2, <4>1
      <3>6. Grown(t, u) /\ u \in Trees
        BY <2>2, <3>3, GrownTrans DEF Grown, NoReturn, InOrder, TreeInv, Sound, Rooted
      <3>7. n \in Attached(u) /\ IsDir(u, n) /\ Trail(u)[n] = Beginning(p, i) /\ Empty(u, n) /\ n \in Node
        BY <1>2, <2>2, <3>3 DEF Added, IsDir, Unborn
      <3>8. ASSUME NEW m \in Attached(u) \ Attached(t)
            PROVE  \E j \in 1 .. i : Trail(u)[m] = Beginning(p, j)
        <4>1. CASE m = n
          BY <1>1, <3>7, <4>1
        <4>2. CASE m # n
          <5>1. m \in Attached(v) /\ Trail(u)[m] = Trail(v)[m]
            BY <3>3, <4>2 DEF Added, Grown
          <5>2. PICK j \in 1 .. (i - 1) : Trail(v)[m] = Beginning(p, j)
            BY <2>2, <5>1
          <5>3. j \in 1 .. i
            BY <1>1
          <5> QED
            BY <5>1, <5>2, <5>3
        <4> QED
          BY <4>1, <4>2
      <3>9. Ensured(t, p, i, u, n)
        BY <3>6, <3>7, <3>8 DEF Ensured
      <3>10. w \in Walks /\ w.tree = u /\ w.dir = n
        BY <3>4, <3>6, <3>7 DEF Walks
      <3> QED
        BY <3>5, <3>7, <3>9, <3>10 DEF Ensuring, w
    <2>5. CASE next # NoNode
      <3>1. v = t
        BY <1>1, <2>1, <2>5 DEF Empty, k
      <3> DEFINE c == t.child[d][k]
      <3>2. c \in Attached(t) /\ Trail(t)[c] = Beginning(p, i)
        <4>1. k \in Name /\ d \in Attached(t)
          BY <1>1, <2>2, <3>1 DEF k
        <4>2. Trail(t)[c] = Append(Trail(t)[d], k) /\ c \in Attached(t)
          BY <1>1, <2>5, <3>1, <4>1, ChildPath
        <4> QED
          BY <1>2, <2>2, <3>1, <4>2
      <3>3. w = [tree |-> t, dir |-> IF IsDir(t, c) THEN c ELSE NoNode]
        BY <2>3, <2>5, <3>1
      <3> HIDE DEF c, v, d
      <3>4. t \in Trees /\ c \in Node /\ Grown(t, t)
        BY <1>1, <3>2, AttachedUp DEF TreeInv, Sound, Rooted, Grown, NoReturn, Attached, Born
      <3>5. w \in Walks /\ w.tree = t /\ w.dir = IF IsDir(t, c) THEN c ELSE NoNode
        BY <3>3, <3>4 DEF Walks
      <3>6. IsDir(t, c) => Ensured(t, p, i, t, c)
        BY <3>2, <3>4 DEF Ensured
      <3> QED
        BY <3>5, <3>6 DEF Ensuring, w
    <2> QED
      BY <2>4, <2>5
  <1> QED
    BY <1>3, <1>4

\* Whatever takes these steps from the root as long as they are sound is sound.
LEMMA EnsuringAll ==
    ASSUME NEW t, NEW q, NEW p, RoomToGo(t, q, p), NEW g, g[0] = [tree |-> t, dir |-> Root],
           \A i \in 1 .. Len(p) : Ensuring(t, q, p, i - 1, g[i - 1]) =>
               g[i] = EnsureStep(t, g[i - 1], p[i])
    PROVE  \A i \in 0 .. Len(p) : Ensuring(t, q, p, i, g[i])
  <1>1. p \in Seq(Name) /\ Len(p) \in Nat /\ InOrder(t) /\ TreeInv(t) /\ Rooted(t) /\ t \in Trees
    BY DEF RoomToGo, InOrder, TreeInv, Sound, Rooted
  <1>2. Ensuring(t, q, p, 0, g[0])
    <2>1. Root \in Attached(t) /\ IsDir(t, Root) /\ Trail(t)[Root] = <<>> /\ Beginning(p, 0) = <<>>
      BY <1>1, AttachedUp, TrailDefined DEF TreeInv, Sound, Beginning
    <2>2. Grown(t, t)
      BY <1>1 DEF Grown, NoReturn
    <2>3. Ensured(t, p, 0, t, Root)
      BY <2>1, <2>2 DEF Ensured
    <2>4. g[0] \in Walks /\ g[0].tree = t /\ g[0].dir = Root
      BY <1>1, NodeAssumption DEF Walks
    <2> QED
      BY <2>3, <2>4 DEF Ensuring
  <1> DEFINE B == {i \in 0 .. Len(p) : ~ Ensuring(t, q, p, i, g[i])}
  <1> SUFFICES ASSUME B # {} PROVE FALSE
    OBVIOUS
  <1>3. B \in SUBSET Nat
    OBVIOUS
  <1>4. PICK i \in B : \A j \in B : i <= j
    <2> HIDE DEF B
    <2> QED
      BY <1>3, LeastOf
  <1>5. i # 0
    BY <1>2
  <1>6. i \in 1 .. Len(p) /\ i - 1 \in 0 .. Len(p) /\ ~ (i <= i - 1)
    BY <1>1, <1>5
  <1>7. Ensuring(t, q, p, i - 1, g[i - 1])
    BY <1>4, <1>6
  <1>8. Ensuring(t, q, p, i, g[i])
    <2>1. g[i] = EnsureStep(t, g[i - 1], p[i])
      BY <1>6, <1>7
    <2> QED
      BY <1>6, <1>7, <2>1, EnsureStepKeeps
  <1> QED
    BY <1>8

\* The directory, if there is one, is the one of the path, and all that was made
\* are the directories above it and itself.
LEMMA EnsureIsSound ==
    ASSUME NEW t, NEW q, NEW p, RoomToGo(t, q, p)
    PROVE  Ensuring(t, q, p, Len(p), EnsureIsDirectory(t, p))
  <1> DEFINE D == 0 .. Len(p)
             V == Walks
             Top == {0}
             par == [i \in D |-> i - 1]
             first == [tree |-> t, dir |-> Root]
             base == [i \in Top |-> first]
             step == [e \in D \X V |-> IF EnsureStep(t, e[2], p[e[1]]) \in V
                                       THEN EnsureStep(t, e[2], p[e[1]]) ELSE e[2]]
             Eq(f) == f = [i \in 0 .. Len(p) |->
                IF i = 0 THEN [tree |-> t, dir |-> Root]
                ELSE LET at == f[i - 1]
                         next == IF at.dir = NoNode THEN NoNode ELSE at.tree.child[at.dir][p[i]]
                     IN  IF at.dir = NoNode THEN at
                         ELSE IF next = NoNode
                         THEN [tree |-> Create(at.tree, at.dir, p[i], "dir"),
                               dir |-> Fresh(at.tree)]
                         ELSE [tree |-> t, dir |-> IF IsDir(t, next) THEN next ELSE NoNode]]
  <1>1. Len(p) \in Nat /\ t \in Trees /\ Root \in Node
    BY NodeAssumption DEF RoomToGo, InOrder, TreeInv, Sound, Rooted
  <1>2. first \in V
    BY <1>1 DEF Walks
  <1>3. Top \in SUBSET D /\ base \in [Top -> V] /\ step \in [D \X V -> V]
    <2> HIDE DEF V, first
    <2> QED
      BY <1>1, <1>2
  <1>4. Founded(D, Top, par)
    <2>1. ASSUME NEW S \in SUBSET D, S # {} PROVE \E m \in S : m \in Top \/ par[m] \notin S
      <3>1. S \in SUBSET Nat
        BY <1>1
      <3>2. PICK i \in S : \A j \in S : i <= j
        BY <2>1, <3>1, LeastOf
      <3>3. i \in D /\ ~ (i <= i - 1)
        BY <1>1
      <3> QED
        BY <3>2, <3>3
    <2> QED
      BY <1>1, <2>1 DEF Founded
  <1>5. \E f \in [D -> V] : Recurs(f, D, Top, par, base, step)
    <2> HIDE DEF D, V, Top, par, base, step
    <2> QED
      BY <1>3, <1>4, RecursionDefines
  <1>6. PICK f \in [D -> V] : Recurs(f, D, Top, par, base, step)
    BY <1>5
  <1>7. f[0] = first
    <2>1. 0 \in D /\ 0 \in Top /\ base[0] = first
      BY <1>1
    <2> HIDE DEF D, Top, base, step, par, V, first
    <2> QED
      BY <1>6, <2>1 DEF Recurs
  <1>8. ASSUME NEW i \in 1 .. Len(p), EnsureStep(t, f[i - 1], p[i]) \in V
        PROVE  f[i] = EnsureStep(t, f[i - 1], p[i])
    <2>1. i \in D /\ i - 1 \in D /\ i # 0 /\ par[i] = i - 1
      BY <1>1
    <2>2. f[i] = step[<<i, f[i - 1]>>] /\ <<i, f[i - 1]>> \in D \X V
      <3>1. i \notin Top
        BY <2>1
      <3> HIDE DEF D, V, Top, par, base, step
      <3> QED
        BY <1>6, <2>1, <3>1 DEF Recurs
    <2> HIDE DEF V, D, par
    <2> QED
      BY <1>8, <2>1, <2>2
  <1>9. \A i \in 0 .. Len(p) : Ensuring(t, q, p, i, f[i])
    <2>1. \A i \in 1 .. Len(p) : Ensuring(t, q, p, i - 1, f[i - 1]) =>
              f[i] = EnsureStep(t, f[i - 1], p[i])
      <3> SUFFICES ASSUME NEW i \in 1 .. Len(p), Ensuring(t, q, p, i - 1, f[i - 1])
                   PROVE  f[i] = EnsureStep(t, f[i - 1], p[i])
        OBVIOUS
      <3>1. Ensuring(t, q, p, i, EnsureStep(t, f[i - 1], p[i]))
        BY EnsureStepKeeps
      <3>2. EnsureStep(t, f[i - 1], p[i]) \in V
        BY <3>1 DEF Ensuring
      <3> QED
        BY <1>8, <3>2
    <2> QED
      BY <1>7, <2>1, EnsuringAll
  <1>10. \A i \in 1 .. Len(p) : f[i] = EnsureStep(t, f[i - 1], p[i])
    <2> SUFFICES ASSUME NEW i \in 1 .. Len(p) PROVE f[i] = EnsureStep(t, f[i - 1], p[i])
      OBVIOUS
    <2>1. Ensuring(t, q, p, i - 1, f[i - 1])
      BY <1>1, <1>9
    <2>2. Ensuring(t, q, p, i, EnsureStep(t, f[i - 1], p[i]))
      BY <2>1, EnsureStepKeeps
    <2>3. EnsureStep(t, f[i - 1], p[i]) \in V
      BY <2>2 DEF Ensuring
    <2> QED
      BY <1>8, <2>3
  <1>11. Eq(f)
    <2> DEFINE w == [i \in 0 .. Len(p) |->
                IF i = 0 THEN [tree |-> t, dir |-> Root]
                ELSE LET at == f[i - 1]
                         next == IF at.dir = NoNode THEN NoNode ELSE at.tree.child[at.dir][p[i]]
                     IN  IF at.dir = NoNode THEN at
                         ELSE IF next = NoNode
                         THEN [tree |-> Create(at.tree, at.dir, p[i], "dir"),
                               dir |-> Fresh(at.tree)]
                         ELSE [tree |-> t, dir |-> IF IsDir(t, next) THEN next ELSE NoNode]]
    <2>1. \A i \in D : f[i] = w[i]
      <3> SUFFICES ASSUME NEW i \in D PROVE f[i] = w[i]
        OBVIOUS
      <3>1. CASE i = 0
        BY <1>7, <3>1
      <3>2. CASE i # 0
        <4>1. i \in 1 .. Len(p)
          BY <1>1, <3>2
        <4>2. w[i] = EnsureStep(t, f[i - 1], p[i])
          BY <3>2 DEF EnsureStep
        <4> QED
          BY <1>10, <4>1, <4>2
      <3> QED
        BY <3>1, <3>2
    <2>2. DOMAIN w = D /\ w = [i \in D |-> w[i]]
      OBVIOUS
    <2>3. f = w
      <3> HIDE DEF w, D, V
      <3> QED
        BY <1>6, <2>1, <2>2
    <2> QED
      BY <2>3
  <1> DEFINE g == CHOOSE h : Eq(h)
  <1>12. Eq(g)
    BY <1>11
  <1>13. EnsureIsDirectory(t, p) = g[Len(p)]
    BY DEF EnsureIsDirectory
  <1> HIDE DEF g
  <1>14. g[0] = first /\ \A i \in 1 .. Len(p) : g[i] = EnsureStep(t, g[i - 1], p[i])
    <2>1. g[0] = first
      BY <1>1, <1>12
    <2>2. ASSUME NEW i \in 1 .. Len(p) PROVE g[i] = EnsureStep(t, g[i - 1], p[i])
      <3>1. i \in 0 .. Len(p) /\ i # 0
        BY <1>1
      <3> QED
        BY <1>12, <3>1 DEF EnsureStep
    <2> QED
      BY <2>1, <2>2
  <1>15. \A i \in 0 .. Len(p) : Ensuring(t, q, p, i, g[i])
    BY <1>14, EnsuringAll
  <1> QED
    BY <1>1, <1>13, <1>15

LEMMA PruneIsInOrder ==
    ASSUME NEW t, InOrder(t), NEW n \in Attached(t)
    PROVE  NoReturn(t, Pruned(t, n))
  <1> DEFINE V == {e \in Trees \X Node : NoReturn(t, e[1]) /\ e[2] \in Attached(e[1])}
  <1>1. <<t, n>> \in V
    <2>1. t \in Trees /\ n \in Node /\ NoReturn(t, t)
      BY DEF InOrder, TreeInv, Sound, Rooted, NoReturn, Attached, Born
    <2> QED
      BY <2>1
  <1>2. ASSUME NEW e \in V PROVE PruneStep(e) \in V
    <2>1. CASE e[2] = Root \/ ~ Empty(e[1], e[2])
      BY <2>1 DEF PruneStep
    <2>2. CASE ~ (e[2] = Root \/ ~ Empty(e[1], e[2]))
      <3> DEFINE w == e[1]
                 m == e[2]
                 u == Detach(w, m)
      <3>1. /\ NoReturn(t, w) /\ InOrder(w) /\ TreeInv(w) /\ Rooted(w) /\ m \in Attached(w) \ {Root}
        BY <2>2 DEF NoReturn, InOrder, TreeInv, Sound
      <3> HIDE DEF w, m
      <3>2. NoReturn(t, u)
        BY <3>1, DetachIsInOrder, NoReturnTrans
      <3>3. w.parent[m] \in Attached(u)
        <4>1. Attached(u) = Beside(w, m)
          BY <3>1, DetachShrinks DEF Shrunk
        <4> QED
          BY <3>1, <4>1, ParentIsBeside
      <3>4. u \in Trees /\ w.parent[m] \in Node
        BY <3>2, <3>3 DEF NoReturn, InOrder, TreeInv, Sound, Rooted, Attached, Born
      <3>5. PruneStep(e) = <<u, w.parent[m]>>
        BY <2>2 DEF PruneStep, w, m
      <3> HIDE DEF u
      <3> QED
        BY <3>2, <3>3, <3>4, <3>5
    <2> QED
      BY <2>1, <2>2
  <1>3. \A e \in V : TreeInv(e[1]) /\ e[2] \in Attached(e[1])
    BY DEF NoReturn, InOrder
  <1> HIDE DEF V
  <1>4. \E e \in V : Pruned(t, n) = e[1] /\ PruneStep(e) = e
    BY <1>1, <1>2, <1>3, PruneEnds
  <1> QED
    BY <1>4 DEF V

LEMMA RemovalIsInOrder ==
    ASSUME NEW t, InOrder(t), NEW m \in Attached(t) \ {Root}, NEW keep \in BOOLEAN
    PROVE  NoReturn(t, RemovedOf(t, m, keep))
  <1> DEFINE u == Detach(t, m)
  <1>1. Unlinked(t, m) = u
    BY DEF Unlinked, Attached
  <1>2. TreeInv(t) /\ Rooted(t)
    BY DEF InOrder, TreeInv, Sound
  <1>3. NoReturn(t, u)
    BY DetachIsInOrder
  <1>4. t.parent[m] \in Attached(u)
    BY <1>2, DetachShrinks, ParentIsBeside DEF Shrunk
  <1> HIDE DEF u
  <1>5. NoReturn(u, Pruned(u, t.parent[m]))
    BY <1>3, <1>4, PruneIsInOrder DEF NoReturn
  <1>6. NoReturn(t, Pruned(u, t.parent[m]))
    BY <1>3, <1>5, NoReturnTrans
  <1> QED
    BY <1>1, <1>3, <1>6 DEF RemovedOf

-----------------------------------------------------------------------------
(* Matches.                                                                 *)

\* A match rule finds what is in the package.
LEMMA FoundIsAttached ==
    ASSUME NEW t, TreeInv(t), NEW match \in MatchRules
    PROVE  FindIter(t, match) \subseteq Attached(t)
  <1>1. Sound(t, Attached(t))
    BY DEF TreeInv
  <1>2. \A p \in PathNames : At(t)[p] # NoNode => At(t)[p] \in Attached(t)
    BY <1>1, FoundByTrail
  <1>3. \A p : NodeAt(t, p) # NoNode => NodeAt(t, p) \in Attached(t)
    BY <1>2 DEF NodeAt
  <1>4. CASE match.kind = "exact"
    <2>1. FindIter(t, match) = {NodeAt(t, match.path)} \ {NoNode}
      BY <1>4 DEF FindIter
    <2> QED
      BY <1>3, <2>1
  <1>5. CASE match.kind = "in"
    <2> DEFINE d == NodeAt(t, match.path)
    <2>1. FindIter(t, match) = IF d = NoNode \/ ~ IsDir(t, d) THEN {}
                               ELSE {t.child[d][k] : k \in match.names} \ {NoNode}
      BY <1>5 DEF FindIter
    <2>2. match.names \subseteq Name
      BY <1>5 DEF MatchRules
    <2>3. d # NoNode => d \in Attached(t)
      BY <1>3
    <2> HIDE DEF d
    <2>4. \A e \in Attached(t), k \in Name : t.child[e][k] # NoNode => t.child[e][k] \in Attached(t)
      BY <1>1 DEF Sound
    <2> QED
      BY <2>1, <2>2, <2>3, <2>4
  <1>6. CASE match.kind = "anywhere"
    <2>1. FindIter(t, match) = {At(t)[p] : p \in {p \in PathsOf(t) \ {<<>>} : Last(p) \in match.names}}
      BY <1>6 DEF FindIter
    <2> QED
      BY <1>2, <2>1 DEF PathsOf
  <1>7. CASE match.kind = "everything"
    <2>1. FindIter(t, match) = {At(t)[p] : p \in PathsOf(t)}
      BY <1>7 DEF FindIter
    <2> QED
      BY <1>2, <2>1 DEF PathsOf
  <1> QED
    BY <1>4, <1>5, <1>6, <1>7 DEF MatchRules

\* What is below something that was removed has no path.
LEMMA NoPathBelowLost ==
    ASSUME NEW t, Rooted(t), NEW m \in Born(t) \ Attached(t), t.last[m] = NoPath
    PROVE  PathOf(t)[m] = NoPath
  <1>1. Detached(t, m) /\ m # Root
    BY AttachedUp DEF Attached
  <1>2. Under(t, m) = NoPath
    BY <1>1 DEF Under
  <1>3. PathOf(t)[m] = Joined(t, m, Under(t, m))
    BY <1>1, PathDefined
  <1> QED
    BY <1>2, <1>3 DEF Joined

-----------------------------------------------------------------------------
(* The invariant of the rules.                                              *)

\* The matches of a move are in the package until it begins to move them.  Then
\* one that is lost either has no path, or the name of one that was moved.
MoveState ==
    /\ pc \in {"target", "rename", "move"} => rule \in Rules /\ rule.kind = "move"
    /\ pc \in {"target", "rename"} => left # {} /\ left \subseteq Attached(tree)
    /\ pc = "target" => RoomFor(tree, rule.target)
    /\ pc \in {"rename", "move"} => target \in Attached(tree) /\ IsDir(tree, target)
    /\ pc = "move" =>
           /\ left \subseteq Born(tree)
           /\ \A m \in left \ Attached(tree) : tree.last[m] = NoPath \/ tree.name[m] \in names

DirectoriesState ==
    pc = "mkdirs" => rule \in Rules /\ rule.kind = "mkdirs" /\ pattern \in Nat

\* What a remove rule has done so far is the removal of the nodes P.
RemovedSoFar(b, t, l, keep, paths) ==
    \E P : RemoveState(b, t, l, P, keep) /\ paths = {Trail(b)[n] : n \in P \cup l}

RemovesNow == pc = "remove" \/ (pc = "done" /\ rule.kind = "remove")

RemovingState ==
    /\ RemovesNow =>
           /\ rule \in Rules /\ rule.kind = "remove" /\ pattern \in Nat
           /\ InOrder(before)
           /\ RemovedSoFar(before, tree, left, rule.keep, handled)
    /\ pc = "done" /\ rule.kind = "remove" => left = {}

RulesInv ==
    /\ InOrder(tree) /\ rule \in Rules \cup {NoRule}
    /\ MoveState /\ DirectoriesState /\ RemovingState

\* What a step does to the package, and that the invariant holds of the rest.
Safe == RulesInv' /\ NoReturn(tree, tree')

\* A rule that raises or has nothing more to do.
LEMMA RestIsSafe ==
    ASSUME RulesInv, NoReturn(tree, tree'), rule' \in Rules \cup {NoRule},
           pc' = "failed" \/ (pc' = "done" /\ rule'.kind # "remove")
    PROVE  Safe
  <1>1. pc' \notin {"target", "rename", "move", "mkdirs", "remove"}
    OBVIOUS
  <1>2. MoveState'
    BY <1>1 DEF MoveState
  <1>3. DirectoriesState'
    BY <1>1 DEF DirectoriesState
  <1>4. RemovingState'
    BY <1>1 DEF RemovingState, RemovesNow
  <1> QED
    BY <1>2, <1>3, <1>4 DEF Safe, RulesInv, NoReturn

LEMMA NoReturnSelf ==
    ASSUME RulesInv
    PROVE  NoReturn(tree, tree)
  BY DEF RulesInv, NoReturn

LEMMA RaiseIsSafe ==
    ASSUME RulesInv, Raise
    PROVE  Safe
  <1>1. tree' = tree /\ rule' = rule /\ pc' = "failed"
    BY DEF Raise, Goto
  <1>2. rule' \in Rules \cup {NoRule} /\ NoReturn(tree, tree')
    BY <1>1, NoReturnSelf DEF RulesInv
  <1> QED
    BY <1>1, <1>2, RestIsSafe

LEMMA SkipIsSafe ==
    ASSUME RulesInv, NEW r \in Rules, SkipRule(r)
    PROVE  Safe
  <1>1. tree' = tree /\ rule' = r /\ r.kind # "remove" /\ pc' = "done"
    BY DEF SkipRule, Run
  <1>2. rule' \in Rules \cup {NoRule} /\ NoReturn(tree, tree')
    BY <1>1, NoReturnSelf
  <1> QED
    BY <1>1, <1>2, RestIsSafe

LEMMA StartDirectoriesIsSafe ==
    ASSUME RulesInv, NEW r \in Rules, StartDirectories(r)
    PROVE  Safe
  <1>1. tree' = tree /\ rule' = r /\ r.kind = "mkdirs" /\ pc' = "mkdirs" /\ pattern' = 0
    BY DEF StartDirectories, Run
  <1>2. MoveState' /\ DirectoriesState' /\ RemovingState'
    BY <1>1 DEF MoveState, DirectoriesState, RemovingState, RemovesNow
  <1> QED
    BY <1>1, <1>2, NoReturnSelf DEF Safe, RulesInv

LEMMA StartMoveIsSafe ==
    ASSUME RulesInv, NEW r \in Rules, StartMove(r)
    PROVE  Safe
  <1>1. /\ tree' = tree /\ rule' = r /\ r.kind = "move" /\ MayMake(r.target)
        /\ left' = FindIter(tree, r.match)
        /\ pc' = IF left' = {} THEN "failed" ELSE "target"
    BY DEF StartMove, Run
  <1>2. r.match \in MatchRules /\ r.target \in Seq(Name)
    BY <1>1, TransformationAssumption
  <1>3. InOrder(tree) /\ TreeInv(tree) /\ tree \in Trees
    BY DEF RulesInv, InOrder, TreeInv, Sound, Rooted
  <1>4. left' \subseteq Attached(tree)
    BY <1>1, <1>2, <1>3, FoundIsAttached
  <1>5. RoomFor(tree, r.target)
    BY <1>1, <1>2, <1>3, RoomIsEnough DEF MayMake
  <1>6. CASE left' = {}
    BY <1>1, <1>6, NoReturnSelf, RestIsSafe
  <1>7. CASE left' # {}
    <2>1. pc' = "target"
      BY <1>1, <1>7
    <2>2. MoveState' /\ DirectoriesState' /\ RemovingState'
      BY <1>1, <1>4, <1>5, <1>7, <2>1 DEF MoveState, DirectoriesState, RemovingState, RemovesNow
    <2> QED
      BY <1>1, <2>2, NoReturnSelf DEF Safe, RulesInv
  <1> QED
    BY <1>6, <1>7

LEMMA StartRemoveIsSafe ==
    ASSUME RulesInv, NEW r \in Rules, StartRemove(r)
    PROVE  Safe
  <1>1. /\ tree' = tree /\ rule' = r /\ r.kind = "remove" /\ before' = tree /\ handled' = {}
        /\ left' = {} /\ pc' = "remove" /\ pattern' = 0
    BY DEF StartRemove, Run
  <1>2. InOrder(tree) /\ TreeInv(tree)
    BY DEF RulesInv, InOrder
  <1>3. RemoveState(tree, tree, {}, {}, r.keep)
    <2>1. Part(tree, tree)
      BY <1>2 DEF Part
    <2>2. Removing(tree, tree, {}, r.keep)
      BY DEF Removing
    <2> QED
      BY <1>2, <2>1, <2>2 DEF RemoveState
  <1>4. RemovedSoFar(tree, tree, {}, r.keep, {})
    <2> DEFINE P == {}
    <2>1. {} = {Trail(tree)[n] : n \in P \cup {}}
      OBVIOUS
    <2>2. RemoveState(tree, tree, {}, P, r.keep)
      BY <1>3
    <2> HIDE DEF P
    <2> QED
      BY <2>1, <2>2 DEF RemovedSoFar
  <1>5. RemovingState'
    BY <1>1, <1>2, <1>4 DEF RemovingState
  <1>6. MoveState' /\ DirectoriesState'
    BY <1>1 DEF MoveState, DirectoriesState
  <1> QED
    BY <1>1, <1>5, <1>6, NoReturnSelf DEF Safe, RulesInv

LEMMA NextMatchRuleIsSafe ==
    ASSUME RulesInv, NextMatchRule
    PROVE  Safe
  <1> DEFINE match == rule.matches[pattern + 1]
  <1>1. /\ tree' = tree /\ rule' = rule /\ before' = before /\ pc = "remove" /\ pc' = "remove"
        /\ left = {} /\ left' = FindIter(tree, match) /\ pattern' = pattern + 1
        /\ pattern < Len(rule.matches)
        /\ handled' = handled \cup {Trail(before)[n] : n \in left'}
    BY DEF NextMatchRule, Goto, Handle
  <1>2. /\ rule \in Rules /\ rule.kind = "remove" /\ pattern \in Nat /\ InOrder(before)
        /\ RemovedSoFar(before, tree, left, rule.keep, handled)
        /\ InOrder(tree) /\ TreeInv(tree)
    BY <1>1 DEF RulesInv, RemovingState, RemovesNow, InOrder
  <1>3. match \in MatchRules
    <2>1. rule.matches \in Seq(MatchRules)
      BY <1>2, TransformationAssumption
    <2>2. pattern + 1 \in 1 .. Len(rule.matches)
      BY <1>1, <1>2, <2>1
    <2> QED
      BY <2>1, <2>2
  <1>4. left' \subseteq Attached(tree)
    BY <1>1, <1>2, <1>3, FoundIsAttached
  <1>5. PICK P : RemoveState(before, tree, left, P, rule.keep)
                 /\ handled = {Trail(before)[n] : n \in P \cup left}
    BY <1>2 DEF RemovedSoFar
  <1>6. Part(before, tree) /\ Attached(tree) \subseteq Attached(before)
    BY <1>5 DEF RemoveState, Part
  <1>7. ASSUME NEW m \in left' \ {Root} PROVE StillListed(before, tree, m)
    <2>1. m \in Attached(tree) /\ m \in Attached(before)
      BY <1>4, <1>6
    <2>2. tree.parent[m] = before.parent[m] /\ tree.name[m] = before.name[m]
      BY <1>6, <2>1 DEF Part
    <2>3. tree.last[m] = before.last[m]
      BY <1>2, <2>1 DEF InOrder
    <2>4. tree.child[tree.parent[m]][tree.name[m]] = m
      <3>1. Rooted(tree)
        BY <1>2 DEF TreeInv, Sound
      <3>2. tree.parent[m] # NoNode
        BY <2>1, <3>1, AttachedUp, NodeAssumption DEF Attached, Born
      <3> QED
        BY <1>2, <2>1, <3>2 DEF TreeInv, Complete
    <2> QED
      BY <2>2, <2>3, <2>4 DEF StillListed
  <1>8. RemoveState(before, tree, left', P, rule.keep)
    BY <1>4, <1>5, <1>6, <1>7 DEF RemoveState
  <1>9. handled' = {Trail(before)[n] : n \in P \cup left'}
    BY <1>1, <1>5
  <1>10. RemovedSoFar(before, tree, left', rule.keep, handled')
    BY <1>8, <1>9 DEF RemovedSoFar
  <1>11. RemovingState'
    BY <1>1, <1>2, <1>10 DEF RemovingState
  <1>12. MoveState' /\ DirectoriesState'
    BY <1>1 DEF MoveState, DirectoriesState
  <1> QED
    BY <1>1, <1>2, <1>11, <1>12, NoReturnSelf DEF Safe, RulesInv

LEMMA RemoveEndsIsSafe ==
    ASSUME RulesInv, RemoveEnds
    PROVE  Safe
  <1>1. /\ tree' = tree /\ rule' = rule /\ before' = before /\ pc = "remove" /\ pc' = "done"
        /\ left = {} /\ left' = left /\ pattern' = pattern /\ handled' = handled
    BY DEF RemoveEnds, Goto, locals
  <1>2. RemovingState'
    BY <1>1 DEF RulesInv, RemovingState, RemovesNow
  <1>3. MoveState' /\ DirectoriesState'
    BY <1>1 DEF MoveState, DirectoriesState
  <1> QED
    BY <1>1, <1>2, <1>3, NoReturnSelf DEF Safe, RulesInv

LEMMA RemoveMatchIsSafe ==
    ASSUME RulesInv, NEW m \in Node, RemoveMatch(m)
    PROVE  Safe
  <1>1. /\ tree' = Removed(tree, m) /\ rule' = rule /\ before' = before
        /\ pc = "remove" /\ pc' = "remove" /\ pattern' = pattern /\ handled' = handled
        /\ m \in NextOf(left) /\ m # Root /\ left' = left \ {m}
    BY DEF RemoveMatch, Goto
  <1>2. /\ rule \in Rules /\ rule.kind = "remove" /\ pattern \in Nat /\ InOrder(before)
        /\ RemovedSoFar(before, tree, left, rule.keep, handled)
        /\ InOrder(tree) /\ TreeInv(tree)
    BY <1>1 DEF RulesInv, RemovingState, RemovesNow, InOrder
  <1>3. rule.keep \in BOOLEAN
    BY <1>2, TransformationAssumption
  <1>4. tree' = RemovedOf(tree, m, rule.keep)
    BY <1>1 DEF Removed, RemovedOf
  <1>5. m \in left /\ Topmost(before, left, m)
    BY <1>1 DEF NextOf, Topmost
  <1>6. PICK P : RemoveState(before, tree, left, P, rule.keep)
                 /\ handled = {Trail(before)[n] : n \in P \cup left}
    BY <1>2 DEF RemovedSoFar
  <1>7. RemoveState(before, tree', left', P \cup {m}, rule.keep) /\ NoReturn(tree, tree')
    <2>1. CASE m \in Attached(tree)
      <3>1. RemoveState(before, RemovedOf(tree, m, rule.keep), left \ {m}, P \cup {m}, rule.keep)
        BY <1>1, <1>3, <1>5, <1>6, <2>1, RemovalKeeps
      <3>2. NoReturn(tree, RemovedOf(tree, m, rule.keep))
        BY <1>1, <1>2, <1>3, <2>1, RemovalIsInOrder
      <3> QED
        BY <1>1, <1>4, <3>1, <3>2
    <2>2. CASE m \notin Attached(tree)
      <3>1. RemovedOf(tree, m, rule.keep) = tree
        BY <1>1, <1>3, <1>5, <1>6, <2>2, RemovalLeaves
      <3>2. RemoveState(before, tree, left \ {m}, P \cup {m}, rule.keep)
        BY <1>1, <1>3, <1>5, <1>6, <2>2, MissedKeeps
      <3> QED
        BY <1>1, <1>4, <3>1, <3>2, NoReturnSelf
    <2> QED
      BY <2>1, <2>2
  <1>8. (P \cup {m}) \cup left' = P \cup left
    BY <1>1, <1>5
  <1>9. RemovedSoFar(before, tree', left', rule.keep, handled')
    BY <1>1, <1>6, <1>7, <1>8 DEF RemovedSoFar
  <1>10. RemovingState'
    BY <1>1, <1>2, <1>9 DEF RemovingState
  <1>11. MoveState' /\ DirectoriesState'
    BY <1>1 DEF MoveState, DirectoriesState
  <1> QED
    BY <1>1, <1>2, <1>7, <1>10, <1>11 DEF Safe, RulesInv, NoReturn

LEMMA MoveMatchIsSafe ==
    ASSUME RulesInv, NEW m \in Node, MoveMatch(m)
    PROVE  Safe
  <1>1. CASE m = Root \/ ~ MayMove(m) \/ InItself(m)
    BY <1>1, RaiseIsSafe DEF MoveMatch
  <1>2. CASE ~ (m = Root \/ ~ MayMove(m) \/ InItself(m))
    <2> DEFINE u == SetParent(tree, m, target)
    <2>1. /\ tree' = u /\ rule' = rule /\ pc = "move" /\ m \in left
          /\ m # Root /\ MayMove(m) /\ ~ Below(tree, target, m)
          /\ names' = names \cup {tree.name[m]} /\ left' = left \ {m} /\ target' = target
          /\ pc' = IF left' = {} THEN "done" ELSE "move"
      BY <1>2 DEF MoveMatch, NextOf, Goto, InItself
    <2>2. /\ rule \in Rules /\ rule.kind = "move" /\ InOrder(tree) /\ Rooted(tree)
          /\ target \in Attached(tree) /\ IsDir(tree, target)
          /\ left \subseteq Born(tree)
          /\ \A o \in left \ Attached(tree) : tree.last[o] = NoPath \/ tree.name[o] \in names
      BY <2>1 DEF RulesInv, MoveState, InOrder, TreeInv, Sound
    <2>3. m \in Attached(tree)
      <3>1. PathOf(tree)[m] # NoPath /\ tree.name[m] \notin names
        BY <2>1 DEF MayMove
      <3> QED
        BY <2>1, <2>2, <3>1, NoPathBelowLost
    <2>4. target \in Beside(tree, m)
      BY <2>1, <2>2 DEF Beside, Below
    <2>5. /\ NoReturn(tree, u) /\ u.kind = tree.kind /\ u.name = tree.name /\ target \in Attached(u)
          /\ \A o \in Node : tree.name[o] # tree.name[m] => u.last[o] = tree.last[o]
      BY <2>1, <2>2, <2>3, <2>4, MoveIsInOrder
    <2> HIDE DEF u
    <2>6. CASE left' = {}
      BY <2>1, <2>2, <2>5, <2>6, RestIsSafe
    <2>7. CASE left' # {}
      <3>1. pc' = "move"
        BY <2>1, <2>7
      <3>2. ASSUME NEW o \in left', o \notin Attached(u)
            PROVE  u.last[o] = NoPath \/ u.name[o] \in names'
        <4>1. o \in left /\ o \in Node
          BY <2>1, <2>2 DEF Born
        <4>2. CASE tree.name[o] = tree.name[m]
          BY <2>1, <2>5, <4>2
        <4>3. CASE tree.name[o] # tree.name[m]
          <5>1. u.last[o] = tree.last[o]
            BY <2>5, <4>1, <4>3
          <5>2. CASE o \in Attached(tree)
            BY <2>2, <5>1, <5>2 DEF InOrder
          <5>3. CASE o \notin Attached(tree)
            BY <2>1, <2>2, <2>5, <4>1, <5>1, <5>3
          <5> QED
            BY <5>2, <5>3
        <4> QED
          BY <4>2, <4>3
      <3>3. left' \subseteq Born(u) /\ IsDir(u, target)
        BY <2>1, <2>2, <2>5 DEF IsDir, NoReturn
      <3>4. MoveState'
        BY <2>1, <2>2, <2>5, <3>1, <3>2, <3>3 DEF MoveState
      <3>5. DirectoriesState' /\ RemovingState'
        BY <3>1 DEF DirectoriesState, RemovingState, RemovesNow
      <3> QED
        BY <2>1, <2>2, <2>5, <3>4, <3>5 DEF Safe, RulesInv, NoReturn
    <2> QED
      BY <2>6, <2>7
  <1> QED
    BY <1>1, <1>2

\* The path, and what is above it, when there is room for all of it.
LEMMA RoomForBeginnings ==
    ASSUME NEW t, InOrder(t), NEW S, Name \subseteq S, NEW q \in Seq(S), q # <<>>, RoomFor(t, q),
           \A i \in 1 .. (Len(q) - 1) : q[i] \in Name
    PROVE  /\ RoomToGo(t, q, Front(q))
           /\ q \in Seq(Name) => RoomToGo(t, q, q)
           /\ Len(Front(q)) = Len(q) - 1 /\ Len(q) \in 1 .. Len(q)
  <1> DEFINE f == Front(q)
  <1>1. Len(q) \in Nat /\ Len(q) # 0
    BY EmptySeq
  <1>2. f = [i \in 1 .. (Len(q) - 1) |-> q[i]] /\ Len(q) - 1 \in Nat
    BY <1>1 DEF Front
  <1>3. f \in Seq(Name) /\ Len(f) = Len(q) - 1
    BY <1>2
  <1>4. ASSUME NEW i \in 1 .. Len(f) PROVE Beginning(f, i) = Beginning(q, i)
    <2>1. Beginning(f, i) = [j \in 1 .. i |-> f[j]] /\ Beginning(q, i) = [j \in 1 .. i |-> q[j]]
      BY <1>1, <1>3 DEF Beginning
    <2>2. \A j \in 1 .. i : f[j] = q[j]
      BY <1>1, <1>2, <1>3
    <2> HIDE DEF f
    <2> QED
      BY <2>1, <2>2
  <1> HIDE DEF f
  <1>5. RoomToGo(t, q, f)
    BY <1>1, <1>3, <1>4 DEF RoomToGo
  <1>6. q \in Seq(Name) => RoomToGo(t, q, q)
    BY <1>1 DEF RoomToGo
  <1> QED
    BY <1>1, <1>3, <1>5, <1>6 DEF f

\* What EnsureIsDirectory made of the tree it was given.
LEMMA EnsuredIs ==
    ASSUME NEW t, NEW q, NEW p, RoomToGo(t, q, p), EnsureIsDirectory(t, p).dir # NoNode
    PROVE  LET e == EnsureIsDirectory(t, p)
           IN  /\ Ensured(t, p, Len(p), e.tree, e.dir)
               /\ Grown(t, e.tree) /\ NoReturn(t, e.tree) /\ Attached(t) \subseteq Attached(e.tree)
               /\ InOrder(e.tree) /\ TreeInv(e.tree)
               /\ e.dir \in Attached(e.tree) /\ IsDir(e.tree, e.dir)
               /\ e.tree = t \/ Cardinality(Unborn(e.tree)) >= Len(q) - Len(p)
  <1> DEFINE e == EnsureIsDirectory(t, p)
  <1>1. Ensuring(t, q, p, Len(p), e)
    BY EnsureIsSound
  <1> HIDE DEF e
  <1>2. Ensured(t, p, Len(p), e.tree, e.dir)
        /\ (e.tree = t \/ Cardinality(Unborn(e.tree)) >= Len(q) - Len(p))
    BY <1>1 DEF Ensuring, e
  <1> QED
    BY <1>2 DEF Ensured, Grown, NoReturn, InOrder, e

LEMMA FindTargetIsSafe ==
    ASSUME RulesInv, FindTarget
    PROVE  Safe
  <1> DEFINE into == EnsureIsDirectory(tree, rule.target)
             parent == EnsureIsDirectory(tree, Front(rule.target))
             existing == parent.tree.child[parent.dir][Last(rule.target)]
  <1>1. pc = "target"
    BY DEF FindTarget
  <1>2. /\ rule \in Rules /\ rule.kind = "move" /\ left # {} /\ left \subseteq Attached(tree)
        /\ RoomFor(tree, rule.target) /\ InOrder(tree)
    BY <1>1 DEF RulesInv, MoveState
  <1>3. rule.target \in Seq(Name) /\ rule.target # <<>>
    BY <1>2, TransformationAssumption
  <1>4. RoomToGo(tree, rule.target, rule.target) /\ RoomToGo(tree, rule.target, Front(rule.target))
    BY <1>2, <1>3, RoomForBeginnings
  <1>5. \/ Raise
        \/ /\ rule' = rule /\ left' = left
           /\ \/ into.dir # NoNode /\ tree' = into.tree /\ target' = into.dir /\ pc' = "move"
              \/ /\ parent.dir # NoNode /\ tree' = parent.tree
                 /\ \/ existing # NoNode /\ IsDir(parent.tree, existing) /\ target' = existing
                       /\ pc' = "move"
                    \/ target' = parent.dir /\ pc' = "rename"
    BY DEF FindTarget, Goto
  <1> HIDE DEF into, parent, existing
  <1>6. CASE Raise
    BY <1>6, RaiseIsSafe
  <1>7. ASSUME NEW v, NEW d, Grown(tree, v), d \in Attached(v), IsDir(v, d), tree' = v, target' = d,
               rule' = rule, left' = left, pc' \in {"move", "rename"}
        PROVE  Safe
    <2>1. /\ NoReturn(tree, v) /\ left \subseteq Attached(v) /\ left \subseteq Born(v)
      BY <1>2, <1>7, AttachedUp DEF Grown, NoReturn, Attached
    <2>2. MoveState'
      BY <1>2, <1>7, <2>1 DEF MoveState
    <2>3. DirectoriesState' /\ RemovingState'
      BY <1>7 DEF DirectoriesState, RemovingState, RemovesNow
    <2> QED
      BY <1>2, <1>7, <2>1, <2>2, <2>3 DEF Safe, RulesInv, NoReturn
  <1>8. CASE /\ rule' = rule /\ left' = left /\ into.dir # NoNode
             /\ tree' = into.tree /\ target' = into.dir /\ pc' = "move"
    <2>1. Grown(tree, into.tree) /\ into.dir \in Attached(into.tree) /\ IsDir(into.tree, into.dir)
      BY <1>4, <1>8, EnsuredIs DEF into
    <2> QED
      BY <1>7, <1>8, <2>1
  <1>9. CASE /\ rule' = rule /\ left' = left /\ parent.dir # NoNode /\ tree' = parent.tree
             /\ \/ existing # NoNode /\ IsDir(parent.tree, existing) /\ target' = existing
                   /\ pc' = "move"
                \/ target' = parent.dir /\ pc' = "rename"
    <2>1. /\ Grown(tree, parent.tree) /\ parent.dir \in Attached(parent.tree)
          /\ IsDir(parent.tree, parent.dir) /\ TreeInv(parent.tree)
      BY <1>4, <1>9, EnsuredIs DEF parent
    <2>2. existing # NoNode => existing \in Attached(parent.tree)
      <3>1. Last(rule.target) \in Name
        BY <1>3, EmptySeq DEF Last
      <3> QED
        BY <2>1, <3>1 DEF TreeInv, Sound, existing
    <2> QED
      BY <1>7, <1>9, <2>1, <2>2
  <1> QED
    BY <1>5, <1>6, <1>8, <1>9

LEMMA RenameMatchIsSafe ==
    ASSUME RulesInv, RenameMatch
    PROVE  Safe
  <1> DEFINE p == CHOOSE p \in left : TRUE
             k == Last(rule.target)
             v == SetParent(tree, p, target)
             u == Rename(v, p, k)
  <1>1. /\ rule \in Rules /\ rule.kind = "move" /\ left # {} /\ left \subseteq Attached(tree)
        /\ target \in Attached(tree) /\ IsDir(tree, target) /\ InOrder(tree)
    BY DEF RenameMatch, RulesInv, MoveState
  <1>2. p \in left
    BY <1>1
  <1>3. k \in Name
    <2>1. rule.target \in Seq(Name) /\ rule.target # <<>>
      BY <1>1, TransformationAssumption
    <2> QED
      BY <2>1, EmptySeq DEF Last
  <1>4. \/ Raise
        \/ tree' = u /\ ~ InItself(p) /\ rule' = rule /\ pc' = "done"
    BY DEF RenameMatch, Renamed, Goto
  <1>5. CASE Raise
    BY <1>5, RaiseIsSafe
  <1>6. CASE tree' = u /\ ~ InItself(p) /\ rule' = rule /\ pc' = "done"
    <2>1. p \in Attached(tree) \ {Root} /\ target \in Beside(tree, p)
      BY <1>1, <1>2, <1>6 DEF InItself, Below, Beside
    <2> HIDE DEF p, k
    <2>2. NoReturn(tree, v) /\ v.kind = tree.kind
      BY <1>1, <2>1, MoveIsInOrder
    <2>3. p \in Born(v) \ {Root} /\ InOrder(v)
      BY <2>1, <2>2 DEF Attached, Born, NoReturn
    <2> HIDE DEF v
    <2>4. NoReturn(v, u)
      BY <1>3, <2>3, RenameIsInOrder
    <2> HIDE DEF u
    <2>5. NoReturn(tree, tree')
      BY <1>6, <2>2, <2>4, NoReturnTrans
    <2> QED
      BY <1>1, <1>6, <2>5, RestIsSafe
  <1> QED
    BY <1>4, <1>5, <1>6

LEMMA CreateDirectoryIsSafe ==
    ASSUME RulesInv, CreateDirectory
    PROVE  Safe
  <1> DEFINE p == rule.paths[pattern + 1]
             ensured == EnsureIsDirectory(tree, p)
  <1>1. /\ rule \in Rules /\ rule.kind = "mkdirs" /\ pattern \in Nat /\ InOrder(tree)
        /\ pattern < Len(rule.paths) /\ MayMake(p) /\ pc = "mkdirs"
    BY DEF CreateDirectory, RulesInv, DirectoriesState
  <1>2. p \in Seq(Name)
    <2>1. rule.paths \in Seq(Seq(Name))
      BY <1>1, TransformationAssumption
    <2>2. pattern + 1 \in 1 .. Len(rule.paths)
      BY <1>1, <2>1
    <2> QED
      BY <2>1, <2>2
  <1>3. \/ Raise
        \/ /\ ensured.dir # NoNode /\ tree' = ensured.tree /\ rule' = rule /\ pattern' = pattern + 1
           /\ pc' \in {"done", "mkdirs"}
    BY DEF CreateDirectory, Goto
  <1> HIDE DEF p
  <1>4. CASE Raise
    BY <1>4, RaiseIsSafe
  <1>5. CASE /\ ensured.dir # NoNode /\ tree' = ensured.tree /\ rule' = rule /\ pattern' = pattern + 1
             /\ pc' \in {"done", "mkdirs"}
    <2>1. tree \in Trees
      BY <1>1 DEF InOrder, TreeInv, Sound, Rooted
    <2>2. RoomFor(tree, p)
      BY <1>1, <1>2, <2>1, RoomIsEnough DEF MayMake
    <2>3. RoomToGo(tree, p, p)
      BY <1>1, <1>2, <2>2 DEF RoomToGo
    <2>4. NoReturn(tree, ensured.tree)
      BY <1>5, <2>3, EnsuredIs
    <2> HIDE DEF ensured
    <2>5. MoveState' /\ DirectoriesState' /\ RemovingState'
      BY <1>1, <1>5 DEF MoveState, DirectoriesState, RemovingState, RemovesNow
    <2> QED
      BY <1>1, <1>5, <2>4, <2>5 DEF Safe, RulesInv, NoReturn
  <1> QED
    BY <1>3, <1>4, <1>5

\* There is room for a link in the directory that was found or made for it.
LEMMA RoomForLink ==
    ASSUME NEW t, InOrder(t), NEW path \in Seq(Name) \ {<<>>},
           NEW q, q = Append(Front(path), "?"),
           LET there == {i \in 1 .. Len(q) : NodeAt(t, SubSeq(q, 1, i)) # NoNode}
           IN  Cardinality(Unborn(t)) >= Len(q) - Cardinality(there)
    PROVE  /\ RoomToGo(t, q, Front(path)) /\ Len(q) = Len(Front(path)) + 1
           /\ Cardinality(Unborn(t)) >= 1
  <1> DEFINE S == Name \cup {"?"}
             f == Front(path)
  <1>1. f \in Seq(Name) /\ Len(f) \in Nat
    <2>1. path \in Seq(Name) /\ path # <<>> /\ Len(path) \in Nat /\ Len(path) # 0
      BY EmptySeq
    <2>2. f = [i \in 1 .. (Len(path) - 1) |-> path[i]]
      BY DEF Front
    <2> HIDE DEF f
    <2> QED
      BY <2>1, <2>2
  <1> HIDE DEF f
  <1>2. /\ q \in Seq(S) /\ Len(q) = Len(f) + 1 /\ q[Len(q)] = "?" /\ q # <<>>
        /\ \A i \in 1 .. (Len(q) - 1) : q[i] = f[i] /\ q[i] \in Name
    <2>1. q = Append(f, "?")
      BY DEF f
    <2>2. f \in Seq(S) /\ "?" \in S
      BY <1>1
    <2>3. q \in Seq(S) /\ Len(q) = Len(f) + 1
      <3> HIDE DEF S
      <3>1. Append(f, "?") \in Seq(S) /\ Len(Append(f, "?")) = Len(f) + 1
        BY ONLY <2>2, AppendProperties
      <3> QED
        BY <2>1, <3>1
    <2>4. q[Len(q)] = "?" /\ \A i \in 1 .. Len(f) : q[i] = f[i] /\ f[i] \in Name
      BY <1>1, <2>1, <2>2
    <2>5. q # <<>>
      BY <1>1, <2>3, EmptySeq
    <2> QED
      BY <1>1, <2>3, <2>4, <2>5
  <1>3. t \in Trees
    BY DEF InOrder, TreeInv, Sound, Rooted
  <1> HIDE DEF S
  <1>4. RoomFor(t, q)
    BY <1>2, <1>3, RoomIsEnough
  <1>5. RoomToGo(t, q, Front(q)) /\ Len(q) \in 1 .. Len(q)
    BY <1>2, <1>4, RoomForBeginnings DEF S
  <1>6. Front(q) = f
    <2>1. Front(q) = [i \in 1 .. (Len(q) - 1) |-> q[i]]
      BY DEF Front
    <2>2. f = [i \in 1 .. Len(f) |-> f[i]] /\ Len(q) - 1 = Len(f)
      BY <1>1, <1>2
    <2> QED
      BY <1>2, <2>1, <2>2
  <1>7. Beginning(q, Len(q)) \notin PathNames
    <2> DEFINE b == Beginning(q, Len(q))
    <2>1. Len(q) \in 0 .. Len(q) /\ Len(q) \in 1 .. Len(q)
      BY <1>1, <1>2
    <2>2. Len(b) = Len(q) /\ b[Len(q)] = "?"
      BY <1>2, <2>1, BeginningIs
    <2> HIDE DEF b
    <2> SUFFICES ASSUME b \in Seq(Name) PROVE FALSE
      BY PathNamesAre DEF b
    <2>3. b[Len(q)] \in Name
      BY <2>1, <2>2
    <2> QED
      BY <2>2, <2>3, NodeAssumption
  <1>8. Cardinality(Unborn(t)) >= 1
    <2>1. NodeAt(t, Beginning(q, Len(q))) = NoNode
      BY <1>7 DEF NodeAt
    <2>2. Cardinality(Unborn(t)) >= Len(q) + 1 - Len(q)
      BY <1>4, <1>5, <2>1 DEF RoomFor
    <2> QED
      BY <1>1, <1>2, <2>2, UnbornIsFinite
  <1> QED
    BY <1>2, <1>5, <1>6, <1>8 DEF f

\* What has the name of a link goes first.
LEMMA ClearedIsReady ==
    ASSUME NEW t, InOrder(t), NEW d \in Attached(t), IsDir(t, d), NEW k \in Name,
           t.child[d][k] # NoNode
    PROVE  LET c == t.child[d][k]
               u == Unlinked(t, c)
           IN  /\ c \in Attached(t) \ {Root} /\ u = Detach(t, c) /\ t.parent[c] = d /\ t.name[c] = k
               /\ NoReturn(t, u) /\ d \in Attached(u) /\ IsDir(u, d)
               /\ u.child[d][k] = NoNode /\ Unborn(u) = Unborn(t)
  <1> DEFINE c == t.child[d][k]
             u == Detach(t, c)
  <1>1. TreeInv(t) /\ Sound(t, Attached(t)) /\ Rooted(t)
    BY DEF InOrder, TreeInv, Sound
  <1>2. c \in Attached(t) /\ t.parent[c] = d /\ t.name[c] = k
    BY <1>1 DEF Sound
  <1>3. c # Root
    BY <1>1, <1>2, NodeAssumption DEF Rooted, Attached, Born
  <1>4. Unlinked(t, c) = u
    BY <1>2 DEF Unlinked, Attached
  <1> HIDE DEF c
  <1>5. NoReturn(t, u) /\ Shrunk(t, u, c) /\ Detaches(t, u, c)
    BY <1>1, <1>2, <1>3, DetachIsInOrder, DetachShrinks, DetachIsSafe
  <1>6. d \in Attached(u)
    BY <1>1, <1>2, <1>3, <1>5, ParentIsBeside DEF Shrunk
  <1> HIDE DEF u
  <1>7. u.kind = t.kind /\ u.child[d][k] = NoNode
    <2>1. d \in Node
      BY DEF Attached, Born
    <2> QED
      BY <1>2, <1>5, <2>1 DEF Detaches
  <1> QED
    BY <1>2, <1>3, <1>4, <1>5, <1>6, <1>7 DEF IsDir, Unborn, Born, u, c

LEMMA CreateSymlinkIsSafe ==
    ASSUME RulesInv, NEW r \in Rules, CreateSymlink(r)
    PROVE  Safe
  <1> DEFINE q == Append(Front(r.path), "?")
             k == Last(r.path)
             e == EnsureIsDirectory(tree, Front(r.path))
             existing == e.tree.child[e.dir][k]
             cleared == IF existing = NoNode THEN e.tree ELSE Unlinked(e.tree, existing)
             u == Create(cleared, e.dir, k, "symlink")
  <1>1. /\ rule' = r /\ r.kind = "symlink" /\ MayMake(q)
        /\ \/ pc' = "failed" /\ tree' = tree
           \/ pc' = "done" /\ e.dir # NoNode /\ tree' = u
    BY DEF CreateSymlink, Run
  <1>2. InOrder(tree) /\ r.path \in Seq(Name) \ {<<>>} /\ k \in Name
    <2>1. InOrder(tree) /\ r.path \in Seq(Name) \ {<<>>}
      BY <1>1, TransformationAssumption DEF RulesInv
    <2> QED
      BY <2>1, EmptySeq DEF Last
  <1> HIDE DEF k
  <1>3. CASE pc' = "failed" /\ tree' = tree
    BY <1>1, <1>3, NoReturnSelf, RestIsSafe
  <1>4. CASE pc' = "done" /\ e.dir # NoNode /\ tree' = u
    <2>1. RoomToGo(tree, q, Front(r.path)) /\ Len(q) = Len(Front(r.path)) + 1
          /\ Cardinality(Unborn(tree)) >= 1
      BY <1>1, <1>2, RoomForLink DEF MayMake
    <2> DEFINE n == Len(Front(r.path))
    <2>2. /\ NoReturn(tree, e.tree) /\ InOrder(e.tree) /\ e.dir \in Attached(e.tree)
          /\ IsDir(e.tree, e.dir)
          /\ e.tree = tree \/ Cardinality(Unborn(e.tree)) >= Len(q) - n
      BY <1>4, <2>1, EnsuredIs
    <2>3. n \in Nat
      BY <2>1 DEF RoomToGo
    <2> HIDE DEF e, q, n
    <2>4. Unborn(e.tree) # {}
      <3>1. Cardinality(Unborn(e.tree)) >= 1
        BY <2>1, <2>2, <2>3 DEF n
      <3> QED
        BY <3>1, FS_EmptySet
    <2>5. /\ NoReturn(tree, cleared) /\ InOrder(cleared) /\ Unborn(cleared) # {}
          /\ e.dir \in Attached(cleared) /\ IsDir(cleared, e.dir)
      <3>1. CASE existing = NoNode
        BY <2>2, <2>4, <3>1
      <3>2. CASE existing # NoNode
        <4>1. /\ NoReturn(e.tree, cleared) /\ e.dir \in Attached(cleared) /\ IsDir(cleared, e.dir)
              /\ Unborn(cleared) = Unborn(e.tree)
          BY <1>2, <2>2, <3>2, ClearedIsReady
        <4> QED
          BY <2>2, <2>4, <4>1, NoReturnTrans DEF NoReturn
      <3> QED
        BY <3>1, <3>2
    <2> HIDE DEF cleared
    <2>6. NoReturn(cleared, u)
      BY <1>2, <2>5, CreateIsInOrder
    <2>7. NoReturn(tree, tree')
      BY <1>4, <2>5, <2>6, NoReturnTrans
    <2> QED
      BY <1>1, <1>4, <2>7, RestIsSafe
  <1> QED
    BY <1>1, <1>3, <1>4

-----------------------------------------------------------------------------
(* The theorems.                                                            *)

LEMMA RuleStepIsSafe ==
    ASSUME RulesInv, NextRule
    PROVE  Safe
  BY StartRemoveIsSafe, SkipIsSafe, StartMoveIsSafe, CreateSymlinkIsSafe, StartDirectoriesIsSafe,
     NextMatchRuleIsSafe, RaiseIsSafe, RemoveEndsIsSafe, FindTargetIsSafe, RenameMatchIsSafe,
     RemoveMatchIsSafe, MoveMatchIsSafe, CreateDirectoryIsSafe
  DEF NextRule, NothingToRemove, RemoveRoot

LEMMA RuleStutterIsSafe ==
    ASSUME RulesInv, UNCHANGED ruleVars
    PROVE  Safe
  <1>1. /\ tree' = tree /\ rule' = rule /\ pc' = pc /\ pattern' = pattern /\ left' = left
        /\ target' = target /\ names' = names /\ before' = before /\ handled' = handled
    BY DEF ruleVars, vars, locals
  <1>2. RulesInv'
    BY <1>1 DEF RulesInv, MoveState, DirectoriesState, RemovingState, RemovesNow
  <1> QED
    BY <1>1, <1>2, NoReturnSelf DEF Safe

LEMMA RulesInitially ==
    ASSUME InitRules
    PROVE  RulesInv
  <1>1. InOrder(tree)
    BY TransformationAssumption DEF InitRules
  <1>2. rule = NoRule /\ rule.kind = "none" /\ pc = "done" /\ left = {}
    BY DEF InitRules, NoRule
  <1> QED
    BY <1>1, <1>2 DEF RulesInv, MoveState, DirectoriesState, RemovingState, RemovesNow

\* The package is in order at every step of every rule, and the rules know what
\* is left of it of the nodes they go on with.
THEOREM RulesKeepOrder == RulesSpec => []RulesInv
  <1>1. InitRules => RulesInv
    BY RulesInitially
  <1>2. RulesInv /\ [NextRule]_ruleVars => RulesInv'
    BY RuleStepIsSafe, RuleStutterIsSafe DEF Safe
  <1> QED
    BY <1>1, <1>2, PTL DEF RulesSpec

\* A node that a rule removed or replaced, or that was below one, is never in the
\* package again, though rules go on with the nodes they found before.
THEOREM LostIsLost == RulesSpec => LostStaysLost
  <1>1. RulesInv /\ [NextRule]_ruleVars =>
            [\A n \in Born(tree) \ Attached(tree) : n \notin Attached(tree)']_ruleVars
    <2> SUFFICES ASSUME RulesInv, NextRule, NEW n \in Born(tree) \ Attached(tree)
                 PROVE  n \notin Attached(tree')
      OBVIOUS
    <2>1. NoReturn(tree, tree')
      BY RuleStepIsSafe DEF Safe
    <2> QED
      BY <2>1 DEF NoReturn
  <1> QED
    BY <1>1, RulesKeepOrder, PTL DEF RulesSpec, LostStaysLost

-----------------------------------------------------------------------------
(* What a remove rule took away.                                            *)

\* Of nodes x, in terms of parents: at or below a match, above one, and left empty.
AtMatch(b, P, x) == \E q \in P : Below(b, x, q)
OverMatch(b, P, x) == \E q \in P : Below(b, q, x) /\ q # x
EmptiedNode(b, P, keep, x) ==
    /\ ~ keep /\ x # Root /\ OverMatch(b, P, x)
    /\ \A y \in Attached(b) : Below(b, y, x) /\ y # x => AtMatch(b, P, y) \/ OverMatch(b, P, y)

\* Every set of attached nodes has one at the end of the most names.
LEMMA DeepestOf ==
    ASSUME NEW t, Rooted(t), NEW D \in SUBSET Attached(t), D # {}
    PROVE  \E y \in D : \A z \in D : Len(Trail(t)[z]) <= Len(Trail(t)[y])
  <1> DEFINE N == Cardinality(Node)
             depth(z) == N - Len(Trail(t)[z])
             S == {depth(z) : z \in D}
  <1>1. N \in Nat
    BY NodeAssumption, FS_CardinalityType
  <1>2. \A z \in D : Len(Trail(t)[z]) \in Nat /\ Len(Trail(t)[z]) <= N - 1
    <2> SUFFICES ASSUME NEW z \in D PROVE Len(Trail(t)[z]) \in Nat /\ Len(Trail(t)[z]) <= N - 1
      OBVIOUS
    <2>1. Trail(t)[z] \in PathNames
      BY TrailIsShort
    <2>2. Trail(t)[z] \in Seq(Name)
      BY <2>1, PathNamesAre
    <2> QED
      BY <2>1, <2>2, PathNamesAre
  <1> HIDE DEF N
  <1>3. S \in SUBSET Nat /\ S # {}
    BY <1>1, <1>2
  <1>4. PICK i \in S : \A j \in S : i <= j
    <2> HIDE DEF S
    <2> QED
      BY <1>3, LeastOf
  <1>5. PICK y \in D : i = depth(y)
    OBVIOUS
  <1>6. \A z \in D : depth(y) <= depth(z)
    BY <1>4, <1>5
  <1> QED
    BY <1>1, <1>2, <1>6

\* When no match is left, the nodes of the package are those that are neither at
\* or below a match nor left empty.
LEMMA RemovalIsExact ==
    ASSUME NEW b, NEW t, NEW P, NEW keep \in BOOLEAN, RemoveState(b, t, {}, P, keep),
           NEW x \in Attached(b)
    PROVE  x \in Attached(t) <=> ~ AtMatch(b, P, x) /\ ~ EmptiedNode(b, P, keep, x)
  <1>1. /\ TreeInv(b) /\ Part(b, t) /\ TreeInv(t) /\ Rooted(b) /\ Rooted(t)
        /\ Attached(t) \subseteq Attached(b) /\ Attached(b) \subseteq Born(b) /\ Born(b) \subseteq Node
        /\ P \subseteq Attached(b) /\ Removing(b, t, P, keep)
    BY AttachedUp DEF RemoveState, Part, TreeInv, Sound, Born
  <1>2. ASSUME NEW y \in Attached(b) \ Attached(t)
        PROVE  AtMatch(b, P, y) \/ (~ keep /\ y # Root /\ OverMatch(b, P, y))
    <2>1. PICK q \in P : Below(b, y, q) \/ (~ keep /\ y # Root /\ Below(b, q, y))
      BY <1>1 DEF Removing
    <2> QED
      BY <2>1, BelowItself DEF AtMatch, OverMatch
  <1>3. ASSUME x \notin Attached(t), ~ AtMatch(b, P, x)
        PROVE  EmptiedNode(b, P, keep, x)
    <2>1. ~ keep /\ x # Root /\ OverMatch(b, P, x)
      BY <1>2, <1>3
    <2>2. ASSUME NEW y \in Attached(b), Below(b, y, x)
          PROVE  AtMatch(b, P, y) \/ OverMatch(b, P, y)
      <3>1. y \notin Attached(t)
        BY <1>1, <1>3, <2>2, PartBelow
      <3> QED
        BY <1>2, <3>1
    <2> QED
      BY <2>1, <2>2 DEF EmptiedNode
  <1>4. ASSUME x \in Attached(t), EmptiedNode(b, P, keep, x)
        PROVE  FALSE
    <2> DEFINE D == {y \in Attached(t) : Below(b, y, x)}
    <2>1. x \in D /\ D \in SUBSET Attached(t)
      BY <1>4, BelowItself
    <2>2. PICK y \in D : \A z \in D : Len(Trail(t)[z]) <= Len(Trail(t)[y])
      <3> HIDE DEF D
      <3> QED
        BY <1>1, <2>1, DeepestOf
    <2>3. y \in Attached(t) /\ Below(b, y, x) /\ y \in Attached(b)
      BY <1>1
    <2>4. y # Root
      BY <1>1, <1>4, <2>3, RootBelow DEF EmptiedNode
    <2>5. ~ AtMatch(b, P, y)
      BY <1>1, <2>3 DEF Removing, AtMatch
    <2>6. ~ keep /\ \E q \in P : Below(b, q, y)
      BY <1>4, <2>3, <2>5 DEF EmptiedNode, OverMatch
    <2>7. ~ Empty(t, y)
      BY <1>1, <2>3, <2>4, <2>6 DEF Removing
    <2>8. PICK k \in Name : t.child[y][k] # NoNode
      BY <2>7 DEF Empty
    <2> DEFINE c == t.child[y][k]
    <2>9. c \in Attached(t) /\ t.parent[c] = y
      BY <1>1, <2>3, <2>8 DEF TreeInv, Sound
    <2>10. Trail(t)[c] = Append(Trail(t)[y], k)
      BY <1>1, <2>3, <2>8, ChildPath
    <2> HIDE DEF c, D
    <2>11. b.parent[c] = y /\ c \in Attached(b) /\ y # NoNode
      BY <1>1, <2>3, <2>9, NodeAssumption DEF Part
    <2>12. c \in D
      BY <1>1, <2>3, <2>9, <2>11, BelowUp DEF D
    <2>13. Len(Trail(t)[c]) = Len(Trail(t)[y]) + 1 /\ Len(Trail(t)[y]) \in Nat
      <3>1. Trail(t)[y] \in Seq(Name)
        BY <1>1, <2>3, TrailDefined DEF Attached
      <3> QED
        BY <2>10, <3>1
    <2> QED
      BY <2>2, <2>12, <2>13
  <1>5. x \in Attached(t) => ~ AtMatch(b, P, x)
    BY <1>1 DEF Removing, AtMatch
  <1> QED
    BY <1>3, <1>4, <1>5

LEMMA BeginsIsPrefix ==
    \A q, p : Begins(q, p) <=> IsPrefix(q, p)
  BY DEF Begins, Package!IsPrefix, IsPrefix

\* The same of paths.
LEMMA MatchesByPath ==
    ASSUME NEW b, TreeInv(b), NEW P \in SUBSET Attached(b),
           NEW H, H = {Trail(b)[n] : n \in P}, NEW x \in Attached(b)
    PROVE  /\ UnderOneOf(Trail(b)[x], H) <=> AtMatch(b, P, x)
           /\ AboveOneOf(Trail(b)[x], H) <=> OverMatch(b, P, x)
  <1>1. \A y, z \in Attached(b) : IsPrefix(Trail(b)[y], Trail(b)[z]) <=> Below(b, z, y)
    BY BelowIsPrefix, BeginsIsPrefix DEF Below
  <1>2. \A y, z \in Attached(b) : Trail(b)[y] = Trail(b)[z] <=> y = z
    BY ContentsAre
  <1>3. UnderOneOf(Trail(b)[x], H) <=> \E q \in P : IsPrefix(Trail(b)[q], Trail(b)[x])
    BY DEF UnderOneOf
  <1>4. AboveOneOf(Trail(b)[x], H) <=>
            \E q \in P : IsPrefix(Trail(b)[x], Trail(b)[q]) /\ Trail(b)[x] # Trail(b)[q]
    BY DEF AboveOneOf, IsStrictPrefix
  <1>5. UnderOneOf(Trail(b)[x], H) <=> AtMatch(b, P, x)
    BY <1>1, <1>3 DEF AtMatch
  <1>6. AboveOneOf(Trail(b)[x], H) <=> OverMatch(b, P, x)
    BY <1>1, <1>2, <1>4 DEF OverMatch
  <1> QED
    BY <1>5, <1>6

\* A path leads to the node whose parents it is made of, or nowhere.
LEMMA AtIs ==
    ASSUME NEW t, TreeInv(t), NEW p \in PathNames
    PROVE  /\ \A n \in Attached(t) : At(t)[p] = n <=> Trail(t)[n] = p
           /\ At(t)[p] \in Attached(t) \cup {NoNode}
  <1>1. Sound(t, Attached(t))
    BY DEF TreeInv
  <1>2. At(t)[p] # NoNode => At(t)[p] \in Attached(t) /\ Trail(t)[At(t)[p]] = p
    BY <1>1, FoundByTrail
  <1>3. \A n \in Attached(t) : n # NoNode /\ At(t)[Trail(t)[n]] = n
    BY TrailFinds, NodeAssumption DEF Attached, Born
  <1> QED
    BY <1>2, <1>3

LEMMA RemoveInvIsExact ==
    ASSUME RulesInv
    PROVE  RemoveIsExact
  <1> SUFFICES ASSUME Finished({"remove"}), NEW p \in PathNames
               PROVE  At(tree)[p] = IF UnderOneOf(p, handled) \/ Emptied(p) THEN NoNode
                                    ELSE At(before)[p]
    BY DEF RemoveIsExact
  <1>1. /\ rule \in Rules /\ rule.kind = "remove" /\ left = {}
        /\ RemovedSoFar(before, tree, left, rule.keep, handled)
    BY DEF Finished, RulesInv, RemovingState, RemovesNow
  <1>2. rule.keep \in BOOLEAN
    BY <1>1, TransformationAssumption
  <1>3. PICK P : RemoveState(before, tree, {}, P, rule.keep) /\ handled = {Trail(before)[n] : n \in P}
    <2>1. PICK Q : RemoveState(before, tree, {}, Q, rule.keep)
                   /\ handled = {Trail(before)[n] : n \in Q \cup {}}
      BY <1>1 DEF RemovedSoFar
    <2>2. Q \cup {} = Q
      OBVIOUS
    <2> QED
      BY <2>1, <2>2
  <1>4. /\ TreeInv(before) /\ TreeInv(tree) /\ Part(before, tree) /\ P \in SUBSET Attached(before)
        /\ Attached(tree) \subseteq Attached(before) /\ NoNode \notin Attached(tree)
        /\ NoNode \notin Attached(before)
    BY <1>3, NodeAssumption DEF RemoveState, Part, Attached, Born
  <1>5. \A n \in Attached(tree) : Trail(tree)[n] = Trail(before)[n]
    BY <1>4 DEF Part
  <1>6. CASE At(before)[p] = NoNode
    <2>1. At(tree)[p] = NoNode
      <3> SUFFICES ASSUME At(tree)[p] # NoNode PROVE FALSE
        OBVIOUS
      <3>1. PICK n \in Attached(tree) : Trail(tree)[n] = p
        BY <1>4, AtIs
      <3> QED
        BY <1>4, <1>5, <1>6, <3>1, AtIs
    <2> QED
      BY <1>6, <2>1
  <1>7. CASE At(before)[p] # NoNode
    <2> DEFINE x == At(before)[p]
    <2>1. x \in Attached(before) /\ Trail(before)[x] = p
      BY <1>4, <1>7, AtIs
    <2> HIDE DEF x
    <2>2. At(tree)[p] = IF x \in Attached(tree) THEN x ELSE NoNode
      <3>1. CASE x \in Attached(tree)
        BY <1>4, <1>5, <2>1, <3>1, AtIs
      <3>2. CASE x \notin Attached(tree)
        <4> SUFFICES ASSUME At(tree)[p] # NoNode PROVE FALSE
          BY <3>2
        <4>1. PICK n \in Attached(tree) : Trail(tree)[n] = p
          BY <1>4, AtIs
        <4>2. Trail(before)[n] = p /\ n \in Attached(before)
          BY <1>4, <1>5, <4>1
        <4> QED
          BY <1>4, <2>1, <3>2, <4>2, ContentsAre
      <3> QED
        BY <3>1, <3>2
    <2>3. UnderOneOf(p, handled) <=> AtMatch(before, P, x)
      BY <1>3, <1>4, <2>1, MatchesByPath
    <2>4. Emptied(p) <=> EmptiedNode(before, P, rule.keep, x)
      <3>1. AboveOneOf(p, handled) <=> OverMatch(before, P, x)
        BY <1>3, <1>4, <2>1, MatchesByPath
      <3>2. p # <<>> <=> x # Root
        <4>1. Root \in Attached(before) /\ Trail(before)[Root] = <<>>
          BY <1>4, AttachedUp, TrailDefined DEF TreeInv, Sound
        <4> QED
          BY <1>4, <2>1, <4>1, ContentsAre
      <3>3. ASSUME NEW y \in Attached(before)
            PROVE  /\ Trail(before)[y] \in PathsOf(before)
                   /\ IsStrictPrefix(p, Trail(before)[y]) <=> Below(before, y, x) /\ y # x
                   /\ UnderOneOf(Trail(before)[y], handled) <=> AtMatch(before, P, y)
                   /\ AboveOneOf(Trail(before)[y], handled) <=> OverMatch(before, P, y)
        <4>1. Trail(before)[y] \in PathsOf(before)
          <5>1. Trail(before)[y] \in PathNames /\ At(before)[Trail(before)[y]] = y /\ y # NoNode
            BY <1>4, TrailIsShort, TrailFinds DEF TreeInv, Sound
          <5> QED
            BY <5>1 DEF PathsOf
        <4>2. IsStrictPrefix(p, Trail(before)[y]) <=> Below(before, y, x) /\ y # x
          <5>1. IsPrefix(Trail(before)[x], Trail(before)[y]) <=> Below(before, y, x)
            BY <1>4, <2>1, BelowIsPrefix, BeginsIsPrefix DEF Below
          <5>2. Trail(before)[x] = Trail(before)[y] <=> x = y
            BY <1>4, <2>1, ContentsAre
          <5> QED
            BY <2>1, <5>1, <5>2 DEF IsStrictPrefix
        <4>3. /\ UnderOneOf(Trail(before)[y], handled) <=> AtMatch(before, P, y)
              /\ AboveOneOf(Trail(before)[y], handled) <=> OverMatch(before, P, y)
          BY <1>3, <1>4, MatchesByPath
        <4> QED
          BY <4>1, <4>2, <4>3
      <3>4. \A o \in PathsOf(before) : \E y \in Attached(before) : Trail(before)[y] = o
        BY <1>4, AtIs DEF PathsOf
      <3>5. (\A o \in PathsOf(before) : IsStrictPrefix(p, o) =>
                 UnderOneOf(o, handled) \/ AboveOneOf(o, handled))
            <=> \A y \in Attached(before) : Below(before, y, x) /\ y # x =>
                    AtMatch(before, P, y) \/ OverMatch(before, P, y)
        BY <3>3, <3>4
      <3> QED
        BY <3>1, <3>2, <3>5 DEF Emptied, EmptiedNode
    <2>5. x \in Attached(tree) <=> ~ AtMatch(before, P, x) /\ ~ EmptiedNode(before, P, rule.keep, x)
      BY <1>2, <1>3, <2>1, RemovalIsExact
    <2> QED
      BY <2>2, <2>3, <2>4, <2>5 DEF x
  <1> QED
    BY <1>6, <1>7

\* When a remove rule ends, what is at or below one of its matches is gone, so are
\* the directories that had nothing else unless it keeps them, and every other
\* path leads to the node it led to before: with nested matches, with matches of
\* later patterns, and in whatever order.
THEOREM RemovesExactly == RulesSpec => []RemoveIsExact
  <1>1. RulesInv => RemoveIsExact
    BY RemoveInvIsExact
  <1> QED
    BY <1>1, RulesKeepOrder, PTL

-----------------------------------------------------------------------------
(* Where a move puts its matches.                                           *)

\* The nodes M of s were put in d, under names among K, and what else had one of
\* these names there is gone.
Relocated(s, t, M, d, K) ==
    /\ InOrder(s) /\ InOrder(t) /\ t.kind = s.kind /\ Attached(t) \subseteq Attached(s)
    /\ M \subseteq Attached(s) \ {Root} /\ \A m \in M : ~ Below(s, d, m)
    /\ d \in Attached(s) /\ d \in Attached(t) /\ Trail(t)[d] = Trail(s)[d]
    /\ K \subseteq Name
    /\ \A x \in Attached(s) \ {Root} :
           t.parent[x] = IF x \in M THEN d
                         ELSE IF s.parent[x] = d /\ s.name[x] \in K THEN NoNode ELSE s.parent[x]
    /\ \A x \in Attached(s) \ M : t.name[x] = s.name[x]

\* Nothing above d was moved, so that what is above d was from the beginning.
LEMMA NotAboveTarget ==
    ASSUME NEW s, NEW t, NEW M, NEW d, NEW K, Relocated(s, t, M, d, K), NEW m, ~ Below(t, d, m)
    PROVE  ~ Below(s, d, m)
  <1>1. Rooted(s) /\ Born(t) = Born(s) /\ Attached(s) \subseteq Born(s)
    BY AttachedUp DEF Relocated, InOrder, TreeInv, Sound, Born
  <1>2. PICK S \in SUBSET (Born(s) \ {m}) : d \in S /\ \A y \in S : t.parent[y] \in S \cup {NoNode}
    BY <1>1 DEF Below, Avoids
  <1> DEFINE R == {y \in S : Below(s, d, y)}
  <1>3. d \in R /\ R \in SUBSET (Born(s) \ {m})
    BY <1>2, BelowItself
  <1>4. ASSUME NEW y \in R PROVE s.parent[y] \in R \cup {NoNode}
    <2>1. y \in Attached(s) /\ y \notin M /\ y \in S /\ Below(s, d, y)
      BY <1>1, AboveAttached DEF Relocated
    <2> HIDE DEF R
    <2>2. CASE y = Root
      BY <1>1, <2>2 DEF Rooted
    <2>3. CASE y # Root
      <3>1. s.parent[y] \in Attached(s) /\ s.parent[y] # NoNode
        BY <1>1, <2>1, <2>3, AttachedUp, NodeAssumption DEF Attached, Born
      <3>2. Below(s, d, s.parent[y])
        <4>1. Below(s, y, s.parent[y])
          BY <1>1, <2>1, <3>1, BelowUp, BelowItself
        <4> QED
          BY <2>1, <4>1, BelowTrans
      <3>3. s.parent[y] # d
        <4> SUFFICES ASSUME s.parent[y] = d PROVE FALSE
          OBVIOUS
        <4>1. Avoids(s, d, y)
          BY <1>1, <2>1, <3>1, ParentNotBelow
        <4> QED
          BY <2>1, <4>1 DEF Below
      <3>4. t.parent[y] = s.parent[y]
        BY <2>1, <2>3, <3>3 DEF Relocated
      <3> QED
        BY <1>2, <2>1, <3>1, <3>2, <3>4 DEF R
    <2> QED
      BY <2>2, <2>3
  <1> HIDE DEF R
  <1>5. Avoids(s, d, m)
    BY <1>3, <1>4 DEF Avoids
  <1> QED
    BY <1>5 DEF Below

\* One more is put there.
LEMMA OneMore ==
    ASSUME NEW s, NEW t, NEW M, NEW d, NEW K, Relocated(s, t, M, d, K),
           NEW u, NEW m \in Attached(t) \ {Root}, NEW k, Placed(t, u, m, d, k), NoReturn(t, u),
           u.kind = t.kind, \A y \in M \ {m} : t.name[y] # k
    PROVE  Relocated(s, u, M \cup {m}, d, K \cup {k})
  <1> DEFINE c == Replaced(t, m, d, k)
  <1>1. /\ InOrder(s) /\ InOrder(u) /\ TreeInv(t) /\ Rooted(s) /\ Rooted(t) /\ Born(t) = Born(s)
        /\ Attached(s) \subseteq Born(s) /\ Born(s) \subseteq Node /\ Attached(t) \subseteq Attached(s)
        /\ u.kind = s.kind
    BY AttachedUp DEF Relocated, InOrder, NoReturn, TreeInv, Sound, Born
  <1>2. Attached(u) \subseteq Attached(t)
    <2>1. Born(u) = Born(t) /\ Attached(u) \subseteq Born(u)
      BY DEF Attached, Born
    <2>2. Attached(u) \cap Born(t) \subseteq Attached(t)
      BY DEF NoReturn
    <2> QED
      BY <2>1, <2>2
  <1>3. /\ d \in Attached(u) /\ Trail(u)[d] = Trail(t)[d]
        /\ c # NoNode => c # m /\ c # Root /\ c \in Attached(t) /\ t.parent[c] = d
    BY PlacedAttached
  <1>4. /\ d \in Beside(t, m) /\ k \in Name
        /\ \A x \in Node : u.parent[x] = IF x = m THEN d ELSE IF x = c THEN NoNode ELSE t.parent[x]
        /\ \A x \in Node : u.name[x] = IF x = m THEN k ELSE t.name[x]
    BY DEF Placed
  <1>5. c # NoNode => t.name[c] = k /\ c \notin M
    <2> SUFFICES ASSUME c # NoNode PROVE t.name[c] = k /\ c \notin M
      OBVIOUS
    <2>1. c = t.child[d][k] /\ d \in Attached(t)
      BY DEF Replaced, Relocated
    <2>2. t.name[c] = k
      BY <1>1, <1>4, <2>1 DEF TreeInv, Sound
    <2> QED
      BY <1>3, <2>2
  <1>6. ~ Below(s, d, m)
    BY <1>4, NotAboveTarget DEF Beside, Below
  <1>7. ASSUME NEW x \in Attached(s) \ {Root}
        PROVE  u.parent[x] = IF x \in M \cup {m} THEN d
                             ELSE IF s.parent[x] = d /\ s.name[x] \in K \cup {k} THEN NoNode
                             ELSE s.parent[x]
    <2>1. /\ x \in Node /\ x # NoNode
          /\ t.parent[x] = IF x \in M THEN d
                           ELSE IF s.parent[x] = d /\ s.name[x] \in K THEN NoNode ELSE s.parent[x]
          /\ x \notin M => t.name[x] = s.name[x]
          /\ u.parent[x] = IF x = m THEN d ELSE IF x = c THEN NoNode ELSE t.parent[x]
      BY <1>1, <1>4, NodeAssumption DEF Relocated
    <2> HIDE DEF c
    <2>2. CASE x \in M \cup {m}
      BY <1>5, <2>1, <2>2
    <2>3. CASE x \notin M \cup {m} /\ s.parent[x] = d /\ s.name[x] = k /\ k \notin K
      <3>1. t.parent[x] = d /\ t.name[x] = k /\ d # NoNode
        BY <1>1, <2>1, <2>3, NodeAssumption DEF Relocated
      <3>2. x \in Attached(t)
        BY <1>1, <3>1, AttachedUp DEF Relocated
      <3>3. t.child[d][k] = x
        BY <1>1, <3>1, <3>2 DEF TreeInv, Complete
      <3>4. ~ (d = t.parent[m] /\ k = t.name[m])
        <4> SUFFICES ASSUME d = t.parent[m], k = t.name[m] PROVE FALSE
          OBVIOUS
        <4>1. t.child[d][k] = m
          BY <1>1, <3>1 DEF TreeInv, Complete
        <4> QED
          BY <2>3, <3>3, <4>1
      <3>5. c = x
        BY <3>3, <3>4 DEF c, Replaced
      <3> QED
        BY <2>1, <2>3, <3>5
    <2>4. CASE x \notin M \cup {m} /\ s.parent[x] = d /\ s.name[x] \in K
      BY <2>1, <2>4
    <2>5. CASE x \notin M \cup {m} /\ ~ (s.parent[x] = d /\ s.name[x] \in K \cup {k})
      <3>1. x # c
        BY <1>3, <1>5, <2>1, <2>5
      <3> QED
        BY <2>1, <2>5, <3>1
    <2> QED
      BY <2>2, <2>3, <2>4, <2>5
  <1>8. ASSUME NEW x \in Attached(s) \ (M \cup {m}) PROVE u.name[x] = s.name[x]
    BY <1>1, <1>4 DEF Relocated
  <1>9. /\ M \cup {m} \subseteq Attached(s) \ {Root} /\ \A y \in M \cup {m} : ~ Below(s, d, y)
        /\ d \in Attached(s) /\ Trail(t)[d] = Trail(s)[d] /\ K \cup {k} \subseteq Name
    BY <1>1, <1>4, <1>6 DEF Relocated
  <1> HIDE DEF c
  <1> QED
    BY <1>1, <1>2, <1>3, <1>7, <1>8, <1>9 DEF Relocated

\* m is the match x is at or below, the innermost one of them.
Nearest(b, M, x, m) == m \in M /\ Below(b, x, m) /\ \A o \in M : Below(b, x, o) => Below(b, m, o)

\* What is in order is what lemmas about trees ask for.
LEMMA RelocatedTrees ==
    ASSUME NEW s, NEW t, NEW M, NEW d, NEW K, Relocated(s, t, M, d, K)
    PROVE  /\ TreeInv(s) /\ TreeInv(t) /\ Rooted(s) /\ Rooted(t) /\ Born(t) = Born(s)
           /\ Attached(s) \subseteq Born(s) /\ Attached(t) \subseteq Attached(s)
           /\ Born(s) \subseteq Node /\ NoNode \notin Born(s) /\ s.parent[Root] = NoNode
           /\ \A x \in Born(s) : t.name[x] \in Name /\ s.name[x] \in Name
           /\ \A x \in Attached(s) \ {Root} : s.parent[x] \in Attached(s)
           /\ \A x \in Attached(s) : Trail(s)[x] \in Seq(Name)
           /\ \A x \in Attached(t) : Trail(t)[x] \in Seq(Name)
           /\ \A x \in Attached(s) \ {Root} : Trail(s)[x] = Append(Trail(s)[s.parent[x]], s.name[x])
  <1>1. TreeInv(s) /\ TreeInv(t) /\ t.kind = s.kind /\ Attached(t) \subseteq Attached(s)
    BY DEF Relocated, InOrder
  <1>2. Rooted(s) /\ Rooted(t)
    BY <1>1 DEF TreeInv, Sound
  <1>3. Born(t) = Born(s) /\ Born(s) \subseteq Node /\ NoNode \notin Born(s) /\ s.parent[Root] = NoNode
    BY <1>1, <1>2, NodeAssumption DEF Born, Rooted
  <1>4. Attached(s) \subseteq Born(s) /\ \A x \in Attached(s) \ {Root} : s.parent[x] \in Attached(s)
    BY <1>2, AttachedUp
  <1>5. \A x \in Born(s) : t.name[x] \in Name /\ s.name[x] \in Name
    BY <1>2, <1>3 DEF Rooted, Trees
  <1>6. \A x \in Attached(s) : Trail(s)[x] \in Seq(Name)
    BY <1>1, ContentsAre
  <1>7. \A x \in Attached(t) : Trail(t)[x] \in Seq(Name)
    BY <1>1, ContentsAre
  <1>8. \A x \in Attached(s) \ {Root} : Trail(s)[x] = Append(Trail(s)[s.parent[x]], s.name[x])
    <2> SUFFICES ASSUME NEW x \in Attached(s) \ {Root}
                 PROVE  Trail(s)[x] = Append(Trail(s)[s.parent[x]], s.name[x])
      OBVIOUS
    <2>1. x \in Born(s) /\ s.parent[x] # NoNode
      BY <1>3, <1>4
    <2> QED
      BY <1>2, <2>1, TrailDefined
  <1> QED
    BY <1>1, <1>2, <1>3, <1>4, <1>5, <1>6, <1>7, <1>8

\* What is moved arrives under its name, with all that is below it but for what was
\* moved out of it.
LEMMA RelocatedComes ==
    ASSUME NEW s, NEW t, NEW M, NEW d, NEW K, Relocated(s, t, M, d, K)
    PROVE  \A x \in Attached(s) : \A m : Nearest(s, M, x, m) =>
               /\ x \in Attached(t)
               /\ Rebases(Trail(s)[x], Trail(s)[m], Trail(t)[x], Append(Trail(s)[d], t.name[m]))
  <1> DEFINE Comes(x, m) ==
                 /\ x \in Attached(t)
                 /\ Rebases(Trail(s)[x], Trail(s)[m], Trail(t)[x], Append(Trail(s)[d], t.name[m]))
             Good == {x \in Attached(s) : \A m : Nearest(s, M, x, m) => Comes(x, m)}
  <1>1. /\ TreeInv(s) /\ TreeInv(t) /\ Rooted(s) /\ Rooted(t) /\ Born(t) = Born(s)
        /\ Attached(s) \subseteq Born(s) /\ NoNode \notin Born(s)
        /\ \A x \in Born(s) : t.name[x] \in Name
        /\ \A x \in Attached(s) \ {Root} : s.parent[x] \in Attached(s)
        /\ \A x \in Attached(s) : Trail(s)[x] \in Seq(Name)
        /\ \A x \in Attached(t) : Trail(t)[x] \in Seq(Name)
        /\ \A x \in Attached(s) \ {Root} : Trail(s)[x] = Append(Trail(s)[s.parent[x]], s.name[x])
    BY RelocatedTrees
  <1>2. /\ M \subseteq Attached(s) \ {Root} /\ \A m \in M : ~ Below(s, d, m)
        /\ d \in Attached(s) /\ d \in Attached(t) /\ Trail(t)[d] = Trail(s)[d]
    BY DEF Relocated
  <1>3. \A m \in M : Trail(s)[m] \in Seq(Name) /\ Append(Trail(s)[d], t.name[m]) \in Seq(Name)
    BY <1>1, <1>2
  <1>4. ASSUME NEW x \in Attached(s), x = Root \/ s.parent[x] \in Good PROVE x \in Good
    <2> SUFFICES ASSUME NEW m, Nearest(s, M, x, m) PROVE Comes(x, m)
      OBVIOUS
    <2>1. m \in M /\ Below(s, x, m) /\ m \in Attached(s) /\ m # Root
      BY <1>2 DEF Nearest
    <2>2. x # Root /\ x \in Born(s) /\ s.parent[x] \in Attached(s)
      BY <1>1, <2>1, RootBelow
    <2>3. CASE x \in M
      <3>1. Below(s, m, x)
        BY <2>3, BelowItself DEF Nearest
      <3>2. x = m
        BY <1>1, <2>1, <2>2, <3>1, BelowAnti
      <3>3. t.parent[x] = d /\ d # NoNode
        BY <1>1, <1>2, <2>2, <2>3 DEF Relocated
      <3>4. x \in Attached(t)
        BY <1>1, <1>2, <2>2, <3>3, AttachedUp
      <3>5. Trail(t)[x] = Append(Trail(s)[d], t.name[m])
        BY <1>1, <1>2, <2>2, <3>2, <3>3, TrailDefined
      <3>6. Rebases(Trail(s)[x], Trail(s)[m], Trail(t)[x], Append(Trail(s)[d], t.name[m]))
        BY <1>3, <2>1, <3>2, <3>5, RebasesStep
      <3> QED
        BY <3>4, <3>6
    <2>4. CASE x \notin M
      <3> DEFINE y == s.parent[x]
      <3>1. y \in Attached(s) /\ y # NoNode /\ x # m
        BY <1>1, <2>1, <2>2, <2>4
      <3>2. Below(s, y, m)
        BY <2>1, <2>2, <3>1, BelowUp
      <3>3. Below(s, x, y)
        BY <2>2, <3>1, BelowUp, BelowItself
      <3> HIDE DEF y
      <3>4. ASSUME NEW o \in M, Below(s, y, o) PROVE Below(s, m, o)
        <4>1. Below(s, x, o)
          BY <3>3, <3>4, BelowTrans
        <4> QED
          BY <4>1 DEF Nearest
      <3>5. Nearest(s, M, y, m)
        BY <2>1, <3>2, <3>4 DEF Nearest
      <3>6. Comes(y, m)
        BY <1>4, <2>2, <3>5 DEF y
      <3>7. y # d
        BY <1>2, <2>1, <3>2
      <3>8. t.parent[x] = y /\ t.name[x] = s.name[x]
        BY <2>2, <2>4, <3>7 DEF Relocated, y
      <3>9. x \in Attached(t)
        BY <1>1, <2>2, <3>6, <3>8, AttachedUp
      <3>10. Trail(t)[x] = Append(Trail(t)[y], t.name[x])
        BY <1>1, <2>2, <3>1, <3>8, TrailDefined
      <3>11. Trail(s)[x] = Append(Trail(s)[y], t.name[x])
        BY <1>1, <2>2, <3>8 DEF y
      <3>12. /\ Trail(s)[m] \in Seq(Name) /\ Append(Trail(s)[d], t.name[m]) \in Seq(Name)
             /\ Trail(s)[y] \in Seq(Name) /\ Trail(t)[y] \in Seq(Name) /\ t.name[x] \in Name
        BY <1>1, <1>3, <2>1, <2>2, <3>1, <3>6
      <3>13. Rebases(Append(Trail(s)[y], t.name[x]), Trail(s)[m], Append(Trail(t)[y], t.name[x]),
                     Append(Trail(s)[d], t.name[m]))
        BY <3>6, <3>12, RebasesStep
      <3> QED
        BY <3>9, <3>10, <3>11, <3>13
    <2> QED
      BY <2>3, <2>4
  <1>5. Attached(s) \subseteq Good
    <2> HIDE DEF Good
    <2> QED
      BY <1>1, <1>4, AlongParents
  <1> QED
    BY <1>5

\* Everything else stays, unless one of the names led to it.
LEMMA RelocatedStays ==
    ASSUME NEW s, NEW t, NEW M, NEW d, NEW K, Relocated(s, t, M, d, K)
    PROVE  \A x \in Attached(s) :
               ~ AtMatch(s, M, x) /\ (\A k \in K : ~ Begins(Append(Trail(s)[d], k), Trail(s)[x])) =>
                   x \in Attached(t) /\ Trail(t)[x] = Trail(s)[x]
  <1> DEFINE to(k) == Append(Trail(s)[d], k)
             S == {x \in Attached(s) :
                       ~ AtMatch(s, M, x) /\ \A k \in K : ~ Begins(to(k), Trail(s)[x])}
  <1>1. /\ TreeInv(s) /\ Rooted(s) /\ Rooted(t) /\ Born(t) = Born(s)
        /\ Attached(s) \subseteq Born(s) /\ NoNode \notin Born(s) /\ s.parent[Root] = NoNode
        /\ \A x \in Born(s) : s.name[x] \in Name
        /\ \A x \in Attached(s) \ {Root} : s.parent[x] \in Attached(s)
        /\ \A x \in Attached(s) : Trail(s)[x] \in Seq(Name)
        /\ \A x \in Attached(s) \ {Root} : Trail(s)[x] = Append(Trail(s)[s.parent[x]], s.name[x])
    BY RelocatedTrees
  <1>2. M \subseteq Attached(s) \ {Root} /\ d \in Attached(s) /\ K \subseteq Name
    BY DEF Relocated
  <1>3. \A k \in K : to(k) \in Seq(Name)
    BY <1>1, <1>2
  <1>4. ASSUME NEW x \in S, x # Root PROVE s.parent[x] \in S /\ t.parent[x] = s.parent[x]
    <2> DEFINE y == s.parent[x]
    <2>1. y \in Attached(s) /\ x \in Born(s) /\ y # NoNode /\ s.name[x] \in Name
          /\ Trail(s)[y] \in Seq(Name) /\ Trail(s)[x] = Append(Trail(s)[y], s.name[x])
      BY <1>1, <1>4
    <2>2. \A o : Below(s, y, o) => Below(s, x, o)
      BY <2>1, BelowUp
    <2>3. ~ AtMatch(s, M, y) /\ x \notin M
      BY <2>2, BelowItself DEF AtMatch
    <2>4. ASSUME NEW k \in K PROVE ~ Begins(to(k), Trail(s)[y])
      <3>1. to(k) \in Seq(Name) /\ ~ Begins(to(k), Append(Trail(s)[y], s.name[x]))
        BY <1>3, <2>1
      <3> HIDE DEF to, y
      <3> QED
        BY <2>1, <3>1, BeginsAppend
    <2>5. ~ (y = d /\ s.name[x] \in K)
      <3> SUFFICES ASSUME y = d, s.name[x] \in K PROVE FALSE
        OBVIOUS
      <3>1. Trail(s)[x] = to(s.name[x]) /\ Trail(s)[x] \in Seq(Name)
        BY <1>1, <2>1
      <3>2. Begins(Trail(s)[x], Trail(s)[x])
        BY <2>1, <3>1, BeginsAppend
      <3> QED
        BY <3>1, <3>2
    <2>6. t.parent[x] = y
      BY <1>4, <2>3, <2>5 DEF Relocated
    <2> QED
      BY <2>1, <2>3, <2>4, <2>6
  <1>5. \A x \in S : t.name[x] = s.name[x]
    BY BelowItself DEF Relocated, AtMatch
  <1>6. Root \in S => t.parent[Root] = s.parent[Root]
    BY <1>1 DEF Rooted
  <1>7. S \in SUBSET Attached(s) /\ S \subseteq Born(t)
    BY <1>1
  <1>8. \A x \in S : Trail(t)[x] = Trail(s)[x] /\ x \in Attached(t)
    <2>1. \A x \in S : t.parent[x] = s.parent[x] /\ (x = Root \/ s.parent[x] \in S)
      BY <1>4, <1>6
    <2> HIDE DEF S
    <2> QED
      BY <1>1, <1>5, <1>7, <2>1, SameTrail
  <1> QED
    BY <1>8

\* What one of the names led to is gone, unless it is one of what was moved.
LEMMA RelocatedGone ==
    ASSUME NEW s, NEW t, NEW M, NEW d, NEW K, Relocated(s, t, M, d, K),
           NEW x \in Attached(s), ~ AtMatch(s, M, x), NEW k \in K,
           Begins(Append(Trail(s)[d], k), Trail(s)[x])
    PROVE  x \notin Attached(t)
  <1>1. /\ TreeInv(s) /\ Rooted(s) /\ Rooted(t) /\ Born(t) = Born(s)
        /\ Attached(s) \subseteq Born(s) /\ NoNode \notin Born(s) /\ Attached(t) \subseteq Attached(s)
        /\ \A y \in Attached(s) \ {Root} : s.parent[y] \in Attached(s)
        /\ \A y \in Attached(s) : Trail(s)[y] \in Seq(Name)
    BY RelocatedTrees
  <1>2. d \in Attached(s) /\ k \in Name /\ Trail(s)[d] \in Seq(Name)
    BY <1>1 DEF Relocated
  <1> DEFINE c == s.child[d][k]
  <1>3. c \in Attached(s) /\ Below(s, x, c)
    <2>1. c # NoNode /\ ~ Avoids(s, x, c)
      BY <1>1, <1>2, ChildPath
    <2> QED
      BY <1>1, <1>2, <2>1, ChildPath DEF Below
  <1>4. s.parent[c] = d /\ s.name[c] = k
    BY <1>1, <1>2, <1>3 DEF TreeInv, Sound
  <1> HIDE DEF c
  <1>5. c # Root /\ c \notin M
    BY <1>1, <1>2, <1>3, <1>4 DEF Rooted, AtMatch
  <1>6. t.parent[c] = NoNode
    BY <1>3, <1>4, <1>5 DEF Relocated
  <1>7. c \notin Attached(t)
    BY <1>1, <1>3, <1>5, <1>6, AttachedUp
  <1> DEFINE Good == {y \in Attached(s) :
                          ~ AtMatch(s, M, y) /\ Below(s, y, c) => y \notin Attached(t)}
  <1>8. ASSUME NEW y \in Attached(s), y = Root \/ s.parent[y] \in Good PROVE y \in Good
    <2> SUFFICES ASSUME ~ AtMatch(s, M, y), Below(s, y, c) PROVE y \notin Attached(t)
      OBVIOUS
    <2>1. CASE y = c
      BY <1>7, <2>1
    <2>2. CASE y # c
      <3>1. y # Root /\ y \in Born(s)
        BY <1>1, <1>5, RootBelow
      <3>2. s.parent[y] \in Attached(s) /\ s.parent[y] # NoNode /\ Below(s, s.parent[y], c)
        BY <1>1, <2>2, <3>1, BelowUp
      <3>3. ~ AtMatch(s, M, s.parent[y]) /\ y \notin M
        BY <3>1, <3>2, BelowUp, BelowItself DEF AtMatch
      <3>4. s.parent[y] \notin Attached(t)
        BY <1>8, <3>1, <3>2, <3>3
      <3>5. t.parent[y] \in {NoNode, s.parent[y]}
        BY <3>1, <3>3 DEF Relocated
      <3> QED
        BY <1>1, <3>1, <3>4, <3>5, AttachedUp
    <2> QED
      BY <2>1, <2>2
  <1>9. Attached(s) \subseteq Good
    <2> HIDE DEF Good
    <2> QED
      BY <1>1, <1>8, AlongParents
  <1> QED
    BY <1>3, <1>9

\* Of b only directories above the paths Q are new in s.
NewAbove(b, s, Q) ==
    \A x \in Attached(s) \ Attached(b) : \E q \in Q : \E j \in 1 .. Len(q) : Trail(s)[x] = Beginning(q, j)

\* s is b with directories above q, as many as d needed.
MadeFor(b, s, d, q) ==
    /\ InOrder(b) /\ Grown(b, s) /\ NewAbove(b, s, {q})
    /\ \A x \in Attached(s) \ Attached(b) : Below(s, d, x)

\* The matches M of b were put at their places in t, with what was below them; of
\* the rest only what is at or below the paths O is not where it was, and nothing
\* else is there but what leads to the paths Q.
Touched(b, t, M, place, O, Q) ==
    /\ TreeInv(b) /\ TreeInv(t) /\ M \subseteq Attached(b)
    /\ \A x \in Attached(b) : \A m : Nearest(b, M, x, m) =>
           x \in Attached(t) /\ Rebases(Trail(b)[x], Trail(b)[m], Trail(t)[x], place[m])
    /\ \A x \in Attached(b) : ~ AtMatch(b, M, x) /\ (\A o \in O : ~ Begins(o, Trail(b)[x])) =>
           x \in Attached(t) /\ Trail(t)[x] = Trail(b)[x]
    /\ \A x \in Attached(t) :
           \/ x \in Attached(b) /\ (AtMatch(b, M, x) \/ \A o \in O : ~ Begins(o, Trail(b)[x]))
           \/ \E q \in Q : \E j \in 1 .. Len(q) : Trail(t)[x] = Beginning(q, j)

\* Of nodes that were there already the same ones are above as before.
LEMMA GrownBelow ==
    ASSUME NEW b, NEW s, InOrder(b), Grown(b, s), NEW x \in Attached(b), NEW y \in Attached(b)
    PROVE  Below(s, x, y) <=> Below(b, x, y)
  <1>1. /\ TreeInv(b) /\ TreeInv(s) /\ x \in Attached(s) /\ y \in Attached(s)
        /\ Trail(s)[x] = Trail(b)[x] /\ Trail(s)[y] = Trail(b)[y]
    BY DEF Grown, NoReturn, InOrder
  <1>2. Begins(Trail(b)[y], Trail(b)[x]) <=> ~ Avoids(b, x, y)
    BY <1>1, BelowIsPrefix
  <1>3. Begins(Trail(s)[y], Trail(s)[x]) <=> ~ Avoids(s, x, y)
    BY <1>1, BelowIsPrefix
  <1> QED
    BY <1>1, <1>2, <1>3 DEF Below

\* A move, that made its directory before.
LEMMA MoveTouches ==
    ASSUME NEW b, NEW s, NEW d, NEW q, MadeFor(b, s, d, q),
           NEW t, NEW M \in SUBSET Attached(b), NEW K, Relocated(s, t, M, d, K),
           NEW place, \A m \in M : place[m] = Append(Trail(s)[d], t.name[m]),
           NEW O, \A o : o \in O <=> \E k \in K : o = Append(Trail(s)[d], k), NEW Q, q \in Q
    PROVE  Touched(b, t, M, place, O, Q)
  <1>1. /\ InOrder(b) /\ TreeInv(b) /\ TreeInv(t) /\ Rooted(s) /\ Attached(t) \subseteq Attached(s)
        /\ Grown(b, s) /\ Attached(b) \subseteq Attached(s)
        /\ \A x \in Attached(b) : Trail(s)[x] = Trail(b)[x]
    <2>1. InOrder(b) /\ TreeInv(b) /\ Grown(b, s)
      BY DEF MadeFor, InOrder
    <2>2. Attached(b) \subseteq Attached(s) /\ \A x \in Attached(b) : Trail(s)[x] = Trail(b)[x]
      BY <2>1 DEF Grown
    <2> QED
      BY <2>1, <2>2, RelocatedTrees
  <1>2. \A x, y \in Attached(b) : Below(s, x, y) <=> Below(b, x, y)
    BY <1>1, GrownBelow
  <1>3. \A x \in Attached(b) : AtMatch(s, M, x) <=> AtMatch(b, M, x)
    BY <1>2 DEF AtMatch
  <1>4. ASSUME NEW x \in Attached(b), NEW m, Nearest(b, M, x, m)
        PROVE  x \in Attached(t) /\ Rebases(Trail(b)[x], Trail(b)[m], Trail(t)[x], place[m])
    <2>1. m \in M /\ m \in Attached(b) /\ x \in Attached(s)
      BY <1>1, <1>4 DEF Nearest
    <2>2. Nearest(s, M, x, m)
      BY <1>2, <1>4, <2>1 DEF Nearest
    <2>3. /\ x \in Attached(t)
          /\ Rebases(Trail(s)[x], Trail(s)[m], Trail(t)[x], Append(Trail(s)[d], t.name[m]))
      BY <2>1, <2>2, RelocatedComes
    <2> QED
      BY <1>1, <2>1, <2>3
  <1>5. ASSUME NEW x \in Attached(b), ~ AtMatch(b, M, x), \A o \in O : ~ Begins(o, Trail(b)[x])
        PROVE  x \in Attached(t) /\ Trail(t)[x] = Trail(b)[x]
    <2>1. ~ AtMatch(s, M, x) /\ x \in Attached(s) /\ Trail(s)[x] = Trail(b)[x]
      BY <1>1, <1>3, <1>5
    <2>2. \A k \in K : ~ Begins(Append(Trail(s)[d], k), Trail(s)[x])
      BY <1>5, <2>1
    <2>3. x \in Attached(t) /\ Trail(t)[x] = Trail(s)[x]
      BY <2>1, <2>2, RelocatedStays
    <2> QED
      BY <2>1, <2>3
  <1>6. ASSUME NEW x \in Attached(t)
        PROVE  \/ x \in Attached(b) /\ (AtMatch(b, M, x) \/ \A o \in O : ~ Begins(o, Trail(b)[x]))
               \/ \E j \in 1 .. Len(q) : Trail(t)[x] = Beginning(q, j)
    <2>1. CASE x \in Attached(b)
      <3> SUFFICES ASSUME ~ AtMatch(b, M, x), NEW k \in K,
                          Begins(Append(Trail(s)[d], k), Trail(b)[x])
                   PROVE  FALSE
        BY <2>1
      <3>1. x \in Attached(s) /\ ~ AtMatch(s, M, x) /\ Begins(Append(Trail(s)[d], k), Trail(s)[x])
        BY <1>1, <1>3, <2>1
      <3> QED
        BY <3>1, RelocatedGone
    <2>2. CASE x \notin Attached(b)
      <3>1. x \in Attached(s) \ Attached(b)
        BY <1>1, <2>2
      <3>2. Below(s, d, x) /\ \E j \in 1 .. Len(q) : Trail(s)[x] = Beginning(q, j)
        BY <3>1 DEF MadeFor, NewAbove
      <3>3. ~ AtMatch(s, M, x)
        <4> SUFFICES ASSUME NEW m \in M, Below(s, x, m) PROVE FALSE
          BY DEF AtMatch
        <4>1. Below(s, d, m)
          BY <3>2, BelowTrans
        <4> QED
          BY <4>1 DEF Relocated
      <3>4. \A k \in K : ~ Begins(Append(Trail(s)[d], k), Trail(s)[x])
        BY <3>1, <3>3, RelocatedGone
      <3>5. Trail(t)[x] = Trail(s)[x]
        BY <3>1, <3>3, <3>4, RelocatedStays
      <3> QED
        BY <3>2, <3>5
    <2> QED
      BY <2>1, <2>2
  <1> QED
    BY <1>1, <1>4, <1>5, <1>6 DEF Touched

\* Names at the beginning of no more are these.
LEMMA BeginsAll ==
    ASSUME NEW p \in Seq(Name), NEW q \in Seq(Name), Begins(p, q), Len(q) <= Len(p)
    PROVE  p = q
  <1>1. Len(p) \in Nat /\ Len(q) \in Nat
    OBVIOUS
  <1>2. Len(p) = Len(q) /\ SubSeq(p, 1, Len(p)) = SubSeq(q, 1, Len(p))
    BY <1>1 DEF Begins, Package!IsPrefix
  <1>3. SubSeq(p, 1, Len(p)) = p /\ SubSeq(q, 1, Len(q)) = q
    OBVIOUS
  <1> QED
    BY <1>2, <1>3

\* The innermost match is the one at the end of the most names.
LEMMA LongestIsNearest ==
    ASSUME NEW b, TreeInv(b), NEW M \in SUBSET Attached(b), NEW x \in Attached(b),
           NEW m \in M, Begins(Trail(b)[m], Trail(b)[x]),
           \A o \in M : Begins(Trail(b)[o], Trail(b)[x]) => Len(Trail(b)[o]) <= Len(Trail(b)[m])
    PROVE  Nearest(b, M, x, m)
  <1>1. Rooted(b) /\ Attached(b) \subseteq Born(b)
    BY AttachedUp DEF TreeInv, Sound
  <1>2. \A y, z \in Attached(b) : Begins(Trail(b)[y], Trail(b)[z]) <=> Below(b, z, y)
    BY BelowIsPrefix DEF Below
  <1>3. ASSUME NEW o \in M, Below(b, x, o) PROVE Below(b, m, o)
    <2>1. Below(b, x, m) /\ Len(Trail(b)[o]) <= Len(Trail(b)[m])
      BY <1>2, <1>3
    <2>2. Below(b, m, o) \/ Below(b, o, m)
      BY <1>1, <1>3, <2>1, Comparable
    <2>3. ASSUME Below(b, o, m) PROVE o = m
      <3>1. Begins(Trail(b)[m], Trail(b)[o]) /\ Trail(b)[m] \in Seq(Name) /\ Trail(b)[o] \in Seq(Name)
        BY <1>2, <2>3, ContentsAre
      <3>2. Trail(b)[m] = Trail(b)[o]
        BY <2>1, <3>1, BeginsAll
      <3> QED
        BY <3>2, ContentsAre
    <2> QED
      BY <2>2, <2>3
  <1> QED
    BY <1>2, <1>3 DEF Nearest

\* The matches and where the rule says they go, as paths.
Arranged(M, place) ==
    /\ handled = {Trail(before)[m] : m \in M}
    /\ \A m \in M : place[m] = Places(Trail(before)[m]) /\ place[m] \in Seq(Name)
    /\ Touched(before, tree, M, place, Overlaps, Destinations)
    /\ Overlaps \subseteq Seq(Name) /\ Destinations \subseteq Seq(Name)

\* The innermost match by paths is the innermost one.
LEMMA InnermostIs ==
    ASSUME NEW M, NEW place, Arranged(M, place), NEW x \in Attached(before), AtMatch(before, M, x)
    PROVE  \E m : Nearest(before, M, x, m) /\ Innermost(Trail(before)[x]) = Trail(before)[m]
  <1> DEFINE q == Trail(before)[x]
             D == {m \in M : Below(before, x, m)}
             Longest(p) == IsPrefix(p, q) /\ \A o \in handled : IsPrefix(o, q) => Len(o) <= Len(p)
             p == Innermost(q)
  <1>1. /\ TreeInv(before) /\ Rooted(before) /\ M \in SUBSET Attached(before)
        /\ handled = {Trail(before)[m] : m \in M}
    BY DEF Arranged, Touched, TreeInv, Sound
  <1>2. \A m \in M : IsPrefix(Trail(before)[m], q) <=> Below(before, x, m)
    BY <1>1, BelowIsPrefix, BeginsIsPrefix DEF Below
  <1>3. D \in SUBSET Attached(before) /\ D # {}
    BY <1>1 DEF AtMatch
  <1>4. PICK y \in D : \A z \in D : Len(Trail(before)[z]) <= Len(Trail(before)[y])
    <2> HIDE DEF D
    <2> QED
      BY <1>1, <1>3, DeepestOf
  <1>5. Trail(before)[y] \in handled /\ Longest(Trail(before)[y])
    <2>1. Trail(before)[y] \in handled /\ IsPrefix(Trail(before)[y], q)
      BY <1>1, <1>2
    <2>2. ASSUME NEW o \in handled, IsPrefix(o, q) PROVE Len(o) <= Len(Trail(before)[y])
      <3>1. PICK m \in M : o = Trail(before)[m]
        BY <1>1
      <3>2. m \in D
        BY <1>2, <2>2, <3>1
      <3> QED
        BY <1>4, <3>1, <3>2
    <2> QED
      BY <2>1, <2>2
  <1>6. p = CHOOSE m \in handled : Longest(m)
    BY DEF Innermost
  <1>7. p \in handled /\ Longest(p)
    <2> HIDE DEF Longest, p
    <2> QED
      BY <1>5, <1>6
  <1>8. PICK m \in M : p = Trail(before)[m]
    BY <1>1, <1>7
  <1>9. Begins(Trail(before)[m], Trail(before)[x])
    BY <1>7, <1>8, BeginsIsPrefix
  <1>10. \A o \in M : Begins(Trail(before)[o], Trail(before)[x]) =>
             Len(Trail(before)[o]) <= Len(Trail(before)[m])
    BY <1>1, <1>7, <1>8, BeginsIsPrefix
  <1>11. Nearest(before, M, x, m)
    BY <1>1, <1>9, <1>10, LongestIsNearest
  <1> QED
    BY <1>8, <1>11

\* Where the package has what it had before is where the rule says.
LEMMA KeptIsThere ==
    ASSUME NEW M, NEW place, Arranged(M, place), NEW x \in Attached(before),
           AtMatch(before, M, x) \/ ~ UnderOneOf(Trail(before)[x], Overlaps)
    PROVE  x \in Attached(tree) /\ NewPath(Trail(before)[x]) = Trail(tree)[x]
  <1> DEFINE q == Trail(before)[x]
  <1>1. /\ TreeInv(before) /\ TreeInv(tree) /\ M \in SUBSET Attached(before)
        /\ handled = {Trail(before)[m] : m \in M}
        /\ Touched(before, tree, M, place, Overlaps, Destinations)
    BY DEF Arranged, Touched
  <1>2. UnderOneOf(q, handled) <=> AtMatch(before, M, x)
    BY <1>1, MatchesByPath
  <1>3. CASE AtMatch(before, M, x)
    <2>1. PICK m : Nearest(before, M, x, m) /\ Innermost(q) = Trail(before)[m]
      BY <1>3, InnermostIs
    <2>2. m \in M /\ place[m] = Places(Trail(before)[m]) /\ place[m] \in Seq(Name)
      BY <2>1 DEF Nearest, Arranged
    <2>3. x \in Attached(tree) /\ Rebases(q, Trail(before)[m], Trail(tree)[x], place[m])
      BY <1>1, <2>1 DEF Touched
    <2>4. q \in Seq(Name) /\ Trail(before)[m] \in Seq(Name) /\ Trail(tree)[x] \in Seq(Name)
      BY <1>1, <2>2, <2>3, ContentsAre
    <2> HIDE DEF q
    <2>5. Package!Rebased(q, Trail(before)[m], place[m]) = Trail(tree)[x]
      BY <2>2, <2>3, <2>4, RebasesIs
    <2>6. NewPath(q) = Package!Rebased(q, Trail(before)[m], place[m])
      BY <1>2, <1>3, <2>1, <2>2 DEF NewPath, Package!Rebased
    <2> QED
      BY <2>3, <2>5, <2>6 DEF q
  <1>4. CASE ~ AtMatch(before, M, x)
    <2>1. \A o \in Overlaps : ~ Begins(o, q)
      BY <1>4, BeginsIsPrefix DEF UnderOneOf
    <2>2. x \in Attached(tree) /\ Trail(tree)[x] = q
      BY <1>1, <1>4, <2>1 DEF Touched
    <2>3. NewPath(q) = q
      BY <1>2, <1>4 DEF NewPath
    <2> QED
      BY <2>2, <2>3
  <1> QED
    BY <1>3, <1>4

\* So much of a path that it leads to a destination.
LEMMA BeginningLeadsTo ==
    ASSUME NEW q \in Seq(Name), NEW j \in 1 .. Len(q)
    PROVE  Beginning(q, j) = q \/ IsStrictPrefix(Beginning(q, j), q)
  <1>1. Len(q) \in Nat /\ j \in 0 .. Len(q)
    OBVIOUS
  <1>2. Beginning(q, j) \in Seq(Name) /\ Len(Beginning(q, j)) = j
    BY <1>1, BeginningIs
  <1>3. SubSeq(Beginning(q, j), 1, j) = Beginning(q, j)
    BY <1>2
  <1>4. IsPrefix(Beginning(q, j), q)
    BY <1>1, <1>2, <1>3 DEF IsPrefix, Beginning
  <1> QED
    BY <1>4 DEF IsStrictPrefix

LEMMA ArrangedIsNamed ==
    ASSUME NEW M, NEW place, Arranged(M, place)
    PROVE  /\ \A q \in Kept : At(tree)[NewPath(q)] = At(before)[q]
           /\ PathsOf(tree) \subseteq
                  {NewPath(q) : q \in Kept} \cup {p \in PathNames : AboveOneOf(p, Destinations)}
                                            \cup Destinations
  <1>1. /\ TreeInv(before) /\ TreeInv(tree) /\ M \in SUBSET Attached(before)
        /\ handled = {Trail(before)[m] : m \in M} /\ Destinations \subseteq Seq(Name)
        /\ Touched(before, tree, M, place, Overlaps, Destinations)
    BY DEF Arranged, Touched
  <1>2. \A x \in Attached(before) : UnderOneOf(Trail(before)[x], handled) <=> AtMatch(before, M, x)
    BY <1>1, MatchesByPath
  <1>3. NoNode \notin Attached(tree) /\ NoNode \notin Attached(before)
    BY NodeAssumption DEF Attached, Born
  <1>4. ASSUME NEW q \in Kept PROVE At(tree)[NewPath(q)] = At(before)[q]
    <2>1. q \in PathNames /\ At(before)[q] # NoNode
          /\ (UnderOneOf(q, handled) \/ ~ UnderOneOf(q, Overlaps))
      BY DEF Kept, PathsOf
    <2>2. PICK x \in Attached(before) : At(before)[q] = x /\ Trail(before)[x] = q
      BY <1>1, <2>1, AtIs
    <2>3. x \in Attached(tree) /\ NewPath(q) = Trail(tree)[x]
      BY <1>2, <2>1, <2>2, KeptIsThere
    <2>4. At(tree)[Trail(tree)[x]] = x
      BY <1>1, <2>3, TrailFinds
    <2> QED
      BY <2>2, <2>3, <2>4
  <1>5. ASSUME NEW p \in PathsOf(tree)
        PROVE  p \in {NewPath(q) : q \in Kept} \cup {r \in PathNames : AboveOneOf(r, Destinations)}
                                               \cup Destinations
    <2>1. p \in PathNames /\ At(tree)[p] # NoNode
      BY DEF PathsOf
    <2>2. PICK x \in Attached(tree) : Trail(tree)[x] = p
      BY <1>1, <2>1, AtIs
    <2>3. CASE x \in Attached(before)
               /\ (AtMatch(before, M, x) \/ \A o \in Overlaps : ~ Begins(o, Trail(before)[x]))
      <3> DEFINE q == Trail(before)[x]
      <3>1. AtMatch(before, M, x) \/ ~ UnderOneOf(q, Overlaps)
        BY <2>3, BeginsIsPrefix DEF UnderOneOf
      <3>2. NewPath(q) = p
        BY <2>2, <2>3, <3>1, KeptIsThere
      <3>3. q \in PathsOf(before)
        <4>1. q \in PathNames /\ At(before)[q] = x
          BY <1>1, <2>3, TrailIsShort, TrailFinds DEF TreeInv, Sound
        <4> QED
          BY <1>3, <2>3, <4>1 DEF PathsOf
      <3>4. q \in Kept
        BY <1>2, <2>3, <3>1, <3>3 DEF Kept
      <3> QED
        BY <3>2, <3>4
    <2>4. CASE \E q \in Destinations : \E j \in 1 .. Len(q) : Trail(tree)[x] = Beginning(q, j)
      <3>1. PICK q \in Destinations : \E j \in 1 .. Len(q) : Trail(tree)[x] = Beginning(q, j)
        BY <2>4
      <3>2. PICK j \in 1 .. Len(q) : p = Beginning(q, j)
        BY <2>2, <3>1
      <3>3. p = q \/ IsStrictPrefix(p, q)
        BY <1>1, <3>1, <3>2, BeginningLeadsTo
      <3> QED
        BY <2>1, <3>1, <3>3 DEF AboveOneOf
    <2> QED
      BY <1>1, <2>3, <2>4 DEF Touched
  <1> QED
    BY <1>4, <1>5

-----------------------------------------------------------------------------
(* What a rule has arranged so far.                                         *)

\* A move into the directory d, whose path is T, that has the matches l left.
MovedSoFar(b, t, l, d, T, K, H) ==
    \E s, M :
        /\ MadeFor(b, s, d, T) /\ Trail(s)[d] = T
        /\ Relocated(s, t, M, d, K)
        /\ M \subseteq Attached(b) /\ l \subseteq Attached(b)
        /\ H = {Trail(b)[m] : m \in M \cup l}
        /\ K = {t.name[m] : m \in M} /\ \A m \in M : t.name[m] = b.name[m]

\* The match p was moved into d, and has the name T says.
RenamedTo(b, t, d, T, H) ==
    \E s, p :
        /\ MadeFor(b, s, d, T) /\ Trail(s)[d] = Front(T)
        /\ Relocated(s, t, {p}, d, {b.name[p], Last(T)})
        /\ p \in Attached(b) /\ t.name[p] = Last(T)
        /\ H = {Trail(b)[p]}

Applied(kind) == pc = "done" /\ rule.kind = kind /\ rule.applies

SearchState == pc = "target" => tree = before /\ handled = {} /\ names = {}
RenameState ==
    pc = "rename" =>
        /\ MadeFor(before, tree, target, rule.target) /\ Trail(tree)[target] = Front(rule.target)
        /\ left \subseteq Attached(before) /\ handled = {Trail(before)[m] : m \in left} /\ names = {}
MovingState ==
    /\ pc = "move" \/ (Applied("move") /\ names # {}) =>
           MovedSoFar(before, tree, left, target, rule.target, names, handled)
    /\ Applied("move") => left = {}
RenamedState ==
    Applied("move") /\ names = {} => RenamedTo(before, tree, target, rule.target, handled)
LinkedState ==
    Applied("symlink") =>
        handled = {} /\ Touched(before, tree, {}, <<>>, {rule.path}, {rule.path})
MadeState ==
    pc = "mkdirs" \/ Applied("mkdirs") =>
        /\ handled = {} /\ InOrder(before) /\ Grown(before, tree)
        /\ NewAbove(before, tree, Range(rule.paths))

ArrangeInv ==
    /\ SearchState /\ RenameState /\ MovingState /\ RenamedState /\ LinkedState /\ MadeState
    /\ rule \in Rules \cup {NoRule} /\ InOrder(tree)

\* The last name of a path is the one of the node.
LEMMA LastIsName ==
    ASSUME NEW t, TreeInv(t), NEW m \in Attached(t) \ {Root}
    PROVE  Last(Trail(t)[m]) = t.name[m] /\ t.name[m] \in Name
  <1>1. Rooted(t) /\ m \in Born(t) /\ t.parent[m] \in Attached(t)
    BY AttachedUp DEF TreeInv, Sound
  <1>2. t.parent[m] # NoNode /\ t.name[m] \in Name
    BY <1>1, NodeAssumption DEF Rooted, Trees, Attached, Born
  <1>3. Trail(t)[m] = Append(Trail(t)[t.parent[m]], t.name[m])
    BY <1>1, <1>2, TrailDefined
  <1>4. Trail(t)[t.parent[m]] \in Seq(Name)
    BY <1>1, ContentsAre
  <1>5. \A p \in Seq(Name), k \in Name : Last(Append(p, k)) = k
    <2> SUFFICES ASSUME NEW p \in Seq(Name), NEW k \in Name PROVE Last(Append(p, k)) = k
      OBVIOUS
    <2>1. Len(Append(p, k)) = Len(p) + 1 /\ Append(p, k)[Len(p) + 1] = k
      OBVIOUS
    <2> QED
      BY <2>1 DEF Last
  <1> QED
    BY <1>2, <1>3, <1>4, <1>5

\* Where one rule's matches are when it has moved the last of them.
LEMMA MovedIsArranged ==
    ASSUME rule.kind = "move", rule.target \in Seq(Name), names # {},
           MovedSoFar(before, tree, {}, target, rule.target, names, handled)
    PROVE  \E M, place : Arranged(M, place)
  <1> DEFINE T == rule.target
  <1>1. PICK s, M :
            /\ MadeFor(before, s, target, T) /\ Trail(s)[target] = T
            /\ Relocated(s, tree, M, target, names)
            /\ M \subseteq Attached(before)
            /\ handled = {Trail(before)[m] : m \in M \cup {}}
            /\ names = {tree.name[m] : m \in M} /\ \A m \in M : tree.name[m] = before.name[m]
    BY DEF MovedSoFar
  <1> DEFINE place == [m \in M |-> Append(T, tree.name[m])]
  <1>2. handled = {Trail(before)[m] : m \in M}
    BY <1>1
  <1>3. TreeInv(before) /\ Root \notin M /\ names \subseteq Name
    BY <1>1 DEF MadeFor, InOrder, Relocated
  <1>4. Touched(before, tree, M, place, {Append(T, k) : k \in names}, {T})
    <2>1. \A m \in M : place[m] = Append(Trail(s)[target], tree.name[m])
      BY <1>1
    <2> HIDE DEF place
    <2> DEFINE O == {Append(Trail(s)[target], k) : k \in names}
    <2>2. Touched(before, tree, M, place, O, {T})
      <3>1. /\ MadeFor(before, s, target, T) /\ Relocated(s, tree, M, target, names)
            /\ M \in SUBSET Attached(before)
        BY <1>1
      <3>2. \A o : o \in O <=> \E k \in names : o = Append(Trail(s)[target], k)
        OBVIOUS
      <3>3. T \in {T}
        OBVIOUS
      <3> HIDE DEF O, T
      <3> QED
        BY <2>1, <3>1, <3>2, <3>3, MoveTouches
    <2> QED
      BY <1>1, <2>2
  <1>5. \A m \in M : Last(Trail(before)[m]) = tree.name[m] /\ tree.name[m] \in Name
    BY <1>1, <1>3, LastIsName
  <1>6. \A m \in M : place[m] = Places(Trail(before)[m]) /\ place[m] \in Seq(Name)
    BY <1>5 DEF Places
  <1>7. Destinations = {T}
    BY DEF Destinations
  <1>8. Overlaps = {Append(T, k) : k \in names}
    <2>1. Overlaps = {Places(m) : m \in handled}
      BY DEF Overlaps
    <2>2. Overlaps = {Places(Trail(before)[m]) : m \in M}
      BY <1>2, <2>1
    <2> HIDE DEF place
    <2>3. Overlaps = {Append(T, tree.name[m]) : m \in M}
      BY <1>6, <2>2 DEF place
    <2> QED
      BY <1>1, <2>3
  <1>9. \A k \in names : Append(T, k) \in Seq(Name)
    BY <1>3
  <1> HIDE DEF place, T
  <1>10. Overlaps \subseteq Seq(Name) /\ Destinations \subseteq Seq(Name)
    BY <1>7, <1>8, <1>9 DEF T
  <1>11. Arranged(M, place)
    BY <1>2, <1>4, <1>6, <1>7, <1>8, <1>10 DEF Arranged
  <1> QED
    BY <1>11

LEMMA RenamedIsArranged ==
    ASSUME rule.kind = "move", rule.target \in Seq(Name) \ {<<>>}, names = {},
           RenamedTo(before, tree, target, rule.target, handled)
    PROVE  \E M, place : Arranged(M, place)
  <1> DEFINE T == rule.target
             F == Front(T)
  <1>1. PICK s, p :
            /\ MadeFor(before, s, target, T) /\ Trail(s)[target] = Front(T)
            /\ Relocated(s, tree, {p}, target, {before.name[p], Last(T)})
            /\ p \in Attached(before) /\ tree.name[p] = Last(T)
            /\ handled = {Trail(before)[p]}
    BY DEF RenamedTo
  <1> DEFINE M == {p}
             place == [m \in M |-> T]
             K == {before.name[p], Last(T)}
  <1>2. TreeInv(before) /\ p # Root
    BY <1>1 DEF MadeFor, InOrder, Relocated
  <1>3. T \in Seq(Name) /\ F \in Seq(Name) /\ T = Append(F, Last(T)) /\ Last(T) \in Name
    <2>1. T \in Seq(Name) /\ T # <<>> /\ Len(T) \in Nat /\ Len(T) # 0
      BY EmptySeq
    <2>2. Last(T) = T[Len(T)] /\ F = [i \in 1 .. (Len(T) - 1) |-> T[i]]
      BY <2>1 DEF Front, Last
    <2> HIDE DEF F, T
    <2>3. F \in Seq(Name) /\ Last(T) \in Name /\ Len(F) = Len(T) - 1
      BY <2>1, <2>2
    <2> DEFINE k == Last(T)
               a == Append(F, k)
    <2>4. k \in Name
      BY <2>3
    <2>5. a \in Seq(Name) /\ Len(a) = Len(T)
          /\ \A i \in 1 .. Len(T) : a[i] = IF i = Len(T) THEN k ELSE F[i]
      <3> HIDE DEF k
      <3> QED
        BY <2>1, <2>3, <2>4
    <2>6. \A i \in 1 .. Len(T) : a[i] = T[i]
      BY <2>1, <2>2, <2>5
    <2> HIDE DEF a
    <2>7. a = T
      BY <2>1, <2>5, <2>6, SeqEqual
    <2> QED
      BY <2>1, <2>3, <2>7 DEF a
  <1>4. Last(Trail(before)[p]) = before.name[p] /\ before.name[p] \in Name
    BY <1>1, <1>2, LastIsName
  <1>5. Touched(before, tree, M, place, {Append(F, k) : k \in K}, {T})
    <2>1. \A m \in M : place[m] = Append(Trail(s)[target], tree.name[m])
      BY <1>1, <1>3
    <2>2. Relocated(s, tree, M, target, K) /\ M \in SUBSET Attached(before)
      BY <1>1
    <2> HIDE DEF place, K, M
    <2> DEFINE O == {Append(Trail(s)[target], k) : k \in K}
    <2>3. Touched(before, tree, M, place, O, {T})
      <3>1. MadeFor(before, s, target, T)
        BY <1>1
      <3>2. \A o : o \in O <=> \E k \in K : o = Append(Trail(s)[target], k)
        OBVIOUS
      <3>3. T \in {T}
        OBVIOUS
      <3> HIDE DEF O, T
      <3> QED
        BY <2>1, <2>2, <3>1, <3>2, <3>3, MoveTouches
    <2> QED
      BY <1>1, <2>3
  <1>6. \A m \in M : place[m] = Places(Trail(before)[m]) /\ place[m] \in Seq(Name)
    BY <1>3 DEF Places
  <1>7. Destinations = {T}
    BY DEF Destinations
  <1>8. Overlaps = {Append(F, k) : k \in K}
    <2>1. Overlaps = {Places(m) : m \in handled} \cup {Append(Front(rule.target), Last(m)) : m \in handled}
      BY DEF Overlaps
    <2>2. \A m : Places(m) = T
      BY DEF Places
    <2>3. Overlaps = {T, Append(F, Last(Trail(before)[p]))}
      BY <1>1, <2>1, <2>2
    <2> QED
      BY <1>3, <1>4, <2>3
  <1>9. \A k \in K : Append(F, k) \in Seq(Name)
    BY <1>3, <1>4
  <1>10. handled = {Trail(before)[m] : m \in M}
    BY <1>1
  <1> HIDE DEF place, T, F, K, M
  <1>11. Overlaps \subseteq Seq(Name) /\ Destinations \subseteq Seq(Name)
    BY <1>3, <1>7, <1>8, <1>9
  <1>12. Arranged(M, place)
    BY <1>5, <1>6, <1>7, <1>8, <1>10, <1>11 DEF Arranged
  <1> QED
    BY <1>12

\* A package that only got directories above Q.
LEMMA MadeTouches ==
    ASSUME NEW b, InOrder(b), NEW t, Grown(b, t), NEW Q, NewAbove(b, t, Q)
    PROVE  Touched(b, t, {}, <<>>, {}, Q)
  <1>1. TreeInv(b) /\ TreeInv(t)
    BY DEF Grown, NoReturn, InOrder
  <1>2. \A x \in Attached(b) : x \in Attached(t) /\ Trail(t)[x] = Trail(b)[x]
    BY DEF Grown
  <1>3. \A x \in Attached(t) :
            x \in Attached(b) \/ \E q \in Q : \E j \in 1 .. Len(q) : Trail(t)[x] = Beginning(q, j)
    BY DEF NewAbove
  <1>4. \A x, m : ~ Nearest(b, {}, x, m)
    BY DEF Nearest
  <1> QED
    BY <1>1, <1>2, <1>3, <1>4 DEF Touched

\* What the rule that is done has arranged is what the property says.
LEMMA ArrangeInvIsNamed ==
    ASSUME ArrangeInv
    PROVE  OnlyTheNamedIsTouched
  <1> SUFFICES ASSUME Finished({"move", "symlink", "mkdirs"}), rule.applies
               PROVE  \E M, place : Arranged(M, place)
    BY ArrangedIsNamed DEF OnlyTheNamedIsTouched
  <1>1. rule \in Rules \cup {NoRule} /\ pc = "done" /\ rule.kind \in {"move", "symlink", "mkdirs"}
    BY DEF ArrangeInv, Finished
  <1>2. rule \in Rules
    BY <1>1 DEF NoRule
  <1>3. CASE rule.kind = "move"
    <2>1. Applied("move") /\ rule.target \in Seq(Name) \ {<<>>}
      BY <1>1, <1>2, <1>3, TransformationAssumption DEF Applied
    <2>2. CASE names = {}
      <3>1. RenamedTo(before, tree, target, rule.target, handled)
        BY <2>1, <2>2 DEF ArrangeInv, RenamedState
      <3> QED
        BY <1>3, <2>1, <2>2, <3>1, RenamedIsArranged
    <2>3. CASE names # {}
      <3>1. left = {} /\ MovedSoFar(before, tree, left, target, rule.target, names, handled)
        BY <2>1, <2>3 DEF ArrangeInv, MovingState
      <3> QED
        BY <1>3, <2>1, <2>3, <3>1, MovedIsArranged
    <2> QED
      BY <2>2, <2>3
  <1>4. CASE rule.kind = "symlink"
    <2>1. Applied("symlink") /\ rule.path \in Seq(Name)
      BY <1>1, <1>2, <1>4, TransformationAssumption DEF Applied
    <2>2. handled = {} /\ Touched(before, tree, {}, <<>>, {rule.path}, {rule.path})
      BY <2>1 DEF ArrangeInv, LinkedState
    <2>3. Overlaps = {rule.path} /\ Destinations = {rule.path}
      BY <1>4 DEF Overlaps, Destinations
    <2>4. Touched(before, tree, {}, <<>>, Overlaps, Destinations)
      BY <2>2, <2>3
    <2>5. Arranged({}, <<>>)
      BY <2>1, <2>2, <2>3, <2>4 DEF Arranged
    <2> QED
      BY <2>5
  <1>5. CASE rule.kind = "mkdirs"
    <2>1. Applied("mkdirs") /\ rule.paths \in Seq(Seq(Name))
      BY <1>1, <1>2, <1>5, TransformationAssumption DEF Applied
    <2>2. /\ handled = {} /\ InOrder(before) /\ Grown(before, tree)
          /\ NewAbove(before, tree, Range(rule.paths))
      BY <2>1 DEF ArrangeInv, MadeState
    <2>3. Overlaps = {} /\ Destinations = Range(rule.paths)
      BY <1>5 DEF Overlaps, Destinations
    <2>4. Touched(before, tree, {}, <<>>, Overlaps, Destinations)
      BY <2>2, <2>3, MadeTouches
    <2>5. Destinations \subseteq Seq(Name)
      BY <2>1, <2>3 DEF Range
    <2>6. Arranged({}, <<>>)
      BY <2>2, <2>3, <2>4, <2>5 DEF Arranged
    <2> QED
      BY <2>6
  <1> QED
    BY <1>1, <1>3, <1>4, <1>5

\* A rule that has not arranged anything yet, or has raised.
LEMMA NothingArranged ==
    ASSUME RulesInv', pc' \in {"failed", "remove"} \/
                      (pc' = "done" /\ (rule'.kind = "remove" \/ ~ rule'.applies))
    PROVE  ArrangeInv'
  <1>1. pc' \notin {"target", "rename", "move", "mkdirs"}
    OBVIOUS
  <1>2. ~ (pc' = "done" /\ rule'.kind = "move" /\ rule'.applies)
        /\ ~ (pc' = "done" /\ rule'.kind = "symlink" /\ rule'.applies)
        /\ ~ (pc' = "done" /\ rule'.kind = "mkdirs" /\ rule'.applies)
    OBVIOUS
  <1>3. SearchState' /\ RenameState' /\ MovingState' /\ RenamedState' /\ LinkedState' /\ MadeState'
    BY <1>1, <1>2 DEF SearchState, RenameState, MovingState, RenamedState, LinkedState, MadeState,
                      Applied
  <1> QED
    BY <1>3 DEF ArrangeInv, RulesInv

LEMMA StartMoveArranges ==
    ASSUME RulesInv, RulesInv', NEW r \in Rules, StartMove(r)
    PROVE  ArrangeInv'
  <1>1. /\ tree' = tree /\ before' = tree /\ handled' = {} /\ names' = {}
        /\ pc' = "failed" \/ pc' = "target"
    BY DEF StartMove, Run
  <1>2. CASE pc' = "failed"
    BY <1>2, NothingArranged
  <1>3. CASE pc' = "target"
    <2>1. SearchState' /\ RenameState' /\ MovingState' /\ RenamedState' /\ LinkedState' /\ MadeState'
      BY <1>1, <1>3 DEF SearchState, RenameState, MovingState, RenamedState, LinkedState, MadeState,
                        Applied
    <2> QED
      BY <2>1 DEF ArrangeInv, RulesInv
  <1> QED
    BY <1>1, <1>2, <1>3

\* Directories were made above what is at or below the last of them.
LEMMA EnsuredIsMade ==
    ASSUME NEW t, NEW q, NEW p, RoomToGo(t, q, p), NEW u, NEW e, Ensured(t, p, Len(p), u, e),
           NEW d \in Attached(u), Below(u, d, e)
    PROVE  MadeFor(t, u, d, q) /\ Trail(u)[e] = p
  <1>1. /\ Grown(t, u) /\ InOrder(t) /\ TreeInv(u) /\ e \in Attached(u)
        /\ p \in Seq(Name) /\ Len(p) \in Nat /\ Len(q) \in Nat
        /\ Len(p) <= Len(q) /\ \A i \in 1 .. Len(p) : Beginning(p, i) = Beginning(q, i)
    BY DEF RoomToGo, Ensured, Grown, NoReturn, InOrder
  <1>2. Trail(u)[e] = p
    <2>1. Trail(u)[e] = Beginning(p, Len(p))
      BY DEF Ensured
    <2>2. Beginning(p, Len(p)) = p
      BY <1>1 DEF Beginning
    <2> QED
      BY <2>1, <2>2
  <1>3. ASSUME NEW x \in Attached(u) \ Attached(t)
        PROVE  Below(u, d, x) /\ \E j \in 1 .. Len(q) : Trail(u)[x] = Beginning(q, j)
    <2>1. PICK j \in 1 .. Len(p) : Trail(u)[x] = Beginning(p, j)
      BY DEF Ensured
    <2>2. j \in 1 .. Len(q) /\ Trail(u)[x] = Beginning(q, j)
      BY <1>1, <2>1
    <2>3. Begins(Trail(u)[x], Trail(u)[e])
      <3>1. Beginning(p, j) = p \/ IsStrictPrefix(Beginning(p, j), p)
        BY <1>1, BeginningLeadsTo
      <3>2. IsPrefix(Beginning(p, j), p)
        <4>1. IsPrefix(p, p)
          BY <1>1, BeginsAppend, BeginsIsPrefix, NodeAssumption
        <4> QED
          BY <3>1, <4>1 DEF IsStrictPrefix
      <3> QED
        BY <1>2, <2>1, <3>2, BeginsIsPrefix
    <2>4. Below(u, e, x)
      BY <1>1, <2>3, BelowIsPrefix DEF Below
    <2>5. Below(u, d, x)
      BY <2>4, BelowTrans
    <2> QED
      BY <2>2, <2>5
  <1>4. NewAbove(t, u, {q})
    BY <1>3 DEF NewAbove
  <1>5. MadeFor(t, u, d, q)
    BY <1>1, <1>3, <1>4 DEF MadeFor
  <1> QED
    BY <1>2, <1>5

\* Nothing is moved yet.
LEMMA RelocatedNothing ==
    ASSUME NEW s, InOrder(s), NEW d \in Attached(s)
    PROVE  Relocated(s, s, {}, d, {})
  BY DEF Relocated

LEMMA MovingBegins ==
    ASSUME NEW b, NEW s, NEW d, NEW T, MadeFor(b, s, d, T), Trail(s)[d] = T, d \in Attached(s),
           NEW l \in SUBSET Attached(b), NEW H, H = {Trail(b)[m] : m \in l}
    PROVE  MovedSoFar(b, s, l, d, T, {}, H)
  <1>1. InOrder(s)
    BY DEF MadeFor, Grown, NoReturn
  <1>2. Relocated(s, s, {}, d, {})
    BY <1>1, RelocatedNothing
  <1>3. H = {Trail(b)[m] : m \in {} \cup l} /\ {} = {s.name[m] : m \in {}}
    OBVIOUS
  <1>4. \E M : /\ MadeFor(b, s, d, T) /\ Trail(s)[d] = T
               /\ Relocated(s, s, M, d, {})
               /\ M \subseteq Attached(b) /\ l \subseteq Attached(b)
               /\ H = {Trail(b)[m] : m \in M \cup l}
               /\ {} = {s.name[m] : m \in M} /\ \A m \in M : s.name[m] = b.name[m]
    <2> WITNESS {}
    <2> QED
      BY <1>2, <1>3
  <1> QED
    BY <1>4 DEF MovedSoFar

\* The directory in which the name is to be found or made.
LEMMA FrontIs ==
    ASSUME NEW q \in Seq(Name) \ {<<>>}
    PROVE  /\ Front(q) \in Seq(Name) /\ Last(q) \in Name /\ Len(Front(q)) = Len(q) - 1
           /\ q = Append(Front(q), Last(q)) /\ Beginning(q, Len(q)) = q /\ Len(q) \in 1 .. Len(q)
  <1>1. Len(q) \in Nat /\ Len(q) # 0 /\ Len(q) \in 0 .. Len(q)
    BY EmptySeq
  <1>2. Beginning(q, Len(q)) = q
    BY <1>1 DEF Beginning
  <1>3. /\ Front(q) = Beginning(q, Len(q) - 1) /\ Last(q) = q[Len(q)]
        /\ q = Append(Beginning(q, Len(q) - 1), q[Len(q)])
    BY <1>1, <1>2, BeginningIs
  <1>4. Len(q) - 1 \in 0 .. Len(q) /\ Len(q) \in 1 .. Len(q)
    BY <1>1
  <1>5. Beginning(q, Len(q) - 1) \in Seq(Name) /\ Len(Beginning(q, Len(q) - 1)) = Len(q) - 1
    BY <1>4, BeginningIs
  <1> QED
    BY <1>2, <1>3, <1>4, <1>5

LEMMA FindTargetArranges ==
    ASSUME RulesInv, ArrangeInv, RulesInv', FindTarget
    PROVE  ArrangeInv'
  <1> DEFINE T == rule.target
             into == EnsureIsDirectory(tree, T)
             parent == EnsureIsDirectory(tree, Front(T))
             existing == parent.tree.child[parent.dir][Last(T)]
  <1>1. pc = "target" /\ tree = before /\ handled = {} /\ names = {}
    BY DEF FindTarget, ArrangeInv, SearchState
  <1>2. /\ rule \in Rules /\ rule.kind = "move" /\ left \subseteq Attached(tree)
        /\ RoomFor(tree, T) /\ InOrder(tree)
    BY <1>1 DEF RulesInv, MoveState
  <1>3. T \in Seq(Name) /\ T # <<>>
    BY <1>2, TransformationAssumption
  <1>4. RoomToGo(tree, T, T) /\ RoomToGo(tree, T, Front(T))
    BY <1>2, <1>3, RoomForBeginnings
  <1>5. \/ Raise
        \/ /\ rule' = rule /\ left' = left /\ before' = before /\ names' = names
           /\ handled' = handled \cup {Trail(before)[n] : n \in left}
           /\ \/ into.dir # NoNode /\ tree' = into.tree /\ target' = into.dir /\ pc' = "move"
              \/ /\ parent.dir # NoNode /\ tree' = parent.tree
                 /\ \/ existing # NoNode /\ target' = existing /\ pc' = "move"
                    \/ target' = parent.dir /\ pc' = "rename"
    BY DEF FindTarget, Goto, Handle
  <1> HIDE DEF into, parent, existing
  <1>6. CASE Raise
    BY <1>6, NothingArranged DEF Raise, Goto
  <1>7. CASE /\ rule' = rule /\ left' = left /\ before' = before /\ names' = names
             /\ handled' = handled \cup {Trail(before)[n] : n \in left}
             /\ \/ into.dir # NoNode /\ tree' = into.tree /\ target' = into.dir /\ pc' = "move"
                \/ /\ parent.dir # NoNode /\ tree' = parent.tree
                   /\ \/ existing # NoNode /\ target' = existing /\ pc' = "move"
                      \/ target' = parent.dir /\ pc' = "rename"
    <2>1. left \in SUBSET Attached(before) /\ handled' = {Trail(before)[n] : n \in left}
      BY <1>1, <1>2, <1>7
    <2>2. ASSUME pc' = "move", MadeFor(before, tree', target', T), Trail(tree')[target'] = T,
                 target' \in Attached(tree')
          PROVE  ArrangeInv'
      <3>1. MovedSoFar(before, tree', left, target', T, {}, handled')
        BY <2>1, <2>2, MovingBegins
      <3>2. MovingState'
        <4>1. ~ Applied("move")'
          BY <2>2 DEF Applied
        <4> QED
          BY <1>1, <1>7, <3>1, <4>1 DEF MovingState
      <3>3. SearchState' /\ RenameState' /\ RenamedState' /\ LinkedState' /\ MadeState'
        BY <2>2 DEF SearchState, RenameState, RenamedState, LinkedState, MadeState, Applied
      <3> QED
        BY <3>2, <3>3 DEF ArrangeInv, RulesInv
    <2>3. CASE into.dir # NoNode /\ tree' = into.tree /\ target' = into.dir /\ pc' = "move"
      <3>1. Ensured(tree, T, Len(T), into.tree, into.dir) /\ into.dir \in Attached(into.tree)
        BY <1>4, <2>3, EnsuredIs DEF into
      <3>2. Below(into.tree, into.dir, into.dir)
        BY BelowItself
      <3>3. MadeFor(tree, into.tree, into.dir, T) /\ Trail(into.tree)[into.dir] = T
        <4> HIDE DEF T
        <4> QED
          BY <1>4, <3>1, <3>2, EnsuredIsMade
      <3> QED
        BY <1>1, <2>2, <2>3, <3>1, <3>3
    <2>4. ASSUME parent.dir # NoNode, NEW d \in Attached(parent.tree),
                 Below(parent.tree, d, parent.dir)
          PROVE  MadeFor(tree, parent.tree, d, T) /\ Trail(parent.tree)[parent.dir] = Front(T)
      <3>1. Ensured(tree, Front(T), Len(Front(T)), parent.tree, parent.dir)
        BY <1>4, <2>4, EnsuredIs DEF parent
      <3> HIDE DEF T
      <3> QED
        BY <1>4, <2>4, <3>1, EnsuredIsMade
    <2>5. parent.dir # NoNode => parent.dir \in Attached(parent.tree) /\ TreeInv(parent.tree)
      BY <1>4, EnsuredIs DEF parent
    <2>6. CASE /\ parent.dir # NoNode /\ tree' = parent.tree
               /\ existing # NoNode /\ target' = existing /\ pc' = "move"
      <3>1. Last(T) \in Name /\ T = Append(Front(T), Last(T))
        BY <1>3, FrontIs
      <3>2. existing \in Attached(parent.tree) /\ parent.tree.parent[existing] = parent.dir
        BY <2>5, <2>6, <3>1 DEF TreeInv, Sound, existing
      <3>3. Below(parent.tree, existing, parent.dir)
        BY <2>6, <3>2, BelowUp, BelowItself DEF Attached
      <3>4. MadeFor(tree, parent.tree, existing, T) /\ Trail(parent.tree)[parent.dir] = Front(T)
        BY <2>4, <2>6, <3>2, <3>3
      <3>5. Trail(parent.tree)[existing] = Append(Trail(parent.tree)[parent.dir], Last(T))
        BY <2>5, <2>6, <3>1, ChildPath DEF existing
      <3> QED
        BY <1>1, <2>2, <2>6, <3>1, <3>2, <3>4, <3>5
    <2>7. CASE parent.dir # NoNode /\ tree' = parent.tree /\ target' = parent.dir /\ pc' = "rename"
      <3>1. MadeFor(tree, parent.tree, parent.dir, T) /\ Trail(parent.tree)[parent.dir] = Front(T)
        BY <2>4, <2>5, <2>7, BelowItself
      <3>2. RenameState'
        BY <1>1, <1>7, <2>1, <2>7, <3>1 DEF RenameState
      <3>3. SearchState' /\ MovingState' /\ RenamedState' /\ LinkedState' /\ MadeState'
        BY <2>7 DEF SearchState, MovingState, RenamedState, LinkedState, MadeState, Applied
      <3> QED
        BY <3>2, <3>3 DEF ArrangeInv, RulesInv
    <2> QED
      BY <1>7, <2>3, <2>6, <2>7
  <1> QED
    BY <1>5, <1>6, <1>7

\* One more match was moved.
LEMMA OneMoreMoved ==
    ASSUME NEW b, NEW t, NEW l, NEW d, NEW T, NEW K, NEW H, MovedSoFar(b, t, l, d, T, K, H),
           NEW m \in l, m \in Attached(t) \ {Root}, t.name[m] \notin K,
           NEW u, Placed(t, u, m, d, t.name[m]), NoReturn(t, u), u.kind = t.kind, u.name = t.name,
           NEW L, L = K \cup {t.name[m]}
    PROVE  MovedSoFar(b, u, l \ {m}, d, T, L, H)
  <1>1. PICK s, M :
            /\ MadeFor(b, s, d, T) /\ Trail(s)[d] = T
            /\ Relocated(s, t, M, d, K)
            /\ M \subseteq Attached(b) /\ l \subseteq Attached(b)
            /\ H = {Trail(b)[o] : o \in M \cup l}
            /\ K = {t.name[o] : o \in M} /\ \A o \in M : t.name[o] = b.name[o]
    BY DEF MovedSoFar
  <1>2. m \notin M
    BY <1>1
  <1>3. Relocated(s, u, M \cup {m}, d, K \cup {t.name[m]})
    <2>1. \A y \in M \ {m} : t.name[y] # t.name[m]
      BY <1>1
    <2> QED
      BY <1>1, <2>1, OneMore
  <1>4. t.name[m] = b.name[m]
    <2>1. t.name[m] = s.name[m]
      <3>1. m \in Attached(s)
        BY <1>1, RelocatedTrees
      <3> QED
        BY <1>1, <1>2, <3>1 DEF Relocated
    <2>2. m \in Born(b) /\ Grown(b, s)
      BY <1>1 DEF Attached, MadeFor
    <2>3. s.name[m] = b.name[m]
      BY <2>2 DEF Grown
    <2> QED
      BY <2>1, <2>3
  <1>5. /\ (M \cup {m}) \cup (l \ {m}) = M \cup l
        /\ M \cup {m} \subseteq Attached(b) /\ l \ {m} \subseteq Attached(b)
    BY <1>1
  <1>6. /\ L = {u.name[o] : o \in M \cup {m}}
        /\ \A o \in M \cup {m} : u.name[o] = b.name[o]
    BY <1>1, <1>4
  <1>7. H = {Trail(b)[o] : o \in (M \cup {m}) \cup (l \ {m})}
    BY <1>1, <1>5
  <1>8. \E N : /\ MadeFor(b, s, d, T) /\ Trail(s)[d] = T
               /\ Relocated(s, u, N, d, L)
               /\ N \subseteq Attached(b) /\ l \ {m} \subseteq Attached(b)
               /\ H = {Trail(b)[o] : o \in N \cup (l \ {m})}
               /\ L = {u.name[o] : o \in N} /\ \A o \in N : u.name[o] = b.name[o]
    <2> WITNESS M \cup {m}
    <2> QED
      BY <1>1, <1>3, <1>5, <1>6, <1>7
  <1> QED
    BY <1>8 DEF MovedSoFar

LEMMA MoveMatchArranges ==
    ASSUME RulesInv, ArrangeInv, RulesInv', NEW m \in Node, MoveMatch(m)
    PROVE  ArrangeInv'
  <1>1. CASE m = Root \/ ~ MayMove(m) \/ InItself(m)
    <2>1. Raise
      BY <1>1 DEF MoveMatch
    <2> QED
      BY <2>1, NothingArranged DEF Raise, Goto
  <1>2. CASE ~ (m = Root \/ ~ MayMove(m) \/ InItself(m))
    <2> DEFINE u == SetParent(tree, m, target)
    <2>1. /\ tree' = u /\ rule' = rule /\ pc = "move" /\ m \in left
          /\ m # Root /\ MayMove(m) /\ ~ Below(tree, target, m)
          /\ names' = names \cup {tree.name[m]} /\ left' = left \ {m} /\ target' = target
          /\ pc' = IF left' = {} THEN "done" ELSE "move"
          /\ before' = before /\ handled' = handled
      BY <1>2 DEF MoveMatch, NextOf, Goto, InItself
    <2>2. /\ rule \in Rules /\ rule.kind = "move" /\ InOrder(tree) /\ TreeInv(tree) /\ Rooted(tree)
          /\ target \in Attached(tree) /\ IsDir(tree, target)
          /\ left \subseteq Born(tree)
          /\ \A o \in left \ Attached(tree) : tree.last[o] = NoPath \/ tree.name[o] \in names
      BY <2>1 DEF RulesInv, MoveState, InOrder, TreeInv, Sound
    <2>3. m \in Attached(tree) /\ tree.name[m] \notin names
      <3>1. PathOf(tree)[m] # NoPath /\ tree.name[m] \notin names
        BY <2>1 DEF MayMove
      <3> QED
        BY <2>1, <2>2, <3>1, NoPathBelowLost
    <2>4. target \in Beside(tree, m)
      BY <2>1, <2>2 DEF Beside, Below
    <2>5. NoReturn(tree, u) /\ u.kind = tree.kind /\ u.name = tree.name
      BY <2>1, <2>2, <2>3, <2>4, MoveIsInOrder
    <2>6. Placed(tree, u, m, target, tree.name[m])
      BY <2>1, <2>2, <2>3, <2>4, MovePlaces
    <2> HIDE DEF u
    <2>7. MovedSoFar(before, tree, left, target, rule.target, names, handled)
      BY <2>1 DEF ArrangeInv, MovingState
    <2>8. MovedSoFar(before, u, left \ {m}, target, rule.target, names', handled)
      BY <2>1, <2>3, <2>5, <2>6, <2>7, OneMoreMoved
    <2>9. MovingState'
      <3>1. Applied("move")' => left' = {}
        BY <2>1 DEF Applied
      <3> QED
        BY <2>1, <2>8, <3>1 DEF MovingState
    <2>10. RenamedState'
      BY <2>1 DEF RenamedState
    <2>11. SearchState' /\ RenameState' /\ LinkedState' /\ MadeState'
      BY <2>1, <2>2 DEF SearchState, RenameState, LinkedState, MadeState, Applied
    <2> QED
      BY <2>9, <2>10, <2>11 DEF ArrangeInv, RulesInv
  <1> QED
    BY <1>1, <1>2

LEMMA OneLeft ==
    ASSUME NEW S \in SUBSET Node, S # {}, ~ Cardinality(S) > 1
    PROVE  S = {CHOOSE p \in S : TRUE}
  <1>1. IsFiniteSet(S) /\ Cardinality(S) \in Nat
    BY NodeAssumption, FS_Subset, FS_CardinalityType
  <1>2. Cardinality(S) # 0
    BY <1>1, FS_EmptySet
  <1>3. Cardinality(S) = 1
    BY <1>1, <1>2
  <1>4. PICK x : S = {x}
    BY <1>1, <1>3, FS_Singleton
  <1> QED
    BY <1>4

\* A move followed by a rename.
LEMMA RenamedArrives ==
    ASSUME NEW t, InOrder(t), NEW p \in Attached(t) \ {Root}, NEW d \in Beside(t, p), IsDir(t, d),
           NEW k \in Name
    PROVE  LET u == Renamed(t, p, d, k)
           IN  Relocated(t, u, {p}, d, {t.name[p], k}) /\ u.name[p] = k
  <1> DEFINE v == SetParent(t, p, d)
             u == Rename(v, p, k)
             M == {p}
             K == {t.name[p]}
  <1>1. TreeInv(t) /\ d \in Attached(t) /\ p \in Born(t) /\ p \in Node /\ t.name[p] \in Name
    BY DEF InOrder, TreeInv, Sound, Rooted, Trees, Beside, Attached, Born
  <1>2. Placed(t, v, p, d, t.name[p]) /\ v.kind = t.kind /\ v.name = t.name /\ NoReturn(t, v)
    BY <1>1, MovePlaces, MoveIsInOrder
  <1> HIDE DEF v
  <1>3. Relocated(t, v, M, d, K)
    <2>1. Relocated(t, t, {}, d, {})
      BY <1>1, RelocatedNothing
    <2>2. Relocated(t, v, {} \cup {p}, d, {} \cup {t.name[p]})
      BY <1>2, <2>1, OneMore
    <2>3. {} \cup {p} = M /\ {} \cup {t.name[p]} = K
      OBVIOUS
    <2> QED
      BY <2>2, <2>3
  <1>4. InOrder(v) /\ TreeInv(v) /\ p \in Born(v) \ {Root}
    BY <1>1, <1>2 DEF NoReturn, InOrder
  <1>5. u = Renamed(t, p, d, k)
    BY DEF Renamed, v
  <1> HIDE DEF u, M, K
  <1>6. CASE k = t.name[p]
    <2>1. u = v
      BY <1>2, <1>6 DEF Rename, u
    <2>2. {t.name[p], k} = K
      BY <1>6 DEF K
    <2> QED
      BY <1>2, <1>3, <1>5, <1>6, <2>1, <2>2 DEF M
  <1>7. CASE k # t.name[p]
    <2>1. v.parent[p] = d
      BY <1>1, <1>2 DEF Placed
    <2>2. p \in Attached(v)
      <3>1. d \in Attached(v) /\ Rooted(v)
        BY <1>3, <1>4 DEF Relocated, TreeInv, Sound
      <3> QED
        BY <1>4, <2>1, <3>1, AttachedUp
    <2>3. Placed(v, u, p, d, k) /\ u.kind = v.kind
      BY <1>2, <1>4, <1>7, <2>1, <2>2, RenamePlaces DEF u
    <2>4. NoReturn(v, u)
      BY <1>4, RenameIsInOrder DEF u
    <2>5. \A y \in M \ {p} : v.name[y] # k
      BY DEF M
    <2>6. Relocated(t, u, M \cup {p}, d, K \cup {k})
      BY <1>3, <2>2, <2>3, <2>4, <2>5, OneMore
    <2>7. M \cup {p} = {p} /\ K \cup {k} = {t.name[p], k}
      BY DEF M, K
    <2>8. u.name[p] = k
      BY <1>1, <2>3 DEF Placed
    <2> QED
      BY <1>5, <2>6, <2>7, <2>8
  <1> QED
    BY <1>6, <1>7

LEMMA RenameMatchArranges ==
    ASSUME RulesInv, ArrangeInv, RulesInv', RenameMatch
    PROVE  ArrangeInv'
  <1> DEFINE p == CHOOSE p \in left : TRUE
             T == rule.target
             k == Last(T)
             u == Renamed(tree, p, target, k)
  <1>1. /\ rule \in Rules /\ rule.kind = "move" /\ left # {} /\ left \subseteq Attached(tree)
        /\ target \in Attached(tree) /\ IsDir(tree, target) /\ InOrder(tree)
    BY DEF RenameMatch, RulesInv, MoveState
  <1>2. /\ MadeFor(before, tree, target, T) /\ Trail(tree)[target] = Front(T)
        /\ left \subseteq Attached(before) /\ handled = {Trail(before)[m] : m \in left} /\ names = {}
    BY DEF RenameMatch, ArrangeInv, RenameState
  <1>3. k \in Name
    <2>1. rule.target \in Seq(Name) /\ rule.target # <<>>
      BY <1>1, TransformationAssumption
    <2> QED
      BY <2>1, FrontIs
  <1>4. \/ Raise
        \/ /\ ~ Cardinality(left) > 1 /\ ~ InItself(p)
           /\ tree' = u /\ left' = {} /\ rule' = rule /\ pc' = "done" /\ before' = before
           /\ names' = names /\ target' = target /\ handled' = handled
    BY DEF RenameMatch, Goto
  <1>5. CASE Raise
    BY <1>5, NothingArranged DEF Raise, Goto
  <1>6. CASE /\ ~ Cardinality(left) > 1 /\ ~ InItself(p)
             /\ tree' = u /\ left' = {} /\ rule' = rule /\ pc' = "done" /\ before' = before
             /\ names' = names /\ target' = target /\ handled' = handled
    <2>1. left = {p}
      <3>1. left \in SUBSET Node
        BY <1>1 DEF Attached, Born
      <3> QED
        BY <1>1, <1>6, <3>1, OneLeft
    <2>2. p \in Attached(tree) \ {Root} /\ target \in Beside(tree, p)
      BY <1>1, <1>6, <2>1 DEF InItself, Below, Beside
    <2> HIDE DEF p, k
    <2>3. Relocated(tree, u, {p}, target, {tree.name[p], k}) /\ u.name[p] = k
      BY <1>1, <1>3, <2>2, RenamedArrives
    <2> HIDE DEF u, T
    <2>4. p \in Attached(before) /\ tree.name[p] = before.name[p]
      <3>1. p \in Attached(before) /\ Grown(before, tree)
        BY <1>2, <2>1 DEF MadeFor
      <3> QED
        BY <3>1 DEF Grown, Attached
    <2>5. handled = {Trail(before)[p]}
      BY <1>2, <2>1
    <2>6. Relocated(tree, u, {p}, target, {before.name[p], Last(T)}) /\ u.name[p] = Last(T)
      BY <2>3, <2>4 DEF k
    <2>7. RenamedTo(before, u, target, T, handled)
      BY <1>2, <2>4, <2>5, <2>6 DEF RenamedTo
    <2>8. RenamedState' /\ MovingState'
      BY <1>2, <1>6, <2>7 DEF RenamedState, MovingState, T
    <2>9. SearchState' /\ RenameState' /\ LinkedState' /\ MadeState'
      BY <1>1, <1>6 DEF SearchState, RenameState, LinkedState, MadeState, Applied
    <2> QED
      BY <2>8, <2>9 DEF ArrangeInv, RulesInv
  <1> QED
    BY <1>4, <1>5, <1>6

LEMMA StartDirectoriesArranges ==
    ASSUME RulesInv, RulesInv', NEW r \in Rules, StartDirectories(r)
    PROVE  ArrangeInv'
  <1>1. /\ tree' = tree /\ before' = tree /\ handled' = {} /\ pc' = "mkdirs" /\ InOrder(tree)
    BY DEF StartDirectories, Run, RulesInv
  <1>2. Grown(tree, tree)
    BY <1>1, NoReturnSelf DEF Grown
  <1>3. NewAbove(tree, tree, Range(rule'.paths))
    BY DEF NewAbove
  <1>4. MadeState'
    BY <1>1, <1>2, <1>3 DEF MadeState
  <1>5. SearchState' /\ RenameState' /\ MovingState' /\ RenamedState' /\ LinkedState'
    BY <1>1 DEF SearchState, RenameState, MovingState, RenamedState, LinkedState, Applied
  <1> QED
    BY <1>4, <1>5 DEF ArrangeInv, RulesInv

LEMMA CreateDirectoryArranges ==
    ASSUME RulesInv, ArrangeInv, RulesInv', CreateDirectory
    PROVE  ArrangeInv'
  <1> DEFINE p == rule.paths[pattern + 1]
             ensured == EnsureIsDirectory(tree, p)
             Q == Range(rule.paths)
  <1>1. /\ rule \in Rules /\ rule.kind = "mkdirs" /\ pattern \in Nat /\ InOrder(tree)
        /\ pattern < Len(rule.paths) /\ MayMake(p) /\ pc = "mkdirs"
    BY DEF CreateDirectory, RulesInv, DirectoriesState
  <1>2. p \in Seq(Name) /\ p \in Q
    <2>1. rule.paths \in Seq(Seq(Name))
      BY <1>1, TransformationAssumption
    <2>2. pattern + 1 \in 1 .. Len(rule.paths)
      BY <1>1, <2>1
    <2> QED
      BY <2>1, <2>2 DEF Range
  <1>3. /\ handled = {} /\ InOrder(before) /\ Grown(before, tree) /\ NewAbove(before, tree, Q)
    BY <1>1 DEF ArrangeInv, MadeState
  <1>4. \/ Raise
        \/ /\ ensured.dir # NoNode /\ tree' = ensured.tree /\ rule' = rule /\ pattern' = pattern + 1
           /\ pc' \in {"done", "mkdirs"} /\ before' = before /\ handled' = handled
    BY DEF CreateDirectory, Goto
  <1> HIDE DEF p
  <1>5. CASE Raise
    BY <1>5, NothingArranged DEF Raise, Goto
  <1>6. CASE /\ ensured.dir # NoNode /\ tree' = ensured.tree /\ rule' = rule /\ pattern' = pattern + 1
             /\ pc' \in {"done", "mkdirs"} /\ before' = before /\ handled' = handled
    <2>1. tree \in Trees
      BY <1>1 DEF InOrder, TreeInv, Sound, Rooted
    <2>2. RoomFor(tree, p)
      BY <1>1, <1>2, <2>1, RoomIsEnough DEF MayMake
    <2>3. RoomToGo(tree, p, p)
      BY <1>1, <1>2, <2>2 DEF RoomToGo
    <2>4. Ensured(tree, p, Len(p), ensured.tree, ensured.dir)
      BY <1>6, <2>3, EnsuredIs
    <2>5. MadeFor(tree, ensured.tree, ensured.dir, p)
      <3>1. ensured.dir \in Attached(ensured.tree)
        BY <2>4 DEF Ensured
      <3> HIDE DEF ensured
      <3> QED
        BY <2>3, <2>4, <3>1, BelowItself, EnsuredIsMade
    <2> HIDE DEF ensured, Q
    <2>6. Grown(tree, ensured.tree) /\ NewAbove(tree, ensured.tree, {p})
      BY <2>5 DEF MadeFor
    <2>7. Grown(before, ensured.tree)
      BY <1>3, <2>6, GrownTrans
    <2>8. NewAbove(before, ensured.tree, Q)
      <3> SUFFICES ASSUME NEW x \in Attached(ensured.tree) \ Attached(before)
                   PROVE  \E q \in Q : \E j \in 1 .. Len(q) : Trail(ensured.tree)[x] = Beginning(q, j)
        BY DEF NewAbove
      <3>1. CASE x \in Attached(tree)
        <4>1. PICK q \in Q : \E j \in 1 .. Len(q) : Trail(tree)[x] = Beginning(q, j)
          BY <1>3, <3>1 DEF NewAbove
        <4>2. Trail(ensured.tree)[x] = Trail(tree)[x]
          BY <2>6, <3>1 DEF Grown
        <4> QED
          BY <4>1, <4>2
      <3>2. CASE x \notin Attached(tree)
        BY <1>2, <2>6, <3>2 DEF NewAbove
      <3> QED
        BY <3>1, <3>2
    <2>9. MadeState'
      BY <1>3, <1>6, <2>7, <2>8 DEF MadeState, Q
    <2>10. SearchState' /\ RenameState' /\ MovingState' /\ RenamedState' /\ LinkedState'
      BY <1>1, <1>6 DEF SearchState, RenameState, MovingState, RenamedState, LinkedState, Applied
    <2> QED
      BY <2>9, <2>10 DEF ArrangeInv, RulesInv
  <1> QED
    BY <1>4, <1>5, <1>6

\* A link that replaces what was at its path, in a package that got directories
\* above it.
LEMMA LinkTouches ==
    ASSUME NEW b, InOrder(b), NEW q \in Seq(Name) \ {<<>>}, NEW v, Grown(b, v), NewAbove(b, v, {q}),
           NEW d \in Attached(v), Trail(v)[d] = Front(q),
           NEW w, InOrder(w), Unborn(w) # {}, d \in Attached(w), IsDir(w, d),
           w.child[d][Last(q)] = NoNode, Trail(w)[d] = Trail(v)[d],
           \A x \in Attached(v) : x \in Attached(w) <=> ~ Begins(q, Trail(v)[x]),
           Attached(w) \subseteq Attached(v), \A x \in Attached(w) : Trail(w)[x] = Trail(v)[x]
    PROVE  Touched(b, Create(w, d, Last(q), "symlink"), {}, <<>>, {q}, {q})
  <1> DEFINE k == Last(q)
             u == Create(w, d, k, "symlink")
             n == Fresh(w)
  <1>1. k \in Name /\ q = Append(Front(q), k) /\ Beginning(q, Len(q)) = q /\ Len(q) \in 1 .. Len(q)
    BY FrontIs
  <1>2. Grown(w, u) /\ Added(w, u, n, d, k)
    BY <1>1, CreateGrows
  <1> HIDE DEF u, n, k
  <1>3. /\ TreeInv(b) /\ TreeInv(u) /\ Attached(b) \subseteq Attached(v)
        /\ \A x \in Attached(b) : Trail(v)[x] = Trail(b)[x]
    BY <1>2 DEF Grown, NoReturn, InOrder
  <1>4. /\ Attached(u) = Attached(w) \cup {n} /\ Trail(u)[n] = q
        /\ \A x \in Attached(w) : Trail(u)[x] = Trail(w)[x]
    BY <1>1, <1>2 DEF Added, Grown
  <1>5. \A x \in Attached(b) : (\A o \in {q} : ~ Begins(o, Trail(b)[x])) =>
            x \in Attached(u) /\ Trail(u)[x] = Trail(b)[x]
    BY <1>3, <1>4
  <1>6. ASSUME NEW x \in Attached(u)
        PROVE  \/ x \in Attached(b) /\ \A o \in {q} : ~ Begins(o, Trail(b)[x])
               \/ \E j \in 1 .. Len(q) : Trail(u)[x] = Beginning(q, j)
    <2>1. CASE x = n
      BY <1>1, <1>4, <2>1
    <2>2. CASE x \in Attached(w) /\ x \in Attached(b)
      BY <1>3, <2>2
    <2>3. CASE x \in Attached(w) /\ x \notin Attached(b)
      <3>1. \E j \in 1 .. Len(q) : Trail(v)[x] = Beginning(q, j)
        BY <2>3 DEF NewAbove
      <3> QED
        BY <1>4, <2>3, <3>1
    <2> QED
      BY <1>4, <2>1, <2>2, <2>3
  <1>7. \A x, m : ~ Nearest(b, {}, x, m)
    BY DEF Nearest
  <1>8. Touched(b, u, {}, <<>>, {q}, {q})
    BY <1>3, <1>5, <1>6, <1>7 DEF Touched
  <1> QED
    BY <1>8 DEF u, k

LEMMA CreateSymlinkArranges ==
    ASSUME RulesInv, RulesInv', NEW r \in Rules, CreateSymlink(r)
    PROVE  ArrangeInv'
  <1> DEFINE q == Append(Front(r.path), "?")
             k == Last(r.path)
             F == Front(r.path)
             e == EnsureIsDirectory(tree, F)
             c == e.tree.child[e.dir][k]
             cleared == IF c = NoNode THEN e.tree ELSE Unlinked(e.tree, c)
             u == Create(cleared, e.dir, k, "symlink")
  <1>1. /\ rule' = r /\ r.kind = "symlink" /\ MayMake(q) /\ before' = tree /\ handled' = {}
        /\ \/ pc' = "failed"
           \/ pc' = "done" /\ e.dir # NoNode /\ tree' = u
    BY DEF CreateSymlink, Run
  <1>2. InOrder(tree) /\ r.path \in Seq(Name) \ {<<>>}
    BY <1>1, TransformationAssumption DEF RulesInv
  <1>3. /\ F \in Seq(Name) /\ k \in Name /\ Len(F) = Len(r.path) - 1 /\ r.path = Append(F, k)
        /\ Len(r.path) \in 1 .. Len(r.path) /\ Beginning(r.path, Len(r.path)) = r.path
    BY <1>2, FrontIs
  <1> HIDE DEF k
  <1>4. CASE pc' = "failed"
    BY <1>4, NothingArranged
  <1>5. CASE pc' = "done" /\ e.dir # NoNode /\ tree' = u
    <2>1. RoomToGo(tree, q, F) /\ Len(q) = Len(F) + 1 /\ Cardinality(Unborn(tree)) >= 1
      BY <1>1, <1>2, RoomForLink DEF MayMake
    <2>2. /\ Ensured(tree, F, Len(F), e.tree, e.dir)
          /\ Grown(tree, e.tree) /\ InOrder(e.tree) /\ TreeInv(e.tree) /\ e.dir \in Attached(e.tree)
          /\ IsDir(e.tree, e.dir)
          /\ e.tree = tree \/ Cardinality(Unborn(e.tree)) >= Len(q) - Len(F)
      BY <1>5, <2>1, EnsuredIs
    <2> HIDE DEF e, q, F
    <2>3. Unborn(e.tree) # {}
      <3>1. Len(F) \in Nat
        BY <1>3
      <3>2. Cardinality(Unborn(e.tree)) >= 1
        BY <2>1, <2>2, <3>1
      <3> QED
        BY <3>2, FS_EmptySet
    <2>4. Trail(e.tree)[e.dir] = F /\ NewAbove(tree, e.tree, {r.path})
      <3>1. Trail(e.tree)[e.dir] = F
        BY <2>1, <2>2, BelowItself, EnsuredIsMade
      <3>2. ASSUME NEW x \in Attached(e.tree) \ Attached(tree)
            PROVE  \E j \in 1 .. Len(r.path) : Trail(e.tree)[x] = Beginning(r.path, j)
        <4>1. PICK j \in 1 .. Len(F) : Trail(e.tree)[x] = Beginning(F, j)
          BY <2>2 DEF Ensured
        <4>2. Len(F) \in Nat /\ Len(r.path) \in Nat /\ j \in 1 .. Len(r.path)
          BY <1>2, <1>3
        <4>3. Beginning(F, j) = Beginning(r.path, j)
          <5>1. /\ Beginning(F, j) = [i \in 1 .. j |-> F[i]]
                /\ Beginning(r.path, j) = [i \in 1 .. j |-> r.path[i]]
            BY <4>2, <1>2, <1>3 DEF Beginning
          <5>2. \A i \in 1 .. Len(F) : F[i] = r.path[i]
            <6>1. F = [i \in 1 .. (Len(r.path) - 1) |-> r.path[i]]
              BY DEF F, Front
            <6> QED
              BY <1>3, <6>1
          <5> QED
            BY <4>2, <5>1, <5>2
        <4> QED
          BY <4>1, <4>2, <4>3
      <3> QED
        BY <3>1, <3>2 DEF NewAbove
    <2>5. /\ c # NoNode => c \in Attached(e.tree)
          /\ \A x \in Attached(e.tree) :
                 Begins(r.path, Trail(e.tree)[x]) <=> c # NoNode /\ ~ Avoids(e.tree, x, c)
      BY <1>3, <2>2, <2>4, ChildPath
    <2>6. /\ InOrder(cleared) /\ Unborn(cleared) # {} /\ e.dir \in Attached(cleared)
          /\ IsDir(cleared, e.dir) /\ cleared.child[e.dir][k] = NoNode
          /\ Attached(cleared) \subseteq Attached(e.tree)
          /\ \A x \in Attached(e.tree) :
                 x \in Attached(cleared) <=> ~ Begins(r.path, Trail(e.tree)[x])
          /\ \A x \in Attached(cleared) : Trail(cleared)[x] = Trail(e.tree)[x]
      <3>1. CASE c = NoNode
        BY <2>2, <2>3, <2>5, <3>1
      <3>2. CASE c # NoNode
        <4>1. /\ c \in Attached(e.tree) \ {Root} /\ cleared = Detach(e.tree, c)
              /\ NoReturn(e.tree, cleared) /\ e.dir \in Attached(cleared) /\ IsDir(cleared, e.dir)
              /\ cleared.child[e.dir][k] = NoNode /\ Unborn(cleared) = Unborn(e.tree)
          BY <1>3, <2>2, <3>2, ClearedIsReady
        <4>2. Shrunk(e.tree, cleared, c)
          BY <2>2, <4>1, DetachShrinks
        <4> HIDE DEF c, cleared
        <4>3. Attached(cleared) = {x \in Attached(e.tree) : Avoids(e.tree, x, c)}
              /\ \A x \in Attached(cleared) : Trail(cleared)[x] = Trail(e.tree)[x]
          BY <4>2 DEF Shrunk, Beside
        <4> QED
          BY <2>3, <2>5, <3>2, <4>1, <4>3 DEF NoReturn
      <3> QED
        BY <3>1, <3>2
    <2> HIDE DEF cleared, c
    <2>7. Touched(tree, u, {}, <<>>, {r.path}, {r.path})
      <3>1. Last(r.path) = k /\ Front(r.path) = F
        BY DEF k, F
      <3>2. Trail(cleared)[e.dir] = Trail(e.tree)[e.dir]
        BY <2>6
      <3> QED
        BY <1>2, <2>2, <2>4, <2>6, <3>1, <3>2, LinkTouches
    <2>8. LinkedState'
      BY <1>1, <1>5, <2>7 DEF LinkedState
    <2>9. SearchState' /\ RenameState' /\ MovingState' /\ RenamedState' /\ MadeState'
      BY <1>1, <1>5 DEF SearchState, RenameState, MovingState, RenamedState, MadeState, Applied
    <2> QED
      BY <2>8, <2>9 DEF ArrangeInv, RulesInv
  <1> QED
    BY <1>1, <1>4, <1>5

\* Removing moves and makes nothing.
LEMMA RemovingArranges ==
    ASSUME RulesInv, RulesInv',
           \/ \E r \in Rules : StartRemove(r) \/ SkipRule(r)
           \/ NextMatchRule \/ NothingToRemove \/ RemoveEnds \/ RemoveRoot
           \/ \E m \in Node : RemoveMatch(m)
    PROVE  ArrangeInv'
  <1>1. CASE \E r \in Rules : StartRemove(r)
    BY <1>1, NothingArranged DEF StartRemove
  <1>2. CASE \E r \in Rules : SkipRule(r)
    BY <1>2, NothingArranged DEF SkipRule, Run
  <1>3. CASE NextMatchRule \/ \E m \in Node : RemoveMatch(m)
    BY <1>3, NothingArranged DEF NextMatchRule, RemoveMatch, Goto
  <1>4. CASE NothingToRemove \/ RemoveRoot
    BY <1>4, NothingArranged DEF NothingToRemove, RemoveRoot, Raise, Goto
  <1>5. CASE RemoveEnds
    <2>1. rule.kind = "remove" /\ rule' = rule /\ pc' = "done"
      BY <1>5 DEF RemoveEnds, Goto, RulesInv, RemovingState, RemovesNow
    <2> QED
      BY <2>1, NothingArranged
  <1> QED
    BY <1>1, <1>2, <1>3, <1>4, <1>5

LEMMA RuleStepArranges ==
    ASSUME RulesInv, ArrangeInv, RulesInv', NextRule
    PROVE  ArrangeInv'
  BY RemovingArranges, StartMoveArranges, CreateSymlinkArranges, StartDirectoriesArranges,
     FindTargetArranges, RenameMatchArranges, MoveMatchArranges, CreateDirectoryArranges
  DEF NextRule

LEMMA RuleStutterArranges ==
    ASSUME ArrangeInv, UNCHANGED ruleVars
    PROVE  ArrangeInv'
  <1>1. /\ tree' = tree /\ rule' = rule /\ pc' = pc /\ left' = left
        /\ target' = target /\ names' = names /\ before' = before /\ handled' = handled
    BY DEF ruleVars, vars, locals
  <1> QED
    BY <1>1 DEF ArrangeInv, SearchState, RenameState, MovingState, RenamedState, LinkedState,
                MadeState, Applied

LEMMA ArrangedInitially ==
    ASSUME InitRules
    PROVE  ArrangeInv
  <1>1. rule = NoRule /\ rule.kind = "none" /\ pc = "done" /\ InOrder(tree)
    BY TransformationAssumption DEF InitRules, NoRule
  <1> QED
    BY <1>1 DEF ArrangeInv, SearchState, RenameState, MovingState, RenamedState, LinkedState,
                MadeState, Applied

\* When a rule that creates or moves something ends, every node is where its path
\* or that of the innermost match above it says, but for what had one of the names
\* at the destination, and nothing else is new but what leads there: whichever
\* match came first, and also when one was in another.
THEOREM NamedIsTouched == RulesSpec => []OnlyTheNamedIsTouched
  <1>1. InitRules => ArrangeInv
    BY ArrangedInitially
  <1>2. RulesInv /\ RulesInv' /\ ArrangeInv /\ [NextRule]_ruleVars => ArrangeInv'
    BY RuleStepArranges, RuleStutterArranges
  <1>3. ArrangeInv => OnlyTheNamedIsTouched
    BY ArrangeInvIsNamed
  <1> QED
    BY <1>1, <1>2, <1>3, RulesKeepOrder, PTL DEF RulesSpec
=============================================================================
